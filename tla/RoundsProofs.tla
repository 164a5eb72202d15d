---------------------------- MODULE RoundsProofs ----------------------------
(***************************************************************************)
(* Proofs about Rounds, for every number of workers, tasks, buckets and    *)
(* rounds.  Each invariant is proved from those before it:                 *)
(*   TypeOK                                                                *)
(*   LeaseInv   leases and submissions, on TypeOK                          *)
(*   ChainInv   rounds and results, on LeaseInv                            *)
(*   BucketInv  the bucket counters, on TypeOK                             *)
(* The first three carry the refinement of RunChain.                       *)
(***************************************************************************)
EXTENDS Rounds, Sequences, TLAPS

\* Only a lease can have lapsed: what ExpireLeases retires is no submission.
LapsedAreLeased == \A t \in lapsed : Leased(t)

LeaseInv ==
  /\ LapsedAreLeased
  /\ OneLeasePerWorkerPerRound
  /\ SubmissionsKeepTheirTask
  /\ AcceptedStepsCoverHeartbeats

ChainInv ==
  /\ RoundsFormAChain
  /\ LeasesDieWithTheirRound
  /\ ResultsAreAccepted

\* No task is ahead of the run.
TasksAreNotAhead == \A t \in Tasks : Issued(t) => tasks[t].round <= currentRound

\* last_round tells which buckets the current round has handed out.
LastRoundIsExact ==
  \A b \in Buckets :
    /\ lastRound[b] <= currentRound
    /\ lastRound[b] = currentRound <=> Handed(b, currentRound)

\* The buckets the current round has handed out are the most trained ones.
HandedAreMostTrained ==
  \A b, c \in Buckets :
    lastRound[b] = currentRound /\ lastRound[c] # currentRound
      => timesTrained[c] <= timesTrained[b]

BucketInv ==
  /\ TasksAreNotAhead
  /\ LastRoundIsExact
  /\ HandedAreMostTrained
  /\ EvenCoverage
  /\ RepeatOnlyAfterCoverage

-----------------------------------------------------------------------------
(* Types.                                                                  *)

\* Retiring tasks changes their status and nothing else of the tasks table:
\* what every expiry, abandonment, submission and close does to it.
LEMMA RetireChangesStatusOnly ==
  ASSUME TypeOK, NEW S \in SUBSET Tasks,
         NEW status \in {"submitted", "abandoned", "expired"}, Retire(S, status)
  PROVE  /\ tasks' \in [Tasks -> TaskRow]
         /\ lapsed' = lapsed \ S
         /\ \A t \in Tasks :
              /\ tasks'[t].worker = tasks[t].worker
              /\ tasks'[t].round = tasks[t].round
              /\ tasks'[t].buckets = tasks[t].buckets
              /\ tasks'[t].status = IF t \in S THEN status ELSE tasks[t].status
BY DEF TypeOK, Retire, TaskRow

\* The initial state is well typed.
LEMMA TypeInit == Init => TypeOK
BY RoundsAssumption
   DEF Init, TypeOK, RoundIdx, Buckets, NoTask, TaskRow, NoHeartbeat, HeartbeatRow,
       NeverTrained

\* Every transaction keeps every column in its domain.
LEMMA TypeStep == TypeOK /\ [Next]_vars => TypeOK'
<1> SUFFICES ASSUME TypeOK, [Next]_vars PROVE TypeOK'
  OBVIOUS
<1> USE RoundsAssumption DEF roundVars, taskVars, submissionVars, bucketVars
<1>1. CASE TimePasses
  BY <1>1 DEF TypeOK, TimePasses
<1>2. CASE ExpireLeases
  <2>1. lapsed \in SUBSET Tasks
    BY DEF TypeOK
  <2>2. QED
    BY <1>2, <2>1, RetireChangesStatusOnly DEF TypeOK, ExpireLeases
<1>3. ASSUME NEW t \in Tasks, LeaseLapses(t) PROVE TypeOK'
  BY <1>3 DEF TypeOK, LeaseLapses
<1>4. ASSUME NEW t \in Tasks, Abandon(t) PROVE TypeOK'
  BY <1>4, RetireChangesStatusOnly DEF TypeOK, Abandon
<1>5. ASSUME NEW t \in Tasks, NEW s \in HeartbeatSteps, Heartbeat(t, s) PROVE TypeOK'
  <2>1. Progress(heartbeats[t], s) \in HeartbeatRow
    BY DEF TypeOK, Progress, HeartbeatRow
  <2>2. QED
    BY <1>5, <2>1 DEF TypeOK, Heartbeat
<1>6. ASSUME NEW t \in Tasks, NEW s \in StepCounts, RecordSubmission(t, s) PROVE TypeOK'
  <2>1. Retire({t}, "submitted")
    BY <1>6 DEF RecordSubmission
  <2>2. QED
    BY <1>6, <2>1, RetireChangesStatusOnly DEF TypeOK, RecordSubmission
<1>7. ASSUME NEW S \in SUBSET Tasks, NEW v \in {"accepted", "rejected"},
             RecordVerdictTxn(S, v)
      PROVE  TypeOK'
  BY <1>7 DEF TypeOK, RecordVerdictTxn
<1>8. ASSUME NEW t \in Tasks, NEW w \in Workers, NEW S \in SUBSET Buckets, ClaimTask(w, t, S)
      PROVE  TypeOK'
  <2>1. tasks' \in [Tasks -> TaskRow]
    BY <1>8 DEF TypeOK, ClaimTask, TaskRow
  <2>2. timesTrained' \in [Buckets -> Nat]
    BY <1>8 DEF TypeOK, ClaimTask
  <2>3. lastRound' \in [Buckets -> RoundIdx \cup {NeverTrained}]
    BY <1>8 DEF TypeOK, ClaimTask
  <2>4. QED
    BY <1>8, <2>1, <2>2, <2>3 DEF TypeOK, ClaimTask
<1>9. ASSUME NEW K \in SUBSET Tasks, FinishClose(currentRound, K) PROVE TypeOK'
  <2>1. OutstandingLeases(currentRound) \in SUBSET Tasks
    BY DEF OutstandingLeases
  <2>2. Retire(OutstandingLeases(currentRound), "expired")
    BY <1>9 DEF FinishClose, FinishCloseTxn
  <2>3. QED
    BY <1>9, <2>1, <2>2, RetireChangesStatusOnly DEF TypeOK, FinishClose, FinishCloseTxn
<1>10. ASSUME NEW r \in RoundIdx, ClaimClose(r) PROVE TypeOK'
  BY <1>10 DEF TypeOK, ClaimClose, ClaimCloseTxn
<1>11. ASSUME NEW r \in RoundIdx, ReleaseClose(r) PROVE TypeOK'
  BY <1>11 DEF TypeOK, ReleaseClose, ReopenTxn
<1>12. ASSUME NEW r \in RoundIdx, ReopenEmptyRound(r) PROVE TypeOK'
  BY <1>12 DEF TypeOK, ReopenEmptyRound
<1>13. CASE OpenRound
  BY <1>13 DEF TypeOK, OpenRound, OpenRoundTxn, RoundIdx
<1>14. CASE FinishRun
  BY <1>14 DEF TypeOK, FinishRun, FinishRunTxn
<1>15. CASE UNCHANGED vars
  BY <1>15 DEF TypeOK, vars
<1>16. QED
  BY <1>1, <1>2, <1>3, <1>4, <1>5, <1>6, <1>7, <1>8, <1>9, <1>10, <1>11, <1>12, <1>13,
     <1>14, <1>15
     DEF Next, GateSubmission, GateTxn, RejectAtClose

\* Every column holds a value of its domain, whatever transactions were run:
\* the SQLite schema declares no such constraint (db.py:18-150).
THEOREM TypeCorrect == Spec => []TypeOK
BY TypeInit, TypeStep, PTL DEF Spec

-----------------------------------------------------------------------------
(* Leases and submissions.                                                 *)

\* Retiring leases, unless as submissions, keeps every lease property: it
\* takes from the leases and from nothing else.
LEMMA RetireKeepsLeaseInv ==
  ASSUME TypeOK, LeaseInv, NEW S \in SUBSET Tasks, NEW status \in {"abandoned", "expired"},
         \A t \in S : Leased(t), Retire(S, status),
         UNCHANGED <<heartbeats, verdict, steps>>
  PROVE  LeaseInv'
<1>1. /\ lapsed' = lapsed \ S
      /\ \A t \in Tasks :
           /\ tasks'[t].worker = tasks[t].worker
           /\ tasks'[t].round = tasks[t].round
           /\ tasks'[t].status = IF t \in S THEN status ELSE tasks[t].status
  BY RetireChangesStatusOnly
<1>2. LapsedAreLeased'
  BY <1>1 DEF LeaseInv, LapsedAreLeased, Leased, TypeOK
<1>3. OneLeasePerWorkerPerRound'
  BY <1>1 DEF LeaseInv, OneLeasePerWorkerPerRound, Leased
<1>4. SubmissionsKeepTheirTask'
  BY <1>1 DEF LeaseInv, SubmissionsKeepTheirTask, Leased
<1>5. AcceptedStepsCoverHeartbeats'
  BY DEF LeaseInv, AcceptedStepsCoverHeartbeats
<1>6. QED
  BY <1>2, <1>3, <1>4, <1>5 DEF LeaseInv

\* There is no lease yet.
LEMMA LeaseInit == Init => LeaseInv
BY DEF Init, LeaseInv, LapsedAreLeased, OneLeasePerWorkerPerRound, SubmissionsKeepTheirTask,
       AcceptedStepsCoverHeartbeats, Leased, NoTask

\* Every transaction keeps leases and submissions sound.
LEMMA LeaseStep == TypeOK /\ LeaseInv /\ [Next]_vars => LeaseInv'
<1> SUFFICES ASSUME TypeOK, LeaseInv, [Next]_vars PROVE LeaseInv'
  OBVIOUS
<1> USE DEF roundVars, taskVars, submissionVars, bucketVars
<1>1. ASSUME UNCHANGED <<tasks, lapsed, heartbeats, verdict, steps>> PROVE LeaseInv'
  BY <1>1 DEF LeaseInv, LapsedAreLeased, OneLeasePerWorkerPerRound, SubmissionsKeepTheirTask,
              AcceptedStepsCoverHeartbeats, Leased
<1>2. CASE ExpireLeases
  <2>1. lapsed \in SUBSET Tasks /\ \A t \in lapsed : Leased(t)
    BY DEF TypeOK, LeaseInv, LapsedAreLeased
  <2>2. QED
    BY <1>2, <2>1, RetireKeepsLeaseInv DEF ExpireLeases
<1>3. ASSUME NEW t \in Tasks, LeaseLapses(t) PROVE LeaseInv'
  BY <1>3 DEF LeaseLapses, LeaseInv, LapsedAreLeased, OneLeasePerWorkerPerRound,
              SubmissionsKeepTheirTask, AcceptedStepsCoverHeartbeats, Leased
<1>4. ASSUME NEW t \in Tasks, Abandon(t) PROVE LeaseInv'
  BY <1>4, RetireKeepsLeaseInv DEF Abandon
<1>5. ASSUME NEW t \in Tasks, NEW s \in HeartbeatSteps, Heartbeat(t, s) PROVE LeaseInv'
  <2>1. Leased(t) /\ UNCHANGED <<tasks, verdict, steps>> /\ lapsed' = lapsed \ {t}
    BY <1>5 DEF Heartbeat
  <2>2. \A u \in Tasks : u # t => heartbeats'[u] = heartbeats[u]
    BY <1>5 DEF Heartbeat, TypeOK
  <2>3. verdict[t] # "accepted"
    BY <2>1 DEF LeaseInv, SubmissionsKeepTheirTask, Leased
  <2>4. AcceptedStepsCoverHeartbeats'
    BY <2>1, <2>2, <2>3 DEF LeaseInv, AcceptedStepsCoverHeartbeats
  <2>5. QED
    BY <2>1, <2>4 DEF LeaseInv, LapsedAreLeased, OneLeasePerWorkerPerRound,
                      SubmissionsKeepTheirTask, Leased
<1>6. ASSUME NEW t \in Tasks, NEW s \in StepCounts, RecordSubmission(t, s) PROVE LeaseInv'
  <2>1. /\ lapsed' = lapsed \ {t}
        /\ \A u \in Tasks :
             /\ tasks'[u].worker = tasks[u].worker
             /\ tasks'[u].round = tasks[u].round
             /\ tasks'[u].status = IF u = t THEN "submitted" ELSE tasks[u].status
    BY <1>6, RetireChangesStatusOnly DEF RecordSubmission
  <2>2. /\ \A u \in Tasks : verdict'[u] = IF u = t THEN "ungated" ELSE verdict[u]
        /\ \A u \in Tasks : u # t => steps'[u] = steps[u]
        /\ heartbeats' = heartbeats
    BY <1>6 DEF RecordSubmission, TypeOK
  <2>3. LapsedAreLeased'
    BY <2>1 DEF LeaseInv, LapsedAreLeased, Leased, TypeOK
  <2>4. OneLeasePerWorkerPerRound'
    BY <2>1 DEF LeaseInv, OneLeasePerWorkerPerRound, Leased
  <2>5. SubmissionsKeepTheirTask'
    BY <2>1, <2>2 DEF LeaseInv, SubmissionsKeepTheirTask
  <2>6. AcceptedStepsCoverHeartbeats'
    BY <2>2 DEF LeaseInv, AcceptedStepsCoverHeartbeats
  <2>7. QED
    BY <2>3, <2>4, <2>5, <2>6 DEF LeaseInv
<1>7. ASSUME NEW t \in Tasks, NEW v \in {"accepted", "rejected"}, GateSubmission(t, v)
      PROVE  LeaseInv'
  <2>1. /\ verdict[t] = "ungated"
        /\ v = "accepted" => PlausibleSteps(t)
        /\ \A u \in Tasks : verdict'[u] = IF u = t THEN v ELSE verdict[u]
        /\ UNCHANGED <<tasks, lapsed, heartbeats, steps>>
    BY <1>7 DEF GateSubmission, GateTxn, RecordVerdictTxn
  <2>2. SubmissionsKeepTheirTask'
    BY <2>1 DEF LeaseInv, SubmissionsKeepTheirTask
  <2>3. AcceptedStepsCoverHeartbeats'
    BY <2>1 DEF LeaseInv, AcceptedStepsCoverHeartbeats, PlausibleSteps
  <2>4. QED
    BY <2>1, <2>2, <2>3 DEF LeaseInv, LapsedAreLeased, OneLeasePerWorkerPerRound, Leased
<1>8. ASSUME NEW S \in SUBSET Tasks, RejectAtClose(S) PROVE LeaseInv'
  <2>1. /\ \A u \in S : verdict[u] = "accepted"
        /\ \A u \in Tasks : verdict'[u] = IF u \in S THEN "rejected" ELSE verdict[u]
        /\ UNCHANGED <<tasks, lapsed, heartbeats, steps>>
    BY <1>8 DEF RejectAtClose, RecordVerdictTxn, Accepted
  <2>2. SubmissionsKeepTheirTask'
    BY <2>1 DEF LeaseInv, SubmissionsKeepTheirTask
  <2>3. AcceptedStepsCoverHeartbeats'
    BY <2>1 DEF LeaseInv, AcceptedStepsCoverHeartbeats
  <2>4. QED
    BY <2>1, <2>2, <2>3 DEF LeaseInv, LapsedAreLeased, OneLeasePerWorkerPerRound, Leased
<1>9. ASSUME NEW t \in Tasks, NEW w \in Workers, NEW S \in SUBSET Buckets, ClaimTask(w, t, S)
      PROVE  LeaseInv'
  <2>1. /\ tasks[t].status = "none"
        /\ ~HoldsLease(w, currentRound)
        /\ tasks'[t].status = "leased"
        /\ tasks'[t].worker = w
        /\ tasks'[t].round = currentRound
        /\ \A u \in Tasks : u # t => tasks'[u] = tasks[u]
        /\ UNCHANGED <<lapsed, heartbeats, verdict, steps>>
    BY <1>9 DEF ClaimTask, TypeOK
  <2>2. LapsedAreLeased'
    BY <2>1 DEF LeaseInv, LapsedAreLeased, Leased, TypeOK
  <2>3. OneLeasePerWorkerPerRound'
    BY <2>1 DEF LeaseInv, OneLeasePerWorkerPerRound, Leased, HoldsLease
  <2>4. SubmissionsKeepTheirTask'
    BY <2>1 DEF LeaseInv, SubmissionsKeepTheirTask
  <2>5. AcceptedStepsCoverHeartbeats'
    BY <2>1 DEF LeaseInv, AcceptedStepsCoverHeartbeats
  <2>6. QED
    BY <2>2, <2>3, <2>4, <2>5 DEF LeaseInv
<1>10. ASSUME NEW K \in SUBSET Tasks, FinishClose(currentRound, K) PROVE LeaseInv'
  <2>1. OutstandingLeases(currentRound) \in SUBSET Tasks
    BY DEF OutstandingLeases
  <2>2. \A t \in OutstandingLeases(currentRound) : Leased(t)
    BY DEF OutstandingLeases
  <2>3. /\ Retire(OutstandingLeases(currentRound), "expired")
        /\ UNCHANGED <<heartbeats, verdict, steps>>
    BY <1>10 DEF FinishClose, FinishCloseTxn
  <2>4. QED
    BY <2>1, <2>2, <2>3, RetireKeepsLeaseInv
<1>11. ASSUME NEW r \in RoundIdx, ClaimClose(r) \/ ReleaseClose(r) \/ ReopenEmptyRound(r)
       PROVE  LeaseInv'
  BY <1>1, <1>11 DEF ClaimClose, ClaimCloseTxn, ReleaseClose, ReopenTxn, ReopenEmptyRound
<1>12. CASE TimePasses \/ OpenRound \/ FinishRun \/ UNCHANGED vars
  BY <1>1, <1>12 DEF TimePasses, OpenRound, OpenRoundTxn, FinishRun, FinishRunTxn, vars
<1>13. QED
  BY <1>2, <1>3, <1>4, <1>5, <1>6, <1>7, <1>8, <1>9, <1>10, <1>11, <1>12 DEF Next

\* The lease properties hold in every reachable state: no expiry, claim,
\* heartbeat, submission, verdict or close can give a worker a second lease in
\* a round, part a submission from its task or have its heartbeats report more
\* steps than an accepted submission.
THEOREM LeasesAreSound == Spec => []LeaseInv
BY LeaseInit, LeaseStep, TypeCorrect, PTL DEF Spec

\* A worker never holds two leases of one round (rounds.py:312).
COROLLARY OneLease == Spec => []OneLeasePerWorkerPerRound
<1>1. LeaseInv => OneLeasePerWorkerPerRound
  BY DEF LeaseInv
<1>2. QED
  BY <1>1, LeasesAreSound, PTL

-----------------------------------------------------------------------------
(* Rounds and results.                                                     *)

\* The properties of rounds survive a step that changes no round, creates no
\* lease outside an open current round, and takes no submission's acceptance.
LEMMA ChainFrame ==
  ASSUME TypeOK, ChainInv,
         UNCHANGED <<runStatus, currentRound, roundStatus, result>>,
         \A t \in Tasks :
           /\ Issued(t) => Issued(t)' /\ tasks'[t].round = tasks[t].round
           /\ Leased(t)' => \/ Leased(t) /\ tasks'[t].round = tasks[t].round
                            \/ tasks'[t].round = currentRound /\ RoundIsOpen(currentRound),
         \A r \in RoundIdx : \A t \in result[r] : verdict'[t] = verdict[t]
  PROVE  ChainInv'
<1>1. RoundsFormAChain'
  BY DEF ChainInv, RoundsFormAChain, PublishedBy
<1>2. LeasesDieWithTheirRound'
  BY DEF ChainInv, LeasesDieWithTheirRound, Leased, RoundIsOpen
<1>3. ResultsAreAccepted'
  BY DEF ChainInv, ResultsAreAccepted, Accepted, Issued
<1>4. QED
  BY <1>1, <1>2, <1>3 DEF ChainInv

\* Retiring tasks is such a step.
LEMMA RetireKeepsChainInv ==
  ASSUME TypeOK, ChainInv, NEW S \in SUBSET Tasks,
         NEW status \in {"submitted", "abandoned", "expired"},
         Retire(S, status), \A t \in S : Leased(t),
         UNCHANGED <<runStatus, currentRound, roundStatus, result>>,
         \A r \in RoundIdx : \A t \in result[r] : verdict'[t] = verdict[t]
  PROVE  ChainInv'
<1>1. \A t \in Tasks :
        /\ tasks'[t].round = tasks[t].round
        /\ tasks'[t].status = IF t \in S THEN status ELSE tasks[t].status
  BY RetireChangesStatusOnly
<1>2. \A t \in Tasks :
        /\ Issued(t) => Issued(t)' /\ tasks'[t].round = tasks[t].round
        /\ Leased(t)' => Leased(t) /\ tasks'[t].round = tasks[t].round
  BY <1>1 DEF Issued, Leased
<1>3. QED
  BY <1>2, ChainFrame

\* The first round is the chain.
LEMMA ChainInit == Init => ChainInv
<1> SUFFICES ASSUME Init PROVE ChainInv
  OBVIOUS
<1> USE RoundsAssumption DEF Init, RoundIdx
<1>1. RoundsFormAChain
  BY DEF RoundsFormAChain
<1>2. LeasesDieWithTheirRound
  BY DEF LeasesDieWithTheirRound, Leased, NoTask
<1>3. ResultsAreAccepted
  BY DEF ResultsAreAccepted
<1>4. QED
  BY <1>1, <1>2, <1>3 DEF ChainInv

\* Every transaction keeps the rounds a chain.
LEMMA ChainStep == TypeOK /\ LeaseInv /\ ChainInv /\ [Next]_vars => ChainInv'
<1> SUFFICES ASSUME TypeOK, LeaseInv, ChainInv, [Next]_vars PROVE ChainInv'
  OBVIOUS
<1> USE DEF roundVars, taskVars, submissionVars, bucketVars
<1>1. \A r \in RoundIdx : \A t \in result[r] : t \in Tasks /\ verdict[t] = "accepted"
  BY DEF ChainInv, ResultsAreAccepted, Accepted
<1>2. ASSUME UNCHANGED <<runStatus, currentRound, roundStatus, result, tasks, verdict>>
      PROVE  ChainInv'
  BY <1>2, ChainFrame DEF Issued, Leased
<1>3. CASE ExpireLeases
  <2>1. lapsed \in SUBSET Tasks /\ \A t \in lapsed : Leased(t)
    BY DEF TypeOK, LeaseInv, LapsedAreLeased
  <2>2. QED
    BY <1>3, <2>1, RetireKeepsChainInv DEF ExpireLeases
<1>4. ASSUME NEW t \in Tasks, Abandon(t) PROVE ChainInv'
  BY <1>4, RetireKeepsChainInv DEF Abandon
<1>5. ASSUME NEW t \in Tasks, NEW s \in StepCounts, RecordSubmission(t, s) PROVE ChainInv'
  <2>1. Leased(t) /\ Retire({t}, "submitted") /\ UNCHANGED roundVars
    BY <1>5 DEF RecordSubmission
  <2>2. verdict[t] # "accepted"
    BY <2>1 DEF LeaseInv, SubmissionsKeepTheirTask, Leased
  <2>3. \A r \in RoundIdx : \A u \in result[r] : verdict'[u] = verdict[u]
    BY <1>1, <1>5, <2>2 DEF RecordSubmission, TypeOK
  <2>4. QED
    BY <2>1, <2>3, RetireKeepsChainInv
<1>6. ASSUME NEW t \in Tasks, NEW v \in {"accepted", "rejected"}, GateSubmission(t, v)
      PROVE  ChainInv'
  <2>1. \A r \in RoundIdx : \A u \in result[r] : verdict'[u] = verdict[u]
    BY <1>1, <1>6 DEF GateSubmission, GateTxn, RecordVerdictTxn
  <2>2. UNCHANGED <<roundVars, tasks>>
    BY <1>6 DEF GateSubmission, GateTxn, RecordVerdictTxn
  <2>3. QED
    BY <2>1, <2>2, ChainFrame DEF Issued, Leased
<1>7. ASSUME NEW S \in SUBSET Tasks, RejectAtClose(S) PROVE ChainInv'
  <2>1. /\ roundStatus[currentRound] = "closing"
        /\ \A u \in S : tasks[u].round = currentRound
        /\ \A u \in Tasks : verdict'[u] = IF u \in S THEN "rejected" ELSE verdict[u]
        /\ UNCHANGED <<roundVars, tasks>>
    BY <1>7 DEF RejectAtClose, RecordVerdictTxn, Accepted
  <2>2. result[currentRound] = {}
    BY <2>1 DEF ChainInv, RoundsFormAChain, TypeOK
  <2>3. \A r \in RoundIdx : \A u \in result[r] : tasks[u].round = r
    BY DEF ChainInv, ResultsAreAccepted, Accepted
  <2>4. \A r \in RoundIdx : \A u \in result[r] : verdict'[u] = verdict[u]
    BY <1>1, <2>1, <2>2, <2>3
  <2>5. QED
    BY <2>1, <2>4, ChainFrame DEF Issued, Leased
<1>8. ASSUME NEW t \in Tasks, NEW w \in Workers, NEW S \in SUBSET Buckets, ClaimTask(w, t, S)
      PROVE  ChainInv'
  <2>1. /\ tasks[t].status = "none"
        /\ RoundIsOpen(currentRound)
        /\ tasks'[t].status = "leased"
        /\ tasks'[t].round = currentRound
        /\ \A u \in Tasks : u # t => tasks'[u] = tasks[u]
        /\ UNCHANGED <<runStatus, currentRound, roundStatus, result, verdict>>
    BY <1>8 DEF ClaimTask, TypeOK
  <2>2. \A u \in Tasks :
          /\ Issued(u) => Issued(u)' /\ tasks'[u].round = tasks[u].round
          /\ Leased(u)' => \/ Leased(u) /\ tasks'[u].round = tasks[u].round
                           \/ tasks'[u].round = currentRound /\ RoundIsOpen(currentRound)
    BY <2>1 DEF Issued, Leased
  <2>3. QED
    BY <2>1, <2>2, ChainFrame
<1>9. ASSUME NEW r \in RoundIdx, ClaimClose(r) \/ ReleaseClose(r) PROVE ChainInv'
  <2>1. /\ roundStatus[r] \in {"open", "closing"}
        /\ roundStatus'[r] \in {"open", "closing"}
        /\ \A q \in RoundIdx : q # r => roundStatus'[q] = roundStatus[q]
        /\ UNCHANGED <<runStatus, currentRound, result, tasks, verdict>>
    BY <1>9 DEF ClaimClose, ClaimCloseTxn, CloseIsFree, ReleaseClose, ReopenTxn, TypeOK
  <2>2. r = currentRound
    BY <2>1 DEF ChainInv, RoundsFormAChain, PublishedBy, TypeOK, RoundIdx
  <2>3. RoundsFormAChain'
    BY <2>1, <2>2 DEF ChainInv, RoundsFormAChain, PublishedBy, TypeOK, RoundIdx
  <2>4. LeasesDieWithTheirRound'
    BY <2>1, <2>2 DEF ChainInv, LeasesDieWithTheirRound, Leased
  <2>5. ResultsAreAccepted'
    BY <2>1 DEF ChainInv, ResultsAreAccepted, Accepted, Issued
  <2>6. QED
    BY <2>3, <2>4, <2>5 DEF ChainInv
<1>10. ASSUME NEW K \in SUBSET Tasks, FinishClose(currentRound, K) PROVE ChainInv'
  <2> DEFINE S == OutstandingLeases(currentRound)
  <2>1. /\ roundStatus[currentRound] = "closing"
        /\ K \subseteq Accepted(currentRound)
        /\ roundStatus'[currentRound] = "closed"
        /\ result'[currentRound] = K
        /\ \A r \in RoundIdx : r # currentRound =>
             roundStatus'[r] = roundStatus[r] /\ result'[r] = result[r]
        /\ UNCHANGED <<runStatus, currentRound, verdict>>
    BY <1>10 DEF FinishClose, FinishCloseTxn, TypeOK
  <2>2. \A t \in Tasks :
          /\ tasks'[t].round = tasks[t].round
          /\ tasks'[t].status = IF t \in S THEN "expired" ELSE tasks[t].status
    <3>1. S \in SUBSET Tasks
      BY DEF OutstandingLeases
    <3>2. QED
      BY <1>10, <3>1, RetireChangesStatusOnly DEF FinishClose, FinishCloseTxn
  <2>3. RoundsFormAChain'
    BY <2>1 DEF ChainInv, RoundsFormAChain, PublishedBy, TypeOK, RoundIdx
  <2>4. \A t \in Tasks : ~Leased(t)'
    BY <2>1, <2>2 DEF ChainInv, LeasesDieWithTheirRound, Leased, OutstandingLeases
  <2>5. LeasesDieWithTheirRound'
    BY <2>4 DEF LeasesDieWithTheirRound
  <2>6. \A r \in RoundIdx : Accepted(r) \subseteq Accepted(r)'
    BY <2>1, <2>2 DEF Accepted, Issued
  <2>7. ResultsAreAccepted'
    BY <2>1, <2>6 DEF ChainInv, ResultsAreAccepted, TypeOK
  <2>8. QED
    BY <2>3, <2>5, <2>7 DEF ChainInv
<1>11. CASE OpenRound
  <2> DEFINE next == currentRound + 1
  <2>1. /\ PublishedBy(currentRound)
        /\ next \in RoundIdx
        /\ roundStatus'[next] = "open"
        /\ currentRound' = next
        /\ \A r \in RoundIdx : r # next => roundStatus'[r] = roundStatus[r]
        /\ UNCHANGED <<runStatus, result, tasks, verdict>>
    <3>1. next \in RoundIdx
      BY <1>11, RoundsAssumption DEF OpenRound, TypeOK, RoundIdx
    <3>2. QED
      BY <1>11, <3>1 DEF OpenRound, OpenRoundTxn, TypeOK
  <2>2. RoundsFormAChain'
    BY <2>1, <1>11, RoundsAssumption
       DEF ChainInv, RoundsFormAChain, PublishedBy, TypeOK, RoundIdx, OpenRound, OpenRoundTxn
  <2>3. LeasesDieWithTheirRound'
    BY <2>1 DEF ChainInv, LeasesDieWithTheirRound, Leased, PublishedBy
  <2>4. ResultsAreAccepted'
    BY <2>1 DEF ChainInv, ResultsAreAccepted, Accepted, Issued
  <2>5. QED
    BY <2>2, <2>3, <2>4 DEF ChainInv
<1>12. CASE FinishRun
  <2>1. /\ PublishedBy(currentRound)
        /\ currentRound + 1 = TargetRounds
        /\ UNCHANGED <<currentRound, roundStatus, result, tasks, verdict>>
    BY <1>12 DEF FinishRun, FinishRunTxn
  <2>2. RoundsFormAChain'
    <3>1. currentRound = TargetRounds - 1
      BY <2>1, RoundsAssumption DEF TypeOK, RoundIdx
    <3>2. QED
      BY <2>1, <3>1 DEF ChainInv, RoundsFormAChain, PublishedBy
  <2>3. LeasesDieWithTheirRound' /\ ResultsAreAccepted'
    BY <2>1 DEF ChainInv, LeasesDieWithTheirRound, Leased, ResultsAreAccepted, Accepted, Issued
  <2>4. QED
    BY <2>2, <2>3 DEF ChainInv
<1>13. ASSUME NEW t \in Tasks, NEW s \in HeartbeatSteps, Heartbeat(t, s) PROVE ChainInv'
  BY <1>2, <1>13 DEF Heartbeat
<1>14. ASSUME NEW t \in Tasks, LeaseLapses(t) PROVE ChainInv'
  BY <1>2, <1>14 DEF LeaseLapses
<1>15. ASSUME NEW r \in RoundIdx, ReopenEmptyRound(r) PROVE ChainInv'
  BY <1>2, <1>15 DEF ReopenEmptyRound
<1>16. CASE TimePasses \/ UNCHANGED vars
  BY <1>2, <1>16 DEF TimePasses, vars
<1>17. QED
  BY <1>3, <1>4, <1>5, <1>6, <1>7, <1>8, <1>9, <1>10, <1>11, <1>12, <1>13, <1>14, <1>15,
     <1>16
     DEF Next

\* The rounds form a chain: one round after the other, each opened on the
\* result of the one before, that result made of accepted work which stays
\* accepted, and no lease outliving its round (closer.py:133-335).
THEOREM RoundsAreSound == Spec => []ChainInv
BY ChainInit, ChainStep, TypeCorrect, LeasesAreSound, PTL DEF Spec

\* Each round is opened on the result of the one before (closer.py:317-328).
COROLLARY Chained == Spec => []RoundsFormAChain
<1>1. ChainInv => RoundsFormAChain
  BY DEF ChainInv
<1>2. QED
  BY <1>1, RoundsAreSound, PTL

\* A submission keeps its task and no lease outlives its round
\* (rounds.py:576-586, closer.py:302-307).
COROLLARY TasksMatch == Spec => []TasksMatchTheirRound
<1>1. LeaseInv /\ ChainInv => TasksMatchTheirRound
  BY DEF LeaseInv, ChainInv, TasksMatchTheirRound
<1>2. QED
  BY <1>1, LeasesAreSound, RoundsAreSound, PTL

\* What was aggregated was accepted, stays so, and is not less than its
\* heartbeats reported (closer.py:210-250, aggregate.py:144).
COROLLARY AcceptedWorkStaysSound == Spec => []AcceptedWorkIsSound
<1>1. LeaseInv /\ ChainInv => AcceptedWorkIsSound
  BY DEF LeaseInv, ChainInv, AcceptedWorkIsSound
<1>2. QED
  BY <1>1, LeasesAreSound, RoundsAreSound, PTL

\* A closed round is final: no claim, release or finish of a close touches it.
THEOREM ClosedStaysClosed == Spec => ClosedIsFinal
<1> DEFINE Step == \A r \in RoundIdx : roundStatus[r] = "closed" =>
                     roundStatus'[r] = "closed" /\ result'[r] = result[r]
<1>1. TypeOK /\ [Next]_vars => [Step]_vars
  <2> SUFFICES ASSUME TypeOK, [Next]_vars, ~UNCHANGED vars PROVE Step
    OBVIOUS
  <2> USE DEF roundVars
  <2>1. ASSUME NEW r \in RoundIdx, ClaimClose(r) PROVE Step
    BY <2>1 DEF ClaimClose, ClaimCloseTxn, CloseIsFree, TypeOK
  <2>2. ASSUME NEW r \in RoundIdx, ReleaseClose(r) PROVE Step
    BY <2>2 DEF ReleaseClose, ReopenTxn, TypeOK
  <2>3. ASSUME NEW r \in RoundIdx, ReopenEmptyRound(r) PROVE Step
    BY <2>3 DEF ReopenEmptyRound
  <2>4. ASSUME NEW K \in SUBSET Tasks, FinishClose(currentRound, K) PROVE Step
    BY <2>4 DEF FinishClose, FinishCloseTxn, TypeOK
  <2>5. CASE OpenRound
    <3>1. roundStatus[currentRound + 1] = "absent"
      BY <2>5 DEF OpenRound, OpenRoundTxn
    <3>2. QED
      BY <2>5, <3>1 DEF OpenRound, OpenRoundTxn, TypeOK
  <2>6. CASE TimePasses \/ ExpireLeases \/ FinishRun
    BY <2>6 DEF TimePasses, ExpireLeases, FinishRun, FinishRunTxn
  <2>7. ASSUME NEW t \in Tasks,
               \/ LeaseLapses(t) \/ Abandon(t)
               \/ \E s \in HeartbeatSteps : Heartbeat(t, s)
               \/ \E s \in StepCounts : RecordSubmission(t, s)
               \/ \E v \in {"accepted", "rejected"} : GateSubmission(t, v)
               \/ \E w \in Workers, S \in SUBSET Buckets : ClaimTask(w, t, S)
        PROVE  Step
    BY <2>7 DEF LeaseLapses, Abandon, Heartbeat, RecordSubmission, GateSubmission, GateTxn,
                RecordVerdictTxn, ClaimTask
  <2>8. ASSUME NEW S \in SUBSET Tasks, RejectAtClose(S) PROVE Step
    BY <2>8 DEF RejectAtClose, RecordVerdictTxn
  <2>9. QED
    BY <2>1, <2>2, <2>3, <2>4, <2>5, <2>6, <2>7, <2>8 DEF Next
<1>2. QED
  BY <1>1, TypeCorrect, PTL DEF Spec, ClosedIsFinal

-----------------------------------------------------------------------------
(* Buckets.                                                                *)

\* The bucket properties read the run's round, the counters, and of the tasks
\* table which tasks were issued, in which round and with which buckets.
LEMMA BucketFrame ==
  ASSUME BucketInv,
         UNCHANGED <<currentRound, timesTrained, lastRound>>,
         \A t \in Tasks : /\ Issued(t)' <=> Issued(t)
                         /\ tasks'[t].round = tasks[t].round
                         /\ tasks'[t].buckets = tasks[t].buckets
  PROVE  BucketInv'
<1>1. \A b, r : Handed(b, r)' <=> Handed(b, r)
  BY DEF Handed
<1>2. TasksAreNotAhead'
  BY DEF BucketInv, TasksAreNotAhead
<1>3. LastRoundIsExact'
  BY <1>1 DEF BucketInv, LastRoundIsExact
<1>4. HandedAreMostTrained' /\ EvenCoverage'
  BY DEF BucketInv, HandedAreMostTrained, EvenCoverage
<1>5. RepeatOnlyAfterCoverage'
  BY <1>1 DEF BucketInv, RepeatOnlyAfterCoverage
<1>6. QED
  BY <1>2, <1>3, <1>4, <1>5 DEF BucketInv

LEMMA RetireKeepsBucketInv ==
  ASSUME TypeOK, BucketInv, NEW S \in SUBSET Tasks,
         NEW status \in {"submitted", "abandoned", "expired"},
         Retire(S, status), \A t \in S : Leased(t),
         UNCHANGED <<currentRound, timesTrained, lastRound>>
  PROVE  BucketInv'
<1>1. \A t \in Tasks :
        /\ tasks'[t].round = tasks[t].round
        /\ tasks'[t].buckets = tasks[t].buckets
        /\ tasks'[t].status = IF t \in S THEN status ELSE tasks[t].status
  BY RetireChangesStatusOnly
<1>2. \A t \in Tasks : Issued(t)' <=> Issued(t)
  BY <1>1 DEF Issued, Leased
<1>3. QED
  BY <1>1, <1>2, BucketFrame

\* A claim takes a prefix of the least-trained-first order, and that is enough.
LEMMA ClaimKeepsBucketInv ==
  ASSUME TypeOK, BucketInv, NEW t \in Tasks, NEW w \in Workers, NEW S \in SUBSET Buckets,
         ClaimTask(w, t, S)
  PROVE  BucketInv'
<1>1. /\ ~Issued(t)
      /\ Issued(t)'
      /\ tasks'[t].round = currentRound
      /\ tasks'[t].buckets = S
      /\ \A u \in Tasks : u # t => tasks'[u] = tasks[u]
      /\ currentRound' = currentRound
  BY DEF ClaimTask, TypeOK, Issued, roundVars
<1>2. \A b \in Buckets :
        /\ timesTrained'[b] = IF b \in S THEN timesTrained[b] + 1 ELSE timesTrained[b]
        /\ lastRound'[b] = IF b \in S THEN currentRound ELSE lastRound[b]
  BY DEF ClaimTask
<1>3. \A b \in Buckets : timesTrained[b] \in Nat /\ lastRound[b] \in Int
  BY DEF TypeOK, RoundIdx, NeverTrained
<1>4. currentRound \in Int
  BY DEF TypeOK, RoundIdx
<1>5. \A b \in S, c \in Buckets \ S : OrderedBefore(b, c)
  BY DEF ClaimTask, LeastTrained
<1>6. \A b \in Buckets, r \in RoundIdx :
        Handed(b, r)' <=> Handed(b, r) \/ (b \in S /\ r = currentRound)
  BY <1>1 DEF Handed, Issued
<1>7. TasksAreNotAhead'
  BY <1>1, <1>4 DEF BucketInv, TasksAreNotAhead, Issued
<1>8. LastRoundIsExact'
  <2>1. currentRound \in RoundIdx
    BY DEF TypeOK
  <2>2. QED
    BY <1>1, <1>2, <1>4, <1>6, <2>1 DEF BucketInv, LastRoundIsExact
<1>9. EvenCoverage'
  BY <1>2, <1>3, <1>5 DEF BucketInv, EvenCoverage, OrderedBefore
<1>10. HandedAreMostTrained'
  BY <1>1, <1>2, <1>3 DEF BucketInv, HandedAreMostTrained, EvenCoverage
<1>11. RepeatOnlyAfterCoverage'
  <2>1. ASSUME NEW b \in S, Handed(b, currentRound), NEW c \in Buckets
        PROVE  Handed(c, currentRound)'
    <3>1. lastRound[b] = currentRound
      BY <2>1 DEF BucketInv, LastRoundIsExact
    <3>2. CASE c \in S
      BY <1>1, <3>2 DEF Handed
    <3>3. CASE c \notin S
      <4>1. OrderedBefore(b, c)
        BY <1>5, <3>3
      <4>2. lastRound[c] <= currentRound
        BY DEF BucketInv, LastRoundIsExact
      <4>3. lastRound[c] = currentRound
        BY <1>3, <1>4, <3>1, <4>1, <4>2 DEF BucketInv, HandedAreMostTrained, OrderedBefore
      <4>4. Handed(c, currentRound)
        BY <4>3 DEF BucketInv, LastRoundIsExact
      <4>5. QED
        BY <1>1, <4>4 DEF Handed, Issued
    <3>4. QED
      BY <3>2, <3>3
  <2>2. ASSUME NEW u \in Tasks, u # t, Issued(u), tasks[u].round = currentRound,
               tasks[u].buckets \cap S # {}, NEW c \in Buckets
        PROVE  Handed(c, currentRound)'
    <3>1. PICK b \in S : b \in tasks[u].buckets
      BY <2>2
    <3>2. Handed(b, currentRound)
      BY <2>2, <3>1 DEF Handed
    <3>3. QED
      BY <2>1, <3>2
  <2>3. ASSUME NEW u \in Tasks, NEW v \in Tasks, u # v, u # t, v # t, Issued(u), Issued(v),
               tasks[u].round = tasks[v].round, tasks[u].buckets \cap tasks[v].buckets # {},
               NEW c \in Buckets
        PROVE  Handed(c, tasks[u].round)'
    <3>1. Handed(c, tasks[u].round)
      BY <2>3 DEF BucketInv, RepeatOnlyAfterCoverage
    <3>2. PICK x \in Tasks : Issued(x) /\ tasks[x].round = tasks[u].round /\ c \in tasks[x].buckets
      BY <3>1 DEF Handed
    <3>3. x # t
      BY <1>1, <3>2
    <3>4. QED
      BY <1>1, <2>3, <3>2, <3>3 DEF Handed, Issued
  <2>4. QED
    BY <1>1, <2>2, <2>3 DEF RepeatOnlyAfterCoverage, Issued
<1>12. QED
  BY <1>7, <1>8, <1>9, <1>10, <1>11 DEF BucketInv

\* Whatever shard sizes the workers get and however many of them vanish, the
\* counters of any two buckets stay within one of each other, and no round
\* hands a bucket out twice before it has handed out all (rounds.py:236-255).
THEOREM CoverageIsEven == Spec => []BucketInv
<1>1. Init => BucketInv
  <2> SUFFICES ASSUME Init PROVE BucketInv
    OBVIOUS
  <2>1. \A t \in Tasks : ~Issued(t)
    BY DEF Init, Issued, NoTask
  <2>2. QED
    BY <2>1 DEF Init, BucketInv, TasksAreNotAhead, LastRoundIsExact, HandedAreMostTrained,
                EvenCoverage, RepeatOnlyAfterCoverage, Handed, NeverTrained
<1>2. TypeOK /\ LapsedAreLeased /\ BucketInv /\ [Next]_vars => BucketInv'
  <2> SUFFICES ASSUME TypeOK, LapsedAreLeased, BucketInv, [Next]_vars PROVE BucketInv'
    OBVIOUS
  <2> USE DEF roundVars, taskVars, submissionVars, bucketVars
  <2>1. ASSUME UNCHANGED <<currentRound, tasks, timesTrained, lastRound>> PROVE BucketInv'
    BY <2>1, BucketFrame DEF Issued
  <2>2. CASE ExpireLeases
    <3>1. lapsed \in SUBSET Tasks /\ \A t \in lapsed : Leased(t)
      BY DEF TypeOK, LapsedAreLeased
    <3>2. QED
      BY <2>2, <3>1, RetireKeepsBucketInv DEF ExpireLeases
  <2>3. ASSUME NEW t \in Tasks, LeaseLapses(t) PROVE BucketInv'
    BY <2>1, <2>3 DEF LeaseLapses
  <2>4. ASSUME NEW t \in Tasks, Abandon(t) PROVE BucketInv'
    BY <2>4, RetireKeepsBucketInv DEF Abandon
  <2>5. ASSUME NEW t \in Tasks, NEW s \in HeartbeatSteps, Heartbeat(t, s) PROVE BucketInv'
    BY <2>1, <2>5 DEF Heartbeat
  <2>6. ASSUME NEW t \in Tasks, NEW s \in StepCounts, RecordSubmission(t, s) PROVE BucketInv'
    <3>1. /\ Leased(t) /\ Retire({t}, "submitted")
          /\ UNCHANGED <<currentRound, timesTrained, lastRound>>
      BY <2>6 DEF RecordSubmission
    <3>2. QED
      BY <3>1, RetireKeepsBucketInv
  <2>7. ASSUME NEW S \in SUBSET Tasks, NEW v \in {"accepted", "rejected"},
               RecordVerdictTxn(S, v)
        PROVE  BucketInv'
    BY <2>1, <2>7 DEF RecordVerdictTxn
  <2>8. ASSUME NEW t \in Tasks, NEW w \in Workers, NEW S \in SUBSET Buckets, ClaimTask(w, t, S)
        PROVE  BucketInv'
    BY <2>8, ClaimKeepsBucketInv
  <2>9. ASSUME NEW K \in SUBSET Tasks, FinishClose(currentRound, K) PROVE BucketInv'
    <3> DEFINE S == OutstandingLeases(currentRound)
    <3>1. S \in SUBSET Tasks /\ \A t \in S : Leased(t)
      BY DEF OutstandingLeases
    <3>2. Retire(S, "expired") /\ UNCHANGED <<currentRound, timesTrained, lastRound>>
      BY <2>9 DEF FinishClose, FinishCloseTxn
    <3>3. QED
      BY <3>1, <3>2, RetireKeepsBucketInv
  <2>10. ASSUME NEW r \in RoundIdx, ClaimClose(r) \/ ReleaseClose(r) \/ ReopenEmptyRound(r)
         PROVE  BucketInv'
    BY <2>1, <2>10 DEF ClaimClose, ClaimCloseTxn, ReleaseClose, ReopenTxn, ReopenEmptyRound
  <2>11. CASE OpenRound
    <3>1. currentRound' = currentRound + 1 /\ UNCHANGED <<tasks, timesTrained, lastRound>>
      BY <2>11 DEF OpenRound, OpenRoundTxn
    <3>2. currentRound \in Int /\ \A b \in Buckets : lastRound[b] \in Int
      BY DEF TypeOK, RoundIdx, NeverTrained
    <3>3. \A t \in Tasks : tasks[t].round \in Int
      BY DEF TypeOK, TaskRow, RoundIdx
    <3>4. TasksAreNotAhead'
      BY <3>1, <3>2, <3>3 DEF BucketInv, TasksAreNotAhead, Issued
    <3>5. \A b \in Buckets : lastRound[b] < currentRound'
      BY <3>1, <3>2 DEF BucketInv, LastRoundIsExact
    <3>6. \A t \in Tasks : Issued(t) => tasks[t].round # currentRound'
      BY <3>1, <3>2, <3>3 DEF BucketInv, TasksAreNotAhead
    <3>7. LastRoundIsExact' /\ HandedAreMostTrained'
      BY <3>1, <3>2, <3>5, <3>6 DEF LastRoundIsExact, HandedAreMostTrained, Handed, Issued
    <3>8. EvenCoverage' /\ RepeatOnlyAfterCoverage'
      BY <3>1 DEF BucketInv, EvenCoverage, RepeatOnlyAfterCoverage, Handed, Issued
    <3>9. QED
      BY <3>4, <3>7, <3>8 DEF BucketInv
  <2>12. CASE TimePasses \/ FinishRun \/ UNCHANGED vars
    BY <2>1, <2>12 DEF TimePasses, FinishRun, FinishRunTxn, vars
  <2>13. QED
    BY <2>2, <2>3, <2>4, <2>5, <2>6, <2>7, <2>8, <2>9, <2>10, <2>11, <2>12
       DEF Next, GateSubmission, GateTxn, RejectAtClose
<1>3. LeaseInv => LapsedAreLeased
  BY DEF LeaseInv
<1>4. QED
  BY <1>1, <1>2, <1>3, TypeCorrect, LeasesAreSound, PTL DEF Spec

\* Bucket counters stay within one of each other, and no round repeats a bucket
\* before it has handed out all (rounds.py:239, invariants.py:113).
COROLLARY CoverageEven == Spec => []CoverageStaysEven
<1>1. BucketInv => CoverageStaysEven
  BY DEF BucketInv, CoverageStaysEven
<1>2. QED
  BY <1>1, CoverageIsEven, PTL

-----------------------------------------------------------------------------
(* The chain of adapters.  A submission is work offered, a rejection       *)
(* refuses it, the transaction that closes a round with a result publishes *)
(* the next adapter, and every other transaction leaves the chain alone.   *)
(* The step simulation needs the invariants: what is offered is of the     *)
(* current round, and what is published was accepted and stays so.         *)

\* The chain as the refinement mapping sees it.
TrainedFrom == [t \in Tasks |-> IF verdict[t] = "none" THEN -1 ELSE tasks[t].round]
Refused == {t \in Tasks : verdict[t] = "rejected"}
Adapters == [i \in 1 .. NumPublished |-> result[i - 1]]
ChainVars == <<TrainedFrom, Refused, Adapters, runStatus = "done">>

Invs == TypeOK /\ LeaseInv /\ ChainInv

\* One element more.
LEMMA Appended ==
  ASSUME NEW n \in Nat, NEW f, NEW g,
         \A i \in 1 .. n : g[i] = f[i]
  PROVE  /\ Len([i \in 1 .. n |-> f[i]]) = n
         /\ [i \in 1 .. (n + 1) |-> g[i]] = Append([i \in 1 .. n |-> f[i]], g[n + 1])
OBVIOUS

\* One adapter for each round before the current one, and one for that when it
\* is published.
LEMMA Lengths ==
  ASSUME Invs
  PROVE  /\ NumPublished \in 0 .. TargetRounds
         /\ Len(Adapters) = NumPublished
         /\ roundStatus[currentRound] # "closed" => NumPublished = currentRound
         /\ PublishedBy(currentRound) => NumPublished = currentRound + 1
<1>1. currentRound \in Nat /\ currentRound < TargetRounds
  BY RoundsAssumption DEF Invs, TypeOK, RoundIdx
<1>2. NumPublished \in 0 .. TargetRounds
  BY <1>1, RoundsAssumption DEF NumPublished
<1>3. Len(Adapters) = NumPublished
  BY <1>2 DEF Adapters
<1>4. roundStatus[currentRound] # "closed" => result[currentRound] = {}
  BY DEF Invs, ChainInv, RoundsFormAChain, TypeOK
<1> QED
  BY <1>1, <1>2, <1>3, <1>4 DEF NumPublished, PublishedBy

\* The chain sees only verdicts, the rounds of submitted tasks, the current
\* round with its result, and the run's status.
LEMMA Unseen ==
  ASSUME verdict' = verdict,
         \A t \in Tasks : verdict[t] # "none" => tasks'[t].round = tasks[t].round,
         UNCHANGED <<currentRound, result, runStatus>>
  PROVE  UNCHANGED ChainVars
BY DEF ChainVars, TrainedFrom, Refused, Adapters, NumPublished

\* The chain is made of what the mapping shows of it.
LEMMA SameChain ==
  ASSUME UNCHANGED ChainVars
  PROVE  UNCHANGED Chain!vars
BY DEF ChainVars, TrainedFrom, Refused, Adapters, Chain!vars

\* Transactions that the chain does not see.
LEMMA SilentTaskSteps ==
  ASSUME Invs, NEW t \in Tasks,
         \/ LeaseLapses(t) \/ Abandon(t)
         \/ \E s \in HeartbeatSteps : Heartbeat(t, s)
         \/ \E w \in Workers, S \in SUBSET Buckets : ClaimTask(w, t, S)
  PROVE  UNCHANGED ChainVars
<1> USE DEF Invs, roundVars, taskVars, submissionVars
<1>1. CASE LeaseLapses(t) \/ (\E s \in HeartbeatSteps : Heartbeat(t, s))
  BY <1>1, Unseen DEF LeaseLapses, Heartbeat
<1>2. CASE Abandon(t)
  BY <1>2, RetireChangesStatusOnly, Unseen DEF Abandon
<1>3. ASSUME NEW w \in Workers, NEW S \in SUBSET Buckets, ClaimTask(w, t, S)
      PROVE  UNCHANGED ChainVars
  <2>1. verdict[t] = "none"
    BY <1>3 DEF ClaimTask, LeaseInv, SubmissionsKeepTheirTask, TypeOK
  <2>2. \A u \in Tasks : u # t => tasks'[u] = tasks[u]
    BY <1>3 DEF ClaimTask, TypeOK
  <2> QED BY <1>3, <2>1, <2>2, Unseen DEF ClaimTask
<1> QED
  BY <1>1, <1>2, <1>3

\* Time, expiry and the claiming and giving back of a close move no adapter.
LEMMA SilentSteps ==
  ASSUME Invs,
         \/ TimePasses \/ ExpireLeases \/ UNCHANGED vars
         \/ \E r \in RoundIdx : ClaimClose(r) \/ ReleaseClose(r) \/ ReopenEmptyRound(r)
  PROVE  UNCHANGED ChainVars
<1> USE DEF Invs, roundVars, taskVars, submissionVars
<1>1. CASE TimePasses \/ UNCHANGED vars
  BY <1>1, Unseen DEF TimePasses, vars
<1>2. CASE ExpireLeases
  <2>1. \A t \in Tasks : tasks'[t].round = tasks[t].round
    BY <1>2, RetireChangesStatusOnly DEF ExpireLeases, TypeOK
  <2> QED BY <1>2, <2>1, Unseen DEF ExpireLeases
<1>3. ASSUME NEW r \in RoundIdx, ClaimClose(r) \/ ReleaseClose(r) \/ ReopenEmptyRound(r)
      PROVE  UNCHANGED ChainVars
  BY <1>3, Unseen
  DEF ClaimClose, ClaimCloseTxn, ReleaseClose, ReopenTxn, ReopenEmptyRound
<1> QED
  BY <1>1, <1>2, <1>3

\* A submission offers work against the adapter its round was opened with.
LEMMA SubmissionOffers ==
  ASSUME Invs, NEW t \in Tasks, NEW s \in StepCounts, RecordSubmission(t, s)
  PROVE  Chain!Offer(t)
<1> USE DEF Invs, roundVars
<1>1. Leased(t) /\ tasks[t].round = currentRound /\ RoundIsOpen(currentRound)
  BY DEF RecordSubmission, ChainInv, LeasesDieWithTheirRound
<1>2. verdict[t] = "none" /\ runStatus # "done"
  BY <1>1 DEF Leased, LeaseInv, ChainInv, SubmissionsKeepTheirTask, RoundsFormAChain,
              PublishedBy, RoundIsOpen
<1>3. Len(Adapters) = currentRound
  BY <1>1, Lengths DEF RoundIsOpen
<1>4. /\ verdict' = [verdict EXCEPT ![t] = "ungated"]
      /\ \A u \in Tasks : tasks'[u].round = tasks[u].round
      /\ UNCHANGED <<currentRound, result, runStatus>>
  BY RetireChangesStatusOnly DEF RecordSubmission
<1>5. TrainedFrom' = [TrainedFrom EXCEPT ![t] = Len(Adapters)]
  BY <1>1, <1>2, <1>3, <1>4 DEF TrainedFrom, TypeOK
<1>6. Refused' = Refused
  BY <1>2, <1>4 DEF Refused, TypeOK
<1>7. Adapters' = Adapters
  BY <1>4 DEF Adapters, NumPublished
<1>8. TrainedFrom[t] = -1
  BY <1>2 DEF TrainedFrom
<1> QED
  BY <1>2, <1>4, <1>5, <1>6, <1>7, <1>8
  DEF Chain!Offer, Chain!NotOffered, TrainedFrom, Refused, Adapters

\* What is in no result can be refused.
LEMMA RejectionRefuses ==
  ASSUME Invs, NEW S \in SUBSET Tasks, RecordVerdictTxn(S, "rejected"),
         \A t \in S : verdict[t] # "none" /\ \A r \in RoundIdx : t \notin result[r]
  PROVE  Chain!Refuse(S)
<1> USE DEF Invs, roundVars, taskVars
<1>1. /\ verdict' = [t \in Tasks |-> IF t \in S THEN "rejected" ELSE verdict[t]]
      /\ UNCHANGED <<tasks, currentRound, result, runStatus>>
  BY DEF RecordVerdictTxn
<1>2. TrainedFrom' = TrainedFrom
  BY <1>1 DEF TrainedFrom, TypeOK
<1>3. Refused' = Refused \union S
  BY <1>1 DEF Refused, TypeOK
<1>4. Adapters' = Adapters
  BY <1>1 DEF Adapters, NumPublished
<1>5. \A t \in S : TrainedFrom[t] # -1
  BY DEF TrainedFrom, TypeOK, TaskRow, RoundIdx
<1>6. DOMAIN Adapters = 1 .. NumPublished
  BY DEF Adapters
<1>7. \A i \in 1 .. NumPublished : i - 1 \in RoundIdx /\ Adapters[i] = result[i - 1]
  BY Lengths, RoundsAssumption DEF Adapters, RoundIdx
<1>8. \A t \in S : \A i \in DOMAIN Adapters : t \notin Adapters[i]
  BY <1>6, <1>7
<1> QED
  BY <1>1, <1>2, <1>3, <1>4, <1>5, <1>8
  DEF Chain!Refuse, Chain!Published, Chain!NotOffered, TrainedFrom, Refused, Adapters

LEMMA VerdictsRefuse ==
  ASSUME Invs,
         \/ \E t \in Tasks : \E v \in {"accepted", "rejected"} : GateSubmission(t, v)
         \/ \E S \in SUBSET Tasks : RejectAtClose(S)
  PROVE  (\E S \in SUBSET Tasks : Chain!Refuse(S)) \/ UNCHANGED ChainVars
<1> USE DEF Invs, roundVars, taskVars
<1>1. ASSUME NEW t \in Tasks, GateSubmission(t, "rejected")
      PROVE  Chain!Refuse({t})
  <2>1. verdict[t] = "ungated" /\ RecordVerdictTxn({t}, "rejected")
    BY <1>1 DEF GateSubmission, GateTxn
  <2>2. \A r \in RoundIdx : t \notin result[r]
    BY <2>1 DEF ChainInv, ResultsAreAccepted, Accepted
  <2> QED BY <2>1, <2>2, RejectionRefuses
<1>2. ASSUME NEW t \in Tasks, GateSubmission(t, "accepted")
      PROVE  UNCHANGED ChainVars
  <2>1. verdict[t] = "ungated" /\ RecordVerdictTxn({t}, "accepted")
    BY <1>2 DEF GateSubmission, GateTxn
  <2>2. /\ verdict' = [u \in Tasks |-> IF u = t THEN "accepted" ELSE verdict[u]]
        /\ UNCHANGED <<tasks, currentRound, result, runStatus>>
    BY <2>1 DEF RecordVerdictTxn
  <2>3. TrainedFrom' = TrainedFrom
    BY <2>1, <2>2 DEF TrainedFrom, TypeOK
  <2>4. Refused' = Refused
    BY <2>1, <2>2 DEF Refused, TypeOK
  <2>5. Adapters' = Adapters
    BY <2>2 DEF Adapters, NumPublished
  <2> QED BY <2>2, <2>3, <2>4, <2>5 DEF ChainVars
<1>3. ASSUME NEW S \in SUBSET Tasks, RejectAtClose(S)
      PROVE  Chain!Refuse(S)
  <2>1. /\ roundStatus[currentRound] = "closing" /\ S \subseteq Accepted(currentRound)
        /\ RecordVerdictTxn(S, "rejected")
    BY <1>3 DEF RejectAtClose
  <2>2. result[currentRound] = {}
    BY <2>1 DEF ChainInv, RoundsFormAChain, TypeOK
  <2>3. ASSUME NEW t \in S, NEW r \in RoundIdx, t \in result[r]
        PROVE  FALSE
    <3>1. t \in Accepted(r) /\ t \in Accepted(currentRound)
      BY <2>1, <2>3 DEF ChainInv, ResultsAreAccepted
    <3>2. r = currentRound
      BY <3>1 DEF Accepted
    <3> QED BY <2>2, <2>3, <3>2
  <2>4. \A t \in S : verdict[t] # "none"
    BY <2>1 DEF Accepted
  <2> QED BY <2>1, <2>3, <2>4, RejectionRefuses
<1> QED
  BY <1>1, <1>2, <1>3

\* The transaction that closes a round publishes its result, if it has one.
LEMMA ClosePublishes ==
  ASSUME Invs, NEW K \in SUBSET Tasks, FinishClose(currentRound, K)
  PROVE  Chain!Publish(K) \/ UNCHANGED ChainVars
<1> USE DEF Invs, roundVars, taskVars, submissionVars
<1>1. /\ roundStatus[currentRound] = "closing" /\ K \subseteq Accepted(currentRound)
      /\ result' = [result EXCEPT ![currentRound] = K]
      /\ UNCHANGED <<verdict, currentRound, runStatus>>
  BY DEF FinishClose, FinishCloseTxn
<1>9. \A u \in Tasks : tasks'[u].round = tasks[u].round
  <2>1. Retire(OutstandingLeases(currentRound), "expired")
    BY DEF FinishClose, FinishCloseTxn
  <2>2. OutstandingLeases(currentRound) \in SUBSET Tasks
    BY DEF OutstandingLeases
  <2> HIDE DEF OutstandingLeases
  <2> QED BY <2>1, <2>2, RetireChangesStatusOnly
<1>2. currentRound \in Nat /\ currentRound \in RoundIdx /\ currentRound < TargetRounds
  BY RoundsAssumption DEF TypeOK, RoundIdx
<1>3. result[currentRound] = {} /\ NumPublished = currentRound /\ runStatus # "done"
  BY <1>1, Lengths DEF ChainInv, RoundsFormAChain, PublishedBy, TypeOK
<1>4. TrainedFrom' = TrainedFrom /\ Refused' = Refused
  BY <1>1, <1>9 DEF TrainedFrom, Refused
<1>5. result'[currentRound] = K
  BY <1>1, <1>2 DEF TypeOK
<1>6. \A i \in 1 .. currentRound : result'[i - 1] = result[i - 1]
  BY <1>1, <1>2 DEF TypeOK, RoundIdx
<1>7. CASE K = {}
  <2>1. NumPublished' = currentRound
    BY <1>1, <1>2, <1>5, <1>7 DEF NumPublished
  <2>2. Adapters' = Adapters
    BY <1>3, <1>6, <2>1 DEF Adapters
  <2> QED BY <1>1, <1>4, <2>2 DEF ChainVars
<1>8. CASE K # {}
  <2>1. NumPublished' = currentRound + 1
    BY <1>1, <1>2, <1>5, <1>8 DEF NumPublished
  <2> DEFINE f == [i \in 1 .. (currentRound + 1) |-> result[i - 1]]
             g == [i \in 1 .. (currentRound + 1) |-> result'[i - 1]]
  <2>2. \A i \in 1 .. currentRound : g[i] = f[i]
    BY <1>2, <1>6
  <2>3. g[currentRound + 1] = K
    BY <1>2, <1>5
  <2>4. Adapters = [i \in 1 .. currentRound |-> f[i]]
    BY <1>2, <1>3 DEF Adapters
  <2>5. Adapters' = [i \in 1 .. (currentRound + 1) |-> g[i]]
    BY <1>2, <2>1 DEF Adapters
  <2> HIDE DEF f, g
  <2>6. Adapters' = Append(Adapters, K) /\ Len(Adapters) = currentRound
    BY <1>2, <2>2, <2>3, <2>4, <2>5, Appended
  <2>7. \A c \in K : TrainedFrom[c] = currentRound /\ c \notin Refused
    BY <1>1 DEF Accepted, TrainedFrom, Refused
  <2> QED
    BY <1>1, <1>2, <1>3, <1>4, <1>8, <2>6, <2>7
    DEF Chain!Publish, TrainedFrom, Refused, Adapters
<1> QED
  BY <1>7, <1>8

\* Opening the next round changes no adapter; finishing the run needs all.
LEMMA OpeningIsSilent ==
  ASSUME Invs, Invs', OpenRound
  PROVE  UNCHANGED ChainVars
<1> USE DEF roundVars, taskVars, submissionVars
<1>1. PublishedBy(currentRound) /\ currentRound' = currentRound + 1
      /\ roundStatus[currentRound + 1] = "absent"
      /\ roundStatus' = [roundStatus EXCEPT ![currentRound + 1] = "open"]
      /\ UNCHANGED <<runStatus, result, tasks, verdict>>
  BY DEF OpenRound, OpenRoundTxn
<1>2. currentRound + 1 \in RoundIdx
  BY RoundsAssumption DEF OpenRound, Invs, TypeOK, RoundIdx
<1>3. roundStatus'[currentRound'] # "closed"
  BY <1>1, <1>2 DEF Invs, TypeOK
<1>4. result'[currentRound'] = {}
  BY <1>1, <1>2, <1>3 DEF Invs, ChainInv, RoundsFormAChain
<1>5. currentRound \in Nat
  BY DEF Invs, TypeOK, RoundIdx
<1>6. NumPublished' = currentRound + 1 /\ NumPublished = currentRound + 1
  BY <1>1, <1>4, <1>5 DEF NumPublished, PublishedBy
<1>7. Adapters' = Adapters
  BY <1>1, <1>6 DEF Adapters
<1> QED
  BY <1>1, <1>7 DEF ChainVars, TrainedFrom, Refused

LEMMA FinishingFinishes ==
  ASSUME Invs, FinishRun
  PROVE  Chain!Finish
<1> USE DEF roundVars, taskVars, submissionVars
<1>1. PublishedBy(currentRound) /\ currentRound + 1 = TargetRounds
      /\ runStatus' = "done" /\ UNCHANGED <<currentRound, result, tasks, verdict>>
  BY DEF FinishRun, FinishRunTxn
<1>2. Len(Adapters) = TargetRounds
  BY <1>1, Lengths
<1>3. UNCHANGED <<TrainedFrom, Refused, Adapters>>
  BY <1>1 DEF TrainedFrom, Refused, Adapters, NumPublished
<1> QED
  BY <1>1, <1>2, <1>3 DEF Chain!Finish, TrainedFrom, Refused, Adapters

LEMMA InitChain == Init => Chain!Init
<1> SUFFICES ASSUME Init PROVE Chain!Init
  OBVIOUS
<1>1. currentRound = 0 /\ 0 \in RoundIdx
  BY RoundsAssumption DEF Init, RoundIdx
<1>2. NumPublished = 0
  BY <1>1 DEF Init, NumPublished
<1>3. Adapters = <<>>
  BY <1>2 DEF Adapters
<1>4. TrainedFrom = [t \in Tasks |-> -1] /\ Refused = {} /\ runStatus # "done"
  BY DEF Init, TrainedFrom, Refused
<1> QED
  BY <1>3, <1>4 DEF Chain!Init, Chain!NotOffered, TrainedFrom, Refused, Adapters

LEMMA StepsImplementTheChain == Invs /\ Invs' /\ [Next]_vars => [Chain!Next]_(Chain!vars)
<1> SUFFICES ASSUME Invs, Invs', [Next]_vars
             PROVE  Chain!Next \/ UNCHANGED Chain!vars
  OBVIOUS
<1>1. CASE \E t \in Tasks : \E s \in StepCounts : RecordSubmission(t, s)
  BY <1>1, SubmissionOffers DEF Chain!Next
<1>2. CASE \/ \E t \in Tasks : \E v \in {"accepted", "rejected"} : GateSubmission(t, v)
           \/ \E S \in SUBSET Tasks : RejectAtClose(S)
  BY <1>2, VerdictsRefuse, SameChain DEF Chain!Next
<1>3. CASE \E K \in SUBSET Tasks : FinishClose(currentRound, K)
  BY <1>3, ClosePublishes, SameChain DEF Chain!Next
<1>4. CASE OpenRound
  BY <1>4, OpeningIsSilent, SameChain
<1>5. CASE FinishRun
  BY <1>5, FinishingFinishes DEF Chain!Next
<1>6. CASE \/ TimePasses \/ ExpireLeases \/ UNCHANGED vars
           \/ \E r \in RoundIdx : ClaimClose(r) \/ ReleaseClose(r) \/ ReopenEmptyRound(r)
  BY <1>6, SilentSteps, SameChain
<1>7. ASSUME NEW t \in Tasks,
             \/ LeaseLapses(t) \/ Abandon(t)
             \/ \E s \in HeartbeatSteps : Heartbeat(t, s)
             \/ \E w \in Workers, S \in SUBSET Buckets : ClaimTask(w, t, S)
      PROVE  UNCHANGED Chain!vars
  BY <1>7, SilentTaskSteps, SameChain
<1>8. ASSUME NEW S \in SUBSET Tasks, RejectAtClose(S) \/ FinishClose(currentRound, S)
      PROVE  Chain!Next \/ UNCHANGED Chain!vars
  BY <1>2, <1>3, <1>8
<1> QED
  BY <1>1, <1>2, <1>4, <1>5, <1>6, <1>7, <1>8 DEF Next

\* closer.py, rounds.py: the database implements the chain of adapters,
\* whatever transactions interleave: each adapter is published once, made of
\* accepted work that was trained from the adapter before it.
THEOREM DatabaseImplementsTheChain == Spec => ImplementsChain
<1>1. Spec => []Invs
  BY TypeCorrect, LeasesAreSound, RoundsAreSound, PTL DEF Invs
<1>2. Init => Chain!Init
  BY InitChain
<1>3. Invs /\ Invs' /\ [Next]_vars => [Chain!Next]_(Chain!vars)
  BY StepsImplementTheChain
<1> QED
  BY <1>1, <1>2, <1>3, PTL DEF Spec, ImplementsChain, Chain!Spec
=============================================================================
