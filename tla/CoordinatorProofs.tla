-------------------------- MODULE CoordinatorProofs --------------------------
(***************************************************************************)
(* Proofs about Coordinator, for every number of threads, of exceptions    *)
(* and of restarts: its steps implement Rounds, one thread at a time       *)
(* closes a round, and what it publishes is what it accepted.              *)
(*                                                                         *)
(* What a thread read earlier is still true when it acts on it: this is    *)
(* the invariant, LocalsAreTrue with Exclusive.  A step of a thread is     *)
(* then a transaction of Rounds with its caller's promise kept, so the     *)
(* lemmas of RoundsProofs say what it preserves of the database.           *)
(***************************************************************************)
EXTENDS Coordinator, RoundsProofs, FiniteSetTheorems

Closing(h) == handler[h].pc \in ClosingPcs

\* The thread that has taken the current round to close it, until it has
\* moved the run on or given the round back.
Owns(h) == Closing(h) \/ At(h, "advance") \/ At(h, "release")

Aggregating == {"load", "norms", "combine", "put_adapter", "put_momentum",
                "set_momentum_ref", "finish"}

HasSubmission(r) == \E t \in Tasks : tasks[t].round = r /\ verdict[t] # "none"

\* Its gate decides a submission that nothing else has decided.
GatingIsTrue(h) ==
  At(h, "gate") => \A t \in handler[h].gating : verdict[t] = "ungated"

\* It leases to the worker that claimed.
ClaimantIsTrue(h) == At(h, "lease") => handler[h].worker # NoWorker

\* It found the close rule satisfied, so somebody had submitted.
RuleIsTrue(h) == At(h, "claim_close") => HasSubmission(handler[h].idx)

\* The round it closes is the current one and in the state it left it in.
OwnerIsTrue(h) ==
  LET r == handler[h].idx IN
  /\ Owns(h) => r = currentRound
  /\ Closing(h) => roundStatus[r] = "closing"
  /\ At(h, "advance") => roundStatus[r] = "closed" /\ result[r] = handler[h].kept
  /\ At(h, "release") => roundStatus[r] \in {"closing", "closed"}

\* What it aggregates is still accepted, and what it has put is still there.
KeptIsTrue(h) ==
  LET r == handler[h].idx
      K == handler[h].kept
  IN  /\ handler[h].pc \in Aggregating => K \subseteq Accepted(r)
      /\ handler[h].pc \in {"put_momentum", "set_momentum_ref"} => adapters[r] = K
      /\ At(h, "finish") => K = {} \/ adapters[r] = K

LocalsAreTrueOf(h) ==
  /\ GatingIsTrue(h) /\ ClaimantIsTrue(h) /\ RuleIsTrue(h)
  /\ OwnerIsTrue(h) /\ KeptIsTrue(h)

LocalsAreTrue == \A h \in Handlers : LocalsAreTrueOf(h)

\* No two threads are about to act on the same thing.
Exclusive ==
  \A g, h \in Handlers : g # h =>
    /\ ~(Owns(g) /\ Owns(h))
    /\ At(g, "gate") /\ At(h, "gate") => handler[g].gating \cap handler[h].gating = {}

DatabaseInv == TypeOK /\ LeaseInv /\ ChainInv

CoordinatorInv ==
  /\ CoordinatorTypeOK
  /\ DatabaseInv
  /\ LocalsAreTrue
  /\ Exclusive
  /\ PublishedObjectIsTheResult

-----------------------------------------------------------------------------
(* What the invariant says to a thread about to act.                       *)

\* Only the current round can be open or closing.
LEMMA OnlyCurrent ==
  ASSUME DatabaseInv, NEW r \in RoundIdx, roundStatus[r] \in {"open", "closing"}
  PROVE  r = currentRound
BY DEF DatabaseInv, ChainInv, RoundsFormAChain, PublishedBy, TypeOK, RoundIdx

\* A round in which the close rule fires has a submission.
LEMMA RuleNeedsSubmission ==
  ASSUME NEW r, NEW e, CloseRule(r, e)
  PROVE  HasSubmission(r)
<1>1. Cardinality({}) = 0
  BY FS_EmptySet
<1>2. MapThenSumSet(LAMBDA t : steps[t], {}) = 0
  BY DEF MapThenSumSet, MapThenFoldSet
<1>3. Counted(r) # {}
  <2> SUFFICES ASSUME Counted(r) = {} PROVE FALSE
    OBVIOUS
  <2> QED BY <1>1, <1>2, CoordinatorAssumption DEF CloseRule
<1> QED BY <1>3 DEF Counted, HasSubmission

\* What holds of the thread that owns the close, and of its round.
LEMMA OwnerFacts ==
  ASSUME CoordinatorInv, NEW h \in Handlers
  PROVE  /\ handler[h].idx \in RoundIdx
         /\ handler[h].kept \in SUBSET Tasks
         /\ handler[h].gating \in SUBSET Tasks
         /\ Owns(h) => handler[h].idx = currentRound
         /\ Closing(h) => roundStatus[handler[h].idx] = "closing"
         /\ At(h, "advance") => /\ roundStatus[handler[h].idx] = "closed"
                                /\ result[handler[h].idx] = handler[h].kept
         /\ At(h, "release") => roundStatus[handler[h].idx] \in {"closing", "closed"}
         /\ handler[h].pc \in Aggregating => handler[h].kept \subseteq Accepted(handler[h].idx)
         /\ At(h, "gate") => \A t \in handler[h].gating : verdict[t] = "ungated"
         /\ At(h, "claim_close") => HasSubmission(handler[h].idx)
<1>1. handler[h] \in Locals
  BY DEF CoordinatorInv, CoordinatorTypeOK
<1>2. /\ handler[h].idx \in RoundIdx
      /\ handler[h].kept \in SUBSET Tasks
      /\ handler[h].gating \in SUBSET Tasks
  BY <1>1 DEF Locals
<1> QED
  BY <1>2 DEF CoordinatorInv, LocalsAreTrue, LocalsAreTrueOf, OwnerIsTrue, KeptIsTrue,
                         GatingIsTrue, RuleIsTrue

-----------------------------------------------------------------------------
(* Every step is a transaction of Rounds, or none.                         *)

\* A close rejects what it holds, in the round that is closing.
LEMMA RejectIsATransaction ==
  ASSUME CoordinatorInv, NEW h \in Handlers, handler[h].pc \in {"load", "norms"},
         NEW S \in SUBSET handler[h].kept, RecordVerdictTxn(S, "rejected")
  PROVE  Next
<1>1. /\ handler[h].pc \in Aggregating
      /\ Closing(h) /\ Owns(h)
  BY DEF Aggregating, ClosingPcs, Closing, Owns
<1>2. S \in SUBSET Tasks /\ RejectAtClose(S)
  BY <1>1, OwnerFacts DEF RejectAtClose
<1> QED BY <1>2 DEF Next

\* Each step of a thread is one transaction of Rounds, or touches no table.
LEMMA Simulation ==
  ASSUME CoordinatorInv, CoordinatorNext
  PROVE  [Next]_vars
<1> USE DEF CoordinatorNext, At
<1>1. ASSUME NEW h \in Handlers, HandlerStep(h) PROVE [Next]_vars
  <2>1. CASE Gate(h)
    BY <2>1, OwnerFacts DEF Gate, Next, GateSubmission
  <2>2. CASE Lease(h)
    <3>1. handler[h].worker \in Workers
      BY <2>2 DEF Lease, CoordinatorInv, CoordinatorTypeOK, Locals, LocalsAreTrue, LocalsAreTrueOf,
                    ClaimantIsTrue
    <3>2. PICK t \in Tasks, S \in SUBSET Buckets : ClaimTask(handler[h].worker, t, S)
      BY <2>2 DEF Lease
    <3> QED BY <3>1, <3>2 DEF Next
  <2>3. CASE LeaseNothing(h) \/ EvaluateRound(h) \/ EvaluateProgress(h) \/ LeaveRound(h)
             \/ Snapshot(h) \/ CombineWithMomentum(h) \/ PutAdapter(h) \/ PutMomentum(h)
             \/ SetMomentumRef(h)
    BY <2>3 DEF LeaseNothing, EvaluateRound, EvaluateProgress, LeaveRound, Snapshot,
                CombineWithMomentum, Combine, PutAdapter, PutMomentum, SetMomentumRef
  <2>4. CASE ReopenEmpty(h)
    BY <2>4, OwnerFacts DEF ReopenEmpty, Next
  <2>5. CASE TakeClose(h)
    <3>1. CASE ClaimCloseTxn(handler[h].idx)
      BY <2>5, <3>1, OwnerFacts DEF TakeClose, ClaimClose, HasSubmission, Next
    <3>2. CASE UNCHANGED vars
      BY <3>2
    <3> QED BY <2>5, <3>1, <3>2 DEF TakeClose
  <2>6. CASE LoadArtifacts(h)
    BY <2>6, RejectIsATransaction DEF LoadArtifacts, Reject
  <2>7. CASE CheckNorms(h)
    BY <2>7, RejectIsATransaction DEF CheckNorms, Reject
  <2>8. CASE Finish(h)
    <3>1. Closing(h) /\ Owns(h) /\ handler[h].pc \in Aggregating
      BY <2>8 DEF Finish, Closing, Owns, ClosingPcs, Aggregating
    <3>2. FinishClose(currentRound, handler[h].kept)
      BY <2>8, <3>1, OwnerFacts DEF Finish, FinishClose
    <3> QED BY <3>2, OwnerFacts DEF Next
  <2>9. CASE Advance(h)
    <3>1. Owns(h)
      BY <2>9 DEF Advance, Owns
    <3>2. CASE handler[h].kept = {}
      BY <2>9, <3>2 DEF Advance
    <3>3. CASE handler[h].kept # {} /\ handler[h].idx + 1 < TargetRounds
      BY <2>9, <3>1, <3>3, OwnerFacts DEF Advance, OpenRound, PublishedBy, Next
    <3>4. CASE handler[h].kept # {} /\ ~(handler[h].idx + 1 < TargetRounds)
      <4>1. currentRound + 1 = TargetRounds
        BY <3>1, <3>4, OwnerFacts, RoundsAssumption DEF RoundIdx
      <4> QED
        BY <2>9, <3>1, <3>4, <4>1, OwnerFacts DEF Advance, FinishRun, PublishedBy, Next
    <3> QED BY <3>2, <3>3, <3>4
  <2>10. CASE Release(h)
    <3>1. ReopenTxn(handler[h].idx) /\ handler[h].idx \in RoundIdx
      BY <2>10, OwnerFacts DEF Release
    <3>2. CASE roundStatus[handler[h].idx] = "closing"
      BY <3>1, <3>2 DEF ReleaseClose, Next
    <3>3. CASE roundStatus[handler[h].idx] # "closing"
      BY <3>1, <3>3 DEF ReopenTxn, vars, roundVars, CoordinatorInv, DatabaseInv, TypeOK
    <3> QED BY <3>2, <3>3
  <2> QED
    BY <1>1, <2>1, <2>2, <2>3, <2>4, <2>5, <2>6, <2>7, <2>8, <2>9, <2>10 DEF HandlerStep
<1>2. ASSUME NEW h \in Handlers,
             GateFails(h) \/ CloseFails(h) \/ CombineWithoutMomentum(h)
      PROVE  UNCHANGED vars
  BY <1>2 DEF GateFails, CloseFails, CombineWithoutMomentum, Combine
<1>3. ASSUME NEW h \in Handlers, NEW w \in Workers, StartClaim(h, w) PROVE Next
  BY <1>3 DEF StartClaim, Next
<1>4. ASSUME NEW h \in Handlers, NEW t \in Tasks, NEW s \in StepCounts, StartSubmit(h, t, s)
      PROVE  Next
  BY <1>4 DEF StartSubmit, Next
<1>5. ASSUME NEW t \in Tasks,
             \/ AbandonRequest(t)
             \/ LeaseRunsOut(t)
             \/ \E s \in HeartbeatSteps : HeartbeatRequest(t, s)
      PROVE  Next
  BY <1>5 DEF AbandonRequest, LeaseRunsOut, HeartbeatRequest, Next
<1>6. CASE ClockAdvances
  BY <1>6 DEF ClockAdvances, Next
<1>7. CASE Crash
  BY <1>7 DEF Crash
<1> QED BY <1>1, <1>2, <1>3, <1>4, <1>5, <1>6, <1>7

-----------------------------------------------------------------------------
(* Types.                                                                  *)

\* A thread that leaves maybe_close does so with proper locals.
LEMMA LocalsTyped ==
  ASSUME CoordinatorTypeOK, NEW h \in Handlers
  PROVE  /\ Idle \in Locals
         /\ handler[h] \in Locals
         /\ NextLocals(h) \in Locals
<1>1. Zeros \in [RoundIdx -> Nat] /\ 0 \in RoundIdx /\ 0 \in 0 .. MaxAge
  BY RoundsAssumption DEF Zeros, RoundIdx
<1>2. Idle \in Locals
  BY <1>1 DEF Idle, Locals
<1>3. handler[h] \in Locals
  BY DEF CoordinatorTypeOK
<1>4. [Idle EXCEPT !.pc = "lease", !.worker = handler[h].worker] \in Locals
  BY <1>1, <1>3 DEF Idle, Locals
<1> QED BY <1>2, <1>3, <1>4 DEF NextLocals

\* Proper locals of one thread make a proper set of threads.
LEMMA GotoTyped ==
  ASSUME CoordinatorTypeOK, NEW h \in Handlers, NEW l \in Locals, Goto(h, l)
  PROVE  handler' \in [Handlers -> Locals]
BY DEF CoordinatorTypeOK, Goto

\* The momentum counts stay counts.
LEMMA CombineTyped ==
  ASSUME CoordinatorTypeOK, NEW h \in Handlers, NEW m \in [RoundIdx -> Nat], Combine(h, m)
  PROVE  handler' \in [Handlers -> Locals]
<1>1. handler[h] \in Locals
  BY LocalsTyped
<1>2. [m EXCEPT ![handler[h].idx] = @ + 1] \in [RoundIdx -> Nat]
  BY <1>1 DEF Locals
<1>3. [handler[h] EXCEPT !.pc = "put_adapter", !.hasRef = FALSE,
                         !.folds = [m EXCEPT ![handler[h].idx] = @ + 1]] \in Locals
  BY <1>1, <1>2 DEF Locals, ClosingPcs
<1> QED BY <1>3, GotoTyped DEF Combine

\* No step leaves the domains.
LEMMA CoordinatorTypeStep ==
  ASSUME CoordinatorInv, CoordinatorNext
  PROVE  CoordinatorTypeOK'
<1>1. CoordinatorTypeOK /\ TypeOK'
  BY Simulation, TypeStep DEF CoordinatorInv, DatabaseInv
<1> DEFINE Rest == /\ handler \in [Handlers -> Locals]
                   /\ adapters \in [RoundIdx -> SUBSET Tasks]
                   /\ momentum \in [RoundIdx -> Nat]
                   /\ momentumRef \in BOOLEAN
                   /\ failures \in 0 .. MaxFailures
                   /\ crashes \in 0 .. MaxCrashes
<1>2. Rest /\ (Rest' => CoordinatorTypeOK')
  BY <1>1 DEF CoordinatorTypeOK
<1> HIDE DEF Rest
<1> USE DEF storeVars, faultVars
<1>3. ASSUME NEW h \in Handlers, HandlerStep(h) PROVE Rest'
  <2>1. handler[h] \in Locals /\ NextLocals(h) \in Locals /\ Idle \in Locals
    BY <1>1, LocalsTyped
  <2>2. ASSUME handler' \in [Handlers -> Locals], UNCHANGED <<storeVars, faultVars>>
        PROVE  Rest'
    BY <1>2, <2>2 DEF Rest
  <2>3. CASE Gate(h)
    <3>1. [Idle EXCEPT !.pc = "evaluate"] \in Locals
      BY <2>1 DEF Locals
    <3> QED BY <1>1, <2>2, <2>3, <3>1, GotoTyped DEF Gate
  <2>4. CASE Lease(h) \/ LeaseNothing(h)
    BY <1>1, <2>1, <2>2, <2>4, GotoTyped DEF Lease, LeaseNothing
  <2>5. CASE EvaluateRound(h)
    <3>1. [handler[h] EXCEPT !.pc = IF roundStatus[currentRound] = "open"
                                    THEN "progress" ELSE "reopen_empty",
                             !.idx = currentRound, !.elapsed = age] \in Locals
      BY <1>1, <2>1 DEF Locals, CoordinatorTypeOK, TypeOK
    <3> QED BY <1>1, <2>1, <2>2, <2>5, <3>1, GotoTyped DEF EvaluateRound, AfterMaybeClose
  <2>6. CASE EvaluateProgress(h)
    <3>1. 0 \in 0 .. MaxAge
      BY RoundsAssumption
    <3>2. [handler[h] EXCEPT !.pc = "claim_close", !.elapsed = 0, !.restarted = FALSE]
            \in Locals
      BY <2>1, <3>1 DEF Locals
    <3>3. [handler[h] EXCEPT !.pc = "reopen_empty"] \in Locals
      BY <2>1 DEF Locals
    <3> QED BY <1>1, <2>2, <2>6, <3>2, <3>3, GotoTyped DEF EvaluateProgress, GotoPc
  <2>7. CASE ReopenEmpty(h)
    <3>1. \A g \in Handlers : [handler[g] EXCEPT !.restarted = TRUE] \in Locals
      BY <1>1 DEF CoordinatorTypeOK, Locals
    <3>2. handler' \in [Handlers -> Locals]
      BY <1>1, <2>1, <2>7, <3>1 DEF ReopenEmpty, CoordinatorTypeOK
    <3> QED BY <2>2, <2>7, <3>2 DEF ReopenEmpty
  <2>8. CASE LeaveRound(h)
    BY <1>1, <2>1, <2>2, <2>8, GotoTyped DEF LeaveRound, AfterMaybeClose
  <2>9. CASE TakeClose(h)
    <3>1. [handler[h] EXCEPT !.pc = "snapshot"] \in Locals
      BY <2>1 DEF Locals, ClosingPcs
    <3> QED
      BY <1>1, <2>1, <2>2, <2>9, <3>1, GotoTyped DEF TakeClose, GotoPc, AfterMaybeClose
  <2>10. CASE Snapshot(h)
    <3>1. [handler[h] EXCEPT !.pc = "load", !.kept = Accepted(handler[h].idx),
                             !.hasRef = momentumRef] \in Locals
      BY <1>1, <2>1 DEF Locals, ClosingPcs, CoordinatorTypeOK, Accepted
    <3> QED BY <1>1, <2>2, <2>10, <3>1, GotoTyped DEF Snapshot
  <2>11. ASSUME NEW S, NEW pc \in {"norms", "finish", "combine"}, Reject(h, S, pc) PROVE Rest'
    <3>1. [handler[h] EXCEPT !.pc = pc, !.kept = @ \ S] \in Locals
      BY <2>1 DEF Locals, ClosingPcs
    <3> QED BY <1>1, <2>2, <2>11, <3>1, GotoTyped DEF Reject
  <2>12. CASE LoadArtifacts(h) \/ CheckNorms(h)
    BY <2>11, <2>12 DEF LoadArtifacts, CheckNorms
  <2>13. CASE CombineWithMomentum(h)
    <3>1. (IF handler[h].hasRef THEN momentum ELSE Zeros) \in [RoundIdx -> Nat]
      BY <1>1 DEF CoordinatorTypeOK, Zeros
    <3> QED
      BY <1>1, <2>1, <2>13, <3>1, CombineTyped, <1>2
         DEF CombineWithMomentum, Combine, Rest
  <2>14. CASE PutAdapter(h)
    <3>1. [handler[h] EXCEPT !.pc = "put_momentum"] \in Locals
      BY <2>1 DEF Locals, ClosingPcs
    <3>2. adapters' \in [RoundIdx -> SUBSET Tasks]
      BY <1>1, <2>1, <2>14 DEF PutAdapter, CoordinatorTypeOK, Locals
    <3> QED BY <1>1, <1>2, <2>14, <3>1, <3>2, GotoTyped DEF PutAdapter, GotoPc, Rest
  <2>15. CASE PutMomentum(h)
    <3>1. [handler[h] EXCEPT !.pc = "set_momentum_ref", !.folds = Zeros] \in Locals
      BY <2>1 DEF Locals, ClosingPcs, Zeros
    <3>2. momentum' \in [RoundIdx -> Nat]
      BY <2>1, <2>15 DEF PutMomentum, Locals
    <3> QED BY <1>1, <1>2, <2>15, <3>1, <3>2, GotoTyped DEF PutMomentum, Rest
  <2>16. CASE SetMomentumRef(h)
    <3>1. [handler[h] EXCEPT !.pc = "finish"] \in Locals
      BY <2>1 DEF Locals, ClosingPcs
    <3> QED BY <1>1, <1>2, <2>16, <3>1, GotoTyped DEF SetMomentumRef, GotoPc, Rest
  <2>17. CASE Finish(h)
    <3>1. [handler[h] EXCEPT !.pc = "advance"] \in Locals
      BY <2>1 DEF Locals
    <3> QED BY <1>1, <2>2, <2>17, <3>1, GotoTyped DEF Finish, GotoPc
  <2>18. CASE Advance(h)
    BY <1>1, <2>1, <2>2, <2>18, GotoTyped DEF Advance, AfterMaybeClose
  <2>19. CASE Release(h)
    BY <1>1, <2>1, <2>2, <2>19, GotoTyped DEF Release
  <2> QED
    BY <1>3, <2>3, <2>4, <2>5, <2>6, <2>7, <2>8, <2>9, <2>10, <2>12, <2>13, <2>14, <2>15,
       <2>16, <2>17, <2>18, <2>19 DEF HandlerStep
<1>4. ASSUME NEW h \in Handlers,
             GateFails(h) \/ CloseFails(h) \/ CombineWithoutMomentum(h)
      PROVE  Rest'
  <2>1. handler[h] \in Locals /\ Idle \in Locals
    BY <1>1, LocalsTyped
  <2>2. /\ failures' \in 0 .. MaxFailures /\ UNCHANGED <<storeVars, crashes>>
    BY <1>2, <1>4, CoordinatorAssumption
       DEF Rest, GateFails, CloseFails, CombineWithoutMomentum, Combine
  <2>3. CASE GateFails(h)
    BY <1>1, <1>2, <2>1, <2>2, <2>3, GotoTyped DEF GateFails, Rest
  <2>4. CASE CloseFails(h)
    <3>1. [Idle EXCEPT !.pc = "release", !.idx = handler[h].idx] \in Locals
      BY <2>1 DEF Locals
    <3> QED BY <1>1, <1>2, <2>2, <2>4, <3>1, GotoTyped DEF CloseFails, Rest
  <2>5. CASE CombineWithoutMomentum(h)
    <3>1. Zeros \in [RoundIdx -> Nat]
      BY DEF Zeros
    <3> QED
      BY <1>1, <1>2, <2>2, <2>5, <3>1, CombineTyped DEF CombineWithoutMomentum, Rest
  <2> QED BY <1>4, <2>3, <2>4, <2>5
<1>5. ASSUME NEW h \in Handlers, NEW l \in Locals, Goto(h, l), UNCHANGED <<storeVars, faultVars>>
      PROVE  Rest'
  BY <1>1, <1>2, <1>5, GotoTyped DEF Rest
<1>6. ASSUME NEW h \in Handlers, NEW w \in Workers, StartClaim(h, w) PROVE Rest'
  <2>1. [Idle EXCEPT !.pc = "evaluate", !.worker = w] \in Locals
    BY <1>1, LocalsTyped DEF Locals
  <2> QED BY <1>5, <1>6, <2>1 DEF StartClaim
<1>7. ASSUME NEW h \in Handlers, NEW t \in Tasks, NEW s \in StepCounts, StartSubmit(h, t, s)
      PROVE  Rest'
  <2>1. [Idle EXCEPT !.pc = "gate", !.gating = {t}] \in Locals
    BY <1>1, LocalsTyped DEF Locals
  <2> QED BY <1>5, <1>7, <2>1 DEF StartSubmit
<1>8. ASSUME UNCHANGED <<handler, storeVars, faultVars>> PROVE Rest'
  BY <1>2, <1>8 DEF Rest
<1>9. CASE Crash
  <2>1. handler' \in [Handlers -> Locals]
    BY <1>1, <1>9, LocalsTyped DEF Crash
  <2> QED BY <1>2, <1>9, <2>1, CoordinatorAssumption DEF Crash, Rest
<1> QED
  BY <1>2, <1>3, <1>4, <1>6, <1>7, <1>8, <1>9
     DEF CoordinatorNext, AbandonRequest, LeaseRunsOut, HeartbeatRequest, ClockAdvances

-----------------------------------------------------------------------------
(* What one thread does leaves what the others have read true.             *)

\* A submission stays one, and stays in its round.
LEMMA SubmissionsStay ==
  ASSUME DatabaseInv, [Next]_vars
  PROVE  \A t \in Tasks : verdict[t] # "none" =>
           verdict'[t] # "none" /\ tasks'[t].round = tasks[t].round
<1> SUFFICES ASSUME NEW t \in Tasks, verdict[t] # "none"
             PROVE  verdict'[t] # "none" /\ tasks'[t].round = tasks[t].round
  OBVIOUS
<1> USE DEF roundVars, taskVars, submissionVars, bucketVars
<1>1. TypeOK /\ tasks[t].status = "submitted" /\ lapsed \in SUBSET Tasks
  BY DEF DatabaseInv, LeaseInv, SubmissionsKeepTheirTask, TypeOK
<1>2. ASSUME UNCHANGED <<tasks, verdict>>
      PROVE  verdict'[t] # "none" /\ tasks'[t].round = tasks[t].round
  BY <1>2
<1>3. ASSUME NEW S \in SUBSET Tasks, NEW status \in {"submitted", "abandoned", "expired"},
             Retire(S, status), verdict'[t] = verdict[t] \/ verdict'[t] = "ungated"
      PROVE  verdict'[t] # "none" /\ tasks'[t].round = tasks[t].round
  BY <1>1, <1>3, RetireChangesStatusOnly
<1>4. CASE ExpireLeases
  BY <1>1, <1>3, <1>4 DEF ExpireLeases
<1>5. ASSUME NEW u \in Tasks, Abandon(u)
      PROVE  verdict'[t] # "none" /\ tasks'[t].round = tasks[t].round
  BY <1>3, <1>5 DEF Abandon
<1>6. ASSUME NEW u \in Tasks, NEW n \in StepCounts, RecordSubmission(u, n)
      PROVE  verdict'[t] # "none" /\ tasks'[t].round = tasks[t].round
  <2>1. verdict'[t] = verdict[t] \/ verdict'[t] = "ungated"
    BY <1>1, <1>6 DEF RecordSubmission, TypeOK
  <2> QED BY <1>3, <1>6, <2>1 DEF RecordSubmission
<1>7. ASSUME NEW S \in SUBSET Tasks, NEW v \in {"accepted", "rejected"}, RecordVerdictTxn(S, v)
      PROVE  verdict'[t] # "none" /\ tasks'[t].round = tasks[t].round
  BY <1>7 DEF RecordVerdictTxn
<1>8. ASSUME NEW u \in Tasks, NEW w \in Workers, NEW S \in SUBSET Buckets, ClaimTask(w, u, S)
      PROVE  verdict'[t] # "none" /\ tasks'[t].round = tasks[t].round
  BY <1>1, <1>8 DEF ClaimTask, TypeOK
<1>9. ASSUME NEW K \in SUBSET Tasks, FinishClose(currentRound, K)
      PROVE  verdict'[t] # "none" /\ tasks'[t].round = tasks[t].round
  <2>1. OutstandingLeases(currentRound) \in SUBSET Tasks
    BY DEF OutstandingLeases
  <2> QED BY <1>3, <1>9, <2>1 DEF FinishClose, FinishCloseTxn
<1> QED
  BY <1>2, <1>4, <1>5, <1>6, <1>7, <1>8, <1>9
     DEF Next, TimePasses, LeaseLapses, Heartbeat, GateSubmission, GateTxn, RejectAtClose,
         ClaimClose, ClaimCloseTxn, ReleaseClose, ReopenTxn, ReopenEmptyRound, OpenRound,
         OpenRoundTxn, FinishRun, FinishRunTxn, vars

\* The thread stays where it is, with what it has read.
SameThread(g) ==
  /\ handler'[g].pc = handler[g].pc
  /\ handler'[g].worker = handler[g].worker
  /\ handler'[g].gating = handler[g].gating
  /\ handler'[g].idx = handler[g].idx
  /\ handler'[g].kept = handler[g].kept

\* The step leaves alone what the close of the round is based on.
CloseUntouched ==
  /\ UNCHANGED <<currentRound, roundStatus, result, adapters>>
  /\ \A t \in Tasks : verdict[t] = "accepted" => verdict'[t] = "accepted"

\* A thread that does not move still knows the truth, if the transaction leaves
\* alone what it gates and, if it owns the close, the close.
LEMMA OtherThread ==
  ASSUME CoordinatorInv, [Next]_vars, LeaseInv', NEW g \in Handlers, SameThread(g),
         At(g, "gate") => \A t \in handler[g].gating : verdict'[t] = verdict[t],
         Owns(g) => CloseUntouched
  PROVE  LocalsAreTrueOf(g)'
<1> USE DEF At, SameThread
<1>1. LocalsAreTrueOf(g) /\ handler[g].kept \in SUBSET Tasks
  BY OwnerFacts DEF CoordinatorInv, LocalsAreTrue
<1>2. GatingIsTrue(g)' /\ ClaimantIsTrue(g)'
  BY <1>1 DEF LocalsAreTrueOf, GatingIsTrue, ClaimantIsTrue
<1>3. RuleIsTrue(g)'
  BY <1>1, SubmissionsStay
     DEF LocalsAreTrueOf, RuleIsTrue, HasSubmission, CoordinatorInv
<1>4. OwnerIsTrue(g)'
  BY <1>1 DEF LocalsAreTrueOf, OwnerIsTrue, Owns, Closing, CloseUntouched
<1>5. KeptIsTrue(g)'
  <2>1. handler[g].pc \in Aggregating => Owns(g)
    BY DEF Owns, Closing, ClosingPcs, Aggregating
  <2>2. CASE ~Owns(g)
    BY <2>1, <2>2 DEF KeptIsTrue, Aggregating
  <2>3. CASE Owns(g)
    <3>1. \A t \in Tasks : t \in Accepted(handler[g].idx) => (t \in Accepted(handler[g].idx))'
      BY <2>3, SubmissionsStay
         DEF CloseUntouched, Accepted, CoordinatorInv, Issued, LeaseInv,
             SubmissionsKeepTheirTask
    <3> QED BY <1>1, <2>3, <3>1 DEF LocalsAreTrueOf, KeptIsTrue, CloseUntouched
  <2> QED BY <2>2, <2>3
<1> QED BY <1>2, <1>3, <1>4, <1>5 DEF LocalsAreTrueOf

\* A step of one thread keeps the invariant if what it knows afterwards is
\* true, it takes nothing another thread has, and disturbs no other's basis.
LEMMA ThreadStep ==
  ASSUME CoordinatorInv, [Next]_vars, CoordinatorTypeOK', NEW h \in Handlers,
         \A g \in Handlers \ {h} : SameThread(g),
         LocalsAreTrueOf(h)',
         Owns(h)' => \A g \in Handlers \ {h} : ~Owns(g),
         At(h, "gate")' => \A g \in Handlers \ {h} :
           At(g, "gate") => handler[g].gating \cap handler'[h].gating = {},
         \A g \in Handlers \ {h} :
           At(g, "gate") => \A t \in handler[g].gating : verdict'[t] = verdict[t],
         (\E g \in Handlers \ {h} : Owns(g)) => CloseUntouched,
         PublishedObjectIsTheResult'
  PROVE  CoordinatorInv'
<1>1. DatabaseInv'
  BY TypeStep, LeaseStep, ChainStep DEF CoordinatorInv, DatabaseInv
<1>2. LocalsAreTrue'
  <2>1. ASSUME NEW g \in Handlers \ {h} PROVE LocalsAreTrueOf(g)'
    BY <1>1, OtherThread DEF DatabaseInv
  <2> QED BY <2>1 DEF LocalsAreTrue
<1>3. Exclusive'
  BY DEF CoordinatorInv, Exclusive, SameThread, At, Owns, Closing
<1> QED BY <1>1, <1>2, <1>3 DEF CoordinatorInv

\* Where a thread has read nothing yet, or nothing it relies on, or is about
\* to lease to its claimant.
LEMMA NothingToKnow ==
  ASSUME NEW h \in Handlers,
         \/ handler'[h].pc \in {"idle", "evaluate", "progress", "reopen_empty"}
         \/ handler'[h].pc = "lease" /\ handler'[h].worker # NoWorker
  PROVE  LocalsAreTrueOf(h)' /\ ~Owns(h)' /\ ~At(h, "gate")'
BY DEF LocalsAreTrueOf, GatingIsTrue, ClaimantIsTrue, RuleIsTrue, OwnerIsTrue, KeptIsTrue,
       At, Owns, Closing, ClosingPcs, Aggregating

\* Behind maybe_close a thread relies on nothing of the round.
LEMMA NextLocalsKnowNothing ==
  ASSUME CoordinatorTypeOK, NEW h \in Handlers, AfterMaybeClose(h)
  PROVE  LocalsAreTrueOf(h)' /\ ~Owns(h)' /\ ~At(h, "gate")'
<1>1. handler'[h] = NextLocals(h)
  BY DEF AfterMaybeClose, Goto, CoordinatorTypeOK
<1>2. \/ handler'[h].pc = "idle"
      \/ handler'[h].pc = "lease" /\ handler'[h].worker # NoWorker
  BY <1>1 DEF NextLocals, Idle
<1> QED BY <1>2, NothingToKnow

\* A thread moves itself and no other.
LEMMA GotoMovesOne ==
  ASSUME CoordinatorTypeOK, NEW h \in Handlers, NEW l, Goto(h, l)
  PROVE  /\ handler'[h] = l
         /\ \A g \in Handlers \ {h} : SameThread(g)
BY DEF Goto, CoordinatorTypeOK, SameThread

\* The database as other threads see it is as it was.
QuietStep ==
  /\ UNCHANGED <<currentRound, roundStatus, result, adapters>>
  /\ \A t \in Tasks : verdict[t] # "none" => verdict'[t] = verdict[t]

\* A thread that disturbs neither close nor verdict has to answer for itself only.
LEMMA QuietThreadStep ==
  ASSUME CoordinatorInv, [Next]_vars, CoordinatorTypeOK', QuietStep, NEW h \in Handlers,
         \A g \in Handlers \ {h} : SameThread(g),
         LocalsAreTrueOf(h)',
         Owns(h)' => Owns(h),
         At(h, "gate")' => \A g \in Handlers \ {h} :
           At(g, "gate") => handler[g].gating \cap handler'[h].gating = {}
  PROVE  CoordinatorInv'
<1>1. CloseUntouched
  BY DEF QuietStep, CloseUntouched
<1>2. \A g \in Handlers :
        At(g, "gate") => \A t \in handler[g].gating : verdict'[t] = verdict[t]
  BY OwnerFacts DEF QuietStep
<1>3. PublishedObjectIsTheResult'
  BY DEF CoordinatorInv, PublishedObjectIsTheResult, QuietStep
<1>4. Owns(h)' => \A g \in Handlers \ {h} : ~Owns(g)
  BY DEF CoordinatorInv, Exclusive
<1> QED BY <1>1, <1>2, <1>3, <1>4, ThreadStep

\* A step in which the threads do not move either.
LEMMA QuietStepKeepsInv ==
  ASSUME CoordinatorInv, [Next]_vars, CoordinatorTypeOK', QuietStep,
         \A g \in Handlers : SameThread(g)
  PROVE  CoordinatorInv'
<1>1. DatabaseInv'
  BY TypeStep, LeaseStep, ChainStep DEF CoordinatorInv, DatabaseInv
<1>2. CloseUntouched
  BY DEF QuietStep, CloseUntouched
<1>3. ASSUME NEW g \in Handlers PROVE LocalsAreTrueOf(g)'
  <2>1. At(g, "gate") => \A t \in handler[g].gating : verdict'[t] = verdict[t]
    BY OwnerFacts DEF QuietStep
  <2> QED BY <1>1, <1>2, <2>1, OtherThread DEF DatabaseInv
<1>4. Exclusive'
  BY DEF CoordinatorInv, Exclusive, SameThread, At, Owns, Closing
<1>5. PublishedObjectIsTheResult'
  BY DEF CoordinatorInv, PublishedObjectIsTheResult, QuietStep
<1> QED BY <1>1, <1>3, <1>4, <1>5 DEF CoordinatorInv, LocalsAreTrue

\* The transactions that decide nothing and move no round.
LEMMA QuietTransactions ==
  ASSUME DatabaseInv, UNCHANGED adapters,
         \/ UNCHANGED vars
         \/ ExpireLeases
         \/ \E t \in Tasks :
              \/ LeaseLapses(t)
              \/ Abandon(t)
              \/ \E n \in HeartbeatSteps : Heartbeat(t, n)
              \/ \E n \in StepCounts : RecordSubmission(t, n)
              \/ \E w \in Workers, S \in SUBSET Buckets : ClaimTask(w, t, S)
         \/ TimePasses
         \/ \E r \in RoundIdx : ReopenEmptyRound(r)
  PROVE  QuietStep
<1> USE DEF roundVars, taskVars, submissionVars, bucketVars, QuietStep
<1>1. ASSUME NEW t \in Tasks, NEW n \in StepCounts, RecordSubmission(t, n) PROVE QuietStep
  <2>1. verdict[t] = "none"
    BY <1>1 DEF RecordSubmission, Leased, DatabaseInv, LeaseInv, SubmissionsKeepTheirTask
  <2> QED BY <1>1, <2>1 DEF RecordSubmission, DatabaseInv, TypeOK
<1> QED
  BY <1>1 DEF vars, ExpireLeases, LeaseLapses, Abandon, Heartbeat, ClaimTask, TimePasses,
              ReopenEmptyRound

-----------------------------------------------------------------------------
(* The steps of a thread.                                                  *)

\* Those that leave the close and the verdicts alone.
LEMMA QuietHandlerSteps ==
  ASSUME CoordinatorInv, [Next]_vars, CoordinatorTypeOK', NEW h \in Handlers,
         \/ Lease(h) \/ LeaseNothing(h) \/ EvaluateRound(h) \/ EvaluateProgress(h)
         \/ ReopenEmpty(h) \/ LeaveRound(h) \/ Snapshot(h) \/ PutMomentum(h)
         \/ SetMomentumRef(h) \/ GateFails(h) \/ CloseFails(h)
         \/ CombineWithMomentum(h) \/ CombineWithoutMomentum(h)
  PROVE  CoordinatorInv'
<1>1. CoordinatorTypeOK /\ DatabaseInv
  BY DEF CoordinatorInv
<1>2. QuietStep
  <2>1. CASE Lease(h)
    <3>1. handler[h].worker \in Workers
      BY <2>1 DEF Lease, At, CoordinatorInv, CoordinatorTypeOK, Locals, LocalsAreTrue,
                  LocalsAreTrueOf, ClaimantIsTrue
    <3> QED BY <1>1, <2>1, <3>1, QuietTransactions DEF Lease, storeVars
  <2>2. CASE ReopenEmpty(h)
    BY <1>1, <2>2, OwnerFacts, QuietTransactions DEF ReopenEmpty, storeVars
  <2>3. ASSUME UNCHANGED vars, UNCHANGED adapters PROVE QuietStep
    BY <1>1, <2>3, QuietTransactions
  <2> QED
    BY <2>1, <2>2, <2>3
       DEF LeaseNothing, EvaluateRound, EvaluateProgress, LeaveRound, Snapshot, PutMomentum,
           SetMomentumRef, GateFails, CloseFails, CombineWithMomentum,
           CombineWithoutMomentum, Combine, storeVars
<1>3. ASSUME \A g \in Handlers \ {h} : SameThread(g), LocalsAreTrueOf(h)',
             Owns(h)' => Owns(h), ~At(h, "gate")'
      PROVE  CoordinatorInv'
  BY <1>2, <1>3, QuietThreadStep
<1>4. ASSUME NEW l, Goto(h, l),
             l.pc \in {"idle", "evaluate", "progress", "reopen_empty"}
      PROVE  CoordinatorInv'
  BY <1>1, <1>3, <1>4, GotoMovesOne, NothingToKnow
<1>5. ASSUME AfterMaybeClose(h) PROVE CoordinatorInv'
  BY <1>1, <1>3, <1>5, NextLocalsKnowNothing, GotoMovesOne DEF AfterMaybeClose
<1>6. handler[h] \in Locals
  BY <1>1, LocalsTyped
<1>7. CASE Lease(h) \/ LeaseNothing(h) \/ GateFails(h)
  BY <1>4, <1>7 DEF Lease, LeaseNothing, GateFails, Idle
<1>8. CASE EvaluateRound(h)
  <2>1. [handler[h] EXCEPT !.pc = IF roundStatus[currentRound] = "open"
                                  THEN "progress" ELSE "reopen_empty",
                           !.idx = currentRound, !.elapsed = age].pc
          \in {"progress", "reopen_empty"}
    BY <1>6 DEF Locals
  <2> QED BY <1>4, <1>5, <1>8, <2>1 DEF EvaluateRound
<1>9. CASE EvaluateProgress(h)
  <2> DEFINE l == [handler[h] EXCEPT !.pc = "claim_close", !.elapsed = 0,
                                     !.restarted = FALSE]
  <2>1. CASE CloseRule(handler[h].idx, handler[h].elapsed)
    <3>1. l.pc = "claim_close" /\ l.idx = handler[h].idx
      BY <1>6 DEF Locals
    <3>2. Goto(h, l)
      BY <1>9, <2>1 DEF EvaluateProgress
    <3>3. handler'[h].pc = "claim_close" /\ handler'[h].idx = handler[h].idx
      BY <1>1, <3>1, <3>2, GotoMovesOne
    <3>4. HasSubmission(handler[h].idx)
      BY <2>1, RuleNeedsSubmission
    <3>5. \A r : HasSubmission(r) => HasSubmission(r)'
      BY <1>1, SubmissionsStay DEF HasSubmission
    <3>6. RuleIsTrue(h)'
      BY <3>3, <3>4, <3>5 DEF RuleIsTrue
    <3>7. LocalsAreTrueOf(h)' /\ ~Owns(h)' /\ ~At(h, "gate")'
      BY <3>3, <3>6
         DEF LocalsAreTrueOf, GatingIsTrue, ClaimantIsTrue, OwnerIsTrue, KeptIsTrue,
             At, Owns, Closing, ClosingPcs, Aggregating
    <3> QED BY <1>1, <1>3, <3>2, <3>7, GotoMovesOne
  <2>2. CASE ~CloseRule(handler[h].idx, handler[h].elapsed)
    <3>1. [handler[h] EXCEPT !.pc = "reopen_empty"].pc = "reopen_empty"
      BY <1>6 DEF Locals
    <3> QED BY <1>4, <1>9, <2>2, <3>1 DEF EvaluateProgress, GotoPc
  <2> QED BY <2>1, <2>2
<1>10. CASE ReopenEmpty(h)
  <2>1. \A g \in Handlers \ {h} : SameThread(g)
    BY <1>1, <1>10, LocalsTyped DEF ReopenEmpty, SameThread, Locals
  <2>2. handler'[h] = NextLocals(h)
    BY <1>10 DEF ReopenEmpty
  <2>3. \/ handler'[h].pc = "idle"
        \/ handler'[h].pc = "lease" /\ handler'[h].worker # NoWorker
    BY <2>2 DEF NextLocals, Idle
  <2> QED BY <1>3, <2>1, <2>3, NothingToKnow
<1>11. CASE LeaveRound(h)
  BY <1>5, <1>11 DEF LeaveRound
\* The rest are steps of the close.
<1>12. ASSUME UNCHANGED vars, NEW l, Goto(h, l), Owns(h), l.idx = handler[h].idx, l.pc # "gate", l.pc # "lease",
              l.pc # "claim_close",
              l.pc \in ClosingPcs => Closing(h),
              l.pc # "advance",
              l.pc = "release" => Closing(h) \/ At(h, "advance"),
              l.pc \in Aggregating => l.kept \subseteq Accepted(l.idx),
              l.pc \in {"put_momentum", "set_momentum_ref"} => adapters'[l.idx] = l.kept,
              l.pc = "finish" => l.kept = {} \/ adapters'[l.idx] = l.kept
       PROVE  CoordinatorInv'
  <2>1. handler'[h] = l /\ \A g \in Handlers \ {h} : SameThread(g)
    BY <1>1, <1>12, GotoMovesOne
  <2>2. OwnerIsTrue(h)'
    BY <1>2, <1>12, <2>1, OwnerFacts DEF OwnerIsTrue, Owns, Closing, At, QuietStep
  <2>3. GatingIsTrue(h)' /\ ClaimantIsTrue(h)' /\ RuleIsTrue(h)'
    BY <1>12, <2>1 DEF GatingIsTrue, ClaimantIsTrue, RuleIsTrue, At
  <2>4. \A r : Accepted(r)' = Accepted(r)
    BY <1>12 DEF Accepted, Issued, vars, taskVars, submissionVars
  <2>5. KeptIsTrue(h)'
    BY <1>12, <2>1, <2>4 DEF KeptIsTrue, At
  <2>6. Owns(h)' => Owns(h)
    BY <1>12
  <2>7. ~At(h, "gate")'
    BY <1>12, <2>1 DEF At
  <2> QED BY <1>3, <2>1, <2>2, <2>3, <2>5, <2>6, <2>7 DEF LocalsAreTrueOf
<1>13. CASE Snapshot(h)
  <2> DEFINE l == [handler[h] EXCEPT !.pc = "load", !.kept = Accepted(handler[h].idx),
                                     !.hasRef = momentumRef]
  <2>1. l.pc = "load" /\ l.idx = handler[h].idx /\ l.kept = Accepted(handler[h].idx)
    BY <1>6 DEF Locals
  <2>2. Goto(h, l) /\ Closing(h) /\ Owns(h) /\ UNCHANGED vars
    BY <1>13 DEF Snapshot, Closing, Owns, At, ClosingPcs
  <2> HIDE DEF l
  <2> QED BY <1>12, <2>1, <2>2
<1>14. ASSUME NEW m, Combine(h, m) PROVE CoordinatorInv'
  <2> DEFINE l == [handler[h] EXCEPT !.pc = "put_adapter", !.hasRef = FALSE,
                                     !.folds = [m EXCEPT ![handler[h].idx] = @ + 1]]
  <2>1. l.pc = "put_adapter" /\ l.idx = handler[h].idx /\ l.kept = handler[h].kept
    BY <1>6 DEF Locals
  <2>2. Goto(h, l) /\ Closing(h) /\ Owns(h) /\ UNCHANGED vars /\ handler[h].pc \in Aggregating
    BY <1>14 DEF Combine, Closing, Owns, At, ClosingPcs, Aggregating
  <2>3. l.kept \subseteq Accepted(l.idx)
    BY <2>1, <2>2, OwnerFacts
  <2> HIDE DEF l
  <2> QED BY <1>12, <2>1, <2>2, <2>3
<1>15. CASE PutMomentum(h)
  <2> DEFINE l == [handler[h] EXCEPT !.pc = "set_momentum_ref", !.folds = Zeros]
  <2>1. l.pc = "set_momentum_ref" /\ l.idx = handler[h].idx /\ l.kept = handler[h].kept
    BY <1>6 DEF Locals
  <2>2. /\ Goto(h, l) /\ Closing(h) /\ Owns(h) /\ UNCHANGED <<vars, adapters>>
        /\ handler[h].pc \in Aggregating
    BY <1>15 DEF PutMomentum, Closing, Owns, At, ClosingPcs, Aggregating
  <2>3. l.kept \subseteq Accepted(l.idx) /\ adapters'[l.idx] = l.kept
    BY <1>15, <2>1, <2>2, OwnerFacts
       DEF PutMomentum, CoordinatorInv, LocalsAreTrue, LocalsAreTrueOf, KeptIsTrue, At
  <2> HIDE DEF l
  <2> QED BY <1>12, <2>1, <2>2, <2>3
<1>16. CASE SetMomentumRef(h)
  <2> DEFINE l == [handler[h] EXCEPT !.pc = "finish"]
  <2>1. l.pc = "finish" /\ l.idx = handler[h].idx /\ l.kept = handler[h].kept
    BY <1>6 DEF Locals
  <2>2. /\ Goto(h, l) /\ Closing(h) /\ Owns(h) /\ UNCHANGED <<vars, adapters>>
        /\ handler[h].pc \in Aggregating
    BY <1>16 DEF SetMomentumRef, GotoPc, Closing, Owns, At, ClosingPcs, Aggregating
  <2>3. l.kept \subseteq Accepted(l.idx) /\ adapters'[l.idx] = l.kept
    BY <1>16, <2>1, <2>2, OwnerFacts
       DEF SetMomentumRef, CoordinatorInv, LocalsAreTrue, LocalsAreTrueOf, KeptIsTrue, At
  <2> HIDE DEF l
  <2> QED BY <1>12, <2>1, <2>2, <2>3
<1>17. CASE CloseFails(h)
  <2> DEFINE l == [Idle EXCEPT !.pc = "release", !.idx = handler[h].idx]
  <2>1. l.pc = "release" /\ l.idx = handler[h].idx
    BY DEF Idle
  <2>2. Goto(h, l) /\ UNCHANGED vars /\ (Closing(h) \/ At(h, "advance"))
    BY <1>17 DEF CloseFails, Closing, At
  <2> HIDE DEF l
  <2> QED BY <1>12, <2>1, <2>2 DEF Owns, ClosingPcs, Aggregating
<1> QED
  BY <1>7, <1>8, <1>9, <1>10, <1>11, <1>13, <1>14, <1>15, <1>16, <1>17
     DEF CombineWithMomentum, CombineWithoutMomentum

\* The gate decides its submission, which no other thread gates and no close
\* has in hand.
LEMMA GateStep ==
  ASSUME CoordinatorInv, [Next]_vars, CoordinatorTypeOK', NEW h \in Handlers, Gate(h)
  PROVE  CoordinatorInv'
<1>1. CoordinatorTypeOK /\ TypeOK
  BY DEF CoordinatorInv, DatabaseInv
<1>2. PICK t \in handler[h].gating, v \in {"accepted", "rejected"} : GateTxn(t, v)
  BY DEF Gate
<1>3. verdict[t] = "ungated" /\ t \in Tasks
  BY OwnerFacts DEF Gate
<1>4. \A u \in Tasks : u # t => verdict'[u] = verdict[u]
  BY <1>2 DEF GateTxn, RecordVerdictTxn
<1>5. [Idle EXCEPT !.pc = "evaluate"].pc = "evaluate"
  BY DEF Idle
<1>6. handler'[h].pc = "evaluate" /\ \A g \in Handlers \ {h} : SameThread(g)
  BY <1>1, <1>5, GotoMovesOne DEF Gate
<1>7. \A g \in Handlers \ {h} :
        At(g, "gate") => \A u \in handler[g].gating : verdict'[u] = verdict[u]
  BY <1>2, <1>4, OwnerFacts DEF Gate, CoordinatorInv, Exclusive
<1>8. UNCHANGED <<currentRound, roundStatus, result, adapters>>
  BY <1>2 DEF GateTxn, RecordVerdictTxn, roundVars, Gate, storeVars
<1>9. CloseUntouched
  BY <1>3, <1>4, <1>8 DEF CloseUntouched
<1>10. PublishedObjectIsTheResult'
  BY <1>8 DEF CoordinatorInv, PublishedObjectIsTheResult
<1> QED BY <1>6, <1>7, <1>9, <1>10, NothingToKnow, ThreadStep

\* The thread whose UPDATE finds the round open has it for itself.
LEMMA TakeCloseStep ==
  ASSUME CoordinatorInv, [Next]_vars, CoordinatorTypeOK', NEW h \in Handlers, TakeClose(h)
  PROVE  CoordinatorInv'
<1>1. CoordinatorTypeOK /\ DatabaseInv /\ TypeOK /\ handler[h] \in Locals
  BY DEF CoordinatorInv, DatabaseInv, CoordinatorTypeOK
<1>2. CASE UNCHANGED vars /\ AfterMaybeClose(h)
  <2>1. QuietStep
    BY <1>1, <1>2, QuietTransactions DEF TakeClose, storeVars
  <2> QED
    BY <1>1, <1>2, <2>1, NextLocalsKnowNothing, GotoMovesOne, QuietThreadStep
       DEF AfterMaybeClose
<1>3. CASE ClaimCloseTxn(handler[h].idx) /\ GotoPc(h, "snapshot")
  <2> DEFINE r == handler[h].idx
             l == [handler[h] EXCEPT !.pc = "snapshot"]
  <2>1. r \in RoundIdx /\ roundStatus[r] = "open"
    BY <1>3, OwnerFacts DEF ClaimCloseTxn, CloseIsFree
  <2>2. r = currentRound
    BY <1>1, <2>1, OnlyCurrent
  <2>3. \A g \in Handlers : ~Owns(g)
    BY <2>1, <2>2, OwnerFacts DEF Owns
  <2>4. /\ roundStatus' = [roundStatus EXCEPT ![r] = "closing"]
        /\ UNCHANGED <<currentRound, result, verdict, adapters>>
    BY <1>3 DEF ClaimCloseTxn, submissionVars, TakeClose, storeVars
  <2>5. l.pc = "snapshot" /\ l.idx = r
    BY <1>1 DEF Locals
  <2>6. /\ handler'[h].pc = "snapshot" /\ handler'[h].idx = r
        /\ \A g \in Handlers \ {h} : SameThread(g)
    BY <1>1, <1>3, <2>5, GotoMovesOne DEF GotoPc
  <2>7. roundStatus'[r] = "closing"
    BY <1>1, <2>1, <2>4 DEF TypeOK
  <2>8. LocalsAreTrueOf(h)'
    BY <2>2, <2>4, <2>6, <2>7
       DEF LocalsAreTrueOf, GatingIsTrue, ClaimantIsTrue, RuleIsTrue, OwnerIsTrue,
           KeptIsTrue, At, Owns, Closing, Aggregating
  <2>9. PublishedObjectIsTheResult'
    BY <2>4 DEF CoordinatorInv, PublishedObjectIsTheResult
  <2> QED BY <2>3, <2>4, <2>6, <2>8, <2>9, ThreadStep DEF At
<1> QED BY <1>2, <1>3 DEF TakeClose

\* What a close rejects, nothing else is about to decide.
LEMMA RejectStep ==
  ASSUME CoordinatorInv, [Next]_vars, CoordinatorTypeOK', NEW h \in Handlers,
         handler[h].pc \in {"load", "norms"},
         NEW S \in SUBSET handler[h].kept, NEW pc \in {"norms", "combine", "finish"},
         pc = "finish" => S = handler[h].kept,
         Reject(h, S, pc)
  PROVE  CoordinatorInv'
<1>1. CoordinatorTypeOK /\ DatabaseInv /\ TypeOK /\ handler[h] \in Locals
  BY DEF CoordinatorInv, DatabaseInv, CoordinatorTypeOK
<1>2. Owns(h) /\ Closing(h) /\ handler[h].pc \in Aggregating
  BY DEF Owns, Closing, ClosingPcs, Aggregating
<1>3. /\ \A t \in S : verdict[t] = "accepted"
      /\ handler[h].kept \subseteq Accepted(handler[h].idx)
  BY <1>2, OwnerFacts DEF Accepted
<1>4. /\ verdict' = [t \in Tasks |-> IF t \in S THEN "rejected" ELSE verdict[t]]
      /\ UNCHANGED <<currentRound, roundStatus, result, tasks, adapters>>
  BY DEF Reject, RecordVerdictTxn, roundVars, taskVars, storeVars
<1> DEFINE l == [handler[h] EXCEPT !.pc = pc, !.kept = @ \ S]
<1>5. l.pc = pc /\ l.idx = handler[h].idx /\ l.kept = handler[h].kept \ S
  BY <1>1 DEF Locals
<1>6. Goto(h, l)
  BY DEF Reject
<1> HIDE DEF l
<1>7. /\ handler'[h].pc = pc /\ handler'[h].idx = handler[h].idx
      /\ handler'[h].kept = handler[h].kept \ S
      /\ \A g \in Handlers \ {h} : SameThread(g)
  BY <1>1, <1>5, <1>6, GotoMovesOne
<1>8. OwnerIsTrue(h)'
  BY <1>2, <1>4, <1>7, OwnerFacts DEF OwnerIsTrue, Owns, Closing, At, ClosingPcs
<1>9. KeptIsTrue(h)'
  <2>1. \A t \in handler[h].kept \ S : (t \in Accepted(handler[h].idx))'
    BY <1>3, <1>4, <1>7 DEF Accepted, Issued
  <2> QED BY <1>7, <2>1 DEF KeptIsTrue, At
<1>10. LocalsAreTrueOf(h)'
  BY <1>7, <1>8, <1>9 DEF LocalsAreTrueOf, GatingIsTrue, ClaimantIsTrue, RuleIsTrue, At
<1>11. \A g \in Handlers \ {h} : ~Owns(g)
  BY <1>2 DEF CoordinatorInv, Exclusive
<1>12. \A g \in Handlers \ {h} :
         At(g, "gate") => \A t \in handler[g].gating : verdict'[t] = verdict[t]
  BY <1>3, <1>4, OwnerFacts DEF At
<1>13. PublishedObjectIsTheResult'
  BY <1>4 DEF CoordinatorInv, PublishedObjectIsTheResult
<1> QED BY <1>7, <1>10, <1>11, <1>12, <1>13, ThreadStep DEF At

\* The object of a round that has not closed is put again as often as needed.
LEMMA PutAdapterStep ==
  ASSUME CoordinatorInv, [Next]_vars, CoordinatorTypeOK', NEW h \in Handlers, PutAdapter(h)
  PROVE  CoordinatorInv'
<1>1. CoordinatorTypeOK /\ DatabaseInv /\ handler[h] \in Locals
  BY DEF CoordinatorInv, CoordinatorTypeOK
<1>2. Owns(h) /\ Closing(h) /\ handler[h].pc \in Aggregating
  BY DEF PutAdapter, At, Owns, Closing, ClosingPcs, Aggregating
<1> DEFINE r == handler[h].idx
           K == handler[h].kept
           l == [handler[h] EXCEPT !.pc = "put_momentum"]
<1>3. l.pc = "put_momentum" /\ l.idx = r /\ l.kept = K
  BY <1>1 DEF Locals
<1>4. Goto(h, l) /\ UNCHANGED vars
  BY DEF PutAdapter, GotoPc
<1>5. /\ handler'[h].pc = "put_momentum" /\ handler'[h].idx = r /\ handler'[h].kept = K
      /\ \A g \in Handlers \ {h} : SameThread(g)
  BY <1>1, <1>3, <1>4, GotoMovesOne
<1>6. /\ r \in RoundIdx /\ r = currentRound /\ roundStatus[r] = "closing"
      /\ K \subseteq Accepted(r)
  BY <1>2, OwnerFacts
<1>7. /\ adapters'[r] = K
      /\ \A q \in RoundIdx \ {r} : adapters'[q] = adapters[q]
  BY <1>1, <1>6 DEF PutAdapter, CoordinatorTypeOK
<1>8. /\ UNCHANGED <<currentRound, roundStatus, result, tasks, verdict>>
      /\ \A q : Accepted(q)' = Accepted(q)
  BY <1>4 DEF Accepted, Issued, vars, roundVars, taskVars, submissionVars
<1>9. OwnerIsTrue(h)'
  BY <1>5, <1>6, <1>8 DEF OwnerIsTrue, At
<1>10. KeptIsTrue(h)'
  BY <1>5, <1>6, <1>7, <1>8 DEF KeptIsTrue, At
<1>11. LocalsAreTrueOf(h)'
  BY <1>5, <1>9, <1>10 DEF LocalsAreTrueOf, GatingIsTrue, ClaimantIsTrue, RuleIsTrue, At
<1>12. \A g \in Handlers \ {h} : ~Owns(g)
  BY <1>2 DEF CoordinatorInv, Exclusive
<1>13. PublishedObjectIsTheResult'
  <2>1. result[r] = {}
    BY <1>1, <1>6 DEF DatabaseInv, ChainInv, RoundsFormAChain
  <2> QED BY <1>7, <1>8, <2>1 DEF CoordinatorInv, PublishedObjectIsTheResult
<1> HIDE DEF l, r, K
<1> QED BY <1>5, <1>8, <1>11, <1>12, <1>13, ThreadStep DEF At

\* The close names the object it has put.
LEMMA FinishStep ==
  ASSUME CoordinatorInv, [Next]_vars, CoordinatorTypeOK', NEW h \in Handlers, Finish(h)
  PROVE  CoordinatorInv'
<1>1. CoordinatorTypeOK /\ DatabaseInv /\ TypeOK /\ handler[h] \in Locals
  BY DEF CoordinatorInv, DatabaseInv, CoordinatorTypeOK
<1>2. Owns(h) /\ Closing(h) /\ At(h, "finish")
  BY DEF Finish, At, Owns, Closing, ClosingPcs
<1> DEFINE r == handler[h].idx
           K == handler[h].kept
           l == [handler[h] EXCEPT !.pc = "advance"]
<1>3. l.pc = "advance" /\ l.idx = r /\ l.kept = K
  BY <1>1 DEF Locals
<1>4. Goto(h, l) /\ FinishCloseTxn(r, K) /\ UNCHANGED adapters
  BY DEF Finish, GotoPc, storeVars
<1>5. /\ handler'[h].pc = "advance" /\ handler'[h].idx = r /\ handler'[h].kept = K
      /\ \A g \in Handlers \ {h} : SameThread(g)
  BY <1>1, <1>3, <1>4, GotoMovesOne
<1>6. r \in RoundIdx /\ r = currentRound
  BY <1>2, OwnerFacts
<1>7. /\ roundStatus' = [roundStatus EXCEPT ![r] = "closed"]
      /\ result' = [result EXCEPT ![r] = K]
      /\ UNCHANGED <<currentRound, verdict>>
  BY <1>4 DEF FinishCloseTxn, submissionVars
<1>8. roundStatus'[r] = "closed" /\ result'[r] = K
  BY <1>1, <1>6, <1>7 DEF TypeOK
<1>9. LocalsAreTrueOf(h)'
  BY <1>5, <1>6, <1>7, <1>8
     DEF LocalsAreTrueOf, GatingIsTrue, ClaimantIsTrue, RuleIsTrue, OwnerIsTrue, KeptIsTrue,
         At, Owns, Closing, ClosingPcs, Aggregating
<1>10. \A g \in Handlers \ {h} : ~Owns(g)
  BY <1>2 DEF CoordinatorInv, Exclusive
<1>11. PublishedObjectIsTheResult'
  <2>1. K = {} \/ adapters[r] = K
    BY <1>2 DEF CoordinatorInv, LocalsAreTrue, LocalsAreTrueOf, KeptIsTrue
  <2> QED
    BY <1>1, <1>4, <1>7, <1>8, <2>1 DEF CoordinatorInv, PublishedObjectIsTheResult, TypeOK
<1> HIDE DEF l, r, K
<1> QED BY <1>5, <1>7, <1>9, <1>10, <1>11, ThreadStep DEF At

\* The thread leaves the round behind it, or gives it back.
LEMMA LeavingSteps ==
  ASSUME CoordinatorInv, [Next]_vars, CoordinatorTypeOK', NEW h \in Handlers,
         Advance(h) \/ Release(h)
  PROVE  CoordinatorInv'
<1>1. CoordinatorTypeOK
  BY DEF CoordinatorInv
<1>2. /\ LocalsAreTrueOf(h)' /\ ~Owns(h)' /\ ~At(h, "gate")'
      /\ \A g \in Handlers \ {h} : SameThread(g)
  <2>1. CASE Advance(h)
    BY <1>1, <2>1, NextLocalsKnowNothing, GotoMovesOne DEF Advance, AfterMaybeClose
  <2>2. CASE Release(h)
    <3>1. Goto(h, Idle) /\ Idle.pc = "idle"
      BY <2>2 DEF Release, Idle
    <3> QED BY <1>1, <3>1, NothingToKnow, GotoMovesOne
  <2> QED BY <2>1, <2>2
<1>3. \A g \in Handlers \ {h} : ~Owns(g)
  BY DEF Advance, Release, At, Owns, CoordinatorInv, Exclusive
<1>4. UNCHANGED <<verdict, result, adapters>>
  <2>1. CASE Advance(h)
    <3>1. UNCHANGED vars \/ OpenRoundTxn(handler[h].idx + 1) \/ FinishRunTxn
      <4>1. CASE handler[h].kept = {}
        BY <2>1, <4>1 DEF Advance
      <4>2. CASE handler[h].kept # {} /\ handler[h].idx + 1 < TargetRounds
        BY <2>1, <4>2 DEF Advance
      <4>3. CASE handler[h].kept # {} /\ ~(handler[h].idx + 1 < TargetRounds)
        BY <2>1, <4>3 DEF Advance
      <4> QED BY <4>1, <4>2, <4>3
    <3> QED
      BY <2>1, <3>1
         DEF Advance, OpenRoundTxn, FinishRunTxn, vars, roundVars, submissionVars, storeVars
  <2>2. CASE Release(h)
    BY <2>2 DEF Release, ReopenTxn, submissionVars, storeVars
  <2> QED BY <2>1, <2>2
<1>5. PublishedObjectIsTheResult'
  BY <1>4 DEF CoordinatorInv, PublishedObjectIsTheResult
<1> QED BY <1>2, <1>3, <1>4, <1>5, ThreadStep

-----------------------------------------------------------------------------
(* The invariant.                                                          *)

\* Before the first request no thread knows anything.
LEMMA CoordinatorInvInit == CoordinatorInit => CoordinatorInv
<1> SUFFICES ASSUME CoordinatorInit PROVE CoordinatorInv
  OBVIOUS
<1>1. DatabaseInv
  BY TypeInit, LeaseInit, ChainInit DEF CoordinatorInit, DatabaseInv
<1>2. CoordinatorTypeOK
  <2>1. Idle \in Locals /\ Zeros \in [RoundIdx -> Nat]
    BY RoundsAssumption DEF Idle, Zeros, Locals, RoundIdx
  <2>2. failures \in 0 .. MaxFailures /\ crashes \in 0 .. MaxCrashes
    BY CoordinatorAssumption DEF CoordinatorInit
  <2>3. handler \in [Handlers -> Locals] /\ adapters \in [RoundIdx -> SUBSET Tasks]
    BY <2>1 DEF CoordinatorInit
  <2>4. momentum \in [RoundIdx -> Nat] /\ momentumRef \in BOOLEAN
    BY <2>1 DEF CoordinatorInit
  <2> QED
    BY <1>1, <2>2, <2>3, <2>4 DEF CoordinatorTypeOK, DatabaseInv
<1>3. \A h \in Handlers : handler[h].pc = "idle"
  BY DEF CoordinatorInit, Idle
<1>4. LocalsAreTrue /\ Exclusive
  BY <1>3 DEF LocalsAreTrue, LocalsAreTrueOf, GatingIsTrue, ClaimantIsTrue, RuleIsTrue,
              OwnerIsTrue, KeptIsTrue, Exclusive, At, Owns, Closing, ClosingPcs, Aggregating
<1>5. PublishedObjectIsTheResult
  BY DEF CoordinatorInit, Init, PublishedObjectIsTheResult
<1> QED BY <1>1, <1>2, <1>4, <1>5 DEF CoordinatorInv

\* Every step of every thread keeps the invariant.
LEMMA CoordinatorInvStep ==
  CoordinatorInv /\ [CoordinatorNext]_coordinatorVars => CoordinatorInv'
<1>1. CASE CoordinatorInv /\ UNCHANGED coordinatorVars
  <2> USE <1>1 DEF coordinatorVars, storeVars, faultVars
  <2>1. [Next]_vars /\ QuietStep /\ DatabaseInv
    BY QuietTransactions DEF CoordinatorInv
  <2>2. CoordinatorTypeOK'
    BY <2>1, TypeStep DEF CoordinatorInv, CoordinatorTypeOK
  <2>3. \A g \in Handlers : SameThread(g)
    BY DEF SameThread
  <2> QED BY <2>1, <2>2, <2>3, QuietStepKeepsInv
<1> SUFFICES ASSUME CoordinatorInv, CoordinatorNext PROVE CoordinatorInv'
  BY <1>1
<1>2. [Next]_vars /\ CoordinatorTypeOK' /\ CoordinatorTypeOK /\ DatabaseInv
  BY Simulation, CoordinatorTypeStep DEF CoordinatorInv
<1>3. ASSUME NEW h \in Handlers, HandlerStep(h) PROVE CoordinatorInv'
  <2>1. CASE LoadArtifacts(h)
    <3>1. PICK S \in SUBSET handler[h].kept : Reject(h, S, "norms")
      BY <2>1 DEF LoadArtifacts
    <3> QED BY <1>2, <2>1, <3>1, RejectStep DEF LoadArtifacts, At
  <2>2. CASE CheckNorms(h)
    <3>1. PICK S \in SUBSET handler[h].kept :
            Reject(h, S, IF handler[h].kept = S THEN "finish" ELSE "combine")
      BY <2>2 DEF CheckNorms
    <3> DEFINE pc == IF handler[h].kept = S THEN "finish" ELSE "combine"
    <3>2. /\ pc \in {"norms", "combine", "finish"}
          /\ pc = "finish" => S = handler[h].kept
      OBVIOUS
    <3> HIDE DEF pc
    <3> QED BY <1>2, <2>2, <3>1, <3>2, RejectStep DEF CheckNorms, At, pc
  <2> QED
    BY <1>2, <1>3, <2>1, <2>2, QuietHandlerSteps, GateStep, TakeCloseStep, PutAdapterStep,
       FinishStep, LeavingSteps DEF HandlerStep
<1>4. ASSUME NEW h \in Handlers,
             GateFails(h) \/ CloseFails(h) \/ CombineWithoutMomentum(h)
      PROVE  CoordinatorInv'
  BY <1>2, <1>4, QuietHandlerSteps
<1>5. ASSUME NEW h \in Handlers, NEW w \in Workers, StartClaim(h, w) PROVE CoordinatorInv'
  <2> DEFINE l == [Idle EXCEPT !.pc = "evaluate", !.worker = w]
  <2>1. Goto(h, l) /\ l.pc = "evaluate"
    BY <1>5 DEF StartClaim, Idle
  <2> HIDE DEF l
  <2>2. handler'[h].pc = "evaluate" /\ \A g \in Handlers \ {h} : SameThread(g)
    BY <1>2, <2>1, GotoMovesOne
  <2>3. QuietStep
    BY <1>2, <1>5, QuietTransactions DEF StartClaim, storeVars
  <2> QED BY <1>2, <2>2, <2>3, NothingToKnow, QuietThreadStep
<1>6. ASSUME NEW h \in Handlers, NEW t \in Tasks, NEW s \in StepCounts, StartSubmit(h, t, s)
      PROVE  CoordinatorInv'
  <2> DEFINE l == [Idle EXCEPT !.pc = "gate", !.gating = {t}]
  <2>1. Goto(h, l) /\ l.pc = "gate" /\ l.gating = {t}
    BY <1>6 DEF StartSubmit, Idle
  <2> HIDE DEF l
  <2>2. /\ handler'[h].pc = "gate" /\ handler'[h].gating = {t}
        /\ \A g \in Handlers \ {h} : SameThread(g)
    BY <1>2, <2>1, GotoMovesOne
  <2>3. QuietStep
    BY <1>2, <1>6, QuietTransactions DEF StartSubmit, storeVars
  <2>4. verdict'[t] = "ungated"
    BY <1>2, <1>6 DEF StartSubmit, RecordSubmission, DatabaseInv, TypeOK
  <2>5. LocalsAreTrueOf(h)' /\ ~Owns(h)'
    BY <2>2, <2>4
       DEF LocalsAreTrueOf, GatingIsTrue, ClaimantIsTrue, RuleIsTrue, OwnerIsTrue, KeptIsTrue,
           At, Owns, Closing, ClosingPcs, Aggregating
  <2>6. verdict[t] = "none"
    BY <1>2, <1>6 DEF StartSubmit, RecordSubmission, Leased, DatabaseInv, LeaseInv,
                      SubmissionsKeepTheirTask
  <2>7. \A g \in Handlers \ {h} :
          At(g, "gate") => handler[g].gating \cap handler'[h].gating = {}
    BY <2>2, <2>6, OwnerFacts
  <2> QED BY <1>2, <2>2, <2>3, <2>5, <2>7, QuietThreadStep
<1>7. ASSUME UNCHANGED <<handler, storeVars>>, QuietStep PROVE CoordinatorInv'
  <2>1. \A g \in Handlers : SameThread(g)
    BY <1>7 DEF SameThread
  <2> QED BY <1>2, <1>7, <2>1, QuietStepKeepsInv
<1>8. ASSUME NEW t \in Tasks,
             \/ AbandonRequest(t)
             \/ LeaseRunsOut(t)
             \/ \E s \in HeartbeatSteps : HeartbeatRequest(t, s)
      PROVE  CoordinatorInv'
  BY <1>2, <1>7, <1>8, QuietTransactions
     DEF AbandonRequest, LeaseRunsOut, HeartbeatRequest, storeVars
<1>9. CASE ClockAdvances
  BY <1>2, <1>7, <1>9, QuietTransactions DEF ClockAdvances, storeVars
<1>10. CASE Crash
  <2>1. QuietStep /\ \A h \in Handlers : handler'[h].pc = "idle"
    BY <1>2, <1>10, QuietTransactions DEF Crash, storeVars, Idle
  <2>2. DatabaseInv'
    BY <1>2, TypeStep, LeaseStep, ChainStep DEF DatabaseInv
  <2>3. LocalsAreTrue' /\ Exclusive'
    BY <2>1, NothingToKnow DEF LocalsAreTrue, Exclusive
  <2>4. PublishedObjectIsTheResult'
    BY <2>1 DEF CoordinatorInv, PublishedObjectIsTheResult, QuietStep
  <2> QED BY <1>2, <2>2, <2>3, <2>4 DEF CoordinatorInv
<1> QED
  BY <1>3, <1>4, <1>5, <1>6, <1>8, <1>9, <1>10 DEF CoordinatorNext

\* Whatever the threads interleave, what each has read of the round it closes,
\* the submission it gates and the worker it leases to is true when it acts.
THEOREM CoordinatorInvariance == CoordinatorSpec => []CoordinatorInv
BY CoordinatorInvInit, CoordinatorInvStep, PTL DEF CoordinatorSpec

-----------------------------------------------------------------------------
(* What follows from it.                                                   *)

\* Every local of every thread and every object holds a value of its domain.
THEOREM CoordinatorTypeCorrect == CoordinatorSpec => []CoordinatorTypeOK
<1>1. CoordinatorInv => CoordinatorTypeOK
  BY DEF CoordinatorInv
<1> QED BY <1>1, CoordinatorInvariance, PTL

\* One thread at a time is inside the close of a round, which is 'closing'
\* meanwhile, however many found the close rule satisfied and whatever raises
\* or restarts (closer.py:152-168).
THEOREM OneThreadCloses == CoordinatorSpec => []SingleCloser
<1>1. CoordinatorInv => SingleCloser
  <2> SUFFICES ASSUME CoordinatorInv, NEW r \in RoundIdx
               PROVE  /\ Cardinality(Closers(r)) <= 1
                      /\ Closers(r) # {} => roundStatus[r] = "closing"
    BY DEF SingleCloser
  <2>1. \A g, h \in Closers(r) : g = h
    BY DEF CoordinatorInv, Exclusive, Closers, Owns, Closing
  <2>2. CASE Closers(r) = {}
    BY <2>2, FS_EmptySet
  <2>3. CASE Closers(r) # {}
    <3>1. PICK h \in Closers(r) : TRUE
      BY <2>3
    <3>2. Closers(r) = {h}
      BY <2>1, <3>1
    <3>3. Cardinality({h}) = 1
      BY FS_Singleton
    <3>4. roundStatus[r] = "closing"
      BY <3>1, OwnerFacts DEF Closers, Closing
    <3> QED BY <3>2, <3>3, <3>4
  <2> QED BY <2>2, <2>3
<1> QED BY <1>1, CoordinatorInvariance, PTL

\* The object a published round names is the one made of what it accepted,
\* however often the round was closed before (closer.py:180-184).
THEOREM PublishedObjectIsSound == CoordinatorSpec => []PublishedObjectIsTheResult
<1>1. CoordinatorInv => PublishedObjectIsTheResult
  BY DEF CoordinatorInv
<1> QED BY <1>1, CoordinatorInvariance, PTL

\* No transaction takes a rejection back, and only that of a close takes an
\* acceptance back.
LEMMA DecidedStays ==
  ASSUME DatabaseInv, [Next]_vars, NEW t \in Tasks
  PROVE  /\ verdict[t] = "rejected" => verdict'[t] = "rejected"
         /\ verdict[t] = "accepted" /\ verdict'[t] # "accepted" =>
              roundStatus[tasks[t].round] = "closing"
<1> DEFINE Stays == /\ verdict[t] = "rejected" => verdict'[t] = "rejected"
                    /\ verdict[t] = "accepted" /\ verdict'[t] # "accepted" =>
                         roundStatus[tasks[t].round] = "closing"
<1> USE DEF roundVars, taskVars, submissionVars, bucketVars
<1>1. ASSUME NEW u \in Tasks, NEW s \in StepCounts, RecordSubmission(u, s) PROVE Stays
  <2>1. verdict[u] = "none"
    BY <1>1 DEF RecordSubmission, Leased, DatabaseInv, LeaseInv, SubmissionsKeepTheirTask
  <2> QED BY <1>1, <2>1 DEF RecordSubmission, DatabaseInv, TypeOK
<1>2. ASSUME NEW u \in Tasks, NEW v \in {"accepted", "rejected"}, GateSubmission(u, v)
      PROVE  Stays
  BY <1>2 DEF GateSubmission, GateTxn, RecordVerdictTxn
<1>3. ASSUME NEW S \in SUBSET Tasks, RejectAtClose(S) PROVE Stays
  BY <1>3 DEF RejectAtClose, RecordVerdictTxn, Accepted
<1>4. CASE UNCHANGED verdict
  BY <1>4
<1>5. Stays
  BY <1>1, <1>2, <1>3, <1>4
     DEF Next, vars, TimePasses, ExpireLeases, LeaseLapses, Abandon, Heartbeat, ClaimTask,
         FinishClose, FinishCloseTxn, ClaimClose, ClaimCloseTxn, ReleaseClose, ReopenTxn,
         ReopenEmptyRound, OpenRound, OpenRoundTxn, FinishRun, FinishRunTxn
<1> QED BY <1>5

\* Only the close of a round that is 'closing' puts its object.
LEMMA PublishedObjectsStay ==
  ASSUME CoordinatorInv, [CoordinatorNext]_coordinatorVars,
         NEW r \in RoundIdx, roundStatus[r] = "closed"
  PROVE  adapters'[r] = adapters[r]
<1>1. ASSUME NEW h \in Handlers, PutAdapter(h) PROVE adapters'[r] = adapters[r]
  <2>1. Closing(h) /\ Owns(h)
    BY <1>1 DEF PutAdapter, At, Closing, Owns, ClosingPcs
  <2>2. roundStatus[handler[h].idx] = "closing"
    BY <2>1, OwnerFacts
  <2> QED BY <1>1, <2>2 DEF PutAdapter, CoordinatorInv, CoordinatorTypeOK
<1>2. CASE UNCHANGED adapters
  BY <1>2
<1> QED
  BY <1>1, <1>2
     DEF CoordinatorNext, coordinatorVars, storeVars, HandlerStep, Gate, Lease, LeaseNothing,
         EvaluateRound, EvaluateProgress, ReopenEmpty, LeaveRound, TakeClose, Snapshot,
         LoadArtifacts, CheckNorms, Reject, CombineWithMomentum, CombineWithoutMomentum,
         Combine, PutMomentum, SetMomentumRef, Finish, Advance, Release, GateFails,
         CloseFails, StartClaim, StartSubmit, AbandonRequest, LeaseRunsOut,
         HeartbeatRequest, ClockAdvances, Crash

\* No thread that acts on what it read earlier overwrites the adapter of a
\* closed round, under the workers that train from it, or a verdict
\* (closer.py:44, closer.py:210, rounds.py gate_submission).
THEOREM NothingOverwritten == CoordinatorSpec => NothingIsOverwritten
<1>1. ASSUME CoordinatorInv, [CoordinatorNext]_coordinatorVars
      PROVE  \A r \in RoundIdx : roundStatus[r] = "closed" => adapters'[r] = adapters[r]
  BY <1>1, PublishedObjectsStay
<1>2. ASSUME CoordinatorInv, [CoordinatorNext]_coordinatorVars
      PROVE  \A t \in Tasks :
               /\ verdict[t] = "rejected" => verdict'[t] = "rejected"
               /\ verdict[t] = "accepted" /\ verdict'[t] # "accepted" =>
                    roundStatus[tasks[t].round] = "closing"
  <2>1. DatabaseInv /\ [Next]_vars
    BY <1>2, Simulation DEF coordinatorVars, CoordinatorInv
  <2> QED BY <2>1, DecidedStays
<1>3. CoordinatorSpec => BaseNeverChanges
  BY <1>1, CoordinatorInvariance, PTL DEF CoordinatorSpec, BaseNeverChanges
<1>4. CoordinatorSpec => VerdictsStand
  BY <1>2, CoordinatorInvariance, PTL DEF CoordinatorSpec, VerdictsStand
<1> QED BY <1>3, <1>4 DEF NothingIsOverwritten

\* The threads run the database through the transitions of Rounds only: each
\* keeps the promises of the transaction it issues, on what it read before.
THEOREM Implementation == CoordinatorSpec => ImplementsRounds
<1>1. CoordinatorInit => Init
  BY DEF CoordinatorInit
<1>2. CoordinatorInv /\ [CoordinatorNext]_coordinatorVars => [Next]_vars
  BY Simulation DEF coordinatorVars
<1> QED
  BY <1>1, <1>2, CoordinatorInvariance, PTL DEF CoordinatorSpec, ImplementsRounds, Spec

\* What is proved of Rounds is true of the coordinator, among it that its
\* rounds form a chain of accepted work.
COROLLARY CoordinatorPublishesAChain ==
  CoordinatorSpec => [](RoundsFormAChain /\ AcceptedWorkIsSound /\ TasksMatchTheirRound)
BY Implementation, Chained, AcceptedWorkStaysSound, TasksMatch, PTL DEF ImplementsRounds
=============================================================================
