------------------------------- MODULE Rounds -------------------------------
(***************************************************************************)
(* The coordinator's database, one run of it, at the granularity of its    *)
(* transactions (ganymede/coordinator/rounds.py and the transactions of    *)
(* closer.py).  Every state transition of the coordinator is one           *)
(* BEGIN IMMEDIATE transaction (db.py:211-227), so an action here is one   *)
(* transaction and is atomic.  Module Coordinator adds the request         *)
(* handlers that issue these transactions, one after another, while other  *)
(* handlers do the same.                                                   *)
(*                                                                         *)
(* An operator whose name ends in Txn is what the code's transaction does  *)
(* whenever it is issued; the action of the same name adds what its caller *)
(* promises.  Coordinator uses the former and is checked to implement the  *)
(* specification made of the latter.                                       *)
(*                                                                         *)
(* A definition marked "Mutation of" is no part of the model: it is a slip *)
(* in the code that a property below must notice, and README.md says which.*)
(***************************************************************************)
EXTENDS Integers, FiniteSets

CONSTANTS
  Workers,         \* registered workers
  NoWorker,        \* the holder of a task that was never issued
  Tasks,           \* task ids that can be issued (uuid4: never reused)
  NumBuckets,      \* runs.num_buckets
  TargetRounds,    \* runs.target_rounds
  MaxAge,          \* rounds.max_round_sec, in units of model time
  MinUsable,       \* the least remaining time worth a budget (plan_budget)
  StepCounts,      \* the steps_completed values a submission may report
  HeartbeatSteps,  \* the steps_completed values a heartbeat may report
  HeartbeatSlack   \* the 100 of gate 5's ceiling 3*heartbeat + 100

ASSUME RoundsAssumption ==
  /\ NoWorker \notin Workers
  /\ NumBuckets \in Nat \ {0}
  /\ TargetRounds \in Nat \ {0}
  /\ MaxAge \in Nat
  /\ MinUsable \in Nat
  /\ StepCounts \subseteq Int
  /\ HeartbeatSteps \subseteq Int
  /\ HeartbeatSlack \in Nat

VARIABLES
  runStatus,     \* runs.status
  currentRound,  \* runs.current_round
  roundStatus,   \* rounds.status by idx; "absent" where there is no row
  result,        \* what rounds.result_adapter_ref names: the submissions
                 \* folded into the published adapter; {} stands for NULL
  age,           \* now - rounds.opened_at of the current round, up to MaxAge
  tasks,         \* the tasks table
  lapsed,        \* the leased tasks whose lease_expires_at is in the past
  verdict,       \* submissions.accepted; "none" where there is no row
  steps,         \* submissions.steps_completed
  heartbeats,    \* tasks.last_heartbeat_steps
  timesTrained,  \* buckets.times_trained
  lastRound      \* buckets.last_round

roundVars == <<runStatus, currentRound, roundStatus, result, age>>
taskVars == <<tasks, lapsed, heartbeats>>
submissionVars == <<verdict, steps>>
bucketVars == <<timesTrained, lastRound>>
vars == <<roundVars, taskVars, submissionVars, bucketVars>>

RoundIdx == 0 .. TargetRounds - 1
Buckets == 0 .. NumBuckets - 1
NeverTrained == -1      \* last_round IS NULL: it sorts before every round
NoHeartbeat == [reported |-> FALSE, steps |-> 0]   \* last_heartbeat_steps IS NULL

TaskRow == [status : {"none", "leased", "submitted", "abandoned", "expired"},
            worker : Workers \cup {NoWorker},
            round : RoundIdx,
            buckets : SUBSET Buckets]

NoTask == [status |-> "none", worker |-> NoWorker, round |-> 0, buckets |-> {}]

Leased(t) == tasks[t].status = "leased"
Issued(t) == tasks[t].status # "none"

\* round_progress: the submissions the close rule counts, rejected ones not.
Counted(r) == {t \in Tasks : /\ Issued(t)
                             /\ tasks[t].round = r
                             /\ verdict[t] \in {"ungated", "accepted"}}

Accepted(r) == {t \in Tasks : /\ Issued(t)
                              /\ tasks[t].round = r
                              /\ verdict[t] = "accepted"}

-----------------------------------------------------------------------------
(* The state newrun.py leaves: an active run, round 0 open, no bucket      *)
(* trained.                                                                *)
Init ==
  /\ runStatus = "active"
  /\ currentRound = 0
  /\ roundStatus = [r \in RoundIdx |-> IF r = 0 THEN "open" ELSE "absent"]
  /\ result = [r \in RoundIdx |-> {}]
  /\ age = 0
  /\ tasks = [t \in Tasks |-> NoTask]
  /\ lapsed = {}
  /\ verdict = [t \in Tasks |-> "none"]
  /\ steps = [t \in Tasks |-> 0]
  /\ heartbeats = [t \in Tasks |-> NoHeartbeat]
  /\ timesTrained = [b \in Buckets |-> 0]
  /\ lastRound = [b \in Buckets |-> NeverTrained]

-----------------------------------------------------------------------------
(* Time.  No rule of the code tells two elapsed times beyond max_round_sec *)
(* apart, so age stops at MaxAge.                                          *)
TimePasses ==
  /\ roundStatus[currentRound] \in {"open", "closing"}
  /\ age < MaxAge
  /\ age' = age + 1
  /\ UNCHANGED <<runStatus, currentRound, roundStatus, result, taskVars,
                 submissionVars, bucketVars>>

LeaseLapses(t) ==
  /\ Leased(t)
  /\ lapsed' = lapsed \cup {t}
  /\ UNCHANGED <<roundVars, tasks, heartbeats, submissionVars, bucketVars>>

-----------------------------------------------------------------------------
(* Leases.                                                                 *)

Retire(S, status) ==
  /\ tasks' = [t \in Tasks |->
                 IF t \in S THEN [tasks[t] EXCEPT !.status = status] ELSE tasks[t]]
  /\ lapsed' = lapsed \ S

ExpireLeases ==
  /\ Retire(lapsed, "expired")
  /\ UNCHANGED <<roundVars, heartbeats, submissionVars, bucketVars>>

\* Mutation of OrderedBefore: the first sort key is forgotten.
OrderedByRoundOnly(b, c) ==
  lastRound[b] < lastRound[c] \/ (lastRound[b] = lastRound[c] /\ b < c)

\* ORDER BY times_trained, last_round IS NOT NULL, last_round, bucket_idx.
OrderedBefore(b, c) ==
  \/ timesTrained[b] < timesTrained[c]
  \/ /\ timesTrained[b] = timesTrained[c]
     /\ \/ lastRound[b] < lastRound[c]
        \/ lastRound[b] = lastRound[c] /\ b < c

\* A shard is a prefix of that order.
LeastTrained(S) ==
  /\ S # {}
  /\ \A b \in S : \A c \in Buckets \ S : OrderedBefore(b, c)

\* Mutation of HoldsLease: a lease past its expiry is not seen as held.
HoldsUnlapsedLease(w, r) ==
  \E t \in Tasks \ lapsed :
    Leased(t) /\ tasks[t].worker = w /\ tasks[t].round = r

\* The lease a second claim returns instead of a new one.
HoldsLease(w, r) ==
  \E t \in Tasks : Leased(t) /\ tasks[t].worker = w /\ tasks[t].round = r

RoundIsOpen(r) == roundStatus[r] = "open"

ClaimTask(w, t, S) ==
  /\ runStatus = "active"
  /\ RoundIsOpen(currentRound)
  /\ ~HoldsLease(w, currentRound)
  /\ MaxAge - age >= MinUsable
  /\ LeastTrained(S)
  /\ tasks[t].status = "none"
  /\ tasks' = [tasks EXCEPT ![t] = [status |-> "leased", worker |-> w,
                                    round |-> currentRound, buckets |-> S]]
  /\ timesTrained' = [b \in Buckets |->
                        IF b \in S THEN timesTrained[b] + 1 ELSE timesTrained[b]]
  /\ lastRound' = [b \in Buckets |-> IF b \in S THEN currentRound ELSE lastRound[b]]
  /\ UNCHANGED <<roundVars, lapsed, heartbeats, submissionVars>>

\* MAX(COALESCE(last_heartbeat_steps, 0), steps_completed).
Progress(h, s) ==
  [reported |-> TRUE, steps |-> IF s > h.steps THEN s ELSE h.steps]

\* Mutation of Heartbeat: the task's status is not looked at.
HeartbeatAnyStatus(t, s) ==
  /\ Issued(t)
  /\ RoundIsOpen(tasks[t].round)
  /\ lapsed' = lapsed \ {t}
  /\ heartbeats' = [heartbeats EXCEPT ![t] = Progress(@, s)]
  /\ UNCHANGED <<roundVars, tasks, submissionVars, bucketVars>>

Heartbeat(t, s) ==
  /\ Leased(t)
  /\ RoundIsOpen(tasks[t].round)
  /\ lapsed' = lapsed \ {t}
  /\ heartbeats' = [heartbeats EXCEPT ![t] = Progress(@, s)]
  /\ UNCHANGED <<roundVars, tasks, submissionVars, bucketVars>>

Abandon(t) ==
  /\ Leased(t)
  /\ Retire({t}, "abandoned")
  /\ UNCHANGED <<roundVars, heartbeats, submissionVars, bucketVars>>

-----------------------------------------------------------------------------
(* Submissions and verdicts.                                               *)

RecordSubmission(t, s) ==
  /\ Leased(t)
  /\ RoundIsOpen(tasks[t].round)
  /\ Retire({t}, "submitted")
  /\ verdict' = [verdict EXCEPT ![t] = "ungated"]
  /\ steps' = [steps EXCEPT ![t] = s]
  /\ UNCHANGED <<roundVars, heartbeats, bucketVars>>

RecordVerdictTxn(S, v) ==
  /\ verdict' = [t \in Tasks |-> IF t \in S THEN v ELSE verdict[t]]
  /\ UNCHANGED <<roundVars, taskVars, steps, bucketVars>>

\* Gate 5.  The other gates look at the artifact's bytes, which are any.
PlausibleSteps(t) ==
  /\ steps[t] > 0
  /\ heartbeats[t].reported =>
       /\ steps[t] >= heartbeats[t].steps
       /\ steps[t] <= 3 * heartbeats[t].steps + HeartbeatSlack

GateTxn(t, v) ==
  /\ v \in {"accepted", "rejected"}
  /\ v = "accepted" => PlausibleSteps(t)
  /\ RecordVerdictTxn({t}, v)

\* gate_submission: one verdict on a submission that has none.
GateSubmission(t, v) == verdict[t] = "ungated" /\ GateTxn(t, v)

\* The close rejects accepted submissions: artifacts gone, or norm outliers.
RejectAtClose(S) ==
  /\ roundStatus[currentRound] = "closing"
  /\ S \subseteq Accepted(currentRound)
  /\ RecordVerdictTxn(S, "rejected")

-----------------------------------------------------------------------------
(* Rounds.                                                                 *)

\* Mutation of CloseIsFree: the UPDATE tests for 'closed' instead of 'open'.
CloseNotFinished(r) == roundStatus[r] # "closed"

\* Mutation of CloseIsFree: the UPDATE tests for 'closing' instead of 'open'.
CloseNotInProgress(r) == roundStatus[r] # "closing"

\* UPDATE rounds SET status = 'closing' WHERE ... AND status = 'open'.
CloseIsFree(r) == roundStatus[r] = "open"

ClaimCloseTxn(r) ==
  /\ CloseIsFree(r)
  /\ roundStatus' = [roundStatus EXCEPT ![r] = "closing"]
  /\ UNCHANGED <<runStatus, currentRound, result, age, taskVars,
                 submissionVars, bucketVars>>

\* The close rule never fires on a round nobody has submitted to.
ClaimClose(r) ==
  /\ \E t \in Tasks : tasks[t].round = r /\ verdict[t] # "none"
  /\ ClaimCloseTxn(r)

\* UPDATE rounds SET status = 'open' WHERE ... AND status = 'closing'.
ReopenTxn(r) ==
  /\ roundStatus' = [roundStatus EXCEPT ![r] = IF @ = "closing" THEN "open" ELSE @]
  /\ UNCHANGED <<runStatus, currentRound, result, age, taskVars,
                 submissionVars, bucketVars>>

ReleaseClose(r) == roundStatus[r] = "closing" /\ ReopenTxn(r)

\* Mutation of OutstandingLeases: submitted tasks are expired as well.
LeasesAndSubmissions(r) ==
  {t \in Tasks : tasks[t].status \in {"leased", "submitted"} /\ tasks[t].round = r}

\* The leases a close takes with it.
OutstandingLeases(r) == {t \in Tasks : Leased(t) /\ tasks[t].round = r}

FinishCloseTxn(r, K) ==
  /\ roundStatus' = [roundStatus EXCEPT ![r] = "closed"]
  /\ result' = [result EXCEPT ![r] = K]
  /\ Retire(OutstandingLeases(r), "expired")
  /\ UNCHANGED <<runStatus, currentRound, age, heartbeats, submissionVars,
                 bucketVars>>

FinishClose(r, K) ==
  /\ roundStatus[r] = "closing"
  /\ K \subseteq Accepted(r)
  /\ FinishCloseTxn(r, K)

\* open_round.  (run_id, idx) is the primary key: a second INSERT raises.
OpenRoundTxn(r) ==
  /\ roundStatus[r] = "absent"
  /\ roundStatus' = [roundStatus EXCEPT ![r] = "open"]
  /\ currentRound' = r
  /\ age' = 0
  /\ UNCHANGED <<runStatus, result, taskVars, submissionVars, bucketVars>>

\* The round that has been closed with a result is followed by the next one.
PublishedBy(r) == roundStatus[r] = "closed" /\ result[r] # {}

\* Mutation of OpenRound: opened whether or not there is a result to open it on.
OpenRoundAnyway ==
  /\ roundStatus[currentRound] = "closed"
  /\ currentRound + 1 < TargetRounds
  /\ OpenRoundTxn(currentRound + 1)

OpenRound ==
  /\ PublishedBy(currentRound)
  /\ currentRound + 1 < TargetRounds
  /\ OpenRoundTxn(currentRound + 1)

\* Mutation of FinishRunTxn: a status outside the column's domain.
FinishRunMisspelt ==
  /\ runStatus' = "finished"
  /\ UNCHANGED <<currentRound, roundStatus, result, age, taskVars,
                 submissionVars, bucketVars>>

FinishRunTxn ==
  /\ runStatus' = "done"
  /\ UNCHANGED <<currentRound, roundStatus, result, age, taskVars,
                 submissionVars, bucketVars>>

FinishRun ==
  /\ PublishedBy(currentRound)
  /\ currentRound + 1 = TargetRounds
  /\ FinishRunTxn

IsEmptyAtBackstop(r) ==
  /\ RoundIsOpen(r)
  /\ age >= MaxAge
  /\ Counted(r) = {}

ReopenEmptyRound(r) ==
  /\ IsEmptyAtBackstop(r)
  /\ age' = 0
  /\ UNCHANGED <<runStatus, currentRound, roundStatus, result, taskVars,
                 submissionVars, bucketVars>>

-----------------------------------------------------------------------------
Next ==
  \/ TimePasses
  \/ ExpireLeases
  \/ \E t \in Tasks :
       \/ LeaseLapses(t)
       \/ Abandon(t)
       \/ \E s \in HeartbeatSteps : Heartbeat(t, s)
       \/ \E s \in StepCounts : RecordSubmission(t, s)
       \/ \E v \in {"accepted", "rejected"} : GateSubmission(t, v)
       \/ \E w \in Workers, S \in SUBSET Buckets : ClaimTask(w, t, S)
  \/ \E S \in SUBSET Tasks : RejectAtClose(S) \/ FinishClose(currentRound, S)
  \/ \E r \in RoundIdx : ClaimClose(r) \/ ReleaseClose(r) \/ ReopenEmptyRound(r)
  \/ OpenRound
  \/ FinishRun

Spec == Init /\ [][Next]_vars

-----------------------------------------------------------------------------
(* Types.  heartbeats is a MAX over reported counts, so it can only be a   *)
(* reported count or 0.                                                    *)
HeartbeatRow == [reported : BOOLEAN, steps : Int]

\* Every column holds a value of its domain in every reachable state.
TypeOK ==
  /\ runStatus \in {"active", "done"}
  /\ currentRound \in RoundIdx
  /\ roundStatus \in [RoundIdx -> {"absent", "open", "closing", "closed"}]
  /\ result \in [RoundIdx -> SUBSET Tasks]
  /\ age \in 0 .. MaxAge
  /\ tasks \in [Tasks -> TaskRow]
  /\ lapsed \subseteq Tasks
  /\ verdict \in [Tasks -> {"none", "ungated", "accepted", "rejected"}]
  /\ steps \in [Tasks -> Int]
  /\ heartbeats \in [Tasks -> HeartbeatRow]
  /\ timesTrained \in [Buckets -> Nat]
  /\ lastRound \in [Buckets -> RoundIdx \cup {NeverTrained}]

-----------------------------------------------------------------------------
(* Leases and submissions.                                                 *)

\* A worker holds at most one lease in a round, however often and from
\* however many connections it repeats its claim (claim_task, rounds.py:312;
\* invariants.py:77 looks for the contrary).
OneLeasePerWorkerPerRound ==
  \A t, u \in Tasks :
    /\ Leased(t) /\ Leased(u)
    /\ tasks[t].worker = tasks[u].worker
    /\ tasks[t].round = tasks[u].round
    => t = u

\* A submission row exists exactly for the tasks in status 'submitted': no
\* expiry, abandonment or close takes a recorded submission's task away.
\* Stronger than invariants.py:246, which tolerates 'expired'.
SubmissionsKeepTheirTask ==
  \A t \in Tasks : verdict[t] # "none" <=> tasks[t].status = "submitted"

\* A lease lives only in the current round, and only until that round is
\* closed: no worker is left training for a round that is over
\* (closer.py:302, "belongs to a round that no longer exists").
LeasesDieWithTheirRound ==
  \A t \in Tasks : Leased(t) =>
    /\ tasks[t].round = currentRound
    /\ roundStatus[currentRound] \in {"open", "closing"}

\* No accepted submission reports fewer steps than a heartbeat of its task
\* did: a heartbeat cannot slip in between the submission and its gate
\* (rounds.py:506, gate 5 of aggregate.py:144).
AcceptedStepsCoverHeartbeats ==
  \A t \in Tasks :
    verdict[t] = "accepted" /\ heartbeats[t].reported => steps[t] >= heartbeats[t].steps

\* Tasks, submissions and rounds agree, through every claim, expiry, close and
\* reopening (rounds.py claim_task, record_submission; closer.py:300-305).
TasksMatchTheirRound == SubmissionsKeepTheirTask /\ LeasesDieWithTheirRound

-----------------------------------------------------------------------------
(* The sequence of rounds.                                                 *)

\* Every round before the current one was closed with a result, none after
\* it exists, and only the current one can be open or closing; a run that is
\* done has published its last round (close_round, closer.py:317-328).
RoundsFormAChain ==
  /\ \A r \in RoundIdx :
       /\ r < currentRound => PublishedBy(r)
       /\ r > currentRound => roundStatus[r] = "absent"
       /\ roundStatus[r] # "closed" => result[r] = {}
  /\ roundStatus[currentRound] # "absent"
  /\ runStatus = "done" => currentRound = TargetRounds - 1 /\ PublishedBy(currentRound)

\* A published adapter is made of submissions of its own round that were
\* accepted, and still are: neither a late verdict nor a later close turns
\* down what has been aggregated.
ResultsAreAccepted ==
  \A r \in RoundIdx : result[r] \subseteq Accepted(r)

\* What a round is made of was accepted, stays accepted, and covers what its
\* worker had reported (gate_submission, close_round).
AcceptedWorkIsSound == ResultsAreAccepted /\ AcceptedStepsCoverHeartbeats

\* A closed round is closed for good and keeps its result: the handler that
\* gives a round back after a failed close cannot reopen a finished one.
ClosedIsFinal ==
  [][\A r \in RoundIdx : roundStatus[r] = "closed" =>
       roundStatus'[r] = "closed" /\ result'[r] = result[r]]_vars

-----------------------------------------------------------------------------
(* Buckets.                                                                *)

\* Least-trained-first keeps the counters of any two buckets within one of
\* each other, whatever shard sizes the workers were given and however many
\* of them vanished (_pick_buckets, rounds.py:239).
EvenCoverage ==
  \A b, c \in Buckets : timesTrained[b] <= timesTrained[c] + 1

Handed(b, r) == \E t \in Tasks : /\ Issued(t)
                                 /\ tasks[t].round = r
                                 /\ b \in tasks[t].buckets

\* Counting every claim of a round, no bucket is handed out twice while
\* another has not been handed out at all (the promise of invariants.py:113).
RepeatOnlyAfterCoverage ==
  \A t, u \in Tasks :
    /\ t # u /\ Issued(t) /\ Issued(u)
    /\ tasks[t].round = tasks[u].round
    /\ tasks[t].buckets \cap tasks[u].buckets # {}
    => \A c \in Buckets : Handed(c, tasks[t].round)

\* Buckets are trained evenly, over the run and within each round
\* (_pick_buckets, rounds.py:239).
CoverageStaysEven == EvenCoverage /\ RepeatOnlyAfterCoverage

-----------------------------------------------------------------------------
(* The run seen as a chain of published adapters.  A submission is work    *)
(* offered against the adapter its round was opened with.                  *)

NumPublished == currentRound + (IF result[currentRound] # {} THEN 1 ELSE 0)

Chain == INSTANCE RunChain WITH
  Work <- Tasks,
  Length <- TargetRounds,
  trainedFrom <- [t \in Tasks |-> IF verdict[t] = "none" THEN -1 ELSE tasks[t].round],
  refused <- {t \in Tasks : verdict[t] = "rejected"},
  published <- [i \in 1 .. NumPublished |-> result[i - 1]],
  finished <- (runStatus = "done")

\* The database implements the chain: whatever transactions interleave, each
\* adapter is published once, from accepted work trained from the last one.
ImplementsChain == Chain!Spec

=============================================================================
