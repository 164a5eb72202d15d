----------------------------- MODULE WorkerLoop ------------------------------
(***************************************************************************)
(* The workers: the loop of ganymede/worker/loop.py with its heartbeat     *)
(* thread, the requests of client.py and the sentinels of control.py,      *)
(* against the coordinator's database (module Rounds).                     *)
(*                                                                         *)
(* A request can be lost on its way out, in which case the coordinator     *)
(* does nothing, or on its way back, in which case it has done its part    *)
(* and the client sends it again; when the client gives up the loop sees   *)
(* a CoordinatorError.  The gates, the closes and the leases of others     *)
(* run at any time: module Coordinator implements the transitions they     *)
(* are made of.                                                            *)
(*                                                                         *)
(* An unexpected exception abandons the lease and ends the process; here   *)
(* that is Decline followed by Restart.  --once and --max-rounds, which    *)
(* end a worker early, are left out.                                       *)
(***************************************************************************)
EXTENDS Integers, FiniteSets

CONSTANTS
  Workers, NoWorker, Tasks, NumBuckets, TargetRounds, MaxAge, MinUsable,
  HeartbeatSlack,
  LocalSteps,   \* the step budget of a task
  FaultKinds,   \* which of Kinds happen
  MaxFaults     \* bound on how many of them, together

ASSUME WorkerLoopAssumption ==
  /\ NoWorker \notin Workers
  /\ NumBuckets \in Nat \ {0}
  /\ TargetRounds \in Nat \ {0}
  /\ MaxAge \in Nat
  /\ MinUsable \in Nat
  /\ HeartbeatSlack \in Nat
  /\ LocalSteps \in Nat
  /\ MaxFaults \in Nat

VARIABLES
  runStatus, currentRound, roundStatus, result, age, tasks, lapsed, verdict,
  steps, heartbeats, timesTrained, lastRound,
  worker,    \* each process: its place in the loop and what it remembers
  control,   \* the sentinel files (and the signal) each process can see
  late,      \* heartbeats still on their way after their task ended
  faults     \* how many of each kind have happened

DB == INSTANCE Rounds WITH
  StepCounts <- 1 .. LocalSteps,
  HeartbeatSteps <- 0 .. LocalSteps

dbVars == <<runStatus, currentRound, roundStatus, result, age, tasks, lapsed,
            verdict, steps, heartbeats, timesTrained, lastRound>>
vars == <<dbVars, worker, control, late, faults>>

Kinds == {"network", "restart", "failed close"}
FaultsSoFar == faults["network"] + faults["restart"] + faults["failed close"]

Nothing == -1   \* no heartbeat request is outstanding

\* holding: the task, as a set of at most one.  trained: steps so far, which
\* the heartbeat thread reports.  beating: that thread runs.  sent: the steps
\* of its outstanding request.  dropped: it was answered 409 or 410.
Registering == [pc |-> "register", holding |-> {}, trained |-> 0,
                beating |-> FALSE, sent |-> Nothing, dropped |-> FALSE]

Polling == [Registering EXCEPT !.pc = "poll"]

Init ==
  /\ DB!Init
  /\ worker = [w \in Workers |-> Registering]
  /\ control = [w \in Workers |-> [stop |-> FALSE, pause |-> FALSE]]
  /\ late = {}
  /\ faults = [k \in Kinds |-> 0]

-----------------------------------------------------------------------------
At(w, pc) == worker[w].pc = pc
Become(w, locals) == worker' = [worker EXCEPT ![w] = locals]
Goto(w, pc) == Become(w, [worker[w] EXCEPT !.pc = pc])

Told(w) == control[w].stop \/ control[w].pause
ShouldStop(w) == worker[w].dropped \/ Told(w)

Fault(kind) ==
  /\ kind \in FaultKinds
  /\ FaultsSoFar < MaxFaults
  /\ faults' = [faults EXCEPT ![kind] = @ + 1]

\* The request of w's heartbeat thread, if it has one, outlives the thread's
\* join(timeout=5).
Outstanding(w) ==
  {[task |-> t, steps |-> worker[w].sent] :
     t \in {u \in worker[w].holding : worker[w].sent # Nothing}}

\* Mutation of EndTask: run_round has no finally, the thread is not stopped.
EndTaskStillBeating(w) ==
  /\ Become(w, [worker[w] EXCEPT !.pc = "poll"])
  /\ UNCHANGED late

EndTask(w) ==
  /\ Become(w, Polling)
  /\ late' = late \cup Outstanding(w)

-----------------------------------------------------------------------------
(* Registration and polling.                                               *)

Register(w) ==
  /\ At(w, "register")
  /\ Become(w, Polling)
  /\ UNCHANGED <<dbVars, control, late, faults>>

\* run() registers outside of any try: an unreachable coordinator ends it.
RegisterFails(w) ==
  /\ At(w, "register")
  /\ Fault("network")
  /\ Goto(w, "dead")
  /\ UNCHANGED <<dbVars, control, late>>

\* Mutation of SeeStop: the pause sentinel is looked at first.
SeeStopUnlessPaused(w) ==
  /\ At(w, "poll")
  /\ control[w].stop
  /\ ~control[w].pause
  /\ Goto(w, "exited")
  /\ UNCHANGED <<dbVars, control, late, faults>>

SeeStop(w) ==
  /\ At(w, "poll")
  /\ control[w].stop
  /\ Goto(w, "exited")
  /\ UNCHANGED <<dbVars, control, late, faults>>

\* The coordinator begins a claim by expiring leases.
SendClaim(w) ==
  /\ At(w, "poll")
  /\ ~Told(w)
  /\ DB!ExpireLeases
  /\ Goto(w, "claim")
  /\ UNCHANGED <<control, late, faults>>

Hold(w, t) == Become(w, [Polling EXCEPT !.pc = "claimed", !.holding = {t}])

ClaimNewLease(w) ==
  /\ At(w, "claim")
  /\ \E t \in Tasks, S \in SUBSET DB!Buckets : DB!ClaimTask(w, t, S) /\ Hold(w, t)
  /\ UNCHANGED <<control, late, faults>>

\* The lease was written and the answer is lost: the client asks again.
ClaimAnswerLost(w) ==
  /\ At(w, "claim")
  /\ Fault("network")
  /\ \E t \in Tasks, S \in SUBSET DB!Buckets : DB!ClaimTask(w, t, S)
  /\ UNCHANGED <<worker, control, late>>

\* The lease w already holds, instead of a second one.
ClaimHeldLease(w) ==
  /\ At(w, "claim")
  /\ runStatus = "active"
  /\ DB!RoundIsOpen(currentRound)
  /\ \E t \in Tasks :
       /\ DB!Leased(t) /\ tasks[t].worker = w /\ tasks[t].round = currentRound
       /\ Hold(w, t)
  /\ UNCHANGED <<dbVars, control, late, faults>>

\* 204, for one of many reasons, or no answer after all retries.
ClaimNothing(w) ==
  /\ At(w, "claim")
  /\ Goto(w, "poll")
  /\ UNCHANGED <<dbVars, control, late, faults>>

-----------------------------------------------------------------------------
(* One task: run_round.                                                    *)

\* can_honor fails.
Decline(w) ==
  /\ At(w, "claimed")
  /\ Goto(w, "abandon")
  /\ UNCHANGED <<dbVars, control, late, faults>>

StartRound(w) ==
  /\ At(w, "claimed")
  /\ Become(w, [worker[w] EXCEPT !.pc = "train", !.beating = TRUE])
  /\ UNCHANGED <<dbVars, control, late, faults>>

\* Mutation of TrainStep: one step past the budget.
TrainStepTooMany(w) ==
  /\ At(w, "train")
  /\ ~ShouldStop(w)
  /\ worker[w].trained <= LocalSteps
  /\ Become(w, [worker[w] EXCEPT !.trained = @ + 1])
  /\ UNCHANGED <<dbVars, control, late, faults>>

TrainStep(w) ==
  /\ At(w, "train")
  /\ ~ShouldStop(w)
  /\ worker[w].trained < LocalSteps
  /\ Become(w, [worker[w] EXCEPT !.trained = @ + 1])
  /\ UNCHANGED <<dbVars, control, late, faults>>

\* The budget is done, the deadline has passed, or somebody said to stop.
EndTraining(w) ==
  /\ At(w, "train")
  /\ Goto(w, "trained")
  /\ UNCHANGED <<dbVars, control, late, faults>>

\* The lease is lost or the round is over: the work is dropped.
Drop(w) ==
  /\ At(w, "trained")
  /\ worker[w].dropped
  /\ EndTask(w)
  /\ UNCHANGED <<dbVars, control, faults>>

\* Mutation of GiveUp: a task without a step is dropped like a lost one.
GiveUpIfTold(w) ==
  /\ At(w, "trained")
  /\ ~worker[w].dropped
  /\ IF Told(w)
     THEN Goto(w, "abandon") /\ UNCHANGED late
     ELSE worker[w].trained = 0 /\ EndTask(w)
  /\ UNCHANGED <<dbVars, control, faults>>

GiveUp(w) ==
  /\ At(w, "trained")
  /\ ~worker[w].dropped
  /\ Told(w) \/ worker[w].trained = 0
  /\ Goto(w, "abandon")
  /\ UNCHANGED <<dbVars, control, late, faults>>

Upload(w) ==
  /\ At(w, "trained")
  /\ ~ShouldStop(w)
  /\ worker[w].trained > 0
  /\ Goto(w, "submit")
  /\ UNCHANGED <<dbVars, control, late, faults>>

Submit(w) ==
  /\ At(w, "submit")
  /\ \E t \in worker[w].holding : DB!RecordSubmission(t, worker[w].trained)
  /\ EndTask(w)
  /\ UNCHANGED <<control, faults>>

SubmitAnswerLost(w) ==
  /\ At(w, "submit")
  /\ Fault("network")
  /\ \E t \in worker[w].holding : DB!RecordSubmission(t, worker[w].trained)
  /\ UNCHANGED <<worker, control, late>>

\* 409 or 410, the latter also for work that an earlier attempt handed in.
SubmitRefused(w) ==
  /\ At(w, "submit")
  /\ \E t \in worker[w].holding : ~(DB!Leased(t) /\ DB!RoundIsOpen(tasks[t].round))
  /\ EndTask(w)
  /\ UNCHANGED <<dbVars, control, faults>>

\* A download, an upload or a request that no retry got through.
Unreachable(w) ==
  /\ At(w, "submit") \/ (At(w, "train") /\ worker[w].trained = 0)
  /\ Fault("network")
  /\ Goto(w, "abandon")
  /\ UNCHANGED <<dbVars, control, late>>

\* Abandoning a task that is not leased any more changes nothing.
SendAbandon(w) ==
  /\ At(w, "abandon")
  /\ \E t \in worker[w].holding :
       \/ DB!Abandon(t)
       \/ ~DB!Leased(t) /\ UNCHANGED dbVars
  /\ EndTask(w)
  /\ UNCHANGED <<control, faults>>

AbandonFails(w) ==
  /\ At(w, "abandon")
  /\ Fault("network")
  /\ EndTask(w)
  /\ UNCHANGED <<dbVars, control>>

-----------------------------------------------------------------------------
(* The heartbeat thread.                                                   *)

\* Mutation of SendBeat: the step in progress is reported as done.
SendBeatEarly(w) ==
  /\ worker[w].beating
  /\ worker[w].sent = Nothing
  /\ worker[w].trained < LocalSteps
  /\ Become(w, [worker[w] EXCEPT !.sent = worker[w].trained + 1])
  /\ UNCHANGED <<dbVars, control, late, faults>>

SendBeat(w) ==
  /\ worker[w].beating
  /\ worker[w].sent = Nothing
  /\ Become(w, [worker[w] EXCEPT !.sent = worker[w].trained])
  /\ UNCHANGED <<dbVars, control, late, faults>>

BeatRenews(w) ==
  /\ worker[w].sent # Nothing
  /\ \E t \in worker[w].holding : DB!Heartbeat(t, worker[w].sent)
  /\ Become(w, [worker[w] EXCEPT !.sent = Nothing])
  /\ UNCHANGED <<control, late, faults>>

\* 409: the round is not open.  410: the task is not leased.
BeatRefused(w) ==
  /\ worker[w].sent # Nothing
  /\ \E t \in worker[w].holding : ~(DB!Leased(t) /\ DB!RoundIsOpen(tasks[t].round))
  /\ Become(w, [worker[w] EXCEPT !.sent = Nothing, !.beating = FALSE,
                                 !.dropped = TRUE])
  /\ UNCHANGED <<dbVars, control, late, faults>>

\* A heartbeat that cannot reach the coordinator is logged and forgotten.
BeatFails(w) ==
  /\ worker[w].sent # Nothing
  /\ Fault("network")
  /\ Become(w, [worker[w] EXCEPT !.sent = Nothing])
  /\ UNCHANGED <<dbVars, control, late>>

\* A heartbeat arrives after its thread is gone; nobody reads the answer.
LateBeat(m) ==
  /\ late' = late \ {m}
  /\ \/ DB!Heartbeat(m.task, m.steps)
     \/ UNCHANGED dbVars
  /\ UNCHANGED <<worker, control, faults>>

-----------------------------------------------------------------------------
(* The host, and the rest of the coordinator.                              *)

RequestStop(w) ==
  /\ control' = [control EXCEPT ![w].stop = TRUE]
  /\ UNCHANGED <<dbVars, worker, late, faults>>

RequestPause(w) ==
  /\ control' = [control EXCEPT ![w].pause = ~@]
  /\ UNCHANGED <<dbVars, worker, late, faults>>

\* The process is killed, or has died, and is started again.
Restart(w) ==
  /\ ~At(w, "exited")
  /\ Fault("restart")
  /\ Become(w, Registering)
  /\ late' = late \cup Outstanding(w)
  /\ UNCHANGED <<dbVars, control>>

Elsewhere ==
  /\ \/ DB!TimePasses
     \/ DB!ExpireLeases
     \/ DB!OpenRound
     \/ DB!FinishRun
     \/ \E t \in Tasks :
          \/ DB!LeaseLapses(t)
          \/ \E v \in {"accepted", "rejected"} : DB!GateSubmission(t, v)
     \/ \E r \in DB!RoundIdx : DB!ClaimClose(r) \/ DB!ReopenEmptyRound(r)
     \/ \E S \in SUBSET Tasks : DB!RejectAtClose(S) \/ DB!FinishClose(currentRound, S)
  /\ UNCHANGED <<worker, control, late, faults>>

FailedClose ==
  /\ Fault("failed close")
  /\ \E r \in DB!RoundIdx : DB!ReleaseClose(r)
  /\ UNCHANGED <<worker, control, late>>

\* What the loop does of itself, and the answers it waits for.
LoopStep(w) ==
  \/ Register(w) \/ SeeStop(w) \/ SendClaim(w)
  \/ ClaimNewLease(w) \/ ClaimHeldLease(w) \/ ClaimNothing(w)
  \/ Decline(w) \/ StartRound(w) \/ TrainStep(w) \/ EndTraining(w)
  \/ Drop(w) \/ GiveUp(w) \/ Upload(w)
  \/ Submit(w) \/ SubmitRefused(w) \/ SendAbandon(w)

Next ==
  \/ \E w \in Workers :
       \/ LoopStep(w)
       \/ RegisterFails(w) \/ ClaimAnswerLost(w) \/ SubmitAnswerLost(w)
       \/ Unreachable(w) \/ AbandonFails(w)
       \/ SendBeat(w) \/ BeatRenews(w) \/ BeatRefused(w) \/ BeatFails(w)
       \/ RequestStop(w) \/ RequestPause(w) \/ Restart(w)
  \/ \E m \in late : LateBeat(m)
  \/ Elsewhere
  \/ FailedClose

Spec == Init /\ [][Next]_vars

\* The loop runs on; a lease that is not renewed lapses; somebody, not
\* necessarily this worker, polls, and a poll expires what has lapsed.  No
\* heartbeat need ever be sent, and none that is late need arrive.
Fairness ==
  /\ \A w \in Workers : WF_vars(LoopStep(w))
  /\ \A t \in Tasks :
       WF_vars(DB!LeaseLapses(t) /\ UNCHANGED <<worker, control, late, faults>>)
  /\ WF_vars(DB!ExpireLeases /\ UNCHANGED <<worker, control, late, faults>>)

FairSpec == Spec /\ Fairness

-----------------------------------------------------------------------------
Locals ==
  [pc : {"register", "poll", "claim", "claimed", "train", "trained", "submit",
         "abandon", "exited", "dead"},
   holding : {{}} \cup {{t} : t \in Tasks},
   trained : 0 .. LocalSteps,
   beating : BOOLEAN,
   sent : {Nothing} \cup 0 .. LocalSteps,
   dropped : BOOLEAN]

\* Every local, sentinel and message is of its kind.
TypeOK ==
  /\ DB!TypeOK
  /\ worker \in [Workers -> Locals]
  /\ control \in [Workers -> [stop : BOOLEAN, pause : BOOLEAN]]
  /\ late \subseteq [task : Tasks, steps : 0 .. LocalSteps]
  /\ faults \in [Kinds -> 0 .. MaxFaults]

-----------------------------------------------------------------------------
\* The work an honest worker hands in is not behind its own heartbeats.
HonestWorkIsNotBehind ==
  \A t \in Tasks :
    verdict[t] = "ungated" /\ heartbeats[t].reported =>
      steps[t] >= heartbeats[t].steps

Faultless == FaultsSoFar = 0

\* Until something fails, honest work is not behind its heartbeats, late ones
\* included, and the lower half of gate 5 never turns it down
\* (aggregate.py:144).  It is behind when a lease was resumed: after a restart,
\* an abandonment that was lost, or a close that failed.
FaultlessWorkIsNotBehind ==
  Faultless => HonestWorkIsNotBehind

\* While nothing fails, a worker that has gone back to polling has left no
\* lease of an open round behind: whatever way it left its task, it submitted,
\* abandoned or had lost it ("the shard is marked leased, and it stays leased
\* until the lease expires or the worker abandons", loop.py:24-26).
NothingLeftBehind ==
  Faultless =>
    \A t \in Tasks :
      DB!Leased(t) /\ DB!RoundIsOpen(tasks[t].round) =>
        worker[tasks[t].worker].holding = {t}

\* Every lease ends: in a submission, in an abandonment, or by expiry, also
\* that of a worker that has vanished or whose answer was lost.
LeasesEnd ==
  \A t \in Tasks : DB!Leased(t) ~> ~DB!Leased(t)

\* A worker told to stop stops, paused or not, whatever it was doing
\* (docs/02-architecture-v2.md section 4.4), unless it died before.
StopIsHonoured ==
  \A w \in Workers : control[w].stop ~> worker[w].pc \in {"exited", "dead"}

=============================================================================
