---------------------------- MODULE WorkerProofs -----------------------------
(***************************************************************************)
(* Proofs about WorkerLoop, for every number of workers and tasks, every   *)
(* step budget and every bound on the faults:                              *)
(*   LoopInv       types, the stages of a task, and RoundsProofs's         *)
(*                 invariants of the database: every step of WorkerLoop is *)
(*                 one of the database's transactions, or none             *)
(*   FaultlessInv  who holds what while nothing fails, on LoopInv          *)
(***************************************************************************)
EXTENDS WorkerLoop, TLAPS

R == INSTANCE RoundsProofs WITH
  StepCounts <- 1 .. LocalSteps,
  HeartbeatSteps <- 0 .. LocalSteps

-----------------------------------------------------------------------------
(* The database as WorkerLoop and as RoundsProofs see it.                  *)

\* Two instances of module Rounds, one reached through its proofs.
LEMMA SameDatabase ==
  /\ DB!Init <=> R!Init
  /\ DB!Next <=> R!Next
  /\ [DB!Next]_(DB!vars) <=> [R!Next]_(R!vars)
  /\ DB!TypeOK <=> R!TypeOK
  /\ DB!TypeOK' <=> R!TypeOK'
<1>1. DB!Init <=> R!Init
  BY DEF DB!Init, R!Init, DB!NoTask, R!NoTask, DB!RoundIdx, R!RoundIdx, DB!Buckets, R!Buckets,
         DB!NoHeartbeat, R!NoHeartbeat, DB!NeverTrained, R!NeverTrained
<1>2. UNCHANGED DB!vars <=> UNCHANGED R!vars
  BY DEF DB!vars, R!vars, DB!roundVars, R!roundVars, DB!taskVars, R!taskVars,
         DB!submissionVars, R!submissionVars, DB!bucketVars, R!bucketVars
<1>3. DB!TypeOK <=> R!TypeOK
  BY DEF DB!TypeOK, R!TypeOK, DB!RoundIdx, R!RoundIdx, DB!Buckets, R!Buckets,
         DB!TaskRow, R!TaskRow, DB!HeartbeatRow, R!HeartbeatRow, DB!NeverTrained, R!NeverTrained
<1>4. DB!TypeOK' <=> R!TypeOK'
  BY DEF DB!TypeOK, R!TypeOK, DB!RoundIdx, R!RoundIdx, DB!Buckets, R!Buckets,
         DB!TaskRow, R!TaskRow, DB!HeartbeatRow, R!HeartbeatRow, DB!NeverTrained, R!NeverTrained
<1>5. DB!Next <=> R!Next
  BY DEF DB!Next, R!Next, DB!TimePasses, R!TimePasses, DB!ExpireLeases, R!ExpireLeases, DB!LeaseLapses,
         R!LeaseLapses, DB!Abandon, R!Abandon, DB!Heartbeat, R!Heartbeat,
         DB!RecordSubmission, R!RecordSubmission, DB!GateSubmission, R!GateSubmission,
         DB!ClaimTask, R!ClaimTask, DB!RejectAtClose, R!RejectAtClose, DB!FinishClose,
         R!FinishClose, DB!ClaimClose, R!ClaimClose, DB!ReleaseClose, R!ReleaseClose,
         DB!ReopenEmptyRound, R!ReopenEmptyRound, DB!OpenRound, R!OpenRound, DB!FinishRun,
         R!FinishRun, DB!RoundIdx, R!RoundIdx, DB!Buckets, R!Buckets, DB!Retire, R!Retire,
         DB!LeastTrained, R!LeastTrained, DB!OrderedBefore, R!OrderedBefore,
         DB!HoldsLease, R!HoldsLease, DB!RoundIsOpen, R!RoundIsOpen, DB!Leased, R!Leased,
         DB!Issued, R!Issued, DB!Progress, R!Progress, DB!RecordVerdictTxn,
         R!RecordVerdictTxn, DB!PlausibleSteps, R!PlausibleSteps, DB!GateTxn, R!GateTxn,
         DB!Counted, R!Counted, DB!Accepted, R!Accepted, DB!CloseIsFree, R!CloseIsFree,
         DB!ClaimCloseTxn, R!ClaimCloseTxn, DB!ReopenTxn, R!ReopenTxn,
         DB!OutstandingLeases, R!OutstandingLeases, DB!FinishCloseTxn, R!FinishCloseTxn,
         DB!OpenRoundTxn, R!OpenRoundTxn, DB!PublishedBy, R!PublishedBy, DB!FinishRunTxn,
         R!FinishRunTxn, DB!IsEmptyAtBackstop, R!IsEmptyAtBackstop, DB!roundVars,
         R!roundVars, DB!taskVars, R!taskVars, DB!submissionVars, R!submissionVars,
         DB!bucketVars, R!bucketVars
<1>6. QED
  BY <1>1, <1>2, <1>3, <1>4, <1>5

\* What module Rounds assumes of its constants follows from what WorkerLoop
\* assumes of its own.
LEMMA RoundsAssumed == R!RoundsAssumption
BY WorkerLoopAssumption DEF R!RoundsAssumption

\* What is proved of the database: RoundsProofs's invariants.
DatabaseInv == DB!TypeOK /\ R!LeaseInv /\ R!ChainInv

\* The database starts soundly, and its transactions keep it sound.
LEMMA DatabaseInit == DB!Init => DatabaseInv
BY SameDatabase, RoundsAssumed, R!TypeInit, R!LeaseInit, R!ChainInit DEF DatabaseInv

LEMMA DatabaseKeepsInv == DatabaseInv /\ [DB!Next]_(DB!vars) => DatabaseInv'
<1>1. SUFFICES ASSUME DatabaseInv, [DB!Next]_(DB!vars)  PROVE DatabaseInv'
  OBVIOUS
<1>2. R!TypeOK /\ R!LeaseInv /\ R!ChainInv /\ [R!Next]_(R!vars)
  BY <1>1, SameDatabase DEF DatabaseInv
<1>3. R!TypeOK'
  BY <1>2, RoundsAssumed, R!TypeStep
<1>4. R!LeaseInv'
  BY <1>2, RoundsAssumed, R!LeaseStep
<1>5. R!ChainInv'
  BY <1>2, RoundsAssumed, R!ChainStep
<1>6. QED
  BY <1>3, <1>4, <1>5, SameDatabase DEF DatabaseInv

-----------------------------------------------------------------------------
(* Types.                                                                  *)

Idle == {"register", "poll", "claim", "exited", "dead"}

\* What a process remembers at each stage: nothing between tasks, at least one
\* step when it submits, and no request ahead of the steps it has trained.
Stage(l) ==
  /\ l.pc \in Idle => /\ l.holding = {} /\ l.trained = 0 /\ l.sent = Nothing
                      /\ ~l.beating /\ ~l.dropped
  /\ l.pc = "submit" => l.trained > 0
  /\ l.sent <= l.trained

StageInv == \A w \in Workers : Stage(worker[w])

\* The part of Next that is one worker's.
WorkerStep(w) ==
  \/ LoopStep(w)
  \/ RegisterFails(w) \/ ClaimAnswerLost(w) \/ SubmitAnswerLost(w)
  \/ Unreachable(w) \/ AbandonFails(w)
  \/ SendBeat(w) \/ BeatRenews(w) \/ BeatRefused(w) \/ BeatFails(w)
  \/ RequestStop(w) \/ RequestPause(w) \/ Restart(w)

\* A process that has just started, or that has left a task, is at its stage.
LEMMA FreshStage ==
  /\ Registering \in Locals /\ Stage(Registering)
  /\ Polling \in Locals /\ Stage(Polling)
<1>1. Registering \in Locals
  BY WorkerLoopAssumption DEF Registering, Locals, Nothing
<1>2. Polling \in Locals
  BY <1>1 DEF Polling, Locals
<1>3. Stage(Registering) /\ Stage(Polling)
  BY DEF Stage, Registering, Polling, Nothing
<1>4. QED
  BY <1>1, <1>2, <1>3

\* One process's memory changes, and no other's.
LEMMA BecomeChangesOne ==
  ASSUME worker \in [Workers -> Locals], NEW w \in Workers, NEW l, Become(w, l)
  PROVE  /\ worker'[w] = l
         /\ \A v \in Workers \ {w} : worker'[v] = worker[v]
         /\ l \in Locals => worker' \in [Workers -> Locals]
BY DEF Become

\* A step of a worker takes its memory from one stage to another.
LEMMA StageStep ==
  ASSUME TypeOK, StageInv, NEW w \in Workers, WorkerStep(w)
  PROVE  \/ UNCHANGED worker
         \/ \E l \in Locals : Stage(l) /\ Become(w, l)
<1> DEFINE l == worker[w]
<1>1. l \in Locals /\ Stage(l)
  BY DEF TypeOK, StageInv
<1>3. CASE Register(w) \/ Restart(w)
  BY <1>3, FreshStage DEF Register, Restart
<1>4. CASE \/ Drop(w) \/ Submit(w) \/ SubmitRefused(w) \/ SendAbandon(w) \/ AbandonFails(w)
  BY <1>4, FreshStage DEF Drop, Submit, SubmitRefused, SendAbandon, AbandonFails, EndTask
<1>5. CASE RegisterFails(w) \/ SeeStop(w) \/ SendClaim(w) \/ ClaimNothing(w)
  <2>1. PICK pc \in Idle : Goto(w, pc) /\ l.pc \in Idle
    BY <1>5 DEF RegisterFails, SeeStop, SendClaim, ClaimNothing, Idle, At
  <2>2. [l EXCEPT !.pc = pc] \in Locals /\ Stage([l EXCEPT !.pc = pc])
    BY <1>1, <2>1 DEF Locals, Stage, Idle
  <2>3. QED
    BY <2>1, <2>2 DEF Goto
<1>6. CASE ClaimNewLease(w) \/ ClaimHeldLease(w)
  <2>1. PICK t \in Tasks : Hold(w, t)
    BY <1>6 DEF ClaimNewLease, ClaimHeldLease
  <2>2. [Polling EXCEPT !.pc = "claimed", !.holding = {t}] \in Locals
    BY FreshStage DEF Locals
  <2>3. Stage([Polling EXCEPT !.pc = "claimed", !.holding = {t}])
    BY FreshStage DEF Stage, Locals, Idle
  <2>4. QED
    BY <2>1, <2>2, <2>3 DEF Hold
<1>7. CASE \/ Decline(w) \/ EndTraining(w) \/ GiveUp(w) \/ Unreachable(w) \/ Upload(w)
  <2>1. PICK pc \in {"abandon", "trained", "submit"} :
          Goto(w, pc) /\ (pc = "submit" => l.trained > 0)
    BY <1>7 DEF Decline, EndTraining, GiveUp, Unreachable, Upload
  <2>2. [l EXCEPT !.pc = pc] \in Locals /\ Stage([l EXCEPT !.pc = pc])
    BY <1>1, <2>1 DEF Locals, Stage, Idle
  <2>3. QED
    BY <2>1, <2>2 DEF Goto
<1>8. CASE StartRound(w)
  <2>1. [l EXCEPT !.pc = "train", !.beating = TRUE] \in Locals
    BY <1>1 DEF Locals
  <2>2. Stage([l EXCEPT !.pc = "train", !.beating = TRUE])
    BY <1>1 DEF Locals, Stage, Idle
  <2>3. QED
    BY <1>8, <2>1, <2>2 DEF StartRound
<1>9. CASE TrainStep(w)
  <2>1. [l EXCEPT !.trained = @ + 1] \in Locals
    BY <1>1, <1>9, WorkerLoopAssumption DEF Locals, TrainStep
  <2>2. Stage([l EXCEPT !.trained = @ + 1])
    BY <1>1, <1>9, WorkerLoopAssumption DEF Locals, Stage, Idle, TrainStep, At, Nothing
  <2>3. QED
    BY <1>9, <2>1, <2>2 DEF TrainStep
<1>10. CASE SendBeat(w)
  <2>1. [l EXCEPT !.sent = l.trained] \in Locals
    BY <1>1 DEF Locals
  <2>2. l.pc \notin Idle
    BY <1>1, <1>10 DEF SendBeat, Stage, Registering
  <2>3. Stage([l EXCEPT !.sent = l.trained])
    BY <1>1, <2>2 DEF Locals, Stage
  <2>4. QED
    BY <1>10, <2>1, <2>3 DEF SendBeat
<1>11. CASE BeatRenews(w) \/ BeatRefused(w) \/ BeatFails(w)
  <2>1. PICK m \in {[l EXCEPT !.sent = Nothing],
                    [l EXCEPT !.sent = Nothing, !.beating = FALSE, !.dropped = TRUE]} :
          Become(w, m)
    BY <1>11 DEF BeatRenews, BeatRefused, BeatFails
  <2>2. l.pc \notin Idle
    BY <1>1, <1>11 DEF BeatRenews, BeatRefused, BeatFails, Stage, Registering
  <2>3. m \in Locals /\ Stage(m)
    <3>1. m \in Locals
      BY <1>1 DEF Locals
    <3>2. m.pc = l.pc /\ m.trained = l.trained /\ m.sent = Nothing
      BY <1>1 DEF Locals
    <3>3. l.trained \in Nat
      BY <1>1, WorkerLoopAssumption DEF Locals
    <3>4. QED
      BY <1>1, <2>2, <3>1, <3>2, <3>3 DEF Stage, Nothing
  <2>4. QED
    BY <2>1, <2>3
<1>12. CASE ClaimAnswerLost(w) \/ SubmitAnswerLost(w) \/ RequestStop(w) \/ RequestPause(w)
  BY <1>12 DEF ClaimAnswerLost, SubmitAnswerLost, RequestStop, RequestPause
<1>13. QED
  BY <1>3, <1>4, <1>5, <1>6, <1>7, <1>8, <1>9, <1>10, <1>11, <1>12 DEF WorkerStep, LoopStep

-----------------------------------------------------------------------------
(* The database.                                                           *)

\* Whatever the workers do, and lose, what reaches the database is one of its
\* transactions.
LEMMA DatabaseStep ==
  ASSUME TypeOK, StageInv, [Next]_vars
  PROVE  [DB!Next]_(DB!vars)
<1> USE DEF dbVars
<1>1. ASSUME UNCHANGED dbVars  PROVE UNCHANGED DB!vars
  BY <1>1 DEF DB!vars, DB!roundVars, DB!taskVars, DB!submissionVars, DB!bucketVars
<1>2. ASSUME NEW w \in Workers, WorkerStep(w)  PROVE [DB!Next]_(DB!vars)
  <2>1. CASE SendClaim(w)
    BY <2>1 DEF SendClaim, DB!Next
  <2>2. CASE ClaimNewLease(w) \/ ClaimAnswerLost(w)
    BY <2>2 DEF ClaimNewLease, ClaimAnswerLost, DB!Next
  <2>3. CASE Submit(w) \/ SubmitAnswerLost(w)
    <3>1. PICK t \in worker[w].holding : DB!RecordSubmission(t, worker[w].trained)
      BY <2>3 DEF Submit, SubmitAnswerLost
    <3>2. worker[w] \in Locals /\ worker[w].trained > 0
      BY <2>3 DEF TypeOK, StageInv, Stage, Submit, SubmitAnswerLost, At
    <3>3. t \in Tasks /\ worker[w].trained \in 1 .. LocalSteps
      BY <3>2, WorkerLoopAssumption DEF Locals
    <3>4. QED
      BY <3>1, <3>3 DEF DB!Next
  <2>4. CASE SendAbandon(w)
    <3>1. worker[w].holding \subseteq Tasks
      BY DEF TypeOK, Locals
    <3>2. CASE UNCHANGED dbVars
      BY <1>1, <3>2
    <3>3. CASE \E t \in worker[w].holding : DB!Abandon(t)
      BY <3>1, <3>3 DEF DB!Next
    <3>4. QED
      BY <2>4, <3>2, <3>3 DEF SendAbandon
  <2>5. CASE BeatRenews(w)
    <3>1. PICK t \in worker[w].holding : DB!Heartbeat(t, worker[w].sent)
      BY <2>5 DEF BeatRenews
    <3>2. worker[w] \in Locals
      BY DEF TypeOK
    <3>3. t \in Tasks /\ worker[w].sent \in 0 .. LocalSteps
      BY <2>5, <3>2 DEF Locals, BeatRenews
    <3>4. QED
      BY <3>1, <3>3 DEF DB!Next
  <2>6. CASE \/ Register(w) \/ SeeStop(w) \/ ClaimHeldLease(w) \/ ClaimNothing(w)
             \/ Decline(w) \/ StartRound(w) \/ TrainStep(w) \/ EndTraining(w)
             \/ Drop(w) \/ GiveUp(w) \/ Upload(w) \/ SubmitRefused(w)
             \/ RegisterFails(w) \/ Unreachable(w) \/ AbandonFails(w)
             \/ SendBeat(w) \/ BeatRefused(w) \/ BeatFails(w)
             \/ RequestStop(w) \/ RequestPause(w) \/ Restart(w)
    BY <1>1, <2>6
    DEF Register, SeeStop, ClaimHeldLease, ClaimNothing, Decline, StartRound, TrainStep,
        EndTraining, Drop, GiveUp, Upload, SubmitRefused, RegisterFails, Unreachable,
        AbandonFails, SendBeat, BeatRefused, BeatFails, RequestStop, RequestPause, Restart
  <2>7. QED
    BY <1>2, <2>1, <2>2, <2>3, <2>4, <2>5, <2>6 DEF WorkerStep, LoopStep
<1>3. ASSUME NEW m \in late, LateBeat(m)  PROVE [DB!Next]_(DB!vars)
  <2>1. CASE UNCHANGED dbVars
    BY <1>1, <2>1
  <2>2. CASE DB!Heartbeat(m.task, m.steps)
    <3>1. m.task \in Tasks /\ m.steps \in 0 .. LocalSteps
      BY DEF TypeOK
    <3>2. QED
      BY <2>2, <3>1 DEF DB!Next
  <2>3. QED
    BY <1>3, <2>1, <2>2 DEF LateBeat
<1>4. CASE Elsewhere
  BY <1>4 DEF Elsewhere, DB!Next
<1>5. CASE FailedClose
  BY <1>5 DEF FailedClose, DB!Next
<1>6. CASE UNCHANGED vars
  BY <1>1, <1>6 DEF vars
<1>7. QED
  BY <1>2, <1>3, <1>4, <1>5, <1>6 DEF Next, WorkerStep

-----------------------------------------------------------------------------
(* Sentinels, messages and faults.                                         *)

\* Counting a fault keeps within MaxFaults.
LEMMA FaultTypes ==
  ASSUME faults \in [Kinds -> 0 .. MaxFaults], NEW kind \in Kinds, Fault(kind)
  PROVE  faults' \in [Kinds -> 0 .. MaxFaults]
<1> DEFINE n == faults["network"]  r == faults["restart"]  f == faults["failed close"]
<1>1. n \in 0 .. MaxFaults /\ r \in 0 .. MaxFaults /\ f \in 0 .. MaxFaults
  BY DEF Kinds
<1>2. n + r + f < MaxFaults
  BY DEF Fault, FaultsSoFar
<1>3. faults[kind] \in {n, r, f}
  BY DEF Kinds
<1>4. faults[kind] + 1 \in 0 .. MaxFaults
  <2> HIDE DEF n, r, f
  <2>1. QED
    BY <1>1, <1>2, <1>3, WorkerLoopAssumption
<1>5. QED
  BY <1>4 DEF Fault

\* What is on its way when a thread ends is a heartbeat of its task.
LEMMA OutstandingTypes ==
  ASSUME TypeOK, NEW w \in Workers
  PROVE  Outstanding(w) \subseteq [task : Tasks, steps : 0 .. LocalSteps]
<1>1. worker[w] \in Locals
  BY DEF TypeOK
<1>2. QED
  BY <1>1 DEF Outstanding, Locals

\* What a step can do to the sentinels, the late heartbeats and the faults.
LEMMA NextSurroundings ==
  [Next]_vars =>
    /\ \/ UNCHANGED control
       \/ \E w \in Workers : RequestStop(w) \/ RequestPause(w)
    /\ \/ UNCHANGED late
       \/ \E m \in late : late' = late \ {m}
       \/ \E w \in Workers : late' = late \cup Outstanding(w)
    /\ \/ UNCHANGED faults
       \/ \E kind \in Kinds : Fault(kind)
BY DEF Next, vars, LoopStep, Elsewhere, FailedClose, LateBeat, Register, SeeStop, SendClaim,
       ClaimNewLease, ClaimHeldLease, ClaimNothing, Decline, StartRound, TrainStep,
       EndTraining, Drop, GiveUp, Upload, Submit, SubmitRefused, SendAbandon, RegisterFails,
       ClaimAnswerLost, SubmitAnswerLost, Unreachable, AbandonFails, SendBeat, BeatRenews,
       BeatRefused, BeatFails, Restart, RequestStop, RequestPause,
       EndTask, Kinds

\* They stay of their types.
LEMMA SurroundingsTypes ==
  ASSUME TypeOK, [Next]_vars
  PROVE  /\ control' \in [Workers -> [stop : BOOLEAN, pause : BOOLEAN]]
         /\ late' \subseteq [task : Tasks, steps : 0 .. LocalSteps]
         /\ faults' \in [Kinds -> 0 .. MaxFaults]
<1>1. control' \in [Workers -> [stop : BOOLEAN, pause : BOOLEAN]]
  BY NextSurroundings DEF TypeOK, RequestStop, RequestPause
<1>2. late' \subseteq [task : Tasks, steps : 0 .. LocalSteps]
  BY NextSurroundings, OutstandingTypes DEF TypeOK
<1>3. QED
  BY <1>1, <1>2, NextSurroundings, FaultTypes DEF TypeOK

\* The base of the inductive invariant: every worker is at a stage, the database
\* is sound.
LoopInv == TypeOK /\ StageInv /\ DatabaseInv

\* It holds at first, and every step keeps it.
LEMMA InitLoop == Init => LoopInv
<1>1. SUFFICES ASSUME Init  PROVE LoopInv
  OBVIOUS
<1>2. DatabaseInv
  BY <1>1, DatabaseInit DEF Init
<1>3. StageInv /\ worker \in [Workers -> Locals]
  BY <1>1, FreshStage DEF Init, StageInv
<1>4. faults \in [Kinds -> 0 .. MaxFaults]
  BY <1>1, WorkerLoopAssumption DEF Init
<1>5. QED
  BY <1>1, <1>2, <1>3, <1>4 DEF Init, TypeOK, LoopInv, DatabaseInv

LEMMA NextLoop == LoopInv /\ [Next]_vars => LoopInv'
<1>1. SUFFICES ASSUME LoopInv, [Next]_vars  PROVE LoopInv'
  OBVIOUS
<1>2. TypeOK /\ StageInv
  BY <1>1 DEF LoopInv
<1>3. DatabaseInv'
  BY <1>1, <1>2, DatabaseStep, DatabaseKeepsInv DEF LoopInv
<1>4. worker' \in [Workers -> Locals] /\ StageInv'
  <2>1. \/ UNCHANGED worker
        \/ \E w \in Workers : WorkerStep(w)
    BY <1>1 DEF Next, vars, WorkerStep, LateBeat, Elsewhere, FailedClose
  <2>2. ASSUME NEW w \in Workers, NEW l \in Locals, Stage(l), Become(w, l)
        PROVE  worker' \in [Workers -> Locals] /\ StageInv'
    <3>1. worker \in [Workers -> Locals]
      BY <1>2 DEF TypeOK
    <3>2. /\ worker'[w] = l
          /\ \A v \in Workers \ {w} : worker'[v] = worker[v]
          /\ worker' \in [Workers -> Locals]
      BY <2>2, <3>1, BecomeChangesOne
    <3>3. \A v \in Workers : Stage(worker'[v])
      BY <1>2, <2>2, <3>2 DEF StageInv
    <3>4. QED
      BY <3>2, <3>3 DEF StageInv
  <2>3. CASE UNCHANGED worker
    BY <1>2, <2>3 DEF TypeOK, StageInv
  <2>4. QED
    BY <1>2, <2>1, <2>2, <2>3, StageStep
<1>5. TypeOK'
  BY <1>1, <1>2, <1>3, <1>4, SurroundingsTypes DEF TypeOK, DatabaseInv
<1>6. QED
  BY <1>3, <1>4, <1>5 DEF LoopInv

LEMMA LoopIsSound == Spec => []LoopInv
BY InitLoop, NextLoop, PTL DEF Spec

\* Every local, sentinel, message and database row is of its kind, whatever
\* is lost, late or started again (loop.py run, run_round).
THEOREM TypesAreKept == Spec => []TypeOK
<1>1. LoopInv => TypeOK
  BY DEF LoopInv
<1>2. QED
  BY <1>1, LoopIsSound, PTL

\* Whatever the workers, their threads and the network do, the database goes
\* through transactions that module Rounds allows (client.py's retries
\* included): all that is proved of Rounds holds here.
THEOREM WorkersUseTheDatabase == Spec => DB!Spec
<1>1. Init => DB!Init
  BY DEF Init
<1>2. LoopInv /\ [Next]_vars => [DB!Next]_(DB!vars)
  BY DatabaseStep DEF LoopInv
<1>3. QED
  BY <1>1, <1>2, LoopIsSound, PTL DEF Spec, DB!Spec

\* Repeated claims and submissions, late heartbeats and restarts leave every
\* submission its task, no lease behind a closed round, the rounds in a chain
\* and their results made of accepted work (client.py, rounds.py).
THEOREM DatabaseStaysSound ==
  Spec => [](DB!TasksMatchTheirRound /\ DB!RoundsFormAChain /\ DB!AcceptedWorkIsSound)
<1>1. LoopInv => DB!TasksMatchTheirRound
  BY DEF LoopInv, DatabaseInv, DB!TasksMatchTheirRound, R!LeaseInv, R!ChainInv,
         DB!SubmissionsKeepTheirTask, R!SubmissionsKeepTheirTask,
         DB!LeasesDieWithTheirRound, R!LeasesDieWithTheirRound, DB!Leased, R!Leased
<1>2. LoopInv => DB!RoundsFormAChain
  BY DEF LoopInv, DatabaseInv, R!ChainInv, DB!RoundsFormAChain, R!RoundsFormAChain,
         DB!PublishedBy, R!PublishedBy, DB!RoundIdx, R!RoundIdx
<1>3. LoopInv => DB!AcceptedWorkIsSound
  BY DEF LoopInv, DatabaseInv, R!LeaseInv, R!ChainInv, DB!AcceptedWorkIsSound,
         DB!ResultsAreAccepted, R!ResultsAreAccepted, DB!AcceptedStepsCoverHeartbeats,
         R!AcceptedStepsCoverHeartbeats, DB!Accepted, R!Accepted, DB!RoundIdx, R!RoundIdx,
         DB!Issued, R!Issued
<1>4. QED
  BY <1>1, <1>2, <1>3, LoopIsSound, PTL

-----------------------------------------------------------------------------
(* Faultless work.                                                         *)

\* A lease that can still be renewed and submitted.
Live(t) == DB!Leased(t) /\ DB!RoundIsOpen(tasks[t].round)

\* What a submission claims covers what its worker had reported.
NotBehind(t) ==
  verdict[t] = "ungated" /\ heartbeats[t].reported => steps[t] >= heartbeats[t].steps

\* A live lease is in its worker's hands, which has trained what it reported.
HeldByItsWorker(t) ==
  Live(t) => /\ tasks[t].worker \in Workers
             /\ worker[tasks[t].worker].holding = {t}
             /\ heartbeats[t].steps <= worker[tasks[t].worker].trained

\* A worker holds a task of its own, and drops it only when it is over.
HoldsItsOwn(w) ==
  \A t \in worker[w].holding :
    /\ DB!Issued(t)
    /\ tasks[t].worker = w
    /\ worker[w].dropped => ~Live(t)

\* While nothing fails, all that, and the tasks of late heartbeats are over.
WorkInv ==
  /\ \A t \in Tasks : HeldByItsWorker(t) /\ NotBehind(t)
  /\ \A t \in Tasks : ~DB!Issued(t) => heartbeats[t] = DB!NoHeartbeat
  /\ \A w \in Workers : HoldsItsOwn(w)
  /\ \A m \in late : DB!Issued(m.task) /\ ~Live(m.task)

FaultlessInv == Faultless => WorkInv

\* What a step that neither leases t nor renews its lease does to it.
Ages(t) ==
  /\ Live(t)' => Live(t) /\ heartbeats'[t] = heartbeats[t]
  /\ DB!Issued(t)' <=> DB!Issued(t)
  /\ ~DB!Issued(t) => heartbeats'[t] = heartbeats[t]
  /\ tasks'[t].worker = tasks[t].worker
  /\ NotBehind(t) => NotBehind(t)'

\* What a step does to a worker that stays with its task, or without one.
Stays(w) ==
  /\ worker'[w].holding = worker[w].holding
  /\ worker'[w].trained >= worker[w].trained
  /\ worker'[w].dropped => worker[w].dropped \/ \A t \in worker[w].holding : ~Live(t)

\* What a step does to a worker that leaves its task.
Leaves(w) ==
  /\ worker'[w].holding = {}
  /\ \A t \in worker[w].holding : ~Live(t)'

\* A step that only lets tasks age, and after which no worker has left a live
\* one, keeps the invariant.
LEMMA AgingKeepsWork ==
  ASSUME LoopInv, LoopInv', WorkInv,
         \A t \in Tasks : Ages(t),
         \A w \in Workers : Stays(w) \/ Leaves(w),
         \A m \in late' \ late :
           \E w \in Workers : Leaves(w) /\ m.task \in worker[w].holding
  PROVE  WorkInv'
<1>1. \A w \in Workers : worker[w] \in Locals /\ worker'[w] \in Locals
  BY DEF LoopInv, TypeOK
<1>2. \A t \in Tasks : HeldByItsWorker(t)'
  <2>1. SUFFICES ASSUME NEW t \in Tasks, Live(t)'
                 PROVE  /\ tasks'[t].worker \in Workers
                        /\ worker'[tasks'[t].worker].holding = {t}
                        /\ heartbeats'[t].steps <= worker'[tasks'[t].worker].trained
    BY DEF HeldByItsWorker
  <2> DEFINE w == tasks[t].worker
  <2>2. Live(t) /\ tasks'[t].worker = w /\ heartbeats'[t] = heartbeats[t]
    BY <2>1 DEF Ages
  <2>3. w \in Workers /\ worker[w].holding = {t} /\ heartbeats[t].steps <= worker[w].trained
    BY <2>2 DEF WorkInv, HeldByItsWorker
  <2>4. Stays(w)
    BY <2>1, <2>3 DEF Leaves
  <2>5. worker'[w].holding = {t} /\ worker'[w].trained >= worker[w].trained
    BY <2>3, <2>4 DEF Stays
  <2>6. heartbeats[t].steps \in Int /\ worker[w].trained \in Int /\ worker'[w].trained \in Int
    BY <1>1, <2>3 DEF LoopInv, TypeOK, DB!TypeOK, DB!HeartbeatRow, Locals
  <2>7. QED
    BY <2>2, <2>3, <2>5, <2>6
<1>3. \A t \in Tasks : NotBehind(t)'
  BY DEF WorkInv, Ages
<1>4. \A t \in Tasks : ~DB!Issued(t)' => heartbeats'[t] = DB!NoHeartbeat
  BY DEF WorkInv, Ages
<1>5. \A w \in Workers : HoldsItsOwn(w)'
  <2>1. SUFFICES ASSUME NEW w \in Workers, NEW t \in worker'[w].holding
                 PROVE  /\ DB!Issued(t)'
                        /\ tasks'[t].worker = w
                        /\ worker'[w].dropped => ~Live(t)'
    BY DEF HoldsItsOwn
  <2>2. Stays(w)
    BY DEF Leaves
  <2>3. t \in worker[w].holding /\ t \in Tasks
    BY <1>1, <2>2 DEF Stays, Locals
  <2>4. QED
    BY <2>2, <2>3 DEF WorkInv, HoldsItsOwn, Ages, Stays
<1>6. \A m \in late' : DB!Issued(m.task)' /\ ~Live(m.task)'
  <2>1. SUFFICES ASSUME NEW m \in late'  PROVE DB!Issued(m.task)' /\ ~Live(m.task)'
    OBVIOUS
  <2>2. m.task \in Tasks
    BY DEF LoopInv, TypeOK
  <2>3. CASE m \in late
    BY <2>2, <2>3 DEF WorkInv, Ages
  <2>4. CASE m \notin late
    BY <2>2, <2>4 DEF WorkInv, HoldsItsOwn, Ages, Leaves
  <2>5. QED
    BY <2>3, <2>4
<1>7. QED
  BY <1>2, <1>3, <1>4, <1>5, <1>6 DEF WorkInv

\* A task that a transaction does not touch ages, if its round does not open.
LEMMA UntouchedAges ==
  ASSUME NEW t, tasks'[t] = tasks[t], heartbeats'[t] = heartbeats[t],
         verdict'[t] = "ungated" => verdict[t] = "ungated" /\ steps'[t] = steps[t],
         roundStatus'[tasks[t].round] = "open" => ~DB!Leased(t) \/ roundStatus[tasks[t].round] = "open"
  PROVE  Ages(t)
BY DEF Ages, Live, NotBehind, DB!Leased, DB!RoundIsOpen, DB!Issued

\* A task that is retired, other than as a submission, ages.
LEMMA RetiringAges ==
  ASSUME LoopInv, NEW S \in SUBSET Tasks, NEW status \in {"expired", "abandoned"},
         DB!Retire(S, status), \A t \in S : DB!Leased(t),
         UNCHANGED <<heartbeats, verdict, steps>>,
         \A t \in Tasks : DB!RoundIsOpen(tasks[t].round)' => DB!RoundIsOpen(tasks[t].round)
  PROVE  \A t \in Tasks : Ages(t)
<1>1. \A t \in Tasks : /\ tasks'[t].worker = tasks[t].worker
                       /\ tasks'[t].round = tasks[t].round
                       /\ tasks'[t].status = IF t \in S THEN status ELSE tasks[t].status
  BY DEF DB!Retire, LoopInv, TypeOK, DB!TypeOK, DB!TaskRow
<1>2. QED
  BY <1>1 DEF Ages, Live, NotBehind, DB!Leased, DB!RoundIsOpen, DB!Issued

\* As does one in a step that leaves the database alone.
LEMMA UnchangedAges == UNCHANGED dbVars => \A t \in Tasks : Ages(t)
BY DEF dbVars, Ages, Live, NotBehind, DB!Leased, DB!RoundIsOpen, DB!Issued

\* Expiry and abandonment.
LEMMA ExpireAges == LoopInv /\ DB!ExpireLeases => \A t \in Tasks : Ages(t)
<1>1. SUFFICES ASSUME LoopInv, DB!ExpireLeases  PROVE \A t \in Tasks : Ages(t)
  OBVIOUS
<1>2. lapsed \in SUBSET Tasks /\ \A t \in lapsed : DB!Leased(t)
  BY <1>1 DEF LoopInv, TypeOK, DB!TypeOK, DatabaseInv, R!LeaseInv, R!LapsedAreLeased,
              R!Leased, DB!Leased
<1>3. DB!Retire(lapsed, "expired") /\ UNCHANGED <<heartbeats, verdict, steps, roundStatus>>
  BY <1>1 DEF DB!ExpireLeases, DB!roundVars, DB!submissionVars
<1>4. \A t \in Tasks : tasks'[t].round = tasks[t].round
  BY <1>3 DEF DB!Retire, LoopInv, TypeOK, DB!TypeOK, DB!TaskRow
<1>5. QED
  BY <1>1, <1>2, <1>3, <1>4, RetiringAges DEF DB!RoundIsOpen

LEMMA AbandonAges ==
  ASSUME LoopInv, NEW t \in Tasks, DB!Abandon(t)
  PROVE  \A u \in Tasks : Ages(u)
<1>1. DB!Retire({t}, "abandoned") /\ UNCHANGED <<heartbeats, verdict, steps, roundStatus>>
  BY DEF DB!Abandon, DB!roundVars, DB!submissionVars
<1>2. \A u \in Tasks : tasks'[u].round = tasks[u].round
  BY <1>1 DEF DB!Retire, LoopInv, TypeOK, DB!TypeOK, DB!TaskRow
<1>3. \A u \in {t} : DB!Leased(u)
  BY DEF DB!Abandon
<1>4. QED
  BY <1>1, <1>2, <1>3, RetiringAges DEF DB!RoundIsOpen

\* A submission that has been trained as far as its heartbeats say ages its
\* task, and is the end of its lease.
LEMMA SubmissionAges ==
  ASSUME LoopInv, NEW t \in Tasks, NEW n \in Int, heartbeats[t].steps <= n,
         DB!RecordSubmission(t, n)
  PROVE  (\A u \in Tasks : Ages(u)) /\ ~Live(t)'
<1>1. \A u \in Tasks : /\ tasks'[u].worker = tasks[u].worker
                       /\ tasks'[u].round = tasks[u].round
                       /\ tasks'[u].status = IF u = t THEN "submitted" ELSE tasks[u].status
  BY DEF DB!RecordSubmission, DB!Retire, LoopInv, TypeOK, DB!TypeOK, DB!TaskRow
<1>2. /\ UNCHANGED <<heartbeats, roundStatus>>
      /\ \A u \in Tasks : /\ verdict'[u] = IF u = t THEN "ungated" ELSE verdict[u]
                          /\ steps'[u] = IF u = t THEN n ELSE steps[u]
  BY DEF DB!RecordSubmission, DB!roundVars, LoopInv, TypeOK, DB!TypeOK
<1>3. DB!Leased(t)
  BY DEF DB!RecordSubmission
<1>4. heartbeats[t].steps \in Int
  BY DEF LoopInv, TypeOK, DB!TypeOK, DB!HeartbeatRow
<1>5. \A u \in Tasks \ {t} : Ages(u)
  BY <1>1, <1>2 DEF Ages, Live, NotBehind, DB!Leased, DB!RoundIsOpen, DB!Issued
<1>6. Ages(t) /\ ~Live(t)'
  BY <1>1, <1>2, <1>3, <1>4 DEF Ages, Live, NotBehind, DB!Leased, DB!RoundIsOpen, DB!Issued
<1>7. QED
  BY <1>5, <1>6

\* The gates, the closes and the clock age tasks.  A round that is closing does
\* not open again by itself, and one that opens is new: no lease is of it.
LEMMA ElsewhereAges == LoopInv /\ Elsewhere => \A t \in Tasks : Ages(t)
<1>1. SUFFICES ASSUME LoopInv, Elsewhere  PROVE \A t \in Tasks : Ages(t)
  OBVIOUS
<1>2. DB!TypeOK
  BY <1>1 DEF LoopInv, TypeOK
<1>3. CASE DB!TimePasses \/ DB!FinishRun \/ (\E t \in Tasks : DB!LeaseLapses(t))
           \/ (\E r \in DB!RoundIdx : DB!ReopenEmptyRound(r))
  BY <1>3, UntouchedAges DEF DB!TimePasses, DB!FinishRun, DB!FinishRunTxn, DB!LeaseLapses,
     DB!ReopenEmptyRound, DB!roundVars, DB!taskVars, DB!submissionVars
<1>4. CASE DB!ExpireLeases
  BY <1>1, <1>4, ExpireAges
<1>5. CASE DB!OpenRound
  <2>1. /\ UNCHANGED <<tasks, heartbeats, verdict, steps>>
        /\ roundStatus[currentRound] = "closed"
        /\ roundStatus' = [roundStatus EXCEPT ![currentRound + 1] = "open"]
    BY <1>5 DEF DB!OpenRound, DB!OpenRoundTxn, DB!PublishedBy, DB!taskVars, DB!submissionVars
  <2>2. \A t \in Tasks : ~DB!Leased(t)
    BY <1>1, <2>1 DEF LoopInv, DatabaseInv, R!ChainInv, R!LeasesDieWithTheirRound,
                      R!Leased, DB!Leased
  <2>3. QED
    BY <2>1, <2>2, UntouchedAges
<1>6. CASE \E t \in Tasks : \E v \in {"accepted", "rejected"} : DB!GateSubmission(t, v)
  <2>1. PICK t \in Tasks, v \in {"accepted", "rejected"} : DB!RecordVerdictTxn({t}, v)
    BY <1>6 DEF DB!GateSubmission, DB!GateTxn
  <2>2. /\ UNCHANGED <<tasks, heartbeats, steps, roundStatus>>
        /\ \A u \in Tasks : verdict'[u] \in {v, verdict[u]}
    BY <2>1 DEF DB!RecordVerdictTxn, DB!roundVars, DB!taskVars
  <2>3. QED
    BY <2>2, UntouchedAges
<1>7. CASE \E S \in SUBSET Tasks : DB!RejectAtClose(S)
  <2>1. PICK S \in SUBSET Tasks : DB!RecordVerdictTxn(S, "rejected")
    BY <1>7 DEF DB!RejectAtClose
  <2>2. /\ UNCHANGED <<tasks, heartbeats, steps, roundStatus>>
        /\ \A u \in Tasks : verdict'[u] \in {"rejected", verdict[u]}
    BY <2>1 DEF DB!RecordVerdictTxn, DB!roundVars, DB!taskVars
  <2>3. QED
    BY <2>2, UntouchedAges
<1>8. CASE \E r \in DB!RoundIdx : DB!ClaimClose(r)
  <2>1. PICK r \in DB!RoundIdx :
          /\ UNCHANGED <<tasks, heartbeats, verdict, steps>>
          /\ roundStatus' = [roundStatus EXCEPT ![r] = "closing"]
    BY <1>8 DEF DB!ClaimClose, DB!ClaimCloseTxn, DB!taskVars, DB!submissionVars
  <2>2. \A t \in Tasks : roundStatus'[tasks[t].round] = "open" => roundStatus[tasks[t].round] = "open"
    BY <1>2, <2>1 DEF DB!TypeOK, DB!TaskRow
  <2>3. QED
    BY <2>1, <2>2, UntouchedAges
<1>9. CASE \E S \in SUBSET Tasks : DB!FinishClose(currentRound, S)
  <2>1. /\ DB!Retire(DB!OutstandingLeases(currentRound), "expired")
        /\ UNCHANGED <<heartbeats, verdict, steps>>
        /\ roundStatus' = [roundStatus EXCEPT ![currentRound] = "closed"]
    BY <1>9 DEF DB!FinishClose, DB!FinishCloseTxn, DB!submissionVars
  <2>2. /\ DB!OutstandingLeases(currentRound) \in SUBSET Tasks
        /\ \A t \in DB!OutstandingLeases(currentRound) : DB!Leased(t)
    BY DEF DB!OutstandingLeases
  <2>3. \A t \in Tasks : tasks'[t].round = tasks[t].round
    BY <1>2, <2>1 DEF DB!Retire, DB!TypeOK, DB!TaskRow
  <2>4. \A t \in Tasks : DB!RoundIsOpen(tasks[t].round)' => DB!RoundIsOpen(tasks[t].round)
    BY <1>2, <2>1, <2>3 DEF DB!RoundIsOpen, DB!TypeOK, DB!TaskRow
  <2>5. QED
    BY <1>1, <2>1, <2>2, <2>4, RetiringAges
<1>10. QED
  BY <1>1, <1>3, <1>4, <1>5, <1>6, <1>7, <1>8, <1>9 DEF Elsewhere

-----------------------------------------------------------------------------
(* The steps of a worker to which nothing happens.                         *)

\* Faults are counted, and are never taken back.
LEMMA FaultsOnlyGrow ==
  ASSUME LoopInv, LoopInv', [Next]_vars, Faultless'
  PROVE  Faultless /\ UNCHANGED faults
<1>1. \/ UNCHANGED faults
      \/ \E kind \in Kinds : Fault(kind)
  BY NextSurroundings
<1>2. CASE UNCHANGED faults
  BY <1>2 DEF Faultless, FaultsSoFar
<1>3. ASSUME NEW kind \in Kinds, Fault(kind)  PROVE FALSE
  <2>1. \A k \in Kinds : faults[k] \in Nat /\ faults'[k] \in Nat
    BY WorkerLoopAssumption DEF LoopInv, TypeOK
  <2>2. faults'[kind] = faults[kind] + 1
    BY <1>3 DEF Fault, LoopInv, TypeOK
  <2> DEFINE n == faults'["network"]  r == faults'["restart"]  f == faults'["failed close"]
  <2>3. n \in Nat /\ r \in Nat /\ f \in Nat
    BY <2>1 DEF Kinds
  <2>4. n + r + f = 0
    BY DEF Faultless, FaultsSoFar
  <2>5. faults'[kind] \in {n, r, f}
    BY DEF Kinds
  <2> HIDE DEF n, r, f
  <2>6. QED
    BY <2>1, <2>2, <2>3, <2>4, <2>5
<1>4. QED
  BY <1>1, <1>2, <1>3

\* Counting a fault is a change.
LEMMA FaultsAreSeen ==
  ASSUME LoopInv, NEW kind \in Kinds, Fault(kind)
  PROVE  faults' # faults
<1>1. faults[kind] \in Nat /\ faults'[kind] = faults[kind] + 1
  BY WorkerLoopAssumption DEF LoopInv, TypeOK, Fault
<1>2. QED
  BY <1>1

\* What one worker does to itself leaves the others with their tasks.
LEMMA OthersStay ==
  ASSUME LoopInv, NEW w \in Workers, NEW l, Become(w, l)
  PROVE  /\ worker'[w] = l
         /\ \A v \in Workers \ {w} : Stays(v)
<1>1. \A v \in Workers : worker[v] \in Locals
  BY DEF LoopInv, TypeOK
<1>2. worker'[w] = l /\ \A v \in Workers \ {w} : worker'[v] = worker[v]
  BY BecomeChangesOne DEF LoopInv, TypeOK
<1>3. \A v \in Workers : worker[v].trained \in Int
  BY <1>1 DEF Locals
<1>4. QED
  BY <1>2, <1>3 DEF Stays

\* A worker that keeps its task in mind stays with it.
LEMMA QuietSteps ==
  ASSUME LoopInv, NEW w \in Workers,
         \/ Register(w) \/ SeeStop(w) \/ SendClaim(w) \/ ClaimNothing(w)
         \/ Decline(w) \/ StartRound(w) \/ TrainStep(w) \/ EndTraining(w)
         \/ GiveUp(w) \/ Upload(w) \/ SendBeat(w) \/ BeatRefused(w)
  PROVE  \A v \in Workers : Stays(v)
<1> DEFINE l == worker[w]
<1>1. l \in Locals /\ Stage(l) /\ l.trained \in Int
  BY DEF LoopInv, TypeOK, StageInv, Locals
<1>2. CASE Register(w)
  <2>1. worker'[w] = Polling /\ \A v \in Workers \ {w} : Stays(v)
    BY <1>2, OthersStay DEF Register
  <2>2. l.holding = {} /\ l.trained = 0
    BY <1>1, <1>2 DEF Register, Stage, Idle, At
  <2>3. Stays(w)
    BY <2>1, <2>2 DEF Stays, Polling, Registering
  <2>4. QED
    BY <2>1, <2>3
<1>3. CASE \/ SeeStop(w) \/ SendClaim(w) \/ ClaimNothing(w) \/ Decline(w)
           \/ EndTraining(w) \/ GiveUp(w) \/ Upload(w)
  <2>1. PICK pc : Goto(w, pc)
    BY <1>3 DEF SeeStop, SendClaim, ClaimNothing, Decline, EndTraining, GiveUp, Upload
  <2>2. worker'[w] = [l EXCEPT !.pc = pc] /\ \A v \in Workers \ {w} : Stays(v)
    BY <2>1, OthersStay DEF Goto
  <2>3. Stays(w)
    BY <1>1, <2>2 DEF Stays, Locals
  <2>4. QED
    BY <2>2, <2>3
<1>4. CASE StartRound(w) \/ TrainStep(w) \/ SendBeat(w)
  <2>1. PICK m \in {[l EXCEPT !.pc = "train", !.beating = TRUE],
                    [l EXCEPT !.trained = @ + 1], [l EXCEPT !.sent = l.trained]} :
          Become(w, m)
    BY <1>4 DEF StartRound, TrainStep, SendBeat
  <2>2. worker'[w] = m /\ \A v \in Workers \ {w} : Stays(v)
    BY <2>1, OthersStay
  <2>3. m.holding = l.holding /\ m.dropped = l.dropped /\ m.trained \in {l.trained, l.trained + 1}
    BY <1>1 DEF Locals
  <2>4. Stays(w)
    BY <1>1, <2>2, <2>3 DEF Stays
  <2>5. QED
    BY <2>2, <2>4
<1>5. CASE BeatRefused(w)
  <2>1. /\ worker'[w] = [l EXCEPT !.sent = Nothing, !.beating = FALSE, !.dropped = TRUE]
        /\ \A v \in Workers \ {w} : Stays(v)
    BY <1>5, OthersStay DEF BeatRefused
  <2>2. \A t \in l.holding : ~Live(t)
    BY <1>1, <1>5 DEF BeatRefused, Live, Locals
  <2>3. Stays(w)
    BY <1>1, <2>1, <2>2 DEF Stays, Locals
  <2>4. QED
    BY <2>1, <2>3
<1>6. QED
  BY <1>2, <1>3, <1>4, <1>5

\* What a worker leaves at the end of a task is its outstanding heartbeat.
LEMMA EndTaskLeaves ==
  ASSUME LoopInv, NEW w \in Workers, EndTask(w), \A t \in worker[w].holding : ~Live(t)'
  PROVE  /\ \A v \in Workers : Stays(v) \/ Leaves(v)
         /\ \A m \in late' \ late :
              \E v \in Workers : Leaves(v) /\ m.task \in worker[v].holding
<1>1. worker'[w] = Polling /\ \A v \in Workers \ {w} : Stays(v)
  BY OthersStay DEF EndTask
<1>2. Leaves(w)
  BY <1>1 DEF Leaves, Polling, Registering
<1>3. \A m \in late' \ late : m.task \in worker[w].holding
  BY DEF EndTask, Outstanding
<1>4. QED
  BY <1>1, <1>2, <1>3

\* And all workers stay with their tasks when none does anything.
LEMMA AllStay == ASSUME LoopInv, UNCHANGED worker  PROVE \A v \in Workers : Stays(v)
<1>1. \A v \in Workers : worker[v].trained \in Int
  BY DEF LoopInv, TypeOK, Locals
<1>2. QED
  BY <1>1 DEF Stays

\* A worker that is given a new lease holds nothing, and nobody else has it.
LEMMA ClaimKeepsWork ==
  ASSUME LoopInv, LoopInv', WorkInv, NEW w \in Workers, ClaimNewLease(w)
  PROVE  WorkInv'
<1>1. PICK t \in Tasks, S \in SUBSET DB!Buckets : DB!ClaimTask(w, t, S) /\ Hold(w, t)
  BY DEF ClaimNewLease
<1>2. UNCHANGED late
  BY DEF ClaimNewLease
<1>3. /\ ~DB!Issued(t)
      /\ tasks'[t].status = "leased" /\ tasks'[t].worker = w
      /\ \A u \in Tasks \ {t} : tasks'[u] = tasks[u]
      /\ UNCHANGED <<roundStatus, heartbeats, verdict, steps>>
  BY <1>1 DEF DB!ClaimTask, DB!roundVars, DB!submissionVars, DB!Issued, LoopInv, TypeOK, DB!TypeOK
<1>4. worker[w].holding = {}
  BY DEF ClaimNewLease, At, LoopInv, StageInv, Stage, Idle
<1>5. worker'[w] = [Polling EXCEPT !.pc = "claimed", !.holding = {t}]
      /\ \A v \in Workers \ {w} : worker'[v] = worker[v]
  BY <1>1, BecomeChangesOne DEF Hold, LoopInv, TypeOK
<1>6. worker'[w].holding = {t} /\ worker'[w].trained = 0 /\ worker'[w].dropped = FALSE
  BY <1>5, FreshStage DEF Polling, Registering, Locals
<1>7. \A u \in Tasks \ {t} : Ages(u)
  BY <1>3, UntouchedAges
<1>8. \A u \in Tasks \ {t} : HeldByItsWorker(u)' /\ NotBehind(u)'
  <2>1. TAKE u \in Tasks \ {t}
  <2>2. ASSUME Live(u)'
        PROVE  /\ tasks'[u].worker \in Workers
               /\ worker'[tasks'[u].worker].holding = {u}
               /\ heartbeats'[u].steps <= worker'[tasks'[u].worker].trained
    <3>1. Live(u) /\ tasks'[u] = tasks[u] /\ heartbeats'[u] = heartbeats[u]
      BY <1>3, <1>7, <2>2 DEF Ages
    <3>2. /\ tasks[u].worker \in Workers /\ worker[tasks[u].worker].holding = {u}
          /\ heartbeats[u].steps <= worker[tasks[u].worker].trained
      BY <3>1 DEF WorkInv, HeldByItsWorker
    <3>3. tasks[u].worker # w
      BY <1>4, <3>2
    <3>4. QED
      BY <1>5, <3>1, <3>2, <3>3
  <2>3. QED
    BY <1>7, <2>2 DEF WorkInv, Ages, HeldByItsWorker
<1>9. HeldByItsWorker(t)' /\ NotBehind(t)'
  <2>1. heartbeats'[t].steps = 0
    BY <1>3 DEF WorkInv, DB!NoHeartbeat
  <2>2. verdict'[t] # "ungated"
    BY <1>3 DEF LoopInv, DatabaseInv, R!LeaseInv, R!SubmissionsKeepTheirTask, DB!Issued
  <2>3. QED
    BY <1>3, <1>6, <2>1, <2>2 DEF HeldByItsWorker, NotBehind
<1>10. \A u \in Tasks : ~DB!Issued(u)' => heartbeats'[u] = DB!NoHeartbeat
  BY <1>3 DEF WorkInv, DB!Issued
<1>11. \A v \in Workers : HoldsItsOwn(v)'
  <2>1. TAKE v \in Workers
  <2>2. CASE v = w
    BY <1>3, <1>6, <2>2 DEF HoldsItsOwn, DB!Issued
  <2>3. CASE v # w
    <3>1. worker'[v] = worker[v] /\ worker[v].holding \subseteq Tasks
      BY <1>5, <2>3 DEF LoopInv, TypeOK, Locals
    <3>2. HoldsItsOwn(v)
      BY DEF WorkInv
    <3>3. t \notin worker[v].holding
      BY <1>3, <3>2 DEF HoldsItsOwn
    <3>4. QED
      BY <1>3, <1>7, <3>1, <3>2, <3>3 DEF HoldsItsOwn, Ages
  <2>4. QED
    BY <2>2, <2>3
<1>12. \A m \in late' : DB!Issued(m.task)' /\ ~Live(m.task)'
  BY <1>2, <1>3, <1>7 DEF WorkInv, LoopInv, TypeOK, Ages
<1>13. QED
  BY <1>8, <1>9, <1>10, <1>11, <1>12 DEF WorkInv

\* A heartbeat that renews a lease reports no more than its worker has trained.
LEMMA RenewalKeepsWork ==
  ASSUME LoopInv, LoopInv', WorkInv, NEW w \in Workers, BeatRenews(w)
  PROVE  WorkInv'
<1> DEFINE l == worker[w]
<1>1. PICK t \in l.holding : DB!Heartbeat(t, l.sent)
  BY DEF BeatRenews
<1>2. l \in Locals /\ l.sent <= l.trained /\ t \in Tasks
  BY DEF LoopInv, TypeOK, StageInv, Stage, Locals
<1>3. /\ DB!Leased(t)
      /\ UNCHANGED <<tasks, roundStatus, verdict, steps, late>>
      /\ heartbeats' = [heartbeats EXCEPT ![t] = DB!Progress(@, l.sent)]
  BY <1>1 DEF DB!Heartbeat, DB!roundVars, DB!submissionVars, BeatRenews
<1>4. worker'[w] = [l EXCEPT !.sent = Nothing]
      /\ \A v \in Workers \ {w} : worker'[v] = worker[v]
  BY BecomeChangesOne DEF BeatRenews, LoopInv, TypeOK
<1>5. worker'[w].holding = l.holding /\ worker'[w].trained = l.trained
      /\ worker'[w].dropped = l.dropped
  BY <1>2, <1>4 DEF Locals
<1>6. tasks[t].worker = w /\ DB!Issued(t) /\ l.holding = {t}
  BY <1>2 DEF WorkInv, HoldsItsOwn, Locals
<1>7. \A u \in Tasks \ {t} : heartbeats'[u] = heartbeats[u]
  BY <1>3 DEF LoopInv, TypeOK, DB!TypeOK
<1>8. \A u \in Tasks : /\ Live(u)' <=> Live(u)
                       /\ DB!Issued(u)' <=> DB!Issued(u)
  BY <1>3 DEF Live, DB!Leased, DB!RoundIsOpen, DB!Issued
<1>9. Live(t) => heartbeats'[t].steps <= l.trained
  <2>1. Live(t) => heartbeats[t].steps <= l.trained
    BY <1>2, <1>6 DEF WorkInv, HeldByItsWorker
  <2>2. heartbeats'[t].steps = IF l.sent > heartbeats[t].steps THEN l.sent ELSE heartbeats[t].steps
    BY <1>2, <1>3 DEF DB!Progress, LoopInv, TypeOK, DB!TypeOK
  <2>3. QED
    BY <1>2, <2>1, <2>2
<1>10. \A u \in Tasks : HeldByItsWorker(u)'
  <2>1. SUFFICES ASSUME NEW u \in Tasks, Live(u)
                 PROVE  /\ tasks[u].worker \in Workers
                        /\ worker'[tasks[u].worker].holding = {u}
                        /\ heartbeats'[u].steps <= worker'[tasks[u].worker].trained
    BY <1>3, <1>8 DEF HeldByItsWorker
  <2>2. /\ tasks[u].worker \in Workers
        /\ worker[tasks[u].worker].holding = {u}
        /\ heartbeats[u].steps <= worker[tasks[u].worker].trained
    BY <2>1 DEF WorkInv, HeldByItsWorker
  <2>3. CASE u = t
    BY <1>5, <1>6, <1>9, <2>1, <2>3
  <2>4. CASE u # t
    BY <1>4, <1>5, <1>6, <1>7, <2>2, <2>4
  <2>5. QED
    BY <2>3, <2>4
<1>11. \A u \in Tasks : NotBehind(u)'
  <2>1. TAKE u \in Tasks
  <2>2. CASE u = t
    BY <1>3, <2>2 DEF NotBehind, LoopInv, DatabaseInv, R!LeaseInv,
                      R!SubmissionsKeepTheirTask, DB!Leased
  <2>3. CASE u # t
    BY <1>3, <1>7, <2>3 DEF WorkInv, NotBehind
  <2>4. QED
    BY <2>2, <2>3
<1>12. \A u \in Tasks : ~DB!Issued(u)' => heartbeats'[u] = DB!NoHeartbeat
  BY <1>6, <1>7, <1>8 DEF WorkInv
<1>13. \A v \in Workers : HoldsItsOwn(v)'
  <2>1. TAKE v \in Workers
  <2>2. worker'[v].holding = worker[v].holding /\ worker'[v].dropped = worker[v].dropped
        /\ worker[v].holding \subseteq Tasks
    BY <1>4, <1>5 DEF LoopInv, TypeOK, Locals
  <2>3. HoldsItsOwn(v)
    BY DEF WorkInv
  <2>4. QED
    BY <1>3, <1>8, <2>2, <2>3 DEF HoldsItsOwn
<1>14. \A m \in late' : DB!Issued(m.task)' /\ ~Live(m.task)'
  BY <1>3, <1>8 DEF WorkInv, LoopInv, TypeOK
<1>15. QED
  BY <1>10, <1>11, <1>12, <1>13, <1>14 DEF WorkInv

\* The end of a task, without a fault, is the end of its lease, or that of its
\* round.
LEMMA EndKeepsWork ==
  ASSUME LoopInv, LoopInv', WorkInv, NEW w \in Workers,
         Drop(w) \/ Submit(w) \/ SubmitRefused(w) \/ SendAbandon(w)
  PROVE  WorkInv'
<1> DEFINE l == worker[w]
<1>1. l \in Locals /\ EndTask(w)
  BY DEF LoopInv, TypeOK, Drop, Submit, SubmitRefused, SendAbandon
<1>2. (\A t \in Tasks : Ages(t)) /\ \A t \in l.holding : ~Live(t)'
  <2>1. CASE Drop(w)
    <3>1. \A t \in Tasks : Ages(t)
      BY <2>1, UnchangedAges DEF Drop
    <3>2. \A t \in l.holding : t \in Tasks /\ ~Live(t)
      BY <1>1, <2>1 DEF Drop, WorkInv, HoldsItsOwn, Locals
    <3>3. QED
      BY <3>1, <3>2 DEF Ages
  <2>2. CASE Submit(w)
    <3>1. PICK t \in l.holding : DB!RecordSubmission(t, l.trained)
      BY <2>2 DEF Submit
    <3>2. l.holding = {t} /\ t \in Tasks /\ l.trained \in Int /\ tasks[t].worker = w
      BY <1>1, <3>1 DEF Locals, WorkInv, HoldsItsOwn
    <3>3. heartbeats[t].steps <= l.trained
      BY <3>1, <3>2 DEF DB!RecordSubmission, Live, WorkInv, HeldByItsWorker
    <3>4. QED
      BY <3>1, <3>2, <3>3, SubmissionAges
  <2>3. CASE SubmitRefused(w)
    <3>1. \A t \in Tasks : Ages(t)
      BY <2>3, UnchangedAges DEF SubmitRefused
    <3>2. \A t \in l.holding : t \in Tasks /\ ~Live(t)
      BY <1>1, <2>3 DEF SubmitRefused, Live, Locals
    <3>3. QED
      BY <3>1, <3>2 DEF Ages
  <2>4. CASE SendAbandon(w)
    <3>1. PICK t \in l.holding : DB!Abandon(t) \/ (~DB!Leased(t) /\ UNCHANGED dbVars)
      BY <2>4 DEF SendAbandon
    <3>2. l.holding = {t} /\ t \in Tasks
      BY <1>1, <3>1 DEF Locals
    <3>3. CASE DB!Abandon(t)
      <4>1. tasks'[t].status = "abandoned"
        BY <3>2, <3>3 DEF DB!Abandon, DB!Retire, LoopInv, TypeOK, DB!TypeOK, DB!TaskRow
      <4>2. QED
        BY <3>2, <3>3, <4>1, AbandonAges DEF Live, DB!Leased
    <3>4. CASE ~DB!Leased(t) /\ UNCHANGED dbVars
      BY <3>2, <3>4, UnchangedAges DEF Ages, Live
    <3>5. QED
      BY <3>1, <3>3, <3>4
  <2>5. QED
    BY <2>1, <2>2, <2>3, <2>4
<1>3. QED
  BY <1>1, <1>2, EndTaskLeaves, AgingKeepsWork

\* While nothing fails, every step keeps the invariant.
LEMMA WorkStep ==
  ASSUME LoopInv, LoopInv', WorkInv, [Next]_vars, UNCHANGED faults
  PROVE  WorkInv'
<1>1. ASSUME \A t \in Tasks : Ages(t), \A v \in Workers : Stays(v), late' \subseteq late
      PROVE  WorkInv'
  BY <1>1, AgingKeepsWork
<1>2. ASSUME NEW w \in Workers, WorkerStep(w)  PROVE WorkInv'
  <2>1. CASE \/ Register(w) \/ SeeStop(w) \/ ClaimNothing(w) \/ Decline(w) \/ StartRound(w)
             \/ TrainStep(w) \/ EndTraining(w) \/ GiveUp(w) \/ Upload(w) \/ SendBeat(w)
             \/ BeatRefused(w)
    <3>1. UNCHANGED <<dbVars, late>>
      BY <2>1 DEF Register, SeeStop, ClaimNothing, Decline, StartRound, TrainStep, EndTraining,
                  GiveUp, Upload, SendBeat, BeatRefused
    <3>2. QED
      BY <1>1, <2>1, <3>1, QuietSteps, UnchangedAges
  <2>2. CASE SendClaim(w)
    BY <1>1, <2>2, QuietSteps, ExpireAges DEF SendClaim
  <2>3. CASE RequestStop(w) \/ RequestPause(w)
    BY <1>1, <2>3, AllStay, UnchangedAges DEF RequestStop, RequestPause
  <2>4. CASE Drop(w) \/ Submit(w) \/ SubmitRefused(w) \/ SendAbandon(w)
    BY <2>4, EndKeepsWork
  <2>5. CASE ClaimNewLease(w)
    BY <2>5, ClaimKeepsWork
  <2>6. CASE BeatRenews(w)
    BY <2>6, RenewalKeepsWork
  <2>7. CASE ClaimHeldLease(w)
    <3>1. PICK t \in Tasks : DB!Leased(t) /\ tasks[t].worker = w /\ tasks[t].round = currentRound
      BY <2>7 DEF ClaimHeldLease
    <3>2. Live(t)
      BY <2>7, <3>1 DEF ClaimHeldLease, Live
    <3>3. worker[w].holding = {t}
      BY <3>1, <3>2 DEF WorkInv, HeldByItsWorker
    <3>4. worker[w].holding = {}
      BY <2>7 DEF ClaimHeldLease, At, LoopInv, StageInv, Stage, Idle
    <3>5. QED
      BY <3>3, <3>4
  <2>8. CASE \/ RegisterFails(w) \/ ClaimAnswerLost(w) \/ SubmitAnswerLost(w) \/ Unreachable(w)
             \/ AbandonFails(w) \/ BeatFails(w) \/ Restart(w)
    <3>1. \E kind \in Kinds : Fault(kind)
      BY <2>8 DEF RegisterFails, ClaimAnswerLost, SubmitAnswerLost, Unreachable, AbandonFails,
                  BeatFails, Restart, Kinds
    <3>2. QED
      BY <3>1, FaultsAreSeen
  <2>9. QED
    BY <1>2, <2>1, <2>2, <2>3, <2>4, <2>5, <2>6, <2>7, <2>8 DEF WorkerStep, LoopStep
<1>3. ASSUME NEW m \in late, LateBeat(m)  PROVE WorkInv'
  <2>1. ~Live(m.task)
    BY DEF WorkInv
  <2>2. UNCHANGED dbVars
    BY <1>3, <2>1 DEF LateBeat, DB!Heartbeat, Live
  <2>3. UNCHANGED worker /\ late' \subseteq late
    BY <1>3 DEF LateBeat
  <2>4. QED
    BY <1>1, <2>2, <2>3, AllStay, UnchangedAges
<1>4. CASE Elsewhere
  BY <1>1, <1>4, AllStay, ElsewhereAges DEF Elsewhere
<1>5. CASE FailedClose
  BY <1>5, FaultsAreSeen DEF FailedClose, Kinds
<1>6. CASE UNCHANGED vars
  BY <1>1, <1>6, AllStay, UnchangedAges DEF vars
<1>7. QED
  BY <1>2, <1>3, <1>4, <1>5, <1>6 DEF Next, WorkerStep

\* It holds at first, and every step without a fault keeps it.
LEMMA InitWork == Init => FaultlessInv
BY DEF Init, DB!Init, FaultlessInv, WorkInv, HeldByItsWorker, HoldsItsOwn, NotBehind, Live,
       Registering, DB!Leased, DB!Issued, DB!NoTask, DB!NoHeartbeat

LEMMA NextWork == LoopInv /\ LoopInv' /\ FaultlessInv /\ [Next]_vars => FaultlessInv'
BY FaultsOnlyGrow, WorkStep DEF FaultlessInv

LEMMA WorkIsSound == Spec => []FaultlessInv
BY LoopIsSound, InitWork, NextWork, PTL DEF Spec

\* Until something fails, no honest work is behind its heartbeats, however many
\* workers and tasks there are and whatever is late (loop.py run_round,
\* aggregate.py gate 5).
THEOREM HonestWorkPasses == Spec => []FaultlessWorkIsNotBehind
<1>1. FaultlessInv => FaultlessWorkIsNotBehind
  BY DEF FaultlessInv, FaultlessWorkIsNotBehind, HonestWorkIsNotBehind, WorkInv, NotBehind
<1>2. QED
  BY <1>1, WorkIsSound, PTL

\* While nothing fails, whoever leaves a task has ended its lease, or its round
\* is over (loop.py run, the promise of its lines 24-26).
THEOREM NoLeaseLeftBehind == Spec => []NothingLeftBehind
<1>1. FaultlessInv => NothingLeftBehind
  BY DEF FaultlessInv, NothingLeftBehind, WorkInv, HeldByItsWorker, Live
<1>2. QED
  BY <1>1, WorkIsSound, PTL

=============================================================================
