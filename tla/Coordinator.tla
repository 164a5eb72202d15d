---------------------------- MODULE Coordinator -----------------------------
(***************************************************************************)
(* The coordinator process: the request handlers of app.py and the close   *)
(* of closer.py, each a sequence of database transactions and object-store *)
(* accesses.  FastAPI runs the endpoints in a thread pool, so any number   *)
(* of handlers are between two of their steps at once; each slot of        *)
(* Handlers is one such thread.  The transactions are those of Rounds.     *)
(*                                                                         *)
(* Heartbeat and abandon requests are one transaction, hence one action.   *)
(* A claim is: expire_leases, maybe_close, claim_task.  A submit is:       *)
(* record_submission, gate_submission, maybe_close.  A request that is     *)
(* refused (404, 409, 410, 422) changes nothing and is not an action.      *)
(*                                                                         *)
(* The module extends Rounds: the transactions and their variables, vars,  *)
(* are those of the database, and what the handlers add is below.          *)
(***************************************************************************)
EXTENDS Rounds, FiniteSetsExt

CONSTANTS
  Handlers,      \* threads of the coordinator's pool
  TargetSteps,   \* rounds.target_steps
  MinAge,        \* rounds.min_round_sec, in units of model time
  MaxFailures,   \* bound on the exceptions raised by the store or the database
  MaxCrashes     \* bound on the restarts of the coordinator process

\* A run that asks for no steps at all could close a round nobody worked in.
ASSUME CoordinatorAssumption ==
  /\ TargetSteps \in Nat \ {0}
  /\ MinAge \in Nat
  /\ MaxFailures \in Nat
  /\ MaxCrashes \in Nat

VARIABLES
  handler,      \* where each thread is, and the locals it still needs
  adapters,     \* the object at base_adapter_key(run, r + 1): what was folded
                \* into it; {} where nothing was put
  momentum,     \* the object at momentum_key(run): how often each round's
                \* step has been folded into it
  momentumRef,  \* runs.outer_momentum_ref IS NOT NULL
  failures,
  crashes

storeVars == <<adapters, momentum, momentumRef>>
faultVars == <<failures, crashes>>
coordinatorVars == <<vars, handler, storeVars, faultVars>>

Zeros == [r \in RoundIdx |-> 0]

\* worker: the claimant, NoWorker in a submit.  gating: the task a submit has
\* yet to gate.  idx, elapsed: what maybe_close read.  restarted: the round's
\* clock was restarted since.  kept: the submissions being aggregated.
\* hasRef: outer_momentum_ref as the close read it.  folds: the momentum the
\* outer step computed.
Idle == [pc |-> "idle", worker |-> NoWorker, gating |-> {}, idx |-> 0,
         elapsed |-> 0, restarted |-> FALSE, kept |-> {}, hasRef |-> FALSE,
         folds |-> Zeros]

CoordinatorInit ==
  /\ Init
  /\ handler = [h \in Handlers |-> Idle]
  /\ adapters = [r \in RoundIdx |-> {}]
  /\ momentum = Zeros
  /\ momentumRef = FALSE
  /\ failures = 0
  /\ crashes = 0

-----------------------------------------------------------------------------
At(h, pc) == handler[h].pc = pc
Goto(h, locals) == handler' = [handler EXCEPT ![h] = locals]
GotoPc(h, pc) == Goto(h, [handler[h] EXCEPT !.pc = pc])

\* What follows maybe_close: claim_task in a claim, the response in a submit.
NextLocals(h) ==
  IF handler[h].worker = NoWorker
  THEN Idle
  ELSE [Idle EXCEPT !.pc = "lease", !.worker = handler[h].worker]

AfterMaybeClose(h) == Goto(h, NextLocals(h))

-----------------------------------------------------------------------------
(* The request path.                                                       *)

StartClaim(h, w) ==
  /\ At(h, "idle")
  /\ ExpireLeases
  /\ Goto(h, [Idle EXCEPT !.pc = "evaluate", !.worker = w])
  /\ UNCHANGED <<storeVars, faultVars>>

StartSubmit(h, t, s) ==
  /\ At(h, "idle")
  /\ RecordSubmission(t, s)
  /\ Goto(h, [Idle EXCEPT !.pc = "gate", !.gating = {t}])
  /\ UNCHANGED <<storeVars, faultVars>>

\* Mutation of Gate: a submission of a round that has closed is left as it is.
GateOfOpenRound(h) ==
  /\ At(h, "gate")
  /\ \E t \in handler[h].gating, v \in {"accepted", "rejected"} :
       IF RoundIsOpen(tasks[t].round) THEN GateTxn(t, v) ELSE UNCHANGED vars
  /\ Goto(h, [Idle EXCEPT !.pc = "evaluate"])
  /\ UNCHANGED <<storeVars, faultVars>>

\* An artifact that cannot be read is rejected; so is one that fails a gate.
Gate(h) ==
  /\ At(h, "gate")
  /\ \E t \in handler[h].gating, v \in {"accepted", "rejected"} : GateTxn(t, v)
  /\ Goto(h, [Idle EXCEPT !.pc = "evaluate"])
  /\ UNCHANGED <<storeVars, faultVars>>

\* expected_manifest reads the base adapter and nothing catches what it raises.
GateFails(h) ==
  /\ At(h, "gate")
  /\ failures < MaxFailures
  /\ failures' = failures + 1
  /\ Goto(h, Idle)
  /\ UNCHANGED <<vars, storeVars, crashes>>

\* claim_task's transaction, when it issues a lease.
Lease(h) ==
  /\ At(h, "lease")
  /\ \E t \in Tasks, S \in SUBSET Buckets : ClaimTask(handler[h].worker, t, S)
  /\ Goto(h, Idle)
  /\ UNCHANGED <<storeVars, faultVars>>

\* 204: not eligible, no open round, too little of it left; or the lease held.
LeaseNothing(h) ==
  /\ At(h, "lease")
  /\ Goto(h, Idle)
  /\ UNCHANGED <<vars, storeVars, faultVars>>

-----------------------------------------------------------------------------
(* maybe_close: three reads, then one of two transactions.                 *)

EvaluateRound(h) ==
  /\ At(h, "evaluate")
  /\ IF runStatus # "active"
     THEN AfterMaybeClose(h)
     ELSE Goto(h, [handler[h] EXCEPT
                     !.pc = IF roundStatus[currentRound] = "open"
                            THEN "progress" ELSE "reopen_empty",
                     !.idx = currentRound,
                     !.elapsed = age])
  /\ UNCHANGED <<vars, storeVars, faultVars>>

CloseRule(r, elapsed) ==
  LET counted == Counted(r)
      total == MapThenSumSet(LAMBDA t : steps[t], counted)
  IN  \/ total >= TargetSteps /\ elapsed >= MinAge
      \/ elapsed >= MaxAge /\ Cardinality(counted) >= 1

EvaluateProgress(h) ==
  /\ At(h, "progress")
  /\ IF CloseRule(handler[h].idx, handler[h].elapsed)
     THEN Goto(h, [handler[h] EXCEPT !.pc = "claim_close", !.elapsed = 0,
                                     !.restarted = FALSE])
     ELSE GotoPc(h, "reopen_empty")
  /\ UNCHANGED <<vars, storeVars, faultVars>>

\* reopen_empty_round compares opened_at with the now of maybe_close's entry:
\* a round somebody restarted since then has not reached its backstop.
SeenAtBackstop(h) ==
  handler[h].elapsed >= MaxAge /\ ~handler[h].restarted

ReopenEmpty(h) ==
  /\ At(h, "reopen_empty")
  /\ SeenAtBackstop(h)
  /\ ReopenEmptyRound(handler[h].idx)
  /\ handler' = [g \in Handlers |->
                   IF g = h THEN NextLocals(h)
                   ELSE IF handler[g].pc \in {"progress", "reopen_empty"}
                        THEN [handler[g] EXCEPT !.restarted = TRUE]
                        ELSE handler[g]]
  /\ UNCHANGED <<storeVars, faultVars>>

LeaveRound(h) ==
  /\ At(h, "reopen_empty")
  /\ ~(SeenAtBackstop(h) /\ IsEmptyAtBackstop(handler[h].idx))
  /\ AfterMaybeClose(h)
  /\ UNCHANGED <<vars, storeVars, faultVars>>

-----------------------------------------------------------------------------
(* close_round, by the handler that won the conditional UPDATE.            *)

TakeClose(h) ==
  /\ At(h, "claim_close")
  /\ \/ /\ ClaimCloseTxn(handler[h].idx)
        /\ GotoPc(h, "snapshot")
     \/ /\ ~CloseIsFree(handler[h].idx)
        /\ AfterMaybeClose(h)
        /\ UNCHANGED vars
  /\ UNCHANGED <<storeVars, faultVars>>

\* Mutation of Snapshot: with nothing to aggregate, the close returns early.
SnapshotOrLeave(h) ==
  /\ At(h, "snapshot")
  /\ LET subs == Accepted(handler[h].idx) IN
     IF subs = {}
     THEN AfterMaybeClose(h)
     ELSE Goto(h, [handler[h] EXCEPT !.pc = "load", !.kept = subs, !.hasRef = momentumRef])
  /\ UNCHANGED <<vars, storeVars, faultVars>>

\* The submissions to aggregate are those with accepted = 1 now.
Snapshot(h) ==
  /\ At(h, "snapshot")
  /\ Goto(h, [handler[h] EXCEPT !.pc = "load",
                                !.kept = Accepted(handler[h].idx),
                                !.hasRef = momentumRef])
  /\ UNCHANGED <<vars, storeVars, faultVars>>

Reject(h, S, pc) ==
  /\ RecordVerdictTxn(S, "rejected")
  /\ Goto(h, [handler[h] EXCEPT !.pc = pc, !.kept = @ \ S])
  /\ UNCHANGED <<storeVars, faultVars>>

\* Artifacts that went missing since their gate are dropped from the round.
LoadArtifacts(h) ==
  /\ At(h, "load")
  /\ \E missing \in SUBSET handler[h].kept : Reject(h, missing, "norms")

\* Gate 4.  A cohort is at least three; beyond that any of them, even all of
\* them, can have a tensor far over the cohort's median.
CheckNorms(h) ==
  /\ At(h, "norms")
  /\ \E outliers \in SUBSET handler[h].kept :
       /\ outliers # {} => Cardinality(handler[h].kept) >= 3
       /\ Reject(h, outliers, IF handler[h].kept = outliers THEN "finish" ELSE "combine")

\* The outer step, from momentum m.
Combine(h, m) ==
  /\ At(h, "combine")
  /\ Goto(h, [handler[h] EXCEPT !.pc = "put_adapter", !.hasRef = FALSE,
                                !.folds = [m EXCEPT ![handler[h].idx] = @ + 1]])
  /\ UNCHANGED <<vars, storeVars>>

CombineWithMomentum(h) ==
  /\ Combine(h, IF handler[h].hasRef THEN momentum ELSE Zeros)
  /\ UNCHANGED faultVars

\* A momentum that cannot be read is rebuilt from zeros.
CombineWithoutMomentum(h) ==
  /\ handler[h].hasRef
  /\ failures < MaxFailures
  /\ failures' = failures + 1
  /\ Combine(h, Zeros)
  /\ UNCHANGED crashes

\* Mutation of PutAdapter: an object that is already there is kept.
PutAdapterOnce(h) ==
  /\ At(h, "put_adapter")
  /\ adapters' = [adapters EXCEPT ![handler[h].idx] = IF @ = {} THEN handler[h].kept ELSE @]
  /\ GotoPc(h, "put_momentum")
  /\ UNCHANGED <<vars, momentum, momentumRef, faultVars>>

\* Mutation of PutAdapter: the key of the round instead of the round after.
PutAdapterInPlace(h) ==
  /\ At(h, "put_adapter")
  /\ adapters' = [r \in RoundIdx |->
                    IF r + 1 = handler[h].idx THEN handler[h].kept ELSE adapters[r]]
  /\ GotoPc(h, "put_momentum")
  /\ UNCHANGED <<vars, momentum, momentumRef, faultVars>>

\* The adapter goes under the key of (run, round + 1).
PutAdapter(h) ==
  /\ At(h, "put_adapter")
  /\ adapters' = [adapters EXCEPT ![handler[h].idx] = handler[h].kept]
  /\ GotoPc(h, "put_momentum")
  /\ UNCHANGED <<vars, momentum, momentumRef, faultVars>>

\* The momentum object, one per run, is overwritten in place.
PutMomentum(h) ==
  /\ At(h, "put_momentum")
  /\ momentum' = handler[h].folds
  /\ Goto(h, [handler[h] EXCEPT !.pc = "set_momentum_ref", !.folds = Zeros])
  /\ UNCHANGED <<vars, adapters, momentumRef, faultVars>>

\* Mutation of SetMomentumRef: the reference is never written.
ForgetMomentumRef(h) ==
  /\ At(h, "set_momentum_ref")
  /\ GotoPc(h, "finish")
  /\ UNCHANGED <<vars, storeVars, faultVars>>

SetMomentumRef(h) ==
  /\ At(h, "set_momentum_ref")
  /\ momentumRef' = TRUE
  /\ GotoPc(h, "finish")
  /\ UNCHANGED <<vars, adapters, momentum, faultVars>>

Finish(h) ==
  /\ At(h, "finish")
  /\ FinishCloseTxn(handler[h].idx, handler[h].kept)
  /\ GotoPc(h, "advance")
  /\ UNCHANGED <<storeVars, faultVars>>

\* Mutation of Advance: the next round is opened without a result.
AdvanceAnyway(h) ==
  /\ At(h, "advance")
  /\ IF handler[h].idx + 1 < TargetRounds
     THEN OpenRoundTxn(handler[h].idx + 1)
     ELSE FinishRunTxn
  /\ AfterMaybeClose(h)
  /\ UNCHANGED <<storeVars, faultVars>>

\* Mutation of Advance: the run is not marked done.
AdvanceWithoutDone(h) ==
  /\ At(h, "advance")
  /\ IF handler[h].kept # {} /\ handler[h].idx + 1 < TargetRounds
     THEN OpenRoundTxn(handler[h].idx + 1)
     ELSE UNCHANGED vars
  /\ AfterMaybeClose(h)
  /\ UNCHANGED <<storeVars, faultVars>>

\* The throughput estimates are folded in, then the run moves on, if the round
\* produced a result to move on from.
Advance(h) ==
  /\ At(h, "advance")
  /\ CASE handler[h].kept = {} -> UNCHANGED vars
       [] handler[h].kept # {} /\ handler[h].idx + 1 < TargetRounds ->
            OpenRoundTxn(handler[h].idx + 1)
       [] OTHER -> FinishRunTxn
  /\ AfterMaybeClose(h)
  /\ UNCHANGED <<storeVars, faultVars>>

ClosingPcs == {"snapshot", "load", "norms", "combine", "put_adapter",
               "put_momentum", "set_momentum_ref", "finish"}

\* Any step of the close can raise: storage I/O, a locked database, a metric
\* that is not a number.
CloseFails(h) ==
  /\ handler[h].pc \in ClosingPcs \cup {"advance"}
  /\ failures < MaxFailures
  /\ failures' = failures + 1
  /\ Goto(h, [Idle EXCEPT !.pc = "release", !.idx = handler[h].idx])
  /\ UNCHANGED <<vars, storeVars, crashes>>

\* The except branch gives the round back; the exception becomes a 500.
Release(h) ==
  /\ At(h, "release")
  /\ ReopenTxn(handler[h].idx)
  /\ Goto(h, Idle)
  /\ UNCHANGED <<storeVars, faultVars>>

-----------------------------------------------------------------------------
(* Requests of a single transaction, time, and the process itself.         *)

HeartbeatRequest(t, s) == Heartbeat(t, s) /\ UNCHANGED <<handler, storeVars, faultVars>>
AbandonRequest(t) == Abandon(t) /\ UNCHANGED <<handler, storeVars, faultVars>>
LeaseRunsOut(t) == LeaseLapses(t) /\ UNCHANGED <<handler, storeVars, faultVars>>
ClockAdvances == TimePasses /\ UNCHANGED <<handler, storeVars, faultVars>>

\* The process dies and is restarted: every handler is gone, the database and
\* the object store are as its last completed steps left them.
Crash ==
  /\ crashes < MaxCrashes
  /\ \E h \in Handlers : ~At(h, "idle")
  /\ crashes' = crashes + 1
  /\ handler' = [h \in Handlers |-> Idle]
  /\ UNCHANGED <<vars, storeVars, failures>>

\* What a handler does of itself once its request has arrived.
HandlerStep(h) ==
  \/ Gate(h) \/ Lease(h) \/ LeaseNothing(h)
  \/ EvaluateRound(h) \/ EvaluateProgress(h) \/ ReopenEmpty(h) \/ LeaveRound(h)
  \/ TakeClose(h) \/ Snapshot(h) \/ LoadArtifacts(h) \/ CheckNorms(h)
  \/ CombineWithMomentum(h) \/ PutAdapter(h) \/ PutMomentum(h)
  \/ SetMomentumRef(h) \/ Finish(h) \/ Advance(h) \/ Release(h)

CoordinatorNext ==
  \/ \E h \in Handlers :
       \/ HandlerStep(h)
       \/ GateFails(h) \/ CloseFails(h) \/ CombineWithoutMomentum(h)
       \/ \E w \in Workers : StartClaim(h, w)
       \/ \E t \in Tasks, s \in StepCounts : StartSubmit(h, t, s)
  \/ \E t \in Tasks :
       \/ AbandonRequest(t)
       \/ LeaseRunsOut(t)
       \/ \E s \in HeartbeatSteps : HeartbeatRequest(t, s)
  \/ ClockAdvances
  \/ Crash

CoordinatorSpec == CoordinatorInit /\ [][CoordinatorNext]_coordinatorVars

\* A request in progress is not forgotten by its thread, the clock runs, and
\* some worker polls: every loop of ganymede/worker/loop.py that gets no task
\* sleeps and claims again.  Exceptions, submissions and heartbeats need not
\* ever come.
Fairness ==
  /\ \A h \in Handlers : WF_coordinatorVars(HandlerStep(h))
  /\ WF_coordinatorVars(\E h \in Handlers, w \in Workers : StartClaim(h, w))
  /\ WF_coordinatorVars(ClockAdvances)

FairSpec == CoordinatorSpec /\ Fairness

-----------------------------------------------------------------------------
Locals ==
  [pc : {"idle", "gate", "lease", "evaluate", "progress", "reopen_empty",
         "claim_close", "advance", "release"} \cup ClosingPcs,
   worker : Workers \cup {NoWorker},
   gating : SUBSET Tasks,
   idx : RoundIdx,
   elapsed : 0 .. MaxAge,
   restarted : BOOLEAN,
   kept : SUBSET Tasks,
   hasRef : BOOLEAN,
   folds : [RoundIdx -> Nat]]

\* Every local and every object holds a value of its domain.
CoordinatorTypeOK ==
  /\ TypeOK
  /\ handler \in [Handlers -> Locals]
  /\ adapters \in [RoundIdx -> SUBSET Tasks]
  /\ momentum \in [RoundIdx -> Nat]
  /\ momentumRef \in BOOLEAN
  /\ failures \in 0 .. MaxFailures
  /\ crashes \in 0 .. MaxCrashes

Quiet == \A h \in Handlers : At(h, "idle")

\* The handlers inside the close of round r.
Closers(r) == {h \in Handlers : handler[h].pc \in ClosingPcs /\ handler[h].idx = r}

-----------------------------------------------------------------------------
(* Safety, whatever fails.                                                 *)

\* However many handlers find the close rule satisfied at once, one closes:
\* whoever aggregates holds the round in 'closing', and is alone in it
\* (close_round, closer.py:152-168).
SingleCloser ==
  \A r \in RoundIdx :
    /\ Cardinality(Closers(r)) <= 1
    /\ Closers(r) # {} => roundStatus[r] = "closing"

\* The adapter in the store under the key a published round names is the one
\* made of the submissions the round accepted, however many closes of the
\* round failed before, with fewer submissions in hand (closer.py:180-184).
PublishedObjectIsTheResult ==
  \A r \in RoundIdx : result[r] # {} => adapters[r] = result[r]

\* The base adapter of an open round never changes under the workers that
\* train from it and the manifests cached from it (closer.py:44).
BaseNeverChanges ==
  [][\A r \in RoundIdx : roundStatus[r] = "closed" => adapters'[r] = adapters[r]]_coordinatorVars

\* A rejection stands, and an acceptance is withdrawn by nothing but the close
\* of its round: no gate and no close overwrite each other's verdict.
VerdictsStand ==
  [][\A t \in Tasks :
       /\ verdict[t] = "rejected" => verdict'[t] = "rejected"
       /\ verdict[t] = "accepted" /\ verdict'[t] # "accepted" =>
            roundStatus[tasks[t].round] = "closing"]_coordinatorVars

\* Neither an adapter in use nor a verdict is overwritten by a handler that
\* acts on what it read earlier (closer.py:210, rounds.py gate_submission).
NothingIsOverwritten == BaseNeverChanges /\ VerdictsStand

\* Whatever the handlers interleave, and whichever of their steps fail, the
\* database goes only through the transitions of Rounds: the callers keep the
\* promises of the transactions they issue.
ImplementsRounds == Spec

-----------------------------------------------------------------------------
(* Safety, as long as nothing fails.                                       *)

\* A round in 'closing' is being closed by somebody (invariants.py:152).
ClosingIsOwned ==
  \A r \in RoundIdx : roundStatus[r] = "closing" => Closers(r) # {}

\* A submission without a verdict is about to get one, from one handler.
UngatedIsBeingGated ==
  \A t \in Tasks :
    verdict[t] = "ungated" <=>
      Cardinality({h \in Handlers : At(h, "gate") /\ t \in handler[h].gating}) = 1

\* Whatever is in an intermediate state, a round in 'closing' or a submission
\* before its gates, has exactly one handler that will take it out of it
\* (closer.py:152-168, app.py:329-352).
UnfinishedIsOwned == ClosingIsOwned /\ UngatedIsBeingGated

\* The outer step of every published round is in the momentum, once.
MomentumHasEveryRoundOnce ==
  \A r \in RoundIdx :
    /\ momentum[r] <= 1
    /\ result[r] # {} => momentum[r] = 1

\* When the coordinator is quiet, an active run whose round was closed with a
\* result has moved on to the next one: nobody has to repeat the close.
ClosesAreFollowedUp ==
  Quiet /\ runStatus = "active" /\ roundStatus[currentRound] = "closed" =>
    result[currentRound] = {}

-----------------------------------------------------------------------------
(* Liveness, under FairSpec.                                               *)

\* A round does not stay in 'closing' (invariants.py:152).
ClosesEnd ==
  \A r \in RoundIdx : (roundStatus[r] = "closing") ~> (roundStatus[r] # "closing")

\* A round that has reached its backstop is closed or restarted, although
\* nobody may ever submit again: polling for work is enough (app.py:228-240).
BackstopIsActedOn ==
  (roundStatus[currentRound] = "open" /\ age = MaxAge)
    ~> ~(roundStatus[currentRound] = "open" /\ age = MaxAge)

\* Rounds keep moving: no close hangs, and no round outlives its backstop.
RoundsKeepMoving == ClosesEnd /\ BackstopIsActedOn

-----------------------------------------------------------------------------
(* What the repository says and the code does not do.                      *)

\* "A round that closed with accepted work published a result adapter"
\* (invariants.py:200).
ClosedWithWorkHasResult ==
  \A r \in RoundIdx :
    roundStatus[r] = "closed" /\ Accepted(r) # {} => result[r] # {}

=============================================================================
