--------------------------- MODULE FaultFreeProofs ----------------------------
(***************************************************************************)
(* What Coordinator keeps as long as no step raises and the process is not *)
(* restarted, for every number of threads: whatever is unfinished has the  *)
(* thread that will finish it, and every published round is in the         *)
(* momentum once.                                                          *)
(*                                                                         *)
(* CoordinatorInv says that a thread inside a close, a gate or a follow-up *)
(* is right to be there.  This is the converse: for each state that        *)
(* somebody has to leave, somebody is there to leave it.                   *)
(***************************************************************************)
EXTENDS CoordinatorProofs

\* The thread has something that nobody else will take out of its state.
Held(h) == Closing(h) \/ At(h, "advance") \/ At(h, "gate")

GatesHaveOne == \A h \in Handlers : At(h, "gate") => \E t \in Tasks : handler[h].gating = {t}

UngatedIsHeld ==
  \A t \in Tasks : verdict[t] = "ungated" =>
    \E h \in Handlers : At(h, "gate") /\ t \in handler[h].gating

FollowUpIsHeld ==
  runStatus = "active" /\ PublishedBy(currentRound) => \E h \in Handlers : At(h, "advance")

OwnedInv ==
  /\ \A h \in Handlers : ~At(h, "release")
  /\ ClosingIsOwned
  /\ GatesHaveOne
  /\ UngatedIsHeld
  /\ FollowUpIsHeld

\* The outer step of the round has been put: its close is over or about to be.
Folded(r) ==
  \/ result[r] # {}
  \/ \E h \in Handlers :
       /\ handler[h].idx = r
       /\ handler[h].pc \in {"set_momentum_ref", "finish"}
       /\ handler[h].kept # {}

\* The reference is written after the object, and before the close ends.
RefIsTrue ==
  momentumRef \/ momentum = Zeros \/ \E h \in Handlers : At(h, "set_momentum_ref")

FoldsAreTrueOf(h) ==
  /\ handler[h].pc \in {"load", "norms", "combine"} => handler[h].hasRef \/ momentum = Zeros
  /\ handler[h].pc \in {"combine", "put_adapter", "put_momentum", "set_momentum_ref"} =>
       handler[h].kept # {}
  /\ handler[h].pc \in {"put_adapter", "put_momentum"} =>
       handler[h].folds = [momentum EXCEPT ![handler[h].idx] = @ + 1]

MomentumInv ==
  /\ \A r \in RoundIdx : momentum[r] = IF Folded(r) THEN 1 ELSE 0
  /\ RefIsTrue
  /\ \A h \in Handlers : FoldsAreTrueOf(h)

FaultFreeInv == CoordinatorInv /\ OwnedInv /\ MomentumInv

-----------------------------------------------------------------------------
(* Steps.                                                                  *)

\* What a thread does that neither raises nor restarts.
FaultFreeStep ==
  \/ \E h \in Handlers :
       \/ HandlerStep(h)
       \/ \E w \in Workers : StartClaim(h, w)
       \/ \E t \in Tasks, s \in StepCounts : StartSubmit(h, t, s)
  \/ \E t \in Tasks :
       \/ AbandonRequest(t)
       \/ LeaseRunsOut(t)
       \/ \E s \in HeartbeatSteps : HeartbeatRequest(t, s)
  \/ ClockAdvances

\* Without a budget of exceptions and restarts, there are none.
LEMMA OnlyFaultFreeSteps ==
  ASSUME MaxFailures = 0, MaxCrashes = 0, CoordinatorTypeOK, CoordinatorNext
  PROVE  FaultFreeStep
<1>1. ~(failures < MaxFailures) /\ ~(crashes < MaxCrashes)
  BY DEF CoordinatorTypeOK
<1> QED
  BY <1>1 DEF CoordinatorNext, FaultFreeStep, GateFails, CloseFails, CombineWithoutMomentum,
              Crash

\* A thread that holds something keeps it and what it knows of it.
StaysHeld(g) ==
  /\ Held(g) => /\ Held(g)'
                /\ handler'[g].idx = handler[g].idx
                /\ handler'[g].gating = handler[g].gating
  /\ Closing(g) => Closing(g)'
  /\ At(g, "advance") => At(g, "advance")'
  /\ At(g, "gate") <=> At(g, "gate")'
  /\ ~At(g, "release")'

\* Steps between two states that nobody has to leave, or inside a close.
QuietOwned ==
  /\ UNCHANGED <<runStatus, currentRound, roundStatus, result>>
  /\ \A t \in Tasks : verdict'[t] = "ungated" => verdict[t] = "ungated"

\* Nothing loses its owner where everybody keeps what he holds.
LEMMA StaysOwned ==
  ASSUME OwnedInv, QuietOwned, \A g \in Handlers : StaysHeld(g)
  PROVE  OwnedInv'
<1> USE DEF OwnedInv, QuietOwned, StaysHeld, Held
<1>1. ClosingIsOwned'
  BY DEF ClosingIsOwned, Closers, Closing
<1>2. UngatedIsHeld' /\ GatesHaveOne'
  BY DEF UngatedIsHeld, GatesHaveOne
<1>3. FollowUpIsHeld'
  BY DEF FollowUpIsHeld, PublishedBy
<1> QED BY <1>1, <1>2, <1>3

\* Where a step leaves a thread in which the request path moves on.
RequestPcs == {"idle", "lease", "evaluate", "progress", "reopen_empty", "claim_close"}

\* The request path holds nothing, before and after.
LEMMA RequestSteps ==
  ASSUME CoordinatorTypeOK, OwnedInv, NEW h \in Handlers,
         \/ Lease(h) \/ LeaseNothing(h) \/ EvaluateRound(h) \/ EvaluateProgress(h)
         \/ ReopenEmpty(h) \/ LeaveRound(h)
         \/ TakeClose(h) /\ UNCHANGED vars
         \/ \E w \in Workers : StartClaim(h, w)
  PROVE  /\ handler[h].pc \in RequestPcs /\ handler'[h].pc \in RequestPcs
         /\ \A g \in Handlers \ {h} :
              \/ handler'[g] = handler[g]
              \/ handler[g].pc \in RequestPcs /\ handler'[g].pc \in RequestPcs
<1> USE DEF RequestPcs, At
<1>1. \A g \in Handlers : handler[g] \in Locals
  BY DEF CoordinatorTypeOK
<1>2. handler[h].pc \in RequestPcs
  BY DEF Lease, LeaseNothing, EvaluateRound, EvaluateProgress, ReopenEmpty, LeaveRound,
         TakeClose, StartClaim
<1>3. NextLocals(h).pc \in RequestPcs /\ Idle.pc \in RequestPcs
  BY DEF NextLocals, Idle
<1>4. ASSUME NEW l, Goto(h, l), l.pc \in RequestPcs
      PROVE  /\ handler'[h].pc \in RequestPcs
             /\ \A g \in Handlers \ {h} : handler'[g] = handler[g]
  BY <1>4 DEF Goto, CoordinatorTypeOK
<1>5. CASE Lease(h) \/ LeaseNothing(h) \/ LeaveRound(h)
  BY <1>2, <1>3, <1>4, <1>5 DEF Lease, LeaseNothing, LeaveRound, AfterMaybeClose
<1>6. CASE EvaluateRound(h)
  <2>1. [handler[h] EXCEPT !.pc = IF roundStatus[currentRound] = "open"
                                  THEN "progress" ELSE "reopen_empty",
                           !.idx = currentRound, !.elapsed = age].pc \in RequestPcs
    BY <1>1 DEF Locals
  <2> QED BY <1>2, <1>3, <1>4, <1>6, <2>1 DEF EvaluateRound, AfterMaybeClose
<1>7. CASE EvaluateProgress(h)
  <2>1. /\ [handler[h] EXCEPT !.pc = "claim_close", !.elapsed = 0,
                              !.restarted = FALSE].pc \in RequestPcs
        /\ [handler[h] EXCEPT !.pc = "reopen_empty"].pc \in RequestPcs
    BY <1>1 DEF Locals
  <2> QED BY <1>2, <1>4, <1>7, <2>1 DEF EvaluateProgress, GotoPc
<1>8. CASE ReopenEmpty(h)
  <2>1. handler'[h].pc \in RequestPcs
    BY <1>3, <1>8 DEF ReopenEmpty
  <2>2. ASSUME NEW g \in Handlers \ {h}
        PROVE  \/ handler'[g] = handler[g]
               \/ handler[g].pc \in RequestPcs /\ handler'[g].pc \in RequestPcs
    BY <1>1, <1>8 DEF ReopenEmpty, Locals
  <2> QED BY <1>2, <2>1, <2>2
<1>9. CASE TakeClose(h) /\ UNCHANGED vars
  <2>1. ~ClaimCloseTxn(handler[h].idx)
    <3>1. handler[h].idx \in RoundIdx
      BY <1>1 DEF Locals
    <3> QED
      BY <1>9, <3>1
         DEF ClaimCloseTxn, CloseIsFree, vars, roundVars, CoordinatorTypeOK, TypeOK
  <2> QED BY <1>2, <1>3, <1>4, <1>9, <2>1 DEF TakeClose, AfterMaybeClose
<1>10. ASSUME NEW w \in Workers, StartClaim(h, w)
       PROVE  /\ handler'[h].pc \in RequestPcs
              /\ \A g \in Handlers \ {h} : handler'[g] = handler[g]
  <2>1. [Idle EXCEPT !.pc = "evaluate", !.worker = w].pc \in RequestPcs
    BY DEF Idle
  <2> QED BY <1>4, <1>10, <2>1 DEF StartClaim
<1> QED BY <1>2, <1>5, <1>6, <1>7, <1>8, <1>9, <1>10

-----------------------------------------------------------------------------
(* Whatever is unfinished is owned.                                        *)

\* Inside its close a thread keeps what it has taken.
LEMMA CloseSteps ==
  ASSUME CoordinatorTypeOK, NEW h \in Handlers,
         \/ Snapshot(h) \/ LoadArtifacts(h) \/ CheckNorms(h) \/ CombineWithMomentum(h)
         \/ PutAdapter(h) \/ PutMomentum(h) \/ SetMomentumRef(h)
  PROVE  /\ Closing(h) /\ Closing(h)'
         /\ handler'[h].idx = handler[h].idx /\ handler'[h].gating = handler[h].gating
         /\ \A g \in Handlers \ {h} : handler'[g] = handler[g]
         /\ UNCHANGED <<runStatus, currentRound, roundStatus, result>>
         /\ \A t \in Tasks : verdict'[t] = "ungated" => verdict[t] = "ungated"
<1> USE DEF At
<1>1. handler[h] \in Locals
  BY DEF CoordinatorTypeOK
<1>2. ASSUME NEW l, Goto(h, l), l.pc \in ClosingPcs, l.idx = handler[h].idx,
             l.gating = handler[h].gating
      PROVE  /\ Closing(h)'
             /\ handler'[h].idx = handler[h].idx /\ handler'[h].gating = handler[h].gating
             /\ \A g \in Handlers \ {h} : handler'[g] = handler[g]
  BY <1>2 DEF Goto, CoordinatorTypeOK, Closing
<1>3. Closing(h)
  BY DEF Closing, ClosingPcs, Snapshot, LoadArtifacts, CheckNorms, CombineWithMomentum, Combine,
         PutAdapter, PutMomentum, SetMomentumRef
<1>4. /\ UNCHANGED <<runStatus, currentRound, roundStatus, result>>
      /\ \A t \in Tasks : verdict'[t] = "ungated" => verdict[t] = "ungated"
  <2>1. ASSUME UNCHANGED vars
        PROVE  /\ UNCHANGED <<runStatus, currentRound, roundStatus, result>>
               /\ \A t \in Tasks : verdict'[t] = "ungated" => verdict[t] = "ungated"
    BY <2>1 DEF vars, roundVars, submissionVars
  <2>2. ASSUME NEW S, NEW pc, Reject(h, S, pc)
        PROVE  /\ UNCHANGED <<runStatus, currentRound, roundStatus, result>>
               /\ \A t \in Tasks : verdict'[t] = "ungated" => verdict[t] = "ungated"
    BY <2>2 DEF Reject, RecordVerdictTxn, roundVars
  <2> QED
    BY <2>1, <2>2 DEF Snapshot, LoadArtifacts, CheckNorms, CombineWithMomentum, Combine,
                      PutAdapter, PutMomentum, SetMomentumRef
<1>5. ASSUME NEW pc \in ClosingPcs, GotoPc(h, pc)
      PROVE  /\ Closing(h)'
             /\ handler'[h].idx = handler[h].idx /\ handler'[h].gating = handler[h].gating
             /\ \A g \in Handlers \ {h} : handler'[g] = handler[g]
  <2> DEFINE l == [handler[h] EXCEPT !.pc = pc]
  <2>1. l.pc = pc /\ l.idx = handler[h].idx /\ l.gating = handler[h].gating
    BY <1>1 DEF Locals
  <2>2. Goto(h, l)
    BY <1>5 DEF GotoPc
  <2> HIDE DEF l
  <2> QED BY <1>2, <2>1, <2>2
<1>6. ASSUME NEW S, NEW pc \in ClosingPcs, Reject(h, S, pc)
      PROVE  /\ Closing(h)'
             /\ handler'[h].idx = handler[h].idx /\ handler'[h].gating = handler[h].gating
             /\ \A g \in Handlers \ {h} : handler'[g] = handler[g]
  <2> DEFINE l == [handler[h] EXCEPT !.pc = pc, !.kept = @ \ S]
  <2>1. l.pc = pc /\ l.idx = handler[h].idx /\ l.gating = handler[h].gating
    BY <1>1 DEF Locals
  <2>2. Goto(h, l)
    BY <1>6 DEF Reject
  <2> HIDE DEF l
  <2> QED BY <1>2, <2>1, <2>2
<1>7. CASE Snapshot(h)
  <2> DEFINE l == [handler[h] EXCEPT !.pc = "load", !.kept = Accepted(handler[h].idx),
                                     !.hasRef = momentumRef]
  <2>1. l.pc \in ClosingPcs /\ l.idx = handler[h].idx /\ l.gating = handler[h].gating
    BY <1>1 DEF Locals, ClosingPcs
  <2>2. Goto(h, l)
    BY <1>7 DEF Snapshot
  <2> HIDE DEF l
  <2> QED BY <1>2, <1>3, <1>4, <2>1, <2>2
<1>8. CASE LoadArtifacts(h)
  BY <1>3, <1>4, <1>6, <1>8 DEF LoadArtifacts, ClosingPcs
<1>9. CASE CheckNorms(h)
  <2>1. PICK S \in SUBSET handler[h].kept :
          Reject(h, S, IF handler[h].kept = S THEN "finish" ELSE "combine")
    BY <1>9 DEF CheckNorms
  <2> DEFINE pc == IF handler[h].kept = S THEN "finish" ELSE "combine"
  <2>2. pc \in ClosingPcs
    BY DEF ClosingPcs
  <2>3. Reject(h, S, pc)
    BY <2>1
  <2> HIDE DEF pc
  <2> QED BY <1>3, <1>4, <1>6, <2>2, <2>3
<1>10. CASE CombineWithMomentum(h)
  <2>1. PICK m : Combine(h, m)
    BY <1>10 DEF CombineWithMomentum
  <2> DEFINE l == [handler[h] EXCEPT !.pc = "put_adapter", !.hasRef = FALSE,
                                     !.folds = [m EXCEPT ![handler[h].idx] = @ + 1]]
  <2>2. l.pc \in ClosingPcs /\ l.idx = handler[h].idx /\ l.gating = handler[h].gating
    BY <1>1 DEF Locals, ClosingPcs
  <2>3. Goto(h, l)
    BY <2>1 DEF Combine
  <2> HIDE DEF l
  <2> QED BY <1>2, <1>3, <1>4, <2>2, <2>3
<1>11. CASE PutAdapter(h) \/ SetMomentumRef(h)
  BY <1>3, <1>4, <1>5, <1>11 DEF PutAdapter, SetMomentumRef, ClosingPcs
<1>12. CASE PutMomentum(h)
  <2> DEFINE l == [handler[h] EXCEPT !.pc = "set_momentum_ref", !.folds = Zeros]
  <2>1. l.pc \in ClosingPcs /\ l.idx = handler[h].idx /\ l.gating = handler[h].gating
    BY <1>1 DEF Locals, ClosingPcs
  <2>2. Goto(h, l)
    BY <1>12 DEF PutMomentum
  <2> HIDE DEF l
  <2> QED BY <1>2, <1>3, <1>4, <2>1, <2>2
<1> QED BY <1>7, <1>8, <1>9, <1>10, <1>11, <1>12

\* A gate decides the one submission it was called for.
LEMMA GateIsDone ==
  ASSUME CoordinatorInv, OwnedInv, NEW h \in Handlers, Gate(h)
  PROVE  OwnedInv'
<1> USE DEF At
<1>1. CoordinatorTypeOK
  BY DEF CoordinatorInv
<1>2. PICK t \in Tasks : handler[h].gating = {t}
  BY DEF Gate, OwnedInv, GatesHaveOne
<1>3. PICK v \in {"accepted", "rejected"} : GateTxn(t, v)
  BY <1>2 DEF Gate
<1>4. /\ verdict' = [u \in Tasks |-> IF u = t THEN v ELSE verdict[u]]
      /\ UNCHANGED <<runStatus, currentRound, roundStatus, result>>
  BY <1>3 DEF GateTxn, RecordVerdictTxn, roundVars
<1>5. handler[h].pc = "gate" /\ handler'[h].pc = "evaluate"
  BY <1>1 DEF Gate, Goto, Idle, CoordinatorTypeOK
<1>6. \A g \in Handlers \ {h} : handler'[g] = handler[g]
  BY <1>1 DEF Gate, Goto, CoordinatorTypeOK
<1>7. ClosingIsOwned' /\ FollowUpIsHeld' /\ GatesHaveOne'
  BY <1>4, <1>5, <1>6
     DEF OwnedInv, ClosingIsOwned, Closers, ClosingPcs, FollowUpIsHeld, PublishedBy, GatesHaveOne
<1>8. UngatedIsHeld'
  BY <1>2, <1>4, <1>5, <1>6 DEF OwnedInv, UngatedIsHeld
<1>9. \A g \in Handlers : ~At(g, "release")'
  BY <1>5, <1>6 DEF OwnedInv
<1> QED BY <1>7, <1>8, <1>9 DEF OwnedInv

\* A submission comes with the thread that gates it.
LEMMA SubmitIsHeld ==
  ASSUME CoordinatorInv, OwnedInv, NEW h \in Handlers, NEW t \in Tasks, NEW s \in StepCounts,
         StartSubmit(h, t, s)
  PROVE  OwnedInv'
<1> USE DEF At
<1>1. CoordinatorTypeOK
  BY DEF CoordinatorInv
<1>2. /\ handler[h].pc = "idle" /\ handler'[h].pc = "gate" /\ handler'[h].gating = {t}
      /\ \A g \in Handlers \ {h} : handler'[g] = handler[g]
  BY <1>1 DEF StartSubmit, Goto, Idle, CoordinatorTypeOK
<1>3. /\ \A u \in Tasks : u # t => verdict'[u] = verdict[u]
      /\ UNCHANGED <<runStatus, currentRound, roundStatus, result>>
  BY <1>1 DEF StartSubmit, RecordSubmission, roundVars, CoordinatorTypeOK, TypeOK
<1>4. ClosingIsOwned' /\ FollowUpIsHeld' /\ GatesHaveOne'
  BY <1>2, <1>3
     DEF OwnedInv, ClosingIsOwned, Closers, ClosingPcs, FollowUpIsHeld, PublishedBy, GatesHaveOne
<1>5. UngatedIsHeld'
  BY <1>2, <1>3 DEF OwnedInv, UngatedIsHeld
<1>6. \A g \in Handlers : ~At(g, "release")'
  BY <1>2 DEF OwnedInv
<1> QED BY <1>4, <1>5, <1>6 DEF OwnedInv

\* The round is 'closing' for the thread that made it so.
LEMMA TakeIsHeld ==
  ASSUME CoordinatorInv, OwnedInv, NEW h \in Handlers, TakeClose(h), ~UNCHANGED vars
  PROVE  OwnedInv'
<1> USE DEF At
<1>1. CoordinatorTypeOK /\ TypeOK /\ handler[h] \in Locals
  BY DEF CoordinatorInv, CoordinatorTypeOK
<1>2. ClaimCloseTxn(handler[h].idx) /\ GotoPc(h, "snapshot") /\ handler[h].pc = "claim_close"
  BY DEF TakeClose
<1> DEFINE l == [handler[h] EXCEPT !.pc = "snapshot"]
<1>3. l.pc = "snapshot" /\ l.idx = handler[h].idx
  BY <1>1 DEF Locals
<1>4. Goto(h, l)
  BY <1>2 DEF GotoPc
<1> HIDE DEF l
<1>5. /\ handler'[h].pc = "snapshot" /\ handler'[h].idx = handler[h].idx
      /\ \A g \in Handlers \ {h} : handler'[g] = handler[g]
  BY <1>1, <1>3, <1>4 DEF Goto, CoordinatorTypeOK
<1>6. /\ roundStatus' = [roundStatus EXCEPT ![handler[h].idx] = "closing"]
      /\ UNCHANGED <<runStatus, currentRound, result, verdict>>
  BY <1>2 DEF ClaimCloseTxn, submissionVars
<1>7. ClosingIsOwned'
  <2> SUFFICES ASSUME NEW r \in RoundIdx, roundStatus'[r] = "closing"
               PROVE  \E g \in Handlers : handler'[g].pc \in ClosingPcs /\ handler'[g].idx = r
    BY DEF ClosingIsOwned, Closers
  <2>1. CASE r = handler[h].idx
    BY <1>5, <2>1 DEF ClosingPcs
  <2>2. CASE r # handler[h].idx
    <3>1. roundStatus[r] = "closing"
      BY <1>1, <1>6, <2>2 DEF TypeOK
    <3>2. PICK g \in Handlers : handler[g].pc \in ClosingPcs /\ handler[g].idx = r
      BY <3>1 DEF OwnedInv, ClosingIsOwned, Closers
    <3> QED BY <1>5, <2>2, <3>2
  <2> QED BY <2>1, <2>2
<1>8. UngatedIsHeld' /\ GatesHaveOne' /\ FollowUpIsHeld' /\ \A g \in Handlers : ~At(g, "release")'
  BY <1>1, <1>2, <1>5, <1>6
     DEF OwnedInv, UngatedIsHeld, GatesHaveOne, FollowUpIsHeld, PublishedBy, TypeOK
<1> QED BY <1>7, <1>8 DEF OwnedInv

\* The thread that closed a round follows it up.
LEMMA FinishIsHeld ==
  ASSUME CoordinatorInv, OwnedInv, NEW h \in Handlers, Finish(h)
  PROVE  OwnedInv'
<1> USE DEF At
<1>1. CoordinatorTypeOK /\ TypeOK /\ handler[h] \in Locals
  BY DEF CoordinatorInv, CoordinatorTypeOK
<1> DEFINE l == [handler[h] EXCEPT !.pc = "advance"]
<1>2. l.pc = "advance" /\ Goto(h, l) /\ handler[h].pc = "finish"
  BY <1>1 DEF Locals, Finish, GotoPc
<1> HIDE DEF l
<1>3. /\ handler'[h].pc = "advance"
      /\ \A g \in Handlers \ {h} : handler'[g] = handler[g]
  BY <1>1, <1>2 DEF Goto, CoordinatorTypeOK
<1>4. /\ roundStatus' = [roundStatus EXCEPT ![handler[h].idx] = "closed"]
      /\ UNCHANGED verdict
  BY DEF Finish, FinishCloseTxn, submissionVars
<1>5. ClosingIsOwned'
  <2> SUFFICES ASSUME NEW r \in RoundIdx, roundStatus'[r] = "closing"
               PROVE  \E g \in Handlers : handler'[g].pc \in ClosingPcs /\ handler'[g].idx = r
    BY DEF ClosingIsOwned, Closers
  <2>1. roundStatus[r] = "closing" /\ r # handler[h].idx
    BY <1>1, <1>4 DEF TypeOK
  <2>2. PICK g \in Handlers : handler[g].pc \in ClosingPcs /\ handler[g].idx = r
    BY <2>1 DEF OwnedInv, ClosingIsOwned, Closers
  <2> QED BY <1>3, <2>1, <2>2
<1>6. /\ UngatedIsHeld' /\ GatesHaveOne' /\ FollowUpIsHeld'
      /\ \A g \in Handlers : ~At(g, "release")'
  BY <1>2, <1>3, <1>4 DEF OwnedInv, UngatedIsHeld, GatesHaveOne, FollowUpIsHeld
<1> QED BY <1>5, <1>6 DEF OwnedInv

\* What it leaves behind is no longer closed with a result, or done.
LEMMA AdvanceLeavesNothing ==
  ASSUME CoordinatorInv, OwnedInv, NEW h \in Handlers, Advance(h)
  PROVE  OwnedInv'
<1> USE DEF At
<1>1. CoordinatorTypeOK /\ TypeOK /\ handler[h].pc = "advance"
  BY DEF CoordinatorInv, CoordinatorTypeOK, Advance
<1>2. /\ handler[h].idx \in RoundIdx /\ handler[h].idx = currentRound
      /\ result[currentRound] = handler[h].kept
  BY <1>1, OwnerFacts DEF Owns
<1>3. /\ handler'[h].pc \in {"idle", "lease"}
      /\ \A g \in Handlers \ {h} : handler'[g] = handler[g]
  BY <1>1 DEF Advance, AfterMaybeClose, Goto, NextLocals, Idle, CoordinatorTypeOK
<1>4. ASSUME UNCHANGED <<roundStatus, verdict>>, FollowUpIsHeld' PROVE OwnedInv'
  BY <1>1, <1>3, <1>4
     DEF OwnedInv, ClosingIsOwned, Closers, ClosingPcs, UngatedIsHeld, GatesHaveOne
<1>5. CASE handler[h].kept = {}
  <2>1. UNCHANGED vars
    BY <1>5 DEF Advance
  <2> QED
    BY <1>2, <1>4, <1>5, <2>1
       DEF vars, roundVars, submissionVars, FollowUpIsHeld, PublishedBy
<1>6. CASE handler[h].kept # {} /\ ~(handler[h].idx + 1 < TargetRounds)
  <2>1. FinishRunTxn
    BY <1>6 DEF Advance
  <2> QED BY <1>4, <2>1 DEF FinishRunTxn, submissionVars, FollowUpIsHeld
<1>7. CASE handler[h].kept # {} /\ handler[h].idx + 1 < TargetRounds
  <2> DEFINE n == handler[h].idx + 1
  <2>1. OpenRoundTxn(n) /\ n \in RoundIdx
    BY <1>2, <1>7, RoundsAssumption DEF Advance, RoundIdx
  <2>2. /\ roundStatus' = [roundStatus EXCEPT ![n] = "open"] /\ currentRound' = n
        /\ roundStatus[n] = "absent" /\ UNCHANGED verdict
    BY <2>1 DEF OpenRoundTxn, submissionVars
  <2>3. FollowUpIsHeld'
    BY <1>1, <2>1, <2>2 DEF FollowUpIsHeld, PublishedBy, TypeOK
  <2>4. ClosingIsOwned'
    BY <1>1, <1>3, <2>1, <2>2 DEF OwnedInv, ClosingIsOwned, Closers, ClosingPcs, TypeOK
  <2> QED
    BY <1>1, <1>3, <2>2, <2>3, <2>4 DEF OwnedInv, UngatedIsHeld, GatesHaveOne
<1> QED BY <1>5, <1>6, <1>7

\* The transactions that no thread of the model stands for.
LEMMA OtherRequests ==
  ASSUME \/ \E t \in Tasks :
              \/ AbandonRequest(t)
              \/ LeaseRunsOut(t)
              \/ \E s \in HeartbeatSteps : HeartbeatRequest(t, s)
         \/ ClockAdvances
  PROVE  /\ UNCHANGED <<handler, storeVars, result>>
         /\ QuietOwned
BY DEF AbandonRequest, LeaseRunsOut, HeartbeatRequest, ClockAdvances, Abandon, LeaseLapses,
       Heartbeat, TimePasses, QuietOwned, roundVars, submissionVars

\* Neither do a claim and the reads of maybe_close begin or end anything.
LEMMA RequestsAreQuiet ==
  ASSUME NEW h \in Handlers,
         \/ Lease(h) \/ LeaseNothing(h) \/ EvaluateRound(h) \/ EvaluateProgress(h)
         \/ ReopenEmpty(h) \/ LeaveRound(h)
         \/ TakeClose(h) /\ UNCHANGED vars
         \/ \E w \in Workers : StartClaim(h, w)
  PROVE  QuietOwned /\ UNCHANGED storeVars
<1> USE DEF QuietOwned
<1>1. ASSUME UNCHANGED vars PROVE QuietOwned
  BY <1>1 DEF vars, roundVars, submissionVars
<1>2. CASE Lease(h)
  <2>1. PICK t \in Tasks, S \in SUBSET Buckets : ClaimTask(handler[h].worker, t, S)
    BY <1>2 DEF Lease
  <2> QED BY <1>2, <2>1 DEF Lease, ClaimTask, roundVars, submissionVars
<1> QED
  BY <1>1, <1>2 DEF LeaseNothing, EvaluateRound, EvaluateProgress, ReopenEmpty, LeaveRound,
                    TakeClose, StartClaim, ExpireLeases, ReopenEmptyRound, roundVars,
                    submissionVars

\* Every step leaves whatever is unfinished with an owner.
LEMMA OwnedInvStep ==
  ASSUME MaxFailures = 0, MaxCrashes = 0, CoordinatorInv, OwnedInv,
         [CoordinatorNext]_coordinatorVars
  PROVE  OwnedInv'
<1>1. CoordinatorTypeOK
  BY DEF CoordinatorInv
<1>2. ASSUME UNCHANGED handler, QuietOwned PROVE OwnedInv'
  <2>1. \A g \in Handlers : StaysHeld(g)
    BY <1>2 DEF StaysHeld, Held, Closing, At, OwnedInv
  <2> QED BY <1>2, <2>1, StaysOwned
<1>3. CASE UNCHANGED coordinatorVars
  <2>1. QuietOwned /\ UNCHANGED handler
    BY <1>3 DEF coordinatorVars, vars, roundVars, submissionVars, QuietOwned
  <2> QED BY <1>2, <2>1
<1>4. ASSUME NEW h \in Handlers,
             \/ Lease(h) \/ LeaseNothing(h) \/ EvaluateRound(h) \/ EvaluateProgress(h)
             \/ ReopenEmpty(h) \/ LeaveRound(h)
             \/ TakeClose(h) /\ UNCHANGED vars
             \/ \E w \in Workers : StartClaim(h, w)
      PROVE  OwnedInv'
  <2>1. /\ handler[h].pc \in RequestPcs /\ handler'[h].pc \in RequestPcs
        /\ \A g \in Handlers \ {h} :
             \/ handler'[g] = handler[g]
             \/ handler[g].pc \in RequestPcs /\ handler'[g].pc \in RequestPcs
    BY <1>1, <1>4, RequestSteps
  <2>2. \A g \in Handlers : StaysHeld(g)
    BY <2>1 DEF RequestPcs, StaysHeld, Held, Closing, ClosingPcs, At, OwnedInv
  <2> QED BY <1>4, <2>2, RequestsAreQuiet, StaysOwned
<1>5. ASSUME NEW h \in Handlers,
             \/ Snapshot(h) \/ LoadArtifacts(h) \/ CheckNorms(h) \/ CombineWithMomentum(h)
             \/ PutAdapter(h) \/ PutMomentum(h) \/ SetMomentumRef(h)
      PROVE  OwnedInv'
  <2>1. /\ Closing(h) /\ Closing(h)'
        /\ handler'[h].idx = handler[h].idx /\ handler'[h].gating = handler[h].gating
        /\ \A g \in Handlers \ {h} : handler'[g] = handler[g]
        /\ QuietOwned
    BY <1>1, <1>5, CloseSteps DEF QuietOwned
  <2>2. \A g \in Handlers : StaysHeld(g)
    BY <2>1 DEF StaysHeld, Held, Closing, ClosingPcs, At, OwnedInv
  <2> QED BY <2>1, <2>2, StaysOwned
<1>6. ASSUME NEW h \in Handlers, HandlerStep(h) PROVE OwnedInv'
  <2>1. ~Release(h)
    BY DEF Release, OwnedInv
  <2> QED
    BY <1>4, <1>5, <1>6, <2>1, GateIsDone, TakeIsHeld, FinishIsHeld, AdvanceLeavesNothing
       DEF HandlerStep
<1>7. CASE FaultFreeStep
  BY <1>2, <1>4, <1>6, <1>7, SubmitIsHeld, OtherRequests DEF FaultFreeStep
<1> QED BY <1>1, <1>3, <1>7, OnlyFaultFreeSteps

-----------------------------------------------------------------------------
(* The momentum.                                                           *)

\* It stays true where neither it nor a thread that aggregates moves.
LEMMA MomentumStays ==
  ASSUME MomentumInv, UNCHANGED <<momentum, momentumRef, result>>,
         \A g \in Handlers :
           \/ handler'[g] = handler[g]
           \/ handler[g].pc \notin Aggregating /\ handler'[g].pc \notin Aggregating
  PROVE  MomentumInv'
<1> USE DEF Aggregating
<1>1. \A r \in RoundIdx : Folded(r)' <=> Folded(r)
  BY DEF Folded
<1>2. RefIsTrue'
  BY DEF MomentumInv, RefIsTrue, At
<1>3. \A g \in Handlers : FoldsAreTrueOf(g)'
  BY DEF MomentumInv, FoldsAreTrueOf
<1> QED BY <1>1, <1>2, <1>3 DEF MomentumInv

\* Of the thread inside a close: no other is, and its round has no result yet.
LEMMA AggregatesAlone ==
  ASSUME CoordinatorInv, NEW h \in Handlers, Closing(h)
  PROVE  /\ handler[h].idx \in RoundIdx
         /\ result[handler[h].idx] = {}
         /\ \A g \in Handlers \ {h} : ~Closing(g) /\ handler[g].pc \notin Aggregating
<1>1. Owns(h) /\ handler[h].idx \in RoundIdx /\ roundStatus[handler[h].idx] = "closing"
  BY OwnerFacts DEF Owns
<1>2. result[handler[h].idx] = {}
  BY <1>1 DEF CoordinatorInv, DatabaseInv, ChainInv, RoundsFormAChain
<1>3. \A g \in Handlers \ {h} : ~Closing(g)
  BY <1>1 DEF CoordinatorInv, Exclusive, Owns
<1> QED BY <1>1, <1>2, <1>3 DEF Closing, ClosingPcs, Aggregating

\* While it is, whether its round is folded is for this thread to say.
LEMMA FoldedByCloser ==
  ASSUME CoordinatorInv, NEW h \in Handlers, Closing(h)
  PROVE  Folded(handler[h].idx) <=>
           handler[h].pc \in {"set_momentum_ref", "finish"} /\ handler[h].kept # {}
BY AggregatesAlone DEF Folded, Aggregating

\* A step of a close answers for its own round only.
LEMMA CloserMoves ==
  ASSUME CoordinatorInv, MomentumInv, NEW h \in Handlers, Closing(h), UNCHANGED result,
         \A g \in Handlers \ {h} : handler'[g] = handler[g],
         handler'[h].idx = handler[h].idx,
         \A r \in RoundIdx \ {handler[h].idx} : momentum'[r] = momentum[r],
         momentum'[handler[h].idx] =
           IF handler'[h].pc \in {"set_momentum_ref", "finish"} /\ handler'[h].kept # {}
           THEN 1 ELSE 0,
         RefIsTrue', FoldsAreTrueOf(h)'
  PROVE  MomentumInv'
<1>1. /\ result[handler[h].idx] = {} /\ handler[h].idx \in RoundIdx
      /\ \A g \in Handlers \ {h} : handler[g].pc \notin Aggregating
  BY AggregatesAlone
<1>2. ASSUME NEW r \in RoundIdx PROVE momentum'[r] = IF Folded(r)' THEN 1 ELSE 0
  <2>1. CASE r = handler[h].idx
    <3>1. Folded(r)' <=>
            handler'[h].pc \in {"set_momentum_ref", "finish"} /\ handler'[h].kept # {}
      BY <1>1, <2>1 DEF Folded, Aggregating
    <3> QED BY <2>1, <3>1
  <2>2. CASE r # handler[h].idx
    <3>1. Folded(r)' <=> Folded(r)
      BY <2>2 DEF Folded
    <3> QED BY <2>2, <3>1 DEF MomentumInv
  <2> QED BY <2>1, <2>2
<1>3. ASSUME NEW g \in Handlers \ {h} PROVE FoldsAreTrueOf(g)'
  BY <1>1 DEF FoldsAreTrueOf, Aggregating
<1> QED BY <1>2, <1>3 DEF MomentumInv

\* The close begins with what the momentum holds, or with nothing if nothing
\* was ever put.
LEMMA ReadingSteps ==
  ASSUME CoordinatorInv, MomentumInv, NEW h \in Handlers,
         Snapshot(h) \/ LoadArtifacts(h) \/ CheckNorms(h)
  PROVE  MomentumInv'
<1> USE DEF At
<1>1. CoordinatorTypeOK /\ handler[h] \in Locals
  BY DEF CoordinatorInv, CoordinatorTypeOK
<1>2. Closing(h) /\ ~(handler[h].pc \in {"set_momentum_ref", "finish"})
  BY DEF Closing, ClosingPcs, Snapshot, LoadArtifacts, CheckNorms
<1>3. /\ handler'[h].idx = handler[h].idx /\ UNCHANGED <<result, momentum, momentumRef>>
      /\ \A g \in Handlers \ {h} : handler'[g] = handler[g]
  BY <1>1, CloseSteps
     DEF Snapshot, LoadArtifacts, CheckNorms, Reject, storeVars
<1>4. momentum[handler[h].idx] = 0 /\ handler[h].idx \in RoundIdx
  BY <1>2, FoldedByCloser, AggregatesAlone DEF MomentumInv
<1>5. ~At(h, "set_momentum_ref") /\ \A g \in Handlers \ {h} : ~At(g, "set_momentum_ref")
  BY <1>2, AggregatesAlone DEF Aggregating
<1>6. momentumRef \/ momentum = Zeros
  BY <1>5 DEF MomentumInv, RefIsTrue
<1>7. RefIsTrue'
  BY <1>3, <1>6 DEF RefIsTrue, Zeros
<1>8. ASSUME handler'[h].pc \in {"load", "norms", "combine", "finish"},
             handler'[h].pc = "finish" => handler'[h].kept = {},
             handler'[h].pc = "combine" => handler'[h].kept # {},
             handler'[h].hasRef \/ momentum = Zeros
      PROVE  MomentumInv'
  <2>1. FoldsAreTrueOf(h)'
    BY <1>3, <1>8 DEF FoldsAreTrueOf, Zeros
  <2> QED BY <1>2, <1>3, <1>4, <1>7, <1>8, <2>1, CloserMoves
<1>9. CASE Snapshot(h)
  <2> DEFINE l == [handler[h] EXCEPT !.pc = "load", !.kept = Accepted(handler[h].idx),
                                     !.hasRef = momentumRef]
  <2>1. l.pc = "load" /\ l.hasRef = momentumRef
    BY <1>1 DEF Locals
  <2>2. Goto(h, l)
    BY <1>9 DEF Snapshot
  <2> HIDE DEF l
  <2>3. handler'[h] = l
    BY <1>1, <2>2 DEF Goto, CoordinatorTypeOK
  <2> QED BY <1>6, <1>8, <2>1, <2>3
<1>10. ASSUME NEW S, NEW pc, Reject(h, S, pc)
       PROVE  /\ handler'[h].pc = pc /\ handler'[h].kept = handler[h].kept \ S
              /\ handler'[h].hasRef = handler[h].hasRef
  <2> DEFINE l == [handler[h] EXCEPT !.pc = pc, !.kept = @ \ S]
  <2>1. l.pc = pc /\ l.kept = handler[h].kept \ S /\ l.hasRef = handler[h].hasRef
    BY <1>1 DEF Locals
  <2>2. Goto(h, l)
    BY <1>10 DEF Reject
  <2> HIDE DEF l
  <2> QED BY <1>1, <2>1, <2>2 DEF Goto, CoordinatorTypeOK
<1>11. CASE LoadArtifacts(h)
  <2>1. PICK S \in SUBSET handler[h].kept : Reject(h, S, "norms")
    BY <1>11 DEF LoadArtifacts
  <2>2. handler[h].hasRef \/ momentum = Zeros
    BY <1>11 DEF LoadArtifacts, MomentumInv, FoldsAreTrueOf
  <2>3. handler'[h].pc = "norms" /\ handler'[h].hasRef = handler[h].hasRef
    BY <1>10, <2>1
  <2> QED BY <1>8, <2>2, <2>3
<1>12. CASE CheckNorms(h)
  <2>1. PICK S \in SUBSET handler[h].kept :
          Reject(h, S, IF handler[h].kept = S THEN "finish" ELSE "combine")
    BY <1>12 DEF CheckNorms
  <2>2. handler[h].hasRef \/ momentum = Zeros
    BY <1>12 DEF CheckNorms, MomentumInv, FoldsAreTrueOf
  <2>3. /\ handler'[h].pc = (IF handler[h].kept = S THEN "finish" ELSE "combine")
        /\ handler'[h].kept = handler[h].kept \ S
        /\ handler'[h].hasRef = handler[h].hasRef
    BY <1>10, <2>1
  <2>4. CASE handler[h].kept = S
    BY <1>8, <2>2, <2>3, <2>4
  <2>5. CASE handler[h].kept # S
    BY <1>8, <2>2, <2>3, <2>5
  <2> QED BY <2>4, <2>5
<1> QED BY <1>9, <1>11, <1>12

\* The outer step is computed from the momentum that is in the store.
LEMMA CombiningSteps ==
  ASSUME CoordinatorInv, MomentumInv, NEW h \in Handlers,
         CombineWithMomentum(h) \/ PutAdapter(h)
  PROVE  MomentumInv'
<1> USE DEF At
<1>1. CoordinatorTypeOK /\ handler[h] \in Locals
  BY DEF CoordinatorInv, CoordinatorTypeOK
<1>2. Closing(h) /\ ~(handler[h].pc \in {"set_momentum_ref", "finish"})
  BY DEF Closing, ClosingPcs, CombineWithMomentum, Combine, PutAdapter
<1>3. /\ handler'[h].idx = handler[h].idx /\ UNCHANGED <<result, momentum, momentumRef>>
      /\ \A g \in Handlers \ {h} : handler'[g] = handler[g]
  BY <1>1, CloseSteps DEF CombineWithMomentum, Combine, PutAdapter, storeVars
<1>4. momentum[handler[h].idx] = 0 /\ handler[h].idx \in RoundIdx
  BY <1>2, FoldedByCloser, AggregatesAlone DEF MomentumInv
<1>5. RefIsTrue'
  <2>1. momentumRef \/ momentum = Zeros
    BY <1>2, AggregatesAlone DEF MomentumInv, RefIsTrue, Aggregating
  <2> QED BY <1>3, <2>1 DEF RefIsTrue, Zeros
<1>6. handler[h].kept # {}
  BY DEF MomentumInv, FoldsAreTrueOf, CombineWithMomentum, Combine, PutAdapter
<1>7. ASSUME handler'[h].pc \in {"put_adapter", "put_momentum"},
             handler'[h].kept = handler[h].kept,
             handler'[h].folds = [momentum EXCEPT ![handler[h].idx] = @ + 1]
      PROVE  MomentumInv'
  <2>1. FoldsAreTrueOf(h)'
    BY <1>3, <1>6, <1>7 DEF FoldsAreTrueOf
  <2> QED BY <1>2, <1>3, <1>4, <1>5, <1>7, <2>1, CloserMoves
<1>8. CASE CombineWithMomentum(h)
  <2>1. handler[h].hasRef \/ momentum = Zeros
    BY <1>8 DEF CombineWithMomentum, Combine, MomentumInv, FoldsAreTrueOf
  <2>2. Combine(h, momentum)
    BY <1>8, <2>1 DEF CombineWithMomentum
  <2> DEFINE l == [handler[h] EXCEPT !.pc = "put_adapter", !.hasRef = FALSE,
                                     !.folds = [momentum EXCEPT ![handler[h].idx] = @ + 1]]
  <2>3. /\ l.pc = "put_adapter" /\ l.kept = handler[h].kept
        /\ l.folds = [momentum EXCEPT ![handler[h].idx] = @ + 1]
    BY <1>1 DEF Locals
  <2>4. Goto(h, l)
    BY <2>2 DEF Combine
  <2> HIDE DEF l
  <2>5. handler'[h] = l
    BY <1>1, <2>4 DEF Goto, CoordinatorTypeOK
  <2> QED BY <1>7, <2>3, <2>5
<1>9. CASE PutAdapter(h)
  <2> DEFINE l == [handler[h] EXCEPT !.pc = "put_momentum"]
  <2>1. l.pc = "put_momentum" /\ l.kept = handler[h].kept /\ l.folds = handler[h].folds
    BY <1>1 DEF Locals
  <2>2. Goto(h, l)
    BY <1>9 DEF PutAdapter, GotoPc
  <2> HIDE DEF l
  <2>3. handler'[h] = l
    BY <1>1, <2>2 DEF Goto, CoordinatorTypeOK
  <2>4. handler[h].folds = [momentum EXCEPT ![handler[h].idx] = @ + 1]
    BY <1>9 DEF PutAdapter, MomentumInv, FoldsAreTrueOf
  <2> QED BY <1>7, <2>1, <2>3, <2>4
<1> QED BY <1>8, <1>9

\* It is put once, and the reference after it.
LEMMA FoldingSteps ==
  ASSUME CoordinatorInv, MomentumInv, NEW h \in Handlers,
         PutMomentum(h) \/ SetMomentumRef(h)
  PROVE  MomentumInv'
<1> USE DEF At
<1>1. CoordinatorTypeOK /\ handler[h] \in Locals
  BY DEF CoordinatorInv, CoordinatorTypeOK
<1>2. Closing(h) /\ handler[h].idx \in RoundIdx
  BY <1>1 DEF Closing, ClosingPcs, PutMomentum, SetMomentumRef, Locals
<1>3. /\ handler'[h].idx = handler[h].idx /\ UNCHANGED result
      /\ \A g \in Handlers \ {h} : handler'[g] = handler[g]
  BY <1>1, CloseSteps
<1>4. handler[h].kept # {}
  BY DEF MomentumInv, FoldsAreTrueOf, PutMomentum, SetMomentumRef
<1>5. CASE PutMomentum(h)
  <2> DEFINE l == [handler[h] EXCEPT !.pc = "set_momentum_ref", !.folds = Zeros]
  <2>1. l.pc = "set_momentum_ref" /\ l.kept = handler[h].kept
    BY <1>1 DEF Locals
  <2>2. Goto(h, l)
    BY <1>5 DEF PutMomentum
  <2> HIDE DEF l
  <2>3. handler'[h].pc = "set_momentum_ref" /\ handler'[h].kept = handler[h].kept
    BY <1>1, <2>1, <2>2 DEF Goto, CoordinatorTypeOK
  <2>4. momentum' = [momentum EXCEPT ![handler[h].idx] = @ + 1]
    BY <1>5 DEF PutMomentum, MomentumInv, FoldsAreTrueOf
  <2>5. momentum[handler[h].idx] = 0
    BY <1>2, <1>5, FoldedByCloser DEF PutMomentum, MomentumInv
  <2>6. /\ momentum'[handler[h].idx] = 1
        /\ \A r \in RoundIdx \ {handler[h].idx} : momentum'[r] = momentum[r]
    BY <1>1, <1>2, <2>4, <2>5 DEF CoordinatorTypeOK
  <2>7. RefIsTrue' /\ FoldsAreTrueOf(h)'
    BY <1>4, <2>3 DEF RefIsTrue, FoldsAreTrueOf
  <2> QED BY <1>2, <1>3, <1>4, <2>3, <2>6, <2>7, CloserMoves
<1>6. CASE SetMomentumRef(h)
  <2> DEFINE l == [handler[h] EXCEPT !.pc = "finish"]
  <2>1. l.pc = "finish" /\ l.kept = handler[h].kept
    BY <1>1 DEF Locals
  <2>2. Goto(h, l)
    BY <1>6 DEF SetMomentumRef, GotoPc
  <2> HIDE DEF l
  <2>3. handler'[h].pc = "finish" /\ handler'[h].kept = handler[h].kept
    BY <1>1, <2>1, <2>2 DEF Goto, CoordinatorTypeOK
  <2>4. momentum[handler[h].idx] = 1 /\ UNCHANGED momentum
    BY <1>2, <1>4, <1>6, FoldedByCloser DEF SetMomentumRef, MomentumInv
  <2>5. RefIsTrue' /\ FoldsAreTrueOf(h)'
    BY <1>6, <2>3 DEF SetMomentumRef, RefIsTrue, FoldsAreTrueOf
  <2> QED BY <1>2, <1>3, <1>4, <2>3, <2>4, <2>5, CloserMoves
<1> QED BY <1>5, <1>6

\* The round that closes with a result has been folded.
LEMMA FinishingFolds ==
  ASSUME CoordinatorInv, MomentumInv, NEW h \in Handlers, Finish(h)
  PROVE  MomentumInv'
<1> USE DEF At
<1>1. CoordinatorTypeOK /\ TypeOK /\ handler[h] \in Locals /\ handler[h].pc = "finish"
  BY DEF CoordinatorInv, CoordinatorTypeOK, Finish
<1>2. Closing(h) /\ handler[h].idx \in RoundIdx
  BY <1>1 DEF Closing, ClosingPcs, Locals
<1> DEFINE l == [handler[h] EXCEPT !.pc = "advance"]
<1>3. l.pc = "advance" /\ Goto(h, l)
  BY <1>1 DEF Locals, Finish, GotoPc
<1> HIDE DEF l
<1>4. /\ handler'[h].pc = "advance"
      /\ \A g \in Handlers \ {h} : handler'[g] = handler[g]
  BY <1>1, <1>3 DEF Goto, CoordinatorTypeOK
<1>5. /\ result' = [result EXCEPT ![handler[h].idx] = handler[h].kept]
      /\ UNCHANGED <<momentum, momentumRef>>
  BY DEF Finish, FinishCloseTxn, storeVars
<1>6. \A g \in Handlers \ {h} : handler[g].pc \notin Aggregating
  BY <1>2, AggregatesAlone
<1>7. ASSUME NEW r \in RoundIdx PROVE Folded(r)' <=> Folded(r)
  <2>1. CASE r = handler[h].idx
    <3>1. Folded(r) <=> handler[h].kept # {}
      BY <1>1, <1>2, <2>1, FoldedByCloser
    <3>2. result'[r] = handler[h].kept
      BY <1>1, <1>2, <1>5, <2>1 DEF TypeOK
    <3>3. Folded(r)' <=> handler[h].kept # {}
      BY <1>4, <1>6, <3>2 DEF Folded, Aggregating
    <3> QED BY <3>1, <3>3
  <2>2. CASE r # handler[h].idx
    <3>1. result'[r] = result[r]
      BY <1>1, <1>5, <2>2 DEF TypeOK
    <3> QED BY <1>4, <2>2, <3>1 DEF Folded
  <2> QED BY <2>1, <2>2
<1>8. RefIsTrue'
  BY <1>1, <1>4, <1>5 DEF MomentumInv, RefIsTrue
<1>9. \A g \in Handlers : FoldsAreTrueOf(g)'
  BY <1>4, <1>6 DEF FoldsAreTrueOf, Aggregating
<1> QED BY <1>5, <1>7, <1>8, <1>9 DEF MomentumInv

\* Every step keeps every published round in the momentum once.
LEMMA MomentumInvStep ==
  ASSUME MaxFailures = 0, MaxCrashes = 0, CoordinatorInv, OwnedInv, MomentumInv,
         [CoordinatorNext]_coordinatorVars
  PROVE  MomentumInv'
<1> USE DEF At
<1>1. CoordinatorTypeOK
  BY DEF CoordinatorInv
<1>2. CASE UNCHANGED coordinatorVars
  BY <1>2, MomentumStays DEF coordinatorVars, vars, roundVars, storeVars
<1>3. ASSUME NEW h \in Handlers,
             \/ Lease(h) \/ LeaseNothing(h) \/ EvaluateRound(h) \/ EvaluateProgress(h)
             \/ ReopenEmpty(h) \/ LeaveRound(h)
             \/ TakeClose(h) /\ UNCHANGED vars
             \/ \E w \in Workers : StartClaim(h, w)
      PROVE  MomentumInv'
  <2>1. \A g \in Handlers :
          \/ handler'[g] = handler[g]
          \/ handler[g].pc \notin Aggregating /\ handler'[g].pc \notin Aggregating
    BY <1>1, <1>3, RequestSteps DEF RequestPcs, Aggregating
  <2> QED BY <1>3, <2>1, RequestsAreQuiet, MomentumStays DEF QuietOwned, storeVars
<1>4. ASSUME NEW h \in Handlers, NEW l, Goto(h, l), handler[h].pc \notin Aggregating,
             l.pc \notin Aggregating, UNCHANGED <<momentum, momentumRef, result>>
      PROVE  MomentumInv'
  <2>1. \A g \in Handlers :
          \/ handler'[g] = handler[g]
          \/ handler[g].pc \notin Aggregating /\ handler'[g].pc \notin Aggregating
    BY <1>1, <1>4 DEF Goto, CoordinatorTypeOK
  <2> QED BY <1>4, <2>1, MomentumStays
<1>5. ASSUME NEW h \in Handlers, Gate(h) PROVE MomentumInv'
  <2>1. [Idle EXCEPT !.pc = "evaluate"].pc = "evaluate"
    BY DEF Idle
  <2> QED
    BY <1>4, <1>5, <2>1 DEF Gate, GateTxn, RecordVerdictTxn, roundVars, storeVars, Aggregating
<1>6. ASSUME NEW h \in Handlers, TakeClose(h), ~UNCHANGED vars PROVE MomentumInv'
  <2>1. ClaimCloseTxn(handler[h].idx) /\ GotoPc(h, "snapshot") /\ handler[h].pc = "claim_close"
    BY <1>6 DEF TakeClose
  <2>2. [handler[h] EXCEPT !.pc = "snapshot"].pc = "snapshot"
    BY <1>1 DEF CoordinatorTypeOK, Locals
  <2> QED
    BY <1>4, <1>6, <2>1, <2>2 DEF TakeClose, ClaimCloseTxn, GotoPc, storeVars, Aggregating
<1>7. ASSUME NEW h \in Handlers, Advance(h) PROVE MomentumInv'
  <2>1. UNCHANGED vars \/ OpenRoundTxn(handler[h].idx + 1) \/ FinishRunTxn
    <3>1. CASE handler[h].kept = {}
      BY <1>7, <3>1 DEF Advance
    <3>2. CASE handler[h].kept # {} /\ handler[h].idx + 1 < TargetRounds
      BY <1>7, <3>2 DEF Advance
    <3>3. CASE handler[h].kept # {} /\ ~(handler[h].idx + 1 < TargetRounds)
      BY <1>7, <3>3 DEF Advance
    <3> QED BY <3>1, <3>2, <3>3
  <2>2. UNCHANGED <<momentum, momentumRef, result>>
    BY <1>7, <2>1 DEF Advance, OpenRoundTxn, FinishRunTxn, vars, roundVars, storeVars
  <2>3. NextLocals(h).pc \notin Aggregating
    BY DEF NextLocals, Idle, Aggregating
  <2> QED BY <1>4, <1>7, <2>2, <2>3 DEF Advance, AfterMaybeClose, Aggregating
<1>8. ASSUME NEW h \in Handlers, NEW t \in Tasks, NEW s \in StepCounts, StartSubmit(h, t, s)
      PROVE  MomentumInv'
  <2>1. [Idle EXCEPT !.pc = "gate", !.gating = {t}].pc = "gate"
    BY DEF Idle
  <2> QED
    BY <1>4, <1>8, <2>1 DEF StartSubmit, RecordSubmission, roundVars, storeVars, Aggregating
<1>9. ASSUME NEW h \in Handlers, HandlerStep(h) PROVE MomentumInv'
  <2>1. ~Release(h)
    BY DEF Release, OwnedInv
  <2> QED
    BY <1>3, <1>5, <1>6, <1>7, <1>9, <2>1, ReadingSteps, CombiningSteps, FoldingSteps,
       FinishingFolds DEF HandlerStep
<1>10. ASSUME UNCHANGED <<handler, storeVars, result>> PROVE MomentumInv'
  BY <1>10, MomentumStays DEF storeVars
<1>11. CASE FaultFreeStep
  BY <1>3, <1>8, <1>9, <1>10, <1>11, OtherRequests DEF FaultFreeStep
<1> QED BY <1>1, <1>2, <1>11, OnlyFaultFreeSteps

-----------------------------------------------------------------------------
(* The theorems.                                                           *)

\* At the start nothing is unfinished and the momentum is empty.
LEMMA FaultFreeInvInit == CoordinatorInit => OwnedInv /\ MomentumInv
<1> SUFFICES ASSUME CoordinatorInit PROVE OwnedInv /\ MomentumInv
  OBVIOUS
<1>1. \A h \in Handlers : handler[h].pc = "idle"
  BY DEF CoordinatorInit, Idle
<1>2. /\ \A r \in RoundIdx : roundStatus[r] # "closing" /\ result[r] = {}
      /\ \A t \in Tasks : verdict[t] = "none"
      /\ currentRound = 0
      /\ momentum = Zeros
  BY DEF CoordinatorInit, Init
<1>3. OwnedInv
  <2>1. ~PublishedBy(currentRound)
    BY <1>2, RoundsAssumption DEF PublishedBy, RoundIdx
  <2> QED
    BY <1>1, <1>2, <2>1
       DEF OwnedInv, At, ClosingIsOwned, GatesHaveOne, UngatedIsHeld, FollowUpIsHeld
<1>4. MomentumInv
  BY <1>1, <1>2 DEF MomentumInv, Folded, RefIsTrue, FoldsAreTrueOf, Zeros
<1> QED BY <1>3, <1>4

\* Without exceptions and restarts every unfinished state has its owner, and
\* the momentum is what the published rounds put into it.
THEOREM FaultFreeInvariance ==
  ASSUME MaxFailures = 0, MaxCrashes = 0
  PROVE  CoordinatorSpec => []FaultFreeInv
<1>1. CoordinatorInit => FaultFreeInv
  BY CoordinatorInvInit, FaultFreeInvInit DEF FaultFreeInv
<1>2. FaultFreeInv /\ [CoordinatorNext]_coordinatorVars => FaultFreeInv'
  BY CoordinatorInvStep, OwnedInvStep, MomentumInvStep DEF FaultFreeInv
<1> QED BY <1>1, <1>2, PTL DEF CoordinatorSpec

\* A round in 'closing' and a submission before its gates have exactly one
\* thread that will take them out of it (closer.py:152-168, app.py:329-352).
THEOREM UnfinishedHasAnOwner ==
  ASSUME MaxFailures = 0, MaxCrashes = 0
  PROVE  CoordinatorSpec => []UnfinishedIsOwned
<1>1. ASSUME FaultFreeInv PROVE UngatedIsBeingGated
  <2> SUFFICES ASSUME NEW t \in Tasks
               PROVE  verdict[t] = "ungated" <=>
                        Cardinality({h \in Handlers : At(h, "gate") /\ t \in handler[h].gating}) = 1
    BY DEF UngatedIsBeingGated
  <2> DEFINE G == {h \in Handlers : At(h, "gate") /\ t \in handler[h].gating}
  <2>1. \A g, h \in G : g = h
    BY <1>1 DEF FaultFreeInv, CoordinatorInv, Exclusive
  <2>2. G # {} => verdict[t] = "ungated"
    BY <1>1, OwnerFacts DEF FaultFreeInv
  <2>3. verdict[t] = "ungated" => G # {}
    BY <1>1 DEF FaultFreeInv, OwnedInv, UngatedIsHeld
  <2>4. CASE G = {}
    BY <2>3, <2>4, FS_EmptySet
  <2>5. CASE G # {}
    <3>1. PICK h \in G : G = {h}
      BY <2>1, <2>5
    <3>2. Cardinality(G) = 1
      BY <3>1, FS_Singleton
    <3> QED BY <2>2, <2>5, <3>2
  <2> QED BY <2>4, <2>5
<1>2. FaultFreeInv => UnfinishedIsOwned
  BY <1>1 DEF UnfinishedIsOwned, FaultFreeInv, OwnedInv
<1> QED BY <1>2, FaultFreeInvariance, PTL

\* Nobody has to repeat a close: a quiet coordinator has moved on from every
\* round it closed with a result (closer.py:317-328).
THEOREM ClosesFollowedUp ==
  ASSUME MaxFailures = 0, MaxCrashes = 0
  PROVE  CoordinatorSpec => []ClosesAreFollowedUp
<1>1. FaultFreeInv => ClosesAreFollowedUp
  BY DEF FaultFreeInv, OwnedInv, FollowUpIsHeld, PublishedBy, ClosesAreFollowedUp, Quiet, At
<1> QED BY <1>1, FaultFreeInvariance, PTL

\* The outer step of every published round is in the momentum, once
\* (closer.py:269-291).
THEOREM MomentumCounts ==
  ASSUME MaxFailures = 0, MaxCrashes = 0
  PROVE  CoordinatorSpec => []MomentumHasEveryRoundOnce
<1>1. FaultFreeInv => MomentumHasEveryRoundOnce
  BY DEF FaultFreeInv, MomentumInv, Folded, MomentumHasEveryRoundOnce
<1> QED BY <1>1, FaultFreeInvariance, PTL

=============================================================================
