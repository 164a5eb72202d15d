----------------------------- MODULE BackupProofs -----------------------------
(***************************************************************************)
(* Proofs about Backup, for every number of workers, rounds, backups and   *)
(* losses: a coordinator that runs, restored or not, has what its current  *)
(* round needs; a backup beside which nothing closed restores the run it    *)
(* was taken of; and a snapshot that a rehearsal found fit restores.        *)
(***************************************************************************)
EXTENDS Backup, TLAPS

Databases ==
  [round : RoundIdx, status : {"open", "closing", "closed"}, leased : SUBSET Tasks,
   submitted : SUBSET Tasks, results : SUBSET RoundIdx, mref : BOOLEAN, done : BOOLEAN]

Lineages == Seq(Epochs \X RoundIdx)
Objects == Lineages \union {Missing}
Pcs == {"none", "claimed", "result", "momentum", "ref", "closed"}

Rehearsals == [snapshot : 0..MaxBackups, base : Objects, kept : BOOLEAN]

\* TypeOK with the fields that records have, which it does not say.
Types ==
  /\ up \in {"up", "down", "lost"} /\ epoch \in Epochs
  /\ db \in Databases
  /\ close \in [pc : Pcs, momentum : Objects]
  /\ primary \in [object : [Keys -> Objects], subs : SUBSET (RoundIdx \X Tasks)]
  /\ dest \in [object : [Keys -> Objects], snapshots : Seq(Databases)]
  /\ Len(dest.snapshots) <= MaxBackups
  /\ backup \in [pc : {"idle", "refs", "copy"}, refs : SUBSET Keys, calm : BOOLEAN]
  /\ last \in {"none", "torn", "ended", "calm"}
  /\ gc \subseteq RoundIdx \X Tasks
  /\ rehearsed \in Rehearsals

-----------------------------------------------------------------------------
(* Types.                                                                  *)

\* Adapters and the momentum have keys of their own.
LEMMA KeysApart ==
  /\ RoundIdx \subseteq Keys /\ Momentum \in Keys
  /\ \A r \in RoundIdx : r + 1 \in Keys /\ r + 1 # r /\ r # Momentum /\ r + 1 # Momentum
  /\ 0 \in RoundIdx
BY BackupAssumption DEF RoundIdx, Keys, Momentum

\* No lineage is the absent object.
LEMMA MissingIsNone == \A o \in Lineages : o # Missing
<1> SUFFICES ASSUME NEW o \in Lineages, o = Missing PROVE FALSE
  OBVIOUS
<1>1. o[1] = <<-1, -1>> /\ Len(o) = 1
  BY DEF Missing
<1>2. o[1] \in Epochs \X RoundIdx
  BY <1>1 DEF Lineages
<1> QED BY <1>1, <1>2, BackupAssumption DEF Epochs

\* A close adds one step to a lineage.
LEMMA AppendStep ==
  ASSUME Types, NEW o \in Lineages
  PROVE  Append(o, Step) \in Lineages /\ Len(Append(o, Step)) = Len(o) + 1
<1>1. Step \in Epochs \X RoundIdx
  BY DEF Types, Databases, Step
<1> QED BY <1>1 DEF Lineages

\* What a restore finds is an object for each key.
LEMMA CopiedIsTyped ==
  ASSUME Types, NEW d \in Databases
  PROVE  Copied(d) \in [Keys -> Objects]
BY DEF Types, Copied

\* Whatever is reconciled is a database, of the same round and run.
LEMMA ReconciledIsTyped ==
  ASSUME NEW d \in Databases
  PROVE  /\ Reconciled(d) \in Databases
         /\ Reconciled(d).round = d.round /\ Reconciled(d).done = d.done
         /\ Reconciled(d).mref = d.mref
         /\ Reconciled(d).status = IF d.status = "closed" THEN "closed" ELSE "open"
         /\ d.status # "closed" => Reconciled(d).submitted = {}
BY DEF Databases, Reconciled

\* The types hold at the start.
LEMMA TypesInit == Init => Types
<1> SUFFICES ASSUME Init PROVE Types
  OBVIOUS
<1>1. [Empty EXCEPT ![0] = <<>>] \in [Keys -> Objects] /\ Empty \in [Keys -> Objects]
  BY KeysApart DEF Empty, Objects, Lineages
<1>2. Len(<<>>) <= MaxBackups
  BY BackupAssumption
<1>3. 0 \in Epochs /\ 0 \in 0..MaxBackups
  BY BackupAssumption DEF Epochs
<1> QED
  BY <1>1, <1>2, <1>3, KeysApart
     DEF Init, Types, Databases, NoClose, NoBackup, Pcs, Objects

\* A step of the run keeps them.
LEMMA TypesRun ==
  ASSUME Types, (\E w \in Workers : Claim(w)) \/ (\E t \in Tasks : Submit(t)) \/ Close
  PROVE  Types'
<1> USE DEF Types
<1>1. ASSUME NEW w \in Workers, Claim(w) PROVE Types'
  <2>1. <<epoch, w>> \in Tasks
    BY DEF Tasks
  <2>2. db' \in Databases
    BY <1>1, <2>1 DEF Claim, Databases
  <2> QED BY <1>1, <2>2 DEF Claim, NoPut
<1>2. ASSUME NEW t \in Tasks, Submit(t) PROVE Types'
  <2>1. db' \in Databases
    BY <1>2 DEF Submit, Databases
  <2>2. primary' \in [object : [Keys -> Objects], subs : SUBSET (RoundIdx \X Tasks)]
    <3>1. <<db.round, t>> \in RoundIdx \X Tasks
      BY DEF Databases
    <3>2. primary' = [primary EXCEPT !.subs = @ \union {<<db.round, t>>}]
      BY <1>2 DEF Submit
    <3> QED BY <3>1, <3>2
  <2> QED BY <1>2, <2>1, <2>2 DEF Submit
<1>3. ASSUME NEW from, NEW to \in Pcs, Closing(from, to),
             db' \in Databases,
             primary' \in [object : [Keys -> Objects], subs : SUBSET (RoundIdx \X Tasks)],
             UNCHANGED rehearsed
      PROVE  Types'
  BY <1>3 DEF Closing, NoClose, Objects
<1>4. CASE ClaimClose
  <2>1. db' \in Databases
    BY <1>4 DEF ClaimClose, Databases
  <2> QED BY <1>3, <1>4, <2>1 DEF ClaimClose, NoPut, Pcs
<1>5. CASE PutResult
  <2>1. primary.object[db.round] \in Lineages
    BY <1>5, KeysApart DEF PutResult, Databases, Objects
  <2>2. Folded \in Objects
    <3>1. primary.object[Momentum] \in Objects
      BY KeysApart
    <3>2. CASE db.mref /\ primary.object[Momentum] # Missing
      BY <3>1, <3>2, AppendStep DEF Folded, Objects
    <3>3. CASE ~(db.mref /\ primary.object[Momentum] # Missing)
      BY <3>3 DEF Folded, Objects, Lineages, Step, Databases
    <3> QED BY <3>2, <3>3
  <2>3. Append(primary.object[db.round], Step) \in Objects
    BY <2>1, AppendStep DEF Objects
  <2>4. primary' \in [object : [Keys -> Objects], subs : SUBSET (RoundIdx \X Tasks)]
    BY <1>5, <2>3 DEF PutResult, Put
  <2>5. close' \in [pc : Pcs, momentum : Objects]
    BY <1>5, <2>2 DEF PutResult, Pcs
  <2> QED BY <1>5, <2>4, <2>5 DEF PutResult, Put
<1>6. CASE PutMomentum
  <2>1. primary' \in [object : [Keys -> Objects], subs : SUBSET (RoundIdx \X Tasks)]
    BY <1>6 DEF PutMomentum, Put
  <2> QED BY <1>3, <1>6, <2>1 DEF PutMomentum, Put, Pcs
<1>7. CASE SetMomentumRef
  <2>1. db' \in Databases
    BY <1>7 DEF SetMomentumRef, Databases
  <2> QED BY <1>3, <1>7, <2>1 DEF SetMomentumRef, NoPut, Pcs
<1>8. CASE MarkClosed
  <2>1. db' \in Databases
    <3>1. [db EXCEPT !.status = "closed", !.leased = {}] \in Databases
      BY DEF Databases
    <3>2. [db EXCEPT !.status = "closed", !.leased = {},
                     !.results = @ \union {db.round}] \in Databases
      BY DEF Databases
    <3> QED BY <1>8, <3>1, <3>2 DEF MarkClosed
  <2> QED BY <1>3, <1>8, <2>1 DEF MarkClosed, NoPut, Pcs
<1>9. CASE OpenNext
  <2>1. db' \in Databases
    <3>1. db.round + 1 < TargetRounds => db.round + 1 \in RoundIdx
      BY BackupAssumption DEF Databases, RoundIdx
    <3> QED BY <1>9, <3>1 DEF OpenNext, Databases
  <2> QED BY <1>3, <1>9, <2>1 DEF OpenNext, NoPut, Pcs
<1> QED BY <1>1, <1>2, <1>4, <1>5, <1>6, <1>7, <1>8, <1>9 DEF Close

\* So does everything that protects the run, and its loss.
LEMMA TypesElse ==
  ASSUME Types,
         \/ BackupStep \/ ListGarbage \/ DeleteGarbage \/ Disaster
         \/ \E i \in 1..MaxBackups : Restore(i) \/ DryRun(i)
  PROVE  Types'
<1> USE DEF Types
<1>1. CASE Snapshot
  <2>1. /\ dest'.snapshots = Append(dest.snapshots, db) /\ dest'.object = dest.object
        /\ dest' \in [object : [Keys -> Objects], snapshots : Seq(Databases)]
    <3>1. dest' = [dest EXCEPT !.snapshots = Append(@, db)]
      BY <1>1 DEF Snapshot
    <3>2. Append(dest.snapshots, db) \in Seq(Databases)
      OBVIOUS
    <3> QED BY <3>1, <3>2
  <2>2. Len(dest'.snapshots) <= MaxBackups
    BY <1>1, <2>1, BackupAssumption DEF Snapshot
  <2> QED BY <1>1, <2>1, <2>2 DEF Snapshot
<1>2. ASSUME NEW refs \in SUBSET Keys, Copies(refs)
      PROVE  /\ backup' \in [pc : {"idle", "refs", "copy"}, refs : SUBSET Keys, calm : BOOLEAN]
             /\ last' \in {"none", "torn", "ended", "calm"}
  <2>1. CASE refs = {}
    <3>1. NoBackup \in [pc : {"idle", "refs", "copy"}, refs : SUBSET Keys, calm : BOOLEAN]
      BY DEF NoBackup
    <3>2. last' = (IF backup.calm THEN "calm" ELSE "ended") /\ backup' = NoBackup
      BY <1>2, <2>1 DEF Copies
    <3> QED BY <3>1, <3>2
  <2>2. CASE refs # {}
    BY <1>2, <2>2 DEF Copies
  <2> QED BY <2>1, <2>2
<1>3. CASE ReadRefs
  <2>1. LatestResult \union MomentumRef \in SUBSET Keys
    BY KeysApart DEF LatestResult, MomentumRef, Databases
  <2> QED BY <1>2, <1>3, <2>1 DEF ReadRefs, NoPut
<1>4. ASSUME NEW k \in Keys, Copy(k) PROVE Types'
  <2>1. backup.refs \ {k} \in SUBSET Keys
    OBVIOUS
  <2>2. /\ backup' \in [pc : {"idle", "refs", "copy"}, refs : SUBSET Keys, calm : BOOLEAN]
        /\ last' \in {"none", "torn", "ended", "calm"}
    BY <1>2, <1>4, <2>1 DEF Copy
  <2>3. /\ dest' \in [object : [Keys -> Objects], snapshots : Seq(Databases)]
        /\ dest'.snapshots = dest.snapshots
    BY <1>4 DEF Copy
  <2> QED BY <1>4, <2>2, <2>3 DEF Copy, NoPut
<1>5. CASE ListGarbage
  BY <1>5 DEF ListGarbage, NoPut
<1>6. CASE DeleteGarbage
  BY <1>6 DEF DeleteGarbage
<1>7. CASE Disaster
  <2>1. epoch' \in Epochs
    BY <1>7, BackupAssumption DEF Disaster, Epochs
  <2>2. primary' \in [object : [Keys -> Objects], subs : SUBSET (RoundIdx \X Tasks)]
    BY <1>7 DEF Disaster, Empty, Objects
  <2>3. /\ close' \in [pc : Pcs, momentum : Objects]
        /\ backup' \in [pc : {"idle", "refs", "copy"}, refs : SUBSET Keys, calm : BOOLEAN]
    BY <1>7 DEF Disaster, NoClose, NoBackup, Pcs, Objects
  <2>4. rehearsed' \in Rehearsals
    BY <1>7 DEF Disaster, Rehearsals
  <2> QED BY <1>7, <2>1, <2>2, <2>3, <2>4 DEF Disaster
<1>8. ASSUME NEW i \in 1..MaxBackups, Restore(i) PROVE Types'
  <2> DEFINE d == dest.snapshots[i]
  <2>1. d \in Databases
    BY <1>8 DEF Restore
  <2>2. db' \in Databases
    BY <1>8, <2>1, ReconciledIsTyped DEF Restore
  <2>3. primary' \in [object : [Keys -> Objects], subs : SUBSET (RoundIdx \X Tasks)]
    BY <1>8, <2>1, CopiedIsTyped DEF Restore
  <2>4. up' \in {"up", "down", "lost"} /\ rehearsed' \in Rehearsals
    BY <1>8 DEF Restore, Rehearsals, Objects
  <2> QED BY <1>8, <2>2, <2>3, <2>4 DEF Restore
<1>9. ASSUME NEW i \in 1..MaxBackups, DryRun(i) PROVE Types'
  <2>0. /\ i \in DOMAIN dest.snapshots /\ rehearsed' \in {Remembered(i), NoRehearsal}
        /\ UNCHANGED <<up, epoch, db, close, primary, dest, backup, gc, last>>
    BY <1>9 DEF DryRun, Rehearse
  <2>1. dest.snapshots[i] \in Databases
    BY <2>0
  <2>2. Copied(dest.snapshots[i])[dest.snapshots[i].round] \in Objects
    <3>1. \A d \in Databases : d.round \in Keys
      BY KeysApart DEF Databases
    <3> QED BY <2>1, <3>1, CopiedIsTyped
  <2>3. Remembered(i) \in Rehearsals /\ NoRehearsal \in Rehearsals
    BY <2>2, BackupAssumption DEF Remembered, NoRehearsal, Rehearsals, Objects
  <2> QED BY <2>0, <2>3
<1> QED BY <1>1, <1>3, <1>4, <1>5, <1>6, <1>7, <1>8, <1>9 DEF BackupStep

\* Every object and record of the model is of its kind, always.
LEMMA TypesStep == ASSUME Types, [Next]_vars PROVE Types'
<1>1. CASE UNCHANGED vars
  BY <1>1 DEF vars, Types
<1> QED BY <1>1, TypesRun, TypesElse DEF Next

-----------------------------------------------------------------------------
(* What a running coordinator has.                                         *)

\* Key k holds the adapter of k closes, or nothing.
Deep(objects) == \A k \in 0..TargetRounds : objects[k] = Missing \/ Len(objects[k]) = k

\* Only a closed round ends the run, and only a put momentum is referred to.
IsConsistent(d) == d.done => d.status = "closed"

\* A close says how far it is.
CloseIsSound ==
  /\ db.status = "closing" <=> close.pc \in {"claimed", "result", "momentum", "ref"}
  /\ close.pc = "closed" <=> db.status = "closed" /\ ~db.done
  /\ close.pc = "claimed" => db.submitted # {}
  /\ close.pc \in {"result", "momentum", "ref", "closed"} => primary.object[db.round + 1] # Missing

\* Base and artifacts of the current round are in the store, and nothing that
\* is about to be collected is among them.
StoreIsSound ==
  /\ ~db.done => primary.object[db.round] # Missing
  /\ db.status # "closed" => \A t \in db.submitted : <<db.round, t>> \in primary.subs
  /\ \A s \in gc : s[1] < db.round \/ (s[1] = db.round /\ db.status = "closed")

BackupInv ==
  /\ Types
  /\ Deep(primary.object) /\ Deep(dest.object)
  /\ IsConsistent(db) /\ \A i \in DOMAIN dest.snapshots : IsConsistent(dest.snapshots[i])
  /\ up = "up" => CloseIsSound /\ StoreIsSound
  /\ up # "up" => close = NoClose /\ backup = NoBackup /\ gc = {}

-----------------------------------------------------------------------------
(* It stays so.                                                            *)

\* A step of a close leaves it where the next one expects it.
LEMMA CloseFields ==
  ASSUME Types, NEW from, NEW to, Closing(from, to)
  PROVE  /\ up = "up" /\ close.pc = from /\ close'.pc = to
         /\ UNCHANGED <<up, epoch, dest, gc, last, live>>
BY DEF Closing, NoClose

\* What has to be shown of a step of the run.
LEMMA RunStep ==
  ASSUME BackupInv, Types', up = "up", UNCHANGED <<up, dest>>,
         Deep(primary.object)', IsConsistent(db)', CloseIsSound', StoreIsSound'
  PROVE  BackupInv'
BY DEF BackupInv

\* Claims and submissions; the artifact is there before its submission.
LEMMA WorkSteps ==
  ASSUME BackupInv, Types', (\E w \in Workers : Claim(w)) \/ (\E t \in Tasks : Submit(t))
  PROVE  BackupInv'
<1>1. Types /\ db \in Databases
  BY DEF BackupInv, Types
<1>2. up = "up" => CloseIsSound /\ StoreIsSound /\ Deep(primary.object) /\ IsConsistent(db)
  BY DEF BackupInv
<1>3. ASSUME NEW w \in Workers, Claim(w) PROVE BackupInv'
  <2>1. /\ up = "up" /\ UNCHANGED <<up, dest, primary, gc, close>>
        /\ db'.round = db.round /\ db'.status = db.status /\ db'.submitted = db.submitted
        /\ db'.done = db.done
    BY <1>1, <1>3 DEF Claim, NoPut, Databases
  <2>2. Deep(primary.object)' /\ IsConsistent(db)' /\ CloseIsSound' /\ StoreIsSound'
    BY <1>2, <2>1 DEF Deep, IsConsistent, CloseIsSound, StoreIsSound
  <2> QED BY <2>1, <2>2, RunStep
<1>4. ASSUME NEW t \in Tasks, Submit(t) PROVE BackupInv'
  <2>1. /\ up = "up" /\ UNCHANGED <<up, dest, gc, close>>
        /\ db'.round = db.round /\ db'.status = db.status /\ db.status = "open"
        /\ db'.submitted = db.submitted \union {t} /\ db'.done = db.done
    BY <1>1, <1>4 DEF Submit, Databases
  <2>2. /\ primary'.object = primary.object
        /\ primary'.subs = primary.subs \union {<<db.round, t>>}
    BY <1>1, <1>4 DEF Submit, Types
  <2>3. Deep(primary.object)' /\ IsConsistent(db)' /\ CloseIsSound'
    BY <1>2, <2>1, <2>2 DEF Deep, IsConsistent, CloseIsSound
  <2>4. StoreIsSound'
    BY <1>2, <2>1, <2>2 DEF StoreIsSound
  <2> QED BY <2>1, <2>3, <2>4, RunStep
<1> QED BY <1>3, <1>4

\* The steps of a close.
LEMMA CloseStepsKeep ==
  ASSUME BackupInv, Types', Close
  PROVE  BackupInv'
<1>1. Types /\ db \in Databases
  BY DEF BackupInv, Types
<1>2. up = "up" => CloseIsSound /\ StoreIsSound /\ Deep(primary.object) /\ IsConsistent(db)
  BY DEF BackupInv
<1>3. /\ db.round \in RoundIdx /\ db.round \in Keys /\ db.round + 1 \in Keys
      /\ db.round + 1 # db.round /\ db.round # Momentum /\ db.round + 1 # Momentum
      /\ db.round \in 0..TargetRounds /\ Momentum \notin 0..TargetRounds
  BY <1>1, KeysApart, BackupAssumption DEF Databases, RoundIdx, Momentum
<1>4. CASE ClaimClose
  <2>1. /\ up = "up" /\ UNCHANGED <<up, dest, gc, primary>>
        /\ close.pc = "none" /\ close'.pc = "claimed"
    BY <1>1, <1>4, CloseFields DEF ClaimClose, NoPut
  <2>2. /\ db'.round = db.round /\ db'.status = "closing" /\ db'.submitted = db.submitted
        /\ db'.done = db.done /\ db.status = "open" /\ db.submitted # {}
    BY <1>1, <1>4 DEF ClaimClose, Databases
  <2>3. Deep(primary.object)' /\ IsConsistent(db)' /\ CloseIsSound' /\ StoreIsSound'
    BY <1>2, <2>1, <2>2 DEF Deep, IsConsistent, CloseIsSound, StoreIsSound
  <2> QED BY <2>1, <2>3, RunStep
<1>5. CASE PutResult
  <2> DEFINE o == primary.object[db.round]
  <2>1. /\ up = "up" /\ UNCHANGED <<up, dest, gc, db>>
        /\ close.pc = "claimed" /\ close'.pc = "result" /\ o # Missing
    BY <1>5 DEF PutResult
  <2>2. /\ primary'.object = [primary.object EXCEPT ![db.round + 1] = Append(o, Step)]
        /\ primary'.subs = primary.subs
    BY <1>1, <1>5 DEF PutResult, Put, Types
  <2>3. o \in Lineages
    BY <1>1, <1>3, <2>1 DEF Types, Objects
  <2>4. Append(o, Step) # Missing /\ Len(Append(o, Step)) = db.round + 1
    <3>1. Len(o) = db.round
      BY <1>2, <1>3, <2>1 DEF Deep
    <3> QED BY <1>1, <2>3, <3>1, AppendStep, MissingIsNone
  <2>5. /\ primary'.object[db.round + 1] = Append(o, Step)
        /\ \A k \in Keys \ {db.round + 1} : primary'.object[k] = primary.object[k]
    BY <1>1, <1>3, <2>2 DEF Types
  <2>6. Deep(primary.object)'
    BY <1>2, <2>1, <2>4, <2>5 DEF Deep, Keys
  <2>7. CloseIsSound' /\ StoreIsSound' /\ IsConsistent(db)'
    BY <1>2, <1>3, <2>1, <2>2, <2>4, <2>5 DEF CloseIsSound, StoreIsSound, IsConsistent
  <2> QED BY <2>1, <2>6, <2>7, RunStep
<1>6. CASE PutMomentum
  <2>1. /\ up = "up" /\ UNCHANGED <<up, dest, gc, db>>
        /\ close.pc = "result" /\ close'.pc = "momentum"
    BY <1>1, <1>6, CloseFields DEF PutMomentum
  <2>2. /\ primary'.object = [primary.object EXCEPT ![Momentum] = close.momentum]
        /\ primary'.subs = primary.subs
    BY <1>1, <1>6 DEF PutMomentum, Put, Types
  <2>3. \A k \in Keys \ {Momentum} : primary'.object[k] = primary.object[k]
    BY <1>1, <2>2 DEF Types
  <2>4. Deep(primary.object)'
    BY <1>2, <1>3, <2>1, <2>3 DEF Deep, Keys
  <2>5. CloseIsSound' /\ StoreIsSound' /\ IsConsistent(db)'
    BY <1>2, <1>3, <2>1, <2>2, <2>3 DEF CloseIsSound, StoreIsSound, IsConsistent
  <2> QED BY <2>1, <2>4, <2>5, RunStep
<1>7. CASE SetMomentumRef
  <2>1. /\ up = "up" /\ UNCHANGED <<up, dest, gc, primary>>
        /\ close.pc = "momentum" /\ close'.pc = "ref"
    BY <1>1, <1>7, CloseFields DEF SetMomentumRef, NoPut
  <2>2. /\ db'.round = db.round /\ db'.status = db.status /\ db'.submitted = db.submitted
        /\ db'.done = db.done
    BY <1>1, <1>7 DEF SetMomentumRef, Databases
  <2>3. Deep(primary.object)' /\ IsConsistent(db)' /\ CloseIsSound' /\ StoreIsSound'
    BY <1>2, <2>1, <2>2 DEF Deep, IsConsistent, CloseIsSound, StoreIsSound
  <2> QED BY <2>1, <2>3, RunStep
<1>8. CASE MarkClosed
  <2>1. /\ Closing("ref", "closed")
        /\ db' = [db EXCEPT !.status = "closed", !.leased = {}, !.results = @ \union {db.round}]
    <3>1. close.pc = "claimed" /\ up = "up" => Kept # {}
      BY <1>2 DEF CloseIsSound, StoreIsSound, Kept
    <3>2. ~(Kept = {} /\ Closing("claimed", "none"))
      BY <1>1, <3>1, CloseFields
    <3> QED BY <1>8, <3>2 DEF MarkClosed
  <2>2. /\ up = "up" /\ UNCHANGED <<up, dest, gc, primary>>
        /\ close.pc = "ref" /\ close'.pc = "closed"
    BY <1>1, <1>8, <2>1, CloseFields DEF MarkClosed, NoPut
  <2>3. db'.round = db.round /\ db'.status = "closed" /\ db'.done = db.done
    BY <1>1, <2>1 DEF Databases
  <2>4. Deep(primary.object)' /\ IsConsistent(db)' /\ CloseIsSound' /\ StoreIsSound'
    BY <1>2, <2>2, <2>3 DEF Deep, IsConsistent, CloseIsSound, StoreIsSound
  <2> QED BY <2>2, <2>4, RunStep
<1>9. CASE OpenNext
  <2>1. /\ up = "up" /\ UNCHANGED <<up, dest, gc, primary>>
        /\ close.pc = "closed" /\ close'.pc = "none"
    BY <1>1, <1>9, CloseFields DEF OpenNext, NoPut
  <2>2. db.status = "closed" /\ ~db.done /\ primary.object[db.round + 1] # Missing
    BY <1>2, <2>1 DEF CloseIsSound
  <2>3. CASE db.round + 1 < TargetRounds
    <3>1. /\ db'.round = db.round + 1 /\ db'.status = "open" /\ db'.submitted = {}
          /\ db'.done = db.done
      BY <1>1, <1>9, <2>3 DEF OpenNext, Databases
    <3>2. \A s \in gc : s[1] < db'.round
      <4>1. \A s \in gc : s[1] \in Int
        BY <1>1 DEF Types, RoundIdx
      <4> QED BY <1>2, <1>3, <2>1, <3>1, <4>1 DEF StoreIsSound, RoundIdx
    <3>3. Deep(primary.object)' /\ IsConsistent(db)' /\ CloseIsSound' /\ StoreIsSound'
      BY <1>2, <2>1, <2>2, <3>1, <3>2 DEF Deep, IsConsistent, CloseIsSound, StoreIsSound
    <3> QED BY <2>1, <3>3, RunStep
  <2>4. CASE ~(db.round + 1 < TargetRounds)
    <3>1. db'.round = db.round /\ db'.status = db.status /\ db'.done = TRUE
      BY <1>1, <1>9, <2>4 DEF OpenNext, Databases
    <3>2. Deep(primary.object)' /\ IsConsistent(db)' /\ CloseIsSound' /\ StoreIsSound'
      BY <1>2, <2>1, <2>2, <3>1 DEF Deep, IsConsistent, CloseIsSound, StoreIsSound
    <3> QED BY <2>1, <3>2, RunStep
  <2> QED BY <2>3, <2>4
<1> QED BY <1>4, <1>5, <1>6, <1>7, <1>8, <1>9 DEF Close

\* Backup, collection and rehearsal do not touch what the run needs.
LEMMA SideSteps ==
  ASSUME BackupInv, Types',
         BackupStep \/ ListGarbage \/ DeleteGarbage \/ \E i \in 1..MaxBackups : DryRun(i)
  PROVE  BackupInv'
<1>1. Types /\ db \in Databases /\ Deep(primary.object) /\ Deep(dest.object) /\ IsConsistent(db)
  BY DEF BackupInv, Types
<1>2. CASE Snapshot
  <2>1. /\ up = "up" /\ UNCHANGED <<up, db, close, primary, gc>>
        /\ dest'.object = dest.object /\ dest'.snapshots = Append(dest.snapshots, db)
    BY <1>1, <1>2 DEF Snapshot, Types
  <2>2. \A i \in DOMAIN dest'.snapshots : IsConsistent(dest'.snapshots[i])
    <3>1. dest.snapshots \in Seq(Databases) /\ db \in Databases
      BY <1>1 DEF Types
    <3>2. \A i \in DOMAIN Append(dest.snapshots, db) :
            \/ i \in DOMAIN dest.snapshots /\ Append(dest.snapshots, db)[i] = dest.snapshots[i]
            \/ Append(dest.snapshots, db)[i] = db
      BY <3>1
    <3> QED BY <1>1, <2>1, <3>2 DEF BackupInv
  <2>3. (up = "up" => CloseIsSound /\ StoreIsSound)'
    BY <2>1 DEF BackupInv, CloseIsSound, StoreIsSound
  <2> QED BY <1>1, <2>1, <2>2, <2>3 DEF BackupInv, Deep, IsConsistent
<1>3. ASSUME UNCHANGED <<up, db, close, primary, dest, gc>>, up # "up" => UNCHANGED backup
      PROVE  BackupInv'
  BY <1>3 DEF BackupInv, Deep, IsConsistent, CloseIsSound, StoreIsSound
<1>4. CASE ReadRefs \/ \E i \in 1..MaxBackups : DryRun(i)
  BY <1>3, <1>4 DEF ReadRefs, DryRun, Rehearse, NoPut
<1>5. ASSUME NEW k \in Keys, Copy(k) PROVE BackupInv'
  <2>1. /\ up = "up" /\ UNCHANGED <<up, db, close, primary, gc>>
        /\ dest'.snapshots = dest.snapshots
        /\ \A j \in Keys : dest'.object[j] = dest.object[j] \/ dest'.object[j] = primary.object[j]
    BY <1>1, <1>5 DEF Copy, NoPut, Types
  <2>2. Deep(dest.object)'
    BY <1>1, <2>1 DEF Deep, Keys
  <2>3. (up = "up" => CloseIsSound /\ StoreIsSound)'
    BY <2>1 DEF BackupInv, CloseIsSound, StoreIsSound
  <2> QED BY <1>1, <2>1, <2>2, <2>3 DEF BackupInv, Deep, IsConsistent
<1>6. CASE ListGarbage
  <2>1. /\ up = "up" /\ UNCHANGED <<up, db, close, primary, dest>>
        /\ \A s \in gc' : s[1] \in ClosedRounds
    BY <1>6 DEF ListGarbage, NoPut, StaleRounds
  <2>2. \A s \in gc' : s[1] < db.round \/ (s[1] = db.round /\ db.status = "closed")
    <3>1. \A r \in ClosedRounds : r < db.round \/ (r = db.round /\ db.status = "closed")
      BY <1>1 DEF ClosedRounds, Databases, RoundIdx
    <3> QED BY <2>1, <3>1
  <2>3. (up = "up" => CloseIsSound /\ StoreIsSound)'
    BY <2>1, <2>2 DEF BackupInv, CloseIsSound, StoreIsSound
  <2> QED BY <1>1, <2>1, <2>3 DEF BackupInv, Deep, IsConsistent
<1>7. CASE DeleteGarbage
  <2>1. /\ up = "up" /\ UNCHANGED <<up, db, close, dest>> /\ gc' = {}
        /\ primary'.object = primary.object /\ primary'.subs = primary.subs \ gc
    BY <1>1, <1>7 DEF DeleteGarbage, Types, BackupInv
  <2>2. CloseIsSound /\ StoreIsSound
    BY <2>1 DEF BackupInv
  <2>3. StoreIsSound'
    <3>1. db.status # "closed" => \A t \in db.submitted : <<db.round, t>> \notin gc
      BY <1>1, <2>2 DEF StoreIsSound, Databases, RoundIdx
    <3> QED BY <2>1, <2>2, <3>1 DEF StoreIsSound
  <2>4. CloseIsSound'
    BY <2>1, <2>2 DEF CloseIsSound
  <2> QED BY <1>1, <2>1, <2>3, <2>4 DEF BackupInv, Deep, IsConsistent
<1> QED BY <1>2, <1>4, <1>5, <1>6, <1>7 DEF BackupStep

\* The machine is lost, and comes back with what the snapshot refers to.
LEMMA LossSteps ==
  ASSUME BackupInv, Types', Disaster \/ \E i \in 1..MaxBackups : Restore(i)
  PROVE  BackupInv'
<1>1. Types /\ Deep(primary.object) /\ Deep(dest.object) /\ IsConsistent(db)
  BY DEF BackupInv
<1>2. CASE Disaster
  <2>1. /\ up' # "up" /\ UNCHANGED <<db, dest>>
        /\ close' = NoClose /\ backup' = NoBackup /\ gc' = {}
        /\ primary'.object = primary.object \/ primary'.object = Empty
    BY <1>2 DEF Disaster
  <2>2. Deep(primary.object)'
    BY <1>1, <2>1 DEF Deep, Empty, Keys
  <2> QED BY <1>1, <2>1, <2>2 DEF BackupInv, Deep, IsConsistent
<1>3. ASSUME NEW i \in 1..MaxBackups, Restore(i) PROVE BackupInv'
  <2> DEFINE d == dest.snapshots[i]
  <2>1. /\ d \in Databases /\ IsConsistent(d)
        /\ up # "up" /\ close = NoClose /\ backup = NoBackup /\ gc = {}
    BY <1>1, <1>3 DEF Restore, Types, BackupInv
  <2>2. /\ db' = Reconciled(d) /\ primary'.object = Copied(d)
        /\ up' = (IF Fit(d, Copied(d)) THEN "up" ELSE up)
        /\ UNCHANGED <<close, dest, backup, gc>>
    BY <1>1, <1>3 DEF Restore, Types
  <2>3. Deep(primary.object)'
    BY <1>1, <2>2 DEF Deep, Copied, Keys
  <2>4. IsConsistent(db)'
    BY <2>1, <2>2, ReconciledIsTyped DEF IsConsistent
  <2>5. ASSUME up' = "up" PROVE CloseIsSound' /\ StoreIsSound'
    <3>1. Fit(d, Copied(d))
      BY <2>1, <2>2, <2>5
    <3>2. \/ db'.done
          \/ primary'.object[db'.round] # Missing /\ db'.status = "open"
      BY <2>1, <2>2, <3>1, ReconciledIsTyped DEF Fit, Verified
    <3>3. db'.status # "closing" /\ (db'.status # "closed" => db'.submitted = {})
      BY <2>1, <2>2, ReconciledIsTyped
    <3>4. close'.pc = "none" /\ gc' = {}
      BY <2>1, <2>2 DEF NoClose
    <3> QED BY <2>4, <3>2, <3>3, <3>4 DEF CloseIsSound, StoreIsSound, IsConsistent
  <2> QED BY <1>1, <2>1, <2>2, <2>3, <2>4, <2>5 DEF BackupInv, Deep
<1> QED BY <1>2, <1>3

\* The invariant holds at the start.
LEMMA BackupInvInit == Init => BackupInv
<1> SUFFICES ASSUME Init PROVE BackupInv
  OBVIOUS
<1>1. /\ primary.object[0] = <<>>
      /\ \A k \in Keys : k # 0 => primary.object[k] = Missing
      /\ \A k \in Keys : dest.object[k] = Missing
  BY KeysApart DEF Init, Empty
<1>2. Deep(primary.object) /\ Deep(dest.object)
  BY <1>1 DEF Deep, Keys
<1>3. <<>> # Missing
  <2>1. <<>> \in Lineages
    BY DEF Lineages
  <2> QED BY <2>1, MissingIsNone
<1>4. CloseIsSound /\ StoreIsSound /\ IsConsistent(db)
  BY <1>1, <1>3 DEF Init, CloseIsSound, StoreIsSound, IsConsistent, NoClose
<1>5. up = "up" /\ dest.snapshots = << >>
  BY DEF Init
<1> QED BY <1>2, <1>4, <1>5, TypesInit DEF BackupInv

\* Every step keeps it.
LEMMA BackupInvStep == BackupInv /\ [Next]_vars => BackupInv'
<1> SUFFICES ASSUME BackupInv, [Next]_vars PROVE BackupInv'
  OBVIOUS
<1>1. Types'
  BY TypesStep DEF BackupInv
<1>2. CASE UNCHANGED vars
  BY <1>1, <1>2 DEF vars, BackupInv, Deep, IsConsistent, CloseIsSound, StoreIsSound
<1> QED BY <1>1, <1>2, WorkSteps, CloseStepsKeep, SideSteps, LossSteps DEF Next

-----------------------------------------------------------------------------
(* The theorems.                                                           *)

\* Through every close, backup, collection, loss and restore, a coordinator
\* that runs is where its database and its store say it is.
THEOREM BackupInvariance == Spec => []BackupInv
BY BackupInvInit, BackupInvStep, PTL DEF Spec

\* Every table, object and process of the model is of its kind.
THEOREM BackupTypeCorrect == Spec => []TypeOK
<1>1. Types => TypeOK
  <2> SUFFICES ASSUME Types PROVE TypeOK
    OBVIOUS
  <2>1. \A d \in Databases : IsDatabase(d)
    BY DEF Databases, IsDatabase
  <2>2. \A o \in Objects : IsObject(o)
    BY DEF Objects, Lineages, IsObject
  <2> QED BY <2>1, <2>2 DEF Types, TypeOK, Pcs, Rehearsals
<1> QED BY <1>1, BackupInvariance, PTL DEF BackupInv

\* A coordinator that runs has the base of its current round, of as many
\* closes as there are rounds behind it, the artifact of every submission it
\* may aggregate, and a caller for a close in progress, restored or not
\* (restore.py reconcile and _verify, gc.py).
THEOREM RunningRoundIsWhole == Spec => []CurrentRoundIsWhole
<1>1. BackupInv => CurrentRoundIsWhole
  <2> SUFFICES ASSUME BackupInv, up = "up", ~db.done
               PROVE  /\ primary.object[db.round] # Missing
                      /\ Len(primary.object[db.round]) = db.round
                      /\ db.status # "closed" =>
                           \A t \in db.submitted : <<db.round, t>> \in primary.subs
                      /\ db.status # "open" => close.pc # "none"
    BY DEF CurrentRoundIsWhole
  <2>1. CloseIsSound /\ StoreIsSound /\ Deep(primary.object) /\ db \in Databases
    BY DEF BackupInv, Types
  <2>2. db.round \in 0..TargetRounds
    BY <2>1, BackupAssumption DEF Databases, RoundIdx
  <2> QED BY <2>1, <2>2 DEF CloseIsSound, StoreIsSound, Deep, Databases
<1> QED BY <1>1, BackupInvariance, PTL

-----------------------------------------------------------------------------
(* A calm backup is exact.                                                 *)

\* Every round behind the current one has a result, and a momentum.
Bookkept(d) ==
  /\ d.results = IF d.status = "closed" THEN 0..d.round ELSE 0..(d.round - 1)
  /\ d.round > 0 \/ d.status = "closed" => d.mref

\* A momentum that is referred to, or about to be, has been put.
MomentumIsPut ==
  /\ close.pc = "result" => close.momentum # Missing
  /\ db.mref \/ close.pc = "momentum" => primary.object[Momentum] # Missing
  /\ close.pc = "ref" => db.mref

\* A calm backup sees the run its snapshot is of, and has what it no longer
\* has to copy.
BesideNothing ==
  backup.pc # "idle" /\ backup.calm =>
    /\ close.pc = "none"
    /\ db.round = NewestSnapshot.round /\ db.done = NewestSnapshot.done
    /\ live = <<primary.object[db.round], primary.object[Momentum]>>
    /\ backup.pc = "copy" /\ db.round > 0 /\ ~db.done =>
         \A k \in {db.round, Momentum} \ backup.refs : dest.object[k] = primary.object[k]

\* Then it has ended, and the off-box store has what the run had.
CalmIsSaved ==
  /\ backup.pc # "idle" => last = "torn" /\ dest.snapshots # << >>
  /\ last = "calm" /\ NewestSnapshot.round > 0 /\ ~NewestSnapshot.done =>
       live = <<dest.object[NewestSnapshot.round], dest.object[Momentum]>>

\* The first base is never copied, and a lost store has copies only.
OffTheBox ==
  /\ dest.object[0] = Missing /\ 0 \notin backup.refs
  /\ up = "lost" => \A k \in Keys : primary.object[k] \in {Missing, dest.object[k]}

CalmInv ==
  /\ Bookkept(db) /\ \A i \in DOMAIN dest.snapshots : Bookkept(dest.snapshots[i])
  /\ up = "up" => MomentumIsPut
  /\ BesideNothing /\ CalmIsSaved /\ OffTheBox

\* What neither the round, nor a backup, nor an adapter takes part in.
LEMMA CalmKept ==
  ASSUME CalmInv, UNCHANGED <<up, close, dest, backup, last, live>>,
         primary'.object = primary.object,
         db'.round = db.round, db'.status = db.status, db'.done = db.done,
         db'.results = db.results, db'.mref = db.mref
  PROVE  CalmInv'
<1>1. NewestSnapshot' = NewestSnapshot
  BY DEF NewestSnapshot
<1>2. Bookkept(db)' /\ \A i \in DOMAIN dest'.snapshots : Bookkept(dest'.snapshots[i])
  BY DEF CalmInv, Bookkept
<1>3. (up = "up" => MomentumIsPut)'
  BY DEF CalmInv, MomentumIsPut
<1>4. BesideNothing' /\ CalmIsSaved' /\ OffTheBox'
  BY <1>1 DEF CalmInv, BesideNothing, CalmIsSaved, OffTheBox
<1> QED BY <1>2, <1>3, <1>4 DEF CalmInv, Bookkept

\* The round with a result before the current one is the one just before it.
LEMMA LatestIsBase ==
  ASSUME db \in Databases, db.results = 0..(db.round - 1)
  PROVE  /\ db.round > 0 => LatestResult = {db.round}
         /\ 0 \notin LatestResult
<1>1. db.round \in Nat /\ \A r \in db.results : r \in Nat /\ r <= db.round - 1
  BY BackupAssumption DEF Databases, RoundIdx
<1>2. ASSUME db.round > 0 PROVE LatestResult = {db.round}
  <2>1. db.round - 1 \in db.results
    BY <1>1, <1>2
  <2>2. {r \in db.results : \A q \in db.results : q <= r} = {db.round - 1}
    BY <1>1, <2>1
  <2>3. LatestResult = {k + 1 : k \in {db.round - 1}}
    BY <2>2 DEF LatestResult
  <2>4. (db.round - 1) + 1 = db.round
    BY <1>1
  <2> QED BY <2>3, <2>4
<1>3. 0 \notin LatestResult
  <2>1. \A r \in db.results : r + 1 # 0
    BY <1>1
  <2> QED BY <2>1 DEF LatestResult
<1> QED BY <1>2, <1>3

\* A step of a close, beside which no backup is calm.
LEMMA CalmClose ==
  ASSUME BackupInv, CalmInv, Close
  PROVE  CalmInv'
<1>1. /\ Types /\ db \in Databases /\ db.round \in RoundIdx /\ db.round \in Int
      /\ Bookkept(db)
  BY DEF BackupInv, Types, Databases, RoundIdx, CalmInv
<1>2. up = "up" => MomentumIsPut /\ CloseIsSound /\ StoreIsSound
  BY DEF BackupInv, CalmInv
<1>3. ASSUME up = "up", UNCHANGED <<up, dest, last, live>>,
             backup' = [backup EXCEPT !.calm = FALSE],
             Bookkept(db)', MomentumIsPut'
      PROVE  CalmInv'
  <2>1. backup'.pc = backup.pc /\ backup'.refs = backup.refs /\ ~backup'.calm
    BY <1>1, <1>3 DEF Types
  <2>2. BesideNothing'
    BY <2>1 DEF BesideNothing
  <2>3. NewestSnapshot' = NewestSnapshot
    BY <1>3 DEF NewestSnapshot
  <2>4. CalmIsSaved' /\ OffTheBox'
    BY <1>3, <2>1, <2>3 DEF CalmInv, CalmIsSaved, OffTheBox
  <2>5. \A i \in DOMAIN dest'.snapshots : Bookkept(dest'.snapshots[i])
    BY <1>3 DEF CalmInv
  <2> QED BY <1>3, <2>2, <2>4, <2>5 DEF CalmInv, Bookkept
<1>4. ASSUME NEW from, NEW to, Closing(from, to), Bookkept(db)', MomentumIsPut'
      PROVE  CalmInv'
  BY <1>3, <1>4 DEF Closing
<1>5. CASE ClaimClose
  <2>1. Closing("none", "claimed") /\ up = "up" /\ close'.pc = "claimed" /\ primary' = primary
    BY <1>1, <1>5, CloseFields DEF ClaimClose, NoPut
  <2>2. /\ db'.round = db.round /\ db'.results = db.results /\ db'.mref = db.mref
        /\ db.status = "open" /\ db'.status = "closing"
    BY <1>1, <1>5 DEF ClaimClose, Databases
  <2>3. Bookkept(db)' /\ MomentumIsPut'
    BY <1>1, <1>2, <2>1, <2>2 DEF Bookkept, MomentumIsPut
  <2> QED BY <1>4, <2>1, <2>3
<1>6. CASE PutResult
  <2>1. /\ up = "up" /\ UNCHANGED <<up, dest, last, live, db>>
        /\ backup' = [backup EXCEPT !.calm = FALSE]
        /\ close'.pc = "result" /\ close'.momentum = Folded
    BY <1>6 DEF PutResult
  <2>2. Folded # Missing
    <3>1. Momentum \in Keys /\ primary.object[Momentum] \in Objects
      BY <1>1, KeysApart DEF Types
    <3>2. CASE db.mref /\ primary.object[Momentum] # Missing
      BY <1>1, <3>1, <3>2, AppendStep, MissingIsNone DEF Folded, Objects
    <3>3. CASE ~(db.mref /\ primary.object[Momentum] # Missing)
      <4>1. Folded = <<Step>> /\ Step \in Epochs \X RoundIdx
        BY <1>1, <3>3 DEF Folded, Step, Types
      <4>2. <<Step>> \in Lineages
        BY <4>1 DEF Lineages
      <4> QED BY <4>1, <4>2, MissingIsNone
    <3> QED BY <3>2, <3>3
  <2>3. primary'.object[Momentum] = primary.object[Momentum]
    BY <1>1, <1>6, KeysApart DEF PutResult, Put, Types
  <2>4. Bookkept(db)' /\ MomentumIsPut'
    BY <1>1, <1>2, <2>1, <2>2, <2>3 DEF Bookkept, MomentumIsPut
  <2> QED BY <1>3, <2>1, <2>4
<1>7. CASE PutMomentum
  <2>1. /\ Closing("result", "momentum") /\ up = "up" /\ close.pc = "result"
        /\ close'.pc = "momentum" /\ db' = db
    BY <1>1, <1>7, CloseFields DEF PutMomentum
  <2>2. primary'.object[Momentum] = close.momentum
    BY <1>1, <1>7, KeysApart DEF PutMomentum, Put, Types
  <2>3. Bookkept(db)' /\ MomentumIsPut'
    BY <1>1, <1>2, <2>1, <2>2 DEF Bookkept, MomentumIsPut
  <2> QED BY <1>4, <2>1, <2>3
<1>8. CASE SetMomentumRef
  <2>1. /\ Closing("momentum", "ref") /\ up = "up" /\ close.pc = "momentum"
        /\ close'.pc = "ref" /\ primary' = primary
    BY <1>1, <1>8, CloseFields DEF SetMomentumRef, NoPut
  <2>2. /\ db'.round = db.round /\ db'.results = db.results /\ db'.mref = TRUE
        /\ db'.status = db.status
    BY <1>1, <1>8 DEF SetMomentumRef, Databases
  <2>3. Bookkept(db)' /\ MomentumIsPut'
    BY <1>1, <1>2, <2>1, <2>2 DEF Bookkept, MomentumIsPut
  <2> QED BY <1>4, <2>1, <2>3
<1>9. CASE MarkClosed
  <2>1. /\ Closing("ref", "closed")
        /\ db' = [db EXCEPT !.status = "closed", !.leased = {}, !.results = @ \union {db.round}]
    <3>1. close.pc = "claimed" /\ up = "up" => Kept # {}
      BY <1>2 DEF CloseIsSound, StoreIsSound, Kept
    <3>2. ~(Kept = {} /\ Closing("claimed", "none"))
      BY <1>1, <3>1, CloseFields
    <3> QED BY <1>9, <3>2 DEF MarkClosed
  <2>2. up = "up" /\ close.pc = "ref" /\ close'.pc = "closed" /\ primary' = primary
    BY <1>1, <1>9, <2>1, CloseFields DEF MarkClosed, NoPut
  <2>3. /\ db'.round = db.round /\ db'.results = db.results \union {db.round}
        /\ db'.mref = db.mref /\ db'.status = "closed" /\ db.status = "closing"
    BY <1>1, <1>2, <2>1, <2>2 DEF Databases, CloseIsSound
  <2>4. db'.results = 0..db.round
    BY <1>1, <2>3, BackupAssumption DEF Bookkept, RoundIdx
  <2>5. Bookkept(db)' /\ MomentumIsPut'
    BY <1>1, <1>2, <2>2, <2>3, <2>4 DEF Bookkept, MomentumIsPut
  <2> QED BY <1>4, <2>1, <2>5
<1>10. CASE OpenNext
  <2>1. Closing("closed", "none") /\ up = "up" /\ close.pc = "closed"
        /\ close'.pc = "none" /\ primary' = primary
    BY <1>1, <1>10, CloseFields DEF OpenNext, NoPut
  <2>2. db.status = "closed" /\ db.results = 0..db.round /\ db.mref
    BY <1>1, <1>2, <2>1 DEF CloseIsSound, Bookkept
  <2>3. /\ db'.results = db.results /\ db'.mref = db.mref
        /\ \/ db'.round = db.round + 1 /\ db'.status = "open"
           \/ db'.round = db.round /\ db'.status = "closed"
    BY <1>1, <1>10, <2>2 DEF OpenNext, Databases
  <2>4. Bookkept(db)' /\ MomentumIsPut'
    BY <1>1, <1>2, <2>1, <2>2, <2>3 DEF Bookkept, MomentumIsPut
  <2> QED BY <1>4, <2>1, <2>4
<1> QED BY <1>5, <1>6, <1>7, <1>8, <1>9, <1>10 DEF Close

\* The backup itself.
LEMMA CalmBackup ==
  ASSUME BackupInv, CalmInv, Types', BackupStep
  PROVE  CalmInv'
<1>1. /\ Types /\ db \in Databases /\ db.round \in RoundIdx /\ db.round \in Nat
      /\ Bookkept(db) /\ 0 # Momentum /\ Momentum \in Keys /\ db.round \in Keys
  BY KeysApart, BackupAssumption DEF BackupInv, Types, Databases, RoundIdx, CalmInv, Momentum
<1>2. CASE Snapshot
  <2>1. /\ up = "up" /\ UNCHANGED <<up, db, close, primary>>
        /\ dest'.object = dest.object /\ dest'.snapshots = Append(dest.snapshots, db)
        /\ backup' = [pc |-> "refs", refs |-> {}, calm |-> close.pc = "none"]
        /\ last' = "torn" /\ live' = <<primary.object[db.round], primary.object[Momentum]>>
    BY <1>1, <1>2 DEF Snapshot, Types
  <2>2. dest.snapshots \in Seq(Databases)
    BY <1>1 DEF Types
  <2>3. NewestSnapshot' = db /\ dest'.snapshots # << >>
    BY <1>1, <2>1, <2>2 DEF NewestSnapshot
  <2>4. \A i \in DOMAIN dest'.snapshots : Bookkept(dest'.snapshots[i])
    <3>1. \A i \in DOMAIN Append(dest.snapshots, db) :
            \/ i \in DOMAIN dest.snapshots /\ Append(dest.snapshots, db)[i] = dest.snapshots[i]
            \/ Append(dest.snapshots, db)[i] = db
      BY <1>1, <2>2
    <3> QED BY <1>1, <2>1, <3>1 DEF CalmInv
  <2>5. BesideNothing' /\ CalmIsSaved'
    BY <2>1, <2>3 DEF BesideNothing, CalmIsSaved
  <2>6. (up = "up" => MomentumIsPut)' /\ OffTheBox' /\ Bookkept(db)'
    BY <1>1, <2>1 DEF CalmInv, MomentumIsPut, OffTheBox
  <2> QED BY <2>4, <2>5, <2>6 DEF CalmInv, Bookkept
<1>3. ASSUME UNCHANGED <<up, db, close, primary, live>>, up = "up",
             dest'.snapshots = dest.snapshots, dest'.object[0] = Missing,
             0 \notin backup'.refs, BesideNothing', CalmIsSaved'
      PROVE  CalmInv'
  <2>1. (up = "up" => MomentumIsPut)' /\ OffTheBox' /\ Bookkept(db)'
    BY <1>1, <1>3 DEF CalmInv, MomentumIsPut, OffTheBox
  <2>2. \A i \in DOMAIN dest'.snapshots : Bookkept(dest'.snapshots[i])
    BY <1>3 DEF CalmInv
  <2> QED BY <1>3, <2>1, <2>2 DEF CalmInv, Bookkept
<1>4. ASSUME backup.pc # "idle", backup.calm, up = "up", ~db.done
      PROVE  /\ db.status = "open" /\ db.results = 0..(db.round - 1)
             /\ db.round > 0 => /\ db.mref /\ primary.object[Momentum] # Missing
                                /\ primary.object[db.round] # Missing
  <2>1. close.pc = "none" /\ CloseIsSound /\ StoreIsSound /\ MomentumIsPut
    BY <1>4 DEF CalmInv, BesideNothing, BackupInv
  <2>2. db.status = "open"
    BY <1>1, <1>4, <2>1 DEF CloseIsSound, Databases
  <2> QED BY <1>1, <1>4, <2>1, <2>2 DEF Bookkept, StoreIsSound, MomentumIsPut
<1>5. backup.pc # "idle" => dest.snapshots # << >> /\ last = "torn"
  BY DEF CalmInv, CalmIsSaved
<1>6. dest'.snapshots = dest.snapshots => NewestSnapshot' = NewestSnapshot
  BY DEF NewestSnapshot
<1>7. CASE ReadRefs
  <2> DEFINE refs == LatestResult \union MomentumRef
  <2>1. /\ up = "up" /\ backup.pc = "refs" /\ Copies(refs)
        /\ UNCHANGED <<up, db, close, primary, dest, live>>
    BY <1>7 DEF ReadRefs, NoPut
  <2>2. 0 \notin refs
    <3>1. db.status # "closed" => db.results = 0..(db.round - 1)
      BY <1>1 DEF Bookkept
    <3>2. \A r \in db.results : r + 1 # 0
      BY <1>1 DEF Databases, RoundIdx
    <3> QED BY <1>1, <3>2 DEF LatestResult, MomentumRef
  <2>3. ASSUME backup.calm, db.round > 0, ~db.done PROVE {db.round, Momentum} \subseteq refs
    BY <1>1, <1>4, <2>1, <2>3, LatestIsBase DEF MomentumRef
  <2>4. CASE refs = {}
    <3>1. backup' = NoBackup /\ last' = (IF backup.calm THEN "calm" ELSE "ended")
      BY <2>1, <2>4 DEF Copies
    <3>2. backup.calm => db.round = NewestSnapshot.round /\ db.done = NewestSnapshot.done
      BY <2>1 DEF CalmInv, BesideNothing
    <3>3. CalmIsSaved'
      BY <1>6, <2>1, <2>3, <2>4, <3>1, <3>2 DEF CalmIsSaved, NoBackup
    <3> QED BY <1>3, <2>1, <2>2, <3>1, <3>3 DEF BesideNothing, NoBackup, CalmInv, OffTheBox
  <2>5. CASE refs # {}
    <3>1. /\ backup'.pc = "copy" /\ backup'.refs = refs /\ backup'.calm = backup.calm
          /\ last' = last
      BY <1>1, <2>1, <2>5 DEF Copies, Types
    <3>2. BesideNothing'
      BY <1>6, <2>1, <2>3, <3>1 DEF CalmInv, BesideNothing
    <3>3. CalmIsSaved'
      BY <1>5, <2>1, <3>1 DEF CalmIsSaved
    <3> QED BY <1>3, <2>1, <2>2, <3>1, <3>2, <3>3 DEF CalmInv, OffTheBox
  <2> QED BY <2>4, <2>5
<1>8. ASSUME NEW k \in Keys, Copy(k) PROVE CalmInv'
  <2> DEFINE refs == backup.refs \ {k}
  <2>1. /\ up = "up" /\ backup.pc = "copy" /\ k \in backup.refs /\ Copies(refs)
        /\ UNCHANGED <<up, db, close, primary, live>>
    BY <1>8 DEF Copy, NoPut
  <2>2. /\ dest'.snapshots = dest.snapshots
        /\ \A j \in Keys \ {k} : dest'.object[j] = dest.object[j]
        /\ primary.object[k] # Missing => dest'.object[k] = primary.object[k]
    BY <1>1, <1>8 DEF Copy, Types
  <2>3. 0 \notin backup.refs /\ k # 0 /\ dest'.object[0] = Missing
    <3>1. 0 \notin backup.refs /\ k # 0 /\ dest.object[0] = Missing
      BY <2>1 DEF CalmInv, OffTheBox
    <3>2. 0 \in Keys
      BY KeysApart
    <3> QED BY <2>2, <3>1, <3>2
  <2>4. ASSUME backup.calm, db.round > 0, ~db.done
        PROVE  \A j \in {db.round, Momentum} \ refs : dest'.object[j] = primary.object[j]
    <3>1. \A j \in {db.round, Momentum} \ backup.refs : dest.object[j] = primary.object[j]
      BY <2>1, <2>4 DEF CalmInv, BesideNothing
    <3>2. primary.object[db.round] # Missing /\ primary.object[Momentum] # Missing
      BY <1>4, <2>1, <2>4
    <3> QED BY <1>1, <2>2, <3>1, <3>2
  <2>5. backup.calm => /\ db.round = NewestSnapshot.round /\ db.done = NewestSnapshot.done
                       /\ live = <<primary.object[db.round], primary.object[Momentum]>>
                       /\ close.pc = "none"
    BY <2>1 DEF CalmInv, BesideNothing
  <2>6. CASE refs = {}
    <3>1. backup' = NoBackup /\ last' = (IF backup.calm THEN "calm" ELSE "ended")
      BY <2>1, <2>6 DEF Copies
    <3>2. CalmIsSaved'
      BY <1>6, <2>1, <2>2, <2>4, <2>5, <2>6, <3>1 DEF CalmIsSaved, NoBackup
    <3> QED BY <1>3, <2>1, <2>2, <2>3, <3>1, <3>2 DEF BesideNothing, NoBackup
  <2>7. CASE refs # {}
    <3>1. /\ backup'.pc = "copy" /\ backup'.refs = refs /\ backup'.calm = backup.calm
          /\ last' = last
      BY <1>1, <2>1, <2>7 DEF Copies, Types
    <3>2. BesideNothing'
      BY <1>6, <2>1, <2>2, <2>4, <2>5, <3>1 DEF BesideNothing
    <3>3. CalmIsSaved'
      BY <1>5, <2>1, <2>2, <3>1 DEF CalmIsSaved
    <3> QED BY <1>3, <2>1, <2>2, <2>3, <3>1, <3>2, <3>3
  <2> QED BY <2>6, <2>7
<1> QED BY <1>2, <1>7, <1>8 DEF BackupStep

\* The loss of the machine, and what a restore makes of it.
LEMMA CalmLoss ==
  ASSUME BackupInv, CalmInv, Disaster \/ \E i \in 1..MaxBackups : Restore(i)
  PROVE  CalmInv'
<1>1. Types /\ db \in Databases
  BY DEF BackupInv, Types
<1>2. ASSUME backup' = NoBackup, UNCHANGED <<dest, last, live>>, Bookkept(db)',
             (up = "up" => MomentumIsPut)',
             (up = "lost" => \A k \in Keys : primary.object[k] \in {Missing, dest.object[k]})'
      PROVE  CalmInv'
  <2>1. NewestSnapshot' = NewestSnapshot /\ backup'.pc = "idle" /\ backup'.refs = {}
    BY <1>2 DEF NewestSnapshot, NoBackup
  <2>2. BesideNothing' /\ CalmIsSaved' /\ OffTheBox'
    BY <1>2, <2>1 DEF CalmInv, BesideNothing, CalmIsSaved, OffTheBox
  <2>3. \A i \in DOMAIN dest'.snapshots : Bookkept(dest'.snapshots[i])
    BY <1>2 DEF CalmInv
  <2> QED BY <1>2, <2>2, <2>3 DEF CalmInv, Bookkept
<1>3. CASE Disaster
  <2>1. /\ up' # "up" /\ UNCHANGED <<db, dest, last, live>> /\ backup' = NoBackup
        /\ up' = "lost" => primary'.object = Empty
    BY <1>3 DEF Disaster
  <2> QED BY <1>2, <2>1 DEF CalmInv, Bookkept, Empty
<1>4. ASSUME NEW i \in 1..MaxBackups, Restore(i) PROVE CalmInv'
  <2> DEFINE d == dest.snapshots[i]
  <2>1. /\ d \in Databases /\ Bookkept(d) /\ up # "up"
        /\ close = NoClose /\ backup = NoBackup
    BY <1>1, <1>4 DEF Restore, Types, BackupInv, CalmInv
  <2>2. /\ db' = Reconciled(d) /\ primary'.object = Copied(d)
        /\ up' = (IF Fit(d, Copied(d)) THEN "up" ELSE up)
        /\ UNCHANGED <<close, dest, backup, last, live>>
    BY <1>1, <1>4 DEF Restore, Types
  <2>3. Bookkept(db)'
    <3>1. Reconciled(d).results = d.results
      BY <2>1 DEF Reconciled, Databases
    <3> QED BY <2>1, <2>2, <3>1, ReconciledIsTyped DEF Bookkept
  <2>4. (up = "up" => MomentumIsPut)'
    <3>1. up' = "up" /\ d.mref => Copied(d)[Momentum] # Missing
      BY <2>1, <2>2 DEF Fit, InNeitherStore, Referenced
    <3> QED BY <2>1, <2>2, <3>1, ReconciledIsTyped DEF MomentumIsPut, NoClose
  <2>5. (up = "lost" => \A k \in Keys : primary.object[k] \in {Missing, dest.object[k]})'
    <3>1. up' = "lost" => \A k \in Keys : primary.object[k] \in {Missing, dest.object[k]}
      BY <2>1, <2>2 DEF CalmInv, OffTheBox
    <3> QED BY <2>2, <3>1 DEF Copied
  <2> QED BY <1>2, <2>1, <2>2, <2>3, <2>4, <2>5
<1> QED BY <1>3, <1>4

\* Every step of the model keeps it.
LEMMA CalmStep == BackupInv /\ CalmInv /\ [Next]_vars => CalmInv'
<1> SUFFICES ASSUME BackupInv, CalmInv, [Next]_vars PROVE CalmInv'
  OBVIOUS
<1>1. Types /\ Types' /\ db \in Databases
  BY TypesStep DEF BackupInv, Types
<1>2. CASE UNCHANGED vars
  BY <1>2, CalmKept DEF vars
<1>3. ASSUME NEW w \in Workers, Claim(w) PROVE CalmInv'
  <2>1. /\ UNCHANGED <<up, close, dest, backup, last, live, primary>>
        /\ db'.round = db.round /\ db'.status = db.status /\ db'.done = db.done
        /\ db'.results = db.results /\ db'.mref = db.mref
    BY <1>1, <1>3 DEF Claim, NoPut, Databases
  <2> QED BY <2>1, CalmKept
<1>4. ASSUME NEW t \in Tasks, Submit(t) PROVE CalmInv'
  <2>1. /\ UNCHANGED <<up, close, dest, backup, last, live>>
        /\ primary'.object = primary.object
        /\ db'.round = db.round /\ db'.status = db.status /\ db'.done = db.done
        /\ db'.results = db.results /\ db'.mref = db.mref
    BY <1>1, <1>4 DEF Submit, Databases, Types
  <2> QED BY <2>1, CalmKept
<1>5. CASE ListGarbage \/ \E i \in 1..MaxBackups : DryRun(i)
  BY <1>5, CalmKept DEF ListGarbage, DryRun, Rehearse, NoPut
<1>6. CASE DeleteGarbage
  <2>1. primary'.object = primary.object
    BY <1>1, <1>6 DEF DeleteGarbage, Types
  <2> QED BY <1>6, <2>1, CalmKept DEF DeleteGarbage
<1> QED
  BY <1>1, <1>2, <1>3, <1>4, <1>5, <1>6, CalmClose, CalmBackup, CalmLoss DEF Next

\* So it holds always.
LEMMA CalmInvariance == Spec => []CalmInv
<1>1. Init => CalmInv
  <2> SUFFICES ASSUME Init PROVE CalmInv
    OBVIOUS
  <2>1. 0..(0 - 1) = {} /\ 0 \in Keys /\ dest.object[0] = Missing
    BY KeysApart DEF Init, Empty
  <2> QED BY <2>1 DEF Init, CalmInv, Bookkept, MomentumIsPut, BesideNothing, CalmIsSaved,
                      OffTheBox, NoClose, NoBackup
<1> QED BY <1>1, CalmStep, BackupInvariance, PTL DEF Spec

\* After the loss of machine and store, the restore of a backup beside which no
\* round closed resumes with the base and the momentum the run had then
\* (backup.py, restore.py).
THEOREM CalmBackupsAreExact == Spec => CalmBackupIsExact
<1>1. ASSUME BackupInv, CalmInv, up = "lost", Resumes, last = "calm", ~db'.done,
             Restore(Len(dest.snapshots))
      PROVE  <<primary'.object[db'.round], primary'.object[Momentum]>> = live
  <2> DEFINE d == NewestSnapshot
  <2>1. /\ d \in Databases /\ Bookkept(d) /\ OffTheBox
        /\ db' = Reconciled(d) /\ primary'.object = Copied(d) /\ Fit(d, Copied(d))
    BY <1>1 DEF Restore, Resumes, NewestSnapshot, CalmInv, BackupInv, Types
  <2>2. /\ db'.round = d.round /\ ~d.done /\ d.status # "closed"
        /\ d.round \in Nat /\ d.round \in Keys /\ Momentum \in Keys /\ 0 \in Keys
    BY <1>1, <2>1, ReconciledIsTyped, KeysApart DEF Fit, Verified, Databases, RoundIdx
  <2>3. \A k \in Referenced(d) : Copied(d)[k] # Missing /\ k \in Keys
    BY <2>1, <2>2 DEF Fit, InNeitherStore, Referenced
  <2>4. \A k \in Referenced(d) : Copied(d)[k] = dest.object[k]
    BY <1>1, <2>1, <2>3 DEF Copied, OffTheBox
  <2>5. d.round > 0
    BY <2>1, <2>2, <2>3, <2>4 DEF OffTheBox, Referenced
  <2>6. {d.round, Momentum} \subseteq Referenced(d)
    BY <2>1, <2>5 DEF Bookkept, Referenced
  <2>7. live = <<dest.object[d.round], dest.object[Momentum]>>
    BY <1>1, <2>2, <2>5 DEF CalmInv, CalmIsSaved
  <2> QED BY <2>1, <2>2, <2>4, <2>6, <2>7
<1>2. BackupInv /\ CalmInv /\ [Next]_vars
        => [up = "lost" /\ Resumes /\ last = "calm" /\ ~db'.done /\ Restore(Len(dest.snapshots)) =>
              <<primary'.object[db'.round], primary'.object[Momentum]>> = live]_vars
  BY <1>1
<1> QED BY <1>2, CalmInvariance, BackupInvariance, PTL DEF Spec, CalmBackupIsExact

-----------------------------------------------------------------------------
(* A rehearsal is right.                                                   *)

\* The snapshot that was found fit; what a restore of it would look for is in one
\* of the stores.
Rehearsed == dest.snapshots[rehearsed.snapshot]
InAStore(d) ==
  \A k \in Referenced(d) : primary.object[k] # Missing \/ dest.object[k] # Missing

\* What a dry run found fit is still there when the restore looks for it, unless
\* it went with the store; and the base it saw is overwritten in neither store,
\* the run being past the close that makes it.
RehearsalInv ==
  rehearsed.snapshot # 0 =>
    /\ rehearsed.snapshot \in DOMAIN dest.snapshots
    /\ Rehearsed.done \/ Rehearsed.status # "closed"
    /\ rehearsed.kept => InAStore(Rehearsed)
    /\ rehearsed.base # Missing =>
         /\ primary.object[Rehearsed.round] \in {Missing, rehearsed.base}
         /\ dest.object[Rehearsed.round] \in {Missing, rehearsed.base}
         /\ up = "up" => Rehearsed.round <= db.round

\* What a restore finds under the keys it looks for.
LEMMA WhatIsFound ==
  ASSUME Types, NEW d \in Databases
  PROVE  /\ Referenced(d) \subseteq Keys /\ d.round \in Referenced(d)
         /\ \A k \in Referenced(d) : Copied(d)[k] = IF primary.object[k] = Missing
                                                    THEN dest.object[k] ELSE primary.object[k]
         /\ InNeitherStore(d) = {} <=> InAStore(d)
<1>1. Referenced(d) \subseteq Keys /\ d.round \in Referenced(d)
  BY KeysApart DEF Referenced, Databases
<1>2. \A k \in Referenced(d) : Copied(d)[k] = IF primary.object[k] = Missing
                                              THEN dest.object[k] ELSE primary.object[k]
  BY <1>1 DEF Copied
<1>3. InNeitherStore(d) = {} <=> \A k \in Referenced(d) : Copied(d)[k] # Missing
  BY DEF InNeitherStore
<1> QED BY <1>1, <1>2, <1>3 DEF InAStore

\* What has to be shown of a step: nothing that was in a store is in neither, and
\* the object under the key of the base is the one it was.
LEMMA RehearsalKept ==
  ASSUME Types, Types', RehearsalInv,
         \/ rehearsed' = rehearsed
         \/ rehearsed' = [rehearsed EXCEPT !.kept = FALSE]
         \/ rehearsed' = [rehearsed EXCEPT !.base = Missing],
         \A i \in DOMAIN dest.snapshots :
           i \in DOMAIN dest'.snapshots /\ dest'.snapshots[i] = dest.snapshots[i],
         rehearsed'.kept => \A k \in Keys :
           primary.object[k] # Missing \/ dest.object[k] # Missing =>
             primary'.object[k] # Missing \/ dest'.object[k] # Missing,
         rehearsed'.base # Missing =>
           \A k \in RoundIdx : (up = "up" => k <= db.round) =>
             /\ primary'.object[k] \in {Missing, primary.object[k], dest.object[k]}
             /\ dest'.object[k] \in {Missing, primary.object[k], dest.object[k]},
         rehearsed'.base # Missing /\ up' = "up" => up = "up" /\ db.round <= db'.round
  PROVE  RehearsalInv'
<1> SUFFICES ASSUME (rehearsed.snapshot # 0)' PROVE RehearsalInv'
  BY DEF RehearsalInv
<1> DEFINE d == Rehearsed
<1>1. /\ rehearsed'.snapshot = rehearsed.snapshot /\ rehearsed.snapshot # 0
      /\ rehearsed'.kept => rehearsed.kept
      /\ rehearsed'.base # Missing => rehearsed'.base = rehearsed.base
  BY DEF Types, Rehearsals
<1>2. /\ rehearsed.snapshot \in DOMAIN dest'.snapshots /\ Rehearsed' = d /\ d \in Databases
      /\ d.done \/ d.status # "closed"
  BY <1>1 DEF RehearsalInv, Rehearsed, Types
<1>3. rehearsed'.kept => InAStore(Rehearsed)'
  <2> SUFFICES ASSUME rehearsed'.kept PROVE InAStore(Rehearsed)'
    OBVIOUS
  <2>1. InAStore(d) /\ Referenced(d) \subseteq Keys
    BY <1>1, <1>2, WhatIsFound DEF RehearsalInv
  <2>2. \A k \in Referenced(d) : primary'.object[k] # Missing \/ dest'.object[k] # Missing
    BY <2>1 DEF InAStore
  <2> QED BY <1>2, <2>2 DEF InAStore
<1>4. rehearsed'.base # Missing =>
        /\ primary'.object[d.round] \in {Missing, rehearsed'.base}
        /\ dest'.object[d.round] \in {Missing, rehearsed'.base}
        /\ up' = "up" => d.round <= db'.round
  <2> SUFFICES ASSUME rehearsed'.base # Missing
               PROVE  /\ primary'.object[d.round] \in {Missing, rehearsed'.base}
                      /\ dest'.object[d.round] \in {Missing, rehearsed'.base}
                      /\ up' = "up" => d.round <= db'.round
    OBVIOUS
  <2>1. /\ primary.object[d.round] \in {Missing, rehearsed.base}
        /\ dest.object[d.round] \in {Missing, rehearsed.base}
        /\ up = "up" => d.round <= db.round
        /\ rehearsed'.base = rehearsed.base
    BY <1>1 DEF RehearsalInv
  <2>2. d.round \in RoundIdx /\ d.round \in Int /\ db.round \in Int /\ db'.round \in Int
    BY <1>2 DEF Databases, RoundIdx, Types
  <2>3. /\ primary'.object[d.round] \in {Missing, primary.object[d.round], dest.object[d.round]}
        /\ dest'.object[d.round] \in {Missing, primary.object[d.round], dest.object[d.round]}
    BY <2>1, <2>2
  <2> QED BY <2>1, <2>2, <2>3
<1> QED BY <1>1, <1>2, <1>3, <1>4 DEF RehearsalInv

\* Every step but a rehearsal leaves it true: objects are lost with the store
\* alone, and a close writes under a key no earlier round is based on.
LEMMA RehearsalStep ==
  ASSUME BackupInv, CalmInv, RehearsalInv, [Next]_vars
  PROVE  RehearsalInv'
<1>1. Types /\ Types' /\ db \in Databases
  BY TypesStep DEF BackupInv, Types
<1>2. /\ db.round \in RoundIdx /\ RoundIdx \subseteq Int /\ RoundIdx \subseteq Keys
      /\ db.round \in Int /\ db.round <= db.round
  BY <1>1, KeysApart DEF Databases, RoundIdx
<1>3. ASSUME UNCHANGED <<rehearsed, dest>>, primary'.object = primary.object,
             up' = up, db.round <= db'.round
      PROVE  RehearsalInv'
  BY <1>1, <1>3, RehearsalKept
<1>4. CASE UNCHANGED vars
  BY <1>2, <1>3, <1>4 DEF vars
<1>5. CASE (\E w \in Workers : Claim(w)) \/ (\E t \in Tasks : Submit(t)) \/ DeleteGarbage
  <2>1. /\ UNCHANGED <<rehearsed, dest, up>> /\ primary'.object = primary.object
        /\ db'.round = db.round
    BY <1>1, <1>5 DEF Claim, Submit, DeleteGarbage, NoPut, Types, Databases
  <2> QED BY <1>2, <1>3, <2>1
<1>6. CASE ClaimClose \/ SetMomentumRef \/ MarkClosed \/ OpenNext \/ ReadRefs \/ ListGarbage
  <2>1. UNCHANGED <<rehearsed, dest, up, primary>> /\ db.round <= db'.round
    <3>1. CASE OpenNext
      BY <1>1, <1>2, <3>1, CloseFields DEF OpenNext, NoPut, Databases
    <3>2. CASE ReadRefs \/ ListGarbage
      BY <1>2, <1>1, <3>2 DEF ReadRefs, ListGarbage, NoPut
    <3>3. CASE ClaimClose \/ SetMomentumRef \/ MarkClosed
      BY <1>1, <1>2, <3>3, CloseFields
         DEF ClaimClose, SetMomentumRef, MarkClosed, NoPut, Databases
    <3> QED BY <1>6, <3>1, <3>2, <3>3
  <2> QED BY <1>1, <1>3, <2>1 DEF Types, Databases, RoundIdx
<1>7. CASE PutResult \/ PutMomentum
  <2>1. PICK k \in {db.round + 1, Momentum} :
          /\ up = "up" /\ UNCHANGED <<rehearsed, dest, up, db>>
          /\ \A j \in Keys : j # k => primary'.object[j] = primary.object[j]
          /\ primary'.object[k] # Missing
    <3>1. CASE PutResult
      <4>1. Append(primary.object[db.round], Step) # Missing
        BY <1>1, <1>2, <3>1, AppendStep, MissingIsNone DEF PutResult, Types, Objects
      <4>2. /\ up = "up" /\ UNCHANGED <<rehearsed, dest, up, db>>
            /\ primary'.object =
                 [primary.object EXCEPT ![db.round + 1] = Append(primary.object[db.round], Step)]
        BY <1>1, <3>1 DEF PutResult, Put, Types
      <4> QED BY <1>1, <1>2, <4>1, <4>2, KeysApart DEF Types
    <3>2. CASE PutMomentum
      <4>1. /\ up = "up" /\ UNCHANGED <<rehearsed, dest, up, db>> /\ close.pc = "result"
            /\ primary'.object = [primary.object EXCEPT ![Momentum] = close.momentum]
        BY <1>1, <3>2, CloseFields DEF PutMomentum, Put, Types
      <4>2. close.momentum # Missing
        BY <4>1 DEF CalmInv, MomentumIsPut
      <4> QED BY <1>1, <4>1, <4>2, KeysApart DEF Types
    <3> QED BY <1>7, <3>1, <3>2
  <2>2. \A j \in RoundIdx : j <= db.round => j # k /\ j \in Keys
    BY <1>2, KeysApart DEF RoundIdx
  <2> QED BY <1>1, <1>2, <2>1, <2>2, RehearsalKept
<1>8. CASE Snapshot
  <2>1. /\ UNCHANGED <<rehearsed, primary, up, db>> /\ dest'.object = dest.object
        /\ dest'.snapshots = Append(dest.snapshots, db)
    BY <1>1, <1>8 DEF Snapshot, Types
  <2>2. \A i \in DOMAIN dest.snapshots :
          i \in DOMAIN dest'.snapshots /\ dest'.snapshots[i] = dest.snapshots[i]
    BY <1>1, <2>1 DEF Types
  <2> QED BY <1>1, <1>2, <2>1, <2>2, RehearsalKept
<1>9. ASSUME NEW k \in Keys, Copy(k) PROVE RehearsalInv'
  <2>1. /\ UNCHANGED <<rehearsed, primary, up, db>> /\ dest'.snapshots = dest.snapshots
        /\ \A j \in Keys : \/ dest'.object[j] = dest.object[j]
                           \/ primary.object[j] # Missing /\ dest'.object[j] = primary.object[j]
    BY <1>1, <1>9 DEF Copy, NoPut, Types
  <2> QED BY <1>1, <1>2, <2>1, RehearsalKept
<1>10. CASE Disaster
  <2>1. up = "up" /\ up' # "up" /\ UNCHANGED <<db, dest>>
    BY <1>10 DEF Disaster
  <2>2. \/ UNCHANGED <<primary, rehearsed>>
        \/ /\ rehearsed' = [rehearsed EXCEPT !.kept = FALSE]
           /\ \A k \in Keys : primary'.object[k] = Missing
    BY <1>10 DEF Disaster, Empty
  <2>3. rehearsed'.kept => UNCHANGED primary
    BY <1>1, <2>2 DEF Types, Rehearsals
  <2>4. \A k \in RoundIdx :
          primary'.object[k] \in {Missing, primary.object[k], dest.object[k]}
    BY <1>2, <2>2
  <2> QED BY <1>1, <2>1, <2>2, <2>3, <2>4, RehearsalKept
<1>11. ASSUME NEW i \in 1..MaxBackups, Restore(i) PROVE RehearsalInv'
  <2>1. /\ UNCHANGED dest /\ rehearsed' = [rehearsed EXCEPT !.base = Missing]
        /\ dest.snapshots[i] \in Databases
        /\ primary'.object = Copied(dest.snapshots[i])
    BY <1>1, <1>11 DEF Restore, Types
  <2>2. \A k \in Keys : primary.object[k] # Missing => primary'.object[k] # Missing
    BY <2>1 DEF Copied
  <2>3. rehearsed'.base = Missing
    BY <1>1, <2>1 DEF Types, Rehearsals
  <2> QED BY <1>1, <2>1, <2>2, <2>3, RehearsalKept
<1>12. ASSUME NEW i \in 1..MaxBackups, DryRun(i) PROVE RehearsalInv'
  <2> DEFINE d == dest.snapshots[i]
  <2>1. /\ UNCHANGED <<up, db, dest, primary>> /\ i \in DOMAIN dest.snapshots
        /\ rehearsed' = IF Fit(d, primary.object) THEN Remembered(i) ELSE NoRehearsal
    BY <1>12 DEF DryRun, Rehearse
  <2>2. d \in Databases /\ d.round \in RoundIdx
    <3>1. d \in Databases
      BY <1>1, <2>1 DEF Types
    <3> QED BY <3>1 DEF Databases
  <2>3. CASE Fit(d, primary.object)
    <3>1. /\ rehearsed'.snapshot = i
          /\ rehearsed'.base # Missing =>
               /\ rehearsed'.base = Copied(d)[d.round] /\ d.round <= db.round
               /\ dest.object[d.round] \in {Missing, Copied(d)[d.round]}
      BY <2>1, <2>3 DEF Remembered
    <3>2. InAStore(d) /\ (d.done \/ d.status # "closed")
      BY <2>2, <2>3, ReconciledIsTyped, WhatIsFound, <1>1 DEF Fit, Verified
    <3>3. primary.object[d.round] \in {Missing, Copied(d)[d.round]}
      BY <1>1, <2>2, WhatIsFound
    <3>4. Rehearsed' = d /\ InAStore(d)'
      <4>1. Rehearsed' = d
        BY <2>1, <3>1 DEF Rehearsed
      <4>2. InAStore(d)'
        BY <2>1, <3>2 DEF InAStore
      <4> QED BY <4>1, <4>2
    <3>5. InAStore(Rehearsed)'
      BY <2>1, <3>1, <3>2, <3>4 DEF InAStore, Rehearsed
    <3> QED BY <2>1, <3>1, <3>2, <3>3, <3>4, <3>5 DEF RehearsalInv
  <2>4. CASE ~Fit(d, primary.object)
    BY <2>1, <2>4 DEF RehearsalInv, NoRehearsal
  <2> QED BY <2>3, <2>4
<1> QED
  BY <1>4, <1>5, <1>6, <1>7, <1>8, <1>9, <1>10, <1>11, <1>12 DEF Next, Close, BackupStep

\* A snapshot that a dry run found fit, beside a running coordinator or a stopped
\* one, restores without a problem after whatever came between, if the store was
\* kept or all it refers to is off the box; and after losses alone it resumes
\* from the base the rehearsal saw (restore.py:191-211: "the actual steps").
THEOREM RehearsalsHold == Spec => RehearsalHolds
<1>1. Init => RehearsalInv
  BY DEF Init, RehearsalInv, NoRehearsal
<1>2. ASSUME BackupInv, RehearsalInv, NEW i \in 1..MaxBackups, rehearsed.snapshot = i, Restore(i),
             rehearsed.kept \/ IsSaved(dest.snapshots[i])
      PROVE  Resumes /\ rehearsed.base \in {Missing, primary'.object[db'.round]}
  <2> DEFINE d == dest.snapshots[i]
  <2>1. /\ up # "up" /\ Types /\ d \in Databases /\ d = Rehearsed
        /\ d.done \/ d.status # "closed"
        /\ db' = Reconciled(d) /\ primary'.object = Copied(d)
        /\ up' = IF Fit(d, Copied(d)) THEN "up" ELSE up
    BY <1>2 DEF RehearsalInv, Rehearsed, Restore, BackupInv, Types
  <2>2. InAStore(d)
    BY <1>2, <2>1 DEF RehearsalInv, InAStore, IsSaved
  <2>3. InNeitherStore(d) = {} /\ d.round \in Referenced(d)
        /\ Copied(d)[d.round] # Missing
        /\ Copied(d)[d.round] \in {primary.object[d.round], dest.object[d.round]}
    BY <2>1, <2>2, WhatIsFound DEF InAStore
  <2>4. Fit(d, Copied(d))
    BY <2>1, <2>3, ReconciledIsTyped DEF Fit, Verified
  <2>5. rehearsed.base # Missing => Copied(d)[d.round] = rehearsed.base
    BY <1>2, <2>1, <2>3 DEF RehearsalInv
  <2> QED BY <2>1, <2>4, <2>5, ReconciledIsTyped DEF Resumes
<1>3. BackupInv /\ RehearsalInv /\ [Next]_vars
        => [\A i \in 1..MaxBackups :
              /\ rehearsed.snapshot = i /\ Restore(i)
              /\ rehearsed.kept \/ IsSaved(dest.snapshots[i])
              => /\ Resumes
                 /\ rehearsed.base \in {Missing, primary'.object[db'.round]}]_vars
  BY <1>2
<1>4. BackupInv /\ CalmInv /\ RehearsalInv /\ [Next]_vars => RehearsalInv'
  BY RehearsalStep
<1> QED BY <1>1, <1>3, <1>4, BackupInvariance, CalmInvariance, PTL DEF Spec, RehearsalHolds

=============================================================================
