------------------------------- MODULE Backup -------------------------------
(***************************************************************************)
(* What protects a run from the loss of the coordinator's machine:         *)
(* scripts/backup.py, which snapshots the database and then copies the     *)
(* newest adapter and the outer momentum off the box while the coordinator *)
(* goes on, scripts/restore.py, which rebuilds a coordinator from them,    *)
(* and scripts/gc.py, which deletes the submissions of old rounds.         *)
(*                                                                         *)
(* One run.  The content of an adapter is its lineage: the sequence of     *)
(* closes that went into it, a close being named by the incarnation of the *)
(* coordinator that made it and its round.  The momentum object has a      *)
(* lineage too, of the outer steps folded into it.  The close is the       *)
(* faultless one of closer.py, cut where it touches an object or commits.  *)
(***************************************************************************)
EXTENDS Integers, FiniteSets, Sequences

CONSTANTS
    Workers,
    TargetRounds,
    KeepRounds,     \* gc --keep-rounds
    MaxBackups,     \* bound: snapshots taken
    MaxDisasters    \* bound: losses of the machine

ASSUME BackupAssumption ==
    /\ TargetRounds \in Nat \ {0}
    /\ KeepRounds \in Nat /\ MaxBackups \in Nat /\ MaxDisasters \in Nat

VARIABLES
    up,         \* "up", or until a restore verifies: "down" after the loss of
                \* the machine, "lost" when its artifact store went with it
    epoch,      \* incarnations of the coordinator so far
    db,         \* the coordinator's database, as far as a restore needs it
    close,      \* the close under way, and the momentum it computed
    primary,    \* the artifact store
    dest,       \* the off-box store, and the snapshots in it, oldest first
    backup,     \* the backup under way: objects to copy, no close beside it so far
    gc,         \* the submissions the garbage collector has listed
    last,       \* history: how the last backup went
    live,       \* history: base and momentum of the run when it was taken
    rehearsed   \* history: what the last dry run found, and what became of it

vars == <<up, epoch, db, close, primary, dest, backup, gc, last, live, rehearsed>>

RoundIdx == 0..(TargetRounds - 1)
Epochs == 0..MaxDisasters
Tasks == Epochs \X Workers
Missing == << <<-1, -1>> >>     \* no close has this name
Momentum == TargetRounds + 1    \* momentum_key(run); key k is base_adapter_key(run, k)
Keys == 0..TargetRounds \union {Momentum}

IsDatabase(d) ==
    /\ d.round \in RoundIdx /\ d.status \in {"open", "closing", "closed"}
    /\ d.leased \subseteq Tasks /\ d.submitted \subseteq Tasks
    /\ d.results \subseteq RoundIdx /\ d.mref \in BOOLEAN /\ d.done \in BOOLEAN
IsObject(o) == o = Missing \/ \A i \in DOMAIN o : o[i] \in Epochs \X RoundIdx

TypeOK ==
    /\ up \in {"up", "down", "lost"} /\ epoch \in Epochs
    /\ IsDatabase(db)
    /\ close.pc \in {"none", "claimed", "result", "momentum", "ref", "closed"}
    /\ IsObject(close.momentum)
    /\ \A k \in Keys : IsObject(primary.object[k]) /\ IsObject(dest.object[k])
    /\ primary.subs \subseteq RoundIdx \X Tasks
    /\ \A i \in DOMAIN dest.snapshots : IsDatabase(dest.snapshots[i])
    /\ backup.pc \in {"idle", "refs", "copy"} /\ backup.refs \subseteq Keys
    /\ backup.calm \in BOOLEAN /\ last \in {"none", "torn", "ended", "calm"}
    /\ gc \subseteq RoundIdx \X Tasks
    /\ rehearsed.snapshot \in 0..MaxBackups /\ IsObject(rehearsed.base)
    /\ rehearsed.kept \in BOOLEAN

NoClose == [pc |-> "none", momentum |-> Missing]
NoBackup == [pc |-> "idle", refs |-> {}, calm |-> FALSE]
NoRehearsal == [snapshot |-> 0, base |-> Missing, kept |-> FALSE]
Empty == [k \in Keys |-> Missing]

(* newrun.py has put the first base adapter and opened round 0 *)
Init ==
    /\ up = "up" /\ epoch = 0
    /\ db = [round |-> 0, status |-> "open", leased |-> {}, submitted |-> {},
             results |-> {}, mref |-> FALSE, done |-> FALSE]
    /\ close = NoClose
    /\ primary = [object |-> [Empty EXCEPT ![0] = <<>>], subs |-> {}]
    /\ dest = [object |-> Empty, snapshots |-> <<>>]
    /\ backup = NoBackup
    /\ gc = {} /\ last = "none" /\ live = <<Missing, Missing>> /\ rehearsed = NoRehearsal

Put(k, o) == primary' = [primary EXCEPT !.object[k] = o] /\ UNCHANGED rehearsed
NoPut == UNCHANGED <<primary, rehearsed>>

-----------------------------------------------------------------------------
(* The run: claims, submissions, and one close after another. *)

Claim(w) ==
    /\ up = "up" /\ db.status = "open"
    /\ <<epoch, w>> \notin db.leased \union db.submitted
    /\ db' = [db EXCEPT !.leased = @ \union {<<epoch, w>>}]
    /\ NoPut /\ UNCHANGED <<up, epoch, close, dest, backup, gc, last, live>>

(* a worker uploads its artifact and the submission is recorded and gated *)
Submit(t) ==
    /\ up = "up" /\ db.status = "open" /\ t \in db.leased
    /\ db' = [db EXCEPT !.leased = @ \ {t}, !.submitted = @ \union {t}]
    /\ primary' = [primary EXCEPT !.subs = @ \union {<<db.round, t>>}]
    /\ UNCHANGED <<up, epoch, close, dest, backup, gc, last, live, rehearsed>>

(* a step of the close; a backup it runs beside is not a calm one *)
Closing(from, to) ==
    /\ up = "up" /\ close.pc = from
    /\ close' = [NoClose EXCEPT !.pc = to]
    /\ backup' = [backup EXCEPT !.calm = FALSE]
    /\ UNCHANGED <<up, epoch, dest, gc, last, live>>

ClaimClose ==
    /\ db.status = "open" /\ db.submitted # {}
    /\ Closing("none", "claimed")
    /\ db' = [db EXCEPT !.status = "closing"]
    /\ NoPut

(* the submissions whose artifacts are still in the store *)
Kept == {t \in db.submitted : <<db.round, t>> \in primary.subs}
Step == <<epoch, db.round>>
Folded == IF db.mref /\ primary.object[Momentum] # Missing
          THEN Append(primary.object[Momentum], Step) ELSE <<Step>>

PutResult ==
    /\ up = "up" /\ close.pc = "claimed"
    /\ Kept # {} /\ primary.object[db.round] # Missing
    /\ Put(db.round + 1, Append(primary.object[db.round], Step))
    /\ close' = [pc |-> "result", momentum |-> Folded]
    /\ backup' = [backup EXCEPT !.calm = FALSE]
    /\ UNCHANGED <<up, epoch, db, dest, gc, last, live>>

PutMomentum ==
    /\ Closing("result", "momentum")
    /\ Put(Momentum, close.momentum)
    /\ UNCHANGED db

SetMomentumRef ==
    /\ Closing("momentum", "ref")
    /\ db' = [db EXCEPT !.mref = TRUE]
    /\ NoPut

(* with nothing to aggregate the round closes without a result *)
MarkClosed ==
    /\ \/ Closing("ref", "closed") /\ db' = [db EXCEPT !.status = "closed", !.leased = {},
                                                       !.results = @ \union {db.round}]
       \/ Kept = {} /\ Closing("claimed", "none")
            /\ db' = [db EXCEPT !.status = "closed", !.leased = {}]
    /\ NoPut

OpenNextAtTheEnd ==
    /\ Closing("closed", "none")
    /\ db' = [db EXCEPT !.round = @ + 1, !.status = "open", !.submitted = {}]
    /\ NoPut

OpenNext ==
    /\ Closing("closed", "none")
    /\ db' = IF db.round + 1 < TargetRounds
             THEN [db EXCEPT !.round = @ + 1, !.status = "open", !.submitted = {}]
             ELSE [db EXCEPT !.done = TRUE]
    /\ NoPut

Close == \/ ClaimClose \/ PutResult \/ PutMomentum
         \/ SetMomentumRef \/ MarkClosed \/ OpenNext

-----------------------------------------------------------------------------
(* backup.py: the snapshot is put first; the refs are read from the live    *)
(* database after it, and the objects copied one by one.                     *)

Snapshot ==
    /\ up = "up" /\ backup.pc = "idle" /\ Len(dest.snapshots) < MaxBackups
    /\ dest' = [dest EXCEPT !.snapshots = Append(@, db)]
    /\ backup' = [pc |-> "refs", refs |-> {}, calm |-> close.pc = "none"]
    /\ last' = "torn"
    /\ live' = <<primary.object[db.round], primary.object[Momentum]>>
    /\ UNCHANGED <<up, epoch, db, close, primary, gc, rehearsed>>

(* result_adapter_ref of the newest round that has one, outer_momentum_ref *)
LatestResult == {k + 1 : k \in {r \in db.results : \A q \in db.results : q <= r}}
MomentumRef == IF db.mref THEN {Momentum} ELSE {}

Copies(refs) ==
    IF refs = {}
    THEN backup' = NoBackup /\ last' = IF backup.calm THEN "calm" ELSE "ended"
    ELSE backup' = [backup EXCEPT !.pc = "copy", !.refs = refs] /\ UNCHANGED last

ReadRefs ==
    /\ up = "up" /\ backup.pc = "refs"
    /\ Copies(LatestResult \union MomentumRef)
    /\ NoPut /\ UNCHANGED <<up, epoch, db, close, dest, gc, live>>

(* the adapter before the momentum; what is not in the store is skipped *)
Copy(k) ==
    /\ up = "up" /\ backup.pc = "copy" /\ k \in backup.refs
    /\ k = Momentum => backup.refs = {Momentum}
    /\ dest' = IF primary.object[k] = Missing THEN dest
               ELSE [dest EXCEPT !.object[k] = primary.object[k]]
    /\ Copies(backup.refs \ {k})
    /\ NoPut /\ UNCHANGED <<up, epoch, db, close, gc, live>>

BackupStep == Snapshot \/ ReadRefs \/ \E k \in Keys : Copy(k)

-----------------------------------------------------------------------------
(* gc.py: submissions of closed rounds older than the KeepRounds newest,    *)
(* listed first and deleted then.                                            *)

ClosedRounds == (0..(db.round - 1)) \union (IF db.status = "closed" THEN {db.round} ELSE {})
StaleRounds == {r \in ClosedRounds :
                    Cardinality({q \in ClosedRounds : q > r}) >= KeepRounds}

ListGarbage ==
    /\ up = "up" /\ gc = {}
    /\ gc' = {s \in primary.subs : s[1] \in StaleRounds}
    /\ NoPut /\ UNCHANGED <<up, epoch, db, close, dest, backup, last, live>>

DeleteGarbage ==
    /\ gc # {}
    /\ primary' = [primary EXCEPT !.subs = @ \ gc]
    /\ gc' = {}
    /\ UNCHANGED <<up, epoch, db, close, dest, backup, last, live, rehearsed>>

-----------------------------------------------------------------------------
(* The machine is lost, with or without the volume of the artifact store.    *)
Disaster ==
    /\ up = "up" /\ epoch < MaxDisasters
    /\ epoch' = epoch + 1
    /\ \/ up' = "down" /\ UNCHANGED primary
            /\ UNCHANGED rehearsed
       \/ up' = "lost" /\ primary' = [object |-> Empty, subs |-> {}]
            /\ rehearsed' = [rehearsed EXCEPT !.kept = FALSE]
    /\ close' = NoClose /\ backup' = NoBackup /\ gc' = {}
    /\ UNCHANGED <<db, dest, last, live>>

(* restore.py: what the snapshot's current round and run refer to is taken   *)
(* from the primary store where it is there, else from the backup            *)
ReferencedBase(d) == {d.round}
Referenced(d) == {d.round} \union (IF d.mref THEN {Momentum} ELSE {})
Copied(d) == [k \in Keys |->
                IF k \in Referenced(d) /\ primary.object[k] = Missing
                THEN dest.object[k] ELSE primary.object[k]]
InNeitherStore(d) == {k \in Referenced(d) : Copied(d)[k] = Missing}

ReconciledKeepingSubmissions(d) ==
    IF d.status = "closed" THEN d ELSE [d EXCEPT !.status = "open", !.leased = {}]
(* the round in flight is rewound *)
Reconciled(d) ==
    IF d.status = "closed" THEN d
    ELSE [d EXCEPT !.status = "open", !.leased = {}, !.submitted = {}]

VerifiedBase(d, objects) == d.done \/ objects[d.round] # Missing
Verified(d, objects) == d.done \/ (objects[d.round] # Missing /\ d.status = "open")
Fit(d, objects) == InNeitherStore(d) = {} /\ Verified(Reconciled(d), objects)

(* The operator starts the coordinator on a restore that reports no problem; *)
(* any snapshot may be named, the newest is the default.                      *)
Restore(i) ==
    /\ up # "up" /\ i \in DOMAIN dest.snapshots
    /\ LET d == dest.snapshots[i]
       IN /\ db' = Reconciled(d)
          /\ primary' = [primary EXCEPT !.object = Copied(d)]
          /\ up' = IF Fit(d, Copied(d)) THEN "up" ELSE up
    /\ rehearsed' = [rehearsed EXCEPT !.base = Missing]
    /\ UNCHANGED <<epoch, close, dest, backup, gc, last, live>>

(* What is remembered of a dry run that finds snapshot i fit: the base it saw, *)
(* if there is but one (of a round the run has reached, the same in both       *)
(* stores, nothing restored since), and whether the store was kept since.      *)
Remembered(i) ==
    LET d == dest.snapshots[i]
        base == Copied(d)[d.round]
    IN [snapshot |-> i, kept |-> TRUE,
        base |-> IF d.round <= db.round /\ dest.object[d.round] \in {Missing, base}
                 THEN base ELSE Missing]

Rehearse(i, fit) ==
    /\ i \in DOMAIN dest.snapshots
    /\ rehearsed' = IF fit THEN Remembered(i) ELSE NoRehearsal
    /\ UNCHANGED <<up, epoch, db, close, primary, dest, backup, gc, last, live>>

DryRunOfThePlan(i) == Rehearse(i, InNeitherStore(dest.snapshots[i]) = {})
(* --dry-run, at any time and also beside a running coordinator, verifies the *)
(* same snapshot against a store that nothing was copied to                   *)
DryRun(i) == Rehearse(i, Fit(dest.snapshots[i], primary.object))

-----------------------------------------------------------------------------
Next ==
    \/ \E w \in Workers : Claim(w)
    \/ \E t \in Tasks : Submit(t)
    \/ Close \/ BackupStep
    \/ ListGarbage \/ DeleteGarbage
    \/ Disaster
    \/ \E i \in 1..MaxBackups : Restore(i) \/ DryRun(i)

(* Workers keep claiming and submitting, and a close under way goes on. *)
Fairness == /\ \A w \in Workers : WF_vars(Claim(w))
            /\ WF_vars(\E t \in Tasks : Submit(t))
            /\ WF_vars(Close)
Spec == Init /\ [][Next]_vars
FairSpec == Spec /\ Fairness

-----------------------------------------------------------------------------
(* A coordinator that runs has what its current round needs: the base it     *)
(* hands out, of as many steps as there are rounds behind it, the artifact    *)
(* of every submission it may aggregate, and a caller for a close in         *)
(* progress (restore.py reconcile and _verify, gc.py).                        *)
CurrentRoundIsWhole ==
    up = "up" /\ ~db.done =>
        /\ primary.object[db.round] # Missing
        /\ Len(primary.object[db.round]) = db.round
        /\ db.status # "closed" => \A t \in db.submitted : <<db.round, t>> \in primary.subs
        /\ db.status # "open" => close.pc # "none"

(* After the loss of machine and store, the restore of a backup beside which *)
(* no round closed resumes with the base and the momentum the run had then    *)
(* (backup.py, restore.py).                                                   *)
Resumes == up # "up" /\ up' = "up"
CalmBackupIsExact ==
    [][up = "lost" /\ Resumes /\ last = "calm" /\ ~db'.done /\ Restore(Len(dest.snapshots)) =>
        <<primary'.object[db'.round], primary'.object[Momentum]>> = live]_vars

(* A snapshot that a dry run found fit, of a running coordinator or of a      *)
(* stopped one, restores without a problem after whatever closes, backups,     *)
(* restores and losses, if the store was kept or all the snapshot refers to    *)
(* is off the box; and where only losses came between, the run goes on from    *)
(* the base the rehearsal saw, however far it had got since (restore.py        *)
(* --dry-run: a rehearsal rehearses "the actual steps").                       *)
IsSaved(d) == \A k \in Referenced(d) : dest.object[k] # Missing
RehearsalHolds ==
    [][\A i \in 1..MaxBackups :
        /\ rehearsed.snapshot = i /\ Restore(i)
        /\ rehearsed.kept \/ IsSaved(dest.snapshots[i])
        => /\ Resumes
           /\ rehearsed.base \in {Missing, primary'.object[db'.round]}]_vars

(* A coordinator that runs gets past its current round, restored or not,     *)
(* unless the machine is lost again (restore.py: "the run can be resumed").   *)
RunMovesOn == \A r \in RoundIdx :
    up = "up" /\ db.round = r ~> up # "up" \/ db.done \/ db.round # r

(* "The database plus the newest adapter is enough to resume": once a round  *)
(* has closed, a backup that ran to its end can be restored from.             *)
NewestSnapshot == dest.snapshots[Len(dest.snapshots)]
BackupsAreEnough ==
    up # "up" /\ last \in {"ended", "calm"} /\ NewestSnapshot.round > 0 /\ ~NewestSnapshot.done
        => Fit(NewestSnapshot, Copied(NewestSnapshot))
=============================================================================
