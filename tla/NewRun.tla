------------------------------- MODULE NewRun -------------------------------
(***************************************************************************)
(* The creation of a run, scripts/newrun.py: the resolution of its          *)
(* configuration from flags, a file and defaults, and the writes to the     *)
(* object store and to the database, between any two of which the script    *)
(* may be interrupted and started again.  One invocation runs at a time.     *)
(*                                                                         *)
(* Of the settings the model keeps one of each kind: the rank, for those a   *)
(* flag or the file must give and the seed adapter depends on; the           *)
(* classification; and the number of held-out rows, which is also one of     *)
(* the hyperparameters and decides, with the rows and buckets of the         *)
(* dataset, the size of a bucket.                                            *)
(***************************************************************************)
EXTENDS Partition

CONSTANTS
    Ranks, EvalSizes, DefaultEval,
    Open, Classes,          \* data classifications; Open is the default
    Missing,                \* a setting that a source does not give
    Datasets,               \* rows and buckets of the datasets
    MaxInvocations          \* bound: starts of the script

Evals == EvalSizes \union {DefaultEval}

ASSUME NewRunAssumption ==
    /\ EvalSizes \subseteq Nat /\ DefaultEval \in Nat
    /\ Open \in Classes
    /\ Missing \notin Ranks \union Evals \union Classes
    /\ \A d \in Datasets : d.rows \in Nat \ {0} /\ d.buckets \in Nat \ {0}
    /\ MaxInvocations \in Nat

VARIABLES
    script,     \* the invocation under way: where it is, what it resolved
    base0,      \* the object under base_adapter_key(run, 0): an adapter of
                \* some rank, or none
    run,        \* the row of the run, with its buckets, or none
    round0,     \* round 0 has been opened
    asked,      \* history: what the invocation that made the run was asked
    starts      \* invocations so far

newRunVars == <<script, base0, run, round0, asked, starts>>

Given(S) == S \union {Missing}
(* what a command line or a file says *)
Says == [rank : Given(Ranks), class : Given(Classes), eval : Given(EvalSizes)]
Silent == [rank |-> Missing, class |-> Missing, eval |-> Missing]
Resolved == [rank : Ranks, class : Classes, eval : Evals, hyperEval : Evals,
             samples : Nat, rows : Nat, buckets : Nat]
Idle0 == [pc |-> "idle"]
Doing(pc, args, by) == [pc |-> pc, args |-> args, asked |-> by]
NoRun == [rank |-> Missing]
NotAsked == [flags |-> Silent, file |-> Silent]

NewRunTypeOK ==
    /\ script = Idle0 \/ (script.pc \in {"check", "put", "insert", "open"}
                          /\ script.args \in Resolved /\ script.asked \in [flags : Says, file : Says])
    /\ base0 \in Given(Ranks)
    /\ run \in Resolved \union {NoRun} /\ round0 \in BOOLEAN
    /\ asked \in [flags : Says, file : Says]
    /\ starts \in 0..MaxInvocations

NewRunInit ==
    /\ script = Idle0 /\ base0 = Missing /\ run = NoRun
    /\ round0 = FALSE /\ asked = NotAsked /\ starts = 0

-----------------------------------------------------------------------------
First(a, b) == IF a # Missing THEN a ELSE b

(* argparse has put "open" where --classification was not given *)
ParsedClass(flags) == First(flags.class, Open)
Rank(flags, file) == First(flags.rank, file.rank)
Class(flags, file) == First(ParsedClass(flags), file.class)
Eval(flags, file) == First(First(flags.eval, file.eval), DefaultEval)

(* the file's hyperparameters travel through; the argument is a default *)
HyperEval(flags, file) == First(file.eval, Eval(flags, file))

Args(flags, file, d) ==
    LET e == Eval(flags, file)
    IN [rank |-> Rank(flags, file), class |-> Class(flags, file), eval |-> e,
        hyperEval |-> HyperEval(flags, file),
        samples |-> SamplesPerBucket(d.rows, d.buckets, e),
        rows |-> d.rows, buckets |-> d.buckets]

InvokeUnchecked(flags, file, d) ==
    /\ script = Idle0 /\ starts < MaxInvocations
    /\ starts' = starts + 1
    /\ script' = IF CanPlan(d.rows, d.buckets, Eval(flags, file))
                 THEN Doing("check", Args(flags, file, d), [flags |-> flags, file |-> file])
                 ELSE Idle0
    /\ UNCHANGED <<base0, run, round0, asked>>

(* missing settings and an impossible partition end the script at once *)
Invoke(flags, file, d) ==
    /\ script = Idle0 /\ starts < MaxInvocations
    /\ starts' = starts + 1
    /\ script' = IF Rank(flags, file) # Missing /\ CanPlan(d.rows, d.buckets, Eval(flags, file))
                 THEN Doing("check", Args(flags, file, d), [flags |-> flags, file |-> file])
                 ELSE Idle0
    /\ UNCHANGED <<base0, run, round0, asked>>

GoOn(from, to) ==
    /\ script.pc = from
    /\ script' = IF to = "idle" THEN Idle0 ELSE Doing(to, script.args, script.asked)
    /\ UNCHANGED starts

CheckNothing ==
    /\ GoOn("check", "put")
    /\ UNCHANGED <<base0, run, round0, asked>>

(* a run of that name is never clobbered *)
CheckExisting ==
    /\ IF run = NoRun THEN GoOn("check", "put") ELSE GoOn("check", "idle")
    /\ UNCHANGED <<base0, run, round0, asked>>

PutBase ==
    /\ GoOn("put", "insert")
    /\ base0' = script.args.rank
    /\ UNCHANGED <<run, round0, asked>>

InsertRun ==
    /\ GoOn("insert", "open")
    /\ run' = script.args /\ asked' = script.asked
    /\ UNCHANGED <<base0, round0>>

OpenRoundZero ==
    /\ GoOn("open", "idle")
    /\ round0' = TRUE
    /\ UNCHANGED <<base0, run, asked>>

Interrupt ==
    /\ script # Idle0 /\ script' = Idle0
    /\ UNCHANGED <<base0, run, round0, asked, starts>>

NewRunNext ==
    \/ \E flags, file \in Says, d \in Datasets : Invoke(flags, file, d)
    \/ CheckExisting \/ PutBase \/ InsertRun \/ OpenRoundZero
    \/ Interrupt

NewRunSpec == NewRunInit /\ [][NewRunNext]_newRunVars

-----------------------------------------------------------------------------
(* A run in the database never refers to a base that is not there or is not  *)
(* its own, however often the script was interrupted and repeated             *)
(* (newrun.py: the adapter "has to be durable before anything in the           *)
(* database can reference it").                                                 *)
RunHasItsBase ==
    /\ run # NoRun => base0 = run.rank
    /\ round0 => run # NoRun

(* The bucket size the coordinator budgets with is the one the workers cut   *)
(* their shards to, as long as the held-out rows are named in one place       *)
(* (newrun.py: "a second copy of the formula that drifted by one").            *)
NamedTwice == asked.flags.eval # Missing /\ asked.file.eval # Missing
BudgetsFitTheShards ==
    run # NoRun /\ ~NamedTwice =>
        /\ CanPlan(run.rows, run.buckets, run.hyperEval)
        /\ run.samples = SamplesPerBucket(run.rows, run.buckets, run.hyperEval)

RunIsTrainable == RunHasItsBase /\ BudgetsFitTheShards

(* "Fill unset arguments from a run config file": every setting of the run   *)
(* is the flag's where there is one, else the file's, else the default         *)
(* (newrun.py _apply_run_config).                                               *)
ConfigIsResolved ==
    run # NoRun =>
        /\ run.rank = First(asked.flags.rank, asked.file.rank)
        /\ run.class = First(First(asked.flags.class, asked.file.class), Open)
        /\ run.hyperEval = First(First(asked.flags.eval, asked.file.eval), DefaultEval)
=============================================================================
