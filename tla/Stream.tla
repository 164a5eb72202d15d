------------------------------- MODULE Stream -------------------------------
(***************************************************************************)
(* The micro-batches a training loop draws from its shard, trainer/data.py  *)
(* micro_batches as train.py task_stream calls it: passes over the assigned *)
(* rows in an order of their own, each cut into batches of the same size,   *)
(* for as long as the loop asks.  The order of a pass is any order.          *)
(***************************************************************************)
EXTENDS Partition, FiniteSets, FiniteSetsExt

CONSTANTS
    Plans,          \* partitions and assignments a worker may be given
    MicroBatches,   \* sizes of a micro-batch
    MaxDrawn        \* bound: micro-batches a loop asks for

ASSUME StreamAssumption ==
    /\ \A p \in Plans : /\ p.rows \in Nat /\ p.buckets \in Nat /\ p.evalSize \in Nat
                        /\ CanPlan(p.rows, p.buckets, p.evalSize)
                        /\ p.assigned \subseteq 0..(p.buckets - 1)
    /\ MicroBatches \subseteq Nat \ {0} /\ MaxDrawn \in Nat \ {0}

VARIABLES
    plan,           \* the worker's task: its partition, its buckets
    micro,          \* micro_batch of the run
    streaming,      \* "start", "draw", "refused" or "done"
    epoch,          \* passes completed
    rest,           \* rows of the current pass still to come
    drawn,          \* micro-batches drawn
    uses            \* how often each row was drawn

streamVars == <<plan, micro, streaming, epoch, rest, drawn, uses>>

Shard == RowsFor(plan.assigned, plan.rows, plan.buckets, plan.evalSize)

StreamTypeOK ==
    /\ plan \in Plans /\ micro \in MicroBatches
    /\ streaming \in {"start", "draw", "refused", "done"}
    /\ epoch \in 0..MaxDrawn /\ drawn \in 0..MaxDrawn
    /\ rest \subseteq 0..(plan.rows - 1)
    /\ uses \in [0..(plan.rows - 1) -> 0..MaxDrawn]

StreamInit(plans, micros) ==
    /\ plan \in plans /\ micro \in micros
    /\ streaming = "start" /\ epoch = 0 /\ rest = {} /\ drawn = 0
    /\ uses = [r \in 0..(plan.rows - 1) |-> 0]

NothingAssigned == Shard = {}

(* a shard smaller than a batch is refused: it would never yield one *)
TooSmall == Cardinality(Shard) < micro

StartStream ==
    /\ streaming = "start"
    /\ streaming' = IF TooSmall THEN "refused" ELSE "draw"
    /\ rest' = Shard
    /\ UNCHANGED <<plan, micro, epoch, drawn, uses>>

NextBatch ==
    /\ streaming = "draw" /\ drawn < MaxDrawn
    /\ \E batch \in kSubset(micro, rest) :
        /\ rest' = rest \ batch
        /\ uses' = [r \in DOMAIN uses |-> IF r \in batch THEN uses[r] + 1 ELSE uses[r]]
    /\ drawn' = drawn + 1
    /\ UNCHANGED <<plan, micro, streaming, epoch>>

(* what is left of a pass and does not fill a batch is dropped *)
NextPass ==
    /\ streaming = "draw" /\ drawn < MaxDrawn
    /\ Cardinality(rest) < micro /\ epoch < MaxDrawn
    /\ epoch' = epoch + 1 /\ rest' = Shard
    /\ UNCHANGED <<plan, micro, streaming, drawn, uses>>

EndStream ==
    /\ streaming = "draw" /\ drawn = MaxDrawn
    /\ streaming' = "done"
    /\ UNCHANGED <<plan, micro, epoch, rest, drawn, uses>>

StreamNext == StartStream \/ NextBatch \/ NextPass \/ EndStream

StreamSpec == StreamInit(Plans, MicroBatches) /\ [][StreamNext]_streamVars

-----------------------------------------------------------------------------
(* What a worker trains on is its shard, evenly: nothing held out and        *)
(* nothing of another worker's buckets, no row more often than passes were    *)
(* begun, and whole batches but for the end of each pass (data.py             *)
(* plan_partition, rows_for, micro_batches).                                   *)
Elsewhere == (0..(plan.buckets - 1)) \ plan.assigned
ShardIsStreamed ==
    LET size == SamplesPerBucket(plan.rows, plan.buckets, plan.evalSize)
        perPass == (Cardinality(plan.assigned) * size) \div micro
    IN /\ \A r \in HeldOut(plan.evalSize) \union
                   RowsFor(Elsewhere, plan.rows, plan.buckets, plan.evalSize) : uses[r] = 0
       /\ \A r \in DOMAIN uses : uses[r] <= epoch + 1
       /\ streaming \in {"draw", "done"} =>
            epoch * perPass <= drawn /\ drawn <= (epoch + 1) * perPass

(* The stream delivers every batch it is asked for, or refuses the shard at  *)
(* once; it never spins through empty passes (data.py micro_batches:          *)
(* "an infinite loop incrementing an epoch counter").                          *)
StreamDelivers == <>(streaming \in {"refused", "done"})
=============================================================================
