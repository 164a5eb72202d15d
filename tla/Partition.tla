----------------------------- MODULE Partition -----------------------------
(***************************************************************************)
(* The split of a dataset every party derives for itself, trainer/data.py   *)
(* plan_partition.  A row is named by its position in the permutation of    *)
(* data_seed, which is the same for everybody who has the same seed.         *)
(***************************************************************************)
EXTENDS Integers

(* plan_partition raises on anything else *)
CanPlan(rows, buckets, evalSize) ==
    /\ rows > 0 /\ buckets >= 1 /\ evalSize >= 0
    /\ rows - evalSize >= buckets

SamplesPerBucket(rows, buckets, evalSize) == (rows - evalSize) \div buckets
Dropped(rows, buckets, evalSize) ==
    rows - evalSize - buckets * SamplesPerBucket(rows, buckets, evalSize)

(* positions, counted from 0 *)
HeldOut(evalSize) == 0..(evalSize - 1)
BucketStartFromZero(b, size, evalSize) == b * size
BucketStart(b, size, evalSize) == evalSize + b * size
BucketRows(b, size, evalSize) ==
    BucketStart(b, size, evalSize)..(BucketStart(b, size, evalSize) + size - 1)
RowsFor(assigned, rows, buckets, evalSize) ==
    UNION {BucketRows(b, SamplesPerBucket(rows, buckets, evalSize), evalSize) : b \in assigned}
=============================================================================
