------------------------------- MODULE Budget --------------------------------
(***************************************************************************)
(* How much work a claim is offered (ganymede/coordinator/budget.py): the  *)
(* arithmetic of plan_budget and of the throughput floor.  Rates are whole *)
(* steps per minute and target_passes is the fraction PassNum / PassDen,   *)
(* both floats in the code; every rounding of the code (math.floor,        *)
(* math.ceil, int(... // ...)) is kept.                                    *)
(***************************************************************************)
EXTENDS Integers

CONSTANTS
  SamplesPerStep,    \* micro_batch * grad_accum
  SamplesPerBucket,
  TotalBuckets,
  PassNum, PassDen,  \* target_passes
  Overhead,          \* est_download + est_upload + safety_margin + est_setup
  MinUsableSec,
  ColdStart,         \* cold_start_steps_per_min
  FloorNum, FloorDen \* throughput_floor_frac

ASSUME BudgetAssumption ==
  /\ SamplesPerStep \in Nat \ {0}
  /\ SamplesPerBucket \in Nat \ {0}
  /\ TotalBuckets \in Nat \ {0}
  /\ PassNum \in Nat \ {0}
  /\ PassDen \in Nat \ {0}
  /\ Overhead \in Nat
  /\ MinUsableSec \in Nat
  /\ ColdStart \in Nat \ {0}
  /\ FloorNum \in Nat
  /\ FloorDen \in Nat \ {0}

Larger(a, b) == IF a >= b THEN a ELSE b
Smaller(a, b) == IF a <= b THEN a ELSE b
CeilDiv(a, b) == (a + b - 1) \div b

\* Seconds of training left to a worker that claims now.
UsableSeconds(remaining) == Larger(0, remaining - Overhead)

\* The ladder measured, calibrated, cold start; 0 stands for "not known".
ResolveThroughput(measured, calibrated) ==
  IF measured > 0 THEN measured
  ELSE IF calibrated > 0 THEN calibrated ELSE ColdStart

StepBudget(rate, usable) == (rate * usable) \div 60

\* The buckets that a number of steps asks for, were there enough of them.
BucketsWanted(s) == CeilDiv(s * (SamplesPerStep * PassDen), SamplesPerBucket * PassNum)

BucketCount(s) == IF s <= 0 THEN 0 ELSE Larger(1, Smaller(BucketsWanted(s), TotalBuckets))

\* Mutation of StepsForBuckets: the passes are left out.
StepsForBucketsOnce(n) == (n * SamplesPerBucket) \div SamplesPerStep

StepsForBuckets(n) ==
  (n * (SamplesPerBucket * PassNum)) \div (SamplesPerStep * PassDen)

NoBudget == [steps |-> 0, buckets |-> 0]

\* The budget cut to what the shard supports, if it does not support it all.
CutTo(s, n) == [steps |-> Smaller(s, StepsForBuckets(n)), buckets |-> n]

PlanBudget(remaining, measured, calibrated) ==
  LET usable == UsableSeconds(remaining)
      wanted == StepBudget(ResolveThroughput(measured, calibrated), usable)
      plan == CutTo(wanted, BucketCount(wanted))
  IN  IF usable < MinUsableSec \/ wanted <= 0 \/ plan.steps <= 0
      THEN NoBudget ELSE plan

\* candidate >= floor_frac * median; the median comes doubled, as the sum of
\* the two middle values.  Without peers there is no floor.
MeetsFloor(candidate, twiceMedian) ==
  twiceMedian <= 0 \/ 2 * FloorDen * candidate >= FloorNum * twiceMedian

-----------------------------------------------------------------------------
\* A worker never passes over its shard more often than target_passes ("81
\* passes on a run configured for one", budget.py:216-224).
WithinTarget(plan) ==
  plan.steps * (SamplesPerStep * PassDen) <= plan.buckets * (SamplesPerBucket * PassNum)

\* No bucket of a shard is there for nothing: without it the shard would not
\* support the steps, or the shard is the whole dataset (budget.py:117-123).
NoSpareBucket(plan) ==
  plan.buckets \in 2 .. TotalBuckets - 1 =>
    plan.steps * (SamplesPerStep * PassDen) > (plan.buckets - 1) * (SamplesPerBucket * PassNum)

\* "Clamping here is a no-op whenever the cap did not bite" (budget.py:226):
\* only a plan that takes the whole dataset has fewer steps than time allows.
CutOnlyAtTheCap(plan, rate, usable) ==
  plan.buckets < TotalBuckets => plan.steps = StepBudget(rate, usable)

=============================================================================
