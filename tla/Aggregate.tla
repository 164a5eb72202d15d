----------------------------- MODULE Aggregate -----------------------------
(***************************************************************************)
(* The arithmetic of a close, coordinator/aggregate.py, on the accepted     *)
(* submissions of one round: the norm gate over the whole cohort, the       *)
(* weights with their dominance cap, and the outer step in "mean" mode.     *)
(*                                                                         *)
(* Tensors have one element, so that a norm is an absolute value.  Shares   *)
(* are kept as whole numbers up to their common total, which neither the    *)
(* clamp nor the mean depends on; the outer step with lr_outer = 1 and      *)
(* beta = 0 is the weighted mean, kept as the sum and the total weight.     *)
(***************************************************************************)
EXTENDS Integers, FiniteSets, Sequences, SequencesExt

CONSTANTS
    Tensors,
    NormFactor,     \* close_round's norm_k
    Cohorts         \* the cohorts a behaviour may start from

Submissions == [steps : Nat \ {0}, value : [Tensors -> Int]]

ASSUME AggregateAssumption ==
    /\ NormFactor \in Nat \ {0}
    /\ Cohorts \subseteq Seq(Submissions)

VARIABLES
    stage,          \* "norms", "weights", "combine", "closed"
    cohort,         \* steps and adapter of each submission, as received
    judged,         \* how many check_norms has looked at
    survivors,      \* the positions of those it passed, in order
    shares,         \* weights of the surviving submissions
    passes,         \* turns of the clamping loop
    sums            \* w_sum so far, per tensor the weighted sum, the summands

aggVars == <<stage, cohort, judged, survivors, shares, passes, sums>>

MaxPasses == 10
Abs(x) == IF x < 0 THEN -x ELSE x
Norm(i, t) == Abs(cohort[i].value[t])

(* sorted(s)[k - 1], and twice the median: the two values in the middle,     *)
(* which are one and the same if their number is odd                           *)
Below(s, x) == {i \in DOMAIN s : s[i] < x}
UpTo(s, x) == {i \in DOMAIN s : s[i] <= x}
Smallest(s, k) == CHOOSE x \in {s[i] : i \in DOMAIN s} :
    Cardinality(Below(s, x)) < k /\ k <= Cardinality(UpTo(s, x))
TwiceMedian(s) == Smallest(s, (Len(s) + 1) \div 2) + Smallest(s, Len(s) \div 2 + 1)
Norms(t) == [i \in DOMAIN cohort |-> Norm(i, t)]

NoSums == [done |-> 0, weight |-> 0, of |-> [t \in Tensors |-> 0]]

AggTypeOK ==
    /\ stage \in {"norms", "weights", "combine", "closed"}
    /\ cohort \in Seq(Submissions) /\ judged \in 0..Len(cohort)
    /\ survivors \in Seq(1..judged) /\ shares \in Seq(Nat \ {0})
    /\ passes \in 0..MaxPasses
    /\ sums \in [done : 0..Len(shares), weight : Nat, of : [Tensors -> Int]]

AggInit(cohorts) ==
    /\ stage = "norms" /\ cohort \in cohorts
    /\ judged = 0 /\ survivors = <<>> /\ shares = <<>> /\ passes = 0 /\ sums = NoSums

-----------------------------------------------------------------------------
(* gate 4: an outlier on any tensor that the median worker has touched *)
IsOutlier(i) ==
    \E t \in Tensors :
        /\ TwiceMedian(Norms(t)) # 0
        /\ 2 * Norm(i, t) > NormFactor * TwiceMedian(Norms(t))
PassesNormGate(i) == Len(cohort) < 3 \/ ~IsOutlier(i)

CheckNorms ==
    /\ stage = "norms" /\ judged < Len(cohort)
    /\ judged' = judged + 1
    /\ survivors' = IF PassesNormGate(judged') THEN Append(survivors, judged') ELSE survivors
    /\ UNCHANGED <<stage, cohort, shares, passes, sums>>

(* a cohort that is rejected whole closes the round with no result *)
StartWeights ==
    /\ stage = "norms" /\ judged = Len(cohort)
    /\ stage' = IF survivors = <<>> THEN "closed" ELSE "weights"
    /\ shares' = [i \in DOMAIN survivors |-> cohort[survivors[i]].steps]
    /\ UNCHANGED <<cohort, judged, survivors, passes, sums>>

(* the limit is the cap of 2 times the median of the current shares *)
LimitOfTheMean == (2 * FoldSeq(+, 0, shares)) \div Len(shares)
Limit == TwiceMedian(shares)
Clamped == [i \in DOMAIN shares |-> IF shares[i] > Limit THEN Limit ELSE shares[i]]
HasCap == Len(shares) >= 3

ClampPass ==
    /\ stage = "weights" /\ HasCap /\ passes < MaxPasses
    /\ shares' = Clamped /\ passes' = passes + 1
    /\ stage' = IF Clamped = shares THEN "combine" ELSE stage
    /\ UNCHANGED <<cohort, judged, survivors, sums>>

EndClamping ==
    /\ stage = "weights" /\ (~HasCap \/ passes = MaxPasses)
    /\ stage' = "combine"
    /\ UNCHANGED <<cohort, judged, survivors, shares, passes, sums>>

Accumulate ==
    /\ stage = "combine" /\ sums.done < Len(shares)
    /\ LET i == sums.done + 1
       IN sums' = [done |-> i, weight |-> sums.weight + shares[i],
                   of |-> [t \in Tensors |->
                        sums.of[t] + shares[i] * cohort[survivors[i]].value[t]]]
    /\ UNCHANGED <<stage, cohort, judged, survivors, shares, passes>>

OuterStep ==
    /\ stage = "combine" /\ sums.done = Len(shares)
    /\ stage' = "closed"
    /\ UNCHANGED <<cohort, judged, survivors, shares, passes, sums>>

AggNext == CheckNorms \/ StartWeights \/ ClampPass \/ EndClamping
           \/ Accumulate \/ OuterStep

AggSpec == AggInit(Cohorts) /\ [][AggNext]_aggVars

-----------------------------------------------------------------------------
HasResult == stage = "closed" /\ survivors # <<>>

(* The weights the loop ends with respect the cap against their own median,  *)
(* after at most two of its ten passes, and whoever did more steps never      *)
(* weighs less (aggregate.py dense_weights).                                   *)
DominanceIsCapped ==
    stage = "combine" =>
        /\ HasCap => \A i \in DOMAIN shares : shares[i] <= TwiceMedian(shares)
        /\ passes <= 2
        /\ \A i, j \in DOMAIN shares :
            cohort[survivors[i]].steps <= cohort[survivors[j]].steps => shares[i] <= shares[j]

(* Every survivor counts, and none moves the result out of the range of the   *)
(* others: it lies among the survivors' values, and for a tensor the median    *)
(* worker touched within the gate's factor of the whole cohort's median norm   *)
(* (aggregate.py check_norms, combine).                                        *)
ResultIsNoOutlier ==
    HasResult => \A t \in Tensors :
        /\ Len(survivors) <= sums.weight
        /\ \E i, j \in DOMAIN survivors :
            /\ sums.weight * cohort[survivors[i]].value[t] <= sums.of[t]
            /\ sums.of[t] <= sums.weight * cohort[survivors[j]].value[t]
        /\ Len(cohort) >= 3 /\ TwiceMedian(Norms(t)) # 0 =>
            2 * Abs(sums.of[t]) <= NormFactor * TwiceMedian(Norms(t)) * sums.weight
AggregationIsFair == DominanceIsCapped /\ ResultIsNoOutlier
=============================================================================
