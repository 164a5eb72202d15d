---------------------------- MODULE FleetProofs -----------------------------
(***************************************************************************)
(* Proofs about module Fleet, and about the arithmetic of module Budget    *)
(* that it rests on.                                                       *)
(***************************************************************************)
EXTENDS Fleet, TLAPS

\* What the quotient of math.floor and // is, however large the divisor.
LEMMA DivBounds ==
  ASSUME NEW a \in Nat, NEW b \in Nat \ {0}
  PROVE  /\ a \div b \in Nat
         /\ (a \div b) * b <= a
         /\ a < (a \div b) * b + b
  <1>1. b \in Nat /\ b > 0
    OBVIOUS
  <1>2. a \div b \in Nat
    BY <1>1, SMT
  <1>3. a = (a \div b) * b + (a % b)
    BY <1>1, SMT
  <1>4. a % b \in 0 .. (b - 1)
    BY <1>1, SMT
  <1>5. (a \div b) * b \in Int
    BY <1>2
  <1> QED
    BY <1>2, <1>3, <1>4, <1>5

\* A product keeps the order of one factor.
LEMMA ProductIsMonotone ==
  ASSUME NEW a \in Nat, NEW b \in Nat, NEW c \in Nat, a <= b
  PROVE  a * c <= b * c
  BY SMT

\* The same for strict order and a positive factor, from right to left.
LEMMA ProductReflectsOrder ==
  ASSUME NEW a \in Nat, NEW b \in Nat, NEW c \in Nat \ {0}, a * c < b * c
  PROVE  a < b
  <1> SUFFICES ASSUME b <= a PROVE FALSE
    OBVIOUS
  <1>1. b * c <= a * c
    BY ProductIsMonotone
  <1>2. a * c \in Nat /\ b * c \in Nat
    OBVIOUS
  <1> QED
    BY <1>1, <1>2

\* math.ceil, as bucket_count uses it.
LEMMA CeilBounds ==
  ASSUME NEW a \in Nat, NEW b \in Nat \ {0}
  PROVE  /\ CeilDiv(a, b) \in Nat
         /\ a <= CeilDiv(a, b) * b
         /\ CeilDiv(a, b) * b < a + b
  <1>1. a + b - 1 \in Nat
    OBVIOUS
  <1>2. /\ (a + b - 1) \div b \in Nat
        /\ ((a + b - 1) \div b) * b <= a + b - 1
        /\ a + b - 1 < ((a + b - 1) \div b) * b + b
    BY <1>1, DivBounds
  <1>3. ((a + b - 1) \div b) * b \in Nat
    BY <1>2
  <1> QED
    BY <1>2, <1>3 DEF CeilDiv

\* steps_for_buckets never loses the steps the buckets were asked for
\* ("converting it back always returns at least local_steps", budget.py:227).
LEMMA QuotientCovers ==
  ASSUME NEW s \in Nat, NEW a \in Nat, NEW y \in Nat \ {0}, s * y <= a
  PROVE  s <= a \div y
  <1>1. a \div y \in Nat /\ a < (a \div y) * y + y
    BY DivBounds
  <1>2. (a \div y) * y + y = (a \div y + 1) * y
    BY <1>1, SMT
  <1>3. s * y \in Nat /\ (a \div y + 1) * y \in Nat /\ a \div y + 1 \in Nat
    BY <1>1
  <1>4. s * y < (a \div y + 1) * y
    BY <1>1, <1>2, <1>3
  <1>5. s < a \div y + 1
    BY <1>3, <1>4, ProductReflectsOrder
  <1> QED
    BY <1>1, <1>5

-----------------------------------------------------------------------------
\* Samples a bucket is worth, and samples a step takes, in units of PassDen.
LEMMA SampleSizes ==
  /\ SamplesPerBucket * PassNum \in Nat \ {0}
  /\ SamplesPerStep * PassDen \in Nat \ {0}
  BY BudgetAssumption, SMT

\* The buckets a budget is given are as many as it wants, or all there are.
LEMMA BucketCountIsWanted ==
  ASSUME NEW s \in Nat \ {0}
  PROVE  /\ BucketsWanted(s) \in Nat
         /\ BucketCount(s) \in 1 .. TotalBuckets
         /\ BucketCount(s) < TotalBuckets => BucketsWanted(s) <= BucketCount(s)
         /\ BucketCount(s) > 1 => BucketCount(s) <= BucketsWanted(s)
  <1> DEFINE Y == SamplesPerStep * PassDen
  <1>1. s * Y \in Nat
    BY SampleSizes
  <1>2. BucketsWanted(s) \in Nat
    BY <1>1, SampleSizes, CeilBounds DEF BucketsWanted
  <1> QED
    BY <1>2, BudgetAssumption DEF BucketCount, Larger, Smaller

\* What the cut of plan_budget leaves of a budget and its shard.
LEMMA CutFits ==
  ASSUME NEW s \in Nat \ {0}
  PROVE  LET plan == CutTo(s, BucketCount(s))
         IN  /\ plan.steps \in Nat
             /\ plan.steps <= s
             /\ plan.buckets \in 1 .. TotalBuckets
             /\ WithinTarget(plan)
             /\ NoSpareBucket(plan)
             /\ plan.buckets < TotalBuckets => plan.steps = s
  <1> DEFINE X == SamplesPerBucket * PassNum
             Y == SamplesPerStep * PassDen
             n == BucketCount(s)
             wanted == BucketsWanted(s)
             supported == StepsForBuckets(n)
             plan == CutTo(s, n)
  <1>1. X \in Nat \ {0} /\ Y \in Nat \ {0}
    BY SampleSizes
  <1>2. /\ wanted \in Nat
        /\ n \in 1 .. TotalBuckets
        /\ n < TotalBuckets => wanted <= n
        /\ n > 1 => n <= wanted
    BY BucketCountIsWanted
  <1>3. n \in Nat
    BY <1>2, BudgetAssumption
  <1>4. s * Y \in Nat /\ n * X \in Nat /\ wanted * X \in Nat
    BY <1>1, <1>2, <1>3
  <1>5. s * Y <= wanted * X /\ wanted * X < s * Y + X
    BY <1>1, <1>4, CeilBounds DEF BucketsWanted
  <1>6. supported \in Nat /\ supported * Y <= n * X
    BY <1>1, <1>4, DivBounds DEF StepsForBuckets
  <1>7. plan.steps \in Nat /\ plan.steps <= s /\ plan.steps <= supported
    BY <1>6 DEF CutTo, Smaller
  <1>8. plan.buckets = n
    BY DEF CutTo
  <1>9. plan.steps * Y <= plan.buckets * X
    <2>1. plan.steps * Y <= supported * Y
      BY <1>1, <1>6, <1>7, ProductIsMonotone
    <2>2. plan.steps * Y \in Nat /\ supported * Y \in Nat
      BY <1>1, <1>6, <1>7
    <2> QED
      BY <1>4, <1>6, <1>8, <2>1, <2>2
  <1>10. n < TotalBuckets => plan.steps = s
    <2> SUFFICES ASSUME n < TotalBuckets PROVE plan.steps = s
      OBVIOUS
    <2>1. wanted * X <= n * X
      BY <1>1, <1>2, <1>3, ProductIsMonotone
    <2>2. s * Y <= n * X
      BY <1>4, <1>5, <2>1
    <2>3. s <= supported
      BY <1>1, <1>4, <2>2, QuotientCovers DEF StepsForBuckets
    <2> QED
      BY <1>6, <2>3 DEF CutTo, Smaller
  <1>11. n \in 2 .. TotalBuckets - 1 => plan.steps * Y > (n - 1) * X
    <2> SUFFICES ASSUME n \in 2 .. TotalBuckets - 1 PROVE plan.steps * Y > (n - 1) * X
      OBVIOUS
    <2>1. n = wanted /\ plan.steps = s
      BY <1>2, <1>3, <1>10, BudgetAssumption
    <2>2. (n - 1) * X = n * X - X
      BY <1>1, <1>3, SMT
    <2> QED
      BY <1>1, <1>4, <1>5, <2>1, <2>2
  <1>12. WithinTarget(plan)
    BY <1>9 DEF WithinTarget
  <1>13. NoSpareBucket(plan)
    BY <1>8, <1>11 DEF NoSpareBucket
  <1> QED
    BY <1>2, <1>7, <1>8, <1>10, <1>12, <1>13

-----------------------------------------------------------------------------
\* The number of steps a time is worth is a number, and not above its share.
LEMMA StepBudgetBounds ==
  ASSUME NEW rate \in Nat, NEW usable \in Nat
  PROVE  StepBudget(rate, usable) \in Nat /\ StepBudget(rate, usable) * 60 <= rate * usable
  <1>1. rate * usable \in Nat /\ 60 \in Nat \ {0}
    BY SMT
  <1> QED
    BY <1>1, DivBounds DEF StepBudget

LEMMA UsableSecondsBounds ==
  ASSUME NEW time \in Int
  PROVE  UsableSeconds(time) \in Nat
  BY BudgetAssumption DEF UsableSeconds, Larger

LEMMA ThroughputIsPositive ==
  ASSUME NEW m \in Nat, NEW c \in Nat
  PROVE  ResolveThroughput(m, c) \in Nat \ {0} /\ (m > 0 => ResolveThroughput(m, c) = m)
  BY BudgetAssumption DEF ResolveThroughput

\* What plan_budget promises of every budget it offers, for every time left
\* and every estimate: budget.py:160-238.
THEOREM PlanBudgetFits ==
  ASSUME NEW time \in Int, NEW m \in Nat, NEW c \in Nat, PlanBudget(time, m, c) # NoBudget
  PROVE  LET plan == PlanBudget(time, m, c)
             rate == ResolveThroughput(m, c)
         IN  /\ plan.steps \in Nat
             /\ plan.steps <= StepBudget(rate, UsableSeconds(time))
             /\ plan.buckets \in 1 .. TotalBuckets
             /\ WithinTarget(plan)
             /\ NoSpareBucket(plan)
             /\ CutOnlyAtTheCap(plan, rate, UsableSeconds(time))
  <1> DEFINE usable == UsableSeconds(time)
             rate == ResolveThroughput(m, c)
             wanted == StepBudget(rate, usable)
  <1>1. wanted \in Nat
    BY UsableSecondsBounds, ThroughputIsPositive, StepBudgetBounds
  <1>2. wanted > 0 /\ PlanBudget(time, m, c) = CutTo(wanted, BucketCount(wanted))
    BY <1>1 DEF PlanBudget
  <1> QED
    BY <1>1, <1>2, CutFits DEF CutOnlyAtTheCap

-----------------------------------------------------------------------------
IInv ==
  /\ TypeOK
  /\ ShardsFit
  /\ CutOnlyWithoutData
  /\ EstimateIsObserved
  /\ MeasuredWorkFits

LEMMA FastestIsFastest ==
  ASSUME NEW c \in Classes
  PROVE  Fastest(c) \in Nat /\ \A q \in Speeds[c] : q \in Nat /\ q <= Fastest(c)
  <1>1. \E r \in Speeds[c] : \A q \in Speeds[c] : q <= r
    BY FleetAssumption
  <1>2. Fastest(c) \in Speeds[c] /\ \A q \in Speeds[c] : q <= Fastest(c)
    BY <1>1 DEF Fastest
  <1>3. Speeds[c] \subseteq Nat
    BY FleetAssumption
  <1> QED
    BY <1>2, <1>3

\* Folding in one observation keeps an estimate below the class's fastest.
LEMMA BlendBounds ==
  ASSUME NEW old \in Nat, NEW rate \in Nat, NEW top \in Nat, old <= top, rate <= top
  PROVE  Blend(old, rate) \in Nat /\ Blend(old, rate) <= top
  <1>1. 7 * old + 3 * rate \in Nat /\ 7 * old + 3 * rate <= 10 * top
    BY SMT
  <1>2. (7 * old + 3 * rate) \div 10 \in Nat /\ (7 * old + 3 * rate) \div 10 <= top
    BY <1>1, SMT
  <1> QED
    BY <1>2 DEF Blend

\* The offers of the new state carry work that offers of the old one carried.
SameWork ==
  \A j \in DOMAIN offers' : \E i \in DOMAIN offers :
    /\ offers'[j].worker = offers[i].worker
    /\ offers'[j].steps = offers[i].steps
    /\ offers'[j].buckets = offers[i].buckets
    /\ offers'[j].usable = offers[i].usable

\* A step that only updates or drops tasks keeps what is said of their work.
LEMMA SameWorkKeeps ==
  ASSUME IInv, SameWork, closing' \/ (~closing /\ measured' = measured)
  PROVE  ShardsFit' /\ CutOnlyWithoutData' /\ MeasuredWorkFits'
  <1>1. ShardsFit'
    BY DEF IInv, ShardsFit, SameWork, WithinTarget, NoSpareBucket
  <1>2. CutOnlyWithoutData'
    BY DEF IInv, CutOnlyWithoutData, SameWork, CutOnlyAtTheCap
  <1>3. MeasuredWorkFits'
    BY DEF IInv, MeasuredWorkFits, SameWork
  <1> QED
    BY <1>1, <1>2, <1>3

-----------------------------------------------------------------------------
LEMMA InitIInv == Init => IInv
  <1> SUFFICES ASSUME Init PROVE IInv
    OBVIOUS
  <1>1. TypeOK
    <2>1. measured \in [Classes -> Nat] /\ closing \in BOOLEAN
      BY DEF Init
    <2>2. remaining \in 0 .. MaxRoundSec
      BY FleetAssumption DEF Init
    <2>3. offers \in Seq(Offer)
      BY DEF Init
    <2>4. online \subseteq Workers /\ polled \subseteq online
      BY FleetAssumption DEF Init
    <2> QED
      BY <2>1, <2>2, <2>3, <2>4 DEF TypeOK
  <1>2. EstimateIsObserved
    BY FastestIsFastest DEF Init, EstimateIsObserved
  <1> QED
    BY <1>1, <1>2 DEF Init, IInv, ShardsFit, CutOnlyWithoutData, MeasuredWorkFits

\* A step on one task that changes how it stands and not what it is.
LEMMA TaskStep ==
  ASSUME IInv, ~closing, closing' = closing, measured' = measured,
         remaining' = remaining, online' = online, polled' = polled,
         NEW i \in DOMAIN offers, NEW task \in Offer,
         task.worker = offers[i].worker, task.steps = offers[i].steps,
         task.buckets = offers[i].buckets, task.usable = offers[i].usable,
         task.status = "submitted" => task.rate \in Speeds[ClassOf[task.worker]],
         offers' = [offers EXCEPT ![i] = task]
  PROVE  IInv'
  <1>1. offers \in Seq(Offer)
    BY DEF IInv, TypeOK
  <1>2. offers' \in Seq(Offer) /\ DOMAIN offers' = DOMAIN offers
    BY <1>1
  <1>3. offers'[i] = task /\ \A j \in DOMAIN offers : j # i => offers'[j] = offers[j]
    BY <1>1
  <1>4. SameWork
    BY <1>2, <1>3 DEF SameWork
  <1>5. TypeOK'
    BY <1>2 DEF IInv, TypeOK
  <1>6. EstimateIsObserved'
    BY <1>2, <1>3 DEF IInv, EstimateIsObserved
  <1> QED
    BY <1>4, <1>5, <1>6, SameWorkKeeps DEF IInv

LEMMA ClaimStep ==
  ASSUME IInv, NEW w \in Workers, Claim(w)
  PROVE  IInv'
  <1> DEFINE m == measured[ClassOf[w]]
             c == Calibrated[ClassOf[w]]
             plan == PlanFor(w)
             usable == UsableSeconds(remaining)
             new == [worker |-> w, steps |-> plan.steps, buckets |-> plan.buckets,
                     usable |-> usable, status |-> "leased", done |-> 0, rate |-> 0]
  <1>1. /\ ClassOf[w] \in Classes
        /\ m \in Nat
        /\ c \in Nat
        /\ remaining \in Int
        /\ usable \in Nat
    <2>1. ClassOf[w] \in Classes /\ c \in Nat
      BY FleetAssumption
    <2>2. m \in Nat
      BY <2>1 DEF IInv, TypeOK
    <2>3. remaining \in Int
      BY FleetAssumption DEF IInv, TypeOK
    <2> QED
      BY <2>1, <2>2, <2>3, UsableSecondsBounds
  <1>2. /\ plan.steps \in Nat
        /\ plan.steps <= StepBudget(ResolveThroughput(m, c), usable)
        /\ plan.buckets \in 1 .. TotalBuckets
        /\ WithinTarget(plan)
        /\ NoSpareBucket(plan)
        /\ CutOnlyAtTheCap(plan, ResolveThroughput(m, c), usable)
    BY <1>1, PlanBudgetFits DEF Claim, HasWorkFor, PlanFor
  <1>3. /\ ~closing
        /\ offers' = Append(offers, new)
        /\ polled' = polled \cup {w}
        /\ w \in online
        /\ UNCHANGED <<measured, remaining, closing, online>>
    BY DEF Claim, HasWorkFor
  <1>4. new \in Offer
    BY <1>1, <1>2, BudgetAssumption DEF Offer
  <1>5. offers \in Seq(Offer)
    BY DEF IInv, TypeOK
  <1>6. \A j \in DOMAIN offers' :
          (j \in DOMAIN offers /\ offers'[j] = offers[j]) \/ offers'[j] = new
    BY <1>3, <1>4, <1>5
  <1>7. TypeOK'
    BY <1>3, <1>4, <1>5 DEF IInv, TypeOK
  <1>8. ShardsFit'
    <2>1. WithinTarget(new) /\ NoSpareBucket(new)
      BY <1>2 DEF WithinTarget, NoSpareBucket
    <2> QED
      BY <1>6, <2>1 DEF IInv, ShardsFit
  <1>9. CutOnlyWithoutData'
    <2>1. CutOnlyAtTheCap(new, ResolveThroughput(m, c), new.usable) /\ new.worker = w
      BY <1>2 DEF CutOnlyAtTheCap
    <2> QED
      BY <1>3, <1>6, <2>1 DEF IInv, CutOnlyWithoutData
  <1>10. EstimateIsObserved'
    <2>1. new.status = "leased"
      OBVIOUS
    <2> QED
      BY <1>3, <1>6, <2>1 DEF IInv, EstimateIsObserved
  <1>11. MeasuredWorkFits'
    <2>1. m > 0 => new.steps * 60 <= Fastest(ClassOf[w]) * usable
      <3> SUFFICES ASSUME m > 0 PROVE new.steps * 60 <= Fastest(ClassOf[w]) * usable
        OBVIOUS
      <3> DEFINE top == Fastest(ClassOf[w])
                 budget == StepBudget(m, usable)
      <3>1. top \in Nat /\ m <= top
        BY <1>1, FastestIsFastest DEF IInv, EstimateIsObserved
      <3>2. budget \in Nat /\ budget * 60 <= m * usable
        BY <1>1, StepBudgetBounds
      <3>3. plan.steps <= budget
        BY <1>1, <1>2, ThroughputIsPositive
      <3>4. m * usable <= top * usable
        BY <1>1, <3>1, ProductIsMonotone
      <3>5. m * usable \in Nat /\ top * usable \in Nat
        BY <1>1, <3>1
      <3>6. plan.steps * 60 <= budget * 60
        BY <1>2, <3>2, <3>3
      <3>7. new.steps = plan.steps
        OBVIOUS
      <3> QED
        BY <1>2, <3>2, <3>4, <3>5, <3>6, <3>7
    <2>2. new.worker = w /\ new.usable = usable
      OBVIOUS
    <2> QED
      BY <1>3, <1>6, <2>1, <2>2 DEF IInv, MeasuredWorkFits
  <1> QED
    BY <1>7, <1>8, <1>9, <1>10, <1>11 DEF IInv

LEMMA SubmitStep ==
  ASSUME IInv, NEW i \in DOMAIN offers,
         NEW rate \in Speeds[ClassOf[offers[i].worker]], Submit(i, rate)
  PROVE  IInv'
  <1> DEFINE done == Smaller(offers[i].steps, StepsByDeadline(rate, offers[i].usable))
             task == [offers[i] EXCEPT !.status = "submitted", !.done = done, !.rate = rate]
  <1>1. offers[i] \in Offer
    BY DEF IInv, TypeOK
  <1>2. ClassOf[offers[i].worker] \in Classes
    BY <1>1, FleetAssumption DEF Offer
  <1>3. rate \in Nat
    BY <1>2, FastestIsFastest
  <1>4. StepsByDeadline(rate, offers[i].usable) \in Nat
    <2>1. offers[i].usable \in Nat
      BY <1>1 DEF Offer
    <2>2. CASE SetupSec > offers[i].usable
      BY <2>2 DEF StepsByDeadline
    <2>3. CASE ~(SetupSec > offers[i].usable)
      <3>1. offers[i].usable - SetupSec \in Nat
        BY <2>1, <2>3, FleetAssumption
      <3>2. StepBudget(rate, offers[i].usable - SetupSec) \in Nat
        BY <1>3, <3>1, StepBudgetBounds
      <3> QED
        BY <2>3, <3>2 DEF StepsByDeadline
    <2> QED
      BY <2>2, <2>3
  <1>5. done \in Nat
    BY <1>1, <1>4 DEF Offer, Smaller
  <1>6. task \in Offer
    BY <1>1, <1>3, <1>5 DEF Offer
  <1>7. /\ task.worker = offers[i].worker
        /\ task.steps = offers[i].steps
        /\ task.buckets = offers[i].buckets
        /\ task.usable = offers[i].usable
        /\ task.rate = rate
    BY <1>1 DEF Offer
  <1>8. offers' = [offers EXCEPT ![i] = task]
    BY DEF Submit
  <1>9. ~closing /\ UNCHANGED <<measured, remaining, closing, online, polled>>
    BY DEF Submit
  <1> HIDE DEF task
  <1> QED
    BY <1>6, <1>7, <1>8, <1>9, TaskStep

LEMMA AbandonStep ==
  ASSUME IInv, NEW i \in DOMAIN offers, Abandon(i)
  PROVE  IInv'
  <1> DEFINE task == [offers[i] EXCEPT !.status = "abandoned"]
  <1>1. offers[i] \in Offer
    BY DEF IInv, TypeOK
  <1>2. task \in Offer
    BY <1>1 DEF Offer
  <1>3. /\ task.worker = offers[i].worker
        /\ task.steps = offers[i].steps
        /\ task.buckets = offers[i].buckets
        /\ task.usable = offers[i].usable
        /\ task.status = "abandoned"
    BY <1>1 DEF Offer
  <1>4. offers' = [offers EXCEPT ![i] = task]
    BY DEF Abandon
  <1>5. ~closing /\ UNCHANGED <<measured, remaining, closing, online, polled>>
    BY DEF Abandon
  <1> HIDE DEF task
  <1> QED
    BY <1>2, <1>3, <1>4, <1>5, TaskStep

\* A step that only drops tasks.
LEMMA DropStep ==
  ASSUME IInv, offers' \in Seq(Offer), UNCHANGED <<remaining, closing, online, polled>>,
         measured' \in [Classes -> Nat], \A c \in Classes : measured'[c] <= Fastest(c),
         closing \/ measured' = measured,
         \A j \in DOMAIN offers' : \E i \in DOMAIN offers : offers'[j] = offers[i]
  PROVE  IInv'
  <1>1. SameWork
    BY DEF SameWork
  <1>2. TypeOK'
    BY DEF IInv, TypeOK
  <1>3. EstimateIsObserved'
    BY DEF IInv, EstimateIsObserved
  <1> QED
    BY <1>1, <1>2, <1>3, SameWorkKeeps DEF IInv, TypeOK

LEMMA ExpireStep ==
  ASSUME IInv, NEW i \in DOMAIN offers, Expire(i)
  PROVE  IInv'
  <1> DEFINE front == SubSeq(offers, 1, i - 1)
             back == SubSeq(offers, i + 1, Len(offers))
  <1>1. offers \in Seq(Offer) /\ i \in 1 .. Len(offers)
    BY DEF IInv, TypeOK
  <1>2. /\ front \in Seq(Offer) /\ Len(front) = i - 1
        /\ \A j \in 1 .. i - 1 : front[j] = offers[j]
    BY <1>1
  <1>3. /\ back \in Seq(Offer) /\ Len(back) = Len(offers) - i
        /\ \A j \in 1 .. Len(offers) - i : back[j] = offers[i + j]
    BY <1>1
  <1>4. offers' = front \o back
    BY DEF Expire
  <1> HIDE DEF front, back
  <1>5. offers' \in Seq(Offer)
    BY <1>2, <1>3, <1>4
  <1>6. \A j \in DOMAIN offers' : \E k \in DOMAIN offers : offers'[j] = offers[k]
    <2>1. DOMAIN offers = 1 .. Len(offers) /\ Len(offers) \in Nat
      BY <1>1
    <2>2. DOMAIN offers' = 1 .. (i - 1) + (Len(offers) - i)
      BY <1>1, <1>2, <1>3, <1>4, <2>1
    <2>3. SUFFICES ASSUME NEW j \in 1 .. (i - 1) + (Len(offers) - i)
                   PROVE  \E k \in 1 .. Len(offers) : offers'[j] = offers[k]
      BY <2>1, <2>2
    <2>4. CASE j <= i - 1
      <3>1. offers'[j] = front[j]
        BY <1>1, <1>2, <1>3, <1>4, <2>1, <2>4
      <3> QED
        BY <1>1, <1>2, <2>1, <2>4, <3>1
    <2>5. CASE j > i - 1
      <3>1. j - (i - 1) \in 1 .. Len(offers) - i
        BY <1>1, <2>1, <2>5
      <3>2. j > Len(front) /\ j <= Len(front) + Len(back)
        BY <1>1, <1>2, <1>3, <2>1, <2>5
      <3>3. offers'[j] = back[j - Len(front)]
        BY <1>2, <1>3, <1>4, <3>2
      <3>4. i + (j - (i - 1)) = j + 1 /\ j + 1 \in 1 .. Len(offers)
        BY <1>1, <2>1, <2>5
      <3>5. back[j - (i - 1)] = offers[i + (j - (i - 1))]
        BY <1>3, <3>1
      <3> QED
        BY <1>2, <3>3, <3>4, <3>5
    <2> QED
      BY <1>1, <2>1, <2>4, <2>5
  <1>7. ~closing /\ UNCHANGED <<measured, remaining, closing, online, polled>>
    BY DEF Expire
  <1> QED
    BY <1>5, <1>6, <1>7, DropStep DEF IInv, TypeOK, EstimateIsObserved

\* Folding one submission in, the round being closed.
LEMMA UpdateThroughputStep ==
  ASSUME IInv, UpdateThroughput
  PROVE  IInv'
  <1> DEFINE c == ClassOf[offers[1].worker]
             rate == offers[1].rate
  <1>1. offers \in Seq(Offer) /\ offers # <<>> /\ closing
    BY DEF IInv, TypeOK, UpdateThroughput
  <1>2. 1 \in DOMAIN offers /\ offers[1] \in Offer
    BY <1>1
  <1>3. offers' = Tail(offers) /\ UNCHANGED <<remaining, closing, online, polled>>
    BY DEF UpdateThroughput
  <1>4. offers' \in Seq(Offer)
        /\ \A j \in DOMAIN offers' : \E i \in DOMAIN offers : offers'[j] = offers[i]
    <2>1. /\ offers' \in Seq(Offer)
          /\ DOMAIN offers' = 1 .. Len(offers) - 1
          /\ \A j \in 1 .. Len(offers) - 1 : offers'[j] = offers[j + 1]
      BY <1>1, <1>3
    <2>2. DOMAIN offers = 1 .. Len(offers) /\ Len(offers) \in Nat
      BY <1>1
    <2> QED
      BY <2>1, <2>2
  <1>5. /\ measured' \in [Classes -> Nat]
        /\ \A d \in Classes : measured'[d] <= Fastest(d)
    <2>1. measured \in [Classes -> Nat] /\ \A d \in Classes : measured[d] <= Fastest(d)
      BY DEF IInv, TypeOK, EstimateIsObserved
    <2>2. CASE ~Contributes(1)
      BY <2>1, <2>2 DEF UpdateThroughput
    <2>3. CASE Contributes(1)
      <3>1. c \in Classes
        BY <1>2, FleetAssumption DEF Offer
      <3>2. rate \in Speeds[c]
        BY <1>2, <2>3 DEF IInv, EstimateIsObserved, Contributes
      <3>3. rate \in Nat /\ rate <= Fastest(c) /\ Fastest(c) \in Nat
        BY <3>1, <3>2, FastestIsFastest
      <3>4. Blend(measured[c], rate) \in Nat /\ Blend(measured[c], rate) <= Fastest(c)
        BY <2>1, <3>1, <3>3, BlendBounds
      <3>5. measured' = [measured EXCEPT ![c] = Blend(measured[c], rate)]
        BY <2>3 DEF UpdateThroughput
      <3> QED
        BY <2>1, <3>1, <3>4, <3>5
    <2> QED
      BY <2>2, <2>3
  <1> QED
    BY <1>1, <1>3, <1>4, <1>5, DropStep

LEMMA NextIInv == IInv /\ [Next]_vars => IInv'
  <1> SUFFICES ASSUME IInv, [Next]_vars PROVE IInv'
    OBVIOUS
  <1> USE DEF IInv
  <1>1. TypeOK
    OBVIOUS
  <1>2. ASSUME NEW w \in Workers, Register(w) PROVE IInv'
    <2>1. UNCHANGED <<measured, remaining, closing, offers, polled>>
      BY <1>2 DEF Register
    <2>2. TypeOK'
      BY <1>1, <1>2, <2>1 DEF Register, TypeOK
    <2> QED
      BY <2>1, <2>2 DEF ShardsFit, CutOnlyWithoutData, EstimateIsObserved, MeasuredWorkFits
  <1>3. ASSUME NEW w \in Workers, TurnAway(w) PROVE IInv'
    <2>1. UNCHANGED <<measured, remaining, closing, offers, online>>
      BY <1>3 DEF TurnAway
    <2>2. TypeOK'
      BY <1>1, <1>3, <2>1 DEF TurnAway, TypeOK
    <2> QED
      BY <2>1, <2>2 DEF ShardsFit, CutOnlyWithoutData, EstimateIsObserved, MeasuredWorkFits
  <1>4. ASSUME TimePasses PROVE IInv'
    <2>1. UNCHANGED <<measured, closing, offers, online>> /\ polled' = {}
      BY <1>4 DEF TimePasses
    <2>2. remaining' \in 0 .. MaxRoundSec
      BY <1>1, <1>4, FleetAssumption DEF TimePasses, Larger, TypeOK
    <2>3. TypeOK'
      <3>1. polled' \subseteq online'
        BY <2>1
      <3> QED
        BY <1>1, <2>1, <2>2, <3>1 DEF TypeOK
    <2> QED
      BY <2>1, <2>3 DEF ShardsFit, CutOnlyWithoutData, EstimateIsObserved, MeasuredWorkFits
  <1>5. ASSUME CloseRound PROVE IInv'
    <2>1. UNCHANGED <<measured, remaining, offers, online, polled>> /\ closing' = TRUE
      BY <1>5 DEF CloseRound
    <2> QED
      BY <1>1, <2>1
      DEF TypeOK, ShardsFit, CutOnlyWithoutData, EstimateIsObserved, MeasuredWorkFits
  <1>6. ASSUME OpenNextRound PROVE IInv'
    <2>1. /\ UNCHANGED <<measured, offers, online, polled>>
          /\ closing' = FALSE
          /\ remaining' = MaxRoundSec
          /\ offers = <<>>
      BY <1>6 DEF OpenNextRound
    <2>2. TypeOK'
      <3>1. remaining' \in 0 .. MaxRoundSec
        BY <2>1, FleetAssumption
      <3> QED
        BY <1>1, <2>1, <3>1 DEF TypeOK
    <2> QED
      BY <2>1, <2>2 DEF ShardsFit, CutOnlyWithoutData, EstimateIsObserved, MeasuredWorkFits
  <1>7. ASSUME ReopenEmpty PROVE IInv'
    <2>1. /\ UNCHANGED <<measured, closing, offers, online, polled>>
          /\ remaining' = MaxRoundSec
      BY <1>7 DEF ReopenEmpty
    <2>2. TypeOK'
      <3>1. remaining' \in 0 .. MaxRoundSec
        BY <2>1, FleetAssumption
      <3> QED
        BY <1>1, <2>1, <3>1 DEF TypeOK
    <2> QED
      BY <2>1, <2>2 DEF ShardsFit, CutOnlyWithoutData, EstimateIsObserved, MeasuredWorkFits
  <1>8. CASE UNCHANGED vars
    BY <1>1, <1>8
    DEF vars, TypeOK, ShardsFit, CutOnlyWithoutData, EstimateIsObserved, MeasuredWorkFits
  <1> QED
    BY <1>2, <1>3, <1>4, <1>5, <1>6, <1>7, <1>8, ClaimStep, SubmitStep, AbandonStep,
       ExpireStep, UpdateThroughputStep DEF Next

\* The fleet invariant: types, budgets, estimates and measured work, together.
THEOREM FleetInvariant == Spec => []IInv
  <1> QED
    BY InitIInv, NextIInv, PTL DEF Spec

\* Estimates, offers and the clock keep their types.
THEOREM TypeCorrect == Spec => []TypeOK
  BY FleetInvariant, PTL DEF IInv

\* The budgets and shards of every fleet, dataset and round length fit each
\* other in every reachable state, and work is cut only where the dataset has
\* run out (budget.py:107-133, 203-238).
THEOREM BudgetsAlwaysFit == Spec => []BudgetsFit
  <1>1. IInv => BudgetsFit
    BY DEF IInv, BudgetsFit
  <1> QED
    BY <1>1, FleetInvariant, PTL

\* No estimate rises above what its class has shown (rounds.py:600-606).
THEOREM EstimatesAreObserved == Spec => []EstimateIsObserved
  BY FleetInvariant, PTL DEF IInv

\* A measured machine can do its task in the time it was sized for.
THEOREM MeasuredWorkAlwaysFits == Spec => []MeasuredWorkFits
  BY FleetInvariant, PTL DEF IInv

=============================================================================
