------------------------------- MODULE Fleet --------------------------------
(***************************************************************************)
(* The offers of a run, round after round: claim_task's choice of a step   *)
(* budget (rounds.py:323-410 with budget.py), the throughput floor, and    *)
(* the estimate that a close folds back in (closer.py:309-315,             *)
(* rounds.py:593-630).  One machine per worker; what a claim does to       *)
(* leases, buckets and rounds is module Rounds.  The run is one that goes  *)
(* on: target_rounds is not reached.                                       *)
(***************************************************************************)
EXTENDS Budget, Sequences, FiniteSets

CONSTANTS
  Workers,
  Classes,       \* GPU models
  ClassOf,       \* the profile's device_name, by worker
  Calibrated,    \* calibration.json, by class; 0 where it has no entry
  Speeds,        \* the steps per minute a class may show in a round
  SetupSec,      \* what loading the model really takes
  MaxRoundSec,
  Tick,          \* the seconds that one step of model time takes
  TargetSteps,   \* rounds.target_steps
  MinRoundSec,
  Late,          \* the workers that register after the run has started
  Leaving,       \* the workers that may drop a task they hold
  MaxOffers      \* bound: the tasks one worker is issued in a round

ASSUME FleetAssumption ==
  /\ ClassOf \in [Workers -> Classes]
  /\ Calibrated \in [Classes -> Nat]
  /\ Speeds \in [Classes -> SUBSET (Nat \ {0})]
  /\ \A c \in Classes : \E r \in Speeds[c] : \A q \in Speeds[c] : q <= r
  /\ SetupSec \in Nat
  /\ MaxRoundSec \in Nat
  /\ Tick \in Nat \ {0}
  /\ TargetSteps \in Nat
  /\ MinRoundSec \in Nat
  /\ Late \subseteq Workers
  /\ Leaving \subseteq Workers
  /\ MaxOffers \in Nat

VARIABLES
  measured,   \* the throughput table: steps_per_min by class, 0 for no row
  remaining,  \* max_round_sec less the round's elapsed seconds
  closing,    \* the round is closed and the next one not open yet
  offers,     \* the round's tasks that have not expired, as they were issued
  online,     \* the registered workers
  polled      \* the workers that have asked for work since time last passed

vars == <<measured, remaining, closing, offers, online, polled>>

Offer == [worker : Workers, steps : Nat, buckets : Nat, usable : Nat,
          status : {"leased", "submitted", "abandoned"}, done : Nat, rate : Nat]

Init ==
  /\ measured = [c \in Classes |-> 0]
  /\ remaining = MaxRoundSec
  /\ closing = FALSE
  /\ offers = <<>>
  /\ online = Workers \ Late
  /\ polled = {}

-----------------------------------------------------------------------------
(* Claiming.                                                               *)

PlanFor(w) == PlanBudget(remaining, measured[ClassOf[w]], Calibrated[ClassOf[w]])

HasLease(w) == \E i \in DOMAIN offers : offers[i].worker = w /\ offers[i].status = "leased"

\* The k-th smallest budget of the round's tasks, abandoned ones and the
\* claimant's own included (WHERE status != 'expired').
NthBudget(k) ==
  CHOOSE s \in {offers[i].steps : i \in DOMAIN offers} :
    /\ Cardinality({i \in DOMAIN offers : offers[i].steps < s}) < k
    /\ Cardinality({i \in DOMAIN offers : offers[i].steps <= s}) >= k

\* The sum of the two middle budgets, the middle one counted twice if there
\* is only one.
TwiceMedian ==
  LET n == Len(offers)
  IN  IF n = 0 THEN 0
      ELSE IF n % 2 = 1 THEN 2 * NthBudget(n \div 2 + 1)
      ELSE NthBudget(n \div 2) + NthBudget(n \div 2 + 1)

HasWorkFor(w) ==
  /\ ~closing
  /\ PlanFor(w) # NoBudget
  /\ MeetsFloor(PlanFor(w).steps, TwiceMedian)

Issued(w) == Cardinality({i \in DOMAIN offers : offers[i].worker = w})

Register(w) ==
  /\ w \notin online
  /\ online' = online \cup {w}
  /\ UNCHANGED <<measured, remaining, closing, offers, polled>>

Claim(w) ==
  /\ w \in online
  /\ ~HasLease(w)
  /\ HasWorkFor(w)
  /\ Issued(w) < MaxOffers
  /\ offers' = Append(offers,
       [worker |-> w, steps |-> PlanFor(w).steps, buckets |-> PlanFor(w).buckets,
        usable |-> UsableSeconds(remaining), status |-> "leased", done |-> 0, rate |-> 0])
  /\ polled' = polled \cup {w}
  /\ UNCHANGED <<measured, remaining, closing, online>>

\* 204, or 403 below the floor: the worker sleeps until it polls again.
TurnAway(w) ==
  /\ w \in online
  /\ ~HasLease(w)
  /\ ~HasWorkFor(w)
  /\ polled' = polled \cup {w}
  /\ UNCHANGED <<measured, remaining, closing, offers, online>>

\* The steps a trainer can do: its deadline is max_runtime_sec, which is the
\* usable time, counted from before setup; a step begun is ended.
StepsByDeadline(rate, usable) ==
  IF SetupSec > usable THEN 0 ELSE StepBudget(rate, usable - SetupSec) + 1

\* The worker trains at some speed until its steps are done or its deadline
\* is reached, and reports how far and how fast it got.
Submit(i, rate) ==
  /\ ~closing
  /\ offers[i].status = "leased"
  /\ offers' = [offers EXCEPT ![i] =
       [@ EXCEPT !.status = "submitted",
                 !.done = Smaller(offers[i].steps, StepsByDeadline(rate, offers[i].usable)),
                 !.rate = rate]]
  /\ UNCHANGED <<measured, remaining, closing, online, polled>>

\* Mutation of Abandon: the status that section 3.1 of the architecture names.
AbandonToPending(i) ==
  /\ ~closing
  /\ offers[i].status = "leased"
  /\ offers[i].worker \in Leaving
  /\ offers' = [offers EXCEPT ![i] = [@ EXCEPT !.status = "pending"]]
  /\ UNCHANGED <<measured, remaining, closing, online, polled>>

Abandon(i) ==
  /\ ~closing
  /\ offers[i].status = "leased"
  /\ offers[i].worker \in Leaving
  /\ offers' = [offers EXCEPT ![i] = [@ EXCEPT !.status = "abandoned"]]
  /\ UNCHANGED <<measured, remaining, closing, online, polled>>

Expire(i) ==
  /\ ~closing
  /\ offers[i].status = "leased"
  /\ offers[i].worker \in Leaving
  /\ offers' = SubSeq(offers, 1, i - 1) \o SubSeq(offers, i + 1, Len(offers))
  /\ UNCHANGED <<measured, remaining, closing, online, polled>>

-----------------------------------------------------------------------------
(* Rounds.                                                                 *)

\* A Tick is longer than poll_interval_sec, so every idle worker polls in it,
\* and a task's max_runtime_sec is over before the round is.
TimePasses ==
  /\ ~closing
  /\ remaining > 0
  /\ \A w \in online : w \in polled \/ HasLease(w) \/ Issued(w) = MaxOffers
  /\ remaining <= Tick => \A w \in online \ Leaving : ~HasLease(w)
  /\ remaining' = Larger(0, remaining - Tick)
  /\ polled' = {}
  /\ UNCHANGED <<measured, closing, offers, online>>

\* The accepted submissions: gate 5 turns down one without a step.
Contributes(i) == offers[i].status = "submitted" /\ offers[i].done > 0

RoundSteps ==
  LET upTo[n \in 0 .. Len(offers)] ==
        IF n = 0 THEN 0
        ELSE upTo[n - 1] + (IF Contributes(n) THEN offers[n].done ELSE 0)
  IN  upTo[Len(offers)]

\* The close; a lease that is still held is worth nothing from here on.
CloseRound ==
  /\ ~closing
  /\ \/ RoundSteps >= TargetSteps /\ MaxRoundSec - remaining >= MinRoundSec
     \/ remaining = 0 /\ \E i \in DOMAIN offers : Contributes(i)
  /\ closing' = TRUE
  /\ UNCHANGED <<measured, remaining, offers, online, polled>>

\* Mutation of Blend: the two weights do not add up to one.
BlendTooMuch(old, rate) == IF old = 0 THEN rate ELSE (7 * old + 4 * rate) \div 10

\* An exponentially weighted mean, alpha = 0.3; whole numbers for floats.
Blend(old, rate) == IF old = 0 THEN rate ELSE (7 * old + 3 * rate) \div 10

\* update_throughput, a transaction of its own for each submission.
UpdateThroughput ==
  /\ closing
  /\ offers # <<>>
  /\ measured' = IF Contributes(1)
                 THEN [measured EXCEPT ![ClassOf[offers[1].worker]] =
                         Blend(@, offers[1].rate)]
                 ELSE measured
  /\ offers' = Tail(offers)
  /\ UNCHANGED <<remaining, closing, online, polled>>

OpenNextRound ==
  /\ closing
  /\ offers = <<>>
  /\ closing' = FALSE
  /\ remaining' = MaxRoundSec
  /\ UNCHANGED <<measured, offers, online, polled>>

\* A round that nobody submitted to has its clock set back; its leases stay.
ReopenEmpty ==
  /\ ~closing
  /\ remaining = 0
  /\ \A i \in DOMAIN offers : ~Contributes(i)
  /\ remaining' = MaxRoundSec
  /\ UNCHANGED <<measured, closing, offers, online, polled>>

Next ==
  \/ \E w \in Workers : Register(w) \/ Claim(w) \/ TurnAway(w)
  \/ \E i \in DOMAIN offers :
       \/ \E rate \in Speeds[ClassOf[offers[i].worker]] : Submit(i, rate)
       \/ Abandon(i)
       \/ Expire(i)
  \/ TimePasses
  \/ CloseRound
  \/ UpdateThroughput
  \/ OpenNextRound
  \/ ReopenEmpty

Spec == Init /\ [][Next]_vars

-----------------------------------------------------------------------------
TypeOK ==
  /\ measured \in [Classes -> Nat]
  /\ remaining \in 0 .. MaxRoundSec
  /\ closing \in BOOLEAN
  /\ offers \in Seq(Offer)
  /\ online \subseteq Workers
  /\ polled \subseteq online

\* Every shard fits its step budget both ways: no more passes over it than
\* target_passes, and no bucket too many (budget.py:107-133, 203-238).
ShardsFit ==
  \A i \in DOMAIN offers : WithinTarget(offers[i]) /\ NoSpareBucket(offers[i])

\* A worker is given less work than its time allows only where the dataset
\* has run out (budget.py:226-229).  The estimate it was sized with is the
\* current one: only a close changes it, and a close ends the round's tasks.
CutOnlyWithoutData ==
  ~closing => \A i \in DOMAIN offers :
    LET c == ClassOf[offers[i].worker]
    IN  CutOnlyAtTheCap(offers[i], ResolveThroughput(measured[c], Calibrated[c]),
                        offers[i].usable)

\* A plan asks for what its shard and its time allow, no more and no less
\* (plan_budget, budget.py:170-238).
BudgetsFit == ShardsFit /\ CutOnlyWithoutData

Fastest(c) == CHOOSE r \in Speeds[c] : \A q \in Speeds[c] : q <= r

\* No estimate is above every speed its class has shown, in whatever order
\* the submissions of however many rounds are folded in (rounds.py:600-606).
EstimateIsObserved ==
  /\ \A c \in Classes : measured[c] <= Fastest(c)
  /\ \A i \in DOMAIN offers :
       offers[i].status = "submitted" =>
         offers[i].rate \in Speeds[ClassOf[offers[i].worker]]

\* Once a class is measured, a machine of it that runs as fast as its class
\* ever did can do its task in the time it was sized for (budget.py:3-10).
MeasuredWorkFits ==
  ~closing => \A i \in DOMAIN offers :
    LET c == ClassOf[offers[i].worker]
    IN  measured[c] > 0 => offers[i].steps * 60 <= Fastest(c) * offers[i].usable

=============================================================================
