---------------------------- MODULE KernelProofs ----------------------------
(***************************************************************************)
(* The parts that run by themselves, for every instance: the split of a     *)
(* dataset is a split, a run which exists can be trained, an eviction takes  *)
(* what was used least recently, a worker is given its own rows evenly, and   *)
(* no submission dominates a close.                                           *)
(*                                                                         *)
(*   RunIsTrainable  needs what an invocation has settled before the run is  *)
(*       there (IInv): its arguments, and a base in the store from the put on; *)
(*   EvictionIsLru   that a sweep has removed nothing younger than what is     *)
(*       left of the candidates (SweepInv);                                     *)
(*   ShardIsStreamed how many batches of the current pass were drawn, and that  *)
(*       a row still to come was not among them (StreamInv);                     *)
(*   AggregationIsFair that one clamp leaves the median where it is, and that    *)
(*       a sum under way lies between two survivors' values (AggInv).              *)
(***************************************************************************)
EXTENDS MCKernels, FiniteSetTheorems, TLAPS

LEMMA Quotient ==
    ASSUME NEW n \in Nat, NEW k \in Nat \ {0}
    PROVE  /\ n \div k \in Nat
           /\ k * (n \div k) <= n
           /\ n < k * (n \div k) + k
  BY SMTT(30)

LEMMA Product ==
    ASSUME NEW a \in Nat, NEW b \in Nat, NEW c \in Nat, a <= b
    PROVE  /\ a * c \in Nat /\ b * c \in Nat
           /\ a * c <= b * c
           /\ (a + 1) * c = a * c + c
  BY SMTT(30)

(* A bucket has at least one row, and the buckets fit behind the held-out   *)
(* rows.                                                                     *)
LEMMA BucketSize ==
    ASSUME NEW rows \in Int, NEW buckets \in Int, NEW evalSize \in Int,
           CanPlan(rows, buckets, evalSize)
    PROVE  LET size == SamplesPerBucket(rows, buckets, evalSize)
           IN /\ size \in Nat \ {0}
              /\ buckets * size <= rows - evalSize
              /\ rows - evalSize < buckets * size + buckets
  <1> DEFINE size == SamplesPerBucket(rows, buckets, evalSize)
  <1>1. rows - evalSize \in Nat /\ buckets \in Nat \ {0} /\ rows - evalSize >= buckets
    BY DEF CanPlan
  <1>2. /\ size \in Nat
        /\ buckets * size <= rows - evalSize
        /\ rows - evalSize < buckets * size + buckets
    BY <1>1, Quotient DEF SamplesPerBucket
  <1>3. size # 0
    BY <1>1, <1>2
  <1> QED BY <1>2, <1>3

(* data.py plan_partition: every bucket has rows of the dataset, all of the *)
(* same number, none of them held out, and no two buckets share a row; less  *)
(* than one row per bucket is dropped.                                        *)
THEOREM BucketsPartitionTheRows ==
    ASSUME NEW rows \in Int, NEW buckets \in Int, NEW evalSize \in Int,
           CanPlan(rows, buckets, evalSize),
           NEW b \in 0..(buckets - 1), NEW c \in 0..(buckets - 1), b # c
    PROVE  LET size == SamplesPerBucket(rows, buckets, evalSize)
           IN /\ BucketRows(b, size, evalSize) # {}
              /\ BucketRows(b, size, evalSize) \subseteq (0..(rows - 1)) \ HeldOut(evalSize)
              /\ BucketRows(b, size, evalSize) \cap BucketRows(c, size, evalSize) = {}
              /\ Dropped(rows, buckets, evalSize) \in 0..(buckets - 1)
  <1> DEFINE size == SamplesPerBucket(rows, buckets, evalSize)
  <1>1. /\ size \in Nat /\ size >= 1 /\ evalSize \in Nat /\ buckets \in Nat
        /\ buckets * size <= rows - evalSize
        /\ rows - evalSize < buckets * size + buckets
    BY BucketSize DEF CanPlan
  <1> HIDE DEF size
  <1>2. ASSUME NEW d \in 0..(buckets - 1)
        PROVE  /\ d * size \in Nat
               /\ d * size + size <= buckets * size
    <2>1. d \in Nat /\ d + 1 \in Nat /\ d + 1 <= buckets
      BY <1>1
    <2>2. d * size \in Nat /\ (d + 1) * size = d * size + size
      BY <1>1, <2>1, Product
    <2>3. (d + 1) * size <= buckets * size
      BY <1>1, <2>1, Product
    <2> QED BY <2>2, <2>3
  <1>3. ASSUME NEW d \in 0..(buckets - 1), NEW e \in 0..(buckets - 1), d < e
        PROVE  d * size + size <= e * size
    <2>1. d \in Nat /\ e \in Nat /\ d + 1 \in Nat /\ d + 1 <= e
      BY <1>3
    <2>2. d * size \in Nat /\ (d + 1) * size = d * size + size
      BY <1>1, <2>1, Product
    <2>3. (d + 1) * size <= e * size
      BY <1>1, <2>1, Product
    <2> QED BY <2>2, <2>3
  <1>4. buckets * size \in Nat
    BY <1>1, Product
  <1> DEFINE x == b * size
             y == c * size
             t == buckets * size
  <1>5. /\ x \in Nat /\ y \in Nat /\ t \in Nat
        /\ x + size <= t
        /\ x + size <= y \/ y + size <= x
    <2>1. b < c \/ c < b
      OBVIOUS
    <2> QED BY <1>2, <1>3, <1>4, <2>1
  <1>6. t <= rows - evalSize /\ rows - evalSize < t + buckets
    BY <1>1
  <1>7. /\ BucketRows(b, size, evalSize) = (evalSize + x)..(evalSize + x + size - 1)
        /\ BucketRows(c, size, evalSize) = (evalSize + y)..(evalSize + y + size - 1)
        /\ Dropped(rows, buckets, evalSize) = rows - evalSize - t
    BY DEF BucketRows, BucketStart, Dropped, size
  <1> HIDE DEF x, y, t
  <1>8. BucketRows(b, size, evalSize) # {}
    <2>1. evalSize + x \in BucketRows(b, size, evalSize)
      BY <1>1, <1>5, <1>7
    <2> QED BY <2>1
  <1>9. BucketRows(b, size, evalSize) \subseteq (0..(rows - 1)) \ HeldOut(evalSize)
    BY <1>1, <1>5, <1>6, <1>7 DEF HeldOut
  <1>10. BucketRows(b, size, evalSize) \cap BucketRows(c, size, evalSize) = {}
    BY <1>1, <1>5, <1>7
  <1>11. Dropped(rows, buckets, evalSize) \in 0..(buckets - 1)
    BY <1>1, <1>5, <1>6, <1>7
  <1> QED BY <1>8, <1>9, <1>10, <1>11 DEF size

-----------------------------------------------------------------------------
(* What an invocation has settled: arguments a run could be made of. *)
Settled(args, by) ==
    /\ args \in Resolved
    /\ by \in [flags : Says, file : Says]
    /\ CanPlan(args.rows, args.buckets, args.eval)
    /\ args.samples = SamplesPerBucket(args.rows, args.buckets, args.eval)
    /\ by.flags.eval = Missing \/ by.file.eval = Missing => args.hyperEval = args.eval

IInv ==
    /\ NewRunTypeOK
    /\ script # Idle0 => /\ script = Doing(script.pc, script.args, script.asked)
                         /\ Settled(script.args, script.asked)
    /\ script.pc \in {"put", "insert"} => run = NoRun
    /\ script.pc = "insert" => base0 = script.args.rank
    /\ script.pc = "open" => run # NoRun
    /\ run # NoRun => Settled(run, asked) /\ base0 = run.rank
    /\ round0 => run # NoRun

LEMMA Steps ==
    ASSUME NEW pc, NEW args, NEW by
    PROVE  /\ Doing(pc, args, by).pc = pc
           /\ Doing(pc, args, by).args = args
           /\ Doing(pc, args, by).asked = by
           /\ Idle0.pc = "idle"
           /\ pc # "idle" => Doing(pc, args, by) # Idle0
  <1>1. Doing(pc, args, by).pc = pc /\ Idle0.pc = "idle"
    BY DEF Doing, Idle0
  <1>2. Doing(pc, args, by).args = args /\ Doing(pc, args, by).asked = by
    BY DEF Doing
  <1> QED BY <1>1, <1>2

LEMMA ARunIsNotNoRun == ASSUME NEW args \in Resolved PROVE args # NoRun
  <1>1. args.rank \in Ranks /\ NoRun.rank = Missing
    BY DEF Resolved, NoRun
  <1> QED BY <1>1, NewRunAssumption

(* The setting that wins is one that was made, or the default. *)
LEMMA ArgsAreSettled ==
    ASSUME NEW flags \in Says, NEW file \in Says, NEW d \in Datasets,
           Rank(flags, file) # Missing, CanPlan(d.rows, d.buckets, Eval(flags, file))
    PROVE  Settled(Args(flags, file, d), [flags |-> flags, file |-> file])
  <1> DEFINE args == Args(flags, file, d)
             by == [flags |-> flags, file |-> file]
  <1>1. /\ flags.rank \in Ranks \union {Missing} /\ file.rank \in Ranks \union {Missing}
        /\ flags.class \in Classes \union {Missing} /\ file.class \in Classes \union {Missing}
        /\ flags.eval \in EvalSizes \union {Missing} /\ file.eval \in EvalSizes \union {Missing}
    BY DEF Says, Given
  <1>2. Rank(flags, file) \in Ranks
    BY <1>1 DEF Rank, First
  <1>3. Class(flags, file) \in Classes
    BY <1>1, NewRunAssumption DEF Class, ParsedClass, First
  <1>4. Eval(flags, file) \in Evals /\ HyperEval(flags, file) \in Evals
    BY <1>1, NewRunAssumption DEF Eval, HyperEval, First, Evals
  <1>5. d.rows \in Nat /\ d.buckets \in Nat /\ Eval(flags, file) \in Nat
    BY <1>4, NewRunAssumption DEF Evals
  <1>6. SamplesPerBucket(d.rows, d.buckets, Eval(flags, file)) \in Nat
    BY <1>5, BucketSize
  <1>7. args \in Resolved
    BY <1>2, <1>3, <1>4, <1>5, <1>6 DEF Args, Resolved
  <1>8. flags.eval = Missing \/ file.eval = Missing => HyperEval(flags, file) = Eval(flags, file)
    BY DEF HyperEval, Eval, First
  <1>9. /\ args.rows = d.rows /\ args.buckets = d.buckets /\ args.eval = Eval(flags, file)
        /\ args.hyperEval = HyperEval(flags, file)
        /\ args.samples = SamplesPerBucket(d.rows, d.buckets, Eval(flags, file))
    BY DEF Args
  <1>10. by \in [flags : Says, file : Says] /\ by.flags = flags /\ by.file = file
    OBVIOUS
  <1> QED BY <1>7, <1>8, <1>9, <1>10 DEF Settled

LEMMA InitIInv == NewRunInit => IInv
  <1> SUFFICES ASSUME NewRunInit PROVE IInv
    OBVIOUS
  <1>1. Silent \in Says /\ NotAsked \in [flags : Says, file : Says]
    BY DEF Silent, Says, Given, NotAsked
  <1>2. script.pc = "idle"
    BY DEF NewRunInit, Idle0
  <1>3. 0 \in 0..MaxInvocations /\ Missing \in Given(Ranks)
    BY NewRunAssumption DEF Given
  <1>4. NewRunTypeOK
    BY <1>1, <1>3 DEF NewRunInit, NewRunTypeOK
  <1> QED BY <1>2, <1>4 DEF NewRunInit, IInv

(* An invocation moves on with what it has settled, or ends. *)
LEMMA MoveOn ==
    ASSUME NewRunTypeOK, NEW pc \in {"check", "put", "insert", "open"}, NEW args, NEW by,
           Settled(args, by), script' = Doing(pc, args, by) \/ script' = Idle0
    PROVE  /\ script' # Idle0 => /\ script' = Doing(script'.pc, script'.args, script'.asked)
                                 /\ Settled(script'.args, script'.asked)
                                 /\ script'.pc = pc /\ script'.args = args
           /\ script' = Idle0 \/ (/\ script'.pc \in {"check", "put", "insert", "open"}
                                  /\ script'.args \in Resolved
                                  /\ script'.asked \in [flags : Says, file : Says])
           /\ script' = Idle0 => script'.pc = "idle"
  <1>1. CASE script' = Doing(pc, args, by)
    BY <1>1, Steps DEF Settled
  <1>2. CASE script' = Idle0
    BY <1>2, Steps
  <1> QED BY <1>1, <1>2

LEMMA NextKeepsIInv == IInv /\ [NewRunNext]_newRunVars => IInv'
  <1> SUFFICES ASSUME IInv, [NewRunNext]_newRunVars PROVE IInv'
    OBVIOUS
  <1>1. ASSUME NEW flags \in Says, NEW file \in Says, NEW d \in Datasets, Invoke(flags, file, d)
        PROVE  IInv'
    <2> DEFINE args == Args(flags, file, d)
               by == [flags |-> flags, file |-> file]
    <2>1. starts' \in 0..MaxInvocations
      BY <1>1, NewRunAssumption DEF Invoke, IInv, NewRunTypeOK
    <2>2. CASE Rank(flags, file) # Missing /\ CanPlan(d.rows, d.buckets, Eval(flags, file))
      <3>1. Settled(args, by) /\ script' = Doing("check", args, by)
        BY <1>1, <2>2, ArgsAreSettled DEF Invoke
      <3> HIDE DEF args, by
      <3>2. script'.pc = "check"
        BY <3>1, Steps
      <3> QED BY <1>1, <2>1, <3>1, <3>2, MoveOn DEF Invoke, IInv, NewRunTypeOK
    <2>3. CASE ~(Rank(flags, file) # Missing /\ CanPlan(d.rows, d.buckets, Eval(flags, file)))
      <3>1. script' = Idle0 /\ script'.pc = "idle"
        BY <1>1, <2>3, Steps DEF Invoke
      <3> QED BY <1>1, <2>1, <3>1 DEF Invoke, IInv, NewRunTypeOK
    <2> QED BY <2>2, <2>3
  <1>2. ASSUME NEW from \in {"check", "put", "insert", "open"},
               NEW to \in {"idle", "put", "insert", "open"}, GoOn(from, to)
        PROVE  /\ script.pc = from /\ Settled(script.args, script.asked) /\ starts' = starts
               /\ script' = Idle0 \/ script' = Doing(to, script.args, script.asked)
               /\ script'.pc = to
    BY <1>2, Steps DEF GoOn, IInv
  <1>3. CASE CheckExisting
    <2>1. CASE run = NoRun
      <3>1. GoOn("check", "put")
        BY <1>3, <2>1 DEF CheckExisting
      <3> QED BY <1>2, <1>3, <2>1, <3>1, MoveOn DEF CheckExisting, IInv, NewRunTypeOK
    <2>2. CASE run # NoRun
      <3>1. GoOn("check", "idle") /\ script' = Idle0
        BY <1>3, <2>2 DEF CheckExisting, GoOn
      <3> QED BY <1>2, <1>3, <3>1 DEF CheckExisting, IInv, NewRunTypeOK
    <2> QED BY <2>1, <2>2
  <1>4. CASE PutBase
    <2>1. GoOn("put", "insert") /\ base0' = script.args.rank /\ UNCHANGED <<run, round0, asked>>
      BY <1>4 DEF PutBase
    <2>2. run = NoRun /\ Settled(script.args, script.asked) /\ script'.pc = "insert"
          /\ starts' = starts
      BY <1>2, <2>1 DEF IInv
    <2>3. script' = Doing("insert", script.args, script.asked)
      BY <2>1 DEF GoOn
    <2>4. base0' \in Given(Ranks) /\ script'.args = script.args
      BY <2>1, <2>2, <2>3, Steps DEF Settled, Resolved, Given
    <2> QED BY <2>1, <2>2, <2>3, <2>4, MoveOn DEF IInv, NewRunTypeOK
  <1>5. CASE InsertRun
    <2>1. GoOn("insert", "open") /\ run' = script.args /\ asked' = script.asked
          /\ UNCHANGED <<base0, round0>>
      BY <1>5 DEF InsertRun
    <2>2. Settled(script.args, script.asked) /\ script'.pc = "open" /\ starts' = starts
          /\ base0 = script.args.rank
      BY <1>2, <2>1 DEF IInv
    <2>3. script' = Doing("open", script.args, script.asked)
      BY <2>1 DEF GoOn
    <2>4. run' \in Resolved /\ run' # NoRun /\ asked' \in [flags : Says, file : Says]
      BY <2>1, <2>2, ARunIsNotNoRun DEF Settled
    <2> QED BY <2>1, <2>2, <2>3, <2>4, MoveOn DEF IInv, NewRunTypeOK
  <1>6. CASE OpenRoundZero
    <2>1. GoOn("open", "idle") /\ round0' = TRUE /\ UNCHANGED <<base0, run, asked>>
          /\ script' = Idle0
      BY <1>6 DEF OpenRoundZero, GoOn
    <2>2. run # NoRun /\ script'.pc = "idle" /\ starts' = starts
      BY <1>2, <2>1 DEF IInv
    <2> QED BY <2>1, <2>2 DEF IInv, NewRunTypeOK
  <1>7. CASE Interrupt
    <2>1. script'.pc = "idle" /\ script' = Idle0
      BY <1>7, Steps DEF Interrupt
    <2> QED BY <1>7, <2>1 DEF Interrupt, IInv, NewRunTypeOK
  <1>8. CASE UNCHANGED newRunVars
    BY <1>8 DEF newRunVars, IInv, NewRunTypeOK, Settled
  <1> QED BY <1>1, <1>3, <1>4, <1>5, <1>6, <1>7, <1>8 DEF NewRunNext

(* newrun.py: a run in the database has its base in the store, of its rank, *)
(* and, unless flag and file both named the held-out rows, buckets of the     *)
(* size its workers cut, wherever an invocation was interrupted and however   *)
(* often it was repeated.                                                     *)
THEOREM RunsAreTrainable == NewRunSpec => []RunIsTrainable
  <1>1. IInv => RunIsTrainable
    BY DEF IInv, Settled, RunIsTrainable, RunHasItsBase, BudgetsFitTheShards, NamedTwice
  <1> QED BY <1>1, InitIInv, NextKeepsIInv, PTL DEF NewRunSpec

-----------------------------------------------------------------------------
(* The eviction of a model cache.                                          *)

(* What a sweep has selected so far: nothing it protects, nothing used after *)
(* what it leaves, and at least one repository that had to go.               *)
SelectedOldest ==
    \A m \in sweep.remove, n \in Candidates : sweep.seen[m] <= sweep.seen[n]
HadToGo ==
    sweep.remove # {} => \E m \in sweep.remove : Size(Left \union {m}) > CapSize

SweepInv ==
    /\ CacheTypeOK
    /\ sweep.remove \cap sweep.protect = {}
    /\ sweep.pc = "select" => SelectedOldest /\ HadToGo

LEMMA InitSweep == CacheInit(SUBSET Models) => SweepInv
  <1> SUFFICES ASSUME CacheInit(SUBSET Models) PROVE SweepInv
    OBVIOUS
  <1>1. Never \in Times /\ \A m \in Models : Never[m] = 0
    BY CacheAssumption DEF Never, Times
  <1>2. sweep.pc = "idle" /\ sweep.remove = {} /\ sweep.repos = {}
    BY DEF CacheInit, NoSweep
  <1>3. sweep \in [pc : {"idle", "select", "delete"}, repos : SUBSET Models,
                   protect : SUBSET Models, seen : Times, remove : SUBSET Models]
    BY <1>1 DEF CacheInit, NoSweep
  <1>4. CacheTypeOK
    BY <1>1, <1>2, <1>3, CacheAssumption DEF CacheInit, CacheTypeOK
  <1> QED BY <1>2, <1>4 DEF SweepInv

(* The clock, the workers and the runs do not disturb a sweep. *)
LEMMA OthersKeepSweep ==
    ASSUME SweepInv, (\E m \in Models : LoadModel(m)) \/ ClockTicks \/ RunsEndOrStart
    PROVE  SweepInv' /\ UNCHANGED sweep
  <1>1. CASE \E m \in Models : LoadModel(m)
    <2>1. PICK m \in Models : LoadModel(m)
      BY <1>1
    <2>2. /\ lastUsed' = [lastUsed EXCEPT ![m] = now] /\ cached' \subseteq Models
          /\ UNCHANGED <<now, wanted, sweep>>
      BY <2>1 DEF LoadModel, SweepInv, CacheTypeOK
    <2>3. lastUsed' \in Times /\ \A n \in Models : lastUsed'[n] <= now
      BY <2>2, CacheAssumption DEF SweepInv, CacheTypeOK, Times
    <2> QED BY <2>2, <2>3 DEF SweepInv, CacheTypeOK, SelectedOldest, HadToGo, Candidates, Left
  <1>2. CASE ClockTicks
    <2>1. now' \in 0..MaxTime /\ \A n \in Models : lastUsed'[n] <= now'
      BY <1>2, CacheAssumption DEF ClockTicks, SweepInv, CacheTypeOK, Times
    <2> QED BY <1>2, <2>1 DEF ClockTicks, SweepInv, CacheTypeOK, SelectedOldest, HadToGo,
                              Candidates, Left
  <1>3. CASE RunsEndOrStart
    BY <1>3 DEF RunsEndOrStart, SweepInv, CacheTypeOK, SelectedOldest, HadToGo, Candidates, Left
  <1> QED BY <1>1, <1>2, <1>3

(* The oldest candidate is selected, and while the cache is over its cap. *)
LEMMA SelectionKeepsSweep ==
    ASSUME SweepInv, NEW m \in Models, SelectRepo(m)
    PROVE  SweepInv'
  <1>1. /\ sweep.pc = "select" /\ OverCap /\ m \in sweep.repos \ sweep.remove
        /\ m \notin sweep.protect
        /\ \A n \in Candidates \ {m} : OldestFirst(m, n)
        /\ UNCHANGED <<now, cached, lastUsed, wanted>>
    BY DEF SelectRepo, Candidates, Left
  <1>2. /\ sweep'.pc = "select" /\ sweep'.repos = sweep.repos /\ sweep'.protect = sweep.protect
        /\ sweep'.seen = sweep.seen /\ sweep'.remove = sweep.remove \union {m}
    BY <1>1 DEF SelectRepo, SweepInv, CacheTypeOK
  <1>3. CacheTypeOK'
    <2>1. sweep' \in [pc : {"idle", "select", "delete"}, repos : SUBSET Models,
                      protect : SUBSET Models, seen : Times, remove : SUBSET Models]
      BY DEF SelectRepo, SweepInv, CacheTypeOK
    <2>2. sweep'.remove \subseteq sweep'.repos
      BY <1>1, <1>2 DEF SweepInv, CacheTypeOK
    <2> QED BY <1>1, <2>1, <2>2 DEF SweepInv, CacheTypeOK
  <1>4. sweep'.remove \cap sweep'.protect = {}
    BY <1>1, <1>2 DEF SweepInv
  <1>5. Candidates' = Candidates \ {m} /\ Left' = Left \ {m} /\ m \in Candidates
    BY <1>1, <1>2 DEF Candidates, Left
  <1>6. SelectedOldest'
    <2>1. SUFFICES ASSUME NEW r \in sweep.remove \union {m}, NEW n \in Candidates \ {m}
                   PROVE  sweep.seen[r] <= sweep.seen[n]
      BY <1>2, <1>5 DEF SelectedOldest
    <2>2. CASE r = m
      <3>1. OldestFirst(m, n) /\ n \in Models
        BY <1>1, <2>1 DEF Candidates, Left, SweepInv, CacheTypeOK
      <3>2. sweep.seen[m] \in Int /\ sweep.seen[n] \in Int
        BY <3>1 DEF SweepInv, CacheTypeOK, Times
      <3> QED BY <2>2, <3>1, <3>2 DEF OldestFirst
    <2>3. CASE r # m
      BY <1>1, <2>3 DEF SweepInv, SelectedOldest
    <2> QED BY <2>2, <2>3
  <1>7. HadToGo'
    <2>1. Left' \union {m} = Left
      BY <1>5 DEF Candidates
    <2>2. Size(Left' \union {m}) > CapSize
      BY <1>1, <2>1 DEF OverCap
    <2> QED BY <1>2, <2>2 DEF HadToGo
  <1> QED BY <1>3, <1>4, <1>6, <1>7 DEF SweepInv

(* A scan starts with nothing selected, and a deletion undoes nothing. *)
LEMMA SweepingKeepsSweep ==
    ASSUME SweepInv,
           Scan \/ EndSelection \/ EndSweep \/ (\E m \in Models : RemoveRepo(m))
    PROVE  SweepInv'
  <1>1. CASE Scan
    <2>1. sweep'.pc = "select" /\ sweep'.remove = {}
      BY <1>1 DEF Scan
    <2>2. sweep' \in [pc : {"idle", "select", "delete"}, repos : SUBSET Models,
                      protect : SUBSET Models, seen : Times, remove : SUBSET Models]
      BY <1>1 DEF Scan, SweepInv, CacheTypeOK
    <2> QED BY <1>1, <2>1, <2>2 DEF Scan, SweepInv, CacheTypeOK, SelectedOldest, HadToGo
  <1>2. CASE EndSelection
    <2>1. sweep'.pc = "delete" /\ sweep'.remove = sweep.remove /\ sweep'.repos = sweep.repos
          /\ sweep'.protect = sweep.protect
      BY <1>2 DEF EndSelection, SweepInv, CacheTypeOK
    <2>2. sweep' \in [pc : {"idle", "select", "delete"}, repos : SUBSET Models,
                      protect : SUBSET Models, seen : Times, remove : SUBSET Models]
      BY <1>2 DEF EndSelection, SweepInv, CacheTypeOK
    <2> QED BY <1>2, <2>1, <2>2 DEF EndSelection, SweepInv, CacheTypeOK
  <1>3. CASE EndSweep
    <2>1. sweep'.pc = "idle" /\ sweep'.remove = {}
      BY <1>3 DEF EndSweep, NoSweep
    <2>2. Never \in Times
      BY CacheAssumption DEF Never, Times
    <2>3. sweep' \in [pc : {"idle", "select", "delete"}, repos : SUBSET Models,
                      protect : SUBSET Models, seen : Times, remove : SUBSET Models]
      BY <1>3, <2>2 DEF EndSweep, NoSweep
    <2> QED BY <1>3, <2>1, <2>3 DEF EndSweep, SweepInv, CacheTypeOK
  <1>4. ASSUME NEW m \in Models, RemoveRepo(m) PROVE SweepInv'
    <2>1. sweep'.pc = "delete" /\ sweep'.remove = sweep.remove \ {m} /\ sweep'.repos = sweep.repos
          /\ sweep'.protect = sweep.protect
      BY <1>4 DEF RemoveRepo, SweepInv, CacheTypeOK
    <2>2. sweep' \in [pc : {"idle", "select", "delete"}, repos : SUBSET Models,
                      protect : SUBSET Models, seen : Times, remove : SUBSET Models]
      BY <1>4 DEF RemoveRepo, SweepInv, CacheTypeOK
    <2> QED BY <1>4, <2>1, <2>2 DEF RemoveRepo, SweepInv, CacheTypeOK
  <1> QED BY <1>1, <1>2, <1>3, <1>4

LEMMA NextSweep == SweepInv /\ [CacheNext]_cacheVars => SweepInv'
  <1>1. SweepInv /\ UNCHANGED cacheVars => SweepInv'
    BY DEF cacheVars, SweepInv, CacheTypeOK, SelectedOldest, HadToGo, Candidates, Left
  <1> QED BY <1>1, OthersKeepSweep, SelectionKeepsSweep, SweepingKeepsSweep DEF CacheNext

(* cache.py evict_to_cap: every eviction of every cache selects by age, and  *)
(* only as much as it must, whatever is loaded and whichever runs come and go *)
(* while it scans and deletes.                                                *)
THEOREM EvictionsAreLru == CacheSpec => EvictionIsLru
  <1> DEFINE Lru ==
        /\ sweep.pc = "select" /\ sweep'.pc = "delete" =>
            /\ \A m \in sweep.remove, n \in Candidates : sweep.seen[m] <= sweep.seen[n]
            /\ OverCap => Left \subseteq sweep.protect
            /\ sweep.remove # {} => \E m \in sweep.remove :
                    Size(Left \union {m}) > CapSize
        /\ cached \ cached' \subseteq sweep.remove \ sweep.protect
  <1>1. ASSUME SweepInv, CacheNext PROVE Lru
    <2>1. CASE (\E m \in Models : LoadModel(m)) \/ ClockTicks \/ RunsEndOrStart
      <3>1. UNCHANGED sweep /\ cached \subseteq cached'
        BY <1>1, <2>1, OthersKeepSweep DEF LoadModel, ClockTicks, RunsEndOrStart
      <3> QED BY <3>1
    <2>2. CASE EndSelection
      <3>1. OverCap => Left \subseteq sweep.protect
        BY <2>2 DEF EndSelection, Candidates
      <3> QED BY <1>1, <2>2, <3>1 DEF EndSelection, SweepInv, SelectedOldest, HadToGo
    <2>3. CASE Scan \/ EndSweep
      BY <2>3 DEF Scan, EndSweep
    <2>4. ASSUME NEW m \in Models, SelectRepo(m) PROVE Lru
      <3>1. sweep'.pc = "select" /\ UNCHANGED cached
        BY <1>1, <2>4 DEF SelectRepo, SweepInv, CacheTypeOK
      <3> QED BY <3>1
    <2>5. ASSUME NEW m \in Models, RemoveRepo(m) PROVE Lru
      <3>1. sweep.pc = "delete" /\ cached \ cached' \subseteq {m} /\ m \in sweep.remove
        BY <2>5 DEF RemoveRepo
      <3>2. m \notin sweep.protect
        BY <1>1, <3>1 DEF SweepInv
      <3> QED BY <3>1, <3>2
    <2> QED BY <1>1, <2>1, <2>2, <2>3, <2>4, <2>5 DEF CacheNext
  <1>2. SweepInv /\ [CacheNext]_cacheVars => [Lru]_cacheVars
    BY <1>1
  <1> QED BY <1>2, InitSweep, NextSweep, PTL DEF CacheSpec, EvictionIsLru

-----------------------------------------------------------------------------
(* The rows of a shard.                                                    *)

(* A bucket lies behind the held-out rows and within the dataset, also when *)
(* it is the only one.                                                       *)
LEMMA BucketLies ==
    ASSUME NEW rows \in Int, NEW buckets \in Int, NEW evalSize \in Int,
           CanPlan(rows, buckets, evalSize), NEW b \in 0..(buckets - 1)
    PROVE  LET size == SamplesPerBucket(rows, buckets, evalSize)
           IN /\ BucketStart(b, size, evalSize) \in Nat
              /\ BucketRows(b, size, evalSize) \subseteq (0..(rows - 1)) \ HeldOut(evalSize)
  <1> DEFINE size == SamplesPerBucket(rows, buckets, evalSize)
  <1>1. /\ size \in Nat /\ evalSize \in Nat /\ buckets \in Nat
        /\ buckets * size <= rows - evalSize
    BY BucketSize DEF CanPlan
  <1> HIDE DEF size
  <1>2. b \in Nat /\ b + 1 \in Nat /\ b + 1 <= buckets
    BY <1>1
  <1> DEFINE x == b * size
             t == buckets * size
  <1>3. x \in Nat /\ t \in Nat /\ x + size <= t
    <2>1. x \in Nat /\ (b + 1) * size = x + size
      BY <1>1, <1>2, Product
    <2>2. t \in Nat /\ (b + 1) * size <= t
      BY <1>1, <1>2, Product
    <2> QED BY <2>1, <2>2
  <1>4. t <= rows - evalSize
    BY <1>1
  <1>5. /\ BucketStart(b, size, evalSize) = evalSize + x
        /\ BucketRows(b, size, evalSize) = (evalSize + x)..(evalSize + x + size - 1)
    BY DEF BucketRows, BucketStart
  <1> HIDE DEF x, t
  <1>6. BucketStart(b, size, evalSize) \in Nat
    BY <1>1, <1>3, <1>5
  <1>7. BucketRows(b, size, evalSize) \subseteq (0..(rows - 1)) \ HeldOut(evalSize)
    BY <1>1, <1>3, <1>4, <1>5 DEF HeldOut
  <1> QED BY <1>6, <1>7 DEF size

(* data.py rows_for: a shard has as many rows as its buckets have together, *)
(* none of them held out and none of them in a bucket of somebody else.      *)
THEOREM ShardsAreSeparate ==
    ASSUME NEW rows \in Int, NEW buckets \in Int, NEW evalSize \in Int,
           CanPlan(rows, buckets, evalSize), NEW assigned \in SUBSET (0..(buckets - 1))
    PROVE  LET size == SamplesPerBucket(rows, buckets, evalSize)
               mine == RowsFor(assigned, rows, buckets, evalSize)
               theirs == RowsFor((0..(buckets - 1)) \ assigned, rows, buckets, evalSize)
           IN /\ mine \subseteq (0..(rows - 1)) \ HeldOut(evalSize)
              /\ mine \cap theirs = {}
              /\ IsFiniteSet(mine)
              /\ Cardinality(mine) = Cardinality(assigned) * size
              /\ Cardinality(assigned) \in Nat /\ size \in Nat
  <1> DEFINE size == SamplesPerBucket(rows, buckets, evalSize)
             mine == RowsFor(assigned, rows, buckets, evalSize)
             theirs == RowsFor((0..(buckets - 1)) \ assigned, rows, buckets, evalSize)
             Start(b) == BucketStart(b, size, evalSize)
             Rows(b) == BucketRows(b, size, evalSize)
  <1>1. size \in Nat
    BY BucketSize
  <1>2. \A b \in 0..(buckets - 1) :
          Start(b) \in Nat /\ Rows(b) \subseteq (0..(rows - 1)) \ HeldOut(evalSize)
    BY BucketLies
  <1>3. \A b, c \in 0..(buckets - 1) : b # c => Rows(b) \cap Rows(c) = {}
    BY BucketsPartitionTheRows
  <1>4. \A b : Rows(b) = Start(b)..(Start(b) + size - 1)
    BY DEF BucketRows
  <1>5. mine = UNION {Rows(b) : b \in assigned}
        /\ theirs = UNION {Rows(b) : b \in (0..(buckets - 1)) \ assigned}
    BY DEF RowsFor
  <1> HIDE DEF size, mine, theirs, Start, Rows
  <1>6. mine \subseteq (0..(rows - 1)) \ HeldOut(evalSize)
    BY <1>2, <1>5
  <1>7. mine \cap theirs = {}
    BY <1>3, <1>5
  <1>8. IsFiniteSet(mine)
    <2>1. IsFiniteSet(0..(rows - 1))
      BY FS_Interval
    <2>2. mine \in SUBSET (0..(rows - 1))
      BY <1>6
    <2> QED BY <2>1, <2>2, FS_Subset
  <1>9. IsFiniteSet(assigned) /\ Cardinality(assigned) \in Nat
    <2>1. IsFiniteSet(0..(buckets - 1))
      BY FS_Interval
    <2>2. IsFiniteSet(assigned)
      BY <2>1, FS_Subset
    <2> QED BY <2>2, FS_CardinalityType
  <1>10. IsFiniteSet(0..(size - 1)) /\ Cardinality(0..(size - 1)) = size
    BY <1>1, FS_Interval
  <1>11. ExistsBijection(assigned \X (0..(size - 1)), mine)
    <2> DEFINE f == [x \in assigned \X (0..(size - 1)) |-> Start(x[1]) + x[2]]
    <2>1. ASSUME NEW b \in assigned, NEW i \in 0..(size - 1)
          PROVE  /\ f[<<b, i>>] = Start(b) + i
                 /\ Start(b) + i \in Rows(b)
                 /\ Rows(b) \subseteq mine
      <3>1. f[<<b, i>>] = Start(b) + i
        BY DEF f
      <3>2. Start(b) + i \in Rows(b)
        BY <1>1, <1>2, <1>4
      <3> QED BY <1>5, <3>1, <3>2
    <2>2. f \in [assigned \X (0..(size - 1)) -> mine]
      <3>1. ASSUME NEW x \in assigned \X (0..(size - 1)) PROVE f[x] \in mine
        <4>1. x = <<x[1], x[2]>> /\ x[1] \in assigned /\ x[2] \in 0..(size - 1)
          OBVIOUS
        <4> QED BY <2>1, <4>1
      <3> QED BY <3>1
    <2>3. ASSUME NEW x \in assigned \X (0..(size - 1)), NEW y \in assigned \X (0..(size - 1)),
                 f[x] = f[y]
          PROVE  x = y
      <3>1. /\ x = <<x[1], x[2]>> /\ x[1] \in assigned /\ x[2] \in 0..(size - 1)
            /\ y = <<y[1], y[2]>> /\ y[1] \in assigned /\ y[2] \in 0..(size - 1)
        OBVIOUS
      <3>2. f[x] \in Rows(x[1]) /\ f[y] \in Rows(y[1])
        BY <2>1, <3>1
      <3>3. x[1] = y[1]
        BY <1>3, <2>3, <3>1, <3>2
      <3>4. Start(x[1]) \in Nat /\ f[x] = Start(x[1]) + x[2] /\ f[y] = Start(x[1]) + y[2]
        BY <1>2, <2>1, <3>1, <3>3
      <3> QED BY <1>1, <2>3, <3>1, <3>3, <3>4
    <2>4. ASSUME NEW r \in mine PROVE \E x \in assigned \X (0..(size - 1)) : f[x] = r
      <3>1. PICK b \in assigned : r \in Rows(b)
        BY <1>5
      <3>2. Start(b) \in Nat /\ r - Start(b) \in 0..(size - 1)
        BY <1>1, <1>2, <1>4, <3>1
      <3>3. f[<<b, r - Start(b)>>] = r
        BY <1>1, <1>4, <2>1, <3>1, <3>2
      <3> QED BY <3>2, <3>3
    <2> DEFINE pairs == assigned \X (0..(size - 1))
    <2> HIDE DEF f
    <2>5. f \in Injection(pairs, mine)
      <3>1. f \in [pairs -> mine] /\ \A x, y \in pairs : f[x] = f[y] => x = y
        BY <2>2, <2>3
      <3> HIDE DEF pairs
      <3> QED BY <3>1 DEF Injection, IsInjective
    <2>6. f \in Surjection(pairs, mine)
      BY <2>2, <2>4 DEF Surjection
    <2> QED BY <2>5, <2>6 DEF ExistsBijection, Bijection
  <1>12. Cardinality(mine) = Cardinality(assigned) * size
    <2>1. /\ IsFiniteSet(assigned \X (0..(size - 1)))
          /\ Cardinality(assigned \X (0..(size - 1))) = Cardinality(assigned) * size
      BY <1>9, <1>10, FS_Product
    <2> QED BY <1>11, <2>1, FS_Bijection
  <1> QED BY <1>1, <1>6, <1>7, <1>8, <1>9, <1>12 DEF size, mine, theirs

-----------------------------------------------------------------------------
(* The stream of a worker.                                                 *)

LEMMA ShardOfThePlan ==
    ASSUME plan \in Plans
    PROVE  LET size == SamplesPerBucket(plan.rows, plan.buckets, plan.evalSize)
           IN /\ Shard \subseteq (0..(plan.rows - 1)) \ HeldOut(plan.evalSize)
              /\ Shard \cap RowsFor(Elsewhere, plan.rows, plan.buckets, plan.evalSize) = {}
              /\ IsFiniteSet(Shard)
              /\ Cardinality(Shard) = Cardinality(plan.assigned) * size
              /\ Cardinality(Shard) \in Nat
  <1>1. /\ plan.rows \in Int /\ plan.buckets \in Int /\ plan.evalSize \in Int
        /\ CanPlan(plan.rows, plan.buckets, plan.evalSize)
        /\ plan.assigned \in SUBSET (0..(plan.buckets - 1))
    BY StreamAssumption
  <1>2. IsFiniteSet(Shard)
    BY <1>1, ShardsAreSeparate DEF Shard
  <1>3. Cardinality(Shard) \in Nat
    BY <1>2, FS_CardinalityType
  <1> QED BY <1>1, <1>3, ShardsAreSeparate DEF Shard, Elsewhere

(* A pass is over when less than a batch is left of it: it has yielded the  *)
(* whole batches of the shard.                                               *)
LEMMA WholeBatches ==
    ASSUME NEW n \in Nat, NEW m \in Nat \ {0}, NEW k \in Nat, m * k <= n
    PROVE  /\ n \div m \in Nat
           /\ k <= n \div m
           /\ n < m * k + m => k = n \div m
  <1> DEFINE q == n \div m
  <1>1. q \in Nat /\ m * q <= n /\ n < m * q + m
    BY Quotient
  <1> HIDE DEF q
  <1>2. ASSUME NEW a \in Nat, NEW b \in Nat, a < b PROVE m * a + m <= m * b
    <2>1. (a + 1) * m = a * m + m /\ (a + 1) * m <= b * m
      BY <1>2, Product
    <2>2. m * a = a * m /\ m * b = b * m
      BY <1>2
    <2> QED BY <2>1, <2>2
  <1>3. m * k \in Nat /\ m * q \in Nat
    BY <1>1
  <1>4. ~(q < k)
    <2> SUFFICES ASSUME q < k PROVE FALSE
      OBVIOUS
    <2>1. m * q + m <= m * k
      BY <1>1, <1>2
    <2> QED BY <1>1, <1>3, <2>1
  <1>5. n < m * k + m => ~(k < q)
    <2> SUFFICES ASSUME n < m * k + m, k < q PROVE FALSE
      OBVIOUS
    <2>1. m * k + m <= m * q
      BY <1>1, <1>2
    <2> QED BY <1>1, <1>3, <2>1
  <1>6. k <= q /\ (n < m * k + m => k = q)
    BY <1>1, <1>4, <1>5
  <1> QED BY <1>1, <1>6 DEF q

PerPass == Cardinality(Shard) \div micro

(* k batches of the current pass have been drawn, after all of every pass   *)
(* before it; a row that is still to come was drawn in those passes only.    *)
InPass(k) ==
    /\ k \in Nat
    /\ drawn = epoch * PerPass + k
    /\ micro * k <= Cardinality(Shard)
    /\ Cardinality(rest) = Cardinality(Shard) - micro * k

StreamInv ==
    /\ StreamTypeOK
    /\ rest \subseteq Shard
    /\ streaming \in {"start", "refused"} => epoch = 0 /\ drawn = 0
    /\ \A r \in DOMAIN uses :
        /\ r \notin Shard => uses[r] = 0
        /\ uses[r] <= drawn
        /\ uses[r] <= epoch + (IF r \in rest THEN 0 ELSE 1)
    /\ streaming \in {"draw", "done"} => \E k : InPass(k)

LEMMA InitStream == StreamInit(Plans, MicroBatches) => StreamInv
  <1> SUFFICES ASSUME StreamInit(Plans, MicroBatches) PROVE StreamInv
    OBVIOUS
  <1>1. 0 \in 0..MaxDrawn
    BY StreamAssumption
  <1>2. StreamTypeOK
    BY <1>1 DEF StreamInit, StreamTypeOK
  <1>3. \A r \in DOMAIN uses : uses[r] = 0
    BY DEF StreamInit
  <1> QED BY <1>2, <1>3 DEF StreamInit, StreamInv

LEMMA NextStream == StreamInv /\ [StreamNext]_streamVars => StreamInv'
  <1> SUFFICES ASSUME StreamInv, [StreamNext]_streamVars PROVE StreamInv'
    OBVIOUS
  <1>1. /\ plan \in Plans /\ micro \in MicroBatches /\ micro \in Nat \ {0}
        /\ MaxDrawn \in Nat /\ epoch \in Nat /\ drawn \in Nat
    BY StreamAssumption DEF StreamInv, StreamTypeOK
  <1>2. /\ Shard \subseteq 0..(plan.rows - 1)
        /\ IsFiniteSet(Shard) /\ Cardinality(Shard) \in Nat
    BY <1>1, ShardOfThePlan
  <1>3. IsFiniteSet(rest) /\ Cardinality(rest) \in Nat
    BY <1>2, FS_Subset, FS_CardinalityType DEF StreamInv
  <1>4. UNCHANGED <<plan, micro>> /\ Shard' = Shard /\ PerPass' = PerPass
    BY DEF StreamNext, StartStream, NextBatch, NextPass, EndStream, streamVars, Shard, PerPass
  <1>5. \A r \in DOMAIN uses : uses[r] \in Nat
    BY <1>1 DEF StreamInv, StreamTypeOK
  <1>6. CASE StartStream
    <2>1. /\ rest' = Shard /\ streaming' \in {"draw", "refused"}
          /\ UNCHANGED <<epoch, drawn, uses>> /\ epoch = 0 /\ drawn = 0
      BY <1>6 DEF StartStream, StreamInv
    <2>2. \A r \in DOMAIN uses : uses[r] = 0
      BY <1>5, <2>1 DEF StreamInv
    <2>3. InPass(0)'
      BY <1>1, <1>2, <1>4, <2>1, WholeBatches DEF InPass, PerPass
    <2>4. StreamTypeOK'
      BY <1>2, <1>4, <2>1 DEF StreamInv, StreamTypeOK
    <2> QED BY <1>4, <2>1, <2>2, <2>3, <2>4 DEF StreamInv
  <1>7. CASE NextBatch
    <2>1. PICK batch \in kSubset(micro, rest) :
            /\ rest' = rest \ batch
            /\ uses' = [r \in DOMAIN uses |-> IF r \in batch THEN uses[r] + 1 ELSE uses[r]]
      BY <1>7 DEF NextBatch
    <2>2. batch \subseteq rest /\ Cardinality(batch) = micro
      BY <2>1 DEF kSubset
    <2>3. drawn' = drawn + 1 /\ drawn < MaxDrawn /\ streaming = "draw"
          /\ UNCHANGED <<epoch, streaming>>
      BY <1>7 DEF NextBatch
    <2>4. Cardinality(rest') = Cardinality(rest) - micro /\ Cardinality(rest') \in Nat
      <3>1. rest \cap batch = batch
        BY <2>2
      <3> QED BY <1>3, <2>1, <2>2, <3>1, FS_Difference, FS_CardinalityType
    <2>5. DOMAIN uses' = DOMAIN uses
          /\ \A r \in DOMAIN uses : uses'[r] = IF r \in batch THEN uses[r] + 1 ELSE uses[r]
      BY <2>1
    <2>6. \A r \in DOMAIN uses :
            /\ r \notin Shard => uses'[r] = 0
            /\ uses'[r] <= drawn'
            /\ uses'[r] <= epoch + (IF r \in rest' THEN 0 ELSE 1)
      <3>1. TAKE r \in DOMAIN uses
      <3>2. /\ uses[r] \in Nat /\ uses[r] <= drawn
            /\ uses[r] <= epoch + (IF r \in rest THEN 0 ELSE 1)
            /\ r \notin Shard => uses[r] = 0
        BY <1>5 DEF StreamInv
      <3>3. CASE r \in batch
        <4>1. r \in rest /\ r \notin rest' /\ r \in Shard /\ uses'[r] = uses[r] + 1
          BY <2>1, <2>2, <2>5, <3>3 DEF StreamInv
        <4> QED BY <1>1, <2>3, <3>2, <4>1
      <3>4. CASE r \notin batch
        <4>1. (r \in rest' <=> r \in rest) /\ uses'[r] = uses[r]
          BY <2>1, <2>5, <3>4
        <4> QED BY <1>1, <2>3, <3>2, <4>1
      <3> QED BY <3>3, <3>4
    <2>7. StreamTypeOK'
      <3>1. drawn' \in 0..MaxDrawn
        BY <1>1, <2>3
      <3>2. uses' \in [0..(plan.rows - 1) -> 0..MaxDrawn]
        <4>1. DOMAIN uses = 0..(plan.rows - 1)
          BY DEF StreamInv, StreamTypeOK
        <4>2. \A r \in DOMAIN uses : uses'[r] \in 0..MaxDrawn
          BY <1>1, <1>5, <2>3, <2>5, <2>6
        <4> QED BY <2>1, <2>5, <4>1, <4>2
      <3> QED BY <1>4, <2>1, <2>3, <3>1, <3>2 DEF StreamInv, StreamTypeOK
    <2>8. PICK k : InPass(k)
      BY <2>3 DEF StreamInv
    <2>9. InPass(k + 1)'
      <3> DEFINE done == epoch * PerPass
      <3>1. PerPass \in Nat
        BY <1>1, <1>2, <2>8, WholeBatches DEF InPass, PerPass
      <3>2. done \in Nat
        BY <1>1, <3>1, Product
      <3>3. k \in Nat /\ micro * k \in Nat /\ micro * (k + 1) = micro * k + micro
        BY <1>1, <2>8 DEF InPass
      <3>4. drawn' = done + (k + 1)
        BY <1>1, <2>3, <2>8, <3>2, <3>3 DEF InPass
      <3>5. Cardinality(rest') = Cardinality(Shard) - micro * (k + 1)
        BY <1>1, <1>2, <1>3, <2>4, <2>8, <3>3 DEF InPass
      <3>6. micro * (k + 1) <= Cardinality(Shard)
        BY <1>1, <1>2, <2>4, <3>3, <3>5
      <3> QED BY <1>4, <2>3, <3>3, <3>4, <3>5, <3>6 DEF InPass
    <2> QED BY <1>4, <2>1, <2>3, <2>5, <2>6, <2>7, <2>9 DEF StreamInv
  <1>8. CASE NextPass
    <2>1. /\ epoch' = epoch + 1 /\ rest' = Shard /\ epoch < MaxDrawn
          /\ streaming = "draw" /\ Cardinality(rest) < micro
          /\ UNCHANGED <<streaming, drawn, uses>>
      BY <1>8 DEF NextPass
    <2>2. PICK k : InPass(k)
      BY <2>1 DEF StreamInv
    <2>3. InPass(0)'
      <3>1. k \in Nat /\ micro * k \in Nat
        BY <1>1, <2>2 DEF InPass
      <3>2. Cardinality(Shard) < micro * k + micro
        BY <1>1, <1>2, <2>1, <2>2, <3>1 DEF InPass
      <3>3. k = PerPass /\ PerPass \in Nat
        BY <1>1, <1>2, <2>2, <3>1, <3>2, WholeBatches DEF InPass, PerPass
      <3>4. (epoch + 1) * PerPass = epoch * PerPass + PerPass /\ epoch * PerPass \in Nat
        BY <1>1, <3>3, Product
      <3>5. drawn = (epoch + 1) * PerPass + 0
        BY <1>1, <2>2, <3>3, <3>4 DEF InPass
      <3>6. micro * 0 = 0
        BY <1>1
      <3> QED BY <1>2, <1>4, <2>1, <3>5, <3>6 DEF InPass
    <2>4. \A r \in DOMAIN uses : uses[r] <= epoch' + (IF r \in rest' THEN 0 ELSE 1)
      BY <1>1, <1>5, <2>1 DEF StreamInv
    <2>5. epoch' \in 0..MaxDrawn
      BY <1>1, <2>1
    <2>6. StreamTypeOK'
      BY <1>2, <1>4, <2>1, <2>5 DEF StreamInv, StreamTypeOK
    <2> QED BY <1>4, <2>1, <2>3, <2>4, <2>6 DEF StreamInv
  <1>9. CASE EndStream
    <2>1. streaming = "draw" /\ streaming' = "done" /\ UNCHANGED <<epoch, rest, drawn, uses>>
      BY <1>9 DEF EndStream
    <2>2. PICK k : InPass(k)
      BY <2>1 DEF StreamInv
    <2>3. InPass(k)'
      BY <1>4, <2>1, <2>2 DEF InPass
    <2> QED BY <1>4, <2>1, <2>3 DEF StreamInv, StreamTypeOK
  <1>10. CASE UNCHANGED streamVars
    <2>1. UNCHANGED <<streaming, epoch, rest, drawn, uses>>
      BY <1>10 DEF streamVars
    <2>2. \A k : InPass(k) <=> InPass(k)'
      BY <1>4, <2>1 DEF InPass
    <2> QED BY <1>4, <2>1, <2>2 DEF StreamInv, StreamTypeOK
  <1> QED BY <1>6, <1>7, <1>8, <1>9, <1>10 DEF StreamNext

(* data.py micro_batches: of whatever plan, in batches of whatever size, a   *)
(* worker is given its own rows only, evenly, and no batch short.             *)
THEOREM ShardsAreStreamed == StreamSpec => []ShardIsStreamed
  <1>1. StreamInv => ShardIsStreamed
    <2> SUFFICES ASSUME StreamInv PROVE ShardIsStreamed
      OBVIOUS
    <2> DEFINE theirs == RowsFor(Elsewhere, plan.rows, plan.buckets, plan.evalSize)
               size == SamplesPerBucket(plan.rows, plan.buckets, plan.evalSize)
    <2>1. /\ plan \in Plans /\ micro \in Nat \ {0} /\ epoch \in Nat /\ drawn \in Nat
          /\ DOMAIN uses = 0..(plan.rows - 1)
      BY StreamAssumption DEF StreamInv, StreamTypeOK
    <2>2. /\ Shard \cap HeldOut(plan.evalSize) = {} /\ Shard \cap theirs = {}
          /\ Cardinality(Shard) \in Nat
          /\ PerPass = (Cardinality(plan.assigned) * size) \div micro
      BY <2>1, ShardOfThePlan DEF PerPass
    <2>3. HeldOut(plan.evalSize) \union theirs \subseteq 0..(plan.rows - 1)
      <3>1. /\ plan.rows \in Nat /\ plan.buckets \in Nat /\ plan.evalSize \in Nat
            /\ CanPlan(plan.rows, plan.buckets, plan.evalSize)
        BY <2>1, StreamAssumption
      <3>2. HeldOut(plan.evalSize) \subseteq 0..(plan.rows - 1)
        BY <3>1 DEF HeldOut, CanPlan
      <3>3. Elsewhere \in SUBSET (0..(plan.buckets - 1))
        BY DEF Elsewhere
      <3>4. theirs \subseteq (0..(plan.rows - 1)) \ HeldOut(plan.evalSize)
        <4>1. plan.rows \in Int /\ plan.buckets \in Int /\ plan.evalSize \in Int
          BY <3>1
        <4> QED BY <3>1, <3>3, <4>1, ShardsAreSeparate
      <3> QED BY <3>2, <3>4
    <2>4. \A r \in HeldOut(plan.evalSize) \union theirs : uses[r] = 0
      BY <2>1, <2>2, <2>3 DEF StreamInv
    <2>5. \A r \in DOMAIN uses : uses[r] <= epoch + 1
      <3>1. \A r \in DOMAIN uses : uses[r] \in Nat
        BY StreamAssumption DEF StreamInv, StreamTypeOK
      <3> QED BY <2>1, <3>1 DEF StreamInv
    <2>6. ASSUME streaming \in {"draw", "done"}
          PROVE  epoch * PerPass <= drawn /\ drawn <= (epoch + 1) * PerPass
      <3>1. PICK k : InPass(k)
        BY <2>6 DEF StreamInv
      <3>2. k \in Nat /\ PerPass \in Nat /\ k <= PerPass
        BY <2>1, <2>2, <3>1, WholeBatches DEF InPass, PerPass
      <3>3. (epoch + 1) * PerPass = epoch * PerPass + PerPass /\ epoch * PerPass \in Nat
        BY <2>1, <3>2, Product
      <3> QED BY <2>1, <3>1, <3>2, <3>3 DEF InPass
    <2> QED BY <2>2, <2>4, <2>5, <2>6 DEF ShardIsStreamed
  <1> QED BY <1>1, InitStream, NextStream, PTL DEF StreamSpec

-----------------------------------------------------------------------------
(* The arithmetic of a close.                                              *)

(* A set of natural numbers has a least one, a finite set of integers a      *)
(* largest one.                                                                *)
LEMMA Least ==
    ASSUME NEW T \in SUBSET Nat, T # {}
    PROVE  \E x \in T : \A y \in T : x <= y
  <1> DEFINE Less == {ss \in Nat \X Nat : ss[1] < ss[2]}
  <1>1. IsWellFoundedOn(Less, Nat)
    BY NatLessThanWellFounded DEF OpToRel
  <1> HIDE DEF Less
  <1>2. PICK x \in T : \A y \in T : ~(<<y, x>> \in Less)
    BY <1>1, WFMin
  <1>3. ASSUME NEW y \in T PROVE x <= y
    <2>1. <<y, x>> \notin Less
      BY <1>2
    <2> QED BY <2>1 DEF Less
  <1> QED BY <1>3

LEMMA Largest ==
    ASSUME NEW S \in SUBSET Int, IsFiniteSet(S), S # {}
    PROVE  \E x \in S : \A y \in S : y <= x
  <1> DEFINE Above(x) == {y \in S : y > x}
             Sizes == {Cardinality(Above(x)) : x \in S}
  <1>1. \A x \in S : IsFiniteSet(Above(x)) /\ Cardinality(Above(x)) \in Nat
    <2> TAKE x \in S
    <2>1. IsFiniteSet(Above(x))
      BY FS_Subset, Above(x) \in SUBSET S
    <2> QED BY <2>1, FS_CardinalityType
  <1>2. Sizes \in SUBSET Nat /\ Sizes # {}
    BY <1>1
  <1>3. PICK n \in Sizes : \A m \in Sizes : n <= m
    BY <1>2, Least
  <1>4. PICK x \in S : n = Cardinality(Above(x))
    BY <1>3
  <1>5. ASSUME NEW y \in S, y > x PROVE FALSE
    <2>1. Above(y) \in SUBSET Above(x) /\ y \in Above(x) /\ y \notin Above(y)
      BY <1>4, <1>5
    <2>2. Cardinality(Above(y)) <= Cardinality(Above(x)) /\ Cardinality(Above(y)) # Cardinality(Above(x))
      BY <2>1, <1>1, <1>4, FS_Subset
    <2>3. Cardinality(Above(x)) <= Cardinality(Above(y))
      BY <1>3, <1>4
    <2> QED BY <2>2, <2>3, <1>1
  <1> QED BY <1>4, <1>5

-----------------------------------------------------------------------------
(* What "sorted(s)[k - 1]" is: there is such a value, and it is the only one *)
(* with fewer than k smaller ones and at least k that are not larger.         *)
LEMMA Counts ==
    ASSUME NEW s \in Seq(Int), NEW x \in Int
    PROVE  /\ IsFiniteSet(Below(s, x)) /\ Cardinality(Below(s, x)) \in Nat
           /\ IsFiniteSet(UpTo(s, x)) /\ Cardinality(UpTo(s, x)) \in Nat
           /\ Cardinality(UpTo(s, x)) <= Len(s)
  <1>1. IsFiniteSet(DOMAIN s) /\ Cardinality(DOMAIN s) = Len(s)
    <2>1. DOMAIN s = 1..Len(s) /\ Len(s) \in Nat
      OBVIOUS
    <2>2. IsFiniteSet(1..Len(s)) /\ Cardinality(1..Len(s)) = Len(s)
      BY <2>1, FS_Interval
    <2> QED BY <2>1, <2>2
  <1>2. Below(s, x) \in SUBSET DOMAIN s /\ UpTo(s, x) \in SUBSET DOMAIN s
    BY DEF Below, UpTo
  <1> QED BY <1>1, <1>2, FS_Subset, FS_CardinalityType

IsKth(s, k, x) == Cardinality(Below(s, x)) < k /\ k <= Cardinality(UpTo(s, x))

LEMMA OneOfARank ==
    ASSUME NEW s \in Seq(Int), NEW k \in Nat, NEW x \in Int, NEW y \in Int,
           IsKth(s, k, x), IsKth(s, k, y)
    PROVE  x = y
  <1>1. ASSUME NEW a \in Int, NEW b \in Int, IsKth(s, k, a), IsKth(s, k, b), a < b
        PROVE  FALSE
    <2>1. UpTo(s, a) \in SUBSET Below(s, b)
      BY <1>1 DEF UpTo, Below
    <2>2. Cardinality(UpTo(s, a)) <= Cardinality(Below(s, b))
      BY <2>1, Counts, FS_Subset
    <2> QED BY <2>2, <1>1, Counts DEF IsKth
  <1> QED BY <1>1

LEMMA SomeOfEachRank ==
    ASSUME NEW s \in Seq(Int), NEW k \in 1..Len(s)
    PROVE  \E x \in {s[i] : i \in DOMAIN s} : IsKth(s, k, x)
  <1> DEFINE Values == {s[i] : i \in DOMAIN s}
             Enough == {x \in Values : k <= Cardinality(UpTo(s, x))}
             Sizes == {Cardinality(UpTo(s, x)) : x \in Enough}
  <1>1. Values \in SUBSET Int /\ IsFiniteSet(Values) /\ Values # {}
    <2>1. s \in [DOMAIN s -> Values] /\ s \in Surjection(DOMAIN s, Values)
      BY DEF Surjection
    <2>2. IsFiniteSet(DOMAIN s)
      BY FS_Interval
    <2> QED BY <2>1, <2>2, FS_Surjection
  <1>2. Enough # {}
    <2>1. PICK x \in Values : \A y \in Values : y <= x
      BY <1>1, Largest
    <2>2. UpTo(s, x) = 1..Len(s)
      BY <2>1, <1>1 DEF UpTo
    <2>3. Cardinality(UpTo(s, x)) = Len(s)
      BY <2>2, FS_Interval
    <2> QED BY <2>3
  <1>3. Sizes \in SUBSET Nat /\ Sizes # {}
    BY <1>2, <1>1, Counts
  <1>4. PICK n \in Sizes : \A m \in Sizes : n <= m
    BY <1>3, Least
  <1>5. PICK x \in Enough : n = Cardinality(UpTo(s, x))
    BY <1>4
  <1>6. ASSUME k <= Cardinality(Below(s, x)) PROVE FALSE
    <2> DEFINE Smaller == {y \in Values : y < x}
    <2>1. Below(s, x) # {}
      <3>1. k > 0 /\ Cardinality({}) = 0
        BY FS_EmptySet
      <3>2. Cardinality(Below(s, x)) # 0
        <4>1. x \in Int
          BY <1>1, <1>5
        <4> QED BY <1>6, <3>1, <4>1, Counts
      <3> QED BY <3>1, <3>2
    <2>2. Smaller # {} /\ Smaller \in SUBSET Int /\ IsFiniteSet(Smaller)
      <3>1. Smaller \in SUBSET Values
        OBVIOUS
      <3> QED BY <2>1, <1>1, <3>1, FS_Subset DEF Below
    <2>3. PICK y \in Smaller : \A z \in Smaller : z <= y
      BY <2>2, Largest
    <2>4. Below(s, x) = UpTo(s, y)
      BY <2>3, <1>1 DEF Below, UpTo
    <2>5. y \in Enough
      BY <2>4, <1>6
    <2>6. Cardinality(UpTo(s, x)) <= Cardinality(UpTo(s, y))
      BY <2>5, <1>4, <1>5
    <2>7. UpTo(s, y) \in SUBSET UpTo(s, x)
      BY <2>3, <1>1 DEF UpTo
    <2>8. UpTo(s, y) = UpTo(s, x)
      <3>1. x \in Int /\ y \in Int
        BY <1>1, <1>5, <2>3
      <3>2. /\ IsFiniteSet(UpTo(s, x)) /\ Cardinality(UpTo(s, x)) \in Nat
            /\ Cardinality(UpTo(s, y)) \in Nat
        BY <3>1, Counts
      <3>3. /\ Cardinality(UpTo(s, y)) <= Cardinality(UpTo(s, x))
            /\ Cardinality(UpTo(s, y)) = Cardinality(UpTo(s, x)) => UpTo(s, x) = UpTo(s, y)
        BY <3>2, <2>7, FS_Subset
      <3> QED BY <2>6, <3>2, <3>3
    <2>9. PICK i \in DOMAIN s : x = s[i]
      OBVIOUS
    <2> QED BY <2>8, <2>9, <2>3, <1>1 DEF UpTo
  <1>7. x \in Values /\ k <= Cardinality(UpTo(s, x)) /\ x \in Int
    BY <1>1, <1>5
  <1>8. Cardinality(Below(s, x)) \in Nat
    BY <1>7, Counts
  <1>9. IsKth(s, k, x)
    BY <1>6, <1>7, <1>8 DEF IsKth
  <1> QED BY <1>7, <1>9

LEMMA SmallestRanks ==
    ASSUME NEW s \in Seq(Int), NEW k \in 1..Len(s)
    PROVE  /\ Smallest(s, k) \in {s[i] : i \in DOMAIN s}
           /\ IsKth(s, k, Smallest(s, k))
  BY SomeOfEachRank DEF Smallest, IsKth

LEMMA IsSmallest ==
    ASSUME NEW s \in Seq(Int), NEW k \in 1..Len(s), NEW x \in Int, IsKth(s, k, x)
    PROVE  Smallest(s, k) = x
  BY SmallestRanks, OneOfARank

(* The two positions in the middle. *)
LEMMA Middle ==
    ASSUME NEW n \in Nat \ {0}
    PROVE  (n + 1) \div 2 \in 1..n /\ n \div 2 + 1 \in 1..n
  OBVIOUS

(* Twice the median of positive numbers is above the values in the middle.   *)
LEMMA MedianIsPositive ==
    ASSUME NEW s \in Seq(Nat \ {0}), Len(s) # 0
    PROVE  /\ TwiceMedian(s) \in Nat \ {0}
           /\ Smallest(s, (Len(s) + 1) \div 2) <= TwiceMedian(s)
           /\ Smallest(s, Len(s) \div 2 + 1) <= TwiceMedian(s)
  <1>1. s \in Seq(Int) /\ Len(s) \in Nat \ {0}
    OBVIOUS
  <1>2. /\ Smallest(s, (Len(s) + 1) \div 2) \in {s[i] : i \in DOMAIN s}
        /\ Smallest(s, Len(s) \div 2 + 1) \in {s[i] : i \in DOMAIN s}
    BY <1>1, Middle, SmallestRanks
  <1>3. /\ Smallest(s, (Len(s) + 1) \div 2) \in Nat \ {0}
        /\ Smallest(s, Len(s) \div 2 + 1) \in Nat \ {0}
    BY <1>2
  <1> QED BY <1>3 DEF TwiceMedian

(* The cap's fixed point: cutting off what lies above a limit that is not    *)
(* below the median leaves the median where it is.                            *)
CutAt(s, l) == [i \in DOMAIN s |-> IF s[i] > l THEN l ELSE s[i]]

LEMMA CutKeepsRank ==
    ASSUME NEW s \in Seq(Int), NEW l \in Int, NEW k \in 1..Len(s), Smallest(s, k) <= l
    PROVE  Smallest(CutAt(s, l), k) = Smallest(s, k)
  <1> DEFINE c == CutAt(s, l)
             x == Smallest(s, k)
  <1>1. c \in Seq(Int) /\ Len(c) = Len(s) /\ DOMAIN c = DOMAIN s
    <2>1. DOMAIN s = 1..Len(s) /\ Len(s) \in Nat
      OBVIOUS
    <2>2. c \in [1..Len(s) -> Int]
      BY <2>1 DEF CutAt
    <2> QED BY <2>1, <2>2
  <1>2. x \in Int /\ IsKth(s, k, x)
    BY SmallestRanks
  <1>3. x <= l /\ \A i \in DOMAIN s : s[i] \in Int /\ c[i] = IF s[i] > l THEN l ELSE s[i]
    BY DEF CutAt
  <1> HIDE DEF c, x
  <1>4. Below(c, x) = Below(s, x) /\ UpTo(s, x) \in SUBSET UpTo(c, x)
    BY <1>1, <1>2, <1>3 DEF Below, UpTo
  <1>5. Cardinality(UpTo(s, x)) <= Cardinality(UpTo(c, x))
    BY <1>1, <1>2, <1>4, Counts, FS_Subset
  <1>6. IsKth(c, k, x)
    <2>1. Cardinality(UpTo(s, x)) \in Nat /\ Cardinality(UpTo(c, x)) \in Nat
      BY <1>1, <1>2, Counts
    <2> QED BY <1>2, <1>4, <1>5, <2>1 DEF IsKth
  <1>7. Smallest(c, k) = x
    BY <1>1, <1>2, <1>6, IsSmallest
  <1> QED BY <1>7 DEF c, x

LEMMA CutKeepsMedian ==
    ASSUME NEW s \in Seq(Nat \ {0}), Len(s) # 0
    PROVE  LET c == CutAt(s, TwiceMedian(s))
           IN /\ c \in Seq(Nat \ {0}) /\ Len(c) = Len(s)
              /\ TwiceMedian(c) = TwiceMedian(s)
              /\ \A i \in DOMAIN c : c[i] <= TwiceMedian(c)
              /\ \A i, j \in DOMAIN s : s[i] <= s[j] => c[i] <= c[j]
  <1> DEFINE l == TwiceMedian(s)
             c == CutAt(s, l)
  <1>1. s \in Seq(Int) /\ Len(s) \in Nat \ {0} /\ DOMAIN s = 1..Len(s)
    OBVIOUS
  <1>2. /\ l \in Nat \ {0}
        /\ Smallest(s, (Len(s) + 1) \div 2) <= l
        /\ Smallest(s, Len(s) \div 2 + 1) <= l
    BY MedianIsPositive
  <1> HIDE DEF l
  <1>3. c \in [1..Len(s) -> Nat \ {0}]
    BY <1>1, <1>2 DEF CutAt
  <1>4. c \in Seq(Nat \ {0}) /\ Len(c) = Len(s) /\ DOMAIN c = DOMAIN s
    BY <1>1, <1>3
  <1>5. /\ Smallest(c, (Len(s) + 1) \div 2) = Smallest(s, (Len(s) + 1) \div 2)
        /\ Smallest(c, Len(s) \div 2 + 1) = Smallest(s, Len(s) \div 2 + 1)
    BY <1>1, <1>2, Middle, CutKeepsRank
  <1>6. TwiceMedian(c) = l
    BY <1>4, <1>5 DEF TwiceMedian, l
  <1>7. \A i \in DOMAIN c : c[i] <= l
    BY <1>1, <1>2, <1>4 DEF CutAt
  <1>8. \A i, j \in DOMAIN s : s[i] <= s[j] => c[i] <= c[j]
    BY <1>1, <1>2 DEF CutAt
  <1> QED BY <1>4, <1>6, <1>7, <1>8 DEF l

-----------------------------------------------------------------------------
(* A close, stage by stage: who survived the gate passed it; the shares are   *)
(* in the order of the steps throughout, and settled by the first pass; the    *)
(* sum of a tensor lies between two survivors' values, weighed with what has   *)
(* been added so far.                                                           *)
Weighing == stage \in {"weights", "combine"}
Capped == HasCap => \A i \in DOMAIN shares : shares[i] <= TwiceMedian(shares)
InOrder == \A i, j \in DOMAIN shares :
    cohort[survivors[i]].steps <= cohort[survivors[j]].steps => shares[i] <= shares[j]
AmongValues(t) == \E i, j \in DOMAIN survivors :
    /\ sums.weight * cohort[survivors[i]].value[t] <= sums.of[t]
    /\ sums.of[t] <= sums.weight * cohort[survivors[j]].value[t]

GateInv == \A i \in DOMAIN survivors : PassesNormGate(survivors[i])
StageInv ==
    /\ stage = "norms" => shares = <<>> /\ passes = 0
    /\ stage # "norms" => Len(shares) = Len(survivors)
    /\ Weighing => survivors # <<>>
    /\ stage \in {"norms", "weights"} => sums = NoSums
    /\ HasResult => sums.done = Len(shares)
ClampInv ==
    /\ stage = "weights" => passes <= 1 /\ (HasCap /\ passes = 1 => Capped)
    /\ stage = "combine" => passes <= 2 /\ Capped
    /\ Weighing => InOrder
SumInv ==
    /\ sums.done <= sums.weight
    /\ stage = "combine" \/ HasResult => \A t \in Tensors : AmongValues(t)
AggInv == AggTypeOK /\ GateInv /\ StageInv /\ ClampInv /\ SumInv

LEMMA InitAgg ==
    ASSUME NEW cohorts \in SUBSET Seq(Submissions), AggInit(cohorts)
    PROVE  AggInv
  <1>1. cohort \in Seq(Submissions) /\ Len(cohort) \in Nat
    BY DEF AggInit
  <1>2. AggTypeOK
    BY <1>1 DEF AggInit, AggTypeOK, NoSums, MaxPasses
  <1> QED BY <1>2 DEF AggInit, AggInv, GateInv, StageInv, ClampInv, SumInv, Weighing,
             HasResult, NoSums

(* The verdicts are about the cohort as it was received. *)
LEMMA GateStays ==
    ASSUME cohort' = cohort
    PROVE  \A i : PassesNormGate(i)' <=> PassesNormGate(i)
  BY DEF PassesNormGate, IsOutlier, Norms, Norm

LEMMA Extend ==
    ASSUME NEW S, NEW T, S \subseteq T, NEW s \in Seq(S), NEW x \in T
    PROVE  s \in Seq(T) /\ Append(s, x) \in Seq(T)
  <1>1. s \in [1..Len(s) -> T] /\ Len(s) \in Nat
    OBVIOUS
  <1>2. s \in Seq(T)
    BY <1>1
  <1> QED BY <1>2

LEMMA CheckNormsKeepsInv == AggInv /\ CheckNorms => AggInv'
  <1> SUFFICES ASSUME AggInv, CheckNorms PROVE AggInv'
    OBVIOUS
  <1> USE DEF AggInv
  <1>1. /\ cohort' = cohort /\ cohort \in Seq(Submissions) /\ Len(cohort) \in Nat
        /\ judged \in Nat /\ judged' = judged + 1 /\ judged' \in 0..Len(cohort)
        /\ stage = "norms" /\ UNCHANGED <<stage, shares, passes, sums>>
    BY DEF CheckNorms, AggTypeOK
  <1>2. survivors \in Seq(1..judged')
    <2>1. survivors \in Seq(1..judged) /\ 1..judged \subseteq 1..judged' /\ judged' \in 1..judged'
      BY <1>1 DEF AggTypeOK
    <2> QED BY <2>1, Extend
  <1>3. survivors' \in Seq(1..judged')
    <2>1. Append(survivors, judged') \in Seq(1..judged')
      BY <1>1, <1>2, Extend
    <2> QED BY <1>1, <1>2, <2>1 DEF CheckNorms
  <1>4. AggTypeOK'
    BY <1>1, <1>3 DEF AggTypeOK
  <1>5. GateInv'
    <2>1. \A i : PassesNormGate(i)' <=> PassesNormGate(i)
      BY <1>1, GateStays
    <2>2. CASE ~PassesNormGate(judged')
      BY <1>1, <2>1, <2>2 DEF GateInv, CheckNorms
    <2>3. CASE PassesNormGate(judged')
      <3>1. survivors' = Append(survivors, judged')
        BY <2>3 DEF CheckNorms
      <3>2. ASSUME NEW i \in DOMAIN survivors' PROVE PassesNormGate(survivors'[i])
        <4>1. \/ i \in DOMAIN survivors /\ survivors'[i] = survivors[i]
              \/ survivors'[i] = judged'
          BY <1>2, <3>1
        <4> QED BY <2>3, <4>1 DEF GateInv
      <3> QED BY <3>2, <2>1 DEF GateInv
    <2> QED BY <2>2, <2>3
  <1>6. (StageInv /\ ClampInv /\ SumInv)'
    BY <1>1 DEF StageInv, ClampInv, SumInv, Weighing, HasResult
  <1> QED BY <1>4, <1>5, <1>6

(* A survivor is one of the cohort. *)
LEMMA SurvivorsSubmitted ==
    ASSUME AggTypeOK
    PROVE  /\ DOMAIN survivors = 1..Len(survivors) /\ Len(survivors) \in Nat
           /\ survivors # <<>> => 1 \in DOMAIN survivors
           /\ \A i \in DOMAIN survivors :
                /\ survivors[i] \in DOMAIN cohort
                /\ cohort[survivors[i]].steps \in Nat \ {0}
                /\ \A t \in Tensors : cohort[survivors[i]].value[t] \in Int
  <1>1. /\ cohort \in Seq(Submissions) /\ judged \in 0..Len(cohort)
        /\ survivors \in Seq(1..judged)
    BY DEF AggTypeOK
  <1>2. /\ DOMAIN survivors = 1..Len(survivors) /\ Len(survivors) \in Nat
        /\ survivors # <<>> => 1 \in DOMAIN survivors
    BY <1>1
  <1>3. \A i \in DOMAIN survivors : survivors[i] \in 1..judged
    BY <1>1
  <1>4. \A i \in DOMAIN survivors : survivors[i] \in DOMAIN cohort
    BY <1>1, <1>3
  <1>5. \A i \in DOMAIN cohort : /\ cohort[i].steps \in Nat \ {0}
                                 /\ \A t \in Tensors : cohort[i].value[t] \in Int
    <2>1. \A i \in DOMAIN cohort : cohort[i] \in Submissions
      BY <1>1
    <2> QED BY <2>1 DEF Submissions
  <1> QED BY <1>2, <1>4, <1>5

(* Everything but the judging leaves the cohort and the survivors alone. *)
LEMMA GateInvStays ==
    ASSUME GateInv, UNCHANGED <<cohort, survivors>>
    PROVE  GateInv'
  <1>1. \A i : PassesNormGate(i)' <=> PassesNormGate(i)
    BY GateStays
  <1> QED BY <1>1 DEF GateInv

LEMMA StartWeightsKeepsInv == AggInv /\ StartWeights => AggInv'
  <1> SUFFICES ASSUME AggInv, StartWeights PROVE AggInv'
    OBVIOUS
  <1> USE DEF AggInv
  <1>1. /\ UNCHANGED <<cohort, judged, survivors, passes, sums>>
        /\ stage = "norms" /\ passes = 0 /\ sums = NoSums /\ shares = <<>>
        /\ stage' = IF survivors = <<>> THEN "closed" ELSE "weights"
        /\ shares' = [i \in DOMAIN survivors |-> cohort[survivors[i]].steps]
    BY DEF StartWeights, StageInv
  <1>2. /\ cohort \in Seq(Submissions) /\ judged \in 0..Len(cohort)
        /\ survivors \in Seq(1..judged)
    BY DEF AggTypeOK
  <1>3. /\ DOMAIN survivors = 1..Len(survivors) /\ Len(survivors) \in Nat
        /\ \A i \in DOMAIN survivors : cohort[survivors[i]].steps \in Nat \ {0}
    BY SurvivorsSubmitted
  <1>4. shares' \in Seq(Nat \ {0}) /\ Len(shares') = Len(survivors) /\ DOMAIN shares' = DOMAIN survivors
    BY <1>1, <1>3
  <1>5. sums' \in [done : 0..Len(shares'), weight : Nat, of : [Tensors -> Int]]
    BY <1>1, <1>4, <1>3 DEF NoSums
  <1>6. AggTypeOK'
    BY <1>1, <1>4, <1>5 DEF AggTypeOK
  <1>7. GateInv'
    BY <1>1, GateInvStays
  <1>8. StageInv'
    BY <1>1, <1>3, <1>4 DEF StageInv, Weighing, HasResult, NoSums
  <1>9. ClampInv'
    BY <1>1, <1>4 DEF ClampInv, Weighing, InOrder
  <1>10. SumInv'
    BY <1>1 DEF SumInv, HasResult, NoSums
  <1> QED BY <1>6, <1>7, <1>8, <1>9, <1>10

(* The clamp, which is a cut at twice the median of what is cut. *)
LEMMA ClampSettles ==
    ASSUME AggTypeOK, shares # <<>>
    PROVE  /\ Clamped \in Seq(Nat \ {0}) /\ Len(Clamped) = Len(shares)
           /\ \A i \in DOMAIN Clamped : Clamped[i] <= TwiceMedian(Clamped)
           /\ \A i, j \in DOMAIN shares : shares[i] <= shares[j] => Clamped[i] <= Clamped[j]
           /\ (\A i \in DOMAIN shares : shares[i] <= TwiceMedian(shares)) => Clamped = shares
  <1>1. shares \in Seq(Nat \ {0}) /\ Len(shares) # 0
    BY DEF AggTypeOK
  <1>2. Clamped = CutAt(shares, TwiceMedian(shares))
    BY DEF Clamped, CutAt, Limit
  <1>3. /\ Clamped \in Seq(Nat \ {0}) /\ Len(Clamped) = Len(shares)
        /\ \A i \in DOMAIN Clamped : Clamped[i] <= TwiceMedian(Clamped)
        /\ \A i, j \in DOMAIN shares : shares[i] <= shares[j] => Clamped[i] <= Clamped[j]
    BY <1>1, <1>2, CutKeepsMedian
  <1>4. ASSUME \A i \in DOMAIN shares : shares[i] <= TwiceMedian(shares)
        PROVE  Clamped = shares
    <2>1. TwiceMedian(shares) \in Nat
      BY <1>1, MedianIsPositive
    <2>2. \A i \in DOMAIN shares : shares[i] \in Nat /\ Clamped[i] = shares[i]
      BY <1>1, <1>4, <2>1 DEF Clamped, Limit
    <2> QED BY <1>1, <2>2 DEF Clamped
  <1> QED BY <1>3, <1>4

LEMMA ClampKeepsInv == AggInv /\ ClampPass => AggInv'
  <1> SUFFICES ASSUME AggInv, ClampPass PROVE AggInv'
    OBVIOUS
  <1> USE DEF AggInv
  <1>1. /\ UNCHANGED <<cohort, judged, survivors, sums>>
        /\ stage = "weights" /\ HasCap /\ passes' = passes + 1 /\ sums = NoSums
        /\ shares' = Clamped /\ stage' = IF Clamped = shares THEN "combine" ELSE "weights"
        /\ survivors # <<>> /\ Len(shares) = Len(survivors)
    BY DEF ClampPass, StageInv, Weighing
  <1>2. shares \in Seq(Nat \ {0}) /\ survivors \in Seq(1..judged) /\ passes \in Nat
    BY DEF AggTypeOK, MaxPasses
  <1>3. shares # <<>> /\ DOMAIN shares = DOMAIN survivors
    BY <1>1, <1>2
  <1>4. /\ shares' \in Seq(Nat \ {0}) /\ Len(shares') = Len(shares)
        /\ Capped'
        /\ \A i, j \in DOMAIN shares : shares[i] <= shares[j] => shares'[i] <= shares'[j]
        /\ HasCap /\ Capped => shares' = shares
    BY <1>1, <1>3, ClampSettles DEF Capped
  <1>5. DOMAIN shares' = DOMAIN shares
    BY <1>2, <1>4
  <1>6. passes <= 1 /\ (passes = 1 => stage' = "combine")
    BY <1>1, <1>4 DEF ClampInv
  <1>7. passes' \in 0..2 /\ (stage' = "weights" => passes' = 1)
    BY <1>1, <1>2, <1>6
  <1>8. AggTypeOK'
    <2>1. sums' \in [done : 0..Len(shares'), weight : Nat, of : [Tensors -> Int]]
      BY <1>1, <1>4 DEF AggTypeOK
    <2> QED BY <1>1, <1>4, <1>7, <2>1 DEF AggTypeOK, MaxPasses
  <1>9. GateInv'
    BY <1>1, GateInvStays
  <1>10. StageInv'
    BY <1>1, <1>4 DEF StageInv, Weighing, HasResult
  <1>11. ClampInv'
    <2>1. InOrder'
      BY <1>1, <1>4, <1>5 DEF ClampInv, InOrder, Weighing
    <2> QED BY <1>1, <1>4, <1>7, <2>1 DEF ClampInv
  <1>12. SumInv'
    <2>1. sums.done = 0 /\ sums.weight = 0 /\ \A t \in Tensors : sums.of[t] = 0
      BY <1>1 DEF NoSums
    <2>2. ASSUME NEW t \in Tensors PROVE AmongValues(t)'
      <3>1. 1 \in DOMAIN survivors /\ cohort[survivors[1]].value[t] \in Int
        BY <1>1, <1>2, SurvivorsSubmitted
      <3> QED BY <1>1, <2>1, <3>1 DEF AmongValues
    <2> QED BY <1>1, <2>1, <2>2 DEF SumInv
  <1> QED BY <1>8, <1>9, <1>10, <1>11, <1>12

LEMMA EndClampingKeepsInv == AggInv /\ EndClamping => AggInv'
  <1> SUFFICES ASSUME AggInv, EndClamping PROVE AggInv'
    OBVIOUS
  <1> USE DEF AggInv
  <1>1. /\ UNCHANGED <<cohort, judged, survivors, shares, passes, sums>>
        /\ stage = "weights" /\ stage' = "combine" /\ sums = NoSums
        /\ survivors # <<>> /\ Len(shares) = Len(survivors)
    BY DEF EndClamping, StageInv, Weighing
  <1>2. passes <= 1 /\ ~HasCap
    BY <1>1 DEF EndClamping, ClampInv, MaxPasses
  <1>3. AggTypeOK'
    BY <1>1 DEF AggTypeOK
  <1>4. GateInv'
    BY <1>1, GateInvStays
  <1>5. StageInv'
    BY <1>1 DEF StageInv, Weighing, HasResult
  <1>6. ClampInv'
    <2>1. passes' <= 2
      BY <1>1, <1>2 DEF AggTypeOK
    <2>2. Capped'
      BY <1>1, <1>2 DEF Capped, HasCap
    <2>3. InOrder'
      BY <1>1 DEF InOrder, ClampInv, Weighing
    <2> QED BY <1>1, <2>1, <2>2, <2>3 DEF ClampInv
  <1>7. SumInv'
    <2>1. sums.done = 0 /\ sums.weight = 0 /\ \A t \in Tensors : sums.of[t] = 0
      BY <1>1 DEF NoSums
    <2>2. ASSUME NEW t \in Tensors PROVE AmongValues(t)'
      <3>1. 1 \in DOMAIN survivors /\ cohort[survivors[1]].value[t] \in Int
        BY <1>1, SurvivorsSubmitted
      <3> QED BY <1>1, <2>1, <3>1 DEF AmongValues
    <2> QED BY <1>1, <2>1, <2>2 DEF SumInv
  <1> QED BY <1>3, <1>4, <1>5, <1>6, <1>7

(* One more summand: the sum stays between the smaller and the larger one.    *)
LEMMA OneMoreSummand ==
    ASSUME NEW w \in Nat, NEW s \in Nat, NEW sum \in Int, NEW v \in Int
    PROVE  /\ \A u \in Int : w * u <= sum =>
                IF u <= v THEN (w + s) * u <= sum + s * v ELSE (w + s) * v <= sum + s * v
           /\ \A u \in Int : sum <= w * u =>
                IF v <= u THEN sum + s * v <= (w + s) * u ELSE sum + s * v <= (w + s) * v
  <1>1. \A a, b \in Int : a <= b => w * a <= w * b /\ s * a <= s * b
    BY SMTT(30)
  <1>2. \A u \in Int : (w + s) * u = w * u + s * u /\ w * u \in Int /\ s * u \in Int
    BY SMTT(30)
  <1> QED BY <1>1, <1>2, SMTT(30)

LEMMA AccumulateKeepsInv == AggInv /\ Accumulate => AggInv'
  <1> SUFFICES ASSUME AggInv, Accumulate PROVE AggInv'
    OBVIOUS
  <1> USE DEF AggInv
  <1> DEFINE k == sums.done + 1
             x == survivors[k]
  <1>1. /\ UNCHANGED <<stage, cohort, judged, survivors, shares, passes>>
        /\ stage = "combine" /\ sums.done < Len(shares)
        /\ sums' = [done |-> k, weight |-> sums.weight + shares[k],
                    of |-> [t \in Tensors |-> sums.of[t] + shares[k] * cohort[x].value[t]]]
        /\ survivors # <<>> /\ Len(shares) = Len(survivors)
    BY DEF Accumulate, StageInv, Weighing
  <1>2. /\ sums.done \in Nat /\ sums.weight \in Nat /\ shares \in Seq(Nat \ {0})
        /\ \A t \in Tensors : sums.of[t] \in Int
    BY DEF AggTypeOK
  <1>3. /\ k \in 1..Len(shares) /\ k \in DOMAIN survivors /\ shares[k] \in Nat \ {0}
        /\ \A t \in Tensors : cohort[x].value[t] \in Int
    BY <1>1, <1>2, SurvivorsSubmitted
  <1>4. \A t \in Tensors : shares[k] * cohort[x].value[t] \in Int
    BY <1>3
  <1>5. sums' \in [done : 0..Len(shares'), weight : Nat, of : [Tensors -> Int]]
    BY <1>1, <1>2, <1>3, <1>4
  <1>6. AggTypeOK'
    BY <1>1, <1>5 DEF AggTypeOK
  <1>7. GateInv'
    BY <1>1, GateInvStays
  <1>8. StageInv'
    BY <1>1 DEF StageInv, Weighing, HasResult
  <1>9. ClampInv'
    BY <1>1 DEF ClampInv, Weighing, Capped, HasCap, InOrder
  <1>10. sums'.done <= sums'.weight
    BY <1>1, <1>2, <1>3 DEF SumInv
  <1>11. ASSUME NEW t \in Tensors PROVE AmongValues(t)'
    <2> DEFINE v == cohort[x].value[t]
               value(i) == cohort[survivors[i]].value[t]
    <2>1. PICK i \in DOMAIN survivors, j \in DOMAIN survivors :
            /\ sums.weight * value(i) <= sums.of[t]
            /\ sums.of[t] <= sums.weight * value(j)
      BY <1>1 DEF SumInv, AmongValues
    <2>2. /\ sums'.weight = sums.weight + shares[k]
          /\ sums'.of[t] = sums.of[t] + shares[k] * v
      BY <1>1
    <2>3. value(i) \in Int /\ value(j) \in Int /\ v \in Int
      BY SurvivorsSubmitted, <1>3
    <2>4. v = value(k)
      OBVIOUS
    <2> HIDE DEF v, value, k, x
    <2>5. /\ IF value(i) <= v THEN (sums.weight + shares[k]) * value(i) <= sums.of[t] + shares[k] * v
                              ELSE (sums.weight + shares[k]) * v <= sums.of[t] + shares[k] * v
          /\ IF v <= value(j) THEN sums.of[t] + shares[k] * v <= (sums.weight + shares[k]) * value(j)
                              ELSE sums.of[t] + shares[k] * v <= (sums.weight + shares[k]) * v
      <3>1. /\ sums.weight \in Nat /\ shares[k] \in Nat /\ sums.of[t] \in Int
        BY <1>2, <1>3
      <3> QED BY <2>1, <2>3, <3>1, OneMoreSummand
    <2>6. /\ \E m \in DOMAIN survivors : sums'.weight * value(m) <= sums'.of[t]
          /\ \E m \in DOMAIN survivors : sums'.of[t] <= sums'.weight * value(m)
      <3>1. k \in DOMAIN survivors
        BY <1>3
      <3> QED BY <2>2, <2>4, <2>5, <3>1, Zenon
    <2> QED BY <1>1, <2>6 DEF AmongValues, value
  <1>12. SumInv'
    BY <1>10, <1>11 DEF SumInv
  <1> QED BY <1>6, <1>7, <1>8, <1>9, <1>12

LEMMA OuterStepKeepsInv == AggInv /\ OuterStep => AggInv'
  <1> SUFFICES ASSUME AggInv, OuterStep PROVE AggInv'
    OBVIOUS
  <1> USE DEF AggInv
  <1>1. /\ UNCHANGED <<cohort, judged, survivors, shares, passes, sums>>
        /\ stage = "combine" /\ stage' = "closed" /\ sums.done = Len(shares)
    BY DEF OuterStep
  <1>2. AggTypeOK'
    BY <1>1 DEF AggTypeOK
  <1>3. GateInv'
    BY <1>1, GateInvStays
  <1>4. StageInv' /\ ClampInv'
    BY <1>1 DEF StageInv, ClampInv, Weighing, HasResult
  <1>5. SumInv'
    BY <1>1 DEF SumInv, AmongValues
  <1> QED BY <1>2, <1>3, <1>4, <1>5

LEMMA NextAgg == AggInv /\ [AggNext]_aggVars => AggInv'
  <1> SUFFICES ASSUME AggInv, [AggNext]_aggVars PROVE AggInv'
    OBVIOUS
  <1>1. CASE UNCHANGED aggVars
    <2>1. GateInv'
      BY <1>1, GateInvStays DEF aggVars, AggInv
    <2> QED BY <1>1, <2>1 DEF aggVars, AggInv, AggTypeOK, StageInv, ClampInv, SumInv,
               Weighing, HasResult, Capped, HasCap, InOrder, AmongValues
  <1> QED BY <1>1, CheckNormsKeepsInv, StartWeightsKeepsInv, ClampKeepsInv,
             EndClampingKeepsInv, AccumulateKeepsInv, OuterStepKeepsInv DEF AggNext

(* The median norm of a tensor, of a cohort that is not empty. *)
LEMMA NormsMedian ==
    ASSUME AggTypeOK, Len(cohort) >= 3, NEW t \in Tensors
    PROVE  TwiceMedian(Norms(t)) \in Int
  <1>1. cohort \in Seq(Submissions) /\ DOMAIN cohort = 1..Len(cohort) /\ Len(cohort) \in Nat
    BY DEF AggTypeOK
  <1>2. \A i \in DOMAIN cohort : Norm(i, t) \in Int
    <2>1. \A i \in DOMAIN cohort : cohort[i] \in Submissions
      BY <1>1
    <2> QED BY <2>1 DEF Norm, Abs, Submissions
  <1>3. Norms(t) \in Seq(Int) /\ Len(Norms(t)) = Len(cohort)
    BY <1>1, <1>2 DEF Norms
  <1> DEFINE s == Norms(t)
  <1> HIDE DEF s
  <1>4. s \in Seq(Int) /\ Len(s) \in Nat \ {0}
    BY <1>1, <1>3 DEF s
  <1>5. /\ Smallest(s, (Len(s) + 1) \div 2) \in {s[i] : i \in DOMAIN s}
        /\ Smallest(s, Len(s) \div 2 + 1) \in {s[i] : i \in DOMAIN s}
    BY <1>4, Middle, SmallestRanks
  <1>6. TwiceMedian(s) \in Int
    BY <1>4, <1>5 DEF TwiceMedian
  <1> QED BY <1>6 DEF s

(* What was weighed between survivors that passed the gate is itself within  *)
(* the gate.                                                                   *)
LEMMA WithinTheGate ==
    ASSUME NEW w \in Nat, NEW b \in Int, NEW sum \in Int, NEW u \in Int, NEW v \in Int,
           2 * Abs(u) <= b, 2 * Abs(v) <= b, w * u <= sum, sum <= w * v
    PROVE  2 * Abs(sum) <= b * w
  <1>1. 2 * v <= b /\ -(2 * u) <= b
    BY DEF Abs
  <1>2. \A m, n \in Int : m <= n => w * m <= w * n
    BY SMTT(30)
  <1>3. w * (2 * v) <= w * b /\ w * (-(2 * u)) <= w * b
    BY <1>1, <1>2
  <1>4. /\ w * (2 * v) = 2 * (w * v) /\ w * (-(2 * u)) = -(2 * (w * u)) /\ w * b = b * w
        /\ w * v \in Int /\ w * u \in Int /\ b * w \in Int
    BY SMTT(30)
  <1> HIDE DEF Abs
  <1>5. 2 * sum <= b * w /\ -(2 * sum) <= b * w
    BY <1>3, <1>4
  <1> QED BY <1>5, <1>4 DEF Abs

LEMMA InvIsFair == AggInv => AggregationIsFair
  <1> SUFFICES ASSUME AggInv PROVE AggregationIsFair
    OBVIOUS
  <1> USE DEF AggInv
  <1>1. DominanceIsCapped
    BY DEF DominanceIsCapped, ClampInv, Capped, InOrder, Weighing
  <1>2. ASSUME HasResult, NEW t \in Tensors
        PROVE  Len(survivors) <= sums.weight /\ AmongValues(t)
    BY <1>2 DEF SumInv, StageInv, HasResult
  <1>3. ASSUME HasResult, NEW t \in Tensors, Len(cohort) >= 3, TwiceMedian(Norms(t)) # 0
        PROVE  2 * Abs(sums.of[t]) <= NormFactor * TwiceMedian(Norms(t)) * sums.weight
    <2> DEFINE value(i) == cohort[survivors[i]].value[t]
               b == NormFactor * TwiceMedian(Norms(t))
    <2>1. PICK i \in DOMAIN survivors, j \in DOMAIN survivors :
            sums.weight * value(i) <= sums.of[t] /\ sums.of[t] <= sums.weight * value(j)
      BY <1>2, <1>3 DEF AmongValues
    <2>2. /\ value(i) \in Int /\ value(j) \in Int
          /\ sums.weight \in Nat /\ sums.of[t] \in Int
      BY SurvivorsSubmitted DEF AggTypeOK
    <2>3. b \in Int
      BY NormsMedian, AggregateAssumption, <1>3
    <2>4. ASSUME NEW n \in DOMAIN survivors PROVE 2 * Abs(value(n)) <= b
      <3>1. ~IsOutlier(survivors[n])
        BY <1>3 DEF GateInv, PassesNormGate, AggTypeOK
      <3>2. ~(2 * Abs(value(n)) > b)
        BY <3>1, <1>3 DEF IsOutlier, Norm
      <3>3. Abs(value(n)) \in Int
        BY SurvivorsSubmitted DEF Abs
      <3> QED BY <3>2, <3>3, <2>3
    <2> HIDE DEF value, b
    <2>5. 2 * Abs(sums.of[t]) <= b * sums.weight
      BY <2>1, <2>2, <2>3, <2>4, WithinTheGate
    <2> QED BY <2>5 DEF b
  <1> QED BY <1>1, <1>2, <1>3 DEF AggregationIsFair, ResultIsNoOutlier, AmongValues

THEOREM AggregationsAreFair == AggSpec => []AggregationIsFair
  <1>1. AggInit(Cohorts) => AggInv
    BY InitAgg, AggregateAssumption
  <1> QED BY <1>1, NextAgg, InvIsFair, PTL DEF AggSpec

-----------------------------------------------------------------------------
(* One kernel takes steps and the others keep still. *)
KernelInv == SweepInv /\ AggInv /\ StreamInv /\ IInv

LEMMA InitKernels == Init => KernelInv
  <1> SUFFICES ASSUME Init PROVE KernelInv
    OBVIOUS
  <1>1. CacheInit(SUBSET Models)
    BY DEF Init, CacheInit
  <1>2. AggInit(IF kernel = "aggregate" THEN Cohorts ELSE {<<>>})
    BY DEF Init
  <1>3. StreamInit(Plans, MicroBatches)
    <2>1. (CHOOSE p \in Plans : TRUE) \in Plans /\ {1} \subseteq MicroBatches
      BY IdleKernels
    <2> QED BY <2>1 DEF Init, StreamInit
  <1>4. (IF kernel = "aggregate" THEN Cohorts ELSE {<<>>}) \in SUBSET Seq(Submissions)
    BY AggregateAssumption
  <1> QED BY <1>1, <1>2, <1>3, <1>4, InitSweep, InitAgg, InitStream, InitIInv
          DEF Init, KernelInv

LEMMA NextKernels == KernelInv /\ [Next]_<<kernel, others>> => KernelInv'
  <1> SUFFICES ASSUME KernelInv, [Next]_<<kernel, others>> PROVE KernelInv'
    OBVIOUS
  <1>1. /\ [CacheNext]_cacheVars /\ [AggNext]_aggVars
        /\ [StreamNext]_streamVars /\ [NewRunNext]_newRunVars
    BY DEF Next, others
  <1> QED BY <1>1, NextSweep, NextAgg, NextStream, NextKeepsIInv DEF KernelInv

(* Side by side, the cache, the arithmetic, the stream and the creation of a *)
(* run keep their variables' types and their promises.                         *)
THEOREM KernelsTypeCorrect == Spec => []TypeOK
  <1>1. KernelInv => TypeOK
    BY DEF KernelInv, SweepInv, AggInv, StreamInv, IInv, TypeOK
  <1> QED BY <1>1, InitKernels, NextKernels, PTL DEF Spec
=============================================================================
