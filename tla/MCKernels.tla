----------------------------- MODULE MCKernels -----------------------------
(* The parts that run by themselves, one per behaviour: the eviction of a    *)
(* model cache, the arithmetic of a close, a worker's stream of batches and   *)
(* the creation of a run.                                                      *)
EXTENDS HostCache, Aggregate, Stream, NewRun

(* The kernels that are not running hold some plan and batches of one. *)
ASSUME IdleKernels == Plans # {} /\ 1 \in MicroBatches

VARIABLE kernel
others == <<cacheVars, aggVars, streamVars, newRunVars>>

SizeOfValue == [m \in Models |-> m]

(* every vector of steps of up to five submissions that agree, and every     *)
(* cohort of up to four of which the values differ                             *)
Submission(steps, v) == [steps |-> steps, value |-> v]
Agreeing == {[i \in DOMAIN s |-> Submission(s[i], [t \in Tensors |-> 1])] :
                s \in UNION {[1..n -> {1, 2, 5}] : n \in 1..5}}
Differing == {[i \in DOMAIN v |-> Submission(i, v[i])] :
                v \in UNION {[1..n -> [Tensors -> {-1, 0, 60}]] : n \in 1..4}}
CohortsValue == {<<>>} \union Agreeing \union Differing

PlansValue == {[rows |-> r, buckets |-> 2, evalSize |-> e, assigned |-> a] :
                r \in {5, 6}, e \in {0, 2}, a \in {{0}, {1}, {0, 1}}}
DatasetsValue == {[rows |-> 7, buckets |-> 3]}

Init ==
    /\ kernel \in {"cache", "aggregate", "stream", "newrun"}
    /\ CacheInit(IF kernel = "cache" THEN SUBSET Models ELSE {{}})
    /\ AggInit(IF kernel = "aggregate" THEN Cohorts ELSE {<<>>})
    /\ IF kernel = "stream" THEN StreamInit(Plans, MicroBatches)
       ELSE StreamInit({CHOOSE p \in Plans : TRUE}, {1})
    /\ NewRunInit

Next ==
    /\ UNCHANGED kernel
    /\ \/ kernel = "cache" /\ CacheNext /\ UNCHANGED <<aggVars, streamVars, newRunVars>>
       \/ kernel = "aggregate" /\ AggNext /\ UNCHANGED <<cacheVars, streamVars, newRunVars>>
       \/ kernel = "stream" /\ StreamNext /\ UNCHANGED <<cacheVars, aggVars, newRunVars>>
       \/ kernel = "newrun" /\ NewRunNext /\ UNCHANGED <<cacheVars, aggVars, streamVars>>

(* A training loop draws its batches; nothing else has to happen. *)
FairStream == WF_streamVars(kernel = "stream" /\ StreamNext
                            /\ UNCHANGED <<kernel, cacheVars, aggVars, newRunVars>>)
Spec == Init /\ [][Next]_<<kernel, others>> /\ FairStream

(* Every kernel's variables keep their types (the four modules). *)
TypeOK == CacheTypeOK /\ AggTypeOK /\ StreamTypeOK /\ NewRunTypeOK

(* The stream of a worker delivers (Stream.tla). *)
WorkersAreFed == kernel = "stream" => StreamDelivers
=============================================================================
