----------------------------- MODULE HostCache -----------------------------
(***************************************************************************)
(* The cache of base models on a contributor's machine and its eviction,   *)
(* host/cache.py, called in every idle tick of the agent (agent.py          *)
(* _evict_cache).  The scan and the deletions are separate steps: a worker  *)
(* downloads and loads models beside them, and the runs change.             *)
(***************************************************************************)
EXTENDS Integers, FiniteSets, FiniteSetsExt

CONSTANTS
    Models,         \* base models, ordered as their directory names are
    SizeOf,         \* bytes of each
    CapSize,        \* cache_cap_gb, 0 for no cap
    MaxTime         \* bound: moments at which a model can be used

ASSUME CacheAssumption ==
    /\ Models \subseteq Nat /\ IsFiniteSet(Models)
    /\ SizeOf \in [Models -> Nat \ {0}]
    /\ CapSize \in Nat /\ MaxTime \in Nat

VARIABLES
    now,            \* the clock, as coarse as the file system's timestamps
    cached,         \* repositories in the hub directory
    lastUsed,       \* newest of a repository's mtimes and its blobs' atimes
    wanted,         \* base models of the active runs
    sweep           \* the eviction in progress and what its scan saw

cacheVars == <<now, cached, lastUsed, wanted, sweep>>

Times == [Models -> 0..MaxTime]
Never == [m \in Models |-> 0]
NoSweep == [pc |-> "idle", repos |-> {}, protect |-> {}, seen |-> Never, remove |-> {}]

CacheTypeOK ==
    /\ now \in 0..MaxTime
    /\ cached \subseteq Models /\ wanted \subseteq Models
    /\ lastUsed \in Times /\ \A m \in Models : lastUsed[m] <= now
    /\ sweep \in [pc : {"idle", "select", "delete"}, repos : SUBSET Models,
                  protect : SUBSET Models, seen : Times, remove : SUBSET Models]
    /\ sweep.remove \subseteq sweep.repos

CacheInit(initially) ==
    /\ now = 0 /\ cached = {} /\ lastUsed = Never
    /\ wanted \in initially
    /\ sweep = NoSweep

-----------------------------------------------------------------------------
(* The worker loads the model of a run, downloading it if it is not there. *)
LoadModel(m) ==
    /\ m \in wanted
    /\ cached' = cached \union {m}
    /\ lastUsed' = [lastUsed EXCEPT ![m] = now]
    /\ UNCHANGED <<now, wanted, sweep>>

ClockTicks ==
    /\ now < MaxTime /\ now' = now + 1
    /\ UNCHANGED <<cached, lastUsed, wanted, sweep>>

RunsEndOrStart ==
    /\ \E s \in SUBSET Models : s # wanted /\ wanted' = s
    /\ UNCHANGED <<now, cached, lastUsed, sweep>>

-----------------------------------------------------------------------------
(* One eviction: a scan, the selection repository by repository, the        *)
(* deletion of what was selected.                                            *)
Size(repos) == MapThenSumSet(LAMBDA m : SizeOf[m], repos)
Left == sweep.repos \ sweep.remove
CandidatesFromAll == Left
Candidates == Left \ sweep.protect

(* oldest first, ties broken by name *)
OldestFirst(m, n) ==
    \/ sweep.seen[m] < sweep.seen[n]
    \/ sweep.seen[m] = sweep.seen[n] /\ m < n

Scan ==
    /\ CapSize > 0 /\ sweep.pc = "idle"
    /\ sweep' = [pc |-> "select", repos |-> cached, protect |-> wanted,
                 seen |-> lastUsed, remove |-> {}]
    /\ UNCHANGED <<now, cached, lastUsed, wanted>>

OverCap == Size(Left) > CapSize
SelectRepo(m) ==
    /\ sweep.pc = "select" /\ OverCap
    /\ m \in Candidates /\ \A n \in Candidates \ {m} : OldestFirst(m, n)
    /\ sweep' = [sweep EXCEPT !.remove = @ \union {m}]
    /\ UNCHANGED <<now, cached, lastUsed, wanted>>

EndSelection ==
    /\ sweep.pc = "select" /\ (~OverCap \/ Candidates = {})
    /\ sweep' = [sweep EXCEPT !.pc = "delete"]
    /\ UNCHANGED <<now, cached, lastUsed, wanted>>

RemoveRepo(m) ==
    /\ sweep.pc = "delete" /\ m \in sweep.remove
    /\ \A n \in sweep.remove \ {m} : OldestFirst(m, n)
    /\ cached' = cached \ {m}
    /\ sweep' = [sweep EXCEPT !.remove = @ \ {m}]
    /\ UNCHANGED <<now, lastUsed, wanted>>

EndSweep ==
    /\ sweep.pc = "delete" /\ sweep.remove = {}
    /\ sweep' = NoSweep
    /\ UNCHANGED <<now, cached, lastUsed, wanted>>

CacheNext ==
    \/ \E m \in Models : LoadModel(m) \/ SelectRepo(m) \/ RemoveRepo(m)
    \/ ClockTicks \/ RunsEndOrStart
    \/ Scan \/ EndSelection \/ EndSweep

CacheSpec == CacheInit(SUBSET Models) /\ [][CacheNext]_cacheVars

-----------------------------------------------------------------------------
(* What an eviction selects is what was used least recently, never a model   *)
(* an active run needs, and no more than brings the cache under its cap;      *)
(* and it deletes nothing else (cache.py evict_to_cap).                        *)
EvictionIsLru ==
    [][/\ sweep.pc = "select" /\ sweep'.pc = "delete" =>
            /\ \A m \in sweep.remove, n \in Candidates : sweep.seen[m] <= sweep.seen[n]
            /\ OverCap => Left \subseteq sweep.protect
            /\ sweep.remove # {} => \E m \in sweep.remove :
                    Size(Left \union {m}) > CapSize
       /\ cached \ cached' \subseteq sweep.remove \ sweep.protect]_cacheVars
=============================================================================
