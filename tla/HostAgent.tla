----------------------------- MODULE HostAgent -----------------------------
(***************************************************************************)
(* The program on a contributor's machine that starts and stops a worker: *)
(* the tick of host/agent.py over either runtime of host/runtime.py, the   *)
(* idle decision of host/idle.py and the image decision of host/manifest.py *)
(* (what a tick evicts from the model cache is HostCache's).  Two agents    *)
(* run it: the timer, and the contributor's command line; each keeps what  *)
(* it read in a local record while the other, the worker and the machine   *)
(* go on.                                                                   *)
(*                                                                         *)
(* A process is identified by its pid.  The start time a native record     *)
(* carries is modelled by what it is compared for: "current" says that the *)
(* pid still belongs to the process the record was written for, and every  *)
(* death of a process makes the references to it stale.  A docker          *)
(* container is the same, with the fixed name as the record.               *)
(***************************************************************************)
EXTENDS Integers, FiniteSets

CONSTANTS
    Pids,           \* process ids of the machine
    Runs,           \* runs the coordinator may have
    Images,         \* image tags, ordered as their tag strings are
    NoImage,        \* a run that names no image, a host that pins none
    Pins,           \* image_tag values a host may be configured with
    Closed,         \* in place of an image: the run is not active
    MaxEvents       \* bound: disturbances by the contributor and the machine

ASSUME HostAssumption ==
    /\ Images \subseteq Nat /\ NoImage \notin Images /\ Closed \notin Images \union {NoImage}
    /\ Pids \subseteq Nat \ {0} /\ Pins \subseteq Images \union {NoImage}
    /\ MaxEvents \in Nat

VARIABLES
    cfg,            \* host.json: runtime, how the GPU check sees the worker, pin
    proc,           \* the machine's process table
    record,         \* worker.json, or the container behind the fixed name
    stopFile,       \* the stop sentinel
    pauseFile,      \* the pause sentinel
    busy,           \* outside the window, or the user or a foreign job is active
    manifestUp,     \* GET /v1/manifest answers
    runImage,       \* active runs with the image each requires
    agent,          \* each agent's tick or command in progress
    disturbed,      \* history: a command was typed or an agent died half way
    events          \* disturbances left

host == <<record, stopFile, pauseFile>>
world == <<busy, manifestUp, runImage>>
vars == <<cfg, proc, host, world, agent, disturbed, events>>

Agents == {"timer", "user"}

Config == [runtime : {"docker", "native"},
           gpu     : {"named", "anonymous"},   \* "named": recognised, or not checked
           pin     : Pins]

Entry(kind, signalled, loaded) ==
    [kind |-> kind, signalled |-> signalled, loaded |-> loaded]
Process == [kind : {"free", "other", "worker"}, signalled : BOOLEAN, loaded : BOOLEAN]
Free == Entry("free", FALSE, FALSE)
NewWorker == Entry("worker", FALSE, FALSE)

Ref(p, i, c) == [pid |-> p, image |-> i, current |-> c]
None == Ref(0, NoImage, FALSE)
Record == [pid : Pids, image : Images, current : BOOLEAN] \union {None}

(* an agent at step pc; "after" is what follows a stop: the end of the tick *)
(* or a start                                                               *)
At(pc, seen, want, after) == [pc |-> pc, seen |-> seen, want |-> want, after |-> after]
On(pc) == At(pc, None, NoImage, "off")
Off == On("off")
AgentState == [pc : {"off", "status", "report", "consult", "stop", "grace", "start", "record"},
               seen : Record, want : Images \union {NoImage}, after : {"off", "start"}]

TypeOK ==
    /\ cfg \in Config
    /\ proc \in [Pids -> Process]
    /\ record \in Record
    /\ stopFile \in BOOLEAN /\ pauseFile \in BOOLEAN
    /\ busy \in BOOLEAN /\ manifestUp \in BOOLEAN
    /\ runImage \in [Runs -> Images \union {NoImage, Closed}]
    /\ agent \in [Agents -> AgentState]
    /\ disturbed \in BOOLEAN
    /\ events \in 0..MaxEvents

(* the lowest free pid stands for whichever the kernel hands out *)
Fresh == {p \in Pids : proc[p] = Free /\ \A q \in Pids : proc[q] = Free => p <= q}
Workers == {p \in Pids : proc[p].kind = "worker"}
AliveByPid(r) == r # None /\ proc[r.pid] # Free
Alive(r) == r.current
Running == Alive(record)
Active == {r \in Runs : runImage[r] # Closed}

(***************************************************************************)
(* A process dies: whatever refers to it by pid is stale from then on.     *)
(***************************************************************************)
Stale(r, dead) == Ref(r.pid, r.image, r.current /\ r.pid \notin dead)
Die(dead) ==
    /\ proc' = [p \in Pids |-> IF p \in dead THEN Free ELSE proc[p]]
    /\ record' = Stale(record, dead)

Forget(dead, a, next) ==
    agent' = [b \in Agents |->
        IF b = a THEN next
        ELSE At(agent[b].pc, Stale(agent[b].seen, dead), agent[b].want, agent[b].after)]
Goto(a, next) == agent' = [agent EXCEPT ![a] = next]

(***************************************************************************)
(* The decisions a tick takes.                                             *)
(***************************************************************************)
(* a worker holds the GPU once it has loaded a model *)
OwnGpuJobIsForeign == cfg.gpu = "anonymous" /\ \E p \in Workers : proc[p].loaded
Idle == ~pauseFile /\ ~busy /\ ~OwnGpuJobIsForeign

Votes(i) == Cardinality({r \in Active : runImage[r] = i})
Named == {i \in Images : Votes(i) > 0}
Majority == {i \in Named : \A j \in Named :
                Votes(j) < Votes(i) \/ (Votes(j) = Votes(i) /\ j <= i)}
Required == IF cfg.pin # NoImage THEN {cfg.pin}
            ELSE IF Named = {} THEN {NoImage} ELSE Majority
Resolve == CHOOSE i \in Required : TRUE

-----------------------------------------------------------------------------
(* A fresh installation: nothing has run on the machine yet. *)
Init ==
    /\ cfg \in Config
    /\ proc = [p \in Pids |-> Free]
    /\ record = None
    /\ stopFile = FALSE /\ pauseFile = FALSE
    /\ busy = FALSE /\ manifestUp = TRUE
    /\ \E i \in Images \union {NoImage} : runImage = [r \in Runs |-> i]
    /\ agent = [a \in Agents |-> Off]
    /\ disturbed = FALSE
    /\ events = MaxEvents

-----------------------------------------------------------------------------
(* One tick, step by step; steps that only read the machine are separate   *)
(* from those that act on what was read.                                    *)

Begins(a) == IF a = "timer" THEN "off" ELSE "status"
ReadStatus(a) ==
    /\ agent[a].pc = Begins(a)
    /\ Goto(a, At("report", IF Running THEN record ELSE None, NoImage, "off"))
    /\ UNCHANGED <<cfg, proc, host, world, disturbed, events>>

ReportLeavingIt(a) ==
    /\ agent[a].pc = "report"
    /\ Goto(a, IF Idle THEN At("consult", agent[a].seen, NoImage, "off") ELSE Off)
    /\ UNCHANGED <<cfg, proc, host, world, disturbed, events>>

Report(a) ==
    /\ agent[a].pc = "report"
    /\ Goto(a, IF Idle THEN At("consult", agent[a].seen, NoImage, "off")
               ELSE IF agent[a].seen # None THEN On("stop")
               ELSE Off)
    /\ UNCHANGED <<cfg, proc, host, world, disturbed, events>>

ManifestFails(a) ==
    /\ agent[a].pc = "consult" /\ ~manifestUp
    /\ Goto(a, Off)
    /\ UNCHANGED <<cfg, proc, host, world, disturbed, events>>

Consult(a) ==
    /\ agent[a].pc = "consult" /\ manifestUp
    /\ \E i \in Required :
        LET seen == agent[a].seen
        IN Goto(a, IF i = NoImage \/ (seen # None /\ seen.image = i) THEN Off
                   ELSE IF seen # None
                        THEN At("stop", None, i, "start")
                   ELSE At("start", None, i, "off"))
    /\ UNCHANGED <<cfg, proc, host, world, disturbed, events>>

StoppedForgetting(a) == On(agent[a].after)

(* what follows once the worker is stopped or there is none to stop *)
Stopped(a) == At(agent[a].after, None, agent[a].want, "off")
Waiting(a, r) == At("grace", r, agent[a].want, agent[a].after)
Signal(p) == proc' = [proc EXCEPT ![p] = Entry(@.kind, TRUE, @.loaded)]

(* native: the sentinel first, then the wait for the process to go *)
StopNative(a) ==
    /\ agent[a].pc = "stop" /\ cfg.runtime = "native"
    /\ stopFile' = TRUE
    /\ Goto(a, IF record = None THEN Stopped(a) ELSE Waiting(a, record))
    /\ UNCHANGED <<cfg, proc, record, pauseFile, world, disturbed, events>>

(* docker stop: SIGTERM to the named container, nothing if it is not up *)
StopDocker(a) ==
    /\ agent[a].pc = "stop" /\ cfg.runtime = "docker"
    /\ IF Running THEN Signal(record.pid) /\ Goto(a, Waiting(a, record))
       ELSE UNCHANGED proc /\ Goto(a, Stopped(a))
    /\ UNCHANGED <<cfg, host, world, disturbed, events>>

(* the process went within the grace period; the record is removed, *)
(* whichever worker it names by now                                  *)
WorkerIsGone(a) ==
    /\ agent[a].pc = "grace" /\ ~Alive(agent[a].seen)
    /\ record' = IF cfg.runtime = "native" THEN None ELSE record
    /\ Goto(a, Stopped(a))
    /\ UNCHANGED <<cfg, proc, stopFile, pauseFile, world, disturbed, events>>

GraceEndsUnsignalled(a) ==
    /\ agent[a].pc = "grace" /\ cfg.runtime = "native"
    /\ record' = None
    /\ Goto(a, Stopped(a))
    /\ UNCHANGED <<cfg, proc, stopFile, pauseFile, world, disturbed, events>>

(* the grace period ran out: a native worker is signalled if it is still   *)
(* the recorded process, a container is killed                              *)
GraceEndsNative(a) ==
    /\ agent[a].pc = "grace" /\ cfg.runtime = "native"
    /\ IF Alive(agent[a].seen) THEN Signal(agent[a].seen.pid) ELSE UNCHANGED proc
    /\ record' = None
    /\ Goto(a, Stopped(a))
    /\ UNCHANGED <<cfg, stopFile, pauseFile, world, disturbed, events>>

GraceEndsDocker(a) ==
    /\ agent[a].pc = "grace" /\ cfg.runtime = "docker" /\ Alive(agent[a].seen)
    /\ Die({agent[a].seen.pid})
    /\ Forget({agent[a].seen.pid}, a, Stopped(a))
    /\ UNCHANGED <<cfg, stopFile, pauseFile, world, disturbed, events>>

(* rm -f whatever holds the name, then run under it *)
StartDocker(a) ==
    /\ agent[a].pc = "start" /\ cfg.runtime = "docker"
    /\ LET dead == IF Running THEN {record.pid} ELSE {}
       IN \E p \in IF dead = {} THEN Fresh ELSE dead :
            /\ proc' = [q \in Pids |-> IF q = p THEN NewWorker
                                       ELSE IF q \in dead THEN Free ELSE proc[q]]
            /\ record' = Ref(p, agent[a].want, TRUE)
            /\ Forget(dead, a, Off)
    /\ UNCHANGED <<cfg, stopFile, pauseFile, world, disturbed, events>>

SpawnKeepingSentinel(a) ==
    /\ agent[a].pc = "start" /\ cfg.runtime = "native"
    /\ \E p \in Fresh :
        /\ proc' = [proc EXCEPT ![p] = NewWorker]
        /\ Goto(a, At("record", Ref(p, agent[a].want, TRUE), agent[a].want, "off"))
    /\ UNCHANGED <<cfg, host, world, disturbed, events>>

(* a stale stop sentinel is cleared, the process started, *)
SpawnNative(a) ==
    /\ agent[a].pc = "start" /\ cfg.runtime = "native"
    /\ stopFile' = FALSE
    /\ \E p \in Fresh :
        /\ proc' = [proc EXCEPT ![p] = NewWorker]
        /\ Goto(a, At("record", Ref(p, agent[a].want, TRUE), agent[a].want, "off"))
    /\ UNCHANGED <<cfg, record, pauseFile, world, disturbed, events>>

(* and only then recorded *)
WriteRecord(a) ==
    /\ agent[a].pc = "record"
    /\ record' = agent[a].seen
    /\ Goto(a, Off)
    /\ UNCHANGED <<cfg, proc, stopFile, pauseFile, world, disturbed, events>>

Step(a) ==
    \/ ReadStatus(a) \/ Report(a) \/ ManifestFails(a) \/ Consult(a)
    \/ StopNative(a) \/ StopDocker(a)
    \/ WorkerIsGone(a) \/ GraceEndsNative(a) \/ GraceEndsDocker(a)
    \/ StartDocker(a) \/ SpawnNative(a) \/ WriteRecord(a)

-----------------------------------------------------------------------------
(* The worker, as far as the agent can tell. *)

(* it takes work of an active run and from then on holds the GPU *)
WorkerLoads(p) ==
    /\ p \in Workers /\ Active # {} /\ ~proc[p].loaded
    /\ ~pauseFile /\ ~stopFile /\ ~proc[p].signalled
    /\ proc' = [proc EXCEPT ![p] = Entry("worker", FALSE, TRUE)]
    /\ UNCHANGED <<cfg, host, world, agent, disturbed, events>>

WorkerStops(p) ==
    /\ p \in Workers /\ (stopFile \/ proc[p].signalled)
    /\ Die({p})
    /\ Forget({p}, "none", Off)
    /\ UNCHANGED <<cfg, stopFile, pauseFile, world, disturbed, events>>

-----------------------------------------------------------------------------
(* The contributor and the machine. *)

Event == events > 0 /\ events' = events - 1

Command(step) ==
    /\ agent["user"].pc = "off" /\ Event
    /\ Goto("user", On(step))
    /\ disturbed' = TRUE
    /\ UNCHANGED <<cfg, proc, record, stopFile, world>>
StopCommand == Command("stop") /\ UNCHANGED pauseFile
PauseCommand == Command("stop") /\ pauseFile' = TRUE
ResumeCommand == Command("status") /\ pauseFile' = FALSE

(* an agent is killed, or a command it runs raises, at any step *)
AgentDies(a) ==
    /\ agent[a].pc # "off" /\ Event
    /\ Goto(a, Off)
    /\ disturbed' = TRUE
    /\ UNCHANGED <<cfg, proc, host, world>>

WorkerCrashes(p) ==
    /\ p \in Workers /\ Event
    /\ Die({p}) /\ Forget({p}, "none", Off)
    /\ UNCHANGED <<cfg, stopFile, pauseFile, world, disturbed>>

(* a process of the contributor's takes a pid, perhaps a recycled one *)
OtherStarts(p) ==
    /\ p \in Fresh /\ Event
    /\ proc' = [proc EXCEPT ![p] = Entry("other", FALSE, FALSE)]
    /\ UNCHANGED <<cfg, host, world, agent, disturbed>>

(* every process ends; the sentinels and the record survive *)
Reboot ==
    /\ Event
    /\ Die(Pids)
    /\ agent' = [a \in Agents |-> Off]
    /\ UNCHANGED <<cfg, stopFile, pauseFile, world, disturbed>>

BusyChanges == Event /\ busy' = ~busy /\ UNCHANGED <<manifestUp, runImage>>
ManifestChanges == Event /\ manifestUp' = ~manifestUp /\ UNCHANGED <<busy, runImage>>
RunChanges ==
    /\ Event
    /\ \E r \in Active, i \in Images \union {Closed} :
        i # runImage[r] /\ runImage' = [runImage EXCEPT ![r] = i]
    /\ UNCHANGED <<busy, manifestUp>>
WorldChanges ==
    /\ BusyChanges \/ ManifestChanges \/ RunChanges
    /\ UNCHANGED <<cfg, proc, host, agent, disturbed>>

Disturbance ==
    \/ StopCommand \/ PauseCommand \/ ResumeCommand
    \/ \E a \in Agents : AgentDies(a)
    \/ \E p \in Pids : WorkerCrashes(p) \/ OtherStarts(p)
    \/ Reboot \/ WorldChanges

Next ==
    \/ \E a \in Agents : Step(a)
    \/ \E p \in Pids : WorkerStops(p) \/ WorkerLoads(p)
    \/ Disturbance

(* The timer fires again, a tick runs to its end, and a worker polls its   *)
(* sentinel and takes work where a run has some.                            *)
Fairness ==
    /\ \A a \in Agents : WF_vars(Step(a))
    /\ \A p \in Pids : WF_vars(WorkerStops(p)) /\ WF_vars(WorkerLoads(p))

Spec == Init /\ [][Next]_vars
FairSpec == Spec /\ Fairness

-----------------------------------------------------------------------------
(* Nothing but a worker is ever signalled or killed, though the pid of a    *)
(* dead worker may by then be the contributor's own process                 *)
(* (runtime.py _alive: "the single worst thing this software could do").    *)
OnlyWorkersAreSignalled ==
    \A p \in Pids : proc[p].kind = "other" => ~proc[p].signalled

(* A machine left to its timer runs one worker, and a docker host always    *)
(* does: a second one is only ever a worker that has been told to stop.     *)
OneWorker ==
    cfg.runtime = "docker" \/ ~disturbed
        => Cardinality({p \in Workers : ~proc[p].signalled /\ ~stopFile}) <= 1

(* A machine whose pause stays set ends up without a worker, whatever tick   *)
(* was under way when the contributor asked (idle.py, agent.tick).           *)
PauseIsFinal == <>[]pauseFile => <>[]~Running

Calm == /\ Idle /\ manifestUp /\ Resolve # NoImage
        /\ \E p \in Pids : proc[p] = Free
Serves == Running /\ record.image = Resolve
(* An idle machine ends up with a worker of the image the runs require,      *)
(* after any crash, reboot or image bump (agent.tick).                       *)
IdleMachineWorks == <>[]Calm => <>[]Serves

(* "A false negative here just means one extra busy tick": a machine nobody  *)
(* else uses keeps its worker even when the GPU check does not recognise it  *)
(* (idle.py _looks_like_ganymede).                                            *)
Undisturbed == ~pauseFile /\ ~busy /\ manifestUp /\ Resolve # NoImage
OwnWorkerIsKept == <>[]Undisturbed => <>[]Serves
=============================================================================
