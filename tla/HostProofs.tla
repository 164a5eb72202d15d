----------------------------- MODULE HostProofs -----------------------------
(***************************************************************************)
(* That a host agent never signals or kills anything but a worker, and does *)
(* not run two of them, for every set of pids, runs and images.              *)
(*                                                                         *)
(* A reference, the record or what an agent read of it, is "current" as long *)
(* as the process it was written for lives.  OnlyWorkersAreSignalled is not  *)
(* inductive without saying that a current reference names a worker, which   *)
(* in turn needs that only free pids are handed out; and the types need that *)
(* an agent which is about to start a worker has an image to start.           *)
(*                                                                         *)
(* OneWorker needs to know where the one worker is: on a docker host behind   *)
(* the container's name (DockerInv), on a native one that is left to its       *)
(* timer in the record, or in the hands of the tick about to write it           *)
(* (NativeInv).                                                                  *)
(***************************************************************************)
EXTENDS HostAgent, FiniteSetTheorems, TLAPS

(* a reference is current only to one of the workers ws *)
Refers(r, ws) == r \in Record /\ (r.current => r.pid \in ws)

(* an agent refers to a worker, and has an image for the one it starts *)
Sound(s, ws) ==
    /\ s \in AgentState
    /\ Refers(s.seen, ws)
    /\ s.pc = "start" \/ s.after = "start" => s.want \in Images

References(ws) == Refers(record, ws) /\ \A a \in Agents : Sound(agent[a], ws)

IInv == TypeOK /\ References(Workers) /\ OnlyWorkersAreSignalled

-----------------------------------------------------------------------------
(* Facts about the records the state is made of. *)

LEMMA EntryFields ==
    ASSUME NEW k \in {"free", "other", "worker"}, NEW s \in BOOLEAN, NEW l \in BOOLEAN
    PROVE  /\ Entry(k, s, l) \in Process
           /\ Entry(k, s, l).kind = k /\ Entry(k, s, l).signalled = s
  BY DEF Entry, Process

LEMMA NoneRefers == ASSUME NEW ws PROVE Refers(None, ws)
  BY DEF Refers, None, Ref, Record

LEMMA NewRefers ==
    ASSUME NEW p \in Pids, NEW i \in Images, NEW ws, p \in ws
    PROVE  Refers(Ref(p, i, TRUE), ws)
  BY DEF Refers, Ref, Record

(* Once the processes in dead are gone, a reference made stale is sound. *)
LEMMA StaleRefers ==
    ASSUME NEW ws, NEW dead, NEW r, Refers(r, ws)
    PROVE  Refers(Stale(r, dead), ws \ dead)
  <1>1. CASE r = None
    <2>1. None.pid = 0 /\ None.image = NoImage /\ None.current = FALSE
      BY DEF None, Ref
    <2>2. (None.current /\ None.pid \notin dead) = FALSE
      BY <2>1
    <2>3. Stale(None, dead) = None
      BY <2>1, <2>2, Zenon DEF Stale, None
    <2> QED BY <1>1, <2>3, NoneRefers
  <1>2. CASE r # None
    <2>1. r \in [pid : Pids, image : Images, current : BOOLEAN]
      BY <1>2 DEF Refers, Record
    <2>2. Stale(r, dead) \in [pid : Pids, image : Images, current : BOOLEAN]
      BY <2>1 DEF Stale, Ref
    <2>3. Stale(r, dead).current => r.current /\ r.pid \notin dead
      BY DEF Stale, Ref
    <2>4. Stale(r, dead).pid = r.pid
      BY DEF Stale, Ref
    <2> QED BY <2>2, <2>3, <2>4 DEF Refers, Record
  <1> QED BY <1>1, <1>2

LEMMA AtIsSound ==
    ASSUME NEW ws, NEW r, Refers(r, ws),
           NEW pc \in {"off", "status", "report", "consult", "stop", "grace", "start", "record"},
           NEW want \in Images \union {NoImage}, NEW after \in {"off", "start"},
           pc = "start" \/ after = "start" => want \in Images
    PROVE  Sound(At(pc, r, want, after), ws)
  BY DEF Sound, At, AgentState, Refers

LEMMA OnIsSound ==
    ASSUME NEW ws, NEW pc \in {"off", "status", "stop"}
    PROVE  Sound(On(pc), ws)
  BY NoneRefers, AtIsSound DEF On

LEMMA StoppedIsSound ==
    ASSUME NEW ws, NEW a \in Agents, Sound(agent[a], ws)
    PROVE  Sound(Stopped(a), ws)
  <1>1. agent[a].want \in Images \union {NoImage} /\ agent[a].after \in {"off", "start"}
    BY DEF Sound, AgentState
  <1> QED BY <1>1, NoneRefers, AtIsSound DEF Stopped, Sound

(* A sound agent stays sound when there are more workers. *)
LEMMA SoundGrows ==
    ASSUME NEW ws, NEW more, ws \subseteq more, NEW s, Sound(s, ws)
    PROVE  Sound(s, more)
  BY DEF Sound, Refers

(* One agent moves to a sound state, the other does not move. *)
LEMMA GotoIsSound ==
    ASSUME NEW ws, NEW a \in Agents, NEW next, agent \in [Agents -> AgentState],
           \A b \in Agents : Sound(agent[b], ws), Sound(next, ws), Goto(a, next)
    PROVE  agent' \in [Agents -> AgentState] /\ \A b \in Agents : Sound(agent'[b], ws)
  BY DEF Goto, Sound

(* One agent, or none, moves on; the processes in dead are gone. *)
LEMMA ForgetIsSound ==
    ASSUME NEW ws, NEW dead, NEW a, NEW next, agent \in [Agents -> AgentState],
           \A b \in Agents : Sound(agent[b], ws), Sound(next, ws \ dead),
           Forget(dead, a, next)
    PROVE  /\ agent' \in [Agents -> AgentState]
           /\ \A b \in Agents : Sound(agent'[b], ws \ dead)
  <1>1. ASSUME NEW b \in Agents, b # a
        PROVE  Sound(agent'[b], ws \ dead)
    <2>1. agent'[b] = At(agent[b].pc, Stale(agent[b].seen, dead), agent[b].want, agent[b].after)
      BY <1>1 DEF Forget
    <2>2. Refers(Stale(agent[b].seen, dead), ws \ dead)
      BY StaleRefers DEF Sound
    <2>3. agent[b] \in AgentState
      BY DEF Sound
    <2>4. agent[b].pc = "start" \/ agent[b].after = "start" => agent[b].want \in Images
      BY DEF Sound
    <2> QED BY <2>1, <2>2, <2>3, <2>4, AtIsSound DEF AgentState
  <1>2. \A b \in Agents : Sound(agent'[b], ws \ dead)
    BY <1>1 DEF Forget
  <1>3. agent' = [b \in Agents |-> agent'[b]]
    BY DEF Forget
  <1> QED BY <1>2, <1>3 DEF Sound

-----------------------------------------------------------------------------
(* The state is sound at first, and every step keeps it so. *)

LEMMA InitIInv == Init => IInv
  <1> SUFFICES ASSUME Init PROVE IInv
    OBVIOUS
  <1>1. Free \in Process /\ Free.kind = "free"
    BY EntryFields DEF Free
  <1>2. Off \in AgentState /\ Sound(Off, Workers)
    BY OnIsSound DEF Off, Sound
  <1>3. References(Workers)
    BY <1>2, NoneRefers DEF Init, References
  <1>4. TypeOK
    <2>1. proc \in [Pids -> Process] /\ agent \in [Agents -> AgentState]
      BY <1>1, <1>2 DEF Init
    <2>2. record \in Record
      BY NoneRefers DEF Init, Refers
    <2>3. runImage \in [Runs -> Images \union {NoImage, Closed}]
      BY DEF Init
    <2>4. events \in 0..MaxEvents
      BY HostAssumption DEF Init
    <2> QED BY <2>1, <2>2, <2>3, <2>4 DEF Init, TypeOK
  <1>5. OnlyWorkersAreSignalled
    BY <1>1 DEF Init, OnlyWorkersAreSignalled
  <1> QED BY <1>3, <1>4, <1>5 DEF IInv

(* A step of an agent that leaves the processes alone. *)
LEMMA AgentOnly ==
    ASSUME IInv, NEW a \in Agents, NEW next, Goto(a, next), Sound(next, Workers),
           UNCHANGED <<cfg, proc>>, Refers(record', Workers),
           UNCHANGED <<busy, manifestUp>> /\ runImage' \in [Runs -> Images \union {NoImage, Closed}],
           stopFile' \in BOOLEAN, pauseFile' \in BOOLEAN, disturbed' \in BOOLEAN,
           events' \in 0..MaxEvents
    PROVE  IInv'
  <1>1. agent' \in [Agents -> AgentState] /\ \A b \in Agents : Sound(agent'[b], Workers)
    BY GotoIsSound DEF IInv, TypeOK, References
  <1>2. Workers' = Workers
    BY DEF Workers
  <1>3. TypeOK'
    BY <1>1 DEF IInv, TypeOK, Refers
  <1>4. References(Workers)'
    BY <1>1, <1>2 DEF IInv, References
  <1>5. OnlyWorkersAreSignalled'
    BY DEF IInv, OnlyWorkersAreSignalled
  <1> QED BY <1>3, <1>4, <1>5 DEF IInv

(* A step that changes one process, which is and stays a worker or becomes *)
(* one, and perhaps the record and an agent.                                *)
LEMMA OneProcess ==
    ASSUME IInv, NEW p \in Pids, NEW e \in Process,
           e.kind = "other" => ~e.signalled,
           p \in Workers => e.kind = "worker",
           proc' = [proc EXCEPT ![p] = e],
           Refers(record', Workers'),
           agent' \in [Agents -> AgentState],
           \A b \in Agents : Sound(agent'[b], Workers'),
           UNCHANGED <<cfg, pauseFile, world, disturbed>>,
           stopFile' \in BOOLEAN, events' \in 0..MaxEvents
    PROVE  IInv'
  <1>1. proc' \in [Pids -> Process] /\ \A q \in Pids : q # p => proc'[q] = proc[q]
    BY DEF IInv, TypeOK
  <1>2. proc'[p] = e
    BY DEF IInv, TypeOK
  <1>3. TypeOK'
    BY <1>1 DEF IInv, TypeOK, world, Refers
  <1>4. OnlyWorkersAreSignalled'
    BY <1>1, <1>2 DEF IInv, OnlyWorkersAreSignalled
  <1> QED BY <1>3, <1>4 DEF IInv, References

LEMMA OneProcessWorkers ==
    ASSUME IInv, NEW p \in Pids, NEW e, proc' = [proc EXCEPT ![p] = e],
           p \in Workers => e.kind = "worker"
    PROVE  Workers \subseteq Workers' /\ (e.kind = "worker" => p \in Workers')
  BY DEF IInv, TypeOK, Workers

(* Processes die. *)
LEMMA Deaths ==
    ASSUME IInv, NEW dead, NEW a, NEW next, Die(dead),
           Forget(dead, a, next), Sound(next, Workers \ dead),
           UNCHANGED <<cfg, stopFile, pauseFile, world, disturbed>>,
           events' \in 0..MaxEvents
    PROVE  IInv'
  <1>1. Free \in Process /\ Free.kind = "free"
    BY EntryFields DEF Free
  <1>2. proc' \in [Pids -> Process] /\ Workers' = Workers \ dead
    BY <1>1 DEF IInv, TypeOK, Die, Workers
  <1>3. Refers(record', Workers')
    BY <1>2, StaleRefers DEF IInv, References, Die
  <1>4. agent' \in [Agents -> AgentState] /\ \A b \in Agents : Sound(agent'[b], Workers')
    BY <1>2, ForgetIsSound DEF IInv, References, TypeOK
  <1>5. TypeOK'
    BY <1>2, <1>3, <1>4 DEF IInv, TypeOK, world, Refers
  <1>6. OnlyWorkersAreSignalled'
    BY <1>1 DEF IInv, TypeOK, OnlyWorkersAreSignalled, Die
  <1> QED BY <1>3, <1>4, <1>5, <1>6 DEF IInv, References

(* What an agent read or is about to do is of the right kind. *)
LEMMA AgentFields ==
    ASSUME IInv, NEW a \in Agents
    PROVE  /\ Sound(agent[a], Workers)
           /\ Refers(agent[a].seen, Workers)
           /\ agent[a].want \in Images \union {NoImage}
           /\ agent[a].after \in {"off", "start"}
           /\ agent[a].pc = "start" \/ agent[a].after = "start" => agent[a].want \in Images
  BY DEF IInv, References, Sound, AgentState

LEMMA ReadingKeepsIInv ==
    ASSUME IInv, NEW a \in Agents,
           ReadStatus(a) \/ Report(a) \/ ManifestFails(a) \/ Consult(a)
    PROVE  IInv'
  <1>1. /\ UNCHANGED <<cfg, proc, record, world>>
        /\ UNCHANGED <<stopFile, pauseFile, disturbed, events>>
    BY DEF ReadStatus, Report, ManifestFails, Consult, host
  <1>2. /\ stopFile' \in BOOLEAN /\ pauseFile' \in BOOLEAN /\ disturbed' \in BOOLEAN
        /\ events' \in 0..MaxEvents /\ Refers(record', Workers)
        /\ UNCHANGED <<busy, manifestUp>> /\ runImage' \in [Runs -> Images \union {NoImage, Closed}]
    BY <1>1 DEF IInv, TypeOK, References, world
  <1>3. \A next : Goto(a, next) /\ Sound(next, Workers) => IInv'
    BY <1>1, <1>2, AgentOnly
  <1>4. CASE ReadStatus(a)
    <2>1. Refers(IF Running THEN record ELSE None, Workers)
      BY NoneRefers DEF IInv, References
    <2>2. Sound(At("report", IF Running THEN record ELSE None, NoImage, "off"), Workers)
      BY <2>1, AtIsSound
    <2> QED BY <1>3, <1>4, <2>2 DEF ReadStatus
  <1>5. CASE Report(a)
    <2>1. Sound(At("consult", agent[a].seen, NoImage, "off"), Workers)
      BY AgentFields, AtIsSound
    <2>2. Sound(Off, Workers) /\ Sound(On("stop"), Workers)
      BY OnIsSound DEF Off
    <2> QED BY <1>3, <1>5, <2>1, <2>2 DEF Report
  <1>6. CASE ManifestFails(a)
    BY <1>3, <1>6, OnIsSound DEF ManifestFails, Off
  <1>7. CASE Consult(a)
    <2>1. PICK i \in Required :
            LET seen == agent[a].seen
            IN Goto(a, IF i = NoImage \/ (seen # None /\ seen.image = i) THEN Off
                       ELSE IF seen # None THEN At("stop", None, i, "start")
                       ELSE At("start", None, i, "off"))
      BY <1>7 DEF Consult
    <2>2. i \in Images \union {NoImage}
      <3>1. cfg.pin \in Images \union {NoImage}
        BY HostAssumption DEF IInv, TypeOK, Config
      <3>2. Majority \subseteq Images
        BY DEF Majority, Named
      <3> QED BY <3>1, <3>2 DEF Required
    <2>3. CASE i \in Images
      <3>1. Sound(At("stop", None, i, "start"), Workers)
        BY <2>3, NoneRefers, AtIsSound
      <3>2. Sound(At("start", None, i, "off"), Workers)
        BY <2>3, NoneRefers, AtIsSound
      <3>3. Sound(Off, Workers)
        BY OnIsSound DEF Off
      <3> QED BY <2>1, <1>3, <3>1, <3>2, <3>3
    <2>4. CASE i = NoImage
      BY <2>1, <2>4, <1>3, OnIsSound DEF Off
    <2> QED BY <2>2, <2>3, <2>4
  <1> QED BY <1>4, <1>5, <1>6, <1>7

(* Telling a worker to stop changes nobody else's process. *)
LEMMA SignalKeepsIInv ==
    ASSUME IInv, NEW a \in Agents, NEW p \in Workers, NEW next,
           Signal(p), Goto(a, next), Sound(next, Workers),
           Refers(record', Workers),
           UNCHANGED <<cfg, stopFile, pauseFile, world, disturbed, events>>
    PROVE  IInv'
  <1>1. p \in Pids /\ proc[p].kind = "worker"
    BY DEF Workers
  <1>2. proc[p] \in Process /\ proc[p].loaded \in BOOLEAN
    BY <1>1 DEF IInv, TypeOK, Process
  <1>3. PICK e \in Process : e = Entry(proc[p].kind, TRUE, proc[p].loaded) /\ e.kind = "worker"
    BY <1>1, <1>2, EntryFields
  <1>4. proc' = [proc EXCEPT ![p] = e]
    BY <1>3 DEF Signal
  <1>5. Workers' = Workers
    BY <1>1, <1>3, <1>4 DEF IInv, TypeOK, Workers
  <1>6. agent' \in [Agents -> AgentState] /\ \A b \in Agents : Sound(agent'[b], Workers')
    BY <1>5, GotoIsSound DEF IInv, References, TypeOK
  <1>7. stopFile' \in BOOLEAN /\ events' \in 0..MaxEvents
    BY DEF IInv, TypeOK
  <1>8. Refers(record', Workers')
    BY <1>5
  <1> QED BY <1>1, <1>3, <1>4, <1>6, <1>7, <1>8, OneProcess

(* Everything an agent does to stop a worker. *)
LEMMA StoppingKeepsIInv ==
    ASSUME IInv, NEW a \in Agents,
           \/ StopNative(a) \/ StopDocker(a) \/ WorkerIsGone(a)
           \/ GraceEndsNative(a) \/ GraceEndsDocker(a)
    PROVE  IInv'
  <1>1. Sound(Stopped(a), Workers)
    BY StoppedIsSound DEF IInv, References
  <1>2. ASSUME NEW r, Refers(r, Workers)
        PROVE  Sound(Waiting(a, r), Workers)
    BY <1>2, AgentFields, AtIsSound DEF Waiting
  <1>3. Refers(record, Workers) /\ Refers(None, Workers)
    BY NoneRefers DEF IInv, References
  <1>4. /\ stopFile \in BOOLEAN /\ pauseFile \in BOOLEAN /\ disturbed \in BOOLEAN
        /\ events \in 0..MaxEvents /\ runImage \in [Runs -> Images \union {NoImage, Closed}]
    BY DEF IInv, TypeOK
  <1>5. CASE StopNative(a)
    <2>1. PICK next : Goto(a, next) /\ Sound(next, Workers)
      BY <1>1, <1>2, <1>3, <1>5 DEF StopNative
    <2> QED BY <1>3, <1>4, <1>5, <2>1, AgentOnly DEF StopNative, world
  <1>6. CASE StopDocker(a)
    <2>1. CASE Running
      <3>1. record.pid \in Workers
        BY <2>1, <1>3 DEF Running, Alive, Refers
      <3>2. Signal(record.pid) /\ Goto(a, Waiting(a, record))
        BY <1>6, <2>1 DEF StopDocker
      <3>3. Sound(Waiting(a, record), Workers) /\ Refers(record', Workers)
        BY <1>2, <1>3, <1>6 DEF StopDocker, host
      <3> QED BY <1>6, <3>1, <3>2, <3>3, SignalKeepsIInv DEF StopDocker, host
    <2>2. CASE ~Running
      BY <1>1, <1>3, <1>4, <1>6, <2>2, AgentOnly DEF StopDocker, host, world
    <2> QED BY <2>1, <2>2
  <1>7. CASE WorkerIsGone(a)
    <2>1. Refers(record', Workers)
      BY <1>3, <1>7 DEF WorkerIsGone
    <2> QED BY <1>1, <1>4, <1>7, <2>1, AgentOnly DEF WorkerIsGone, world
  <1>8. CASE GraceEndsNative(a)
    <2>1. Refers(record', Workers) /\ Goto(a, Stopped(a))
      BY <1>3, <1>8 DEF GraceEndsNative
    <2>2. CASE Alive(agent[a].seen)
      <3>1. agent[a].seen.pid \in Workers
        BY <2>2, AgentFields DEF Alive, Refers
      <3> QED BY <1>1, <1>8, <2>1, <2>2, <3>1, SignalKeepsIInv DEF GraceEndsNative
    <2>3. CASE ~Alive(agent[a].seen)
      BY <1>1, <1>4, <1>8, <2>1, <2>3, AgentOnly DEF GraceEndsNative, world
    <2> QED BY <2>2, <2>3
  <1>9. CASE GraceEndsDocker(a)
    <2>1. Sound(Stopped(a), Workers \ {agent[a].seen.pid})
      BY AgentFields, NoneRefers, AtIsSound DEF Stopped
    <2> QED BY <1>4, <1>9, <2>1, Deaths DEF GraceEndsDocker
  <1> QED BY <1>5, <1>6, <1>7, <1>8, <1>9

(* A worker takes a pid: a free one, or that of the container it replaces. *)
LEMMA StartingKeepsIInv ==
    ASSUME IInv, NEW a \in Agents, StartDocker(a) \/ SpawnNative(a) \/ WriteRecord(a)
    PROVE  IInv'
  <1>1. NewWorker \in Process /\ NewWorker.kind = "worker"
    BY EntryFields DEF NewWorker
  <1>2. /\ stopFile \in BOOLEAN /\ pauseFile \in BOOLEAN /\ disturbed \in BOOLEAN
        /\ events \in 0..MaxEvents /\ runImage \in [Runs -> Images \union {NoImage, Closed}]
    BY DEF IInv, TypeOK
  <1>3. Fresh \subseteq Pids
    BY DEF Fresh
  <1>4. CASE StartDocker(a)
    <2> DEFINE dead == IF Running THEN {record.pid} ELSE {}
    <2>1. PICK p \in IF dead = {} THEN Fresh ELSE dead :
            /\ proc' = [q \in Pids |-> IF q = p THEN NewWorker
                                       ELSE IF q \in dead THEN Free ELSE proc[q]]
            /\ record' = Ref(p, agent[a].want, TRUE)
            /\ Forget(dead, a, Off)
      BY <1>4 DEF StartDocker
    <2>2. p \in Pids /\ dead \subseteq {p}
      <3>1. CASE Running
        BY <2>1, <3>1 DEF Running, Alive, IInv, References, Refers, Workers
      <3>2. CASE ~Running
        BY <2>1, <3>2, <1>3
      <3> QED BY <3>1, <3>2
    <2>3. proc' = [proc EXCEPT ![p] = NewWorker]
      BY <2>1, <2>2 DEF IInv, TypeOK
    <2>4. Workers \subseteq Workers' /\ p \in Workers'
      BY <1>1, <2>2, <2>3, OneProcessWorkers
    <2>5. Refers(record', Workers')
      <3>1. agent[a].want \in Images
        BY <1>4, AgentFields DEF StartDocker
      <3> QED BY <2>1, <2>2, <2>4, <3>1, NewRefers
    <2>6. agent' \in [Agents -> AgentState] /\ \A b \in Agents : Sound(agent'[b], Workers \ dead)
      <3>1. Sound(Off, Workers \ dead)
        BY OnIsSound DEF Off
      <3> QED BY <2>1, <3>1, ForgetIsSound DEF IInv, References, TypeOK
    <2>7. \A b \in Agents : Sound(agent'[b], Workers')
      <3>1. Workers \ dead \subseteq Workers'
        BY <2>4
      <3> QED BY <2>6, <3>1, SoundGrows
    <2>8. /\ UNCHANGED <<cfg, pauseFile, world, disturbed>>
          /\ stopFile' \in BOOLEAN /\ events' \in 0..MaxEvents
      BY <1>2, <1>4 DEF StartDocker
    <2> QED BY <1>1, <2>2, <2>3, <2>5, <2>6, <2>7, <2>8, OneProcess
  <1>5. CASE SpawnNative(a)
    <2>1. PICK p \in Fresh :
            /\ proc' = [proc EXCEPT ![p] = NewWorker]
            /\ Goto(a, At("record", Ref(p, agent[a].want, TRUE), agent[a].want, "off"))
      BY <1>5 DEF SpawnNative
    <2>2. p \in Pids
      BY <2>1, <1>3
    <2>3. Workers \subseteq Workers' /\ p \in Workers'
      BY <1>1, <2>1, <2>2, OneProcessWorkers
    <2>4. agent[a].want \in Images
      BY <1>5, AgentFields DEF SpawnNative
    <2>5. Refers(Ref(p, agent[a].want, TRUE), Workers')
      BY <2>2, <2>3, <2>4, NewRefers
    <2>6. Sound(At("record", Ref(p, agent[a].want, TRUE), agent[a].want, "off"), Workers')
      BY <2>4, <2>5, AtIsSound
    <2>7. \A b \in Agents : Sound(agent[b], Workers')
      BY <2>3, SoundGrows DEF IInv, References
    <2>8. agent' \in [Agents -> AgentState] /\ \A b \in Agents : Sound(agent'[b], Workers')
      BY <2>1, <2>6, <2>7, GotoIsSound DEF IInv, TypeOK
    <2>9. Refers(record', Workers')
      BY <2>3, <1>5 DEF SpawnNative, IInv, References, Refers
    <2>10. /\ UNCHANGED <<cfg, pauseFile, world, disturbed>>
           /\ stopFile' \in BOOLEAN /\ events' \in 0..MaxEvents
      BY <1>2, <1>5 DEF SpawnNative
    <2> QED BY <1>1, <2>1, <2>2, <2>8, <2>9, <2>10, OneProcess
  <1>6. CASE WriteRecord(a)
    <2>1. Refers(record', Workers)
      BY <1>6, AgentFields DEF WriteRecord
    <2>2. Sound(Off, Workers)
      BY OnIsSound DEF Off
    <2> QED BY <1>2, <1>6, <2>1, <2>2, AgentOnly DEF WriteRecord, world
  <1> QED BY <1>4, <1>5, <1>6

LEMMA EventsStay == ASSUME TypeOK, Event PROVE events' \in 0..MaxEvents
  BY HostAssumption DEF TypeOK, Event

(* Workers load and stop. *)
LEMMA WorkerKeepsIInv ==
    ASSUME IInv, NEW p \in Pids, WorkerStops(p) \/ WorkerLoads(p)
    PROVE  IInv'
  <1>1. stopFile \in BOOLEAN /\ events \in 0..MaxEvents
    BY DEF IInv, TypeOK
  <1>2. CASE WorkerStops(p)
    <2>1. Sound(Off, Workers \ {p})
      BY OnIsSound DEF Off
    <2> QED BY <1>1, <1>2, <2>1, Deaths DEF WorkerStops
  <1>3. CASE WorkerLoads(p)
    <2> DEFINE e == Entry("worker", FALSE, TRUE)
    <2>1. e \in Process /\ e.kind = "worker"
      BY EntryFields
    <2>2. proc' = [proc EXCEPT ![p] = e]
      BY <1>3 DEF WorkerLoads
    <2>3. Workers \subseteq Workers'
      BY <2>1, <2>2, OneProcessWorkers
    <2>4. Refers(record', Workers')
      BY <1>3, <2>3 DEF WorkerLoads, host, IInv, References, Refers
    <2>5. agent' \in [Agents -> AgentState] /\ \A b \in Agents : Sound(agent'[b], Workers')
      BY <1>3, <2>3, SoundGrows DEF WorkerLoads, IInv, References, TypeOK
    <2>6. /\ UNCHANGED <<cfg, pauseFile, world, disturbed>>
          /\ stopFile' \in BOOLEAN /\ events' \in 0..MaxEvents
      BY <1>1, <1>3 DEF WorkerLoads, host
    <2> QED BY <2>1, <2>2, <2>4, <2>5, <2>6, OneProcess
  <1> QED BY <1>2, <1>3

(* The contributor's commands, and an agent that dies half way. *)
LEMMA CommandKeepsIInv ==
    ASSUME IInv,
           \/ StopCommand \/ PauseCommand \/ ResumeCommand
           \/ \E a \in Agents : AgentDies(a)
    PROVE  IInv'
  <1>1. /\ stopFile \in BOOLEAN /\ pauseFile \in BOOLEAN /\ Refers(record, Workers)
        /\ runImage \in [Runs -> Images \union {NoImage, Closed}]
    BY DEF IInv, TypeOK, References
  <1>2. ASSUME NEW pc \in {"status", "stop"}, Command(pc), pauseFile' \in BOOLEAN
        PROVE  IInv'
    <2>1. "user" \in Agents /\ Sound(On(pc), Workers)
      BY OnIsSound DEF Agents
    <2>2. events' \in 0..MaxEvents
      BY <1>2, EventsStay DEF Command, IInv
    <2> QED BY <1>1, <1>2, <2>1, <2>2, AgentOnly DEF Command, world
  <1>3. ASSUME NEW a \in Agents, AgentDies(a)
        PROVE  IInv'
    <2>1. Sound(Off, Workers)
      BY OnIsSound DEF Off
    <2>2. events' \in 0..MaxEvents
      BY <1>3, EventsStay DEF AgentDies, IInv
    <2> QED BY <1>1, <1>3, <2>1, <2>2, AgentOnly DEF AgentDies, world, host
  <1> QED BY <1>1, <1>2, <1>3 DEF StopCommand, PauseCommand, ResumeCommand

(* What happens to the machine. *)
LEMMA MachineKeepsIInv ==
    ASSUME IInv,
           \/ \E p \in Pids : WorkerCrashes(p) \/ OtherStarts(p)
           \/ Reboot \/ WorldChanges
    PROVE  IInv'
  <1>1. stopFile \in BOOLEAN /\ pauseFile \in BOOLEAN
    BY DEF IInv, TypeOK
  <1>2. ASSUME NEW p \in Pids, WorkerCrashes(p)
        PROVE  IInv'
    <2>1. Sound(Off, Workers \ {p})
      BY OnIsSound DEF Off
    <2>2. events' \in 0..MaxEvents
      BY <1>2, EventsStay DEF WorkerCrashes, IInv
    <2> QED BY <1>2, <2>1, <2>2, Deaths DEF WorkerCrashes
  <1>3. ASSUME NEW p \in Pids, OtherStarts(p)
        PROVE  IInv'
    <2> DEFINE e == Entry("other", FALSE, FALSE)
    <2>1. e \in Process /\ e.kind = "other" /\ ~e.signalled
      BY EntryFields
    <2>2. proc' = [proc EXCEPT ![p] = e]
      BY <1>3 DEF OtherStarts
    <2>3. p \notin Workers
      <3>1. Free.kind = "free"
        BY EntryFields DEF Free
      <3> QED BY <1>3, <3>1 DEF OtherStarts, Fresh, Workers
    <2>4. Workers \subseteq Workers'
      BY <2>2, <2>3, OneProcessWorkers
    <2>5. Refers(record', Workers')
      BY <1>3, <2>4 DEF OtherStarts, host, IInv, References, Refers
    <2>6. agent' \in [Agents -> AgentState] /\ \A b \in Agents : Sound(agent'[b], Workers')
      BY <1>3, <2>4, SoundGrows DEF OtherStarts, IInv, References, TypeOK
    <2>7. events' \in 0..MaxEvents
      BY <1>3, EventsStay DEF OtherStarts, IInv
    <2>8. UNCHANGED <<cfg, pauseFile, world, disturbed>> /\ stopFile' \in BOOLEAN
      BY <1>1, <1>3 DEF OtherStarts, host
    <2> QED BY <2>1, <2>2, <2>3, <2>5, <2>6, <2>7, <2>8, OneProcess
  <1>4. CASE Reboot
    <2>1. Sound(Off, Workers') /\ Off \in AgentState
      BY OnIsSound DEF Off, Sound
    <2>2. agent' \in [Agents -> AgentState] /\ \A b \in Agents : Sound(agent'[b], Workers')
      BY <1>4, <2>1 DEF Reboot
    <2>3. Free \in Process /\ Free.kind = "free"
      BY EntryFields DEF Free
    <2>4. /\ proc' \in [Pids -> Process] /\ Workers' = Workers \ Pids
          /\ \A p \in Pids : proc'[p].kind = "free"
      BY <1>4, <2>3 DEF Reboot, Die, Workers
    <2>5. Refers(record', Workers')
      BY <1>4, <2>4, StaleRefers DEF Reboot, Die, IInv, References
    <2>6. events' \in 0..MaxEvents
      BY <1>4, EventsStay DEF Reboot, IInv
    <2>7. TypeOK'
      BY <1>4, <2>2, <2>4, <2>5, <2>6 DEF Reboot, IInv, TypeOK, world, Refers
    <2>8. OnlyWorkersAreSignalled'
      BY <2>4 DEF OnlyWorkersAreSignalled
    <2> QED BY <2>2, <2>5, <2>7, <2>8 DEF IInv, References
  <1>5. CASE WorldChanges
    <2>1. UNCHANGED <<cfg, proc, record, stopFile, pauseFile, agent, disturbed>>
      BY <1>5 DEF WorldChanges, host
    <2>2. /\ busy' \in BOOLEAN /\ manifestUp' \in BOOLEAN
          /\ runImage' \in [Runs -> Images \union {NoImage, Closed}]
      <3>1. CASE BusyChanges
        BY <3>1 DEF BusyChanges, IInv, TypeOK
      <3>2. CASE ManifestChanges
        BY <3>2 DEF ManifestChanges, IInv, TypeOK
      <3>3. CASE RunChanges
        BY <3>3 DEF RunChanges, IInv, TypeOK, Active
      <3> QED BY <1>5, <3>1, <3>2, <3>3 DEF WorldChanges
    <2>3. events' \in 0..MaxEvents
      BY <1>5, EventsStay DEF WorldChanges, BusyChanges, ManifestChanges, RunChanges, IInv
    <2>4. Workers' = Workers
      BY <2>1 DEF Workers
    <2>5. TypeOK'
      BY <2>1, <2>2, <2>3 DEF IInv, TypeOK
    <2>6. References(Workers)' /\ OnlyWorkersAreSignalled'
      BY <2>1, <2>4 DEF IInv, References, OnlyWorkersAreSignalled
    <2> QED BY <2>5, <2>6 DEF IInv
  <1> QED BY <1>2, <1>3, <1>4, <1>5

LEMMA NextKeepsIInv == IInv /\ [Next]_vars => IInv'
  <1> SUFFICES ASSUME IInv, [Next]_vars PROVE IInv'
    OBVIOUS
  <1>1. ASSUME NEW a \in Agents, Step(a) PROVE IInv'
    BY <1>1, ReadingKeepsIInv, StoppingKeepsIInv, StartingKeepsIInv DEF Step
  <1>2. ASSUME NEW p \in Pids, WorkerStops(p) \/ WorkerLoads(p) PROVE IInv'
    BY <1>2, WorkerKeepsIInv
  <1>3. CASE Disturbance
    BY <1>3, CommandKeepsIInv, MachineKeepsIInv DEF Disturbance
  <1>4. CASE UNCHANGED vars
    <2>1. Workers' = Workers
      BY <1>4 DEF vars, Workers
    <2> QED
      BY <1>4, <2>1
      DEF vars, host, world, IInv, TypeOK, References, OnlyWorkersAreSignalled
  <1> QED BY <1>1, <1>2, <1>3, <1>4 DEF Next

-----------------------------------------------------------------------------
(* Every reference to a live process, the record's or one an agent has read, *)
(* is to a worker (runtime.py, agent.py).                                      *)
THEOREM Invariance == Spec => []IInv
  BY InitIInv, NextKeepsIInv, PTL DEF Spec

(* Every variable keeps its type; in particular an agent never starts a     *)
(* worker it has no image for, and hands out no pid the machine does not    *)
(* have (agent.py tick, runtime.py start).                                   *)
THEOREM TypeCorrect == Spec => []TypeOK
  <1>1. IInv => TypeOK
    BY DEF IInv
  <1> QED BY <1>1, Invariance, PTL

(* runtime.py _alive: whatever pids are recycled, whichever of the two       *)
(* agents acts on what it read earlier, only workers are signalled.          *)
THEOREM SignalsReachWorkersOnly == Spec => []OnlyWorkersAreSignalled
  <1>1. IInv => OnlyWorkersAreSignalled
    BY DEF IInv
  <1> QED BY <1>1, Invariance, PTL

(* The record never passes for a live worker once its process has died, so   *)
(* "status" reports a worker only while one runs (runtime.py status).         *)
THEOREM StatusIsTruthful == Spec => [](Running => record.pid \in Workers)
  <1>1. IInv => (Running => record.pid \in Workers)
    BY DEF IInv, References, Refers, Running, Alive
  <1> QED BY <1>1, Invariance, PTL

-----------------------------------------------------------------------------
(* On a docker host the name holds the only worker there is. *)
OnlyTheNamed == \A p \in Workers : record.current /\ record.pid = p
DockerInv ==
    cfg.runtime = "docker" =>
        OnlyTheNamed /\ \A a \in Agents : agent[a].pc # "record"

LEMMA StepPc ==
    ASSUME NEW pc, NEW r, NEW want, NEW after
    PROVE  At(pc, r, want, after).pc = pc /\ On(pc).pc = pc /\ Off.pc = "off"
  BY DEF At, On, Off

LEMMA GotoPc ==
    ASSUME IInv, NEW a \in Agents, NEW next, Goto(a, next), next.pc # "record",
           \A b \in Agents : agent[b].pc # "record"
    PROVE  \A b \in Agents : agent'[b].pc # "record"
  BY DEF Goto, IInv, TypeOK

LEMMA ForgetPc ==
    ASSUME NEW dead, NEW a, NEW next, Forget(dead, a, next), next.pc # "record",
           \A b \in Agents : agent[b].pc # "record"
    PROVE  \A b \in Agents : agent'[b].pc # "record"
  BY StepPc DEF Forget

LEMMA DeathsLeaveTheNamed ==
    ASSUME IInv, OnlyTheNamed, NEW dead, Die(dead)
    PROVE  OnlyTheNamed'
  <1>1. Free.kind = "free"
    BY EntryFields DEF Free
  <1>2. Workers' = Workers \ dead
    BY <1>1 DEF IInv, TypeOK, Die, Workers
  <1>3. record'.pid = record.pid /\ (record.current /\ record.pid \notin dead => record'.current)
    BY DEF Die, Stale, Ref
  <1> QED BY <1>2, <1>3 DEF OnlyTheNamed

LEMMA DockerSteps ==
    ASSUME IInv, cfg.runtime = "docker", OnlyTheNamed,
           \A a \in Agents : agent[a].pc # "record",
           NEW a \in Agents, Step(a)
    PROVE  OnlyTheNamed' /\ \A b \in Agents : agent'[b].pc # "record"
  <1>1. \A pc, r, want, after : At(pc, r, want, after).pc = pc /\ On(pc).pc = pc /\ Off.pc = "off"
    BY StepPc
  <1>2. Stopped(a).pc # "record"
    BY <1>1, AgentFields DEF Stopped
  <1>3. ASSUME NEW next, Goto(a, next), next.pc # "record", UNCHANGED <<proc, record>>
        PROVE  OnlyTheNamed' /\ \A b \in Agents : agent'[b].pc # "record"
    BY <1>3, GotoPc DEF OnlyTheNamed, Workers
  <1>4. CASE ReadStatus(a)
    BY <1>1, <1>3, <1>4 DEF ReadStatus, host
  <1>5. CASE Report(a)
    BY <1>1, <1>3, <1>5 DEF Report, host
  <1>6. CASE ManifestFails(a)
    BY <1>1, <1>3, <1>6 DEF ManifestFails, host
  <1>7. CASE Consult(a)
    <2>1. PICK i \in Required :
            LET seen == agent[a].seen
            IN Goto(a, IF i = NoImage \/ (seen # None /\ seen.image = i) THEN Off
                       ELSE IF seen # None THEN At("stop", None, i, "start")
                       ELSE At("start", None, i, "off"))
      BY <1>7 DEF Consult
    <2>2. PICK next : Goto(a, next) /\ next.pc # "record"
      BY <1>1, <2>1
    <2> QED BY <1>3, <1>7, <2>2 DEF Consult, host
  <1>8. CASE StopDocker(a)
    <2>1. CASE Running
      <3>1. record.pid \in Workers
        BY <2>1 DEF Running, Alive, IInv, References, Refers
      <3>2. Signal(record.pid) /\ Goto(a, Waiting(a, record)) /\ record' = record
        BY <1>8, <2>1 DEF StopDocker, host
      <3>3. Entry(proc[record.pid].kind, TRUE, proc[record.pid].loaded).kind = proc[record.pid].kind
        BY DEF Entry
      <3>4. Workers' = Workers
        BY <3>1, <3>2, <3>3 DEF Signal, Workers, IInv, TypeOK
      <3>5. Waiting(a, record).pc # "record"
        BY <1>1 DEF Waiting
      <3> QED BY <3>2, <3>4, <3>5, GotoPc DEF OnlyTheNamed
    <2>2. CASE ~Running
      BY <1>2, <1>3, <1>8, <2>2 DEF StopDocker, host
    <2> QED BY <2>1, <2>2
  <1>9. CASE WorkerIsGone(a)
    BY <1>2, <1>3, <1>9 DEF WorkerIsGone
  <1>10. CASE GraceEndsDocker(a)
    BY <1>2, <1>10, DeathsLeaveTheNamed, ForgetPc DEF GraceEndsDocker
  <1>11. CASE StartDocker(a)
    <2> DEFINE dead == IF Running THEN {record.pid} ELSE {}
    <2>1. PICK p \in IF dead = {} THEN Fresh ELSE dead :
            /\ proc' = [q \in Pids |-> IF q = p THEN NewWorker
                                       ELSE IF q \in dead THEN Free ELSE proc[q]]
            /\ record' = Ref(p, agent[a].want, TRUE)
            /\ Forget(dead, a, Off)
      BY <1>11 DEF StartDocker
    <2>2. \A b \in Agents : agent'[b].pc # "record"
      BY <1>1, <2>1, ForgetPc
    <2>3. Workers \subseteq dead
      BY DEF OnlyTheNamed, Running, Alive
    <2>4. Free.kind = "free"
      BY EntryFields DEF Free
    <2>5. \A q \in Workers' : q = p
      BY <2>1, <2>3, <2>4 DEF Workers
    <2>6. record'.current /\ record'.pid = p
      BY <2>1 DEF Ref
    <2> QED BY <2>2, <2>5, <2>6 DEF OnlyTheNamed
  <1> QED
    BY <1>4, <1>5, <1>6, <1>7, <1>8, <1>9, <1>10, <1>11
    DEF Step, StopNative, GraceEndsNative, SpawnNative, WriteRecord

LEMMA InitDocker == Init => DockerInv
  <1>1. Free.kind = "free" /\ Off.pc = "off"
    BY EntryFields, StepPc DEF Free
  <1> QED BY <1>1 DEF Init, DockerInv, OnlyTheNamed, Workers

LEMMA NextDocker == IInv /\ DockerInv /\ [Next]_vars => DockerInv'
  <1> SUFFICES ASSUME IInv, DockerInv, [Next]_vars, cfg'.runtime = "docker"
               PROVE  OnlyTheNamed' /\ \A a \in Agents : agent'[a].pc # "record"
    BY DEF DockerInv
  <1>1. cfg' = cfg
    BY DEF Next, Step, Disturbance, vars, ReadStatus, Report, ManifestFails, Consult,
           StopNative, StopDocker, WorkerIsGone, GraceEndsNative, GraceEndsDocker,
           StartDocker, SpawnNative, WriteRecord, WorkerStops, WorkerLoads, StopCommand,
           PauseCommand, ResumeCommand, Command, AgentDies, WorkerCrashes, OtherStarts,
           Reboot, WorldChanges
  <1>2. cfg.runtime = "docker" /\ OnlyTheNamed /\ \A a \in Agents : agent[a].pc # "record"
    BY <1>1 DEF DockerInv
  <1>3. Off.pc = "off" /\ \A pc : On(pc).pc = pc
    BY StepPc
  <1>4. ASSUME NEW a \in Agents, Step(a)
        PROVE  OnlyTheNamed' /\ \A b \in Agents : agent'[b].pc # "record"
    BY <1>2, <1>4, DockerSteps
  <1>5. ASSUME NEW p \in Pids, WorkerStops(p) \/ WorkerCrashes(p)
        PROVE  OnlyTheNamed' /\ \A b \in Agents : agent'[b].pc # "record"
    BY <1>2, <1>3, <1>5, DeathsLeaveTheNamed, ForgetPc DEF WorkerStops, WorkerCrashes
  <1>6. ASSUME NEW p \in Pids, WorkerLoads(p) \/ OtherStarts(p)
        PROVE  OnlyTheNamed' /\ \A b \in Agents : agent'[b].pc # "record"
    <2>1. Workers' \subseteq Workers
      BY <1>6, EntryFields DEF WorkerLoads, OtherStarts, Workers, IInv, TypeOK, Entry
    <2> QED BY <1>2, <1>6, <2>1 DEF WorkerLoads, OtherStarts, host, OnlyTheNamed
  <1>7. ASSUME NEW a \in Agents, NEW pc \in {"off", "status", "stop"}, Goto(a, On(pc)),
               UNCHANGED <<proc, record>>
        PROVE  OnlyTheNamed' /\ \A b \in Agents : agent'[b].pc # "record"
    BY <1>2, <1>3, <1>7, GotoPc DEF OnlyTheNamed, Workers
  <1>8. CASE StopCommand \/ PauseCommand \/ ResumeCommand
    BY <1>7, <1>8 DEF StopCommand, PauseCommand, ResumeCommand, Command, Agents
  <1>9. ASSUME NEW a \in Agents, AgentDies(a)
        PROVE  OnlyTheNamed' /\ \A b \in Agents : agent'[b].pc # "record"
    BY <1>7, <1>9 DEF AgentDies, Off, host
  <1>10. CASE Reboot
    BY <1>2, <1>3, <1>10, DeathsLeaveTheNamed DEF Reboot
  <1>11. CASE WorldChanges \/ UNCHANGED vars
    BY <1>2, <1>11 DEF WorldChanges, vars, host, OnlyTheNamed, Workers
  <1> QED BY <1>4, <1>5, <1>6, <1>8, <1>9, <1>10, <1>11 DEF Next, Disturbance

(* runtime.py DockerRuntime.start (rm -f of the one name, then run): a docker *)
(* host never has two workers, however timer and contributor interleave.       *)
THEOREM DockerRunsOneWorker ==
    Spec => [](cfg.runtime = "docker" => \A p, q \in Workers : p = q)
  <1>1. DockerInv => (cfg.runtime = "docker" => \A p, q \in Workers : p = q)
    BY DEF DockerInv, OnlyTheNamed
  <1>2. Spec => []DockerInv
    BY InitDocker, NextDocker, Invariance, PTL DEF Spec
  <1> QED BY <1>1, <1>2, PTL

-----------------------------------------------------------------------------
(* On a machine left to its timer, whatever worker has not been told to stop  *)
(* is the one the record names, or is about to: no tick starts a worker but   *)
(* after it found none, or stopped the one it found.                            *)
Untold == {p \in Workers : ~proc[p].signalled}
Holder == IF agent["timer"].pc = "record" THEN agent["timer"].seen ELSE record
LeftToTheTimer ==
    LET timer == agent["timer"]
    IN /\ agent["user"].pc = "off"
       /\ \A p \in Untold : Alive(Holder) /\ Holder.pid = p
       /\ timer.pc = "start" \/ (timer.pc \in {"report", "consult"} /\ timer.seen = None)
            => Untold = {}
       /\ timer.pc = "grace" => timer.seen = record
NativeInv == cfg.runtime = "native" /\ ~disturbed => LeftToTheTimer

(* The fields of what an agent goes to. *)
LEMMA AtFields ==
    ASSUME NEW pc, NEW r, NEW want, NEW after
    PROVE  /\ At(pc, r, want, after).pc = pc /\ At(pc, r, want, after).seen = r
           /\ On(pc).pc = pc /\ Off.pc = "off"
  BY DEF At, On, Off

(* An absent worker is not alive, and only an absent one has no pid. *)
LEMMA NoneIsDead ==
    /\ ~Alive(None)
    /\ \A r \in Record : \A dead : Stale(r, dead) = None <=> r = None
  <1>1. None.pid = 0 /\ None.image = NoImage /\ None.current = FALSE
    BY DEF None, Ref
  <1>2. ASSUME NEW r \in Record, NEW dead PROVE Stale(r, dead) = None <=> r = None
    <2>1. CASE r = None
      <3>1. (None.current /\ None.pid \notin dead) = FALSE
        BY <1>1
      <3> QED BY <1>1, <2>1, <3>1, Zenon DEF Stale, None
    <2>2. CASE r # None
      <3>1. r.pid # 0
        BY <2>2, HostAssumption DEF Record
      <3>2. Stale(r, dead).pid = r.pid
        BY DEF Stale, Ref
      <3> QED BY <1>1, <2>2, <3>1, <3>2
    <2> QED BY <2>1, <2>2
  <1> QED BY <1>1, <1>2 DEF Alive

(* A step of the timer's tick. *)
LEMMA NativeSteps ==
    ASSUME IInv, cfg.runtime = "native", LeftToTheTimer, Step("timer")
    PROVE  LeftToTheTimer'
  <1> DEFINE a == "timer"
  <1>1. \A pc, r, want, after :
            /\ At(pc, r, want, after).pc = pc /\ At(pc, r, want, after).seen = r
            /\ On(pc).pc = pc /\ Off.pc = "off"
    BY AtFields
  <1>2. a \in Agents /\ "user" \in Agents /\ agent \in [Agents -> AgentState]
        /\ record \in Record /\ agent[a].seen \in Record
    BY DEF Agents, IInv, TypeOK, AgentState
  <1>3. ASSUME NEW next, Goto(a, next)
        PROVE  agent'[a] = next /\ agent'["user"] = agent["user"]
    BY <1>2, <1>3 DEF Goto
  <1>4. Stopped(a).pc \in {"off", "start"} /\ Waiting(a, record).pc = "grace"
        /\ Waiting(a, record).seen = record
    BY <1>1, <1>2 DEF Stopped, Waiting, AgentState
  <1>5. agent[a].pc # "record" => \A p \in Untold : Alive(record) /\ record.pid = p
    BY DEF LeftToTheTimer, Holder
  <1>6. ~Alive(record) /\ agent[a].pc # "record" => Untold = {}
    BY <1>5
  <1>7. ASSUME NEW next, Goto(a, next), agent[a].pc # "record",
               next.pc \notin {"record", "grace"}, UNCHANGED <<proc, record>>,
               next.pc = "start" \/ (next.pc \in {"report", "consult"} /\ next.seen = None)
                 => Untold = {}
        PROVE  LeftToTheTimer'
    <2>1. Untold' = Untold
      BY <1>7 DEF Untold, Workers
    <2> QED BY <1>3, <1>5, <1>7, <2>1 DEF LeftToTheTimer, Holder, Alive
  <1>8. ASSUME NEW next, Goto(a, next), next.pc \in {"off", "start"}, Untold' = {}
        PROVE  LeftToTheTimer'
    BY <1>3, <1>8 DEF LeftToTheTimer
  <1>9. CASE ReadStatus(a)
    <2> DEFINE next == At("report", IF Running THEN record ELSE None, NoImage, "off")
    <2>1. /\ Goto(a, next) /\ agent[a].pc = "off" /\ UNCHANGED <<proc, record>>
      BY <1>9 DEF ReadStatus, host, Begins
    <2>2. next.pc = "report" /\ next.seen = IF Running THEN record ELSE None
      BY <1>1
    <2>3. next.seen = None => ~Alive(record)
      BY <2>2, NoneIsDead DEF Running
    <2> HIDE DEF next
    <2> QED BY <1>6, <1>7, <2>1, <2>2, <2>3
  <1>10. CASE Report(a)
    <2>1. (Idle /\ At("consult", agent[a].seen, NoImage, "off").seen = None) => Untold = {}
      BY <1>1, <1>10 DEF Report, LeftToTheTimer
    <2> QED BY <1>1, <1>7, <1>10, <2>1 DEF Report, host
  <1>11. CASE ManifestFails(a)
    BY <1>1, <1>7, <1>11 DEF ManifestFails, host
  <1>12. CASE Consult(a)
    <2>1. PICK i \in Required :
            LET seen == agent[a].seen
            IN Goto(a, IF i = NoImage \/ (seen # None /\ seen.image = i) THEN Off
                       ELSE IF seen # None THEN At("stop", None, i, "start")
                       ELSE At("start", None, i, "off"))
      BY <1>12 DEF Consult
    <2>2. agent[a].pc = "consult" /\ UNCHANGED <<proc, record>>
          /\ (agent[a].seen = None => Untold = {})
      BY <1>12 DEF Consult, host, LeftToTheTimer
    <2>3. PICK next : /\ Goto(a, next)
                      /\ \/ next.pc = "off" \/ next.pc = "stop"
                         \/ next.pc = "start" /\ agent[a].seen = None
      BY <1>1, <2>1
    <2> QED BY <1>7, <2>2, <2>3
  <1>13. CASE StopNative(a)
    <2>1. /\ agent[a].pc = "stop" /\ UNCHANGED <<proc, record>>
          /\ Goto(a, IF record = None THEN Stopped(a) ELSE Waiting(a, record))
      BY <1>13 DEF StopNative
    <2>2. CASE record = None
      BY <1>4, <1>6, <1>7, <2>1, <2>2, NoneIsDead
    <2>3. CASE record # None
      <3>1. agent'[a].pc = "grace" /\ agent'[a].seen = record /\ agent'["user"] = agent["user"]
        BY <1>3, <1>4, <2>1, <2>3
      <3>2. Untold' = Untold
        BY <2>1 DEF Untold, Workers
      <3> QED BY <1>5, <2>1, <3>1, <3>2 DEF LeftToTheTimer, Holder, Alive
    <2> QED BY <2>2, <2>3
  <1>14. CASE WorkerIsGone(a)
    <2>1. /\ Goto(a, Stopped(a)) /\ proc' = proc /\ ~Alive(record) /\ agent[a].pc = "grace"
      BY <1>14 DEF WorkerIsGone, LeftToTheTimer
    <2>2. Untold' = {}
      BY <1>6, <2>1 DEF Untold, Workers
    <2> QED BY <1>4, <1>8, <2>1, <2>2
  <1>15. CASE GraceEndsNative(a)
    <2>1. /\ Goto(a, Stopped(a)) /\ agent[a].pc = "grace" /\ agent[a].seen = record
      BY <1>15 DEF GraceEndsNative, LeftToTheTimer
    <2>2. CASE Alive(record)
      <3>1. /\ record.pid \in Pids /\ record.pid \in Workers
            /\ proc' = [proc EXCEPT ![record.pid] =
                          Entry(@.kind, TRUE, @.loaded)]
        BY <1>15, <2>1, <2>2 DEF GraceEndsNative, Signal, Alive, IInv, References, Refers, Workers
      <3>2. proc'[record.pid].signalled
        BY <3>1 DEF Entry, IInv, TypeOK
      <3>3. \A p \in Pids : p # record.pid => proc'[p] = proc[p]
        BY <3>1 DEF IInv, TypeOK
      <3>4. Untold' = {}
        BY <1>5, <2>1, <3>2, <3>3 DEF Untold, Workers
      <3> QED BY <1>4, <1>8, <2>1, <3>4
    <2>3. CASE ~Alive(record)
      <3>1. proc' = proc
        BY <1>15, <2>1, <2>3 DEF GraceEndsNative
      <3>2. Untold' = {}
        BY <1>6, <2>1, <2>3, <3>1 DEF Untold, Workers
      <3> QED BY <1>4, <1>8, <2>1, <3>2
    <2> QED BY <2>2, <2>3
  <1>16. CASE SpawnNative(a)
    <2>1. PICK p \in Fresh :
            /\ proc' = [proc EXCEPT ![p] = NewWorker]
            /\ Goto(a, At("record", Ref(p, agent[a].want, TRUE), agent[a].want, "off"))
      BY <1>16 DEF SpawnNative
    <2>2. Untold = {}
      BY <1>16 DEF SpawnNative, LeftToTheTimer
    <2>3. \A q \in Untold' : q = p
      BY <2>1, <2>2 DEF Untold, Workers, Fresh, IInv, TypeOK
    <2>4. agent'[a].pc = "record" /\ agent'[a].seen.pid = p /\ agent'[a].seen.current
          /\ agent'["user"] = agent["user"]
      BY <1>1, <1>3, <2>1 DEF Ref
    <2> QED BY <2>3, <2>4 DEF LeftToTheTimer, Holder, Alive
  <1>17. CASE WriteRecord(a)
    <2>1. /\ agent[a].pc = "record" /\ record' = agent[a].seen /\ proc' = proc
          /\ agent'[a] = Off /\ agent'["user"] = agent["user"]
      BY <1>3, <1>17 DEF WriteRecord
    <2>2. Untold' = Untold
      BY <2>1 DEF Untold, Workers
    <2> QED BY <1>1, <2>1, <2>2 DEF LeftToTheTimer, Holder, Alive
  <1> QED
    BY <1>9, <1>10, <1>11, <1>12, <1>13, <1>14, <1>15, <1>16, <1>17
    DEF Step, StopDocker, GraceEndsDocker, StartDocker

(* Processes die, and whatever names them says so. *)
LEMMA NativeDeaths ==
    ASSUME IInv, LeftToTheTimer, NEW dead, Die(dead), Forget(dead, "none", Off)
    PROVE  LeftToTheTimer'
  <1>1. "timer" \in Agents /\ "user" \in Agents /\ agent["timer"].seen \in Record
        /\ record \in Record
    BY DEF Agents, IInv, TypeOK, AgentState
  <1>2. /\ agent'["timer"].pc = agent["timer"].pc
        /\ agent'["timer"].seen = Stale(agent["timer"].seen, dead)
        /\ agent'["user"].pc = agent["user"].pc /\ record' = Stale(record, dead)
    BY <1>1, AtFields DEF Forget, Die
  <1>3. Free.kind = "free"
    BY EntryFields DEF Free
  <1>4. Untold' = Untold \ dead
    BY <1>3 DEF IInv, TypeOK, Die, Workers, Untold
  <1>5. \A r \in Record : /\ Stale(r, dead).pid = r.pid
                          /\ r.current /\ r.pid \notin dead => Stale(r, dead).current
    BY DEF Stale, Ref
  <1>6. \A p \in Untold' : Alive(Holder)' /\ Holder'.pid = p
    BY <1>1, <1>2, <1>4, <1>5 DEF LeftToTheTimer, Holder, Alive
  <1>7. agent'["timer"].seen = None => agent["timer"].seen = None
    BY <1>1, <1>2, NoneIsDead
  <1> QED BY <1>2, <1>4, <1>6, <1>7 DEF LeftToTheTimer

LEMMA InitNative == Init => NativeInv
  <1>1. Free.kind = "free" /\ Off.pc = "off"
    BY EntryFields, StepPc DEF Free
  <1> QED BY <1>1 DEF Init, NativeInv, LeftToTheTimer, Untold, Workers, Agents

LEMMA NextNative == IInv /\ NativeInv /\ [Next]_vars => NativeInv'
  <1> SUFFICES ASSUME IInv, NativeInv, [Next]_vars, cfg'.runtime = "native", ~disturbed'
               PROVE  LeftToTheTimer'
    BY DEF NativeInv
  <1>1. cfg' = cfg /\ (disturbed' = disturbed \/ disturbed' = TRUE)
    <2>1. cfg' = cfg
      BY DEF Next, Step, Disturbance, vars, ReadStatus, Report, ManifestFails, Consult,
             StopNative, StopDocker, WorkerIsGone, GraceEndsNative, GraceEndsDocker,
             StartDocker, SpawnNative, WriteRecord, WorkerStops, WorkerLoads, StopCommand,
             PauseCommand, ResumeCommand, Command, AgentDies, WorkerCrashes, OtherStarts,
             Reboot, WorldChanges
    <2>2. disturbed' = disturbed \/ disturbed' = TRUE
      BY DEF Next, Step, Disturbance, vars, ReadStatus, Report, ManifestFails, Consult,
             StopNative, StopDocker, WorkerIsGone, GraceEndsNative, GraceEndsDocker,
             StartDocker, SpawnNative, WriteRecord, WorkerStops, WorkerLoads, StopCommand,
             PauseCommand, ResumeCommand, Command, AgentDies, WorkerCrashes, OtherStarts,
             Reboot, WorldChanges
    <2> QED BY <2>1, <2>2
  <1>2. cfg.runtime = "native" /\ LeftToTheTimer
    BY <1>1 DEF NativeInv
  <1>3. ASSUME NEW a \in Agents, Step(a) PROVE LeftToTheTimer'
    <2>1. CASE a = "timer"
      BY <1>2, <1>3, <2>1, NativeSteps
    <2>2. CASE a = "user"
      BY <1>2, <1>3, <2>2
      DEF LeftToTheTimer, Step, ReadStatus, Begins, Report, ManifestFails, Consult,
          StopNative, StopDocker, WorkerIsGone, GraceEndsNative, GraceEndsDocker,
          StartDocker, SpawnNative, WriteRecord
    <2> QED BY <2>1, <2>2 DEF Agents
  <1>4. ASSUME NEW p \in Pids, WorkerStops(p) \/ WorkerCrashes(p) PROVE LeftToTheTimer'
    BY <1>2, <1>4, NativeDeaths DEF WorkerStops, WorkerCrashes
  <1>5. ASSUME NEW p \in Pids, WorkerLoads(p) \/ OtherStarts(p) PROVE LeftToTheTimer'
    <2>1. Untold' \subseteq Untold
      BY <1>5, EntryFields DEF WorkerLoads, OtherStarts, Untold, Workers, IInv, TypeOK, Entry
    <2> QED BY <1>2, <1>5, <2>1 DEF WorkerLoads, OtherStarts, host, LeftToTheTimer, Holder, Alive
  <1>6. CASE StopCommand \/ PauseCommand \/ ResumeCommand \/ \E a \in Agents : AgentDies(a)
    BY <1>6 DEF StopCommand, PauseCommand, ResumeCommand, Command, AgentDies
  <1>7. CASE Reboot
    <2>1. Free.kind = "free" /\ Off.pc = "off"
      BY EntryFields, StepPc DEF Free
    <2>2. Untold' = {}
      BY <1>7, <2>1 DEF Reboot, Die, Untold, Workers
    <2> QED BY <1>7, <2>1, <2>2 DEF Reboot, LeftToTheTimer, Agents
  <1>8. CASE WorldChanges \/ UNCHANGED vars
    BY <1>2, <1>8
    DEF WorldChanges, vars, host, LeftToTheTimer, Holder, Alive, Untold, Workers
  <1> QED BY <1>3, <1>4, <1>5, <1>6, <1>7, <1>8 DEF Next, Disturbance

(* A machine left to its timer runs one worker, and a docker host always     *)
(* does: a second one is only ever a worker that has been told to stop        *)
(* (runtime.py start and stop, agent.tick).                                    *)
THEOREM OneWorkerRuns == Spec => []OneWorker
  <1>1. DockerInv /\ NativeInv /\ cfg \in Config => OneWorker
    <2> SUFFICES ASSUME DockerInv, NativeInv, cfg \in Config,
                        cfg.runtime = "docker" \/ ~disturbed
                 PROVE  Cardinality({p \in Workers : ~proc[p].signalled /\ ~stopFile}) <= 1
      BY DEF OneWorker
    <2> DEFINE S == {p \in Workers : ~proc[p].signalled /\ ~stopFile}
    <2>1. \A p, q \in S : p = q
      BY DEF DockerInv, OnlyTheNamed, NativeInv, LeftToTheTimer, Untold, Config
    <2>2. CASE S = {}
      BY <2>2, FS_EmptySet
    <2>3. CASE S # {}
      <3>1. PICK p : S = {p}
        BY <2>1, <2>3
      <3>2. Cardinality(S) = 1
        BY <3>1, FS_Singleton
      <3> QED BY <3>2
    <2> QED BY <2>2, <2>3
  <1>2. IInv => cfg \in Config
    BY DEF IInv, TypeOK
  <1> QED
    BY <1>1, <1>2, InitDocker, NextDocker, InitNative, NextNative, Invariance, PTL DEF Spec
=============================================================================
