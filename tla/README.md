# Ganymede: a TLA+ development

Ganymede trains one LoRA adapter on machines nobody administers. A *run* is a
sequence of *rounds*; in a round, workers lease shards of the dataset, train the
round's base adapter on them for a while and submit the result; the coordinator
checks the submissions, and when it has enough, closes the round, averages what
it accepted into the next adapter, and opens the next round on it. Around that
cycle a host agent starts and stops the workers of a machine, and an operator's
scripts create a run, back it up, restore it and collect its garbage. This
directory models the cycle and what is around it, checks the models with TLC and
proves the most important properties with TLAPS. Paths are relative to the repository (`src/`).

## 1. The system

| Part | State it keeps | Operations | Talks to |
|---|---|---|---|
| Round database (`coordinator/rounds.py`, `db.py`) | SQLite tables runs, rounds, tasks, submissions, buckets (and workers, throughput, audit) | open_round, round_progress, should_close, reopen_empty_round, expire_leases, claim_task, heartbeat, abandon, record_submission | called by the handlers; each change is one `BEGIN IMMEDIATE` transaction |
| Round close (`coordinator/closer.py`) | a manifest cache; otherwise the database and the store | gate_submission, close_round, maybe_close | database, object store, aggregation |
| Request handlers (`coordinator/app.py`) | none beyond the request | register, claim, heartbeat, upload-url, submit, abandon, read-only endpoints | FastAPI's thread pool runs them concurrently |
| Aggregation (`coordinator/aggregate.py`) | none | gates 1-5, dominance cap (dense_weights), combine, the outer Nesterov step | called by the close |
| Budget, eligibility (`coordinator/budget.py`, `eligibility.py`) | none | plan_budget, meets_floor, is_eligible, clearance_permits | called by a claim |
| Object store (`coordinator/store.py`, external MinIO/S3) | adapters, the run's momentum, uploaded artifacts | put, get, presign | coordinator and workers |
| Invariant checker (`coordinator/invariants.py`) | none | seven checks over the database | read-only; its checks are properties here |
| Worker (`worker/loop.py`, `client.py`, `control.py`) | the current task, step count, two flags of its heartbeat thread, stop/pause files | register, claim, run_round, submit, abandon, heartbeat thread | coordinator, store, trainer |
| Host agent (`host/*.py`) | the record of its worker process, or the named container; stop and pause sentinels; the model cache | tick: status, idle, manifest, stop, start, evict; `--stop`, `--pause`, `--resume` | run by a timer and by the contributor; starts and stops workers; reads the coordinator's manifest |
| Trainer (`trainer/*.py`) | model and optimizer | run_task, the partition into buckets, the stream of micro-batches, evaluate | called by the worker |
| Scripts (`scripts/newrun.py`, `backup.py`, `restore.py`, `gc.py`, `status.py`, `evalround.py`) | files | create a run, copy and restore database and store, delete old objects | database and store, from outside the coordinator |

What is hard here:

* **Concurrency.** Every transaction is atomic, but a request is several of
  them: a claim is expire_leases, maybe_close, claim_task; a submit is
  record_submission, gate_submission, maybe_close; a close is some ten steps
  over the database and the store. Any number of requests are between two steps
  at once, and any of them may decide to close the round.
* **Failure part-way.** The store and the database can raise at every step of a
  close, the process can be restarted anywhere, and the two stores (SQLite,
  objects) are not updated together.
* **Time.** Leases lapse, rounds have a minimum and a maximum age, and a worker
  may be silent for good. Nothing in the coordinator runs by itself: the only
  clock is the next request.
* **Several agents on one machine.** The timer's tick and the contributor's
  command line act on one worker, each on what it read a moment ago, while
  processes die and their pids are reused.
* **Two stores and an operator.** A backup, a garbage collection and the creation
  of a run are sequences of steps over a database and an object store that
  change, or are interrupted, between any two of them.
* **Counting.** Buckets are handed out least-trained-first, with shard sizes
  that differ per worker, by claims of which some are lost.

What makes each part correct:

* *Database*: one lease per worker and round; a submission row exactly for the
  submitted tasks; no lease outlives its round; rounds form a chain, each
  published before the next exists; bucket coverage stays even.
* *Close*: one closer per round; what is published is what was accepted and
  stays accepted; the base adapter of an open round never changes; the momentum
  contains every published round once; a failed close can be retried.
* *Handlers*: they keep what the transactions assume of their callers; a
  submission gets its verdict; a round that can be closed is closed as long as
  somebody polls.
* *Budget, aggregation*: bounds on the arithmetic (a shard supports its steps;
  no contributor weighs more than the cap).
* *Worker*: no training without a lease for longer than it takes to learn of its
  loss; never two tasks; honest work passes the gates.
* *Host agent*: nothing but a worker is ever signalled; one worker at a time; a
  pause is final; an idle machine ends up with a worker of the required image.
* *Trainer's data*: every worker derives the same disjoint shards, apart from the
  held-out rows, and its stream delivers what it is asked for.
* *Run creation*: a run in the database has its base adapter and the bucket size
  its workers will use, wherever the script was interrupted.
* *Backup, restore, collection*: what is restored is a state the coordinator can
  continue from; nothing that a close still needs is deleted.

PROJECT.json lists the hazards line by line, with the properties that cover each and
a note of what none does.

## 2. Modules

| Module | Models | Grain |
|---|---|---|
| `RunChain` | what a run promises: a chain of adapters, each from accepted work that was trained from the one before | abstract |
| `Rounds` | the database of one run | one action per transaction |
| `Coordinator` | handler threads of `app.py` and `closer.py`, the store, exceptions, restarts | one action per transaction or store access |
| `WorkerLoop` | `worker/loop.py` with its heartbeat thread and its requests, against the database | one action per request, answer or training step |
| `Budget` | `budget.py`: plan_budget and the throughput floor | operators on whole numbers |
| `Fleet` | the offers of a run round after round, and the throughput estimates they are sized by | one action per claim, submission, transaction of a close |
| `HostAgent` | the agent's tick and commands over either runtime, the worker process, the machine | one action per command issued, file written or decision taken |
| `HostCache` | the eviction of the model cache beside a worker that downloads | the scan, one action per repository selected and deleted |
| `Aggregate` | `aggregate.py`: norm gate, weights with their cap, the outer step in mean mode | one action per submission judged, pass of the clamping loop, summand |
| `Partition` | `data.py` plan_partition | operators |
| `Stream` (on `Partition`) | `data.py` micro_batches as a task uses it | one action per micro-batch |
| `NewRun` (on `Partition`) | `newrun.py` | one action per write, interruptions between them |
| `Backup` | `backup.py`, `restore.py`, `gc.py` beside the closes of a run | one action per object or transaction |
| `MCRounds`, `MCCoordinator`, `MCWorker`, `MCFleet`, `MCHost`, `MCBackup`, `MCNewRun`, `MCKernels` | instances for TLC | |
| `RoundsProofs`, `CoordinatorProofs`, `FaultFreeProofs`, `WorkerProofs`, `FleetProofs`, `HostProofs`, `KernelProofs`, `BackupProofs` | theorems about `Rounds` and its refinement of `RunChain`; `Coordinator` and its refinement of `Rounds`; `Coordinator` while nothing fails; `WorkerLoop` and its refinement of `Rounds`; `Budget` and `Fleet`; `HostAgent`; `Partition`, `HostCache`, `Aggregate`, `Stream` and `NewRun`; `Backup` | |

`Coordinator` EXTENDS `Rounds`, whose variables are part of its state and whose
transactions its threads issue, and is checked and proved to implement `Rounds`'s
`Spec`; `Rounds` INSTANCEs `RunChain` under a refinement mapping and is checked and
proved to implement `RunChain!Spec`. The chain of the two says that the
threads of the coordinator, whatever they interleave and whichever of their
steps fail, publish only chains of adapters made of accepted work. `WorkerLoop`
INSTANCEs `Rounds`: the other end of the same transactions, proved to be a
refinement of it too. `Fleet` EXTENDS
`Budget` and leaves leases and buckets to `Rounds`. `Stream` and `NewRun` EXTEND
`Partition`: the two parties that must derive the same shards. `MCKernels` runs
the four parts that have no partner, `HostCache`, `Aggregate`, `Stream` and
`NewRun`, one per behaviour.

### Rounds

The variables are the columns the code's conditions read. `result[r]` is what
`rounds.result_adapter_ref` names, the set of submissions folded into the
object; `{}` is NULL. `age` is `now - opened_at` of the current round, cut at
`MaxAge` (`max_round_sec`), beyond which no condition of the code distinguishes
two values. `lapsed` holds the leased tasks whose `lease_expires_at` is past. A
task and its submission share an id because `record_submission` writes the
submission of a leased task and takes the lease away.

| Action | Code |
|---|---|
| `ExpireLeases` | `expire_leases` |
| `ClaimTask` | `claim_task`, from its re-check of run and round to the INSERT and the bucket UPDATE; `LeastTrained(S)` is `_pick_buckets`'s ORDER BY ... LIMIT n |
| `Heartbeat`, `Abandon`, `RecordSubmission` | the functions of these names |
| `GateSubmission`, `RejectAtClose` | `_record_verdict`, from `gate_submission` and from the close |
| `ClaimClose`, `ReleaseClose`, `FinishClose` | the UPDATEs of `close_round` to 'closing', back to 'open', to 'closed' (with the leases the close takes with it) |
| `OpenRound`, `FinishRun` | `open_round` and the UPDATE to 'done' |
| `ReopenEmptyRound` | `reopen_empty_round` |
| `TimePasses`, `LeaseLapses` | the clock |

An operator ending in `Txn` is what the transaction does whenever it is issued;
the action adds what its caller promises (for instance, that a round is opened
only after the previous one was closed with a result). `Coordinator` calls the
former, so `ImplementsRounds` is the statement that the callers keep these
promises, and is not true by construction.

Abstracted: the number of buckets of a shard is any number at least one (the
budget's arithmetic decides it in the code); the throughput and audit tables and
the workers' counters, which no transition reads except through the budget; all
gates but gate 5 are one nondeterministic verdict, since they look at bytes an
arbitrary worker chose. Two verdict loops of the close (`missing`, `outliers`)
issue one transaction per submission; the model takes each loop in one step. A
failure between two of these transactions leaves the verdicts of a smaller set,
which is a step of the model followed by `CloseFails`.

### Coordinator

`handler[h]` is a thread: the point it has reached and the locals it still
needs, such as the `round_idx` and the elapsed time that `maybe_close` read
before the round changed under it. `adapters[r]` is the object under
`base_adapter_key(run, r + 1)`; `momentum` is the object under
`momentum_key(run)`, abstracted to how often each round's outer step has been
folded into it; `momentumRef` is `runs.outer_momentum_ref`. Runs with
`outer_beta = 0` keep no momentum and are the same without these steps.
`LeaseNothing` covers every 204 and the return of a lease already held: nothing
changes. `GateFails`, `CloseFails` and `CombineWithoutMomentum` are the
exceptions at their places: the first is caught by nobody, the second by
`close_round`'s except branch (`Release`), the third by the try around the
momentum (`closer.py:269`). `Crash` ends every thread. `TakeClose` is the UPDATE to
'closing' with its rowcount; `HeartbeatRequest`, `AbandonRequest`, `LeaseRunsOut` and
`ClockAdvances` are the steps of `Rounds` that no thread has to remember.
`CoordinatorAssumption` asks for a positive `target_steps`: a run that wants no
steps could close a round nobody worked in, and `newrun.py` does not refuse one.

### WorkerLoop

`worker[w]` is a worker process: its place in `run` and `run_round`, the task it
holds, the steps done so far (which the heartbeat thread reads), and that
thread's two flags with its outstanding request. `control[w]` is what the host
left for it: the stop request (sentinel file or signal) and the pause sentinel.
`late` holds the heartbeats whose thread was joined or killed before they were
answered, and which the coordinator may still execute after the submission.

A request is split where its outcome can differ. It reaches the coordinator and
the answer comes back (`ClaimNewLease`, `Submit`, `BeatRenews`); it is refused
(`SubmitRefused`, `BeatRefused`); it was executed and the answer is lost, so that
`client.py` sends it again (`ClaimAnswerLost`, `SubmitAnswerLost`); or no retry
gets through (`Unreachable`, `AbandonFails`, `BeatFails`, `RegisterFails`).
`EndTask` is the finally block of `run_round`. `Elsewhere` is any transition of
the database that other requests cause: gates, closes, the leases and time.

The steps a submission carries are the worker's own count here, where `Rounds`
lets them be any number: `WorkerLoop` INSTANCEs it with the steps and heartbeats a
task can have (`1..LocalSteps`, `0..LocalSteps`). `Rounds` says what holds of arbitrary
workers, `WorkerLoop` what an honest one can rely on. Left out: `--once` and
`--max-rounds`, sleeping and its jitter, and the contents of downloads and uploads.

### Budget and Fleet

`PlanBudget` is `plan_budget` with its roundings: seconds to steps rounds down,
steps to buckets up, buckets to steps down, and the steps are cut to what the
buckets support. Rates are whole steps per minute and `target_passes` a fraction.
An estimate of 0 is a missing row.

`offers` are the round's tasks as the claim issued them, in the order issued,
without the expired ones: exactly the rows that the median behind the floor is
taken over (`rounds.py:394`), the claimant's own and the abandoned ones included.
`remaining` is what `claim_task` subtracts the overheads from. `UpdateThroughput`
folds in one submission per step, as the close issues one transaction for each.
`polled` makes time wait for the workers: `poll_interval_sec` is shorter than
`Tick`, so every idle worker asks for work at least once between two ticks, in
any order. A submission's rate is one of the speeds its class can show; its
steps are what the trainer's deadline allows at that rate, with the setup time
the machine really takes (`StepsByDeadline`).

Abstracted: a worker is one machine of one class with valid clearance and is
eligible; the rates are whole numbers, so that `Blend` rounds down (it can only
lower an estimate, and the properties are upper bounds); the run goes on.
`Leaving` are the workers that may drop a task, `Late` those that register after
the start, `MaxOffers` bounds the tasks of one worker in a round.

### HostAgent

`agent[a]` is a tick or command in progress: the step it has reached and what it
has read. There are two of them, "timer" and "user", because both run the same
`agent.py` and nothing keeps them apart. `record` is `worker.json` of the native
runtime, or what stands behind the fixed container name. A reference to a process
is `current` as long as that process lives: this is what the start time in the
record is compared for (`_alive`), so `Die` makes every reference to a dead
process stale while its pid may be handed out again (`Fresh`, `OtherStarts`).

| Action | Code |
|---|---|
| `ReadStatus`, `Report`, `Consult`, `ManifestFails` | the steps of `tick`: status, idleness, the manifest with the image decision |
| `StopNative`, `WorkerIsGone`, `GraceEndsNative` | `NativeRuntime.stop`: the sentinel, the loop that waits, the signal and the record's removal |
| `StopDocker`, `GraceEndsDocker` | `docker stop`: SIGTERM, and the kill when the timeout is over |
| `StartDocker`, `SpawnNative`, `WriteRecord` | `start`: `rm -f` and `run`; or the sentinel's removal with the new process, then the record |
| `StopCommand`, `PauseCommand`, `ResumeCommand` | `main` |
| `WorkerStops`, `WorkerLoads` | the worker polls its sentinel; loads a model and holds the GPU |
| `AgentDies`, `WorkerCrashes`, `Reboot`, `OtherStarts`, `WorldChanges` | what the code must expect, `MaxEvents` in all |

`busy` stands for every reason of `idle.py` but the pause and the machine's own
worker: the window, the user, a foreign GPU job. `cfg.gpu` says whether
`_looks_like_ganymede` recognises the worker. The model assumes that the platform
reports start times; without them `_alive` is always false, each tick starts
another native worker, and `runtime.py:335-337` accepts that.
`_alive`'s comparison and the `os.kill` after it (`runtime.py:411-420`), two
instructions apart, are one step, and so is the comparison itself: a pid that is
recycled between them, or within the five seconds `_alive` allows for, is outside
the model and outside what `OnlyWorkersAreSignalled` says.

### Backup

The content of an adapter is its lineage, the closes that went into it, each
named by the incarnation of the coordinator that made it and its round; so two
objects are equal exactly when the same closes made them. `db` is the part of the
database a restore reads or rewrites. `Disaster` loses the machine, with the store
or without; `Restore` is the whole of `restore`, after which the coordinator is
started if no problem was reported; `DryRun` is the other branch, which may be taken
at any time, beside the running coordinator too (`restore.py:298-306` exempts
`--dry-run` from the check for an existing database). The close is the
faultless one: what its failures do is `Coordinator`'s. `last`, `live` and
`rehearsed` are history, read by no guard: whether a close ran beside the last
backup, what the run's base and momentum were when its snapshot was taken, and what
the last rehearsal that found a snapshot fit saw. A rehearsal changes nothing, so
remembering the last one says something of each.

### HostCache, Aggregate, Stream, NewRun

`HostCache` separates the scan from each deletion, so that a worker can download
between them; a model's last use is as coarse as file timestamps, and ties are
broken by name. `Aggregate` has tensors of one element (a norm is an absolute
value) and keeps shares as whole numbers up to their common total, which the
clamp and the mean do not depend on. `Smallest(s, k)` is `sorted(s)[k - 1]`, told by
how many values are below it; judging a submission and appending it to the survivors
(`closer.py:239-250`) is one step, as is adding its weight and its weighted value. `Stream` lets every pass have any order.
`NewRun` has one setting of each kind: the rank (required, decides the seed
adapter), the classification (an argparse default) and the held-out rows (also a
hyperparameter, decides the bucket size).

## 3. Runs

`Symmetry` permutes tasks, workers and (in `MCCoordinatorFaults`) handlers. Nothing in
the modules orders them, and the runs with a liveness property use no symmetry.

| Run | Instance | Shows |
|---|---|---|
| `MCRounds` | 2 workers, 3 tasks, 2 buckets, 2 rounds, MaxAge 1 | the lease, submission and chain invariants, coverage, `ImplementsChain` |
| `MCCoordinator` | 2 threads, 1 worker, 2 tasks, no failure, fairness | whatever is unfinished has an owner (`UnfinishedIsOwned`); momentum; follow-up; `RoundsKeepMoving` |
| `MCCoordinatorFaults` | 2 threads, 3 tasks, 1 exception, 1 restart | what holds whatever fails: one closer, the published object, nothing overwritten; `ImplementsRounds` |
| `MCWorker` | 1 worker, 1 task, any 2 lost messages, restarts or failed closes, fairness | `LeasesEnd`, `StopIsHonoured`; until something fails, `FaultlessWorkIsNotBehind` and `NothingLeftBehind` |
| `MCFleet` | a fast machine of two speeds that may leave, a slow one that joins late | budgets, shards and estimates fit each other |
| `MCHost` | 2 agents, 2 pids, 2 runs, 2 images, 3 disturbances, fairness | nothing foreign is signalled, one worker, `PauseIsFinal`, `IdleMachineWorks` |
| `MCBackup` | 1 worker, 2 rounds, 1 snapshot, 2 losses, nothing kept by gc, fairness | `CurrentRoundIsWhole`, `CalmBackupIsExact`, `RehearsalHolds`, `RunMovesOn` |
| `MCKernels` | 3 models; cohorts up to 5; shards of 1 to 6 rows; 2 starts of newrun | eviction, aggregation, streams, run creation |
| `MCLateGate`, `MCHostSelfStop`, `MCBackupGap`, `MCNewRunConfig` | as above, the smallest that shows it | the findings of section 6 |

Why these bounds are enough to be interesting. Two tasks in two rounds give a
submission of an old round gated in a new one, a lease lost and handed out again,
a round closed with one submission while the other is in a gate. Three tasks are
the least that `CheckNorms` can reject outliers in (`aggregate.py`, a cohort of
at least three). Two threads are the least that race for a close, and every
conflict of the code is between two; one worker is enough for them, since it can
claim in one thread while its submission is gated in the other, and the
conflicts of two workers' transactions are those of `MCRounds`. `TargetRounds =
2` has one round that is followed and one that ends the run. Step counts 1, 2, 7
against a heartbeat of 2 with slack 0 are below the lower side of gate 5, on it
and above the upper one. Three claims, of either shard size, go around two
buckets more than once. One exception and one restart per behaviour: a retry
after a failure is in the model.

In `WorkerLoop` one worker is enough: workers meet only in the database, and
everything another one's requests do to this worker's tasks is an action of
`Elsewhere`. One task is enough for the same reason: a lease that was given back
or lost is a new row, and no request of one task touches another's. Two faults
let a task fail and its abandonment fail too, or a worker be restarted twice. Two
steps per task are the least with a report before, at and after the last one.

`Fleet` uses the coordinator's own defaults: 270 s of overhead (60 + 30 + 60 +
120), 300 s usable at least, rounds of 1800 s, a cold start of 3 steps a minute
and a floor of a tenth. Only `Tick` is coarse (600 s), which gives claims with
1530, 930 and 330 usable seconds and one without enough. The dataset has 20
buckets, so that the fast machine's budget exceeds it and the slow one's does
not. The slow model has a calibration entry, so that every rung of the throughput
ladder is used.

In `HostAgent` two pids let one be the worker's and the other the contributor's,
or both be workers; three disturbances are a crash, the reuse of the pid and a
command in between; two runs can want different images and tie. In `Backup` two
rounds let the snapshot and its rehearsal lie before, in and after a close, and be
behind the run when it is lost; two losses let a restored run close its rounds anew
and be lost again. Two snapshots and one loss (the constants of `MCBackupGap`) are
2.3 million states and were checked once; the safety properties are proved for any
number of both. With no round kept, collection comes as close to the current round
as it can. In `MCKernels` the cap of 3 bytes over models of 1, 2 and
3 makes an eviction choose; cohorts of one to five are below, at and above the
three that gate and cap need, with steps that make one dominate; shards have
fewer rows than a micro-batch, as many, and more; 7 rows and 3 buckets are
divided with and without a remainder, or refused, by the numbers held out.

Deadlock is not checked where the system really stops: a run that is done, or all
of whose task ids are used; a machine with its disturbances used up; a kernel that
has ended. In `Fleet` it is checked: the run goes on, so some worker, the clock or
a close can always move.

**Fairness.** `FairSpec` assumes, per thread, that a request which has arrived
is carried on (threads are scheduled by the OS, and no step blocks on another
thread: SQLite's writers wait for each other at most `busy_timeout`); that time
passes; and that some worker keeps claiming, which `worker/loop.py` does in every
iteration that has no task. No submission, heartbeat or exception is assumed to
come, and no particular worker or thread is assumed to serve. Restarts and
exceptions are excluded from this run: after a restart in the middle of a
close the round stays 'closing' until an operator intervenes, which is documented
(`docs/02-architecture-v2.md:968`).

In `WorkerLoop` a worker's loop runs on (a process is scheduled; training steps
and requests end, since the client has timeouts), a lease that is not renewed
lapses, and somebody, not necessarily this worker, polls, which expires what has
lapsed. No heartbeat is assumed to be sent or to arrive. In `Fleet` workers poll
and submit what they hold, time passes and a round that is due is closed. Its run
states no fairness, since it has no liveness property.

In `HostAgent` the timer fires again and a tick runs to its end (it is a systemd
timer or launchd job; every command it runs has a timeout, `runtime.py:600`), and a
worker polls its sentinel; no disturbance is assumed to end, so the liveness
properties begin "if from some time on". In `Backup` workers claim and submit and a
close in progress goes on; no backup, collection or restore is assumed. A stream
is drawn from as long as it delivers.

**Slips the properties notice.** Each property is paired in PROJECT.json with a
mutation, an operator marked "Mutation of" or placed next to the definition it
replaces, under which the same run fails. Among them: a claim that overlooks a
held lease past its expiry (`OneLeasePerWorkerPerRound`); a close that expires
submitted tasks too (`TasksMatchTheirRound`); an ORDER BY without its first key
(`CoverageStaysEven`); a next round opened without a result (`ImplementsRounds`); a
store that keeps the object of a failed attempt (`PublishedObjectIsTheResult`); an
adapter written under the key of its own round (`NothingIsOverwritten`); an early
return that leaves the round 'closing' (`RoundsKeepMoving`); a task that ends
without stopping its heartbeat thread (`LeasesEnd`); a heartbeat that reports the
step in progress (`FaultlessWorkIsNotBehind`); a give-up that forgets to abandon
(`NothingLeftBehind`); a pause that hides a stop (`StopIsHonoured`); a blend whose
weights exceed one (`MeasuredWorkFits`); a pid check without the start time
(`OnlyWorkersAreSignalled`); a grace period that ends without a signal
(`OneWorker`); a tick that asks for idleness only before a start (`PauseIsFinal`); a
start that leaves the sentinel of the last stop (`IdleMachineWorks`); a
reconciliation that keeps the submissions of the round in flight
(`CurrentRoundIsWhole`); a restore without the momentum (`CalmBackupIsExact`); a
rehearsal that does not verify the round it plans for (`RehearsalHolds`); a verification of the base
alone (`RunMovesOn`); an eviction that overlooks what is protected (`EvictionIsLru`);
a cap by the mean instead of the median (`AggregationIsFair`); buckets that begin in
the held-out rows (`ShardIsStreamed`); a shard refused only when it is empty
(`WorkersAreFed`); a script that does not look for an existing run
(`RunIsTrainable`).

## 4. Proofs

`RoundsProofs` proves, for every set of workers and tasks, any number of buckets
and rounds, and any step counts, that `Rounds!Spec` keeps its type invariant and
all its safety invariants, and `ClosedIsFinal` (no step reopens a closed round or
changes its result), which no run lists. The only assumption is
`RoundsAssumption` (the numbers are naturals, bucket and round counts positive,
`NoWorker` is no worker), which TLC evaluates in every run. There is one proof
step per action. The argument goes in layers, each inductive relative to the one
before:

1. `TypeOK`, by itself (`TypeCorrect`).
2. `LeaseInv` = one lease per worker and round, a submission exactly for the
   submitted tasks, lapsed tasks are leased, accepted steps cover heartbeats
   (`LeasesAreSound`). `SubmissionsKeepTheirTask` is what makes the rest
   inductive: without it a heartbeat of a leased task could be of an accepted one.
3. `ChainInv` = `RoundsFormAChain`, `ResultsAreAccepted`,
   `LeasesDieWithTheirRound` and that no task belongs to a round that does not
   exist yet (`RoundsAreSound`). The last part is what makes a freshly opened
   round free of leases; `ClosedStaysClosed` follows, because only the current
   round is ever released.
4. `BucketInv` = `EvenCoverage`, with two facts `RepeatOnlyAfterCoverage` does
   not survive a step without: `lastRound[b]` is exactly the last round that
   handed `b` out, and within the current round the buckets handed out are the
   most-trained ones (`CoverageIsEven`). A shard is a prefix of the order
   (times trained, last round, index), so a bucket is handed out for the second
   time in a round only when no bucket precedes it, that is, when all were
   handed out.

The properties the runs name are conjunctions of these: `TasksMatchTheirRound` is
`SubmissionsKeepTheirTask` and `LeasesDieWithTheirRound`, `AcceptedWorkIsSound` is
`ResultsAreAccepted` and that accepted steps cover heartbeats, `CoverageStaysEven`
is `EvenCoverage` and `RepeatOnlyAfterCoverage`.

It also proves `ImplementsChain`: under the refinement mapping of `Rounds`
(adapters are the results so far, in order; offered work is what has a verdict or
waits for one) `Init` implies `RunChain`'s and every step is one of its steps or a
stutter. `RecordSubmission` offers, the transactions of a verdict refuse or
stutter, `FinishClose` publishes, `FinishRun` finishes, the rest stutter. The step
needs the three invariants above: that a published submission was of the current
round, accepted, and never used before.

`FleetProofs` proves, for every fleet, dataset, pass count, speed and timing,
`TypeOK`, `BudgetsFit` (`ShardsFit` and `CutOnlyWithoutData`) and
`MeasuredWorkFits`, with `EstimateIsObserved` on the way.
The assumptions are `BudgetAssumption` (naturals; sample counts, passes, cold
start and denominators positive) and `FleetAssumption` (every class has a
fastest speed), evaluated by TLC in the runs. There are two layers.

1. Arithmetic. `DivBounds` and monotonicity of products are what the SMT solver
   knows of `\div` and of nonlinear terms; `CeilBounds` and `QuotientCovers` state
   what the two roundings of `plan_budget` do to each other; `CutFits` that
   rounding steps up to buckets and back down loses no step unless the dataset's
   size cut the buckets. `PlanBudgetFits` is the theorem about `PlanBudget`: the
   shard supports the steps, has no spare bucket, is cut only at the whole
   dataset, and its steps fit the usable time at the resolved rate.
2. The machine. `IInv` is `TypeOK` with the four invariants. `MeasuredWorkFits`
   needs `EstimateIsObserved` (the estimate a task was sized with is at most the
   class's fastest speed), which needs in turn that a submission's rate is one its
   class shows. `SameWorkKeeps` says that an action which leaves an offer's worker,
   steps, buckets and usable time alone keeps what is stated about it; the
   actions that drop offers (`ExpireStep`, `UpdateThroughputStep`) re-index.

`WorkerProofs` proves, for every number of workers and tasks, every step budget and
any number of lost messages, restarts and failed closes, from `WorkerLoopAssumption`
(the constants of `Rounds` are what `RoundsAssumption` asks for, the budgets and bounds
naturals), both invariants of `WorkerLoop` and that it implements `Rounds`:

1. `LoopInv` = `TypeOK`, the stage of each worker (one that polls holds nothing, beats
   for nothing and has nothing outstanding; no heartbeat is ahead of the training; a
   submission has steps) and the invariants of the database, carried over from
   `RoundsProofs`. A step of a worker is a transaction of the database or leaves it
   alone, with the steps in the range of the mapping because the stage says so: hence
   `WorkersUseTheDatabase` (`Spec => DB!Spec`) and, from `Rounds`, `DatabaseStaysSound`.
2. `FaultlessInv` says what holds until something fails: a live lease (leased, its round
   open) is held by its worker, which has trained at least what it reported; what a
   worker holds is its own, and it drops it only when it is over; a late heartbeat is of
   a task that is no longer live, so it is refused. That is why
   `FaultlessWorkIsNotBehind` and `NothingLeftBehind` are true, and why each fault breaks
   them: a restart, a lost abandonment or a close that failed make a lease live again
   that its worker has let go. Nearly every step only lets tasks age (`Ages`: what is
   over stays over, nothing is renewed) while each worker stays with its task or leaves
   one that is over (`Stays`, `Leaves`), and `AgingKeepsWork` is the argument for all of
   these at once; claims and heartbeats have lemmas of their own.

`HostProofs` proves, for every set of pids, runs and images and any number of
disturbances, `TypeOK`, `OnlyWorkersAreSignalled`, `OneWorker`, and that what status
reports as running is a worker. `OnlyWorkersAreSignalled`
is not inductive: a signal is sent by pid through a reference an agent read
earlier. `IInv` adds that every current reference, the record's or an agent's, is to
a worker (`Refers`), which `Die` keeps because it makes stale what refers to the
dead (`StaleRefers`), and that an agent about to start a worker has an image, which
the type of the record needs. `DockerRunsOneWorker` adds that the container's name
refers to the only worker. On a native host no name does that: `NativeInv` says that as
long as the machine is left to its timer, whatever worker has not been told to stop is
the one the record names, or that the tick which has just started it is about to
record, and that a tick which is about to start one has found none. The assumption is
`HostAssumption`.

`KernelProofs` is about the parts that run by themselves. It proves of `Partition` that the buckets of every plan are disjoint,
in the dataset and apart from the held-out rows, and that fewer rows are dropped
than there are buckets (`BucketsPartitionTheRows`), that disjoint sets of buckets have
disjoint rows, as many as buckets times bucket size (`ShardsAreSeparate`, by the
bijection from bucket and offset to row), and of `NewRun` that a run in
the database is trainable (`RunIsTrainable`): its base is in the store with its
rank, and the bucket size it stores is the one its workers compute, unless the
held-out rows were named twice. The invariant follows an invocation: from "put" on
there is no run yet, from "insert" on the object is the invocation's own, and what
it resolved is settled. The assumption is that one invocation runs at a time, which
is the shape of the model, and `NewRunAssumption`. Of the others:

* `EvictionIsLru`, from `SweepInv`: what a sweep has selected is not protected, is no
  younger than any candidate left, and the last of it had to go.
* `ShardIsStreamed`, from `StreamInv`: `InPass(k)` counts the batches of the pass, which
  gives the number of rows still to come, and a row still to come has been used in the
  passes before only.
* `AggregationIsFair`, for cohorts of every size, of any steps and values. `Smallest` is
  the one value of its rank (`SomeOfEachRank`, `OneOfARank`), so cutting off what lies
  above a limit not below it leaves it where it is (`CutKeepsRank`), and twice the median
  is such a limit: the first pass of the clamping loop settles the weights, the second
  finds nothing to do (`CutKeepsMedian`). In `AggInv` each sum lies between two
  survivors' values, weighed with what has been added so far; since survivors passed the
  gate, so does the result (`WithinTheGate`).
* `KernelsTypeCorrect`: the four side by side keep their types, from their assumptions
  (`CacheAssumption`, `AggregateAssumption`, `StreamAssumption`, `NewRunAssumption`) and
  that `MCKernels` has a plan to leave an idle stream with.

The library states induction with an operator as parameter, which the provers cannot
instantiate; where these proofs need it they take the least natural number of a set
(`Least`, from the well-foundedness of the naturals), or the largest of a finite one.

`CoordinatorProofs` proves, for every number of threads, of exceptions and of
restarts, `CoordinatorTypeOK`, `SingleCloser`, `PublishedObjectIsTheResult`,
`NothingIsOverwritten` and the refinement `ImplementsRounds`, and with it that all
that is proved of `Rounds` and `RunChain` holds of the coordinator
(`CoordinatorPublishesAChain`). The question is always the same: a thread read
something, others ran, and it acts on what it read. `CoordinatorInv` says that what
it relies on is still so:

1. `LocalsAreTrue`: the submission a thread gates has no verdict, the worker it
   leases to has claimed, the round in which it found the close rule satisfied has a
   submission, the round it closes is the current one and 'closing', and what it
   aggregates is accepted and, once put, still in the store.
2. `Exclusive`: two threads never own a close (from `TakeClose` to `Advance` or
   `Release`) at once, nor gate the same submission.
3. The invariants of `Rounds`, carried over by the step lemmas of `RoundsProofs`,
   since every step of a thread is a step of `Rounds` or leaves the database alone
   (`Simulation`).

`ThreadStep` is the argument for one step of one thread: what it knows afterwards is
true, it took nothing another has, and it disturbed nothing another relies on. Most
steps disturb nothing (`QuietStep`); the gate, the UPDATE that takes the round, the
rejections, the adapter and the two ends of a close are lemmas of their own. The
assumptions are `RoundsAssumption` and `CoordinatorAssumption`.

`FaultFreeProofs` proves, for every number of threads and on the assumption that
nothing raises and the process is not restarted (`MaxFailures` and `MaxCrashes` are
0), `UnfinishedIsOwned`, `ClosesAreFollowedUp` and `MomentumHasEveryRoundOnce`, none
of which the code keeps otherwise (section 6). It is the converse of
`LocalsAreTrue`: `OwnedInv` has a thread for every round in 'closing', every
submission without a verdict and every published round not yet followed, and a gate
has one submission; `MomentumInv` has the momentum hold a round exactly when its
outer step has been put, and the reference set before the next close reads it.

`BackupProofs` proves every safety property of `Backup`, for any number of workers,
rounds, snapshots and losses of the machine, from `BackupAssumption` alone (the
numbers are naturals, there is a round). `BackupInv` says of the running coordinator
that its database and its store are where the close under way has them: key k holds
the adapter of k closes or nothing (`Deep`, of the off-box store too), the database is
in the status its close is in and the result is put from there on (`CloseIsSound`),
base and artifacts of the round in hand are in the store and what is listed for
collection is of rounds that are over (`StoreIsSound`). A stopped coordinator runs
nothing, so a restore has to bring only the first and the third back, and the
verification is what does (`RunningRoundIsWhole`). What makes
`CalmBackupsAreExact` inductive is `CalmInv`: a database and every snapshot of it have
a result and a momentum for each round behind them (`Bookkept`), so the references
read after the snapshot are those of its round; a calm backup has copied what it no
longer lists (`BesideNothing`), nothing overwrites it (`CalmIsSaved`), and a store that
was lost holds copies only, also after a restore that failed (`OffTheBox`).
`RehearsalsHold` rests on both invariants and on `RehearsalInv`: what a fit snapshot
refers to stays in one of the two stores until the store is lost (`InAStore`; a close
deletes no object, and replaces the momentum by another one, which is `CalmInv`'s);
and the base a rehearsal saw, of a round the run has reached, stays the only one
under its key, since a close writes under the key of the round after its own. That
ends with a restore, which may set the run back and have it close that round anew.

Only model-checked: liveness (`RoundsKeepMoving`, `LeasesEnd`, `StopIsHonoured`,
`PauseIsFinal`, `IdleMachineWorks`, `RunMovesOn`, `WorkersAreFed`), which rests on
fairness, that is on ENABLED, and is beyond the provers. Every invariant, every action
property and every refinement that a passing run checks is also a theorem.

## 5. Not modelled

* More than one run at a time in the coordinator and in a backup. Runs share no
  row but the worker's, and no transition of one reads another's. (The host agent
  sees several runs, since its image decision counts them.)
* Eligibility and clearance (every worker of a model is eligible), authentication
  and settings: stateless filters and constants.
* The hardware probe, the calibration and the baseline: they measure one machine
  once, with no protocol and no state that another part changes.
* The trainer's numerics: tokenising, the model, the optimiser, the evaluation.
  Aggregation has one-element tensors and mean mode; in `Coordinator` a published
  adapter is the set of submissions it was made of, the momentum a count per round.
* A worker's `--once` and `--max-rounds`, its sleeps, and several runs or
  machines of one worker id.
* The agent's `--check`, the parsing of `host.json`, and a platform that reports no
  process start time.
* `newrun`'s `--dry-run`, `--requires` and `--hyperparams`; the data seed and prompt
  format, which take the path of the held-out rows; two invocations at once.
* Failures of the store during a backup or a restore, and a close that fails beside
  a backup.
* Recovery by hand of a round left 'closing' by a restart.
* Reporting scripts and deployment: read-only, or configuration.

## 6. Where the code and its documentation disagree

Four are runs that TLC refutes, with the trace as evidence.

1. `MCLateGate` - the close rule counts ungated submissions (`rounds.py:136`),
   the close aggregates accepted ones (`closer.py:214`). A claim that evaluates
   the rule while the only submission is between its record and its gate closes
   the round over nothing, which `rounds.py:163-166` says cannot happen; the
   submission is then accepted in a round closed without it, a state that
   `invariants.py:200` reports as broken, and the run stays on that round.
2. `MCHostSelfStop` - the GPU check takes a worker whose process shows as plain
   `python` (the native command is `python -m ganymede.worker.loop`) for somebody
   else's job. The tick stops it, the next tick starts it, for ever; `idle.py:143-145`
   says that a false negative "just means one extra busy tick, not a correctness
   problem".
3. `MCBackupGap` - the snapshot is taken first and the references are read from the
   live database after it. If the snapshot's round closes in between, the backup
   holds its result but not its base, and after the loss of machine and store the
   snapshot cannot be restored. `restore.py:6-8` says that "the database plus the
   newest adapter is enough to resume the run", `restore.py:99-100` that the base is
   "exactly what `backup.py` saved". `CalmBackupIsExact` is what does hold.
4. `MCNewRunConfig` - an explicit `--eval-size` beside a file that names another
   decides the bucket size, while the file's number stays in the hyperparameters and
   decides the workers' rows; a file's `classification` never applies, because the
   flag has a default. `newrun.py:150-157` says that the file fills unset arguments
   and explicit flags win over it.

Smaller disagreements that the models show or were met in writing them, for which
no run is kept.

In the coordinator, the worker and the fleet:

* A restart between the record of a submission and its gate leaves it without a
  verdict for good (`rounds.py:556-558` and `docs/02-architecture-v2.md:963` say it is
  not lost).
* A close that fails after it wrote the momentum is retried from the momentum that
  already contains the round (`closer.py:180-184` says a retry does not accumulate).
* A failure after the 'closed' transaction strands the run: the round is not given
  back and not followed (`docs/02-architecture-v2.md:967`).
* A restarted worker is handed the lease it holds, trains it from step 0 and submits
  fewer steps than its first attempt had reported; gate 5 rejects this honest work
  (`rounds.py:505-508` says the maximum prevents that).
* The cold-start budget of an unmeasured model is compared with measured budgets and
  refused whenever a measured machine claims first, so the guess that should be
  "replaced by a measurement immediately afterwards" (`config.py:38-42`) may never be.
* `max_runtime_sec` is the usable time, from which setup has been subtracted; the
  trainer counts it from before setup (`train.py:261`, `train.py:316`), so setup is paid
  for twice, which `budget.py:60-63` describes as what the reservation prevents.
* A single abandoned lease lets a round hold a bucket twice while another is held
  by nobody, which `invariants.py:107` excludes. What a claim does ensure is
  `RepeatOnlyAfterCoverage`, counting abandoned and expired claims; that is proved.
* The first heartbeat is sent during download and setup and reports 0 steps; if no
  later one gets through, the submission is "a huge jump past the last heartbeat"
  and rejected (`aggregate.py:136-138`), though `loop.py:162-163` calls a lost
  heartbeat not fatal.
* A worker registers outside of any try (`RegisterFails`), so a coordinator that is
  down when it starts ends it; `docs/02-architecture-v2.md:458` says of an
  unreachable coordinator "It must not be fatal". The host's next tick starts it
  again.
* The floor's query counts the claimant's own tasks, so in a round of two hours a
  worker that is alone falls below the floor its first task set
  (`rounds.py:388-390` speaks of the round's other workers).
* `invariants.py:257-260` tolerates a submission whose task is 'expired';
  `SubmissionsKeepTheirTask` shows that it is always 'submitted'.
* With several tensors a whole cohort can be rejected by `check_norms`, each
  submission for another tensor; the round then closes with no result. And the
  comment at `aggregate.py:224-233` about a limit that moves from pass to pass
  describes a loop that in fact settles in at most two passes (`AggregationIsFair`).

On a contributor's machine:

* The cache is evicted in every idle tick, not "never while one is running"
  (`agent.py:188-189`).
* `agent.py:292` says of a stop that "the sentinel is already written"; on docker no
  stop sentinel is written at all.
* An agent that dies between starting a native worker and recording it leaves a
  worker no later tick knows of; a stop that ends while another agent has started a
  worker removes that worker's record. `OneWorker` therefore speaks of undisturbed
  native hosts.

In the scripts:

* The base of round 0 is in no backup, and the restore of a finished run asks for
  the base of its last round, which is in none either.
* `restore --dry-run` verifies against the store as it is, with nothing copied to it
  (`restore.py:234-236`, `249-270`). On a live machine it therefore finds a snapshot
  fit whose base only the live store holds (the snapshot of round 0, or that of
  finding 3); if the store is then lost, the restore fails. After the loss of
  the store it reports a missing base that the restore would copy. `restore.py:192-195`
  calls "a rehearsal that does not rehearse the actual steps" "the same failure as
  a backup nobody has restored from". `RehearsalHolds` says how far a rehearsal can
  be trusted all the same: the store was kept, or what the snapshot refers to is off
  the box. Without that condition TLC finds it violated in five states.
* Two invocations of `newrun` for one run id at once can both pass the check
  (`newrun.py:359`) and both write the base of round 0.

## 7. Plan

| Step | Module | What |
|---|---|---|
| done | `RunChain`, `Rounds`, `RoundsProofs` | the database and its promise; the refinement proved |
| done | `Coordinator`, `CoordinatorProofs`, `FaultFreeProofs` | close, handlers, faults; every safety property and the refinement proved |
| done | `WorkerLoop` (on `Rounds`), `WorkerProofs` | the worker's loop and heartbeat thread, lost messages, restarts; its invariants and the refinement proved |
| done | `Budget`, `Fleet`, `FleetProofs` | budgets, floor and estimates, with their theorems |
| done | `HostAgent`, `HostProofs` | tick, commands, both runtimes, sentinels; its invariants proved |
| done | `Backup`, `BackupProofs` | snapshot, copy, restore, rehearsal and collection beside the closes; its safety properties proved |
| done | `HostCache`, `Aggregate`, `Partition`, `Stream`, `NewRun`, `KernelProofs` | the parts that run by themselves, with their theorems |
| 1 | proofs | that the threads of `Coordinator` serve the workers of `WorkerLoop`: the two refinements of `Rounds` joined in one module |
| 2 | eligibility and clearance in `Fleet` | a worker is offered work only where its labels and hardware permit it |
