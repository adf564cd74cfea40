# TLA+ models of percona-agent

This directory holds TLA+ models of the concurrent parts of percona-agent. It has:

- the modules;
- the TLC configurations that model-check them on small instances;
- TLAPS proofs of the most important safety properties of the QAN manager and of the MySQL restart monitor.

`PROJECT.json` lists:

- every component, with its modelling status;
- every TLC run, with the properties it checks;
- a mutant for each checked property;
- the source lines each definition models;
- the findings;
- the hazards of the code, with the properties that cover them;
- the theorems.

## The system and how its parts interact

| Part | Source | What it does |
|---|---|---|
| QAN manager | `src/qan/manager.go` | Starts and stops query analytics, on `Start`/`Stop` from the agent or on `StartService`/`StopService` commands in `Handle`. `start()` opens a MySQL connector, subscribes a restart channel with the MySQL restart monitor (`mrm.Add`), applies `config.Start` to MySQL, and spawns the `run` goroutine. Each interval, `run` admits a worker to a pool bounded by `MaxWorkers`. For slow-log collection it first rotates the slow log if it is too big, and `oldSlowLogs` reference counts decide when a rotated file may be removed. `run` reaps finished workers from `workerDoneChan` (capacity 2). It re-applies `config.Start` when the restart monitor reports a MySQL restart. |
| perfschema worker | `src/qan/perfschema/worker.go` | `Run` SELECTs the statement digest table, then TRUNCATEs it, then computes a report. |
| MySQL restart monitor (MRM) | `src/mrms/monitor/instance.go` | Keeps a map of subscriber channels (`Add`, `Remove`, `Empty`). `CheckIfMysqlRestarted` asks MySQL for its uptime and compares it with the last sample plus the seconds elapsed since. When it reports a restart, `NotifySubscribers` does a non-blocking send of `true` on each subscriber's channel (capacity 5). The QAN manager is a subscriber. |
| log relay | `src/log/relay.go` | One goroutine that `select`s over four inputs: log entries from every logger (`logChan`, capacity 3·BUFFER_SIZE), websocket connect/disconnect events, log-file changes and log-level changes. Entries go to the API while connected. When not connected, or when a send fails, they go into two buffers of BUFFER_SIZE slots with a `lost` counter. A reconnect resends the buffers. |
| sysconfig monitor, metrics monitor, installer, summary service, mocks | `src/unnamed/*`, `src/summary`, `src/test/mock` | Not modelled yet, or not worth modelling; see below. |

## Modules

### `QanManager.tla`

Models the manager, the `run` goroutine, the worker goroutines and, as the environment, MySQL and the MRM.

**State.**

- `running`, `status`, `api` and `parser` are the manager's own state. `api` records which caller holds `m.mux` inside `stop()`; `parser` records whether the run goroutine is alive.
- `stopReq` is `m.sync.Stop()` issued but not yet seen.
- `mrmSubs` counts MRM subscriptions. `restartChan` counts notifications queued on `m.restartChan`.
- `collecting` is whether MySQL has `config.Start` applied.
- The slow log is `gen`, `big`, `oldSlowLogs` and `removed`.
- `wphase` and `wrows` hold the workers, by reusable slot. `workerDoneChan` is the bounded channel.
- `table` is the digest table.
- The history variables are `readers`, `executed` and `reported`.

**Actions.**

- `Start` and `HandleStartService` share `DoStart(o)`. The outcome `o` names which step of `start()` failed; it covers every early return of `start()`.
- `HandleReply` covers the commands that only reply.
- `Stop`/`HandleStopService` (`StopBegin`) and `StopEnd` are `stop()`, split at `m.sync.Wait()`. This split is what lets the run goroutine finish its stop while the caller holds the mutex.
- The run goroutine is `RunInterval` (which includes `rotateSlowLog` as `Rotate(w, o)`), `RunWorkerDone`, `RunRestart` and `RunStop`.
- A worker is `SlowLogWorkerRun`, or `CollectData` then `TruncateTable`, then `WorkerDone` (the deferred send).
- MySQL is `MySQLRestart` (which includes the MRM's non-blocking notify), `SlowLogGrows` and `ExecStatement`.
- Every SQL call, rename and remove may fail, within a fault budget `MaxFaults`.

### `LogRelay.tla`

Models the relay goroutine with the websocket link as its environment.

**Control points.** `pc` is where the goroutine is:

- in the select;
- inside `internal()` (blocked on its own `logChan`);
- inside one of the three loops of `resend()`.

The resend loops are one slot per step (`ri`), because each `send` is a blocking network call.

**Actions.**

- `RecvEntry` is the entry case, with the level filter, `send` and `buffer`.
- `RecvConnect` is the connect case: `internal()` is followed by `resend()`, or by `go connect()`.
- `RecvLogFile` and `RecvLogLevel` are the file and level cases.
- `Internal` is `internal()`.
- `ResendFirst`, `ResendLost` and `ResendSecond` are the three parts of `resend()`.
- The environment is `LogEntry` (loggers), and `LinkUp`, `LinkDrop` and `Disconnect` (the websocket client, modelled from its contract because it is not under `src/`).

### `RelayDelivery.tla`

The abstract promise of the relay (spec 4.E), with the buffers, the websocket and `resend` left out. `seen` is the set of entries accepted so far, and `pending` the accepted entries the relay still holds. `Store(e)` accepts a new entry and keeps it; keeping it may give up other pending entries. `Send(e)` delivers a new or a pending entry and drops it from `pending`. `Warn` delivers the lost-count warning.

`LogRelay` instantiates it as `Delivery` with `pending <- Held \ {Nil}` (the entries in either buffer) and `seen <- accepted`. `DeliveryRefined == Delivery!Spec`.

What the refinement does not say:

- `Store` may give up any pending entry, not only those of the sliding window. This is what the code does: `buffer()` writing at index `firstBufSize` can overwrite an entry that a partial resend left held. So `DeliveryRefined` holds, and that overwrite is reported by the `relay_entries_accounted` violation run instead.
- A send that times out never reaches the API in the model (`Timeout` leaves `delivered` alone). The websocket client is not under `src/`, so this is an assumption about it. A timed-out write that the server still received, and that `resend` then sends again, is outside what `NoDuplicateDelivery` and `DeliveryRefined` check.

### `MrmMonitor.tla` and `RestartNotifier.tla`

`MrmMonitor` models one `mysqlInstance`. Time counts in steps of `1/SUB` second. MySQL's `Uptime` and Go's `time.Unix()` both truncate to whole seconds (`UptimeAt`, `Unix`).

**State.**

- `lastUptime`, `lastUptimeCheck` and `subscribers` are the struct's fields.
- `queue[c]` is how many notices channel `c` buffers. `made` is the set of channels `Add` has returned.
- `phase` and `cur` are the check in progress: `"queried"` means the server has answered `Uptime()` with `cur`, and the answer has not yet reached the agent.
- The environment is `now`, `up`, `boot` and `restarts`.
- The history variables are `sinceSample`, `truth`, `verdict`, `detections` and `noticed`.

**Actions.**

- `Add`, `Remove` and `Empty` are the map operations behind the RWMutex.
- `CheckIfMysqlRestarted` is split at the moment MySQL answers. `QueryUptime` takes the sample, and the clock may run before `FinishCheck` computes `elapsedTime` and `expectedUptime`, saves the sample, and compares. On a restart `FinishCheck` includes the poll loop's `NotifySubscribers` (`Notify`), which drops a send to a full channel.
- `Receive(c)` is the subscriber's receive (the QAN `run` goroutine at manager.go:379).
- The environment is `Tick` (the clock), `Crash` and `Recover` (the server, down for at least a second).
- The poll loop that calls the check is not under `src/`. It is modelled from spec 4.D: it checks while there are subscribers and notifies on a restart.

`RestartNotifier` is the abstract promise of spec 4.D. Channels subscribe and unsubscribe, and each announced restart leaves every current subscriber holding a notice until it receives it. `MrmMonitor` instantiates it with `pending[c] = (queue[c] > 0)` and `announced = detections`.

### Other modules

- `QanManager_proofs.tla`, `MrmMonitor_proofs.tla` and `LogRelay_proofs.tla` hold the TLAPS proofs.
- `MCQanManager.tla`, `MCLogRelay.tla` and `MCMrmMonitor.tla` instantiate the models for TLC.

## Runs

### Passing runs

**`qan_slowlog`** (`MCQanSlowLog.cfg`)

Bounds: slow log, old-log removal on, `MaxWorkers = 2`, 3 worker slots, one rotation, one MySQL restart, one fault.

Properties:

- `TypeOK`.
- `AdmissionBound`: at most `MaxWorkers` workers are in `m.workers`.
- `DoneWorkerRegistered`: a worker in `workerDoneChan` is still in `m.workers`, so the lookup at manager.go:353-357 never dereferences a nil interval.
- `WorkerEventuallyReaped` (liveness): a registered worker is eventually reaped while QAN runs.

The third slot lets a broken pool bound show up. With one rotation, a worker can be reading an old log while another interval is admitted.

**`qan_perfschema`** (`MCQanPerfSchema.cfg`)

Bounds: perfschema, `MaxWorkers = 1`, two statements (symmetric).

Property: `NoDoubleCount`, which says no statement is counted by two reports, through restarts, failed TRUNCATEs and stop/start cycles.

**`relay`** (`MCLogRelay.cfg`)

Bounds: `BUFFER_SIZE = 2`, five entries, one link drop, one send timeout.

With these bounds both buffers fill, the lost counter is used, and a resend is interrupted part way.

Properties:

- `TypeOK`, which includes buffer indices in range.
- `NoDuplicateDelivery`.
- `DeliveryRefined`: the relay implements `RelayDelivery`. Only accepted entries reach the API, each one new or still held, and an entry that `buffer()` gave up never does.

`CHECK_DEADLOCK FALSE` is used because the relay idles in its `select` once the environment is done.

**`mrm`** (`MCMrmMonitor.cfg`)

Bounds: `SUB = 2` (half-second steps), 6 steps of time, initial uptime up to one second, one server restart, two channels.

With half-second steps a query can straddle a second boundary. A crash can land between the answer and its arrival, and the server stays down for a full second. 87,267 distinct states.

Property: `NotifierRefined`, the refinement of `RestartNotifier`. It says that `Add` and `Remove` touch only their channel, that a fresh channel holds nothing, and that every detection leaves each current subscriber holding a notice, although `NotifySubscribers` drops sends to full channels (a full channel already holds one).

`CHECK_DEADLOCK FALSE` is used because only the clock bound `MaxTime` stops a behaviour.

### Violation runs

Each violation run checks one stated expectation that the code breaks. The findings in `PROJECT.json` give the traces' meaning.

| Run | Property | What breaks it |
|---|---|---|
| `qan_pfs_two_workers` | `NoDoubleCount` | With `MaxWorkers = 2`, two workers SELECT the same rows before either TRUNCATEs. |
| `qan_restored` | `CollectionRestored` | A failed re-configuration after a restart is never retried; spec §4.F says "next tick will retry". The run uses perfschema collection (`MaxWorkers = 1`, two slots), so no slow-log rotation can turn collection off and the counterexample is the restart path at `manager.go:379-384`. Under slow-log collection a failed `SET` after a rotation (`manager.go:453`) breaks the property too; no run checks that path separately. |
| `qan_old_log_removed` | `OldLogRemovedAfterReaders` | Any reaped worker decrements every `oldSlowLogs` count, so a file is removed under a reader. |
| `qan_subscription` | `SubscriptionOwned` | `configureMySQL` fails after `mrm.Add`, and the subscription leaks. |
| `mrm_false_restart` | `NoFalseRestart` | The uptime is sampled when MySQL answers, and the elapsed seconds are measured when the answer arrives, both truncated. An answer that crosses a second boundary expects one second more than the server reports, and a restart is reported that did not happen. |
| `mrm_missed_restart` | `RestartDetected` | The server crashes while the `Uptime()` answer is in flight. The late answer reports a restart while the server is down, so the re-configuration fails. The new server's uptime is then saved, and no later check sees the restart. |
| `relay_entries_accounted` | `EntriesAccounted` | `buffer()` writes at index `firstBufSize` into a slot that a partial resend left holding an entry. |
| `relay_self_block` | `RelayNeverSelfBlocked` | `internal()` blocks on the relay's own full `logChan`. |

### Mutants

Each property of a passing run has a mutant: a plausible bug in the mapped code, which TLC finds under the run's cfg.

| Mutant | Breaks |
|---|---|
| An interval always rotates | `TypeOK` (generation past its bound) |
| An off-by-one in the pool check | `AdmissionBound` |
| A worker sent twice | `DoneWorkerRegistered` |
| A reaped worker not deleted | `WorkerEventuallyReaped` |
| No TRUNCATE | `NoDoubleCount` |
| `<=` in `buffer()` | `TypeOK` |
| A resent slot not cleared | `NoDuplicateDelivery`, `DeliveryRefined` |
| An unbuffered subscriber channel (every send dropped) | `NotifierRefined` |

## Fairness

Go's `select` picks among ready cases at random, and a blocked goroutine proceeds once its channel is ready. For that reason each step of the run goroutine, each worker step and `StopEnd` is weakly fair.

The clock keeps delivering intervals while QAN runs, so `RunInterval` is fair too.

Commands, MySQL and the log producers are the environment, and they are not fair. In the relay, the link's reconnect and disconnect are fair, because the client retries connecting and `waitErr` always ends in `Disconnect`. A link drop is not fair.

## Proofs (`QanManager_proofs.tla`)

The proofs hold for every value of the constants that satisfies `ConfigAssumption` and `BoundsAssumption`, which are the bounds `ValidateConfig` enforces.

**`TypeCorrect: Spec => []TypeOK`.**

`TypeOK` alone is not inductive, for two reasons:

- `StopBegin` decrements `mrmSubs`, which needs `mrmSubs >= 1` while running and idle. This is `SubscriptionHeld`.
- `Rotate` increments `gen` when the log is big, which needs `big => gen < MaxGen`. This is `BigBelowMaxGen`.

`TypeInv == TypeOK /\ SubscriptionHeld /\ BigBelowMaxGen` is proved inductive with one step per action (`TypeInvInit`, `TypeInvStep`).

**`AdmissionBoundHolds: Spec => []AdmissionBound`.**

The inductive invariant is `TypeInv /\ AdmissionBound`. The argument uses `InMapUpdate`, which says a worker's phase change adds it to, or removes it from, `InMap` and nothing else. Only `RunInterval` adds a worker, and only when `Cardinality(InMap) < MaxWorkers`.

**`DoneWorkerRegisteredHolds: Spec => []DoneWorkerRegistered`.**

The invariant is strengthened to `DoneChanSent`: every element of `workerDoneChan` has phase `"sent"`, and the elements are distinct. Only `RunWorkerDone` reaps a worker, and only the head, which it removes from the channel at the same step. `WorkerDone` appends only a worker in phase `"finish"`, which is not already in the channel. TLC checked `TypeInv` and `DoneChanSent` as invariants before the proof.

**`NoDoubleCountHolds: ASSUME MaxWorkers = 1 PROVE Spec => []NoDoubleCount`.**

The hypothesis is needed: with `MaxWorkers = 2` the property is false, and the `qan_pfs_two_workers` run shows it. The inductive invariant is `TypeInv /\ AdmissionBound /\ CountInv`, where `CountInv` adds two facts to `NoDoubleCount`:

- `RowsExecuted`: every row in the digest table, and every row a truncating worker read, was executed.
- `ReportedGone`: a reported statement is no longer in the table, and no truncating worker still holds it.

`OneRegistered` says that under `AdmissionBound` with one slot, two registered workers are the same worker. So no second worker can SELECT between one worker's SELECT and its TRUNCATE. `CountStep` takes one case per action. TLC checked the invariant before the proof, on the `qan_perfschema` bounds (6,518 states) and again with two restarts and two faults (29,679 states).

## Proofs (`MrmMonitor_proofs.tla`)

The proofs hold for every value of the constants that satisfies `ClockAssumption`: a positive clock resolution `SUB` and natural bounds. The channel set is arbitrary.

The inductive invariant `IInv` is `TypeOK` together with three more facts:

- `boot <= now`;
- `lastUptimeCheck <= now`;
- a channel not yet made holds nothing.

The first two are needed because the saved uptimes are natural numbers only if the clock never runs backwards. The third is needed because `Add` must map to the notifier's `Subscribe`, which requires a channel with no notice. TLC checked `IInv` before the proof.

**`TypeCorrect: Spec => []TypeOK`.** This follows from `IInvInit` and `IInvStep`, with one step per action. `QueueReceive` bounds a channel after a receive.

**`NotifierRefinement: Spec => NotifierRefined`.** The initial state maps to the notifier's (`PendingEmpty`). `NotifierStep` maps every step under `IInv`:

- a check that reports a restart maps to `Notify`, because a send is dropped only when the channel is full, and then it already holds a notice;
- `Add` maps to `Subscribe`, and `Remove` to `Unsubscribe`;
- a receive of a channel's last notice maps to `Receive`, which uses `PendingReceive` to state the new pending map as an `EXCEPT`;
- every other step, including a receive that leaves a notice behind, is a stutter.

## Proofs (`LogRelay_proofs.tla`)

The proofs hold for every `BUFFER_SIZE` in `Nat \ {0}` and every natural bound (`BufferAssumption`, `BoundsAssumption`).

The inductive invariant `IInv` is `CtrlOK /\ BufOK`:

- `CtrlOK` holds the types of the control state, the channels and the delivered sequence, with `Len(logChan) <= LOG_CHAN_CAP` and `Len(connectChan) <= CONNECT_CHAN_CAP`.
- `BufOK` holds the types of both buffers, with sizes in `0..BUFFER_SIZE`. It adds that no slot holds the lost-count warning, so every held entry is a numbered one. It also says that the occupied slots of each buffer number at most its size.

`TypeOK` alone is not inductive. The occupied-slot bound is what shows that `resend` decrementing a size on a successful send never goes below 0. TLC checked `IInv` as an invariant of the `relay` run before the proof: 273,049 states.

The lemmas:

- `OccupiedWrite`, `OccupiedClear` and `OccupiedFresh` bound the occupied set after a write, a clear and the sliding-window reset.
- `BufferStep` proves that `buffer(e)` preserves `BufOK` in all three of its branches.
- `SendStep`, `ResendFirstStep` and `ResendSecondStep` do the same for `send(e, false)` and the two resend loops.
- `IInvStep` takes one case per action of `Next`. It uses `HeadTailProperties` and `AppendProperties` of `SequenceTheorems` for the channels.

**`TypeCorrect: Spec => []TypeOK`** follows from `IInvHolds: Spec => []IInv` and `IInvImplies`.

**`NoDuplicateDeliveryHolds: Spec => []NoDuplicateDelivery`.** `NoDuplicateDelivery` alone is not inductive, because a resend could deliver an entry that is also still on `logChan` or in another slot. `DupInv` strengthens it. Each numbered entry is in exactly one of three places: on `logChan`, in one buffer slot, or delivered.

- `ChanFresh` and `ChanDistinct`: the ids on `logChan` are below `nextEntry`, distinct, not delivered and not held.
- `BufFresh` and `BufDistinct`: each held entry is numbered, undelivered, and in one slot only.
- `DeliveredNumbered`: the delivered numbered entries are below `nextEntry`.

The lemmas follow the code:

- `ChanPush`: a new entry on `logChan`.
- `ChanPop`: an entry taken off `logChan`.
- `BufferDup`: the three branches of `buffer()`.
- `ResendFirstDup` and `ResendSecondDup`: a successful resend, which clears the slot it sent.
- `DeliverStep` and `DeliverLostWarning`: appends to `delivered`.

`DupStep` has one case per action.

**`DeliveryRefinement: Spec => DeliveryRefined`.** The mapping needs one more invariant, `AcceptInv`. By `ChanUnaccepted`, what `logChan` holds is not accepted yet. By `HeldAccepted`, what the buffers hold is. TLC checked `IInv /\ DupInv /\ AcceptInv` on the `relay` run (273,049 states). `DeliveryStep` maps every step:

- a direct send in `select` is `Send(e)` of a new entry;
- `buffer(e)` is `Store(e)`: by `BufferKeeps` the entry is held afterwards, and by `BufferDup` nothing else becomes held;
- a successful resend of a slot is `Send(e)` of a pending entry: by `ClearPending` clearing the slot removes exactly that entry from `pending`;
- a sent lost-count warning is `Warn`;
- every other step is a stutter.

**What stays with TLC.**

- The liveness properties (`WorkerEventuallyReaped`, `CollectionRestored`), because TLAPS does not handle ENABLED and fairness reasoning here.
- `NoDoubleCount` for `MaxWorkers > 1`, which is false.
- The relay's two violations.
- The two MRM violations, which are findings about the code and not theorems.

## Not modelled

- **The sysconfig and metrics monitors** (`src/unnamed/part_001`, `part_002`). These are planned next. They have a timed-out report drop and a nil `m.conn.Ping()` in `connect()`.
- **The perfschema `PrepareResult` arithmetic.** This is abstracted to "each statement counted once per report".
- **The interval iterator and clock.**
- **The installer and `main` programs, and the summary service.** These are sequential I/O.
- **The test mocks.**
- **The agent supervisor.** Only its tests are under `src/`.

## Plan for later sittings

1. Add a `SysconfigMonitor` module and a `MetricsMonitor` module (tick, connect, collect, and a spool timeout racing the aggregator), each with a run.
2. Add the `PrepareResult` delta computation as an operator, checked against a reference over bounded inputs.
3. Prove the safety invariants of the two monitors once they are modelled. Every safety invariant of a passing run is now a theorem.
4. Check the sliding window against spec test 5 (`spec.md:213`): with `BUFFER_SIZE = 2` and entries A to G sent while disconnected, the spec expects A, B, "Lost 3", F, G. The reset at `relay.go:214-221` gives A, B, "Lost 4", G.
