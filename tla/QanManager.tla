----------------------------- MODULE QanManager -----------------------------
(***************************************************************************)
(* The query-analytics manager of qan/manager.go: its Start/Stop/Handle    *)
(* lifecycle, the run goroutine that admits intervals to a bounded pool of *)
(* workers and reaps them from workerDoneChan, slow-log rotation with the  *)
(* oldSlowLogs reference counts, re-configuration of MySQL after a restart *)
(* notification, and the worker goroutines themselves (the perfschema      *)
(* worker's SELECT and TRUNCATE of qan/perfschema/worker.go as two steps). *)
(*                                                                         *)
(* MySQL is the environment: it restarts (losing the slow-log / perfschema *)
(* settings and the digest table), its slow log grows, and statements are  *)
(* aggregated in the digest table.  Every SQL call, rename and remove can  *)
(* fail; failures are bounded by MaxFaults.                                *)
(***************************************************************************)
EXTENDS Naturals, Sequences, FiniteSets

CONSTANTS
    CollectFrom,        \* config.CollectFrom: "slowlog" or "perfschema"
    MaxWorkers,         \* config.MaxWorkers
    RemoveOldSlowLogs,  \* config.RemoveOldSlowLogs
    NumSlots,           \* bound: worker goroutines alive at once
    MaxGen,             \* bound: times the slow log grows past MaxSlowLogSize
    Stmts,              \* statements the server may aggregate (model values)
    MaxRestarts,        \* bound: MySQL restarts
    MaxFaults           \* bound: failed SQL calls, renames and removes

\* The bounds ValidateConfig enforces (manager.go:471-505); a config that
\* fails them never starts, so only valid configs are modelled.
ASSUME ConfigAssumption ==
    /\ CollectFrom \in {"slowlog", "perfschema"}
    /\ MaxWorkers \in 1..4
    /\ RemoveOldSlowLogs \in BOOLEAN

ASSUME BoundsAssumption ==
    /\ NumSlots \in Nat /\ NumSlots > MaxWorkers
    /\ MaxGen \in Nat
    /\ MaxRestarts \in Nat
    /\ MaxFaults \in Nat
    /\ IsFiniteSet(Stmts)

WORKER_DONE_CAP == 2     \* workerDoneChan: make(chan Worker, 2)
RESTART_CHAN_CAP == 5    \* mrms: make(chan bool, 5)

\* Worker goroutines, by slot: a slot is reused once its worker is reaped.
\* One slot more than MaxWorkers leaves room for a pool bound that fails.
Ids == 1..NumSlots
Gens == 0..MaxGen        \* slow-log files, by rotation generation

\* Life of a worker goroutine.  "none": not made; "run": in w.Run;
\* "truncate": perfschema worker between its SELECT and its TRUNCATE;
\* "finish": returned, blocked in the deferred send on workerDoneChan;
\* "sent": in workerDoneChan; "reaped": deleted from m.workers.
Phases == {"none", "run", "truncate", "finish", "sent", "reaped"}
Registered == {"run", "truncate", "finish", "sent"}
Free == {"none", "reaped"}

VARIABLES
    running,        \* m.running
    status,         \* the "qan" entry of m.status
    api,            \* "idle", or the caller holding m.mux inside stop():
                    \* "Stop" (Manager.Stop) or "StopService" (Handle)
    parser,         \* the run goroutine: "running" or "none"
    stopReq,        \* m.sync.Stop() issued, not yet seen by run
    mrmSubs,        \* restart channels the manager holds in the MRM
    restartChan,    \* notifications queued on m.restartChan
    collecting,     \* MySQL has config.Start applied (slow log / consumers on)
    gen,            \* generation of the current slow log file
    big,            \* current slow log has reached MaxSlowLogSize
    wphase,         \* wphase[w]: phase of worker w
    wrows,          \* wrows[w]: digest rows the perfschema worker SELECTed
    workerDoneChan, \* m.workerDoneChan
    oldSlowLogs,    \* m.oldSlowLogs; 0 means no entry for that file
    removed,        \* old slow logs unlinked by the run goroutine
    readers,        \* history: workers registered when file f was rotated
                    \* and not reaped since
    table,          \* events_statements_summary_by_digest
    executed,       \* history: statements the server has aggregated
    reported,       \* history: reported[s] = reports that counted s
    restarts,       \* MySQL restarts so far
    faults          \* failures so far

mgrVars == <<running, status, api, parser, stopReq, mrmSubs, restartChan>>
logVars == <<gen, big, oldSlowLogs, removed, readers>>
pfsVars == <<table, executed, reported>>
vars == <<mgrVars, collecting, logVars, wphase, wrows, workerDoneChan,
          pfsVars, restarts, faults>>

\* The "qan" entry of a fresh pct.Status holds the empty string.
NoStatus == "none"

\* len(m.workers): the workers registered and not yet reaped.
InMap == {w \in Ids : wphase[w] \in Registered}

\* A failure is possible while the fault budget lasts.
Fail == faults < MaxFaults /\ faults' = faults + 1

-----------------------------------------------------------------------------
Init ==
    /\ running = FALSE
    /\ status = NoStatus
    /\ api = "idle"
    /\ parser = "none"
    /\ stopReq = FALSE
    /\ mrmSubs = 0
    /\ restartChan = 0
    /\ collecting = FALSE
    /\ gen = 0
    /\ big = FALSE
    /\ wphase = [w \in Ids |-> "none"]
    /\ wrows = [w \in Ids |-> {}]
    /\ workerDoneChan = <<>>
    /\ oldSlowLogs = [f \in Gens |-> 0]
    /\ removed = {}
    /\ readers = [f \in Gens |-> {}]
    /\ table = {}
    /\ executed = {}
    /\ reported = [s \in Stmts |-> 0]
    /\ restarts = 0
    /\ faults = 0

-----------------------------------------------------------------------------
(* m.start(config) and what its caller does with the result.  "disabled": *)
(* Start() found no readable qan.conf, or Handle could not unmarshal the  *)
(* config; "conn": makeMySQLConn failed; "mrm": mrm.Add failed;           *)
(* "configure": configureMySQL failed after mrm.Add succeeded; "ok": the  *)
(* iterator and the run goroutine are started and m.running is set.       *)
StartOutcomes == {"disabled", "conn", "mrm", "configure", "ok"}

DoStart(o) ==
    /\ api = "idle"
    /\ ~running
    /\ status' = "Running"          \* deferred status update, whatever o is
    /\ \/ /\ o = "disabled"
          /\ UNCHANGED <<faults, running, parser, mrmSubs, restartChan, collecting>>
       \/ /\ o \in {"conn", "mrm"}
          /\ Fail
          /\ UNCHANGED <<running, parser, mrmSubs, restartChan, collecting>>
       \/ /\ o = "configure"
          /\ Fail
          /\ mrmSubs' = mrmSubs + 1
          /\ restartChan' = 0
          /\ UNCHANGED <<running, parser, collecting>>
       \/ /\ o = "ok"
          /\ mrmSubs' = mrmSubs + 1
          /\ restartChan' = 0
          /\ collecting' = TRUE
          /\ parser' = "running"
          /\ running' = TRUE
          /\ UNCHANGED faults
    /\ UNCHANGED <<api, stopReq, logVars, wphase, wrows, workerDoneChan,
                   pfsVars, restarts>>

\* Manager.Start: the agent starts qan from qan.conf.
Start == \E o \in StartOutcomes : DoStart(o)

\* Handle(StartService) when not running: start with the config in the cmd.
HandleStartService == \E o \in StartOutcomes : DoStart(o)

\* Handle of a cmd that leaves the manager as it is: StartService while
\* running, StopService while stopped, GetConfig, and unknown cmds.  The
\* deferred m.status.Update("qan", "Running") still runs.
HandleReply ==
    /\ api = "idle"
    /\ status' = "Running"
    /\ UNCHANGED <<running, api, parser, stopReq, mrmSubs, restartChan,
                   collecting, logVars, wphase, wrows, workerDoneChan,
                   pfsVars, restarts, faults>>

(* m.stop() up to m.sync.Wait(): the iterator is stopped, tickChan is      *)
(* removed from the clock, the restart channel from the MRM, and the run   *)
(* goroutine is asked to stop.  The caller keeps m.mux until StopEnd.      *)
StopBegin(caller) ==
    /\ api = "idle"
    /\ running
    /\ api' = caller
    /\ status' = IF caller = "Stop" THEN "Stopping" ELSE "Handling"
    /\ stopReq' = TRUE
    /\ mrmSubs' = mrmSubs - 1
    /\ UNCHANGED <<running, parser, restartChan, collecting, logVars, wphase,
                   wrows, workerDoneChan, pfsVars, restarts, faults>>

\* Manager.Stop while running.
Stop == StopBegin("Stop")

\* Handle(StopService) while running.
HandleStopService == StopBegin("StopService")

\* The rest of m.stop() once m.sync.Wait() returns: config.Stop is applied
\* (the connect or the SET may fail), then m.running is cleared.
StopEnd ==
    /\ api \in {"Stop", "StopService"}
    /\ parser = "none"
    /\ \/ collecting' = FALSE /\ UNCHANGED faults
       \/ Fail /\ UNCHANGED collecting
    /\ running' = FALSE
    /\ api' = "idle"
    /\ status' = IF api = "Stop" THEN "Stopped" ELSE "Running"
    /\ UNCHANGED <<parser, stopReq, mrmSubs, restartChan, logVars, wphase,
                   wrows, workerDoneChan, pfsVars, restarts>>

-----------------------------------------------------------------------------
(* rotateSlowLog: connect, SET config.Stop, rename the slow log, SET        *)
(* config.Start, then point the interval at the renamed file and register  *)
(* it in oldSlowLogs with len(m.workers)+1.  Outcomes name the step that   *)
(* failed; each failure returns at once.                                   *)
RotateOutcomes == {"connect", "stop", "rename", "start", "ok"}

Rotate(w, o) ==
    \/ /\ o \in {"connect", "stop"}
       /\ Fail
       /\ UNCHANGED <<collecting, logVars>>
    \/ /\ o = "rename"
       /\ Fail
       /\ collecting' = FALSE
       /\ UNCHANGED logVars
    \/ /\ o = "start"
       /\ Fail
       /\ collecting' = FALSE
       /\ gen' = gen + 1
       /\ big' = FALSE
       /\ UNCHANGED <<oldSlowLogs, removed, readers>>
    \/ /\ o = "ok"
       /\ collecting' = TRUE
       /\ gen' = gen + 1
       /\ big' = FALSE
       /\ IF RemoveOldSlowLogs
            THEN /\ oldSlowLogs' = [oldSlowLogs EXCEPT ![gen] = Cardinality(InMap) + 1]
                 /\ readers' = [readers EXCEPT ![gen] = InMap \cup {w}]
            ELSE UNCHANGED <<oldSlowLogs, readers>>
       /\ UNCHANGED <<removed, faults>>

\* Mutant: the slow log is rotated on every interval, not only past
\* MaxSlowLogSize.
MutantRotateAlways ==
    /\ parser = "running"
    /\ running /\ api = "idle"          \* the iterator is started
    /\ IF Cardinality(InMap) >= MaxWorkers
         THEN UNCHANGED <<collecting, logVars, wphase, wrows, faults>>
         ELSE /\ \E w \in Ids : wphase[w] \in Free
              /\ LET w == CHOOSE w \in Ids : wphase[w] \in Free IN
                   /\ wphase' = [wphase EXCEPT ![w] = "run"]
                   /\ wrows' = [wrows EXCEPT ![w] = {}]
                   /\ IF CollectFrom = "slowlog"
                        THEN \E o \in RotateOutcomes : Rotate(w, o)
                        ELSE UNCHANGED <<collecting, logVars, faults>>
    /\ UNCHANGED <<mgrVars, workerDoneChan, pfsVars, restarts>>

\* Mutant: the pool admits while len(m.workers) = MaxWorkers.
MutantAdmitOneMore ==
    /\ parser = "running"
    /\ running /\ api = "idle"          \* the iterator is started
    /\ IF Cardinality(InMap) > MaxWorkers
         THEN UNCHANGED <<collecting, logVars, wphase, wrows, faults>>
         ELSE /\ \E w \in Ids : wphase[w] \in Free
              /\ LET w == CHOOSE w \in Ids : wphase[w] \in Free IN
                   /\ wphase' = [wphase EXCEPT ![w] = "run"]
                   /\ wrows' = [wrows EXCEPT ![w] = {}]
                   /\ IF CollectFrom = "slowlog" /\ big
                        THEN \E o \in RotateOutcomes : Rotate(w, o)
                        ELSE UNCHANGED <<collecting, logVars, faults>>
    /\ UNCHANGED <<mgrVars, workerDoneChan, pfsVars, restarts>>

(* run: an interval arrives from the iterator.  With MaxWorkers workers    *)
(* registered it is dropped; otherwise the slow log is rotated if it is    *)
(* big, the worker is registered in m.workers and its goroutine spawned.   *)
RunInterval ==
    /\ parser = "running"
    /\ running /\ api = "idle"          \* the iterator is started
    /\ IF Cardinality(InMap) >= MaxWorkers
         THEN UNCHANGED <<collecting, logVars, wphase, wrows, faults>>
         ELSE /\ \E w \in Ids : wphase[w] \in Free
              /\ LET w == CHOOSE w \in Ids : wphase[w] \in Free IN
                   /\ wphase' = [wphase EXCEPT ![w] = "run"]
                   /\ wrows' = [wrows EXCEPT ![w] = {}]
                   /\ IF CollectFrom = "slowlog" /\ big
                        THEN \E o \in RotateOutcomes : Rotate(w, o)
                        ELSE UNCHANGED <<collecting, logVars, faults>>
    /\ UNCHANGED <<mgrVars, workerDoneChan, pfsVars, restarts>>

\* Mutant: the reaped worker is not deleted from m.workers.
MutantReapNoDelete ==
    /\ parser = "running"
    /\ workerDoneChan # <<>>
    /\ workerDoneChan' = Tail(workerDoneChan)
    /\ readers' = [f \in Gens |-> readers[f] \ {Head(workerDoneChan)}]
    /\ IF CollectFrom = "slowlog"
         THEN \E kept \in SUBSET {f \in Gens : oldSlowLogs[f] = 1} :
                /\ IF kept = {} THEN UNCHANGED faults ELSE Fail
                /\ oldSlowLogs' = [f \in Gens |->
                        IF oldSlowLogs[f] = 1 /\ f \notin kept THEN 0
                        ELSE IF oldSlowLogs[f] > 1 THEN oldSlowLogs[f] - 1
                        ELSE oldSlowLogs[f]]
                /\ removed' = removed \cup
                        {f \in Gens : oldSlowLogs[f] = 1 /\ f \notin kept}
         ELSE UNCHANGED <<oldSlowLogs, removed, faults>>
    /\ UNCHANGED <<mgrVars, wphase, collecting, gen, big, wrows, pfsVars, restarts>>

(* run: a worker is received from workerDoneChan and deleted from          *)
(* m.workers; for a slow log every oldSlowLogs entry is decremented, and   *)
(* one at 1 is unlinked (kept, at 1, when os.Remove fails).                *)
RunWorkerDone ==
    /\ parser = "running"
    /\ workerDoneChan # <<>>
    /\ workerDoneChan' = Tail(workerDoneChan)
    /\ wphase' = [wphase EXCEPT ![Head(workerDoneChan)] = "reaped"]
    /\ readers' = [f \in Gens |-> readers[f] \ {Head(workerDoneChan)}]
    /\ IF CollectFrom = "slowlog"
         THEN \E kept \in SUBSET {f \in Gens : oldSlowLogs[f] = 1} :
                /\ IF kept = {} THEN UNCHANGED faults ELSE Fail
                /\ oldSlowLogs' = [f \in Gens |->
                        IF oldSlowLogs[f] = 1 /\ f \notin kept THEN 0
                        ELSE IF oldSlowLogs[f] > 1 THEN oldSlowLogs[f] - 1
                        ELSE oldSlowLogs[f]]
                /\ removed' = removed \cup
                        {f \in Gens : oldSlowLogs[f] = 1 /\ f \notin kept}
         ELSE UNCHANGED <<oldSlowLogs, removed, faults>>
    /\ UNCHANGED <<mgrVars, collecting, gen, big, wrows, pfsVars, restarts>>

\* run: a restart notification; configureMySQL re-applies config.Start.
\* On failure run logs a warning and carries on.
RunRestart ==
    /\ parser = "running"
    /\ restartChan > 0
    /\ restartChan' = restartChan - 1
    /\ \/ collecting' = TRUE /\ UNCHANGED faults
       \/ Fail /\ UNCHANGED collecting
    /\ UNCHANGED <<running, status, api, parser, stopReq, mrmSubs, logVars,
                   wphase, wrows, workerDoneChan, pfsVars, restarts>>

\* run: the stop signal; run marks itself graceful and returns.
RunStop ==
    /\ parser = "running"
    /\ stopReq
    /\ parser' = "none"
    /\ stopReq' = FALSE
    /\ UNCHANGED <<running, status, api, mrmSubs, restartChan, collecting,
                   logVars, wphase, wrows, workerDoneChan, pfsVars,
                   restarts, faults>>

-----------------------------------------------------------------------------
\* A slow-log worker parses its interval; error or not, it then returns.
SlowLogWorkerRun(w) ==
    /\ CollectFrom = "slowlog"
    /\ wphase[w] = "run"
    /\ wphase' = [wphase EXCEPT ![w] = "finish"]
    /\ UNCHANGED <<mgrVars, collecting, logVars, wrows, workerDoneChan,
                   pfsVars, restarts, faults>>

\* perfschema Worker.Run, CollectData: SELECT the digest table.  On error
\* Run returns before TRUNCATE.
CollectData(w) ==
    /\ CollectFrom = "perfschema"
    /\ wphase[w] = "run"
    /\ \/ /\ wrows' = [wrows EXCEPT ![w] = table]
          /\ wphase' = [wphase EXCEPT ![w] = "truncate"]
          /\ UNCHANGED faults
       \/ /\ Fail
          /\ wphase' = [wphase EXCEPT ![w] = "finish"]
          /\ UNCHANGED wrows
    /\ UNCHANGED <<mgrVars, collecting, logVars, workerDoneChan,
                   pfsVars, restarts>>

\* Mutant: Run reports the rows without the TRUNCATE.
MutantNoTruncate(w) ==
    /\ wphase[w] = "truncate"
    /\ wphase' = [wphase EXCEPT ![w] = "finish"]
    /\ \/ /\ \E spooled \in BOOLEAN :
                reported' = IF spooled
                              THEN [s \in Stmts |-> IF s \in wrows[w]
                                                    THEN reported[s] + 1
                                                    ELSE reported[s]]
                              ELSE reported
          /\ UNCHANGED faults
       \/ Fail /\ UNCHANGED <<table, reported>>
    /\ UNCHANGED <<mgrVars, collecting, logVars, wrows, workerDoneChan,
                   table, executed, restarts>>

\* perfschema Worker.Run, TruncateTable, then PrepareResult; the report is
\* written to the spool unless the TRUNCATE failed or the spool timed out.
TruncateTable(w) ==
    /\ wphase[w] = "truncate"
    /\ wphase' = [wphase EXCEPT ![w] = "finish"]
    /\ \/ /\ table' = {}
          /\ \E spooled \in BOOLEAN :
                reported' = IF spooled
                              THEN [s \in Stmts |-> IF s \in wrows[w]
                                                    THEN reported[s] + 1
                                                    ELSE reported[s]]
                              ELSE reported
          /\ UNCHANGED faults
       \/ Fail /\ UNCHANGED <<table, reported>>
    /\ UNCHANGED <<mgrVars, collecting, logVars, wrows, workerDoneChan,
                   executed, restarts>>

\* Mutant: the worker delivers itself on workerDoneChan a second time.
MutantDoneTwice(w) ==
    /\ wphase[w] = "finish"
    /\ Len(workerDoneChan) < WORKER_DONE_CAP
    /\ workerDoneChan' = Append(workerDoneChan, w)
    /\ wphase' = [wphase EXCEPT ![w] = IF wphase[w] = "finish" THEN "finish" ELSE "sent"]
    /\ UNCHANGED <<mgrVars, collecting, logVars, wrows, pfsVars,
                   restarts, faults>>

\* The worker goroutine's deferred m.workerDoneChan <- w; blocks while the
\* channel is full.
WorkerDone(w) ==
    /\ wphase[w] = "finish"
    /\ Len(workerDoneChan) < WORKER_DONE_CAP
    /\ workerDoneChan' = Append(workerDoneChan, w)
    /\ wphase' = [wphase EXCEPT ![w] = "sent"]
    /\ UNCHANGED <<mgrVars, collecting, logVars, wrows, pfsVars,
                   restarts, faults>>

-----------------------------------------------------------------------------
\* MySQL restarts: global settings revert, the digest table is emptied, and
\* the MRM sends true, without blocking, on the manager's restart channel.
MySQLRestart ==
    /\ restarts < MaxRestarts
    /\ restarts' = restarts + 1
    /\ collecting' = FALSE
    /\ table' = {}
    /\ restartChan' = IF running /\ api = "idle" /\ restartChan < RESTART_CHAN_CAP
                        THEN restartChan + 1 ELSE restartChan
    /\ UNCHANGED <<running, status, api, parser, stopReq, mrmSubs, logVars,
                   wphase, wrows, workerDoneChan, executed, reported,
                   faults>>

\* MySQL writes the slow log until it passes MaxSlowLogSize.
SlowLogGrows ==
    /\ CollectFrom = "slowlog"
    /\ collecting
    /\ ~big
    /\ gen < MaxGen
    /\ big' = TRUE
    /\ UNCHANGED <<mgrVars, collecting, gen, oldSlowLogs, removed, readers,
                   wphase, wrows, workerDoneChan, pfsVars, restarts,
                   faults>>

\* MySQL aggregates statement s in the digest table.
ExecStatement(s) ==
    /\ CollectFrom = "perfschema"
    /\ collecting
    /\ s \notin executed
    /\ table' = table \cup {s}
    /\ executed' = executed \cup {s}
    /\ UNCHANGED <<mgrVars, collecting, logVars, wphase, wrows,
                   workerDoneChan, reported, restarts, faults>>

-----------------------------------------------------------------------------
Manager ==
    \/ Start \/ HandleStartService \/ HandleReply
    \/ Stop \/ HandleStopService \/ StopEnd

Run == RunInterval \/ RunWorkerDone \/ RunRestart \/ RunStop

Workers ==
    \E w \in Ids : SlowLogWorkerRun(w) \/ CollectData(w) \/ TruncateTable(w)
                   \/ WorkerDone(w)

MySQL == MySQLRestart \/ SlowLogGrows \/ \E s \in Stmts : ExecStatement(s)

Next == Manager \/ Run \/ Workers \/ MySQL

(* Goroutines are preemptively scheduled and a select picks among its     *)
(* ready cases at random, so every step of the run goroutine, of a worker  *)
(* goroutine and of a stop in progress is weakly fair.  The clock ticks    *)
(* every config.Interval while qan runs, so intervals keep arriving.       *)
(* Commands and MySQL are the environment and need not happen.             *)
Fairness ==
    /\ WF_vars(StopEnd) /\ WF_vars(RunInterval)
    /\ WF_vars(RunWorkerDone) /\ WF_vars(RunRestart) /\ WF_vars(RunStop)
    /\ \A w \in Ids : /\ WF_vars(SlowLogWorkerRun(w))
                      /\ WF_vars(CollectData(w))
                      /\ WF_vars(TruncateTable(w))
                      /\ WF_vars(WorkerDone(w))

Spec == Init /\ [][Next]_vars /\ Fairness

-----------------------------------------------------------------------------
TypeOK ==
    /\ running \in BOOLEAN
    /\ status \in {NoStatus, "Running", "Stopping", "Stopped", "Handling"}
    /\ api \in {"idle", "Stop", "StopService"}
    /\ parser \in {"running", "none"}
    /\ stopReq \in BOOLEAN
    /\ mrmSubs \in Nat
    /\ restartChan \in 0..RESTART_CHAN_CAP
    /\ collecting \in BOOLEAN
    /\ gen \in Gens
    /\ big \in BOOLEAN
    /\ wphase \in [Ids -> Phases]
    /\ wrows \in [Ids -> SUBSET Stmts]
    /\ workerDoneChan \in Seq(Ids)
    /\ Len(workerDoneChan) <= WORKER_DONE_CAP
    /\ oldSlowLogs \in [Gens -> Nat]
    /\ removed \subseteq Gens
    /\ readers \in [Gens -> SUBSET Ids]
    /\ table \subseteq Stmts
    /\ executed \subseteq Stmts
    /\ reported \in [Stmts -> Nat]
    /\ restarts \in 0..MaxRestarts
    /\ faults \in 0..MaxFaults

(* The worker pool bound of qan/manager.go:282: at no time are more than  *)
(* MaxWorkers workers registered in m.workers, across stops and restarts  *)
(* of the manager that leave old workers running.                         *)
AdmissionBound == Cardinality(InMap) <= MaxWorkers

(* Every worker waiting in workerDoneChan is still registered in          *)
(* m.workers, so the run goroutine's m.workers[worker] (manager.go:353)   *)
(* never yields a nil interval to dereference at manager.go:357, even     *)
(* when the worker is reaped by a later run goroutine after a restart.    *)
DoneWorkerRegistered ==
    \A k \in 1..Len(workerDoneChan) : wphase[workerDoneChan[k]] \in Registered

(* perfschema: no aggregated statement is counted in two reports, however *)
(* the SELECT and TRUNCATE of concurrent workers (worker.go:96-105)       *)
(* interleave.                                                            *)
NoDoubleCount == \A s \in Stmts : reported[s] <= 1

(* The spec (4.F): an old slow log "becomes deletable once every active   *)
(* worker has completed": when the run goroutine unlinks it, no worker    *)
(* that was registered at its rotation, nor the worker made for the       *)
(* rotated interval, is still running (manager.go:364-377, 462-465).      *)
OldLogRemovedAfterReaders ==
    \A f \in removed : \A w \in readers[f] : wphase[w] \notin {"run", "truncate"}

(* The manager holds a restart subscription in the MRM only while it      *)
(* runs; a failed start must not leave one behind (manager.go:528-537).   *)
SubscriptionOwned == mrmSubs > 0 => running

(* Every registered worker is eventually reaped by the run goroutine,     *)
(* unless the manager stops (manager.go:321-328, 348-355).                *)
WorkerEventuallyReaped ==
    \A w \in Ids : (wphase[w] \in Registered) ~> (wphase[w] = "reaped" \/ ~running)

(* The spec (4.F): after MySQL loses the slow-log / perfschema settings   *)
(* while qan runs, a failed re-configuration is retried ("next tick will *)
(* retry"), so collection is eventually on again unless qan stops.        *)
CollectionRestored == (running /\ ~collecting) ~> (collecting \/ ~running)

=============================================================================
