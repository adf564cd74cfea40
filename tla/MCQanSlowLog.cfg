\* slowlog collection, two workers, old slow logs removed: the pool bound,
\* the workerDoneChan hand-over across stop/start, and liveness of reaping.
CONSTANTS
    CollectFrom = "slowlog"
    MaxWorkers = 2
    RemoveOldSlowLogs = TRUE
    NumSlots = 3
    MaxGen = 1
    s1 = s1
    s2 = s2
    Stmts <- MCStmts
    MaxRestarts = 1
    MaxFaults = 1
SPECIFICATION Spec
INVARIANTS
    TypeOK
    AdmissionBound
    DoneWorkerRegistered
PROPERTIES
    WorkerEventuallyReaped
