\* perfschema collection with a single worker: SELECT and TRUNCATE of one
\* worker never interleave with another's, across stops and restarts.
CONSTANTS
    CollectFrom = "perfschema"
    MaxWorkers = 1
    RemoveOldSlowLogs = FALSE
    NumSlots = 3
    MaxGen = 0
    s1 = s1
    s2 = s2
    Stmts <- MCStmts
    MaxRestarts = 1
    MaxFaults = 1
SPECIFICATION Spec
SYMMETRY StmtSymmetry
INVARIANTS
    NoDoubleCount
