

CONSTANTS
    CollectFrom = "perfschema"
    MaxWorkers = 2
    RemoveOldSlowLogs = FALSE
    NumSlots = 3
    MaxGen = 0
    s1 = s1
    s2 = s2
    Stmts <- MCStmts
    MaxRestarts = 1
    MaxFaults = 1
SPECIFICATION Spec
SYMMETRY StmtSymmetry
INVARIANTS
    NoDoubleCount
