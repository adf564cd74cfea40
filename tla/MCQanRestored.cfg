\* perfschema collection, so no rotation can turn collection off: a MySQL
\* restart while qan runs reverts the settings, and the one re-configuration
\* run tries on the restart notification fails.
CONSTANTS
    CollectFrom = "perfschema"
    MaxWorkers = 1
    RemoveOldSlowLogs = FALSE
    NumSlots = 2
    MaxGen = 0
    s1 = s1
    s2 = s2
    Stmts <- MCStmts
    MaxRestarts = 1
    MaxFaults = 1
SPECIFICATION Spec
PROPERTY CollectionRestored
