\* The uptime check against RestartDetected.
CONSTANTS
    SUB = 2
    MaxTime = 6
    MaxInitUptime = 2
    MaxRestarts = 1
    c1 = c1
    c2 = c2
    Chans <- MCChans
SPECIFICATION Spec
CHECK_DEADLOCK FALSE
INVARIANT
    RestartDetected
