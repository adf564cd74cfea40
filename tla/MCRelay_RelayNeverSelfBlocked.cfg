\* internal() sends on the relay's own logChan: with producers filling it,
\* Run blocks on a send only Run could drain.
CONSTANTS
    BUFFER_SIZE = 2
    MaxEntries = 5
    MaxDrops = 1
    MaxFaults = 1
    Nil = Nil
    LostWarning = LostWarning
SPECIFICATION Spec
\* The relay idles in select once producers and the websocket are quiet.
CHECK_DEADLOCK FALSE
INVARIANT
    RelayNeverSelfBlocked
