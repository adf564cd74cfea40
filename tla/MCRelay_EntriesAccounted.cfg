\* buffer() writes at firstBufSize; after a resend that sent slot 0 and failed
\* on slot 1 it overwrites the entry still held in slot 1.
CONSTANTS
    BUFFER_SIZE = 2
    MaxEntries = 5
    MaxDrops = 1
    MaxFaults = 1
    Nil = Nil
    LostWarning = LostWarning
SPECIFICATION Spec
\* The relay idles in select once producers and the websocket are quiet.
CHECK_DEADLOCK FALSE
INVARIANT
    EntriesAccounted
