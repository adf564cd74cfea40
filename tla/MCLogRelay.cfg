\* Relay with BUFFER_SIZE = 2: firstBuf, secondBuf and an overflowing window
\* are all reached with 5 entries; one lost connection and one write timeout.
CONSTANTS
    BUFFER_SIZE = 2
    MaxEntries = 5
    MaxDrops = 1
    MaxFaults = 1
    Nil = Nil
    LostWarning = LostWarning
SPECIFICATION Spec
\* The relay idles in select once producers and the websocket are quiet.
CHECK_DEADLOCK FALSE
INVARIANTS
    TypeOK
    NoDuplicateDelivery
PROPERTIES
    DeliveryRefined
