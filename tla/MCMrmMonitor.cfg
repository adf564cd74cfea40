\* The restart monitor's subscriber fan-out against the abstract notifier.
CONSTANTS
    SUB = 2
    MaxTime = 6
    MaxInitUptime = 2
    MaxRestarts = 1
    c1 = c1
    c2 = c2
    Chans <- MCChans
SPECIFICATION Spec
\* Only the clock bound MaxTime stops a behaviour.
CHECK_DEADLOCK FALSE
PROPERTIES
    NotifierRefined
