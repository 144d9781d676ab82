\* Every fault the code meets: the session allocation fails, the server
\* rejects a default, a receive times out; an external client reads twice.
CONSTANTS
    AllocFails = TRUE
    Rejects = TRUE
    MaxLate = 1
    MaxReads = 2
SPECIFICATION Spec
\* The config thread returns and the reader stops after MaxReads reads.
CHECK_DEADLOCK FALSE
INVARIANTS
    DefaultsInOrder
