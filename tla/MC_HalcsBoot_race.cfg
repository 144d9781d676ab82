\* The session is allocated and every receive gets its reply.
CONSTANTS
    AllocFails = FALSE
    Rejects = FALSE
    MaxLate = 0
    MaxReads = 1
SPECIFICATION Spec
CHECK_DEADLOCK FALSE
INVARIANTS
    ReadsSeeDefaults
