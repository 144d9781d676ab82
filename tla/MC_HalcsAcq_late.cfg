CONSTANTS
    BlockSize = 4
    SampleSize = 2
    Requests <- MCRequests
    Accepted <- MCAcceptedEven
    Capacities <- MCCapacities
    PollTimeouts <- MCTimeouts
    Word <- MCWord
    MaxCalls = 2
    MaxClock = 2
    MaxLate = 1
    CanInterrupt = TRUE
SPECIFICATION Spec
CHECK_DEADLOCK FALSE
INVARIANTS
    NoBufferOverrun
