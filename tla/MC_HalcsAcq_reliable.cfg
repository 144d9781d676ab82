\* Replies always arrive within the session timeout; the server rejects
\* the starts of some requests.
CONSTANTS
    BlockSize = 4
    SampleSize = 2
    Requests <- MCRequests
    Accepted <- MCAcceptedEven
    Capacities <- MCCapacities
    PollTimeouts <- MCTimeouts
    Word <- MCWord
    MaxCalls = 2
    MaxClock = 2
    MaxLate = 0
    CanInterrupt = TRUE
SPECIFICATION Spec
CHECK_DEADLOCK FALSE
INVARIANTS
    TypeOK
    
    CurveAssembled
