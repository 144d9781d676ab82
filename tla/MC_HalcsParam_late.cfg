\* A receive may time out before its reply comes; both builds.
CONSTANTS
    Fields <- MCFields
    Args <- MCArgs
    GainArgs <- MCGainArgs
    GainHalf <- MCGainHalf
    Reset <- MCReset
    Uninit <- MCUninit
    MaxCalls = 3
    MaxLate = 1
    AllocFails = TRUE
    Builds = {FALSE, TRUE}
SPECIFICATION Spec
CHECK_DEADLOCK FALSE
PROPERTIES
    CallReturns
