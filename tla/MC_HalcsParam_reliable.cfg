\* Every reply comes within the session timeout; zmsg_new may fail.
CONSTANTS
    Fields <- MCFields
    Args <- MCArgs
    GainArgs <- MCGainArgs
    GainHalf <- MCGainHalf
    Reset <- MCReset
    Uninit <- MCUninit
    MaxCalls = 3
    MaxLate = 0
    AllocFails = TRUE
    Builds = {FALSE}
SPECIFICATION Spec
CHECK_DEADLOCK FALSE
INVARIANTS
    TypeOK
PROPERTIES
    RegisterSpec
