\* Every step of swap_init may fail; the DSP allocations succeed.
CONSTANTS
    Modules <- MCModules
    Kind <- MCKind
    Failures <- MCSwapFailures
SPECIFICATION Spec
\* Every instance ends shut down or dropped: the lifecycle stops there.
CHECK_DEADLOCK FALSE
INVARIANTS
    LifecycleConsistent
