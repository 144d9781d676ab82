\* The DSP allocations may fail too.
CONSTANTS
    Modules <- MCModules
    Kind <- MCKind
    Failures <- MCAllFailures
SPECIFICATION Spec
CHECK_DEADLOCK FALSE
INVARIANTS
    NoDoubleFree
