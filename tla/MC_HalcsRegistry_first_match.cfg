\* Every registry of up to 3 tables of up to 2 distinct names.
CONSTANTS
    Names <- MCNames
    NULL = NULL
    MaxTables = 3
    MaxOps = 2
SPECIFICATION Spec
INVARIANTS
    TranslateFirstMatch
