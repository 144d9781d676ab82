CONSTANTS
    Values <- MCValues
    MaxArgs = 3
    Word <- MCWord
    MaxNumSamples <- MCMaxNumSamples
    SampleSize <- MCSampleSize
    Failures = TRUE
SPECIFICATION Spec
\* main ends: return 0, exit (1), or the crash.
CHECK_DEADLOCK FALSE
INVARIANTS
    CleanupReleases
