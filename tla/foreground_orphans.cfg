\* Foreground deletion leaves the base backup behind.
SPECIFICATION Spec
CONSTANTS
    MaxRuns = 2
    MaxUids = 1
    MaxFaults = 0
INVARIANT DeletionAlwaysHonoured
CHECK_DEADLOCK FALSE
