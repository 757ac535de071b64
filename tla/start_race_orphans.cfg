\* A backup that starts between the read and the delete leaves its base backup.
SPECIFICATION Spec
CONSTANTS
    MaxRuns = 2
    MaxUids = 1
    MaxFaults = 0
PROPERTY DeleteLeavesNothing
CHECK_DEADLOCK FALSE
