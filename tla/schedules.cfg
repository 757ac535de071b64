\* Two Instances with two schedules each and names that do not collide.
SPECIFICATION FairSpec
CONSTANTS
    Instances <- TwoInstances
    Schedules <- TwoSchedules
    StartModes = {"on"}
    MaxEdits = 3
    MaxFaults = 1
    MaxEvents = 3
INVARIANTS
    TypeOK
PROPERTIES
    OthersUntouched
    EnabledSchedulesRun
    RemovedSchedulesStop
\* The last Instance may be deleted for good.
CHECK_DEADLOCK FALSE
