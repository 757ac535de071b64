\* Two schedules of different Instances share the name shop-eu-daily.
SPECIFICATION FairSpec
CONSTANTS
    Instances <- NestedInstances
    Schedules <- NestedSchedules
    StartModes = {"on"}
    MaxEdits = 0
    MaxFaults = 0
    MaxEvents = 0
PROPERTIES
    EnabledSchedulesRun
