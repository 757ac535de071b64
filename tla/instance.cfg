\* Five specs; two edits, or one and a disturbance.
SPECIFICATION FairSpec
CONSTANTS
    NotSet <- Absent
    Specs <- FiveSpecs
    MaxEdits = 2
    MaxFaults = 1
    MaxEvents = 2
INVARIANTS
    TypeOK
    NoLostWakeup
    NoLostEdit
PROPERTIES
    ValidSpecIsServed
    MonitorFollows
