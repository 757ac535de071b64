\* Two records under one name, one disturbance, both ways of
\* cascading, fair controllers.  MaxRuns does not bind.
SPECIFICATION FairSpec
CONSTANTS
    MaxRuns = 6
    MaxUids = 2
    MaxFaults = 1
INVARIANTS
    TypeOK
    DataRemovedFirst
    RetainKeepsData
    DeletionHonoured
    UnavailableIsFinal
PROPERTIES
    KeepsPromise
    IsASource
    DeletionCompletes
    BackupSettles
\* Once the last record is gone nothing is left to do.
CHECK_DEADLOCK FALSE
