\* Two base backups under the source's name, one edit, one disturbance.
SPECIFICATION FairSpec
CONSTANTS
    MaxBackups = 2
    MaxEdits = 1
    MaxFaults = 1
INVARIANTS
    TypeOK
    RecoversCompleted
    DoneMeansRecovered
PROPERTIES
    RestoreEnds
    EditsArrive
    FailureIsReported
