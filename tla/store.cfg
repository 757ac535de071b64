\* Two Instances that create, edit and delete; what holds for any number of
\* them is proved.
SPECIFICATION FairSpec
CONSTANTS
    Instances = {i1, i2}
    Retentions = {keep, window}
    Invalid = invalid
    Nobody = nobody
    MaxEdits = 4
    MaxFaults = 1
INVARIANTS
    TypeOK
    AcceptedAgree
PROPERTIES
    RefusedOnlyWithoutStore
    AsIfAtOnce
    AgreementIsServed
\* Nobody has to edit anything any more and no Instance need exist.
CHECK_DEADLOCK FALSE
