\* Both editions, a toggle whose image users may also list themselves, with and
\* without a restore; edits and one disturbance, then quiet.
SPECIFICATION FairSpec
CONSTANTS
    Offered = {"timescaledb", "timescaledbCommunity", "postgis"}
    Extras = {"postgis"}
    Versions <- TwoMinors
    Restores = {TRUE, FALSE}
    MaxEdits = 2
    MaxFaults = 1
INVARIANTS
    TypeOK
    CreatedIsMounted
    CreationOnlyEnforced
PROPERTIES
    NeverDropped
    ReadyMeansInstalled
    AcceptedIsInstalled
