\* AGE enabled on an Instance with a data source.
SPECIFICATION Spec
CONSTANTS
    Offered = {"age"}
    Extras = {}
    Versions <- OneMinor
    Restores = {TRUE}
    MaxEdits = 0
    MaxFaults = 0
INVARIANTS
    BootstrapSqlRan
