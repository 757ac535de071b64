\* The image is listed by hand first, the toggle enabled afterwards.
SPECIFICATION Spec
CONSTANTS
    Offered = {"age"}
    Extras = {"age"}
    Versions <- OneMinor
    Restores = {FALSE}
    MaxEdits = 2
    MaxFaults = 0
INVARIANTS
    CreationOnlyEnforced
