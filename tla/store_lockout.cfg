SPECIFICATION Spec
CONSTANTS
    Instances = {i1, i2, i3}
    Retentions = {keep, window}
    Invalid = invalid
    Nobody = nobody
    MaxEdits = 4
    MaxFaults = 1
SYMMETRY InstanceSymmetry
PROPERTIES OthersKeepReconciling
\* Nobody has to edit anything any more and no Instance need exist.
CHECK_DEADLOCK FALSE
