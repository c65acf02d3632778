\* A claim, a spare volume, and a label lookup that may fail.
SPECIFICATION Spec
CONSTANTS
    c1 = c1
    v1 = v1
    v2 = v2
    None = None
    Claims = {c1}
    Volumes = {v1, v2}
    GiB = 2
    Sizes = {1}
    Faults = {"lookup"}
    MaxLate = 0
INVARIANTS OneVolumePerClaim
CHECK_DEADLOCK FALSE
