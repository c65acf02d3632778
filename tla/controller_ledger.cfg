\* One claim, a spare volume, and requests that end inside a gibibyte.
SPECIFICATION Spec
CONSTANTS
    c1 = c1
    v1 = v1
    v2 = v2
    None = None
    Claims = {c1}
    Volumes = {v1, v2}
    GiB = 2
    Sizes = {1, 4, 7}
    Faults = {}
    MaxLate = 0
INVARIANTS TypeOK OneVolumePerClaim CapacityBacked NoVolumeLeftBehind
PROPERTIES NeverShrinks KeepsTheLedger
CHECK_DEADLOCK FALSE
