\* Two claims, lookups that fail and requests executed late.
SPECIFICATION Spec
CONSTANTS
    c1 = c1
    c2 = c2
    v1 = v1
    v2 = v2
    v3 = v3
    None = None
    Claims = {c1, c2}
    Volumes = {v1, v2, v3}
    GiB = 2
    Sizes = {1, 3}
    Faults = {"lookup", "late"}
    MaxLate = 2
SYMMETRY Symmetry
INVARIANTS BoundVolumeReady
CHECK_DEADLOCK FALSE
