\* Two volumes, one device name: ending a session frees it for the other.
\* Unstaging may meet a staging that was given up.
SPECIFICATION Spec
CONSTANTS
    v1 = v1
    v2 = v2
    s1 = s1
    s2 = s2
    d1 = d1
    Nobody = Nobody
    Nothing = Nothing
    Devices = {d1}
    Volumes = {v1, v2}
    Slots = {s1, s2}
    Overlap = {"unstage"}
    Faults = {}
    MaxStack = 1
    IqnWithin = {}
SYMMETRY Symmetry
INVARIANTS FormatsNoData
