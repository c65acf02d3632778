\* One volume, one call at a time.
SPECIFICATION CalmSpec
CONSTANTS
    v1 = v1
    s1 = s1
    d1 = d1
    Nobody = Nobody
    Nothing = Nothing
    Devices = {d1}
    Volumes = {v1}
    Slots = {s1}
    Overlap = {}
    Faults = {}
    MaxStack = 1
    IqnWithin = {}
PROPERTIES UnstageConverges
