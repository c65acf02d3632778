\* One volume; staging may overlap with unstaging, and files may be torn.
SPECIFICATION HandlersFairSpec
CONSTANTS
    v1 = v1
    s1 = s1
    s2 = s2
    d1 = d1
    Nobody = Nobody
    Nothing = Nothing
    Devices = {d1}
    Volumes = {v1}
    Slots = {s1, s2}
    Overlap = {"unstage"}
    Faults = {"torn"}
    MaxStack = 1
    IqnWithin = {}
INVARIANTS NeverAlreadyMounted StagesAlone
PROPERTIES CallsReturn
