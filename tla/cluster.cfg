\* Two nodes, one volume, one handler on each node.
SPECIFICATION FairSpec
CONSTANTS
    v1 = v1
    s1 = s1
    d1 = d1
    Nobody = Nobody
    Nothing = Nothing
    Devices = {d1}
    MultiNode = FALSE
    Volumes = {v1}
    Slots = {s1}
    Overlap = {}
    Faults = {"reboot"}
    MaxStack = 2
    IqnWithin = {}
INVARIANTS UsedWhereAttached DataFollows NeverShared
PROPERTIES Moves UsesOneAtATime
