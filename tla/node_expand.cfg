\* Two volumes that may get each other's device name, one handler given up.
SPECIFICATION FairSpec
CONSTANTS
    v1 = v1
    v2 = v2
    d1 = d1
    s1 = s1
    s2 = s2
    Nothing = Nothing
    Volumes = {v1, v2}
    Devices = {d1}
    Slots = {s1, s2}
    MaxSize = 2
INVARIANTS ToldIsUsable
PROPERTIES ExpansionUsed
