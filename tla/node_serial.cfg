\* One volume; a call that is given up may still be running.
SPECIFICATION CalmSpec
CONSTANTS
    v1 = v1
    s1 = s1
    s2 = s2
    d1 = d1
    Nobody = Nobody
    Nothing = Nothing
    Devices = {d1}
    Volumes = {v1}
    Slots = {s1, s2}
    Overlap = {}
    Faults = {"reboot"}
    MaxStack = 2
    IqnWithin = {}
PROPERTIES PublishConverges
INVARIANTS StagedIsMounted PublishedIsVolume NoDataLost NothingLeft SessionHeld
