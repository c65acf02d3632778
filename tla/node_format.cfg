\* Two volumes, the mkfs of one of which hangs, and retries of either.
SPECIFICATION FairSpec
CONSTANTS
    v1 = v1
    v2 = v2
    s1 = s1
    s2 = s2
    s3 = s3
    d1 = d1
    d2 = d2
    Nobody = Nobody
    Devices = {d1, d2}
    Overlap = FALSE
    Volumes = {v1, v2}
    Slots = {s1, s2, s3}
    Hung = {v1}
INVARIANTS FormatsBlank OneFormatAtATime
PROPERTIES OthersReturn
