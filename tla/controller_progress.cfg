\* One claim and a service that can hold one volume: a retry has to find it.
SPECIFICATION HandlersFairSpec
CONSTANTS
    c1 = c1
    v1 = v1
    None = None
    Claims = {c1}
    Volumes = {v1}
    GiB = 2
    Sizes = {1, 4, 7}
    Faults = {"lookup", "late"}
    MaxLate = 1
CHECK_DEADLOCK FALSE
PROPERTIES CallsReturn ClaimGetsBound ExpansionConverges ReleaseConverges
