SPECIFICATION Spec
CONSTANTS
    u1 = u1
    u2 = u2
    Null = Null
    Torn = Torn
    Devices = {d1, d2}
    Uuids = {u1}
    FreshIds = {f1}
    JobIds <- Jobs2
    MaxAttempts = 1
    Undecodable <- NoneUndecodable
    Faults = {"abort"}
    Requests = {r1, r2}
    Workers = {w1}
    Collectors = {w1}
SYMMETRY Symmetry
INVARIANTS
    OneJobPerReport
    AckedIsStored
    SignedUploadsDeduplicated
