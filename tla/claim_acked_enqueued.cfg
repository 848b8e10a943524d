SPECIFICATION Spec
CONSTANTS
    u1 = u1
    u2 = u2
    Null = Null
    Torn = Torn
    Devices = {d1}
    Uuids = {u1}
    FreshIds = {}
    JobIds <- Jobs1
    MaxAttempts = 1
    Undecodable <- NoneUndecodable
    Faults = {"abort"}
    Requests = {r1, r2}
    Workers = {w1}
    Collectors = {}
INVARIANT AckedIsEnqueued
