SPECIFICATION FairSpec
CONSTANTS
    u1 = u1
    u2 = u2
    Null = Null
    Torn = Torn
    Devices = {}
    Uuids = {u1}
    FreshIds = {}
    JobIds <- Jobs1
    MaxAttempts = 3
    Undecodable <- NoneUndecodable
    Faults = {"crash"}
    Requests = {r1}
    Workers = {w1}
    Collectors = {}
PROPERTY StartedIsSettled
