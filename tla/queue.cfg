SPECIFICATION FairSpec
CONSTANTS
    u1 = u1
    u2 = u2
    Null = Null
    Torn = Torn
    Devices = {}
    Uuids = {u1, u2}
    FreshIds = {}
    JobIds <- Jobs2
    MaxAttempts = 2
    Undecodable <- UndecodableU2
    Faults = {"abort", "crash", "error", "lost"}
    Requests = {r1}
    Workers = {w1, w2}
    Collectors = {}
INVARIANTS
    ClaimExclusive
    AttemptBudget
PROPERTIES
    PendingSettles
    ImplementsQueue
