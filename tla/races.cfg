SPECIFICATION PagesSpec
CONSTANTS
    u1 = u1
    u2 = u2
    Null = Null
    Torn = Torn
    Devices = {d1}
    Uuids = {u1}
    FreshIds = {}
    JobIds <- Jobs1
    MaxAttempts = 2
    Undecodable <- NoneUndecodable
    Faults = {"abort", "crash", "error", "lost"}
    Requests = {r1, r2}
    Workers = {w1, w2}
    Collectors = {w1}
SYMMETRY Symmetry
INVARIANTS
    TypeOK
    
    JobAndReportAgree
    
PROPERTIES
    RawDropJustified
    ImplementsLife
