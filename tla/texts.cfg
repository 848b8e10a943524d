SPECIFICATION InputSpec
CONSTANTS
    oops = oops
    warning = warning
    f1 = f1
    f2 = f2
    die = die
    m1 = m1
    o1 = o1
    o2 = o2
    None = None
    Names = {f1, f2, die}
    Machinery = {die}
    Modules = {m1}
    Markers = {oops, warning}
    Offsets = {o1, o2}
    SIGNATURE_FRAMES = 2
    Lines <- SomeLines
    MaxLines = 7
    k1 = k1
    k2 = k2
    id = id
    Absent = Absent
    Fields <- SomeFields
    Headers <- SomeHeaders
    MaxFields = 4
    FORMAT_VERSION = 1
    MAX_METADATA_SIZE = 3
    MAX_PAYLOAD_SIZE = 2
    MAX_DECODED_SIZE = 4
\* An input ends after MaxLines lines or MaxFields fields.
CHECK_DEADLOCK FALSE
INVARIANTS
    
    StableAcrossBuilds
    SignatureWithoutSymbols
    LastSectionWins
    OneCrashOnly
    ConformingAdmitted
    
