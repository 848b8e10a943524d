SPECIFICATION Spec
CONSTANTS
    snap = snap
    rel = rel
    s1 = s1
    s2 = s2
    r1 = r1
    own = own
    Null = Null
    Trees = {snap, rel}
    Snapshots = {snap}
    Builds = {s1, s2, r1, own}
    SelfBuilt = {own}
    TreeOf <- BuildTree
    WithModule = {}
    Fetchers = {f1}
    Collectors = {f1}
    PoolFaults = {"crash", "error", "lost"}
    Served <- Kernel
SYMMETRY Symmetry
INVARIANTS
    SymbolsTypeOK
    ReleaseServedRight
    KernelLocationsRight
PROPERTY ReleasePinned
