SPECIFICATION FairSpec
CONSTANTS
    snap = snap
    rel = rel
    s1 = s1
    s2 = s2
    r1 = r1
    own = own
    Null = Null
    Trees = {snap}
    Snapshots = {snap}
    Builds = {s1, s2}
    SelfBuilt = {}
    TreeOf <- BuildTree
    WithModule = {s1, s2}
    Fetchers = {f1}
    Collectors = {f1}
    PoolFaults = {}
    Served = {}
 
PROPERTIES
    UnusedSnapshotGoes
    DanglingLinkGoes
