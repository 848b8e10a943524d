SPECIFICATION FairSpec
CONSTANTS
    k1 = k1
    own = own
    anonymous = anonymous
    Null = Null
    Keys = {k1, k2}
    Users = {dev}
    Nonces = {n1, n2}
    Secrets = {s1, s2}
    Logins = {l1, l2}
    MaxTime = 2
    Reports = {}
    OwnerOf <- NoReports
    Slugs = {}
    Changes = {}
    NONCE_TTL = 2
    TOKEN_TTL = 1
    SESSION_TTL = 1
INVARIANTS
    VisibilityTypeOK
    TokenPerNonce
PROPERTIES
    LateLoginRefused
    LiveNonceKept
    LiveTicketKept
    ExpiredTicketGoes
