SPECIFICATION Spec
CONSTANTS
    k1 = k1
    own = own
    anonymous = anonymous
    Null = Null
    Keys = {k1}
    Users = {dev}
    Nonces = {n1}
    Secrets = {s1, s2}
    Logins = {l1}
    MaxTime = 1
    Reports = {own, anonymous}
    OwnerOf <- Owners
    Slugs = {g1, g2}
    Changes = {c1, c2}
    NONCE_TTL = 1
    TOKEN_TTL = 1
    SESSION_TTL = 1
SYMMETRY Symmetry
INVARIANT LinksLeadHome
 
