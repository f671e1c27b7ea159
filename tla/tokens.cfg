SPECIFICATION FairSpec
CONSTANTS
    Names = {n1}
    Callers = {c1, c2}
    Ips = {i1, i2}
    INVITE_TTL = 1
    Lifetimes = {1, 2}
    Forever = 2
    CACHE_TTL = 2
    REDEEM_WINDOW = 1
    REDEEM_PER_IP_MAX = 1
    REDEEM_GLOBAL_MAX = 1
    REDEEM_PRUNE_AT = 1
    MaxInvites = 2
    MaxLag = 1
INVARIANTS
    NameHeldOnce
    FailuresBounded
PROPERTIES
    RevocationTakesEffect
CHECK_DEADLOCK FALSE
