SPECIFICATION Spec
CONSTANTS
    None = None
    a1 = a1
    a2 = a2
    a3 = a3
    p = p
    h = h
    x = x
    MAX_RELAYS_PER_48 = 1
    MAX_RELAYS_PER_24 = 2
    MAX_RELAYS_PER_16 = 2
    MAX_RELAYS_PER_OPERATOR = 2
    Authorities = {a1, a2, a3}
    Relays = {p, h, x}
    Profile <- ContendingProfile
    Rank <- ContendingRank
    STALE_AFTER = 2
    CACHE_TTL = 2
    BUCKET = 3
    CLOCK_SKEW = 1
    Threshold = 2
    Bounds <- MCBounds
VIEW View
INVARIANTS
    NewestWins
    ServedFresh
    ListSound
    QuorumKept
CHECK_DEADLOCK FALSE
