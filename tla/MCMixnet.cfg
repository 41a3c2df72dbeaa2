SPECIFICATION Spec
CONSTANTS
    e = e
    p = p
    h = h
    x = x
    d1 = d1
    r1 = r1
    MAX_HOPS = 5
    Relays = {e, p, h, x}
    Point <- HostedPoint
    Packets = {d1, r1}
    Route <- MCRoute
    Replies = {r1}
    INBOUND_QUEUE = 1
    Faults = {"lose", "resend", "limit", "tunnel"}
    MaxCrashes = 2
    Crashing = {p, h}
INVARIANTS
    ExitReads
    NothingCarriedOver
    AtMostOnce
    NoneVanishes
CHECK_DEADLOCK FALSE
