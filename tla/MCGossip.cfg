SPECIFICATION Spec
CONSTANTS
    n1 = n1  n2 = n2
    a1 = a1  a2 = a2  a3 = a3
    Nodes <- TwoNodes
    Authorities <- MCAuthorities
    Threshold = 2
    Configs <- MCConfigs
    Bootstrap <- MCBootstrap
    Offset <- MCOffset
    Caps <- MCCaps
    Beacon <- MCBeacon
    DAY = 2
    STALE_AFTER = 1
    MAX_AGE = 2
    CLOCK_SKEW = 1
    FANOUT = 1
    MAX_ENTRIES = 1
    Interval = 2
    MaxLag = 1
    MaxStarts = 3
    MaxNow = 3
INVARIANTS
    RosterSound
    SilentForgotten
    
    NoRollback
PROPERTY ForwardOnly
CHECK_DEADLOCK FALSE
