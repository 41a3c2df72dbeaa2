SPECIFICATION FairSpec
CONSTANTS
  None = None
  p = p
  h = h
  a1 = a1
  a2 = a2
  u1 = u1
  u2 = u2
  Relays = {p, h}
  Authorities = {a1, a2}
  Addrs = {"x1", "x2", "x3"}
  Private = "private"
  Slots <- MCSlots
  MaxRequests = 1
  MaxQuerierKeys = 2
  QUORUM = 2
  Bounds <- MCBounds
CHECK_DEADLOCK FALSE
INVARIANTS
  
  PermitsConserved
  ListedAsServed
  
PROPERTIES
  SoundListed
  SelfCheckSettles
