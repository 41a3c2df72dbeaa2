SPECIFICATION FairSpec
CONSTANTS
  m1 = m1
  m2 = m2
  m3 = m3
  k1 = k1
  k2 = k2
  k3 = k3
  s = s
  r = r
  h = h
  Keys = {k1, k2, k3}
  Pinned = k1
  Validity = 1
  MaxTransitions = 64
  Ids <- MCIds
  Envs = {m1, m2, m3}
  Size <- MCSize
  Policy <- MCPolicy
  Sender = s
  Recipient = r
  Host = h
  Loops = {1, 2}
  Ttl <- MCTtl
  OldBuild = {m2}
  EpochSecs = 3
  MaxPayload = 3
  MaxTransit = 1
  FirstNow = 5
  Bounds <- MCBounds
CHECK_DEADLOCK FALSE
INVARIANTS
    
    ReceivedInTime
    CoverLoopExact
PROPERTIES
    RotationRespected
    QueueAnswered
