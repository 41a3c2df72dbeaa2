SPECIFICATION FairSpec
CONSTANTS
  p1 = p1
  p2 = p2
  p3 = p3
  a1 = a1
  a2 = a2
  c1 = c1
  c2 = c2
  c3 = c3
  NoConn = NoConn
  Peers = {p1}
  Ips = {a1, a2}
  Conns = {c1, c2}
  MAX_TUNNELS = 2
  MAX_TUNNELS_PER_IP = 1
PROPERTY ReachableThroughTunnel
