SPECIFICATION FairSpec
CONSTANTS
  a = a  b = b  c = c
  m1 = m1  m2 = m2  t1 = t1  s1 = s1
  Ids = {m1, m2}
  Envs <- MCEnvs
  Size <- MCSize
  To <- MCTo
  Policy <- Tight
  SurbTasks = {t1}
  Sessions = {s1}
  FetchBudget = 2
  SurbBudget = 1
  MaxRounds = 2
  MaxFetchBytes = 3
  Bounds <- MCBounds
INVARIANTS
    StoreConsistent
    InOrder
PROPERTIES
    DeliveryKept
    Reclaimed
