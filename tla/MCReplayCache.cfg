SPECIFICATION FairSpec
CONSTANTS
  k1 = k1
  k2 = k2
  Keys <- MCKeys
  Sub = 2
  TTL = 1
  Sizes <- MCSizes
  MaxNow = 4
  MayCrash = TRUE
  IoMayFail = TRUE
INVARIANTS
    Consistent
    Remembered
    FileAccounts
PROPERTY EventuallySaved
