SPECIFICATION PartSpec
CONSTANTS
  s1 = s1  s2 = s2  s3 = s3
  p1 = p1  p2 = p2  p3 = p3  t1 = t1  t2 = t2
  Sources = {s1, s2, s3}
  Sub = 2
  MaxPps = 2
  SourcePps = 1
  MaxBytes = 2
  Wire = 1
  QuotaWindow = 2
  MaxEntries = 2
  MaxNow = 4
  Peers = {p1, p2, p3}
  Tasks = {t1, t2}
  max_size = 2
  MaxConns = 4
  MaxPackets = 6
  NOISE_CHUNK = 4
  MAX_FRAME = 10
  ReadCap = 9
  HeaderLen = 4
  Blobs = {0, 1, 4, 8, 9, 10}
  MaxBlobs = 3
SYMMETRY Symmetry
INVARIANTS
    
    
    PoolSound
    BlobsWhole
CHECK_DEADLOCK FALSE
