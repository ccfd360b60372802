SPECIFICATION FairSpec
CONSTANTS
  NFrames = 4
  High = 2
  Low = 1
  Cluster = 2
  MaxPriority = 2
  Tries = 1
  Threads = {t1}
  MaxBatch = 2
  Workers = {w1}
  Vector = 2
INVARIANTS
  TypeOK
  ShrinkageFlagSound
PROPERTY
  ReclaimImplementsFlow
  FramesKeepComing
  KswapdWakes
