SPECIFICATION Spec
CONSTANTS
  NVa = 2
  NDram = 1
  NDisk = 2
  Threads = {t1, t2}
  Workers = {w1}
  Kswapd = {kswapd}
  Vals = {0, 1}
  Zero = 0
  Stale = 1
  PrefetchRate = 1
SYMMETRY ThreadSymmetry
INVARIANTS
  TypeOK
  Ownership
  QueuesMatch
  SlotsExclusive
  DramBudget
  ReserveIsCurrent
  MigratingHasMover
  
PROPERTY
  SwapTransparent
