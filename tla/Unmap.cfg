SPECIFICATION MapSpec
CONSTANTS
  NVa = 2
  NDram = 1
  NDisk = 2
  Threads = {t1}
  Workers = {w1}
  Kswapd = {kswapd}
  Vals = {0, 1}
  Zero = 0
  Stale = 1
  PrefetchRate = 0
  Populate = TRUE
INVARIANTS
  MapTypeOK
  UnmapAssertsHold
  SlotsExclusive
  NoLeak
  MapDramBudget
PROPERTY
  MapTransparent
