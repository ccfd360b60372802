SPECIFICATION Spec
CONSTANTS
  NVa = 2
  NDram = 1
  NDisk = 2
  Threads = {t1, t2}
  Workers = {w1}
  Kswapd = {kswapd}
  Vals = {0}
  Zero = 0
  Stale = 0
  PrefetchRate = 0
INVARIANTS
  EvictsOnlySwappedIn
