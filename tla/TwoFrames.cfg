SPECIFICATION Spec
CONSTANTS
  NVa = 2
  NDram = 2
  NDisk = 2
  Threads = {t1}
  Workers = {w1, w2}
  Kswapd = {kswapd}
  Vals = {0, 1}
  Zero = 0
  Stale = 1
  PrefetchRate = 0
SYMMETRY WorkerSymmetry
INVARIANTS
  SlotsExclusive
PROPERTY
  SwapTransparent
