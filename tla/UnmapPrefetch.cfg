SPECIFICATION MapSpec
CONSTANTS
  NVa = 2
  NDram = 1
  NDisk = 2
  Threads = {t1, t2}
  Workers = {}
  Kswapd = {}
  Vals = {0}
  Zero = 0
  Stale = 0
  PrefetchRate = 1
  Populate = FALSE
INVARIANTS BackingIsRemoved
