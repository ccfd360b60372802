SPECIFICATION FairPrSpec
CONSTANTS
  NVa = 3
  NDram = 1
  NDisk = 3
  Threads = {t1, pf}
  Prefetchers = {pf}
  Workers = {w1}
  Kswapd = {}
  Vals = {0}
  Zero = 0
  Stale = 0
  PrefetchRate = 1
  Populate = TRUE
  Block = 1
  Behind = 1
  Ahead = 4
  MinVma = 3
  MapRanges <- LastPage
INVARIANTS
  MapOwnership
  
  
  PrMigratingHasMover

  
