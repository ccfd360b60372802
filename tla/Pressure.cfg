SPECIFICATION Spec
CONSTANTS
  NVa = 3
  NDram = 2
  NDisk = 3
  Threads = {t1}
  Workers = {w1}
  Kswapd = {}
  Vals = {0}
  Zero = 0
  Stale = 0
  PrefetchRate = 2

  
PROPERTY
  PagingImplementsFlow
