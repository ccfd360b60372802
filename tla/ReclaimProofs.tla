----------------------------- MODULE ReclaimProofs -----------------------------
(***************************************************************************)
(* Proofs about ReclaimControl.  The counters of the module are counters   *)
(* of frames: there is an assignment of the frames to the lists, workers   *)
(* and threads that gives every counter its value.  So no counter can pass *)
(* the number of frames, whatever the scans decide.  With sums of the      *)
(* counters instead, the frames move as in FrameFlow.                      *)
(***************************************************************************)
EXTENDS ReclaimControl, TotalProofs

-----------------------------------------------------------------------------
(* Where the executors are.                                                 *)

ScanPcs == {"direct", "shrink_inactive", "begin_active", "shrink_active"}

ThreadPcs == {"idle", "call", "fetch", "take", "evict", "map"} \cup ScanPcs

KswapdPcs == {"check", "lock", "wait", "run", "count", "stop"} \cup ScanPcs

ControlInv ==
    /\ pc \in [Scanners -> ThreadPcs \cup KswapdPcs]
    /\ \A t \in Threads : pc[t] \in ThreadPcs
    /\ pc[kswapd] \in KswapdPcs
    /\ kswapd_running \in BOOLEAN /\ shrinkage_running \in BOOLEAN
    /\ failed \in {"none", "Out of memory"}
    /\ ShrinkageFlagSound

\* Nobody scans at first.
LEMMA InitControl == Init => ControlInv
  BY ReclaimAssumption
     DEF Init, ControlInv, Scanners, ScanPcs, ThreadPcs, KswapdPcs, ShrinkageFlagSound

\* Where a step takes its executor.
LEMMA Steps ==
    ASSUME ControlInv, NEW e \in Scanners, NEW l \in ThreadPcs \cup KswapdPcs, Goto(e, l),
           e \in Threads => l \in ThreadPcs, e = kswapd => l \in KswapdPcs
    PROVE  /\ pc' \in [Scanners -> ThreadPcs \cup KswapdPcs]
           /\ \A t \in Threads : pc'[t] \in ThreadPcs
           /\ pc'[kswapd] \in KswapdPcs
           /\ pc'[e] = l /\ \A f \in Scanners \ {e} : pc'[f] = pc[f]
  BY ReclaimAssumption DEF ControlInv, Goto, Scanners

\* The flag is not set, or its scan is not the one that moves.
LEMMA FlagStays ==
    ASSUME ControlInv, NEW e \in Scanners, \A f \in Scanners \ {e} : pc'[f] = pc[f],
           pc[e] \notin {"shrink_inactive", "shrink_active"},
           shrinkage_running' = shrinkage_running
    PROVE  ShrinkageFlagSound'
  BY DEF ControlInv, ShrinkageFlagSound

\* A step of a scan keeps the control part.
LEMMA ScanControl ==
    ASSUME ControlInv, NEW e \in Scanners, ScanStep(e)
    PROVE  ControlInv'
<1> USE DEF At
<1>0. /\ ScanPcs \subseteq ThreadPcs /\ ScanPcs \subseteq KswapdPcs
      /\ {"direct", "shrink_inactive", "begin_active", "shrink_active"} = ScanPcs
      /\ "take" \in ThreadPcs /\ "stop" \in KswapdPcs
      /\ e \in Threads \/ e = kswapd
  BY DEF ScanPcs, ThreadPcs, KswapdPcs, Scanners
<1>1. CASE ScanLoop(e)
  <2>1. /\ Goto(e, "shrink_inactive") /\ shrinkage_running' = TRUE
        /\ UNCHANGED <<kswapd_running, failed>>
    BY <1>1 DEF ScanLoop
  <2> QED  BY <1>0, <2>1, Steps DEF ControlInv, ShrinkageFlagSound
<1>2. CASE ScanReturn(e)
  <2>1. PICK l : l = IF e = kswapd THEN "stop" ELSE "take"
    OBVIOUS
  <2>2. /\ Goto(e, l) /\ pc[e] = "direct" /\ UNCHANGED <<flags, failed>>
    BY <1>2, <2>1 DEF ScanReturn
  <2>3. l \in ThreadPcs \cup KswapdPcs /\ (e \in Threads => l \in ThreadPcs)
        /\ (e = kswapd => l \in KswapdPcs)
    BY <1>0, <2>1, ReclaimAssumption
  <2> QED  BY <2>2, <2>3, Steps, FlagStays DEF ControlInv, flags
<1>3. CASE ShrinkInactiveCold(e) \/ ShrinkInactiveHot(e) \/ ShrinkActive(e)
  BY <1>3 DEF ShrinkInactiveCold, ShrinkInactiveHot, ShrinkActive, flags, ControlInv,
              ShrinkageFlagSound
<1>4. CASE ShrinkInactiveDone(e)
  <2>1. PICK l \in {"begin_active", "direct"} :
          Goto(e, l) /\ shrinkage_running' = FALSE /\ UNCHANGED <<kswapd_running, failed>>
    BY <1>4 DEF ShrinkInactiveDone
  <2> QED  BY <1>0, <2>1, Steps DEF ControlInv, ShrinkageFlagSound
<1>5. CASE ShrinkActiveBegin(e)
  <2>1. /\ Goto(e, "shrink_active") /\ shrinkage_running' = TRUE
        /\ UNCHANGED <<kswapd_running, failed>>
    BY <1>5 DEF ShrinkActiveBegin
  <2> QED  BY <1>0, <2>1, Steps DEF ControlInv, ShrinkageFlagSound
<1>6. CASE ShrinkActiveDone(e)
  <2>1. /\ Goto(e, "direct") /\ shrinkage_running' = FALSE
        /\ UNCHANGED <<kswapd_running, failed>>
    BY <1>6 DEF ShrinkActiveDone
  <2> QED  BY <1>0, <2>1, Steps DEF ControlInv, ShrinkageFlagSound
<1> QED  BY <1>1, <1>2, <1>3, <1>4, <1>5, <1>6 DEF ScanStep

\* A step of fetch_free_asynch and its callers keeps the control part.
LEMMA ThreadControl ==
    ASSUME ControlInv, NEW t \in Threads,
           \/ \E n \in 1 .. MaxBatch : Fault(t, n)
           \/ WakeKswapd(t) \/ FetchFree(t) \/ FetchReclaim(t) \/ FetchEvict(t)
           \/ FetchEvicted(t) \/ FetchRetry(t) \/ MapPage(t)
    PROVE  ControlInv'
<1> USE DEF At
<1>0. /\ t \in Scanners /\ kswapd \in Scanners /\ t # kswapd
      /\ pc[t] \in {"idle", "call", "fetch", "take", "evict", "map"}
      /\ pc[t] \notin {"shrink_inactive", "shrink_active"}
      /\ {"idle", "call", "fetch", "take", "evict", "map", "direct"} \subseteq ThreadPcs
  BY ReclaimAssumption DEF Scanners, ThreadPcs, ScanPcs, Fault, WakeKswapd, FetchFree,
     FetchReclaim, FetchEvict, FetchEvicted, FetchRetry, MapPage
<1>1. CASE WakeKswapd(t)
  <2>1. PICK k \in {pc[kswapd], "run"} : /\ pc' = [pc EXCEPT ![t] = "fetch", ![kswapd] = k]
                                         /\ pc[kswapd] # "wait" => k = pc[kswapd]
    BY <1>1, <1>0 DEF WakeKswapd, ControlInv
  <2>2. /\ pc' \in [Scanners -> ThreadPcs \cup KswapdPcs] /\ pc'[t] = "fetch"
        /\ pc'[kswapd] = k /\ k \in KswapdPcs
        /\ \A f \in Scanners \ {t, kswapd} : pc'[f] = pc[f]
    BY <1>0, <2>1 DEF ControlInv, KswapdPcs
  <2>3. \A u \in Threads : pc'[u] \in ThreadPcs
    <3>1. ASSUME NEW u \in Threads \ {t} PROVE pc'[u] = pc[u]
      BY <2>2, ReclaimAssumption DEF Scanners
    <3>2. "fetch" \in ThreadPcs
      BY DEF ThreadPcs
    <3> QED  BY <2>2, <3>1, <3>2 DEF ControlInv
  <2>4. ShrinkageFlagSound'
    BY <1>0, <1>1, <2>1, <2>2 DEF ControlInv, ShrinkageFlagSound, WakeKswapd, flags
  <2> QED  BY <1>1, <2>2, <2>3, <2>4 DEF ControlInv, WakeKswapd, flags
<1>2. CASE FetchRetry(t) /\ pc' = pc
  BY <1>2 DEF FetchRetry, ControlInv, flags, ShrinkageFlagSound
<1>3. CASE ~WakeKswapd(t) /\ ~(FetchRetry(t) /\ pc' = pc)
  <2>1. PICK l \in {"idle", "call", "fetch", "take", "evict", "map", "direct"} :
          Goto(t, l) /\ UNCHANGED <<flags, failed>>
    BY <1>3 DEF Fault, FetchFree, FetchReclaim, FetchEvict, FetchEvicted, FetchRetry,
                MapPage, GotFrame
  <2> QED  BY <1>0, <2>1, Steps, FlagStays DEF ControlInv, flags
<1> QED  BY <1>1, <1>2, <1>3

\* A step of lrudisk_synchkswapd keeps the control part.
LEMMA KswapdControl ==
    ASSUME ControlInv, KswapdCheck \/ KswapdWait \/ KswapdRun \/ KswapdCount \/ KswapdStop
    PROVE  ControlInv'
<1> USE DEF At
<1>0. /\ kswapd \in Scanners /\ kswapd \notin Threads
      /\ pc[kswapd] \notin {"shrink_inactive", "shrink_active"}
      /\ {"check", "lock", "wait", "run", "count", "stop", "direct"} \subseteq KswapdPcs
  BY ReclaimAssumption DEF Scanners, KswapdPcs, ScanPcs, KswapdCheck, KswapdWait, KswapdRun,
     KswapdCount, KswapdStop
<1>1. PICK l \in {"check", "lock", "wait", "run", "count", "stop", "direct"} :
        Goto(kswapd, l)
  BY DEF KswapdCheck, KswapdWait, KswapdRun, KswapdCount, KswapdStop
<1>2. kswapd_running' \in BOOLEAN /\ UNCHANGED <<shrinkage_running, failed>>
  BY DEF KswapdCheck, KswapdWait, KswapdRun, KswapdCount, KswapdStop, flags, ControlInv
<1> QED  BY <1>0, <1>1, <1>2, Steps, FlagStays DEF ControlInv

\* Every step keeps the control part.
LEMMA NextControl == ControlInv /\ [Next]_vars => ControlInv'
<1> SUFFICES ASSUME ControlInv, [Next]_vars PROVE ControlInv'
  OBVIOUS
<1>1. ASSUME NEW t \in Threads, ThreadStep(t) \/ \E n \in 1 .. MaxBatch : Fault(t, n)
      PROVE  ControlInv'
  BY <1>1, ThreadControl, ScanControl DEF ThreadStep, Scanners
<1>2. CASE KswapdStep
  BY <1>2, KswapdControl, ScanControl DEF KswapdStep, Scanners
<1>3. CASE \/ \E w \in Workers : WorkerStep(w) 
           \/ Access \/ Aborted \/ UNCHANGED vars
  <2>1. UNCHANGED <<pc, flags, failed>>
    BY <1>3 DEF WorkerStep, WorkerTake, WorkerFree, Access, Aborted, vars
  <2> QED  BY <2>1 DEF ControlInv, flags, ShrinkageFlagSound
<1> QED  BY <1>1, <1>2, <1>3 DEF Next

\* The flag that keeps other threads from reclaiming, written without a lock by
\* every scan, is set only while a scan runs: for any number of threads and any
\* lengths of the lists, reclaim is never switched off for good.
THEOREM ShrinkageFlagSoundHolds == Spec => []ShrinkageFlagSound
<1>1. ControlInv => ShrinkageFlagSound
  BY DEF ControlInv
<1> QED  BY <1>1, InitControl, NextControl, PTL DEF Spec

-----------------------------------------------------------------------------
(* The locals of a search and of a scan.                                    *)

\* Between two faults a thread holds no frame; while it searches it has fewer
\* than it needs, and while it reclaims it can lower its priority.
SearchOK(t) ==
    /\ search[t] \in SearchLocals
    /\ pc[t] = "idle" => search[t].have = 0
    /\ pc[t] \in ThreadPcs \ {"idle", "map"} => search[t].have < search[t].need
    /\ pc[t] = "map" => 0 < search[t].have
    /\ pc[t] \in {"fetch"} \cup ScanPcs => search[t].priority > 0

ScanFields == {"want", "to_scan_active", "to_scan_inactive", "nr_scanned_active",
               "nr_scanned_inactive", "reclaimed", "nr_pages", "ret", "tries"}

\* A shrink function is called for at most a cluster and bounds its tries.
ScanOK(s) == /\ s = [f \in ScanFields |-> s[f]]
             /\ s.nr_pages \in 0 .. Cluster
             /\ s.tries \in 0 .. (Cluster * Tries)

ScansOK == /\ scan = [e \in Scanners |-> scan[e]]
           /\ \A e \in Scanners : ScanOK(scan[e])

LocalInv == /\ search \in [Threads -> SearchLocals]
            /\ \A t \in Threads : SearchOK(t)
            /\ ScansOK

\* Nobody searches or scans at first.
LEMMA InitLocal == Init => LocalInv
<1> SUFFICES ASSUME Init PROVE LocalInv
  OBVIOUS
<1>1. /\ pc = [e \in Scanners |-> IF e = kswapd THEN "check" ELSE "idle"]
      /\ search = [t \in Threads |-> NoSearch] /\ scan = [e \in Scanners |-> NoScan]
  BY DEF Init
<1>2. NoSearch \in SearchLocals /\ NoSearch.have = 0
  BY ReclaimAssumption DEF NoSearch, SearchLocals
<1>3. ASSUME NEW t \in Threads PROVE SearchOK(t)
  <2>1. pc[t] = "idle" /\ search[t] = NoSearch
    BY <1>1, ReclaimAssumption DEF Scanners
  <2> QED  BY <1>2, <2>1 DEF SearchOK, ScanPcs
<1>4. ScanOK(NoScan)
  BY ReclaimAssumption DEF ScanOK, NoScan, ScanFields
<1> QED  BY <1>1, <1>2, <1>3, <1>4 DEF LocalInv, ScansOK

\* The step is one of t, and leaves the scans alone.
LEMMA SearchMoves ==
    ASSUME LocalInv, NEW t \in Threads, NEW s \in SearchLocals,
           search' = [search EXCEPT ![t] = s], ScansOK',
           \A u \in Threads \ {t} : pc'[u] = pc[u],
           pc'[t] = "idle" => s.have = 0,
           pc'[t] \in ThreadPcs \ {"idle", "map"} => s.have < s.need,
           pc'[t] = "map" => 0 < s.have,
           pc'[t] \in {"fetch"} \cup ScanPcs => s.priority > 0
    PROVE  LocalInv'
<1>1. search' \in [Threads -> SearchLocals] /\ search'[t] = s
      /\ \A u \in Threads \ {t} : search'[u] = search[u]
  BY DEF LocalInv
<1>2. SearchOK(t)'
  BY <1>1 DEF SearchOK
<1>3. ASSUME NEW u \in Threads \ {t} PROVE SearchOK(u)'
  BY <1>1 DEF SearchOK, LocalInv
<1> QED  BY <1>1, <1>2, <1>3 DEF LocalInv

\* A scan whose locals are still in order.
LEMMA ScanMoves ==
    ASSUME ScansOK, NEW e \in Scanners, NEW s, ScanOK(s), scan' = [scan EXCEPT ![e] = s]
    PROVE  ScansOK'
<1>1. /\ scan' = [f \in Scanners |-> scan'[f]] /\ scan'[e] = s
      /\ \A f \in Scanners \ {e} : scan'[f] = scan[f]
  BY DEF ScansOK
<1>2. \A f \in Scanners : ScanOK(scan'[f])
  BY <1>1 DEF ScansOK
<1> QED  BY <1>1, <1>2 DEF ScansOK

\* A cluster of at most that many pages.
LEMMA ClusterBound ==
    ASSUME NEW n \in Nat
    PROVE  AtMost(Cluster, n) \in 0 .. Cluster
  BY ReclaimAssumption DEF AtMost

\* Fewer tries than that are within the bound of TypeOK.
LEMMA TriesBound ==
    ASSUME NEW n \in 0 .. Cluster
    PROVE  n * Tries \in Nat /\ n * Tries <= Cluster * Tries /\ Cluster * Tries \in Nat
<1>1. n \in Nat /\ Cluster \in Nat /\ Tries \in Nat /\ n <= Cluster
  BY ReclaimAssumption
<1>2. PICK m \in Nat : Cluster = n + m
  <2>1. Cluster - n \in Nat /\ Cluster = n + (Cluster - n)
    BY <1>1
  <2> QED  BY <2>1
<1>3. Cluster * Tries = n * Tries + m * Tries /\ n * Tries \in Nat /\ m * Tries \in Nat
  BY <1>1, <1>2
<1> QED  BY <1>3

\* A scan begins.
LEMMA BeginScanOK ==
    ASSUME ScansOK, NEW e \in Scanners, NEW want, NEW priority, BeginScan(e, want, priority)
    PROVE  ScansOK'
<1>1. PICK a, i : scan' = [scan EXCEPT ![e] = [NoScan EXCEPT !.want = want,
                                                 !.to_scan_active = a, !.to_scan_inactive = i]]
  BY DEF BeginScan
<1>2. PICK s : s = [NoScan EXCEPT !.want = want, !.to_scan_active = a, !.to_scan_inactive = i]
  OBVIOUS
<1>3. ScanOK(s)
  <2>1. 0 \in 0 .. Cluster /\ 0 \in 0 .. (Cluster * Tries)
    BY TriesBound, ReclaimAssumption
  <2> QED  BY <1>2, <2>1 DEF ScanOK, NoScan, ScanFields
<1> QED  BY <1>1, <1>2, <1>3, ScanMoves

\* Every step of a scan keeps the locals of the scan in order.
LEMMA ScanLocals ==
    ASSUME ScansOK, NEW e \in Scanners, ScanStep(e), active \in Nat, inactive \in Nat
    PROVE  ScansOK'
<1>0. ScanOK(scan[e]) /\ scan = [f \in Scanners |-> scan[f]]
  BY DEF ScansOK
<1>s. PICK s : s = scan[e]
  OBVIOUS
<1>z. 0 \in 0 .. Cluster /\ 0 \in 0 .. (Cluster * Tries) /\ Cluster * Tries \in Nat
  BY TriesBound, ReclaimAssumption
<1>1. CASE ScanLoop(e)
  <2>1. PICK d : d = [s EXCEPT !.nr_pages = AtMost(Cluster, inactive), !.ret = 0, !.tries = 0]
    OBVIOUS
  <2>2. scan' = [scan EXCEPT ![e] = d]
    BY <1>0, <1>1, <1>s, <2>1 DEF ScanLoop
  <2>3. ScanOK(d)
    BY <1>0, <1>s, <1>z, <2>1, ClusterBound DEF ScanOK, ScanFields
  <2> QED  BY <2>2, <2>3, ScanMoves
<1>2. CASE ScanReturn(e)
  <2>1. ScanOK(NoScan) /\ scan' = [scan EXCEPT ![e] = NoScan]
    BY <1>2, <1>z DEF ScanOK, NoScan, ScanFields, ScanReturn
  <2> QED  BY <2>1, ScanMoves
<1>3. CASE ShrinkInactiveCold(e) \/ ShrinkActive(e)
  <2>1. PICK d : d = [s EXCEPT !.ret = @ + 1, !.tries = @ + 1]
    OBVIOUS
  <2>2. scan' = [scan EXCEPT ![e] = d]
    BY <1>0, <1>3, <1>s, <2>1 DEF ShrinkInactiveCold, ShrinkActive
  <2>3. s.tries < s.nr_pages * Tries
    BY <1>3, <1>s DEF ShrinkInactiveCold, ShrinkActive, ShrinkMore
  <2>4. s.nr_pages * Tries <= Cluster * Tries /\ s.nr_pages * Tries \in Nat
    BY <1>0, <1>s, TriesBound DEF ScanOK
  <2>5. ScanOK(d)
    <3>1. s.tries \in Nat /\ s.tries + 1 \in 0 .. (Cluster * Tries)
      BY <1>0, <1>s, <1>z, <2>3, <2>4 DEF ScanOK
    <3>2. /\ d = [f \in ScanFields |-> d[f]] /\ d.nr_pages = s.nr_pages
          /\ d.tries = s.tries + 1
      BY <1>0, <1>s, <2>1 DEF ScanOK, ScanFields
    <3> QED  BY <1>0, <1>s, <3>1, <3>2 DEF ScanOK
  <2> QED  BY <2>2, <2>5, ScanMoves
<1>4. CASE ShrinkInactiveHot(e)
  <2>1. PICK d : d = [s EXCEPT !.tries = @ + 1]
    OBVIOUS
  <2>2. scan' = [scan EXCEPT ![e] = d]
    BY <1>0, <1>4, <1>s, <2>1 DEF ShrinkInactiveHot
  <2>3. s.tries < s.nr_pages * Tries
    BY <1>4, <1>s DEF ShrinkInactiveHot, ShrinkMore
  <2>4. s.nr_pages * Tries <= Cluster * Tries /\ s.nr_pages * Tries \in Nat
    BY <1>0, <1>s, TriesBound DEF ScanOK
  <2>5. ScanOK(d)
    BY <1>0, <1>s, <1>z, <2>1, <2>3, <2>4 DEF ScanOK, ScanFields
  <2> QED  BY <2>2, <2>5, ScanMoves
<1>5. CASE ShrinkInactiveDone(e)
  <2>1. PICK d : d = [s EXCEPT !.reclaimed = @ + s.ret, !.nr_scanned_inactive = @ + Cluster,
                               !.nr_pages = 0, !.ret = 0, !.tries = 0]
    OBVIOUS
  <2>2. scan' = [scan EXCEPT ![e] = d]
    BY <1>0, <1>5, <1>s, <2>1 DEF ShrinkInactiveDone
  <2>3. ScanOK(d)
    BY <1>0, <1>s, <1>z, <2>1 DEF ScanOK, ScanFields
  <2> QED  BY <2>2, <2>3, ScanMoves
<1>6. CASE ShrinkActiveBegin(e)
  <2>1. PICK d : d = [s EXCEPT !.nr_pages = AtMost(Cluster, active)]
    OBVIOUS
  <2>2. scan' = [scan EXCEPT ![e] = d]
    BY <1>0, <1>6, <1>s, <2>1 DEF ShrinkActiveBegin
  <2>4. ScanOK(d)
    BY <1>0, <1>s, <2>1, ClusterBound DEF ScanOK, ScanFields
  <2> QED  BY <2>2, <2>4, ScanMoves
<1>7. CASE ShrinkActiveDone(e)
  <2>1. PICK d : d = [s EXCEPT !.nr_scanned_active = @ + Cluster, !.nr_pages = 0, !.ret = 0,
                               !.tries = 0]
    OBVIOUS
  <2>2. scan' = [scan EXCEPT ![e] = d]
    BY <1>0, <1>7, <1>s, <2>1 DEF ShrinkActiveDone
  <2>3. ScanOK(d)
    BY <1>0, <1>s, <1>z, <2>1 DEF ScanOK, ScanFields
  <2> QED  BY <2>2, <2>3, ScanMoves
<1> QED  BY <1>1, <1>2, <1>3, <1>4, <1>5, <1>6, <1>7 DEF ScanStep

\* A step that leaves the searches alone, and moves e only between places where
\* the same is known of its search.
LEMMA SearchStays ==
    ASSUME LocalInv, UNCHANGED search, ScansOK', NEW e \in Scanners,
           \A u \in Threads \ {e} : pc'[u] = pc[u],
           e \in Threads => /\ pc[e] \in ThreadPcs \ {"idle", "map"}
                            /\ pc'[e] \in ThreadPcs \ {"idle", "map"}
                            /\ pc'[e] \in {"fetch"} \cup ScanPcs => search[e].priority > 0
    PROVE  LocalInv'
<1>1. search \in [Threads -> SearchLocals] /\ \A u \in Threads : SearchOK(u)
  BY DEF LocalInv
<1>2. ASSUME NEW u \in Threads PROVE SearchOK(u)'
  <2>1. CASE u = e
    BY <1>1, <2>1 DEF SearchOK
  <2>2. CASE u # e
    BY <1>1, <2>2 DEF SearchOK
  <2> QED  BY <2>1, <2>2
<1> QED  BY <1>1, <1>2 DEF LocalInv

\* Where an executor goes.
LEMMA GoesTo ==
    ASSUME ControlInv, NEW e \in Scanners, NEW l, Goto(e, l)
    PROVE  pc'[e] = l /\ \A f \in Scanners \ {e} : pc'[f] = pc[f]
  BY DEF ControlInv, Goto

\* The locals in a step of a scan: only its return touches the search.
LEMMA ScanLocal ==
    ASSUME ControlInv, LocalInv, NEW e \in Scanners, ScanStep(e), active \in Nat,
           inactive \in Nat
    PROVE  LocalInv'
<1> USE DEF At
<1>0. ScansOK'
  BY ScanLocals DEF LocalInv
<1>1. CASE ScanReturn(e) /\ e \in Threads
  <2>1. e # kswapd /\ pc[e] = "direct" /\ Goto(e, "take")
        /\ search' = [search EXCEPT ![e].priority = @ - 1]
    BY <1>1, ReclaimAssumption DEF ScanReturn
  <2>2. /\ search[e] \in SearchLocals /\ search[e].have < search[e].need
        /\ search[e].priority > 0 /\ search \in [Threads -> SearchLocals]
    BY <1>1, <2>1 DEF LocalInv, SearchOK, ThreadPcs, ScanPcs
  <2>3. PICK s : s = [search[e] EXCEPT !.priority = @ - 1]
    OBVIOUS
  <2>4. s \in SearchLocals /\ s.have < s.need
    BY <2>2, <2>3, ReclaimAssumption DEF SearchLocals
  <2>5. search' = [search EXCEPT ![e] = s]
    BY <2>1, <2>3
  <2>6. pc'[e] = "take" /\ \A u \in Threads \ {e} : pc'[u] = pc[u]
    BY <2>1, GoesTo DEF Scanners
  <2> QED  BY <1>0, <1>1, <2>4, <2>5, <2>6, SearchMoves DEF ScanPcs
<1>2. CASE ~(ScanReturn(e) /\ e \in Threads)
  <2>1. UNCHANGED search
    BY <1>2 DEF ScanStep, ScanLoop, ScanReturn, ShrinkInactiveCold, ShrinkInactiveHot,
       ShrinkInactiveDone, ShrinkActiveBegin, ShrinkActive, ShrinkActiveDone, Scanners
  <2>2. \A u \in Threads \ {e} : pc'[u] = pc[u]
    BY GoesTo DEF ScanStep, ScanLoop, ScanReturn, ShrinkInactiveCold, ShrinkInactiveHot,
       ShrinkInactiveDone, ShrinkActiveBegin, ShrinkActive, ShrinkActiveDone, Scanners
  <2>3. e \in Threads => pc[e] \in ScanPcs /\ pc'[e] \in ScanPcs
    BY <1>2, GoesTo DEF ScanStep, ScanLoop, ScanReturn, ShrinkInactiveCold, ShrinkInactiveHot,
       ShrinkInactiveDone, ShrinkActiveBegin, ShrinkActive, ShrinkActiveDone, ScanPcs
  <2>4. ScanPcs \subseteq ThreadPcs \ {"idle", "map"}
    BY DEF ScanPcs, ThreadPcs
  <2>5. e \in Threads => search[e].priority > 0
    BY <2>3 DEF LocalInv, SearchOK
  <2> QED  BY <1>0, <2>1, <2>2, <2>3, <2>4, <2>5, SearchStays
<1> QED  BY <1>1, <1>2

\* The locals in a step of fetch_free_asynch and its callers.
LEMMA ThreadLocal ==
    ASSUME ControlInv, LocalInv, NEW t \in Threads,
           \/ \E n \in 1 .. MaxBatch : Fault(t, n)
           \/ WakeKswapd(t) \/ FetchFree(t) \/ FetchReclaim(t) \/ FetchEvict(t)
           \/ FetchEvicted(t) \/ FetchRetry(t) \/ MapPage(t)
    PROVE  LocalInv'
<1> USE DEF At
<1>0. /\ t \in Scanners /\ kswapd \in Scanners /\ t # kswapd /\ ScansOK
      /\ search[t] \in SearchLocals /\ search \in [Threads -> SearchLocals]
      /\ SearchOK(t)
  BY ReclaimAssumption DEF LocalInv, Scanners
<1>1. UNCHANGED scan => ScansOK'
  BY <1>0 DEF ScansOK
<1>2. ASSUME NEW n \in 1 .. MaxBatch, Fault(t, n) PROVE LocalInv'
  <2>1. PICK s : s = [NoSearch EXCEPT !.need = n]
    OBVIOUS
  <2>2. s \in SearchLocals /\ s.have < s.need
    BY <2>1, ReclaimAssumption DEF NoSearch, SearchLocals
  <2>3. search' = [search EXCEPT ![t] = s] /\ Goto(t, "call") /\ UNCHANGED scan
    BY <1>2, <2>1 DEF Fault
  <2>4. pc'[t] = "call" /\ \A u \in Threads \ {t} : pc'[u] = pc[u]
    BY <1>0, <2>3, GoesTo DEF Scanners
  <2> QED  BY <1>1, <2>2, <2>3, <2>4, SearchMoves DEF ScanPcs
<1>3. CASE WakeKswapd(t)
  <2>1. PICK s : s = [search[t] EXCEPT !.priority = MaxPriority]
    OBVIOUS
  <2>2. /\ pc[t] = "call" /\ UNCHANGED scan
        /\ search' = [search EXCEPT ![t].priority = MaxPriority]
    BY <1>3 DEF WakeKswapd
  <2>3. search[t].have < search[t].need
    BY <1>0, <2>2 DEF SearchOK, ThreadPcs
  <2>4. s \in SearchLocals /\ s.have < s.need /\ s.priority > 0
    BY <1>0, <2>1, <2>3, ReclaimAssumption DEF SearchLocals
  <2>5. search' = [search EXCEPT ![t] = s]
    BY <1>0, <2>1, <2>2
  <2>6. pc'[t] = "fetch" /\ \A u \in Threads \ {t} : pc'[u] = pc[u]
    <3>1. PICK k : pc' = [pc EXCEPT ![t] = "fetch", ![kswapd] = k]
      BY <1>3 DEF WakeKswapd
    <3> QED  BY <1>0, <3>1, ReclaimAssumption DEF ControlInv, Scanners
  <2> QED  BY <1>1, <2>2, <2>4, <2>5, <2>6, SearchMoves
<1>4. CASE FetchFree(t) \/ FetchEvicted(t)
  <2>1. PICK s : s = [search[t] EXCEPT !.have = @ + 1]
    OBVIOUS
  <2>2. PICK l : l = IF search[t].have + 1 = search[t].need THEN "map" ELSE "call"
    OBVIOUS
  <2>3. /\ pc[t] \in {"fetch", "evict"} /\ UNCHANGED scan /\ Goto(t, l)
        /\ search' = [search EXCEPT ![t].have = @ + 1]
    BY <1>4, <2>2 DEF FetchFree, FetchEvicted, GotFrame
  <2>4. search[t].have < search[t].need
    BY <1>0, <2>3 DEF SearchOK, ThreadPcs
  <2>5. /\ s \in SearchLocals /\ s.have = search[t].have + 1 /\ s.need = search[t].need
        /\ search[t].have \in Nat /\ search[t].need \in Nat
    BY <1>0, <2>1, <2>4, ReclaimAssumption DEF SearchLocals
  <2>6. /\ l = "map" => 0 < s.have
        /\ l # "map" => s.have < s.need
        /\ l \in {"map", "call"}
    BY <2>2, <2>4, <2>5
  <2>7. search' = [search EXCEPT ![t] = s]
    BY <1>0, <2>1, <2>3
  <2>8. pc'[t] = l /\ \A u \in Threads \ {t} : pc'[u] = pc[u]
    BY <1>0, <2>3, GoesTo DEF Scanners
  <2> QED  BY <1>1, <2>3, <2>5, <2>6, <2>7, <2>8, SearchMoves DEF ScanPcs
<1>5. CASE MapPage(t)
  <2>1. PICK s : s = [search[t] EXCEPT !.have = @ - 1]
    OBVIOUS
  <2>2. PICK l : l = IF search[t].have = 1 THEN "idle" ELSE "map"
    OBVIOUS
  <2>3. /\ pc[t] = "map" /\ UNCHANGED scan /\ Goto(t, l)
        /\ search' = [search EXCEPT ![t].have = @ - 1]
    BY <1>5, <2>2 DEF MapPage
  <2>4. 0 < search[t].have
    BY <1>0, <2>3 DEF SearchOK
  <2>5. s \in SearchLocals /\ s.have = search[t].have - 1 /\ search[t].have \in Nat
    BY <1>0, <2>1, <2>4, ReclaimAssumption DEF SearchLocals
  <2>6. /\ l = "map" => 0 < s.have
        /\ l = "idle" => s.have = 0
        /\ l \in {"map", "idle"}
    BY <2>2, <2>4, <2>5
  <2>7. search' = [search EXCEPT ![t] = s]
    BY <1>0, <2>1, <2>3
  <2>8. pc'[t] = l /\ \A u \in Threads \ {t} : pc'[u] = pc[u]
    BY <1>0, <2>3, GoesTo DEF Scanners
  <2> QED  BY <1>1, <2>3, <2>5, <2>6, <2>7, <2>8, SearchMoves DEF ScanPcs
<1>6. CASE FetchReclaim(t)
  <2>1. pc[t] = "fetch" /\ UNCHANGED search
    BY <1>6 DEF FetchReclaim
  <2>2. ScansOK'
    BY <1>0, <1>1, <1>6, BeginScanOK DEF FetchReclaim
  <2>3. PICK l \in {"direct", "take"} : Goto(t, l)
    BY <1>6 DEF FetchReclaim
  <2>4. pc'[t] = l /\ \A u \in Threads \ {t} : pc'[u] = pc[u]
    BY <1>0, <2>3, GoesTo DEF Scanners
  <2>5. search[t].priority > 0
    BY <1>0, <2>1 DEF SearchOK
  <2> QED  BY <1>0, <2>1, <2>2, <2>4, <2>5, SearchStays DEF ThreadPcs, ScanPcs
<1>7. CASE FetchEvict(t)
  <2>1. pc[t] = "take" /\ UNCHANGED <<search, scan>> /\ Goto(t, "evict")
    BY <1>7 DEF FetchEvict
  <2>2. pc'[t] = "evict" /\ \A u \in Threads \ {t} : pc'[u] = pc[u]
    BY <1>0, <2>1, GoesTo DEF Scanners
  <2> QED  BY <1>0, <1>1, <2>1, <2>2, SearchStays DEF ThreadPcs, ScanPcs
<1>8. CASE FetchRetry(t)
  <2>1. pc[t] = "take" /\ UNCHANGED <<search, scan>>
    BY <1>8 DEF FetchRetry
  <2>2. CASE search[t].priority > 0
    <3>1. pc'[t] = "fetch" /\ \A u \in Threads \ {t} : pc'[u] = pc[u]
      BY <1>0, <1>8, <2>2, GoesTo DEF Scanners, FetchRetry
    <3> QED  BY <1>0, <1>1, <2>1, <2>2, <3>1, SearchStays DEF ThreadPcs, ScanPcs
  <2>3. CASE ~(search[t].priority > 0)
    <3>1. pc' = pc
      BY <1>8, <2>3 DEF FetchRetry
    <3> QED  BY <1>0, <1>1, <2>1, <3>1, SearchStays DEF ThreadPcs, ScanPcs
  <2> QED  BY <2>2, <2>3
<1> QED  BY <1>2, <1>3, <1>4, <1>5, <1>6, <1>7, <1>8

\* The locals in a step of lrudisk_synchkswapd.
LEMMA KswapdLocal ==
    ASSUME ControlInv, LocalInv,
           KswapdCheck \/ KswapdWait \/ KswapdRun \/ KswapdCount \/ KswapdStop
    PROVE  LocalInv'
<1>1. kswapd \in Scanners /\ kswapd \notin Threads /\ ScansOK
  BY ReclaimAssumption DEF Scanners, LocalInv
<1>2. PICK l : Goto(kswapd, l)
  BY DEF KswapdCheck, KswapdWait, KswapdRun, KswapdCount, KswapdStop
<1>3. UNCHANGED search
  BY DEF KswapdCheck, KswapdWait, KswapdRun, KswapdCount, KswapdStop
<1>4. UNCHANGED scan => ScansOK'
  BY <1>1 DEF ScansOK
<1>5. ScansOK'
  BY <1>1, <1>4, BeginScanOK DEF KswapdCheck, KswapdWait, KswapdRun, KswapdCount, KswapdStop
<1>6. \A u \in Threads : pc'[u] = pc[u]
  BY <1>1, <1>2, GoesTo DEF Scanners
<1> QED  BY <1>1, <1>3, <1>5, <1>6, SearchStays

-----------------------------------------------------------------------------
(* Every frame is somewhere.                                                *)

Frames == 1 .. NFrames

\* The places of a frame: a list, an eviction worker, the batch of a thread, a
\* thread that evicts for itself.
Places == ({"free", "active", "inactive", "eviction"} \X {0})
            \cup ({"worker"} \X Workers) \cup ({"held", "evicts"} \X Threads)

\* How many frames the counters put there.
Amount(p) == CASE p[1] = "free" -> free
               [] p[1] = "active" -> active
               [] p[1] = "inactive" -> inactive
               [] p[1] = "eviction" -> eviction
               [] p[1] = "worker" -> inflight[p[2]]
               [] p[1] = "held" -> search[p[2]].have
               [] p[1] = "evicts" -> IF pc[p[2]] = "evict" THEN 1 ELSE 0

In(own, p) == {i \in Frames : own[i] = p}

\* There is an assignment of the frames to places that all counters agree with.
FramesCounted == \E own \in [Frames -> Places] :
                   \A p \in Places : Cardinality(In(own, p)) = Amount(p)

\* The frames at a place are a finite set.
LEMMA InFinite ==
    ASSUME NEW own, NEW p
    PROVE  /\ IsFiniteSet(In(own, p)) /\ Cardinality(In(own, p)) \in Nat
           /\ Cardinality(In(own, p)) <= NFrames
<1>1. /\ IsFiniteSet(Frames) /\ Cardinality(Frames) = NFrames
  BY FS_Interval, ReclaimAssumption DEF Frames
<1>2. In(own, p) \in SUBSET Frames
  BY DEF In
<1>3. IsFiniteSet(In(own, p)) /\ Cardinality(In(own, p)) <= NFrames
  BY <1>1, <1>2, FS_Subset
<1> QED  BY <1>3, FS_CardinalityType

\* A finite set has subsets of every smaller size.
LEMMA SomeOf ==
    ASSUME NEW S, IsFiniteSet(S), NEW n \in Nat, n <= Cardinality(S)
    PROVE  \E T \in SUBSET S : Cardinality(T) = n /\ IsFiniteSet(T)
<1>1. Cardinality(S) \in Nat /\ ExistsBijection(1 .. Cardinality(S), S)
  BY FS_CardinalityType
<1>2. PICK f : f \in Bijection(1 .. Cardinality(S), S)
  BY <1>1 DEF ExistsBijection
<1>3. /\ f \in [1 .. Cardinality(S) -> S]
      /\ \A i, j \in 1 .. Cardinality(S) : f[i] = f[j] => i = j
  BY <1>2 DEF Bijection, Injection, Surjection, IsInjective
<1>4. PICK T : T = {f[i] : i \in 1 .. n}
  OBVIOUS
<1>5. 1 .. n \subseteq 1 .. Cardinality(S)
  BY <1>1
<1>6. T \in SUBSET S
  BY <1>3, <1>4, <1>5
<1>7. PICK g : g = [i \in 1 .. n |-> f[i]]
  OBVIOUS
<1>8. g \in Bijection(1 .. n, T)
  <2>1. g \in [1 .. n -> T]
    BY <1>4, <1>7
  <2>2. \A i, j \in 1 .. n : g[i] = g[j] => i = j
    BY <1>3, <1>5, <1>7
  <2>3. \A x \in T : \E i \in 1 .. n : g[i] = x
    BY <1>4, <1>7
  <2> QED  BY <2>1, <2>2, <2>3 DEF Bijection, Injection, Surjection, IsInjective
<1>9. IsFiniteSet(1 .. n) /\ Cardinality(1 .. n) = n
  BY FS_Interval
<1>10. ExistsBijection(1 .. n, T)
  BY <1>8 DEF ExistsBijection
<1>11. IsFiniteSet(T) /\ Cardinality(T) = n
  BY <1>9, <1>10, FS_Bijection
<1> QED  BY <1>6, <1>11

\* Some frames go from one place to another.
LEMMA Reassigned ==
    ASSUME NEW own \in [Frames -> Places], NEW k \in Places, NEW l \in Places, k # l,
           NEW n \in Nat, n <= Cardinality(In(own, k))
    PROVE  \E new \in [Frames -> Places] :
             /\ Cardinality(In(new, k)) = Cardinality(In(own, k)) - n
             /\ Cardinality(In(new, l)) = Cardinality(In(own, l)) + n
             /\ \A m \in Places \ {k, l} : In(new, m) = In(own, m)
<1>1. PICK T \in SUBSET In(own, k) : Cardinality(T) = n /\ IsFiniteSet(T)
  BY InFinite, SomeOf
<1>2. PICK new : new = [i \in Frames |-> IF i \in T THEN l ELSE own[i]]
  OBVIOUS
<1>3. new \in [Frames -> Places]
  BY <1>2
<1>4. In(new, k) = In(own, k) \ T /\ In(own, k) \cap T = T
  BY <1>1, <1>2 DEF In
<1>5. In(new, l) = In(own, l) \cup T /\ In(own, l) \cap T = {}
  BY <1>1, <1>2 DEF In
<1>6. \A m \in Places \ {k, l} : In(new, m) = In(own, m)
  BY <1>1, <1>2 DEF In
<1>7. Cardinality(In(new, k)) = Cardinality(In(own, k)) - n
  BY <1>1, <1>4, InFinite, FS_Difference
<1>8. Cardinality(In(new, l)) = Cardinality(In(own, l)) + n
  <2>1. /\ IsFiniteSet(In(own, l)) /\ Cardinality(In(own, l)) \in Nat
    BY InFinite
  <2>2. Cardinality(In(own, l) \cup T)
          = Cardinality(In(own, l)) + Cardinality(T) - Cardinality(In(own, l) \cap T)
    BY <1>1, <2>1, FS_Union
  <2>3. Cardinality(In(own, l) \cap T) = 0
    BY <1>5, FS_EmptySet
  <2> QED  BY <1>1, <1>5, <2>1, <2>2, <2>3
<1> QED  BY <1>3, <1>6, <1>7, <1>8

\* The counters are numbers of frames.
LEMMA AmountBounds ==
    ASSUME FramesCounted
    PROVE  \A p \in Places : Amount(p) \in 0 .. NFrames
<1>1. PICK own \in [Frames -> Places] : \A p \in Places : Cardinality(In(own, p)) = Amount(p)
  BY DEF FramesCounted
<1> QED  BY <1>1, InFinite, ReclaimAssumption

\* A step that moves n frames from k to l.
LEMMA FlowStep ==
    ASSUME FramesCounted, NEW k \in Places, NEW l \in Places, k # l, NEW n \in Nat,
           n <= Amount(k), Amount(k)' = Amount(k) - n, Amount(l)' = Amount(l) + n,
           \A m \in Places \ {k, l} : Amount(m)' = Amount(m)
    PROVE  FramesCounted'
<1>1. PICK own \in [Frames -> Places] : \A p \in Places : Cardinality(In(own, p)) = Amount(p)
  BY DEF FramesCounted
<1>2. PICK new \in [Frames -> Places] :
        /\ Cardinality(In(new, k)) = Cardinality(In(own, k)) - n
        /\ Cardinality(In(new, l)) = Cardinality(In(own, l)) + n
        /\ \A m \in Places \ {k, l} : In(new, m) = In(own, m)
  BY <1>1, Reassigned
<1>3. ASSUME NEW p \in Places PROVE Cardinality(In(new, p)) = Amount(p)'
  BY <1>1, <1>2
<1> QED  BY <1>2, <1>3 DEF FramesCounted

\* A step that moves none.
LEMMA QuietFlow ==
    ASSUME FramesCounted, \A p \in Places : Amount(p)' = Amount(p)
    PROVE  FramesCounted'
<1>1. PICK own \in [Frames -> Places] : \A p \in Places : Cardinality(In(own, p)) = Amount(p)
  BY DEF FramesCounted
<1>2. ASSUME NEW p \in Places PROVE Cardinality(In(own, p)) = Amount(p)'
  BY <1>1
<1> QED  BY <1>1, <1>2 DEF FramesCounted

-----------------------------------------------------------------------------
(* How the steps move frames.                                               *)

\* hot counts pages of the inactive list.
CountInv == /\ FramesCounted
            /\ hot \in Nat /\ hot <= inactive
            /\ inflight \in [Workers -> 0 .. Vector]

\* The places by name.
LEMMA PlaceNames ==
    /\ {<<"free", 0>>, <<"active", 0>>, <<"inactive", 0>>, <<"eviction", 0>>} \subseteq Places
    /\ \A w \in Workers : <<"worker", w>> \in Places
    /\ \A t \in Threads : <<"held", t>> \in Places /\ <<"evicts", t>> \in Places
  BY DEF Places

\* What the counters say about them.
LEMMA Amounts ==
    /\ Amount(<<"free", 0>>) = free /\ Amount(<<"active", 0>>) = active
    /\ Amount(<<"inactive", 0>>) = inactive /\ Amount(<<"eviction", 0>>) = eviction
    /\ \A w \in Workers : Amount(<<"worker", w>>) = inflight[w]
    /\ \A t \in Threads : /\ Amount(<<"held", t>>) = search[t].have
                          /\ Amount(<<"evicts", t>>) = IF pc[t] = "evict" THEN 1 ELSE 0
  BY DEF Amount

\* The same of the next state.
LEMMA NextAmounts ==
    /\ Amount(<<"free", 0>>)' = free' /\ Amount(<<"active", 0>>)' = active'
    /\ Amount(<<"inactive", 0>>)' = inactive' /\ Amount(<<"eviction", 0>>)' = eviction'
    /\ \A w \in Workers : Amount(<<"worker", w>>)' = inflight'[w]
    /\ \A t \in Threads : /\ Amount(<<"held", t>>)' = search'[t].have
                          /\ Amount(<<"evicts", t>>)' = IF pc'[t] = "evict" THEN 1 ELSE 0
  BY DEF Amount

\* No counter is negative or beyond the number of frames.
LEMMA Counters ==
    ASSUME FramesCounted
    PROVE  /\ free \in 0 .. NFrames /\ active \in 0 .. NFrames /\ inactive \in 0 .. NFrames
           /\ eviction \in 0 .. NFrames
           /\ free \in Nat /\ active \in Nat /\ inactive \in Nat /\ eviction \in Nat
           /\ \A w \in Workers : inflight[w] \in Nat
<1>1. /\ free \in 0 .. NFrames /\ active \in 0 .. NFrames /\ inactive \in 0 .. NFrames
      /\ eviction \in 0 .. NFrames
  BY AmountBounds, PlaceNames, Amounts
<1>2. \A w \in Workers : inflight[w] \in 0 .. NFrames
  BY AmountBounds, PlaceNames, Amounts
<1> QED  BY <1>1, <1>2, ReclaimAssumption

\* The counters a step leaves alone, apart from two places.
LEMMA ElseSame ==
    ASSUME NEW k, NEW l,
           <<"free", 0>> \in {k, l} \/ free' = free,
           <<"active", 0>> \in {k, l} \/ active' = active,
           <<"inactive", 0>> \in {k, l} \/ inactive' = inactive,
           <<"eviction", 0>> \in {k, l} \/ eviction' = eviction,
           \A w \in Workers : <<"worker", w>> \in {k, l} \/ inflight'[w] = inflight[w],
           \A t \in Threads : <<"held", t>> \in {k, l} \/ search'[t].have = search[t].have,
           \A t \in Threads : <<"evicts", t>> \in {k, l} \/ (pc'[t] = "evict" <=> pc[t] = "evict")
    PROVE  \A m \in Places \ {k, l} : Amount(m)' = Amount(m)
<1> SUFFICES ASSUME NEW m \in Places \ {k, l} PROVE Amount(m)' = Amount(m)
  OBVIOUS
<1>1. \/ m \in {<<"free", 0>>, <<"active", 0>>, <<"inactive", 0>>, <<"eviction", 0>>}
      \/ \E w \in Workers : m = <<"worker", w>>
      \/ \E t \in Threads : m = <<"held", t>> \/ m = <<"evicts", t>>
  BY DEF Places
<1>2. CASE m \in {<<"free", 0>>, <<"active", 0>>, <<"inactive", 0>>, <<"eviction", 0>>}
  BY <1>2 DEF Amount
<1>3. ASSUME NEW w \in Workers, m = <<"worker", w>> PROVE Amount(m)' = Amount(m)
  BY <1>3 DEF Amount
<1>4. ASSUME NEW t \in Threads, m = <<"held", t>> PROVE Amount(m)' = Amount(m)
  BY <1>4 DEF Amount
<1>5. ASSUME NEW t \in Threads, m = <<"evicts", t>> PROVE Amount(m)' = Amount(m)
  BY <1>5 DEF Amount
<1> QED  BY <1>1, <1>2, <1>3, <1>4, <1>5

\* A step that moves no frame.
LEMMA QuietCount ==
    ASSUME CountInv, UNCHANGED <<free, active, inactive, eviction, inflight>>,
           hot' \in Nat, hot' <= inactive,
           \A t \in Threads : search'[t].have = search[t].have,
           \A t \in Threads : pc'[t] = "evict" <=> pc[t] = "evict"
    PROVE  CountInv'
<1>1. PICK k : k = <<"free", 0>>
  OBVIOUS
<1>2. \A m \in Places \ {k, k} : Amount(m)' = Amount(m)
  BY ElseSame
<1>3. Amount(k)' = Amount(k)
  BY <1>1, Amounts, NextAmounts
<1>4. FramesCounted'
  BY <1>2, <1>3, QuietFlow DEF CountInv
<1> QED  BY <1>4 DEF CountInv

\* What a step of t says about its search and its place.
LEMMA ThreadCount ==
    ASSUME ControlInv, LocalInv, CountInv, NEW t \in Threads,
           \/ \E n \in 1 .. MaxBatch : Fault(t, n)
           \/ WakeKswapd(t) \/ FetchFree(t) \/ FetchReclaim(t) \/ FetchEvict(t)
           \/ FetchEvicted(t) \/ FetchRetry(t) \/ MapPage(t)
    PROVE  CountInv'
<1> USE DEF At
<1>0. /\ t \in Scanners /\ kswapd \in Scanners /\ t # kswapd /\ FramesCounted
      /\ search \in [Threads -> SearchLocals] /\ SearchOK(t) /\ search[t].have \in Nat
      /\ free \in Nat /\ active \in Nat /\ inactive \in Nat /\ eviction \in Nat
      /\ hot \in Nat /\ hot <= inactive /\ inflight \in [Workers -> 0 .. Vector]
  <2>1. search \in [Threads -> SearchLocals] /\ SearchOK(t)
    BY DEF LocalInv
  <2>2. search[t].have \in Nat
    BY <2>1, ReclaimAssumption DEF SearchLocals
  <2> QED  BY <2>1, <2>2, Counters, ReclaimAssumption DEF CountInv, Scanners
<1>1. ASSUME NEW n \in 1 .. MaxBatch, Fault(t, n) PROVE CountInv'
  <2>1. /\ pc[t] = "idle" /\ Goto(t, "call") /\ UNCHANGED lists /\ UNCHANGED inflight
        /\ search' = [search EXCEPT ![t] = [NoSearch EXCEPT !.need = n]]
    BY <1>1 DEF Fault
  <2>2. search[t].have = 0 /\ [NoSearch EXCEPT !.need = n].have = 0
    BY <1>0, <2>1 DEF SearchOK, NoSearch
  <2>3. \A u \in Threads : search'[u].have = search[u].have
    BY <1>0, <2>1, <2>2
  <2>4. \A u \in Threads : pc'[u] = "evict" <=> pc[u] = "evict"
    BY <1>0, <2>1, GoesTo DEF Scanners
  <2> QED  BY <1>0, <2>1, <2>3, <2>4, QuietCount DEF lists
<1>2. CASE WakeKswapd(t)
  <2>1. PICK k \in {pc[kswapd], "run"} : pc' = [pc EXCEPT ![t] = "fetch", ![kswapd] = k]
    BY <1>0, <1>2 DEF WakeKswapd, ControlInv
  <2>2. /\ pc[t] = "call" /\ UNCHANGED lists /\ UNCHANGED inflight
        /\ search' = [search EXCEPT ![t].priority = MaxPriority]
    BY <1>2 DEF WakeKswapd
  <2>3. \A u \in Threads : search'[u].have = search[u].have
    BY <1>0, <2>2 DEF SearchLocals
  <2>4. \A u \in Threads : pc'[u] = "evict" <=> pc[u] = "evict"
    BY <1>0, <2>1, <2>2, ReclaimAssumption DEF Scanners, ControlInv
  <2> QED  BY <1>0, <2>2, <2>3, <2>4, QuietCount DEF lists
<1>3. CASE FetchReclaim(t) \/ FetchRetry(t)
  <2>1. /\ pc[t] \in {"fetch", "take"} /\ UNCHANGED lists /\ UNCHANGED inflight
        /\ UNCHANGED search
    BY <1>3 DEF FetchReclaim, FetchRetry
  <2>2. pc' = pc \/ \E l \in {"direct", "take", "fetch"} : Goto(t, l)
    BY <1>3 DEF FetchReclaim, FetchRetry
  <2>4. \A u \in Threads : pc'[u] = "evict" <=> pc[u] = "evict"
    BY <1>0, <2>1, <2>2, GoesTo DEF Scanners
  <2> QED  BY <1>0, <2>1, <2>4, QuietCount DEF lists
<1>4. CASE FetchFree(t)
  <2>1. /\ pc[t] = "fetch" /\ free > 0 /\ free' = free - 1
        /\ UNCHANGED <<active, inactive, eviction, hot, inflight>>
        /\ search' = [search EXCEPT ![t].have = @ + 1]
    BY <1>4 DEF FetchFree, GotFrame
  <2>2. PICK lab \in {"map", "call"} : Goto(t, lab)
    BY <1>4 DEF FetchFree, GotFrame
  <2>3. \A u \in Threads : pc'[u] = "evict" <=> pc[u] = "evict"
    BY <1>0, <2>1, <2>2, GoesTo DEF Scanners
  <2>4. /\ search'[t].have = search[t].have + 1
        /\ \A u \in Threads \ {t} : search'[u] = search[u]
    BY <1>0, <2>1 DEF SearchLocals
  <2>5. FramesCounted'
    <3>1. PICK k, l : k = <<"free", 0>> /\ l = <<"held", t>>
      OBVIOUS
    <3>2. k \in Places /\ l \in Places /\ k # l
      BY <3>1, PlaceNames
    <3>3. \A m \in Places \ {k, l} : Amount(m)' = Amount(m)
      BY <3>1, <2>1, <2>3, <2>4, ElseSame
    <3>4. 1 <= Amount(k) /\ Amount(k)' = Amount(k) - 1
      BY <1>0, <2>1, <2>4, <3>1, Amounts, NextAmounts
    <3>5. Amount(l)' = Amount(l) + 1
      BY <1>0, <2>1, <2>4, <3>1, Amounts, NextAmounts
    <3> QED  BY <1>0, <3>2, <3>3, <3>4, <3>5, FlowStep
  <2> QED  BY <1>0, <2>1, <2>5 DEF CountInv
<1>5. CASE FetchEvict(t)
  <2>1. /\ pc[t] = "take" /\ eviction > 0 /\ eviction' = eviction - 1 /\ Goto(t, "evict")
        /\ UNCHANGED <<free, active, inactive, hot, inflight, search>>
    BY <1>5 DEF FetchEvict
  <2>2. pc'[t] = "evict" /\ \A u \in Threads \ {t} : pc'[u] = pc[u]
    BY <1>0, <2>1, GoesTo DEF Scanners
  <2>3. FramesCounted'
    <3>1. PICK k, l : k = <<"eviction", 0>> /\ l = <<"evicts", t>>
      OBVIOUS
    <3>2. k \in Places /\ l \in Places /\ k # l
      BY <3>1, PlaceNames
    <3>3. \A m \in Places \ {k, l} : Amount(m)' = Amount(m)
      BY <3>1, <2>1, <2>2, ElseSame
    <3>4. 1 <= Amount(k) /\ Amount(k)' = Amount(k) - 1
      BY <1>0, <2>1, <2>2, <3>1, Amounts, NextAmounts
    <3>5. Amount(l)' = Amount(l) + 1
      <4>1. pc[t] # "evict" /\ pc'[t] = "evict"
        BY <2>1, <2>2
      <4>2. Amount(l) = 0
        BY <3>1, <4>1, Amounts
      <4>3. Amount(l)' = 1
        BY <3>1, <4>1, NextAmounts
      <4> QED  BY <4>2, <4>3
    <3> QED  BY <1>0, <3>2, <3>3, <3>4, <3>5, FlowStep
  <2> QED  BY <1>0, <2>1, <2>3 DEF CountInv
<1>6. CASE FetchEvicted(t)
  <2>1. /\ pc[t] = "evict" /\ UNCHANGED lists /\ UNCHANGED inflight
        /\ search' = [search EXCEPT ![t].have = @ + 1]
    BY <1>6 DEF FetchEvicted, GotFrame
  <2>2. PICK lab \in {"map", "call"} : Goto(t, lab)
    BY <1>6 DEF FetchEvicted, GotFrame
  <2>3. pc'[t] # "evict" /\ \A u \in Threads \ {t} : pc'[u] = pc[u]
    BY <1>0, <2>2, GoesTo DEF Scanners
  <2>4. /\ search'[t].have = search[t].have + 1
        /\ \A u \in Threads \ {t} : search'[u] = search[u]
    BY <1>0, <2>1 DEF SearchLocals
  <2>5. FramesCounted'
    <3>1. PICK k, l : k = <<"evicts", t>> /\ l = <<"held", t>>
      OBVIOUS
    <3>2. k \in Places /\ l \in Places /\ k # l
      BY <3>1, PlaceNames
    <3>3. \A m \in Places \ {k, l} : Amount(m)' = Amount(m)
      BY <3>1, <2>1, <2>3, <2>4, ElseSame DEF lists
    <3>4. 1 <= Amount(k) /\ Amount(k)' = Amount(k) - 1
      BY <1>0, <2>1, <2>3, <2>4, <3>1, Amounts, NextAmounts
    <3>5. Amount(l)' = Amount(l) + 1
      BY <1>0, <2>1, <2>3, <2>4, <3>1, Amounts, NextAmounts
    <3> QED  BY <1>0, <3>2, <3>3, <3>4, <3>5, FlowStep
  <2> QED  BY <1>0, <2>1, <2>5 DEF CountInv, lists
<1>7. CASE MapPage(t)
  <2>1. /\ pc[t] = "map" /\ inactive' = inactive + 1
        /\ UNCHANGED <<free, active, eviction, hot, inflight>>
        /\ search' = [search EXCEPT ![t].have = @ - 1]
    BY <1>7 DEF MapPage
  <2>2. PICK lab \in {"map", "idle"} : Goto(t, lab)
    BY <1>7 DEF MapPage
  <2>3. \A u \in Threads : pc'[u] = "evict" <=> pc[u] = "evict"
    BY <1>0, <2>1, <2>2, GoesTo DEF Scanners
  <2>4. /\ search'[t].have = search[t].have - 1 /\ search[t].have > 0
        /\ \A u \in Threads \ {t} : search'[u] = search[u]
    BY <1>0, <2>1 DEF SearchLocals, SearchOK
  <2>5. FramesCounted'
    <3>1. PICK k, l : k = <<"held", t>> /\ l = <<"inactive", 0>>
      OBVIOUS
    <3>2. k \in Places /\ l \in Places /\ k # l
      BY <3>1, PlaceNames
    <3>3. \A m \in Places \ {k, l} : Amount(m)' = Amount(m)
      BY <3>1, <2>1, <2>3, <2>4, ElseSame
    <3>4. 1 <= Amount(k) /\ Amount(k)' = Amount(k) - 1
      <4>1. Amount(k) = search[t].have
        BY <3>1, Amounts
      <4>2. Amount(k)' = search[t].have - 1
        BY <2>4, <3>1, NextAmounts
      <4> QED  BY <1>0, <2>4, <4>1, <4>2
    <3>5. Amount(l)' = Amount(l) + 1
      BY <1>0, <2>1, <2>4, <3>1, Amounts, NextAmounts
    <3> QED  BY <1>0, <3>2, <3>3, <3>4, <3>5, FlowStep
  <2> QED  BY <1>0, <2>1, <2>5 DEF CountInv
<1> QED  BY <1>1, <1>2, <1>3, <1>4, <1>5, <1>6, <1>7

\* Frames in a step of a scan.
LEMMA ScanCount ==
    ASSUME ControlInv, LocalInv, CountInv, NEW e \in Scanners, ScanStep(e)
    PROVE  CountInv'
<1> USE DEF At
<1>0. /\ FramesCounted /\ search \in [Threads -> SearchLocals]
      /\ free \in Nat /\ active \in Nat /\ inactive \in Nat /\ eviction \in Nat
      /\ hot \in Nat /\ hot <= inactive /\ inflight \in [Workers -> 0 .. Vector]
  BY Counters DEF CountInv, LocalInv
<1>1. CASE ShrinkInactiveCold(e)
  <2>1. /\ hot < inactive /\ inactive' = inactive - 1 /\ eviction' = eviction + 1
        /\ UNCHANGED <<free, active, hot, inflight, pc, search>>
    BY <1>1 DEF ShrinkInactiveCold
  <2>2. FramesCounted'
    <3>1. PICK k, l : k = <<"inactive", 0>> /\ l = <<"eviction", 0>>
      OBVIOUS
    <3>2. k \in Places /\ l \in Places /\ k # l
      BY <3>1, PlaceNames
    <3>3. \A m \in Places \ {k, l} : Amount(m)' = Amount(m)
      BY <3>1, <2>1, ElseSame
    <3>4. 1 <= Amount(k) /\ Amount(k)' = Amount(k) - 1 /\ Amount(l)' = Amount(l) + 1
      BY <1>0, <2>1, <3>1, Amounts, NextAmounts
    <3> QED  BY <1>0, <3>2, <3>3, <3>4, FlowStep
  <2> QED  BY <1>0, <2>1, <2>2 DEF CountInv
<1>2. CASE ShrinkInactiveHot(e) /\ UNCHANGED <<active, inactive>>
  <2>1. hot' \in Nat /\ hot' <= inactive
    BY <1>0, <1>2 DEF ShrinkInactiveHot
  <2> QED  BY <1>2, <2>1, QuietCount DEF ShrinkInactiveHot
<1>3. CASE ShrinkInactiveHot(e) /\ active' = active + 1 /\ inactive' = inactive - 1
  <2>1. hot > 0 /\ hot' = hot - 1 /\ UNCHANGED <<free, eviction, inflight, pc, search>>
    BY <1>3 DEF ShrinkInactiveHot
  <2>2. FramesCounted'
    <3>1. PICK k, l : k = <<"inactive", 0>> /\ l = <<"active", 0>>
      OBVIOUS
    <3>2. k \in Places /\ l \in Places /\ k # l
      BY <3>1, PlaceNames
    <3>3. \A m \in Places \ {k, l} : Amount(m)' = Amount(m)
      BY <3>1, <2>1, ElseSame
    <3>4. 1 <= Amount(k) /\ Amount(k)' = Amount(k) - 1 /\ Amount(l)' = Amount(l) + 1
      BY <1>0, <1>3, <2>1, <3>1, Amounts, NextAmounts
    <3> QED  BY <1>0, <3>2, <3>3, <3>4, FlowStep
  <2> QED  BY <1>0, <1>3, <2>1, <2>2 DEF CountInv
<1>4. CASE ShrinkActive(e)
  <2>1. /\ active > 0 /\ active' = active - 1 /\ inactive' = inactive + 1
        /\ UNCHANGED <<free, eviction, hot, inflight, pc, search>>
    BY <1>4 DEF ShrinkActive, ShrinkMore
  <2>2. FramesCounted'
    <3>1. PICK k, l : k = <<"active", 0>> /\ l = <<"inactive", 0>>
      OBVIOUS
    <3>2. k \in Places /\ l \in Places /\ k # l
      BY <3>1, PlaceNames
    <3>3. \A m \in Places \ {k, l} : Amount(m)' = Amount(m)
      BY <3>1, <2>1, ElseSame
    <3>4. 1 <= Amount(k) /\ Amount(k)' = Amount(k) - 1 /\ Amount(l)' = Amount(l) + 1
      BY <1>0, <2>1, <3>1, Amounts, NextAmounts
    <3> QED  BY <1>0, <3>2, <3>3, <3>4, FlowStep
  <2> QED  BY <1>0, <2>1, <2>2 DEF CountInv
<1>5. CASE ScanLoop(e) \/ ScanReturn(e) \/ ShrinkInactiveDone(e) \/ ShrinkActiveBegin(e)
             \/ ShrinkActiveDone(e)
  <2>1. /\ UNCHANGED lists /\ UNCHANGED inflight /\ pc[e] # "evict"
        /\ search' = search \/ (e \in Threads /\ search' = [search EXCEPT ![e].priority = @ - 1])
    BY <1>5 DEF ScanLoop, ScanReturn, ShrinkInactiveDone, ShrinkActiveBegin, ShrinkActiveDone,
                Scanners
  <2>2. PICK l \in {"stop", "take", "shrink_inactive", "shrink_active", "begin_active",
                    "direct"} : Goto(e, l)
    BY <1>5 DEF ScanLoop, ScanReturn, ShrinkInactiveDone, ShrinkActiveBegin, ShrinkActiveDone
  <2>3. \A u \in Threads : search'[u].have = search[u].have
    BY <1>0, <2>1 DEF SearchLocals
  <2>4. \A u \in Threads : pc'[u] = "evict" <=> pc[u] = "evict"
    BY <2>1, <2>2, GoesTo DEF Scanners
  <2> QED  BY <1>0, <2>1, <2>3, <2>4, QuietCount DEF lists
<1> QED  BY <1>1, <1>2, <1>3, <1>4, <1>5 DEF ScanStep, ShrinkInactiveHot

\* Frames in a step of lrudisk_synchkswapd.
LEMMA KswapdCounts ==
    ASSUME ControlInv, CountInv,
           KswapdCheck \/ KswapdWait \/ KswapdRun \/ KswapdCount \/ KswapdStop
    PROVE  CountInv'
<1>1. UNCHANGED lists /\ UNCHANGED inflight /\ UNCHANGED search
  BY DEF KswapdCheck, KswapdWait, KswapdRun, KswapdCount, KswapdStop
<1>2. PICK l : Goto(kswapd, l)
  BY DEF KswapdCheck, KswapdWait, KswapdRun, KswapdCount, KswapdStop
<1>3. \A u \in Threads : pc'[u] = pc[u]
  BY <1>2, GoesTo, ReclaimAssumption DEF Scanners
<1> QED  BY <1>1, <1>3, QuietCount DEF lists, CountInv

\* Frames in a step of an eviction worker.
LEMMA WorkerCount ==
    ASSUME CountInv, NEW w \in Workers, WorkerStep(w)
    PROVE  CountInv'
<1>0. /\ FramesCounted /\ free \in Nat /\ eviction \in Nat /\ inflight[w] \in Nat
      /\ inflight[w] <= Vector /\ hot \in Nat /\ hot <= inactive
      /\ inflight \in [Workers -> 0 .. Vector]
  BY Counters DEF CountInv
<1>1. CASE WorkerTake(w)
  <2>1. PICK n : n = AtMost(Vector, eviction)
    OBVIOUS
  <2>2. n \in Nat /\ n <= Vector /\ n <= eviction
    BY <1>0, <2>1, ReclaimAssumption DEF AtMost
  <2>3. /\ inflight[w] = 0 /\ inflight' = [inflight EXCEPT ![w] = n]
        /\ eviction' = eviction - n /\ UNCHANGED <<free, active, inactive, hot, pc, search>>
    BY <1>1, <2>1 DEF WorkerTake
  <2>4. /\ inflight' \in [Workers -> 0 .. Vector] /\ inflight'[w] = n
        /\ \A v \in Workers \ {w} : inflight'[v] = inflight[v]
    BY <1>0, <2>2, <2>3, ReclaimAssumption
  <2>5. FramesCounted'
    <3>1. PICK k, l : k = <<"eviction", 0>> /\ l = <<"worker", w>>
      OBVIOUS
    <3>2. k \in Places /\ l \in Places /\ k # l
      BY <3>1, PlaceNames
    <3>3. \A m \in Places \ {k, l} : Amount(m)' = Amount(m)
      BY <3>1, <2>3, <2>4, ElseSame
    <3>4. n <= Amount(k) /\ Amount(k)' = Amount(k) - n
      BY <2>2, <2>3, <3>1, Amounts, NextAmounts
    <3>5. Amount(l)' = Amount(l) + n
      BY <2>2, <2>3, <2>4, <3>1, Amounts, NextAmounts
    <3> QED  BY <1>0, <2>2, <3>2, <3>3, <3>4, <3>5, FlowStep
  <2> QED  BY <1>0, <2>3, <2>4, <2>5 DEF CountInv
<1>2. CASE WorkerFree(w)
  <2>1. /\ inflight[w] > 0 /\ inflight' = [inflight EXCEPT ![w] = inflight[w] - 1]
        /\ free' = free + 1 /\ UNCHANGED <<active, inactive, eviction, hot, pc, search>>
    BY <1>2 DEF WorkerFree
  <2>2. /\ inflight' \in [Workers -> 0 .. Vector] /\ inflight'[w] = inflight[w] - 1
        /\ \A v \in Workers \ {w} : inflight'[v] = inflight[v]
    BY <1>0, <2>1, ReclaimAssumption
  <2>3. FramesCounted'
    <3>1. PICK k, l : k = <<"worker", w>> /\ l = <<"free", 0>>
      OBVIOUS
    <3>2. k \in Places /\ l \in Places /\ k # l
      BY <3>1, PlaceNames
    <3>3. \A m \in Places \ {k, l} : Amount(m)' = Amount(m)
      BY <3>1, <2>1, <2>2, ElseSame
    <3>4. 1 <= Amount(k) /\ Amount(k)' = Amount(k) - 1
      <4>1. Amount(k) = inflight[w] /\ Amount(k)' = inflight[w] - 1
        BY <2>2, <3>1, Amounts, NextAmounts
      <4> QED  BY <1>0, <2>1, <4>1
    <3>5. Amount(l)' = Amount(l) + 1
      BY <2>1, <3>1, Amounts, NextAmounts
    <3> QED  BY <1>0, <3>2, <3>3, <3>4, <3>5, FlowStep
  <2> QED  BY <1>0, <2>1, <2>2, <2>3 DEF CountInv
<1> QED  BY <1>1, <1>2 DEF WorkerStep

-----------------------------------------------------------------------------
(* The invariant as a whole.                                                *)

ReclaimInv == ControlInv /\ LocalInv /\ CountInv

\* At first every frame is free.
LEMMA InitCount == Init => CountInv
<1> SUFFICES ASSUME Init PROVE CountInv
  OBVIOUS
<1>1. /\ free = NFrames /\ active = 0 /\ inactive = 0 /\ eviction = 0 /\ hot = 0
      /\ inflight = [w \in Workers |-> 0] /\ search = [t \in Threads |-> NoSearch]
      /\ pc = [e \in Scanners |-> IF e = kswapd THEN "check" ELSE "idle"]
  BY DEF Init
<1>2. PICK own : own = [i \in Frames |-> <<"free", 0>>]
  OBVIOUS
<1>3. own \in [Frames -> Places]
  BY <1>2, PlaceNames
<1>4. In(own, <<"free", 0>>) = Frames /\ Cardinality(Frames) = NFrames
  <2>1. In(own, <<"free", 0>>) = Frames
    BY <1>2 DEF In
  <2>2. Cardinality(Frames) = NFrames
    BY FS_Interval, ReclaimAssumption DEF Frames
  <2> QED  BY <2>1, <2>2
<1>5. \A p \in Places \ {<<"free", 0>>} : In(own, p) = {}
  BY <1>2 DEF In
<1>6. ASSUME NEW p \in Places \ {<<"free", 0>>} PROVE Amount(p) = 0
  <2>1. \/ p \in {<<"active", 0>>, <<"inactive", 0>>, <<"eviction", 0>>}
        \/ \E w \in Workers : p = <<"worker", w>>
        \/ \E t \in Threads : p = <<"held", t>> \/ p = <<"evicts", t>>
    BY DEF Places
  <2>2. ASSUME NEW t \in Threads PROVE pc[t] = "idle" /\ search[t].have = 0
    BY <1>1, ReclaimAssumption DEF Scanners, NoSearch
  <2> QED  BY <1>1, <2>1, <2>2, Amounts
<1>7. \A p \in Places : Cardinality(In(own, p)) = Amount(p)
  BY <1>1, <1>4, <1>5, <1>6, Amounts, FS_EmptySet
<1>8. inflight \in [Workers -> 0 .. Vector]
  BY <1>1, ReclaimAssumption
<1> QED  BY <1>1, <1>3, <1>7, <1>8 DEF CountInv, FramesCounted

\* Every step keeps the invariant.
LEMMA NextReclaim == ReclaimInv /\ [Next]_vars => ReclaimInv'
<1> SUFFICES ASSUME ReclaimInv, [Next]_vars PROVE LocalInv' /\ CountInv'
  BY NextControl DEF ReclaimInv
<1>0. ControlInv /\ LocalInv /\ CountInv /\ active \in Nat /\ inactive \in Nat
  BY Counters DEF ReclaimInv, CountInv
<1>1. ASSUME NEW t \in Threads, ThreadStep(t) \/ \E n \in 1 .. MaxBatch : Fault(t, n)
      PROVE  LocalInv' /\ CountInv'
  BY <1>0, <1>1, ThreadLocal, ScanLocal, ThreadCount, ScanCount DEF ThreadStep, Scanners
<1>2. CASE KswapdStep
  BY <1>0, <1>2, KswapdLocal, ScanLocal, KswapdCounts, ScanCount DEF KswapdStep, Scanners
<1>3. CASE \/ \E w \in Workers : WorkerStep(w)
           \/ Access \/ Aborted \/ UNCHANGED vars
  <2>1. UNCHANGED <<pc, search, scan>>
    BY <1>3 DEF WorkerStep, WorkerTake, WorkerFree, Access, Aborted, vars
  <2>2. LocalInv'
    BY <1>0, <2>1 DEF LocalInv, SearchOK, ScansOK
  <2>3. CASE \E w \in Workers : WorkerStep(w)
    BY <1>0, <2>2, <2>3, WorkerCount
  <2>4. CASE Access
    <3>1. /\ UNCHANGED <<free, active, inactive, eviction, inflight, pc, search>>
          /\ hot < inactive /\ hot' = hot + 1
      BY <2>4 DEF Access
    <3>2. hot' \in Nat /\ hot' <= inactive
      BY <1>0, <3>1 DEF CountInv
    <3>3. CountInv'
      BY <1>0, <3>1, <3>2, QuietCount
    <3> QED  BY <2>2, <3>3
  <2>5. CASE Aborted \/ UNCHANGED vars
    <3>1. UNCHANGED <<free, active, inactive, eviction, inflight, pc, search, hot>>
      BY <2>5 DEF Aborted, vars, lists
    <3>2. hot' \in Nat /\ hot' <= inactive
      BY <1>0, <3>1 DEF CountInv
    <3>3. CountInv'
      BY <1>0, <3>1, <3>2, QuietCount
    <3> QED  BY <2>2, <3>3
  <2> QED  BY <1>3, <2>3, <2>4, <2>5
<1> QED  BY <1>1, <1>2, <1>3 DEF Next

\* No counter of pages goes below zero or above the number of frames, priorities
\* stay in their range and tries within their bound: for any number of frames,
\* threads and workers, any water marks and whatever the scans find.
THEOREM ReclaimTypes == Spec => []TypeOK
<1>1. Init => ReclaimInv
  BY InitControl, InitLocal, InitCount DEF ReclaimInv
<1>2. ReclaimInv => TypeOK
  <2> SUFFICES ASSUME ReclaimInv PROVE TypeOK
    OBVIOUS
  <2>1. ControlInv /\ LocalInv /\ CountInv /\ FramesCounted
    BY DEF ReclaimInv, CountInv
  <2>2. {free, active, inactive, eviction, hot} \subseteq 0 .. NFrames
    BY <2>1, Counters, ReclaimAssumption DEF CountInv
  <2>3. pc \in [Scanners -> {"idle", "call", "fetch", "take", "evict", "map", "direct",
                            "shrink_inactive", "begin_active", "shrink_active",
                            "check", "lock", "wait", "run", "count", "stop"}]
    BY <2>1 DEF ControlInv, ThreadPcs, KswapdPcs, ScanPcs
  <2>4. \A e \in Scanners : scan[e].tries <= Cluster * Tries
    BY <2>1, TriesBound, ReclaimAssumption DEF LocalInv, ScansOK, ScanOK
  <2> QED  BY <2>1, <2>2, <2>3, <2>4 DEF TypeOK, ControlInv, LocalInv, CountInv
<1> QED  BY <1>1, <1>2, NextReclaim, PTL DEF Spec

-----------------------------------------------------------------------------
(* The flow of frames.                                                      *)

\* What is summed up and counted is finite.
FlowFinite == /\ IsFiniteSet(Units(Have)) /\ IsFiniteSet(Units(inflight))
              /\ IsFiniteSet(SelfEvicting)

FlowInv == ReclaimInv /\ FlowFinite

\* The sums are numbers.
LEMMA FlowNat ==
    ASSUME FlowInv
    PROVE  /\ HeldFrames \in Nat /\ Total(inflight) \in Nat /\ Cardinality(SelfEvicting) \in Nat
           /\ free \in Nat /\ active \in Nat /\ inactive \in Nat /\ eviction \in Nat
           /\ Resident \in Nat /\ EvictingFrames \in Nat
<1>1. /\ HeldFrames \in Nat /\ Total(inflight) \in Nat /\ Cardinality(SelfEvicting) \in Nat
  BY FS_CardinalityType DEF FlowInv, FlowFinite, HeldFrames, Total
<1>2. free \in Nat /\ active \in Nat /\ inactive \in Nat /\ eviction \in Nat
  BY Counters DEF FlowInv, ReclaimInv, CountInv
<1>3. PICK a, b, c : a = eviction /\ b = Total(inflight) /\ c = Cardinality(SelfEvicting)
  OBVIOUS
<1>4. EvictingFrames = a + b + c
  BY <1>3 DEF EvictingFrames
<1>5. a \in Nat /\ b \in Nat /\ c \in Nat
  BY <1>1, <1>2, <1>3
<1> QED  BY <1>1, <1>2, <1>4, <1>5 DEF Resident

\* What the threads hold changes by what t holds.
LEMMA HaveStep ==
    ASSUME FlowInv, LocalInv', NEW t \in Threads,
           \A u \in Threads \ {t} : search'[u].have = search[u].have,
           NEW n \in Int, search'[t].have = search[t].have + n
    PROVE  IsFiniteSet(Units(Have')) /\ HeldFrames' = HeldFrames + n
<1>1. search[t].have \in Nat /\ search'[t].have \in Nat
  BY ReclaimAssumption DEF FlowInv, ReclaimInv, LocalInv, SearchLocals
<1>2. PICK f, g : f = Have /\ g = Have'
  OBVIOUS
<1>3. /\ DOMAIN f = Threads /\ DOMAIN g = Threads
      /\ f[t] = search[t].have /\ g[t] = search'[t].have
      /\ \A u \in Threads \ {t} : g[u] = f[u]
  BY <1>2 DEF Have
<1>4. f[t] \in Nat /\ g[t] \in Nat /\ IsFiniteSet(Units(f)) /\ g[t] = f[t] + n
  BY <1>1, <1>2, <1>3 DEF FlowInv, FlowFinite
<1>5. /\ IsFiniteSet(Units(g)) /\ Total(f) \in Nat /\ Total(g) \in Nat
      /\ Total(g) = Total(f) - f[t] + g[t]
  BY <1>3, <1>4, TotalOne
<1>6. PICK a, b, x, y : a = Total(f) /\ b = Total(g) /\ x = f[t] /\ y = g[t]
  OBVIOUS
<1>7. b = a + n
  <2>1. a \in Nat /\ b \in Nat /\ x \in Nat /\ y \in Nat /\ b = a - x + y /\ y = x + n
    BY <1>4, <1>5, <1>6
  <2> QED  BY <2>1
<1> QED  BY <1>2, <1>5, <1>6, <1>7 DEF HeldFrames

\* What the workers evict changes by what w evicts.
LEMMA InflightStep ==
    ASSUME FlowInv, CountInv', NEW w \in Workers, NEW n \in Int,
           inflight' = [inflight EXCEPT ![w] = inflight[w] + n]
    PROVE  IsFiniteSet(Units(inflight')) /\ Total(inflight') = Total(inflight) + n
<1>1. inflight \in [Workers -> 0 .. Vector] /\ inflight' \in [Workers -> 0 .. Vector]
  BY DEF FlowInv, ReclaimInv, CountInv
<1>2. PICK f, g : f = inflight /\ g = inflight'
  OBVIOUS
<1>3. /\ DOMAIN f = Workers /\ DOMAIN g = Workers /\ f[w] \in Nat /\ g[w] \in Nat
      /\ g[w] = f[w] + n /\ \A u \in Workers \ {w} : g[u] = f[u]
      /\ IsFiniteSet(Units(f))
  BY <1>1, <1>2, ReclaimAssumption DEF FlowInv, FlowFinite
<1>4. /\ IsFiniteSet(Units(g)) /\ Total(f) \in Nat /\ Total(g) \in Nat
      /\ Total(g) = Total(f) - f[w] + g[w]
  BY <1>3, TotalOne
<1>5. PICK a, b, x, y : a = Total(f) /\ b = Total(g) /\ x = f[w] /\ y = g[w]
  OBVIOUS
<1>6. b = a + n
  <2>1. a \in Nat /\ b \in Nat /\ x \in Nat /\ y \in Nat /\ b = a - x + y /\ y = x + n
    BY <1>3, <1>4, <1>5
  <2> QED  BY <2>1
<1> QED  BY <1>2, <1>4, <1>5, <1>6

\* And what the threads evict by what t does.
LEMMA SelfStep ==
    ASSUME FlowInv, NEW t \in Threads, \A u \in Threads \ {t} : pc'[u] = pc[u]
    PROVE  /\ IsFiniteSet(SelfEvicting')
           /\ Cardinality(SelfEvicting') = Cardinality(SelfEvicting)
                - (IF pc[t] = "evict" THEN 1 ELSE 0) + (IF pc'[t] = "evict" THEN 1 ELSE 0)
<1>1. SelfEvicting \ {t} = SelfEvicting' \ {t}
  BY DEF SelfEvicting
<1>2. /\ t \in SelfEvicting <=> pc[t] = "evict"
      /\ t \in SelfEvicting' <=> pc'[t] = "evict"
  BY DEF SelfEvicting
<1> QED  BY <1>1, <1>2, CountOne DEF FlowInv, FlowFinite

\* A step that leaves the sums alone.
LEMMA SameSums ==
    /\ (\A u \in Threads : search'[u].have = search[u].have)
         => Have' = Have /\ HeldFrames' = HeldFrames
    /\ (\A u \in Threads : pc'[u] = "evict" <=> pc[u] = "evict") => SelfEvicting' = SelfEvicting
  BY DEF Have, HeldFrames, SelfEvicting

\* A step that moves no frame between the places of FrameFlow.
LEMMA NoFlow ==
    ASSUME FlowInv, free' = free, Resident' = Resident, eviction' = eviction,
           inflight' = inflight, \A u \in Threads : search'[u].have = search[u].have,
           \A u \in Threads : pc'[u] = "evict" <=> pc[u] = "evict"
    PROVE  FlowFinite' /\ [Flow!Next]_(Flow!flow)
<1>1. Have' = Have /\ HeldFrames' = HeldFrames /\ SelfEvicting' = SelfEvicting
  BY SameSums
<1>2. FlowFinite'
  BY <1>1 DEF FlowInv, FlowFinite
<1>3. EvictingFrames' = EvictingFrames
  BY <1>1 DEF EvictingFrames
<1> QED  BY <1>1, <1>2, <1>3 DEF Flow!flow

\* The frames of a search.
LEMMA ThreadFlow ==
    ASSUME FlowInv, ReclaimInv', NEW t \in Threads,
           \/ \E n \in 1 .. MaxBatch : Fault(t, n)
           \/ WakeKswapd(t) \/ FetchFree(t) \/ FetchReclaim(t) \/ FetchEvict(t)
           \/ FetchEvicted(t) \/ FetchRetry(t) \/ MapPage(t)
    PROVE  FlowFinite' /\ [Flow!Next]_(Flow!flow)
<1> USE DEF At
<1>0. /\ ControlInv /\ LocalInv /\ LocalInv' /\ search \in [Threads -> SearchLocals]
      /\ t \in Scanners /\ t # kswapd /\ kswapd \notin Threads /\ SearchOK(t)
      /\ search[t].have \in Nat /\ pc \in [Scanners -> ThreadPcs \cup KswapdPcs]
      /\ Threads \subseteq Scanners
  <2>1. /\ ControlInv /\ LocalInv /\ LocalInv' /\ search \in [Threads -> SearchLocals]
        /\ SearchOK(t) /\ pc \in [Scanners -> ThreadPcs \cup KswapdPcs]
    BY DEF FlowInv, ReclaimInv, LocalInv, ControlInv
  <2>2. search[t].have \in Nat
    BY <2>1, ReclaimAssumption DEF SearchLocals
  <2> QED  BY <2>1, <2>2, ReclaimAssumption DEF Scanners
<1>n. /\ HeldFrames \in Nat /\ Total(inflight) \in Nat /\ Cardinality(SelfEvicting) \in Nat
      /\ free \in Nat /\ active \in Nat /\ inactive \in Nat /\ eviction \in Nat
      /\ Resident \in Nat /\ EvictingFrames \in Nat
  BY FlowNat
<1>1. CASE \E n \in 1 .. MaxBatch : Fault(t, n)
  <2>1. /\ pc[t] = "idle" /\ search'[t].have = 0 /\ UNCHANGED <<lists, inflight>>
        /\ \A u \in Threads \ {t} : search'[u] = search[u]
        /\ Goto(t, "call")
    BY <1>0, <1>1 DEF Fault, NoSearch
  <2>2. search[t].have = 0
    BY <1>0, <2>1 DEF SearchOK
  <2>3. \A u \in Threads : pc'[u] = "evict" <=> pc[u] = "evict"
    BY <1>0, <2>1, GoesTo
  <2> QED  BY <2>1, <2>2, <2>3, NoFlow DEF lists, Resident
<1>2. CASE WakeKswapd(t)
  <2>1. /\ UNCHANGED <<lists, inflight>>
        /\ \A u \in Threads : search'[u].have = search[u].have
        /\ \A u \in Threads : pc'[u] = "evict" <=> pc[u] = "evict"
    BY <1>0, <1>2 DEF WakeKswapd, SearchLocals
  <2> QED  BY <2>1, NoFlow DEF lists, Resident
<1>3. CASE FetchReclaim(t) \/ FetchRetry(t)
  <2>1. UNCHANGED <<lists, inflight, search>> /\ pc[t] # "evict"
    BY <1>3 DEF FetchReclaim, FetchRetry
  <2>2. pc' = pc \/ \E l \in {"direct", "take", "fetch"} : Goto(t, l)
    BY <1>3 DEF FetchReclaim, FetchRetry
  <2>3. \A u \in Threads : pc'[u] = "evict" <=> pc[u] = "evict"
    BY <1>0, <2>1, <2>2, GoesTo
  <2> QED  BY <2>1, <2>3, NoFlow DEF lists, Resident
<1>4. CASE FetchFree(t)
  <2>1. /\ pc[t] = "fetch" /\ free > 0 /\ free' = free - 1
        /\ UNCHANGED <<active, inactive, eviction, inflight>>
        /\ search' = [search EXCEPT ![t].have = @ + 1]
    BY <1>4 DEF FetchFree, GotFrame
  <2>2. PICK l \in {"map", "call"} : Goto(t, l)
    BY <1>4 DEF FetchFree, GotFrame
  <2>3. \A u \in Threads : pc'[u] = "evict" <=> pc[u] = "evict"
    BY <1>0, <2>1, <2>2, GoesTo
  <2>4. /\ search'[t].have = search[t].have + 1
        /\ \A u \in Threads \ {t} : search'[u].have = search[u].have
    BY <1>0, <2>1 DEF SearchLocals
  <2>5. IsFiniteSet(Units(Have')) /\ HeldFrames' = HeldFrames + 1
    BY <1>0, <2>4, HaveStep
  <2>6. SelfEvicting' = SelfEvicting
    BY <2>3, SameSums
  <2>7. Resident' = Resident /\ EvictingFrames' = EvictingFrames
    BY <2>1, <2>6 DEF Resident, EvictingFrames
  <2>8. Flow!Take
    BY <2>1, <2>5, <2>7 DEF Flow!Take
  <2>9. FlowFinite'
    BY <2>1, <2>5, <2>6 DEF FlowFinite, FlowInv
  <2> QED  BY <2>8, <2>9 DEF Flow!Next
<1>5. CASE FetchEvict(t)
  <2>1. /\ pc[t] = "take" /\ eviction > 0 /\ eviction' = eviction - 1
        /\ UNCHANGED <<free, active, inactive, inflight, search>> /\ Goto(t, "evict")
    BY <1>5 DEF FetchEvict
  <2>2. pc'[t] = "evict" /\ \A u \in Threads \ {t} : pc'[u] = pc[u]
    BY <1>0, <2>1, GoesTo
  <2>3. IsFiniteSet(SelfEvicting') /\ Cardinality(SelfEvicting') = Cardinality(SelfEvicting) + 1
    BY <1>n, <2>1, <2>2, SelfStep
  <2>4. EvictingFrames' = EvictingFrames
    BY <1>n, <2>1, <2>3 DEF EvictingFrames
  <2>5. Have' = Have /\ HeldFrames' = HeldFrames
    BY <2>1, SameSums
  <2>6. FlowFinite'
    BY <2>1, <2>3, <2>5 DEF FlowFinite, FlowInv
  <2> QED  BY <2>1, <2>4, <2>5, <2>6 DEF Flow!flow, Resident
<1>6. CASE FetchEvicted(t)
  <2>1. /\ pc[t] = "evict" /\ UNCHANGED <<free, active, inactive, eviction, inflight>>
        /\ search' = [search EXCEPT ![t].have = @ + 1]
    BY <1>6 DEF FetchEvicted, GotFrame, lists
  <2>2. PICK l \in {"map", "call"} : Goto(t, l)
    BY <1>6 DEF FetchEvicted, GotFrame
  <2>3. pc'[t] # "evict" /\ \A u \in Threads \ {t} : pc'[u] = pc[u]
    BY <1>0, <2>2, GoesTo
  <2>4. /\ search'[t].have = search[t].have + 1
        /\ \A u \in Threads \ {t} : search'[u].have = search[u].have
    BY <1>0, <2>1 DEF SearchLocals
  <2>5. IsFiniteSet(Units(Have')) /\ HeldFrames' = HeldFrames + 1
    BY <1>0, <2>4, HaveStep
  <2>6. IsFiniteSet(SelfEvicting') /\ Cardinality(SelfEvicting') = Cardinality(SelfEvicting) - 1
    BY <1>n, <2>1, <2>3, SelfStep
  <2>7. EvictingFrames' = EvictingFrames - 1 /\ EvictingFrames > 0
    <3>1. Cardinality(SelfEvicting') \in Nat
      BY <2>6, FS_CardinalityType
    <3> QED  BY <1>n, <2>1, <2>6, <3>1 DEF EvictingFrames
  <2>8. Flow!EvictForSelf
    BY <2>1, <2>5, <2>7 DEF Flow!EvictForSelf, Resident
  <2>9. FlowFinite'
    BY <2>1, <2>5, <2>6 DEF FlowFinite, FlowInv
  <2> QED  BY <2>8, <2>9 DEF Flow!Next
<1>7. CASE MapPage(t)
  <2>1. /\ pc[t] = "map" /\ inactive' = inactive + 1
        /\ UNCHANGED <<free, active, eviction, inflight>>
        /\ search' = [search EXCEPT ![t].have = @ - 1]
    BY <1>7 DEF MapPage
  <2>2. PICK l \in {"idle", "map"} : Goto(t, l)
    BY <1>7 DEF MapPage
  <2>3. \A u \in Threads : pc'[u] = "evict" <=> pc[u] = "evict"
    BY <1>0, <2>1, <2>2, GoesTo
  <2>4. /\ search'[t].have = search[t].have + (-1) /\ search[t].have > 0
        /\ \A u \in Threads \ {t} : search'[u].have = search[u].have
    BY <1>0, <2>1 DEF SearchLocals, SearchOK
  <2>5. IsFiniteSet(Units(Have')) /\ HeldFrames' = HeldFrames + (-1)
    BY <1>0, <2>4, HaveStep
  <2>6. HeldFrames > 0
    <3>1. HeldFrames' \in Nat
      BY <2>5, FS_CardinalityType DEF HeldFrames, Total
    <3> QED  BY <1>n, <2>5, <3>1
  <2>7. SelfEvicting' = SelfEvicting
    BY <2>3, SameSums
  <2>8. Resident' = Resident + 1 /\ EvictingFrames' = EvictingFrames
    BY <1>n, <2>1, <2>7 DEF Resident, EvictingFrames
  <2>9. Flow!Use
    BY <1>n, <2>1, <2>5, <2>6, <2>8 DEF Flow!Use
  <2>10. FlowFinite'
    BY <2>1, <2>5, <2>7 DEF FlowFinite, FlowInv
  <2> QED  BY <2>9, <2>10 DEF Flow!Next
<1> QED  BY <1>1, <1>2, <1>3, <1>4, <1>5, <1>6, <1>7

\* The frames of a scan.
LEMMA ScanFlow ==
    ASSUME FlowInv, NEW e \in Scanners, ScanStep(e)
    PROVE  FlowFinite' /\ [Flow!Next]_(Flow!flow)
<1> USE DEF At
<1>0. /\ ControlInv /\ search \in [Threads -> SearchLocals] /\ Threads \subseteq Scanners
      /\ hot <= inactive /\ hot \in Nat
  BY DEF FlowInv, ReclaimInv, LocalInv, Scanners, CountInv
<1>n. /\ free \in Nat /\ active \in Nat /\ inactive \in Nat /\ eviction \in Nat
      /\ Total(inflight) \in Nat /\ Cardinality(SelfEvicting) \in Nat
  BY FlowNat
<1>1. CASE ShrinkInactiveCold(e)
  <2>1. /\ inactive' = inactive - 1 /\ eviction' = eviction + 1 /\ hot < inactive
        /\ UNCHANGED <<free, active, inflight, pc, search>>
    BY <1>1 DEF ShrinkInactiveCold
  <2>2. Have' = Have /\ HeldFrames' = HeldFrames /\ SelfEvicting' = SelfEvicting
    BY <2>1, SameSums
  <2>3. /\ Resident' = Resident - 1 /\ Resident > 0
        /\ EvictingFrames' = EvictingFrames + 1
    BY <1>0, <1>n, <2>1, <2>2 DEF Resident, EvictingFrames
  <2>4. Flow!Pick
    BY <2>1, <2>2, <2>3 DEF Flow!Pick
  <2>5. FlowFinite'
    BY <2>1, <2>2 DEF FlowFinite, FlowInv
  <2> QED  BY <2>4, <2>5 DEF Flow!Next
<1>2. CASE ShrinkInactiveHot(e) \/ ShrinkActive(e)
  <2>1. /\ UNCHANGED <<free, eviction, inflight, pc, search>>
        /\ \/ UNCHANGED <<active, inactive>>
           \/ active' = active + 1 /\ inactive' = inactive - 1
           \/ active' = active - 1 /\ inactive' = inactive + 1
    BY <1>2 DEF ShrinkInactiveHot, ShrinkActive
  <2>2. Resident' = Resident
    BY <1>n, <2>1 DEF Resident
  <2> QED  BY <2>1, <2>2, NoFlow
<1>3. CASE ScanLoop(e) \/ ScanReturn(e) \/ ShrinkInactiveDone(e) \/ ShrinkActiveBegin(e)
           \/ ShrinkActiveDone(e)
  <2>1. /\ UNCHANGED <<lists, inflight>> /\ pc[e] # "evict"
    BY <1>3 DEF ScanLoop, ScanReturn, ShrinkInactiveDone, ShrinkActiveBegin, ShrinkActiveDone
  <2>2. \E l \in {"shrink_inactive", "stop", "take", "begin_active", "direct", "shrink_active"} :
          Goto(e, l)
    BY <1>3 DEF ScanLoop, ScanReturn, ShrinkInactiveDone, ShrinkActiveBegin, ShrinkActiveDone
  <2>3. \A u \in Threads : pc'[u] = "evict" <=> pc[u] = "evict"
    BY <1>0, <2>1, <2>2, GoesTo
  <2>4. search' = search \/ search' = [search EXCEPT ![e].priority = @ - 1]
    BY <1>3 DEF ScanLoop, ScanReturn, ShrinkInactiveDone, ShrinkActiveBegin, ShrinkActiveDone
  <2>5. \A u \in Threads : search'[u].have = search[u].have
    BY <1>0, <2>4 DEF SearchLocals
  <2> QED  BY <2>1, <2>3, <2>5, NoFlow DEF lists, Resident
<1> QED  BY <1>1, <1>2, <1>3 DEF ScanStep

\* The frames of a worker.
LEMMA WorkerFlow ==
    ASSUME FlowInv, CountInv', NEW w \in Workers, WorkerStep(w)
    PROVE  FlowFinite' /\ [Flow!Next]_(Flow!flow)
<1>0. inflight \in [Workers -> 0 .. Vector] /\ inflight[w] \in Nat
  BY ReclaimAssumption DEF FlowInv, ReclaimInv, CountInv
<1>n. /\ free \in Nat /\ eviction \in Nat
      /\ Total(inflight) \in Nat /\ Cardinality(SelfEvicting) \in Nat
  BY FlowNat
<1>1. /\ UNCHANGED <<active, inactive, pc, search>> /\ Have' = Have
      /\ HeldFrames' = HeldFrames /\ SelfEvicting' = SelfEvicting /\ Resident' = Resident
  <2>1. UNCHANGED <<active, inactive, pc, search>>
    BY DEF WorkerStep, WorkerTake, WorkerFree
  <2> QED  BY <2>1, SameSums DEF Resident
<1>2. CASE WorkerTake(w)
  <2>1. PICK n : n = AtMost(Vector, eviction)
    OBVIOUS
  <2>2. n \in Nat
    BY <1>n, <2>1, ReclaimAssumption DEF AtMost
  <2>3. /\ free' = free /\ inflight[w] = 0 /\ inflight' = [inflight EXCEPT ![w] = n]
        /\ eviction' = eviction - n
    BY <1>2, <2>1 DEF WorkerTake
  <2>4. inflight' = [inflight EXCEPT ![w] = inflight[w] + n]
    <3>1. inflight[w] + n = n
      BY <2>2, <2>3
    <3> QED  BY <2>3, <3>1
  <2>5. IsFiniteSet(Units(inflight')) /\ Total(inflight') = Total(inflight) + n
    <3>1. n \in Int
      BY <2>2
    <3> QED  BY <2>4, <3>1, InflightStep, Zenon
  <2>6. EvictingFrames' = EvictingFrames
    BY <1>1, <1>n, <2>2, <2>3, <2>5 DEF EvictingFrames
  <2>7. FlowFinite'
    BY <1>1, <2>5 DEF FlowFinite, FlowInv
  <2> QED  BY <1>1, <2>3, <2>6, <2>7 DEF Flow!flow
<1>3. CASE WorkerFree(w)
  <2>1. /\ free' = free + 1 /\ inflight[w] > 0 /\ eviction' = eviction
        /\ inflight' = [inflight EXCEPT ![w] = inflight[w] - 1]
    BY <1>3 DEF WorkerFree
  <2>2. inflight' = [inflight EXCEPT ![w] = inflight[w] + (-1)]
    <3>1. inflight[w] + (-1) = inflight[w] - 1
      BY <1>0
    <3> QED  BY <2>1, <3>1
  <2>3. IsFiniteSet(Units(inflight')) /\ Total(inflight') = Total(inflight) + (-1)
    <3>1. -1 \in Int
      OBVIOUS
    <3> QED  BY <2>2, <3>1, InflightStep, Zenon
  <2>4. EvictingFrames' = EvictingFrames - 1 /\ EvictingFrames > 0
    <3>1. Total(inflight') \in Nat
      BY <2>3, FS_CardinalityType DEF Total
    <3> QED  BY <1>1, <1>n, <2>1, <2>3, <3>1 DEF EvictingFrames
  <2>5. Flow!Evict
    BY <1>1, <2>1, <2>4 DEF Flow!Evict
  <2>6. FlowFinite'
    BY <1>1, <2>3 DEF FlowFinite, FlowInv
  <2> QED  BY <2>5, <2>6 DEF Flow!Next
<1> QED  BY <1>2, <1>3 DEF WorkerStep

\* Every step moves one frame or none between the places of FrameFlow.
LEMMA FlowNext == FlowInv /\ [Next]_vars => FlowInv' /\ [Flow!Next]_(Flow!flow)
<1> SUFFICES ASSUME FlowInv, [Next]_vars PROVE FlowFinite' /\ [Flow!Next]_(Flow!flow)
  BY NextReclaim DEF FlowInv
<1>0. ReclaimInv' /\ CountInv' /\ ControlInv
  <2>1. ReclaimInv'
    BY NextReclaim DEF FlowInv
  <2> QED  BY <2>1 DEF ReclaimInv, FlowInv
<1>1. ASSUME NEW t \in Threads, ThreadStep(t) \/ \E n \in 1 .. MaxBatch : Fault(t, n)
      PROVE  FlowFinite' /\ [Flow!Next]_(Flow!flow)
  BY <1>0, <1>1, ThreadFlow, ScanFlow DEF ThreadStep, Scanners
<1>2. CASE KswapdCheck \/ KswapdWait \/ KswapdRun \/ KswapdCount \/ KswapdStop
  <2>1. UNCHANGED <<lists, inflight, search>>
    BY <1>2 DEF KswapdCheck, KswapdWait, KswapdRun, KswapdCount, KswapdStop
  <2>2. \E l \in {"lock", "run", "wait", "count", "direct", "check"} : Goto(kswapd, l)
    BY <1>2 DEF KswapdCheck, KswapdWait, KswapdRun, KswapdCount, KswapdStop
  <2>3. \A u \in Threads : pc'[u] = pc[u]
    BY <1>0, <2>2, GoesTo, ReclaimAssumption DEF Scanners
  <2> QED  BY <2>1, <2>3, NoFlow DEF lists, Resident
<1>3. CASE KswapdStep
  BY <1>2, <1>3, ScanFlow DEF KswapdStep, Scanners
<1>4. ASSUME NEW w \in Workers, WorkerStep(w) PROVE FlowFinite' /\ [Flow!Next]_(Flow!flow)
  BY <1>0, <1>4, WorkerFlow
<1>5. CASE Access \/ Aborted \/ UNCHANGED vars
  <2>1. UNCHANGED <<free, active, inactive, eviction, inflight, pc, search>>
    BY <1>5 DEF Access, Aborted, vars, lists
  <2> QED  BY <2>1, NoFlow DEF Resident
<1> QED  BY <1>1, <1>3, <1>4, <1>5 DEF Next

\* Whatever the scans decide, and for any number of frames, threads and workers,
\* every step of reclaim moves one frame to its next place in FrameFlow or none.
THEOREM ReclaimImplementsFlowHolds == Spec => ReclaimImplementsFlow
<1>1. Init => FlowInv /\ Flow!Init
  <2> SUFFICES ASSUME Init PROVE FlowInv /\ Flow!Init
    OBVIOUS
  <2>1. ReclaimInv
    BY InitControl, InitLocal, InitCount DEF ReclaimInv
  <2>2. /\ free = NFrames /\ active = 0 /\ inactive = 0 /\ eviction = 0
        /\ inflight = [w \in Workers |-> 0] /\ search = [t \in Threads |-> NoSearch]
        /\ pc = [e \in Scanners |-> IF e = kswapd THEN "check" ELSE "idle"]
    BY DEF Init
  <2>3. SelfEvicting = {}
    BY <2>2 DEF SelfEvicting, Scanners
  <2>4. Units(Have) = {} /\ Total(Have) = 0
    <3>1. \A t \in DOMAIN Have : Have[t] = 0
      BY <2>2 DEF Have, NoSearch
    <3> QED  BY <3>1, TotalZero
  <2>5. Units(inflight) = {} /\ Total(inflight) = 0
    BY <2>2, TotalZero
  <2>6. IsFiniteSet({}) /\ Cardinality({}) = 0
    BY FS_EmptySet
  <2>7. FlowFinite
    BY <2>3, <2>4, <2>5, <2>6 DEF FlowFinite
  <2>8. HeldFrames = 0 /\ Resident = 0 /\ EvictingFrames = 0
    BY <2>2, <2>3, <2>4, <2>5, <2>6 DEF HeldFrames, Resident, EvictingFrames
  <2> QED  BY <2>1, <2>2, <2>7, <2>8 DEF FlowInv, Flow!Init
<1>2. FlowInv /\ [Next]_vars => FlowInv' /\ [Flow!Next]_(Flow!flow)
  BY FlowNext
<1> QED  BY <1>1, <1>2, PTL DEF Spec, ReclaimImplementsFlow, Flow!Spec

=============================================================================
