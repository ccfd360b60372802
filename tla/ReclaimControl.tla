---------------------------- MODULE ReclaimControl ----------------------------
(***************************************************************************)
(* The control of reclaim in disklinux.c: how many pages a scan looks at   *)
(* (priorities, SWAP_CLUSTER_COUNT), when a thread that needs a frame      *)
(* reclaims for itself and when it gives up, and when kswapd sleeps and is *)
(* woken.  fetch_free_asynch, direct_allocate_page_asynch, the two         *)
(* shrink functions, lrudisk_synchkswapd and the supply of frames by the   *)
(* eviction workers.                                                       *)
(*                                                                         *)
(* The lists are their numentries: which page is where is the business of  *)
(* the modules Reclaim, Eviction and FaultHandler.  Of a page's accessed   *)
(* bit it is known how many pages of the inactive list have it set.        *)
(***************************************************************************)
EXTENDS Integers, FiniteSets, Totals

CONSTANTS
    NFrames,        \* dramsize / PAGE_SIZE
    High, Low,      \* the water marks, in pages
    Cluster,        \* SWAP_CLUSTER_COUNT
    MaxPriority,    \* 12, where the priority of every search starts
    Tries,          \* 100, the bound on tries per page wanted
    Threads,
    MaxBatch,       \* frames a thread collects before it uses them
    Workers,
    Vector          \* EVICT_VECTOR_SIZE

kswapd == "kswapd"

ASSUME ReclaimAssumption ==
    /\ NFrames \in Nat \ {0} /\ High \in Nat /\ Low \in Nat /\ Low <= High
    /\ Cluster \in Nat \ {0} /\ MaxPriority \in Nat \ {0} /\ Tries \in Nat \ {0}
    /\ MaxBatch \in Nat \ {0} /\ Vector \in Nat \ {0}
    /\ kswapd \notin Threads

\* Searching threads leave more than half of the frames to others: 32 frames
\* per thread at most, of gigabytes of DRAM.
ASSUME HoldAssumption ==
    Cardinality(Threads) * (MaxBatch - 1) < NFrames - NFrames \div 2

VARIABLES
    free, active, inactive, eviction,   \* numentries of the lists
    hot,                                \* inactive pages with the accessed bit set
    inflight,                           \* pages each worker is evicting
    pc, search, scan,                   \* where a thread or kswapd is, its locals
    kswapd_running, shrinkage_running,
    failed

lists == <<free, active, inactive, eviction, hot>>
flags == <<kswapd_running, shrinkage_running>>
vars == <<lists, inflight, pc, search, scan, flags, failed>>

Scanners == Threads \cup {kswapd}

\* priority: of fetch_free_asynch; need, have: frames wanted and collected.
NoSearch == [priority |-> 0, need |-> 0, have |-> 0]

\* Locals of direct_allocate_page_asynch, and nr_pages, ret and tries of the
\* shrink function it is in.
NoScan == [want |-> 0, to_scan_active |-> 0, to_scan_inactive |-> 0,
           nr_scanned_active |-> 0, nr_scanned_inactive |-> 0, reclaimed |-> 0,
           nr_pages |-> 0, ret |-> 0, tries |-> 0]

Init == /\ free = NFrames /\ active = 0 /\ inactive = 0 /\ eviction = 0 /\ hot = 0
        /\ inflight = [w \in Workers |-> 0]
        /\ pc = [e \in Scanners |-> IF e = kswapd THEN "check" ELSE "idle"]
        /\ search = [t \in Threads |-> NoSearch]
        /\ scan = [e \in Scanners |-> NoScan]
        /\ kswapd_running = FALSE /\ shrinkage_running = FALSE
        /\ failed = "none"

At(e, label) == failed = "none" /\ pc[e] = label

Goto(e, label) == pc' = [pc EXCEPT ![e] = label]

Resident == active + inactive

AtMost(n, bound) == IF n > bound THEN bound ELSE n

-----------------------------------------------------------------------------
(* fetch_free_asynch, called once per frame.                                *)

\* A fault or a prefetch needs n frames.
Fault(t, n) ==
    /\ At(t, "idle")
    /\ search' = [search EXCEPT ![t] = [NoSearch EXCEPT !.need = n]]
    /\ Goto(t, "call")
    /\ UNCHANGED <<lists, inflight, scan, flags, failed>>

\* kswapd is signalled above the high water mark; a signal that finds it not
\* waiting is lost.
WakeKswapd(t) ==
    /\ At(t, "call")
    /\ search' = [search EXCEPT ![t].priority = MaxPriority]
    /\ pc' = [pc EXCEPT ![t] = "fetch",
                        ![kswapd] = IF ~kswapd_running /\ Resident > High /\ @ = "wait"
                                    THEN "run" ELSE @]
    /\ UNCHANGED <<lists, inflight, scan, flags, failed>>

GotFrame(t) ==
    /\ search' = [search EXCEPT ![t].have = @ + 1]
    /\ Goto(t, IF search[t].have + 1 = search[t].need THEN "map" ELSE "call")

FetchFree(t) ==
    /\ At(t, "fetch") /\ free > 0
    /\ free' = free - 1
    /\ GotFrame(t)
    /\ UNCHANGED <<active, inactive, eviction, hot, inflight, scan, flags, failed>>

\* What direct_allocate_page_asynch is called with.
BeginScan(e, want, priority) ==
    scan' = [scan EXCEPT ![e] = [NoScan EXCEPT
               !.want = want,
               !.to_scan_active = active \div 2^priority,
               !.to_scan_inactive = inactive \div 2^priority]]

\* No frame: the thread reclaims, if nobody else seems to and more than half of
\* DRAM is on the lists.
FetchReclaim(t) ==
    /\ At(t, "fetch") /\ free = 0
    /\ \/ /\ ~shrinkage_running /\ Resident > NFrames \div 2
          /\ BeginScan(t, Cluster, search[t].priority)
          /\ Goto(t, "direct")
       \/ /\ shrinkage_running \/ Resident <= NFrames \div 2
          /\ Goto(t, "take")
          /\ UNCHANGED scan
    /\ UNCHANGED <<lists, inflight, search, flags, failed>>

\* A page from eviction_list, which the thread evicts itself, for its frame.
FetchEvict(t) ==
    /\ At(t, "take") /\ eviction > 0
    /\ eviction' = eviction - 1
    /\ Goto(t, "evict")
    /\ UNCHANGED <<free, active, inactive, hot, inflight, search, scan, flags, failed>>

FetchEvicted(t) ==
    /\ At(t, "evict")
    /\ GotFrame(t)
    /\ UNCHANGED <<lists, inflight, scan, flags, failed>>

\* Nothing there either: once more, or the end.
FetchRetry(t) ==
    /\ At(t, "take") /\ eviction = 0
    /\ IF search[t].priority > 0
       THEN Goto(t, "fetch") /\ UNCHANGED failed
       ELSE failed' = "Out of memory" /\ UNCHANGED pc
    /\ UNCHANGED <<lists, inflight, search, scan, flags>>

\* A page is mapped in the frame and put on inactive_list.
MapPage(t) ==
    /\ At(t, "map")
    /\ inactive' = inactive + 1
    /\ search' = [search EXCEPT ![t].have = @ - 1]
    /\ Goto(t, IF search[t].have = 1 THEN "idle" ELSE "map")
    /\ UNCHANGED <<free, active, eviction, hot, inflight, scan, flags, failed>>

-----------------------------------------------------------------------------
(* direct_allocate_page_asynch and the shrink functions.                    *)

\* The loop head: another cluster of the inactive list, or back to the caller.
ScanLoop(e) ==
    LET s == scan[e]
    IN  /\ At(e, "direct")
        /\ s.nr_scanned_inactive < s.to_scan_inactive /\ s.reclaimed < s.want
        /\ scan' = [scan EXCEPT ![e].nr_pages = AtMost(Cluster, inactive),
                                ![e].ret = 0, ![e].tries = 0]
        /\ shrinkage_running' = TRUE
        /\ Goto(e, "shrink_inactive")
        /\ UNCHANGED <<lists, inflight, search, kswapd_running, failed>>

\* Mutant: the priority stays.
ScanReturn_KeepsPriority(e) ==
    LET s == scan[e]
    IN  /\ At(e, "direct")
        /\ ~(s.nr_scanned_inactive < s.to_scan_inactive /\ s.reclaimed < s.want)
        /\ scan' = [scan EXCEPT ![e] = NoScan]
        /\ Goto(e, IF e = kswapd THEN "stop" ELSE "take")
        /\ UNCHANGED <<lists, inflight, search, flags, failed>>

ScanReturn(e) ==
    LET s == scan[e]
    IN  /\ At(e, "direct")
        /\ ~(s.nr_scanned_inactive < s.to_scan_inactive /\ s.reclaimed < s.want)
        /\ scan' = [scan EXCEPT ![e] = NoScan]
        /\ search' = IF e = kswapd THEN search ELSE [search EXCEPT ![e].priority = @ - 1]
        /\ Goto(e, IF e = kswapd THEN "stop" ELSE "take")
        /\ UNCHANGED <<lists, inflight, flags, failed>>

ShrinkMore(e, numentries) ==
    scan[e].ret < scan[e].nr_pages /\ numentries > 0
      /\ scan[e].tries < scan[e].nr_pages * Tries

\* One page of the inactive list: a cold one goes to eviction_list.
ShrinkInactiveCold(e) ==
    /\ At(e, "shrink_inactive") /\ ShrinkMore(e, inactive)
    /\ hot < inactive
    /\ inactive' = inactive - 1 /\ eviction' = eviction + 1
    /\ scan' = [scan EXCEPT ![e].ret = @ + 1, ![e].tries = @ + 1]
    /\ UNCHANGED <<free, active, hot, inflight, pc, search, flags, failed>>

\* An accessed one stays with its bit cleared, or becomes active.
ShrinkInactiveHot(e) ==
    /\ At(e, "shrink_inactive") /\ ShrinkMore(e, inactive)
    /\ hot > 0
    /\ hot' = hot - 1
    /\ \/ UNCHANGED <<active, inactive>>
       \/ active' = active + 1 /\ inactive' = inactive - 1
    /\ scan' = [scan EXCEPT ![e].tries = @ + 1]
    /\ UNCHANGED <<free, eviction, inflight, pc, search, flags, failed>>

\* The end of the cluster, and a cluster of the active list if it is its turn.
ShrinkInactiveDone(e) ==
    LET s == scan[e]
        to_active == s.nr_scanned_active < s.to_scan_active
    IN  /\ At(e, "shrink_inactive") /\ ~ShrinkMore(e, inactive)
        /\ scan' = [scan EXCEPT ![e].reclaimed = @ + s.ret,
                                ![e].nr_scanned_inactive = @ + Cluster,
                                ![e].nr_pages = 0, ![e].ret = 0, ![e].tries = 0]
        /\ shrinkage_running' = FALSE
        /\ Goto(e, IF to_active THEN "begin_active" ELSE "direct")
        /\ UNCHANGED <<lists, inflight, search, kswapd_running, failed>>

ShrinkActiveBegin(e) ==
    /\ At(e, "begin_active")
    /\ scan' = [scan EXCEPT ![e].nr_pages = AtMost(Cluster, active)]
    /\ shrinkage_running' = TRUE
    /\ Goto(e, "shrink_active")
    /\ UNCHANGED <<lists, inflight, search, kswapd_running, failed>>

ShrinkActive(e) ==
    /\ At(e, "shrink_active") /\ ShrinkMore(e, active)
    /\ active' = active - 1 /\ inactive' = inactive + 1
    /\ scan' = [scan EXCEPT ![e].ret = @ + 1, ![e].tries = @ + 1]
    /\ UNCHANGED <<free, eviction, hot, inflight, pc, search, flags, failed>>

\* Mutant: the function returns without clearing the flag.
ShrinkActiveDone_KeepsFlag(e) ==
    /\ At(e, "shrink_active") /\ ~ShrinkMore(e, active)
    /\ scan' = [scan EXCEPT ![e].nr_scanned_active = @ + Cluster,
                            ![e].nr_pages = 0, ![e].ret = 0, ![e].tries = 0]
    /\ Goto(e, "direct")
    /\ UNCHANGED <<lists, inflight, search, flags, failed>>

ShrinkActiveDone(e) ==
    /\ At(e, "shrink_active") /\ ~ShrinkMore(e, active)
    /\ scan' = [scan EXCEPT ![e].nr_scanned_active = @ + Cluster,
                            ![e].nr_pages = 0, ![e].ret = 0, ![e].tries = 0]
    /\ shrinkage_running' = FALSE
    /\ Goto(e, "direct")
    /\ UNCHANGED <<lists, inflight, search, kswapd_running, failed>>

ScanStep(e) == \/ ScanLoop(e) \/ ScanReturn(e)
               \/ ShrinkInactiveCold(e) \/ ShrinkInactiveHot(e) \/ ShrinkInactiveDone(e)
               \/ ShrinkActiveBegin(e) \/ ShrinkActive(e) \/ ShrinkActiveDone(e)

-----------------------------------------------------------------------------
(* lrudisk_synchkswapd.                                                     *)

\* The low water mark is read without kswapd_lock.
KswapdCheck ==
    /\ At(kswapd, "check")
    /\ Goto(kswapd, IF Resident <= Low THEN "lock" ELSE "run")
    /\ UNCHANGED <<lists, inflight, search, scan, flags, failed>>

\* pthread_cond_wait
KswapdWait ==
    /\ At(kswapd, "lock")
    /\ Goto(kswapd, "wait")
    /\ UNCHANGED <<lists, inflight, search, scan, flags, failed>>

KswapdRun ==
    /\ At(kswapd, "run")
    /\ kswapd_running' = TRUE
    /\ Goto(kswapd, "count")
    /\ UNCHANGED <<lists, inflight, search, scan, shrinkage_running, failed>>

\* Mutant: the flag is left set when there is nothing to do.
KswapdCount_KeepsFlag ==
    /\ At(kswapd, "count")
    /\ \/ /\ Resident - Low > 0
          /\ BeginScan(kswapd, Resident - Low, MaxPriority)
          /\ Goto(kswapd, "direct")
       \/ /\ Resident - Low <= 0
          /\ Goto(kswapd, "check")
          /\ UNCHANGED scan
    /\ UNCHANGED <<lists, inflight, search, flags, failed>>

\* It reclaims down to the low water mark, always at the first priority.
KswapdCount ==
    /\ At(kswapd, "count")
    /\ \/ /\ Resident - Low > 0
          /\ BeginScan(kswapd, Resident - Low, MaxPriority)
          /\ Goto(kswapd, "direct")
          /\ UNCHANGED kswapd_running
       \/ /\ Resident - Low <= 0
          /\ kswapd_running' = FALSE
          /\ Goto(kswapd, "check")
          /\ UNCHANGED scan
    /\ UNCHANGED <<lists, inflight, search, shrinkage_running, failed>>

KswapdStop ==
    /\ At(kswapd, "stop")
    /\ kswapd_running' = FALSE
    /\ Goto(kswapd, "check")
    /\ UNCHANGED <<lists, inflight, search, scan, shrinkage_running, failed>>

-----------------------------------------------------------------------------
(* The eviction workers and the application.                                *)

\* Mutant: a worker takes a full vector, whatever is there.
WorkerTake_Full(w) ==
    /\ failed = "none" /\ inflight[w] = 0 /\ eviction > 0
    /\ inflight' = [inflight EXCEPT ![w] = Vector]
    /\ eviction' = IF eviction > Vector THEN eviction - Vector ELSE 0
    /\ UNCHANGED <<free, active, inactive, hot, pc, search, scan, flags, failed>>

\* dequeue_fifo_vector
WorkerTake(w) ==
    /\ failed = "none" /\ inflight[w] = 0 /\ eviction > 0
    /\ inflight' = [inflight EXCEPT ![w] = AtMost(Vector, eviction)]
    /\ eviction' = eviction - AtMost(Vector, eviction)
    /\ UNCHANGED <<free, active, inactive, hot, pc, search, scan, flags, failed>>

WorkerFree(w) ==
    /\ failed = "none" /\ inflight[w] > 0
    /\ inflight' = [inflight EXCEPT ![w] = @ - 1]
    /\ free' = free + 1
    /\ UNCHANGED <<active, inactive, eviction, hot, pc, search, scan, flags, failed>>

\* The application reads or writes a page of the inactive list.
Access ==
    /\ failed = "none" /\ hot < inactive
    /\ hot' = hot + 1
    /\ UNCHANGED <<free, active, inactive, eviction, inflight, pc, search, scan,
                   flags, failed>>

ThreadStep(t) == \/ WakeKswapd(t) \/ FetchFree(t) \/ FetchReclaim(t)
                 \/ FetchEvict(t) \/ FetchEvicted(t) \/ FetchRetry(t)
                 \/ MapPage(t) \/ ScanStep(t)

KswapdStep == KswapdCheck \/ KswapdWait \/ KswapdRun \/ KswapdCount \/ KswapdStop
              \/ ScanStep(kswapd)

WorkerStep(w) == WorkerTake(w) \/ WorkerFree(w)

Aborted == failed # "none" /\ UNCHANGED vars

Next == \/ \E t \in Threads : ThreadStep(t) \/ \E n \in 1 .. MaxBatch : Fault(t, n)
        \/ KswapdStep
        \/ \E w \in Workers : WorkerStep(w)
        \/ Access
        \/ Aborted

Spec == Init /\ [][Next]_vars

\* The threads, kswapd and the workers run for ever: none of them holds a lock
\* while it waits, except in pthread_cond_wait.  Faults and accesses are the
\* application's choice.
Fairness == /\ \A t \in Threads : WF_vars(ThreadStep(t))
            /\ WF_vars(KswapdStep)
            /\ \A w \in Workers : WF_vars(WorkerStep(w))

FairSpec == Spec /\ Fairness

-----------------------------------------------------------------------------
(* Properties.                                                              *)

SearchLocals == [priority : 0 .. MaxPriority, need : 0 .. MaxBatch, have : 0 .. MaxBatch]

\* Every variable keeps its type; no counter of pages goes below zero or above
\* the number of frames.
TypeOK ==
    /\ {free, active, inactive, eviction, hot} \subseteq 0 .. NFrames
    /\ inflight \in [Workers -> 0 .. Vector]
    /\ pc \in [Scanners -> {"idle", "call", "fetch", "take", "evict", "map", "direct",
                            "shrink_inactive", "begin_active", "shrink_active",
                            "check", "lock", "wait", "run", "count", "stop"}]
    /\ search \in [Threads -> SearchLocals]
    /\ \A e \in Scanners : scan[e].tries <= Cluster * Tries
    /\ kswapd_running \in BOOLEAN /\ shrinkage_running \in BOOLEAN
    /\ failed \in {"none", "Out of memory"}

\* shrinkage_running is written by every scan without a lock; whatever the
\* order, it is set only while some scan runs.  A flag left set would keep all
\* threads from reclaiming for ever.
ShrinkageFlagSound ==
    shrinkage_running =>
      \E e \in Scanners : pc[e] \in {"shrink_inactive", "shrink_active"}

\* Frames that threads have collected.
Have       == [t \in Threads |-> search[t].have]
HeldFrames == Total(Have)

\* Frames under pages that wait for a worker, are with one, or are being evicted
\* by the thread that wants the frame.
SelfEvicting   == {t \in Threads : pc[t] = "evict"}
EvictingFrames == eviction + Total(inflight) + Cardinality(SelfEvicting)

Flow == INSTANCE FrameFlow WITH
          held <- HeldFrames, resident <- Resident, evicting <- EvictingFrames

\* Whatever the scans decide, frames move as in FrameFlow, which the paging of
\* module ExtMem implements too: the two models agree on where frames go.
ReclaimImplementsFlow == Flow!Spec

\* A search does not stall: as long as threads look for frames and the
\* application leaves its pages alone, frames are found, or the process gives
\* up.  Nobody waits for a frame that only waiting threads could free.
FramesKeepComing ==
    \/ []<>(\A t \in Threads : pc[t] = "idle")
    \/ []<><<\E t \in Threads : FetchFree(t) \/ FetchEvicted(t)>>_vars
    \/ []<><<Access>>_vars
    \/ <>(failed # "none")

\* A lost wake-up is made good: if threads go on to fault, kswapd does not sleep
\* for ever while the lists are above the high water mark.
KswapdWakes ==
    []<><<\E t \in Threads : WakeKswapd(t)>>_vars
      => []<>(pc[kswapd] # "wait" \/ Resident <= High)

=============================================================================
