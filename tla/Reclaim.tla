------------------------------- MODULE Reclaim -------------------------------
(***************************************************************************)
(* The second-chance scan that feeds eviction_list: shrink_inactive_list   *)
(* and shrink_active_list, run by kswapd and, in fetch_free_asynch, by any *)
(* faulting thread.  A page being scanned is on no list between the        *)
(* dequeue and the enqueue.                                                *)
(*                                                                         *)
(* How many pages a scan looks at (watermarks, priority, SWAP_CLUSTER) and *)
(* the accessed bit only decide which of these steps happen; here any      *)
(* number of them may happen, with either value of the bit.                *)
(***************************************************************************)
EXTENDS PageState

\* Where a scanner is before and after it looks at a page.
ScanPoint(e) == IF e \in Kswapd THEN "idle" ELSE "reclaim"

ScanTake(e, q, next) ==
    /\ At(e, ScanPoint(e))
    /\ fifo[q] # <<>>
    /\ LET p == Head(fifo[q]) IN
         /\ fifo' = DequeueFifo(q)
         /\ page' = [page EXCEPT ![p].list = "none"]
         /\ scan' = [scan EXCEPT ![e] = p]
    /\ pc' = [pc EXCEPT ![e] = next]
    /\ UNCHANGED <<pages, pte, disk, fault, evict, failed>>

ScanPut(e, q) ==
    /\ fifo' = EnqueueFifo(q, scan[e])
    /\ page' = [page EXCEPT ![scan[e]].list = q]
    /\ scan' = [scan EXCEPT ![e] = 0]
    /\ pc' = [pc EXCEPT ![e] = ScanPoint(e)]
    /\ UNCHANGED <<pages, pte, disk, fault, evict, failed>>

\* shrink_inactive_list: an accessed page stays or, the second time, becomes
\* active; one that was not accessed is evicted.
ScanInactive(e) == ScanTake(e, "inactive", "scan_inactive")

\* Mutant: an active page is put back on the inactive list as well.
KeepOrEvict_OnBothLists(e) ==
    /\ At(e, "scan_inactive")
    /\ fifo' = [fifo EXCEPT !["active"] = Append(@, scan[e]),
                            !["inactive"] = Append(@, scan[e])]
    /\ page' = [page EXCEPT ![scan[e]].list = "inactive"]
    /\ scan' = [scan EXCEPT ![e] = 0]
    /\ pc' = [pc EXCEPT ![e] = ScanPoint(e)]
    /\ UNCHANGED <<pages, pte, disk, fault, evict, failed>>

KeepOrEvict(e) ==
    /\ At(e, "scan_inactive")
    /\ \E q \in {"inactive", "active", "eviction"} : ScanPut(e, q)

\* shrink_active_list: the oldest pages of the active list go inactive.
ScanActive(e) == ScanTake(e, "active", "scan_active")

Deactivate(e) == At(e, "scan_active") /\ ScanPut(e, "inactive")

ScanStep(e) == ScanInactive(e) \/ KeepOrEvict(e) \/ ScanActive(e) \/ Deactivate(e)

=============================================================================
