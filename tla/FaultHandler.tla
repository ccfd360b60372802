----------------------------- MODULE FaultHandler -----------------------------
(***************************************************************************)
(* The application's accesses and what its threads do in the SIGBUS        *)
(* handler: first touch, swap-in, waiting for a page that is being moved,  *)
(* the search for a free frame, and the prefetch after a run of major      *)
(* faults.                                                                 *)
(*                                                                         *)
(* Steps that only touch what the thread holds alone (a descriptor on no   *)
(* list, a page it claimed by setting migrating under handler_lock) are    *)
(* part of the next or the previous shared step.                           *)
(***************************************************************************)
EXTENDS Eviction, Reclaim

\* Back to the instruction that faulted.
Resume(t) == /\ fault' = [fault EXCEPT ![t] = NoFault]
             /\ pc' = [pc EXCEPT ![t] = "idle"]

-----------------------------------------------------------------------------
(* The application.                                                         *)

\* A store that the page table lets through.
Store(t, v, x) ==
    /\ At(t, "idle")
    /\ pte[v].present /\ ~pte[v].wp
    /\ pte' = [pte EXCEPT ![v].data = x, ![v].dirty = TRUE]
    /\ UNCHANGED <<page, fifo, pages, disk, pc, fault, scan, evict, failed>>

\* An access that it does not: SIGBUS.
Touch(t, v) ==
    /\ At(t, "idle")
    /\ ~pte[v].present \/ pte[v].wp
    /\ fault' = [fault EXCEPT ![t].addr = v]
    /\ pc' = [pc EXCEPT ![t] = "signal"]
    /\ UNCHANGED <<sharedVars, scan, evict, failed>>

-----------------------------------------------------------------------------
(* uswap_sig_handler, handle_wp_fault and the head of handle_missing_fault. *)

uswap_sig_handler(t) ==
    LET p == find_page(fault[t].addr)
    IN  /\ At(t, "signal")
        /\ \/ /\ p = 0
              /\ fault' = [fault EXCEPT ![t].job = "first"]
              /\ pc' = [pc EXCEPT ![t] = "fetch"]
           \/ /\ p # 0 /\ page[p].swapped_out
              /\ fault' = [fault EXCEPT ![t].page = p]
              /\ pc' = [pc EXCEPT ![t] = "missing"]
           \/ /\ p # 0 /\ ~page[p].swapped_out
              /\ fault' = [fault EXCEPT ![t].page = p]
              /\ pc' = [pc EXCEPT ![t] = "spin"]
        /\ UNCHANGED <<sharedVars, scan, evict, failed>>

\* while (page->migrating); return
Spin(t) ==
    /\ At(t, "spin")
    /\ ~page[fault[t].page].migrating
    /\ Resume(t)
    /\ UNCHANGED <<sharedVars, scan, evict, failed>>

\* Mutant: a page that somebody is already moving is claimed again.
Claimable_IgnoresMigrating(p) == page[p].swapped_out

\* What handler_lock protects when a page is claimed for swap-in.
Claimable(p) == ~page[p].migrating /\ page[p].swapped_out

\* Asserts of lrudisk_detach_page and lrudisk_swapin_external_async, and those
\* of core_migrate_up_async_start.
DetachAsserts(p) == page[p].list = "disk_active"

StartReadAsserts(p) == ~page[p].in_dram /\ InDisk(page[p].virtual_offset)

ClaimPage(p) == [page EXCEPT ![p].migrating = TRUE, ![p].list = "none"]

handle_missing_fault(t) ==
    LET p == fault[t].page
    IN  /\ At(t, "missing")
        /\ \/ /\ ~Claimable(p)
              /\ pc' = [pc EXCEPT ![t] = "spin"]
              /\ UNCHANGED <<sharedVars, fault, scan, evict, failed>>
           \/ /\ Claimable(p)
              /\ IF DetachAsserts(p) /\ StartReadAsserts(p)
                 THEN /\ page' = ClaimPage(p)
                      /\ fault' = [fault EXCEPT ![t].job = "swapin", ![t].reading = <<p>>]
                      /\ pc' = [pc EXCEPT ![t] = "fetch"]
                      /\ UNCHANGED <<fifo, pages, pte, disk, scan, evict, failed>>
                 ELSE Abort("list == &disk_active_list")

\* The device completes the reads a thread has submitted, some time before the
\* thread waits for them.
DiskRead(t) ==
    /\ failed = "none" /\ pc[t] # "find"
    /\ fault[t].reading # <<>> /\ fault[t].buf = <<>>
    /\ fault' = [fault EXCEPT ![t].buf =
                   [i \in 1 .. Len(fault[t].reading) |->
                      disk[page[fault[t].reading[i]].virtual_offset]]]
    /\ UNCHANGED <<sharedVars, pc, scan, evict, failed>>

-----------------------------------------------------------------------------
(* fetch_free_asynch: a free frame, else a reclaim scan, else an eviction.  *)

\* The caller has its n-th frame: lrudisk_pagefault marks it, and the caller
\* goes on when it has as many as it needs.
FramePage(t, d) == [d EXCEPT !.migrating = @ \/ fault[t].job # "swapin"]

ReceiveFrame(t, d) ==
    /\ fault' = [fault EXCEPT ![t].frees = Append(@, d)]
    /\ pc' = [pc EXCEPT ![t] =
                CASE fault[t].job = "first" -> "allocate"
                  [] Len(fault[t].frees) + 1 < Len(fault[t].reading) -> "fetch"
                  [] OTHER -> "finish"]

FetchFree(t) ==
    /\ At(t, "fetch")
    /\ fifo["dram_free"] # <<>>
    /\ LET d == Head(fifo["dram_free"]) IN
         /\ fifo' = DequeueFifo("dram_free")
         /\ page' = [page EXCEPT ![d] = [FramePage(t, page[d]) EXCEPT !.list = "none"]]
         /\ ReceiveFrame(t, d)
    /\ UNCHANGED <<pages, pte, disk, scan, evict, failed>>

FetchReclaim(t) ==
    /\ At(t, "fetch")
    /\ fifo["dram_free"] = <<>>
    /\ pc' = [pc EXCEPT ![t] = "reclaim"]
    /\ UNCHANGED <<sharedVars, fault, scan, evict, failed>>

\* Nothing on eviction_list either: the loop starts again.
FetchRetry(t) ==
    /\ At(t, "reclaim")
    /\ fifo["eviction"] = <<>>
    /\ pc' = [pc EXCEPT ![t] = "fetch"]
    /\ UNCHANGED <<sharedVars, fault, scan, evict, failed>>

\* Or it has run out of priorities; how often it went round is not recorded.
FetchOutOfMemory(t) ==
    /\ At(t, "reclaim")
    /\ fifo["eviction"] = <<>>
    /\ Abort("Out of memory")

\* The end of a thread's own eviction, whose frame it returns.
FetchEvicted(t) ==
    /\ At(t, "release")
    /\ IF ReleaseAsserts(t)
       THEN /\ page' = [page EXCEPT ![Victim(t)].migrating = FALSE,
                                    ![DiskPage(t)] = FramePage(t, page[DiskPage(t)])]
            /\ evict' = [evict EXCEPT ![t] = NoEvict]
            /\ ReceiveFrame(t, DiskPage(t))
            /\ UNCHANGED <<fifo, pages, pte, disk, scan, failed>>
       ELSE Abort("page->migrating && page->swapped_out")

-----------------------------------------------------------------------------
(* handle_first_fault.                                                      *)

NewPage(t) == fault[t].frees[1]

\* The section under allocator_lock: the address may have been mapped by now.
FirstAllocate(t) ==
    LET v == fault[t].addr
        n == NewPage(t)
    IN  /\ At(t, "allocate")
        /\ \/ /\ find_page(v) # 0
              /\ fault' = [fault EXCEPT ![t].page = find_page(v)]
              /\ pc' = [pc EXCEPT ![t] = "put_back"]
              /\ UNCHANGED <<sharedVars, scan, evict, failed>>
           \/ /\ find_page(v) = 0
              /\ IF page[n].va = 0
                 THEN /\ page' = [page EXCEPT ![n].migrating = TRUE,
                                              ![n].swapped_out = FALSE, ![n].va = v]
                      /\ pages' = add_page(v, n)
                      /\ pc' = [pc EXCEPT ![t] = "map"]
                      /\ UNCHANGED <<fifo, pte, disk, fault, scan, evict, failed>>
                 ELSE Abort("page->va == 0")

\* Mutant: the frame is not given back.
PutBack_Leaks(t) ==
    /\ At(t, "put_back")
    /\ fault' = [fault EXCEPT ![t].frees = <<>>]
    /\ pc' = [pc EXCEPT ![t] = "spin"]
    /\ UNCHANGED <<sharedVars, scan, evict, failed>>

\* policy_put_freepage, then wait for the thread that was first.
PutBack(t) ==
    LET n == NewPage(t)
    IN  /\ At(t, "put_back")
        /\ IF page[n].list = "none" /\ page[n].va = 0
           THEN /\ fifo' = EnqueueFifo("dram_free", n)
                /\ page' = [page EXCEPT ![n].list = "dram_free"]
                /\ fault' = [fault EXCEPT ![t].frees = <<>>]
                /\ pc' = [pc EXCEPT ![t] = "spin"]
                /\ UNCHANGED <<pages, pte, disk, scan, evict, failed>>
           ELSE Abort("page->list == NULL && page->va == 0")

\* A zero page is mapped; UFFDIO_COPY fails if something is mapped there.
FirstMap(t) ==
    LET n == NewPage(t)
    IN  /\ At(t, "map")
        /\ IF page[n].in_dram /\ ~pte[page[n].va].present
           THEN /\ pte' = UffdioCopy(page[n].va, Zero)
                /\ page' = [page EXCEPT ![n].migrating = FALSE, ![n].swapped_out = FALSE]
                /\ pc' = [pc EXCEPT ![t] = "add"]
                /\ UNCHANGED <<fifo, pages, disk, fault, scan, evict, failed>>
           ELSE Abort("first touch: in_dram, UFFDIO_COPY")

\* policy_add_page
FirstAdd(t) ==
    LET n == NewPage(t)
    IN  /\ At(t, "add")
        /\ IF page[n].list = "none"
           THEN /\ fifo' = EnqueueFifo("inactive", n)
                /\ page' = [page EXCEPT ![n].list = "inactive"]
                /\ Resume(t)
                /\ UNCHANGED <<pages, pte, disk, scan, evict, failed>>
           ELSE Abort("page->list == NULL")

-----------------------------------------------------------------------------
(* Swap-in: the tail of lrudisk_swapin_external_async and handle_missing_   *)
(* fault, and the same steps by core_try_prefetch and lrudisk_ack_swapin.   *)

FinishAsserts(t, p, d) ==
    /\ page[d].in_dram
    /\ fault[t].job = "swapin" => /\ StartReadAsserts(p)
                                  /\ InDram(page[d].virtual_offset)
    /\ fault[t].job = "prefetch" => /\ page[d].list = "none" /\ page[p].list = "none"
                                    /\ page[p].swapped_out /\ page[p].migrating
    /\ ~pte[page[p].va].present

\* Mutant: the reserve keeps the offset of the frame.
AsReserve_KeepsOffset(d, p, file_offset) ==
    [d EXCEPT !.in_dram = FALSE, !.swapped_out = TRUE, !.migrating = FALSE,
              !.reserve = p, !.list = "disk_reserve"]

\* The frame's descriptor comes to stand for the slot, as p's reserve.
AsReserve(d, p, file_offset) ==
    [d EXCEPT !.virtual_offset = file_offset, !.in_dram = FALSE,
              !.swapped_out = TRUE, !.migrating = FALSE,
              !.reserve = p, !.list = "disk_reserve"]

\* Mutant: the page is mapped without waiting for the read.
FinishRead_NoWait(t) ==
    LET p == Head(fault[t].reading)
        d == Head(fault[t].frees)
    IN  /\ At(t, "finish")
        /\ FinishAsserts(t, p, d)
        /\ pte' = UffdioCopy(page[p].va, Zero)
        /\ page' = [page EXCEPT
             ![p].virtual_offset = page[d].virtual_offset,
             ![p].in_dram = @ \/ fault[t].job = "swapin",
             ![p].reserve = d,
             ![d] = AsReserve(page[d], p, page[p].virtual_offset)]
        /\ fault' = [fault EXCEPT ![t].page = p, ![t].reading = Tail(@),
                                  ![t].buf = <<>>, ![t].frees = Tail(@)]
        /\ pc' = [pc EXCEPT ![t] = "publish"]
        /\ UNCHANGED <<fifo, pages, disk, scan, evict, failed>>

\* The contents are there and the page is mapped.  It takes the frame, and the
\* frame's descriptor now stands for the slot, kept as the page's reserve.
FinishRead(t) ==
    LET p == Head(fault[t].reading)
        d == Head(fault[t].frees)
    IN  /\ At(t, "finish")
        /\ fault[t].buf # <<>>
        /\ IF FinishAsserts(t, p, d)
           THEN /\ pte' = UffdioCopy(page[p].va, Head(fault[t].buf))
                /\ page' = [page EXCEPT
                     ![p].virtual_offset = page[d].virtual_offset,
                     ![p].in_dram = @ \/ fault[t].job = "swapin",
                     ![p].reserve = d,
                     ![d] = AsReserve(page[d], p, page[p].virtual_offset)]
                /\ fault' = [fault EXCEPT ![t].page = p, ![t].reading = Tail(@),
                                          ![t].buf = Tail(@), ![t].frees = Tail(@)]
                /\ pc' = [pc EXCEPT ![t] = "publish"]
                /\ UNCHANGED <<fifo, pages, disk, scan, evict, failed>>
           ELSE Abort("swap-in: freepage->in_dram, UFFDIO_COPY")

\* enqueue_fifo(&inactive_list, page): reclaim can see the page from here on.
PublishPage(t) ==
    /\ At(t, "publish")
    /\ fifo' = EnqueueFifo("inactive", fault[t].page)
    /\ page' = [page EXCEPT ![fault[t].page].list = "inactive"]
    /\ pc' = [pc EXCEPT ![t] = IF fault[t].job = "swapin" THEN "settle" ELSE "resident"]
    /\ UNCHANGED <<pages, pte, disk, fault, scan, evict, failed>>

\* page->in_dram = true, in core_try_prefetch
PrefetchResident(t) ==
    /\ At(t, "resident")
    /\ page' = [page EXCEPT ![fault[t].page].in_dram = TRUE]
    /\ pc' = [pc EXCEPT ![t] = "settle"]
    /\ UNCHANGED <<fifo, pages, pte, disk, fault, scan, evict, failed>>

\* The second section under handler_lock.  After a swap-in the thread may have
\* seen a sequential run and go on to prefetch; after a prefetch it maps the
\* next page of its batch.
Settle(t) ==
    LET p == fault[t].page
    IN  /\ At(t, "settle")
        /\ page' = [page EXCEPT ![p].swapped_out = FALSE, ![p].migrating = FALSE]
        /\ \/ fault[t].reading = <<>> /\ Resume(t)
           \/ /\ fault[t].job = "swapin" /\ PrefetchRate > 0
              /\ fault' = [fault EXCEPT ![t].job = "prefetch", ![t].page = 0]
              /\ pc' = [pc EXCEPT ![t] = "find"]
           \/ /\ fault[t].reading # <<>>
              /\ fault' = [fault EXCEPT ![t].page = 0]
              /\ pc' = [pc EXCEPT ![t] = "finish"]
        /\ UNCHANGED <<fifo, pages, pte, disk, scan, evict, failed>>

(***************************************************************************)
(* The first loop of core_try_prefetch: it claims the pages that follow    *)
(* the faulting one, up to the first that is not swapped out or is moving. *)
(***************************************************************************)
PrefetchNext(t) == fault[t].addr + Len(fault[t].reading) + 1

PrefetchWanted(t) ==
    /\ Len(fault[t].reading) < PrefetchRate
    /\ PrefetchNext(t) \in VA
    /\ find_page(PrefetchNext(t)) # 0
    /\ Claimable(find_page(PrefetchNext(t)))

PrefetchFind(t) ==
    LET p == find_page(PrefetchNext(t))
    IN  /\ At(t, "find")
        /\ \/ /\ PrefetchWanted(t)
              /\ IF DetachAsserts(p)
                 THEN /\ page' = ClaimPage(p)
                      /\ fault' = [fault EXCEPT ![t].reading = Append(@, p)]
                      /\ UNCHANGED <<fifo, pages, pte, disk, pc, scan, evict, failed>>
                 ELSE Abort("list == &disk_active_list")
           \/ /\ ~PrefetchWanted(t)
              /\ fault[t].reading = <<>>
              /\ Resume(t)
              /\ UNCHANGED <<sharedVars, scan, evict, failed>>
           \/ /\ ~PrefetchWanted(t)
              /\ fault[t].reading # <<>>
              /\ pc' = [pc EXCEPT ![t] = "fetch"]
              /\ UNCHANGED <<sharedVars, fault, scan, evict, failed>>

FaultStep(t) ==
    \/ uswap_sig_handler(t)
    \/ Spin(t)
    \/ handle_missing_fault(t)
    \/ DiskRead(t)
    \/ FetchFree(t)
    \/ FetchReclaim(t)
    \/ FetchRetry(t)
    \/ FetchOutOfMemory(t)
    \/ FetchEvicted(t)
    \/ FirstAllocate(t)
    \/ PutBack(t)
    \/ FirstMap(t)
    \/ FirstAdd(t)
    \/ FinishRead(t)
    \/ PublishPage(t)
    \/ PrefetchResident(t)
    \/ Settle(t)
    \/ PrefetchFind(t)

=============================================================================
