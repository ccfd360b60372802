------------------------------- MODULE PageRank -------------------------------
(***************************************************************************)
(* ExtMem built with the pageRank policy.  pageRank.c shares its page      *)
(* state, swap-in and eviction with disklinux.c; this module puts the same *)
(* actions together the way it does, with what is different:               *)
(*   - a prefetch worker reads ahead of the last page that was swapped in; *)
(*   - once a page was swapped in, a scan keeps the pages in a window      *)
(*     around it and evicts all others, whatever their accessed bit;       *)
(*   - no scan takes pages off the active list;                            *)
(*   - eviction workers evict one page at a time, with                     *)
(*     extmem_migrate_downdisk;                                            *)
(*   - lrudisk_remove_page waits for a page on eviction_list to be         *)
(*     evicted, and neither sets nor clears migrating.                     *)
(* The prefetch worker looks pages up while others unmap them, so that the *)
(* lookup and the claim of core_try_prefetch are two steps here.           *)
(***************************************************************************)
EXTENDS Munmap

CONSTANTS
    Prefetchers,    \* the prefetch worker, one of Threads
    Block,          \* PR_BLOCK_SIZE, in pages
    Behind,         \* pages kept behind the last one swapped in
    Ahead,          \* pages kept ahead of it: PR_WINDOW_SIZE and 2 MB
    MinVma,         \* the smallest mapping that is worth reading ahead
    MapRanges       \* what the application maps and unmaps

ASSUME PageRankAssumption ==
    /\ Prefetchers \subseteq Threads
    /\ Block \in Nat \ {0} /\ Behind \in Nat /\ Ahead \in Nat /\ MinVma \in Nat
    /\ 2 * Block + PrefetchRate < Ahead
    /\ MapRanges \subseteq Ranges

VARIABLES
    safe_to_free,   \* the page that was swapped in last, by its address
    main_vma,       \* the size of the mapping that was made last
    found,          \* a page that a prefetch looked up and has not yet claimed
    round           \* locals of the prefetch worker: block_head, prefetch_head (0
                    \* between rounds) and nr_prefetched

rankVars == <<safe_to_free, main_vma, found, round>>
prVars == <<mapVars, rankVars>>

\* block_head is not initialised.
PrInit == /\ MapInit
          /\ safe_to_free = 0 /\ main_vma = NVa
          /\ found = [t \in Threads |-> 0]
          /\ round \in [Prefetchers -> [block : 0 .. NVa, head : {0}, nr : {0}]]

KeepsMap == UNCHANGED <<mapped, unmap, newmap>>

-----------------------------------------------------------------------------
(* lrudisk_prefetchworker.                                                  *)

\* core_try_prefetch(head); beyond the last page there is nothing to find.
CallPrefetch(w, head) ==
    /\ fault' = [fault EXCEPT ![w] = [NoFault EXCEPT !.addr = head, !.job = "prefetch"]]
    /\ pc' = [pc EXCEPT ![w] = "find"]
    /\ UNCHANGED <<sharedVars, scan, evict, failed>>

\* The page swapped in last has changed: read the block after the next.
PrefetchBegin(w) ==
    LET block_head == safe_to_free + Block
    IN  /\ At(w, "idle") /\ round[w].head = 0
        /\ safe_to_free # 0 /\ main_vma >= MinVma
        /\ round[w].block # block_head
        /\ round' = [round EXCEPT ![w] = [block |-> block_head, nr |-> 0,
                       head |-> IF block_head \in VA THEN block_head ELSE 0]]
        /\ IF block_head \in VA THEN CallPrefetch(w, block_head) ELSE UNCHANGED vars
        /\ KeepsMap /\ UNCHANGED <<safe_to_free, main_vma, found>>

\* The head of the inner loop, after a call that read something.
MorePages(w) == round[w].nr > 0 /\ round[w].head + round[w].nr <= round[w].block + Block

PrefetchReturn(w) ==
    LET head == round[w].head + round[w].nr
        more == MorePages(w) /\ head \in VA
    IN  /\ At(w, "idle") /\ round[w].head # 0
        /\ round' = [round EXCEPT ![w].head = IF more THEN head ELSE 0, ![w].nr = 0]
        /\ IF more THEN CallPrefetch(w, head) ELSE UNCHANGED vars
        /\ KeepsMap /\ UNCHANGED <<safe_to_free, main_vma, found>>

-----------------------------------------------------------------------------
(* The first loop of core_try_prefetch.                                     *)

PrefetchStop(t) ==
    /\ IF fault[t].reading = <<>>
       THEN Resume(t)
       ELSE pc' = [pc EXCEPT ![t] = "fetch"] /\ UNCHANGED fault
    /\ round' = IF t \in Prefetchers THEN [round EXCEPT ![t].nr = Len(fault[t].reading)]
                ELSE round
    /\ UNCHANGED <<sharedVars, scan, evict, failed>>

\* find_page
PrefetchLookup(t) ==
    LET next == PrefetchNext(t)
        more == Len(fault[t].reading) < PrefetchRate /\ next \in VA
    IN  /\ At(t, "find") /\ found[t] = 0
        /\ \/ /\ more /\ find_page(next) # 0
              /\ found' = [found EXCEPT ![t] = find_page(next)]
              /\ UNCHANGED <<vars, round>>
           \/ /\ ~(more /\ find_page(next) # 0)
              /\ PrefetchStop(t)
              /\ UNCHANGED found
        /\ KeepsMap /\ UNCHANGED <<safe_to_free, main_vma>>

\* Mutant: the page is left on its list.
PrefetchClaim_Attached(t) ==
    LET p == found[t]
    IN  /\ At(t, "find") /\ p # 0
        /\ found' = [found EXCEPT ![t] = 0]
        /\ \/ Claimable(p)
              /\ page' = [page EXCEPT ![p].migrating = TRUE]
              /\ fault' = [fault EXCEPT ![t].reading = Append(@, p)]
              /\ UNCHANGED <<fifo, pages, pte, disk, pc, scan, evict, failed, round>>
           \/ ~Claimable(p) /\ PrefetchStop(t)
        /\ KeepsMap /\ UNCHANGED <<safe_to_free, main_vma>>

\* The page is no longer the one that was looked up: the assertion fails, or it
\* has just passed and the section under handler_lock finds out.
PrefetchClaim(t) ==
    LET p == found[t]
        same == page[p].va = PrefetchNext(t)
    IN  /\ At(t, "find") /\ p # 0
        /\ found' = [found EXCEPT ![t] = 0]
        /\ \/ same /\ Claimable(p) /\ DetachAsserts(p)
              /\ page' = ClaimPage(p)
              /\ fault' = [fault EXCEPT ![t].reading = Append(@, p)]
              /\ UNCHANGED <<fifo, pages, pte, disk, pc, scan, evict, failed, round>>
           \/ same /\ Claimable(p) /\ ~DetachAsserts(p)
              /\ Abort("list == &disk_active_list") /\ UNCHANGED round
           \/ ~(same /\ Claimable(p)) /\ PrefetchStop(t)
           \/ ~same /\ Abort("page->va == page_boundry") /\ UNCHANGED round
        /\ KeepsMap /\ UNCHANGED <<safe_to_free, main_vma>>

-----------------------------------------------------------------------------
(* Scans.                                                                   *)

\* Mutant: the two sides are confused.
InWindow_Swapped(v) == \/ v < safe_to_free /\ safe_to_free - v < Ahead
                       \/ v > safe_to_free /\ v - safe_to_free < Behind

\* The page at safe_to_free itself is in neither part.
InWindow(v) == \/ v < safe_to_free /\ safe_to_free - v < Behind
               \/ v > safe_to_free /\ v - safe_to_free < Ahead

\* shrink_inactive_list
KeepWindow(e) ==
    /\ At(e, "scan_inactive")
    /\ IF safe_to_free = 0
       THEN KeepOrEvict(e)
       ELSE ScanPut(e, IF InWindow(page[scan[e]].va) THEN "inactive" ELSE "eviction")

\* By threads and kswapd; the active list is left alone.
direct_allocate_page_asynch(e) == /\ ScanInactive(e) \/ KeepWindow(e)
                                  /\ KeepsMap /\ UNCHANGED rankVars

-----------------------------------------------------------------------------
(* Eviction.                                                                *)

\* extmem_migrate_downdisk, by workers too.
PrWriteBack(e) ==
    LET p == Victim(e)
        s == page[DiskPage(e)].virtual_offset
    IN  /\ At(e, "write")
        /\ IF ~page[p].in_dram THEN Abort("page->in_dram")
           ELSE IF ~(InDram(page[p].virtual_offset) /\ InDisk(s))
           THEN Abort("offset inside dramsize, disksize")
           ELSE /\ disk' = IF evict[e].writeback
                           THEN DiskWrite(s, pte[page[p].va].data) ELSE disk
                /\ page' = [page EXCEPT ![p].migrating = TRUE]
                /\ pc' = [pc EXCEPT ![e] = "unmap"]
                /\ UNCHANGED <<fifo, pages, pte, fault, scan, evict, failed>>

PrEvictStep(e) == \/ TakeVictim(e) \/ ProtectVictim(e) \/ BackByReserve(e)
                  \/ BackByFreeSlot(e) \/ PrWriteBack(e) \/ UnmapVictim(e)
                  \/ MarkSwappedOut(e) \/ FreeFrame(e) \/ TrackVictim(e)

\* A worker looks at its victim's address before anything else.
lrudisk_evictionworker(w) ==
    IF pc[w] = "protect" /\ page[Victim(w)].va = 0
    THEN At(w, "protect") /\ Abort("victim->va != 0")
    ELSE PrEvictStep(w) \/ ReleaseVictim(w)

-----------------------------------------------------------------------------
(* Faults.                                                                  *)

fetch_free_asynch(t) == \/ FetchFree(t) \/ FetchReclaim(t) \/ FetchRetry(t)
                        \/ FetchOutOfMemory(t) \/ FetchEvicted(t)
                        \/ PrEvictStep(t)

lrudisk_swapin_external_async(t) ==
    \/ /\ handle_missing_fault(t)
       /\ safe_to_free' = IF pc'[t] = "fetch" THEN page[fault[t].page].va ELSE safe_to_free
    \/ /\ fault[t].job = "swapin"
       /\ DiskRead(t) \/ FinishRead(t) \/ PublishPage(t)
       /\ UNCHANGED safe_to_free

lrudisk_ack_swapin(t) == /\ fault[t].job = "prefetch"
                         /\ FinishRead(t) \/ PublishPage(t)

\* handle_first_fault, which allocates under allocator_lock.
FirstTouch(t) == \/ unmap.at = "idle" /\ FirstAllocate(t)
                 \/ PutBack(t) \/ FirstMap(t) \/ FirstAdd(t)

\* What the handler does apart from the policy.
HandlerStep(t) == \/ uswap_sig_handler(t) \/ Spin(t) \/ FirstTouch(t) \/ Settle(t)
                  \/ fault[t].job = "prefetch" /\ (DiskRead(t) \/ PrefetchResident(t))

PrThreadStep(t) ==
    \/ /\ HandlerStep(t) \/ fetch_free_asynch(t) \/ lrudisk_ack_swapin(t)
       /\ KeepsMap /\ UNCHANGED rankVars
    \/ /\ lrudisk_swapin_external_async(t)
       /\ KeepsMap /\ UNCHANGED <<main_vma, found, round>>
    \/ PrefetchLookup(t)
    \/ PrefetchClaim(t)

PrefetcherStep(w) == PrefetchBegin(w) \/ PrefetchReturn(w)

PrWorkerStep(w) == lrudisk_evictionworker(w) /\ KeepsMap /\ UNCHANGED rankVars

-----------------------------------------------------------------------------
(* lrudisk_remove_page and lrudisk_ack_vma.                                 *)

lrudisk_remove_page ==
    /\ UnmapAt("remove")
    /\ pages' = [pages EXCEPT ![page[unmap.page].va] = 0]
    /\ UnmapTo("take")
    /\ UNCHANGED <<page, fifo, pte, disk, pc, fault, scan, evict, failed, mapped, newmap>>

\* Mutant: the page is not taken off its list.
PrUnmapTake_LeavesOnList ==
    LET p == unmap.page
    IN  /\ UnmapAt("take")
        /\ page[p].list # "none"
        /\ page' = [page EXCEPT ![p].list = "none", ![p].va = 0]
        /\ UnmapTo("free")
        /\ UNCHANGED <<fifo, pages, pte, disk, pc, fault, scan, evict, failed, mapped, newmap>>

\* A page on eviction_list is left to the workers.
PrUnmapTake == UnmapAt("take") /\ page[unmap.page].list # "eviction" /\ UnmapTake

PrUnmapRelease ==
    /\ UnmapAt("release")
    /\ unmap' = [unmap EXCEPT !.at = "page", !.page = 0, !.todo = @ \ {First(@)}]
    /\ UNCHANGED <<vars, mapped, newmap>>

PrUnmapStep == /\ \/ UnmapFind \/ UnmapWait \/ UnmapRelock \/ lrudisk_remove_page
                  \/ PrUnmapTake
                  \/ UnmapReserve \/ UnmapFree \/ PrUnmapRelease \/ libc_munmap
               /\ UNCHANGED rankVars

lrudisk_ack_vma(t) ==
    /\ MmapReturn(t)
    /\ main_vma' = Cardinality(newmap[t].region)
    /\ UNCHANGED <<safe_to_free, found, round>>

PrMapStep(t) == \/ /\ \/ \E range \in MapRanges : extmem_munmap(t, range)
                                                    \/ extmem_mmap(t, range)
                      \/ PopulatePage(t)
                   /\ UNCHANGED rankVars
                \/ lrudisk_ack_vma(t)

-----------------------------------------------------------------------------
PrNext == \/ \E t \in Threads \ Prefetchers : \/ MappedAccess(t) /\ UNCHANGED rankVars
                                              \/ PrMapStep(t)
          \/ \E t \in Threads : PrThreadStep(t)
          \/ \E w \in Prefetchers : PrefetcherStep(w)
          \/ \E w \in Workers : PrWorkerStep(w)
          \/ \E e \in Scanners : direct_allocate_page_asynch(e)
          \/ PrUnmapStep
          \/ Aborted /\ KeepsMap /\ UNCHANGED rankVars

PrSpec == PrInit /\ [][PrNext]_prVars

(***************************************************************************)
(* Every thread of the process runs again and again: the kernel schedules  *)
(* it, the loops that wait are busy loops, and the device completes what   *)
(* it is given.  What the application does with its memory is up to it.    *)
(***************************************************************************)
PrFairness == /\ WF_prVars(PrUnmapStep)
              /\ \A t \in Threads :
                   WF_prVars(PrThreadStep(t) \/ direct_allocate_page_asynch(t))
              /\ \A w \in Prefetchers : WF_prVars(PrefetcherStep(w))
              /\ \A w \in Workers : WF_prVars(PrWorkerStep(w))
              /\ \A k \in Kswapd : WF_prVars(direct_allocate_page_asynch(k))

FairPrSpec == PrSpec /\ PrFairness

-----------------------------------------------------------------------------
(* Properties.                                                              *)

\* The pages in a prefetch worker's hands, from its claim to the list.
ReadAhead(w) == {p \in Pages : Holds(w, "read", p) \/ Holds(w, "page", p)}

\* The worker and the scans do not work against each other: what is read ahead
\* for the page swapped in last lies in the window that scans keep, however
\* many batches the worker makes of it and whatever is unmapped meanwhile.
ReadAheadIsKept ==
    \A w \in Prefetchers :
      (round[w].head # 0 /\ round[w].block = safe_to_free + Block)
        => \A p \in ReadAhead(w) : InWindow(page[p].va)

\* pageRank.c:560: an eviction worker never finds a page that munmap has freed on
\* eviction_list, though munmap frees pages without the list's lock.
VictimIsMapped == failed # "victim->va != 0"

\* A page that others wait for is moved by somebody, or munmap removes it.
PrMigratingHasMover ==
    \A v \in VA : (pages[v] # 0 /\ page[pages[v]].migrating)
                    => \/ \E e \in Executors : MovedBy(e, pages[v])
                       \/ unmap.page = pages[v]

=============================================================================
