------------------------------- MODULE Eviction -------------------------------
(***************************************************************************)
(* Swapping a page out: lrudisk_evictionworker_vector with                 *)
(* extmem_migrate_downdisk_vector, and the eviction a faulting thread does *)
(* itself in fetch_free_asynch with extmem_migrate_downdisk.  The two take *)
(* the same steps; they differ in who gets the emptied frame, in the order *)
(* of the last enqueues and in the assertions.                             *)
(*                                                                         *)
(* A worker of the model evicts one page at a time: each entry of a real   *)
(* worker's victim[] array is a worker here.  The loops of the code go     *)
(* through the array entry by entry and an entry depends on no other, so   *)
(* what the array adds is that its entries are taken from eviction_list    *)
(* and marked together, and these are among the interleavings of separate  *)
(* workers.                                                                *)
(***************************************************************************)
EXTENDS PageState

Victim(e)   == evict[e].victim
DiskPage(e) == evict[e].dpage

\* dequeue_fifo(&eviction_list), by a worker that is between rounds or by a
\* thread at that point of fetch_free_asynch.
TakeVictim(e) ==
    /\ At(e, IF e \in Workers THEN "idle" ELSE "reclaim")
    /\ fifo["eviction"] # <<>>
    /\ LET p == Head(fifo["eviction"]) IN
         /\ fifo' = DequeueFifo("eviction")
         /\ page' = [page EXCEPT ![p].list = "none"]
         /\ evict' = [evict EXCEPT ![e].victim = p]
    /\ pc' = [pc EXCEPT ![e] = "protect"]
    /\ UNCHANGED <<pages, pte, disk, fault, scan, failed>>

\* Mutant: the page is not write-protected.
ProtectVictim_NoWp(e) ==
    /\ At(e, "protect")
    /\ page' = [page EXCEPT ![Victim(e)].migrating = TRUE]
    /\ evict' = [evict EXCEPT ![e].old_offset = page[Victim(e)].virtual_offset]
    /\ pc' = [pc EXCEPT ![e] = "back"]
    /\ UNCHANGED <<fifo, pages, pte, disk, fault, scan, failed>>

\* migrating is set and the page write-protected, before its dirty bit is read.
ProtectVictim(e) ==
    /\ At(e, "protect")
    /\ page' = [page EXCEPT ![Victim(e)].migrating = TRUE]
    /\ pte' = UffdioWriteprotect(page[Victim(e)].va)
    /\ evict' = [evict EXCEPT ![e].old_offset = page[Victim(e)].virtual_offset]
    /\ pc' = [pc EXCEPT ![e] = "back"]
    /\ UNCHANGED <<fifo, pages, disk, fault, scan, failed>>

\* Mutant: only the dirty bit counts.
NeedsWriteback_DirtyOnly(p) == pte[page[p].va].dirty

\* dirty | !has_reserve
NeedsWriteback(p) == pte[page[p].va].dirty \/ page[p].reserve = 0

\* The reserve of a page that has one (has_reserve), taken off
\* disk_reserve_list; it is not written again unless the page is dirty.
BackByReserve(e) ==
    LET p == Victim(e)
        d == page[p].reserve
    IN  /\ At(e, "back")
        /\ d # 0
        /\ IF page[d].reserve = p /\ page[d].list = "disk_reserve"
           THEN /\ page' = [page EXCEPT ![d].list = "none"]
                /\ evict' = [evict EXCEPT ![e].dpage = d, ![e].backed = TRUE,
                                          ![e].writeback = NeedsWriteback(p)]
                /\ pc' = [pc EXCEPT ![e] = "write"]
                /\ UNCHANGED <<fifo, pages, pte, disk, fault, scan, failed>>
           ELSE Abort("diskpage->reserve == victim on disk_reserve_list")

\* A slot from disk_free_list for a page that has no reserve.
BackByFreeSlot(e) ==
    LET d == Head(fifo["disk_free"])
    IN  /\ At(e, "back")
        /\ page[Victim(e)].reserve = 0
        /\ IF fifo["disk_free"] # <<>>
           THEN /\ fifo' = DequeueFifo("disk_free")
                /\ page' = [page EXCEPT ![d].list = "none"]
                /\ evict' = [evict EXCEPT ![e].dpage = d, ![e].backed = FALSE,
                                          ![e].writeback = NeedsWriteback(Victim(e))]
                /\ pc' = [pc EXCEPT ![e] = "write"]
                /\ UNCHANGED <<pages, pte, disk, fault, scan, failed>>
           ELSE Abort("no disk page found")

\* Only extmem_migrate_downdisk checks the offsets.
WriteAsserts(e) ==
    e \in Threads => /\ InDram(page[Victim(e)].virtual_offset)
                     /\ InDisk(page[DiskPage(e)].virtual_offset)

\* The write and the wait for it.  extmem_migrate_downdisk, which only threads
\* call, sets migrating once more.
WriteBack(e) ==
    LET p == Victim(e)
    IN  /\ At(e, "write")
        /\ IF ~page[p].in_dram THEN Abort("page->in_dram")
           ELSE IF ~WriteAsserts(e) THEN Abort("offset inside dramsize, disksize")
           ELSE /\ disk' = IF evict[e].writeback
                           THEN DiskWrite(page[DiskPage(e)].virtual_offset,
                                          pte[page[p].va].data)
                           ELSE disk
                /\ page' = [page EXCEPT ![p].migrating = @ \/ e \in Threads]
                /\ pc' = [pc EXCEPT ![e] = "unmap"]
                /\ UNCHANGED <<fifo, pages, pte, fault, scan, evict, failed>>

\* Mutant: the page stays mapped.
UnmapVictim_NoMadvise(e) ==
    LET p == Victim(e)
    IN  /\ At(e, "unmap")
        /\ page' = [page EXCEPT ![p].virtual_offset = page[DiskPage(e)].virtual_offset,
                                ![p].in_dram = FALSE]
        /\ pc' = [pc EXCEPT ![e] = "mark"]
        /\ UNCHANGED <<fifo, pages, pte, disk, fault, scan, evict, failed>>

\* madvise, and the fields that now describe the copy on disk.
UnmapVictim(e) ==
    LET p == Victim(e)
    IN  /\ At(e, "unmap")
        /\ pte' = MadviseDontneed(page[p].va)
        /\ page' = [page EXCEPT ![p].virtual_offset = page[DiskPage(e)].virtual_offset,
                                ![p].in_dram = FALSE]
        /\ pc' = [pc EXCEPT ![e] = "mark"]
        /\ UNCHANGED <<fifo, pages, disk, fault, scan, evict, failed>>

\* Mutant: a thread, too, puts the frame it is about to return on dram_free_list.
MarkSwappedOut_FreeByThread(e) ==
    LET p == Victim(e)
    IN  /\ At(e, "mark")
        /\ ~page[p].swapped_out /\ page[p].migrating
        /\ page' = [page EXCEPT ![p].swapped_out = TRUE]
        /\ pc' = [pc EXCEPT ![e] = IF evict[e].backed THEN "free_frame" ELSE "track"]
        /\ UNCHANGED <<fifo, pages, pte, disk, fault, scan, evict, failed>>

\* The section under handler_lock.  A worker hands a frame that had a reserve
\* back before the victim reaches disk_active_list, any other after it.
MarkSwappedOut(e) ==
    LET p == Victim(e)
    IN  /\ At(e, "mark")
        /\ IF page[p].swapped_out THEN Abort("page->swapped_out == false")
           ELSE IF ~page[p].migrating THEN Abort("page->migrating == true")
           ELSE /\ page' = [page EXCEPT ![p].swapped_out = TRUE]
                /\ pc' = [pc EXCEPT ![e] = IF e \in Workers /\ evict[e].backed
                                           THEN "free_frame" ELSE "track"]
                /\ UNCHANGED <<fifo, pages, pte, disk, fault, scan, evict, failed>>

\* Mutant: the descriptor keeps the offset of the slot.
AsFrame_KeepsOffset(d, offset) == [d EXCEPT !.in_dram = TRUE, !.reserve = 0]

\* The slot's descriptor becomes the descriptor of the frame the victim left.
AsFrame(d, offset) == [d EXCEPT !.virtual_offset = offset, !.in_dram = TRUE,
                                !.reserve = 0]

FreeFrame(e) ==
    LET p == Victim(e)
        d == DiskPage(e)
    IN  /\ At(e, "free_frame")
        /\ fifo' = EnqueueFifo("dram_free", d)
        /\ page' = [page EXCEPT ![p].reserve = IF evict[e].backed THEN 0 ELSE @,
                                ![d] = [AsFrame(page[d], evict[e].old_offset)
                                          EXCEPT !.list = "dram_free"]]
        /\ evict' = [evict EXCEPT ![e].dpage = 0]
        /\ pc' = [pc EXCEPT ![e] = IF evict[e].backed THEN "track" ELSE "release"]
        /\ UNCHANGED <<pages, pte, disk, fault, scan, failed>>

\* enqueue_fifo(&disk_active_list, victim).  A thread keeps the frame.
TrackVictim(e) ==
    LET p == Victim(e)
        d == DiskPage(e)
    IN  /\ At(e, "track")
        /\ page' = IF e \in Workers
                   THEN [page EXCEPT ![p].list = "disk_active"]
                   ELSE [page EXCEPT ![p].list = "disk_active", ![p].reserve = 0,
                                     ![d] = AsFrame(page[d], evict[e].old_offset)]
        /\ pc' = [pc EXCEPT ![e] = IF e \in Workers /\ ~evict[e].backed
                                   THEN "free_frame" ELSE "release"]
        /\ UNCHANGED <<fifo, pages, pte, disk, fault, scan, evict, failed>>

\* The asserts after the enqueues.  A thread that evicted to a fresh slot has none:
\* it looks at swapped_out before the enqueue, when it has just set it.
ReleaseAsserts(e) ==
    \/ e \in Threads /\ ~evict[e].backed
    \/ page[Victim(e)].swapped_out /\ page[Victim(e)].migrating

\* Mutant: migrating is never cleared.
ReleaseVictim_KeepsMigrating(e) ==
    /\ e \in Workers
    /\ At(e, "release")
    /\ evict' = [evict EXCEPT ![e] = NoEvict]
    /\ pc' = [pc EXCEPT ![e] = "idle"]
    /\ UNCHANGED <<page, fifo, pages, pte, disk, fault, scan, failed>>

\* A worker lets the victim go; from here on a fault may claim it.
ReleaseVictim(e) ==
    /\ e \in Workers
    /\ At(e, "release")
    /\ IF ReleaseAsserts(e)
       THEN /\ page' = [page EXCEPT ![Victim(e)].migrating = FALSE]
            /\ evict' = [evict EXCEPT ![e] = NoEvict]
            /\ pc' = [pc EXCEPT ![e] = "idle"]
            /\ UNCHANGED <<fifo, pages, pte, disk, fault, scan, failed>>
       ELSE Abort("victim->migrating && victim->swapped_out")

EvictStep(e) ==
    \/ TakeVictim(e)
    \/ ProtectVictim(e)
    \/ BackByReserve(e)
    \/ BackByFreeSlot(e)
    \/ WriteBack(e)
    \/ UnmapVictim(e)
    \/ MarkSwappedOut(e)
    \/ FreeFrame(e)
    \/ TrackVictim(e)

=============================================================================
