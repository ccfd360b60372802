-------------------------------- MODULE Munmap --------------------------------
(***************************************************************************)
(* Mapping and unmapping memory while the other threads page:              *)
(* extmem_mmap, extmem_munmap and the policy's lrudisk_remove_page, on top *)
(* of everything in ExtMem.                                                *)
(*                                                                         *)
(* extmem_munmap holds allocator_lock from its first page to its return,   *)
(* so at most one runs, and no first touch allocates while it does.  It    *)
(* does not hold the locks that swap-in, reclaim and eviction use, and     *)
(* takes the page it removes from whatever list they leave it on.          *)
(*                                                                         *)
(* The application frees memory correctly: nobody uses a page from the     *)
(* call of munmap on, and nobody is in a fault on it at that moment.       *)
(***************************************************************************)
EXTENDS ExtMem

CONSTANT Populate    \* whether mmap is called with MAP_POPULATE

ASSUME PopulateAssumption == Populate \in BOOLEAN

VARIABLES
    mapped,    \* addresses the application may use
    unmap,     \* locals of the extmem_munmap that holds allocator_lock
    newmap     \* for each thread in extmem_mmap: its range, and what is left
               \* of it to populate

mapVars == <<vars, mapped, unmap, newmap>>

NoUnmap == [at |-> "idle", by |-> {}, region |-> {}, todo |-> {}, page |-> 0]

NoMmap == [region |-> {}, todo |-> {}]

MapInit == Init /\ mapped = VA /\ unmap = NoUnmap
                /\ newmap = [t \in Threads |-> NoMmap]

\* A range of page numbers; calls are made on ranges.
Ranges == {lo .. hi : lo \in VA, hi \in VA} \ {{}}

First(range) == CHOOSE v \in range : \A w \in range : v <= w

\* A thread that runs the application's own code.
InApplication(t) == t \notin unmap.by /\ newmap[t] = NoMmap

UnmapAt(label) == failed = "none" /\ unmap.at = label

-----------------------------------------------------------------------------
(* extmem_munmap.                                                           *)

extmem_munmap(t, range) ==
    /\ At(t, "idle") /\ InApplication(t)
    /\ UnmapAt("idle")
    /\ range \subseteq mapped
    /\ \A u \in Threads : fault[u].addr \notin range
    /\ mapped' = mapped \ range
    /\ unmap' = [NoUnmap EXCEPT !.at = "page", !.by = {t}, !.region = range, !.todo = range]
    /\ UNCHANGED <<vars, newmap>>

UnmapTo(label) == unmap' = [unmap EXCEPT !.at = label]

\* Mutant: an address that is not tracked is looked up for ever.
UnmapFind_NoAdvance ==
    LET p == find_page(First(unmap.todo))
    IN  /\ UnmapAt("page") /\ unmap.todo # {}
        /\ \/ p = 0 /\ UNCHANGED <<unmap, page>>
           \/ /\ p # 0 /\ ~page[p].migrating
              /\ unmap' = [unmap EXCEPT !.at = "remove", !.page = p]
              /\ page' = [page EXCEPT ![p].migrating = TRUE]
        /\ UNCHANGED <<fifo, pages, pte, disk, pc, fault, scan, evict, failed, mapped, newmap>>

\* The next page of the range: not tracked, being moved by somebody, or claimed
\* by setting migrating under handler_lock.
UnmapFind ==
    LET p == find_page(First(unmap.todo))
    IN  /\ UnmapAt("page") /\ unmap.todo # {}
        /\ \/ /\ p = 0
              /\ unmap' = [unmap EXCEPT !.todo = @ \ {First(@)}]
              /\ UNCHANGED page
           \/ /\ p # 0 /\ page[p].migrating
              /\ unmap' = [unmap EXCEPT !.at = "wait", !.page = p]
              /\ UNCHANGED page
           \/ /\ p # 0 /\ ~page[p].migrating
              /\ unmap' = [unmap EXCEPT !.at = "remove", !.page = p]
              /\ page' = [page EXCEPT ![p].migrating = TRUE]
        /\ UNCHANGED <<fifo, pages, pte, disk, pc, fault, scan, evict, failed, mapped, newmap>>

\* while (page->migrating), with no lock held
UnmapWait ==
    /\ UnmapAt("wait")
    /\ ~page[unmap.page].migrating
    /\ UnmapTo("relock")
    /\ UNCHANGED <<vars, mapped, newmap>>

\* handler_lock again; the flag is set whatever it is by now.
UnmapRelock ==
    /\ UnmapAt("relock")
    /\ page' = [page EXCEPT ![unmap.page].migrating = TRUE]
    /\ UnmapTo("remove")
    /\ UNCHANGED <<fifo, pages, pte, disk, pc, fault, scan, evict, failed, mapped, newmap>>

\* Mutant: the page stays in the hash table.
remove_page_Keeps ==
    /\ UnmapAt("remove")
    /\ page' = [page EXCEPT ![unmap.page].migrating = TRUE]
    /\ UnmapTo("take")
    /\ UNCHANGED <<fifo, pages, pte, disk, pc, fault, scan, evict, failed, mapped, newmap>>

\* The hash table forgets the page, and the policy is called.
remove_page ==
    /\ UnmapAt("remove")
    /\ pages' = [pages EXCEPT ![page[unmap.page].va] = 0]
    /\ page' = [page EXCEPT ![unmap.page].migrating = TRUE]
    /\ UnmapTo("take")
    /\ UNCHANGED <<fifo, pte, disk, pc, fault, scan, evict, failed, mapped, newmap>>

-----------------------------------------------------------------------------
(* lrudisk_remove_page.                                                     *)

\* The fifos without a page, which leaves the one that it names from its middle.
WithoutPage(p) ==
    LET q == page[p].list
        i == CHOOSE i \in DOMAIN fifo[q] : fifo[q][i] = p
    IN  IF q \in Queues
        THEN [fifo EXCEPT ![q] =
                [j \in 1 .. Len(@) - 1 |-> IF j < i THEN @[j] ELSE @[j + 1]]]
        ELSE fifo

\* Mutant: the page is not awaited while somebody else holds it.
UnmapTake_OnAir ==
    LET p == unmap.page
    IN  /\ UnmapAt("take")
        /\ fifo' = WithoutPage(p)
        /\ page' = [page EXCEPT ![p].list = "none"]
        /\ UnmapTo("free")
        /\ UNCHANGED <<pages, pte, disk, pc, fault, scan, evict, failed, mapped, newmap>>

\* Mutant: the descriptor keeps its address.
UnmapTake_KeepsVa ==
    LET p == unmap.page
    IN  /\ UnmapAt("take")
        /\ page[p].list # "none"
        /\ fifo' = WithoutPage(p)
        /\ page' = [page EXCEPT ![p].list = "none"]
        /\ UnmapTo("free")
        /\ UNCHANGED <<pages, pte, disk, pc, fault, scan, evict, failed, mapped, newmap>>

\* The page is taken off the list it is on; while it is on none, in the hands of
\* a scan or an eviction, the loop goes on.
UnmapTake ==
    LET p == unmap.page
    IN  /\ UnmapAt("take")
        /\ page[p].list # "none"
        /\ fifo' = WithoutPage(p)
        /\ page' = [page EXCEPT ![p].list = "none", ![p].va = 0]
        /\ UnmapTo("free")
        /\ UNCHANGED <<pages, pte, disk, pc, fault, scan, evict, failed, mapped, newmap>>

\* Mutant: the reserve is forgotten.
UnmapReserve_Leaks ==
    LET p == unmap.page
    IN  /\ UnmapAt("free") /\ page[p].in_dram /\ page[p].reserve # 0
        /\ page' = [page EXCEPT ![p].reserve = 0]
        /\ UNCHANGED <<fifo, pages, pte, disk, pc, fault, scan, evict, failed,
                       mapped, unmap, newmap>>

\* A page in DRAM gives up its reserve first.
UnmapReserve ==
    LET p == unmap.page
        d == page[p].reserve
    IN  /\ UnmapAt("free")
        /\ page[p].in_dram /\ d # 0
        /\ IF page[d].reserve = p /\ page[d].list = "disk_reserve"
           THEN /\ fifo' = EnqueueFifo("disk_free", d)
                /\ page' = [page EXCEPT ![p].reserve = 0, ![d].reserve = 0,
                                        ![d].list = "disk_free"]
                /\ UNCHANGED <<pages, pte, disk, pc, fault, scan, evict, failed>>
           ELSE Abort("reserve_page->reserve == page on disk_reserve_list")
        /\ UNCHANGED <<mapped, unmap, newmap>>

\* Its frame, or the slot of a page on disk, is free.
UnmapFree ==
    LET p == unmap.page
        q == IF page[p].in_dram THEN "dram_free" ELSE "disk_free"
    IN  /\ UnmapAt("free")
        /\ page[p].in_dram => page[p].reserve = 0
        /\ IF page[p].in_dram \/ page[p].swapped_out
           THEN /\ fifo' = EnqueueFifo(q, p)
                /\ page' = [page EXCEPT ![p].list = q, ![p].reserve = 0]
                /\ UnmapTo("release")
                /\ UNCHANGED <<pages, pte, disk, pc, fault, scan, evict, failed>>
           ELSE /\ Abort("no other configuration")
                /\ UNCHANGED unmap
        /\ UNCHANGED <<mapped, newmap>>

\* page->migrating = false, and on to the next page.
UnmapRelease ==
    /\ UnmapAt("release")
    /\ page' = [page EXCEPT ![unmap.page].migrating = FALSE]
    /\ unmap' = [unmap EXCEPT !.at = "page", !.page = 0, !.todo = @ \ {First(@)}]
    /\ UNCHANGED <<fifo, pages, pte, disk, pc, fault, scan, evict, failed, mapped, newmap>>

\* Mutant: the addresses stay mapped.
libc_munmap_Skipped ==
    /\ UnmapAt("page") /\ unmap.todo = {}
    /\ unmap' = NoUnmap
    /\ UNCHANGED <<vars, mapped, newmap>>

\* The kernel drops the range, and allocator_lock is released.
libc_munmap ==
    /\ UnmapAt("page") /\ unmap.todo = {}
    /\ pte' = [v \in VA |-> IF v \in unmap.region THEN NoPte ELSE pte[v]]
    /\ unmap' = NoUnmap
    /\ UNCHANGED <<page, fifo, pages, disk, pc, fault, scan, evict, failed, mapped, newmap>>

UnmapStep == \/ UnmapFind \/ UnmapWait \/ UnmapRelock \/ remove_page
             \/ UnmapTake \/ UnmapReserve \/ UnmapFree \/ UnmapRelease
             \/ libc_munmap

-----------------------------------------------------------------------------
(* extmem_mmap and extmem_mmap_populate.                                    *)

\* The kernel gives out addresses that nobody has.
extmem_mmap(t, range) ==
    /\ At(t, "idle") /\ InApplication(t)
    /\ range \cap (mapped \cup unmap.region \cup UNION {newmap[u].region : u \in Threads}) = {}
    /\ newmap' = [newmap EXCEPT ![t] = [region |-> range,
                                        todo |-> IF Populate THEN range ELSE {}]]
    /\ UNCHANGED <<vars, mapped, unmap>>

\* handle_first_fault on the next page, without a fault.
PopulatePage(t) ==
    /\ At(t, "idle") /\ newmap[t].todo # {}
    /\ fault' = [fault EXCEPT ![t].addr = First(newmap[t].todo), ![t].job = "first"]
    /\ pc' = [pc EXCEPT ![t] = "fetch"]
    /\ newmap' = [newmap EXCEPT ![t].todo = @ \ {First(@)}]
    /\ UNCHANGED <<sharedVars, scan, evict, failed, mapped, unmap>>

MmapReturn(t) ==
    /\ At(t, "idle") /\ newmap[t].region # {} /\ newmap[t].todo = {}
    /\ mapped' = mapped \cup newmap[t].region
    /\ newmap' = [newmap EXCEPT ![t] = NoMmap]
    /\ UNCHANGED <<vars, unmap>>

-----------------------------------------------------------------------------
(* The threads, one of which may be in extmem_munmap.                       *)

\* Loads and stores go to memory that is mapped.
MappedAccess(t) ==
    /\ InApplication(t)
    /\ \E v \in mapped : Touch(t, v) \/ \E x \in Vals : Store(t, v, x)
    /\ UNCHANGED <<mapped, unmap, newmap>>

\* A first touch needs allocator_lock to allocate.
PagingStep(t) ==
    /\ pc[t] = "allocate" => unmap.at = "idle"
    /\ ThreadStep(t)
    /\ UNCHANGED <<mapped, unmap, newmap>>

MapStep(t) == \/ \E range \in Ranges : extmem_munmap(t, range) \/ extmem_mmap(t, range)
              \/ PopulatePage(t)
              \/ MmapReturn(t)

DaemonStep(e) == /\ \/ e \in Workers /\ WorkerStep(e)
                    \/ e \in Kswapd /\ ScanStep(e)
                 /\ UNCHANGED <<mapped, unmap, newmap>>

MapNext == \/ \E t \in Threads : MappedAccess(t) \/ PagingStep(t) \/ MapStep(t)
           \/ \E e \in Workers \cup Kswapd : DaemonStep(e)
           \/ UnmapStep
           \/ Aborted /\ UNCHANGED <<mapped, unmap, newmap>>

MapSpec == MapInit /\ [][MapNext]_mapVars

-----------------------------------------------------------------------------
(* Types.                                                                   *)

UnmapLabels == {"idle", "page", "wait", "relock", "remove", "take", "free", "release"}

UnmapAssertLabels == {"reserve_page->reserve == page on disk_reserve_list",
                      "no other configuration"}

\* Every variable keeps its type while memory is mapped and unmapped.
MapTypeOK ==
    /\ failed \in {"none"} \cup AssertLabels \cup UnmapAssertLabels
    /\ failed \notin UnmapAssertLabels => TypeOK
    /\ mapped \subseteq VA
    /\ unmap \in [at : UnmapLabels, by : SUBSET Threads, region : SUBSET VA,
                  todo : SUBSET VA, page : Pages \cup {0}]
    /\ newmap \in [Threads -> [region : SUBSET VA, todo : SUBSET VA]]

-----------------------------------------------------------------------------
(* Descriptors, frames and slots.                                           *)

\* extmem_munmap holds the page between the list it was on and a free list.
UnmapHolds(p) == unmap.at = "free" /\ unmap.page = p

\* Unmapping loses no descriptor and shares none: one that is on no list is held
\* by one thread for one purpose, the unmapping thread included, though it
\* takes pages from under scans and evictions.
MapOwnership ==
    \A p \in Pages :
      /\ page[p].list = "none" <=>
           UnmapHolds(p) \/ \E e \in Executors, r \in Roles : Holds(e, r, p)
      /\ \A e \in Executors, r \in Roles : Holds(e, r, p) =>
           /\ ~UnmapHolds(p)
           /\ \A f \in Executors, s \in Roles : Holds(f, s, p) => e = f /\ r = s

\* The pages of the addresses, and the page being removed.
Tracked == ({pages[v] : v \in VA} \cup {unmap.page}) \ {0}

\* Nothing leaks: a descriptor on no free list and in nobody's hands is the page
\* of an address, found in the hash table, or the reserve of such a page.
NoLeak ==
    \A p \in Pages :
      page[p].list \notin {"dram_free", "disk_free", "none"}
        => p \in Tracked \/ \E r \in Tracked : page[r].reserve = p

\* A frame that munmap frees may be handed out before the kernel drops the
\* mapping; apart from the range being unmapped, the DRAM limit holds.
MapDramBudget ==
    Cardinality({v \in VA \ unmap.region : pte[v].present}) + Len(fifo["dram_free"]) <= NDram

ReleaseLabels == {"victim->migrating && victim->swapped_out",
                  "page->migrating && page->swapped_out"}

\* An evictor uses its victim after it is on disk_active_list, where munmap may
\* take it.  Of all the assertions, munmap adds only two to the ones that can
\* fail: that the victim is still claimed when its evictor lets it go
\* (disklinux.c:752, 777 and 1038), and, when the evictor ends the claim of a
\* later eviction of the same descriptor, that a page a fault takes is on
\* disk_active_list.  munmap's own hold in every schedule.
UnmapAssertsHold ==
    failed \in {"none", "Out of memory", "list == &disk_active_list"}
                 \cup EarlyEvictionAsserts \cup ReleaseLabels

\* disklinux.c:1185 and 1205: a page that is removed with a reserve is in DRAM, so
\* that its swap backing is removed as well.
BackingIsRemoved ==
    unmap.at = "free" /\ page[unmap.page].reserve # 0 => page[unmap.page].in_dram

-----------------------------------------------------------------------------
(* What the application sees.                                               *)

\* Memory keeps its contents from mmap to munmap but for the application's own
\* stores, and a new mapping reads as zeros wherever its addresses, frames and
\* slots were used before.
MapTransparent ==
    [][\A v \in mapped' :
         \/ Mem'[v] = IF v \in mapped THEN Mem[v] ELSE Zero
         \/ \E t \in Threads, x \in Vals : Store(t, v, x) /\ Mem'[v] = x]_mapVars

\* munmap returns.  It may be held up by the eviction of its page, which ends,
\* and for ever only by scans that take the page off its list each time it
\* looks; nothing makes it wait for a page that nobody will let go of.
UnmapReturns ==
    []<>(\/ unmap.at = "idle"
         \/ failed # "none"
         \/ \E e \in Scanners : scan[e] # 0 /\ scan[e] = unmap.page)

=============================================================================
