------------------------------- MODULE ExtMem -------------------------------
(***************************************************************************)
(* ExtMem with the disklinux policy: application threads that page for     *)
(* themselves, eviction workers and kswapd, over the shared page state.    *)
(***************************************************************************)
EXTENDS FaultHandler

Init == /\ InitPages
        /\ pc = [e \in Executors |-> "idle"]
        /\ fault = [t \in Threads |-> NoFault]
        /\ scan = [e \in Scanners |-> 0]
        /\ evict = [e \in Evictors |-> NoEvict]
        /\ failed = "none"

Application(t) == \E v \in VA : Touch(t, v) \/ \E x \in Vals : Store(t, v, x)

ThreadStep(t) == FaultStep(t) \/ EvictStep(t) \/ ScanStep(t)

WorkerStep(w) == EvictStep(w) \/ ReleaseVictim(w)

\* An assertion failed: the process is gone.
Aborted == failed # "none" /\ UNCHANGED vars

Next == \/ \E t \in Threads : Application(t) \/ ThreadStep(t)
        \/ \E w \in Workers : WorkerStep(w)
        \/ \E k \in Kswapd : ScanStep(k)
        \/ Aborted

Spec == Init /\ [][Next]_vars

-----------------------------------------------------------------------------
(* Types.                                                                   *)

PcLabels == {"idle", "signal", "spin", "missing", "fetch", "reclaim", "allocate",
             "put_back", "map", "add", "finish", "publish", "resident", "settle",
             "find", "protect", "back", "write", "unmap", "mark", "track",
             "free_frame", "release", "scan_inactive", "scan_active"}

FaultLocals == [addr : VA \cup {0}, job : {"none", "first", "swapin", "prefetch"},
                page : Pages \cup {0}, reading : Seq(Pages), buf : Seq(Vals),
                frees : Seq(Pages)]

AssertLabels ==
    {"diskpage->reserve == victim on disk_reserve_list", "no disk page found",
     "page->in_dram", "offset inside dramsize, disksize",
     "page->swapped_out == false", "page->migrating == true",
     "victim->migrating && victim->swapped_out", "list == &disk_active_list",
     "page->migrating && page->swapped_out", "page->va == 0",
     "page->list == NULL && page->va == 0", "first touch: in_dram, UFFDIO_COPY",
     "page->list == NULL", "Out of memory", "swap-in: freepage->in_dram, UFFDIO_COPY"}

EvictLocals == [victim : Pages \cup {0}, dpage : Pages \cup {0}, old_offset : Offsets,
                backed : BOOLEAN, writeback : BOOLEAN]

\* Every variable keeps its type, whatever the threads do.
TypeOK == /\ page \in [Pages -> UserPage]
          /\ fifo \in [Queues -> Seq(Pages)]
          /\ pages \in [VA -> Pages \cup {0}]
          /\ pte \in [VA -> Pte]
          /\ disk \in [Offsets -> Vals]
          /\ pc \in [Executors -> PcLabels]
          /\ fault \in [Threads -> FaultLocals]
          /\ scan \in [Scanners -> Pages \cup {0}]
          /\ evict \in [Evictors -> EvictLocals]
          /\ failed \in {"none"} \cup AssertLabels

-----------------------------------------------------------------------------
(* Who holds a descriptor that is on no list.                               *)

Roles == {"victim", "dpage", "scan", "read", "free", "page"}

\* The victim is in its evictor's hands until it is on disk_active_list.
HoldsVictim(e) ==
    \/ pc[e] \in {"protect", "back", "write", "unmap", "mark", "track"}
    \/ pc[e] = "free_frame" /\ evict[e].backed

\* Executor e holds descriptor p in role r.
Holds(e, r, p) ==
    CASE r = "victim" -> e \in Evictors /\ HoldsVictim(e) /\ p = evict[e].victim
      [] r = "dpage"  -> e \in Evictors /\ p = evict[e].dpage
      [] r = "scan"   -> e \in Scanners /\ p = scan[e]
      [] r = "read"   -> e \in Threads /\ \E i \in DOMAIN fault[e].reading :
                                            p = fault[e].reading[i]
      [] r = "free"   -> e \in Threads /\ \E i \in DOMAIN fault[e].frees :
                                            p = fault[e].frees[i]
      [] r = "page"   -> e \in Threads /\ pc[e] = "publish" /\ p = fault[e].page

\* No descriptor is lost and none is shared: one that is on no list is held by
\* one thread for one purpose, and one that is on a list by nobody.  So no
\* page is evicted twice, swapped in twice, or both at once, though threads
\* take descriptors off seven lists under seven different locks.
Ownership ==
    \A p \in Pages :
      /\ page[p].list = "none" <=>
           \E e \in Executors, r \in Roles : Holds(e, r, p)
      /\ \A e \in Executors, r \in Roles : Holds(e, r, p) =>
           \A f \in Executors, s \in Roles : Holds(f, s, p) => e = f /\ r = s

\* A queue holds a descriptor once and exactly when the descriptor says so: no
\* page is enqueued while it is still on a list (the asserts of enqueue_fifo).
QueuesMatch ==
    /\ \A q \in Queues, p \in Pages :
         page[p].list = q <=> \E i \in DOMAIN fifo[q] : fifo[q][i] = p
    /\ \A q \in Queues : \A i, j \in DOMAIN fifo[q] :
         fifo[q][i] = fifo[q][j] => i = j

-----------------------------------------------------------------------------
(* Frames and slots.                                                        *)

\* p was mapped by a prefetch that has not yet recorded that it is in DRAM.
InPrefetchWindow(p) ==
    \E t \in Threads : /\ fault[t].job = "prefetch" /\ fault[t].page = p
                       /\ pc[t] \in {"publish", "resident"}

\* No two descriptors name one frame or one disk slot, except the victim of an
\* eviction and the descriptor that lends it its slot; and a frame that a
\* victim left is nobody's until its evictor hands it on.
SlotsExclusive ==
    /\ \A p, q \in Pages :
         \/ p = q \/ page[p].in_dram # page[q].in_dram
         \/ page[p].virtual_offset # page[q].virtual_offset
         \/ InPrefetchWindow(p) \/ InPrefetchWindow(q)
         \/ \E e \in Evictors : {p, q} = {evict[e].victim, evict[e].dpage}
    /\ \A e \in Evictors, p \in Pages :
         (evict[e].dpage # 0 /\ ~page[evict[e].dpage].in_dram
            /\ page[p].in_dram /\ page[p].virtual_offset = evict[e].old_offset)
         => p = evict[e].victim

\* The application never has more resident pages than the DRAM it was given:
\* a frame is handed out only after the page in it was unmapped.
DramBudget ==
    Cardinality({v \in VA : pte[v].present}) + Len(fifo["dram_free"]) <= NDram

\* A mapped page that is clean and has a reserve is on disk as it is in
\* memory, so evicting it without a write loses nothing.
ReserveIsCurrent ==
    \A v \in VA :
      LET p == pages[v]
          d == page[p].reserve
      IN  (pte[v].present /\ ~pte[v].dirty /\ d # 0)
            => disk[page[d].virtual_offset] = pte[v].data

\* A page that waiters spin on is in the hands of somebody who will let it go.
MovedBy(e, p) ==
    \/ e \in Evictors /\ evict[e].victim = p
    \/ e \in Threads /\ Holds(e, "read", p)
    \/ e \in Threads /\ fault[e].page = p /\ pc[e] \in {"publish", "resident", "settle"}
    \/ e \in Threads /\ Holds(e, "free", p) /\ pc[e] = "map"

MigratingHasMover ==
    \A v \in VA : (pages[v] # 0 /\ page[pages[v]].migrating)
                    => \E e \in Executors : MovedBy(e, pages[v])

EarlyEvictionAsserts ==
    {"page->swapped_out == false", "page->migrating == true", "page->in_dram"}

\* Of the assertions, only those on the flags of a page that eviction picked up
\* before its swap-in had finished, and the one that gives up the search for a
\* frame, can fail; the rest hold in every schedule.
OtherAssertsHold == failed \in {"none", "Out of memory"} \cup EarlyEvictionAsserts

\* core.c:1025 and core.c:928: a page is evicted only when it is swapped in.
EvictsOnlySwappedIn == failed # "page->swapped_out == false"

\* core.c:961 and core.c:870: a page is evicted only when it is in DRAM.
EvictsOnlyResident == failed # "page->in_dram"

-----------------------------------------------------------------------------
(* What the application sees.                                               *)

\* The contents of the mapping, wherever they are.
Mem == [v \in VA |->
          IF pte[v].present THEN pte[v].data
          ELSE IF pages[v] # 0 /\ ~page[pages[v]].in_dram
          THEN disk[page[pages[v]].virtual_offset]
          ELSE Zero]

\* Swapping is transparent: the contents of the mapping change only by the
\* application's own stores, and each store changes only its page.
SwapTransparent ==
    [][\/ Mem' = Mem
       \/ \E t \in Threads, v \in VA, x \in Vals :
            Store(t, v, x) /\ Mem' = [Mem EXCEPT ![v] = x]]_vars

=============================================================================
