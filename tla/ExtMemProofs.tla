---------------------------- MODULE ExtMemProofs ----------------------------
(***************************************************************************)
(* Proofs about ExtMem for every number of pages, frames, slots, threads   *)
(* and workers: every variable keeps its type (TypeCorrect), no descriptor *)
(* is lost and none is shared (OwnershipHolds, QueuesMatchHolds), and no   *)
(* frame is lost or made up (PagingImplementsFlowHolds).                   *)
(***************************************************************************)
EXTENDS PagingFlow, TotalProofs

USE DEF find_page, add_page

-----------------------------------------------------------------------------
(* The inductive invariant.  All of it but the queues and the hash table   *)
(* speaks of one executor at a time, so that a step of one executor leaves  *)
(* what it says about the others alone.                                     *)

EvictPcs  == {"protect", "back", "write", "unmap", "mark", "track", "free_frame",
              "release"}
ScanPcs   == {"scan_inactive", "scan_active"}
FetchPcs  == {"fetch", "reclaim"} \cup ScanPcs \cup EvictPcs
FirstPcs  == {"allocate", "put_back", "map", "add"}
SettlePcs == {"publish", "resident", "settle"}

\* An evictor has a victim from TakeVictim to its release, and a slot's
\* descriptor until that is a frame that was handed on.
EvictorOK(e) ==
    /\ evict[e].victim # 0 <=> pc[e] \in EvictPcs
    /\ evict[e].dpage # 0 <=>
         \/ pc[e] \in {"write", "unmap", "mark", "free_frame"}
         \/ pc[e] = "track" /\ (e \in Threads \/ ~evict[e].backed)
         \/ pc[e] = "release" /\ e \in Threads
    /\ pc[e] = "free_frame" => e \in Workers

\* What a thread's program point says about its locals.
ThreadOK(t) ==
    /\ pc[t] = "idle" => fault[t] = NoFault
    /\ pc[t] # "idle" => fault[t].addr \in VA
    /\ pc[t] \in {"signal", "spin", "missing"} =>
         fault[t].reading = <<>> /\ fault[t].buf = <<>> /\ fault[t].frees = <<>>
    /\ pc[t] \in {"signal", "missing"} => fault[t].job = "none"
    /\ pc[t] = "spin" => fault[t].job \in {"none", "first"}
    /\ pc[t] \in {"spin", "missing", "put_back"} \cup SettlePcs => fault[t].page # 0
    /\ pc[t] \in FetchPcs =>
         \/ /\ fault[t].job = "first"
            /\ fault[t].reading = <<>> /\ fault[t].frees = <<>>
         \/ /\ fault[t].job \in {"swapin", "prefetch"}
            /\ Len(fault[t].frees) < Len(fault[t].reading)
    /\ pc[t] \in FirstPcs =>
         /\ fault[t].job = "first"
         /\ fault[t].reading = <<>> /\ Len(fault[t].frees) = 1
    /\ pc[t] = "finish" => fault[t].reading # <<>>
    /\ pc[t] \in {"finish"} \cup SettlePcs =>
         /\ fault[t].job \in {"swapin", "prefetch"}
         /\ Len(fault[t].frees) = Len(fault[t].reading)
    /\ fault[t].job = "swapin" =>
         Len(fault[t].reading) = IF pc[t] \in SettlePcs THEN 0 ELSE 1
    /\ pc[t] = "find" =>
         fault[t].job = "prefetch" /\ fault[t].frees = <<>> /\ fault[t].buf = <<>>
    /\ fault[t].buf = <<>> \/ Len(fault[t].buf) = Len(fault[t].reading)

LocalOK(e) ==
    /\ e \in Workers => pc[e] \in {"idle"} \cup EvictPcs
    /\ e \in Kswapd => pc[e] \in {"idle"} \cup ScanPcs
    /\ e \in Evictors => EvictorOK(e)
    /\ e \in Scanners => (scan[e] # 0 <=> pc[e] \in ScanPcs)
    /\ e \in Threads => ThreadOK(e)

LocalsOK == \A e \in Executors : LocalOK(e)

\* A descriptor that stands for a page of the application.
Mapped(p) == page[p].va \in VA

\* Every descriptor an executor uses the address of is one of these.
LocalUsed(e) ==
    /\ e \in Evictors => (HoldsVictim(e) => Mapped(evict[e].victim))
    /\ e \in Scanners => (scan[e] # 0 => Mapped(scan[e]))
    /\ e \in Threads =>
         /\ pc[e] \in {"missing", "publish"} => Mapped(fault[e].page)
         /\ \A i \in DOMAIN fault[e].reading : Mapped(fault[e].reading[i])
         /\ pc[e] \in {"map", "add"} => Mapped(fault[e].frees[1])

LocalsUsed == \A e \in Executors : LocalUsed(e)

\* As long as nothing is unmapped, so is every victim and every page that an
\* executor has in its locals.
LocalMapped(e) ==
    /\ LocalUsed(e)
    /\ e \in Evictors => (evict[e].victim # 0 => Mapped(evict[e].victim))
    /\ e \in Threads => (fault[e].page # 0 => Mapped(fault[e].page))

LocalsMapped == \A e \in Executors : LocalMapped(e)

\* So is every descriptor that reclaim can find.
QueuesMapped ==
    \A q \in {"active", "inactive", "eviction"} :
      \A i \in DOMAIN fifo[q] : Mapped(fifo[q][i])

\* The hash table leads from an address to the descriptor of that address.
HashOK == \A v \in VA : pages[v] # 0 => page[pages[v]].va = v

\* The part of the invariant that holds while memory is unmapped, too (Munmap).
UseInv == TypeOK /\ LocalsOK /\ LocalsUsed /\ QueuesMapped /\ HashOK

TypeInv == UseInv /\ LocalsMapped

\* A thread's lists name a descriptor once.
Distinct(s) == \A i, j \in DOMAIN s : s[i] = s[j] => i = j

BatchesDistinct ==
    \A t \in Threads : Distinct(fault[t].reading) /\ Distinct(fault[t].frees)

\* The half of Ownership that does not depend on who else may hold descriptors:
\* what an executor holds is on no list and nobody else's.
Exclusive ==
    \A p \in Pages :
      \A e \in Executors, r \in Roles : Holds(e, r, p) =>
        /\ page[p].list = "none"
        /\ \A f \in Executors, s \in Roles : Holds(f, s, p) => e = f /\ r = s

OwnInv == UseInv /\ BatchesDistinct /\ Exclusive /\ QueuesMatch

\* The inductive invariant of Ownership and QueuesMatch.
OwnerInv == TypeInv /\ BatchesDistinct /\ Ownership /\ QueuesMatch

-----------------------------------------------------------------------------
(* Types.                                                                   *)

\* Replacing one descriptor by another keeps the type of page.
LEMMA PageUpdate ==
    ASSUME NEW f \in [Pages -> UserPage], NEW p, NEW r \in UserPage
    PROVE  [f EXCEPT ![p] = r] \in [Pages -> UserPage]
  OBVIOUS

\* The first and the other entries of a list that is not empty.
LEMMA HeadTail ==
    ASSUME NEW S, NEW s \in Seq(S), s # <<>>
    PROVE  /\ Head(s) \in S /\ Tail(s) \in Seq(S)
           /\ Len(s) \in Nat \ {0} /\ Len(Tail(s)) = Len(s) - 1
           /\ Head(s) = s[1] /\ \A i \in 1 .. Len(s) - 1 : Tail(s)[i] = s[i + 1]
           /\ DOMAIN s = 1 .. Len(s) /\ DOMAIN Tail(s) = 1 .. Len(s) - 1
  OBVIOUS

\* What a step that fails an assertion does: it names the assertion.
Crash == failed' \in AssertLabels /\ UNCHANGED <<sharedVars, pc, fault, scan, evict>>

\* A failed assertion keeps the types.
LEMMA CrashTypes == ASSUME TypeOK, Crash PROVE TypeOK'
  BY DEF TypeOK, Crash, sharedVars

\* The steps of an eviction keep the types.
LEMMA EvictTypes ==
    ASSUME UseInv, NEW e \in Evictors, EvictStep(e)
    PROVE  TypeOK'
<1> SUFFICES ASSUME ~Crash PROVE TypeOK'
  BY CrashTypes DEF UseInv
<1> USE DEF At, Abort, Crash, AssertLabels
<1>0. e \in Executors /\ evict[e] \in EvictLocals
  BY DEF UseInv, TypeOK, Evictors, Executors
<1>v. ASSUME pc[e] \in EvictPcs
      PROVE  /\ Victim(e) \in Pages /\ page[Victim(e)] \in UserPage
             /\ HoldsVictim(e) => page[Victim(e)].va \in VA
  <2>1. evict[e].victim \in Pages
    BY <1>0, <1>v DEF UseInv, LocalsOK, LocalOK, EvictorOK, EvictLocals
  <2>2. LocalUsed(e)
    BY <1>0 DEF UseInv, LocalsUsed
  <2> QED BY <2>1, <2>2 DEF Victim, UseInv, TypeOK, LocalUsed, Mapped
<1>d. ASSUME \/ pc[e] \in {"write", "unmap", "mark", "free_frame"}
             \/ pc[e] = "track" /\ e \in Threads
      PROVE  DiskPage(e) \in Pages /\ page[DiskPage(e)] \in UserPage
  BY <1>0, <1>d DEF UseInv, LocalsOK, LocalOK, EvictorOK, DiskPage, TypeOK, EvictLocals
<1>1. CASE TakeVictim(e)
  <2> DEFINE p == Head(fifo["eviction"])
  <2>1. p \in Pages /\ page[p] \in UserPage
    BY <1>1 DEF UseInv, TypeOK, TakeVictim, Queues
  <2>2. [page[p] EXCEPT !.list = "none"] \in UserPage
    BY <2>1 DEF UserPage, Lists
  <2>3. page' \in [Pages -> UserPage]
    BY <1>1, <2>1, <2>2, PageUpdate DEF UseInv, TypeOK, TakeVictim
  <2>4. fifo' \in [Queues -> Seq(Pages)]
    BY <1>1 DEF UseInv, TypeOK, TakeVictim, DequeueFifo, Queues
  <2>5. [evict[e] EXCEPT !.victim = p] \in EvictLocals
    BY <2>1, <1>0 DEF EvictLocals
  <2>6. evict' \in [Evictors -> EvictLocals]
    BY <1>1, <2>5 DEF UseInv, TypeOK, TakeVictim
  <2> QED BY <1>1, <2>3, <2>4, <2>6 DEF UseInv, TypeOK, TakeVictim, PcLabels
<1>2. CASE ProtectVictim(e)
  <2> DEFINE p == Victim(e)
  <2>0. p \in Pages /\ page[p] \in UserPage /\ page[p].va \in VA
    BY <1>v, <1>2 DEF ProtectVictim, EvictPcs, HoldsVictim
  <2>1. [page[p] EXCEPT !.migrating = TRUE] \in UserPage
    BY <2>0 DEF UserPage
  <2>2. page' \in [Pages -> UserPage]
    BY <1>2, <2>1, PageUpdate DEF UseInv, TypeOK, ProtectVictim
  <2>3. [evict[e] EXCEPT !.old_offset = page[p].virtual_offset] \in EvictLocals
    BY <2>0, <1>0 DEF EvictLocals, UserPage
  <2>4. evict' \in [Evictors -> EvictLocals]
    BY <1>2, <2>3 DEF UseInv, TypeOK, ProtectVictim
  <2>5. [pte[page[p].va] EXCEPT !.wp = @ \/ pte[page[p].va].present] \in Pte
    BY <2>0 DEF UseInv, TypeOK, Pte
  <2>6. pte' \in [VA -> Pte]
    BY <1>2, <2>5 DEF UseInv, TypeOK, ProtectVictim, UffdioWriteprotect
  <2> QED BY <1>2, <2>2, <2>4, <2>6 DEF UseInv, TypeOK, ProtectVictim, PcLabels
<1>3. CASE BackByReserve(e)
  <2> DEFINE p == Victim(e)
             d == page[p].reserve
  <2>0. p \in Pages /\ page[p] \in UserPage /\ page[p].va \in VA
    BY <1>v, <1>3 DEF BackByReserve, EvictPcs, HoldsVictim
  <2>1. d \in Pages /\ page[d] \in UserPage
    BY <2>0, <1>3 DEF BackByReserve, UserPage, UseInv, TypeOK
  <2>2. [page[d] EXCEPT !.list = "none"] \in UserPage
    BY <2>1 DEF UserPage, Lists
  <2>3. page' \in [Pages -> UserPage]
    BY <1>3, <2>2, PageUpdate DEF UseInv, TypeOK, BackByReserve
  <2>4. NeedsWriteback(p) \in BOOLEAN
    BY DEF NeedsWriteback
  <2>5. [evict[e] EXCEPT !.dpage = d, !.backed = TRUE, !.writeback = NeedsWriteback(p)]
          \in EvictLocals
    BY <2>1, <2>4, <1>0 DEF EvictLocals
  <2>6. evict' \in [Evictors -> EvictLocals]
    BY <1>3, <2>5 DEF UseInv, TypeOK, BackByReserve
  <2> QED BY <1>3, <2>3, <2>6 DEF UseInv, TypeOK, BackByReserve, PcLabels
<1>4. CASE BackByFreeSlot(e)
  <2> DEFINE p == Victim(e)
             d == Head(fifo["disk_free"])
  <2>0. /\ fifo["disk_free"] # <<>> /\ fifo["disk_free"] \in Seq(Pages)
        /\ page' = [page EXCEPT ![d].list = "none"]
        /\ fifo' = DequeueFifo("disk_free")
        /\ evict' = [evict EXCEPT ![e].dpage = d, ![e].backed = FALSE,
                                  ![e].writeback = NeedsWriteback(p)]
        /\ pc' = [pc EXCEPT ![e] = "write"]
        /\ UNCHANGED <<pages, pte, disk, fault, scan, failed>>
    BY <1>4 DEF BackByFreeSlot, UseInv, TypeOK, Queues
  <2>1. d \in Pages /\ page[d] \in UserPage
    BY <2>0, HeadTail DEF UseInv, TypeOK
  <2>2. [page[d] EXCEPT !.list = "none"] \in UserPage
    BY <2>1 DEF UserPage, Lists
  <2>3. page' \in [Pages -> UserPage]
    BY <2>0, <2>2, PageUpdate DEF UseInv, TypeOK
  <2>4. NeedsWriteback(p) \in BOOLEAN
    BY DEF NeedsWriteback
  <2>5. [evict[e] EXCEPT !.dpage = d, !.backed = FALSE, !.writeback = NeedsWriteback(p)]
          \in EvictLocals
    BY <2>1, <2>4, <1>0 DEF EvictLocals
  <2>6. evict' \in [Evictors -> EvictLocals]
    BY <2>0, <2>5 DEF UseInv, TypeOK
  <2>7. fifo' \in [Queues -> Seq(Pages)]
    BY <2>0, HeadTail DEF UseInv, TypeOK, DequeueFifo, Queues
  <2> QED BY <2>0, <2>3, <2>6, <2>7 DEF UseInv, TypeOK, PcLabels
<1>5. CASE WriteBack(e)
  <2> DEFINE p == Victim(e)
  <2>0. p \in Pages /\ page[p] \in UserPage /\ page[p].va \in VA
    BY <1>v, <1>5 DEF WriteBack, EvictPcs, HoldsVictim
  <2>1. [page[p] EXCEPT !.migrating = @ \/ e \in Threads] \in UserPage
    BY <2>0 DEF UserPage
  <2>2. page' \in [Pages -> UserPage]
    BY <1>5, <2>1, PageUpdate DEF UseInv, TypeOK, WriteBack
  <2>3. disk' \in [Offsets -> Vals]
    BY <1>5, <2>0 DEF UseInv, TypeOK, WriteBack, DiskWrite, Pte
  <2> QED BY <1>5, <2>2, <2>3 DEF UseInv, TypeOK, WriteBack, PcLabels
<1>6. CASE UnmapVictim(e)
  <2> DEFINE p == Victim(e)
  <2>0. p \in Pages /\ page[p] \in UserPage /\ page[DiskPage(e)] \in UserPage
    BY <1>v, <1>d, <1>6 DEF UnmapVictim, EvictPcs
  <2>1. [page[p] EXCEPT !.virtual_offset = page[DiskPage(e)].virtual_offset,
                        !.in_dram = FALSE] \in UserPage
    BY <2>0 DEF UserPage
  <2>2. page' \in [Pages -> UserPage]
    BY <1>6, <2>1, PageUpdate DEF UseInv, TypeOK, UnmapVictim
  <2>3. pte' \in [VA -> Pte]
    BY <1>6, SizeAssumption DEF UseInv, TypeOK, UnmapVictim, MadviseDontneed, Pte, NoPte
  <2> QED BY <1>6, <2>2, <2>3 DEF UseInv, TypeOK, UnmapVictim, PcLabels
<1>7. CASE MarkSwappedOut(e)
  <2> DEFINE p == Victim(e)
  <2>0. p \in Pages /\ page[p] \in UserPage
    BY <1>v, <1>7 DEF MarkSwappedOut, EvictPcs
  <2>1. [page[p] EXCEPT !.swapped_out = TRUE] \in UserPage
    BY <2>0 DEF UserPage
  <2>2. page' \in [Pages -> UserPage]
    BY <1>7, <2>1, PageUpdate DEF UseInv, TypeOK, MarkSwappedOut
  <2> QED BY <1>7, <2>2 DEF UseInv, TypeOK, MarkSwappedOut, PcLabels
<1>8. CASE FreeFrame(e)
  <2> DEFINE p == Victim(e)
             d == DiskPage(e)
             s == [page[p] EXCEPT !.reserve = IF evict[e].backed THEN 0 ELSE page[p].reserve]
             r == [AsFrame(page[d], evict[e].old_offset) EXCEPT !.list = "dram_free"]
  <2>0. d \in Pages /\ page[d] \in UserPage /\ page[p] \in UserPage
    BY <1>v, <1>d, <1>8 DEF FreeFrame, EvictPcs
  <2>1. s \in UserPage
    BY <2>0 DEF UserPage
  <2>2. r \in UserPage
    BY <2>0, <1>0 DEF AsFrame, UserPage, Lists, Queues, EvictLocals
  <2>3. page' = [page EXCEPT ![p].reserve = IF evict[e].backed THEN 0 ELSE @, ![d] = r]
    BY <1>8 DEF FreeFrame
  <2>5. page' \in [Pages -> UserPage]
    BY <2>1, <2>2, <2>3 DEF UseInv, TypeOK
  <2>6. [evict[e] EXCEPT !.dpage = 0] \in EvictLocals
    BY <1>0 DEF EvictLocals
  <2>7. evict' \in [Evictors -> EvictLocals]
    BY <1>8, <2>6 DEF UseInv, TypeOK, FreeFrame
  <2>8. fifo' \in [Queues -> Seq(Pages)]
    BY <1>8, <2>0 DEF UseInv, TypeOK, FreeFrame, EnqueueFifo, Queues
  <2> QED BY <1>8, <2>5, <2>7, <2>8 DEF UseInv, TypeOK, FreeFrame, PcLabels
<1>9. CASE TrackVictim(e)
  <2> DEFINE p == Victim(e)
             d == DiskPage(e)
  <2>0. p \in Pages /\ page[p] \in UserPage
    BY <1>v, <1>9 DEF TrackVictim, EvictPcs
  <2>1. CASE e \in Workers
    <3>1. [page[p] EXCEPT !.list = "disk_active"] \in UserPage
      BY <2>0 DEF UserPage, Lists
    <3>2. page' \in [Pages -> UserPage]
      BY <1>9, <2>1, <3>1, PageUpdate DEF UseInv, TypeOK, TrackVictim
    <3> QED BY <1>9, <3>2 DEF UseInv, TypeOK, TrackVictim, PcLabels
  <2>2. CASE e \notin Workers
    <3> DEFINE r == AsFrame(page[d], evict[e].old_offset)
    <3>0. d \in Pages /\ page[d] \in UserPage
      BY <1>d, <1>9, <2>2 DEF TrackVictim, Evictors
    <3>1. [page[p] EXCEPT !.list = "disk_active", !.reserve = 0] \in UserPage
      BY <2>0 DEF UserPage, Lists
    <3>2. r \in UserPage
      BY <3>0, <1>0 DEF AsFrame, UserPage, EvictLocals
    <3>3. page' = [page EXCEPT ![p].list = "disk_active", ![p].reserve = 0, ![d] = r]
      BY <1>9, <2>2 DEF TrackVictim
    <3>5. page' \in [Pages -> UserPage]
      BY <3>1, <3>2, <3>3 DEF UseInv, TypeOK
    <3> QED BY <1>9, <3>5 DEF UseInv, TypeOK, TrackVictim, PcLabels
  <2> QED BY <2>1, <2>2
<1> QED BY <1>1, <1>2, <1>3, <1>4, <1>5, <1>6, <1>7, <1>8, <1>9 DEF EvictStep

\* So does a worker that lets its victim go.
LEMMA ReleaseTypes ==
    ASSUME UseInv, NEW w \in Workers, ReleaseVictim(w)
    PROVE  TypeOK'
<1> SUFFICES ASSUME ~Crash PROVE TypeOK'
  BY CrashTypes DEF UseInv
<1>1. /\ page' = [page EXCEPT ![Victim(w)].migrating = FALSE]
      /\ evict' = [evict EXCEPT ![w] = NoEvict]
      /\ pc' = [pc EXCEPT ![w] = "idle"]
      /\ UNCHANGED <<fifo, pages, pte, disk, fault, scan, failed>>
  BY DEF ReleaseVictim, Abort, Crash, AssertLabels
<1>2. /\ w \in Evictors /\ w \in Executors /\ At(w, "release")
      /\ evict[w] \in EvictLocals
  BY DEF Evictors, Executors, ReleaseVictim, UseInv, TypeOK
<1>3. Victim(w) \in Pages
  BY <1>2 DEF At, Victim, UseInv, LocalsOK, LocalOK, EvictorOK, EvictPcs, EvictLocals
<1>4. page[Victim(w)] \in UserPage
  BY <1>3 DEF UseInv, TypeOK
<1>5. [page[Victim(w)] EXCEPT !.migrating = FALSE] \in UserPage
  BY <1>4 DEF UserPage
<1>6. page' \in [Pages -> UserPage]
  BY <1>1, <1>5, PageUpdate DEF UseInv, TypeOK
<1>7. NoEvict \in EvictLocals
  BY SizeAssumption DEF NoEvict, EvictLocals, Offsets
<1> QED BY <1>1, <1>6, <1>7 DEF UseInv, TypeOK, PcLabels

\* And the steps of a reclaim scan.
LEMMA ScanTypes ==
    ASSUME UseInv, NEW e \in Scanners, ScanStep(e)
    PROVE  TypeOK'
<1>0. e \in Executors /\ ScanPoint(e) \in PcLabels
  BY DEF Scanners, Executors, ScanPoint, PcLabels
<1>t. ASSUME NEW q \in Queues, NEW next \in PcLabels, ScanTake(e, q, next)
      PROVE  TypeOK'
  <2> DEFINE p == Head(fifo[q])
  <2>1. p \in Pages /\ page[p] \in UserPage /\ Tail(fifo[q]) \in Seq(Pages)
    BY <1>t, HeadTail DEF UseInv, TypeOK, ScanTake
  <2>2. [page[p] EXCEPT !.list = "none"] \in UserPage
    BY <2>1 DEF UserPage, Lists
  <2>3. page' \in [Pages -> UserPage]
    BY <1>t, <2>2, PageUpdate DEF UseInv, TypeOK, ScanTake
  <2>4. fifo' \in [Queues -> Seq(Pages)]
    BY <1>t, <2>1 DEF UseInv, TypeOK, ScanTake, DequeueFifo
  <2> QED BY <1>t, <2>1, <2>3, <2>4 DEF UseInv, TypeOK, ScanTake
<1>p. ASSUME NEW q \in Queues, scan[e] \in Pages, ScanPut(e, q)
      PROVE  TypeOK'
  <2>1. page[scan[e]] \in UserPage
    BY <1>p DEF UseInv, TypeOK
  <2>2. [page[scan[e]] EXCEPT !.list = q] \in UserPage
    BY <2>1 DEF UserPage, Lists
  <2>3. page' \in [Pages -> UserPage]
    BY <1>p, <2>2, PageUpdate DEF UseInv, TypeOK, ScanPut
  <2>4. fifo' \in [Queues -> Seq(Pages)]
    BY <1>p DEF UseInv, TypeOK, ScanPut, EnqueueFifo
  <2> QED BY <1>0, <1>p, <2>3, <2>4 DEF UseInv, TypeOK, ScanPut
<1>s. pc[e] \in ScanPcs => scan[e] \in Pages
  BY <1>0 DEF UseInv, TypeOK, LocalsOK, LocalOK
<1>1. CASE ScanInactive(e)
  BY <1>1, <1>t DEF ScanInactive, Queues, PcLabels
<1>2. CASE KeepOrEvict(e)
  BY <1>2, <1>p, <1>s DEF KeepOrEvict, At, Queues, ScanPcs
<1>3. CASE ScanActive(e)
  BY <1>3, <1>t DEF ScanActive, Queues, PcLabels
<1>4. CASE Deactivate(e)
  BY <1>4, <1>p, <1>s DEF Deactivate, At, Queues, ScanPcs
<1> QED BY <1>1, <1>2, <1>3, <1>4 DEF ScanStep

\* And the application's accesses.
LEMMA ApplicationTypes ==
    ASSUME UseInv, NEW t \in Threads, Application(t)
    PROVE  TypeOK'
<1>1. ASSUME NEW v \in VA, Touch(t, v) PROVE TypeOK'
  <2>1. [fault[t] EXCEPT !.addr = v] \in FaultLocals
    BY DEF UseInv, TypeOK, FaultLocals
  <2>2. fault' \in [Threads -> FaultLocals]
    BY <1>1, <2>1 DEF UseInv, TypeOK, Touch
  <2> QED BY <1>1, <2>2 DEF UseInv, TypeOK, Touch, sharedVars, PcLabels
<1>2. ASSUME NEW v \in VA, NEW x \in Vals, Store(t, v, x) PROVE TypeOK'
  <2>1. [pte[v] EXCEPT !.data = x, !.dirty = TRUE] \in Pte
    BY DEF UseInv, TypeOK, Pte
  <2>2. pte' \in [VA -> Pte]
    BY <1>2, <2>1 DEF UseInv, TypeOK, Store
  <2> QED BY <1>2, <2>2 DEF UseInv, TypeOK, Store
<1> QED BY <1>1, <1>2 DEF Application

\* Replacing a sequence of a thread's locals by another keeps their type.
LEMMA FaultUpdate ==
    ASSUME NEW f \in FaultLocals, NEW s \in Seq(Pages)
    PROVE  /\ [f EXCEPT !.reading = s] \in FaultLocals
           /\ [f EXCEPT !.frees = s] \in FaultLocals
  BY DEF FaultLocals

\* A thread that receives a frame keeps the types of its own variables.
LEMMA ReceiveTypes ==
    ASSUME TypeOK, NEW t \in Threads, NEW d \in Pages, ReceiveFrame(t, d)
    PROVE  fault' \in [Threads -> FaultLocals] /\ pc' \in [Executors -> PcLabels]
<1>1. fault[t] \in FaultLocals
  BY DEF TypeOK
<1>a. Append(fault[t].frees, d) \in Seq(Pages)
  BY <1>1 DEF FaultLocals
<1>2. [fault[t] EXCEPT !.frees = Append(fault[t].frees, d)] \in FaultLocals
  BY <1>1, <1>a, FaultUpdate
<1>3. fault' \in [Threads -> FaultLocals]
  BY <1>2 DEF TypeOK, ReceiveFrame
<1>4. pc' \in [Executors -> PcLabels]
  BY DEF TypeOK, ReceiveFrame, PcLabels
<1> QED BY <1>3, <1>4

\* A thread that returns to the application, too.
LEMMA ResumeTypes ==
    ASSUME TypeOK, NEW t \in Threads, Resume(t)
    PROVE  fault' \in [Threads -> FaultLocals] /\ pc' \in [Executors -> PcLabels]
<1>1. NoFault \in FaultLocals
  BY DEF NoFault, FaultLocals
<1> QED BY <1>1 DEF TypeOK, Resume, PcLabels

\* The steps of a fault keep the types: the steps before a frame is needed.
LEMMA FaultStartTypes ==
    ASSUME UseInv, NEW t \in Threads,
           \/ uswap_sig_handler(t) \/ Spin(t) \/ handle_missing_fault(t) \/ DiskRead(t)
           \/ PrefetchFind(t)
    PROVE  TypeOK'
<1> SUFFICES ASSUME ~Crash PROVE TypeOK'
  BY CrashTypes DEF UseInv
<1>0. t \in Executors /\ fault[t] \in FaultLocals /\ ThreadOK(t) /\ TypeOK
  BY DEF UseInv, TypeOK, Executors, LocalsOK, LocalOK
<1>c. ASSUME NEW p \in Pages, page' = ClaimPage(p)
      PROVE  page' \in [Pages -> UserPage]
  <2>1. page[p] \in UserPage
    BY <1>0 DEF TypeOK
  <2>2. [page[p] EXCEPT !.migrating = TRUE, !.list = "none"] \in UserPage
    BY <2>1 DEF UserPage, Lists
  <2> QED BY <1>0, <1>c, <2>2 DEF ClaimPage, TypeOK
<1>1. CASE uswap_sig_handler(t)
  <2> DEFINE p == pages[fault[t].addr]
  <2>1. fault[t].addr \in VA
    BY <1>0, <1>1 DEF uswap_sig_handler, At, ThreadOK
  <2>2. p \in Pages \cup {0}
    BY <1>0, <2>1 DEF TypeOK
  <2>3. /\ [fault[t] EXCEPT !.job = "first"] \in FaultLocals
        /\ [fault[t] EXCEPT !.page = p] \in FaultLocals
    BY <1>0, <2>2 DEF FaultLocals
  <2>4. fault' \in [Threads -> FaultLocals]
    BY <1>0, <1>1, <2>3 DEF uswap_sig_handler, TypeOK
  <2>5. pc' \in [Executors -> PcLabels]
    BY <1>0, <1>1 DEF uswap_sig_handler, TypeOK, PcLabels
  <2> QED BY <1>0, <1>1, <2>4, <2>5 DEF uswap_sig_handler, TypeOK, sharedVars
<1>2. CASE Spin(t)
  BY <1>0, <1>2, ResumeTypes DEF Spin, TypeOK, sharedVars
<1>3. CASE handle_missing_fault(t)
  <2> DEFINE p == fault[t].page
  <2>1. p \in Pages
    BY <1>0, <1>3 DEF handle_missing_fault, At, ThreadOK, FaultLocals
  <2>2. CASE ~Claimable(p)
    BY <1>0, <1>3, <2>2 DEF handle_missing_fault, TypeOK, sharedVars, PcLabels
  <2>3. CASE Claimable(p)
    <3>1. /\ page' = ClaimPage(p)
          /\ fault' = [fault EXCEPT ![t].job = "swapin", ![t].reading = <<p>>]
          /\ pc' = [pc EXCEPT ![t] = "fetch"]
          /\ UNCHANGED <<fifo, pages, pte, disk, scan, evict, failed>>
      BY <1>3, <2>3 DEF handle_missing_fault, Abort, Crash, AssertLabels
    <3>2. [fault[t] EXCEPT !.job = "swapin", !.reading = <<p>>] \in FaultLocals
      <4>1. <<p>> \in Seq(Pages)
        BY <2>1
      <4>2. [fault[t] EXCEPT !.reading = <<p>>] \in FaultLocals
        BY <1>0, <4>1, FaultUpdate
      <4> QED BY <1>0, <4>2 DEF FaultLocals
    <3>3. fault' \in [Threads -> FaultLocals]
      BY <1>0, <3>1, <3>2 DEF TypeOK
    <3> QED BY <1>0, <1>c, <2>1, <3>1, <3>3 DEF TypeOK, PcLabels
  <2> QED BY <2>2, <2>3
<1>4. CASE DiskRead(t)
  <2> DEFINE b == [i \in 1 .. Len(fault[t].reading) |->
                      disk[page[fault[t].reading[i]].virtual_offset]]
  <2>1. fault[t].reading \in Seq(Pages)
    BY <1>0 DEF FaultLocals
  <2>2. \A i \in 1 .. Len(fault[t].reading) :
           disk[page[fault[t].reading[i]].virtual_offset] \in Vals
    <3> TAKE i \in 1 .. Len(fault[t].reading)
    <3>1. fault[t].reading[i] \in Pages
      BY <2>1
    <3>2. page[fault[t].reading[i]] \in UserPage
      BY <1>0, <3>1 DEF TypeOK
    <3> QED BY <1>0, <3>2 DEF TypeOK, UserPage
  <2>3. b \in Seq(Vals)
    BY <2>1, <2>2
  <2>4. [fault[t] EXCEPT !.buf = b] \in FaultLocals
    BY <1>0, <2>3 DEF FaultLocals
  <2>5. fault' \in [Threads -> FaultLocals]
    BY <1>0, <1>4, <2>4 DEF DiskRead, TypeOK
  <2> QED BY <1>0, <1>4, <2>5 DEF DiskRead, TypeOK, sharedVars
<1>5. CASE PrefetchFind(t)
  <2> DEFINE p == pages[PrefetchNext(t)]
  <2>1. CASE PrefetchWanted(t)
    <3>1. p \in Pages
      BY <1>0, <2>1 DEF PrefetchWanted, TypeOK
    <3>2. /\ page' = ClaimPage(p)
          /\ fault' = [fault EXCEPT ![t].reading = Append(fault[t].reading, p)]
          /\ UNCHANGED <<fifo, pages, pte, disk, pc, scan, evict, failed>>
      BY <1>5, <2>1 DEF PrefetchFind, Abort, Crash, AssertLabels
    <3>a. Append(fault[t].reading, p) \in Seq(Pages)
      BY <1>0, <3>1 DEF FaultLocals
    <3>3. [fault[t] EXCEPT !.reading = Append(fault[t].reading, p)] \in FaultLocals
      BY <1>0, <3>a, FaultUpdate
    <3>4. fault' \in [Threads -> FaultLocals]
      BY <1>0, <3>2, <3>3 DEF TypeOK
    <3> QED BY <1>0, <1>c, <3>1, <3>2, <3>4 DEF TypeOK
  <2>2. CASE ~PrefetchWanted(t)
    <3>1. CASE Resume(t) /\ UNCHANGED <<sharedVars, scan, evict, failed>>
      BY <1>0, <3>1, ResumeTypes DEF TypeOK, sharedVars
    <3>2. CASE /\ pc' = [pc EXCEPT ![t] = "fetch"]
               /\ UNCHANGED <<sharedVars, fault, scan, evict, failed>>
      BY <1>0, <3>2 DEF TypeOK, sharedVars, PcLabels
    <3> QED BY <1>5, <2>2, <3>1, <3>2 DEF PrefetchFind
  <2> QED BY <2>1, <2>2
<1> QED BY <1>1, <1>2, <1>3, <1>4, <1>5

\* The steps that look for a frame, and those of a first touch.
LEMMA FetchTypes ==
    ASSUME UseInv, NEW t \in Threads,
           \/ FetchFree(t) \/ FetchReclaim(t) \/ FetchRetry(t) \/ FetchEvicted(t)
           \/ FirstAllocate(t) \/ PutBack(t) \/ FirstMap(t) \/ FirstAdd(t)
    PROVE  TypeOK'
<1> SUFFICES ASSUME ~Crash PROVE TypeOK'
  BY CrashTypes DEF UseInv
<1>0. /\ t \in Executors /\ t \in Evictors /\ TypeOK
      /\ fault[t] \in FaultLocals /\ evict[t] \in EvictLocals
      /\ ThreadOK(t) /\ EvictorOK(t) /\ LocalUsed(t)
  BY DEF UseInv, TypeOK, Executors, Evictors, LocalsOK, LocalOK, LocalsUsed
<1>n. ASSUME pc[t] \in FirstPcs
      PROVE  NewPage(t) \in Pages /\ page[NewPage(t)] \in UserPage
  <2>1. fault[t].frees \in Seq(Pages) /\ Len(fault[t].frees) = 1
    BY <1>0, <1>n DEF ThreadOK, FaultLocals
  <2>2. NewPage(t) \in Pages
    BY <2>1 DEF NewPage
  <2> QED BY <1>0, <2>2 DEF TypeOK
<1>f. ASSUME NEW d \in Pages
      PROVE  FramePage(t, page[d]) \in UserPage
  <2>1. page[d] \in UserPage
    BY <1>0 DEF TypeOK
  <2> QED BY <2>1 DEF FramePage, UserPage
<1>1. CASE FetchFree(t)
  <2> DEFINE d == Head(fifo["dram_free"])
  <2>1. fifo["dram_free"] # <<>> /\ fifo["dram_free"] \in Seq(Pages)
    BY <1>0, <1>1 DEF FetchFree, TypeOK, Queues
  <2>2. d \in Pages /\ Tail(fifo["dram_free"]) \in Seq(Pages)
    BY <2>1, HeadTail
  <2>3. [FramePage(t, page[d]) EXCEPT !.list = "none"] \in UserPage
    <3>1. FramePage(t, page[d]) \in UserPage
      BY <2>2, <1>f
    <3> QED BY <3>1 DEF UserPage, Lists
  <2>4. page' \in [Pages -> UserPage]
    BY <1>0, <1>1, <2>3, PageUpdate DEF FetchFree, TypeOK
  <2>5. fifo' \in [Queues -> Seq(Pages)]
    BY <1>0, <1>1, <2>2 DEF FetchFree, DequeueFifo, TypeOK, Queues
  <2>6. fault' \in [Threads -> FaultLocals] /\ pc' \in [Executors -> PcLabels]
    BY <1>0, <1>1, <2>2, ReceiveTypes DEF FetchFree
  <2> QED BY <1>0, <1>1, <2>4, <2>5, <2>6 DEF FetchFree, TypeOK
<1>2. CASE FetchReclaim(t)
  BY <1>0, <1>2 DEF FetchReclaim, TypeOK, sharedVars, PcLabels
<1>3. CASE FetchRetry(t)
  BY <1>0, <1>3 DEF FetchRetry, TypeOK, sharedVars, PcLabels
<1>4. CASE FetchEvicted(t)
  <2>1. /\ page' = [page EXCEPT ![Victim(t)].migrating = FALSE,
                                ![DiskPage(t)] = FramePage(t, page[DiskPage(t)])]
        /\ evict' = [evict EXCEPT ![t] = NoEvict]
        /\ ReceiveFrame(t, DiskPage(t))
        /\ UNCHANGED <<fifo, pages, pte, disk, scan, failed>>
    BY <1>4 DEF FetchEvicted, Abort, Crash, AssertLabels
  <2>2. Victim(t) \in Pages /\ DiskPage(t) \in Pages
    BY <1>0, <1>4 DEF FetchEvicted, At, EvictorOK, EvictPcs, EvictLocals, Victim, DiskPage
  <2>3. [page[Victim(t)] EXCEPT !.migrating = FALSE] \in UserPage
    <3>1. page[Victim(t)] \in UserPage
      BY <1>0, <2>2 DEF TypeOK
    <3> QED BY <3>1 DEF UserPage
  <2>4. page' \in [Pages -> UserPage]
    BY <1>0, <1>f, <2>1, <2>2, <2>3 DEF TypeOK
  <2>5. NoEvict \in EvictLocals
    BY SizeAssumption DEF NoEvict, EvictLocals, Offsets
  <2>6. fault' \in [Threads -> FaultLocals] /\ pc' \in [Executors -> PcLabels]
    BY <1>0, <2>1, <2>2, ReceiveTypes
  <2> QED BY <1>0, <2>1, <2>4, <2>5, <2>6 DEF TypeOK
<1>5. CASE FirstAllocate(t)
  <2> DEFINE v == fault[t].addr
             n == NewPage(t)
  <2>0. v \in VA /\ n \in Pages /\ page[n] \in UserPage
    BY <1>0, <1>n, <1>5 DEF FirstAllocate, At, ThreadOK, FirstPcs
  <2>1. CASE pages[v] # 0
    <3>1. pages[v] \in Pages
      BY <1>0, <2>0, <2>1 DEF TypeOK
    <3>2. [fault[t] EXCEPT !.page = pages[v]] \in FaultLocals
      BY <1>0, <3>1 DEF FaultLocals
    <3>3. fault' \in [Threads -> FaultLocals]
      BY <1>0, <1>5, <2>1, <3>2 DEF FirstAllocate, TypeOK
    <3> QED BY <1>0, <1>5, <2>1, <3>3 DEF FirstAllocate, TypeOK, sharedVars, PcLabels
  <2>2. CASE pages[v] = 0
    <3>1. /\ page' = [page EXCEPT ![n].migrating = TRUE,
                                  ![n].swapped_out = FALSE, ![n].va = v]
          /\ pages' = [pages EXCEPT ![v] = n]
          /\ pc' = [pc EXCEPT ![t] = "map"]
          /\ UNCHANGED <<fifo, pte, disk, fault, scan, evict, failed>>
      BY <1>5, <2>2 DEF FirstAllocate, Abort, Crash, AssertLabels
    <3>2. [page[n] EXCEPT !.migrating = TRUE, !.swapped_out = FALSE, !.va = v] \in UserPage
      BY <2>0 DEF UserPage
    <3>3. page' \in [Pages -> UserPage]
      BY <1>0, <3>1, <3>2 DEF TypeOK
    <3> QED BY <1>0, <2>0, <3>1, <3>3 DEF TypeOK, PcLabels
  <2> QED BY <2>1, <2>2
<1>6. CASE PutBack(t)
  <2> DEFINE n == NewPage(t)
  <2>0. n \in Pages /\ page[n] \in UserPage
    BY <1>n, <1>6 DEF PutBack, At, FirstPcs
  <2>1. /\ fifo' = EnqueueFifo("dram_free", n)
        /\ page' = [page EXCEPT ![n].list = "dram_free"]
        /\ fault' = [fault EXCEPT ![t].frees = <<>>]
        /\ pc' = [pc EXCEPT ![t] = "spin"]
        /\ UNCHANGED <<pages, pte, disk, scan, evict, failed>>
    BY <1>6 DEF PutBack, Abort, Crash, AssertLabels
  <2>2. [page[n] EXCEPT !.list = "dram_free"] \in UserPage
    BY <2>0 DEF UserPage, Lists, Queues
  <2>3. page' \in [Pages -> UserPage]
    BY <1>0, <2>1, <2>2, PageUpdate DEF TypeOK
  <2>4. fifo' \in [Queues -> Seq(Pages)]
    BY <1>0, <2>0, <2>1 DEF EnqueueFifo, TypeOK, Queues
  <2>5. [fault[t] EXCEPT !.frees = <<>>] \in FaultLocals
    <3>1. <<>> \in Seq(Pages)
      OBVIOUS
    <3> QED BY <1>0, <3>1, FaultUpdate
  <2>6. fault' \in [Threads -> FaultLocals]
    BY <1>0, <2>1, <2>5 DEF TypeOK
  <2> QED BY <1>0, <2>1, <2>3, <2>4, <2>6 DEF TypeOK, PcLabels
<1>7. CASE FirstMap(t)
  <2> DEFINE n == NewPage(t)
  <2>0. n \in Pages /\ page[n] \in UserPage
    BY <1>n, <1>7 DEF FirstMap, At, FirstPcs
  <2>1. /\ pte' = UffdioCopy(page[n].va, Zero)
        /\ page' = [page EXCEPT ![n].migrating = FALSE, ![n].swapped_out = FALSE]
        /\ pc' = [pc EXCEPT ![t] = "add"]
        /\ UNCHANGED <<fifo, pages, disk, fault, scan, evict, failed>>
    BY <1>7 DEF FirstMap, Abort, Crash, AssertLabels
  <2>2. [page[n] EXCEPT !.migrating = FALSE, !.swapped_out = FALSE] \in UserPage
    BY <2>0 DEF UserPage
  <2>3. page' \in [Pages -> UserPage]
    BY <1>0, <2>1, <2>2 DEF TypeOK
  <2>4. [present |-> TRUE, wp |-> FALSE, dirty |-> FALSE, data |-> Zero] \in Pte
    BY SizeAssumption DEF Pte
  <2>5. pte' \in [VA -> Pte]
    BY <1>0, <2>1, <2>4 DEF UffdioCopy, TypeOK
  <2> QED BY <1>0, <2>1, <2>3, <2>5 DEF TypeOK, PcLabels
<1>8. CASE FirstAdd(t)
  <2> DEFINE n == NewPage(t)
  <2>0. n \in Pages /\ page[n] \in UserPage
    BY <1>n, <1>8 DEF FirstAdd, At, FirstPcs
  <2>1. /\ fifo' = EnqueueFifo("inactive", n)
        /\ page' = [page EXCEPT ![n].list = "inactive"]
        /\ Resume(t)
        /\ UNCHANGED <<pages, pte, disk, scan, evict, failed>>
    BY <1>8 DEF FirstAdd, Abort, Crash, AssertLabels
  <2>2. [page[n] EXCEPT !.list = "inactive"] \in UserPage
    BY <2>0 DEF UserPage, Lists, Queues
  <2>3. page' \in [Pages -> UserPage]
    BY <1>0, <2>1, <2>2, PageUpdate DEF TypeOK
  <2>4. fifo' \in [Queues -> Seq(Pages)]
    BY <1>0, <2>0, <2>1 DEF EnqueueFifo, TypeOK, Queues
  <2>5. fault' \in [Threads -> FaultLocals] /\ pc' \in [Executors -> PcLabels]
    BY <1>0, <2>1, ResumeTypes
  <2> QED BY <1>0, <2>1, <2>3, <2>4, <2>5 DEF TypeOK
<1> QED BY <1>1, <1>2, <1>3, <1>4, <1>5, <1>6, <1>7, <1>8

\* The steps of a swap-in whose frame is there.
LEMMA SwapInTypes ==
    ASSUME UseInv, NEW t \in Threads,
           FinishRead(t) \/ PublishPage(t) \/ PrefetchResident(t) \/ Settle(t)
    PROVE  TypeOK'
<1> SUFFICES ASSUME ~Crash PROVE TypeOK'
  BY CrashTypes DEF UseInv
<1>0. t \in Executors /\ TypeOK /\ fault[t] \in FaultLocals /\ ThreadOK(t)
  BY DEF UseInv, TypeOK, Executors, LocalsOK, LocalOK
<1>p. ASSUME pc[t] \in SettlePcs
      PROVE  fault[t].page \in Pages /\ page[fault[t].page] \in UserPage
  BY <1>0, <1>p DEF ThreadOK, TypeOK, FaultLocals
<1>1. CASE FinishRead(t)
  <2> DEFINE p == Head(fault[t].reading)
             d == Head(fault[t].frees)
  <2>1. /\ fault[t].reading \in Seq(Pages) /\ fault[t].reading # <<>>
        /\ fault[t].frees \in Seq(Pages) /\ fault[t].frees # <<>>
        /\ fault[t].buf \in Seq(Vals) /\ fault[t].buf # <<>>
    <3>1. /\ fault[t].reading \in Seq(Pages) /\ fault[t].frees \in Seq(Pages)
          /\ fault[t].buf \in Seq(Vals)
      BY <1>0 DEF FaultLocals
    <3>2. /\ fault[t].reading # <<>> /\ fault[t].buf # <<>>
          /\ Len(fault[t].frees) = Len(fault[t].reading)
      BY <1>0, <1>1 DEF FinishRead, At, ThreadOK
    <3> QED BY <3>1, <3>2
  <2>2. /\ p \in Pages /\ Tail(fault[t].reading) \in Seq(Pages)
        /\ d \in Pages /\ Tail(fault[t].frees) \in Seq(Pages)
        /\ Head(fault[t].buf) \in Vals /\ Tail(fault[t].buf) \in Seq(Vals)
    BY <2>1, HeadTail
  <2>3. page[p] \in UserPage /\ page[d] \in UserPage
    BY <1>0, <2>2 DEF TypeOK
  <2>4. /\ pte' = UffdioCopy(page[p].va, Head(fault[t].buf))
        /\ page' = [page EXCEPT
             ![p].virtual_offset = page[d].virtual_offset,
             ![p].in_dram = page[p].in_dram \/ fault[t].job = "swapin",
             ![p].reserve = d,
             ![d] = AsReserve(page[d], p, page[p].virtual_offset)]
        /\ fault' = [fault EXCEPT ![t].page = p,
                                  ![t].reading = Tail(fault[t].reading),
                                  ![t].buf = Tail(fault[t].buf),
                                  ![t].frees = Tail(fault[t].frees)]
        /\ pc' = [pc EXCEPT ![t] = "publish"]
        /\ UNCHANGED <<fifo, pages, disk, scan, evict, failed>>
    BY <1>1 DEF FinishRead, Abort, Crash, AssertLabels
  <2>5. [page[p] EXCEPT !.virtual_offset = page[d].virtual_offset,
                        !.in_dram = page[p].in_dram \/ fault[t].job = "swapin",
                        !.reserve = d] \in UserPage
    BY <2>2, <2>3 DEF UserPage
  <2>6. AsReserve(page[d], p, page[p].virtual_offset) \in UserPage
    BY <2>2, <2>3 DEF AsReserve, UserPage, Lists
  <2>7. page' \in [Pages -> UserPage]
    BY <1>0, <2>4, <2>5, <2>6 DEF TypeOK
  <2>8. [present |-> TRUE, wp |-> FALSE, dirty |-> FALSE,
         data |-> Head(fault[t].buf)] \in Pte
    BY <2>2 DEF Pte
  <2>9. pte' \in [VA -> Pte]
    BY <1>0, <2>4, <2>8 DEF UffdioCopy, TypeOK
  <2>10. [fault[t] EXCEPT !.page = p, !.reading = Tail(fault[t].reading),
                          !.buf = Tail(fault[t].buf),
                          !.frees = Tail(fault[t].frees)] \in FaultLocals
    BY <1>0, <2>2 DEF FaultLocals
  <2>11. fault' \in [Threads -> FaultLocals]
    BY <1>0, <2>4, <2>10 DEF TypeOK
  <2> QED BY <1>0, <2>4, <2>7, <2>9, <2>11 DEF TypeOK, PcLabels
<1>2. CASE PublishPage(t)
  <2> DEFINE p == fault[t].page
  <2>1. p \in Pages /\ page[p] \in UserPage
    BY <1>p, <1>2 DEF PublishPage, At, SettlePcs
  <2>2. [page[p] EXCEPT !.list = "inactive"] \in UserPage
    BY <2>1 DEF UserPage, Lists, Queues
  <2>3. page' \in [Pages -> UserPage]
    BY <1>0, <1>2, <2>2, PageUpdate DEF PublishPage, TypeOK
  <2>4. fifo' \in [Queues -> Seq(Pages)]
    BY <1>0, <1>2, <2>1 DEF PublishPage, EnqueueFifo, TypeOK, Queues
  <2> QED BY <1>0, <1>2, <2>3, <2>4 DEF PublishPage, TypeOK, PcLabels
<1>3. CASE PrefetchResident(t)
  <2> DEFINE p == fault[t].page
  <2>1. p \in Pages /\ page[p] \in UserPage
    BY <1>p, <1>3 DEF PrefetchResident, At, SettlePcs
  <2>2. [page[p] EXCEPT !.in_dram = TRUE] \in UserPage
    BY <2>1 DEF UserPage
  <2>3. page' \in [Pages -> UserPage]
    BY <1>0, <1>3, <2>2, PageUpdate DEF PrefetchResident, TypeOK
  <2> QED BY <1>0, <1>3, <2>3 DEF PrefetchResident, TypeOK, PcLabels
<1>4. CASE Settle(t)
  <2> DEFINE p == fault[t].page
  <2>1. p \in Pages /\ page[p] \in UserPage
    BY <1>p, <1>4 DEF Settle, At, SettlePcs
  <2>2. [page[p] EXCEPT !.swapped_out = FALSE, !.migrating = FALSE] \in UserPage
    BY <2>1 DEF UserPage
  <2>3. page' \in [Pages -> UserPage]
    BY <1>0, <1>4, <2>2 DEF Settle, TypeOK
  <2>4. /\ [fault[t] EXCEPT !.job = "prefetch", !.page = 0] \in FaultLocals
        /\ [fault[t] EXCEPT !.page = 0] \in FaultLocals
    BY <1>0 DEF FaultLocals
  <2>5. fault' \in [Threads -> FaultLocals] /\ pc' \in [Executors -> PcLabels]
    <3>1. CASE Resume(t)
      BY <1>0, <3>1, ResumeTypes
    <3>2. CASE /\ fault' = [fault EXCEPT ![t].job = "prefetch", ![t].page = 0]
               /\ pc' = [pc EXCEPT ![t] = "find"]
      BY <1>0, <2>4, <3>2 DEF TypeOK, PcLabels
    <3>3. CASE /\ fault' = [fault EXCEPT ![t].page = 0]
               /\ pc' = [pc EXCEPT ![t] = "finish"]
      BY <1>0, <2>4, <3>3 DEF TypeOK, PcLabels
    <3> QED BY <1>4, <3>1, <3>2, <3>3 DEF Settle
  <2> QED BY <1>0, <1>4, <2>3, <2>5 DEF Settle, TypeOK
<1> QED BY <1>1, <1>2, <1>3, <1>4

-----------------------------------------------------------------------------
(* What a step leaves alone.                                                *)

\* Only x's locals change.
OnlyMoves(x) ==
    \A e \in Executors \ {x} :
      /\ pc'[e] = pc[e]
      /\ e \in Threads => fault'[e] = fault[e]
      /\ e \in Scanners => scan'[e] = scan[e]
      /\ e \in Evictors => evict'[e] = evict[e]

\* A descriptor that stands for a page keeps standing for it.
KeepsVa == \A p \in Pages : Mapped(p) => page'[p].va = page[p].va

\* The locals of the others are as good as they were.
LEMMA LocalsLift ==
    ASSUME LocalsOK, NEW x \in Executors, OnlyMoves(x), LocalOK(x)'
    PROVE  LocalsOK'
<1> SUFFICES ASSUME NEW e \in Executors \ {x} PROVE LocalOK(e)'
  BY DEF LocalsOK
<1>1. LocalOK(e)
  BY DEF LocalsOK
<1>2. e \in Evictors => EvictorOK(e)'
  BY <1>1 DEF LocalOK, EvictorOK, OnlyMoves
<1>3. e \in Threads => ThreadOK(e)'
  BY <1>1 DEF LocalOK, ThreadOK, OnlyMoves
<1> QED BY <1>1, <1>2, <1>3 DEF LocalOK, OnlyMoves

\* And their descriptors still stand for pages.
LEMMA MappedLift ==
    ASSUME TypeOK, LocalsUsed, NEW x \in Executors, OnlyMoves(x), KeepsVa,
           LocalUsed(x)', LocalsOK
    PROVE  LocalsUsed'
<1> SUFFICES ASSUME NEW e \in Executors \ {x} PROVE LocalUsed(e)'
  BY DEF LocalsUsed
<1>1. LocalUsed(e) /\ LocalOK(e)
  BY DEF LocalsUsed, LocalsOK
<1>2. ASSUME NEW p \in Pages, Mapped(p) PROVE page'[p].va \in VA
  BY <1>2 DEF KeepsVa, Mapped
<1>3. ASSUME e \in Evictors, HoldsVictim(e)' PROVE page'[evict[e].victim].va \in VA
  <2>1. HoldsVictim(e) /\ evict[e].victim # 0
    BY <1>1, <1>3 DEF OnlyMoves, HoldsVictim, LocalOK, EvictorOK, EvictPcs
  <2>2. evict[e].victim \in Pages /\ Mapped(evict[e].victim)
    BY <1>1, <1>3, <2>1 DEF LocalUsed, TypeOK, EvictLocals
  <2> QED BY <1>2, <2>2
<1>4. ASSUME e \in Scanners, scan'[e] # 0 PROVE page'[scan[e]].va \in VA
  <2>1. scan[e] \in Pages /\ Mapped(scan[e])
    BY <1>1, <1>4 DEF LocalUsed, OnlyMoves, TypeOK
  <2> QED BY <1>2, <2>1
<1>5. ASSUME e \in Threads
      PROVE  /\ pc'[e] \in {"missing", "publish"} => page'[fault[e].page].va \in VA
             /\ \A i \in DOMAIN fault'[e].reading : page'[fault[e].reading[i]].va \in VA
             /\ pc'[e] \in {"map", "add"} => page'[fault[e].frees[1]].va \in VA
  <2>0. fault'[e] = fault[e] /\ pc'[e] = pc[e]
    BY <1>5 DEF OnlyMoves
  <2>1. fault[e] \in FaultLocals
    BY <1>5 DEF TypeOK
  <2>2. pc'[e] \in {"missing", "publish"} => page'[fault[e].page].va \in VA
    <3>1. pc[e] \in {"missing", "publish"} =>
            fault[e].page \in Pages /\ Mapped(fault[e].page)
      BY <1>1, <1>5, <2>1 DEF LocalUsed, LocalOK, ThreadOK, SettlePcs, FaultLocals
    <3> QED BY <1>2, <2>0, <3>1
  <2>3. ASSUME NEW i \in DOMAIN fault'[e].reading PROVE page'[fault[e].reading[i]].va \in VA
    <3>1. fault[e].reading[i] \in Pages
      BY <2>0, <2>1, <2>3 DEF FaultLocals
    <3>2. Mapped(fault[e].reading[i])
      BY <1>1, <1>5, <2>0, <2>3 DEF LocalUsed
    <3> QED BY <1>2, <3>1, <3>2
  <2>4. ASSUME pc'[e] \in {"map", "add"} PROVE page'[fault[e].frees[1]].va \in VA
    <3>1. fault[e].frees \in Seq(Pages) /\ Len(fault[e].frees) = 1
      BY <1>1, <1>5, <2>0, <2>1, <2>4 DEF LocalOK, ThreadOK, FirstPcs, FaultLocals
    <3>2. fault[e].frees[1] \in Pages
      BY <3>1
    <3>3. Mapped(fault[e].frees[1])
      BY <1>1, <1>5, <2>0, <2>4 DEF LocalUsed
    <3> QED BY <1>2, <3>2, <3>3
  <2> QED BY <2>2, <2>3, <2>4
<1> QED BY <1>3, <1>4, <1>5 DEF LocalUsed, OnlyMoves, Mapped

\* Unless somebody enqueues a descriptor, the queues stay as they should be.
LEMMA QueuesLift ==
    ASSUME TypeOK, TypeOK', QueuesMapped, KeepsVa, NEW q \in Queues, NEW p \in Pages,
           \/ fifo' = fifo
           \/ fifo[q] # <<>> /\ fifo' = DequeueFifo(q)
           \/ /\ fifo' = EnqueueFifo(q, p)
              /\ Mapped(p) \/ q \notin {"active", "inactive", "eviction"}
    PROVE  QueuesMapped'
<1> SUFFICES ASSUME NEW r \in {"active", "inactive", "eviction"},
                    NEW i \in DOMAIN fifo'[r]
             PROVE  Mapped(fifo[r][i])'
  BY DEF QueuesMapped
<1>1. r \in Queues /\ fifo[r] \in Seq(Pages) /\ fifo'[r] \in Seq(Pages)
  BY DEF TypeOK, Queues
<1>2. fifo'[r][i] \in Pages /\ Mapped(fifo'[r][i])
  <2>1. CASE fifo' = fifo
    BY <1>1, <2>1 DEF QueuesMapped
  <2>2. CASE fifo[q] # <<>> /\ fifo' = DequeueFifo(q)
    <3>1. CASE q = r
      <4>1. fifo'[r] = Tail(fifo[r]) /\ fifo[r] # <<>>
        BY <1>1, <2>2, <3>1 DEF DequeueFifo, TypeOK
      <4>2. i \in 1 .. Len(fifo[r]) - 1 /\ fifo'[r][i] = fifo[r][i + 1]
        BY <1>1, <4>1, HeadTail
      <4>3. i + 1 \in DOMAIN fifo[r]
        BY <1>1, <4>2
      <4> QED BY <1>1, <4>2, <4>3 DEF QueuesMapped
    <3>2. CASE q # r
      BY <1>1, <2>2, <3>2 DEF DequeueFifo, TypeOK, QueuesMapped
    <3> QED BY <3>1, <3>2
  <2>3. CASE /\ fifo' = EnqueueFifo(q, p)
             /\ Mapped(p) \/ q \notin {"active", "inactive", "eviction"}
    <3>1. CASE q = r
      <4>1. fifo'[r] = Append(fifo[r], p) /\ Mapped(p)
        BY <1>1, <2>3, <3>1 DEF EnqueueFifo, TypeOK
      <4>2. CASE i = Len(fifo[r]) + 1
        BY <1>1, <4>1, <4>2
      <4>3. CASE i # Len(fifo[r]) + 1
        <5>1. i \in DOMAIN fifo[r] /\ fifo'[r][i] = fifo[r][i]
          BY <1>1, <4>1, <4>3
        <5> QED BY <1>1, <5>1 DEF QueuesMapped
      <4> QED BY <4>2, <4>3
    <3>2. CASE q # r
      BY <1>1, <2>3, <3>2 DEF EnqueueFifo, TypeOK, QueuesMapped
    <3> QED BY <3>1, <3>2
  <2> QED BY <2>1, <2>2, <2>3
<1> QED BY <1>2 DEF KeepsVa, Mapped

\* Nor does the hash table change but by a first touch.
LEMMA HashLift ==
    ASSUME TypeOK, HashOK, KeepsVa, pages' = pages
    PROVE  HashOK'
  BY DEF TypeOK, HashOK, KeepsVa, Mapped

\* The locals of a thread that goes on looking for a frame.
LEMMA FetchingOK ==
    ASSUME NEW t \in Threads, ThreadOK(t), fault'[t] = fault[t],
           pc[t] \in FetchPcs, pc'[t] \in FetchPcs
    PROVE  ThreadOK(t)'
  BY DEF ThreadOK, FetchPcs, ScanPcs, EvictPcs, FirstPcs, SettlePcs

-----------------------------------------------------------------------------
(* The invariant, one executor at a time.                                   *)

\* What x goes on to evict or to work on is what it already had, or mapped.
KeepsPages(x) ==
    /\ x \in Evictors => \/ evict'[x].victim \in {0, evict[x].victim}
                          \/ page'[evict'[x].victim].va \in VA
    /\ x \in Threads => \/ fault'[x].page \in {0, fault[x].page}
                         \/ page'[fault'[x].page].va \in VA

\* What a step of x has to establish.
StepOK(x) == /\ OnlyMoves(x) /\ KeepsVa /\ KeepsPages(x)
             /\ LocalOK(x)' /\ LocalUsed(x)' /\ QueuesMapped' /\ HashOK'

LEMMA StepLift ==
    ASSUME UseInv, TypeOK', NEW x \in Executors, StepOK(x)
    PROVE  UseInv'
<1>1. LocalsOK'
  BY LocalsLift DEF UseInv, StepOK
<1>2. LocalsUsed'
  BY MappedLift DEF UseInv, StepOK
<1> QED BY <1>1, <1>2 DEF UseInv, StepOK

\* A failed assertion changes nothing that the invariant speaks of.
LEMMA CrashInv ==
    ASSUME UseInv, Crash
    PROVE  UseInv'
<1>0. TypeOK'
  BY CrashTypes DEF UseInv
<1> USE DEF Crash, sharedVars
<1>1. LocalsOK'
  <2> SUFFICES ASSUME NEW e \in Executors PROVE LocalOK(e)'
    BY DEF LocalsOK
  <2>1. LocalOK(e)
    BY DEF UseInv, LocalsOK
  <2>2. (EvictorOK(e) => EvictorOK(e)') /\ (ThreadOK(e) => ThreadOK(e)')
    BY DEF EvictorOK, ThreadOK
  <2> QED BY <2>1, <2>2 DEF LocalOK
<1>2. LocalsUsed'
  BY DEF UseInv, LocalsUsed, LocalUsed, HoldsVictim, Mapped
<1>3. QueuesMapped' /\ HashOK'
  BY DEF UseInv, QueuesMapped, HashOK, Mapped
<1> QED BY <1>0, <1>1, <1>2, <1>3 DEF UseInv

\* A step of an evictor: its victim and its slot's descriptor.
LEMMA EvictInv ==
    ASSUME UseInv, NEW e \in Evictors, EvictStep(e), failed' = "none"
    PROVE  StepOK(e)
<1>t. TypeOK /\ TypeOK'
  BY EvictTypes DEF UseInv
<1>0. /\ e \in Executors /\ evict[e] \in EvictLocals
      /\ LocalOK(e) /\ EvictorOK(e) /\ LocalUsed(e)
  BY DEF UseInv, TypeOK, Evictors, Executors, LocalsOK, LocalOK, LocalsUsed
<1>a. UNCHANGED <<pages, fault, scan>>
  BY DEF EvictStep, TakeVictim, ProtectVictim, BackByReserve, BackByFreeSlot, WriteBack,
         UnmapVictim, MarkSwappedOut, FreeFrame, TrackVictim, Abort, sharedVars
<1>k. KeepsVa
  <2> SUFFICES ASSUME NEW p \in Pages PROVE page'[p].va = page[p].va
    BY DEF KeepsVa
  <2>u. page \in [Pages -> UserPage]
    BY <1>t DEF TypeOK
  <2> USE DEF Abort, UserPage
  <2>1. CASE TakeVictim(e)
    BY <2>u, <2>1 DEF TakeVictim
  <2>2. CASE ProtectVictim(e)
    BY <2>u, <2>2 DEF ProtectVictim
  <2>3. CASE BackByReserve(e)
    BY <2>u, <2>3 DEF BackByReserve
  <2>4. CASE BackByFreeSlot(e)
    BY <2>u, <2>4 DEF BackByFreeSlot
  <2>5. CASE WriteBack(e)
    BY <2>u, <2>5 DEF WriteBack
  <2>6. CASE UnmapVictim(e)
    BY <2>u, <2>6 DEF UnmapVictim
  <2>7. CASE MarkSwappedOut(e)
    BY <2>u, <2>7 DEF MarkSwappedOut
  <2>8. CASE FreeFrame(e)
    BY <2>u, <2>8 DEF FreeFrame, AsFrame
  <2>9. CASE TrackVictim(e)
    BY <2>u, <2>9 DEF TrackVictim, AsFrame
  <2> QED BY <2>1, <2>2, <2>3, <2>4, <2>5, <2>6, <2>7, <2>8, <2>9 DEF EvictStep
<1>o. OnlyMoves(e)
  BY <1>t, <1>a DEF TypeOK, OnlyMoves, EvictStep, TakeVictim, ProtectVictim, BackByReserve,
         BackByFreeSlot, WriteBack, UnmapVictim, MarkSwappedOut, FreeFrame, TrackVictim, Abort
<1>q. QueuesMapped'
  <2>1. 1 \in Pages
    BY SizeAssumption DEF Pages
  <2>2. CASE fifo' = fifo
    BY <1>t, <1>k, <2>1, <2>2, QueuesLift DEF UseInv, Queues
  <2>3. CASE fifo["eviction"] # <<>> /\ fifo' = DequeueFifo("eviction")
    BY <1>t, <1>k, <2>1, <2>3, QueuesLift DEF UseInv, Queues
  <2>4. CASE fifo["disk_free"] # <<>> /\ fifo' = DequeueFifo("disk_free")
    BY <1>t, <1>k, <2>1, <2>4, QueuesLift DEF UseInv, Queues
  <2>5. CASE DiskPage(e) \in Pages /\ fifo' = EnqueueFifo("dram_free", DiskPage(e))
    BY <1>t, <1>k, <2>5, QueuesLift DEF UseInv, Queues
  <2>6. pc[e] = "free_frame" => DiskPage(e) \in Pages
    BY <1>0 DEF EvictorOK, EvictLocals, DiskPage
  <2> QED BY <2>2, <2>3, <2>4, <2>5, <2>6 DEF EvictStep, TakeVictim, ProtectVictim,
             BackByReserve, BackByFreeSlot, WriteBack, UnmapVictim, MarkSwappedOut,
             FreeFrame, TrackVictim, Abort, At
<1>h. HashOK'
  BY <1>t, <1>a, <1>k, HashLift DEF UseInv
<1>v. /\ pc'[e] \in EvictPcs /\ EvictorOK(e)'
      /\ evict'[e].victim \in Pages
      /\ evict'[e].victim = evict[e].victim \/ Mapped(evict'[e].victim)
      /\ HoldsVictim(e)' => Mapped(evict'[e].victim)
  <2> USE DEF EvictPcs, EvictorOK, HoldsVictim, At, Abort
  <2>0. /\ pc[e] \in EvictPcs => evict[e].victim \in Pages
        /\ HoldsVictim(e) => Mapped(evict[e].victim)
    BY <1>0 DEF LocalUsed, EvictLocals
  <2>1. CASE TakeVictim(e)
    <3> DEFINE p == Head(fifo["eviction"])
    <3>1. fifo["eviction"] \in Seq(Pages) /\ fifo["eviction"] # <<>>
      BY <1>t, <2>1 DEF TakeVictim, TypeOK, Queues
    <3>2. p \in Pages /\ p # 0 /\ Mapped(p)
      <4>1. p \in Pages /\ p = fifo["eviction"][1] /\ 1 \in DOMAIN fifo["eviction"]
        <5>1. Len(fifo["eviction"]) \in Nat \ {0}
          BY <3>1, HeadTail
        <5>2. p \in Pages /\ p = fifo["eviction"][1]
          BY <3>1, HeadTail
        <5> QED BY <3>1, <5>1, <5>2
      <4>2. Mapped(p)
        BY <4>1 DEF UseInv, QueuesMapped
      <4> QED BY <4>1, <4>2 DEF Pages
    <3>3. evict'[e] = [evict[e] EXCEPT !.victim = p] /\ pc'[e] = "protect"
      BY <1>t, <1>0, <2>1 DEF TakeVictim, TypeOK
    <3>4. pc[e] \in {"idle", "reclaim"}
      BY <2>1 DEF TakeVictim
    <3> QED BY <1>0, <3>2, <3>3, <3>4 DEF EvictLocals
  <2>2. CASE ProtectVictim(e)
    BY <1>t, <1>0, <2>0, <2>2 DEF ProtectVictim, TypeOK, EvictLocals
  <2>3. CASE BackByReserve(e)
    <3> DEFINE d == page[Victim(e)].reserve
    <3>1. /\ d # 0 /\ pc[e] = "back" /\ pc'[e] = "write"
          /\ evict'[e] = [evict[e] EXCEPT !.dpage = d, !.backed = TRUE,
                                          !.writeback = NeedsWriteback(Victim(e))]
      BY <1>t, <1>0, <2>3 DEF BackByReserve, TypeOK
    <3> QED BY <1>0, <2>0, <3>1 DEF EvictLocals
  <2>4. CASE BackByFreeSlot(e)
    <3> DEFINE d == Head(fifo["disk_free"])
    <3>1. /\ fifo["disk_free"] \in Seq(Pages) /\ fifo["disk_free"] # <<>>
          /\ evict'[e] = [evict[e] EXCEPT !.dpage = d, !.backed = FALSE,
                                          !.writeback = NeedsWriteback(Victim(e))]
          /\ pc'[e] = "write" /\ pc[e] = "back"
      BY <1>t, <1>0, <2>4 DEF BackByFreeSlot, TypeOK, Queues
    <3>2. d \in Pages
      BY <3>1, HeadTail
    <3>3. d # 0
      BY <3>2 DEF Pages
    <3> QED BY <1>0, <2>0, <3>1, <3>3 DEF EvictLocals
  <2>5. CASE WriteBack(e)
    BY <1>t, <1>0, <2>0, <2>5 DEF WriteBack, TypeOK, EvictLocals
  <2>6. CASE UnmapVictim(e)
    BY <1>t, <1>0, <2>0, <2>6 DEF UnmapVictim, TypeOK, EvictLocals
  <2>7. CASE MarkSwappedOut(e)
    BY <1>t, <1>0, <2>0, <2>7 DEF MarkSwappedOut, TypeOK, EvictLocals, Evictors
  <2>8. CASE FreeFrame(e)
    BY <1>t, <1>0, <2>0, <2>8, ExecutorAssumption DEF FreeFrame, TypeOK, EvictLocals
  <2>9. CASE TrackVictim(e)
    BY <1>t, <1>0, <2>0, <2>9, ExecutorAssumption DEF TrackVictim, TypeOK, EvictLocals,
         Evictors
  <2> QED BY <2>1, <2>2, <2>3, <2>4, <2>5, <2>6, <2>7, <2>8, <2>9 DEF EvictStep
<1>p. /\ pc[e] \notin ScanPcs
      /\ e \in Threads => pc[e] \in FetchPcs
  BY ExecutorAssumption
     DEF EvictStep, TakeVictim, ProtectVictim, BackByReserve, BackByFreeSlot, WriteBack,
         UnmapVictim, MarkSwappedOut, FreeFrame, TrackVictim, At, ScanPcs, FetchPcs, EvictPcs
<1>f. e \in Threads => ThreadOK(e)'
  BY <1>0, <1>a, <1>p, <1>v, FetchingOK DEF LocalOK, FetchPcs
<1>l. LocalOK(e)'
  BY <1>0, <1>a, <1>v, <1>p, <1>f, ExecutorAssumption
     DEF LocalOK, EvictPcs, ScanPcs, Evictors
<1>m. LocalUsed(e)'
  <2>1. HoldsVictim(e)' => page'[evict'[e].victim].va \in VA
    BY <1>k, <1>v DEF KeepsVa, Mapped
  <2>2. e \in Scanners => scan'[e] = 0
    BY <1>0, <1>a, <1>p DEF LocalOK
  <2>3. ASSUME e \in Threads
        PROVE  \A i \in DOMAIN fault'[e].reading : page'[fault'[e].reading[i]].va \in VA
    <3>1. fault[e] \in FaultLocals /\ fault'[e] = fault[e]
      BY <1>t, <1>a, <2>3 DEF TypeOK
    <3>3. \A i \in DOMAIN fault[e].reading :
            fault[e].reading[i] \in Pages /\ Mapped(fault[e].reading[i])
      BY <1>0, <2>3, <3>1 DEF LocalUsed, FaultLocals
    <3> QED BY <1>k, <3>1, <3>3 DEF KeepsVa, Mapped
  <2>4. pc'[e] \notin {"map", "add", "missing", "publish"}
    BY <1>v DEF EvictPcs
  <2> QED BY <2>1, <2>2, <2>3, <2>4 DEF LocalUsed, Mapped
<1>g. KeepsPages(e)
  BY <1>a, <1>k, <1>v DEF KeepsPages, KeepsVa, Mapped
<1> QED BY <1>o, <1>k, <1>g, <1>l, <1>m, <1>q, <1>h DEF StepOK


\* A worker lets its victim go.
LEMMA ReleaseInv ==
    ASSUME UseInv, NEW w \in Workers, ReleaseVictim(w), failed' = "none"
    PROVE  StepOK(w)
<1>1. /\ page' = [page EXCEPT ![Victim(w)].migrating = FALSE]
      /\ evict' = [evict EXCEPT ![w] = NoEvict]
      /\ pc' = [pc EXCEPT ![w] = "idle"]
      /\ UNCHANGED <<fifo, pages, pte, disk, fault, scan, failed>>
  BY DEF ReleaseVictim, Abort
<1>2. /\ TypeOK /\ TypeOK' /\ w \in Evictors /\ w \in Executors
      /\ w \notin Scanners /\ w \notin Threads /\ w \notin Kswapd
  BY ReleaseTypes, ExecutorAssumption DEF UseInv, Evictors, Executors, Scanners
<1>u. page \in [Pages -> UserPage]
  BY <1>2 DEF TypeOK
<1>3. OnlyMoves(w)
  BY <1>1, <1>2 DEF OnlyMoves, TypeOK
<1>4. KeepsVa
  BY <1>1, <1>u DEF KeepsVa, UserPage
<1>5. pc'[w] = "idle" /\ evict'[w] = NoEvict
  BY <1>1, <1>2 DEF TypeOK
<1>6. LocalOK(w)'
  BY <1>2, <1>5 DEF LocalOK, EvictorOK, EvictPcs, NoEvict
<1>7. LocalUsed(w)' /\ KeepsPages(w)
  BY <1>2, <1>5 DEF LocalUsed, HoldsVictim, KeepsPages, NoEvict
<1>8. 1 \in Pages /\ "active" \in Queues
  BY SizeAssumption DEF Pages, Queues
<1>9. QueuesMapped'
  BY <1>1, <1>2, <1>4, <1>8, QueuesLift DEF UseInv
<1>10. HashOK'
  BY <1>1, <1>2, <1>4, HashLift DEF UseInv
<1> QED BY <1>3, <1>4, <1>6, <1>7, <1>9, <1>10 DEF StepOK

\* A step of a scan: the page it holds comes from a queue and goes to one.
LEMMA ScanInv ==
    ASSUME UseInv, NEW e \in Scanners, ScanStep(e)
    PROVE  StepOK(e)
<1>t. TypeOK /\ TypeOK' /\ e \in Executors /\ e \notin Workers
  BY ScanTypes, ExecutorAssumption DEF UseInv, Scanners, Executors
<1>u. page \in [Pages -> UserPage]
  BY <1>t DEF TypeOK
<1>0. LocalOK(e) /\ LocalUsed(e)
  BY <1>t DEF UseInv, LocalsOK, LocalsUsed
<1>p. ScanPoint(e) \in {"idle", "reclaim"} /\ (e \in Threads => ScanPoint(e) = "reclaim")
      /\ (e \in Kswapd => ScanPoint(e) = "idle")
  BY ExecutorAssumption DEF ScanPoint
\* What both halves of a scan step have in common.
<1>f. ASSUME UNCHANGED <<pages, pte, disk, fault, evict, failed>>,
             KeepsVa, QueuesMapped', pc' = [pc EXCEPT ![e] = pc'[e]],
             scan' = [scan EXCEPT ![e] = scan'[e]],
             pc[e] \in {ScanPoint(e)} \cup ScanPcs, pc'[e] \in {ScanPoint(e)} \cup ScanPcs,
             scan'[e] # 0 <=> pc'[e] \in ScanPcs,
             scan'[e] # 0 => scan'[e] \in Pages /\ Mapped(scan'[e])
      PROVE  StepOK(e)
  <2>1. OnlyMoves(e)
    BY <1>t, <1>f DEF OnlyMoves, TypeOK
  <2>2. HashOK'
    BY <1>t, <1>f, HashLift DEF UseInv
  <2>3. pc[e] \notin EvictPcs /\ pc'[e] \notin EvictPcs
    BY <1>f, <1>p DEF EvictPcs, ScanPcs
  <2>e. e \in Evictors => evict'[e] = evict[e] /\ EvictorOK(e) /\ evict[e].victim = 0
    BY <1>0, <1>f, <2>3 DEF LocalOK, EvictorOK
  <2>4. e \in Evictors => EvictorOK(e)'
    BY <2>3, <2>e DEF EvictorOK, EvictPcs
  <2>5. e \in Threads => ThreadOK(e)'
    BY <1>0, <1>f, <1>p, FetchingOK DEF LocalOK, FetchPcs
  <2>6. LocalOK(e)'
    BY <1>t, <1>f, <1>p, <2>4, <2>5 DEF LocalOK
  <2>7. ASSUME e \in Threads
        PROVE  \A i \in DOMAIN fault'[e].reading : page'[fault'[e].reading[i]].va \in VA
    <3>1. fault[e] \in FaultLocals /\ fault'[e] = fault[e]
      BY <1>t, <1>f, <2>7 DEF TypeOK
    <3>3. \A i \in DOMAIN fault[e].reading :
            fault[e].reading[i] \in Pages /\ Mapped(fault[e].reading[i])
      BY <1>0, <2>7, <3>1 DEF LocalUsed, FaultLocals
    <3> QED BY <1>f, <3>1, <3>3 DEF KeepsVa, Mapped
  <2>8. scan'[e] # 0 => page'[scan'[e]].va \in VA
    BY <1>f DEF KeepsVa, Mapped
  <2>9. pc'[e] \notin {"map", "add", "missing", "publish"}
    BY <1>f, <1>p DEF ScanPcs
  <2>h. e \in Evictors => ~HoldsVictim(e)'
    BY <2>3 DEF HoldsVictim, EvictPcs
  <2>10. LocalUsed(e)'
    BY <2>h, <2>7, <2>8, <2>9 DEF LocalUsed, Mapped
  <2>11. KeepsPages(e)
    BY <1>f DEF KeepsPages
  <2> QED BY <1>f, <2>1, <2>2, <2>6, <2>10, <2>11 DEF StepOK
<1>k. ASSUME NEW q \in {"active", "inactive"}, NEW next \in ScanPcs, ScanTake(e, q, next)
      PROVE  StepOK(e)
  <2> DEFINE p == Head(fifo[q])
  <2>0. q \in Queues /\ fifo[q] \in Seq(Pages) /\ fifo[q] # <<>>
    BY <1>t, <1>k DEF TypeOK, Queues, ScanTake
  <2>1. p \in Pages /\ p = fifo[q][1] /\ 1 \in DOMAIN fifo[q]
    BY <2>0, HeadTail
  <2>2. Mapped(p) /\ p # 0
    BY <2>1 DEF UseInv, QueuesMapped, Pages
  <2>3. KeepsVa
    BY <1>k, <1>u DEF ScanTake, KeepsVa, UserPage
  <2>4. QueuesMapped'
    BY <1>t, <1>k, <2>0, <2>1, <2>3, QueuesLift DEF UseInv, ScanTake
  <2>5. scan'[e] = p /\ pc'[e] = next /\ pc[e] = ScanPoint(e)
    BY <1>t, <1>k DEF TypeOK, ScanTake, At
  <2>6. /\ UNCHANGED <<pages, pte, disk, fault, evict, failed>>
        /\ pc' = [pc EXCEPT ![e] = pc'[e]] /\ scan' = [scan EXCEPT ![e] = scan'[e]]
    BY <1>k, <2>5 DEF ScanTake
  <2> QED BY <1>f, <2>1, <2>2, <2>3, <2>4, <2>5, <2>6
<1>l. ASSUME NEW q \in {"active", "inactive", "eviction"}, ScanPut(e, q), pc[e] \in ScanPcs
      PROVE  StepOK(e)
  <2>1. scan[e] \in Pages /\ Mapped(scan[e]) /\ q \in Queues
    BY <1>t, <1>0, <1>l DEF TypeOK, LocalOK, LocalUsed, Queues
  <2>3. KeepsVa
    BY <1>l, <1>u DEF ScanPut, KeepsVa, UserPage
  <2>4. QueuesMapped'
    BY <1>t, <1>l, <2>1, <2>3, QueuesLift DEF UseInv, ScanPut
  <2>5. scan'[e] = 0 /\ pc'[e] = ScanPoint(e)
    BY <1>t, <1>l DEF TypeOK, ScanPut
  <2>6. /\ UNCHANGED <<pages, pte, disk, fault, evict, failed>>
        /\ pc' = [pc EXCEPT ![e] = pc'[e]] /\ scan' = [scan EXCEPT ![e] = scan'[e]]
    BY <1>l, <2>5 DEF ScanPut
  <2>7. ScanPoint(e) \notin ScanPcs
    BY <1>p DEF ScanPcs
  <2> QED BY <1>f, <1>l, <2>3, <2>4, <2>5, <2>6, <2>7
<1>1. CASE ScanInactive(e)
  BY <1>1, <1>k DEF ScanInactive, ScanPcs
<1>2. CASE KeepOrEvict(e)
  BY <1>2, <1>l DEF KeepOrEvict, At, ScanPcs
<1>3. CASE ScanActive(e)
  BY <1>3, <1>k DEF ScanActive, ScanPcs
<1>4. CASE Deactivate(e)
  BY <1>4, <1>l DEF Deactivate, At, ScanPcs
<1> QED BY <1>1, <1>2, <1>3, <1>4 DEF ScanStep

\* What is left to show of a thread's step that is no scan and no eviction.
LEMMA ThreadStepOK ==
    ASSUME UseInv, NEW t \in Threads, KeepsVa, QueuesMapped', HashOK', ThreadOK(t)',
           pc' = [pc EXCEPT ![t] = pc'[t]], fault' = [fault EXCEPT ![t] = fault'[t]],
           evict' = evict, scan' = scan,
           \/ pc'[t] = pc[t]
           \/ pc[t] \notin EvictPcs \cup ScanPcs /\ pc'[t] \notin EvictPcs \cup ScanPcs,
           \/ page'[fault'[t].page].va \in VA
           \/ /\ fault'[t].page \in {0, fault[t].page}
              /\ pc'[t] \notin {"missing", "publish"},
           \A i \in DOMAIN fault'[t].reading : page'[fault'[t].reading[i]].va \in VA,
           pc'[t] \in {"map", "add"} => page'[fault'[t].frees[1]].va \in VA
    PROVE  StepOK(t)
<1>0. /\ t \in Executors /\ t \in Evictors /\ t \in Scanners
      /\ t \notin Workers /\ t \notin Kswapd
      /\ TypeOK /\ LocalOK(t) /\ LocalUsed(t) /\ EvictorOK(t)
  BY ExecutorAssumption
     DEF UseInv, Executors, Evictors, Scanners, LocalsOK, LocalOK, LocalsUsed
<1>1. OnlyMoves(t)
  BY <1>0 DEF OnlyMoves, TypeOK
<1>2. EvictorOK(t)'
  <2>1. CASE pc'[t] = pc[t]
    BY <1>0, <2>1 DEF EvictorOK
  <2>2. CASE pc[t] \notin EvictPcs /\ pc'[t] \notin EvictPcs
    BY <1>0, <2>2 DEF EvictorOK, EvictPcs
  <2> QED BY <2>1, <2>2
<1>3. scan'[t] # 0 <=> pc'[t] \in ScanPcs
  BY <1>0 DEF LocalOK
<1>4. LocalOK(t)'
  BY <1>0, <1>2, <1>3 DEF LocalOK
<1>5. HoldsVictim(t)' => page'[evict'[t].victim].va \in VA
  <2> SUFFICES ASSUME HoldsVictim(t)' PROVE page'[evict'[t].victim].va \in VA
    OBVIOUS
  <2>1. HoldsVictim(t) /\ evict[t].victim # 0
    BY <1>0 DEF HoldsVictim, EvictorOK, EvictPcs
  <2> QED BY <1>0, <2>1 DEF LocalUsed, Mapped, KeepsVa, TypeOK, EvictLocals
<1>6. scan'[t] # 0 => page'[scan'[t]].va \in VA
  BY <1>0 DEF LocalUsed, Mapped, KeepsVa, TypeOK
<1>7. LocalUsed(t)'
  BY <1>5, <1>6 DEF LocalUsed, Mapped
<1>8. KeepsPages(t)
  BY DEF KeepsPages
<1> QED BY <1>1, <1>4, <1>7, <1>8 DEF StepOK

\* The pages a thread's locals name, when the step leaves the locals alone.
LEMMA NamedPages ==
    ASSUME UseInv, NEW t \in Threads, KeepsVa
    PROVE  /\ pc[t] \in {"missing", "publish"} => page'[fault[t].page].va \in VA
           /\ \A i \in DOMAIN fault[t].reading :
                fault[t].reading[i] \in Pages /\ page'[fault[t].reading[i]].va \in VA
<1>1. fault[t] \in FaultLocals /\ LocalUsed(t) /\ ThreadOK(t)
  BY DEF UseInv, TypeOK, LocalsUsed, LocalsOK, LocalOK, Executors
<1>2. pc[t] \in {"missing", "publish"} => fault[t].page \in Pages /\ Mapped(fault[t].page)
  BY <1>1 DEF LocalUsed, ThreadOK, SettlePcs, FaultLocals
<1>3. \A i \in DOMAIN fault[t].reading :
        fault[t].reading[i] \in Pages /\ Mapped(fault[t].reading[i])
  BY <1>1 DEF LocalUsed, FaultLocals
<1> QED BY <1>2, <1>3 DEF KeepsVa, Mapped

\* The application's accesses.
LEMMA ApplicationInv ==
    ASSUME UseInv, NEW t \in Threads, Application(t)
    PROVE  StepOK(t)
<1>0. TypeOK /\ TypeOK' /\ t \in Executors /\ ThreadOK(t)
  BY ApplicationTypes DEF UseInv, Executors, LocalsOK, LocalOK
<1>1. UNCHANGED <<page, fifo, pages, scan, evict>>
  BY DEF Application, Touch, Store, sharedVars
<1>2. KeepsVa
  BY <1>1 DEF KeepsVa
<1>3. QueuesMapped' /\ HashOK'
  BY <1>1 DEF UseInv, QueuesMapped, HashOK, Mapped
<1>n. pc[t] = "idle" /\ fault[t] = NoFault
  BY <1>0 DEF Application, Touch, Store, At, ThreadOK
<1>4. ASSUME NEW v \in VA, Touch(t, v) PROVE StepOK(t)
  <2>1. pc'[t] = "signal" /\ fault'[t] = [NoFault EXCEPT !.addr = v]
    BY <1>0, <1>n, <1>4 DEF Touch, TypeOK
  <2>6. pc' = [pc EXCEPT ![t] = pc'[t]] /\ fault' = [fault EXCEPT ![t] = fault'[t]]
    BY <1>0, <1>4 DEF Touch, TypeOK
  <2>2. ThreadOK(t)'
    BY <2>1 DEF ThreadOK, NoFault, FetchPcs, ScanPcs, EvictPcs, FirstPcs, SettlePcs
  <2>3. fault'[t].page = 0 /\ fault'[t].reading = <<>>
    BY <2>1 DEF NoFault
  <2>4. pc[t] \notin EvictPcs \cup ScanPcs /\ pc'[t] \notin EvictPcs \cup ScanPcs
    BY <1>n, <2>1 DEF EvictPcs, ScanPcs
  <2>5. pc'[t] \notin {"map", "add", "missing", "publish"}
    BY <2>1
  <2> QED BY <1>1, <1>2, <1>3, <2>2, <2>3, <2>4, <2>5, <2>6, ThreadStepOK
<1>5. ASSUME NEW v \in VA, NEW x \in Vals, Store(t, v, x) PROVE StepOK(t)
  <2>1. pc' = pc /\ fault' = fault
    BY <1>5 DEF Store
  <2>2. ThreadOK(t)'
    BY <1>0, <2>1 DEF ThreadOK
  <2>3. fault'[t].page = 0 /\ fault'[t].reading = <<>>
    BY <1>n, <2>1 DEF NoFault
  <2>4. pc' = [pc EXCEPT ![t] = pc'[t]] /\ fault' = [fault EXCEPT ![t] = fault'[t]]
    BY <1>0, <2>1 DEF TypeOK
  <2> QED BY <1>1, <1>2, <1>3, <1>n, <2>1, <2>2, <2>3, <2>4, ThreadStepOK
<1> QED BY <1>4, <1>5 DEF Application

\* The steps before a frame is needed.
LEMMA FaultStartInv ==
    ASSUME UseInv, NEW t \in Threads, failed' = "none",
           \/ uswap_sig_handler(t) \/ Spin(t) \/ handle_missing_fault(t) \/ DiskRead(t)
           \/ PrefetchFind(t)
    PROVE  StepOK(t)
<1>0. /\ TypeOK /\ TypeOK' /\ t \in Executors /\ ThreadOK(t)
      /\ fault[t] \in FaultLocals /\ fault'[t] \in FaultLocals
  BY FaultStartTypes DEF UseInv, TypeOK, Executors, LocalsOK, LocalOK
<1>u. page \in [Pages -> UserPage]
  BY <1>0 DEF TypeOK
<1>1. UNCHANGED <<fifo, pages, scan, evict>>
  BY DEF uswap_sig_handler, Spin, handle_missing_fault, DiskRead, PrefetchFind, sharedVars,
         Abort
<1>2. KeepsVa
  <2>1. CASE page' = page
    BY <2>1 DEF KeepsVa
  <2>2. ASSUME NEW p, page' = ClaimPage(p) PROVE KeepsVa
    BY <1>u, <2>2 DEF KeepsVa, ClaimPage, UserPage
  <2> QED BY <2>1, <2>2 DEF uswap_sig_handler, Spin, handle_missing_fault, DiskRead,
             PrefetchFind, sharedVars, Abort
<1>3. QueuesMapped' /\ HashOK'
  <2>1. 1 \in Pages /\ "active" \in Queues
    BY SizeAssumption DEF Pages, Queues
  <2>2. QueuesMapped'
    BY <1>0, <1>1, <1>2, <2>1, QueuesLift DEF UseInv
  <2> QED BY <1>0, <1>1, <1>2, <2>2, HashLift DEF UseInv
<1>m. pc' = [pc EXCEPT ![t] = pc'[t]] /\ fault' = [fault EXCEPT ![t] = fault'[t]]
  BY <1>0 DEF uswap_sig_handler, Spin, handle_missing_fault, DiskRead,
              PrefetchFind, TypeOK, Resume, Abort
<1>n. /\ pc[t] \in {"missing", "publish"} => page'[fault[t].page].va \in VA
      /\ \A i \in DOMAIN fault[t].reading :
           fault[t].reading[i] \in Pages /\ page'[fault[t].reading[i]].va \in VA
  BY <1>2, NamedPages
<1>h. ASSUME NEW v \in VA, pages[v] # 0
      PROVE  pages[v] \in Pages /\ page'[pages[v]].va \in VA
  <2>1. pages[v] \in Pages /\ Mapped(pages[v])
    BY <1>0, <1>h DEF UseInv, TypeOK, HashOK, Mapped
  <2> QED BY <1>2, <2>1 DEF KeepsVa, Mapped
<1>r. ASSUME Resume(t), pc[t] \notin EvictPcs \cup ScanPcs PROVE StepOK(t)
  <2>1. pc'[t] = "idle" /\ fault'[t] = NoFault
    BY <1>0, <1>r DEF Resume, TypeOK
  <2>2. ThreadOK(t)'
    BY <2>1 DEF ThreadOK, NoFault, FetchPcs, ScanPcs, EvictPcs, FirstPcs, SettlePcs
  <2>3. fault'[t].page = 0 /\ fault'[t].reading = <<>>
    BY <2>1 DEF NoFault
  <2>4. pc'[t] \notin EvictPcs \cup ScanPcs /\ pc'[t] \notin {"map", "add", "missing", "publish"}
    BY <2>1 DEF EvictPcs, ScanPcs
  <2> QED BY <1>1, <1>2, <1>3, <1>m, <1>r, <2>2, <2>3, <2>4, ThreadStepOK
<1>4. CASE uswap_sig_handler(t)
  <2> DEFINE p == pages[fault[t].addr]
  <2>0. /\ pc[t] = "signal" /\ fault[t].addr \in VA
        /\ fault[t].reading = <<>> /\ fault[t].buf = <<>> /\ fault[t].frees = <<>>
        /\ fault[t].job = "none"
    BY <1>0, <1>4 DEF uswap_sig_handler, At, ThreadOK
  <2>1. CASE p = 0
    <3>1. pc'[t] = "fetch" /\ fault'[t] = [fault[t] EXCEPT !.job = "first"]
      BY <1>0, <1>4, <2>1 DEF uswap_sig_handler, TypeOK
    <3>2. ThreadOK(t)'
      BY <1>0, <2>0, <3>1
         DEF ThreadOK, FetchPcs, ScanPcs, EvictPcs, FirstPcs, SettlePcs, FaultLocals
    <3>3. fault'[t].page = fault[t].page /\ fault'[t].reading = <<>>
      BY <1>0, <2>0, <3>1 DEF FaultLocals
    <3>4. /\ pc[t] \notin EvictPcs \cup ScanPcs /\ pc'[t] \notin EvictPcs \cup ScanPcs
          /\ pc'[t] \notin {"map", "add", "missing", "publish"}
      BY <2>0, <3>1 DEF EvictPcs, ScanPcs
    <3> QED BY <1>1, <1>2, <1>3, <1>m, <1>n, <3>2, <3>3, <3>4, ThreadStepOK
  <2>2. CASE p # 0
    <3>1. pc'[t] \in {"missing", "spin"} /\ fault'[t] = [fault[t] EXCEPT !.page = p]
      BY <1>0, <1>4, <2>2 DEF uswap_sig_handler, TypeOK
    <3>2. ThreadOK(t)'
      BY <1>0, <2>0, <2>2, <3>1
         DEF ThreadOK, FetchPcs, ScanPcs, EvictPcs, FirstPcs, SettlePcs, FaultLocals
    <3>3. fault'[t].page = p /\ fault'[t].reading = <<>>
      BY <1>0, <2>0, <3>1 DEF FaultLocals
    <3>4. /\ pc[t] \notin EvictPcs \cup ScanPcs /\ pc'[t] \notin EvictPcs \cup ScanPcs
          /\ pc'[t] \notin {"map", "add"}
      BY <2>0, <3>1 DEF EvictPcs, ScanPcs
    <3>5. page'[p].va \in VA
      BY <1>h, <2>0, <2>2
    <3> QED BY <1>1, <1>2, <1>3, <1>m, <3>2, <3>3, <3>4, <3>5, ThreadStepOK
  <2> QED BY <2>1, <2>2
<1>5. CASE Spin(t)
  BY <1>5, <1>r DEF Spin, At, EvictPcs, ScanPcs
<1>6. CASE handle_missing_fault(t)
  <2> DEFINE p == fault[t].page
  <2>0. /\ pc[t] = "missing" /\ fault[t].addr \in VA /\ fault[t].job = "none" /\ p # 0
        /\ fault[t].reading = <<>> /\ fault[t].buf = <<>> /\ fault[t].frees = <<>>
    BY <1>0, <1>6 DEF handle_missing_fault, At, ThreadOK
  <2>1. CASE ~Claimable(p)
    <3>1. pc'[t] = "spin" /\ fault'[t] = fault[t]
      BY <1>0, <1>6, <2>1 DEF handle_missing_fault, TypeOK
    <3>2. ThreadOK(t)'
      BY <1>0, <2>0, <3>1 DEF ThreadOK, FetchPcs, ScanPcs, EvictPcs, FirstPcs, SettlePcs
    <3>4. /\ pc[t] \notin EvictPcs \cup ScanPcs /\ pc'[t] \notin EvictPcs \cup ScanPcs
          /\ pc'[t] \notin {"map", "add", "missing", "publish"} /\ fault'[t] = fault[t]
      BY <2>0, <3>1 DEF EvictPcs, ScanPcs
    <3> QED BY <1>1, <1>2, <1>3, <1>m, <1>n, <3>2, <3>4, ThreadStepOK
  <2>2. CASE Claimable(p)
    <3>1. /\ pc'[t] = "fetch"
          /\ fault'[t] = [fault[t] EXCEPT !.job = "swapin", !.reading = <<p>>]
      BY <1>0, <1>6, <2>2 DEF handle_missing_fault, TypeOK, Abort
    <3>2. /\ fault'[t].addr = fault[t].addr /\ fault'[t].job = "swapin"
          /\ fault'[t].page = p /\ fault'[t].reading = <<p>>
          /\ fault'[t].buf = <<>> /\ fault'[t].frees = <<>>
      BY <1>0, <2>0, <3>1 DEF FaultLocals
    <3>l. Len(fault'[t].reading) = 1 /\ Len(fault'[t].frees) = 0
      BY <3>2
    <3>3. ThreadOK(t)'
      BY <2>0, <3>1, <3>2, <3>l DEF ThreadOK, FetchPcs, ScanPcs, EvictPcs, FirstPcs, SettlePcs
    <3>4. /\ pc[t] \notin EvictPcs \cup ScanPcs /\ pc'[t] \notin EvictPcs \cup ScanPcs
          /\ pc'[t] \notin {"map", "add", "missing", "publish"}
      BY <2>0, <3>1 DEF EvictPcs, ScanPcs
    <3>5. /\ page'[fault'[t].page].va \in VA
          /\ \A i \in DOMAIN fault'[t].reading : page'[fault'[t].reading[i]].va \in VA
      BY <1>n, <2>0, <3>2
    <3> QED BY <1>1, <1>2, <1>3, <1>m, <3>3, <3>4, <3>5, ThreadStepOK
  <2> QED BY <2>1, <2>2
<1>7. CASE DiskRead(t)
  <2> DEFINE b == [i \in 1 .. Len(fault[t].reading) |->
                      disk[page[fault[t].reading[i]].virtual_offset]]
  <2>1. /\ pc'[t] = pc[t] /\ pc[t] # "find" /\ fault[t].reading # <<>>
        /\ fault'[t] = [fault[t] EXCEPT !.buf = b]
    BY <1>0, <1>7 DEF DiskRead, TypeOK
  <2>2. /\ fault'[t].addr = fault[t].addr /\ fault'[t].job = fault[t].job
        /\ fault'[t].page = fault[t].page /\ fault'[t].reading = fault[t].reading
        /\ fault'[t].buf = b /\ fault'[t].frees = fault[t].frees
    BY <1>0, <2>1 DEF FaultLocals
  <2>l. fault[t].reading \in Seq(Pages) /\ b \in Seq(Vals)
    BY <1>0, <2>2 DEF FaultLocals
  <2>3. Len(b) = Len(fault[t].reading)
    BY <2>l
  <2>4. pc[t] \notin {"idle", "signal", "spin", "missing"}
    BY <1>0, <2>1 DEF ThreadOK, NoFault
  <2>5. ThreadOK(t)'
    <3> HIDE DEF b
    <3> QED BY <1>0, <2>1, <2>2, <2>3, <2>4 DEF ThreadOK
  <2>6. pc'[t] \in {"map", "add"} => page'[fault'[t].frees[1]].va \in VA
    <3> SUFFICES ASSUME pc[t] \in {"map", "add"} PROVE FALSE
      BY <2>1
    <3> QED BY <1>0, <2>1 DEF ThreadOK, FirstPcs
  <2> QED BY <1>1, <1>2, <1>3, <1>m, <1>n, <2>1, <2>2, <2>5, <2>6, ThreadStepOK
<1>8. CASE PrefetchFind(t)
  <2> DEFINE p == pages[PrefetchNext(t)]
  <2>0. /\ pc[t] = "find" /\ fault[t].addr \in VA /\ fault[t].job = "prefetch"
        /\ fault[t].buf = <<>> /\ fault[t].frees = <<>>
        /\ fault[t].reading \in Seq(Pages)
    BY <1>0, <1>8 DEF PrefetchFind, At, ThreadOK, FaultLocals
  <2>e. pc[t] \notin EvictPcs \cup ScanPcs
    BY <2>0 DEF EvictPcs, ScanPcs
  <2>1. CASE PrefetchWanted(t)
    <3>1. /\ pc'[t] = "find" /\ p # 0 /\ PrefetchNext(t) \in VA
          /\ fault'[t] = [fault[t] EXCEPT !.reading = Append(fault[t].reading, p)]
      BY <1>0, <1>8, <2>0, <2>1 DEF PrefetchFind, TypeOK, Abort, PrefetchWanted
    <3>2. /\ fault'[t].addr = fault[t].addr /\ fault'[t].job = "prefetch"
          /\ fault'[t].page = fault[t].page
          /\ fault'[t].reading = Append(fault[t].reading, p)
          /\ fault'[t].buf = <<>> /\ fault'[t].frees = <<>>
      BY <1>0, <2>0, <3>1 DEF FaultLocals
    <3>3. ThreadOK(t)'
      BY <2>0, <3>1, <3>2 DEF ThreadOK, FetchPcs, ScanPcs, EvictPcs, FirstPcs, SettlePcs
    <3>4. p \in Pages /\ page'[p].va \in VA
      BY <1>h, <3>1
    <3>5. \A i \in DOMAIN fault'[t].reading : page'[fault'[t].reading[i]].va \in VA
      <4> TAKE i \in DOMAIN fault'[t].reading
      <4>1. CASE i = Len(fault[t].reading) + 1
        BY <2>0, <3>2, <3>4, <4>1
      <4>2. CASE i # Len(fault[t].reading) + 1
        <5>1. i \in DOMAIN fault[t].reading /\ fault'[t].reading[i] = fault[t].reading[i]
          BY <2>0, <3>2, <3>4, <4>2
        <5> QED BY <1>n, <5>1
      <4> QED BY <4>1, <4>2
    <3>6. pc'[t] = pc[t] /\ pc'[t] \notin {"map", "add", "missing", "publish"} /\ fault'[t].page = fault[t].page
      BY <2>0, <3>1, <3>2
    <3> QED BY <1>1, <1>2, <1>3, <1>m, <1>n, <3>3, <3>5, <3>6, ThreadStepOK
  <2>2. CASE ~PrefetchWanted(t) /\ fault[t].reading = <<>>
    BY <1>8, <1>r, <2>2, <2>e DEF PrefetchFind
  <2>3. CASE ~PrefetchWanted(t) /\ fault[t].reading # <<>>
    <3>1. pc'[t] = "fetch" /\ fault'[t] = fault[t]
      BY <1>0, <1>8, <2>3 DEF PrefetchFind, TypeOK
    <3>l. Len(fault[t].reading) \in Nat /\ Len(fault[t].reading) > 0 /\ Len(fault[t].frees) = 0
      BY <2>0, <2>3
    <3>2. ThreadOK(t)'
      BY <2>0, <3>1, <3>l DEF ThreadOK, FetchPcs, ScanPcs, EvictPcs, FirstPcs, SettlePcs
    <3>3. /\ pc'[t] \notin EvictPcs \cup ScanPcs /\ pc'[t] \notin {"map", "add", "missing", "publish"}
          /\ fault'[t] = fault[t]
      BY <3>1 DEF EvictPcs, ScanPcs
    <3> QED BY <1>1, <1>2, <1>3, <1>m, <1>n, <2>e, <3>2, <3>3, ThreadStepOK
  <2> QED BY <2>1, <2>2, <2>3
<1> QED BY <1>4, <1>5, <1>6, <1>7, <1>8

\* A thread that was looking for a frame receives one.
LEMMA ReceiveInv ==
    ASSUME UseInv, NEW t \in Threads, NEW d \in Pages, pc[t] \in FetchPcs, ReceiveFrame(t, d)
    PROVE  /\ ThreadOK(t)' /\ pc'[t] \in {"allocate", "fetch", "finish"}
           /\ fault'[t].page = fault[t].page /\ fault'[t].reading = fault[t].reading
<1>0. /\ TypeOK /\ t \in Executors /\ ThreadOK(t) /\ fault[t] \in FaultLocals
      /\ fault[t].reading \in Seq(Pages) /\ fault[t].frees \in Seq(Pages)
  BY DEF UseInv, TypeOK, Executors, LocalsOK, LocalOK, FaultLocals
<1>1. /\ fault'[t] = [fault[t] EXCEPT !.frees = Append(fault[t].frees, d)]
      /\ pc'[t] = CASE fault[t].job = "first" -> "allocate"
                    [] Len(fault[t].frees) + 1 < Len(fault[t].reading) -> "fetch"
                    [] OTHER -> "finish"
  BY <1>0 DEF ReceiveFrame, TypeOK
<1>2. /\ fault'[t].addr = fault[t].addr /\ fault'[t].job = fault[t].job
      /\ fault'[t].page = fault[t].page /\ fault'[t].reading = fault[t].reading
      /\ fault'[t].buf = fault[t].buf /\ fault'[t].frees = Append(fault[t].frees, d)
  BY <1>0, <1>1 DEF FaultLocals
<1>3. Len(fault'[t].frees) = Len(fault[t].frees) + 1 /\ Len(fault[t].frees) \in Nat
      /\ Len(fault[t].reading) \in Nat /\ fault[t].addr \in VA
  BY <1>0, <1>2 DEF ThreadOK, FetchPcs, ScanPcs, EvictPcs
<1>4. CASE fault[t].job = "first"
  <2>1. pc'[t] = "allocate" /\ fault[t].frees = <<>> /\ fault[t].reading = <<>>
    BY <1>0, <1>1, <1>4 DEF ThreadOK
  <2>2. Len(fault'[t].frees) = 1
    BY <1>3, <2>1
  <2>3. ThreadOK(t)'
    BY <1>0, <1>2, <1>3, <1>4, <2>1, <2>2
       DEF ThreadOK, FetchPcs, ScanPcs, EvictPcs, FirstPcs, SettlePcs
  <2> QED BY <1>2, <2>1, <2>3
<1>5. CASE fault[t].job # "first" /\ Len(fault[t].frees) + 1 < Len(fault[t].reading)
  <2>1. pc'[t] = "fetch"
    BY <1>1, <1>5
  <2>2. ThreadOK(t)'
    BY <1>0, <1>2, <1>3, <1>5, <2>1
       DEF ThreadOK, FetchPcs, ScanPcs, EvictPcs, FirstPcs, SettlePcs
  <2> QED BY <1>2, <2>1, <2>2
<1>6. CASE fault[t].job # "first" /\ ~(Len(fault[t].frees) + 1 < Len(fault[t].reading))
  <2>1. pc'[t] = "finish"
    BY <1>1, <1>6
  <2>2. fault[t].job \in {"swapin", "prefetch"} /\ Len(fault[t].frees) < Len(fault[t].reading)
    BY <1>0, <1>6 DEF ThreadOK
  <2>3. Len(fault'[t].frees) = Len(fault[t].reading) /\ fault[t].reading # <<>>
    BY <1>0, <1>3, <1>6, <2>2
  <2>4. ThreadOK(t)'
    BY <1>0, <1>2, <1>3, <2>1, <2>2, <2>3
       DEF ThreadOK, FetchPcs, ScanPcs, EvictPcs, FirstPcs, SettlePcs
  <2> QED BY <1>2, <2>1, <2>4
<1> QED BY <1>4, <1>5, <1>6

\* The search for a frame.
LEMMA FetchInv ==
    ASSUME UseInv, NEW t \in Threads, failed' = "none",
           FetchFree(t) \/ FetchReclaim(t) \/ FetchRetry(t) \/ FetchEvicted(t)
    PROVE  StepOK(t)
<1>0. /\ TypeOK /\ TypeOK' /\ t \in Executors /\ t \in Evictors /\ t \in Scanners
      /\ t \notin Workers /\ t \notin Kswapd
      /\ LocalOK(t) /\ LocalUsed(t) /\ ThreadOK(t) /\ EvictorOK(t)
      /\ fault[t] \in FaultLocals
  BY FetchTypes, ExecutorAssumption
     DEF UseInv, TypeOK, Executors, Evictors, Scanners, LocalsOK, LocalOK, LocalsUsed
<1>u. page \in [Pages -> UserPage] /\ 1 \in Pages
  BY <1>0, SizeAssumption DEF TypeOK, Pages
<1>1. CASE FetchFree(t)
  <2> DEFINE d == Head(fifo["dram_free"])
  <2>0. /\ pc[t] = "fetch" /\ pages' = pages /\ evict' = evict /\ scan' = scan
        /\ fifo' = DequeueFifo("dram_free") /\ ReceiveFrame(t, d)
    BY <1>1 DEF FetchFree, At
  <2>1. fifo["dram_free"] # <<>> /\ fifo["dram_free"] \in Seq(Pages)
    BY <1>0, <1>1 DEF FetchFree, TypeOK, Queues
  <2>2. d \in Pages
    BY <2>1, HeadTail
  <2>3. KeepsVa
    BY <1>u, <1>1 DEF FetchFree, KeepsVa, FramePage, UserPage
  <2>4. QueuesMapped'
    BY <1>0, <2>0, <2>1, <2>2, <2>3, QueuesLift DEF UseInv, Queues
  <2>5. HashOK'
    BY <1>0, <2>0, <2>3, HashLift DEF UseInv
  <2>6. /\ ThreadOK(t)' /\ pc'[t] \in {"allocate", "fetch", "finish"}
        /\ fault'[t].page = fault[t].page /\ fault'[t].reading = fault[t].reading
    BY <2>0, <2>2, ReceiveInv DEF FetchPcs
  <2>7. /\ pc[t] \notin EvictPcs \cup ScanPcs /\ pc'[t] \notin EvictPcs \cup ScanPcs
        /\ pc'[t] \notin {"map", "add", "missing", "publish"}
    BY <2>0, <2>6 DEF EvictPcs, ScanPcs
  <2>8. pc' = [pc EXCEPT ![t] = pc'[t]] /\ fault' = [fault EXCEPT ![t] = fault'[t]]
    BY <1>0, <2>0 DEF ReceiveFrame, TypeOK
  <2>9. /\ pc[t] \in {"missing", "publish"} => page'[fault[t].page].va \in VA
        /\ \A i \in DOMAIN fault[t].reading :
             fault[t].reading[i] \in Pages /\ page'[fault[t].reading[i]].va \in VA
    BY <2>3, NamedPages
  <2> QED BY <2>0, <2>3, <2>4, <2>5, <2>6, <2>7, <2>8, <2>9, ThreadStepOK
<1>2. CASE FetchReclaim(t) \/ FetchRetry(t)
  <2>0. /\ pc[t] \in {"fetch", "reclaim"} /\ pc'[t] \in {"fetch", "reclaim"}
        /\ UNCHANGED <<page, fifo, pages, fault, scan, evict>>
    BY <1>0, <1>2 DEF FetchReclaim, FetchRetry, At, sharedVars, TypeOK
  <2>1. KeepsVa
    BY <2>0 DEF KeepsVa
  <2>2. QueuesMapped' /\ HashOK'
    BY <2>0 DEF UseInv, QueuesMapped, HashOK, Mapped
  <2>3. ThreadOK(t)'
    BY <1>0, <2>0, FetchingOK DEF FetchPcs
  <2>4. /\ pc[t] \notin EvictPcs \cup ScanPcs /\ pc'[t] \notin EvictPcs \cup ScanPcs
        /\ pc'[t] \notin {"map", "add", "missing", "publish"} /\ fault'[t] = fault[t]
    BY <2>0 DEF EvictPcs, ScanPcs
  <2>5. pc' = [pc EXCEPT ![t] = pc'[t]] /\ fault' = [fault EXCEPT ![t] = fault'[t]]
    BY <1>0, <1>2 DEF FetchReclaim, FetchRetry, TypeOK
  <2>6. /\ pc[t] \in {"missing", "publish"} => page'[fault[t].page].va \in VA
        /\ \A i \in DOMAIN fault[t].reading :
             fault[t].reading[i] \in Pages /\ page'[fault[t].reading[i]].va \in VA
    BY <2>1, NamedPages
  <2> QED BY <2>0, <2>1, <2>2, <2>3, <2>4, <2>5, <2>6, ThreadStepOK
<1>3. CASE FetchEvicted(t)
  <2> DEFINE d == DiskPage(t)
  <2>0. /\ pc[t] = "release" /\ UNCHANGED <<fifo, pages, scan>>
        /\ page' = [page EXCEPT ![Victim(t)].migrating = FALSE, ![d] = FramePage(t, page[d])]
        /\ evict' = [evict EXCEPT ![t] = NoEvict]
        /\ ReceiveFrame(t, d)
    BY <1>3 DEF FetchEvicted, At, Abort
  <2>1. d \in Pages
    BY <1>0, <2>0 DEF EvictorOK, DiskPage, TypeOK, EvictLocals
  <2>2. KeepsVa
    BY <1>u, <2>0 DEF KeepsVa, FramePage, UserPage
  <2>3. QueuesMapped'
    BY <1>0, <2>0, <2>1, <2>2, QueuesLift DEF UseInv, Queues
  <2>4. HashOK'
    BY <1>0, <2>0, <2>2, HashLift DEF UseInv
  <2>5. /\ ThreadOK(t)' /\ pc'[t] \in {"allocate", "fetch", "finish"}
        /\ fault'[t].page = fault[t].page /\ fault'[t].reading = fault[t].reading
    BY <2>0, <2>1, ReceiveInv DEF FetchPcs, EvictPcs
  <2>6. evict'[t].victim = 0 /\ evict'[t].dpage = 0
    BY <1>0, <2>0 DEF TypeOK, NoEvict
  <2>7. EvictorOK(t)'
    BY <2>5, <2>6 DEF EvictorOK, EvictPcs
  <2>8. scan'[t] = 0 /\ pc'[t] \notin ScanPcs
    BY <1>0, <2>0, <2>5 DEF LocalOK, ScanPcs
  <2>9. LocalOK(t)'
    BY <1>0, <2>5, <2>7, <2>8 DEF LocalOK
  <2>10. /\ pc[t] \in {"missing", "publish"} => page'[fault[t].page].va \in VA
         /\ \A i \in DOMAIN fault[t].reading :
              fault[t].reading[i] \in Pages /\ page'[fault[t].reading[i]].va \in VA
    BY <2>2, NamedPages
  <2>11. pc'[t] \notin {"map", "add", "missing", "publish"}
    BY <2>5
  <2>12. LocalUsed(t)'
    BY <2>5, <2>6, <2>8, <2>10, <2>11 DEF LocalUsed, HoldsVictim, EvictPcs, Mapped
  <2>13. OnlyMoves(t)
    BY <1>0, <2>0 DEF OnlyMoves, ReceiveFrame, TypeOK
  <2>14. KeepsPages(t)
    BY <2>5, <2>6 DEF KeepsPages
  <2> QED BY <2>2, <2>3, <2>4, <2>9, <2>12, <2>13, <2>14 DEF StepOK
<1> QED BY <1>1, <1>2, <1>3

\* A first touch.
LEMMA FirstInv ==
    ASSUME UseInv, NEW t \in Threads, failed' = "none",
           FirstAllocate(t) \/ PutBack(t) \/ FirstMap(t) \/ FirstAdd(t)
    PROVE  StepOK(t)
<1>0. /\ TypeOK /\ TypeOK' /\ t \in Executors /\ LocalUsed(t) /\ ThreadOK(t)
      /\ fault[t] \in FaultLocals /\ fault[t].frees \in Seq(Pages)
  BY FetchTypes DEF UseInv, TypeOK, Executors, LocalsOK, LocalOK, LocalsUsed, FaultLocals
<1>u. page \in [Pages -> UserPage] /\ "dram_free" \in Queues /\ "inactive" \in Queues
  BY <1>0 DEF TypeOK, Queues
<1>a. /\ pc[t] \in FirstPcs /\ pc[t] \notin EvictPcs \cup ScanPcs
      /\ evict' = evict /\ scan' = scan
  BY DEF FirstAllocate, PutBack, FirstMap, FirstAdd, At, FirstPcs, EvictPcs, ScanPcs, Abort,
         sharedVars
<1>b. /\ fault[t].job = "first" /\ fault[t].reading = <<>> /\ Len(fault[t].frees) = 1
      /\ fault[t].addr \in VA /\ fault[t].buf = <<>>
      /\ NewPage(t) \in Pages /\ NewPage(t) = fault[t].frees[1]
  <2>1. fault[t].job = "first" /\ fault[t].reading = <<>> /\ Len(fault[t].frees) = 1
    BY <1>0, <1>a DEF ThreadOK
  <2>2. pc[t] # "idle"
    BY <1>a DEF FirstPcs
  <2>3. fault[t].buf = <<>> \/ Len(fault[t].buf) = 0
    BY <1>0, <2>1 DEF ThreadOK
  <2>4. fault[t].buf \in Seq(Vals)
    BY <1>0 DEF FaultLocals
  <2>5. fault[t].buf = <<>>
    BY <2>3, <2>4
  <2>6. NewPage(t) \in Pages /\ NewPage(t) = fault[t].frees[1]
    BY <1>0, <2>1 DEF NewPage
  <2> QED BY <1>0, <2>1, <2>2, <2>5, <2>6 DEF ThreadOK
<1>m. pc' = [pc EXCEPT ![t] = pc'[t]] /\ fault' = [fault EXCEPT ![t] = fault'[t]]
  BY <1>0 DEF FirstAllocate, PutBack, FirstMap, FirstAdd, TypeOK, Resume, Abort
<1>1. CASE FirstAllocate(t) /\ pages[fault[t].addr] # 0
  <2> DEFINE v == fault[t].addr
  <2>0. /\ UNCHANGED <<page, fifo, pages>> /\ pc'[t] = "put_back"
        /\ fault'[t] = [fault[t] EXCEPT !.page = pages[v]]
    BY <1>0, <1>1 DEF FirstAllocate, TypeOK, sharedVars
  <2>1. /\ fault'[t].addr = v /\ fault'[t].job = "first" /\ fault'[t].page = pages[v]
        /\ fault'[t].reading = <<>> /\ fault'[t].frees = fault[t].frees
        /\ fault'[t].buf = <<>>
    BY <1>0, <1>b, <2>0 DEF FaultLocals
  <2>2. KeepsVa
    BY <2>0 DEF KeepsVa
  <2>3. QueuesMapped' /\ HashOK'
    BY <2>0 DEF UseInv, QueuesMapped, HashOK, Mapped
  <2>4. ThreadOK(t)'
    BY <1>1, <1>b, <2>0, <2>1
       DEF ThreadOK, FetchPcs, ScanPcs, EvictPcs, FirstPcs, SettlePcs
  <2>5. page'[fault'[t].page].va \in VA
    <3>1. pages[v] \in Pages /\ Mapped(pages[v])
      BY <1>0, <1>1, <1>b DEF UseInv, TypeOK, HashOK, Mapped
    <3> QED BY <2>0, <2>1, <3>1 DEF Mapped
  <2>6. pc'[t] \notin EvictPcs \cup ScanPcs /\ pc'[t] \notin {"map", "add", "missing", "publish"}
        /\ fault'[t].reading = <<>>
    BY <2>0, <2>1 DEF EvictPcs, ScanPcs
  <2> QED BY <1>a, <1>m, <2>2, <2>3, <2>4, <2>5, <2>6, ThreadStepOK
<1>2. CASE FirstAllocate(t) /\ pages[fault[t].addr] = 0
  <2> DEFINE v == fault[t].addr
             n == NewPage(t)
  <2>0. /\ page' = [page EXCEPT ![n].migrating = TRUE,
                                ![n].swapped_out = FALSE, ![n].va = v]
        /\ page[n].va = 0
        /\ pages' = [pages EXCEPT ![v] = n]
        /\ pc'[t] = "map" /\ fault' = fault /\ fifo' = fifo
    BY <1>0, <1>2 DEF FirstAllocate, Abort, TypeOK
  <2>1. page'[n].va = v
    BY <1>u, <1>b, <2>0 DEF UserPage
  <2>z. 0 \notin VA
    BY DEF VA
  <2>2. KeepsVa
    BY <1>u, <2>0, <2>z DEF KeepsVa, Mapped, UserPage
  <2>3. QueuesMapped'
    BY <1>0, <1>b, <1>u, <2>0, <2>2, QueuesLift DEF UseInv
  <2>4. HashOK'
    <3> SUFFICES ASSUME NEW w \in VA, pages'[w] # 0 PROVE page'[pages'[w]].va = w
      BY DEF HashOK
    <3>1. CASE w = v
      BY <1>0, <2>0, <2>1, <3>1 DEF TypeOK
    <3>2. CASE w # v
      <4>1. pages'[w] = pages[w] /\ pages[w] \in Pages
        BY <1>0, <2>0, <3>2 DEF TypeOK
      <4>2. page[pages[w]].va = w
        BY <4>1 DEF UseInv, HashOK
      <4> QED BY <2>2, <4>1, <4>2 DEF KeepsVa, Mapped
    <3> QED BY <3>1, <3>2
  <2>5. ThreadOK(t)'
    BY <1>0, <1>a, <1>b, <2>0
       DEF ThreadOK, FetchPcs, ScanPcs, EvictPcs, FirstPcs, SettlePcs
  <2>6. /\ pc'[t] \notin EvictPcs \cup ScanPcs /\ fault'[t].page = fault[t].page
        /\ fault'[t].reading = <<>> /\ page'[fault'[t].frees[1]].va \in VA
        /\ pc'[t] = "map"
    BY <1>b, <2>0, <2>1 DEF EvictPcs, ScanPcs
  <2> QED BY <1>a, <1>m, <2>2, <2>3, <2>4, <2>5, <2>6, ThreadStepOK
<1>3. CASE PutBack(t)
  <2> DEFINE n == NewPage(t)
  <2>0. /\ fifo' = EnqueueFifo("dram_free", n) /\ pages' = pages
        /\ page' = [page EXCEPT ![n].list = "dram_free"]
        /\ pc[t] = "put_back" /\ pc'[t] = "spin"
        /\ fault'[t] = [fault[t] EXCEPT !.frees = <<>>]
    BY <1>0, <1>3 DEF PutBack, Abort, TypeOK, At
  <2>1. /\ fault'[t].addr = fault[t].addr /\ fault'[t].job = "first"
        /\ fault'[t].page = fault[t].page
        /\ fault'[t].reading = <<>> /\ fault'[t].frees = <<>> /\ fault'[t].buf = <<>>
    BY <1>0, <1>b, <2>0 DEF FaultLocals
  <2>2. KeepsVa
    BY <1>u, <2>0 DEF KeepsVa, UserPage
  <2>3. QueuesMapped'
    BY <1>0, <1>b, <1>u, <2>0, <2>2, QueuesLift DEF UseInv
  <2>4. HashOK'
    BY <1>0, <2>0, <2>2, HashLift DEF UseInv
  <2>5. fault[t].page # 0
    BY <1>0, <2>0 DEF ThreadOK
  <2>6. ThreadOK(t)'
    BY <1>b, <2>0, <2>1, <2>5
       DEF ThreadOK, FetchPcs, ScanPcs, EvictPcs, FirstPcs, SettlePcs
  <2>7. /\ pc'[t] \notin EvictPcs \cup ScanPcs /\ fault'[t].page = fault[t].page
        /\ fault'[t].reading = <<>> /\ pc'[t] \notin {"map", "add", "missing", "publish"}
    BY <2>0, <2>1 DEF EvictPcs, ScanPcs
  <2> QED BY <1>a, <1>m, <2>2, <2>3, <2>4, <2>6, <2>7, ThreadStepOK
<1>4. CASE FirstMap(t)
  <2> DEFINE n == NewPage(t)
  <2>0. /\ page' = [page EXCEPT ![n].migrating = FALSE, ![n].swapped_out = FALSE]
        /\ pages' = pages /\ fifo' = fifo /\ fault' = fault
        /\ pc[t] = "map" /\ pc'[t] = "add"
    BY <1>0, <1>4 DEF FirstMap, Abort, TypeOK, At
  <2>2. KeepsVa
    BY <1>u, <2>0 DEF KeepsVa, UserPage
  <2>3. QueuesMapped'
    BY <1>0, <1>b, <1>u, <2>0, <2>2, QueuesLift DEF UseInv
  <2>4. HashOK'
    BY <1>0, <2>0, <2>2, HashLift DEF UseInv
  <2>5. ThreadOK(t)'
    BY <1>0, <1>a, <1>b, <2>0
       DEF ThreadOK, FetchPcs, ScanPcs, EvictPcs, FirstPcs, SettlePcs
  <2>6. page'[n].va \in VA
    BY <1>0, <1>b, <2>0, <2>2 DEF LocalUsed, Mapped, KeepsVa
  <2>7. /\ pc'[t] \notin EvictPcs \cup ScanPcs /\ fault'[t].page = fault[t].page
        /\ fault'[t].reading = <<>> /\ page'[fault'[t].frees[1]].va \in VA
        /\ pc'[t] = "add"
    BY <1>b, <2>0, <2>6 DEF EvictPcs, ScanPcs
  <2> QED BY <1>a, <1>m, <2>2, <2>3, <2>4, <2>5, <2>7, ThreadStepOK
<1>5. CASE FirstAdd(t)
  <2> DEFINE n == NewPage(t)
  <2>0. /\ fifo' = EnqueueFifo("inactive", n) /\ pages' = pages
        /\ page' = [page EXCEPT ![n].list = "inactive"]
        /\ pc[t] = "add" /\ pc'[t] = "idle" /\ fault'[t] = NoFault
    BY <1>0, <1>5 DEF FirstAdd, Abort, TypeOK, At, Resume
  <2>2. KeepsVa
    BY <1>u, <2>0 DEF KeepsVa, UserPage
  <2>3. Mapped(n)
    BY <1>0, <1>b, <2>0 DEF LocalUsed
  <2>4. QueuesMapped'
    BY <1>0, <1>b, <1>u, <2>0, <2>2, <2>3, QueuesLift DEF UseInv
  <2>5. HashOK'
    BY <1>0, <2>0, <2>2, HashLift DEF UseInv
  <2>6. ThreadOK(t)'
    BY <2>0 DEF ThreadOK, NoFault, FetchPcs, ScanPcs, EvictPcs, FirstPcs, SettlePcs
  <2>7. /\ pc'[t] \notin EvictPcs \cup ScanPcs /\ fault'[t].page = 0
        /\ fault'[t].reading = <<>> /\ pc'[t] \notin {"map", "add", "missing", "publish"}
    BY <2>0 DEF EvictPcs, ScanPcs, NoFault
  <2> QED BY <1>a, <1>m, <2>2, <2>4, <2>5, <2>6, <2>7, ThreadStepOK
<1> QED BY <1>1, <1>2, <1>3, <1>4, <1>5

\* A swap-in whose frame is there.
LEMMA SwapInInv ==
    ASSUME UseInv, NEW t \in Threads, failed' = "none",
           FinishRead(t) \/ PublishPage(t) \/ PrefetchResident(t) \/ Settle(t)
    PROVE  StepOK(t)
<1>0. /\ TypeOK /\ TypeOK' /\ t \in Executors /\ LocalUsed(t) /\ ThreadOK(t)
      /\ fault[t] \in FaultLocals
      /\ fault[t].reading \in Seq(Pages) /\ fault[t].frees \in Seq(Pages)
      /\ fault[t].buf \in Seq(Vals)
  BY SwapInTypes DEF UseInv, TypeOK, Executors, LocalsOK, LocalOK, LocalsUsed, FaultLocals
<1>u. page \in [Pages -> UserPage] /\ "inactive" \in Queues /\ 1 \in Pages
  BY <1>0, SizeAssumption DEF TypeOK, Queues, Pages
<1>a. /\ pc[t] \in {"finish"} \cup SettlePcs /\ pc[t] \notin EvictPcs \cup ScanPcs
      /\ evict' = evict /\ scan' = scan /\ pages' = pages
  BY DEF FinishRead, PublishPage, PrefetchResident, Settle, At, SettlePcs, EvictPcs, ScanPcs,
         Abort, sharedVars
<1>b. /\ fault[t].addr \in VA /\ fault[t].job \in {"swapin", "prefetch"}
      /\ Len(fault[t].frees) = Len(fault[t].reading)
  BY <1>0, <1>a DEF ThreadOK, SettlePcs
<1>m. pc' = [pc EXCEPT ![t] = pc'[t]] /\ fault' = [fault EXCEPT ![t] = fault'[t]]
  BY <1>0 DEF FinishRead, PublishPage, PrefetchResident, Settle, TypeOK, Resume, Abort
<1>n. ASSUME KeepsVa
      PROVE  /\ pc[t] \in {"missing", "publish"} => page'[fault[t].page].va \in VA
             /\ \A i \in DOMAIN fault[t].reading :
                  fault[t].reading[i] \in Pages /\ page'[fault[t].reading[i]].va \in VA
  BY <1>n, NamedPages
<1>h. ASSUME KeepsVa PROVE HashOK'
  BY <1>0, <1>a, <1>h, HashLift DEF UseInv
<1>1. CASE FinishRead(t)
  <2> DEFINE p == Head(fault[t].reading)
             d == Head(fault[t].frees)
  <2>0. /\ fifo' = fifo /\ pc[t] = "finish" /\ pc'[t] = "publish" /\ fault[t].buf # <<>>
        /\ fault'[t] = [fault[t] EXCEPT !.page = p, !.reading = Tail(fault[t].reading),
                                        !.buf = Tail(fault[t].buf),
                                        !.frees = Tail(fault[t].frees)]
    BY <1>0, <1>1 DEF FinishRead, Abort, At, TypeOK
  <2>p. page' = [page EXCEPT
             ![p].virtual_offset = page[d].virtual_offset,
             ![p].in_dram = page[p].in_dram \/ fault[t].job = "swapin",
             ![p].reserve = d,
             ![d] = AsReserve(page[d], p, page[p].virtual_offset)]
    BY <1>1 DEF FinishRead, Abort
  <2>1. /\ fault'[t].addr = fault[t].addr /\ fault'[t].job = fault[t].job
        /\ fault'[t].page = p /\ fault'[t].reading = Tail(fault[t].reading)
        /\ fault'[t].buf = Tail(fault[t].buf) /\ fault'[t].frees = Tail(fault[t].frees)
    BY <1>0, <2>0 DEF FaultLocals
  <2>2. /\ fault[t].reading # <<>>
        /\ fault[t].job = "swapin" => Len(fault[t].reading) = 1
        /\ Len(fault[t].buf) = Len(fault[t].reading)
    BY <1>0, <2>0 DEF ThreadOK, SettlePcs
  <2>f. fault[t].frees # <<>>
    BY <1>0, <1>b, <2>2
  <2>3. /\ p \in Pages /\ p = fault[t].reading[1] /\ 1 \in DOMAIN fault[t].reading
        /\ Len(Tail(fault[t].reading)) = Len(fault[t].reading) - 1
        /\ Len(fault[t].reading) \in Nat
    BY <1>0, <2>2, HeadTail
  <2>4. /\ Len(Tail(fault[t].frees)) = Len(fault[t].frees) - 1
        /\ Len(Tail(fault[t].buf)) = Len(fault[t].buf) - 1
    BY <1>0, <2>0, <2>f, HeadTail
  <2>5. p # 0
    BY <2>3 DEF Pages
  <2>6. KeepsVa
    BY <1>u, <2>p DEF KeepsVa, AsReserve, UserPage
  <2>7. QueuesMapped'
    BY <1>0, <1>u, <2>0, <2>6, QueuesLift DEF UseInv
  <2>8. ThreadOK(t)'
    <3> HIDE DEF p
    <3>1. /\ Len(fault'[t].reading) = Len(fault[t].reading) - 1
          /\ Len(fault'[t].frees) = Len(fault[t].reading) - 1
          /\ Len(fault'[t].buf) = Len(fault[t].reading) - 1
      BY <1>b, <2>1, <2>2, <2>3, <2>4
    <3>2. fault'[t].job = "swapin" => Len(fault'[t].reading) = 0
      BY <2>1, <2>2, <3>1
    <3>3. fault'[t].page # 0 /\ fault'[t].addr \in VA
          /\ fault'[t].job \in {"swapin", "prefetch"}
      BY <1>b, <2>1, <2>5
    <3> QED BY <2>0, <3>1, <3>2, <3>3
            DEF ThreadOK, FetchPcs, ScanPcs, EvictPcs, FirstPcs, SettlePcs
  <2>9. page'[fault'[t].page].va \in VA
    BY <1>n, <2>1, <2>3, <2>6
  <2>10. \A i \in DOMAIN fault'[t].reading : page'[fault'[t].reading[i]].va \in VA
    <3> TAKE i \in DOMAIN fault'[t].reading
    <3>1. i \in 1 .. Len(fault[t].reading) - 1 /\ fault'[t].reading[i] = fault[t].reading[i + 1]
      BY <1>0, <2>1, <2>2, HeadTail
    <3>2. i + 1 \in DOMAIN fault[t].reading
      BY <1>0, <3>1
    <3> QED BY <1>n, <2>6, <3>1, <3>2
  <2>11. pc'[t] \notin EvictPcs \cup ScanPcs /\ pc'[t] \notin {"map", "add"}
    BY <2>0 DEF EvictPcs, ScanPcs
  <2> QED BY <1>a, <1>h, <1>m, <2>6, <2>7, <2>8, <2>9, <2>10, <2>11, ThreadStepOK
<1>2. CASE PublishPage(t) \/ PrefetchResident(t)
  <2> DEFINE p == fault[t].page
  <2>0. /\ pc[t] \in {"publish", "resident"} /\ pc'[t] \in {"resident", "settle"}
        /\ fault' = fault
        /\ \/ pc[t] = "publish" /\ fifo' = EnqueueFifo("inactive", p)
           \/ fifo' = fifo
    BY <1>0, <1>2 DEF PublishPage, PrefetchResident, At, TypeOK
  <2>1. p \in Pages /\ (pc[t] = "publish" => Mapped(p))
    BY <1>0, <2>0 DEF ThreadOK, SettlePcs, LocalUsed, FaultLocals
  <2>2. KeepsVa
    <3>1. CASE PublishPage(t)
      BY <1>u, <3>1 DEF PublishPage, KeepsVa, UserPage
    <3>2. CASE PrefetchResident(t)
      BY <1>u, <3>2 DEF PrefetchResident, KeepsVa, UserPage
    <3> QED BY <1>2, <3>1, <3>2
  <2>3. QueuesMapped'
    BY <1>0, <1>u, <2>0, <2>1, <2>2, QueuesLift DEF UseInv
  <2>4. ThreadOK(t)'
    BY <1>0, <2>0 DEF ThreadOK, FetchPcs, ScanPcs, EvictPcs, FirstPcs, SettlePcs
  <2>5. /\ pc'[t] \notin EvictPcs \cup ScanPcs /\ pc'[t] \notin {"map", "add", "missing", "publish"}
        /\ fault'[t] = fault[t]
    BY <2>0 DEF EvictPcs, ScanPcs
  <2> QED BY <1>a, <1>h, <1>m, <1>n, <2>2, <2>3, <2>4, <2>5, ThreadStepOK
<1>3. CASE Settle(t)
  <2>0. pc[t] = "settle" /\ fifo' = fifo
    BY <1>3 DEF Settle, At
  <2>1. KeepsVa
    BY <1>u, <1>3 DEF Settle, KeepsVa, UserPage
  <2>2. QueuesMapped'
    BY <1>0, <1>u, <2>0, <2>1, QueuesLift DEF UseInv
  <2>3. CASE Resume(t)
    <3>1. pc'[t] = "idle" /\ fault'[t] = NoFault
      BY <1>0, <2>3 DEF Resume, TypeOK
    <3>2. ThreadOK(t)'
      BY <3>1 DEF ThreadOK, NoFault, FetchPcs, ScanPcs, EvictPcs, FirstPcs, SettlePcs
    <3>3. /\ pc'[t] \notin EvictPcs \cup ScanPcs /\ pc'[t] \notin {"map", "add", "missing", "publish"}
          /\ fault'[t].page = 0 /\ fault'[t].reading = <<>>
      BY <3>1 DEF EvictPcs, ScanPcs, NoFault
    <3> QED BY <1>a, <1>h, <1>m, <2>1, <2>2, <3>2, <3>3, ThreadStepOK
  <2>4. CASE /\ fault[t].job = "swapin"
             /\ fault' = [fault EXCEPT ![t].job = "prefetch", ![t].page = 0]
             /\ pc' = [pc EXCEPT ![t] = "find"]
    <3>1. pc'[t] = "find" /\ fault'[t] = [fault[t] EXCEPT !.job = "prefetch", !.page = 0]
      BY <1>0, <2>4 DEF TypeOK
    <3>2. /\ fault'[t].addr = fault[t].addr /\ fault'[t].job = "prefetch"
          /\ fault'[t].page = 0 /\ fault'[t].reading = fault[t].reading
          /\ fault'[t].buf = fault[t].buf /\ fault'[t].frees = fault[t].frees
      BY <1>0, <3>1 DEF FaultLocals
    <3>3. Len(fault[t].reading) = 0
      BY <1>0, <2>0, <2>4 DEF ThreadOK, SettlePcs
    <3>4. fault[t].buf = <<>> \/ Len(fault[t].buf) = 0
      BY <1>0, <3>3 DEF ThreadOK
    <3>5. fault[t].reading = <<>> /\ fault[t].frees = <<>> /\ fault[t].buf = <<>>
      BY <1>0, <1>b, <3>3, <3>4
    <3>6. ThreadOK(t)'
      BY <1>b, <3>1, <3>2, <3>5 DEF ThreadOK, FetchPcs, ScanPcs, EvictPcs, FirstPcs, SettlePcs
    <3>7. /\ pc'[t] \notin EvictPcs \cup ScanPcs /\ pc'[t] \notin {"map", "add", "missing", "publish"}
          /\ fault'[t].page = 0 /\ fault'[t].reading = <<>>
      BY <3>1, <3>2, <3>5 DEF EvictPcs, ScanPcs
    <3> QED BY <1>a, <1>h, <1>m, <2>1, <2>2, <3>6, <3>7, ThreadStepOK
  <2>5. CASE /\ fault[t].reading # <<>>
             /\ fault' = [fault EXCEPT ![t].page = 0]
             /\ pc' = [pc EXCEPT ![t] = "finish"]
    <3>1. pc'[t] = "finish" /\ fault'[t] = [fault[t] EXCEPT !.page = 0]
      BY <1>0, <2>5 DEF TypeOK
    <3>2. /\ fault'[t].addr = fault[t].addr /\ fault'[t].job = fault[t].job
          /\ fault'[t].page = 0 /\ fault'[t].reading = fault[t].reading
          /\ fault'[t].buf = fault[t].buf /\ fault'[t].frees = fault[t].frees
      BY <1>0, <3>1 DEF FaultLocals
    <3>3. fault[t].job # "swapin"
      BY <1>0, <2>0, <2>5 DEF ThreadOK, SettlePcs
    <3>4. ThreadOK(t)'
      BY <1>0, <1>b, <2>5, <3>1, <3>2, <3>3
         DEF ThreadOK, FetchPcs, ScanPcs, EvictPcs, FirstPcs, SettlePcs
    <3>5. /\ pc'[t] \notin EvictPcs \cup ScanPcs /\ pc'[t] \notin {"map", "add", "missing", "publish"}
          /\ fault'[t].page = 0 /\ fault'[t].reading = fault[t].reading
      BY <3>1, <3>2 DEF EvictPcs, ScanPcs
    <3> QED BY <1>a, <1>h, <1>m, <1>n, <2>1, <2>2, <3>4, <3>5, ThreadStepOK
  <2> QED BY <1>3, <2>3, <2>4, <2>5 DEF Settle
<1> QED BY <1>1, <1>2, <1>3

\* A step that ends the process does nothing else.
LEMMA AbortCrashes ==
    ASSUME failed' # "none",
           \/ \E t \in Threads : FaultStep(t) \/ EvictStep(t)
           \/ \E w \in Workers : WorkerStep(w)
    PROVE  Crash
<1>1. ASSUME NEW e, EvictStep(e) PROVE Crash
  BY <1>1 DEF EvictStep, TakeVictim, ProtectVictim, BackByReserve, BackByFreeSlot, WriteBack,
       UnmapVictim, MarkSwappedOut, FreeFrame, TrackVictim, Abort, Crash, AssertLabels, At
<1>2. ASSUME NEW w, ReleaseVictim(w) PROVE Crash
  BY <1>2 DEF ReleaseVictim, Abort, Crash, AssertLabels, At
<1>3. ASSUME NEW t, FaultStep(t) PROVE Crash
  <2>1. CASE uswap_sig_handler(t) \/ Spin(t) \/ DiskRead(t) \/ FetchFree(t)
             \/ FetchReclaim(t) \/ FetchRetry(t)
    BY <2>1 DEF uswap_sig_handler, Spin, DiskRead, FetchFree, FetchReclaim, FetchRetry, At
  <2>2. CASE \/ handle_missing_fault(t) \/ PrefetchFind(t)
             \/ FetchEvicted(t) \/ FetchOutOfMemory(t)
    BY <2>2 DEF handle_missing_fault, PrefetchFind, FetchEvicted, FetchOutOfMemory,
                Abort, Crash, AssertLabels, At
  <2>3. CASE FirstAllocate(t) \/ PutBack(t) \/ FirstMap(t) \/ FirstAdd(t)
    BY <2>3 DEF FirstAllocate, PutBack, FirstMap, FirstAdd, Abort, Crash, AssertLabels, At
  <2>4. CASE FinishRead(t) \/ PublishPage(t) \/ PrefetchResident(t) \/ Settle(t)
    BY <2>4 DEF FinishRead, PublishPage, PrefetchResident, Settle, Abort, Crash,
                AssertLabels, At
  <2> QED BY <1>3, <2>1, <2>2, <2>3, <2>4 DEF FaultStep
<1> QED BY <1>1, <1>2, <1>3 DEF WorkerStep

\* The invariant holds at the start.
LEMMA InitInv == Init => TypeInv
<1> SUFFICES ASSUME Init PROVE TypeInv
  OBVIOUS
<1> USE SizeAssumption DEF Init, InitPages
<1>1. \A p \in Pages : InitPage(p) \in UserPage
  BY DEF InitPage, UserPage, Pages, Offsets, VA, Lists, Queues
<1>2. page \in [Pages -> UserPage]
  BY <1>1
<1>3. fifo \in [Queues -> Seq(Pages)]
  <2>1. [i \in 1 .. NDram |-> i] \in Seq(Pages)
    BY DEF Pages
  <2>2. [i \in 1 .. NDisk |-> NDram + i] \in Seq(Pages)
    BY DEF Pages
  <2>3. <<>> \in Seq(Pages)
    OBVIOUS
  <2> QED BY <2>1, <2>2, <2>3 DEF InitFifo
<1>4. NoPte \in Pte /\ NoFault \in FaultLocals /\ NoEvict \in EvictLocals
  BY DEF NoPte, Pte, NoFault, FaultLocals, NoEvict, EvictLocals, Offsets
<1>5. TypeOK
  BY <1>2, <1>3, <1>4 DEF TypeOK, PcLabels
<1>6. LocalsOK
  <2> SUFFICES ASSUME NEW e \in Executors PROVE LocalOK(e)
    BY DEF LocalsOK
  <2>0. pc[e] = "idle" /\ (e \in Scanners => scan[e] = 0)
    OBVIOUS
  <2>1. e \in Evictors => EvictorOK(e)
    BY <2>0 DEF EvictorOK, EvictPcs, NoEvict
  <2>2. e \in Threads => ThreadOK(e)
    BY <2>0 DEF ThreadOK, NoFault, FetchPcs, ScanPcs, EvictPcs, FirstPcs, SettlePcs
  <2> QED BY <2>0, <2>1, <2>2 DEF LocalOK, ScanPcs
<1>7. LocalsUsed /\ LocalsMapped
  BY DEF LocalsUsed, LocalUsed, HoldsVictim, LocalsMapped, LocalMapped, NoFault, NoEvict
<1>8. QueuesMapped
  BY DEF QueuesMapped, InitFifo, Queues
<1>9. HashOK
  BY DEF HashOK
<1> QED BY <1>5, <1>6, <1>7, <1>8, <1>9 DEF TypeInv, UseInv

\* Every step fails an assertion or does what StepOK says, or changes nothing.
LEMMA NextStepOK ==
    ASSUME UseInv, [Next]_vars
    PROVE  UNCHANGED vars \/ Crash \/ (TypeOK' /\ \E x \in Executors : StepOK(x))
<1> DEFINE Done == TypeOK' /\ \E x \in Executors : StepOK(x)
<1>e. Threads \subseteq Executors /\ Workers \subseteq Executors /\ Kswapd \subseteq Executors
      /\ Threads \subseteq Evictors /\ Workers \subseteq Evictors
      /\ Threads \subseteq Scanners /\ Kswapd \subseteq Scanners
  BY DEF Executors, Evictors, Scanners
<1>3. ASSUME NEW t \in Threads, Application(t) PROVE Done
  BY <1>e, <1>3, ApplicationInv, ApplicationTypes
<1>4. ASSUME NEW t \in Threads, FaultStep(t), ~Crash PROVE Done
  <2>0. failed' = "none"
    BY <1>4, AbortCrashes
  <2>3. ~FetchOutOfMemory(t)
    BY <2>0 DEF FetchOutOfMemory, Abort
  <2>1. TypeOK'
    BY <1>4, <2>3, FaultStartTypes, FetchTypes, SwapInTypes DEF FaultStep
  <2>2. StepOK(t)
    BY <1>4, <2>0, <2>3, FaultStartInv, FetchInv, FirstInv, SwapInInv DEF FaultStep
  <2> QED BY <1>e, <2>1, <2>2
<1>5. ASSUME NEW e \in Evictors, EvictStep(e), failed' = "none" PROVE Done
  <2>1. TypeOK' /\ StepOK(e) /\ e \in Executors
    BY <1>5, EvictTypes, EvictInv DEF Evictors, Executors
  <2> QED BY <2>1
<1>6. ASSUME NEW w \in Workers, ReleaseVictim(w), failed' = "none" PROVE Done
  BY <1>e, <1>6, ReleaseTypes, ReleaseInv
<1>7. ASSUME NEW e \in Scanners, ScanStep(e) PROVE Done
  <2>1. TypeOK' /\ StepOK(e) /\ e \in Executors
    BY <1>7, ScanTypes, ScanInv DEF Scanners, Executors
  <2> QED BY <2>1
<1> HIDE DEF Done
<1>8. ASSUME NEW t \in Threads, ThreadStep(t), ~Crash PROVE Done
  <2>1. EvictStep(t) => failed' = "none"
    BY <1>8, AbortCrashes
  <2> QED BY <1>e, <1>4, <1>5, <1>7, <1>8, <2>1 DEF ThreadStep
<1>9. ASSUME NEW w \in Workers, WorkerStep(w), ~Crash PROVE Done
  <2>1. failed' = "none"
    BY <1>9, AbortCrashes
  <2> QED BY <1>e, <1>5, <1>6, <1>9, <2>1 DEF WorkerStep
<1>10. UNCHANGED vars \/ Crash \/ Done
  BY <1>e, <1>3, <1>7, <1>8, <1>9 DEF Next, Aborted
<1> QED BY <1>10 DEF Done

\* A step that changes nothing keeps both parts of the invariant.
LEMMA StutterInv ==
    ASSUME UseInv, UNCHANGED vars
    PROVE  UseInv' /\ (LocalsMapped => LocalsMapped')
<1>1. TypeOK' /\ QueuesMapped' /\ HashOK'
  BY DEF vars, UseInv, TypeOK, QueuesMapped, HashOK, Mapped
<1>2. LocalsOK'
  BY DEF vars, UseInv, LocalsOK, LocalOK, EvictorOK, ThreadOK
<1>3. LocalsUsed'
  BY DEF vars, UseInv, LocalsUsed, LocalUsed, HoldsVictim, Mapped
<1>4. LocalsMapped => LocalsMapped'
  BY DEF vars, LocalsMapped, LocalMapped, LocalUsed, HoldsVictim, Mapped
<1> QED BY <1>1, <1>2, <1>3, <1>4 DEF UseInv

\* Every step keeps what the executors use mapped.
LEMMA UseNext == UseInv /\ [Next]_vars => UseInv'
  BY NextStepOK, StutterInv, CrashInv, StepLift

\* As long as nothing is unmapped, all that they name stays mapped.
LEMMA NamedLift ==
    ASSUME UseInv, UseInv', LocalsMapped, NEW x \in Executors, StepOK(x)
    PROVE  LocalsMapped'
<1> SUFFICES ASSUME NEW e \in Executors PROVE LocalMapped(e)'
  BY DEF LocalsMapped
<1>1. LocalMapped(e) /\ LocalUsed(e)' /\ OnlyMoves(x) /\ KeepsVa /\ KeepsPages(x)
  BY DEF LocalsMapped, UseInv, LocalsUsed, StepOK
<1>2. ASSUME NEW p \in Pages, Mapped(p) PROVE page'[p].va \in VA
  BY <1>1, <1>2 DEF KeepsVa, Mapped
<1>3. ASSUME e \in Evictors, evict'[e].victim # 0 PROVE page'[evict'[e].victim].va \in VA
  <2>0. evict[e].victim \in Pages \cup {0}
    BY <1>3 DEF UseInv, TypeOK, EvictLocals
  <2>1. CASE evict'[e].victim = evict[e].victim
    BY <1>1, <1>2, <1>3, <2>0, <2>1 DEF LocalMapped
  <2>2. CASE e = x /\ page'[evict'[e].victim].va \in VA
    BY <2>2
  <2> QED BY <1>1, <1>3, <2>1, <2>2 DEF OnlyMoves, KeepsPages
<1>4. ASSUME e \in Threads, fault'[e].page # 0 PROVE page'[fault'[e].page].va \in VA
  <2>0. fault[e].page \in Pages \cup {0}
    BY <1>4 DEF UseInv, TypeOK, FaultLocals
  <2>1. CASE fault'[e].page = fault[e].page
    BY <1>1, <1>2, <1>4, <2>0, <2>1 DEF LocalMapped
  <2>2. CASE e = x /\ page'[fault'[e].page].va \in VA
    BY <2>2
  <2> QED BY <1>1, <1>4, <2>1, <2>2 DEF OnlyMoves, KeepsPages
<1> QED BY <1>1, <1>3, <1>4 DEF LocalMapped, Mapped

\* Every step keeps the invariant.
LEMMA NextInv == TypeInv /\ [Next]_vars => TypeInv'
<1> SUFFICES ASSUME TypeInv, [Next]_vars PROVE TypeInv'
  OBVIOUS
<1>1. UseInv /\ LocalsMapped /\ UseInv'
  BY UseNext DEF TypeInv
<1>2. CASE UNCHANGED vars
  BY <1>1, <1>2, StutterInv DEF TypeInv
<1>3. CASE Crash
  <2>1. LocalsMapped'
    BY <1>1, <1>3 DEF Crash, sharedVars, LocalsMapped, LocalMapped, LocalUsed, HoldsVictim,
                      Mapped
  <2> QED BY <1>1, <2>1 DEF TypeInv
<1>4. ASSUME NEW x \in Executors, StepOK(x) PROVE TypeInv'
  BY <1>1, <1>4, NamedLift DEF TypeInv
<1> QED BY <1>1, <1>2, <1>3, <1>4, NextStepOK

\* Every variable keeps its type, whatever the threads do: for any number of
\* pages, frames, slots, threads and workers.
THEOREM TypeCorrect == Spec => []TypeOK
<1>1. Init => TypeInv
  BY InitInv
<1>2. TypeInv /\ [Next]_vars => TypeInv'
  BY NextInv
<1>3. TypeInv => TypeOK
  BY DEF TypeInv, UseInv
<1> QED BY <1>1, <1>2, <1>3, PTL DEF Spec


-----------------------------------------------------------------------------
(* A step as seen by the descriptors: what it takes off a list, what it     *)
(* puts on one, and what it leaves alone.                                   *)

\* Nobody but x gains or loses a descriptor.
LEMMA OtherHolds ==
    ASSUME NEW x \in Executors, OnlyMoves(x)
    PROVE  \A e \in Executors \ {x}, r \in Roles, p \in Pages :
             Holds(e, r, p)' <=> Holds(e, r, p)
<1> SUFFICES ASSUME NEW e \in Executors \ {x}, NEW r \in Roles, NEW p \in Pages
             PROVE  Holds(e, r, p)' <=> Holds(e, r, p)
  OBVIOUS
<1>1. CASE r = "victim"
  BY <1>1 DEF Holds, HoldsVictim, OnlyMoves
<1>2. CASE r = "dpage"
  BY <1>2 DEF Holds, OnlyMoves
<1>3. CASE r = "scan"
  BY <1>3 DEF Holds, OnlyMoves
<1>4. CASE r = "read"
  BY <1>4 DEF Holds, OnlyMoves
<1>5. CASE r = "free"
  BY <1>5 DEF Holds, OnlyMoves
<1>6. CASE r = "page"
  BY <1>6 DEF Holds, OnlyMoves
<1> QED BY <1>1, <1>2, <1>3, <1>4, <1>5, <1>6 DEF Roles

\* Either p and what x holds of it stay as they are, or p was on a list or in
\* x's hands and is now one or the other, for one purpose.
OwnsOK(x, p) ==
    \/ /\ page'[p].list = "none" <=> page[p].list = "none"
       /\ \A r \in Roles : Holds(x, r, p)' <=> Holds(x, r, p)
    \/ /\ page[p].list # "none" \/ \E r \in Roles : Holds(x, r, p)
       /\ page'[p].list = "none" <=> \E r \in Roles : Holds(x, r, p)'
       /\ \A r, s \in Roles : Holds(x, r, p)' /\ Holds(x, s, p)' => r = s

OwnsAll(x) == \A p \in Pages : OwnsOK(x, p)

\* What holds of every descriptor, holds of the whole.
LEMMA OwnLift ==
    ASSUME Ownership, NEW x \in Executors, OnlyMoves(x), OwnsAll(x)
    PROVE  Ownership'
<1>0. \A e \in Executors \ {x}, r \in Roles, p \in Pages :
        Holds(e, r, p)' <=> Holds(e, r, p)
  BY OtherHolds
<1> SUFFICES ASSUME NEW p \in Pages
             PROVE  /\ page'[p].list = "none" <=>
                         \E e \in Executors, r \in Roles : Holds(e, r, p)'
                    /\ \A e \in Executors, r \in Roles : Holds(e, r, p)' =>
                         \A f \in Executors, s \in Roles : Holds(f, s, p)' => e = f /\ r = s
  BY DEF Ownership
<1>1. /\ page[p].list = "none" <=> \E e \in Executors, r \in Roles : Holds(e, r, p)
      /\ \A e \in Executors, r \in Roles : Holds(e, r, p) =>
           \A f \in Executors, s \in Roles : Holds(f, s, p) => e = f /\ r = s
  BY DEF Ownership
<1>2. CASE /\ page'[p].list = "none" <=> page[p].list = "none"
           /\ \A r \in Roles : Holds(x, r, p)' <=> Holds(x, r, p)
  <2>1. \A e \in Executors, r \in Roles : Holds(e, r, p)' <=> Holds(e, r, p)
    BY <1>0, <1>2
  <2> QED BY <1>1, <1>2, <2>1
<1>3. CASE /\ page[p].list # "none" \/ \E r \in Roles : Holds(x, r, p)
           /\ page'[p].list = "none" <=> \E r \in Roles : Holds(x, r, p)'
           /\ \A r, s \in Roles : Holds(x, r, p)' /\ Holds(x, s, p)' => r = s
  <2>1. \A e \in Executors \ {x}, r \in Roles : ~Holds(e, r, p)
    BY <1>1, <1>3
  <2>2. \A e \in Executors, r \in Roles : Holds(e, r, p)' => e = x
    BY <1>0, <2>1
  <2> QED BY <1>3, <2>2
<1> QED BY <1>2, <1>3 DEF OwnsOK, OwnsAll

\* A step that takes nothing and puts nothing.
LEMMA OwnQuiet ==
    ASSUME Exclusive, NEW x \in Executors,
           \A p \in Pages : page'[p].list = page[p].list,
           \A r \in Roles, p \in Pages : Holds(x, r, p)' <=> Holds(x, r, p)
    PROVE  OwnsAll(x)
  BY DEF OwnsAll, OwnsOK

\* x takes d off its list, in role k.
LEMMA OwnTake ==
    ASSUME Exclusive, NEW x \in Executors, NEW d \in Pages, NEW k \in Roles,
           page[d].list # "none", page'[d].list = "none",
           \A p \in Pages \ {d} : page'[p].list = page[p].list,
           \A r \in Roles, p \in Pages :
             Holds(x, r, p)' <=> Holds(x, r, p) \/ (r = k /\ p = d)
    PROVE  OwnsAll(x)
<1>1. \A r \in Roles : ~Holds(x, r, d)
  BY DEF Exclusive
<1>2. ASSUME NEW p \in Pages PROVE OwnsOK(x, p)
  <2>1. CASE p = d
    BY <1>1, <2>1 DEF OwnsOK
  <2>2. CASE p # d
    BY <2>2 DEF OwnsOK
  <2> QED BY <2>1, <2>2
<1> QED BY <1>2 DEF OwnsAll

\* x puts d, which it holds in role k, on a list.
LEMMA OwnPut ==
    ASSUME Exclusive, NEW x \in Executors, NEW d \in Pages, NEW k \in Roles,
           Holds(x, k, d), page'[d].list # "none",
           \A p \in Pages \ {d} : page'[p].list = page[p].list,
           \A r \in Roles, p \in Pages :
             Holds(x, r, p)' <=> Holds(x, r, p) /\ ~(r = k /\ p = d)
    PROVE  OwnsAll(x)
<1>1. \A r \in Roles : Holds(x, r, d) => r = k
  BY DEF Exclusive
<1>2. ASSUME NEW p \in Pages PROVE OwnsOK(x, p)
  <2>1. CASE p = d
    BY <1>1, <2>1 DEF OwnsOK
  <2>2. CASE p # d
    BY <2>2 DEF OwnsOK
  <2> QED BY <2>1, <2>2
<1> QED BY <1>2 DEF OwnsAll

\* x holds c, so far in role k, in role m instead.
LEMMA OwnMove ==
    ASSUME Exclusive, NEW x \in Executors, NEW c \in Pages,
           NEW k \in Roles, NEW m \in Roles, k # m, Holds(x, k, c),
           \A p \in Pages : page'[p].list = page[p].list,
           \A r \in Roles, p \in Pages :
             Holds(x, r, p)' <=> \/ Holds(x, r, p) /\ ~(r = k /\ p = c)
                                 \/ r = m /\ p = c
    PROVE  OwnsAll(x)
<1>1. /\ \A r \in Roles : Holds(x, r, c) => r = k
      /\ page[c].list = "none"
  BY DEF Exclusive
<1>2. ASSUME NEW p \in Pages PROVE OwnsOK(x, p)
  <2>1. CASE p = c
    BY <1>1, <2>1 DEF OwnsOK
  <2>2. CASE p # c
    BY <2>2 DEF OwnsOK
  <2> QED BY <2>1, <2>2
<1> QED BY <1>2 DEF OwnsAll

\* The two at once, for two descriptors: c changes role and d goes on a list.
LEMMA OwnMovePut ==
    ASSUME Exclusive, NEW x \in Executors, NEW c \in Pages, NEW d \in Pages,
           NEW k \in Roles, NEW m \in Roles, NEW n \in Roles, k # m, k # n, m # n,
           Holds(x, k, c), Holds(x, n, d),
           page'[d].list # "none",
           \A p \in Pages \ {d} : page'[p].list = page[p].list,
           \A r \in Roles, p \in Pages :
             Holds(x, r, p)' <=> \/ Holds(x, r, p) /\ ~(r = k /\ p = c) /\ ~(r = n /\ p = d)
                                 \/ r = m /\ p = c
    PROVE  OwnsAll(x)
<1>1. /\ \A r \in Roles : Holds(x, r, c) => r = k
      /\ \A r \in Roles : Holds(x, r, d) => r = n
      /\ page[c].list = "none"
  BY DEF Exclusive
<1>2. c # d
  BY <1>1
<1>3. ASSUME NEW p \in Pages PROVE OwnsOK(x, p)
  <2>1. CASE p = c
    BY <1>1, <1>2, <2>1 DEF OwnsOK
  <2>2. CASE p = d
    BY <1>1, <1>2, <2>2 DEF OwnsOK
  <2>3. CASE p # c /\ p # d
    BY <2>3 DEF OwnsOK
  <2> QED BY <2>1, <2>2, <2>3
<1> QED BY <1>3 DEF OwnsAll

-----------------------------------------------------------------------------
(* The queues.                                                              *)

\* The page at the head of a queue is on that list, and taking it off leaves
\* the others in place.
LEMMA QueueTake ==
    ASSUME TypeOK, QueuesMatch, NEW q \in Queues, fifo[q] # <<>>,
           fifo' = DequeueFifo(q), page'[Head(fifo[q])].list = "none",
           \A p \in Pages \ {Head(fifo[q])} : page'[p].list = page[p].list
    PROVE  /\ QueuesMatch'
           /\ Head(fifo[q]) \in Pages /\ page[Head(fifo[q])].list = q
<1> DEFINE d == Head(fifo[q])
           s == fifo[q]
<1>0. s \in Seq(Pages) /\ s # <<>>
  BY DEF TypeOK
<1>1. /\ d \in Pages /\ d = s[1] /\ Len(s) \in Nat \ {0}
      /\ DOMAIN s = 1 .. Len(s) /\ DOMAIN Tail(s) = 1 .. Len(s) - 1
      /\ \A i \in 1 .. Len(s) - 1 : Tail(s)[i] = s[i + 1]
  BY <1>0, HeadTail
<1>2. page[d].list = q
  BY <1>1 DEF QueuesMatch
<1>3. fifo'[q] = Tail(s) /\ \A r \in Queues \ {q} : fifo'[r] = fifo[r]
  BY DEF DequeueFifo, TypeOK
<1> HIDE DEF d, s
<1>d. d = Head(fifo[q]) /\ s = fifo[q]
  BY DEF d, s
<1>4. \A i \in DOMAIN s : s[i] = d => i = 1
  BY <1>1, <1>d DEF QueuesMatch
<1>5. ASSUME NEW r \in Queues, NEW p \in Pages
      PROVE  page'[p].list = r <=> \E i \in DOMAIN fifo'[r] : fifo'[r][i] = p
  <2>1. CASE r # q
    <3>1. p = d => page[p].list # r /\ page'[p].list # r
      BY <1>2, <1>d, <2>1 DEF Queues
    <3>2. p # d => page'[p].list = page[p].list
      BY <1>d
    <3>3. fifo'[r] = fifo[r]
      BY <1>3, <2>1
    <3> QED BY <3>1, <3>2, <3>3 DEF QueuesMatch
  <2>2. CASE r = q /\ p = d
    <3>1. page'[p].list # r
      BY <1>d, <2>2 DEF Queues
    <3>2. ASSUME NEW i \in DOMAIN Tail(s), Tail(s)[i] = d PROVE FALSE
      <4>1. i + 1 \in DOMAIN s /\ s[i + 1] = d /\ i + 1 # 1
        BY <1>1, <3>2
      <4> QED BY <1>4, <4>1
    <3> QED BY <1>3, <1>d, <2>2, <3>1, <3>2
  <2>3. CASE r = q /\ p # d
    <3>1. page'[p].list = page[p].list
      BY <1>d, <2>3
    <3>2. page[p].list = q <=> \E i \in DOMAIN s : s[i] = p
      BY <1>d DEF QueuesMatch
    <3>3. (\E i \in DOMAIN s : s[i] = p) <=> \E i \in DOMAIN Tail(s) : Tail(s)[i] = p
      <4>1. ASSUME NEW i \in DOMAIN s, s[i] = p PROVE \E j \in DOMAIN Tail(s) : Tail(s)[j] = p
        <5>1. i # 1 /\ i \in 1 .. Len(s)
          BY <1>1, <2>3, <4>1
        <5>2. i - 1 \in 1 .. Len(s) - 1
          BY <1>1, <5>1
        <5>3. Tail(s)[i - 1] = p
          BY <1>1, <4>1, <5>1, <5>2
        <5> QED BY <1>1, <5>2, <5>3
      <4>2. ASSUME NEW j \in DOMAIN Tail(s), Tail(s)[j] = p PROVE \E i \in DOMAIN s : s[i] = p
        <5>1. j + 1 \in DOMAIN s /\ s[j + 1] = p
          BY <1>1, <4>2
        <5> QED BY <5>1
      <4> QED BY <4>1, <4>2
    <3> QED BY <1>3, <1>d, <2>3, <3>1, <3>2, <3>3
  <2> QED BY <2>1, <2>2, <2>3
<1>6. ASSUME NEW r \in Queues, NEW i \in DOMAIN fifo'[r], NEW j \in DOMAIN fifo'[r],
             fifo'[r][i] = fifo'[r][j]
      PROVE  i = j
  <2>1. CASE r # q
    BY <1>3, <1>6, <2>1 DEF QueuesMatch
  <2>2. CASE r = q
    <3>1. i \in 1 .. Len(s) - 1 /\ j \in 1 .. Len(s) - 1 /\ s[i + 1] = s[j + 1]
      BY <1>1, <1>3, <1>6, <2>2
    <3>2. i + 1 \in DOMAIN s /\ j + 1 \in DOMAIN s
      BY <1>1, <3>1
    <3>3. i + 1 = j + 1
      BY <1>d, <3>1, <3>2 DEF QueuesMatch
    <3> QED BY <1>1, <3>1, <3>3
  <2> QED BY <2>1, <2>2
<1>7. QueuesMatch'
  BY <1>5, <1>6 DEF QueuesMatch
<1> QED BY <1>1, <1>2, <1>7, <1>d

\* A page that was in no queue is put at the end of one.
LEMMA QueueJoin ==
    ASSUME TypeOK, QueuesMatch, NEW q \in Queues, NEW d \in Pages,
           page[d].list \notin Queues, fifo' = EnqueueFifo(q, d), page'[d].list = q,
           \A p \in Pages \ {d} : page'[p].list = page[p].list
    PROVE  QueuesMatch'
<1> DEFINE s == fifo[q]
           a == Append(fifo[q], d)
<1>0. s \in Seq(Pages)
  BY DEF TypeOK
<1>1. /\ Len(s) \in Nat /\ DOMAIN s = 1 .. Len(s) /\ DOMAIN a = 1 .. Len(s) + 1
      /\ a[Len(s) + 1] = d /\ \A i \in 1 .. Len(s) : a[i] = s[i]
  BY <1>0
<1>2. fifo'[q] = a /\ \A r \in Queues \ {q} : fifo'[r] = fifo[r]
  BY DEF EnqueueFifo, TypeOK
<1>3. \A r \in Queues : \A i \in DOMAIN fifo[r] : fifo[r][i] # d
  BY DEF QueuesMatch
<1> HIDE DEF a, s
<1>s. s = fifo[q]
  BY DEF s
<1>4. ASSUME NEW r \in Queues, NEW p \in Pages
      PROVE  page'[p].list = r <=> \E i \in DOMAIN fifo'[r] : fifo'[r][i] = p
  <2>1. CASE r # q
    <3>1. p = d => page'[p].list # r
      BY <2>1
    <3>2. fifo'[r] = fifo[r]
      BY <1>2, <2>1
    <3>3. p # d => (page'[p].list = r <=> \E i \in DOMAIN fifo[r] : fifo[r][i] = p)
      BY DEF QueuesMatch
    <3> QED BY <1>3, <3>1, <3>2, <3>3
  <2>2. CASE r = q /\ p = d
    <3>1. Len(s) + 1 \in DOMAIN a /\ a[Len(s) + 1] = d
      BY <1>1
    <3> QED BY <1>2, <2>2, <3>1
  <2>3. CASE r = q /\ p # d
    <3>1. page'[p].list = r <=> \E i \in DOMAIN s : s[i] = p
      BY <1>s, <2>3 DEF QueuesMatch
    <3>2. (\E i \in DOMAIN s : s[i] = p) <=> \E i \in DOMAIN a : a[i] = p
      <4>1. \A i \in DOMAIN s : i \in DOMAIN a /\ a[i] = s[i]
        BY <1>1
      <4>2. \A i \in DOMAIN a : i \in DOMAIN s \/ a[i] = d
        BY <1>1
      <4> QED BY <2>3, <4>1, <4>2
    <3> QED BY <1>2, <2>3, <3>1, <3>2
  <2> QED BY <2>1, <2>2, <2>3
<1>5. ASSUME NEW r \in Queues, NEW i \in DOMAIN fifo'[r], NEW j \in DOMAIN fifo'[r],
             fifo'[r][i] = fifo'[r][j]
      PROVE  i = j
  <2>1. CASE r # q
    BY <1>2, <1>5, <2>1 DEF QueuesMatch
  <2>2. CASE r = q
    <3>1. i \in DOMAIN a /\ j \in DOMAIN a /\ a[i] = a[j]
      BY <1>2, <1>5, <2>2
    <3>2. \A k \in 1 .. Len(s) : s[k] # d
      BY <1>1, <1>3, <1>s
    <3>3. CASE i \in 1 .. Len(s) /\ j \in 1 .. Len(s)
      <4>1. s[i] = s[j] /\ i \in DOMAIN s /\ j \in DOMAIN s
        BY <1>1, <3>1, <3>3
      <4> QED BY <1>s, <4>1 DEF QueuesMatch
    <3>4. CASE ~(i \in 1 .. Len(s) /\ j \in 1 .. Len(s))
      BY <1>1, <3>1, <3>2, <3>4
    <3> QED BY <3>3, <3>4
  <2> QED BY <2>1, <2>2
<1> QED BY <1>4, <1>5 DEF QueuesMatch

\* One that was on no list is such a page.
LEMMA QueuePut ==
    ASSUME TypeOK, QueuesMatch, NEW q \in Queues, NEW d \in Pages,
           page[d].list = "none", fifo' = EnqueueFifo(q, d), page'[d].list = q,
           \A p \in Pages \ {d} : page'[p].list = page[p].list
    PROVE  QueuesMatch'
<1>1. page[d].list \notin Queues
  BY DEF Queues
<1> QED BY <1>1, QueueJoin

\* Moves between lists that are not queues.
LEMMA QueueQuiet ==
    ASSUME QueuesMatch, fifo' = fifo,
           \A p \in Pages : \/ page'[p].list = page[p].list
                            \/ page'[p].list \notin Queues /\ page[p].list \notin Queues
    PROVE  QueuesMatch'
  BY DEF QueuesMatch

-----------------------------------------------------------------------------
(* The batches of a thread.                                                 *)

\* Only the batches of the thread that moves can change.
LEMMA BatchLift ==
    ASSUME BatchesDistinct, NEW x \in Executors, OnlyMoves(x),
           x \in Threads => Distinct(fault'[x].reading) /\ Distinct(fault'[x].frees)
    PROVE  BatchesDistinct'
<1> SUFFICES ASSUME NEW t \in Threads
             PROVE  Distinct(fault'[t].reading) /\ Distinct(fault'[t].frees)
  BY DEF BatchesDistinct, Distinct
<1>1. t # x => fault'[t] = fault[t]
  BY DEF OnlyMoves, Executors
<1>2. Distinct(fault[t].reading) /\ Distinct(fault[t].frees)
  BY DEF BatchesDistinct
<1> QED BY <1>1, <1>2

\* A list without d has no repetition when d is added to it.
LEMMA DistinctAppend ==
    ASSUME NEW s \in Seq(Pages), Distinct(s), NEW d, \A i \in DOMAIN s : s[i] # d
    PROVE  Distinct(Append(s, d))
<1>1. /\ Len(s) \in Nat /\ DOMAIN s = 1 .. Len(s) /\ DOMAIN Append(s, d) = 1 .. Len(s) + 1
      /\ Append(s, d)[Len(s) + 1] = d /\ \A i \in 1 .. Len(s) : Append(s, d)[i] = s[i]
  OBVIOUS
<1>2. ASSUME NEW i \in DOMAIN Append(s, d), NEW j \in DOMAIN Append(s, d),
             Append(s, d)[i] = Append(s, d)[j]
      PROVE  i = j
  BY <1>1, <1>2 DEF Distinct
<1> QED BY <1>2 DEF Distinct

\* The tail of a list without repetitions is the list without its head.
LEMMA DistinctTail ==
    ASSUME NEW s \in Seq(Pages), Distinct(s), s # <<>>
    PROVE  /\ Distinct(Tail(s))
           /\ \A p : (\E i \in DOMAIN Tail(s) : p = Tail(s)[i]) <=>
                       /\ \E i \in DOMAIN s : p = s[i]
                       /\ p # Head(s)
<1>1. /\ Head(s) = s[1] /\ Len(s) \in Nat \ {0}
      /\ DOMAIN s = 1 .. Len(s) /\ DOMAIN Tail(s) = 1 .. Len(s) - 1
      /\ \A i \in 1 .. Len(s) - 1 : Tail(s)[i] = s[i + 1]
  BY HeadTail
<1>2. ASSUME NEW i \in DOMAIN Tail(s), NEW j \in DOMAIN Tail(s), Tail(s)[i] = Tail(s)[j]
      PROVE  i = j
  <2>1. i + 1 \in DOMAIN s /\ j + 1 \in DOMAIN s /\ s[i + 1] = s[j + 1]
    BY <1>1, <1>2
  <2>2. i + 1 = j + 1
    BY <2>1 DEF Distinct
  <2> QED BY <1>1, <2>2
<1>3. ASSUME NEW i \in DOMAIN Tail(s)
      PROVE  Tail(s)[i] # Head(s) /\ \E j \in DOMAIN s : Tail(s)[i] = s[j]
  <2>1. i + 1 \in DOMAIN s /\ 1 \in DOMAIN s /\ i + 1 # 1 /\ Tail(s)[i] = s[i + 1]
    BY <1>1
  <2> QED BY <1>1, <2>1 DEF Distinct
<1>4. ASSUME NEW i \in DOMAIN s, s[i] # Head(s)
      PROVE  \E j \in DOMAIN Tail(s) : s[i] = Tail(s)[j]
  <2>1. i - 1 \in 1 .. Len(s) - 1 /\ i = (i - 1) + 1
    BY <1>1, <1>4
  <2>2. i - 1 \in DOMAIN Tail(s) /\ Tail(s)[i - 1] = s[i]
    BY <1>1, <2>1
  <2> QED BY <2>2
<1> QED BY <1>2, <1>3, <1>4 DEF Distinct

-----------------------------------------------------------------------------
(* The steps of an eviction.                                                *)

\* The roles, one by one.
LEMMA RoleDefs ==
    ASSUME NEW e, NEW p
    PROVE  /\ Holds(e, "victim", p) <=>
                e \in Evictors /\ HoldsVictim(e) /\ p = evict[e].victim
           /\ Holds(e, "dpage", p) <=> e \in Evictors /\ p = evict[e].dpage
           /\ Holds(e, "scan", p) <=> e \in Scanners /\ p = scan[e]
           /\ Holds(e, "read", p) <=>
                e \in Threads /\ \E i \in DOMAIN fault[e].reading : p = fault[e].reading[i]
           /\ Holds(e, "free", p) <=>
                e \in Threads /\ \E i \in DOMAIN fault[e].frees : p = fault[e].frees[i]
           /\ Holds(e, "page", p) <=>
                e \in Threads /\ pc[e] = "publish" /\ p = fault[e].page
  BY DEF Holds

\* The same after the step.
LEMMA RoleDefsNext ==
    ASSUME NEW e, NEW p
    PROVE  /\ Holds(e, "victim", p)' <=>
                e \in Evictors /\ HoldsVictim(e)' /\ p = evict'[e].victim
           /\ Holds(e, "dpage", p)' <=> e \in Evictors /\ p = evict'[e].dpage
           /\ Holds(e, "scan", p)' <=> e \in Scanners /\ p = scan'[e]
           /\ Holds(e, "read", p)' <=>
                e \in Threads /\ \E i \in DOMAIN fault'[e].reading : p = fault'[e].reading[i]
           /\ Holds(e, "free", p)' <=>
                e \in Threads /\ \E i \in DOMAIN fault'[e].frees : p = fault'[e].frees[i]
           /\ Holds(e, "page", p)' <=>
                e \in Threads /\ pc'[e] = "publish" /\ p = fault'[e].page
  BY DEF Holds

\* A step that keeps the locals of the fault handler and of the scan keeps the
\* descriptors in them.
LEMMA FaultRolesKept ==
    ASSUME NEW e, e \in Threads => fault'[e] = fault[e], e \in Scanners => scan'[e] = scan[e],
           pc[e] # "publish", pc'[e] # "publish"
    PROVE  \A r \in {"scan", "read", "free", "page"}, p \in Pages :
             Holds(e, r, p)' <=> Holds(e, r, p)
  BY RoleDefs, RoleDefsNext

\* A step that keeps the locals of eviction and scan keeps the descriptors in
\* them.
LEMMA EvictRolesKept ==
    ASSUME NEW e, e \in Evictors => evict'[e] = evict[e], HoldsVictim(e)' <=> HoldsVictim(e),
           e \in Scanners => scan'[e] = scan[e]
    PROVE  \A r \in {"victim", "dpage", "scan"}, p \in Pages :
             Holds(e, r, p)' <=> Holds(e, r, p)
  BY RoleDefs, RoleDefsNext

\* What every step has to keep, beside the types.
OwnedNext(x) == BatchesDistinct' /\ OwnsAll(x) /\ QueuesMatch'

\* An evictor takes its victim and its slot's descriptor off a list, and puts
\* them on one.
LEMMA EvictOwned ==
    ASSUME OwnInv, NEW e \in Evictors, EvictStep(e), failed' = "none"
    PROVE  OwnedNext(e)
<1>t. /\ TypeOK /\ OnlyMoves(e) /\ page \in [Pages -> UserPage]
      /\ BatchesDistinct /\ Exclusive /\ QueuesMatch
  BY EvictInv DEF OwnInv, UseInv, StepOK, TypeOK
<1>0. e \in Executors /\ evict[e] \in EvictLocals /\ EvictorOK(e)
  BY DEF OwnInv, UseInv, TypeOK, Evictors, Executors, LocalsOK, LocalOK
<1>a. UNCHANGED <<pages, fault, scan>>
  BY DEF EvictStep, TakeVictim, ProtectVictim, BackByReserve, BackByFreeSlot, WriteBack,
         UnmapVictim, MarkSwappedOut, FreeFrame, TrackVictim, Abort, sharedVars
<1>b. BatchesDistinct'
  BY <1>a, <1>t DEF BatchesDistinct, Distinct
<1>p. pc[e] # "publish" /\ pc'[e] # "publish"
  BY <1>t, <1>0 DEF TypeOK, At, Abort, EvictStep, TakeVictim, ProtectVictim, BackByReserve,
         BackByFreeSlot, WriteBack, UnmapVictim, MarkSwappedOut, FreeFrame, TrackVictim
<1>f. \A r \in {"scan", "read", "free", "page"}, p \in Pages :
        Holds(e, r, p)' <=> Holds(e, r, p)
  BY <1>a, <1>p, FaultRolesKept
<1>r. \A p \in Pages :
        /\ Holds(e, "victim", p) <=> HoldsVictim(e) /\ p = evict[e].victim
        /\ Holds(e, "victim", p)' <=> HoldsVictim(e)' /\ p = evict'[e].victim
        /\ Holds(e, "dpage", p) <=> p = evict[e].dpage
        /\ Holds(e, "dpage", p)' <=> p = evict'[e].dpage
  BY RoleDefs, RoleDefsNext
<1>e. /\ "victim" \in Roles /\ "dpage" \in Roles
      /\ \A r \in Roles : r \in {"scan", "read", "free", "page", "victim", "dpage"}
  BY DEF Roles
<1>1. CASE TakeVictim(e)
  <2> DEFINE d == Head(fifo["eviction"])
  <2>1. /\ fifo["eviction"] # <<>> /\ fifo' = DequeueFifo("eviction")
        /\ page' = [page EXCEPT ![d].list = "none"]
        /\ evict' = [evict EXCEPT ![e].victim = d]
        /\ pc'[e] = "protect" /\ pc[e] \in {"idle", "reclaim"}
    BY <1>t, <1>0, <1>1 DEF TakeVictim, At, TypeOK
  <2>2. d \in Pages
    <3>1. fifo["eviction"] \in Seq(Pages)
      BY <1>t DEF TypeOK, Queues
    <3> QED BY <2>1, <3>1, HeadTail
  <2>3. page'[d].list = "none" /\ \A p \in Pages \ {d} : page'[p].list = page[p].list
    BY <1>t, <2>1, <2>2 DEF UserPage
  <2>4. QueuesMatch' /\ page[d].list = "eviction"
    BY <1>t, <2>1, <2>3, QueueTake DEF Queues
  <2>5. evict'[e].victim = d /\ evict'[e].dpage = evict[e].dpage
    BY <1>t, <1>0, <2>1 DEF TypeOK, EvictLocals
  <2>6. ~HoldsVictim(e) /\ HoldsVictim(e)'
    BY <2>1 DEF HoldsVictim
  <2>7. \A r \in Roles, p \in Pages :
          Holds(e, r, p)' <=> Holds(e, r, p) \/ (r = "victim" /\ p = d)
    BY <1>e, <1>f, <1>r, <2>5, <2>6
  <2> HIDE DEF d
  <2>8. OwnsAll(e)
    BY <1>t, <1>0, <1>e, <2>2, <2>3, <2>4, <2>7, OwnTake
  <2> QED BY <1>b, <2>4, <2>8 DEF OwnedNext
<1>2. CASE ProtectVictim(e) \/ WriteBack(e) \/ UnmapVictim(e) \/ MarkSwappedOut(e)
  <2>1. fifo' = fifo /\ \A p \in Pages : page'[p].list = page[p].list
    BY <1>t, <1>2 DEF ProtectVictim, WriteBack, UnmapVictim, MarkSwappedOut, Abort, UserPage
  <2>2. evict'[e].victim = evict[e].victim /\ evict'[e].dpage = evict[e].dpage
    BY <1>t, <1>0, <1>2
       DEF ProtectVictim, WriteBack, UnmapVictim, MarkSwappedOut, Abort, TypeOK, EvictLocals
  <2>3. HoldsVictim(e) /\ HoldsVictim(e)'
    BY <1>t, <1>0, <1>2
       DEF ProtectVictim, WriteBack, UnmapVictim, MarkSwappedOut, Abort, At, TypeOK, HoldsVictim
  <2>4. \A r \in Roles, p \in Pages : Holds(e, r, p)' <=> Holds(e, r, p)
    BY <1>e, <1>f, <1>r, <2>2, <2>3
  <2>5. OwnsAll(e)
    BY <1>t, <1>0, <2>1, <2>4, OwnQuiet
  <2>6. QueuesMatch'
    BY <1>t, <2>1, QueueQuiet
  <2> QED BY <1>b, <2>5, <2>6 DEF OwnedNext
<1>3. CASE BackByReserve(e)
  <2> DEFINE d == page[Victim(e)].reserve
  <2>1. /\ d # 0 /\ page[d].list = "disk_reserve"
        /\ page' = [page EXCEPT ![d].list = "none"]
        /\ evict' = [evict EXCEPT ![e].dpage = d, ![e].backed = TRUE,
                                  ![e].writeback = NeedsWriteback(Victim(e))]
        /\ pc' = [pc EXCEPT ![e] = "write"] /\ pc[e] = "back"
        /\ fifo' = fifo
    BY <1>3 DEF BackByReserve, Abort, At
  <2>2. d \in Pages
    <3>1. Victim(e) \in Pages
      BY <1>0, <2>1 DEF Victim, EvictorOK, EvictPcs, EvictLocals
    <3> QED BY <1>t, <2>1, <3>1 DEF UserPage
  <2>3. page'[d].list = "none" /\ \A p \in Pages \ {d} : page'[p].list = page[p].list
    BY <1>t, <2>1, <2>2 DEF UserPage
  <2>4. /\ evict'[e].victim = evict[e].victim /\ evict'[e].dpage = d
        /\ evict[e].dpage = 0
    BY <1>t, <1>0, <2>1 DEF TypeOK, EvictLocals, EvictorOK
  <2>5. HoldsVictim(e) /\ HoldsVictim(e)'
    <3>1. pc'[e] = "write"
      BY <1>t, <1>0, <2>1 DEF TypeOK
    <3> QED BY <2>1, <3>1 DEF HoldsVictim
  <2>6. \A r \in Roles, p \in Pages :
          Holds(e, r, p)' <=> Holds(e, r, p) \/ (r = "dpage" /\ p = d)
    BY <1>e, <1>f, <1>r, <2>4, <2>5 DEF Pages
  <2> HIDE DEF d
  <2>7. OwnsAll(e)
    BY <1>t, <1>0, <1>e, <2>1, <2>2, <2>3, <2>6, OwnTake
  <2>8. QueuesMatch'
    BY <1>t, <2>1, <2>3, QueueQuiet DEF Queues
  <2> QED BY <1>b, <2>7, <2>8 DEF OwnedNext
<1>4. CASE BackByFreeSlot(e)
  <2> DEFINE d == Head(fifo["disk_free"])
  <2>1. /\ fifo["disk_free"] # <<>> /\ fifo' = DequeueFifo("disk_free")
        /\ page' = [page EXCEPT ![d].list = "none"]
        /\ evict' = [evict EXCEPT ![e].dpage = d, ![e].backed = FALSE,
                                  ![e].writeback = NeedsWriteback(Victim(e))]
        /\ pc' = [pc EXCEPT ![e] = "write"] /\ pc[e] = "back"
    BY <1>4 DEF BackByFreeSlot, Abort, At
  <2>2. d \in Pages
    <3>1. fifo["disk_free"] \in Seq(Pages)
      BY <1>t DEF TypeOK, Queues
    <3> QED BY <2>1, <3>1, HeadTail
  <2>3. page'[d].list = "none" /\ \A p \in Pages \ {d} : page'[p].list = page[p].list
    BY <1>t, <2>1, <2>2 DEF UserPage
  <2>4. /\ evict'[e].victim = evict[e].victim /\ evict'[e].dpage = d
        /\ evict[e].dpage = 0
    BY <1>t, <1>0, <2>1 DEF TypeOK, EvictLocals, EvictorOK
  <2>5. HoldsVictim(e) /\ HoldsVictim(e)'
    <3>1. pc'[e] = "write"
      BY <1>t, <1>0, <2>1 DEF TypeOK
    <3> QED BY <2>1, <3>1 DEF HoldsVictim
  <2>6. \A r \in Roles, p \in Pages :
          Holds(e, r, p)' <=> Holds(e, r, p) \/ (r = "dpage" /\ p = d)
    BY <1>e, <1>f, <1>r, <2>4, <2>5 DEF Pages
  <2>7. QueuesMatch' /\ page[d].list = "disk_free"
    BY <1>t, <2>1, <2>3, QueueTake DEF Queues
  <2> HIDE DEF d
  <2>8. OwnsAll(e)
    BY <1>t, <1>0, <1>e, <2>2, <2>3, <2>6, <2>7, OwnTake
  <2> QED BY <1>b, <2>7, <2>8 DEF OwnedNext
<1>5. CASE FreeFrame(e)
  <2> DEFINE d == DiskPage(e)
  <2>1. /\ fifo' = EnqueueFifo("dram_free", d)
        /\ page' = [page EXCEPT ![Victim(e)].reserve = IF evict[e].backed THEN 0 ELSE @,
                                ![d] = [AsFrame(page[d], evict[e].old_offset)
                                          EXCEPT !.list = "dram_free"]]
        /\ evict' = [evict EXCEPT ![e].dpage = 0]
        /\ pc' = [pc EXCEPT ![e] = IF evict[e].backed THEN "track" ELSE "release"]
        /\ pc[e] = "free_frame"
    BY <1>5 DEF FreeFrame, At
  <2>2. d \in Pages /\ d = evict[e].dpage
    BY <1>0, <2>1 DEF DiskPage, EvictorOK, EvictLocals
  <2>3. page'[d].list = "dram_free" /\ \A p \in Pages \ {d} : page'[p].list = page[p].list
    BY <1>t, <2>1, <2>2 DEF UserPage, AsFrame
  <2>4. evict'[e].victim = evict[e].victim /\ evict'[e].dpage = 0
    BY <1>t, <1>0, <2>1 DEF TypeOK, EvictLocals
  <2>5. HoldsVictim(e)' <=> HoldsVictim(e)
    <3>1. pc'[e] = IF evict[e].backed THEN "track" ELSE "release"
      BY <1>t, <1>0, <2>1 DEF TypeOK
    <3> QED BY <2>1, <3>1 DEF HoldsVictim
  <2>6. \A r \in Roles, p \in Pages :
          Holds(e, r, p)' <=> Holds(e, r, p) /\ ~(r = "dpage" /\ p = d)
    BY <1>e, <1>f, <1>r, <2>2, <2>4, <2>5 DEF Pages
  <2>h. Holds(e, "dpage", d)
    BY <1>r, <2>2
  <2>7. page[d].list = "none"
    BY <1>t, <1>0, <1>e, <2>2, <2>h DEF Exclusive
  <2> HIDE DEF d
  <2>8. OwnsAll(e)
    BY <1>t, <1>0, <1>e, <2>2, <2>3, <2>6, <2>h, OwnPut
  <2>9. QueuesMatch'
    BY <1>t, <2>1, <2>2, <2>3, <2>7, QueuePut DEF Queues
  <2> QED BY <1>b, <2>8, <2>9 DEF OwnedNext
<1>6. CASE TrackVictim(e)
  <2> DEFINE p0 == Victim(e)
             d == DiskPage(e)
  <2>1. /\ page' = IF e \in Workers
                   THEN [page EXCEPT ![p0].list = "disk_active"]
                   ELSE [page EXCEPT ![p0].list = "disk_active", ![p0].reserve = 0,
                                     ![d] = AsFrame(page[d], evict[e].old_offset)]
        /\ pc' = [pc EXCEPT ![e] = IF e \in Workers /\ ~evict[e].backed
                                   THEN "free_frame" ELSE "release"]
        /\ pc[e] = "track" /\ evict' = evict /\ fifo' = fifo
    BY <1>6 DEF TrackVictim, At
  <2>2. p0 \in Pages /\ p0 = evict[e].victim /\ d = evict[e].dpage
    BY <1>0, <2>1 DEF DiskPage, Victim, EvictorOK, EvictLocals, EvictPcs
  <2>3. HoldsVictim(e) /\ ~HoldsVictim(e)'
    <3>1. pc'[e] = IF e \in Workers /\ ~evict[e].backed THEN "free_frame" ELSE "release"
      BY <1>t, <1>0, <2>1 DEF TypeOK
    <3> QED BY <2>1, <3>1 DEF HoldsVictim
  <2>h. Holds(e, "victim", p0)
    BY <1>r, <2>2, <2>3
  <2>4. p0 # d
    BY <1>t, <1>0, <1>e, <1>r, <2>2, <2>h DEF Exclusive
  <2>5. page'[p0].list = "disk_active" /\ \A p \in Pages \ {p0} : page'[p].list = page[p].list
    BY <1>t, <2>1, <2>2, <2>4 DEF UserPage, AsFrame
  <2>6. \A r \in Roles, p \in Pages :
          Holds(e, r, p)' <=> Holds(e, r, p) /\ ~(r = "victim" /\ p = p0)
    BY <1>e, <1>f, <1>r, <2>1, <2>2, <2>3
  <2>7. page[p0].list = "none"
    BY <1>t, <1>0, <1>e, <2>2, <2>h DEF Exclusive
  <2> HIDE DEF p0, d
  <2>8. OwnsAll(e)
    BY <1>t, <1>0, <1>e, <2>2, <2>5, <2>6, <2>h, OwnPut
  <2>9. QueuesMatch'
    BY <1>t, <2>1, <2>5, <2>7, QueueQuiet DEF Queues
  <2> QED BY <1>b, <2>8, <2>9 DEF OwnedNext
<1> QED BY <1>1, <1>2, <1>3, <1>4, <1>5, <1>6 DEF EvictStep

\* A worker that lets its victim go holds nothing by then.
LEMMA ReleaseOwned ==
    ASSUME OwnInv, NEW w \in Workers, ReleaseVictim(w), failed' = "none"
    PROVE  OwnedNext(w)
<1>t. /\ TypeOK /\ OnlyMoves(w) /\ page \in [Pages -> UserPage]
      /\ BatchesDistinct /\ Exclusive /\ QueuesMatch
  BY ReleaseInv DEF OwnInv, UseInv, StepOK, TypeOK
<1>0. /\ w \in Executors /\ w \in Evictors /\ w \notin Threads /\ EvictorOK(w)
  BY ExecutorAssumption
     DEF OwnInv, UseInv, Evictors, Executors, LocalsOK, LocalOK
<1>1. /\ page' = [page EXCEPT ![Victim(w)].migrating = FALSE]
      /\ evict' = [evict EXCEPT ![w] = NoEvict]
      /\ pc' = [pc EXCEPT ![w] = "idle"] /\ pc[w] = "release"
      /\ UNCHANGED <<fifo, fault, scan>>
  BY DEF ReleaseVictim, Abort, At
<1>2. \A p \in Pages : page'[p].list = page[p].list
  BY <1>t, <1>1 DEF UserPage
<1>3. pc'[w] = "idle" /\ evict[w].dpage = 0 /\ evict'[w].dpage = 0
  BY <1>t, <1>0, <1>1 DEF TypeOK, EvictorOK, NoEvict
<1>4. ~HoldsVictim(w) /\ ~HoldsVictim(w)'
  BY <1>1, <1>3 DEF HoldsVictim
<1>5. \A r \in {"scan", "read", "free", "page"}, p \in Pages :
        Holds(w, r, p)' <=> Holds(w, r, p)
  BY <1>1, <1>3, FaultRolesKept
<1>6. \A p \in Pages :
        /\ ~Holds(w, "victim", p) /\ ~Holds(w, "victim", p)'
        /\ ~Holds(w, "dpage", p) /\ ~Holds(w, "dpage", p)'
  BY <1>3, <1>4, RoleDefs, RoleDefsNext DEF Pages
<1>7. \A r \in Roles, p \in Pages : Holds(w, r, p)' <=> Holds(w, r, p)
  BY <1>5, <1>6 DEF Roles
<1>8. OwnsAll(w)
  BY <1>t, <1>0, <1>2, <1>7, OwnQuiet
<1>9. QueuesMatch'
  BY <1>t, <1>1, <1>2, QueueQuiet
<1>10. BatchesDistinct'
  BY <1>t, <1>0, BatchLift
<1> QED BY <1>8, <1>9, <1>10 DEF OwnedNext

-----------------------------------------------------------------------------
(* The steps of a scan.                                                     *)

\* A scanner takes a page off one queue and puts it on one.
LEMMA ScanOwned ==
    ASSUME OwnInv, NEW e \in Scanners, ScanStep(e)
    PROVE  OwnedNext(e)
<1>t. /\ TypeOK /\ OnlyMoves(e) /\ page \in [Pages -> UserPage]
      /\ BatchesDistinct /\ Exclusive /\ QueuesMatch
  BY ScanInv DEF OwnInv, UseInv, StepOK, TypeOK
<1>0. /\ e \in Executors /\ scan[e] \in Pages \cup {0}
      /\ scan[e] # 0 <=> pc[e] \in ScanPcs
  BY DEF OwnInv, UseInv, TypeOK, Scanners, Executors, LocalsOK, LocalOK
<1>a. UNCHANGED <<fault, evict>>
  BY DEF ScanStep, ScanInactive, ScanActive, KeepOrEvict, Deactivate, ScanTake, ScanPut
<1>p. /\ pc[e] \in {"idle", "reclaim"} \cup ScanPcs
      /\ pc'[e] \in {"idle", "reclaim"} \cup ScanPcs
  BY <1>t, <1>0 DEF ScanStep, ScanInactive, ScanActive, KeepOrEvict, Deactivate, ScanTake,
     ScanPut, ScanPoint, At, ScanPcs, TypeOK
<1>b. BatchesDistinct'
  BY <1>a, <1>t DEF BatchesDistinct, Distinct
<1>f. \A r \in {"victim", "dpage", "read", "free", "page"}, p \in Pages :
        Holds(e, r, p)' <=> Holds(e, r, p)
  <2>1. ~HoldsVictim(e) /\ ~HoldsVictim(e)' /\ pc[e] # "publish" /\ pc'[e] # "publish"
    BY <1>p DEF HoldsVictim, ScanPcs
  <2> QED BY <1>a, <2>1, RoleDefs, RoleDefsNext
<1>r. \A p \in Pages :
        /\ Holds(e, "scan", p) <=> p = scan[e]
        /\ Holds(e, "scan", p)' <=> p = scan'[e]
  BY RoleDefs, RoleDefsNext
<1>e. /\ "scan" \in Roles
      /\ \A r \in Roles : r \in {"victim", "dpage", "read", "free", "page", "scan"}
  BY DEF Roles
<1>1. ASSUME NEW q \in Queues, NEW next, ScanTake(e, q, next)
      PROVE  OwnedNext(e)
  <2> DEFINE d == Head(fifo[q])
  <2>1. /\ fifo[q] # <<>> /\ fifo' = DequeueFifo(q)
        /\ page' = [page EXCEPT ![d].list = "none"]
        /\ scan' = [scan EXCEPT ![e] = d]
        /\ pc[e] \in {"idle", "reclaim"}
    BY <1>1 DEF ScanTake, At, ScanPoint
  <2>2. d \in Pages
    <3>1. fifo[q] \in Seq(Pages)
      BY <1>t DEF TypeOK
    <3> QED BY <2>1, <3>1, HeadTail
  <2>3. page'[d].list = "none" /\ \A p \in Pages \ {d} : page'[p].list = page[p].list
    BY <1>t, <2>1, <2>2 DEF UserPage
  <2>4. QueuesMatch' /\ page[d].list = q
    BY <1>t, <2>1, <2>3, QueueTake
  <2>5. scan'[e] = d /\ scan[e] = 0
    BY <1>t, <1>0, <2>1 DEF TypeOK, ScanPcs
  <2>6. \A r \in Roles, p \in Pages :
          Holds(e, r, p)' <=> Holds(e, r, p) \/ (r = "scan" /\ p = d)
    BY <1>e, <1>f, <1>r, <2>5 DEF Pages
  <2>7. page[d].list # "none"
    BY <2>4 DEF Queues
  <2> HIDE DEF d
  <2>8. OwnsAll(e)
    BY <1>t, <1>0, <1>e, <2>2, <2>3, <2>6, <2>7, OwnTake
  <2> QED BY <1>b, <2>4, <2>8 DEF OwnedNext
<1>2. ASSUME NEW q \in Queues, pc[e] \in ScanPcs, ScanPut(e, q)
      PROVE  OwnedNext(e)
  <2> DEFINE d == scan[e]
  <2>1. /\ fifo' = EnqueueFifo(q, d) /\ page' = [page EXCEPT ![d].list = q]
        /\ scan' = [scan EXCEPT ![e] = 0]
    BY <1>2 DEF ScanPut
  <2>2. d \in Pages /\ scan'[e] = 0
    BY <1>0, <1>t, <1>2, <2>1 DEF TypeOK
  <2>3. page'[d].list = q /\ \A p \in Pages \ {d} : page'[p].list = page[p].list
    BY <1>t, <2>1, <2>2 DEF UserPage
  <2>4. Holds(e, "scan", d)
    BY <1>r, <2>2
  <2>5. page[d].list = "none" /\ page'[d].list # "none"
    BY <1>t, <1>0, <1>e, <2>2, <2>3, <2>4 DEF Exclusive, Queues
  <2>6. \A r \in Roles, p \in Pages :
          Holds(e, r, p)' <=> Holds(e, r, p) /\ ~(r = "scan" /\ p = d)
    BY <1>e, <1>f, <1>r, <2>2 DEF Pages
  <2> HIDE DEF d
  <2>7. QueuesMatch'
    BY <1>t, <2>1, <2>2, <2>3, <2>5, QueuePut
  <2>8. OwnsAll(e)
    BY <1>t, <1>0, <1>e, <2>2, <2>3, <2>4, <2>5, <2>6, OwnPut
  <2> QED BY <1>b, <2>7, <2>8 DEF OwnedNext
<1> QED BY <1>1, <1>2 DEF ScanStep, ScanInactive, ScanActive, KeepOrEvict, Deactivate, At,
                          Queues, ScanPcs


-----------------------------------------------------------------------------
(* The steps of the fault handler.                                          *)

\* p is an entry of s.
Among(p, s) == \E i \in DOMAIN s : p = s[i]

\* What Append adds to a list.
LEMMA AppendMember ==
    ASSUME NEW s \in Seq(Pages), NEW d, NEW p
    PROVE  Among(p, Append(s, d)) <=> Among(p, s) \/ p = d
<1>1. /\ Len(s) \in Nat /\ DOMAIN s = 1 .. Len(s) /\ DOMAIN Append(s, d) = 1 .. Len(s) + 1
      /\ Append(s, d)[Len(s) + 1] = d /\ \A i \in 1 .. Len(s) : Append(s, d)[i] = s[i]
  OBVIOUS
<1>2. ASSUME NEW i \in DOMAIN Append(s, d)
      PROVE  (\E j \in DOMAIN s : Append(s, d)[i] = s[j]) \/ Append(s, d)[i] = d
  BY <1>1
<1>3. \A i \in DOMAIN s : i \in DOMAIN Append(s, d) /\ Append(s, d)[i] = s[i]
  BY <1>1
<1>4. Len(s) + 1 \in DOMAIN Append(s, d)
  BY <1>1
<1> QED BY <1>1, <1>2, <1>3, <1>4 DEF Among

\* What the invariant says of a thread.
LEMMA ThreadFacts ==
    ASSUME OwnInv, NEW t \in Threads
    PROVE  /\ t \in Executors /\ t \in Evictors /\ t \in Scanners /\ t \notin Workers
           /\ TypeOK /\ page \in [Pages -> UserPage]
           /\ fault[t] \in FaultLocals /\ fault[t].page \in Pages \cup {0}
           /\ fault[t].reading \in Seq(Pages) /\ fault[t].frees \in Seq(Pages)
           /\ ThreadOK(t) /\ EvictorOK(t) /\ LocalOK(t)
           /\ Distinct(fault[t].reading) /\ Distinct(fault[t].frees)
           /\ BatchesDistinct /\ Exclusive /\ QueuesMatch
<1>1. t \in Executors /\ t \in Evictors /\ t \in Scanners /\ t \notin Workers
  BY ExecutorAssumption DEF Executors, Evictors, Scanners
<1>2. TypeOK /\ page \in [Pages -> UserPage] /\ fault[t] \in FaultLocals
  BY DEF OwnInv, UseInv, TypeOK
<1>3. /\ fault[t].page \in Pages \cup {0}
      /\ fault[t].reading \in Seq(Pages) /\ fault[t].frees \in Seq(Pages)
  BY <1>2 DEF FaultLocals
<1>4. ThreadOK(t) /\ EvictorOK(t) /\ LocalOK(t)
  BY <1>1 DEF OwnInv, UseInv, LocalsOK, LocalOK
<1>5. Distinct(fault[t].reading) /\ Distinct(fault[t].frees)
      /\ BatchesDistinct /\ Exclusive /\ QueuesMatch
  BY DEF OwnInv, BatchesDistinct
<1> QED BY <1>1, <1>2, <1>3, <1>4, <1>5

\* A step of a thread that neither takes nor puts a descriptor.
LEMMA ThreadQuiet ==
    ASSUME OwnInv, NEW t \in Threads, OnlyMoves(t), evict' = evict, scan' = scan,
           fifo' = fifo, \A p \in Pages : page'[p].list = page[p].list,
           HoldsVictim(t)' <=> HoldsVictim(t),
           fault'[t].reading = fault[t].reading, fault'[t].frees = fault[t].frees,
           pc'[t] = "publish" <=> pc[t] = "publish",
           pc[t] = "publish" => fault'[t].page = fault[t].page
    PROVE  OwnedNext(t)
<1>1. BatchesDistinct'
  BY ThreadFacts, BatchLift
<1>2. \A r \in {"victim", "dpage", "scan"}, p \in Pages : Holds(t, r, p)' <=> Holds(t, r, p)
  BY EvictRolesKept
<1>3. \A r \in {"read", "free", "page"}, p \in Pages : Holds(t, r, p)' <=> Holds(t, r, p)
  BY RoleDefs, RoleDefsNext
<1>4. \A r \in Roles, p \in Pages : Holds(t, r, p)' <=> Holds(t, r, p)
  BY <1>2, <1>3 DEF Roles
<1>5. OwnsAll(t)
  BY <1>4, ThreadFacts, OwnQuiet
<1>6. QueuesMatch'
  BY ThreadFacts, QueueQuiet
<1> QED BY <1>1, <1>5, <1>6 DEF OwnedNext

\* A step of a thread that claims a swapped-out page.
LEMMA ClaimOwned ==
    ASSUME OwnInv, NEW t \in Threads, OnlyMoves(t), evict' = evict, scan' = scan,
           fifo' = fifo, NEW p \in Pages, DetachAsserts(p), page' = ClaimPage(p),
           fault'[t].reading = Append(fault[t].reading, p),
           fault'[t].frees = fault[t].frees,
           HoldsVictim(t)' <=> HoldsVictim(t), pc[t] # "publish", pc'[t] # "publish"
    PROVE  OwnedNext(t)
<1>0. /\ t \in Executors /\ TypeOK /\ page \in [Pages -> UserPage]
      /\ fault[t].reading \in Seq(Pages)
      /\ Distinct(fault[t].reading) /\ Distinct(fault[t].frees)
      /\ BatchesDistinct /\ Exclusive /\ QueuesMatch
  BY ThreadFacts
<1>1. /\ page[p].list = "disk_active" /\ page'[p].list = "none"
      /\ \A q \in Pages \ {p} : page'[q].list = page[q].list
  BY <1>0 DEF DetachAsserts, ClaimPage, UserPage
<1>2. ~Holds(t, "read", p)
  BY <1>0, <1>1 DEF Exclusive, Roles
<1>3. \A i \in DOMAIN fault[t].reading : fault[t].reading[i] # p
  BY <1>2, RoleDefs
<1>4. BatchesDistinct'
  BY <1>0, <1>3, DistinctAppend, BatchLift
<1>5. \A r \in {"victim", "dpage", "scan"}, q \in Pages : Holds(t, r, q)' <=> Holds(t, r, q)
  BY EvictRolesKept
<1>6. \A r \in {"free", "page"}, q \in Pages : Holds(t, r, q)' <=> Holds(t, r, q)
  BY RoleDefs, RoleDefsNext
<1>7. \A q \in Pages : Holds(t, "read", q)' <=> Holds(t, "read", q) \/ q = p
  <2> TAKE q \in Pages
  <2>1. Among(q, Append(fault[t].reading, p)) <=> Among(q, fault[t].reading) \/ q = p
    BY <1>0, AppendMember
  <2>2. Holds(t, "read", q)' <=> Among(q, fault'[t].reading)
    BY RoleDefsNext DEF Among
  <2>3. Holds(t, "read", q) <=> Among(q, fault[t].reading)
    BY RoleDefs DEF Among
  <2> QED BY <2>1, <2>2, <2>3
<1>8. \A r \in Roles, q \in Pages :
        Holds(t, r, q)' <=> Holds(t, r, q) \/ (r = "read" /\ q = p)
  BY <1>5, <1>6, <1>7 DEF Roles
<1>9. OwnsAll(t)
  BY <1>0, <1>1, <1>8, OwnTake DEF Roles
<1>10. QueuesMatch'
  BY <1>0, <1>1, QueueQuiet DEF Queues
<1> QED BY <1>4, <1>9, <1>10 DEF OwnedNext

\* The application's own accesses move nothing.
LEMMA ApplicationOwned ==
    ASSUME OwnInv, NEW t \in Threads, Application(t)
    PROVE  OwnedNext(t)
<1>t. OnlyMoves(t) /\ t \in Executors /\ TypeOK /\ fault[t] \in FaultLocals
  BY ApplicationInv, ThreadFacts DEF OwnInv, StepOK
<1>1. UNCHANGED <<page, fifo, scan, evict>> /\ pc[t] = "idle"
  BY DEF Application, Touch, Store, sharedVars, At
<1>2. pc'[t] \in {"idle", "signal"}
  BY <1>t DEF Application, Touch, Store, At, TypeOK
<1>3. fault'[t].reading = fault[t].reading /\ fault'[t].frees = fault[t].frees
  <2>1. CASE fault' = fault
    BY <2>1
  <2>2. ASSUME NEW v \in VA, fault' = [fault EXCEPT ![t].addr = v]
        PROVE  fault'[t].reading = fault[t].reading /\ fault'[t].frees = fault[t].frees
    BY <1>t, <2>2 DEF TypeOK, FaultLocals
  <2> QED BY <2>1, <2>2 DEF Application, Touch, Store
<1>4. ~HoldsVictim(t) /\ ~HoldsVictim(t)'
  BY <1>1, <1>2 DEF HoldsVictim
<1> QED BY <1>t, <1>1, <1>2, <1>3, <1>4, ThreadQuiet

\* Nor does the head of the handler, except that it claims a page.
LEMMA FaultStartOwned ==
    ASSUME OwnInv, NEW t \in Threads, failed' = "none",
           \/ uswap_sig_handler(t) \/ Spin(t) \/ handle_missing_fault(t) \/ DiskRead(t)
           \/ PrefetchFind(t)
    PROVE  OwnedNext(t)
<1>t. /\ OnlyMoves(t) /\ t \in Executors /\ TypeOK /\ ThreadOK(t)
      /\ fault[t] \in FaultLocals /\ fault[t].page \in Pages \cup {0}
      /\ fault[t].reading \in Seq(Pages)
  BY FaultStartInv, ThreadFacts DEF OwnInv, StepOK
<1>a. UNCHANGED <<fifo, scan, evict>>
  BY DEF uswap_sig_handler, Spin, handle_missing_fault, DiskRead, PrefetchFind, sharedVars,
         Abort
<1>n. NoFault.reading = <<>> /\ NoFault.frees = <<>>
  BY DEF NoFault
<1>1. CASE uswap_sig_handler(t) \/ Spin(t)
  <2>1. /\ page' = page /\ pc[t] \in {"signal", "spin"}
        /\ pc'[t] \in {"fetch", "missing", "spin", "idle"}
    BY <1>t, <1>1 DEF uswap_sig_handler, Spin, Resume, sharedVars, At, TypeOK
  <2>2. fault[t].reading = <<>> /\ fault[t].frees = <<>>
    BY <1>t, <2>1 DEF ThreadOK
  <2>3. fault'[t].reading = <<>> /\ fault'[t].frees = <<>>
    BY <1>t, <1>1, <1>n, <2>2 DEF uswap_sig_handler, Spin, Resume, TypeOK, FaultLocals
  <2>4. ~HoldsVictim(t) /\ ~HoldsVictim(t)'
    BY <2>1 DEF HoldsVictim
  <2> QED BY <1>t, <1>a, <2>1, <2>2, <2>3, <2>4, ThreadQuiet
<1>2. CASE handle_missing_fault(t)
  <2>1. pc[t] = "missing" /\ pc'[t] \in {"spin", "fetch"}
    BY <1>t, <1>2 DEF handle_missing_fault, At, Abort, TypeOK
  <2>2. fault[t].reading = <<>> /\ fault[t].page \in Pages
    BY <1>t, <2>1 DEF ThreadOK
  <2>3. ~HoldsVictim(t) /\ ~HoldsVictim(t)'
    BY <2>1 DEF HoldsVictim
  <2>4. CASE page' = page /\ fault' = fault
    BY <1>t, <1>a, <2>1, <2>3, <2>4, ThreadQuiet
  <2>5. CASE /\ DetachAsserts(fault[t].page) /\ page' = ClaimPage(fault[t].page)
             /\ fault' = [fault EXCEPT ![t].job = "swapin", ![t].reading = <<fault[t].page>>]
    <3>1. /\ fault'[t].reading = <<fault[t].page>> /\ fault'[t].frees = fault[t].frees
      BY <1>t, <2>5 DEF TypeOK, FaultLocals
    <3>2. Append(fault[t].reading, fault[t].page) = <<fault[t].page>>
      BY <2>2
    <3> QED BY <1>t, <1>a, <2>1, <2>2, <2>3, <2>5, <3>1, <3>2, ClaimOwned
  <2> QED BY <1>2, <2>4, <2>5 DEF handle_missing_fault, Abort, sharedVars
<1>3. CASE DiskRead(t)
  <2>1. page' = page /\ pc' = pc
    BY <1>3 DEF DiskRead, sharedVars
  <2>2. /\ fault'[t].reading = fault[t].reading /\ fault'[t].frees = fault[t].frees
        /\ fault'[t].page = fault[t].page
    BY <1>t, <1>3 DEF DiskRead, TypeOK, FaultLocals
  <2>3. HoldsVictim(t)' <=> HoldsVictim(t)
    BY <1>a, <2>1 DEF HoldsVictim
  <2> QED BY <1>t, <1>a, <2>1, <2>2, <2>3, ThreadQuiet
<1>4. CASE PrefetchFind(t)
  <2> DEFINE p == find_page(PrefetchNext(t))
  <2>1. pc[t] = "find" /\ pc'[t] \in {"find", "idle", "fetch"} /\ fault[t].frees = <<>>
    <3>1. pc[t] = "find" /\ pc'[t] \in {"find", "idle", "fetch"}
      BY <1>t, <1>4 DEF PrefetchFind, At, Abort, Resume, TypeOK
    <3> QED BY <1>t, <3>1 DEF ThreadOK
  <2>2. ~HoldsVictim(t) /\ ~HoldsVictim(t)'
    BY <2>1 DEF HoldsVictim
  <2>3. CASE /\ PrefetchWanted(t) /\ DetachAsserts(p) /\ page' = ClaimPage(p)
             /\ fault' = [fault EXCEPT ![t].reading = Append(fault[t].reading, p)]
    <3>1. p \in Pages
      BY <1>t, <2>3 DEF PrefetchWanted, TypeOK, find_page
    <3>2. /\ fault'[t].reading = Append(fault[t].reading, p)
          /\ fault'[t].frees = fault[t].frees
      BY <1>t, <2>3 DEF TypeOK, FaultLocals
    <3> HIDE DEF p
    <3> QED BY <1>t, <1>a, <2>1, <2>2, <2>3, <3>1, <3>2, ClaimOwned
  <2>4. CASE page' = page /\ fault[t].reading = <<>> /\ Resume(t)
    <3>1. fault'[t].reading = <<>> /\ fault'[t].frees = <<>>
      BY <1>t, <1>n, <2>4 DEF Resume, TypeOK
    <3> QED BY <1>t, <1>a, <2>1, <2>2, <2>4, <3>1, ThreadQuiet
  <2>5. CASE page' = page /\ fault' = fault
    BY <1>t, <1>a, <2>1, <2>2, <2>5, ThreadQuiet
  <2> QED BY <1>4, <2>3, <2>4, <2>5 DEF PrefetchFind, Abort, sharedVars
<1> QED BY <1>1, <1>2, <1>3, <1>4


\* The frame a thread receives joins its batch.
LEMMA FreesAppended ==
    ASSUME OwnInv, NEW t \in Threads, OnlyMoves(t), NEW d \in Pages,
           ~Holds(t, "free", d), pc[t] # "publish", pc'[t] # "publish",
           fault'[t].reading = fault[t].reading,
           fault'[t].frees = Append(fault[t].frees, d)
    PROVE  /\ BatchesDistinct'
           /\ \A r \in {"read", "page"}, p \in Pages : Holds(t, r, p)' <=> Holds(t, r, p)
           /\ \A p \in Pages : Holds(t, "free", p)' <=> Holds(t, "free", p) \/ p = d
<1>0. /\ t \in Executors /\ BatchesDistinct /\ fault[t].frees \in Seq(Pages)
      /\ Distinct(fault[t].reading) /\ Distinct(fault[t].frees)
  BY ThreadFacts
<1>1. \A i \in DOMAIN fault[t].frees : fault[t].frees[i] # d
  BY RoleDefs
<1>2. BatchesDistinct'
  BY <1>0, <1>1, DistinctAppend, BatchLift
<1>3. \A r \in {"read", "page"}, p \in Pages : Holds(t, r, p)' <=> Holds(t, r, p)
  BY RoleDefs, RoleDefsNext
<1>4. \A p \in Pages : Holds(t, "free", p)' <=> Holds(t, "free", p) \/ p = d
  <2> TAKE q \in Pages
  <2>1. Among(q, Append(fault[t].frees, d)) <=> Among(q, fault[t].frees) \/ q = d
    BY <1>0, AppendMember
  <2>2. Holds(t, "free", q)' <=> Among(q, fault'[t].frees)
    BY RoleDefsNext DEF Among
  <2>3. Holds(t, "free", q) <=> Among(q, fault[t].frees)
    BY RoleDefs DEF Among
  <2> QED BY <2>1, <2>2, <2>3
<1> QED BY <1>2, <1>3, <1>4

\* The search for a frame ends with one from dram_free_list or with the one
\* the thread emptied itself.
LEMMA FetchOwned ==
    ASSUME OwnInv, NEW t \in Threads, failed' = "none",
           FetchFree(t) \/ FetchReclaim(t) \/ FetchRetry(t) \/ FetchEvicted(t)
    PROVE  OwnedNext(t)
<1>t. /\ OnlyMoves(t) /\ t \in Executors /\ t \in Evictors /\ TypeOK /\ ThreadOK(t)
      /\ EvictorOK(t) /\ page \in [Pages -> UserPage]
      /\ fault[t] \in FaultLocals /\ Exclusive /\ QueuesMatch /\ UseInv
  BY FetchInv, ThreadFacts DEF OwnInv, StepOK
<1>e. /\ "free" \in Roles /\ "dpage" \in Roles
      /\ \A r \in Roles : r \in {"victim", "dpage", "scan", "read", "free", "page"}
  BY DEF Roles
<1>r. ASSUME NEW d \in Pages, pc[t] \in FetchPcs, ReceiveFrame(t, d)
      PROVE  /\ pc'[t] \in {"allocate", "fetch", "finish"}
             /\ fault'[t].reading = fault[t].reading
             /\ fault'[t].frees = Append(fault[t].frees, d)
  <2>1. pc'[t] \in {"allocate", "fetch", "finish"} /\ fault'[t].reading = fault[t].reading
    BY <1>t, <1>r, ReceiveInv
  <2>2. fault'[t].frees = Append(fault[t].frees, d)
    BY <1>t, <1>r DEF ReceiveFrame, TypeOK, FaultLocals
  <2> QED BY <2>1, <2>2
<1>1. CASE FetchReclaim(t) \/ FetchRetry(t)
  <2>1. /\ UNCHANGED <<page, fifo, fault, scan, evict>>
        /\ pc[t] \in {"fetch", "reclaim"} /\ pc'[t] \in {"fetch", "reclaim"}
    BY <1>t, <1>1 DEF FetchReclaim, FetchRetry, At, sharedVars, TypeOK
  <2>2. ~HoldsVictim(t) /\ ~HoldsVictim(t)'
    BY <2>1 DEF HoldsVictim
  <2> QED BY <1>t, <2>1, <2>2, ThreadQuiet
<1>2. CASE FetchFree(t)
  <2> DEFINE d == Head(fifo["dram_free"])
  <2>1. /\ fifo["dram_free"] # <<>> /\ fifo' = DequeueFifo("dram_free")
        /\ page' = [page EXCEPT ![d] = [FramePage(t, page[d]) EXCEPT !.list = "none"]]
        /\ ReceiveFrame(t, d) /\ pc[t] = "fetch" /\ scan' = scan /\ evict' = evict
    BY <1>2 DEF FetchFree, At
  <2>2. d \in Pages
    <3>1. fifo["dram_free"] \in Seq(Pages)
      BY <1>t DEF TypeOK, Queues
    <3> QED BY <2>1, <3>1, HeadTail
  <2>3. page'[d].list = "none" /\ \A p \in Pages \ {d} : page'[p].list = page[p].list
    BY <1>t, <2>1, <2>2 DEF UserPage, FramePage
  <2>4. QueuesMatch' /\ page[d].list = "dram_free"
    BY <1>t, <2>1, <2>3, QueueTake DEF Queues
  <2> HIDE DEF d
  <2>5. /\ pc'[t] \in {"allocate", "fetch", "finish"}
        /\ fault'[t].reading = fault[t].reading
        /\ fault'[t].frees = Append(fault[t].frees, d)
    BY <1>r, <2>1, <2>2 DEF FetchPcs
  <2>6. ~Holds(t, "free", d)
    BY <1>t, <1>e, <2>2, <2>4 DEF Exclusive
  <2>7. /\ BatchesDistinct'
        /\ \A r \in {"read", "page"}, p \in Pages : Holds(t, r, p)' <=> Holds(t, r, p)
        /\ \A p \in Pages : Holds(t, "free", p)' <=> Holds(t, "free", p) \/ p = d
    BY <1>t, <2>1, <2>2, <2>5, <2>6, FreesAppended
  <2>8. \A r \in {"victim", "dpage", "scan"}, p \in Pages :
          Holds(t, r, p)' <=> Holds(t, r, p)
    <3>1. ~HoldsVictim(t) /\ ~HoldsVictim(t)'
      BY <2>1, <2>5 DEF HoldsVictim
    <3> QED BY <2>1, <3>1, EvictRolesKept
  <2>9. \A r \in Roles, p \in Pages :
          Holds(t, r, p)' <=> Holds(t, r, p) \/ (r = "free" /\ p = d)
    BY <1>e, <2>7, <2>8
  <2>10. OwnsAll(t)
    BY <1>t, <1>e, <2>2, <2>3, <2>4, <2>9, OwnTake
  <2> QED BY <2>4, <2>7, <2>10 DEF OwnedNext
<1>3. CASE FetchEvicted(t)
  <2> DEFINE d == DiskPage(t)
  <2>1. /\ page' = [page EXCEPT ![Victim(t)].migrating = FALSE,
                                ![d] = FramePage(t, page[d])]
        /\ evict' = [evict EXCEPT ![t] = NoEvict]
        /\ ReceiveFrame(t, d) /\ pc[t] = "release" /\ fifo' = fifo /\ scan' = scan
    BY <1>3 DEF FetchEvicted, Abort, At
  <2>2. d \in Pages /\ d = evict[t].dpage /\ evict'[t].dpage = 0
    BY <1>t, <2>1 DEF DiskPage, EvictorOK, TypeOK, EvictLocals, NoEvict
  <2>3. \A p \in Pages : page'[p].list = page[p].list
    BY <1>t, <2>1, <2>2 DEF UserPage, FramePage
  <2> HIDE DEF d
  <2>4. /\ pc'[t] \in {"allocate", "fetch", "finish"}
        /\ fault'[t].reading = fault[t].reading
        /\ fault'[t].frees = Append(fault[t].frees, d)
    BY <1>r, <2>1, <2>2 DEF FetchPcs, EvictPcs
  <2>5. \A p \in Pages :
          /\ Holds(t, "dpage", p) <=> p = d
          /\ ~Holds(t, "dpage", p)'
          /\ ~Holds(t, "victim", p) /\ ~Holds(t, "victim", p)'
          /\ Holds(t, "scan", p)' <=> Holds(t, "scan", p)
    <3>1. ~HoldsVictim(t) /\ ~HoldsVictim(t)'
      BY <2>1, <2>4 DEF HoldsVictim
    <3> QED BY <1>t, <2>1, <2>2, <3>1, RoleDefs, RoleDefsNext DEF Pages
  <2>6. ~Holds(t, "free", d)
    BY <1>t, <1>e, <2>2, <2>5 DEF Exclusive
  <2>7. /\ BatchesDistinct'
        /\ \A r \in {"read", "page"}, p \in Pages : Holds(t, r, p)' <=> Holds(t, r, p)
        /\ \A p \in Pages : Holds(t, "free", p)' <=> Holds(t, "free", p) \/ p = d
    BY <1>t, <2>1, <2>2, <2>4, <2>6, FreesAppended
  <2>8. \A r \in Roles, p \in Pages :
          Holds(t, r, p)' <=> \/ Holds(t, r, p) /\ ~(r = "dpage" /\ p = d)
                              \/ r = "free" /\ p = d
    BY <1>e, <2>5, <2>7
  <2>9. OwnsAll(t)
    BY <1>t, <1>e, <2>2, <2>3, <2>5, <2>8, OwnMove
  <2>10. QueuesMatch'
    BY <1>t, <2>1, <2>3, QueueQuiet
  <2> QED BY <2>7, <2>9, <2>10 DEF OwnedNext
<1> QED BY <1>1, <1>2, <1>3

\* A first touch maps the frame it got, or gives it back.
LEMMA FirstOwned ==
    ASSUME OwnInv, NEW t \in Threads, failed' = "none",
           FirstAllocate(t) \/ PutBack(t) \/ FirstMap(t) \/ FirstAdd(t)
    PROVE  OwnedNext(t)
<1>t. /\ OnlyMoves(t) /\ t \in Executors /\ t \in Evictors /\ TypeOK /\ ThreadOK(t)
      /\ page \in [Pages -> UserPage] /\ fault[t] \in FaultLocals
      /\ fault[t].frees \in Seq(Pages) /\ BatchesDistinct /\ Exclusive /\ QueuesMatch
  BY FirstInv, ThreadFacts DEF OwnInv, StepOK
<1>a. /\ pc[t] \in FirstPcs /\ pc'[t] \in FirstPcs \cup {"spin", "idle"}
      /\ evict' = evict /\ scan' = scan
  BY <1>t DEF FirstAllocate, PutBack, FirstMap, FirstAdd, At, FirstPcs, Abort, sharedVars,
              Resume, TypeOK
<1>b. fault[t].reading = <<>> /\ Len(fault[t].frees) = 1
  BY <1>t, <1>a DEF ThreadOK
<1>c. DOMAIN fault[t].frees = {1} /\ NewPage(t) \in Pages /\ NewPage(t) = fault[t].frees[1]
  BY <1>t, <1>b DEF NewPage
<1>v. /\ ~HoldsVictim(t) /\ ~HoldsVictim(t)'
      /\ pc[t] # "publish" /\ pc'[t] # "publish"
  BY <1>a DEF HoldsVictim, FirstPcs
<1>1. CASE FirstAllocate(t) \/ FirstMap(t)
  <2>1. fifo' = fifo /\ \A p \in Pages : page'[p].list = page[p].list
    <3>1. CASE FirstAllocate(t)
      <4>1. /\ fifo' = fifo
            /\ \/ page' = page
               \/ page' = [page EXCEPT ![NewPage(t)].migrating = TRUE,
                                       ![NewPage(t)].swapped_out = FALSE,
                                       ![NewPage(t)].va = fault[t].addr]
        BY <3>1 DEF FirstAllocate, Abort, sharedVars
      <4> QED BY <1>t, <4>1 DEF UserPage
    <3>2. CASE FirstMap(t)
      <4>1. /\ fifo' = fifo
            /\ page' = [page EXCEPT ![NewPage(t)].migrating = FALSE,
                                    ![NewPage(t)].swapped_out = FALSE]
        BY <3>2 DEF FirstMap, Abort
      <4> QED BY <1>t, <4>1 DEF UserPage
    <3> QED BY <1>1, <3>1, <3>2
  <2>2. fault'[t].reading = fault[t].reading /\ fault'[t].frees = fault[t].frees
    BY <1>t, <1>1 DEF FirstAllocate, FirstMap, Abort, TypeOK, FaultLocals
  <2> QED BY <1>t, <1>a, <1>v, <2>1, <2>2, ThreadQuiet
<1>2. CASE PutBack(t) \/ FirstAdd(t)
  <2> DEFINE n == NewPage(t)
  <2>1. PICK q \in {"dram_free", "inactive"} :
          fifo' = EnqueueFifo(q, n) /\ page' = [page EXCEPT ![n].list = q]
    BY <1>2 DEF PutBack, FirstAdd, Abort
  <2>2. fault'[t].reading = <<>> /\ fault'[t].frees = <<>>
    BY <1>t, <1>b, <1>2
       DEF PutBack, FirstAdd, Abort, Resume, NoFault, TypeOK, FaultLocals
  <2>3. page'[n].list = q /\ \A p \in Pages \ {n} : page'[p].list = page[p].list
    BY <1>t, <1>c, <2>1 DEF UserPage
  <2> HIDE DEF n
  <2>n. n \in Pages /\ n = fault[t].frees[1]
    BY <1>c DEF n
  <2>4. \A p \in Pages :
          /\ Holds(t, "free", p) <=> p = n
          /\ ~Holds(t, "free", p)'
          /\ Holds(t, "read", p)' <=> Holds(t, "read", p)
          /\ Holds(t, "page", p)' <=> Holds(t, "page", p)
    BY <1>b, <1>c, <1>v, <2>2, <2>n, RoleDefs, RoleDefsNext
  <2>5. \A r \in {"victim", "dpage", "scan"}, p \in Pages :
          Holds(t, r, p)' <=> Holds(t, r, p)
    BY <1>a, <1>v, EvictRolesKept
  <2>6. \A r \in Roles, p \in Pages :
          Holds(t, r, p)' <=> Holds(t, r, p) /\ ~(r = "free" /\ p = n)
    BY <2>4, <2>5 DEF Roles
  <2>7. page[n].list = "none" /\ Holds(t, "free", n)
    BY <1>t, <2>4, <2>n DEF Exclusive, Roles
  <2>8. OwnsAll(t)
    BY <1>t, <2>3, <2>6, <2>7, <2>n, OwnPut DEF Roles
  <2>9. QueuesMatch'
    BY <1>t, <2>1, <2>3, <2>7, <2>n, QueuePut DEF Queues
  <2>10. BatchesDistinct'
    BY <1>t, <2>2, BatchLift DEF Distinct
  <2> QED BY <2>8, <2>9, <2>10 DEF OwnedNext
<1> QED BY <1>1, <1>2


\* A page that was read leaves the batch, its frame's descriptor becomes its
\* reserve, and it goes on the inactive list.
LEMMA SwapInOwned ==
    ASSUME OwnInv, NEW t \in Threads, failed' = "none",
           FinishRead(t) \/ PublishPage(t) \/ PrefetchResident(t) \/ Settle(t)
    PROVE  OwnedNext(t)
<1>t. /\ OnlyMoves(t) /\ t \in Executors /\ t \in Evictors /\ TypeOK /\ ThreadOK(t)
      /\ page \in [Pages -> UserPage] /\ fault[t] \in FaultLocals
      /\ fault[t].page \in Pages \cup {0}
      /\ fault[t].reading \in Seq(Pages) /\ fault[t].frees \in Seq(Pages)
      /\ Distinct(fault[t].reading) /\ Distinct(fault[t].frees)
      /\ BatchesDistinct /\ Exclusive /\ QueuesMatch
  BY SwapInInv, ThreadFacts DEF OwnInv, StepOK
<1>a. /\ pc[t] \in {"finish"} \cup SettlePcs
      /\ pc'[t] \in {"finish", "find", "idle"} \cup SettlePcs
      /\ evict' = evict /\ scan' = scan
  BY <1>t DEF FinishRead, PublishPage, PrefetchResident, Settle, At, SettlePcs, Abort,
              sharedVars, Resume, TypeOK
<1>b. Len(fault[t].frees) = Len(fault[t].reading)
  BY <1>t, <1>a DEF ThreadOK
<1>v. ~HoldsVictim(t) /\ ~HoldsVictim(t)'
  BY <1>a DEF HoldsVictim, SettlePcs
<1>k. \A r \in {"victim", "dpage", "scan"}, p \in Pages : Holds(t, r, p)' <=> Holds(t, r, p)
  BY <1>a, <1>v, EvictRolesKept
<1>e. /\ "read" \in Roles /\ "free" \in Roles /\ "page" \in Roles
      /\ \A r \in Roles : r \in {"victim", "dpage", "scan", "read", "free", "page"}
  BY DEF Roles
<1>1. CASE FinishRead(t)
  <2> DEFINE p == Head(fault[t].reading)
             d == Head(fault[t].frees)
  <2>1. /\ page' = [page EXCEPT
             ![p].virtual_offset = page[d].virtual_offset,
             ![p].in_dram = page[p].in_dram \/ fault[t].job = "swapin",
             ![p].reserve = d,
             ![d] = AsReserve(page[d], p, page[p].virtual_offset)]
        /\ pc[t] = "finish" /\ fifo' = fifo
    BY <1>1 DEF FinishRead, Abort, At
  <2>2. /\ pc'[t] = "publish" /\ fault'[t].page = p
        /\ fault'[t].reading = Tail(fault[t].reading)
        /\ fault'[t].frees = Tail(fault[t].frees)
    <3>1. /\ fault' = [fault EXCEPT ![t].page = p, ![t].reading = Tail(fault[t].reading),
                                    ![t].buf = Tail(fault[t].buf),
                                    ![t].frees = Tail(fault[t].frees)]
          /\ pc' = [pc EXCEPT ![t] = "publish"]
      BY <1>1 DEF FinishRead, Abort
    <3>2. fault \in [Threads -> FaultLocals] /\ pc \in [Executors -> PcLabels]
      BY <1>t DEF TypeOK
    <3>3. fault'[t] = [fault[t] EXCEPT !.page = p, !.reading = Tail(fault[t].reading),
                                       !.buf = Tail(fault[t].buf),
                                       !.frees = Tail(fault[t].frees)]
      BY <3>1, <3>2
    <3>4. pc'[t] = "publish"
      BY <1>t, <3>1, <3>2
    <3> HIDE DEF p
    <3> QED BY <1>t, <3>3, <3>4 DEF FaultLocals
  <2>3. fault[t].reading # <<>> /\ fault[t].frees # <<>>
    <3>1. fault[t].reading # <<>>
      BY <1>t, <2>1 DEF ThreadOK
    <3> QED BY <1>t, <1>b, <3>1
  <2>4. /\ p \in Pages /\ d \in Pages
        /\ p = fault[t].reading[1] /\ 1 \in DOMAIN fault[t].reading
        /\ d = fault[t].frees[1] /\ 1 \in DOMAIN fault[t].frees
    BY <1>t, <2>3, HeadTail
  <2>5. /\ Distinct(Tail(fault[t].reading)) /\ Distinct(Tail(fault[t].frees))
        /\ \A q : Among(q, Tail(fault[t].reading)) <=> Among(q, fault[t].reading) /\ q # p
        /\ \A q : Among(q, Tail(fault[t].frees)) <=> Among(q, fault[t].frees) /\ q # d
    BY <1>t, <2>3, DistinctTail DEF Among
  <2> HIDE DEF p, d
  <2>6. Holds(t, "read", p) /\ Holds(t, "free", d)
    BY <2>4, RoleDefs
  <2>7. p # d
    BY <1>t, <1>e, <2>4, <2>6 DEF Exclusive
  <2>8. /\ page'[d].list = "disk_reserve"
        /\ \A q \in Pages \ {d} : page'[q].list = page[q].list
    <3>1. /\ page'[d] = AsReserve(page[d], p, page[p].virtual_offset)
          /\ page'[p] = [page[p] EXCEPT !.virtual_offset = page[d].virtual_offset,
                            !.in_dram = page[p].in_dram \/ fault[t].job = "swapin",
                            !.reserve = d]
          /\ \A q \in Pages \ {p, d} : page'[q] = page[q]
      BY <1>t, <2>1, <2>4, <2>7
    <3>2. page'[d].list = "disk_reserve" /\ page'[p].list = page[p].list
      BY <1>t, <2>4, <3>1 DEF UserPage, AsReserve
    <3> QED BY <3>1, <3>2
  <2>9. page[d].list = "none"
    BY <1>t, <1>e, <2>4, <2>6 DEF Exclusive
  <2>10. ASSUME NEW q \in Pages
         PROVE  /\ Holds(t, "read", q)' <=> Holds(t, "read", q) /\ q # p
                /\ Holds(t, "free", q)' <=> Holds(t, "free", q) /\ q # d
                /\ ~Holds(t, "page", q)
                /\ Holds(t, "page", q)' <=> q = p
    <3>1. /\ Holds(t, "read", q) <=> Among(q, fault[t].reading)
          /\ Holds(t, "free", q) <=> Among(q, fault[t].frees)
          /\ ~Holds(t, "page", q)
      BY <2>1, RoleDefs DEF Among
    <3>2. /\ Holds(t, "read", q)' <=> Among(q, fault'[t].reading)
          /\ Holds(t, "free", q)' <=> Among(q, fault'[t].frees)
          /\ Holds(t, "page", q)' <=> q = p
      <4>1. Holds(t, "read", q)' <=> Among(q, fault'[t].reading)
        BY RoleDefsNext DEF Among
      <4>2. Holds(t, "free", q)' <=> Among(q, fault'[t].frees)
        BY RoleDefsNext DEF Among
      <4>3. Holds(t, "page", q)' <=> q = p
        BY <2>2, RoleDefsNext
      <4> QED BY <4>1, <4>2, <4>3
    <3> QED BY <2>2, <2>5, <3>1, <3>2
  <2>11. \A r \in Roles, q \in Pages :
           Holds(t, r, q)' <=>
             \/ Holds(t, r, q) /\ ~(r = "read" /\ q = p) /\ ~(r = "free" /\ q = d)
             \/ r = "page" /\ q = p
    BY <1>e, <1>k, <2>10
  <2>12. OwnsAll(t)
    <3>1. page'[d].list # "none"
      BY <2>8
    <3>2. t \in Executors /\ OnlyMoves(t) /\ Exclusive
      BY <1>t
    <3>3. "read" # "page" /\ "read" # "free" /\ "page" # "free"
      OBVIOUS
    <3>4. \A q \in Pages \ {d} : page'[q].list = page[q].list
      BY <2>8
    <3>5. p \in Pages /\ d \in Pages
      BY <2>4
    <3> QED BY <1>e, <2>6, <2>11, <3>1, <3>2, <3>3, <3>4, <3>5, OwnMovePut
  <2>13. QueuesMatch'
    BY <1>t, <2>1, <2>8, <2>9, QueueQuiet DEF Queues
  <2>14. BatchesDistinct'
    BY <1>t, <2>2, <2>5, BatchLift
  <2> QED BY <2>12, <2>13, <2>14 DEF OwnedNext
<1>2. CASE PublishPage(t)
  <2> DEFINE p == fault[t].page
  <2>1. /\ fifo' = EnqueueFifo("inactive", p) /\ page' = [page EXCEPT ![p].list = "inactive"]
        /\ pc[t] = "publish" /\ pc'[t] \in {"settle", "resident"} /\ fault' = fault
    BY <1>t, <1>2 DEF PublishPage, At, TypeOK
  <2>2. p \in Pages
    BY <1>t, <2>1 DEF ThreadOK, SettlePcs
  <2>3. page'[p].list = "inactive" /\ \A q \in Pages \ {p} : page'[q].list = page[q].list
    BY <1>t, <2>1, <2>2 DEF UserPage
  <2>4. \A q \in Pages :
          /\ Holds(t, "page", q) <=> q = p
          /\ ~Holds(t, "page", q)'
          /\ Holds(t, "read", q)' <=> Holds(t, "read", q)
          /\ Holds(t, "free", q)' <=> Holds(t, "free", q)
    BY <2>1, RoleDefs, RoleDefsNext
  <2> HIDE DEF p
  <2>5. \A r \in Roles, q \in Pages :
          Holds(t, r, q)' <=> Holds(t, r, q) /\ ~(r = "page" /\ q = p)
    BY <1>e, <1>k, <2>4
  <2>6. Holds(t, "page", p) /\ page[p].list = "none"
    BY <1>t, <1>e, <2>2, <2>4 DEF Exclusive
  <2>7. OwnsAll(t)
    BY <1>t, <1>e, <2>2, <2>3, <2>5, <2>6, OwnPut
  <2>8. QueuesMatch'
    BY <1>t, <2>1, <2>2, <2>3, <2>6, QueuePut DEF Queues
  <2>9. BatchesDistinct'
    BY <1>t, <2>1, BatchLift
  <2> QED BY <2>7, <2>8, <2>9 DEF OwnedNext
<1>3. CASE PrefetchResident(t)
  <2>1. /\ fifo' = fifo /\ fault' = fault /\ pc[t] = "resident" /\ pc'[t] = "settle"
        /\ \A p \in Pages : page'[p].list = page[p].list
    BY <1>t, <1>3 DEF PrefetchResident, At, UserPage, TypeOK
  <2> QED BY <1>t, <1>a, <1>v, <2>1, ThreadQuiet
<1>4. CASE Settle(t)
  <2>1. /\ fifo' = fifo /\ pc[t] = "settle" /\ pc'[t] \in {"idle", "find", "finish"}
        /\ \A p \in Pages : page'[p].list = page[p].list
    BY <1>t, <1>4 DEF Settle, Resume, At, UserPage, TypeOK
  <2>2. fault'[t].reading = fault[t].reading /\ fault'[t].frees = fault[t].frees
    <3>1. CASE fault[t].reading = <<>> /\ Resume(t)
      <4>1. fault[t].frees = <<>>
        BY <1>t, <1>b, <3>1
      <4>2. fault'[t].reading = <<>> /\ fault'[t].frees = <<>>
        BY <1>t, <3>1 DEF Resume, NoFault, TypeOK
      <4> QED BY <3>1, <4>1, <4>2
    <3>2. CASE \/ fault' = [fault EXCEPT ![t].job = "prefetch", ![t].page = 0]
               \/ fault' = [fault EXCEPT ![t].page = 0]
      BY <1>t, <3>2 DEF TypeOK, FaultLocals
    <3> QED BY <1>4, <3>1, <3>2 DEF Settle
  <2> QED BY <1>t, <1>a, <1>v, <2>1, <2>2, ThreadQuiet
<1> QED BY <1>1, <1>2, <1>3, <1>4

-----------------------------------------------------------------------------
(* The whole.                                                               *)

\* Every descriptor starts on the free list of its kind.
LEMMA InitOwner == Init => OwnerInv
<1> SUFFICES ASSUME Init PROVE OwnerInv
  OBVIOUS
<1>0. TypeInv
  BY InitInv
<1> USE SizeAssumption DEF Init, InitPages
<1>1. BatchesDistinct
  BY DEF BatchesDistinct, NoFault, Distinct
<1>2. \A p \in Pages : page[p].list = IF p <= NDram THEN "dram_free" ELSE "disk_free"
  BY DEF InitPage
<1>3. \A e \in Executors, r \in Roles, p \in Pages : ~Holds(e, r, p)
  <2> SUFFICES ASSUME NEW e \in Executors, NEW r \in Roles, NEW p \in Pages
               PROVE  ~Holds(e, r, p)
    OBVIOUS
  <2>1. p # 0 /\ pc[e] = "idle" /\ ~HoldsVictim(e)
    BY DEF Pages, HoldsVictim
  <2>2. /\ e \in Evictors => evict[e].dpage = 0
        /\ e \in Scanners => scan[e] = 0
        /\ e \in Threads => fault[e].reading = <<>> /\ fault[e].frees = <<>>
    BY DEF NoEvict, NoFault
  <2>3. ~Holds(e, "victim", p) /\ ~Holds(e, "dpage", p) /\ ~Holds(e, "scan", p)
        /\ ~Holds(e, "read", p) /\ ~Holds(e, "free", p) /\ ~Holds(e, "page", p)
    BY <2>1, <2>2, RoleDefs
  <2> QED BY <2>3 DEF Roles
<1>4. Ownership
  BY <1>2, <1>3 DEF Ownership
<1>5. QueuesMatch
  <2>1. /\ fifo["dram_free"] = [i \in 1 .. NDram |-> i]
        /\ fifo["disk_free"] = [i \in 1 .. NDisk |-> NDram + i]
        /\ \A q \in Queues \ {"dram_free", "disk_free"} : fifo[q] = <<>>
    BY DEF InitFifo, Queues
  <2>2. ASSUME NEW q \in Queues, NEW p \in Pages
        PROVE  page[p].list = q <=> \E i \in DOMAIN fifo[q] : fifo[q][i] = p
    <3>0. p \in 1 .. (NDram + NDisk)
      BY DEF Pages
    <3>1. CASE q = "dram_free"
      <4>1. page[p].list = q <=> p <= NDram
        BY <1>2, <3>0, <3>1
      <4>2. DOMAIN fifo[q] = 1 .. NDram /\ \A i \in 1 .. NDram : fifo[q][i] = i
        BY <2>1, <3>1
      <4>3. p <= NDram <=> p \in 1 .. NDram
        BY <3>0
      <4> QED BY <4>1, <4>2, <4>3
    <3>2. CASE q = "disk_free"
      <4>1. page[p].list = q <=> p > NDram
        BY <1>2, <3>0, <3>2
      <4>2. p > NDram => p - NDram \in 1 .. NDisk /\ NDram + (p - NDram) = p
        BY <3>0
      <4>3. \A i \in 1 .. NDisk : NDram + i > NDram
        OBVIOUS
      <4>4. DOMAIN fifo[q] = 1 .. NDisk /\ \A i \in 1 .. NDisk : fifo[q][i] = NDram + i
        BY <2>1, <3>2
      <4>5. p > NDram => \E i \in DOMAIN fifo[q] : fifo[q][i] = p
        BY <4>2, <4>4
      <4>6. \A i \in DOMAIN fifo[q] : fifo[q][i] = p => p > NDram
        BY <4>3, <4>4
      <4> QED BY <4>1, <4>5, <4>6
    <3>3. CASE q \notin {"dram_free", "disk_free"}
      BY <1>2, <2>1, <3>3
    <3> QED BY <3>1, <3>2, <3>3
  <2>3. ASSUME NEW q \in Queues, NEW i \in DOMAIN fifo[q], NEW j \in DOMAIN fifo[q],
               fifo[q][i] = fifo[q][j]
        PROVE  i = j
    <3>1. CASE q \in {"dram_free", "disk_free"}
      BY <2>1, <2>3, <3>1
    <3>2. CASE q \notin {"dram_free", "disk_free"}
      BY <2>1, <3>2
    <3> QED BY <3>1, <3>2
  <2> QED BY <2>2, <2>3 DEF QueuesMatch
<1> QED BY <1>0, <1>1, <1>4, <1>5 DEF OwnerInv

\* The full invariant gives the half that the steps need.
LEMMA OwnerWeaker == OwnerInv => OwnInv
  BY DEF OwnerInv, TypeInv, OwnInv, Ownership, Exclusive

\* Nobody gains or loses a descriptor.
NothingMoved ==
    /\ \A p \in Pages : page'[p].list = page[p].list
    /\ \A e \in Executors, r \in Roles, p \in Pages : Holds(e, r, p)' <=> Holds(e, r, p)

\* What every step does to the lists and to those who hold descriptors.
NextOwns == /\ BatchesDistinct' /\ QueuesMatch'
            /\ NothingMoved \/ \E x \in Executors : OnlyMoves(x) /\ OwnsAll(x)

\* A step that changes no list and no local variable moves nothing.
LEMMA StillOwned ==
    ASSUME OwnInv, UNCHANGED <<page, fifo, pc, fault, scan, evict>>
    PROVE  NextOwns
<1>1. NothingMoved
  BY DEF NothingMoved, Holds, HoldsVictim, Roles
<1>2. BatchesDistinct' /\ QueuesMatch'
  BY DEF OwnInv, BatchesDistinct, Distinct, QueuesMatch
<1> QED BY <1>1, <1>2 DEF NextOwns

\* Every step either moves nothing or is one executor's.
LEMMA StepOwns == OwnInv /\ [Next]_vars => NextOwns
<1> SUFFICES ASSUME OwnInv, [Next]_vars PROVE NextOwns
  OBVIOUS
<1>0. UseInv
  BY DEF OwnInv
<1>e. /\ Threads \subseteq Evictors /\ Workers \subseteq Evictors
      /\ Threads \subseteq Scanners /\ Kswapd \subseteq Scanners
      /\ Evictors \subseteq Executors /\ Scanners \subseteq Executors
  BY DEF Evictors, Scanners, Executors
<1>m. ASSUME NEW x \in Executors, StepOK(x), OwnedNext(x) PROVE NextOwns
  BY <1>m DEF NextOwns, OwnedNext, StepOK
<1>1. CASE UNCHANGED vars \/ Crash
  BY <1>1, StillOwned DEF vars, Crash, sharedVars
<1>2. ASSUME NEW t \in Threads, Application(t) PROVE NextOwns
  BY <1>0, <1>2, <1>e, <1>m, ApplicationInv, ApplicationOwned
<1>3. ASSUME NEW t \in Threads, ThreadStep(t), ~Crash PROVE NextOwns
  <2>1. FaultStep(t) \/ EvictStep(t) => failed' = "none"
    BY <1>3, AbortCrashes
  <2>2. CASE FaultStep(t)
    <3>1. failed' = "none" /\ ~FetchOutOfMemory(t)
      BY <2>1, <2>2 DEF FetchOutOfMemory, Abort
    <3>2. OwnedNext(t)
      BY <2>2, <3>1, FaultStartOwned, FetchOwned, FirstOwned, SwapInOwned DEF FaultStep
    <3>3. StepOK(t)
      BY <1>0, <2>2, <3>1, FaultStartInv, FetchInv, FirstInv, SwapInInv DEF FaultStep
    <3> QED BY <1>e, <1>m, <3>2, <3>3
  <2>3. CASE EvictStep(t)
    BY <1>0, <1>e, <1>m, <2>1, <2>3, EvictInv, EvictOwned
  <2>4. CASE ScanStep(t)
    BY <1>0, <1>e, <1>m, <2>4, ScanInv, ScanOwned
  <2> QED BY <1>3, <2>2, <2>3, <2>4 DEF ThreadStep
<1>4. ASSUME NEW w \in Workers, WorkerStep(w), ~Crash PROVE NextOwns
  <2>1. failed' = "none"
    BY <1>4, AbortCrashes
  <2>2. CASE EvictStep(w)
    BY <1>0, <1>e, <1>m, <2>1, <2>2, EvictInv, EvictOwned
  <2>3. CASE ReleaseVictim(w)
    BY <1>0, <1>e, <1>m, <2>1, <2>3, ReleaseInv, ReleaseOwned
  <2> QED BY <1>4, <2>2, <2>3 DEF WorkerStep
<1>5. ASSUME NEW k \in Kswapd, ScanStep(k) PROVE NextOwns
  BY <1>0, <1>e, <1>m, <1>5, ScanInv, ScanOwned
<1>6. CASE Aborted
  BY <1>1, <1>6 DEF Aborted
<1> QED BY <1>1, <1>2, <1>3, <1>4, <1>5, <1>6 DEF Next

\* Every step keeps the invariant.
LEMMA NextOwner == OwnerInv /\ [Next]_vars => OwnerInv'
<1> SUFFICES ASSUME OwnerInv, [Next]_vars PROVE OwnerInv'
  OBVIOUS
<1>1. TypeInv'
  BY NextInv DEF OwnerInv
<1>2. NextOwns
  BY OwnerWeaker, StepOwns
<1>3. Ownership'
  <2>1. CASE NothingMoved
    BY <2>1 DEF NothingMoved, OwnerInv, Ownership
  <2> QED BY <1>2, <2>1, OwnLift DEF NextOwns, OwnerInv
<1> QED BY <1>1, <1>2, <1>3 DEF OwnerInv, NextOwns

\* No descriptor is lost and none is shared, whatever the interleaving of
\* faults, evictions and scans: each is on a list, or with one thread for one
\* purpose, though the lists have a lock each and no lock spans two of them.
THEOREM OwnershipHolds == Spec => []Ownership
<1>1. Init => OwnerInv
  BY InitOwner
<1>2. OwnerInv /\ [Next]_vars => OwnerInv'
  BY NextOwner
<1>3. OwnerInv => Ownership
  BY DEF OwnerInv
<1> QED BY <1>1, <1>2, <1>3, PTL DEF Spec

\* The queues hold what the descriptors say they hold, each once: no page is
\* enqueued while it is still on a list.
THEOREM QueuesMatchHolds == Spec => []QueuesMatch
<1>1. Init => OwnerInv
  BY InitOwner
<1>2. OwnerInv /\ [Next]_vars => OwnerInv'
  BY NextOwner
<1>3. OwnerInv => QueuesMatch
  BY DEF OwnerInv
<1> QED BY <1>1, <1>2, <1>3, PTL DEF Spec

-----------------------------------------------------------------------------
(***************************************************************************)
(* The paging of ExtMem implements FrameFlow, for every number of pages,   *)
(* frames, slots, threads and workers.                                     *)
(*                                                                         *)
(* A step changes the locals of one executor x.  So the four numbers of    *)
(* FrameFlow change by what changes on the lists and in the hands of x     *)
(* (StepCounts), and it remains to see for each action that this is a move *)
(* of FrameFlow (Moves).  What x holds follows from where it is, which is  *)
(* what TypeInv says.                                                      *)
(***************************************************************************)

(* What one executor has of each kind of frame.                             *)

HeldBy(x) == IF x \in Threads
             THEN Len(fault[x].frees) + (IF x \in Publishing THEN 1 ELSE 0) ELSE 0

ScannedBy(x) == IF x \in Scanning THEN 1 ELSE 0

EvictedBy(x) == IF x \in Evicting THEN 1 ELSE 0

\* The numbers of FrameFlow as far as a step of x can change them.
FreeOf     == Len(fifo["dram_free"])
ResidentOf(x) == Len(fifo["active"]) + Len(fifo["inactive"]) + ScannedBy(x)
EvictingOf(x) == Len(fifo["eviction"]) + EvictedBy(x)

\* From (f, h, r, v) one frame moves along an arrow of FrameFlow, or none.
Moved(f, h, r, v, f1, h1, r1, v1) ==
    \/ f1 = f /\ h1 = h /\ r1 = r /\ v1 = v
    \/ f1 = f - 1 /\ h1 = h + 1 /\ r1 = r /\ v1 = v
    \/ f1 = f + 1 /\ h1 = h - 1 /\ r1 = r /\ v1 = v
    \/ f1 = f /\ h1 = h - 1 /\ r1 = r + 1 /\ v1 = v
    \/ f1 = f /\ h1 = h /\ r1 = r - 1 /\ v1 = v + 1
    \/ f1 = f + 1 /\ h1 = h /\ r1 = r /\ v1 = v - 1
    \/ f1 = f /\ h1 = h + 1 /\ r1 = r /\ v1 = v - 1

Moves(x) == Moved(FreeOf, HeldBy(x), ResidentOf(x), EvictingOf(x),
                  FreeOf', HeldBy(x)', ResidentOf(x)', EvictingOf(x)')

\* Every number that is counted is finite.
CountsFinite ==
    /\ IsFiniteSet(Units(Collected)) /\ IsFiniteSet(Publishing)
    /\ IsFiniteSet(Scanning) /\ IsFiniteSet(Evicting)

FlowInv == TypeInv /\ CountsFinite

\* A move that leaves no number negative is a step of FrameFlow.
LEMMA MoveIsStep ==
    ASSUME NEW f \in Nat, NEW h \in Nat, NEW r \in Nat, NEW v \in Nat,
           Len(fifo["dram_free"]) = f, HeldFrames = h,
           ResidentFrames = r, EvictingFrames = v,
           NEW f1 \in Nat, NEW h1 \in Nat, NEW r1 \in Nat, NEW v1 \in Nat,
           Len(fifo["dram_free"])' = f1, HeldFrames' = h1,
           ResidentFrames' = r1, EvictingFrames' = v1,
           Moved(f, h, r, v, f1, h1, r1, v1)
    PROVE  [Flow!Next]_(Flow!flow)
BY DEF Moved, Flow!Next, Flow!flow, Flow!Take, Flow!GiveBack, Flow!Use, Flow!Pick,
       Flow!Evict, Flow!EvictForSelf

\* The four numbers change by what x gains and loses.
LEMMA StepCounts ==
    ASSUME TypeOK, CountsFinite, TypeOK', NEW x \in Executors, OnlyMoves(x), Moves(x)
    PROVE  CountsFinite' /\ [Flow!Next]_(Flow!flow)
<1>1. /\ Publishing \ {x} = Publishing' \ {x} /\ Scanning \ {x} = Scanning' \ {x}
      /\ Evicting \ {x} = Evicting' \ {x}
  BY DEF Publishing, Scanning, Evicting, HasVictimsFrame, OnlyMoves, Executors, Scanners, Evictors
<1>2. /\ IsFiniteSet(Publishing') /\ IsFiniteSet(Scanning') /\ IsFiniteSet(Evicting')
      /\ Cardinality(Publishing) \in Nat /\ Cardinality(Scanning) \in Nat
      /\ Cardinality(Evicting) \in Nat
      /\ Cardinality(Publishing') \in Nat /\ Cardinality(Scanning') \in Nat
      /\ Cardinality(Evicting') \in Nat
      /\ Cardinality(Publishing') = Cardinality(Publishing) - (IF x \in Publishing THEN 1 ELSE 0)
                                      + (IF x \in Publishing' THEN 1 ELSE 0)
      /\ Cardinality(Scanning') = Cardinality(Scanning) - (IF x \in Scanning THEN 1 ELSE 0)
                                    + (IF x \in Scanning' THEN 1 ELSE 0)
      /\ Cardinality(Evicting') = Cardinality(Evicting) - (IF x \in Evicting THEN 1 ELSE 0)
                                    + (IF x \in Evicting' THEN 1 ELSE 0)
  BY <1>1, CountOne DEF CountsFinite
<1>3. PICK k, k1 : /\ k = IF x \in Threads THEN Len(fault[x].frees) ELSE 0
                   /\ k1 = IF x \in Threads THEN Len(fault'[x].frees) ELSE 0
  OBVIOUS
<1>k. k \in Nat /\ k1 \in Nat
  BY <1>3 DEF TypeOK, FaultLocals
<1>4. /\ IsFiniteSet(Units(Collected')) /\ Total(Collected) \in Nat /\ Total(Collected') \in Nat
      /\ Total(Collected') = Total(Collected) - k + k1
  <2>1. CASE x \in Threads
    <3>1. /\ DOMAIN Collected = Threads /\ DOMAIN Collected' = Threads
          /\ Collected[x] = k /\ Collected'[x] = k1
          /\ \A y \in Threads \ {x} : Collected'[y] = Collected[y]
      BY <1>3, <2>1 DEF Collected, OnlyMoves, Executors
    <3>2. Collected[x] \in Nat /\ Collected'[x] \in Nat
      BY <1>k, <2>1, <3>1
    <3>3. PICK f, g : f = Collected /\ g = Collected'
      OBVIOUS
    <3>4. /\ DOMAIN f = Threads /\ DOMAIN g = Threads /\ f[x] \in Nat /\ g[x] \in Nat
          /\ \A y \in Threads \ {x} : g[y] = f[y]
          /\ IsFiniteSet(Units(f))
      BY <3>1, <3>2, <3>3 DEF CountsFinite
    <3>5. /\ IsFiniteSet(Units(g)) /\ Total(f) \in Nat /\ Total(g) \in Nat
          /\ Total(g) = Total(f) - f[x] + g[x]
      BY <2>1, <3>4, TotalOne
    <3> QED  BY <2>1, <3>1, <3>3, <3>5
  <2>2. CASE x \notin Threads
    <3>1. Collected' = Collected
      BY <2>2 DEF Collected, OnlyMoves, Executors
    <3>2. Total(Collected) \in Nat
      BY FS_CardinalityType DEF Total, CountsFinite
    <3> QED  BY <1>3, <1>k, <2>2, <3>1, <3>2 DEF CountsFinite
  <2> QED  BY <2>1, <2>2
<1>5. CountsFinite'
  BY <1>2, <1>4 DEF CountsFinite
<1>6. PICK f, a, i, v, f1, a1, i1, v1 :
        /\ f = Len(fifo["dram_free"]) /\ f1 = Len(fifo'["dram_free"])
        /\ a = Len(fifo["active"]) /\ a1 = Len(fifo'["active"])
        /\ i = Len(fifo["inactive"]) /\ i1 = Len(fifo'["inactive"])
        /\ v = Len(fifo["eviction"]) /\ v1 = Len(fifo'["eviction"])
  OBVIOUS
<1>l. /\ f \in Nat /\ a \in Nat /\ i \in Nat /\ v \in Nat
      /\ f1 \in Nat /\ a1 \in Nat /\ i1 \in Nat /\ v1 \in Nat
  <2>1. \A q \in Queues : fifo[q] \in Seq(Pages) /\ fifo'[q] \in Seq(Pages)
    BY DEF TypeOK
  <2>2. \A q \in Queues : Len(fifo[q]) \in Nat /\ Len(fifo'[q]) \in Nat
    BY <2>1
  <2> QED  BY <1>6, <2>2 DEF Queues
<1>c. PICK p, p1, s, s1, e, e1, c, c1 :
        /\ p = Cardinality(Publishing) /\ p1 = Cardinality(Publishing')
        /\ s = Cardinality(Scanning) /\ s1 = Cardinality(Scanning')
        /\ e = Cardinality(Evicting) /\ e1 = Cardinality(Evicting')
        /\ c = Total(Collected) /\ c1 = Total(Collected')
  OBVIOUS
<1>7. /\ HeldFrames = c + p /\ HeldFrames' = c1 + p1
      /\ ResidentFrames = a + i + s /\ ResidentFrames' = a1 + i1 + s1
      /\ EvictingFrames = v + e /\ EvictingFrames' = v1 + e1
      /\ FreeOf = f /\ FreeOf' = f1
  BY <1>6, <1>c DEF FreeOf, HeldFrames, ResidentFrames, EvictingFrames
<1>n. /\ p \in Nat /\ p1 \in Nat /\ s \in Nat /\ s1 \in Nat
      /\ e \in Nat /\ e1 \in Nat /\ c \in Nat /\ c1 \in Nat
      /\ p1 = p - (IF x \in Publishing THEN 1 ELSE 0) + (IF x \in Publishing' THEN 1 ELSE 0)
      /\ s1 = s - (IF x \in Scanning THEN 1 ELSE 0) + (IF x \in Scanning' THEN 1 ELSE 0)
      /\ e1 = e - (IF x \in Evicting THEN 1 ELSE 0) + (IF x \in Evicting' THEN 1 ELSE 0)
      /\ c1 = c - k + k1
  BY <1>2, <1>4, <1>c
<1>8. /\ HeldBy(x) \in Nat /\ HeldBy(x)' \in Nat
      /\ HeldFrames' = HeldFrames - HeldBy(x) + HeldBy(x)'
  <2>1. x \notin Threads => x \notin Publishing /\ x \notin Publishing'
    BY DEF Publishing
  <2>2. /\ HeldBy(x) = k + (IF x \in Publishing THEN 1 ELSE 0)
        /\ HeldBy(x)' = k1 + (IF x \in Publishing' THEN 1 ELSE 0)
    <3>1. CASE x \in Threads
      BY <1>3, <3>1 DEF HeldBy
    <3>2. CASE x \notin Threads
      BY <1>3, <2>1, <3>2 DEF HeldBy
    <3> QED  BY <3>1, <3>2
  <2> QED  BY <1>k, <1>7, <1>n, <2>2
<1>9. /\ ResidentOf(x) \in Nat /\ ResidentOf(x)' \in Nat
      /\ ResidentFrames' = ResidentFrames - ResidentOf(x) + ResidentOf(x)'
  <2>1. /\ ResidentOf(x) = a + i + (IF x \in Scanning THEN 1 ELSE 0)
        /\ ResidentOf(x)' = a1 + i1 + (IF x \in Scanning' THEN 1 ELSE 0)
    BY <1>6 DEF ResidentOf, ScannedBy
  <2> QED  BY <1>l, <1>7, <1>n, <2>1
<1>10. /\ EvictingOf(x) \in Nat /\ EvictingOf(x)' \in Nat
       /\ EvictingFrames' = EvictingFrames - EvictingOf(x) + EvictingOf(x)'
  <2>1. /\ EvictingOf(x) = v + (IF x \in Evicting THEN 1 ELSE 0)
        /\ EvictingOf(x)' = v1 + (IF x \in Evicting' THEN 1 ELSE 0)
    BY <1>6 DEF EvictingOf, EvictedBy
  <2> QED  BY <1>l, <1>7, <1>n, <2>1
<1>i. /\ FreeOf \in Nat /\ FreeOf' \in Nat
      /\ HeldFrames \in Nat /\ HeldFrames' \in Nat
      /\ ResidentFrames \in Nat /\ ResidentFrames' \in Nat
      /\ EvictingFrames \in Nat /\ EvictingFrames' \in Nat
  BY <1>l, <1>7, <1>n
<1>11. Moved(FreeOf, HeldFrames, ResidentFrames, EvictingFrames,
             FreeOf', HeldFrames', ResidentFrames', EvictingFrames')
  BY <1>i, <1>8, <1>9, <1>10 DEF Moves, Moved
<1>12. PICK h, r, w, h1, r1, w1 :
         /\ HeldFrames = h /\ ResidentFrames = r /\ EvictingFrames = w
         /\ HeldFrames' = h1 /\ ResidentFrames' = r1 /\ EvictingFrames' = w1
  OBVIOUS
<1>13. Moved(f, h, r, w, f1, h1, r1, w1)
  BY <1>7, <1>11, <1>12
<1>14. /\ h \in Nat /\ r \in Nat /\ w \in Nat /\ h1 \in Nat /\ r1 \in Nat /\ w1 \in Nat
       /\ Len(fifo["dram_free"]) = f /\ Len(fifo["dram_free"])' = f1
  BY <1>6, <1>i, <1>12
<1>15. [Flow!Next]_(Flow!flow)
  BY <1>l, <1>12, <1>13, <1>14, MoveIsStep
<1> QED  BY <1>5, <1>15

-----------------------------------------------------------------------------
(* The steps of each kind of executor.                                      *)

\* Queue q has n entries more after the step, the others as many as before.
Longer(q, n) == \A r \in Queues : Len(fifo'[r]) = Len(fifo[r]) + (IF r = q THEN n ELSE 0)

\* What x holds, scans and evicts grows by dh, ds and de.
Gains(x, dh, ds, de) ==
    /\ HeldBy(x)' = HeldBy(x) + dh
    /\ ScannedBy(x)' = ScannedBy(x) + ds
    /\ EvictedBy(x)' = EvictedBy(x) + de

LEMMA Enqueued ==
    ASSUME TypeOK, NEW q \in Queues, NEW d \in Pages, fifo' = EnqueueFifo(q, d)
    PROVE  Longer(q, 1)
<1>1. fifo \in [Queues -> Seq(Pages)]
  BY DEF TypeOK
<1> SUFFICES ASSUME NEW r \in Queues
             PROVE  Len(fifo'[r]) = Len(fifo[r]) + (IF r = q THEN 1 ELSE 0)
  BY DEF Longer
<1>2. CASE r = q
  BY <1>1, <1>2 DEF EnqueueFifo
<1>3. CASE r # q
  <2>1. fifo'[r] = fifo[r] /\ fifo[r] \in Seq(Pages)
    BY <1>1, <1>3 DEF EnqueueFifo
  <2> QED  BY <1>3, <2>1
<1> QED  BY <1>2, <1>3

LEMMA Dequeued ==
    ASSUME TypeOK, NEW q \in Queues, fifo[q] # <<>>, fifo' = DequeueFifo(q)
    PROVE  Longer(q, -1)
<1>1. fifo \in [Queues -> Seq(Pages)]
  BY DEF TypeOK
<1> SUFFICES ASSUME NEW r \in Queues
             PROVE  Len(fifo'[r]) = Len(fifo[r]) + (IF r = q THEN -1 ELSE 0)
  BY DEF Longer
<1>2. CASE r = q
  <2>1. fifo'[r] = Tail(fifo[r]) /\ fifo[r] \in Seq(Pages) /\ fifo[r] # <<>>
    BY <1>1, <1>2 DEF DequeueFifo
  <2> QED  BY <1>2, <2>1
<1>3. CASE r # q
  <2>1. fifo'[r] = fifo[r] /\ fifo[r] \in Seq(Pages)
    BY <1>1, <1>3 DEF DequeueFifo
  <2> QED  BY <1>3, <2>1
<1> QED  BY <1>2, <1>3

\* What x has is a number.
LEMMA HeldNat ==
    ASSUME TypeOK, NEW x
    PROVE  HeldBy(x) \in Nat
<1>1. CASE x \in Threads
  <2>1. fault[x].frees \in Seq(Pages)
    BY <1>1 DEF TypeOK, FaultLocals
  <2>2. PICK n : n = Len(fault[x].frees)
    OBVIOUS
  <2>3. HeldBy(x) = n + (IF x \in Publishing THEN 1 ELSE 0)
    BY <1>1, <2>2 DEF HeldBy
  <2>4. n \in Nat
    BY <2>1, <2>2
  <2> QED  BY <2>3, <2>4
<1>2. CASE x \notin Threads
  BY <1>2 DEF HeldBy
<1> QED  BY <1>1, <1>2

\* A step that leaves the lists and what x has alone moves nothing.
LEMMA NothingMoves ==
    ASSUME NEW x, fifo' = fifo, HeldBy(x)' = HeldBy(x),
           ScannedBy(x)' = ScannedBy(x), EvictedBy(x)' = EvictedBy(x)
    PROVE  Moves(x)
BY DEF Moves, Moved, FreeOf, ResidentOf, EvictingOf

\* The moves there are.
Change(q, n, dh, ds, de) ==
    \/ q \in {"active", "inactive"} /\ n + ds = 0 /\ dh = 0 /\ de = 0
    \/ q = "eviction" /\ n = 1 /\ ds = -1 /\ dh = 0 /\ de = 0
    \/ q = "eviction" /\ n = -1 /\ ds = 0 /\ dh = 0 /\ de = 1
    \/ q = "dram_free" /\ n = 1 /\ ds = 0 /\ dh = 0 /\ de = -1
    \/ q = "dram_free" /\ n = -1 /\ ds = 0 /\ dh = 1 /\ de = 0
    \/ q = "dram_free" /\ n = 1 /\ ds = 0 /\ dh = -1 /\ de = 0
    \/ q = "inactive" /\ n = 1 /\ ds = 0 /\ dh = -1 /\ de = 0
    \/ q = "disk_free" /\ ds = 0 /\ dh = 0 /\ de = 0
    \/ q = "disk_free" /\ ds = 0 /\ dh = 1 /\ de = -1

LEMMA Ones == -1 \in Int /\ 0 \in Int /\ 1 \in Int
OBVIOUS

\* They are moves of FrameFlow.
LEMMA ChangeMoves ==
    ASSUME TypeOK, NEW x, NEW q \in Queues, NEW n \in Int, NEW dh \in Int, NEW ds \in Int,
           NEW de \in Int, Longer(q, n), Gains(x, dh, ds, de), Change(q, n, dh, ds, de)
    PROVE  Moves(x)
<1>1. PICK f, a, i, v, f1, a1, i1, v1 :
        /\ f = Len(fifo["dram_free"]) /\ f1 = Len(fifo'["dram_free"])
        /\ a = Len(fifo["active"]) /\ a1 = Len(fifo'["active"])
        /\ i = Len(fifo["inactive"]) /\ i1 = Len(fifo'["inactive"])
        /\ v = Len(fifo["eviction"]) /\ v1 = Len(fifo'["eviction"])
  OBVIOUS
<1>2. f \in Nat /\ a \in Nat /\ i \in Nat /\ v \in Nat
  BY <1>1 DEF TypeOK, Queues
<1>3. /\ f1 = f + (IF q = "dram_free" THEN n ELSE 0)
      /\ a1 = a + (IF q = "active" THEN n ELSE 0)
      /\ i1 = i + (IF q = "inactive" THEN n ELSE 0)
      /\ v1 = v + (IF q = "eviction" THEN n ELSE 0)
  BY <1>1 DEF Longer, Queues
<1>4. PICK h, s, e : h = HeldBy(x) /\ s = ScannedBy(x) /\ e = EvictedBy(x)
  OBVIOUS
<1>5. h \in Nat /\ s \in Nat /\ e \in Nat
  BY <1>4, HeldNat DEF ScannedBy, EvictedBy
<1>6. /\ FreeOf = f /\ FreeOf' = f1 /\ HeldBy(x) = h /\ HeldBy(x)' = h + dh
      /\ ResidentOf(x) = a + i + s /\ ResidentOf(x)' = a1 + i1 + (s + ds)
      /\ EvictingOf(x) = v + e /\ EvictingOf(x)' = v1 + (e + de)
  BY <1>1, <1>4 DEF FreeOf, ResidentOf, EvictingOf, Gains
<1>7. Moved(f, h, a + i + s, v + e, f1, h + dh, a1 + i1 + (s + ds), v1 + (e + de))
  BY <1>2, <1>3, <1>5 DEF Change, Moved
<1> QED  BY <1>6, <1>7 DEF Moves

\* What an evictor has depends on where it is.
LEMMA EvictedByPc ==
    ASSUME TypeInv, NEW e \in Evictors
    PROVE  /\ e \in Evicting <=> \/ pc[e] \in {"protect", "back", "write", "unmap", "mark",
                                               "free_frame"}
                                 \/ pc[e] = "track" /\ (e \in Threads \/ ~evict[e].backed)
                                 \/ pc[e] = "release" /\ e \in Threads
           /\ pc \in [Executors -> PcLabels] /\ evict \in [Evictors -> EvictLocals]
           /\ e \in Executors
<1>1. e \in Executors
  BY DEF Evictors, Executors
<1>2. EvictorOK(e)
  BY <1>1 DEF TypeInv, UseInv, LocalsOK, LocalOK
<1>3. pc \in [Executors -> PcLabels] /\ evict \in [Evictors -> EvictLocals]
  BY DEF TypeInv, UseInv, TypeOK
<1>4. e \in Evicting <=> pc[e] \in {"protect", "back"} \/ evict[e].dpage # 0
  BY DEF Evicting, HasVictimsFrame
<1> QED  BY <1>1, <1>2, <1>3, <1>4 DEF EvictorOK

\* The steps of an eviction.
LEMMA EvictMoves ==
    ASSUME TypeInv, NEW e \in Evictors, EvictStep(e) \/ ReleaseVictim(e), ~Crash,
           LocalOK(e)'
    PROVE  Moves(e)
<1>0. /\ TypeOK /\ e \in Executors /\ pc \in [Executors -> PcLabels]
      /\ evict \in [Evictors -> EvictLocals] /\ EvictorOK(e)
  BY EvictedByPc DEF TypeInv, UseInv, LocalsOK, LocalOK
<1>1. /\ e \in Evicting <=> \/ pc[e] \in {"protect", "back", "write", "unmap", "mark",
                                          "free_frame"}
                            \/ pc[e] = "track" /\ (e \in Threads \/ ~evict[e].backed)
                            \/ pc[e] = "release" /\ e \in Threads
      /\ e \in Evicting' <=> \/ pc'[e] \in {"protect", "back", "write", "unmap", "mark",
                                            "free_frame"}
                             \/ pc'[e] = "track" /\ (e \in Threads \/ ~evict'[e].backed)
                             \/ pc'[e] = "release" /\ e \in Threads
  <2>1. EvictorOK(e)'
    BY DEF LocalOK
  <2> QED  BY <2>1, EvictedByPc DEF EvictorOK, Evicting, HasVictimsFrame
<1>2. /\ UNCHANGED <<fault, scan>> /\ pc[e] # "publish" /\ pc'[e] # "publish"
  <2>1. CASE TakeVictim(e) \/ ProtectVictim(e) \/ BackByReserve(e) \/ BackByFreeSlot(e)
    BY <1>0, <2>1 DEF TakeVictim, ProtectVictim, BackByReserve, BackByFreeSlot, Abort, Crash, At,
         AssertLabels
  <2>2. CASE WriteBack(e) \/ UnmapVictim(e) \/ MarkSwappedOut(e)
    BY <1>0, <2>2 DEF WriteBack, UnmapVictim, MarkSwappedOut, Abort, Crash, At, AssertLabels
  <2>3. CASE FreeFrame(e) \/ TrackVictim(e) \/ ReleaseVictim(e)
    BY <1>0, <2>3 DEF FreeFrame, TrackVictim, ReleaseVictim, Abort, Crash, At, AssertLabels
  <2> QED  BY <2>1, <2>2, <2>3 DEF EvictStep
<1>3. HeldBy(e)' = HeldBy(e) /\ ScannedBy(e)' = ScannedBy(e)
  BY <1>2 DEF HeldBy, ScannedBy, Publishing, Scanning
<1>4. HeldBy(e)' = HeldBy(e) + 0 /\ ScannedBy(e)' = ScannedBy(e) + 0
  <2>1. HeldBy(e) \in Nat
    BY <1>0, HeldNat
  <2>2. ScannedBy(e) \in Nat
    BY DEF ScannedBy
  <2> QED  BY <1>3, <2>1, <2>2
<1>5. CASE TakeVictim(e)
  <2>1. /\ fifo["eviction"] # <<>> /\ fifo' = DequeueFifo("eviction")
        /\ pc[e] \in {"idle", "reclaim"} /\ pc'[e] = "protect"
    BY <1>0, <1>5 DEF TakeVictim, At
  <2>2. EvictedBy(e)' = EvictedBy(e) + 1
    BY <1>1, <2>1 DEF EvictedBy
  <2>3. Longer("eviction", -1)
    BY <1>0, <2>1, Dequeued DEF Queues
  <2>4. Change("eviction", -1, 0, 0, 1) /\ Gains(e, 0, 0, 1)
    BY <1>4, <2>2 DEF Change, Gains
  <2> QED  BY <1>0, <2>3, <2>4, ChangeMoves, Ones, Zenon DEF Queues
<1>6. CASE FreeFrame(e)
  <2>1. /\ pc[e] = "free_frame" /\ fifo' = EnqueueFifo("dram_free", evict[e].dpage)
        /\ pc'[e] = (IF evict[e].backed THEN "track" ELSE "release")
        /\ evict'[e].backed = evict[e].backed
    BY <1>0, <1>6 DEF FreeFrame, At, DiskPage, EvictLocals
  <2>2. e \in Workers /\ evict[e].dpage \in Pages
    BY <1>0, <2>1 DEF EvictorOK, EvictLocals
  <2>3. EvictedBy(e)' = EvictedBy(e) + (-1)
    BY <1>1, <2>1, <2>2, ExecutorAssumption DEF EvictedBy
  <2>4. Longer("dram_free", 1)
    BY <1>0, <2>1, <2>2, Enqueued DEF Queues
  <2>5. Change("dram_free", 1, 0, 0, -1) /\ Gains(e, 0, 0, -1)
    BY <1>4, <2>3 DEF Change, Gains
  <2> QED  BY <1>0, <2>4, <2>5, ChangeMoves, Ones, Zenon DEF Queues
<1>7. CASE BackByFreeSlot(e)
  <2>1. /\ pc[e] = "back" /\ fifo["disk_free"] # <<>> /\ fifo' = DequeueFifo("disk_free")
        /\ pc'[e] = "write"
    BY <1>0, <1>7 DEF BackByFreeSlot, At, Abort, Crash, AssertLabels
  <2>2. EvictedBy(e)' = EvictedBy(e) + 0
    BY <1>1, <2>1 DEF EvictedBy
  <2>3. Longer("disk_free", -1)
    BY <1>0, <2>1, Dequeued DEF Queues
  <2>4. Change("disk_free", -1, 0, 0, 0) /\ Gains(e, 0, 0, 0)
    BY <1>4, <2>2 DEF Change, Gains
  <2> QED  BY <1>0, <2>3, <2>4, ChangeMoves, Ones, Zenon DEF Queues
<1>8. CASE ProtectVictim(e) \/ BackByReserve(e) \/ WriteBack(e) \/ UnmapVictim(e)
  <2>1. /\ fifo' = fifo /\ pc[e] \in {"protect", "back", "write", "unmap"}
        /\ pc'[e] \in {"back", "write", "unmap", "mark"}
    BY <1>0, <1>8 DEF ProtectVictim, BackByReserve, WriteBack, UnmapVictim, At, Abort,
         Crash, AssertLabels
  <2> QED  BY <1>1, <1>3, <2>1, NothingMoves DEF EvictedBy
<1>9. CASE MarkSwappedOut(e)
  <2>1. /\ fifo' = fifo /\ pc[e] = "mark" /\ evict' = evict
        /\ pc'[e] = (IF e \in Workers /\ evict[e].backed THEN "free_frame" ELSE "track")
    BY <1>0, <1>9 DEF MarkSwappedOut, At, Abort, Crash, AssertLabels
  <2> QED  BY <1>1, <1>3, <2>1, NothingMoves DEF EvictedBy, Evictors
<1>10. CASE TrackVictim(e)
  <2>1. /\ fifo' = fifo /\ pc[e] = "track" /\ evict' = evict
        /\ pc'[e] = (IF e \in Workers /\ ~evict[e].backed THEN "free_frame" ELSE "release")
    BY <1>0, <1>10 DEF TrackVictim, At
  <2> QED  BY <1>1, <1>3, <2>1, NothingMoves, ExecutorAssumption DEF EvictedBy, Evictors
<1>11. CASE ReleaseVictim(e)
  <2>1. fifo' = fifo /\ pc[e] = "release" /\ e \in Workers /\ pc'[e] = "idle"
    BY <1>0, <1>11 DEF ReleaseVictim, At, Abort, Crash, AssertLabels
  <2> QED  BY <1>1, <1>3, <2>1, NothingMoves, ExecutorAssumption DEF EvictedBy
<1> QED  BY <1>5, <1>6, <1>7, <1>8, <1>9, <1>10, <1>11 DEF EvictStep

\* The steps of a scan.
LEMMA ScanMoves ==
    ASSUME TypeInv, NEW e \in Scanners, ScanStep(e)
    PROVE  Moves(e)
<1>0. /\ TypeOK /\ e \in Executors /\ pc \in [Executors -> PcLabels]
      /\ scan \in [Scanners -> Pages \cup {0}] /\ (scan[e] # 0 <=> pc[e] \in ScanPcs)
  BY DEF TypeInv, UseInv, TypeOK, LocalsOK, LocalOK, Scanners, Executors
<1>1. /\ UNCHANGED <<fault, evict>>
      /\ pc[e] \notin {"publish", "protect", "back"} /\ pc'[e] \notin {"publish", "protect", "back"}
  BY <1>0 DEF ScanStep, ScanInactive, KeepOrEvict, ScanActive, Deactivate, ScanTake, ScanPut, At,
       ScanPoint
<1>2. HeldBy(e)' = HeldBy(e) /\ EvictedBy(e)' = EvictedBy(e)
  BY <1>1 DEF HeldBy, EvictedBy, Publishing, Evicting, HasVictimsFrame
<1>3. HeldBy(e)' = HeldBy(e) + 0 /\ EvictedBy(e)' = EvictedBy(e) + 0
  <2>1. HeldBy(e) \in Nat
    BY <1>0, HeldNat
  <2>2. EvictedBy(e) \in Nat
    BY DEF EvictedBy
  <2> QED  BY <1>2, <2>1, <2>2
<1>4. ASSUME NEW q \in {"active", "inactive"}, NEW l, ScanTake(e, q, l)
      PROVE  Moves(e)
  <2>1. /\ fifo[q] # <<>> /\ fifo' = DequeueFifo(q) /\ pc[e] \notin ScanPcs
        /\ scan'[e] = Head(fifo[q]) /\ q \in Queues
    BY <1>0, <1>4 DEF ScanTake, At, ScanPoint, ScanPcs, Queues
  <2>2. scan'[e] # 0
    <3>1. Head(fifo[q]) \in Pages
      BY <1>0, <2>1, HeadTail DEF TypeOK
    <3> QED  BY <2>1, <3>1, SizeAssumption DEF Pages
  <2>3. ScannedBy(e)' = ScannedBy(e) + 1
    BY <1>0, <2>1, <2>2 DEF ScannedBy, Scanning
  <2>4. Longer(q, -1)
    BY <1>0, <2>1, Dequeued
  <2>5. Change(q, -1, 0, 1, 0) /\ Gains(e, 0, 1, 0)
    BY <1>3, <2>3 DEF Change, Gains
  <2>6. TypeOK /\ q \in Queues
    BY <1>0, <2>1
  <2> QED  BY <2>4, <2>5, <2>6, ChangeMoves, Ones, Zenon
<1>5. ASSUME NEW q \in {"active", "inactive", "eviction"}, pc[e] \in ScanPcs, ScanPut(e, q)
      PROVE  Moves(e)
  <2>1. /\ fifo' = EnqueueFifo(q, scan[e]) /\ scan'[e] = 0 /\ q \in Queues
        /\ scan[e] \in Pages
    BY <1>0, <1>5 DEF ScanPut, Queues
  <2>2. ScannedBy(e)' = ScannedBy(e) + (-1)
    BY <1>0, <1>5, <2>1 DEF ScannedBy, Scanning
  <2>3. Longer(q, 1)
    BY <1>0, <2>1, Enqueued
  <2>4. Change(q, 1, 0, -1, 0) /\ Gains(e, 0, -1, 0)
    BY <1>3, <2>2 DEF Change, Gains
  <2>5. TypeOK /\ q \in Queues
    BY <1>0, <2>1
  <2> QED  BY <2>3, <2>4, <2>5, ChangeMoves, Ones, Zenon
<1>6. CASE ScanInactive(e) \/ ScanActive(e)
  BY <1>4, <1>6 DEF ScanInactive, ScanActive
<1>7. CASE KeepOrEvict(e) \/ Deactivate(e)
  BY <1>5, <1>7 DEF KeepOrEvict, Deactivate, At, ScanPcs
<1> QED  BY <1>6, <1>7 DEF ScanStep

\* What a thread holds, scans and evicts.
LEMMA ThreadHas ==
    ASSUME NEW t \in Threads
    PROVE  /\ HeldBy(t) = Len(fault[t].frees) + (IF pc[t] = "publish" THEN 1 ELSE 0)
           /\ HeldBy(t)' = Len(fault'[t].frees) + (IF pc'[t] = "publish" THEN 1 ELSE 0)
           /\ ScannedBy(t) = (IF scan[t] # 0 THEN 1 ELSE 0)
           /\ ScannedBy(t)' = (IF scan'[t] # 0 THEN 1 ELSE 0)
           /\ EvictedBy(t) =
                (IF pc[t] \in {"protect", "back"} \/ evict[t].dpage # 0 THEN 1 ELSE 0)
           /\ EvictedBy(t)' =
                (IF pc'[t] \in {"protect", "back"} \/ evict'[t].dpage # 0 THEN 1 ELSE 0)
BY DEF HeldBy, ScannedBy, EvictedBy, Publishing, Scanning, Evicting, HasVictimsFrame,
       Scanners, Evictors

\* A thread that neither scans nor evicts in this step.
LEMMA ThreadGains ==
    ASSUME NEW t \in Threads, scan' = scan, evict' = evict,
           pc'[t] = pc[t] \/ (/\ pc[t] \notin {"protect", "back"}
                              /\ pc'[t] \notin {"protect", "back"}),
           NEW k \in Int, HeldBy(t)' = HeldBy(t) + k
    PROVE  Gains(t, k, 0, 0)
<1>1. ScannedBy(t)' = ScannedBy(t) /\ EvictedBy(t)' = EvictedBy(t)
  BY ThreadHas
<1>2. ScannedBy(t) \in Nat /\ EvictedBy(t) \in Nat
  BY DEF ScannedBy, EvictedBy
<1>3. ScannedBy(t)' = ScannedBy(t) + 0 /\ EvictedBy(t)' = EvictedBy(t) + 0
  BY <1>1, <1>2
<1> QED  BY <1>3 DEF Gains

\* The steps of the handler that move no frame.
LEMMA QuietFault ==
    ASSUME TypeInv, NEW t \in Threads, ~Crash,
           \/ uswap_sig_handler(t) \/ Spin(t) \/ handle_missing_fault(t) \/ DiskRead(t)
           \/ FetchReclaim(t) \/ FetchRetry(t) \/ FirstAllocate(t) \/ FirstMap(t)
           \/ PrefetchResident(t) \/ Settle(t) \/ PrefetchFind(t)
    PROVE  Moves(t)
<1>0. /\ t \in Executors /\ TypeOK /\ ThreadOK(t) /\ pc \in [Executors -> PcLabels]
      /\ fault \in [Threads -> FaultLocals] /\ fault[t].frees \in Seq(Pages)
  BY DEF TypeInv, UseInv, TypeOK, LocalsOK, LocalOK, Executors, FaultLocals
<1>1. /\ fifo' = fifo /\ scan' = scan /\ evict' = evict
      /\ fault'[t].frees = fault[t].frees
      /\ \/ pc'[t] = pc[t]
         \/ /\ pc[t] \notin {"publish", "protect", "back"}
            /\ pc'[t] \notin {"publish", "protect", "back"}
  <2>1. CASE uswap_sig_handler(t)
    BY <1>0, <2>1 DEF uswap_sig_handler, At, sharedVars, FaultLocals
  <2>2. CASE Spin(t)
    BY <1>0, <2>2 DEF Spin, Resume, At, sharedVars, NoFault, ThreadOK
  <2>3. CASE handle_missing_fault(t)
    BY <1>0, <2>3 DEF handle_missing_fault, At, sharedVars, FaultLocals, Abort, Crash, AssertLabels
  <2>4. CASE DiskRead(t)
    BY <1>0, <2>4 DEF DiskRead, sharedVars, FaultLocals
  <2>5. CASE FetchReclaim(t) \/ FetchRetry(t)
    BY <1>0, <2>5 DEF FetchReclaim, FetchRetry, At, sharedVars
  <2>6. CASE FirstAllocate(t)
    BY <1>0, <2>6 DEF FirstAllocate, At, sharedVars, FaultLocals, Abort, Crash, AssertLabels
  <2>7. CASE FirstMap(t)
    BY <1>0, <2>7 DEF FirstMap, At, Abort, Crash, AssertLabels
  <2>8. CASE PrefetchResident(t)
    BY <1>0, <2>8 DEF PrefetchResident, At
  <2>9. CASE Settle(t)
    <3>1. pc[t] = "settle" /\ fifo' = fifo /\ scan' = scan /\ evict' = evict
      BY <1>0, <2>9 DEF Settle, At
    <3>2. fault[t].reading = <<>> => fault[t].frees = <<>>
      BY <1>0, <3>1 DEF ThreadOK, SettlePcs
    <3>3. CASE fault[t].reading = <<>> /\ Resume(t)
      BY <1>0, <3>1, <3>2, <3>3 DEF Resume, NoFault
    <3>4. CASE /\ fault' = [fault EXCEPT ![t].job = "prefetch", ![t].page = 0]
               /\ pc' = [pc EXCEPT ![t] = "find"]
      BY <1>0, <3>1, <3>4 DEF FaultLocals
    <3>5. CASE fault' = [fault EXCEPT ![t].page = 0] /\ pc' = [pc EXCEPT ![t] = "finish"]
      BY <1>0, <3>1, <3>5 DEF FaultLocals
    <3> QED  BY <2>9, <3>3, <3>4, <3>5 DEF Settle
  <2>10. CASE PrefetchFind(t)
    <3>1. pc[t] = "find" /\ fault[t].frees = <<>> /\ fifo' = fifo /\ scan' = scan /\ evict' = evict
      BY <1>0, <2>10 DEF PrefetchFind, At, sharedVars, ThreadOK, Abort, Crash, AssertLabels
    <3>2. CASE /\ fault' = [fault EXCEPT ![t].reading = Append(@, find_page(PrefetchNext(t)))]
               /\ pc' = pc
      BY <1>0, <3>1, <3>2 DEF FaultLocals
    <3>3. CASE Resume(t)
      BY <1>0, <3>1, <3>3 DEF Resume, NoFault
    <3>4. CASE fault' = fault /\ pc' = [pc EXCEPT ![t] = "fetch"]
      BY <1>0, <3>1, <3>4
    <3> QED  BY <2>10, <3>2, <3>3, <3>4 DEF PrefetchFind, Abort, Crash, AssertLabels
  <2> QED  BY <2>1, <2>2, <2>3, <2>4, <2>5, <2>6, <2>7, <2>8, <2>9, <2>10
<1>2. /\ HeldBy(t)' = HeldBy(t) /\ ScannedBy(t)' = ScannedBy(t)
      /\ EvictedBy(t)' = EvictedBy(t)
  BY <1>1, ThreadHas
<1> QED  BY <1>1, <1>2, NothingMoves

\* The steps of the handler that take a frame, hand it on or use it.
LEMMA BusyFault ==
    ASSUME TypeInv, NEW t \in Threads, ~Crash, LocalOK(t)', TypeOK',
           \/ FetchFree(t) \/ FetchEvicted(t) \/ PutBack(t) \/ FirstAdd(t)
           \/ FinishRead(t) \/ PublishPage(t)
    PROVE  Moves(t)
<1>0. /\ t \in Executors /\ TypeOK /\ ThreadOK(t) /\ EvictorOK(t)
      /\ pc \in [Executors -> PcLabels]
      /\ fault \in [Threads -> FaultLocals] /\ fault[t].frees \in Seq(Pages)
      /\ fault'[t].frees \in Seq(Pages)
      /\ t \in Evictors /\ evict \in [Evictors -> EvictLocals]
  BY DEF TypeInv, UseInv, TypeOK, LocalsOK, LocalOK, Executors, Evictors, FaultLocals
<1>1. PICK k, k1 : k = Len(fault[t].frees) /\ k1 = Len(fault'[t].frees)
  OBVIOUS
<1>2. k \in Nat /\ k1 \in Nat
  BY <1>0, <1>1
<1>3. /\ HeldBy(t) = k + (IF pc[t] = "publish" THEN 1 ELSE 0)
      /\ HeldBy(t)' = k1 + (IF pc'[t] = "publish" THEN 1 ELSE 0)
  BY <1>1, ThreadHas
<1>4. CASE FetchFree(t)
  <2>1. /\ pc[t] = "fetch" /\ fifo["dram_free"] # <<>> /\ fifo' = DequeueFifo("dram_free")
        /\ scan' = scan /\ evict' = evict /\ pc'[t] \in {"allocate", "fetch", "finish"}
        /\ fault'[t].frees = Append(fault[t].frees, Head(fifo["dram_free"]))
    BY <1>0, <1>4 DEF FetchFree, ReceiveFrame, At, FaultLocals
  <2>2. k1 = k + 1
    <3>1. Head(fifo["dram_free"]) \in Pages
      BY <1>0, <2>1, HeadTail DEF TypeOK, Queues
    <3> QED  BY <1>0, <1>1, <2>1, <3>1
  <2>3. HeldBy(t)' = HeldBy(t) + 1
    BY <1>2, <1>3, <2>1, <2>2
  <2>4. Gains(t, 1, 0, 0)
    BY <2>1, <2>3, ThreadGains
  <2>5. Longer("dram_free", -1)
    BY <1>0, <2>1, Dequeued DEF Queues
  <2>6. Change("dram_free", -1, 1, 0, 0)
    BY DEF Change
  <2> QED  BY <1>0, <2>4, <2>5, <2>6, ChangeMoves, Ones, Zenon DEF Queues
<1>5. CASE FetchEvicted(t)
  <2>1. /\ pc[t] = "release" /\ fifo' = fifo /\ scan' = scan
        /\ evict'[t] = NoEvict /\ pc'[t] \in {"allocate", "fetch", "finish"}
        /\ fault'[t].frees = Append(fault[t].frees, evict[t].dpage)
    BY <1>0, <1>5 DEF FetchEvicted, ReceiveFrame, At, FaultLocals, DiskPage, Abort, Crash,
         AssertLabels
  <2>2. evict[t].dpage \in Pages
    BY <1>0, <2>1 DEF EvictorOK, EvictLocals
  <2>3. k1 = k + 1
    BY <1>0, <1>1, <2>1, <2>2
  <2>4. HeldBy(t)' = HeldBy(t) + 1
    BY <1>2, <1>3, <2>1, <2>3
  <2>5. ScannedBy(t)' = ScannedBy(t) + 0
    <3>1. ScannedBy(t)' = ScannedBy(t)
      BY <2>1, ThreadHas
    <3>2. ScannedBy(t) \in Nat
      BY DEF ScannedBy
    <3> QED  BY <3>1, <3>2
  <2>6. EvictedBy(t)' = EvictedBy(t) + (-1)
    <3>1. evict[t].dpage # 0 /\ evict'[t].dpage = 0
      BY <2>1, <2>2, SizeAssumption DEF Pages, NoEvict
    <3>2. EvictedBy(t) = 1 /\ EvictedBy(t)' = 0
      BY <2>1, <3>1, ThreadHas
    <3> QED  BY <3>2
  <2>7. Longer("disk_free", 0)
    <3> SUFFICES ASSUME NEW r \in Queues
                 PROVE  Len(fifo'[r]) = Len(fifo[r]) + (IF r = "disk_free" THEN 0 ELSE 0)
      BY DEF Longer
    <3>1. fifo[r] \in Seq(Pages)
      BY <1>0 DEF TypeOK
    <3> QED  BY <2>1, <3>1
  <2>8. Change("disk_free", 0, 1, 0, -1) /\ Gains(t, 1, 0, -1)
    BY <2>4, <2>5, <2>6 DEF Change, Gains
  <2> QED  BY <1>0, <2>7, <2>8, ChangeMoves, Ones, Zenon DEF Queues
<1>6. CASE PutBack(t)
  <2>1. /\ pc[t] = "put_back" /\ fifo' = EnqueueFifo("dram_free", fault[t].frees[1])
        /\ scan' = scan /\ evict' = evict /\ pc'[t] = "spin" /\ fault'[t].frees = <<>>
    BY <1>0, <1>6 DEF PutBack, NewPage, At, FaultLocals, Abort, Crash, AssertLabels
  <2>2. Len(fault[t].frees) = 1
    BY <1>0, <2>1 DEF ThreadOK, FirstPcs
  <2>3. HeldBy(t)' = HeldBy(t) + (-1)
    <3>1. k = 1 /\ k1 = 0
      BY <1>1, <2>1, <2>2
    <3>2. HeldBy(t) = 1 /\ HeldBy(t)' = 0
      BY <1>3, <2>1, <3>1
    <3> QED  BY <3>2
  <2>4. Gains(t, -1, 0, 0)
    BY <2>1, <2>3, ThreadGains
  <2>5. fault[t].frees[1] \in Pages
    BY <1>0, <2>2
  <2>6. Longer("dram_free", 1)
    BY <1>0, <2>1, <2>5, Enqueued DEF Queues
  <2>7. Change("dram_free", 1, -1, 0, 0)
    BY DEF Change
  <2> QED  BY <1>0, <2>4, <2>6, <2>7, ChangeMoves, Ones, Zenon DEF Queues
<1>7. CASE FirstAdd(t)
  <2>1. /\ pc[t] = "add" /\ fifo' = EnqueueFifo("inactive", fault[t].frees[1])
        /\ scan' = scan /\ evict' = evict /\ pc'[t] = "idle" /\ fault'[t].frees = <<>>
    <3>1. /\ At(t, "add") /\ fifo' = EnqueueFifo("inactive", fault[t].frees[1])
          /\ scan' = scan /\ evict' = evict /\ Resume(t)
      BY <1>7 DEF FirstAdd, NewPage, Abort, Crash, AssertLabels, At
    <3> QED  BY <1>0, <3>1 DEF Resume, NoFault, At
  <2>2. Len(fault[t].frees) = 1
    BY <1>0, <2>1 DEF ThreadOK, FirstPcs
  <2>3. HeldBy(t)' = HeldBy(t) + (-1)
    <3>1. k = 1 /\ k1 = 0
      BY <1>1, <2>1, <2>2
    <3>2. HeldBy(t) = 1 /\ HeldBy(t)' = 0
      BY <1>3, <2>1, <3>1
    <3> QED  BY <3>2
  <2>4. Gains(t, -1, 0, 0)
    BY <2>1, <2>3, ThreadGains
  <2>5. fault[t].frees[1] \in Pages
    BY <1>0, <2>2
  <2>6. Longer("inactive", 1)
    BY <1>0, <2>1, <2>5, Enqueued DEF Queues
  <2>7. Change("inactive", 1, -1, 0, 0)
    BY DEF Change
  <2> QED  BY <1>0, <2>4, <2>6, <2>7, ChangeMoves, Ones, Zenon DEF Queues
<1>8. CASE FinishRead(t)
  <2>1. /\ pc[t] = "finish" /\ fifo' = fifo /\ scan' = scan /\ evict' = evict
        /\ pc'[t] = "publish" /\ fault'[t].frees = Tail(fault[t].frees)
    <3>1. /\ At(t, "finish") /\ fifo' = fifo /\ scan' = scan /\ evict' = evict
          /\ pc' = [pc EXCEPT ![t] = "publish"]
          /\ fault' = [fault EXCEPT ![t].page = Head(fault[t].reading), ![t].reading = Tail(@),
                                    ![t].buf = Tail(@), ![t].frees = Tail(@)]
      BY <1>8 DEF FinishRead, Abort, Crash, AssertLabels, At
    <3> QED  BY <1>0, <3>1 DEF At, FaultLocals
  <2>2. fault[t].frees # <<>>
    BY <1>0, <2>1 DEF ThreadOK, FaultLocals
  <2>3. k1 = k - 1
    BY <1>0, <1>1, <2>1, <2>2
  <2>4. HeldBy(t)' = HeldBy(t)
    BY <1>2, <1>3, <2>1, <2>3
  <2>5. ScannedBy(t)' = ScannedBy(t) /\ EvictedBy(t)' = EvictedBy(t)
    BY <2>1, ThreadHas
  <2> QED  BY <2>1, <2>4, <2>5, NothingMoves
<1>9. CASE PublishPage(t)
  <2>1. /\ pc[t] = "publish" /\ fifo' = EnqueueFifo("inactive", fault[t].page)
        /\ scan' = scan /\ evict' = evict /\ pc'[t] \in {"settle", "resident"}
        /\ fault' = fault
    BY <1>0, <1>9 DEF PublishPage, At
  <2>2. fault[t].page \in Pages
    BY <1>0, <2>1 DEF ThreadOK, SettlePcs, FaultLocals
  <2>3. k1 = k
    BY <1>1, <2>1
  <2>4. HeldBy(t)' = HeldBy(t) + (-1)
    BY <1>2, <1>3, <2>1, <2>3
  <2>5. Gains(t, -1, 0, 0)
    BY <2>1, <2>4, ThreadGains
  <2>6. Longer("inactive", 1)
    BY <1>0, <2>1, <2>2, Enqueued DEF Queues
  <2>7. Change("inactive", 1, -1, 0, 0)
    BY DEF Change
  <2> QED  BY <1>0, <2>5, <2>6, <2>7, ChangeMoves, Ones, Zenon DEF Queues
<1> QED  BY <1>4, <1>5, <1>6, <1>7, <1>8, <1>9

-----------------------------------------------------------------------------
(* The refinement.                                                          *)

\* An access of the application moves no frame.
LEMMA ApplicationMoves ==
    ASSUME TypeInv, NEW t \in Threads, Application(t)
    PROVE  Moves(t)
<1>0. t \in Executors /\ pc \in [Executors -> PcLabels] /\ fault \in [Threads -> FaultLocals]
  BY DEF TypeInv, UseInv, TypeOK, Executors
<1>1. /\ fifo' = fifo /\ scan' = scan /\ evict' = evict
      /\ fault'[t].frees = fault[t].frees
      /\ \/ pc'[t] = pc[t]
         \/ pc[t] = "idle" /\ pc'[t] = "signal"
  <2>1. ASSUME NEW v \in VA, Touch(t, v) PROVE <1>1!:
    BY <1>0, <2>1 DEF Touch, At, sharedVars, FaultLocals
  <2>2. ASSUME NEW v \in VA, NEW x \in Vals, Store(t, v, x) PROVE <1>1!:
    BY <2>2 DEF Store
  <2> QED  BY <2>1, <2>2 DEF Application
<1>2. /\ HeldBy(t)' = HeldBy(t) /\ ScannedBy(t)' = ScannedBy(t)
      /\ EvictedBy(t)' = EvictedBy(t)
  BY <1>1, ThreadHas
<1> QED  BY <1>1, <1>2, NothingMoves

\* Neither does a step that only ends the process, or none at all.
LEMMA QuietStep ==
    ASSUME CountsFinite, UNCHANGED <<fifo, pc, fault, scan, evict>>
    PROVE  CountsFinite' /\ [Flow!Next]_(Flow!flow)
<1>1. /\ Collected' = Collected /\ Publishing' = Publishing /\ Scanning' = Scanning
      /\ Evicting' = Evicting
  BY DEF Collected, Publishing, Scanning, Evicting, HasVictimsFrame
<1>2. CountsFinite'
  BY <1>1 DEF CountsFinite
<1>3. UNCHANGED <<Len(fifo["dram_free"]), HeldFrames, ResidentFrames, EvictingFrames>>
  BY <1>1 DEF HeldFrames, ResidentFrames, EvictingFrames
<1> QED  BY <1>2, <1>3 DEF Flow!flow

\* At the start every frame is free.
LEMMA FlowInit == Init => FlowInv /\ Flow!Init
<1> SUFFICES ASSUME Init PROVE FlowInv /\ Flow!Init
  OBVIOUS
<1>1. TypeInv
  BY InitInv
<1>2. Publishing = {} /\ Scanning = {} /\ Evicting = {}
  BY DEF Init, Publishing, Scanning, Evicting, HasVictimsFrame, NoEvict, Executors, Evictors
<1>3. Units(Collected) = {} /\ Total(Collected) = 0
  <2>1. \A t \in DOMAIN Collected : Collected[t] = 0
    BY DEF Init, Collected, NoFault
  <2> QED  BY <2>1, TotalZero
<1>4. IsFiniteSet({}) /\ Cardinality({}) = 0
  BY FS_EmptySet
<1>5. CountsFinite
  BY <1>2, <1>3, <1>4 DEF CountsFinite
<1>6. /\ fifo["active"] = <<>> /\ fifo["inactive"] = <<>> /\ fifo["eviction"] = <<>>
      /\ fifo["dram_free"] = [i \in 1 .. NDram |-> i]
  BY DEF Init, InitPages, InitFifo, Queues
<1>7. /\ Len(fifo["active"]) = 0 /\ Len(fifo["inactive"]) = 0 /\ Len(fifo["eviction"]) = 0
      /\ Len(fifo["dram_free"]) = NDram
  BY <1>6, SizeAssumption
<1>8. HeldFrames = 0 /\ ResidentFrames = 0 /\ EvictingFrames = 0
  BY <1>2, <1>3, <1>4, <1>7 DEF HeldFrames, ResidentFrames, EvictingFrames
<1> QED  BY <1>1, <1>5, <1>7, <1>8 DEF FlowInv, Flow!Init

\* Every step moves one frame or none.
LEMMA FlowNext == FlowInv /\ [Next]_vars => FlowInv' /\ [Flow!Next]_(Flow!flow)
<1> SUFFICES ASSUME FlowInv, [Next]_vars PROVE FlowInv' /\ [Flow!Next]_(Flow!flow)
  OBVIOUS
<1>1. TypeInv /\ UseInv /\ CountsFinite /\ TypeOK
  BY DEF FlowInv, TypeInv, UseInv
<1>2. TypeInv' /\ TypeOK'
  <2>1. TypeInv'
    BY <1>1, NextInv
  <2> QED  BY <2>1 DEF TypeInv, UseInv
<1> SUFFICES CountsFinite' /\ [Flow!Next]_(Flow!flow)
  BY <1>2 DEF FlowInv
<1>e. Threads \subseteq Executors /\ Workers \subseteq Executors /\ Kswapd \subseteq Executors
      /\ Threads \subseteq Evictors /\ Workers \subseteq Evictors
      /\ Threads \subseteq Scanners /\ Kswapd \subseteq Scanners
  BY DEF Executors, Evictors, Scanners
<1>l. \A x \in Executors : LocalOK(x)'
  BY <1>2 DEF TypeInv, UseInv, LocalsOK
<1>m. ASSUME NEW x \in Executors, StepOK(x), Moves(x)
      PROVE  CountsFinite' /\ [Flow!Next]_(Flow!flow)
  BY <1>m, <1>1, <1>2, StepCounts DEF StepOK
<1>3. CASE UNCHANGED vars \/ Crash \/ Aborted
  <2>1. UNCHANGED <<fifo, pc, fault, scan, evict>>
    BY <1>3 DEF vars, Crash, Aborted, sharedVars
  <2> QED  BY <1>1, <2>1, QuietStep
<1>4. ASSUME NEW t \in Threads, Application(t)
      PROVE  CountsFinite' /\ [Flow!Next]_(Flow!flow)
  BY <1>1, <1>e, <1>m, <1>4, ApplicationInv, ApplicationMoves
<1>5. ASSUME NEW t \in Threads, FaultStep(t), ~Crash
      PROVE  CountsFinite' /\ [Flow!Next]_(Flow!flow)
  <2>1. failed' = "none"
    BY <1>5, AbortCrashes
  <2>2. ~FetchOutOfMemory(t)
    BY <2>1 DEF FetchOutOfMemory, Abort
  <2>3. StepOK(t)
    BY <1>1, <1>5, <2>1, <2>2, FaultStartInv, FetchInv, FirstInv, SwapInInv DEF FaultStep
  <2>4. Moves(t)
    BY <1>1, <1>2, <1>e, <1>l, <1>5, <2>2, QuietFault, BusyFault DEF FaultStep
  <2> QED  BY <1>e, <1>m, <2>3, <2>4
<1>6. ASSUME NEW e \in Evictors, EvictStep(e), ~Crash, failed' = "none"
      PROVE  CountsFinite' /\ [Flow!Next]_(Flow!flow)
  <2>1. e \in Executors /\ StepOK(e)
    BY <1>1, <1>6, EvictInv DEF Evictors, Executors
  <2>2. Moves(e)
    BY <1>1, <1>l, <1>6, <2>1, EvictMoves
  <2> QED  BY <1>m, <2>1, <2>2
<1>7. ASSUME NEW w \in Workers, ReleaseVictim(w), ~Crash, failed' = "none"
      PROVE  CountsFinite' /\ [Flow!Next]_(Flow!flow)
  <2>1. StepOK(w)
    BY <1>1, <1>7, ReleaseInv
  <2>2. Moves(w)
    BY <1>1, <1>e, <1>l, <1>7, EvictMoves
  <2> QED  BY <1>e, <1>m, <2>1, <2>2
<1>8. ASSUME NEW e \in Scanners, ScanStep(e)
      PROVE  CountsFinite' /\ [Flow!Next]_(Flow!flow)
  <2>1. e \in Executors /\ StepOK(e)
    BY <1>1, <1>8, ScanInv DEF Scanners, Executors
  <2>2. Moves(e)
    BY <1>1, <1>8, ScanMoves
  <2> QED  BY <1>m, <2>1, <2>2
<1>9. ASSUME NEW t \in Threads, ThreadStep(t), ~Crash
      PROVE  CountsFinite' /\ [Flow!Next]_(Flow!flow)
  <2>1. EvictStep(t) => failed' = "none"
    BY <1>9, AbortCrashes
  <2> QED  BY <1>e, <1>5, <1>6, <1>8, <1>9, <2>1 DEF ThreadStep
<1>10. ASSUME NEW w \in Workers, WorkerStep(w), ~Crash
       PROVE  CountsFinite' /\ [Flow!Next]_(Flow!flow)
  <2>1. failed' = "none"
    BY <1>10, AbortCrashes
  <2> QED  BY <1>e, <1>6, <1>7, <1>10, <2>1 DEF WorkerStep
<1> QED  BY <1>e, <1>3, <1>4, <1>8, <1>9, <1>10 DEF Next

\* First touch, swap-in, prefetch, reclaim and eviction implement the flow of
\* NDram frames: every step of any thread moves one frame to its next place,
\* or none, so none is lost or made up.
THEOREM PagingImplementsFlowHolds == Spec => PagingImplementsFlow
<1>1. Init => FlowInv /\ Flow!Init
  BY FlowInit
<1>2. FlowInv /\ [Next]_vars => FlowInv' /\ [Flow!Next]_(Flow!flow)
  BY FlowNext
<1> QED  BY <1>1, <1>2, PTL DEF Spec, PagingImplementsFlow, Flow!Spec

=============================================================================
