---------------------------- MODULE MunmapProofs ----------------------------
(***************************************************************************)
(* Unmapping memory while the other threads page, with either policy:      *)
(* types, ownership and queues, and for pageRank the victims of its        *)
(* workers, what its prefetch worker reads ahead, and who moves a page     *)
(* that others wait for.                                                   *)
(***************************************************************************)
EXTENDS PageRank, ExtMemProofs

-----------------------------------------------------------------------------
(* The inductive invariant.                                                 *)

MapVarsOK ==
    /\ mapped \subseteq VA
    /\ unmap \in [at : UnmapLabels, by : SUBSET Threads, region : SUBSET VA,
                  todo : SUBSET VA, page : Pages \cup {0}]
    /\ newmap \in [Threads -> [region : SUBSET VA, todo : SUBSET VA]]

\* The page that munmap removes is that of the next address of its range, until
\* it has taken it.
UnmapOK ==
    /\ unmap.at = "idle" => unmap.region = {}
    /\ unmap.todo \subseteq unmap.region
    /\ unmap.at \notin {"idle", "page"} => unmap.page \in Pages /\ unmap.todo # {}
    /\ unmap.at \in {"wait", "relock", "remove", "take"} =>
         page[unmap.page].va = First(unmap.todo)
    /\ unmap.at = "take" => pages[First(unmap.todo)] = 0

\* No address is in two of the ranges.
RangesApart ==
    /\ mapped \cap unmap.region = {}
    /\ \A t \in Threads :
         /\ newmap[t].todo \subseteq newmap[t].region
         /\ newmap[t].region \cap (mapped \cup unmap.region) = {}
         /\ \A u \in Threads \ {t} : newmap[t].region \cap newmap[u].region = {}

\* No fault is on an address that is being unmapped, and a thread that is about
\* to claim a page has found it under the address of its fault.
FaultsApart ==
    \A t \in Threads :
      /\ fault[t].job # "prefetch" => fault[t].addr \notin unmap.region
      /\ pc[t] = "missing" => page[fault[t].page].va = fault[t].addr

MapInv == /\ UseInv /\ BatchesDistinct /\ QueuesMatch
          /\ MapVarsOK /\ MapOwnership
          /\ UnmapOK /\ RangesApart /\ FaultsApart

\* The process was ended by an assertion that ExtMem alone does not have.
Ended == failed \notin {"none"} \cup AssertLabels

\* What holds then, and for ever.
MapSafe == MapVarsOK /\ MapOwnership /\ QueuesMatch /\ (Ended \/ MapInv)

-----------------------------------------------------------------------------
(* Ranges and queues.                                                       *)

\* First(range) is in the range.
LEMMA FirstIn ==
    ASSUME NEW range \in SUBSET VA, range # {}
    PROVE  First(range) \in range /\ First(range) \in VA
<1>1. range \in SUBSET Nat
  BY SizeAssumption DEF VA
<1>2. \E v \in range : \A w \in range : v <= w
  BY <1>1, Least
<1> QED  BY <1>2 DEF First

\* A function on 1 .. n is a sequence.
LEMMA FunctionIsSeq ==
    ASSUME NEW S, NEW n \in Nat, NEW e(_), \A i \in 1 .. n : e(i) \in S
    PROVE  [i \in 1 .. n |-> e(i)] \in Seq(S)
  OBVIOUS

\* A page in the middle of a queue is taken out of it.
LEMMA QueueWithout ==
    ASSUME TypeOK, QueuesMatch, NEW p \in Pages, fifo' = WithoutPage(p),
           page'[p].list \notin Queues,
           \A d \in Pages \ {p} : page'[d].list = page[d].list
    PROVE  /\ QueuesMatch'
           /\ fifo' \in [Queues -> Seq(Pages)]
           /\ \A q \in Queues : \A i \in DOMAIN fifo'[q] :
                fifo'[q][i] # p /\ \E j \in DOMAIN fifo[q] : fifo'[q][i] = fifo[q][j]
<1>1. CASE page[p].list \notin Queues
  <2>1. fifo' = fifo
    BY <1>1 DEF WithoutPage
  <2>2. QueuesMatch'
    BY <1>1, <2>1, QueueQuiet
  <2> QED  BY <1>1, <2>1, <2>2 DEF TypeOK, QueuesMatch
<1>2. CASE page[p].list \in Queues
  <2> DEFINE q == page[p].list
             s == fifo[q]
             i == CHOOSE i \in DOMAIN s : s[i] = p
             a == [j \in 1 .. Len(s) - 1 |-> IF j < i THEN s[j] ELSE s[j + 1]]
  <2>0. s \in Seq(Pages) /\ q \in Queues
    BY <1>2 DEF TypeOK
  <2>1. i \in DOMAIN s /\ s[i] = p
    BY <1>2 DEF QueuesMatch
  <2>2. fifo'[q] = a /\ \A r \in Queues \ {q} : fifo'[r] = fifo[r]
    BY <1>2 DEF WithoutPage, TypeOK
  <2>3. /\ Len(s) \in Nat /\ DOMAIN s = 1 .. Len(s) /\ i \in 1 .. Len(s)
        /\ \A j \in 1 .. Len(s) : s[j] \in Pages
        /\ \A j, k \in 1 .. Len(s) : s[j] = s[k] => j = k
    BY <2>0, <2>1 DEF QueuesMatch
  <2>4. DOMAIN fifo' = Queues
    BY <1>2 DEF WithoutPage, TypeOK
  <2> HIDE DEF i
  <2>5. DOMAIN a = 1 .. Len(s) - 1 /\ Len(s) - 1 \in Nat /\ a \in Seq(Pages)
    <3>1. \A j \in 1 .. Len(s) - 1 : (IF j < i THEN s[j] ELSE s[j + 1]) \in Pages
      BY <2>3
    <3>2. Len(s) - 1 \in Nat
      BY <2>3
    <3> QED  BY <3>1, <3>2, FunctionIsSeq
  <2>6. \A j \in DOMAIN a : \E k \in DOMAIN s : k # i /\ a[j] = s[k]
    <3> SUFFICES ASSUME NEW j \in DOMAIN a PROVE \E k \in DOMAIN s : k # i /\ a[j] = s[k]
      OBVIOUS
    <3>1. CASE j < i
      <4>1. j \in DOMAIN s /\ j # i /\ a[j] = s[j]
        BY <2>3, <2>5, <3>1
      <4> QED  BY <4>1
    <3>2. CASE ~(j < i)
      <4>1. j + 1 \in DOMAIN s /\ j + 1 # i /\ a[j] = s[j + 1]
        BY <2>3, <2>5, <3>2
      <4> QED  BY <4>1
    <3> QED  BY <3>1, <3>2
  <2>7. \A k \in DOMAIN s : k # i => \E j \in DOMAIN a : a[j] = s[k]
    <3> SUFFICES ASSUME NEW k \in DOMAIN s, k # i PROVE \E j \in DOMAIN a : a[j] = s[k]
      OBVIOUS
    <3>1. CASE k < i
      <4>1. k \in DOMAIN a /\ a[k] = s[k]
        BY <2>3, <2>5, <3>1
      <4> QED  BY <4>1
    <3>2. CASE k > i
      <4>1. k - 1 \in DOMAIN a /\ a[k - 1] = s[k]
        BY <2>3, <2>5, <3>2
      <4> QED  BY <4>1
    <3> QED  BY <2>3, <3>1, <3>2
  <2>8. \A j, k \in DOMAIN a : a[j] = a[k] => j = k
    <3> SUFFICES ASSUME NEW j \in DOMAIN a, NEW k \in DOMAIN a, a[j] = a[k] PROVE j = k
      OBVIOUS
    <3> DEFINE m == IF j < i THEN j ELSE j + 1
               n == IF k < i THEN k ELSE k + 1
    <3>0. j \in 1 .. Len(s) - 1 /\ k \in 1 .. Len(s) - 1
      BY <2>5
    <3>1. m \in 1 .. Len(s) /\ n \in 1 .. Len(s) /\ a[j] = s[m] /\ a[k] = s[n]
      <4>1. m \in 1 .. Len(s) /\ n \in 1 .. Len(s)
        BY <2>3, <3>0
      <4>2. a[j] = s[m]
        BY <2>3, <3>0
      <4>3. a[k] = s[n]
        BY <2>3, <3>0
      <4> QED  BY <4>1, <4>2, <4>3
    <3>2. m = n
      BY <2>3, <3>1
    <3> QED  BY <2>3, <3>0, <3>2
  <2> HIDE DEF a
  <2>9. \A j \in DOMAIN a : a[j] # p
    BY <2>1, <2>3, <2>6
  <2>10. ASSUME NEW r \in Queues, NEW d \in Pages
         PROVE  page'[d].list = r <=> \E j \in DOMAIN fifo'[r] : fifo'[r][j] = d
    <3>1. CASE d = p
      <4>1. \A j \in DOMAIN fifo[r] : r # q => fifo[r][j] # p
        BY DEF QueuesMatch
      <4> QED  BY <2>2, <2>9, <3>1, <4>1
    <3>2. CASE d # p /\ r # q
      BY <2>2, <3>2 DEF QueuesMatch
    <3>3. CASE d # p /\ r = q
      <4>1. page[d].list = q <=> \E j \in DOMAIN s : s[j] = d
        BY <2>0 DEF QueuesMatch
      <4> QED  BY <2>1, <2>2, <2>6, <2>7, <3>3, <4>1
    <3> QED  BY <3>1, <3>2, <3>3
  <2>11. ASSUME NEW r \in Queues, NEW j \in DOMAIN fifo'[r], NEW k \in DOMAIN fifo'[r],
                fifo'[r][j] = fifo'[r][k]
         PROVE  j = k
    <3>1. CASE r = q
      BY <2>2, <2>8, <2>11, <3>1
    <3>2. CASE r # q
      BY <2>2, <2>11, <3>2 DEF QueuesMatch
    <3> QED  BY <3>1, <3>2
  <2>12. QueuesMatch'
    BY <2>10, <2>11 DEF QueuesMatch
  <2>13. fifo' \in [Queues -> Seq(Pages)]
    <3>1. \A r \in Queues : fifo'[r] \in Seq(Pages)
      BY <2>2, <2>5 DEF TypeOK
    <3>2. fifo' = [r \in Queues |-> fifo'[r]]
      BY <2>4 DEF WithoutPage, TypeOK
    <3> QED  BY <3>1, <3>2
  <2>14. ASSUME NEW r \in Queues, NEW j \in DOMAIN fifo'[r]
         PROVE  fifo'[r][j] # p /\ \E k \in DOMAIN fifo[r] : fifo'[r][j] = fifo[r][k]
    <3>1. CASE r = q
      BY <2>2, <2>6, <2>9, <3>1
    <3>2. CASE r # q
      BY <2>2, <3>2 DEF QueuesMatch
    <3> QED  BY <3>1, <3>2
  <2> QED  BY <2>12, <2>13, <2>14
<1> QED  BY <1>1, <1>2


-----------------------------------------------------------------------------
(* The steps of paging, while memory is unmapped.                           *)

\* What the lemmas about ExtMem's steps need of the invariant.
LEMMA MapOwns == MapInv => OwnInv
  BY DEF MapInv, MapOwnership, OwnInv, Exclusive

\* As long as munmap neither takes nor puts a page, no descriptor gets lost.
LEMMA MapOwnLift ==
    ASSUME MapOwnership, \A p \in Pages : UnmapHolds(p)' <=> UnmapHolds(p),
           NothingMoved \/ \E x \in Executors : OnlyMoves(x) /\ OwnsAll(x)
    PROVE  MapOwnership'
<1> SUFFICES ASSUME NEW p \in Pages
             PROVE  /\ page'[p].list = "none" <=>
                         UnmapHolds(p)' \/ \E e \in Executors, r \in Roles : Holds(e, r, p)'
                    /\ \A e \in Executors, r \in Roles : Holds(e, r, p)' =>
                         /\ ~UnmapHolds(p)'
                         /\ \A f \in Executors, s \in Roles : Holds(f, s, p)' => e = f /\ r = s
  BY DEF MapOwnership
<1>1. /\ page[p].list = "none" <=>
           UnmapHolds(p) \/ \E e \in Executors, r \in Roles : Holds(e, r, p)
      /\ \A e \in Executors, r \in Roles : Holds(e, r, p) =>
           /\ ~UnmapHolds(p)
           /\ \A f \in Executors, s \in Roles : Holds(f, s, p) => e = f /\ r = s
  BY DEF MapOwnership
<1>2. UnmapHolds(p)' <=> UnmapHolds(p)
  OBVIOUS
<1>3. CASE NothingMoved
  <2>1. /\ page'[p].list = page[p].list
        /\ \A e \in Executors, r \in Roles : Holds(e, r, p)' <=> Holds(e, r, p)
    BY <1>3 DEF NothingMoved
  <2> QED  BY <1>1, <1>2, <2>1
<1>4. ASSUME NEW x \in Executors, OnlyMoves(x), OwnsOK(x, p)
      PROVE  /\ page'[p].list = "none" <=>
                  UnmapHolds(p)' \/ \E e \in Executors, r \in Roles : Holds(e, r, p)'
             /\ \A e \in Executors, r \in Roles : Holds(e, r, p)' =>
                  /\ ~UnmapHolds(p)'
                  /\ \A f \in Executors, s \in Roles : Holds(f, s, p)' => e = f /\ r = s
  <2>0. \A e \in Executors \ {x}, r \in Roles : Holds(e, r, p)' <=> Holds(e, r, p)
    BY <1>4, OtherHolds
  <2>1. CASE /\ page'[p].list = "none" <=> page[p].list = "none"
             /\ \A r \in Roles : Holds(x, r, p)' <=> Holds(x, r, p)
    <3>1. \A e \in Executors, r \in Roles : Holds(e, r, p)' <=> Holds(e, r, p)
      BY <2>0, <2>1
    <3> QED  BY <1>1, <1>2, <2>1, <3>1
  <2>2. CASE /\ page[p].list # "none" \/ \E r \in Roles : Holds(x, r, p)
             /\ page'[p].list = "none" <=> \E r \in Roles : Holds(x, r, p)'
             /\ \A r, s \in Roles : Holds(x, r, p)' /\ Holds(x, s, p)' => r = s
    <3>1. ~UnmapHolds(p) /\ \A e \in Executors \ {x}, r \in Roles : ~Holds(e, r, p)
      BY <1>1, <2>2
    <3>2. \A e \in Executors, r \in Roles : Holds(e, r, p)' => e = x
      BY <2>0, <3>1
    <3> QED  BY <1>2, <2>2, <3>1, <3>2
  <2> QED  BY <1>4, <2>1, <2>2 DEF OwnsOK
<1> QED  BY <1>3, <1>4 DEF OwnsAll

\* What a descriptor stands for changes only where it stands for nothing.
LEMMA NextKeepsVa ==
    ASSUME UseInv, [Next]_vars
    PROVE  KeepsVa
<1>1. UNCHANGED vars \/ Crash => KeepsVa
  BY DEF vars, Crash, sharedVars, KeepsVa
<1> QED  BY <1>1, NextStepOK DEF StepOK

\* A step that keeps what paging needs, and leaves the ranges alone.
LEMMA StepKeeps ==
    ASSUME MapInv, UseInv', KeepsVa, NextOwns, UNCHANGED <<mapped, unmap, newmap>>,
           FaultsApart', unmap.at = "take" => pages' = pages
    PROVE  MapInv'
<1>1. UseInv' /\ KeepsVa
  OBVIOUS
<1>2. NextOwns
  OBVIOUS
<1>3. MapOwnership'
  <2>1. \A p \in Pages : UnmapHolds(p)' <=> UnmapHolds(p)
    BY DEF UnmapHolds
  <2> QED  BY <1>2, <2>1, MapOwnLift DEF MapInv, NextOwns
<1>4. UnmapOK'
  <2>1. UnmapOK /\ MapVarsOK
    BY DEF MapInv
  <2>2. unmap.at \in {"wait", "relock", "remove", "take"} =>
          /\ unmap.page \in Pages /\ First(unmap.todo) \in VA
          /\ page[unmap.page].va = First(unmap.todo)
    <3> SUFFICES ASSUME unmap.at \in {"wait", "relock", "remove", "take"}
                 PROVE  /\ unmap.page \in Pages /\ First(unmap.todo) \in VA
                        /\ page[unmap.page].va = First(unmap.todo)
      OBVIOUS
    <3>1. unmap.todo \in SUBSET VA /\ unmap.todo # {} /\ unmap.page \in Pages
      BY <2>1 DEF UnmapOK, MapVarsOK
    <3> QED  BY <2>1, <3>1, FirstIn DEF UnmapOK
  <2>3. unmap.at \in {"wait", "relock", "remove", "take"} =>
          page'[unmap.page].va = First(unmap.todo)
    BY <1>1, <2>2 DEF KeepsVa, Mapped
  <2> QED  BY <2>1, <2>3 DEF UnmapOK
<1>5. MapVarsOK' /\ RangesApart'
  BY DEF MapInv, MapVarsOK, RangesApart
<1> QED  BY <1>1, <1>2, <1>3, <1>4, <1>5 DEF MapInv, NextOwns

\* Such are the steps of ExtMem.
LEMMA PagingKeeps ==
    ASSUME MapInv, [Next]_vars, UNCHANGED <<mapped, unmap, newmap>>, FaultsApart',
           unmap.at = "take" => pages' = pages
    PROVE  MapInv'
<1>0. UseInv
  BY DEF MapInv
<1>1. UseInv' /\ KeepsVa
  BY <1>0, UseNext, NextKeepsVa
<1>2. NextOwns
  BY MapOwns, StepOwns
<1> QED  BY <1>1, <1>2, StepKeeps

\* What the step of t may do with its fault, given that no fault on a range that
\* is unmapped may begin.
FaultKept(t) ==
    /\ \A u \in Threads \ {t} : fault'[u] = fault[u] /\ pc'[u] = pc[u]
    /\ \/ fault'[t].addr = 0
       \/ /\ fault'[t].addr = fault[t].addr
          /\ fault[t].job # "prefetch"
       \/ fault'[t].job = "prefetch"
       \/ fault'[t].addr \notin unmap.region
    /\ pc'[t] = "missing" =>
         \/ pc[t] = "missing" /\ fault'[t].page = fault[t].page /\ fault'[t].addr = fault[t].addr
         \/ page'[fault'[t].page].va = fault'[t].addr

\* A thread at "missing" still has the page of its address.
LEMMA MissingKept ==
    ASSUME UseInv, KeepsVa, FaultsApart, NEW u \in Threads, pc[u] = "missing"
    PROVE  /\ fault[u].page \in Pages /\ page[fault[u].page].va = fault[u].addr
           /\ page'[fault[u].page].va = fault[u].addr
           /\ fault[u].addr \notin unmap.region
<1>1. LocalUsed(u) /\ ThreadOK(u) /\ fault[u] \in FaultLocals
  BY DEF UseInv, LocalsUsed, LocalsOK, LocalOK, TypeOK, Executors
<1>2. fault[u].page \in Pages /\ Mapped(fault[u].page) /\ fault[u].job = "none"
  BY <1>1 DEF LocalUsed, ThreadOK, FaultLocals
<1> QED  BY <1>2 DEF KeepsVa, FaultsApart

LEMMA ApartLift ==
    ASSUME UseInv, MapVarsOK, KeepsVa, FaultsApart, unmap' = unmap,
           NEW t \in Threads, FaultKept(t)
    PROVE  FaultsApart'
<1>0. 0 \notin unmap.region
  BY SizeAssumption DEF MapVarsOK, VA
<1>1. ASSUME NEW u \in Threads, pc[u] = "missing"
      PROVE  page[fault[u].page].va = fault[u].addr /\ page'[fault[u].page].va = fault[u].addr
  BY <1>1, MissingKept
<1>2. ASSUME NEW u \in Threads
      PROVE  /\ fault'[u].job # "prefetch" => fault'[u].addr \notin unmap.region
             /\ pc'[u] = "missing" => page'[fault'[u].page].va = fault'[u].addr
  <2>1. fault[u].job # "prefetch" => fault[u].addr \notin unmap.region
    BY DEF FaultsApart
  <2>2. CASE u # t
    BY <1>1, <2>1, <2>2 DEF FaultKept
  <2>3. CASE u = t
    BY <1>0, <1>1, <2>1, <2>3 DEF FaultKept
  <2> QED  BY <2>2, <2>3
<1> QED  BY <1>2 DEF FaultsApart

\* A step that no fault takes part in.
LEMMA ApartQuiet ==
    ASSUME UseInv, KeepsVa, FaultsApart, unmap'.region \subseteq unmap.region, fault' = fault,
           \A u \in Threads : pc'[u] = "missing" => pc[u] = "missing"
    PROVE  FaultsApart'
<1>1. ASSUME NEW u \in Threads, pc'[u] = "missing"
      PROVE  page'[fault[u].page].va = fault[u].addr
  BY <1>1, MissingKept
<1> QED  BY <1>1 DEF FaultsApart

\* Evictions and scans, of whomever, have nothing to do with faults.
LEMMA EvictScanKept ==
    ASSUME UseInv, NEW e \in Executors, EvictStep(e) \/ ScanStep(e) \/ ReleaseVictim(e)
    PROVE  /\ fault' = fault /\ pages' = pages
           /\ \A u \in Threads : pc'[u] = "missing" => pc[u] = "missing"
           /\ \A u \in Executors \ {e} : pc'[u] = pc[u]
<1>0. pc \in [Executors -> PcLabels]
  BY DEF UseInv, TypeOK
<1>1. CASE ReleaseVictim(e)
  BY <1>0, <1>1 DEF ReleaseVictim, Abort, sharedVars, Executors
<1>2. CASE ScanStep(e)
  BY <1>0, <1>2 DEF ScanStep, ScanInactive, ScanActive, KeepOrEvict, Deactivate, ScanTake,
                    ScanPut, ScanPoint, Executors
<1>3. CASE TakeVictim(e) \/ ProtectVictim(e) \/ BackByReserve(e) \/ BackByFreeSlot(e)
  BY <1>0, <1>3 DEF TakeVictim, ProtectVictim, BackByReserve, BackByFreeSlot, Abort,
                    sharedVars, Executors
<1>4. CASE WriteBack(e) \/ UnmapVictim(e) \/ MarkSwappedOut(e) \/ FreeFrame(e) \/ TrackVictim(e)
  BY <1>0, <1>4 DEF WriteBack, UnmapVictim, MarkSwappedOut, FreeFrame, TrackVictim, Abort,
                    sharedVars, Executors
<1> QED  BY <1>1, <1>2, <1>3, <1>4 DEF EvictStep

\* Nor does a thread's own step end a fault and begin another.
LEMMA ThreadKept ==
    ASSUME UseInv, NEW t \in Threads, FaultStep(t)
    PROVE  FaultKept(t) /\ (pages' = pages \/ FirstAllocate(t))
<1>0. /\ pc \in [Executors -> PcLabels] /\ Threads \subseteq Executors
      /\ fault \in [Threads -> FaultLocals] /\ ThreadOK(t)
      /\ pages \in [VA -> Pages \cup {0}] /\ page \in [Pages -> UserPage]
  BY DEF UseInv, TypeOK, LocalsOK, LocalOK, Executors
<1>t. t \in Threads /\ fault[t] \in FaultLocals
  BY <1>0
<1>1. CASE uswap_sig_handler(t)
  <2>1. fault[t].addr \in VA /\ (pages[fault[t].addr] # 0 =>
                                     page[pages[fault[t].addr]].va = fault[t].addr)
    BY <1>0, <1>1 DEF uswap_sig_handler, At, ThreadOK, UseInv, HashOK
  <2>2. fault[t].job = "none" /\ pages' = pages /\ page' = page
    BY <1>0, <1>1 DEF uswap_sig_handler, At, ThreadOK, sharedVars
  <2>3. \A u \in Threads \ {t} : fault'[u] = fault[u] /\ pc'[u] = pc[u]
    BY <1>0, <1>1 DEF uswap_sig_handler
  <2>4. fault'[t].addr = fault[t].addr
    BY <1>0, <1>1, <1>t DEF uswap_sig_handler, FaultLocals
  <2>5. pc'[t] = "missing" => /\ fault'[t].page = pages[fault[t].addr]
                              /\ pages[fault[t].addr] # 0
    <3> SUFFICES ASSUME pc'[t] = "missing"
                 PROVE  /\ fault'[t].page = pages[fault[t].addr]
                        /\ pages[fault[t].addr] # 0
      OBVIOUS
    <3>1. /\ pages[fault[t].addr] # 0
          /\ fault' = [fault EXCEPT ![t].page = pages[fault[t].addr]]
      BY <1>0, <1>1 DEF uswap_sig_handler, find_page
    <3>2. fault'[t] = [fault[t] EXCEPT !.page = pages[fault[t].addr]]
      BY <1>0, <3>1
    <3> QED  BY <1>t, <3>1, <3>2 DEF FaultLocals
  <2> QED  BY <2>1, <2>2, <2>3, <2>4, <2>5 DEF FaultKept
<1>2. CASE Spin(t) \/ FetchReclaim(t) \/ FetchRetry(t) \/ FetchOutOfMemory(t)
  <2>1. pages' = pages
    BY <1>2 DEF Spin, Resume, FetchReclaim, FetchRetry, FetchOutOfMemory, Abort, sharedVars
  <2>2. CASE Spin(t)
    BY <1>0, <2>1, <2>2 DEF Spin, Resume, NoFault, FaultKept
  <2>3. CASE FetchReclaim(t)
    BY <1>0, <2>1, <2>3 DEF FetchReclaim, FaultKept
  <2>4. CASE FetchRetry(t)
    BY <1>0, <2>1, <2>4 DEF FetchRetry, FaultKept
  <2>5. CASE FetchOutOfMemory(t)
    BY <1>0, <2>1, <2>5 DEF FetchOutOfMemory, Abort, FaultKept
  <2> QED BY <1>2, <2>2, <2>3, <2>4, <2>5
<1>3. CASE DiskRead(t)
  <2>1. pages' = pages /\ pc' = pc
    BY <1>3 DEF DiskRead, sharedVars
  <2>2. \A u \in Threads \ {t} : fault'[u] = fault[u]
    BY <1>0, <1>3 DEF DiskRead
  <2>3. /\ fault'[t].addr = fault[t].addr /\ fault'[t].job = fault[t].job
        /\ fault'[t].page = fault[t].page
    BY <1>0, <1>3, <1>t DEF DiskRead, FaultLocals
  <2> QED  BY <2>1, <2>2, <2>3 DEF FaultKept
<1>4. CASE handle_missing_fault(t)
  <2>1. CASE UNCHANGED <<fault, pages>> /\ pc' = [pc EXCEPT ![t] = "spin"]
    BY <1>0, <2>1 DEF FaultKept
  <2>2. CASE UNCHANGED <<fault, pages, pc>>
    BY <1>0, <2>2 DEF FaultKept
  <2>3. CASE /\ fault' = [fault EXCEPT ![t].job = "swapin", ![t].reading = <<fault[t].page>>]
             /\ pc' = [pc EXCEPT ![t] = "fetch"] /\ pages' = pages /\ At(t, "missing")
    <3>1. fault'[t].addr = fault[t].addr /\ fault[t].job = "none"
      BY <1>0, <1>t, <2>3 DEF FaultLocals, ThreadOK, At
    <3> QED  BY <1>0, <2>3, <3>1 DEF FaultKept
  <2> QED  BY <1>4, <2>1, <2>2, <2>3 DEF handle_missing_fault, Abort, sharedVars
<1>5. CASE FetchFree(t) \/ FetchEvicted(t)
  <2>1. CASE UNCHANGED <<fault, pages, pc>>
    BY <1>0, <2>1 DEF FaultKept
  <2>2. ASSUME NEW d, ReceiveFrame(t, d), pages' = pages PROVE FaultKept(t)
    <3>1. fault'[t].addr = fault[t].addr /\ fault'[t].job = fault[t].job
      BY <1>0, <1>t, <2>2 DEF ReceiveFrame, FaultLocals
    <3>2. pc'[t] # "missing"
      BY <1>0, <2>2 DEF ReceiveFrame
    <3>3. \A u \in Threads \ {t} : fault'[u] = fault[u] /\ pc'[u] = pc[u]
      BY <1>0, <2>2 DEF ReceiveFrame
    <3> QED  BY <3>1, <3>2, <3>3 DEF FaultKept
  <2> QED  BY <1>5, <2>1, <2>2 DEF FetchFree, FetchEvicted, Abort, sharedVars
<1>6. CASE FirstAllocate(t) \/ PutBack(t)
  <2>1. ASSUME UNCHANGED <<fault, pc>> PROVE FaultKept(t)
    BY <1>0, <2>1 DEF FaultKept
  <2>2. ASSUME NEW label, label # "missing", pc' = [pc EXCEPT ![t] = label],
               \/ fault' = fault
               \/ \E p : fault' = [fault EXCEPT ![t].page = p]
               \/ fault' = [fault EXCEPT ![t].frees = <<>>]
        PROVE  FaultKept(t)
    <3>1. fault'[t].addr = fault[t].addr /\ fault'[t].job = fault[t].job
      BY <1>0, <1>t, <2>2 DEF FaultLocals
    <3>2. \A u \in Threads \ {t} : fault'[u] = fault[u] /\ pc'[u] = pc[u]
      BY <1>0, <2>2
    <3>3. pc'[t] = label
      BY <1>0, <2>2
    <3> QED  BY <2>2, <3>1, <3>2, <3>3 DEF FaultKept
  <2>3. CASE FirstAllocate(t)
    BY <2>1, <2>2, <2>3 DEF FirstAllocate, Abort, sharedVars
  <2>4. CASE PutBack(t)
    BY <2>1, <2>2, <2>4 DEF PutBack, Abort, sharedVars
  <2> QED  BY <1>6, <2>3, <2>4
<1>7. CASE FirstMap(t) \/ FirstAdd(t)
  <2>1. pages' = pages
    BY <1>7 DEF FirstMap, FirstAdd, Abort, sharedVars
  <2>2. CASE fault' = fault /\ (pc' = pc \/ pc' = [pc EXCEPT ![t] = "add"])
    BY <2>1, <1>0, <2>2 DEF FaultKept
  <2>3. CASE Resume(t)
    BY <2>1, <1>0, <2>3 DEF FaultKept, Resume, NoFault
  <2> QED  BY <1>7, <2>1, <2>2, <2>3 DEF FirstMap, FirstAdd, Abort
<1>8. CASE FinishRead(t) \/ PublishPage(t) \/ PrefetchResident(t)
  <2>1. pages' = pages
    BY <1>8 DEF FinishRead, PublishPage, PrefetchResident, Abort, sharedVars
  <2>2. CASE fault' = fault /\ pc' = pc
    BY <2>1, <2>2 DEF FaultKept
  <2>3. CASE /\ fault' = [fault EXCEPT ![t].page = Head(fault[t].reading),
                                       ![t].reading = Tail(@),
                                       ![t].buf = Tail(@), ![t].frees = Tail(@)]
             /\ pc' = [pc EXCEPT ![t] = "publish"]
    <3>1. fault'[t].addr = fault[t].addr /\ fault'[t].job = fault[t].job
      BY <1>0, <1>t, <2>3 DEF FaultLocals
    <3>2. \A u \in Threads \ {t} : fault'[u] = fault[u] /\ pc'[u] = pc[u]
      BY <1>0, <2>3
    <3>3. pc'[t] = "publish"
      BY <1>0, <2>3
    <3> QED  BY <2>1, <3>1, <3>2, <3>3 DEF FaultKept
  <2>4. CASE PublishPage(t)
    <3>1. fault' = fault /\ pc'[t] \in {"settle", "resident"}
      BY <1>0, <2>4 DEF PublishPage
    <3>2. \A u \in Threads \ {t} : pc'[u] = pc[u]
      BY <1>0, <2>4 DEF PublishPage
    <3> QED  BY <2>1, <3>1, <3>2 DEF FaultKept
  <2>5. CASE PrefetchResident(t)
    BY <2>1, <1>0, <2>5 DEF PrefetchResident, FaultKept
  <2> QED  BY <1>8, <2>1, <2>2, <2>3, <2>4, <2>5 DEF FinishRead, Abort
<1>9. CASE Settle(t)
  <2>1. pages' = pages
    BY <1>9 DEF Settle
  <2>2. CASE Resume(t)
    BY <2>1, <1>0, <2>2 DEF FaultKept, Resume, NoFault
  <2>3. ASSUME NEW label, label # "missing", pc' = [pc EXCEPT ![t] = label],
               \/ fault' = [fault EXCEPT ![t].job = "prefetch", ![t].page = 0]
               \/ fault' = [fault EXCEPT ![t].page = 0]
        PROVE  FaultKept(t)
    <3>1. /\ fault'[t].addr = fault[t].addr
          /\ fault'[t].job = fault[t].job \/ fault'[t].job = "prefetch"
      BY <1>0, <1>t, <2>3 DEF FaultLocals
    <3>2. \A u \in Threads \ {t} : fault'[u] = fault[u] /\ pc'[u] = pc[u]
      BY <1>0, <2>3
    <3>3. pc'[t] = label
      BY <1>0, <2>3
    <3> QED  BY <2>3, <3>1, <3>2, <3>3 DEF FaultKept
  <2>4. \/ Resume(t)
        \/ pc' = [pc EXCEPT ![t] = "find"] /\ fault' = [fault EXCEPT ![t].job = "prefetch", ![t].page = 0]
        \/ pc' = [pc EXCEPT ![t] = "finish"] /\ fault' = [fault EXCEPT ![t].page = 0]
    BY <1>9 DEF Settle
  <2> QED  BY <2>1, <2>2, <2>3, <2>4
<1>10. CASE PrefetchFind(t)
  <2>1. pages' = pages
    BY <1>10 DEF PrefetchFind, Abort, sharedVars
  <2>2. CASE Resume(t)
    BY <2>1, <1>0, <2>2 DEF FaultKept, Resume, NoFault
  <2>3. CASE fault' = fault /\ (pc' = pc \/ pc' = [pc EXCEPT ![t] = "fetch"])
    BY <2>1, <1>0, <2>3 DEF FaultKept
  <2>4. ASSUME NEW p, fault' = [fault EXCEPT ![t].reading = Append(@, p)], pc' = pc,
               pc[t] # "missing"
        PROVE  FaultKept(t)
    <3>1. fault'[t].addr = fault[t].addr /\ fault'[t].job = fault[t].job
      BY <1>0, <1>t, <2>4 DEF FaultLocals
    <3>2. \A u \in Threads \ {t} : fault'[u] = fault[u]
      BY <1>0, <2>4
    <3> QED  BY <2>4, <3>1, <3>2 DEF FaultKept
  <2> QED  BY <1>10, <2>1, <2>2, <2>3, <2>4 DEF PrefetchFind, Abort, At
<1> QED  BY <1>1, <1>2, <1>3, <1>4, <1>5, <1>6, <1>7, <1>8, <1>9, <1>10 DEF FaultStep

\* The steps of the application, of faults, evictions and scans.
LEMMA PagingInv ==
    ASSUME MapInv,
           \/ \E t \in Threads : MappedAccess(t) \/ PagingStep(t)
           \/ \E e \in Workers \cup Kswapd : DaemonStep(e)
    PROVE  MapInv'
<1>0. UseInv /\ MapVarsOK /\ FaultsApart /\ RangesApart
  BY DEF MapInv
<1>p. pc \in [Executors -> PcLabels] /\ Threads \subseteq Executors
      /\ fault \in [Threads -> FaultLocals]
  BY <1>0 DEF UseInv, TypeOK, Executors
<1>1. ASSUME NEW t \in Threads, MappedAccess(t) PROVE MapInv'
  <2>1. PICK v \in mapped : Touch(t, v) \/ \E x \in Vals : Store(t, v, x)
    BY <1>1 DEF MappedAccess
  <2>2. v \in VA /\ v \notin unmap.region
    BY <1>0 DEF MapVarsOK, RangesApart
  <2>3. [Next]_vars
    BY <2>1, <2>2 DEF Next, Application
  <2>4. UNCHANGED <<mapped, unmap, newmap>> /\ KeepsVa
    BY <1>0, <1>1, <2>3, NextKeepsVa DEF MappedAccess
  <2>5. FaultKept(t) /\ pages' = pages
    <3>1. CASE Touch(t, v)
      <4>1. pc'[t] = "signal" /\ pages' = pages
        BY <1>p, <3>1 DEF Touch, sharedVars
      <4>2. fault[t] \in FaultLocals /\ fault'[t] = [fault[t] EXCEPT !.addr = v]
        BY <1>p, <3>1 DEF Touch
      <4>3. fault'[t].addr = v
        BY <4>2 DEF FaultLocals
      <4>4. \A u \in Threads \ {t} : fault'[u] = fault[u] /\ pc'[u] = pc[u]
        BY <1>p, <3>1 DEF Touch
      <4> QED  BY <2>2, <4>1, <4>3, <4>4 DEF FaultKept
    <3>2. ASSUME NEW x \in Vals, Store(t, v, x) PROVE FaultKept(t) /\ pages' = pages
      BY <3>2 DEF Store, FaultKept
    <3> QED  BY <2>1, <3>1, <3>2
  <2>6. FaultsApart'
    BY <1>0, <2>4, <2>5, ApartLift
  <2> QED  BY <2>3, <2>4, <2>5, <2>6, PagingKeeps
<1>2. ASSUME NEW t \in Threads, PagingStep(t) PROVE MapInv'
  <2>1. [Next]_vars /\ UNCHANGED <<mapped, unmap, newmap>> /\ ThreadStep(t)
    BY <1>2 DEF PagingStep, Next
  <2>2. KeepsVa
    BY <1>0, <2>1, NextKeepsVa
  <2>3. CASE FaultStep(t)
    <3>1. FaultKept(t) /\ (pages' = pages \/ FirstAllocate(t))
      BY <1>0, <2>3, ThreadKept
    <3>2. unmap.at = "take" => pages' = pages
      BY <1>2, <3>1 DEF PagingStep, FirstAllocate, At
    <3>3. FaultsApart'
      BY <1>0, <2>1, <2>2, <3>1, ApartLift
    <3> QED  BY <2>1, <3>2, <3>3, PagingKeeps
  <2>4. CASE EvictStep(t) \/ ScanStep(t)
    <3>1. /\ fault' = fault /\ pages' = pages
          /\ \A u \in Threads : pc'[u] = "missing" => pc[u] = "missing"
      BY <1>0, <1>p, <2>4, EvictScanKept
    <3>2. FaultsApart'
      BY <1>0, <2>1, <2>2, <3>1, ApartQuiet
    <3> QED  BY <2>1, <3>1, <3>2, PagingKeeps
  <2> QED  BY <2>1, <2>3, <2>4 DEF ThreadStep
<1>3. ASSUME NEW e \in Workers \cup Kswapd, DaemonStep(e) PROVE MapInv'
  <2>1. [Next]_vars /\ UNCHANGED <<mapped, unmap, newmap>>
    BY <1>3 DEF DaemonStep, Next
  <2>2. KeepsVa
    BY <1>0, <2>1, NextKeepsVa
  <2>3. e \in Executors /\ (EvictStep(e) \/ ScanStep(e) \/ ReleaseVictim(e))
    BY <1>3 DEF DaemonStep, WorkerStep, Executors
  <2>4. /\ fault' = fault /\ pages' = pages
        /\ \A u \in Threads : pc'[u] = "missing" => pc[u] = "missing"
    BY <1>0, <2>3, EvictScanKept
  <2>5. FaultsApart'
    BY <1>0, <2>1, <2>2, <2>4, ApartQuiet
  <2> QED  BY <2>1, <2>4, <2>5, PagingKeeps
<1> QED  BY <1>1, <1>2, <1>3

-----------------------------------------------------------------------------
(* The steps of mmap and munmap.                                            *)

\* A step that takes no page off a list and puts none on one.
LEMMA UnmapLift ==
    ASSUME MapInv, UNCHANGED <<fifo, pc, fault, scan, evict>>,
           TypeOK', KeepsVa, HashOK', \A p \in Pages : page'[p].list = page[p].list,
           unmap.at # "free", unmap'.at # "free", unmap'.region \subseteq unmap.region,
           MapVarsOK', UnmapOK', RangesApart'
    PROVE  MapInv'
<1>0. OwnInv /\ UseInv /\ TypeOK /\ LocalsOK /\ LocalsUsed /\ QueuesMapped /\ QueuesMatch
      /\ BatchesDistinct /\ FaultsApart
  BY MapOwns DEF MapInv, UseInv
<1>1. LocalsOK'
  BY <1>0 DEF LocalsOK, LocalOK, EvictorOK, ThreadOK
<1>2. LocalsUsed'
  <2> SUFFICES ASSUME NEW e \in Executors PROVE LocalUsed(e)'
    BY DEF LocalsUsed
  <2>0. LocalOK(e) /\ LocalUsed(e)
    BY <1>0 DEF LocalsOK, LocalsUsed
  <2>1. ASSUME NEW p \in Pages, Mapped(p) PROVE Mapped(p)'
    BY <2>1 DEF KeepsVa, Mapped
  <2>2. ASSUME e \in Evictors, HoldsVictim(e) PROVE Mapped(evict[e].victim)'
    <3>1. evict[e].victim \in Pages
      BY <1>0, <2>0, <2>2 DEF TypeOK, EvictLocals, LocalOK, EvictorOK, HoldsVictim, EvictPcs
    <3>2. Mapped(evict[e].victim)'
      <4> DEFINE p == evict[e].victim
      <4>1. Mapped(p)
        BY <2>0, <2>2 DEF LocalUsed
      <4> QED  BY <3>1, <4>1 DEF KeepsVa, Mapped
    <3> QED  BY <3>2
  <2>3. ASSUME e \in Scanners, scan[e] # 0 PROVE page'[scan[e]].va \in VA
    <3>1. scan[e] \in Pages /\ Mapped(scan[e])
      BY <1>0, <2>0, <2>3 DEF TypeOK, LocalUsed
    <3> QED  BY <3>1 DEF KeepsVa, Mapped
  <2>4. ASSUME e \in Threads
        PROVE  /\ pc[e] \in {"missing", "publish"} => page'[fault[e].page].va \in VA
               /\ \A i \in DOMAIN fault[e].reading : page'[fault[e].reading[i]].va \in VA
               /\ pc[e] \in {"map", "add"} => page'[fault[e].frees[1]].va \in VA
    <3>0. fault[e] \in FaultLocals /\ ThreadOK(e)
      BY <1>0, <2>0, <2>4 DEF TypeOK, LocalOK
    <3>1. pc[e] \in {"missing", "publish"} => fault[e].page \in Pages /\ Mapped(fault[e].page)
      BY <2>0, <2>4, <3>0 DEF LocalUsed, ThreadOK, SettlePcs, FaultLocals
    <3>2. \A i \in DOMAIN fault[e].reading :
            fault[e].reading[i] \in Pages /\ Mapped(fault[e].reading[i])
      BY <2>0, <2>4, <3>0 DEF LocalUsed, FaultLocals
    <3>3. pc[e] \in {"map", "add"} => fault[e].frees[1] \in Pages /\ Mapped(fault[e].frees[1])
      <4>1. pc[e] \in {"map", "add"} => fault[e].frees \in Seq(Pages) /\ Len(fault[e].frees) = 1
        BY <3>0 DEF ThreadOK, FirstPcs, FaultLocals
      <4> QED  BY <2>0, <2>4, <4>1 DEF LocalUsed
    <3> QED  BY <3>1, <3>2, <3>3 DEF KeepsVa, Mapped
  <2> QED  BY <2>2, <2>3, <2>4 DEF LocalUsed, HoldsVictim, Mapped
<1>3. QueuesMapped'
  <2> SUFFICES ASSUME NEW q \in {"active", "inactive", "eviction"}, NEW i \in DOMAIN fifo[q]
               PROVE  page'[fifo[q][i]].va \in VA
    BY DEF QueuesMapped, Mapped
  <2>1. fifo[q] \in Seq(Pages)
    BY <1>0 DEF TypeOK, Queues
  <2>2. fifo[q][i] \in Pages /\ Mapped(fifo[q][i])
    BY <1>0, <2>1 DEF QueuesMapped
  <2> QED  BY <2>2 DEF KeepsVa, Mapped
<1>4. BatchesDistinct' /\ QueuesMatch'
  BY <1>0 DEF BatchesDistinct, Distinct, QueuesMatch
<1>5. NothingMoved
  BY DEF NothingMoved, Holds, HoldsVictim, Roles
<1>6. MapOwnership'
  BY <1>5, MapOwnLift DEF MapInv, UnmapHolds
<1>7. FaultsApart'
  BY <1>0, ApartQuiet
<1> QED  BY <1>1, <1>2, <1>3, <1>4, <1>6, <1>7 DEF MapInv, UseInv

\* Marking a page keeps the types, and what the page stands for.
LEMMA Marking ==
    ASSUME TypeOK, NEW p \in Pages, NEW b \in BOOLEAN,
           page' = [page EXCEPT ![p].migrating = b]
    PROVE  /\ page' \in [Pages -> UserPage]
           /\ \A q \in Pages : page'[q].va = page[q].va /\ page'[q].list = page[q].list
<1>1. page \in [Pages -> UserPage]
  BY DEF TypeOK
<1>2. [page[p] EXCEPT !.migrating = b] \in UserPage
  BY <1>1 DEF UserPage
<1>3. page' \in [Pages -> UserPage]
  BY <1>1, <1>2
<1>4. page'[p].va = page[p].va /\ page'[p].list = page[p].list
  BY <1>1 DEF UserPage
<1> QED  BY <1>1, <1>3, <1>4

\* What the invariant says of munmap's locals.
LEMMA UnmapFacts ==
    ASSUME MapInv
    PROVE  /\ TypeOK /\ HashOK /\ RangesApart /\ UnmapOK /\ MapVarsOK
           /\ page \in [Pages -> UserPage] /\ pages \in [VA -> Pages \cup {0}]
           /\ unmap.todo \in SUBSET VA /\ unmap.region \in SUBSET VA
           /\ unmap.todo # {} => First(unmap.todo) \in unmap.todo /\ First(unmap.todo) \in VA
           /\ unmap.at \notin {"idle", "page"} => unmap.page \in Pages /\ unmap.todo # {}
<1>1. TypeOK /\ HashOK /\ RangesApart /\ UnmapOK /\ MapVarsOK
  BY DEF MapInv, UseInv
<1>2. unmap.todo \in SUBSET VA /\ unmap.region \in SUBSET VA
  BY <1>1 DEF MapVarsOK
<1>3. unmap.todo # {} => First(unmap.todo) \in unmap.todo /\ First(unmap.todo) \in VA
  BY <1>2, FirstIn
<1> QED  BY <1>1, <1>2, <1>3 DEF TypeOK, UnmapOK

\* munmap goes from one label to the next, or on to the next address.
UnmapGoes(label, p, todo) ==
    unmap' = [unmap EXCEPT !.at = label, !.page = p, !.todo = todo]

LEMMA UnmapMoves ==
    ASSUME MapVarsOK, NEW label \in UnmapLabels, NEW p \in Pages \cup {0},
           NEW todo \in SUBSET unmap.todo, UnmapGoes(label, p, todo)
    PROVE  /\ unmap'.at = label /\ unmap'.page = p /\ unmap'.todo = todo
           /\ unmap'.region = unmap.region
           /\ mapped' = mapped /\ newmap' = newmap => MapVarsOK' /\ (RangesApart => RangesApart')
<1>1. /\ unmap'.at = label /\ unmap'.page = p /\ unmap'.todo = todo
      /\ unmap'.region = unmap.region /\ unmap'.by = unmap.by
  BY DEF MapVarsOK, UnmapGoes
<1>2. todo \in SUBSET VA
  BY DEF MapVarsOK
<1>3. unmap' \in [at : UnmapLabels, by : SUBSET Threads, region : SUBSET VA,
                  todo : SUBSET VA, page : Pages \cup {0}]
  BY <1>2 DEF MapVarsOK, UnmapGoes
<1> QED  BY <1>1, <1>3 DEF MapVarsOK, RangesApart

\* The label alone changes.
LEMMA UnmapToMoves ==
    ASSUME MapVarsOK, NEW label, UnmapTo(label)
    PROVE  /\ UnmapGoes(label, unmap.page, unmap.todo)
           /\ unmap.page \in Pages \cup {0} /\ unmap.todo \in SUBSET unmap.todo
  BY DEF MapVarsOK, UnmapTo, UnmapGoes

LEMMA UnmapFindInv == MapInv /\ UnmapFind => MapInv'
<1> SUFFICES ASSUME MapInv, UnmapFind PROVE MapInv'
  OBVIOUS
<1> DEFINE v == First(unmap.todo)
           p == find_page(v)
<1>1. /\ UnmapAt("page") /\ unmap.todo # {} /\ v \in VA /\ v \in unmap.todo
      /\ UNCHANGED <<fifo, pages, pte, disk, pc, fault, scan, evict, failed, mapped, newmap>>
  BY UnmapFacts DEF UnmapFind
<1>2. p \in Pages \cup {0} /\ (p # 0 => page[p].va = v)
  BY <1>1, UnmapFacts DEF find_page, HashOK
<1> HIDE DEF p
<1>3. \/ /\ UnmapGoes("page", unmap.page, unmap.todo \ {v})
         /\ page' = page
      \/ /\ p # 0 /\ page' = page
         /\ UnmapGoes("wait", p, unmap.todo)
      \/ /\ p # 0 /\ page' = [page EXCEPT ![p].migrating = TRUE]
         /\ UnmapGoes("remove", p, unmap.todo)
  BY UnmapFacts DEF UnmapFind, UnmapAt, MapVarsOK, UnmapGoes, p
<1>4. page' \in [Pages -> UserPage]
      /\ \A q \in Pages : page'[q].va = page[q].va /\ page'[q].list = page[q].list
  BY <1>2, <1>3, UnmapFacts, Marking
<1>5. unmap.at = "page"
  BY <1>1 DEF UnmapAt
<1>6. /\ MapVarsOK' /\ RangesApart' /\ UnmapOK'
      /\ unmap'.at # "free" /\ unmap'.region = unmap.region
  <2>1. CASE /\ UnmapGoes("page", unmap.page, unmap.todo \ {v})
             /\ page' = page
    <3>1. /\ unmap'.at = "page" /\ unmap'.todo = unmap.todo \ {v}
          /\ unmap'.region = unmap.region /\ MapVarsOK' /\ RangesApart'
      <4>1. /\ unmap.todo \ {v} \in SUBSET unmap.todo /\ "page" \in UnmapLabels
            /\ unmap.page \in Pages \cup {0}
        BY UnmapFacts DEF UnmapLabels, MapVarsOK
      <4> HIDE DEF v
      <4> QED  BY <1>1, <2>1, <4>1, UnmapFacts, UnmapMoves
    <3> QED  BY <3>1, UnmapFacts DEF UnmapOK
  <2>2. ASSUME NEW label \in {"wait", "remove"}, p # 0,
               UnmapGoes(label, p, unmap.todo)
        PROVE  /\ MapVarsOK' /\ RangesApart' /\ UnmapOK'
               /\ unmap'.at # "free" /\ unmap'.region = unmap.region
    <3>1. /\ unmap'.at = label /\ unmap'.page = p /\ unmap'.todo = unmap.todo
          /\ unmap'.region = unmap.region /\ MapVarsOK' /\ RangesApart'
      BY <1>1, <1>2, <2>2, UnmapFacts, UnmapMoves DEF UnmapLabels
    <3>2. p \in Pages /\ page'[p].va = v
      BY <1>2, <1>4, <2>2
    <3> QED  BY <1>1, <2>2, <3>1, <3>2, UnmapFacts DEF UnmapOK
  <2> QED  BY <1>3, <2>1, <2>2
<1>7. TypeOK' /\ HashOK' /\ KeepsVa
  BY <1>1, <1>4, UnmapFacts DEF TypeOK, HashOK, KeepsVa
<1> QED  BY <1>1, <1>4, <1>5, <1>6, <1>7, UnmapLift

LEMMA UnmapWaitInv == MapInv /\ (UnmapWait \/ UnmapRelock) => MapInv'
<1> SUFFICES ASSUME MapInv, UnmapWait \/ UnmapRelock PROVE MapInv'
  OBVIOUS
<1>1. /\ unmap.at \in {"wait", "relock"} /\ unmap.page \in Pages /\ unmap.todo # {}
      /\ UNCHANGED <<fifo, pages, pte, disk, pc, fault, scan, evict, failed, mapped, newmap>>
  BY UnmapFacts DEF UnmapWait, UnmapRelock, UnmapAt, vars
<1>2. /\ page' = page \/ page' = [page EXCEPT ![unmap.page].migrating = TRUE]
      /\ UnmapTo("relock") \/ UnmapTo("remove")
  BY DEF UnmapWait, UnmapRelock, vars
<1>3. page' \in [Pages -> UserPage]
      /\ \A q \in Pages : page'[q].va = page[q].va /\ page'[q].list = page[q].list
  BY <1>1, <1>2, UnmapFacts, Marking
<1>4. /\ unmap'.at \in {"relock", "remove"} /\ unmap'.page = unmap.page
      /\ unmap'.todo = unmap.todo /\ unmap'.region = unmap.region
      /\ MapVarsOK' /\ RangesApart'
  BY <1>1, <1>2, UnmapFacts, UnmapToMoves, UnmapMoves DEF UnmapLabels
<1>5. UnmapOK'
  BY <1>1, <1>3, <1>4, UnmapFacts DEF UnmapOK
<1>6. TypeOK' /\ HashOK' /\ KeepsVa
  BY <1>1, <1>3, UnmapFacts DEF TypeOK, HashOK, KeepsVa
<1> QED  BY <1>1, <1>3, <1>4, <1>5, <1>6, UnmapLift

LEMMA RemoveInv == MapInv /\ (remove_page \/ lrudisk_remove_page) => MapInv'
<1> SUFFICES ASSUME MapInv, remove_page \/ lrudisk_remove_page PROVE MapInv'
  OBVIOUS
<1> DEFINE v == First(unmap.todo)
<1>1. /\ unmap.at = "remove" /\ unmap.page \in Pages /\ unmap.todo # {}
      /\ v \in VA /\ page[unmap.page].va = v
      /\ UNCHANGED <<fifo, pte, disk, pc, fault, scan, evict, failed, mapped, newmap>>
  BY UnmapFacts DEF remove_page, lrudisk_remove_page, UnmapAt, UnmapOK
<1>2. /\ page' = page \/ page' = [page EXCEPT ![unmap.page].migrating = TRUE]
      /\ UnmapTo("take") /\ pages' = [pages EXCEPT ![v] = 0]
  BY <1>1 DEF remove_page, lrudisk_remove_page
<1>3. page' \in [Pages -> UserPage]
      /\ \A q \in Pages : page'[q].va = page[q].va /\ page'[q].list = page[q].list
  BY <1>1, <1>2, UnmapFacts, Marking
<1>4. /\ unmap'.at = "take" /\ unmap'.page = unmap.page
      /\ unmap'.todo = unmap.todo /\ unmap'.region = unmap.region
      /\ MapVarsOK' /\ RangesApart'
  BY <1>1, <1>2, UnmapFacts, UnmapToMoves, UnmapMoves DEF UnmapLabels
<1>5. pages' \in [VA -> Pages \cup {0}] /\ pages'[v] = 0
  BY <1>1, <1>2, UnmapFacts
<1>6. UnmapOK'
  BY <1>1, <1>3, <1>4, <1>5, UnmapFacts DEF UnmapOK
<1>7. TypeOK' /\ HashOK' /\ KeepsVa
  <2>1. HashOK'
    BY <1>1, <1>2, <1>3, UnmapFacts DEF HashOK
  <2> QED  BY <1>1, <1>3, <1>5, <2>1, UnmapFacts DEF TypeOK, KeepsVa
<1> QED  BY <1>1, <1>3, <1>4, <1>6, <1>7, UnmapLift

LEMMA UnmapReleaseInv == MapInv /\ (UnmapRelease \/ PrUnmapRelease) => MapInv'
<1> SUFFICES ASSUME MapInv, UnmapRelease \/ PrUnmapRelease PROVE MapInv'
  OBVIOUS
<1>1. /\ unmap.at = "release" /\ unmap.page \in Pages /\ unmap.todo # {}
      /\ UNCHANGED <<fifo, pages, pte, disk, pc, fault, scan, evict, failed, mapped, newmap>>
      /\ unmap' = [unmap EXCEPT !.at = "page", !.page = 0, !.todo = @ \ {First(@)}]
  BY UnmapFacts DEF UnmapRelease, PrUnmapRelease, UnmapAt, vars
<1>2. page' = page \/ page' = [page EXCEPT ![unmap.page].migrating = FALSE]
  BY DEF UnmapRelease, PrUnmapRelease, vars
<1>3. page' \in [Pages -> UserPage]
      /\ \A q \in Pages : page'[q].va = page[q].va /\ page'[q].list = page[q].list
  BY <1>1, <1>2, UnmapFacts, Marking
<1>4. /\ unmap'.at = "page" /\ unmap'.page = 0
      /\ unmap'.todo \subseteq unmap.todo /\ unmap'.region = unmap.region
      /\ MapVarsOK' /\ RangesApart'
  <2> DEFINE s == unmap.todo \ {First(unmap.todo)}
  <2>1. s \in SUBSET unmap.todo /\ UnmapGoes("page", 0, s)
    BY <1>1, UnmapFacts DEF MapVarsOK, UnmapGoes
  <2> QED  BY <1>1, <2>1, UnmapFacts, UnmapMoves DEF UnmapLabels
<1>5. UnmapOK'
  BY <1>4, UnmapFacts DEF UnmapOK
<1>6. TypeOK' /\ HashOK' /\ KeepsVa
  BY <1>1, <1>3, UnmapFacts DEF TypeOK, HashOK, KeepsVa
<1> QED  BY <1>1, <1>3, <1>4, <1>5, <1>6, UnmapLift

LEMMA LibcMunmapInv == MapInv /\ libc_munmap => MapInv'
<1> SUFFICES ASSUME MapInv, libc_munmap PROVE MapInv'
  OBVIOUS
<1>1. /\ unmap.at = "page" /\ unmap' = NoUnmap
      /\ pte' = [v \in VA |-> IF v \in unmap.region THEN NoPte ELSE pte[v]]
      /\ UNCHANGED <<page, fifo, pages, disk, pc, fault, scan, evict, failed, mapped, newmap>>
  BY DEF libc_munmap, UnmapAt
<1>2. pte' \in [VA -> Pte]
  <2>1. NoPte \in Pte
    BY SizeAssumption DEF NoPte, Pte
  <2> QED  BY <1>1, <2>1, UnmapFacts DEF TypeOK
<1>3. TypeOK' /\ HashOK' /\ KeepsVa
  BY <1>1, <1>2, UnmapFacts DEF TypeOK, HashOK, KeepsVa
<1>4. /\ unmap'.at = "idle" /\ unmap'.region = {} /\ unmap'.todo = {} /\ unmap'.page = 0
      /\ unmap'.by = {}
  BY <1>1 DEF NoUnmap
<1>5. MapVarsOK'
  BY <1>1, UnmapFacts DEF MapVarsOK, NoUnmap, UnmapLabels
<1>6. RangesApart' /\ UnmapOK'
  BY <1>1, <1>4, UnmapFacts DEF RangesApart, UnmapOK
<1> QED  BY <1>1, <1>3, <1>4, <1>5, <1>6, UnmapLift

\* A descriptor that nobody holds, or names to use its address.
Unused(p) ==
    /\ \A e \in Executors, r \in Roles : ~Holds(e, r, p)
    /\ \A t \in Threads : pc[t] = "missing" => fault[t].page # p
    /\ \A v \in VA : pages[v] # p

\* Such is the page that munmap takes.
LEMMA TakenAlone ==
    ASSUME MapInv, UnmapTake
    PROVE  unmap.page \in Pages /\ unmap.todo # {} /\ Unused(unmap.page)
<1> DEFINE p == unmap.page
           v == First(unmap.todo)
<1>1. /\ unmap.at = "take" /\ p \in Pages /\ unmap.todo # {} /\ page[p].list # "none"
      /\ page[p].va = v /\ pages[v] = 0 /\ v \in unmap.region /\ v \in VA
  BY UnmapFacts DEF UnmapTake, UnmapAt, UnmapOK
<1>2. \A e \in Executors, r \in Roles : ~Holds(e, r, p)
  BY <1>1 DEF MapInv, MapOwnership
<1>3. ASSUME NEW t \in Threads, pc[t] = "missing" PROVE fault[t].page # p
  <2>1. LocalOK(t) /\ fault[t] \in FaultLocals
    BY DEF MapInv, UseInv, LocalsOK, TypeOK, Executors
  <2>2. fault[t].job = "none"
    BY <1>3, <2>1 DEF LocalOK, ThreadOK
  <2>3. page[fault[t].page].va = fault[t].addr /\ fault[t].addr \notin unmap.region
    BY <1>3, <2>2 DEF MapInv, FaultsApart
  <2> QED  BY <1>1, <2>3
<1>4. ASSUME NEW w \in VA PROVE pages[w] # p
  <2>1. p # 0
    BY <1>1, SizeAssumption DEF Pages
  <2>2. pages[w] = p => page[p].va = w
    BY <2>1, UnmapFacts DEF HashOK
  <2> QED  BY <1>1, <2>1, <2>2
<1> QED  BY <1>1, <1>2, <1>3, <1>4 DEF Unused

\* A step of munmap that changes descriptors nobody holds, and the lists they
\* are on, leaves the locals of all others as they are.
LEMMA UnmapOthers ==
    ASSUME MapInv, UNCHANGED <<pages, pte, disk, pc, fault, scan, evict, failed, mapped, newmap>>,
           page' \in [Pages -> UserPage], fifo' \in [Queues -> Seq(Pages)],
           \A p \in Pages : page'[p].va = page[p].va \/ Unused(p)
    PROVE  /\ TypeOK' /\ LocalsOK' /\ LocalsUsed' /\ HashOK' /\ BatchesDistinct'
           /\ \A t \in Threads : pc'[t] = "missing" => page'[fault'[t].page].va = fault'[t].addr
<1>0. UseInv /\ TypeOK /\ LocalsOK /\ LocalsUsed /\ BatchesDistinct /\ FaultsApart /\ HashOK
  BY DEF MapInv, UseInv
<1>1. TypeOK'
  BY <1>0 DEF TypeOK
<1>2. LocalsOK' /\ BatchesDistinct'
  BY <1>0 DEF LocalsOK, LocalOK, EvictorOK, ThreadOK, BatchesDistinct, Distinct
<1>3. LocalsUsed'
  <2> SUFFICES ASSUME NEW e \in Executors PROVE LocalUsed(e)'
    BY DEF LocalsUsed
  <2>0. LocalOK(e) /\ LocalUsed(e)
    BY <1>0 DEF LocalsOK, LocalsUsed
  <2>1. \A p \in Pages, r \in Roles : Holds(e, r, p) => page'[p].va = page[p].va
    BY DEF Unused
  <2>2. ASSUME e \in Evictors, HoldsVictim(e)
        PROVE  page'[evict[e].victim].va \in VA
    <3>1. evict[e].victim \in Pages
      BY <1>0, <2>0, <2>2 DEF TypeOK, EvictLocals, LocalOK, EvictorOK, HoldsVictim, EvictPcs
    <3>2. Holds(e, "victim", evict[e].victim)
      BY <2>2, <3>1, RoleDefs
    <3>3. page[evict[e].victim].va \in VA
      BY <2>0, <2>2 DEF LocalUsed, Mapped
    <3> QED  BY <2>1, <3>1, <3>2, <3>3 DEF Roles
  <2>3. ASSUME e \in Scanners, scan[e] # 0 PROVE page'[scan[e]].va \in VA
    <3>1. scan[e] \in Pages /\ page[scan[e]].va \in VA
      BY <1>0, <2>0, <2>3 DEF TypeOK, LocalUsed, Mapped
    <3>2. Holds(e, "scan", scan[e])
      BY <2>3, <3>1, RoleDefs
    <3> QED  BY <2>1, <3>1, <3>2 DEF Roles
  <2>4. ASSUME e \in Threads
        PROVE  /\ pc[e] \in {"missing", "publish"} => page'[fault[e].page].va \in VA
               /\ \A i \in DOMAIN fault[e].reading : page'[fault[e].reading[i]].va \in VA
               /\ pc[e] \in {"map", "add"} => page'[fault[e].frees[1]].va \in VA
    <3>0. fault[e] \in FaultLocals /\ ThreadOK(e)
      BY <1>0, <2>0, <2>4 DEF TypeOK, LocalOK
    <3>1. pc[e] = "missing" => page'[fault[e].page].va \in VA
      <4> SUFFICES ASSUME pc[e] = "missing" PROVE page'[fault[e].page].va \in VA
        OBVIOUS
      <4>1. fault[e].page \in Pages /\ page[fault[e].page].va \in VA
        BY <2>0, <2>4, <3>0 DEF LocalUsed, ThreadOK, FaultLocals, Mapped
      <4> QED  BY <2>4, <4>1 DEF Unused
    <3>2. pc[e] = "publish" => page'[fault[e].page].va \in VA
      <4> SUFFICES ASSUME pc[e] = "publish" PROVE page'[fault[e].page].va \in VA
        OBVIOUS
      <4>1. fault[e].page \in Pages /\ page[fault[e].page].va \in VA
        BY <2>0, <2>4, <3>0 DEF LocalUsed, ThreadOK, SettlePcs, FaultLocals, Mapped
      <4>2. Holds(e, "page", fault[e].page)
        BY <2>4, <4>1, RoleDefs
      <4> QED  BY <2>1, <4>1, <4>2 DEF Roles
    <3>3. ASSUME NEW i \in DOMAIN fault[e].reading PROVE page'[fault[e].reading[i]].va \in VA
      <4>1. fault[e].reading[i] \in Pages /\ page[fault[e].reading[i]].va \in VA
        BY <2>0, <2>4, <3>0 DEF LocalUsed, FaultLocals, Mapped
      <4>2. Holds(e, "read", fault[e].reading[i])
        BY <2>4, <4>1, RoleDefs
      <4> QED  BY <2>1, <4>1, <4>2 DEF Roles
    <3>4. pc[e] \in {"map", "add"} => page'[fault[e].frees[1]].va \in VA
      <4> SUFFICES ASSUME pc[e] \in {"map", "add"} PROVE page'[fault[e].frees[1]].va \in VA
        OBVIOUS
      <4>1. fault[e].frees \in Seq(Pages) /\ Len(fault[e].frees) = 1
        BY <3>0 DEF ThreadOK, FirstPcs, FaultLocals
      <4>2. /\ fault[e].frees[1] \in Pages /\ page[fault[e].frees[1]].va \in VA
            /\ 1 \in DOMAIN fault[e].frees
        BY <2>0, <2>4, <4>1 DEF LocalUsed, Mapped
      <4>3. Holds(e, "free", fault[e].frees[1])
        BY <2>4, <4>2, RoleDefs
      <4> QED  BY <2>1, <4>2, <4>3 DEF Roles
    <3> QED  BY <3>1, <3>2, <3>3, <3>4
  <2> QED  BY <2>2, <2>3, <2>4 DEF LocalUsed, HoldsVictim, Mapped
<1>4. HashOK'
  <2> SUFFICES ASSUME NEW v \in VA, pages[v] # 0 PROVE page'[pages[v]].va = v
    BY DEF HashOK
  <2>1. pages[v] \in Pages /\ page[pages[v]].va = v
    BY <1>0 DEF TypeOK, HashOK
  <2> QED  BY <2>1 DEF Unused
<1>5. ASSUME NEW t \in Threads, pc[t] = "missing"
      PROVE  page'[fault[t].page].va = fault[t].addr
  <2>1. LocalOK(t) /\ fault[t] \in FaultLocals
    BY <1>0 DEF LocalsOK, TypeOK, Executors
  <2>2. fault[t].page \in Pages
    BY <1>5, <2>1 DEF LocalOK, ThreadOK, FaultLocals
  <2> QED  BY <1>0, <1>5, <2>2 DEF FaultsApart, Unused
<1> QED  BY <1>1, <1>2, <1>3, <1>4, <1>5

LEMMA UnmapTakeInv == MapInv /\ UnmapTake => MapInv'
<1> SUFFICES ASSUME MapInv, UnmapTake PROVE MapInv'
  OBVIOUS
<1> DEFINE p == unmap.page
<1>1. /\ unmap.at = "take" /\ page[p].list # "none"
      /\ fifo' = WithoutPage(p)
      /\ page' = [page EXCEPT ![p].list = "none", ![p].va = 0]
      /\ UnmapTo("free")
      /\ UNCHANGED <<pages, pte, disk, pc, fault, scan, evict, failed, mapped, newmap>>
  BY DEF UnmapTake, UnmapAt
<1>2. p \in Pages /\ unmap.todo # {} /\ Unused(p)
  BY TakenAlone
<1>3. /\ page' \in [Pages -> UserPage] /\ page'[p].list = "none"
      /\ \A d \in Pages \ {p} : page'[d] = page[d]
  <2>1. page \in [Pages -> UserPage]
    BY UnmapFacts
  <2>2. [page[p] EXCEPT !.list = "none", !.va = 0] \in UserPage
    BY <1>2, <2>1 DEF UserPage, Lists
  <2>3. page' = [page EXCEPT ![p] = [page[p] EXCEPT !.list = "none", !.va = 0]]
    BY <1>1
  <2>4. [page[p] EXCEPT !.list = "none", !.va = 0].list = "none"
    BY <1>2, <2>1 DEF UserPage
  <2> QED  BY <1>2, <2>1, <2>2, <2>3, <2>4
<1>4. /\ QueuesMatch' /\ fifo' \in [Queues -> Seq(Pages)]
      /\ \A q \in Queues : \A i \in DOMAIN fifo'[q] :
           fifo'[q][i] # p /\ \E j \in DOMAIN fifo[q] : fifo'[q][i] = fifo[q][j]
  <2>1. "none" \notin Queues
    BY DEF Queues
  <2>2. TypeOK /\ QueuesMatch
    BY UnmapFacts DEF MapInv
  <2> QED  BY <1>1, <1>2, <1>3, <2>1, <2>2, QueueWithout
<1>5. /\ TypeOK' /\ LocalsOK' /\ LocalsUsed' /\ HashOK' /\ BatchesDistinct'
      /\ \A t \in Threads : pc'[t] = "missing" => page'[fault'[t].page].va = fault'[t].addr
  <2>1. \A d \in Pages : page'[d].va = page[d].va \/ Unused(d)
    BY <1>2, <1>3
  <2> QED  BY <1>1, <1>3, <1>4, <2>1, UnmapOthers
<1>6. QueuesMapped'
  <2> SUFFICES ASSUME NEW q \in {"active", "inactive", "eviction"}, NEW i \in DOMAIN fifo'[q]
               PROVE  page'[fifo'[q][i]].va \in VA
    BY DEF QueuesMapped, Mapped
  <2>1. q \in Queues
    BY DEF Queues
  <2>2. PICK j \in DOMAIN fifo[q] : fifo'[q][i] = fifo[q][j] /\ fifo'[q][i] # p
    BY <1>4, <2>1
  <2>3. page[fifo[q][j]].va \in VA
    BY DEF MapInv, UseInv, QueuesMapped, Mapped
  <2>4. fifo[q] \in Seq(Pages)
    BY <2>1, UnmapFacts DEF TypeOK
  <2>5. fifo[q][j] \in Pages
    BY <2>4
  <2> QED  BY <1>3, <2>2, <2>3, <2>5
<1>7. /\ unmap'.at = "free" /\ unmap'.page = p /\ unmap'.todo = unmap.todo
      /\ unmap'.region = unmap.region /\ MapVarsOK' /\ RangesApart'
  BY <1>1, UnmapFacts, UnmapToMoves, UnmapMoves DEF UnmapLabels
<1>8. UnmapOK'
  BY <1>2, <1>7, UnmapFacts DEF UnmapOK
<1>9. FaultsApart'
  BY <1>1, <1>5, <1>7 DEF MapInv, FaultsApart
<1>10. MapOwnership'
  <2>1. \A e \in Executors, r \in Roles, d \in Pages : Holds(e, r, d)' <=> Holds(e, r, d)
    BY <1>1 DEF Holds, HoldsVictim, Roles
  <2>2. \A d \in Pages : UnmapHolds(d)' <=> d = p
    BY <1>7 DEF UnmapHolds
  <2>3. \A d \in Pages : ~UnmapHolds(d)
    BY <1>1 DEF UnmapHolds
  <2>4. MapOwnership
    BY DEF MapInv
  <2>5. ASSUME NEW d \in Pages
        PROVE  /\ page'[d].list = "none" <=>
                    UnmapHolds(d)' \/ \E e \in Executors, r \in Roles : Holds(e, r, d)'
               /\ \A e \in Executors, r \in Roles : Holds(e, r, d)' =>
                    /\ ~UnmapHolds(d)'
                    /\ \A f \in Executors, s \in Roles : Holds(f, s, d)' => e = f /\ r = s
    <3>1. CASE d = p
      BY <1>2, <1>3, <2>1, <2>2, <3>1 DEF Unused
    <3>2. CASE d # p
      <4>1. page'[d].list = page[d].list
        BY <1>3, <3>2
      <4>2. /\ page[d].list = "none" <=> \E e \in Executors, r \in Roles : Holds(e, r, d)
            /\ \A e \in Executors, r \in Roles : Holds(e, r, d) =>
                 \A f \in Executors, s \in Roles : Holds(f, s, d) => e = f /\ r = s
        BY <2>3, <2>4 DEF MapOwnership
      <4> QED  BY <2>1, <2>2, <3>2, <4>1, <4>2
    <3> QED  BY <3>1, <3>2
  <2> QED  BY <2>5 DEF MapOwnership
<1> QED  BY <1>4, <1>5, <1>6, <1>7, <1>8, <1>9, <1>10 DEF MapInv, UseInv

\* The queues of the application's pages stay as they are.
LEMMA StillMapped ==
    ASSUME MapInv, \A p \in Pages : page'[p].va = page[p].va,
           \A q \in {"active", "inactive", "eviction"} : fifo'[q] = fifo[q]
    PROVE  QueuesMapped'
<1> SUFFICES ASSUME NEW q \in {"active", "inactive", "eviction"}, NEW i \in DOMAIN fifo[q]
             PROVE  page'[fifo[q][i]].va \in VA
  BY DEF QueuesMapped, Mapped
<1>1. fifo[q] \in Seq(Pages)
  BY UnmapFacts DEF TypeOK, Queues
<1>2. fifo[q][i] \in Pages /\ page[fifo[q][i]].va \in VA
  BY <1>1 DEF MapInv, UseInv, QueuesMapped, Mapped
<1> QED  BY <1>2

\* An assertion of munmap ends the process, which leaves everything in order.
LEMMA UnmapAborts ==
    ASSUME MapInv, NEW label, label \notin {"none"} \cup AssertLabels, Abort(label),
           UNCHANGED <<mapped, unmap, newmap>>
    PROVE  MapSafe' /\ failed' = label
<1>1. failed' = label /\ UNCHANGED <<sharedVars, pc, fault, scan, evict, mapped, unmap, newmap>>
  BY DEF Abort
<1>2. Ended'
  BY <1>1 DEF Ended
<1>3. MapOwnership' /\ MapVarsOK' /\ QueuesMatch'
  BY <1>1 DEF MapInv, MapOwnership, MapVarsOK, QueuesMatch, UnmapHolds, Holds, HoldsVictim, Roles, sharedVars
<1> QED  BY <1>1, <1>2, <1>3 DEF MapSafe

LEMMA UnmapReserveInv == MapInv /\ UnmapReserve => MapSafe' /\ (MapInv' \/ failed' \in UnmapAssertLabels)
<1> SUFFICES ASSUME MapInv, UnmapReserve
             PROVE  MapSafe' /\ (MapInv' \/ failed' \in UnmapAssertLabels)
  OBVIOUS
<1> DEFINE p == unmap.page
           d == page[p].reserve
<1>1. unmap.at = "free" /\ p \in Pages /\ UNCHANGED <<mapped, unmap, newmap>>
  BY UnmapFacts DEF UnmapReserve, UnmapAt
<1>2. CASE Abort("reserve_page->reserve == page on disk_reserve_list")
  BY <1>1, <1>2, UnmapAborts DEF UnmapAssertLabels, AssertLabels
<1>3. CASE /\ page[d].reserve = p /\ page[d].list = "disk_reserve" /\ d # 0
           /\ fifo' = EnqueueFifo("disk_free", d)
           /\ page' = [page EXCEPT ![p].reserve = 0, ![d].reserve = 0, ![d].list = "disk_free"]
           /\ UNCHANGED <<pages, pte, disk, pc, fault, scan, evict, failed>>
  <2>1. page \in [Pages -> UserPage] /\ d \in Pages
    BY <1>1, <1>3, UnmapFacts DEF UserPage
  <2>2. UnmapHolds(p) /\ page[p].list = "none"
    BY <1>1 DEF UnmapHolds, MapInv, MapOwnership
  <2>3. p # d
    BY <1>3, <2>2
  <2>4. /\ page' \in [Pages -> UserPage] /\ page'[d].list = "disk_free"
        /\ \A r \in Pages : page'[r].va = page[r].va
        /\ \A r \in Pages \ {d} : page'[r].list = page[r].list
    <3> DEFINE a == [page[p] EXCEPT !.reserve = 0]
               b == [page[d] EXCEPT !.reserve = 0, !.list = "disk_free"]
    <3>1. a \in UserPage /\ a.va = page[p].va /\ a.list = page[p].list
      BY <1>1, <2>1 DEF UserPage
    <3>2. b \in UserPage /\ b.va = page[d].va /\ b.list = "disk_free"
      <4>1. "disk_free" \in Lists
        BY DEF Lists, Queues
      <4> QED  BY <2>1, <4>1 DEF UserPage
    <3>3. page' = [page EXCEPT ![p] = a, ![d] = b]
      BY <1>1, <1>3, <2>1, <2>3
    <3> HIDE DEF a, b
    <3> QED  BY <1>1, <2>1, <2>3, <3>1, <3>2, <3>3
  <2>5. /\ fifo' \in [Queues -> Seq(Pages)]
        /\ \A q \in {"active", "inactive", "eviction"} : fifo'[q] = fifo[q]
    BY <1>3, <2>1, UnmapFacts DEF TypeOK, EnqueueFifo, Queues
  <2>6. QueuesMatch'
    <3>1. TypeOK /\ QueuesMatch /\ page[d].list \notin Queues /\ "disk_free" \in Queues
      BY <1>3, UnmapFacts DEF MapInv, Queues
    <3> QED  BY <1>3, <2>1, <2>4, <3>1, QueueJoin
  <2>7. /\ TypeOK' /\ LocalsOK' /\ LocalsUsed' /\ HashOK' /\ BatchesDistinct'
        /\ \A t \in Threads : pc'[t] = "missing" => page'[fault'[t].page].va = fault'[t].addr
    BY <1>1, <1>3, <2>4, <2>5, UnmapOthers
  <2>8. QueuesMapped'
    BY <2>4, <2>5, StillMapped
  <2>9. MapVarsOK' /\ RangesApart' /\ UnmapOK' /\ FaultsApart'
    BY <1>1, <1>3, <2>7, UnmapFacts DEF MapVarsOK, RangesApart, UnmapOK, FaultsApart, MapInv
  <2>10. MapOwnership'
    <3>1. \A e \in Executors, r \in Roles, c \in Pages : Holds(e, r, c)' <=> Holds(e, r, c)
      BY <1>3 DEF Holds, HoldsVictim, Roles
    <3>2. \A c \in Pages : UnmapHolds(c)' <=> UnmapHolds(c)
      BY <1>1 DEF UnmapHolds
    <3>3. MapOwnership
      BY DEF MapInv
    <3>4. \A c \in Pages : page'[c].list = "none" <=> page[c].list = "none"
      BY <1>3, <2>4
    <3> QED  BY <3>1, <3>2, <3>3, <3>4 DEF MapOwnership
  <2>11. MapInv'
    BY <2>6, <2>7, <2>8, <2>9, <2>10 DEF MapInv, UseInv
  <2> QED  BY <2>11 DEF MapSafe, MapInv
<1> QED  BY <1>2, <1>3 DEF UnmapReserve

LEMMA UnmapFreeInv == MapInv /\ UnmapFree => MapSafe' /\ (MapInv' \/ failed' \in UnmapAssertLabels)
<1> SUFFICES ASSUME MapInv, UnmapFree
             PROVE  MapSafe' /\ (MapInv' \/ failed' \in UnmapAssertLabels)
  OBVIOUS
<1> DEFINE p == unmap.page
           q == IF page[p].in_dram THEN "dram_free" ELSE "disk_free"
<1>1. unmap.at = "free" /\ p \in Pages /\ unmap.todo # {} /\ UNCHANGED <<mapped, newmap>>
  BY UnmapFacts DEF UnmapFree, UnmapAt
<1>2. CASE Abort("no other configuration") /\ unmap' = unmap
  BY <1>1, <1>2, UnmapAborts DEF UnmapAssertLabels, AssertLabels
<1>3. CASE /\ fifo' = EnqueueFifo(q, p)
           /\ page' = [page EXCEPT ![p].list = q, ![p].reserve = 0]
           /\ UnmapTo("release")
           /\ UNCHANGED <<pages, pte, disk, pc, fault, scan, evict, failed>>
  <2>0. q \in {"dram_free", "disk_free"} /\ q \in Queues /\ q \in Lists /\ q # "none"
    BY DEF Queues, Lists
  <2> HIDE DEF q
  <2>1. page \in [Pages -> UserPage]
    BY UnmapFacts
  <2>2. UnmapHolds(p) /\ page[p].list = "none"
        /\ \A e \in Executors, r \in Roles : ~Holds(e, r, p)
    BY <1>1 DEF UnmapHolds, MapInv, MapOwnership
  <2>4. /\ page' \in [Pages -> UserPage] /\ page'[p].list = q
        /\ \A r \in Pages : page'[r].va = page[r].va
        /\ \A r \in Pages \ {p} : page'[r].list = page[r].list
    <3> DEFINE a == [page[p] EXCEPT !.list = q, !.reserve = 0]
    <3>1. a \in UserPage /\ a.va = page[p].va /\ a.list = q
      BY <1>1, <2>0, <2>1 DEF UserPage
    <3>2. page' = [page EXCEPT ![p] = a]
      BY <1>3
    <3> HIDE DEF a
    <3> QED  BY <1>1, <2>1, <3>1, <3>2
  <2>5. /\ fifo' \in [Queues -> Seq(Pages)]
        /\ \A r \in {"active", "inactive", "eviction"} : fifo'[r] = fifo[r]
    BY <1>1, <1>3, <2>0, UnmapFacts DEF TypeOK, EnqueueFifo, Queues
  <2>6. QueuesMatch'
    <3>1. TypeOK /\ QueuesMatch
      BY UnmapFacts DEF MapInv
    <3> QED  BY <1>1, <1>3, <2>0, <2>2, <2>4, <3>1, QueuePut
  <2>7. /\ TypeOK' /\ LocalsOK' /\ LocalsUsed' /\ HashOK' /\ BatchesDistinct'
        /\ \A t \in Threads : pc'[t] = "missing" => page'[fault'[t].page].va = fault'[t].addr
    BY <1>1, <1>3, <2>4, <2>5, UnmapOthers
  <2>8. QueuesMapped'
    BY <2>4, <2>5, StillMapped
  <2>9. /\ unmap'.at = "release" /\ unmap'.page = p /\ unmap'.todo = unmap.todo
        /\ unmap'.region = unmap.region /\ MapVarsOK' /\ RangesApart'
    BY <1>1, <1>3, UnmapFacts, UnmapToMoves, UnmapMoves DEF UnmapLabels
  <2>10. UnmapOK' /\ FaultsApart'
    <3>1. UnmapOK'
      BY <1>1, <2>9, UnmapFacts DEF UnmapOK
    <3>2. FaultsApart'
      BY <1>3, <2>7, <2>9 DEF FaultsApart, MapInv
    <3> QED  BY <3>1, <3>2
  <2>11. MapOwnership'
    <3>1. \A e \in Executors, r \in Roles, c \in Pages : Holds(e, r, c)' <=> Holds(e, r, c)
      BY <1>3 DEF Holds, HoldsVictim, Roles
    <3>2. \A c \in Pages : ~UnmapHolds(c)' /\ (UnmapHolds(c) <=> c = p)
      BY <1>1, <2>9 DEF UnmapHolds
    <3>3. MapOwnership
      BY DEF MapInv
    <3>4. ASSUME NEW c \in Pages
          PROVE  /\ page'[c].list = "none" <=> \E e \in Executors, r \in Roles : Holds(e, r, c)
                 /\ \A e \in Executors, r \in Roles : Holds(e, r, c) =>
                      \A f \in Executors, s \in Roles : Holds(f, s, c) => e = f /\ r = s
      <4>1. CASE c = p
        BY <2>0, <2>2, <2>4, <4>1
      <4>2. CASE c # p
        <5>1. page'[c].list = page[c].list
          BY <2>4, <4>2
        <5> QED  BY <3>2, <3>3, <4>2, <5>1 DEF MapOwnership
      <4> QED  BY <4>1, <4>2
    <3> QED  BY <3>1, <3>2, <3>4 DEF MapOwnership
  <2>12. MapInv'
    BY <2>6, <2>7, <2>8, <2>9, <2>10, <2>11 DEF MapInv, UseInv
  <2> QED  BY <2>12 DEF MapSafe, MapInv
<1> QED  BY <1>2, <1>3 DEF UnmapFree

\* A step that leaves all of ExtMem's variables alone.
LEMMA VarsLift ==
    ASSUME MapInv, UNCHANGED vars, unmap' = unmap \/ (unmap.at # "free" /\ unmap'.at # "free"),
           MapVarsOK', UnmapOK', RangesApart', FaultsApart'
    PROVE  MapInv'
<1>1. UseInv'
  BY StutterInv DEF MapInv
<1>2. BatchesDistinct' /\ QueuesMatch'
  BY DEF MapInv, vars, BatchesDistinct, QueuesMatch
<1>3. NothingMoved
  BY DEF vars, NothingMoved, Holds, HoldsVictim, Roles
<1>4. MapOwnership'
  BY <1>3, MapOwnLift DEF MapInv, UnmapHolds
<1> QED  BY <1>1, <1>2, <1>4 DEF MapInv

\* munmap is called on a range that no fault is on.
LEMMA MunmapInv ==
    ASSUME MapInv, NEW t \in Threads, NEW range \in Ranges, extmem_munmap(t, range)
    PROVE  MapInv'
<1>1. /\ unmap.at = "idle" /\ range \in SUBSET mapped
      /\ \A u \in Threads : fault[u].addr \notin range
      /\ mapped' = mapped \ range /\ newmap' = newmap
      /\ unmap' = [NoUnmap EXCEPT !.at = "page", !.by = {t}, !.region = range, !.todo = range]
      /\ UNCHANGED vars
  BY DEF extmem_munmap, UnmapAt
<1>2. /\ MapVarsOK /\ UnmapOK /\ RangesApart /\ FaultsApart /\ mapped \in SUBSET VA
      /\ unmap.region = {}
  BY <1>1, UnmapFacts DEF MapInv, MapVarsOK, UnmapOK
<1>3. /\ unmap'.at = "page" /\ unmap'.by = {t} /\ unmap'.region = range
      /\ unmap'.todo = range /\ unmap'.page = 0
  BY <1>1 DEF NoUnmap
<1>4. MapVarsOK'
  <2>1. unmap' = [at |-> "page", by |-> {t}, region |-> range, todo |-> range, page |-> 0]
    BY <1>1 DEF NoUnmap
  <2>2. range \in SUBSET VA /\ {t} \in SUBSET Threads /\ "page" \in UnmapLabels
    BY <1>1, <1>2 DEF UnmapLabels
  <2>3. mapped' \subseteq VA
    BY <1>1, <1>2
  <2> QED  BY <1>1, <1>2, <2>1, <2>2, <2>3 DEF MapVarsOK
<1>5. UnmapOK'
  BY <1>3 DEF UnmapOK
<1>6. RangesApart'
  <2>1. mapped' \cap range = {}
    BY <1>1
  <2>2. ASSUME NEW u \in Threads
        PROVE  /\ newmap[u].todo \subseteq newmap[u].region
               /\ newmap[u].region \cap (mapped' \cup range) = {}
               /\ \A w \in Threads \ {u} : newmap[u].region \cap newmap[w].region = {}
    <3>1. newmap[u].region \cap mapped = {} /\ newmap[u].todo \subseteq newmap[u].region
      BY <1>2 DEF RangesApart
    <3>2. \A w \in Threads \ {u} : newmap[u].region \cap newmap[w].region = {}
      BY <1>2 DEF RangesApart
    <3> QED  BY <1>1, <3>1, <3>2
  <2> QED  BY <1>1, <1>3, <2>1, <2>2 DEF RangesApart
<1>7. FaultsApart'
  BY <1>1, <1>2, <1>3 DEF FaultsApart, vars
<1> QED  BY <1>1, <1>3, <1>4, <1>5, <1>6, <1>7, VarsLift

\* mmap is given a range that nobody has.
LEMMA MmapInv ==
    ASSUME MapInv, NEW t \in Threads, NEW range \in Ranges, extmem_mmap(t, range)
    PROVE  MapInv'
<1> DEFINE new == [region |-> range, todo |-> IF Populate THEN range ELSE {}]
<1>1. /\ range \cap (mapped \cup unmap.region \cup UNION {newmap[u].region : u \in Threads}) = {}
      /\ newmap' = [newmap EXCEPT ![t] = new]
      /\ UNCHANGED <<vars, mapped, unmap>>
  BY DEF extmem_mmap
<1>2. /\ MapVarsOK /\ UnmapOK /\ RangesApart /\ FaultsApart
      /\ newmap \in [Threads -> [region : SUBSET VA, todo : SUBSET VA]]
  BY UnmapFacts DEF MapInv, MapVarsOK
<1>3. range \in SUBSET VA
  BY SizeAssumption DEF Ranges, VA
<1>4. /\ new \in [region : SUBSET VA, todo : SUBSET VA]
      /\ new.region = range /\ new.todo \subseteq range
  BY <1>3
<1> HIDE DEF new
<1>5. newmap'[t] = new /\ \A u \in Threads \ {t} : newmap'[u] = newmap[u]
  BY <1>1, <1>2
<1>6. MapVarsOK'
  <2>1. newmap' \in [Threads -> [region : SUBSET VA, todo : SUBSET VA]]
    BY <1>1, <1>2, <1>4
  <2> QED  BY <1>1, <1>2, <2>1 DEF MapVarsOK
<1>7. RangesApart'
  <2>1. \A u \in Threads : range \cap newmap[u].region = {}
    BY <1>1
  <2>2. ASSUME NEW u \in Threads
        PROVE  /\ newmap'[u].todo \subseteq newmap'[u].region
               /\ newmap'[u].region \cap (mapped \cup unmap.region) = {}
               /\ \A w \in Threads \ {u} : newmap'[u].region \cap newmap'[w].region = {}
    <3>1. /\ newmap[u].todo \subseteq newmap[u].region
          /\ newmap[u].region \cap (mapped \cup unmap.region) = {}
          /\ \A w \in Threads \ {u} : newmap[u].region \cap newmap[w].region = {}
      BY <1>2 DEF RangesApart
    <3>2. CASE u = t
      <4>1. \A w \in Threads \ {u} : newmap'[w] = newmap[w]
        BY <1>5, <3>2
      <4> QED  BY <1>1, <1>4, <1>5, <2>1, <3>2, <4>1
    <3>3. CASE u # t
      <4>1. newmap'[u] = newmap[u]
        BY <1>5, <3>3
      <4>2. ASSUME NEW w \in Threads \ {u} PROVE newmap[u].region \cap newmap'[w].region = {}
        BY <1>4, <1>5, <2>1, <3>1
      <4> QED  BY <3>1, <4>1, <4>2
    <3> QED  BY <3>2, <3>3
  <2>3. mapped \cap unmap.region = {}
    BY <1>2 DEF RangesApart
  <2> QED  BY <1>1, <2>2, <2>3 DEF RangesApart
<1>8. UnmapOK' /\ FaultsApart'
  BY <1>1, <1>2 DEF UnmapOK, FaultsApart, vars
<1> QED  BY <1>1, <1>6, <1>7, <1>8, VarsLift

LEMMA MmapReturnInv ==
    ASSUME MapInv, NEW t \in Threads, MmapReturn(t)
    PROVE  MapInv'
<1>1. /\ mapped' = mapped \cup newmap[t].region
      /\ newmap' = [newmap EXCEPT ![t] = NoMmap]
      /\ UNCHANGED <<vars, unmap>>
  BY DEF MmapReturn
<1>2. /\ MapVarsOK /\ UnmapOK /\ RangesApart /\ FaultsApart
      /\ newmap \in [Threads -> [region : SUBSET VA, todo : SUBSET VA]]
  BY UnmapFacts DEF MapInv, MapVarsOK
<1>3. /\ NoMmap \in [region : SUBSET VA, todo : SUBSET VA]
      /\ NoMmap.region = {} /\ NoMmap.todo = {}
  BY DEF NoMmap
<1>4. newmap'[t] = NoMmap /\ \A u \in Threads \ {t} : newmap'[u] = newmap[u]
  BY <1>1, <1>2
<1>5. MapVarsOK'
  <2>1. newmap' \in [Threads -> [region : SUBSET VA, todo : SUBSET VA]]
    BY <1>1, <1>2, <1>3
  <2>2. mapped' \subseteq VA
    BY <1>1, <1>2 DEF MapVarsOK
  <2> QED  BY <1>1, <1>2, <2>1, <2>2 DEF MapVarsOK
<1>6. RangesApart'
  <2>1. ASSUME NEW u \in Threads
        PROVE  /\ newmap'[u].todo \subseteq newmap'[u].region
               /\ newmap'[u].region \cap (mapped' \cup unmap.region) = {}
               /\ \A w \in Threads \ {u} : newmap'[u].region \cap newmap'[w].region = {}
    <3>1. /\ newmap[u].todo \subseteq newmap[u].region
          /\ newmap[u].region \cap (mapped \cup unmap.region) = {}
          /\ \A w \in Threads \ {u} : newmap[u].region \cap newmap[w].region = {}
      BY <1>2 DEF RangesApart
    <3>2. CASE u = t
      BY <1>3, <1>4, <3>2
    <3>3. CASE u # t
      <4>1. newmap'[u] = newmap[u]
        BY <1>4, <3>3
      <4>2. newmap[u].region \cap mapped' = {}
        BY <1>1, <3>1, <3>3
      <4>3. ASSUME NEW w \in Threads \ {u} PROVE newmap[u].region \cap newmap'[w].region = {}
        BY <1>3, <1>4, <3>1
      <4> QED  BY <3>1, <4>1, <4>2, <4>3
    <3> QED  BY <3>2, <3>3
  <2>2. mapped' \cap unmap.region = {}
    BY <1>1, <1>2 DEF RangesApart
  <2> QED  BY <1>1, <2>1, <2>2 DEF RangesApart
<1>7. UnmapOK' /\ FaultsApart'
  BY <1>1, <1>2 DEF UnmapOK, FaultsApart, vars
<1> QED  BY <1>1, <1>5, <1>6, <1>7, VarsLift

\* An idle thread that calls the handler, or the prefetch, for an address.
Calls(t, v, job, label) ==
    /\ pc[t] = "idle" /\ v \in VA
    /\ \/ job = "first" /\ label = "fetch"
       \/ job = "prefetch" /\ label = "find"
    /\ fault' = [fault EXCEPT ![t] = [NoFault EXCEPT !.addr = v, !.job = job]]
    /\ pc' = [pc EXCEPT ![t] = label]
    /\ UNCHANGED <<sharedVars, scan, evict, failed>>

LEMMA CallInv ==
    ASSUME MapInv, NEW t \in Threads, NEW v, NEW job, NEW label, Calls(t, v, job, label)
    PROVE  /\ UseInv' /\ KeepsVa /\ NextOwns /\ pages' = pages
           /\ fault'[t].addr = v /\ fault'[t].job = job /\ pc'[t] # "missing"
           /\ \A u \in Threads \ {t} : fault'[u] = fault[u] /\ pc'[u] = pc[u]
<1>1. /\ pc[t] = "idle" /\ v \in VA
      /\ \/ job = "first" /\ label = "fetch"
         \/ job = "prefetch" /\ label = "find"
      /\ fault' = [fault EXCEPT ![t] = [NoFault EXCEPT !.addr = v, !.job = job]]
      /\ pc' = [pc EXCEPT ![t] = label]
      /\ UNCHANGED <<sharedVars, scan, evict, failed>>
  BY DEF Calls
<1>2. /\ UseInv /\ TypeOK /\ pc \in [Executors -> PcLabels]
      /\ fault \in [Threads -> FaultLocals] /\ t \in Executors
  BY UnmapFacts DEF MapInv, TypeOK, Executors
<1>5. fault[t] = NoFault
  BY <1>1, <1>2 DEF UseInv, LocalsOK, LocalOK, ThreadOK
<1>6. /\ fault'[t] = [NoFault EXCEPT !.addr = v, !.job = job]
      /\ pc'[t] = label
      /\ \A u \in Threads \ {t} : fault'[u] = fault[u] /\ pc'[u] = pc[u]
  BY <1>1, <1>2, <1>5
<1>7. /\ fault'[t].addr = v /\ fault'[t].job = job /\ fault'[t].page = 0
      /\ fault'[t].reading = <<>> /\ fault'[t].buf = <<>> /\ fault'[t].frees = <<>>
  BY <1>6 DEF NoFault
<1>8. TypeOK'
  <2>0. NoFault \in FaultLocals
    BY <1>2, <1>5
  <2>1. [NoFault EXCEPT !.addr = v, !.job = job] \in FaultLocals
    BY <1>1, <2>0 DEF FaultLocals
  <2>2. fault' \in [Threads -> FaultLocals]
    BY <1>1, <1>2, <2>1
  <2>3. pc' \in [Executors -> PcLabels]
    BY <1>1, <1>2 DEF PcLabels
  <2> QED  BY <1>1, <1>2, <2>2, <2>3 DEF TypeOK, sharedVars
<1>9. ThreadOK(t)'
  BY <1>1, <1>6, <1>7 DEF ThreadOK, FetchPcs, FirstPcs, SettlePcs, ScanPcs, EvictPcs
<1>10. KeepsVa /\ QueuesMapped' /\ HashOK'
  BY <1>1, <1>2 DEF UseInv, QueuesMapped, HashOK, Mapped, KeepsVa, sharedVars
<1>11. UseInv'
  <2>2. /\ pc' = [pc EXCEPT ![t] = pc'[t]] /\ fault' = [fault EXCEPT ![t] = fault'[t]]
        /\ pc[t] \notin EvictPcs \cup ScanPcs /\ pc'[t] \notin EvictPcs \cup ScanPcs
    BY <1>1, <1>2, <1>6 DEF EvictPcs, ScanPcs
  <2>3. /\ fault'[t].page \in {0, fault[t].page}
        /\ pc'[t] \notin {"missing", "publish", "map", "add"}
        /\ DOMAIN fault'[t].reading = {}
    BY <1>1, <1>6, <1>7
  <2>4. StepOK(t)
    BY <1>1, <1>2, <1>9, <1>10, <2>2, <2>3, ThreadStepOK
  <2> QED  BY <1>2, <1>8, <2>4, StepLift
<1>l. ASSUME NEW u \in Threads
      PROVE  /\ fault'[u].reading = fault[u].reading /\ fault'[u].frees = fault[u].frees
             /\ pc'[u] = "publish" <=> pc[u] = "publish"
             /\ pc[u] = "publish" => fault'[u].page = fault[u].page
  <2>1. CASE u = t
    <3>1. fault[t].reading = <<>> /\ fault[t].frees = <<>>
      BY <1>5 DEF NoFault
    <3> QED  BY <1>1, <1>6, <1>7, <2>1, <3>1
  <2>2. CASE u # t
    BY <1>6, <2>2
  <2> QED  BY <2>1, <2>2
<1>12. BatchesDistinct' /\ QueuesMatch'
  <2>1. QueuesMatch'
    BY <1>1 DEF MapInv, QueuesMatch, sharedVars
  <2>2. ASSUME NEW u \in Threads PROVE Distinct(fault'[u].reading) /\ Distinct(fault'[u].frees)
    <3>1. Distinct(fault[u].reading) /\ Distinct(fault[u].frees)
      BY DEF MapInv, BatchesDistinct
    <3>2. fault'[u].reading = fault[u].reading /\ fault'[u].frees = fault[u].frees
      BY <1>l
    <3> QED  BY <3>1, <3>2
  <2> QED  BY <2>1, <2>2 DEF BatchesDistinct, Distinct
<1>13. NothingMoved
  <2>2. ASSUME NEW e \in Executors PROVE HoldsVictim(e)' <=> HoldsVictim(e)
    <3>1. pc'[e] = IF e = t THEN label ELSE pc[e]
      BY <1>1, <1>2
    <3> QED  BY <1>1, <3>1 DEF HoldsVictim
  <2>3. ASSUME NEW e \in Executors, NEW r \in Roles, NEW p \in Pages
        PROVE  Holds(e, r, p)' <=> Holds(e, r, p)
    <3>1. CASE r \in {"victim", "dpage", "scan"}
      BY <1>1, <2>2, <3>1, RoleDefs, RoleDefsNext
    <3>2. CASE r \in {"read", "free", "page"}
      BY <1>l, <3>2, RoleDefs, RoleDefsNext
    <3> QED  BY <3>1, <3>2 DEF Roles
  <2> QED  BY <1>1, <2>3 DEF NothingMoved, sharedVars
<1> QED  BY <1>1, <1>6, <1>7, <1>10, <1>11, <1>12, <1>13 DEF NextOwns, sharedVars

\* A thread in mmap begins a fault on the next page of its range, which nobody
\* unmaps.
LEMMA PopulateInv ==
    ASSUME MapInv, NEW t \in Threads, PopulatePage(t)
    PROVE  MapInv'
<1> DEFINE v == First(newmap[t].todo)
<1>1. /\ pc[t] = "idle" /\ newmap[t].todo # {}
      /\ fault' = [fault EXCEPT ![t].addr = v, ![t].job = "first"]
      /\ pc' = [pc EXCEPT ![t] = "fetch"]
      /\ newmap' = [newmap EXCEPT ![t].todo = @ \ {v}]
      /\ UNCHANGED <<sharedVars, scan, evict, failed, mapped, unmap>>
  BY DEF PopulatePage, At
<1>2. /\ UseInv /\ MapVarsOK /\ UnmapOK /\ RangesApart /\ FaultsApart
      /\ newmap \in [Threads -> [region : SUBSET VA, todo : SUBSET VA]]
      /\ fault \in [Threads -> FaultLocals] /\ t \in Executors
  BY UnmapFacts DEF MapInv, MapVarsOK, TypeOK, Executors
<1>3. v \in newmap[t].todo /\ v \in VA
  BY <1>1, <1>2, FirstIn
<1>4. v \notin unmap.region
  BY <1>2, <1>3 DEF RangesApart
<1> HIDE DEF v
<1>5. Calls(t, v, "first", "fetch")
  <2>1. fault[t] = NoFault
    BY <1>1, <1>2 DEF UseInv, LocalsOK, LocalOK, ThreadOK
  <2>2. fault' = [fault EXCEPT ![t] = [NoFault EXCEPT !.addr = v, !.job = "first"]]
    BY <1>1, <1>2, <2>1
  <2>3. UNCHANGED <<sharedVars, scan, evict, failed>>
    BY <1>1
  <2>4. pc' = [pc EXCEPT ![t] = "fetch"]
    BY <1>1
  <2>5. pc[t] = "idle" /\ v \in VA
    BY <1>1, <1>3
  <2> QED  BY <2>2, <2>3, <2>4, <2>5, Zenon DEF Calls
<1>6. /\ UseInv' /\ KeepsVa /\ NextOwns
      /\ fault'[t].addr = v /\ fault'[t].job = "first" /\ pc'[t] # "missing"
      /\ \A u \in Threads \ {t} : fault'[u] = fault[u] /\ pc'[u] = pc[u]
  BY <1>5, CallInv
<1>7. MapOwnership'
  <2>1. \A p \in Pages : UnmapHolds(p)' <=> UnmapHolds(p)
    BY <1>1 DEF UnmapHolds
  <2> QED  BY <1>6, <2>1, MapOwnLift DEF MapInv, NextOwns
<1>14. newmap'[t] = [newmap[t] EXCEPT !.todo = @ \ {v}]
       /\ \A u \in Threads \ {t} : newmap'[u] = newmap[u]
  BY <1>1, <1>2
<1>15. \A u \in Threads : /\ newmap'[u].region = newmap[u].region
                           /\ newmap'[u].todo \subseteq newmap[u].todo
  BY <1>2, <1>14
<1>16. MapVarsOK' /\ RangesApart'
  <2>1. [newmap[t] EXCEPT !.todo = @ \ {v}] \in [region : SUBSET VA, todo : SUBSET VA]
    BY <1>2
  <2>2. newmap' \in [Threads -> [region : SUBSET VA, todo : SUBSET VA]]
    BY <1>1, <1>2, <2>1
  <2>3. MapVarsOK'
    BY <1>1, <1>2, <2>2 DEF MapVarsOK
  <2>4. ASSUME NEW u \in Threads
        PROVE  /\ newmap'[u].todo \subseteq newmap'[u].region
               /\ newmap'[u].region \cap (mapped \cup unmap.region) = {}
               /\ \A w \in Threads \ {u} : newmap'[u].region \cap newmap'[w].region = {}
    BY <1>2, <1>15 DEF RangesApart
  <2> QED  BY <1>1, <1>2, <2>3, <2>4 DEF RangesApart
<1>17. UnmapOK' /\ FaultsApart'
  BY <1>1, <1>2, <1>4, <1>6 DEF UnmapOK, FaultsApart, sharedVars
<1> QED  BY <1>6, <1>7, <1>16, <1>17 DEF MapInv, NextOwns

-----------------------------------------------------------------------------
(* The whole.                                                               *)

\* A step that changes nothing.
LEMMA MapStutter ==
    ASSUME UNCHANGED mapVars
    PROVE  (MapInv => MapInv') /\ (MapSafe => MapSafe')
<1>0. UNCHANGED vars /\ UNCHANGED <<mapped, unmap, newmap>>
  BY DEF mapVars
<1>1. MapVarsOK => MapVarsOK'
  BY <1>0 DEF MapVarsOK
<1>2. MapOwnership => MapOwnership'
  BY <1>0 DEF MapOwnership, UnmapHolds, Holds, HoldsVictim, Roles, vars
<1>3. QueuesMatch => QueuesMatch'
  BY <1>0 DEF QueuesMatch, vars
<1>4. Ended => Ended'
  BY <1>0 DEF Ended, vars
<1>5. MapInv => MapInv'
  <2>1. UseInv => UseInv'
    BY <1>0, StutterInv
  <2>2. BatchesDistinct => BatchesDistinct'
    BY <1>0 DEF BatchesDistinct, vars
  <2>3. (UnmapOK => UnmapOK') /\ (RangesApart => RangesApart') /\ (FaultsApart => FaultsApart')
    BY <1>0 DEF UnmapOK, RangesApart, FaultsApart, vars
  <2> QED  BY <1>1, <1>2, <1>3, <2>1, <2>2, <2>3 DEF MapInv
<1> QED  BY <1>1, <1>2, <1>3, <1>4, <1>5 DEF MapSafe

\* Nobody moves in a process that has ended.
LEMMA LiveStep ==
    ASSUME NEW e, ThreadStep(e) \/ WorkerStep(e) \/ ScanStep(e)
    PROVE  failed = "none"
<1>1. CASE ScanStep(e)
  BY <1>1 DEF ScanStep, ScanInactive, ScanActive, KeepOrEvict, Deactivate, ScanTake, At
<1>2. CASE EvictStep(e) \/ ReleaseVictim(e)
  BY <1>2 DEF EvictStep, TakeVictim, ProtectVictim, BackByReserve, BackByFreeSlot, WriteBack,
       UnmapVictim, MarkSwappedOut, FreeFrame, TrackVictim, ReleaseVictim, At
<1>3. CASE FaultStep(e)
  <2>1. CASE uswap_sig_handler(e) \/ Spin(e) \/ DiskRead(e) \/ FetchFree(e)
             \/ FetchReclaim(e) \/ FetchRetry(e)
    BY <2>1 DEF uswap_sig_handler, Spin, DiskRead, FetchFree, FetchReclaim, FetchRetry, At
  <2>2. CASE \/ handle_missing_fault(e) \/ PrefetchFind(e)
             \/ FetchEvicted(e) \/ FetchOutOfMemory(e)
    BY <2>2 DEF handle_missing_fault, PrefetchFind, FetchEvicted, FetchOutOfMemory, At
  <2>3. CASE FirstAllocate(e) \/ PutBack(e) \/ FirstMap(e) \/ FirstAdd(e)
    BY <2>3 DEF FirstAllocate, PutBack, FirstMap, FirstAdd, At
  <2>4. CASE FinishRead(e) \/ PublishPage(e) \/ PrefetchResident(e) \/ Settle(e)
    BY <2>4 DEF FinishRead, PublishPage, PrefetchResident, Settle, At
  <2> QED  BY <1>3, <2>1, <2>2, <2>3, <2>4 DEF FaultStep
<1> QED  BY <1>1, <1>2, <1>3 DEF ThreadStep, WorkerStep

\* After an assertion has failed nothing happens.
LEMMA MapStops ==
    ASSUME failed # "none", [MapNext]_mapVars
    PROVE  UNCHANGED mapVars
<1>1. CASE \E t \in Threads : MappedAccess(t)
  BY <1>1 DEF MappedAccess, Touch, Store, At
<1>2. CASE \E t \in Threads : PagingStep(t)
  BY <1>2, LiveStep DEF PagingStep
<1>3. CASE \E t \in Threads : MapStep(t)
  BY <1>3 DEF MapStep, extmem_munmap, extmem_mmap, PopulatePage, MmapReturn, At
<1>4. CASE \E e \in Workers \cup Kswapd : DaemonStep(e)
  BY <1>4, LiveStep DEF DaemonStep
<1>5. CASE UnmapStep
  BY <1>5 DEF UnmapStep, UnmapFind, UnmapWait, UnmapRelock, remove_page, UnmapTake,
              UnmapReserve, UnmapFree, UnmapRelease, libc_munmap, UnmapAt
<1>6. CASE Aborted /\ UNCHANGED <<mapped, unmap, newmap>>
  BY <1>6 DEF Aborted, mapVars
<1> QED  BY <1>1, <1>2, <1>3, <1>4, <1>5, <1>6 DEF MapNext

\* All memory is mapped at the start.
LEMMA MapInitInv == MapInit => MapInv
<1> SUFFICES ASSUME MapInit PROVE MapInv
  OBVIOUS
<1>1. Init /\ mapped = VA /\ unmap = NoUnmap /\ newmap = [t \in Threads |-> NoMmap]
  BY DEF MapInit
<1>2. OwnerInv
  BY <1>1, InitOwner
<1>3. unmap.at = "idle" /\ unmap.region = {} /\ unmap.todo = {} /\ unmap.page = 0
  BY <1>1 DEF NoUnmap
<1>4. MapVarsOK
  BY <1>1 DEF MapVarsOK, NoUnmap, NoMmap, UnmapLabels
<1>5. UnmapOK /\ RangesApart
  BY <1>1, <1>3 DEF UnmapOK, RangesApart, NoMmap
<1>6. MapOwnership
  BY <1>2, <1>3 DEF OwnerInv, Ownership, MapOwnership, UnmapHolds
<1>7. FaultsApart
  BY <1>1, <1>3 DEF FaultsApart, Init, Executors
<1> QED  BY <1>2, <1>4, <1>5, <1>6, <1>7 DEF MapInv, OwnerInv, TypeInv

\* Every step keeps the invariant or fails one of munmap's own assertions.
LEMMA MapInvNext ==
    ASSUME MapInv, MapNext
    PROVE  MapSafe' /\ (MapInv' \/ failed' \in UnmapAssertLabels)
<1>0. MapInv' => MapSafe'
  BY DEF MapInv, MapSafe
<1>1. CASE \/ \E t \in Threads : MappedAccess(t) \/ PagingStep(t)
           \/ \E e \in Workers \cup Kswapd : DaemonStep(e)
  BY <1>0, <1>1, PagingInv
<1>2. ASSUME NEW t \in Threads, MapStep(t) PROVE MapInv'
  BY <1>2, MunmapInv, MmapInv, PopulateInv, MmapReturnInv DEF MapStep
<1>3. CASE UnmapStep
  <2>1. CASE UnmapReserve \/ UnmapFree
    BY <2>1, UnmapReserveInv, UnmapFreeInv
  <2>2. CASE ~(UnmapReserve \/ UnmapFree)
    BY <1>0, <1>3, <2>2, UnmapFindInv, UnmapWaitInv, RemoveInv, UnmapTakeInv,
       UnmapReleaseInv, LibcMunmapInv DEF UnmapStep
  <2> QED  BY <2>1, <2>2
<1>4. CASE Aborted /\ UNCHANGED <<mapped, unmap, newmap>>
  BY <1>0, <1>4, MapStutter DEF Aborted, mapVars
<1> QED  BY <1>0, <1>1, <1>2, <1>3, <1>4 DEF MapNext

\* The inductive invariant of all three theorems.
MapTypeInv == MapSafe /\ failed \in {"none"} \cup AssertLabels \cup UnmapAssertLabels

LEMMA MapTypeInit == MapInit => MapTypeInv
<1>1. MapInit => MapInv
  BY MapInitInv
<1> QED  BY <1>1 DEF MapInv, MapSafe, UseInv, TypeOK, MapTypeInv

LEMMA MapTypeNext == MapTypeInv /\ [MapNext]_mapVars => MapTypeInv'
<1> SUFFICES ASSUME MapTypeInv, [MapNext]_mapVars PROVE MapTypeInv'
  OBVIOUS
<1>1. CASE UNCHANGED mapVars
  BY <1>1, MapStutter DEF MapTypeInv, mapVars, vars
<1>2. CASE MapNext /\ failed = "none"
  <2>1. MapInv
    BY <1>2 DEF MapTypeInv, MapSafe, Ended
  <2>2. MapSafe' /\ (MapInv' \/ failed' \in UnmapAssertLabels)
    BY <1>2, <2>1, MapInvNext
  <2> QED  BY <2>2 DEF MapTypeInv, MapInv, UseInv, TypeOK
<1> QED  BY <1>1, <1>2, MapStops

\* Every variable keeps its type while memory is mapped and unmapped.
THEOREM MapTypeCorrect == MapSpec => []MapTypeOK
<1>1. MapInit => MapTypeInv
  BY MapTypeInit
<1>2. MapTypeInv /\ [MapNext]_mapVars => MapTypeInv'
  BY MapTypeNext
<1>3. MapTypeInv => MapTypeOK
  <2> SUFFICES ASSUME MapTypeInv PROVE MapTypeOK
    OBVIOUS
  <2>1. failed \notin UnmapAssertLabels => TypeOK
    BY DEF MapTypeInv, MapSafe, Ended, MapInv, UseInv
  <2> QED  BY <2>1 DEF MapTypeInv, MapSafe, MapVarsOK, MapTypeOK
<1> QED  BY <1>1, <1>2, <1>3, PTL DEF MapSpec

\* Unmapping loses no descriptor and shares none, though it takes pages from
\* under scans and evictions whose locks it does not hold.
THEOREM MapOwnershipHolds == MapSpec => []MapOwnership
<1>1. MapInit => MapTypeInv
  BY MapTypeInit
<1>2. MapTypeInv /\ [MapNext]_mapVars => MapTypeInv'
  BY MapTypeNext
<1>3. MapTypeInv => MapOwnership
  BY DEF MapTypeInv, MapSafe
<1> QED  BY <1>1, <1>2, <1>3, PTL DEF MapSpec

\* While pages leave the queues from their middle, the queues hold what the
\* descriptors say they hold, each once.
THEOREM MapQueuesMatch == MapSpec => []QueuesMatch
<1>1. MapInit => MapTypeInv
  BY MapTypeInit
<1>2. MapTypeInv /\ [MapNext]_mapVars => MapTypeInv'
  BY MapTypeNext
<1>3. MapTypeInv => QueuesMatch
  BY DEF MapTypeInv, MapSafe
<1> QED  BY <1>1, <1>2, <1>3, PTL DEF MapSpec

-----------------------------------------------------------------------------
(***************************************************************************)
(* The pageRank policy.  Most of its steps are those of Munmap; the rest   *)
(* are the prefetch, which its worker calls and which looks a page up      *)
(* before it claims it, and the write-back by extmem_migrate_downdisk.     *)
(***************************************************************************)

\* What a step of paging that keeps the invariant does.
KeepsPaging == UseInv' /\ KeepsVa /\ NextOwns /\ pages' = pages

\* The locals of a thread that looks for pages to prefetch.
LEMMA FindFacts ==
    ASSUME MapInv, NEW t \in Threads, At(t, "find")
    PROVE  /\ OwnInv /\ UseInv /\ TypeOK /\ QueuesMapped /\ HashOK
           /\ t \in Executors /\ pc \in [Executors -> PcLabels]
           /\ fault \in [Threads -> FaultLocals] /\ fault[t] \in FaultLocals
           /\ page \in [Pages -> UserPage]
           /\ pc[t] = "find" /\ fault[t].addr \in VA /\ fault[t].job = "prefetch"
           /\ fault[t].buf = <<>> /\ fault[t].frees = <<>>
           /\ fault[t].reading \in Seq(Pages)
           /\ \A i \in DOMAIN fault[t].reading : Mapped(fault[t].reading[i])
<1>1. /\ OwnInv /\ UseInv /\ TypeOK /\ QueuesMapped /\ HashOK /\ LocalsOK /\ LocalsUsed
      /\ t \in Executors
  BY MapOwns DEF MapInv, UseInv, Executors
<1>2. LocalOK(t) /\ LocalUsed(t) /\ pc[t] = "find" /\ fault[t] \in FaultLocals
  BY <1>1 DEF LocalsOK, LocalsUsed, At, TypeOK
<1>3. ThreadOK(t) /\ \A i \in DOMAIN fault[t].reading : Mapped(fault[t].reading[i])
  BY <1>2 DEF LocalOK, LocalUsed
<1> QED  BY <1>1, <1>2, <1>3 DEF ThreadOK, FaultLocals, TypeOK

\* The batch ends here, with pages or without.
LEMMA StopInv ==
    ASSUME MapInv, NEW t \in Threads, At(t, "find"), PrefetchStop(t)
    PROVE  KeepsPaging /\ FaultKept(t)
<1>0. /\ OwnInv /\ UseInv /\ TypeOK /\ QueuesMapped /\ HashOK
      /\ t \in Executors /\ pc \in [Executors -> PcLabels]
      /\ fault \in [Threads -> FaultLocals] /\ fault[t] \in FaultLocals
      /\ pc[t] = "find" /\ fault[t].addr \in VA /\ fault[t].job = "prefetch"
      /\ fault[t].buf = <<>> /\ fault[t].frees = <<>>
      /\ fault[t].reading \in Seq(Pages)
      /\ \A i \in DOMAIN fault[t].reading : Mapped(fault[t].reading[i])
  BY FindFacts
<1>1. \/ fault[t].reading = <<>> /\ Resume(t)
      \/ fault[t].reading # <<>> /\ pc' = [pc EXCEPT ![t] = "fetch"] /\ fault' = fault
  BY DEF PrefetchStop
<1>2. UNCHANGED <<sharedVars, scan, evict, failed>>
  BY DEF PrefetchStop
<1>3. KeepsVa /\ QueuesMapped' /\ HashOK' /\ pages' = pages
  BY <1>0, <1>2 DEF QueuesMapped, HashOK, Mapped, KeepsVa, sharedVars
<1>4. /\ pc' = [pc EXCEPT ![t] = pc'[t]] /\ fault' = [fault EXCEPT ![t] = fault'[t]]
      /\ pc'[t] \in {"idle", "fetch"} /\ fault'[t].page \in {0, fault[t].page}
      /\ fault'[t].reading = fault[t].reading /\ fault'[t].frees = fault[t].frees
      /\ \A u \in Threads \ {t} : fault'[u] = fault[u] /\ pc'[u] = pc[u]
      /\ fault'[t].addr = 0 \/ fault'[t].job = "prefetch"
  <2>1. CASE fault[t].reading = <<>> /\ Resume(t)
    <3>1. fault'[t] = NoFault /\ pc'[t] = "idle"
      BY <1>0, <2>1 DEF Resume
    <3>2. /\ fault'[t].reading = <<>> /\ fault'[t].frees = <<>> /\ fault'[t].page = 0
          /\ fault'[t].addr = 0
      BY <3>1 DEF NoFault
    <3> QED  BY <1>0, <2>1, <3>1, <3>2 DEF Resume
  <2>2. CASE pc' = [pc EXCEPT ![t] = "fetch"] /\ fault' = fault
    BY <1>0, <2>2
  <2> QED  BY <1>1, <2>1, <2>2
<1>5. TypeOK' /\ ThreadOK(t)'
  <2>1. CASE fault[t].reading = <<>> /\ Resume(t)
    <3>1. fault'[t] = NoFault /\ pc'[t] = "idle"
      BY <1>0, <2>1 DEF Resume
    <3>2. ThreadOK(t)'
      BY <3>1 DEF ThreadOK, NoFault, FetchPcs, FirstPcs, SettlePcs, ScanPcs, EvictPcs
    <3>3. NoFault \in FaultLocals
      BY DEF NoFault, FaultLocals
    <3>4. fault' \in [Threads -> FaultLocals] /\ pc' \in [Executors -> PcLabels]
      BY <1>0, <2>1, <3>3 DEF Resume, PcLabels
    <3> QED  BY <1>0, <1>2, <3>2, <3>4 DEF TypeOK, sharedVars
  <2>2. CASE fault[t].reading # <<>> /\ pc' = [pc EXCEPT ![t] = "fetch"] /\ fault' = fault
    <3>1. Len(fault[t].reading) \in Nat /\ Len(fault[t].reading) > 0 /\ Len(fault[t].frees) = 0
      BY <1>0, <2>2
    <3>2. pc'[t] = "fetch" /\ fault'[t] = fault[t]
      BY <1>0, <2>2
    <3>3. ThreadOK(t)'
      BY <1>0, <3>1, <3>2 DEF ThreadOK, FetchPcs, ScanPcs, EvictPcs, FirstPcs, SettlePcs
    <3>4. pc' \in [Executors -> PcLabels]
      BY <1>0, <2>2 DEF PcLabels
    <3> QED  BY <1>0, <1>2, <2>2, <3>3, <3>4 DEF TypeOK, sharedVars
  <2> QED  BY <1>1, <2>1, <2>2
<1>6. StepOK(t)
  <2>1. \A i \in DOMAIN fault'[t].reading : page'[fault'[t].reading[i]].va \in VA
    BY <1>0, <1>2, <1>4 DEF Mapped, sharedVars
  <2>2. /\ pc[t] \notin EvictPcs \cup ScanPcs /\ pc'[t] \notin EvictPcs \cup ScanPcs
        /\ pc'[t] \notin {"map", "add", "missing", "publish"}
    BY <1>0, <1>4 DEF EvictPcs, ScanPcs
  <2> QED  BY <1>0, <1>2, <1>3, <1>4, <1>5, <2>1, <2>2, ThreadStepOK
<1>7. OwnedNext(t)
  <2>1. ~HoldsVictim(t) /\ ~HoldsVictim(t)'
    BY <1>0, <1>2, <1>4 DEF HoldsVictim
  <2> QED  BY <1>0, <1>2, <1>4, <1>6, <2>1, ThreadQuiet DEF StepOK, sharedVars
<1>8. FaultKept(t)
  BY <1>4 DEF FaultKept
<1> QED  BY <1>0, <1>3, <1>5, <1>6, <1>7, <1>8, StepLift DEF KeepsPaging, NextOwns, OwnedNext, StepOK

\* A page is claimed for the batch.
LEMMA ClaimInv ==
    ASSUME MapInv, NEW t \in Threads, At(t, "find"), NEW p \in Pages, Mapped(p),
           DetachAsserts(p), page' = ClaimPage(p),
           fault' = [fault EXCEPT ![t].reading = Append(@, p)],
           UNCHANGED <<fifo, pages, pte, disk, pc, scan, evict, failed>>
    PROVE  KeepsPaging /\ FaultKept(t)
<1>0. /\ OwnInv /\ UseInv /\ TypeOK /\ QueuesMapped /\ HashOK
      /\ t \in Executors /\ pc \in [Executors -> PcLabels]
      /\ fault \in [Threads -> FaultLocals] /\ fault[t] \in FaultLocals
      /\ page \in [Pages -> UserPage]
      /\ pc[t] = "find" /\ fault[t].addr \in VA /\ fault[t].job = "prefetch"
      /\ fault[t].buf = <<>> /\ fault[t].frees = <<>>
      /\ fault[t].reading \in Seq(Pages)
      /\ \A i \in DOMAIN fault[t].reading : Mapped(fault[t].reading[i])
  BY FindFacts
<1>1. page' \in [Pages -> UserPage] /\ \A d \in Pages : page'[d].va = page[d].va
  <2>1. [page[p] EXCEPT !.migrating = TRUE, !.list = "none"] \in UserPage
    BY <1>0 DEF UserPage, Lists
  <2>2. page' = [page EXCEPT ![p] = [page[p] EXCEPT !.migrating = TRUE, !.list = "none"]]
    BY DEF ClaimPage
  <2>3. [page[p] EXCEPT !.migrating = TRUE, !.list = "none"].va = page[p].va
    BY <1>0 DEF UserPage
  <2> QED  BY <1>0, <2>1, <2>2, <2>3
<1>2. fault'[t] = [fault[t] EXCEPT !.reading = Append(fault[t].reading, p)]
      /\ \A u \in Threads \ {t} : fault'[u] = fault[u]
  BY <1>0
<1>3. Append(fault[t].reading, p) \in Seq(Pages)
  BY <1>0
<1>4. /\ fault'[t].addr = fault[t].addr /\ fault'[t].job = "prefetch"
      /\ fault'[t].page = fault[t].page /\ fault'[t].buf = <<>> /\ fault'[t].frees = <<>>
      /\ fault'[t].reading = Append(fault[t].reading, p)
      /\ fault'[t] \in FaultLocals
  BY <1>0, <1>2, <1>3 DEF FaultLocals
<1>5. TypeOK'
  BY <1>0, <1>1, <1>4 DEF TypeOK
<1>6. ThreadOK(t)'
  BY <1>0, <1>4 DEF ThreadOK, FetchPcs, ScanPcs, EvictPcs, FirstPcs, SettlePcs
<1>7. KeepsVa /\ QueuesMapped' /\ HashOK'
  <2>1. KeepsVa
    BY <1>1 DEF KeepsVa
  <2>2. QueuesMapped'
    BY <1>1, StillMapped
  <2>3. HashOK'
    BY <1>0, <2>1, HashLift
  <2> QED  BY <2>1, <2>2, <2>3
<1>8. \A i \in DOMAIN fault'[t].reading : page'[fault'[t].reading[i]].va \in VA
  <2> TAKE i \in DOMAIN fault'[t].reading
  <2>1. CASE i = Len(fault[t].reading) + 1
    <3>1. fault'[t].reading[i] = p
      BY <1>0, <1>4, <2>1
    <3> QED  BY <1>1, <3>1 DEF Mapped
  <2>2. CASE i # Len(fault[t].reading) + 1
    <3>1. /\ i \in DOMAIN fault[t].reading /\ fault'[t].reading[i] = fault[t].reading[i]
          /\ fault[t].reading[i] \in Pages
      BY <1>0, <1>4, <2>2
    <3> QED  BY <1>0, <1>1, <3>1 DEF Mapped
  <2> QED  BY <2>1, <2>2
<1>9. StepOK(t)
  <2>1. /\ fault' = [fault EXCEPT ![t] = fault'[t]] /\ pc' = [pc EXCEPT ![t] = pc'[t]]
        /\ pc'[t] = pc[t] /\ pc'[t] \notin {"map", "add", "missing", "publish"}
    BY <1>0, <1>2
  <2> QED  BY <1>0, <1>4, <1>6, <1>7, <1>8, <2>1, ThreadStepOK
<1>10. OwnedNext(t)
  <2>1. (HoldsVictim(t)' <=> HoldsVictim(t)) /\ pc[t] # "publish" /\ pc'[t] # "publish"
    BY <1>0 DEF HoldsVictim
  <2> QED  BY <1>0, <1>4, <1>9, <2>1, ClaimOwned DEF StepOK
<1>11. FaultKept(t)
  BY <1>0, <1>2, <1>4 DEF FaultKept
<1> QED  BY <1>0, <1>5, <1>7, <1>9, <1>10, <1>11, StepLift DEF KeepsPaging, NextOwns, OwnedNext, StepOK

\* A failed assertion of paging's own leaves everything as it is.
LEMMA CrashKeeps ==
    ASSUME MapInv, Crash
    PROVE  /\ KeepsPaging /\ fault' = fault /\ pc' = pc
           /\ KeepsMap => MapInv'
<1>1. UNCHANGED <<sharedVars, pc, fault, scan, evict>>
  BY DEF Crash
<1>2. UseInv' /\ NextOwns
  BY <1>1, CrashInv, MapOwns, StillOwned DEF MapInv, sharedVars
<1>3. KeepsVa /\ pages' = pages
  BY <1>1 DEF KeepsVa, sharedVars
<1>4. KeepsMap => FaultsApart'
  BY <1>1, <1>3, ApartQuiet DEF MapInv, KeepsMap
<1> QED  BY <1>1, <1>2, <1>3, <1>4, StepKeeps DEF KeepsPaging, KeepsMap

\* extmem_migrate_downdisk leaves the victim with its evictor.
LEMMA PrWriteBackKeeps ==
    ASSUME MapInv, NEW e \in Evictors, PrWriteBack(e), KeepsMap
    PROVE  MapInv'
<1> DEFINE p == evict[e].victim
<1>0. /\ UseInv /\ TypeOK /\ OwnInv /\ e \in Executors
      /\ pc \in [Executors -> PcLabels] /\ page \in [Pages -> UserPage]
      /\ evict[e] \in EvictLocals
      /\ LocalOK(e) /\ EvictorOK(e) /\ LocalUsed(e)
  BY MapOwns DEF MapInv, UseInv, TypeOK, Evictors, Executors, LocalsOK, LocalOK, LocalsUsed
<1>1. CASE Crash
  BY <1>1, CrashKeeps
<1>2. CASE ~Crash
  <2>1. /\ pc[e] = "write" /\ pc' = [pc EXCEPT ![e] = "unmap"]
        /\ page' = [page EXCEPT ![p].migrating = TRUE]
        /\ \/ disk' = disk
           \/ disk' = DiskWrite(page[DiskPage(e)].virtual_offset, pte[page[p].va].data)
        /\ UNCHANGED <<fifo, pages, pte, fault, scan, evict, failed>>
    BY <1>2 DEF PrWriteBack, Abort, Crash, AssertLabels, At, Victim
  <2>2. p \in Pages /\ Mapped(p) /\ HoldsVictim(e)
    BY <1>0, <2>1 DEF EvictorOK, EvictPcs, EvictLocals, HoldsVictim, LocalUsed
  <2>3. /\ page' \in [Pages -> UserPage]
        /\ \A q \in Pages : page'[q].va = page[q].va /\ page'[q].list = page[q].list
    BY <1>0, <2>1, <2>2, Marking
  <2>4. pc'[e] = "unmap" /\ \A u \in Executors \ {e} : pc'[u] = pc[u]
    BY <1>0, <2>1
  <2>5. TypeOK'
    <3>1. disk' \in [Offsets -> Vals]
      BY <1>0, <2>1, <2>2 DEF TypeOK, DiskWrite, Mapped, Pte
    <3>2. pc' \in [Executors -> PcLabels]
      BY <1>0, <2>1 DEF PcLabels
    <3> QED  BY <1>0, <2>1, <2>3, <3>1, <3>2 DEF TypeOK
  <2>6. /\ KeepsVa /\ QueuesMapped' /\ HashOK'
    <3>1. KeepsVa /\ QueuesMapped'
      BY <2>1, <2>3, StillMapped DEF KeepsVa
    <3> QED  BY <1>0, <2>1, <3>1, HashLift DEF UseInv
  <2>7. LocalOK(e)'
    <3>1. EvictorOK(e)'
      BY <1>0, <2>1, <2>4 DEF EvictorOK, EvictPcs
    <3>2. e \in Threads => ThreadOK(e)'
      BY <1>0, <2>1, <2>4, FetchingOK DEF LocalOK, FetchPcs, EvictPcs
    <3> QED  BY <1>0, <2>1, <2>4, <3>1, <3>2, ExecutorAssumption
             DEF LocalOK, EvictPcs, ScanPcs, Evictors
  <2>8. LocalUsed(e)'
    <3>1. page'[p].va \in VA
      BY <2>2, <2>3 DEF Mapped
    <3>2. e \in Scanners => scan[e] = 0
      BY <1>0, <2>1 DEF LocalOK, ScanPcs
    <3>3. ASSUME e \in Threads
          PROVE  \A i \in DOMAIN fault[e].reading : page'[fault[e].reading[i]].va \in VA
      <4>1. fault[e] \in FaultLocals
        BY <1>0, <3>3 DEF TypeOK
      <4>2. \A i \in DOMAIN fault[e].reading :
              fault[e].reading[i] \in Pages /\ Mapped(fault[e].reading[i])
        BY <1>0, <3>3, <4>1 DEF LocalUsed, FaultLocals
      <4> QED  BY <2>3, <4>2 DEF Mapped
    <3> QED  BY <2>1, <2>4, <3>1, <3>2, <3>3 DEF LocalUsed, Mapped
  <2>9. UseInv'
    <3>1. OnlyMoves(e)
      BY <2>1, <2>4 DEF OnlyMoves
    <3>2. KeepsPages(e)
      BY <2>1 DEF KeepsPages
    <3> QED  BY <1>0, <2>5, <2>6, <2>7, <2>8, <3>1, <3>2, StepLift DEF StepOK
  <2>10. NextOwns
    <3>1. \A u \in Executors : HoldsVictim(u)' <=> HoldsVictim(u)
      BY <2>1, <2>4 DEF HoldsVictim
    <3>2. \A u \in Executors : pc'[u] = "publish" <=> pc[u] = "publish"
      BY <2>1, <2>4
    <3>3. NothingMoved
      <4>1. ASSUME NEW u \in Executors, NEW r \in Roles, NEW q \in Pages
            PROVE  Holds(u, r, q)' <=> Holds(u, r, q)
        BY <2>1, <3>1, <3>2, RoleDefs, RoleDefsNext DEF Roles
      <4> QED  BY <2>3, <4>1 DEF NothingMoved
    <3>4. QueuesMatch'
      BY <2>1, <2>3 DEF MapInv, QueuesMatch
    <3>5. BatchesDistinct'
      BY <2>1 DEF MapInv, BatchesDistinct, Distinct
    <3> QED  BY <3>3, <3>4, <3>5 DEF NextOwns
  <2>11. FaultsApart'
    <3>1. \A u \in Threads : pc'[u] = "missing" => pc[u] = "missing"
      BY <2>4 DEF Executors
    <3> QED  BY <1>0, <2>1, <2>6, <3>1, ApartQuiet DEF MapInv, KeepsMap
  <2> QED  BY <2>1, <2>6, <2>9, <2>10, <2>11, StepKeeps DEF KeepsMap
<1> QED  BY <1>1, <1>2

\* Evictions and scans of disklinux.c, by whomever.
LEMMA EvictScanInv ==
    ASSUME MapInv, KeepsMap, NEW e \in Executors,
           \/ e \in Evictors /\ EvictStep(e)
           \/ e \in Scanners /\ ScanStep(e)
           \/ e \in Workers /\ ReleaseVictim(e)
    PROVE  MapInv'
<1>1. [Next]_vars
  <2>1. EvictStep(e) /\ e \in Evictors => Next
    BY DEF Evictors, Next, ThreadStep, WorkerStep
  <2>2. ScanStep(e) /\ e \in Scanners => Next
    BY DEF Scanners, Next, ThreadStep
  <2>3. ReleaseVictim(e) /\ e \in Workers => Next
    BY DEF Next, WorkerStep
  <2> QED  BY <2>1, <2>2, <2>3
<1>2. /\ fault' = fault /\ pages' = pages
      /\ \A u \in Threads : pc'[u] = "missing" => pc[u] = "missing"
  BY EvictScanKept DEF MapInv
<1>3. KeepsVa
  BY <1>1, NextKeepsVa DEF MapInv
<1>4. FaultsApart'
  BY <1>2, <1>3, ApartQuiet DEF MapInv, KeepsMap
<1> QED  BY <1>1, <1>2, <1>4, PagingKeeps DEF KeepsMap

LEMMA PrEvictInv ==
    ASSUME MapInv, KeepsMap, NEW e \in Evictors, PrEvictStep(e)
    PROVE  MapInv'
<1>1. e \in Executors
  BY DEF Evictors, Executors
<1>2. EvictStep(e) \/ PrWriteBack(e)
  BY DEF PrEvictStep, EvictStep
<1> QED  BY <1>1, <1>2, EvictScanInv, PrWriteBackKeeps

\* A window is one way to decide which pages stay.
LEMMA PrScanInv ==
    ASSUME MapInv, NEW e \in Scanners, direct_allocate_page_asynch(e)
    PROVE  MapInv'
<1>1. e \in Executors /\ KeepsMap
  BY DEF Scanners, Executors, direct_allocate_page_asynch
<1>2. KeepWindow(e) => KeepOrEvict(e)
  <2> SUFFICES ASSUME KeepWindow(e) PROVE KeepOrEvict(e)
    OBVIOUS
  <2>1. At(e, "scan_inactive") /\ (KeepOrEvict(e) \/ ScanPut(e, "inactive") \/ ScanPut(e, "eviction"))
    BY DEF KeepWindow
  <2> QED  BY <2>1 DEF KeepOrEvict
<1>3. ScanStep(e)
  BY <1>2 DEF direct_allocate_page_asynch, ScanStep
<1> QED  BY <1>1, <1>3, EvictScanInv

\* What a thread does that disklinux's threads do as well.
LEMMA SharedStep ==
    ASSUME MapInv, NEW t \in Threads, KeepsMap,
           \/ HandlerStep(t) \/ fetch_free_asynch(t) \/ lrudisk_ack_swapin(t)
           \/ lrudisk_swapin_external_async(t)
    PROVE  PagingStep(t) \/ PrEvictStep(t)
<1> SUFFICES ASSUME ~PrEvictStep(t) PROVE PagingStep(t)
  OBVIOUS
<1>1. fault[t].reading # <<>> => pc[t] # "allocate"
  BY DEF MapInv, UseInv, LocalsOK, LocalOK, Executors, ThreadOK, FirstPcs
<1>2. CASE HandlerStep(t)
  <2>1. FaultStep(t)
    BY <1>2 DEF HandlerStep, FirstTouch, FaultStep
  <2>2. pc[t] = "allocate" => unmap.at = "idle"
    BY <1>1, <1>2 DEF HandlerStep, FirstTouch, uswap_sig_handler, Spin, PutBack, FirstMap,
                      FirstAdd, Settle, DiskRead, PrefetchResident, At
  <2> QED  BY <2>1, <2>2 DEF PagingStep, ThreadStep, KeepsMap
<1>3. CASE fetch_free_asynch(t)
  <2>1. FaultStep(t) /\ pc[t] # "allocate"
    BY <1>3 DEF fetch_free_asynch, FaultStep, FetchFree, FetchReclaim, FetchRetry,
                FetchOutOfMemory, FetchEvicted, At
  <2> QED  BY <2>1 DEF PagingStep, ThreadStep, KeepsMap
<1>4. CASE lrudisk_ack_swapin(t) \/ lrudisk_swapin_external_async(t)
  <2>1. FaultStep(t) /\ pc[t] # "allocate"
    BY <1>1, <1>4 DEF lrudisk_ack_swapin, lrudisk_swapin_external_async, FaultStep,
                      handle_missing_fault, DiskRead, FinishRead, PublishPage, At
  <2> QED  BY <2>1 DEF PagingStep, ThreadStep, KeepsMap
<1> QED  BY <1>2, <1>3, <1>4

\* A step of t that keeps paging in order keeps the invariant.
LEMMA FaultLift ==
    ASSUME MapInv, NEW t \in Threads, KeepsPaging, FaultKept(t), KeepsMap
    PROVE  MapInv'
<1>1. FaultsApart'
  BY ApartLift DEF MapInv, KeepsPaging, KeepsMap
<1> QED  BY <1>1, StepKeeps DEF KeepsPaging, KeepsMap

LEMMA LookupInv ==
    ASSUME MapInv, NEW t \in Threads, PrefetchLookup(t)
    PROVE  MapInv'
<1>1. CASE UNCHANGED vars
  <2>1. UNCHANGED mapVars
    BY <1>1 DEF PrefetchLookup, KeepsMap, mapVars
  <2> QED  BY <2>1, MapStutter
<1>2. CASE PrefetchStop(t)
  <2>1. At(t, "find") /\ KeepsMap
    BY DEF PrefetchLookup
  <2> QED  BY <1>2, <2>1, StopInv, FaultLift
<1> QED  BY <1>1, <1>2 DEF PrefetchLookup

\* What the policy's own assertions end the process with.
PrLabels == {"page->va == page_boundry"}

\* The page that was looked up may be another by now, or none.
LEMMA PrefetchClaimInv ==
    ASSUME MapInv, NEW t \in Threads, PrefetchClaim(t), found[t] \in Pages \cup {0}
    PROVE  MapSafe' /\ (MapInv' \/ failed' \in PrLabels)
<1> DEFINE p == found[t]
           same == page[p].va = PrefetchNext(t)
<1>0. At(t, "find") /\ p # 0 /\ p \in Pages /\ KeepsMap
  BY DEF PrefetchClaim
<1>m. MapInv' => MapSafe'
  BY DEF MapInv, MapSafe
<1>1. same => Mapped(p)
  <2>1. fault[t].addr \in VA /\ fault[t].reading \in Seq(Pages) /\ page \in [Pages -> UserPage]
    BY <1>0, FindFacts
  <2>2. PrefetchNext(t) # 0
    <3>1. fault[t].addr \in Nat \ {0} /\ Len(fault[t].reading) \in Nat
      BY <2>1, SizeAssumption DEF VA
    <3> QED  BY <3>1 DEF PrefetchNext
  <2> QED  BY <1>0, <2>1, <2>2 DEF Mapped, UserPage
<1>2. CASE /\ same /\ DetachAsserts(p) /\ page' = ClaimPage(p)
           /\ fault' = [fault EXCEPT ![t].reading = Append(@, p)]
           /\ UNCHANGED <<fifo, pages, pte, disk, pc, scan, evict, failed>>
  BY <1>0, <1>1, <1>2, <1>m, ClaimInv, FaultLift
<1>3. CASE Abort("list == &disk_active_list")
  <2>1. Crash
    BY <1>3 DEF Abort, Crash, AssertLabels
  <2> QED  BY <1>0, <1>m, <2>1, CrashKeeps
<1>4. CASE PrefetchStop(t)
  BY <1>0, <1>4, <1>m, StopInv, FaultLift
<1>5. CASE Abort("page->va == page_boundry")
  BY <1>0, <1>5, UnmapAborts DEF AssertLabels, PrLabels, KeepsMap
<1> QED  BY <1>2, <1>3, <1>4, <1>5 DEF PrefetchClaim

LEMMA PrThreadInv ==
    ASSUME MapInv, NEW t \in Threads, PrThreadStep(t), found[t] \in Pages \cup {0}
    PROVE  MapSafe' /\ (MapInv' \/ failed' \in PrLabels)
<1>1. MapInv' => MapSafe'
  BY DEF MapInv, MapSafe
<1>2. CASE PrefetchLookup(t) \/ PrefetchClaim(t)
  BY <1>1, <1>2, LookupInv, PrefetchClaimInv
<1>3. CASE /\ \/ HandlerStep(t) \/ fetch_free_asynch(t) \/ lrudisk_ack_swapin(t)
              \/ lrudisk_swapin_external_async(t)
           /\ KeepsMap
  <2>1. PagingStep(t) => MapInv'
    BY PagingInv
  <2>2. PrEvictStep(t) => MapInv'
    BY <1>3, PrEvictInv DEF Evictors
  <2> QED  BY <1>1, <1>3, <2>1, <2>2, SharedStep
<1> QED  BY <1>2, <1>3 DEF PrThreadStep

\* The prefetch worker calls for addresses of its own choice, mapped or not.
LEMMA PrefetcherInv ==
    ASSUME MapInv, NEW w \in Threads, PrefetcherStep(w)
    PROVE  MapInv'
<1>1. CASE UNCHANGED vars
  <2>1. UNCHANGED mapVars
    BY <1>1 DEF PrefetcherStep, PrefetchBegin, PrefetchReturn, KeepsMap, mapVars
  <2> QED  BY <2>1, MapStutter
<1>2. ASSUME NEW head \in VA, At(w, "idle"), CallPrefetch(w, head), KeepsMap
      PROVE  MapInv'
  <2>1. Calls(w, head, "prefetch", "find")
    BY <1>2, Zenon DEF CallPrefetch, Calls, At
  <2>2. KeepsPaging /\ FaultKept(w)
    BY <2>1, CallInv DEF KeepsPaging, FaultKept
  <2> QED  BY <1>2, <2>2, FaultLift
<1>3. CASE PrefetchBegin(w)
  <2> DEFINE head == safe_to_free + Block
  <2>1. /\ At(w, "idle") /\ KeepsMap
        /\ (head \in VA /\ CallPrefetch(w, head)) \/ UNCHANGED vars
    BY <1>3 DEF PrefetchBegin
  <2> QED  BY <1>1, <1>2, <2>1
<1>4. CASE PrefetchReturn(w)
  <2> DEFINE head == round[w].head + round[w].nr
  <2>1. /\ At(w, "idle") /\ KeepsMap
        /\ (head \in VA /\ CallPrefetch(w, head)) \/ UNCHANGED vars
    BY <1>4 DEF PrefetchReturn
  <2> QED  BY <1>1, <1>2, <2>1
<1> QED  BY <1>3, <1>4 DEF PrefetcherStep

\* A worker's victim is mapped until it is on disk_active_list.
LEMMA PrWorkerInv ==
    ASSUME MapInv, NEW w \in Workers, PrWorkerStep(w)
    PROVE  MapInv'
<1>1. KeepsMap /\ w \in Evictors /\ w \in Executors
  BY DEF PrWorkerStep, Evictors, Executors
<1>2. pc[w] = "protect" => page[Victim(w)].va # 0
  <2> SUFFICES ASSUME pc[w] = "protect" PROVE page[Victim(w)].va # 0
    OBVIOUS
  <2>1. LocalUsed(w) /\ HoldsVictim(w)
    BY <1>1 DEF MapInv, UseInv, LocalsUsed, HoldsVictim
  <2>2. page[Victim(w)].va \in VA
    BY <1>1, <2>1 DEF LocalUsed, Mapped, Victim
  <2> QED  BY <2>2, SizeAssumption DEF VA
<1>3. PrEvictStep(w) \/ ReleaseVictim(w)
  BY <1>2 DEF PrWorkerStep, lrudisk_evictionworker
<1> QED  BY <1>1, <1>3, PrEvictInv, EvictScanInv

LEMMA PrUnmapInv ==
    ASSUME MapInv, PrUnmapStep
    PROVE  MapSafe' /\ (MapInv' \/ failed' \in UnmapAssertLabels)
<1>1. MapInv' => MapSafe'
  BY DEF MapInv, MapSafe
<1>2. CASE UnmapReserve \/ UnmapFree
  BY <1>2, UnmapReserveInv, UnmapFreeInv
<1>3. CASE ~(UnmapReserve \/ UnmapFree)
  BY <1>1, <1>3, UnmapFindInv, UnmapWaitInv, RemoveInv, UnmapTakeInv, UnmapReleaseInv,
     LibcMunmapInv DEF PrUnmapStep, PrUnmapTake
<1> QED  BY <1>2, <1>3

LEMMA PrMapInv ==
    ASSUME MapInv, NEW t \in Threads, PrMapStep(t)
    PROVE  MapInv'
  BY PageRankAssumption, MunmapInv, MmapInv, PopulateInv, MmapReturnInv
     DEF PrMapStep, lrudisk_ack_vma

FoundOK == found \in [Threads -> Pages \cup {0}]

\* The inductive invariant of the policy's theorems.
PrInv == /\ MapSafe /\ FoundOK
         /\ failed \in {"none"} \cup AssertLabels \cup UnmapAssertLabels \cup PrLabels

LEMMA FoundNext ==
    ASSUME MapInv, FoundOK, PrNext
    PROVE  FoundOK'
<1>1. found' = found \/ \E t \in Threads : PrefetchLookup(t) \/ PrefetchClaim(t)
  BY DEF PrNext, rankVars, PrMapStep, lrudisk_ack_vma, PrThreadStep, PrefetcherStep,
         PrefetchBegin, PrefetchReturn, PrWorkerStep, direct_allocate_page_asynch, PrUnmapStep
<1>2. ASSUME NEW t \in Threads, PrefetchLookup(t) PROVE FoundOK'
  <2>1. \/ found' = found
        \/ /\ PrefetchNext(t) \in VA
           /\ found' = [found EXCEPT ![t] = pages[PrefetchNext(t)]]
    BY <1>2 DEF PrefetchLookup, find_page
  <2>2. pages \in [VA -> Pages \cup {0}]
    BY UnmapFacts
  <2> QED  BY <2>1, <2>2 DEF FoundOK
<1>3. ASSUME NEW t \in Threads, PrefetchClaim(t) PROVE FoundOK'
  <2>1. found' = [found EXCEPT ![t] = 0]
    BY <1>3 DEF PrefetchClaim
  <2> QED  BY <2>1 DEF FoundOK
<1> QED  BY <1>1, <1>2, <1>3 DEF FoundOK

\* Every step keeps the invariant or fails an assertion of munmap's or of the
\* prefetch's; none fails the one on the address of a worker's victim.
LEMMA PrInvNext ==
    ASSUME MapInv, FoundOK, PrNext
    PROVE  MapSafe' /\ (MapInv' \/ failed' \in UnmapAssertLabels \cup PrLabels)
<1>0. MapInv' => MapSafe'
  BY DEF MapInv, MapSafe
<1>1. ASSUME NEW t \in Threads, MappedAccess(t) \/ PrMapStep(t) PROVE MapInv'
  BY <1>1, PagingInv, PrMapInv
<1>2. ASSUME NEW t \in Threads, PrThreadStep(t)
      PROVE  MapSafe' /\ (MapInv' \/ failed' \in PrLabels)
  BY <1>2, PrThreadInv DEF FoundOK
<1>3. ASSUME NEW w \in Prefetchers, PrefetcherStep(w) PROVE MapInv'
  BY <1>3, PrefetcherInv, PageRankAssumption
<1>4. ASSUME NEW w \in Workers, PrWorkerStep(w) PROVE MapInv'
  BY <1>4, PrWorkerInv
<1>5. ASSUME NEW e \in Scanners, direct_allocate_page_asynch(e) PROVE MapInv'
  BY <1>5, PrScanInv
<1>6. CASE PrUnmapStep
  BY <1>6, PrUnmapInv
<1>7. CASE Aborted /\ KeepsMap
  BY <1>0, <1>7, MapStutter DEF Aborted, KeepsMap, mapVars
<1> QED  BY <1>0, <1>1, <1>2, <1>3, <1>4, <1>5, <1>6, <1>7 DEF PrNext

\* After an assertion has failed nothing happens.
LEMMA PrStops ==
    ASSUME failed # "none", PrNext
    PROVE  UNCHANGED prVars
<1>1. ASSUME NEW t \in Threads, MappedAccess(t) \/ PrMapStep(t) PROVE FALSE
  BY <1>1 DEF MappedAccess, Touch, Store, PrMapStep, extmem_munmap, extmem_mmap,
              PopulatePage, lrudisk_ack_vma, MmapReturn, At
<1>e. ASSUME NEW e, PrEvictStep(e) PROVE FALSE
  BY <1>e DEF PrEvictStep, TakeVictim, ProtectVictim, BackByReserve, BackByFreeSlot,
       PrWriteBack, UnmapVictim, MarkSwappedOut, FreeFrame, TrackVictim, At
<1>2. ASSUME NEW t \in Threads, PrThreadStep(t) PROVE FALSE
  <2>1. CASE HandlerStep(t)
    BY <2>1 DEF HandlerStep, FirstTouch, uswap_sig_handler, Spin, FirstAllocate, PutBack,
                FirstMap, FirstAdd, Settle, DiskRead, PrefetchResident, At
  <2>2. CASE fetch_free_asynch(t)
    BY <1>e, <2>2 DEF fetch_free_asynch, FetchFree, FetchReclaim, FetchRetry,
                      FetchOutOfMemory, FetchEvicted, At
  <2>3. CASE lrudisk_ack_swapin(t) \/ lrudisk_swapin_external_async(t)
    BY <2>3 DEF lrudisk_ack_swapin, lrudisk_swapin_external_async, handle_missing_fault,
                DiskRead, FinishRead, PublishPage, At
  <2>4. CASE PrefetchLookup(t) \/ PrefetchClaim(t)
    BY <2>4 DEF PrefetchLookup, PrefetchClaim, At
  <2> QED  BY <1>2, <2>1, <2>2, <2>3, <2>4 DEF PrThreadStep
<1>3. ASSUME NEW w \in Prefetchers, PrefetcherStep(w) PROVE FALSE
  BY <1>3 DEF PrefetcherStep, PrefetchBegin, PrefetchReturn, At
<1>4. ASSUME NEW w \in Workers, PrWorkerStep(w) PROVE FALSE
  BY <1>4, <1>e DEF PrWorkerStep, lrudisk_evictionworker, ReleaseVictim, At
<1>5. ASSUME NEW e \in Scanners, direct_allocate_page_asynch(e) PROVE FALSE
  BY <1>5 DEF direct_allocate_page_asynch, ScanInactive, ScanTake, KeepWindow, At
<1>6. CASE PrUnmapStep
  BY <1>6 DEF PrUnmapStep, UnmapFind, UnmapWait, UnmapRelock, lrudisk_remove_page,
              PrUnmapTake, UnmapReserve, UnmapFree, PrUnmapRelease, libc_munmap, UnmapAt
<1>7. CASE Aborted /\ KeepsMap /\ UNCHANGED rankVars
  BY <1>7 DEF Aborted, KeepsMap, mapVars, prVars
<1> QED  BY <1>1, <1>2, <1>3, <1>4, <1>5, <1>6, <1>7 DEF PrNext

LEMMA PrInitInv == PrInit => PrInv
<1> SUFFICES ASSUME PrInit PROVE PrInv
  OBVIOUS
<1>1. MapInv
  BY MapInitInv DEF PrInit
<1>2. FoundOK
  BY DEF PrInit, FoundOK
<1> QED  BY <1>1, <1>2 DEF PrInv, MapSafe, MapInv, UseInv, TypeOK

LEMMA PrInvStep == PrInv /\ [PrNext]_prVars => PrInv'
<1> SUFFICES ASSUME PrInv, [PrNext]_prVars PROVE PrInv'
  OBVIOUS
<1>1. CASE UNCHANGED prVars
  <2>1. UNCHANGED mapVars /\ found' = found /\ failed' = failed
    BY <1>1 DEF prVars, mapVars, vars, rankVars
  <2> QED  BY <2>1, MapStutter DEF PrInv, FoundOK
<1>2. CASE PrNext /\ failed = "none"
  <2>1. MapInv /\ FoundOK
    BY <1>2 DEF PrInv, MapSafe, Ended
  <2>2. MapSafe' /\ (MapInv' \/ failed' \in UnmapAssertLabels \cup PrLabels)
    BY <1>2, <2>1, PrInvNext
  <2>3. FoundOK'
    BY <1>2, <2>1, FoundNext
  <2> QED  BY <2>2, <2>3 DEF PrInv, MapInv, UseInv, TypeOK
<1> QED  BY <1>1, <1>2, PrStops

\* With the pageRank policy, too, no descriptor is lost and none is shared: not
\* by a prefetch that claims the page it looked up a step ago, nor by munmap,
\* which leaves the pages on eviction_list to the workers.
THEOREM PrOwnershipHolds == PrSpec => []MapOwnership
<1>1. PrInit => PrInv
  BY PrInitInv
<1>2. PrInv /\ [PrNext]_prVars => PrInv'
  BY PrInvStep
<1>3. PrInv => MapOwnership
  BY DEF PrInv, MapSafe
<1> QED  BY <1>1, <1>2, <1>3, PTL DEF PrSpec

\* No eviction worker finds that its victim has no address, the assertion of
\* pageRank.c:560: what is on eviction_list is mapped, and a page in the hands
\* of its evictor is out of munmap's reach.
THEOREM VictimIsMappedHolds == PrSpec => []VictimIsMapped
<1>1. PrInit => PrInv
  BY PrInitInv
<1>2. PrInv /\ [PrNext]_prVars => PrInv'
  BY PrInvStep
<1>3. PrInv => VictimIsMapped
  BY DEF PrInv, VictimIsMapped, AssertLabels, UnmapAssertLabels, PrLabels
<1> QED  BY <1>1, <1>2, <1>3, PTL DEF PrSpec

\* The queues hold what the descriptors say they hold, each once.
THEOREM PrQueuesMatch == PrSpec => []QueuesMatch
<1>1. PrInit => PrInv
  BY PrInitInv
<1>2. PrInv /\ [PrNext]_prVars => PrInv'
  BY PrInvStep
<1>3. PrInv => QueuesMatch
  BY DEF PrInv, MapSafe
<1> QED  BY <1>1, <1>2, <1>3, PTL DEF PrSpec

-----------------------------------------------------------------------------
(* What the prefetch worker reads ahead.                                    *)

\* A worker reads pages of the block it is at and of the few that follow it.
ReadOK(w) ==
    /\ pc[w] # "idle" => /\ fault[w].job = "prefetch"
                         /\ fault[w].addr = round[w].head /\ round[w].head # 0
    /\ round[w].head # 0 => /\ round[w].block <= round[w].head
                            /\ round[w].head <= round[w].block + Block
    /\ Len(fault[w].reading) <= PrefetchRate
    /\ found[w] # 0 => pc[w] = "find" /\ Len(fault[w].reading) < PrefetchRate
    /\ \A p \in ReadAhead(w) :
         /\ pc[w] # "idle"
         /\ page[p].va \in fault[w].addr + 1 .. fault[w].addr + PrefetchRate

RankOK ==
    /\ safe_to_free \in Nat
    /\ round \in [Prefetchers -> [block : Nat, head : Nat, nr : Nat]]
    /\ \A w \in Prefetchers : ReadOK(w)

\* ReadAhead, before and after a step.
LEMMA ReadAheadDef ==
    ASSUME NEW w \in Threads, NEW p \in Pages
    PROVE  /\ p \in ReadAhead(w) <=>
                \/ \E i \in DOMAIN fault[w].reading : p = fault[w].reading[i]
                \/ pc[w] = "publish" /\ p = fault[w].page
           /\ p \in ReadAhead(w)' <=>
                \/ \E i \in DOMAIN fault'[w].reading : p = fault'[w].reading[i]
                \/ pc'[w] = "publish" /\ p = fault'[w].page
<1>1. /\ p \in ReadAhead(w) <=> Holds(w, "read", p) \/ Holds(w, "page", p)
      /\ p \in ReadAhead(w)' <=> Holds(w, "read", p)' \/ Holds(w, "page", p)'
  BY DEF ReadAhead
<1> QED  BY <1>1, RoleDefs, RoleDefsNext

\* Such a page is mapped, and on no list for munmap to take it from.
LEMMA ReadAheadMapped ==
    ASSUME MapInv, NEW w \in Threads, NEW p \in ReadAhead(w)
    PROVE  p \in Pages /\ Mapped(p) /\ page[p].list = "none"
<1>0. p \in Pages /\ (Holds(w, "read", p) \/ Holds(w, "page", p)) /\ w \in Executors
  BY DEF ReadAhead, Executors
<1>1. page[p].list = "none"
  BY <1>0 DEF MapInv, MapOwnership, Roles
<1>2. LocalUsed(w)
  BY <1>0 DEF MapInv, UseInv, LocalsUsed
<1>3. Mapped(p)
  BY <1>0, <1>2, ReadAheadDef DEF LocalUsed
<1> QED  BY <1>0, <1>1, <1>3

\* Only munmap, taking a page off its list, makes a descriptor stand for nothing.
LEMMA PrKeepsVa ==
    ASSUME MapInv, FoundOK, PrNext, ~UnmapTake
    PROVE  KeepsVa
<1>0. page \in [Pages -> UserPage]
  BY UnmapFacts
<1>n. [Next]_vars => KeepsVa
  BY NextKeepsVa DEF MapInv
<1>u. page' = page => KeepsVa
  BY DEF KeepsVa
<1>e. ASSUME NEW e \in Evictors, PrEvictStep(e) PROVE KeepsVa
  <2>1. EvictStep(e) \/ PrWriteBack(e)
    BY <1>e DEF PrEvictStep, EvictStep
  <2>2. EvictStep(e) => Next
    BY DEF Evictors, Next, ThreadStep, WorkerStep
  <2>3. PrWriteBack(e) => KeepsVa
    <3>1. PrWriteBack(e) => page' = page \/ page' = [page EXCEPT ![Victim(e)].migrating = TRUE]
      BY DEF PrWriteBack, Abort, sharedVars
    <3> QED  BY <1>0, <3>1 DEF KeepsVa, UserPage
  <2> QED  BY <1>n, <2>1, <2>2, <2>3
<1>1. ASSUME NEW t \in Threads, MappedAccess(t) \/ PrMapStep(t) PROVE KeepsVa
  <2>1. page' = page
    BY <1>1 DEF MappedAccess, Touch, Store, PrMapStep, extmem_munmap, extmem_mmap,
                PopulatePage, lrudisk_ack_vma, MmapReturn, sharedVars, vars
  <2> QED  BY <1>u, <2>1
<1>2. ASSUME NEW t \in Threads, PrThreadStep(t) PROVE KeepsVa
  <2>1. CASE PrefetchLookup(t)
    <3>1. page' = page
      BY <2>1 DEF PrefetchLookup, PrefetchStop, sharedVars, vars
    <3> QED  BY <1>u, <3>1
  <2>2. CASE PrefetchClaim(t)
    <3>1. page' = page \/ page' = ClaimPage(found[t])
      BY <2>2 DEF PrefetchClaim, PrefetchStop, Abort, sharedVars
    <3> QED  BY <1>0, <3>1 DEF KeepsVa, ClaimPage, UserPage
  <2>3. CASE ~(PrefetchLookup(t) \/ PrefetchClaim(t))
    <3>1. PagingStep(t) \/ PrEvictStep(t)
      BY <1>2, <2>3, SharedStep DEF PrThreadStep
    <3>2. PagingStep(t) => Next
      BY DEF PagingStep, Next
    <3> QED  BY <1>n, <1>e, <3>1, <3>2 DEF Evictors
  <2> QED  BY <2>1, <2>2, <2>3
<1>3. ASSUME NEW w \in Prefetchers, PrefetcherStep(w) PROVE KeepsVa
  <2>1. page' = page
    BY <1>3 DEF PrefetcherStep, PrefetchBegin, PrefetchReturn, CallPrefetch, sharedVars, vars
  <2> QED  BY <1>u, <2>1
<1>4. ASSUME NEW w \in Workers, PrWorkerStep(w) PROVE KeepsVa
  <2>1. PrEvictStep(w) \/ ReleaseVictim(w) \/ page' = page
    BY <1>4 DEF PrWorkerStep, lrudisk_evictionworker, Abort, sharedVars
  <2>2. ReleaseVictim(w) => Next
    BY DEF Next, WorkerStep
  <2> QED  BY <1>n, <1>u, <1>e, <2>1, <2>2 DEF Evictors
<1>5. ASSUME NEW e \in Scanners, direct_allocate_page_asynch(e) PROVE KeepsVa
  <2>1. \/ page' = [page EXCEPT ![Head(fifo["inactive"])].list = "none"]
        \/ \E q \in Queues : page' = [page EXCEPT ![scan[e]].list = q]
    BY <1>5 DEF direct_allocate_page_asynch, ScanInactive, ScanTake, KeepWindow, KeepOrEvict,
                ScanPut, Queues
  <2>2. ASSUME NEW d, NEW q, page' = [page EXCEPT ![d].list = q] PROVE KeepsVa
    BY <1>0, <2>2 DEF KeepsVa, UserPage
  <2> QED  BY <2>1, <2>2
<1>6. CASE PrUnmapStep
  <2>1. CASE UnmapFind \/ UnmapWait \/ UnmapRelock \/ lrudisk_remove_page
    BY <1>0, <2>1 DEF UnmapFind, UnmapWait, UnmapRelock, lrudisk_remove_page, KeepsVa, UserPage,
                      vars
  <2>2. CASE UnmapReserve
    <3>1. \/ page' = page
          \/ page' = [page EXCEPT ![unmap.page].reserve = 0,
                                  ![page[unmap.page].reserve].reserve = 0,
                                  ![page[unmap.page].reserve].list = "disk_free"]
      BY <2>2 DEF UnmapReserve, Abort, sharedVars
    <3> QED  BY <1>0, <3>1 DEF KeepsVa, UserPage
  <2>3. CASE UnmapFree
    <3>1. \/ page' = page
          \/ \E q \in {"dram_free", "disk_free"} :
               page' = [page EXCEPT ![unmap.page].list = q, ![unmap.page].reserve = 0]
      BY <2>3 DEF UnmapFree, Abort, sharedVars
    <3> QED  BY <1>0, <3>1 DEF KeepsVa, UserPage
  <2>4. CASE PrUnmapRelease \/ libc_munmap
    <3>1. page' = page
      BY <2>4 DEF PrUnmapRelease, libc_munmap, vars
    <3> QED  BY <1>u, <3>1
  <2> QED  BY <1>6, <2>1, <2>2, <2>3, <2>4 DEF PrUnmapStep, PrUnmapTake
<1>7. CASE Aborted
  BY <1>7, <1>u DEF Aborted, vars
<1> QED  BY <1>1, <1>2, <1>3, <1>4, <1>5, <1>6, <1>7 DEF PrNext

\* What was read ahead keeps its address as long as a worker has it.
LEMMA ReadAheadStays ==
    ASSUME MapInv, FoundOK, PrNext, NEW w \in Threads, NEW p \in ReadAhead(w)
    PROVE  page'[p].va = page[p].va
<1>1. p \in Pages /\ Mapped(p) /\ page[p].list = "none"
  BY ReadAheadMapped
<1>2. CASE UnmapTake
  <2>1. p # unmap.page /\ unmap.page \in Pages /\ page \in [Pages -> UserPage]
    BY <1>1, <1>2, UnmapFacts DEF UnmapTake, UnmapAt
  <2> QED  BY <1>1, <1>2, <2>1 DEF UnmapTake
<1>3. CASE ~UnmapTake
  BY <1>1, <1>3, PrKeepsVa DEF KeepsVa
<1> QED  BY <1>2, <1>3

\* An eviction or a scan by a thread goes on within its search for a frame.
LEMMA SearchKept ==
    ASSUME UseInv, NEW t \in Threads, PrEvictStep(t) \/ ScanInactive(t) \/ KeepWindow(t)
    PROVE  /\ fault' = fault
           /\ pc[t] \notin {"idle", "publish", "find"} /\ pc'[t] \notin {"idle", "publish", "find"}
           /\ \A u \in Threads \ {t} : pc'[u] = pc[u]
<1>0. /\ pc \in [Executors -> PcLabels] /\ t \in Executors /\ Threads \subseteq Executors
      /\ t \notin Workers /\ t \notin Kswapd
  BY ExecutorAssumption DEF UseInv, TypeOK, Executors
<1>1. CASE ScanInactive(t) \/ KeepWindow(t)
  BY <1>0, <1>1 DEF ScanInactive, KeepWindow, KeepOrEvict, ScanTake, ScanPut, ScanPoint, At
<1>2. CASE TakeVictim(t) \/ ProtectVictim(t) \/ BackByReserve(t) \/ BackByFreeSlot(t)
  BY <1>0, <1>2 DEF TakeVictim, ProtectVictim, BackByReserve, BackByFreeSlot, Abort,
                    sharedVars, At
<1>3. CASE PrWriteBack(t) \/ UnmapVictim(t) \/ MarkSwappedOut(t) \/ FreeFrame(t) \/ TrackVictim(t)
  BY <1>0, <1>3 DEF PrWriteBack, UnmapVictim, MarkSwappedOut, FreeFrame, TrackVictim, Abort,
                    sharedVars, At
<1> QED  BY <1>1, <1>2, <1>3 DEF PrEvictStep

\* What the prefetch worker's own steps, the claim apart, do with what it reads:
\* it ends its call, or goes on with no more pages than it had.
ReadOn(w) ==
    \/ pc'[w] = "idle" /\ fault'[w] = NoFault
    \/ /\ pc'[w] # "idle" /\ fault'[w].job = "prefetch" /\ fault'[w].addr = fault[w].addr
       /\ Len(fault'[w].reading) \in 0 .. Len(fault[w].reading)
       /\ ReadAhead(w)' \subseteq ReadAhead(w)

LEMMA BatchKept ==
    ASSUME MapInv, NEW w \in Threads, fault[w].job = "prefetch", pc[w] # "idle",
           \/ HandlerStep(w) \/ fetch_free_asynch(w) \/ lrudisk_ack_swapin(w)
           \/ lrudisk_swapin_external_async(w)
    PROVE  ReadOn(w) /\ pc[w] # "find"
<1>0. /\ UseInv /\ ThreadOK(w) /\ fault[w] \in FaultLocals /\ w \in Executors
      /\ fault \in [Threads -> FaultLocals] /\ pc \in [Executors -> PcLabels]
      /\ fault[w].reading \in Seq(Pages)
  BY DEF MapInv, UseInv, TypeOK, LocalsOK, LocalOK, Executors, FaultLocals
<1>q. ASSUME fault'[w].job = fault[w].job, fault'[w].addr = fault[w].addr,
             fault'[w].reading = fault[w].reading, pc'[w] \notin {"idle", "publish"}
      PROVE  ReadOn(w)
  <2>1. ReadAhead(w)' \subseteq ReadAhead(w)
    <3> SUFFICES ASSUME NEW p \in Pages, p \in ReadAhead(w)' PROVE p \in ReadAhead(w)
      BY DEF ReadAhead
    <3> QED  BY <1>q, ReadAheadDef
  <2>2. Len(fault[w].reading) \in 0 .. Len(fault[w].reading)
    BY <1>0
  <2> QED  BY <1>q, <2>1, <2>2 DEF ReadOn
<1>1. CASE uswap_sig_handler(w) \/ Spin(w) \/ FirstTouch(w) \/ lrudisk_swapin_external_async(w)
  BY <1>0, <1>1 DEF uswap_sig_handler, Spin, FirstTouch, FirstAllocate, PutBack, FirstMap,
                    FirstAdd, lrudisk_swapin_external_async, handle_missing_fault, At,
                    ThreadOK, FirstPcs
<1>2. CASE Settle(w)
  <2>1. pc[w] = "settle" /\ \/ fault'[w] = NoFault /\ pc'[w] = "idle"
                            \/ /\ fault' = [fault EXCEPT ![w].page = 0]
                               /\ pc'[w] = "finish"
    BY <1>0, <1>2 DEF Settle, Resume, At
  <2>2. CASE fault' = [fault EXCEPT ![w].page = 0] /\ pc'[w] = "finish"
    <3>1. fault'[w] = [fault[w] EXCEPT !.page = 0]
      BY <1>0, <2>2
    <3>2. /\ fault'[w].job = fault[w].job /\ fault'[w].addr = fault[w].addr
          /\ fault'[w].reading = fault[w].reading
      BY <1>0, <3>1 DEF FaultLocals
    <3> QED  BY <1>q, <2>1, <2>2, <3>2
  <2> QED  BY <2>1, <2>2 DEF ReadOn
<1>3. CASE DiskRead(w)
  <2>1. /\ pc' = pc /\ pc[w] # "find"
        /\ fault'[w] = [fault[w] EXCEPT !.buf = fault'[w].buf]
    BY <1>0, <1>3 DEF DiskRead
  <2>2. /\ fault'[w].job = fault[w].job /\ fault'[w].addr = fault[w].addr
        /\ fault'[w].reading = fault[w].reading /\ fault'[w].page = fault[w].page
    BY <1>0, <2>1 DEF FaultLocals
  <2>3. ReadAhead(w)' \subseteq ReadAhead(w)
    <3> SUFFICES ASSUME NEW p \in Pages, p \in ReadAhead(w)' PROVE p \in ReadAhead(w)
      BY DEF ReadAhead
    <3> QED  BY <2>1, <2>2, ReadAheadDef
  <2>4. Len(fault[w].reading) \in 0 .. Len(fault[w].reading)
    BY <1>0
  <2> QED  BY <2>1, <2>2, <2>3, <2>4 DEF ReadOn
<1>4. CASE PrefetchResident(w)
  <2>1. pc[w] = "resident" /\ pc'[w] = "settle" /\ fault' = fault
    BY <1>0, <1>4 DEF PrefetchResident, At
  <2> QED  BY <1>q, <2>1
<1>5. CASE FetchFree(w) \/ FetchEvicted(w)
  <2>1. /\ pc[w] \in {"fetch", "release"}
        /\ \/ fault' = fault /\ pc' = pc
           \/ \E d : /\ fault' = [fault EXCEPT ![w].frees = Append(@, d)]
                     /\ pc'[w] \in {"allocate", "fetch", "finish"}
    BY <1>0, <1>5 DEF FetchFree, FetchEvicted, ReceiveFrame, At, Abort, sharedVars
  <2>2. ASSUME NEW d, fault' = [fault EXCEPT ![w].frees = Append(@, d)]
        PROVE  /\ fault'[w].job = fault[w].job /\ fault'[w].addr = fault[w].addr
               /\ fault'[w].reading = fault[w].reading
    <3>1. fault'[w] = [fault[w] EXCEPT !.frees = Append(fault[w].frees, d)]
      BY <1>0, <2>2
    <3> QED  BY <1>0, <3>1 DEF FaultLocals
  <2> QED  BY <1>q, <2>1, <2>2
<1>6. CASE FetchReclaim(w) \/ FetchRetry(w) \/ FetchOutOfMemory(w)
  <2>1. fault' = fault /\ pc[w] \in {"fetch", "reclaim"} /\ pc'[w] \in {"fetch", "reclaim"}
    BY <1>0, <1>6 DEF FetchReclaim, FetchRetry, FetchOutOfMemory, Abort, At, sharedVars
  <2> QED  BY <1>q, <2>1
<1>7. CASE PrEvictStep(w)
  BY <1>0, <1>7, <1>q, SearchKept
<1>8. CASE FinishRead(w)
  <2>1. CASE Abort("swap-in: freepage->in_dram, UFFDIO_COPY")
    <3>1. fault' = fault /\ pc' = pc /\ pc[w] = "finish"
      BY <1>8, <2>1 DEF FinishRead, Abort, At
    <3> QED  BY <1>q, <3>1
  <2>2. CASE ~Abort("swap-in: freepage->in_dram, UFFDIO_COPY")
    <3> DEFINE s == fault[w].reading
    <3>1. /\ pc[w] = "finish" /\ pc'[w] = "publish"
          /\ fault' = [fault EXCEPT ![w].page = Head(s), ![w].reading = Tail(@),
                                    ![w].buf = Tail(@), ![w].frees = Tail(@)]
      BY <1>0, <1>8, <2>2 DEF FinishRead, At
    <3>2. fault'[w] = [fault[w] EXCEPT !.page = Head(s), !.reading = Tail(fault[w].reading),
                                       !.buf = Tail(fault[w].buf), !.frees = Tail(fault[w].frees)]
      BY <1>0, <3>1
    <3>3. /\ fault'[w].job = fault[w].job /\ fault'[w].addr = fault[w].addr
          /\ fault'[w].reading = Tail(s) /\ fault'[w].page = Head(s)
      BY <1>0, <3>2 DEF FaultLocals
    <3>4. /\ s # <<>> /\ Head(s) = s[1] /\ Len(s) \in Nat \ {0}
          /\ DOMAIN s = 1 .. Len(s) /\ DOMAIN Tail(s) = 1 .. Len(s) - 1
          /\ \A i \in 1 .. Len(s) - 1 : Tail(s)[i] = s[i + 1]
          /\ Len(Tail(s)) = Len(s) - 1
      BY <1>0, <3>1, HeadTail DEF ThreadOK
    <3>5. ASSUME NEW p \in Pages, p \in ReadAhead(w)' PROVE p \in ReadAhead(w)
      <4>1. \E i \in DOMAIN s : p = s[i]
        <5>1. CASE \E i \in DOMAIN Tail(s) : p = Tail(s)[i]
          <6>1. PICK i \in DOMAIN Tail(s) : p = Tail(s)[i]
            BY <5>1
          <6>2. i + 1 \in DOMAIN s /\ p = s[i + 1]
            BY <3>4, <6>1
          <6> QED  BY <6>2
        <5>2. CASE p = Head(s)
          <6>1. 1 \in DOMAIN s /\ p = s[1]
            BY <3>4, <5>2
          <6> QED  BY <6>1
        <5>3. (\E i \in DOMAIN fault'[w].reading : p = fault'[w].reading[i]) \/ p = fault'[w].page
          BY <3>5, ReadAheadDef
        <5> QED  BY <3>3, <5>1, <5>2, <5>3
      <4> QED  BY <4>1, ReadAheadDef
    <3>6. ReadAhead(w)' \subseteq ReadAhead(w)
      BY <3>5 DEF ReadAhead
    <3>7. Len(fault'[w].reading) \in 0 .. Len(fault[w].reading)
      BY <3>3, <3>4
    <3> QED  BY <3>1, <3>3, <3>6, <3>7 DEF ReadOn
  <2> QED  BY <2>1, <2>2
<1>9. CASE PublishPage(w)
  <2>1. pc[w] = "publish" /\ pc'[w] \in {"settle", "resident"} /\ fault' = fault
    BY <1>0, <1>9 DEF PublishPage, At
  <2> QED  BY <1>q, <2>1
<1> QED  BY <1>1, <1>2, <1>3, <1>4, <1>5, <1>6, <1>7, <1>8, <1>9
         DEF HandlerStep, fetch_free_asynch, lrudisk_ack_swapin

\* The worker has nothing in its hands.
LEMMA NothingAhead ==
    ASSUME NEW w \in Threads, pc'[w] = "idle", fault'[w] = NoFault
    PROVE  ReadAhead(w)' = {} /\ Len(fault'[w].reading) = 0
<1>1. fault'[w].reading = <<>> /\ DOMAIN fault'[w].reading = {}
  BY DEF NoFault
<1>2. \A p \in Pages : p \notin ReadAhead(w)'
  BY <1>1, ReadAheadDef
<1>3. ReadAhead(w)' \subseteq Pages
  BY DEF ReadAhead
<1> QED  BY <1>1, <1>2, <1>3

\* A worker that goes on, or waits while others move, keeps to its block.
LEMMA ReadLift ==
    ASSUME MapInv, FoundOK, PrNext, NEW w \in Prefetchers, ReadOK(w),
           round'[w].head = round[w].head, round'[w].block = round[w].block,
           \/ pc[w] # "idle" /\ ReadOn(w) /\ found'[w] = 0
           \/ /\ pc'[w] = pc[w] /\ fault'[w] = fault[w]
              /\ found'[w] \in {0, found[w]}
    PROVE  ReadOK(w)'
<1>0. w \in Threads
  BY PageRankAssumption
<1>1. \A p \in ReadAhead(w) : page'[p].va = page[p].va
  BY <1>0, ReadAheadStays
<1>2. PrefetchRate \in Nat
  BY SizeAssumption
<1>3. CASE pc'[w] = "idle" /\ fault'[w] = NoFault /\ found'[w] = 0
  BY <1>0, <1>2, <1>3, NothingAhead DEF ReadOK
<1>4. CASE /\ pc[w] # "idle" /\ found'[w] = 0
           /\ pc'[w] # "idle" /\ fault'[w].job = "prefetch" /\ fault'[w].addr = fault[w].addr
           /\ Len(fault'[w].reading) \in 0 .. Len(fault[w].reading)
           /\ ReadAhead(w)' \subseteq ReadAhead(w)
  <2>1. Len(fault'[w].reading) <= PrefetchRate
    <3>1. fault[w].reading \in Seq(Pages)
      BY <1>0, UnmapFacts DEF TypeOK, FaultLocals
    <3>2. Len(fault[w].reading) \in Nat
      BY <3>1
    <3> QED  BY <1>2, <1>4, <3>2 DEF ReadOK
  <2>2. \A p \in ReadAhead(w)' :
          page'[p].va \in fault'[w].addr + 1 .. fault'[w].addr + PrefetchRate
    BY <1>1, <1>4 DEF ReadOK
  <2> QED  BY <1>4, <2>1, <2>2 DEF ReadOK
<1>5. CASE pc'[w] = pc[w] /\ fault'[w] = fault[w] /\ found'[w] \in {0, found[w]}
  <2>1. ReadAhead(w)' = ReadAhead(w)
    BY <1>0, <1>5, RoleDefs, RoleDefsNext DEF ReadAhead
  <2> QED  BY <1>1, <1>5, <2>1 DEF ReadOK
<1> QED  BY <1>3, <1>4, <1>5 DEF ReadOn

\* The worker's own steps.
LEMMA OwnReadOK ==
    ASSUME MapInv, FoundOK, PrNext, NEW w \in Prefetchers, ReadOK(w), PrThreadStep(w),
           round \in [Prefetchers -> [block : Nat, head : Nat, nr : Nat]]
    PROVE  ReadOK(w)'
<1>0. /\ w \in Threads /\ UseInv /\ ThreadOK(w) /\ fault \in [Threads -> FaultLocals]
      /\ fault[w] \in FaultLocals /\ found[w] \in Pages \cup {0}
      /\ pc \in [Executors -> PcLabels] /\ w \in Executors
      /\ Len(fault[w].reading) \in Nat
  <2>1. /\ w \in Threads /\ w \in Executors /\ UseInv /\ ThreadOK(w)
        /\ found[w] \in Pages \cup {0}
    BY PageRankAssumption DEF MapInv, UseInv, LocalsOK, LocalOK, Executors, FoundOK
  <2>2. /\ fault \in [Threads -> FaultLocals] /\ pc \in [Executors -> PcLabels]
        /\ fault[w] \in FaultLocals
    BY <2>1 DEF UseInv, TypeOK
  <2>3. fault[w].reading \in Seq(Pages)
    BY <2>2 DEF FaultLocals
  <2> QED  BY <2>1, <2>2, <2>3
<1>s. ASSUME PrefetchStop(w), At(w, "find"), found'[w] = 0
      PROVE  ReadOK(w)'
  <2>1. /\ round'[w].head = round[w].head /\ round'[w].block = round[w].block
    <3>1. round' = [round EXCEPT ![w].nr = Len(fault[w].reading)]
      BY <1>s DEF PrefetchStop
    <3> QED  BY <3>1
  <2>2. pc[w] # "idle"
    BY <1>s DEF At
  <2>3. CASE Resume(w)
    <3>1. pc'[w] = "idle" /\ fault'[w] = NoFault
      BY <1>0, <2>3 DEF Resume
    <3> QED  BY <1>s, <2>1, <2>2, <3>1, ReadLift DEF ReadOn
  <2>4. CASE pc' = [pc EXCEPT ![w] = "fetch"] /\ fault' = fault
    <3>1. pc'[w] = "fetch" /\ fault'[w].job = "prefetch" /\ fault'[w].addr = fault[w].addr
      BY <1>0, <2>2, <2>4 DEF ReadOK
    <3>2. ReadAhead(w)' \subseteq ReadAhead(w)
      <4> SUFFICES ASSUME NEW p \in Pages, p \in ReadAhead(w)' PROVE p \in ReadAhead(w)
        BY DEF ReadAhead
      <4> QED  BY <1>0, <2>4, <3>1, ReadAheadDef
    <3>3. Len(fault'[w].reading) \in 0 .. Len(fault[w].reading)
      BY <1>0, <2>4
    <3> QED  BY <1>s, <2>1, <2>2, <3>1, <3>2, <3>3, ReadLift DEF ReadOn
  <2> QED  BY <1>s, <2>3, <2>4 DEF PrefetchStop
<1>1. CASE PrefetchLookup(w)
  <2>1. At(w, "find") /\ found[w] = 0
    BY <1>1 DEF PrefetchLookup
  <2>2. CASE PrefetchStop(w) /\ UNCHANGED found
    BY <1>s, <2>1, <2>2
  <2>3. CASE /\ Len(fault[w].reading) < PrefetchRate
             /\ UNCHANGED <<vars, round>>
    <3>1. ReadAhead(w)' = ReadAhead(w)
      BY <1>0, <2>3, RoleDefs, RoleDefsNext DEF ReadAhead, vars
    <3> QED  BY <2>1, <2>3, <3>1 DEF ReadOK, vars, At
  <2> QED  BY <1>1, <2>2, <2>3 DEF PrefetchLookup
<1>2. CASE PrefetchClaim(w)
  <2> DEFINE p == found[w]
  <2>1. /\ At(w, "find") /\ p \in Pages /\ p # 0
        /\ found'[w] = 0
    BY <1>0, <1>2 DEF PrefetchClaim, FoundOK
  <2>2. CASE PrefetchStop(w)
    BY <1>s, <2>1, <2>2
  <2>3. ASSUME NEW label, Abort(label), UNCHANGED round PROVE ReadOK(w)'
    BY <2>1, <2>3, ReadLift DEF Abort
  <2>4. CASE /\ page[p].va = PrefetchNext(w) /\ page' = ClaimPage(p)
             /\ fault' = [fault EXCEPT ![w].reading = Append(@, p)]
             /\ UNCHANGED <<fifo, pages, pte, disk, pc, scan, evict, failed, round>>
    <3> DEFINE s == fault[w].reading
               a == fault[w].addr
    <3>0. s \in Seq(Pages) /\ Len(s) \in Nat /\ a \in Nat /\ PrefetchRate \in Nat
          /\ page \in [Pages -> UserPage]
      BY <1>0, SizeAssumption, UnmapFacts DEF FaultLocals, VA
    <3>1. fault'[w] = [fault[w] EXCEPT !.reading = Append(s, p)]
      BY <1>0, <2>4
    <3>2. /\ fault'[w].job = fault[w].job /\ fault'[w].addr = a
          /\ fault'[w].reading = Append(s, p) /\ fault'[w].page = fault[w].page
      BY <1>0, <3>1 DEF FaultLocals
    <3>3. Len(s) < PrefetchRate
      BY <2>1 DEF ReadOK
    <3>4. Len(fault'[w].reading) <= PrefetchRate
      <4>1. Len(Append(s, p)) = Len(s) + 1
        BY <3>0
      <4> QED  BY <3>0, <3>2, <3>3, <4>1
    <3>5. \A q \in ReadAhead(w)' : q = p \/ q \in ReadAhead(w)
      <4> SUFFICES ASSUME NEW q \in Pages, q \in ReadAhead(w)', q # p PROVE q \in ReadAhead(w)
        BY DEF ReadAhead
      <4>1. CASE \E i \in DOMAIN fault'[w].reading : q = fault'[w].reading[i]
        <5>1. PICK i \in DOMAIN Append(s, p) : q = Append(s, p)[i]
          BY <3>2, <4>1
        <5>2. i \in DOMAIN s /\ q = s[i]
          BY <2>1, <3>0, <5>1
        <5> QED  BY <1>0, <5>2, ReadAheadDef
      <4>2. CASE pc'[w] = "publish" /\ q = fault'[w].page
        BY <2>1, <2>4, <4>2 DEF At
      <4> QED  BY <1>0, <4>1, <4>2, ReadAheadDef
    <3>6. page'[p].va = a + Len(s) + 1
      <4>1. page'[p].va = page[p].va
        BY <2>1, <2>4, <3>0 DEF ClaimPage, UserPage
      <4> QED  BY <2>4, <4>1 DEF PrefetchNext
    <3>7. page'[p].va \in a + 1 .. a + PrefetchRate
      <4>1. ASSUME NEW x \in Nat, NEW y \in Nat, NEW z \in Nat, y < z
            PROVE  x + y + 1 \in x + 1 .. x + z
        BY <4>1
      <4> QED  BY <3>0, <3>3, <3>6, <4>1
    <3>8. \A q \in ReadAhead(w) : page'[q].va \in a + 1 .. a + PrefetchRate
      BY <1>0, ReadAheadStays DEF ReadOK
    <3>9. pc'[w] = "find" /\ round'[w] = round[w] /\ pc[w] = "find"
      BY <2>1, <2>4 DEF At
    <3> QED  BY <2>1, <3>2, <3>4, <3>5, <3>7, <3>8, <3>9 DEF ReadOK
  <2> QED  BY <1>2, <2>2, <2>3, <2>4 DEF PrefetchClaim
<1>3. CASE ~(PrefetchLookup(w) \/ PrefetchClaim(w))
  <2>1. /\ \/ HandlerStep(w) \/ fetch_free_asynch(w) \/ lrudisk_ack_swapin(w)
           \/ lrudisk_swapin_external_async(w)
        /\ UNCHANGED <<found, round>>
    BY <1>3 DEF PrThreadStep, rankVars
  <2>2. pc[w] # "idle"
    <3> SUFFICES ASSUME pc[w] = "idle" PROVE FALSE
      OBVIOUS
    <3>1. fault[w].reading = <<>> /\ fault[w].job = "none"
      BY <1>0 DEF ThreadOK, NoFault
    <3>2. ~PrEvictStep(w)
      BY <1>0, SearchKept
    <3> QED  BY <2>1, <3>1, <3>2
             DEF HandlerStep, FirstTouch, uswap_sig_handler, Spin, FirstAllocate, PutBack,
                 FirstMap, FirstAdd, Settle, DiskRead, PrefetchResident,
                 fetch_free_asynch, FetchFree, FetchReclaim, FetchRetry, FetchOutOfMemory,
                 FetchEvicted, lrudisk_ack_swapin, lrudisk_swapin_external_async,
                 handle_missing_fault, FinishRead, PublishPage, At
  <2>3. ReadOn(w) /\ pc[w] # "find"
    BY <1>0, <2>1, <2>2, BatchKept DEF ReadOK
  <2> QED  BY <2>1, <2>2, <2>3, ReadLift DEF ReadOK
<1> QED  BY <1>1, <1>2, <1>3

\* Evictions and scans change nobody's fault and nobody else's label.
LEMMA SearchAlone ==
    ASSUME UseInv, NEW e \in Executors,
           PrEvictStep(e) \/ ReleaseVictim(e) \/ ScanInactive(e) \/ KeepWindow(e)
    PROVE  fault' = fault /\ \A u \in Executors \ {e} : pc'[u] = pc[u]
<1>0. pc \in [Executors -> PcLabels]
  BY DEF UseInv, TypeOK
<1>1. CASE ScanInactive(e) \/ KeepWindow(e)
  BY <1>0, <1>1 DEF ScanInactive, KeepWindow, KeepOrEvict, ScanTake, ScanPut, ScanPoint
<1>2. CASE TakeVictim(e) \/ ProtectVictim(e) \/ BackByReserve(e) \/ BackByFreeSlot(e)
  BY <1>0, <1>2 DEF TakeVictim, ProtectVictim, BackByReserve, BackByFreeSlot, Abort, sharedVars
<1>3. CASE PrWriteBack(e) \/ UnmapVictim(e) \/ MarkSwappedOut(e) \/ FreeFrame(e) \/ TrackVictim(e)
  BY <1>0, <1>3 DEF PrWriteBack, UnmapVictim, MarkSwappedOut, FreeFrame, TrackVictim, Abort,
                    sharedVars
<1>4. CASE ReleaseVictim(e)
  BY <1>0, <1>4 DEF ReleaseVictim, Abort, sharedVars
<1> QED  BY <1>1, <1>2, <1>3, <1>4 DEF PrEvictStep

\* The locals of a thread, its prefetch's included, are its own.
LocalsKept(u) == /\ fault'[u] = fault[u] /\ pc'[u] = pc[u] /\ found'[u] = found[u]
                 /\ u \in Prefetchers => round'[u] = round[u]

LEMMA ThreadAlone ==
    ASSUME MapInv, FoundOK, NEW t \in Threads, PrThreadStep(t), NEW u \in Threads \ {t}, RankOK
    PROVE  LocalsKept(u)
<1>0. /\ UseInv /\ pc \in [Executors -> PcLabels] /\ Threads \subseteq Executors
      /\ fault \in [Threads -> FaultLocals] /\ found \in [Threads -> Pages \cup {0}]
      /\ round \in [Prefetchers -> [block : Nat, head : Nat, nr : Nat]]
  BY DEF MapInv, UseInv, TypeOK, Executors, FoundOK, RankOK
<1>1. ASSUME PrefetchStop(t) PROVE /\ fault'[u] = fault[u] /\ pc'[u] = pc[u]
                                   /\ u \in Prefetchers => round'[u] = round[u]
  BY <1>0, <1>1 DEF PrefetchStop, Resume
<1>2. CASE PrefetchLookup(t)
  <2>1. found'[u] = found[u]
    BY <1>0, <1>2 DEF PrefetchLookup
  <2> QED  BY <1>1, <1>2, <2>1 DEF PrefetchLookup, LocalsKept, vars
<1>3. CASE PrefetchClaim(t)
  <2>1. found'[u] = found[u]
    BY <1>0, <1>3 DEF PrefetchClaim
  <2>2. CASE PrefetchStop(t)
    BY <1>1, <2>1, <2>2 DEF LocalsKept
  <2>3. CASE /\ fault' = fault \/ \E p : fault' = [fault EXCEPT ![t].reading = Append(@, p)]
             /\ pc' = pc /\ round' = round
    BY <1>0, <2>1, <2>3 DEF LocalsKept
  <2> QED  BY <1>3, <2>2, <2>3 DEF PrefetchClaim, Abort
<1>4. CASE ~(PrefetchLookup(t) \/ PrefetchClaim(t))
  <2>1. found' = found /\ round' = round
    BY <1>4 DEF PrThreadStep, rankVars
  <2>2. PagingStep(t) \/ PrEvictStep(t)
    BY <1>4, SharedStep DEF PrThreadStep
  <2>3. fault'[u] = fault[u] /\ pc'[u] = pc[u]
    <3>1. CASE FaultStep(t)
      BY <1>0, <3>1, ThreadKept DEF FaultKept
    <3>2. CASE EvictStep(t) \/ ScanStep(t)
      BY <1>0, <3>2, EvictScanKept
    <3>3. CASE PrEvictStep(t)
      BY <1>0, <3>3, SearchAlone
    <3> QED  BY <2>2, <3>1, <3>2, <3>3 DEF PagingStep, ThreadStep
  <2> QED  BY <2>1, <2>3 DEF LocalsKept
<1> QED  BY <1>2, <1>3, <1>4

\* Accesses, and calls of mmap and munmap, by u are nothing to t.
LEMMA CallerAlone ==
    ASSUME UseInv, NEW t \in Threads, MappedAccess(t) \/ PrMapStep(t), NEW u \in Threads \ {t}
    PROVE  fault'[u] = fault[u] /\ pc'[u] = pc[u]
<1>0. /\ pc \in [Executors -> PcLabels] /\ Threads \subseteq Executors
      /\ fault \in [Threads -> FaultLocals]
  BY DEF UseInv, TypeOK, Executors
<1>1. CASE MappedAccess(t)
  BY <1>0, <1>1 DEF MappedAccess, Touch, Store
<1>2. CASE PopulatePage(t)
  BY <1>0, <1>2 DEF PopulatePage
<1>3. CASE ~MappedAccess(t) /\ ~PopulatePage(t)
  BY <1>3 DEF PrMapStep, extmem_munmap, extmem_mmap, lrudisk_ack_vma, MmapReturn, vars
<1> QED  BY <1>1, <1>2, <1>3

\* A new call, with nothing read yet, or none.
LEMMA PrefetcherReadOK ==
    ASSUME MapInv, FoundOK, RankOK, NEW w \in Prefetchers, PrefetcherStep(w)
    PROVE  ReadOK(w)'
<1>0. /\ w \in Threads /\ w \in Executors /\ ThreadOK(w) /\ ReadOK(w)
      /\ fault \in [Threads -> FaultLocals] /\ pc \in [Executors -> PcLabels]
      /\ round \in [Prefetchers -> [block : Nat, head : Nat, nr : Nat]]
      /\ safe_to_free \in Nat /\ Block \in Nat \ {0} /\ PrefetchRate \in Nat
  BY PageRankAssumption, SizeAssumption
     DEF MapInv, UseInv, TypeOK, LocalsOK, LocalOK, Executors, RankOK
<1>1. pc[w] = "idle" /\ fault[w] = NoFault /\ found[w] = 0 /\ found' = found
  BY <1>0 DEF PrefetcherStep, PrefetchBegin, PrefetchReturn, At, ThreadOK, ReadOK
<1>2. ASSUME UNCHANGED vars, round'[w].head = 0 PROVE ReadOK(w)'
  <2>1. pc'[w] = "idle" /\ fault'[w] = NoFault
    BY <1>1, <1>2 DEF vars
  <2> QED  BY <1>0, <1>1, <1>2, <2>1, NothingAhead DEF ReadOK
<1>3. ASSUME NEW head \in VA, CallPrefetch(w, head), round'[w].head = head,
             round'[w].block <= head, head <= round'[w].block + Block
      PROVE  ReadOK(w)'
  <2>1. fault'[w] = [NoFault EXCEPT !.addr = head, !.job = "prefetch"] /\ pc'[w] = "find"
    BY <1>0, <1>3 DEF CallPrefetch
  <2>2. fault'[w].addr = head /\ fault'[w].job = "prefetch" /\ fault'[w].reading = <<>>
    BY <2>1 DEF NoFault
  <2>3. Len(fault'[w].reading) = 0 /\ DOMAIN fault'[w].reading = {}
    BY <2>2
  <2>4. ReadAhead(w)' = {}
    <3>1. \A p \in Pages : p \notin ReadAhead(w)'
      BY <1>0, <2>1, <2>3, ReadAheadDef
    <3>2. ReadAhead(w)' \subseteq Pages
      BY DEF ReadAhead
    <3> QED  BY <3>1, <3>2
  <2>5. head # 0
    BY SizeAssumption DEF VA
  <2> QED  BY <1>0, <1>1, <1>3, <2>1, <2>2, <2>3, <2>4, <2>5 DEF ReadOK
<1>4. CASE PrefetchBegin(w)
  <2> DEFINE b == safe_to_free + Block
             h == IF b \in VA THEN b ELSE 0
  <2>1. round' = [round EXCEPT ![w] = [block |-> b, nr |-> 0, head |-> h]]
    BY <1>4 DEF PrefetchBegin
  <2>2. round'[w].block = b /\ round'[w].head = h
    BY <1>0, <2>1
  <2>3. CASE b \in VA
    <3>1. CallPrefetch(w, b)
      BY <1>4, <2>3 DEF PrefetchBegin
    <3>2. b <= b /\ b <= b + Block
      BY <1>0
    <3> QED  BY <1>3, <2>2, <2>3, <3>1, <3>2
  <2>4. CASE b \notin VA
    BY <1>2, <1>4, <2>2, <2>4 DEF PrefetchBegin
  <2> QED  BY <2>3, <2>4
<1>5. CASE PrefetchReturn(w)
  <2> DEFINE h == round[w].head + round[w].nr
             more == MorePages(w) /\ h \in VA
  <2>1. round' = [round EXCEPT ![w].head = IF more THEN h ELSE 0, ![w].nr = 0]
    BY <1>5 DEF PrefetchReturn
  <2>2. round'[w] = [round[w] EXCEPT !.head = IF more THEN h ELSE 0, !.nr = 0]
    BY <1>0, <2>1
  <2>3. round'[w].block = round[w].block /\ round'[w].head = IF more THEN h ELSE 0
    BY <1>0, <2>2
  <2>4. CASE more
    <3>1. CallPrefetch(w, h)
      BY <1>5, <2>4 DEF PrefetchReturn
    <3>2. round[w].block <= round[w].head
      BY <1>0, <1>5 DEF PrefetchReturn, ReadOK
    <3>3. round[w].block \in Nat /\ round[w].head \in Nat /\ round[w].nr \in Nat
      BY <1>0
    <3>4. round[w].block <= h /\ h <= round[w].block + Block
      BY <1>0, <2>4, <3>2, <3>3 DEF MorePages
    <3> QED  BY <1>3, <2>3, <2>4, <3>1, <3>4
  <2>5. CASE ~more
    BY <1>2, <1>5, <2>3, <2>5 DEF PrefetchReturn
  <2> QED  BY <2>4, <2>5
<1> QED  BY <1>4, <1>5 DEF PrefetcherStep

\* Every step of everybody keeps what the worker reads within its block.
LEMMA ReadKept ==
    ASSUME MapInv, FoundOK, RankOK, PrNext, NEW w \in Prefetchers
    PROVE  ReadOK(w)'
<1>0. /\ w \in Threads /\ w \in Executors /\ UseInv /\ ReadOK(w)
      /\ fault \in [Threads -> FaultLocals] /\ fault[w].reading \in Seq(Pages)
      /\ pc \in [Executors -> PcLabels]
      /\ round \in [Prefetchers -> [block : Nat, head : Nat, nr : Nat]]
  BY PageRankAssumption DEF MapInv, UseInv, TypeOK, Executors, RankOK, FaultLocals
<1>k. ASSUME LocalsKept(w) PROVE ReadOK(w)'
  BY <1>0, <1>k, ReadLift DEF LocalsKept
<1>1. ASSUME NEW t \in Threads \ Prefetchers,
             (MappedAccess(t) /\ UNCHANGED rankVars) \/ PrMapStep(t)
      PROVE  ReadOK(w)'
  <2>1. found' = found /\ round' = round
    BY <1>1 DEF PrMapStep, lrudisk_ack_vma, rankVars
  <2>2. fault'[w] = fault[w] /\ pc'[w] = pc[w]
    BY <1>0, <1>1, CallerAlone
  <2> QED  BY <1>k, <2>1, <2>2 DEF LocalsKept
<1>2. ASSUME NEW t \in Threads, PrThreadStep(t) PROVE ReadOK(w)'
  <2>1. CASE t = w
    BY <1>0, <1>2, <2>1, OwnReadOK
  <2>2. CASE t # w
    BY <1>0, <1>2, <1>k, <2>2, ThreadAlone
  <2> QED  BY <2>1, <2>2
<1>3. ASSUME NEW u \in Prefetchers, PrefetcherStep(u) PROVE ReadOK(w)'
  <2>1. CASE u = w
    BY <1>3, <2>1, PrefetcherReadOK
  <2>2. CASE u # w
    <3>1. found' = found /\ round'[w] = round[w]
      BY <1>0, <1>3, <2>2 DEF PrefetcherStep, PrefetchBegin, PrefetchReturn
    <3>2. fault'[w] = fault[w] /\ pc'[w] = pc[w]
      BY <1>0, <1>3, <2>2 DEF PrefetcherStep, PrefetchBegin, PrefetchReturn, CallPrefetch, vars
    <3> QED  BY <1>k, <3>1, <3>2 DEF LocalsKept
  <2> QED  BY <2>1, <2>2
<1>4. ASSUME NEW k \in Workers, PrWorkerStep(k) PROVE ReadOK(w)'
  <2>1. k # w /\ k \in Executors
    BY <1>0, ExecutorAssumption DEF Executors
  <2>2. PrEvictStep(k) \/ ReleaseVictim(k) \/ (fault' = fault /\ pc' = pc)
    BY <1>4 DEF PrWorkerStep, lrudisk_evictionworker, Abort
  <2>3. fault'[w] = fault[w] /\ pc'[w] = pc[w]
    BY <1>0, <2>1, <2>2, SearchAlone
  <2>4. found' = found /\ round' = round
    BY <1>4 DEF PrWorkerStep, rankVars
  <2> QED  BY <1>k, <2>3, <2>4 DEF LocalsKept
<1>5. ASSUME NEW e \in Scanners, direct_allocate_page_asynch(e) PROVE ReadOK(w)'
  <2>0. ScanInactive(e) \/ KeepWindow(e)
    BY <1>5 DEF direct_allocate_page_asynch
  <2>1. found' = found /\ round' = round
    BY <1>5 DEF direct_allocate_page_asynch, rankVars
  <2>2. CASE e # w
    <3>1. fault'[w] = fault[w] /\ pc'[w] = pc[w]
      BY <1>0, <2>0, <2>2, SearchAlone DEF Scanners, Executors
    <3> QED  BY <1>k, <2>1, <3>1 DEF LocalsKept
  <2>3. CASE e = w
    <3>1. /\ fault' = fault /\ pc[w] \notin {"idle", "publish", "find"}
          /\ pc'[w] \notin {"idle", "publish", "find"}
      BY <1>0, <2>0, <2>3, SearchKept
    <3>2. fault[w].job = "prefetch" /\ found[w] = 0
      BY <1>0, <3>1 DEF ReadOK
    <3>3. ReadAhead(w)' \subseteq ReadAhead(w)
      <4> SUFFICES ASSUME NEW p \in Pages, p \in ReadAhead(w)' PROVE p \in ReadAhead(w)
        BY DEF ReadAhead
      <4> QED  BY <1>0, <3>1, ReadAheadDef
    <3>4. Len(fault'[w].reading) \in 0 .. Len(fault[w].reading)
      BY <1>0, <3>1
    <3>5. ReadOn(w)
      BY <3>1, <3>2, <3>3, <3>4 DEF ReadOn
    <3> QED  BY <1>0, <2>1, <3>1, <3>2, <3>5, ReadLift
  <2> QED  BY <2>2, <2>3
<1>6. CASE PrUnmapStep
  <2>1. fault' = fault /\ pc' = pc
    <3>1. CASE UnmapFind \/ UnmapWait \/ UnmapRelock \/ lrudisk_remove_page
      BY <3>1, Zenon DEF UnmapFind, UnmapWait, UnmapRelock, lrudisk_remove_page, vars
    <3>2. CASE PrUnmapTake \/ UnmapReserve
      BY <3>2, Zenon DEF PrUnmapTake, UnmapTake, UnmapReserve, Abort
    <3>3. CASE UnmapFree
      BY <3>3, Zenon DEF UnmapFree, Abort
    <3>4. CASE PrUnmapRelease \/ libc_munmap
      BY <3>4, Zenon DEF PrUnmapRelease, libc_munmap, vars
    <3> QED  BY <1>6, <3>1, <3>2, <3>3, <3>4, Zenon DEF PrUnmapStep
  <2>2. found' = found /\ round' = round
    BY <1>6 DEF PrUnmapStep, rankVars
  <2> QED  BY <1>k, <2>1, <2>2 DEF LocalsKept
<1>7. CASE Aborted /\ UNCHANGED rankVars
  BY <1>k, <1>7 DEF Aborted, LocalsKept, vars, rankVars
<1> QED  BY <1>1, <1>2, <1>3, <1>4, <1>5, <1>6, <1>7 DEF PrNext

\* The page swapped in last is one that is mapped.
LEMMA RankNext ==
    ASSUME MapInv, FoundOK, RankOK, PrNext
    PROVE  RankOK'
<1>0. /\ UseInv /\ safe_to_free \in Nat /\ Block \in Nat
      /\ round \in [Prefetchers -> [block : Nat, head : Nat, nr : Nat]]
      /\ fault \in [Threads -> FaultLocals] /\ Prefetchers \subseteq Threads
  BY PageRankAssumption DEF MapInv, UseInv, TypeOK, RankOK
<1>1. safe_to_free' \in Nat
  <2>1. CASE safe_to_free' = safe_to_free
    BY <1>0, <2>1
  <2>2. ASSUME NEW t \in Threads, pc[t] = "missing", safe_to_free' = page[fault[t].page].va
        PROVE  safe_to_free' \in Nat
    <3>1. LocalUsed(t) /\ ThreadOK(t) /\ fault[t] \in FaultLocals
      BY <1>0 DEF UseInv, LocalsUsed, LocalsOK, LocalOK, TypeOK, Executors
    <3>2. Mapped(fault[t].page)
      BY <2>2, <3>1 DEF LocalUsed, ThreadOK, FaultLocals
    <3> QED  BY <2>2, <3>2, SizeAssumption DEF Mapped, VA
  <2>3. \/ safe_to_free' = safe_to_free
        \/ \E t \in Threads : /\ pc[t] = "missing"
                              /\ safe_to_free' = page[fault[t].page].va
    <3>1. ASSUME NEW t \in Threads, PrThreadStep(t)
          PROVE  \/ safe_to_free' = safe_to_free
                 \/ pc[t] = "missing" /\ safe_to_free' = page[fault[t].page].va
      BY <3>1 DEF PrThreadStep, rankVars, lrudisk_swapin_external_async, handle_missing_fault,
                  PrefetchLookup, PrefetchClaim, At
    <3> QED  BY <3>1 DEF PrNext, rankVars, PrMapStep, lrudisk_ack_vma, PrefetcherStep,
                PrefetchBegin, PrefetchReturn, PrWorkerStep, direct_allocate_page_asynch,
                PrUnmapStep
  <2> QED  BY <2>1, <2>2, <2>3
<1>2. round' \in [Prefetchers -> [block : Nat, head : Nat, nr : Nat]]
  <2>1. ASSUME NEW t \in Threads, PrefetchStop(t)
        PROVE  round' \in [Prefetchers -> [block : Nat, head : Nat, nr : Nat]]
    <3>1. Len(fault[t].reading) \in Nat
      BY <1>0 DEF FaultLocals
    <3>2. round' = round \/ round' = [round EXCEPT ![t].nr = Len(fault[t].reading)]
      BY <2>1 DEF PrefetchStop
    <3> QED  BY <1>0, <3>1, <3>2
  <2>2. ASSUME NEW w \in Prefetchers, PrefetcherStep(w)
        PROVE  round' \in [Prefetchers -> [block : Nat, head : Nat, nr : Nat]]
    <3>1. CASE PrefetchBegin(w)
      BY <1>0, <3>1 DEF PrefetchBegin
    <3>2. CASE PrefetchReturn(w)
      <4>1. round[w].head + round[w].nr \in Nat
        BY <1>0
      <4>2. PICK h \in Nat : round' = [round EXCEPT ![w].head = h, ![w].nr = 0]
        BY <3>2, <4>1 DEF PrefetchReturn
      <4>3. [round[w] EXCEPT !.head = h, !.nr = 0] \in [block : Nat, head : Nat, nr : Nat]
        BY <1>0
      <4> QED  BY <1>0, <4>2, <4>3
    <3> QED  BY <2>2, <3>1, <3>2 DEF PrefetcherStep
  <2>3. \/ round' = round
        \/ \E t \in Threads : PrefetchStop(t)
        \/ \E w \in Prefetchers : PrefetcherStep(w)
    <3>1. ASSUME NEW t \in Threads, PrThreadStep(t)
          PROVE  round' = round \/ PrefetchStop(t)
      BY <3>1 DEF PrThreadStep, rankVars, PrefetchLookup, PrefetchClaim
    <3> QED  BY <3>1 DEF PrNext, rankVars, PrMapStep, lrudisk_ack_vma, PrWorkerStep,
                direct_allocate_page_asynch, PrUnmapStep
  <2> QED  BY <1>0, <2>1, <2>2, <2>3
<1>3. \A w \in Prefetchers : ReadOK(w)'
  BY ReadKept
<1> QED  BY <1>1, <1>2, <1>3 DEF RankOK

LEMMA RankInit == PrInit => RankOK
<1> SUFFICES ASSUME PrInit PROVE RankOK
  OBVIOUS
<1>1. /\ safe_to_free = 0 /\ found = [t \in Threads |-> 0]
      /\ round \in [Prefetchers -> [block : 0 .. NVa, head : {0}, nr : {0}]]
  BY DEF PrInit
<1>2. safe_to_free \in Nat /\ round \in [Prefetchers -> [block : Nat, head : Nat, nr : Nat]]
  BY <1>1, SizeAssumption
<1>3. ASSUME NEW w \in Prefetchers PROVE ReadOK(w)
  <2>1. w \in Threads /\ pc[w] = "idle" /\ fault[w] = NoFault
    BY PageRankAssumption DEF PrInit, MapInit, Init, Executors
  <2>2. fault[w].reading = <<>>
    BY <2>1 DEF NoFault
  <2>3. Len(fault[w].reading) = 0 /\ DOMAIN fault[w].reading = {}
    BY <2>2
  <2>4. ReadAhead(w) = {}
    <3>1. \A p \in Pages : p \notin ReadAhead(w)
      BY <2>1, <2>3, ReadAheadDef
    <3>2. ReadAhead(w) \subseteq Pages
      BY DEF ReadAhead
    <3> QED  BY <3>1, <3>2
  <2>5. round[w].head = 0 /\ found[w] = 0
    BY <1>1, <2>1
  <2> QED  BY <2>1, <2>3, <2>4, <2>5, SizeAssumption DEF ReadOK
<1> QED  BY <1>2, <1>3 DEF RankOK

LEMMA RankStep == PrInv /\ RankOK /\ [PrNext]_prVars => RankOK'
<1> SUFFICES ASSUME PrInv, RankOK, [PrNext]_prVars PROVE RankOK'
  OBVIOUS
<1>1. CASE UNCHANGED prVars
  <2>1. /\ pc' = pc /\ fault' = fault /\ page' = page /\ evict' = evict
        /\ safe_to_free' = safe_to_free /\ found' = found /\ round' = round
    BY <1>1 DEF prVars, mapVars, vars, rankVars
  <2>2. ASSUME NEW w \in Prefetchers PROVE ReadOK(w)'
    <3>1. w \in Threads /\ ReadOK(w)
      BY PageRankAssumption DEF RankOK
    <3>2. ReadAhead(w)' = ReadAhead(w)
      BY <2>1, <3>1, RoleDefs, RoleDefsNext DEF ReadAhead
    <3> QED  BY <2>1, <3>1, <3>2 DEF ReadOK
  <2> QED  BY <2>1, <2>2 DEF RankOK
<1>2. CASE PrNext /\ failed = "none"
  <2>1. MapInv /\ FoundOK
    BY <1>2 DEF PrInv, MapSafe, Ended
  <2> QED  BY <1>2, <2>1, RankNext
<1> QED  BY <1>1, <1>2, PrStops

\* The block after the next, and the batch that ends beyond it, fit the window.
LEMMA BlockIsKept == RankOK => ReadAheadIsKept
<1> SUFFICES ASSUME RankOK, NEW w \in Prefetchers, round[w].head # 0,
                    round[w].block = safe_to_free + Block, NEW p \in ReadAhead(w)
             PROVE  InWindow(page[p].va)
  BY DEF ReadAheadIsKept
<1>1. /\ safe_to_free \in Nat /\ round[w].block \in Nat /\ round[w].head \in Nat
      /\ Block \in Nat \ {0} /\ Ahead \in Nat /\ PrefetchRate \in Nat
      /\ 2 * Block + PrefetchRate < Ahead
  BY PageRankAssumption, SizeAssumption DEF RankOK
<1>2. /\ page[p].va \in round[w].head + 1 .. round[w].head + PrefetchRate
      /\ round[w].block <= round[w].head /\ round[w].head <= round[w].block + Block
  BY DEF RankOK, ReadOK
<1>3. page[p].va > safe_to_free /\ page[p].va - safe_to_free < Ahead
  BY <1>1, <1>2
<1> QED  BY <1>3 DEF InWindow

\* What the prefetch worker reads ahead for the page swapped in last, scans keep:
\* the worker, the swap-ins that move the window, and munmap, which takes pages
\* away and gives their descriptors to other addresses, do not make the policy
\* evict what it has just read.
THEOREM ReadAheadIsKeptHolds == PrSpec => []ReadAheadIsKept
<1>1. PrInit => PrInv /\ RankOK
  BY PrInitInv, RankInit
<1>2. PrInv /\ RankOK /\ [PrNext]_prVars => (PrInv /\ RankOK)'
  BY PrInvStep, RankStep
<1>3. PrInv /\ RankOK => ReadAheadIsKept
  BY BlockIsKept
<1> QED  BY <1>1, <1>2, <1>3, PTL DEF PrSpec

-----------------------------------------------------------------------------
(* Who moves a page that others wait for.                                   *)

FreeLists == {"dram_free", "disk_free", "disk_reserve"}

\* A descriptor that a frame or a slot is taken from stands for no page, so that
\* a flag left on it makes nobody wait.
FreedInv ==
    /\ \A p \in Pages : page[p].list \in FreeLists => ~Mapped(p)
    /\ \A e \in Evictors : evict[e].dpage # 0 => ~Mapped(evict[e].dpage)
    /\ \A t \in Threads : pc[t] \notin {"map", "add"} =>
         \A p \in Pages : Among(p, fault[t].frees) => ~Mapped(p)
    /\ unmap.at \in {"free", "release"} => ~Mapped(unmap.page)
    /\ unmap.at \in {"idle", "page"} => unmap.page = 0

MovedInv == \A p \in Pages : Mapped(p) /\ page[p].migrating =>
              \/ \E e \in Executors : MovedBy(e, p)
              \/ unmap.page = p

\* A step of x that maps nothing, takes frames and slots from where they are, and
\* lets a page go only when it clears the page's flag.
StepMoves(x) ==
    /\ OnlyMoves(x)
    /\ \A p \in Pages :
         /\ Mapped(p)' => Mapped(p)
         /\ page'[p].list \in FreeLists => page[p].list \in FreeLists \/ ~Mapped(p)
         /\ Mapped(p)' /\ page'[p].migrating =>
              MovedBy(x, p)' \/ (Mapped(p) /\ page[p].migrating /\ ~MovedBy(x, p))
    /\ x \in Evictors => \/ evict'[x].dpage \in {0, evict[x].dpage}
                         \/ evict'[x].dpage \in Pages /\ ~Mapped(evict'[x].dpage)
    /\ x \in Threads /\ pc'[x] \notin {"map", "add"} =>
         \A p \in Pages : Among(p, fault'[x].frees) => ~Mapped(p)

\* What the others move they go on moving.
LEMMA MovedLift ==
    ASSUME MovedInv, NEW x \in Executors, OnlyMoves(x), unmap'.page = unmap.page,
           \A p \in Pages : Mapped(p)' /\ page'[p].migrating =>
             MovedBy(x, p)' \/ (Mapped(p) /\ page[p].migrating /\ ~MovedBy(x, p))
    PROVE  MovedInv'
<1> SUFFICES ASSUME NEW p \in Pages, Mapped(p)', page'[p].migrating, ~MovedBy(x, p)'
             PROVE  (\E e \in Executors : MovedBy(e, p)') \/ unmap'.page = p
  BY DEF MovedInv
<1>1. \A e \in Executors \ {x} : MovedBy(e, p)' <=> MovedBy(e, p)
  BY DEF MovedBy, OnlyMoves, Holds, Evictors, Executors
<1>2. \/ \E e \in Executors \ {x} : MovedBy(e, p)
      \/ unmap.page = p
  BY DEF MovedInv
<1> QED  BY <1>1, <1>2

LEMMA MovesLift ==
    ASSUME MapInv, FreedInv, MovedInv, NEW x \in Executors, StepMoves(x), unmap' = unmap
    PROVE  FreedInv' /\ MovedInv'
<1>0. TypeOK /\ evict \in [Evictors -> EvictLocals]
  BY DEF MapInv, UseInv, TypeOK
<1>1. MovedInv'
  BY MovedLift DEF StepMoves
<1>2. \A p \in Pages : page'[p].list \in FreeLists => ~Mapped(p)'
  BY DEF FreedInv, StepMoves
<1>3. ASSUME NEW e \in Evictors, evict'[e].dpage # 0 PROVE page'[evict'[e].dpage].va \notin VA
  <2>1. evict[e].dpage \in Pages \cup {0}
    BY <1>0 DEF EvictLocals
  <2>2. evict'[e].dpage \in Pages /\ ~Mapped(evict'[e].dpage)
    <3>1. CASE e = x
      BY <1>3, <2>1, <3>1 DEF StepMoves, FreedInv
    <3>2. CASE e # x
      <4>1. evict'[e] = evict[e]
        BY <3>2 DEF StepMoves, OnlyMoves, Evictors, Executors
      <4> QED  BY <1>3, <2>1, <4>1 DEF FreedInv
    <3> QED  BY <3>1, <3>2
  <2> QED  BY <2>2 DEF StepMoves, Mapped
<1>4. ASSUME NEW t \in Threads, pc'[t] \notin {"map", "add"}, NEW p \in Pages,
             Among(p, fault'[t].frees)
      PROVE  ~Mapped(p)'
  <2>1. ~Mapped(p)
    <3>1. CASE t = x
      BY <1>4, <3>1 DEF StepMoves
    <3>2. CASE t # x
      <4>1. fault'[t] = fault[t] /\ pc'[t] = pc[t]
        BY <3>2 DEF StepMoves, OnlyMoves, Executors
      <4> QED  BY <1>4, <4>1 DEF FreedInv
    <3> QED  BY <3>1, <3>2
  <2> QED  BY <2>1 DEF StepMoves
<1>5. unmap'.at \in {"free", "release"} => page'[unmap'.page].va \notin VA
  <2>1. unmap.at \in {"free", "release"} => unmap.page \in Pages
    BY UnmapFacts
  <2> QED  BY <2>1 DEF FreedInv, StepMoves, Mapped
<1>6. FreedInv'
  BY <1>2, <1>3, <1>4, <1>5 DEF FreedInv, Mapped
<1> QED  BY <1>1, <1>6

\* The locals of paging do not change, nor do the descriptors.
LEMMA StillMoves ==
    ASSUME MapInv, FreedInv, NEW x \in Executors, UNCHANGED <<page, pc, fault, scan, evict>>
    PROVE  StepMoves(x)
<1>1. \A p \in Pages : /\ Mapped(p)' <=> Mapped(p)
                       /\ MovedBy(x, p)' <=> MovedBy(x, p)
  BY DEF Mapped, MovedBy, Holds
<1>2. x \in Threads /\ pc[x] \notin {"map", "add"} =>
        \A p \in Pages : Among(p, fault[x].frees) => ~Mapped(p)
  BY DEF FreedInv
<1> QED  BY <1>1, <1>2 DEF StepMoves, OnlyMoves

\* An eviction moves its victim until it clears the victim's flag.
LEMMA EvictLetsGo ==
    ASSUME MapInv, FreedInv, NEW e \in Evictors,
           PrEvictStep(e) \/ (e \in Workers /\ ReleaseVictim(e))
    PROVE  StepMoves(e)
<1>0. /\ e \in Executors /\ page \in [Pages -> UserPage] /\ evict \in [Evictors -> EvictLocals]
      /\ pc \in [Executors -> PcLabels] /\ fifo \in [Queues -> Seq(Pages)]
      /\ EvictorOK(e) /\ QueuesMatch /\ evict[e] \in EvictLocals
  BY DEF MapInv, UseInv, TypeOK, LocalsOK, LocalOK, Evictors, Executors
<1>p. PICK p, d : p = evict[e].victim /\ d = evict[e].dpage
  OBVIOUS
<1>t. p \in Pages \cup {0} /\ d \in Pages \cup {0} /\ (p # 0 <=> pc[e] \in EvictPcs)
  BY <1>0, <1>p DEF EvictLocals, EvictorOK
\* Told by what becomes of the victim and of the slot's descriptor.
<1>q. ASSUME UNCHANGED <<fault, scan>>, pc[e] \notin SettlePcs \cup {"map", "add"},
             pc'[e] \notin SettlePcs \cup {"map"},
             \A u \in Executors \ {e} : pc'[u] = pc[u],
             \A u \in Evictors \ {e} : evict'[u] = evict[u],
             \A q \in Pages : /\ page'[q].va = page[q].va
                              /\ page'[q].migrating => page[q].migrating \/ evict'[e].victim = q
                              /\ page'[q].list \in FreeLists =>
                                   page[q].list \in FreeLists \/ ~Mapped(q),
             p = 0 \/ evict'[e].victim = p \/ ~page'[p].migrating,
             evict'[e].dpage \in {0, d} \/ (evict'[e].dpage \in Pages /\ ~Mapped(evict'[e].dpage))
      PROVE  StepMoves(e)
  <2>1. OnlyMoves(e)
    BY <1>q DEF OnlyMoves
  <2>2. ASSUME NEW q \in Pages, Mapped(q)', page'[q].migrating
        PROVE  MovedBy(e, q)' \/ (Mapped(q) /\ page[q].migrating /\ ~MovedBy(e, q))
    <3>1. q # 0 /\ Mapped(q)
      BY <1>q, <2>2 DEF Pages, Mapped
    <3>2. evict'[e].victim = q => MovedBy(e, q)'
      BY DEF MovedBy
    <3>3. MovedBy(e, q) => evict[e].victim = q \/ (e \in Threads /\ Holds(e, "read", q))
      BY <1>q DEF MovedBy, SettlePcs
    <3>4. e \in Threads /\ Holds(e, "read", q) => MovedBy(e, q)'
      BY <1>q DEF MovedBy, Holds
    <3> QED  BY <1>p, <1>q, <2>2, <3>1, <3>2, <3>3, <3>4
  <2>3. e \in Threads => \A q \in Pages : Among(q, fault'[e].frees) => ~Mapped(q)
    BY <1>q DEF FreedInv
  <2> QED  BY <1>p, <1>q, <2>1, <2>2, <2>3 DEF StepMoves, Mapped
<1>a. CASE UNCHANGED <<page, pc, fault, scan, evict>>
  BY <1>0, <1>a, StillMoves
<1>1. CASE TakeVictim(e)
  <2>1. PICK v : v = Head(fifo["eviction"])
    OBVIOUS
  <2>2. /\ page' = [page EXCEPT ![v].list = "none"] /\ evict' = [evict EXCEPT ![e].victim = v]
        /\ pc[e] \in {"idle", "reclaim"} /\ pc' = [pc EXCEPT ![e] = "protect"]
        /\ UNCHANGED <<fault, scan>>
    BY <1>1, <2>1 DEF TakeVictim, At
  <2>3. p = 0 /\ evict'[e].dpage = d
    BY <1>0, <1>p, <1>t, <2>2 DEF EvictPcs, EvictLocals
  <2>4. \A q \in Pages : /\ page'[q].va = page[q].va /\ page'[q].migrating = page[q].migrating
                         /\ page'[q].list \in FreeLists => page[q].list \in FreeLists
    BY <1>0, <2>2 DEF UserPage, FreeLists
  <2> QED  BY <1>0, <1>q, <2>2, <2>3, <2>4 DEF SettlePcs
<1>2. CASE ProtectVictim(e) \/ PrWriteBack(e) \/ UnmapVictim(e) \/ MarkSwappedOut(e)
  <2>1. CASE ~UNCHANGED <<page, pc, fault, scan, evict>>
    <3>1. /\ pc[e] \in EvictPcs /\ UNCHANGED <<fault, scan>>
          /\ \E l \in EvictPcs : pc' = [pc EXCEPT ![e] = l]
      BY <1>0, <1>2, <2>1 DEF ProtectVictim, PrWriteBack, UnmapVictim, MarkSwappedOut, Abort, At,
                              EvictPcs, sharedVars
    <3>2. p \in Pages
      BY <1>t, <3>1
    <3>3. \/ evict' = evict
          \/ \E o : evict' = [evict EXCEPT ![e].old_offset = o]
      BY <1>2 DEF ProtectVictim, PrWriteBack, UnmapVictim, MarkSwappedOut, Abort
    <3>4. /\ evict'[e].victim = p /\ evict'[e].dpage = d
          /\ \A u \in Evictors \ {e} : evict'[u] = evict[u]
      BY <1>0, <1>p, <3>3 DEF EvictLocals
    <3>5. \/ page' = [page EXCEPT ![p].migrating = TRUE]
          \/ \E o : page' = [page EXCEPT ![p].virtual_offset = o, ![p].in_dram = FALSE]
          \/ page' = [page EXCEPT ![p].swapped_out = TRUE]
      BY <1>2, <1>p, <2>1 DEF ProtectVictim, PrWriteBack, UnmapVictim, MarkSwappedOut, Abort,
                              Victim, sharedVars
    <3>6. \A q \in Pages : /\ page'[q].va = page[q].va /\ page'[q].list = page[q].list
                           /\ page'[q].migrating => page[q].migrating \/ q = p
      <4>1. \A q \in Pages \ {p} : page'[q] = page[q]
        BY <1>0, <3>2, <3>5
      <4>2. \/ page'[p] = [page[p] EXCEPT !.migrating = TRUE]
            \/ \E o : page'[p] = [page[p] EXCEPT !.virtual_offset = o, !.in_dram = FALSE]
            \/ page'[p] = [page[p] EXCEPT !.swapped_out = TRUE]
        BY <1>0, <3>2, <3>5
      <4>3. page'[p].va = page[p].va /\ page'[p].list = page[p].list
        BY <1>0, <3>2, <4>2 DEF UserPage
      <4> QED  BY <4>1, <4>3
    <3>7. pc[e] \notin SettlePcs \cup {"map", "add"} /\ pc'[e] \notin SettlePcs \cup {"map"}
          /\ \A u \in Executors \ {e} : pc'[u] = pc[u]
      BY <1>0, <3>1 DEF EvictPcs, SettlePcs
    <3> QED  BY <1>q, <3>1, <3>4, <3>6, <3>7
  <2> QED  BY <1>a, <2>1
<1>3. CASE BackByReserve(e) \/ BackByFreeSlot(e)
  <2>1. CASE ~UNCHANGED <<page, pc, fault, scan, evict>>
    <3>p. PICK r : r = IF BackByReserve(e) THEN page[p].reserve ELSE Head(fifo["disk_free"])
      OBVIOUS
    <3>1. /\ page' = [page EXCEPT ![r].list = "none"]
          /\ r \in Pages /\ page[r].list \in {"disk_reserve", "disk_free"}
          /\ \E b, w : evict' = [evict EXCEPT ![e].dpage = r, ![e].backed = b,
                                               ![e].writeback = w]
          /\ pc[e] = "back" /\ pc' = [pc EXCEPT ![e] = "write"]
          /\ UNCHANGED <<fault, scan>>
      <4>1. CASE BackByReserve(e)
        <5>0. r = page[p].reserve
          BY <3>p, <4>1
        <5>1. pc[e] = "back" /\ page[p].reserve # 0
          BY <1>p, <4>1 DEF BackByReserve, At, Victim
        <5>2. p \in Pages
          BY <1>t, <5>1 DEF EvictPcs
        <5>3. r \in Pages
          BY <1>0, <5>0, <5>1, <5>2 DEF UserPage
        <5>4. ~\E label : Abort(label)
          BY <2>1 DEF Abort, sharedVars
        <5>5. /\ page[r].list = "disk_reserve"
              /\ page' = [page EXCEPT ![r].list = "none"]
              /\ evict' = [evict EXCEPT ![e].dpage = r, ![e].backed = TRUE,
                                        ![e].writeback = NeedsWriteback(p)]
              /\ pc' = [pc EXCEPT ![e] = "write"] /\ UNCHANGED <<fault, scan>>
          BY <1>p, <4>1, <5>0, <5>4 DEF BackByReserve, Victim
        <5> QED  BY <5>1, <5>3, <5>5
      <4>2. CASE BackByFreeSlot(e) /\ ~BackByReserve(e)
        <5>0. r = Head(fifo["disk_free"])
          BY <3>p, <4>2
        <5>1. fifo["disk_free"] # <<>> /\ fifo["disk_free"] \in Seq(Pages)
          BY <1>0, <2>1, <4>2 DEF BackByFreeSlot, Abort, Queues, sharedVars
        <5>2. r \in Pages /\ 1 \in DOMAIN fifo["disk_free"] /\ fifo["disk_free"][1] = r
          BY <5>0, <5>1, HeadTail
        <5>3. page[r].list = "disk_free"
          BY <1>0, <5>2 DEF QueuesMatch, Queues
        <5>4. /\ page' = [page EXCEPT ![r].list = "none"]
              /\ evict' = [evict EXCEPT ![e].dpage = r, ![e].backed = FALSE,
                                        ![e].writeback = NeedsWriteback(Victim(e))]
              /\ pc[e] = "back" /\ pc' = [pc EXCEPT ![e] = "write"] /\ UNCHANGED <<fault, scan>>
          BY <4>2, <5>0, <5>1 DEF BackByFreeSlot, At
        <5> QED  BY <5>2, <5>3, <5>4
      <4> QED  BY <1>3, <4>1, <4>2
    <3>2. ~Mapped(r)
      BY <3>1 DEF FreedInv, FreeLists
    <3>3. /\ evict'[e].victim = p /\ evict'[e].dpage = r
          /\ \A u \in Evictors \ {e} : evict'[u] = evict[u]
      BY <1>0, <1>p, <3>1 DEF EvictLocals
    <3>4. \A q \in Pages : /\ page'[q].va = page[q].va /\ page'[q].migrating = page[q].migrating
                           /\ page'[q].list \in FreeLists => page[q].list \in FreeLists
      BY <1>0, <3>1 DEF UserPage, FreeLists
    <3> QED  BY <1>0, <1>q, <3>1, <3>2, <3>3, <3>4 DEF SettlePcs
  <2> QED  BY <1>a, <2>1
<1>4. CASE FreeFrame(e) \/ TrackVictim(e)
  <2>1. /\ pc[e] \in {"free_frame", "track"} /\ UNCHANGED <<fault, scan>>
        /\ \E l \in EvictPcs : pc' = [pc EXCEPT ![e] = l]
        /\ evict' = evict \/ evict' = [evict EXCEPT ![e].dpage = 0]
    BY <1>4 DEF FreeFrame, TrackVictim, At, EvictPcs
  <2>2. p \in Pages
    BY <1>t, <2>1 DEF EvictPcs
  <2>3. /\ evict'[e].victim = p /\ evict'[e].dpage \in {0, d}
        /\ \A u \in Evictors \ {e} : evict'[u] = evict[u]
    BY <1>0, <1>p, <2>1 DEF EvictLocals
  <2>4. PICK o : o = evict[e].old_offset
    OBVIOUS
  <2>5. \/ /\ d \in Pages
           /\ \E r : page' = [page EXCEPT ![p].reserve = r,
                                          ![d] = [AsFrame(page[d], o) EXCEPT !.list = "dram_free"]]
        \/ page' = [page EXCEPT ![p].list = "disk_active"]
        \/ /\ d \in Pages
           /\ page' = [page EXCEPT ![p].list = "disk_active", ![p].reserve = 0,
                                   ![d] = AsFrame(page[d], o)]
    <3>1. pc[e] = "free_frame" \/ (pc[e] = "track" /\ e \in Threads) => d \in Pages
      BY <1>0, <1>p, <1>t DEF EvictorOK
    <3>2. CASE FreeFrame(e)
      BY <1>p, <2>4, <3>1, <3>2 DEF FreeFrame, At, Victim, DiskPage
    <3>3. CASE TrackVictim(e)
      <4>1. e \in Threads \/ e \in Workers
        BY DEF Evictors
      <4> QED  BY <1>p, <2>4, <3>1, <3>3, <4>1 DEF TrackVictim, At, Victim, DiskPage
    <3> QED  BY <1>4, <3>2, <3>3
  <2>6. d \in Pages => ~Mapped(d)
    BY <1>p DEF FreedInv, Pages
  <2>7. \A q \in Pages : /\ page'[q].va = page[q].va /\ page'[q].migrating = page[q].migrating
                         /\ page'[q].list \in FreeLists => page[q].list \in FreeLists \/ q = d
    <3>1. \A q \in Pages \ {p, d} : page'[q] = page[q]
      BY <1>0, <2>2, <2>5
    <3>2. d \in Pages => page'[d].va = page[d].va /\ page'[d].migrating = page[d].migrating
      <4>1. CASE page' = [page EXCEPT ![p].list = "disk_active"]
        BY <1>0, <4>1 DEF UserPage
      <4>2. ASSUME d \in Pages, ~(page' = [page EXCEPT ![p].list = "disk_active"])
            PROVE  \/ page'[d] = [AsFrame(page[d], o) EXCEPT !.list = "dram_free"]
                   \/ page'[d] = AsFrame(page[d], o)
        BY <1>0, <2>5, <4>2
      <4> QED  BY <1>0, <4>1, <4>2 DEF UserPage, AsFrame
    <3>3. p # d => /\ page'[p].va = page[p].va /\ page'[p].migrating = page[p].migrating
                   /\ page'[p].list \in {page[p].list, "disk_active"}
      <4>1. p # d => \/ page'[p] = [page[p] EXCEPT !.list = "disk_active"]
                     \/ \E r : page'[p] = [page[p] EXCEPT !.reserve = r]
                     \/ page'[p] = [page[p] EXCEPT !.list = "disk_active", !.reserve = 0]
        BY <1>0, <2>2, <2>5
      <4> QED  BY <1>0, <2>2, <4>1 DEF UserPage
    <3> QED  BY <3>1, <3>2, <3>3 DEF FreeLists
  <2>8. pc[e] \notin SettlePcs \cup {"map", "add"} /\ pc'[e] \notin SettlePcs \cup {"map"}
        /\ \A u \in Executors \ {e} : pc'[u] = pc[u]
    BY <1>0, <2>1 DEF EvictPcs, SettlePcs
  <2> QED  BY <1>q, <2>1, <2>3, <2>6, <2>7, <2>8
<1>5. CASE e \in Workers /\ ReleaseVictim(e)
  <2>1. CASE ~UNCHANGED <<page, pc, fault, scan, evict>>
    <3>1. /\ page' = [page EXCEPT ![p].migrating = FALSE] /\ evict' = [evict EXCEPT ![e] = NoEvict]
          /\ pc[e] = "release" /\ pc' = [pc EXCEPT ![e] = "idle"] /\ UNCHANGED <<fault, scan>>
      BY <1>5, <1>p, <2>1 DEF ReleaseVictim, Abort, At, Victim, sharedVars
    <3>2. p \in Pages
      BY <1>t, <3>1 DEF EvictPcs
    <3>3. evict'[e].dpage = 0 /\ \A u \in Evictors \ {e} : evict'[u] = evict[u]
      BY <1>0, <3>1 DEF NoEvict
    <3>4. /\ ~page'[p].migrating
          /\ \A q \in Pages : /\ page'[q].va = page[q].va /\ page'[q].list = page[q].list
                              /\ page'[q].migrating => page[q].migrating
      BY <1>0, <3>1, <3>2 DEF UserPage
    <3> QED  BY <1>0, <1>q, <3>1, <3>3, <3>4 DEF SettlePcs
  <2> QED  BY <1>a, <2>1
<1> QED  BY <1>1, <1>2, <1>3, <1>4, <1>5 DEF PrEvictStep

\* What a fault moves, by where its thread is.
Carries(t, q) ==
    \/ Among(q, fault[t].reading)
    \/ pc[t] \in SettlePcs /\ fault[t].page = q
    \/ pc[t] = "map" /\ Among(q, fault[t].frees)

\* A thread moves its victim and what its fault moves.
LEMMA CarriesMoves ==
    ASSUME NEW t \in Threads, NEW q
    PROVE  /\ MovedBy(t, q) <=> evict[t].victim = q \/ Carries(t, q)
           /\ MovedBy(t, q)' <=> evict'[t].victim = q \/ Carries(t, q)'
  BY DEF MovedBy, Holds, Carries, Among, SettlePcs, Evictors

\* A step of a fault outside an eviction, told by what becomes of each descriptor.
LEMMA CarriesLift ==
    ASSUME FreedInv, NEW t \in Threads, OnlyMoves(t), UNCHANGED evict,
           \A q \in Pages :
             /\ page'[q].va = page[q].va
             /\ page'[q].list \in FreeLists => page[q].list \in FreeLists \/ ~Mapped(q)
             /\ Mapped(q) /\ page'[q].migrating =>
                  Carries(t, q)' \/ (page[q].migrating /\ ~Carries(t, q)),
           pc'[t] \notin {"map", "add"} =>
             \A q \in Pages : Among(q, fault'[t].frees) => ~Mapped(q)
    PROVE  StepMoves(t)
<1>1. ASSUME NEW q \in Pages, Mapped(q)', page'[q].migrating
      PROVE  MovedBy(t, q)' \/ (Mapped(q) /\ page[q].migrating /\ ~MovedBy(t, q))
  <2>1. Mapped(q)
    BY <1>1 DEF Mapped
  <2> QED  BY <1>1, <2>1, CarriesMoves
<1>2. \A q \in Pages : Mapped(q)' => Mapped(q)
  BY DEF Mapped
<1> QED  BY <1>1, <1>2 DEF StepMoves

\* A fault lets a page go only when it clears the page's flag, and the frames it
\* takes stand for no page.
LEMMA FaultMoves ==
    ASSUME MapInv, FreedInv, NEW t \in Threads, failed' = "none",
           \/ uswap_sig_handler(t) \/ Spin(t) \/ handle_missing_fault(t) \/ DiskRead(t)
           \/ FetchFree(t) \/ FetchReclaim(t) \/ FetchRetry(t)
           \/ PutBack(t) \/ FirstMap(t) \/ FirstAdd(t)
           \/ FinishRead(t) \/ PublishPage(t) \/ PrefetchResident(t) \/ Settle(t)
    PROVE  StepMoves(t)
<1>0. /\ t \in Evictors /\ t \in Executors /\ ThreadOK(t) /\ fault[t] \in FaultLocals
      /\ fault[t].page \in Pages \cup {0} /\ page \in [Pages -> UserPage]
      /\ fault[t].reading \in Seq(Pages) /\ fault[t].frees \in Seq(Pages) /\ TypeOK
      /\ QueuesMatch /\ fault \in [Threads -> FaultLocals] /\ pc \in [Executors -> PcLabels]
  BY MapOwns, ThreadFacts DEF TypeOK
<1>o. OnlyMoves(t)
  BY FaultStartInv, FetchInv, FirstInv, SwapInInv DEF MapInv, StepOK
<1>e. UNCHANGED evict
  BY DEF uswap_sig_handler, Spin, handle_missing_fault, DiskRead, FetchFree, FetchReclaim,
         FetchRetry, PutBack, FirstMap, FirstAdd, FinishRead, PublishPage, PrefetchResident,
         Settle, Abort
\* The frames it has stand for no page.
<1>f. pc[t] \notin {"map", "add"} => \A q \in Pages : Among(q, fault[t].frees) => ~Mapped(q)
  BY DEF FreedInv
<1>1. CASE uswap_sig_handler(t) \/ Spin(t) \/ FetchReclaim(t) \/ FetchRetry(t)
  <2>1. /\ page' = page /\ pc[t] \notin SettlePcs \cup {"map", "add"}
        /\ fault'[t].reading = fault[t].reading /\ fault'[t].frees = fault[t].frees
    BY <1>0, <1>1 DEF uswap_sig_handler, Spin, FetchReclaim, FetchRetry, At, Resume, sharedVars,
         FaultLocals, ThreadOK, SettlePcs, NoFault
  <2> QED  BY <1>o, <1>e, <1>f, <2>1, CarriesLift DEF Carries
<1>2. CASE DiskRead(t)
  <2>1. /\ page' = page /\ UNCHANGED pc
        /\ fault'[t].reading = fault[t].reading /\ fault'[t].page = fault[t].page
        /\ fault'[t].frees = fault[t].frees
    BY <1>0, <1>2 DEF DiskRead, sharedVars, FaultLocals
  <2> QED  BY <1>o, <1>e, <1>f, <2>1, CarriesLift DEF Carries
<1>3. CASE handle_missing_fault(t)
  <2>p. PICK p : p = fault[t].page
    OBVIOUS
  <2>1. pc[t] = "missing" /\ fault[t].reading = <<>> /\ fault[t].frees = <<>>
    BY <1>0, <1>3 DEF handle_missing_fault, At, ThreadOK
  <2>2. \A q : ~Carries(t, q)
    BY <2>1 DEF Carries, Among, SettlePcs
  <2>3. CASE ~Claimable(p)
    <3>1. UNCHANGED <<page, fault>>
      BY <1>3, <2>p, <2>3 DEF handle_missing_fault, sharedVars
    <3> QED  BY <1>o, <1>e, <1>f, <2>1, <2>2, <3>1, CarriesLift DEF Carries, Among
  <2>4. CASE Claimable(p)
    <3>1. /\ page' = [page EXCEPT ![p].migrating = TRUE, ![p].list = "none"]
          /\ fault' = [fault EXCEPT ![t].job = "swapin", ![t].reading = <<p>>]
          /\ pc' = [pc EXCEPT ![t] = "fetch"]
      BY <1>3, <2>p, <2>4 DEF handle_missing_fault, Abort, ClaimPage
    <3>2. fault'[t].reading = <<p>> /\ fault'[t].frees = fault[t].frees
      BY <1>0, <3>1 DEF FaultLocals
    <3>3. Carries(t, p)'
      BY <3>2 DEF Carries, Among
    <3>4. \A q \in Pages : /\ page'[q].va = page[q].va
                           /\ page'[q].list \in FreeLists => page[q].list \in FreeLists
                           /\ page'[q].migrating => page[q].migrating \/ q = p
      BY <1>0, <3>1 DEF UserPage, FreeLists
    <3> QED  BY <1>o, <1>e, <1>f, <2>1, <2>2, <3>2, <3>3, <3>4, CarriesLift
  <2> QED  BY <2>3, <2>4
<1>4. CASE FetchFree(t)
  <2>d. PICK d : d = Head(fifo["dram_free"])
    OBVIOUS
  <2>1. /\ page' = [page EXCEPT ![d] = [FramePage(t, page[d]) EXCEPT !.list = "none"]]
        /\ fault'[t].reading = fault[t].reading /\ pc[t] = "fetch"
        /\ fault'[t].frees = Append(fault[t].frees, d)
        /\ fifo["dram_free"] # <<>> /\ fifo["dram_free"] \in Seq(Pages)
    BY <1>0, <1>4, <2>d DEF FetchFree, At, ReceiveFrame, TypeOK, FaultLocals, Queues
  <2>2. d \in Pages /\ page[d].list = "dram_free"
    <3>1. d \in Pages /\ 1 \in DOMAIN fifo["dram_free"] /\ fifo["dram_free"][1] = d
      BY <2>1, <2>d, HeadTail
    <3> QED  BY <3>1, <1>0 DEF QueuesMatch, Queues
  <2>3. ~Mapped(d)
    BY <2>2 DEF FreedInv, FreeLists
  <2>4. /\ \A q \in Pages \ {d} : page'[q] = page[q]
        /\ page'[d].va = page[d].va /\ page'[d].list = "none"
    BY <1>0, <2>1, <2>2 DEF FramePage, UserPage
  <2>5. \A q \in Pages : Among(q, fault'[t].frees) => ~Mapped(q)
    BY <1>0, <1>f, <2>1, <2>2, <2>3, AppendMember
  <2>6. \A q : Carries(t, q) => Carries(t, q)'
    BY <2>1 DEF Carries, SettlePcs
  <2>7. \A q \in Pages :
          /\ page'[q].va = page[q].va
          /\ page'[q].list \in FreeLists => page[q].list \in FreeLists
          /\ Mapped(q) /\ page'[q].migrating => page[q].migrating
    BY <2>3, <2>4 DEF FreeLists
  <2> QED  BY <1>o, <1>e, <2>5, <2>6, <2>7, CarriesLift
<1>5. CASE PutBack(t) \/ FirstMap(t) \/ FirstAdd(t)
  <2>n. PICK n : n = fault[t].frees[1]
    OBVIOUS
  <2>1. /\ pc[t] \in FirstPcs /\ fault[t].reading = <<>> /\ Len(fault[t].frees) = 1
        /\ n \in Pages
    <3>1. pc[t] \in FirstPcs
      BY <1>5 DEF PutBack, FirstMap, FirstAdd, At, FirstPcs
    <3>2. fault[t].reading = <<>> /\ Len(fault[t].frees) = 1
      BY <1>0, <3>1 DEF ThreadOK
    <3>3. fault[t].frees[1] \in Pages
      BY <1>0, <3>2
    <3> QED  BY <2>n, <3>1, <3>2, <3>3
  <2>2. \A q : Carries(t, q) <=> pc[t] = "map" /\ q = n
    BY <1>0, <2>1, <2>n DEF Carries, Among, FirstPcs, SettlePcs
  <2>3. \A q \in Pages \ {n} : page'[q] = page[q]
    BY <1>0, <1>5, <2>n DEF PutBack, FirstMap, FirstAdd, NewPage, Abort, sharedVars
  <2>4. /\ page'[n].va = page[n].va
        /\ page'[n].list \in FreeLists => page[n].list \in FreeLists \/ ~Mapped(n)
        /\ page'[n].migrating => page[n].migrating /\ pc[t] # "map"
        /\ pc'[t] \notin {"map", "add"} => fault'[t].frees = <<>>
    <3>1. CASE PutBack(t)
      <4>1. /\ pc[t] = "put_back" /\ page' = [page EXCEPT ![n].list = "dram_free"]
            /\ page[n].va = 0 /\ fault' = [fault EXCEPT ![t].frees = <<>>]
        BY <2>n, <3>1 DEF PutBack, At, Abort, NewPage
      <4> QED  BY <1>0, <2>1, <4>1, SizeAssumption DEF UserPage, Mapped, VA, FaultLocals
    <3>2. CASE FirstMap(t)
      <4>1. /\ page' = [page EXCEPT ![n].migrating = FALSE, ![n].swapped_out = FALSE]
            /\ pc' = [pc EXCEPT ![t] = "add"]
        BY <2>n, <3>2 DEF FirstMap, Abort, At, NewPage
      <4> QED  BY <1>0, <2>1, <4>1 DEF UserPage
    <3>3. CASE FirstAdd(t)
      <4>1. /\ pc[t] = "add" /\ page' = [page EXCEPT ![n].list = "inactive"]
            /\ fault' = [fault EXCEPT ![t] = NoFault]
        BY <2>n, <3>3 DEF FirstAdd, At, Abort, NewPage, Resume
      <4> QED  BY <1>0, <2>1, <4>1 DEF UserPage, NoFault, FreeLists
    <3> QED  BY <1>5, <3>1, <3>2, <3>3
  <2>5. pc'[t] \notin {"map", "add"} => \A q \in Pages : ~Among(q, fault'[t].frees)
    BY <2>4 DEF Among
  <2> QED  BY <1>o, <1>e, <2>1, <2>2, <2>3, <2>4, <2>5, CarriesLift
<1>6. CASE FinishRead(t)
  <2>p. PICK p, d : p = Head(fault[t].reading) /\ d = Head(fault[t].frees)
    OBVIOUS
  <2>1. /\ pc[t] = "finish" /\ pc'[t] = "publish"
        /\ page' = [page EXCEPT
                     ![p].virtual_offset = page[d].virtual_offset,
                     ![p].in_dram = @ \/ fault[t].job = "swapin",
                     ![p].reserve = d,
                     ![d] = AsReserve(page[d], p, page[p].virtual_offset)]
        /\ fault'[t].page = p /\ fault'[t].reading = Tail(fault[t].reading)
        /\ fault'[t].frees = Tail(fault[t].frees)
    <3>1. /\ fault' = [fault EXCEPT ![t].page = p, ![t].reading = Tail(@),
                                     ![t].buf = Tail(@), ![t].frees = Tail(@)]
          /\ pc' = [pc EXCEPT ![t] = "publish"]
      BY <1>6, <2>p DEF FinishRead, Abort
    <3>2. /\ fault'[t].page = p /\ fault'[t].reading = Tail(fault[t].reading)
          /\ fault'[t].frees = Tail(fault[t].frees) /\ pc'[t] = "publish"
      BY <1>0, <3>1 DEF FaultLocals
    <3> QED  BY <1>6, <2>p, <3>2 DEF FinishRead, At, Abort
  <2>2. fault[t].reading # <<>> /\ fault[t].frees # <<>> /\ p \in Pages /\ d \in Pages
    <3>1. fault[t].reading # <<>> /\ Len(fault[t].frees) = Len(fault[t].reading)
      BY <1>0, <2>1 DEF ThreadOK
    <3>2. fault[t].frees # <<>>
      BY <1>0, <3>1
    <3> QED  BY <1>0, <2>p, <3>1, <3>2, HeadTail
  <2>3. ~Mapped(d)
    <3>1. 1 \in DOMAIN fault[t].frees /\ d = fault[t].frees[1]
      BY <1>0, <2>p, <2>2, HeadTail
    <3> QED  BY <1>f, <2>1, <2>2, <3>1 DEF Among
  <2>d. p # d
    <3>1. LocalUsed(t) /\ 1 \in DOMAIN fault[t].reading /\ p = fault[t].reading[1]
      BY <1>0, <2>p, <2>2, HeadTail DEF MapInv, UseInv, LocalsUsed
    <3>2. Mapped(p)
      BY <3>1 DEF LocalUsed
    <3> QED  BY <2>3, <3>2
  <2>4. /\ \A q \in Pages \ {p, d} : page'[q] = page[q]
        /\ page'[p].va = page[p].va /\ page'[p].list = page[p].list
        /\ page'[d].va = page[d].va
    <3>1. page'[d] = AsReserve(page[d], p, page[p].virtual_offset)
      BY <1>0, <2>1, <2>2, <2>d
    <3>2. /\ \A q \in Pages \ {p, d} : page'[q] = page[q]
          /\ page'[p].va = page[p].va /\ page'[p].list = page[p].list
      BY <1>0, <2>1, <2>2, <2>d DEF UserPage
    <3> QED  BY <1>0, <2>2, <3>1, <3>2 DEF AsReserve, UserPage
  <2>5. Carries(t, p)'
    BY <2>1 DEF Carries, SettlePcs
  <2>6. \A q \in Pages \ {p} : Carries(t, q) => Carries(t, q)'
    <3> SUFFICES ASSUME NEW q \in Pages \ {p}, Carries(t, q) PROVE Carries(t, q)'
      OBVIOUS
    <3>1. PICK i \in DOMAIN fault[t].reading : q = fault[t].reading[i]
      BY <2>1 DEF Carries, Among, SettlePcs
    <3>2. i - 1 \in DOMAIN Tail(fault[t].reading) /\ Tail(fault[t].reading)[i - 1] = q
      BY <1>0, <2>p, <2>2, <3>1, HeadTail
    <3> QED  BY <2>1, <3>2 DEF Carries, Among
  <2>7. \A q \in Pages : Among(q, fault'[t].frees) => ~Mapped(q)
    <3> SUFFICES ASSUME NEW q \in Pages, Among(q, fault'[t].frees) PROVE ~Mapped(q)
      OBVIOUS
    <3>1. PICK i \in DOMAIN Tail(fault[t].frees) : q = Tail(fault[t].frees)[i]
      BY <2>1 DEF Among
    <3>2. i + 1 \in DOMAIN fault[t].frees /\ fault[t].frees[i + 1] = q
      BY <1>0, <2>2, <3>1, HeadTail
    <3> QED  BY <1>f, <2>1, <3>2 DEF Among
  <2>8. \A q \in Pages :
          /\ page'[q].va = page[q].va
          /\ page'[q].list \in FreeLists => page[q].list \in FreeLists \/ ~Mapped(q)
          /\ Mapped(q) /\ page'[q].migrating /\ q # p => page[q].migrating
    BY <2>3, <2>4
  <2> QED  BY <1>o, <1>e, <2>5, <2>6, <2>7, <2>8, CarriesLift
<1>7. CASE PublishPage(t) \/ PrefetchResident(t)
  <2>p. PICK p : p = fault[t].page
    OBVIOUS
  <2>1. /\ pc[t] \in SettlePcs /\ pc'[t] \in SettlePcs /\ UNCHANGED fault
        /\ \/ page' = [page EXCEPT ![p].list = "inactive"]
           \/ page' = [page EXCEPT ![p].in_dram = TRUE]
    BY <1>0, <1>7, <2>p DEF PublishPage, PrefetchResident, At, SettlePcs
  <2>2. \A q \in Pages : /\ page'[q].va = page[q].va /\ page'[q].migrating = page[q].migrating
                         /\ page'[q].list \in FreeLists => page[q].list \in FreeLists
    BY <1>0, <2>1 DEF UserPage, FreeLists
  <2>3. \A q : Carries(t, q) => Carries(t, q)'
    BY <2>1 DEF Carries, SettlePcs
  <2>4. pc[t] \notin {"map", "add"}
    BY <2>1 DEF SettlePcs
  <2> QED  BY <1>o, <1>e, <1>f, <2>1, <2>2, <2>3, <2>4, CarriesLift
<1>8. CASE Settle(t)
  <2>p. PICK p : p = fault[t].page
    OBVIOUS
  <2>1. /\ pc[t] = "settle"
        /\ page' = [page EXCEPT ![p].swapped_out = FALSE, ![p].migrating = FALSE]
        /\ fault'[t].reading = fault[t].reading
        /\ fault'[t].frees = fault[t].frees \/ fault'[t].frees = <<>>
    BY <1>0, <1>8, <2>p DEF Settle, At, Resume, NoFault, FaultLocals
  <2>2. p \in Pages
    BY <1>0, <2>1, <2>p DEF ThreadOK, SettlePcs
  <2>3. /\ ~page'[p].migrating
        /\ \A q \in Pages : /\ page'[q].va = page[q].va /\ page'[q].list = page[q].list
                            /\ page'[q].migrating => page[q].migrating
    BY <1>0, <2>1, <2>2 DEF UserPage
  <2>4. \A q \in Pages \ {p} : Carries(t, q) => Carries(t, q)'
    BY <2>1, <2>p DEF Carries
  <2>5. \A q \in Pages : Among(q, fault'[t].frees) => ~Mapped(q)
    BY <1>f, <2>1 DEF Among
  <2> QED  BY <1>o, <1>e, <2>3, <2>4, <2>5, CarriesLift
<1> QED  BY <1>1, <1>2, <1>3, <1>4, <1>5, <1>6, <1>7, <1>8

\* A thread that ends its own eviction lets its victim go with the flag cleared.
LEMMA EvictedMoves ==
    ASSUME MapInv, FreedInv, NEW t \in Threads, failed' = "none", FetchEvicted(t)
    PROVE  StepMoves(t)
<1>0. /\ t \in Evictors /\ t \in Executors /\ fault[t] \in FaultLocals /\ EvictorOK(t)
      /\ page \in [Pages -> UserPage] /\ fault[t].frees \in Seq(Pages)
      /\ fault \in [Threads -> FaultLocals] /\ evict \in [Evictors -> EvictLocals]
  BY MapOwns, ThreadFacts DEF TypeOK
<1>o. OnlyMoves(t)
  BY FetchInv DEF MapInv, StepOK
<1>p. PICK p, d : p = evict[t].victim /\ d = evict[t].dpage
  OBVIOUS
<1>1. /\ page' = [page EXCEPT ![p].migrating = FALSE, ![d] = FramePage(t, page[d])]
      /\ fault'[t].reading = fault[t].reading /\ pc[t] = "release"
      /\ fault'[t].frees = Append(fault[t].frees, d)
      /\ evict'[t] = NoEvict
  BY <1>0, <1>p DEF FetchEvicted, At, Abort, ReceiveFrame, FaultLocals, Victim, DiskPage
<1>2. p \in Pages /\ d \in Pages /\ ~Mapped(d)
  <2>1. evict[t] \in EvictLocals /\ evict[t].victim # 0 /\ evict[t].dpage # 0
    BY <1>0, <1>1 DEF EvictorOK, EvictPcs
  <2> QED  BY <1>0, <1>p, <2>1 DEF EvictLocals, FreedInv
<1>3. /\ \A q \in Pages \ {p, d} : page'[q] = page[q]
      /\ p # d => page'[p] = [page[p] EXCEPT !.migrating = FALSE]
      /\ page'[d].va = page[d].va /\ page'[d].list = page[d].list
  BY <1>0, <1>1, <1>2 DEF FramePage, UserPage
<1>4. \A q \in Pages : /\ page'[q].va = page[q].va /\ page'[q].list = page[q].list
                       /\ Mapped(q) /\ page'[q].migrating => page[q].migrating /\ q # p
  BY <1>0, <1>2, <1>3 DEF UserPage
<1>5. ASSUME NEW q \in Pages, Mapped(q)', page'[q].migrating
      PROVE  MovedBy(t, q)' \/ (Mapped(q) /\ page[q].migrating /\ ~MovedBy(t, q))
  <2>1. Mapped(q)
    BY <1>4, <1>5 DEF Mapped
  <2>2. Carries(t, q) => Carries(t, q)'
    BY <1>1 DEF Carries, SettlePcs
  <2> QED  BY <1>p, <1>4, <1>5, <2>1, <2>2, CarriesMoves
<1>6. \A q \in Pages : Among(q, fault'[t].frees) => ~Mapped(q)
  <2>1. \A q \in Pages : Among(q, fault[t].frees) => ~Mapped(q)
    BY <1>1 DEF FreedInv
  <2> QED  BY <1>0, <1>1, <1>2, <2>1, AppendMember
<1>7. evict'[t].dpage = 0
  BY <1>1 DEF NoEvict
<1>8. \A q \in Pages : Mapped(q)' => Mapped(q)
  BY <1>4 DEF Mapped
<1> QED  BY <1>o, <1>4, <1>5, <1>6, <1>7, <1>8 DEF StepMoves

\* The one step that maps a descriptor: nobody else has it in his hands, it is on
\* no list, and its thread moves it from now on.
LEMMA AllocateMoves ==
    ASSUME MapInv, FreedInv, MovedInv, NEW t \in Threads, failed' = "none",
           unmap.at = "idle", unmap' = unmap, FirstAllocate(t)
    PROVE  FreedInv' /\ MovedInv'
<1>0. /\ t \in Executors /\ ThreadOK(t) /\ fault[t] \in FaultLocals
      /\ page \in [Pages -> UserPage] /\ pc \in [Executors -> PcLabels]
      /\ fault \in [Threads -> FaultLocals] /\ fault[t].frees \in Seq(Pages)
      /\ evict \in [Evictors -> EvictLocals] /\ MapOwnership
  BY MapOwns, ThreadFacts DEF TypeOK, MapInv
<1>o. OnlyMoves(t) /\ UNCHANGED evict
  BY FirstInv DEF MapInv, StepOK, FirstAllocate, Abort
<1>n. PICK n : n = fault[t].frees[1]
  OBVIOUS
<1>1. pc[t] = "allocate" /\ fault[t].reading = <<>> /\ Len(fault[t].frees) = 1
  BY <1>0 DEF FirstAllocate, At, ThreadOK, FirstPcs
<1>2. n \in Pages /\ 1 \in DOMAIN fault[t].frees
  BY <1>0, <1>n, <1>1
<1>3. CASE find_page(fault[t].addr) # 0
  <2>1. /\ UNCHANGED page /\ pc'[t] = "put_back"
        /\ fault'[t].reading = fault[t].reading /\ fault'[t].frees = fault[t].frees
    BY <1>0, <1>3 DEF FirstAllocate, sharedVars, FaultLocals
  <2>2. \A q : ~Carries(t, q)
    BY <1>1 DEF Carries, Among, SettlePcs
  <2>3. \A q \in Pages : Among(q, fault[t].frees) => ~Mapped(q)
    BY <1>1 DEF FreedInv
  <2>4. StepMoves(t)
    BY <1>o, <2>1, <2>2, <2>3, CarriesLift
  <2> QED  BY <1>0, <2>4, MovesLift
<1>4. CASE find_page(fault[t].addr) = 0
  <2>1. /\ page' = [page EXCEPT ![n].migrating = TRUE, ![n].swapped_out = FALSE,
                                ![n].va = fault[t].addr]
        /\ pc' = [pc EXCEPT ![t] = "map"] /\ fault' = fault
    BY <1>n, <1>4 DEF FirstAllocate, Abort, NewPage
  <2>2. \A q \in Pages \ {n} : page'[q] = page[q]
    BY <1>0, <2>1
  <2>3. page'[n].list = page[n].list
    BY <1>0, <1>2, <2>1 DEF UserPage
  <2>4. Holds(t, "free", n)
    BY <1>n, <1>2 DEF Holds
  <2>5. /\ page[n].list = "none"
        /\ \A f \in Executors, s \in Roles : Holds(f, s, n) => f = t /\ s = "free"
    BY <1>0, <1>2, <2>4 DEF MapOwnership, Roles
  <2>6. \A q \in Pages : page'[q].list \in FreeLists => ~Mapped(q)'
    BY <2>2, <2>3, <2>5 DEF FreedInv, FreeLists, Mapped
  <2>7. ASSUME NEW e \in Evictors, evict'[e].dpage # 0 PROVE page'[evict'[e].dpage].va \notin VA
    <3>1. evict[e].dpage \in Pages /\ ~Mapped(evict[e].dpage)
      BY <1>0, <1>o, <2>7 DEF EvictLocals, FreedInv
    <3>2. evict[e].dpage # n
      <4>1. evict[e].dpage = n => Holds(e, "dpage", n)
        BY DEF Holds
      <4> QED  BY <2>5, <4>1 DEF Roles, Evictors, Executors
    <3> QED  BY <1>o, <2>2, <3>1, <3>2 DEF Mapped
  <2>8. ASSUME NEW u \in Threads, pc'[u] \notin {"map", "add"}, NEW q \in Pages,
               Among(q, fault'[u].frees)
        PROVE  ~Mapped(q)'
    <3>1. u # t /\ pc'[u] = pc[u]
      BY <1>0, <2>1, <2>8 DEF Executors
    <3>2. ~Mapped(q) /\ Holds(u, "free", q)
      BY <2>1, <2>8, <3>1 DEF FreedInv, Holds, Among
    <3>3. q # n
      BY <2>5, <3>1, <3>2 DEF Roles, Executors
    <3> QED  BY <2>2, <3>2, <3>3 DEF Mapped
  <2>9. FreedInv'
    <3>1. unmap'.at = "idle" /\ unmap'.page = 0
      BY DEF FreedInv
    <3> QED  BY <2>6, <2>7, <2>8, <3>1 DEF FreedInv, Mapped
  <2>10. MovedBy(t, n)'
    <3>1. Carries(t, n)'
      BY <1>0, <1>n, <1>2, <2>1 DEF Carries, Among
    <3> QED  BY <3>1, CarriesMoves
  <2>11. \A q \in Pages : Mapped(q)' /\ page'[q].migrating =>
           MovedBy(t, q)' \/ (Mapped(q) /\ page[q].migrating /\ ~MovedBy(t, q))
    <3>1. \A q : ~Carries(t, q)
      BY <1>1 DEF Carries, Among, SettlePcs
    <3>2. \A q : MovedBy(t, q) => MovedBy(t, q)'
      BY <1>o, <3>1, CarriesMoves
    <3> QED  BY <2>2, <2>10, <3>2 DEF Mapped
  <2>12. MovedInv'
    BY <1>0, <1>o, <2>11, MovedLift
  <2> QED  BY <2>9, <2>12
<1> QED  BY <1>3, <1>4

\* A prefetch claims the page it looked up, or ends its batch.
LEMMA PrefetchMoves ==
    ASSUME MapInv, FreedInv, FoundOK, NEW t \in Threads, failed' = "none",
           PrefetchLookup(t) \/ PrefetchClaim(t)
    PROVE  StepMoves(t)
<1>0. /\ At(t, "find") /\ t \in Executors /\ page \in [Pages -> UserPage]
      /\ pc \in [Executors -> PcLabels]
      /\ fault \in [Threads -> FaultLocals] /\ fault[t] \in FaultLocals
      /\ pc[t] = "find" /\ fault[t].frees = <<>> /\ fault[t].reading \in Seq(Pages)
  BY FindFacts DEF PrefetchLookup, PrefetchClaim
<1>1. CASE UNCHANGED vars
  <2>1. UNCHANGED <<page, pc, fault, scan, evict>>
    BY <1>1 DEF vars
  <2> QED  BY <1>0, <2>1, StillMoves
<1>2. CASE PrefetchStop(t)
  <2>1. /\ UNCHANGED <<page, scan, evict>>
        /\ \/ fault[t].reading = <<>> /\ fault' = [fault EXCEPT ![t] = NoFault]
                                      /\ pc' = [pc EXCEPT ![t] = "idle"]
           \/ pc' = [pc EXCEPT ![t] = "fetch"] /\ UNCHANGED fault
    BY <1>2 DEF PrefetchStop, Resume, sharedVars
  <2>2. OnlyMoves(t)
    BY <1>0, <2>1 DEF OnlyMoves
  <2>3. fault'[t].reading = fault[t].reading /\ fault'[t].frees = <<>>
    BY <1>0, <2>1 DEF NoFault
  <2>4. \A q : Carries(t, q) => Carries(t, q)'
    BY <1>0, <2>3 DEF Carries, SettlePcs
  <2>5. \A q \in Pages : ~Among(q, fault'[t].frees)
    BY <2>3 DEF Among
  <2> QED  BY <2>1, <2>2, <2>4, <2>5, CarriesLift
<1>3. CASE PrefetchClaim(t) /\ ~PrefetchStop(t)
  <2>p. PICK p : p = found[t]
    OBVIOUS
  <2>1. /\ p \in Pages /\ page' = [page EXCEPT ![p].migrating = TRUE, ![p].list = "none"]
        /\ fault' = [fault EXCEPT ![t].reading = Append(@, p)]
        /\ UNCHANGED <<pc, scan, evict>>
    BY <1>3, <2>p DEF PrefetchClaim, FoundOK, ClaimPage, Abort
  <2>2. OnlyMoves(t)
    BY <1>0, <2>1 DEF OnlyMoves
  <2>3. /\ fault'[t].reading = Append(fault[t].reading, p) /\ fault'[t].frees = <<>>
        /\ pc'[t] = "find"
    BY <1>0, <2>1 DEF FaultLocals
  <2>4. \A q \in Pages : Carries(t, q) \/ q = p => Carries(t, q)'
    BY <1>0, <2>1, <2>3, AppendMember DEF Carries, SettlePcs
  <2>5. \A q \in Pages : ~Among(q, fault'[t].frees)
    BY <2>3 DEF Among
  <2>6. \A q \in Pages : /\ page'[q].va = page[q].va
                         /\ page'[q].list \in FreeLists => page[q].list \in FreeLists
                         /\ page'[q].migrating => page[q].migrating \/ q = p
    BY <1>0, <2>1 DEF UserPage, FreeLists
  <2> QED  BY <2>1, <2>2, <2>4, <2>5, <2>6, CarriesLift
<1> QED  BY <1>1, <1>2, <1>3 DEF PrefetchLookup

\* A fault, a population or a round of the prefetch worker begins with nothing.
LEMMA IdleMoves ==
    ASSUME MapInv, FreedInv, NEW t \in Threads, At(t, "idle"), NEW v, NEW job, NEW label,
           \/ fault' = [fault EXCEPT ![t].addr = v]
           \/ fault' = [fault EXCEPT ![t].addr = v, ![t].job = job]
           \/ fault' = [fault EXCEPT ![t] = [NoFault EXCEPT !.addr = v, !.job = job]],
           pc' = [pc EXCEPT ![t] = label], UNCHANGED <<page, scan, evict>>
    PROVE  StepMoves(t)
<1>0. /\ t \in Executors /\ ThreadOK(t) /\ pc \in [Executors -> PcLabels]
      /\ fault \in [Threads -> FaultLocals] /\ pc[t] = "idle"
  BY MapOwns, ThreadFacts DEF TypeOK, At
<1>1. fault[t] = NoFault
  BY <1>0 DEF ThreadOK
<1>2. fault'[t].frees = <<>> /\ fault[t].reading = <<>>
  <2>1. \/ fault'[t] = [NoFault EXCEPT !.addr = v]
        \/ fault'[t] = [NoFault EXCEPT !.addr = v, !.job = job]
    BY <1>0, <1>1
  <2> QED  BY <1>1, <2>1 DEF NoFault
<1>3. \A q : ~Carries(t, q) /\ ~Among(q, fault'[t].frees)
  BY <1>0, <1>2 DEF Carries, Among, SettlePcs
<1>4. OnlyMoves(t)
  BY <1>0 DEF OnlyMoves
<1> QED  BY <1>3, <1>4, CarriesLift

\* A scan moves a page from list to list and moves none in the sense meant here.
LEMMA ScanLetsGo ==
    ASSUME MapInv, FreedInv, NEW e \in Scanners, direct_allocate_page_asynch(e)
    PROVE  StepMoves(e)
<1>0. /\ e \in Executors /\ page \in [Pages -> UserPage] /\ pc \in [Executors -> PcLabels]
      /\ scan \in [Scanners -> Pages \cup {0}]
  BY DEF MapInv, UseInv, TypeOK, Scanners, Executors
<1>1. /\ pc[e] \in {"idle", "reclaim", "scan_inactive"}
      /\ \E l \in {"idle", "reclaim", "scan_inactive"} : pc' = [pc EXCEPT ![e] = l]
      /\ \E d : scan' = [scan EXCEPT ![e] = d]
      /\ \E d, l : /\ l \in {"none", "inactive", "active", "eviction"}
                   /\ page' = [page EXCEPT ![d].list = l]
      /\ UNCHANGED <<fault, evict>>
  BY DEF direct_allocate_page_asynch, ScanInactive, ScanTake, KeepWindow, KeepOrEvict,
         ScanPut, ScanPoint, At
<1>2. OnlyMoves(e)
  BY <1>0, <1>1 DEF OnlyMoves
<1>3. \A q \in Pages : /\ page'[q].va = page[q].va /\ page'[q].migrating = page[q].migrating
                       /\ page'[q].list \in FreeLists => page[q].list \in FreeLists
  BY <1>0, <1>1 DEF UserPage, FreeLists
<1>4. pc[e] \notin SettlePcs \cup {"map", "add"}
  BY <1>1 DEF SettlePcs
<1>5. CASE e \in Threads
  <2>1. \A q : Carries(e, q) => Carries(e, q)'
    BY <1>1, <1>4 DEF Carries
  <2>2. \A q \in Pages : Among(q, fault'[e].frees) => ~Mapped(q)
    BY <1>1, <1>4, <1>5 DEF FreedInv
  <2> QED  BY <1>1, <1>2, <1>3, <1>5, <2>1, <2>2, CarriesLift
<1>6. CASE e \notin Threads
  <2>1. e \notin Evictors
    BY <1>6, ExecutorAssumption DEF Scanners, Evictors
  <2>2. \A q : ~MovedBy(e, q)
    BY <1>6, <2>1 DEF MovedBy
  <2> QED  BY <1>2, <1>3, <1>6, <2>1, <2>2 DEF StepMoves, Mapped
<1> QED  BY <1>5, <1>6

\* munmap marks only the page that it removes, frees it only when it stands for
\* no page any more, and forgets it after that.
LEMMA UnmapLetsGo ==
    ASSUME FreedInv, MovedInv, UNCHANGED <<pc, fault, evict>>,
           evict \in [Evictors -> EvictLocals],
           \A q \in Pages :
             /\ Mapped(q)' => Mapped(q)
             /\ page'[q].list \in FreeLists => page[q].list \in FreeLists \/ ~Mapped(q)'
             /\ Mapped(q)' /\ page'[q].migrating => page[q].migrating \/ unmap'.page = q
             /\ Mapped(q)' /\ unmap.page = q => unmap'.page = q,
           unmap'.at \in {"free", "release"} => page'[unmap'.page].va \notin VA,
           unmap'.at \in {"idle", "page"} => unmap'.page = 0
    PROVE  FreedInv' /\ MovedInv'
<1>1. \A q \in Pages : page'[q].list \in FreeLists => ~Mapped(q)'
  BY DEF FreedInv
<1>2. ASSUME NEW e \in Evictors, evict'[e].dpage # 0 PROVE page'[evict'[e].dpage].va \notin VA
  <2>1. evict[e].dpage \in Pages /\ ~Mapped(evict[e].dpage)
    BY <1>2 DEF EvictLocals, FreedInv
  <2> QED  BY <2>1 DEF Mapped
<1>3. \A t \in Threads : pc'[t] \notin {"map", "add"} =>
         \A q \in Pages : Among(q, fault'[t].frees) => ~Mapped(q)'
  BY DEF FreedInv
<1>4. FreedInv'
  BY <1>1, <1>2, <1>3 DEF FreedInv, Mapped
<1>5. \A e, q : MovedBy(e, q)' <=> MovedBy(e, q)
  BY DEF MovedBy, Holds
<1>6. MovedInv'
  BY <1>5 DEF MovedInv
<1> QED  BY <1>4, <1>6

\* So do the steps that change nothing but munmap's locals, if those.
LEMMA UnmapRests ==
    ASSUME MapInv, FreedInv, MovedInv, UNCHANGED <<page, pc, fault, evict>>,
           unmap'.page = unmap.page \/ unmap.page = 0,
           unmap'.at \in {"free", "release"} => unmap' = unmap,
           unmap'.at \in {"idle", "page"} => unmap'.page = 0
    PROVE  FreedInv' /\ MovedInv'
<1>1. evict \in [Evictors -> EvictLocals]
  BY DEF MapInv, UseInv, TypeOK
<1>2. unmap'.at \in {"free", "release"} => page'[unmap'.page].va \notin VA
  BY DEF FreedInv, Mapped
<1> QED  BY <1>1, <1>2, UnmapLetsGo DEF Mapped, Pages

LEMMA PrUnmapMoves ==
    ASSUME MapInv, FreedInv, MovedInv, PrUnmapStep, failed' = "none"
    PROVE  FreedInv' /\ MovedInv'
<1>0. /\ page \in [Pages -> UserPage] /\ evict \in [Evictors -> EvictLocals]
      /\ pages \in [VA -> Pages \cup {0}] /\ unmap.page \in Pages \cup {0}
      /\ unmap.at \notin {"idle", "page"} => unmap.page \in Pages
      /\ unmap.todo # {} => First(unmap.todo) \in VA
      /\ \E at, by, region, todo, p :
           unmap = [at |-> at, by |-> by, region |-> region, todo |-> todo, page |-> p]
  BY UnmapFacts DEF MapInv, UseInv, TypeOK, MapVarsOK
<1>u. unmap.at \in {"idle", "page"} => unmap.page = 0
  BY DEF FreedInv
<1>1. CASE UnmapFind
  <2>p. PICK p : p = find_page(First(unmap.todo))
    OBVIOUS
  <2>1. p \in Pages \cup {0} /\ unmap.page = 0
    BY <1>0, <1>u, <1>1, <2>p DEF UnmapFind, UnmapAt, find_page
  <2>2. CASE UNCHANGED page
    <3>1. /\ UNCHANGED <<pc, fault, evict>>
          /\ \/ unmap' = [unmap EXCEPT !.todo = @ \ {First(@)}] /\ unmap.at = "page"
             \/ unmap' = [unmap EXCEPT !.at = "wait", !.page = p]
             \/ unmap' = [unmap EXCEPT !.at = "remove", !.page = p]
      BY <1>1, <2>p DEF UnmapFind, UnmapAt
    <3>2. /\ unmap'.at \notin {"free", "release"}
          /\ unmap'.at \in {"idle", "page"} => unmap'.page = 0
      BY <1>0, <2>1, <3>1
    <3> QED  BY <2>1, <2>2, <3>1, <3>2, UnmapRests
  <2>3. CASE p # 0 /\ ~page[p].migrating
    <3>1. /\ UNCHANGED <<pc, fault, evict>> /\ page' = [page EXCEPT ![p].migrating = TRUE]
          /\ unmap' = [unmap EXCEPT !.at = "remove", !.page = p]
      BY <1>1, <2>p, <2>3 DEF UnmapFind
    <3>2. unmap'.at = "remove" /\ unmap'.page = p
      BY <1>0, <3>1
    <3>3. \A q \in Pages : /\ page'[q].va = page[q].va /\ page'[q].list = page[q].list
                           /\ page'[q].migrating => page[q].migrating \/ q = p
      BY <1>0, <3>1 DEF UserPage
    <3> QED  BY <1>0, <2>1, <3>1, <3>2, <3>3, UnmapLetsGo DEF Mapped, Pages
  <2> QED  BY <1>1, <2>p, <2>2, <2>3 DEF UnmapFind
<1>2. CASE UnmapWait \/ lrudisk_remove_page
  <2>1. /\ UNCHANGED <<page, pc, fault, evict>>
        /\ \E l \in {"relock", "take"} : unmap' = [unmap EXCEPT !.at = l]
    BY <1>2 DEF UnmapWait, lrudisk_remove_page, UnmapTo, vars
  <2>2. unmap'.page = unmap.page /\ unmap'.at \in {"relock", "take"}
    BY <1>0, <2>1
  <2> QED  BY <2>1, <2>2, UnmapRests
<1>3. CASE UnmapRelock
  <2>p. PICK p : p = unmap.page
    OBVIOUS
  <2>1. /\ UNCHANGED <<pc, fault, evict>> /\ page' = [page EXCEPT ![p].migrating = TRUE]
        /\ unmap' = [unmap EXCEPT !.at = "remove"]
    BY <1>3, <2>p DEF UnmapRelock, UnmapTo
  <2>2. unmap'.at = "remove" /\ unmap'.page = p
    BY <1>0, <2>p, <2>1
  <2>3. \A q \in Pages : /\ page'[q].va = page[q].va /\ page'[q].list = page[q].list
                         /\ page'[q].migrating => page[q].migrating \/ q = p
    BY <1>0, <2>1 DEF UserPage
  <2> QED  BY <1>0, <2>p, <2>1, <2>2, <2>3, UnmapLetsGo DEF Mapped
<1>4. CASE PrUnmapTake
  <2>p. PICK p : p = unmap.page
    OBVIOUS
  <2>1. /\ UNCHANGED <<pc, fault, evict>> /\ unmap.at = "take" /\ p \in Pages
        /\ page' = [page EXCEPT ![p].list = "none", ![p].va = 0]
        /\ unmap' = [unmap EXCEPT !.at = "free"]
    BY <1>0, <1>4, <2>p DEF PrUnmapTake, UnmapTake, UnmapTo, UnmapAt
  <2>2. unmap'.at = "free" /\ unmap'.page = p
    BY <1>0, <2>p, <2>1
  <2>3. /\ page'[p].va = 0 /\ page'[p].list = "none" /\ 0 \notin VA
        /\ \A q \in Pages \ {p} : page'[q] = page[q]
    BY <1>0, <2>1, SizeAssumption DEF UserPage, VA
  <2> QED  BY <1>0, <2>p, <2>1, <2>2, <2>3, UnmapLetsGo DEF Mapped, FreeLists
<1>5. CASE UnmapReserve
  <2>p. PICK p, d : p = unmap.page /\ d = page[p].reserve
    OBVIOUS
  <2>1. /\ UNCHANGED <<pc, fault, evict, unmap>> /\ unmap.at = "free" /\ p \in Pages
        /\ d # 0 /\ page[d].list = "disk_reserve"
        /\ page' = [page EXCEPT ![p].reserve = 0, ![d].reserve = 0, ![d].list = "disk_free"]
    BY <1>0, <1>5, <2>p DEF UnmapReserve, UnmapAt, Abort
  <2>2. d \in Pages
    BY <1>0, <2>p, <2>1 DEF UserPage
  <2>3. \A q \in Pages : /\ page'[q].va = page[q].va /\ page'[q].migrating = page[q].migrating
                         /\ page'[q].list = page[q].list \/ q = d
    BY <1>0, <2>1, <2>2 DEF UserPage
  <2>4. ~Mapped(p)
    BY <2>p, <2>1 DEF FreedInv
  <2> QED  BY <1>0, <2>p, <2>1, <2>2, <2>3, <2>4, UnmapLetsGo DEF Mapped, FreeLists
<1>6. CASE UnmapFree
  <2>p. PICK p : p = unmap.page
    OBVIOUS
  <2>1. /\ UNCHANGED <<pc, fault, evict>> /\ unmap.at = "free" /\ p \in Pages
        /\ \E q : page' = [page EXCEPT ![p].list = q, ![p].reserve = 0]
        /\ unmap' = [unmap EXCEPT !.at = "release"]
    BY <1>0, <1>6, <2>p DEF UnmapFree, UnmapAt, UnmapTo, Abort
  <2>2. unmap'.at = "release" /\ unmap'.page = p
    BY <1>0, <2>p, <2>1
  <2>3. \A q \in Pages : /\ page'[q].va = page[q].va /\ page'[q].migrating = page[q].migrating
                         /\ page'[q].list = page[q].list \/ q = p
    BY <1>0, <2>1 DEF UserPage
  <2>4. ~Mapped(p)
    BY <2>p, <2>1 DEF FreedInv
  <2> QED  BY <1>0, <2>p, <2>1, <2>2, <2>3, <2>4, UnmapLetsGo DEF Mapped
<1>7. CASE PrUnmapRelease
  <2>1. /\ UNCHANGED <<page, pc, fault, evict>> /\ unmap.at = "release"
        /\ \E todo : unmap' = [unmap EXCEPT !.at = "page", !.page = 0, !.todo = todo]
    BY <1>7 DEF PrUnmapRelease, UnmapAt, vars
  <2>2. unmap'.at = "page" /\ unmap'.page = 0
    BY <1>0, <2>1
  <2>3. ~Mapped(unmap.page)
    BY <2>1 DEF FreedInv
  <2> QED  BY <1>0, <2>1, <2>2, <2>3, UnmapLetsGo DEF Mapped
<1>8. CASE libc_munmap
  <2>1. UNCHANGED <<page, pc, fault, evict>> /\ unmap.page = 0 /\ unmap' = NoUnmap
    BY <1>u, <1>8 DEF libc_munmap, UnmapAt
  <2> QED  BY <2>1, UnmapRests DEF NoUnmap
<1> QED  BY <1>1, <1>2, <1>3, <1>4, <1>5, <1>6, <1>7, <1>8 DEF PrUnmapStep

\* What the threads do.
LEMMA PrThreadMoves ==
    ASSUME MapInv, FoundOK, FreedInv, MovedInv, NEW t \in Threads, failed' = "none",
           PrThreadStep(t)
    PROVE  FreedInv' /\ MovedInv'
<1>0. t \in Executors /\ t \in Evictors /\ unmap' = unmap
  BY DEF Executors, Evictors, PrThreadStep, PrefetchLookup, PrefetchClaim, KeepsMap
<1>m. StepMoves(t) => FreedInv' /\ MovedInv'
  BY <1>0, MovesLift
<1>1. CASE PrefetchLookup(t) \/ PrefetchClaim(t)
  BY <1>m, <1>1, PrefetchMoves
<1>2. CASE HandlerStep(t)
  BY <1>m, <1>0, <1>2, FaultMoves, AllocateMoves DEF HandlerStep, FirstTouch
<1>3. CASE fetch_free_asynch(t)
  <2>1. ~FetchOutOfMemory(t)
    BY DEF FetchOutOfMemory, Abort
  <2> QED  BY <1>m, <1>0, <1>3, <2>1, FaultMoves, EvictedMoves, EvictLetsGo DEF fetch_free_asynch
<1>4. CASE lrudisk_ack_swapin(t) \/ lrudisk_swapin_external_async(t)
  BY <1>m, <1>4, FaultMoves DEF lrudisk_ack_swapin, lrudisk_swapin_external_async
<1> QED  BY <1>1, <1>2, <1>3, <1>4 DEF PrThreadStep

\* What the application and the prefetch worker do between calls.
LEMMA PrCallMoves ==
    ASSUME MapInv, FreedInv, MovedInv, NEW t \in Threads,
           MappedAccess(t) \/ PrMapStep(t) \/ PrefetcherStep(t)
    PROVE  FreedInv' /\ MovedInv'
<1>0. t \in Executors
  BY DEF Executors
<1>m. StepMoves(t) /\ unmap' = unmap => FreedInv' /\ MovedInv'
  BY <1>0, MovesLift
<1>u. unmap.at \in {"idle", "page"} => unmap.page = 0
  BY DEF FreedInv
<1>1. CASE UNCHANGED <<page, pc, fault, evict, unmap>>
  BY <1>1, <1>u, UnmapRests
<1>2. CASE MappedAccess(t)
  <2>1. unmap' = unmap
    BY <1>2 DEF MappedAccess
  <2>2. ASSUME NEW v, Touch(t, v) PROVE FreedInv' /\ MovedInv'
    BY <1>m, <2>1, <2>2, IdleMoves DEF Touch, sharedVars
  <2>3. ASSUME NEW v, NEW x, Store(t, v, x) PROVE FreedInv' /\ MovedInv'
    BY <1>1, <2>1, <2>3 DEF Store
  <2> QED  BY <1>2, <2>2, <2>3 DEF MappedAccess
<1>3. CASE PopulatePage(t)
  BY <1>m, <1>3, IdleMoves DEF PopulatePage, sharedVars
<1>4. ASSUME NEW range, extmem_munmap(t, range) PROVE FreedInv' /\ MovedInv'
  <2>1. /\ UNCHANGED <<page, pc, fault, evict>> /\ unmap.at = "idle"
        /\ unmap' = [NoUnmap EXCEPT !.at = "page", !.by = {t}, !.region = range, !.todo = range]
    BY <1>4 DEF extmem_munmap, UnmapAt, vars
  <2>2. unmap'.at = "page" /\ unmap'.page = 0 /\ unmap.page = 0
    BY <1>u, <2>1 DEF NoUnmap
  <2> QED  BY <2>1, <2>2, UnmapRests
<1>5. CASE lrudisk_ack_vma(t) \/ \E range : extmem_mmap(t, range)
  BY <1>1, <1>5 DEF lrudisk_ack_vma, MmapReturn, extmem_mmap, vars
<1>6. CASE PrefetcherStep(t)
  <2>1. unmap' = unmap
    BY <1>6 DEF PrefetcherStep, PrefetchBegin, PrefetchReturn, KeepsMap
  <2>2. ASSUME NEW head, At(t, "idle"), CallPrefetch(t, head) PROVE FreedInv' /\ MovedInv'
    BY <1>m, <2>1, <2>2, IdleMoves DEF CallPrefetch, sharedVars
  <2>3. CASE UNCHANGED vars
    BY <1>1, <2>1, <2>3 DEF vars
  <2> QED  BY <1>6, <2>2, <2>3 DEF PrefetcherStep, PrefetchBegin, PrefetchReturn
<1> QED  BY <1>2, <1>3, <1>4, <1>5, <1>6 DEF PrMapStep

\* A failing assertion leaves everything as it is.
LEMMA PrFails ==
    ASSUME PrNext, failed' # failed
    PROVE  UNCHANGED <<sharedVars, pc, fault, scan, evict, unmap>>
<1>a. ASSUME NEW label, Abort(label) PROVE UNCHANGED <<sharedVars, pc, fault, scan, evict>>
  BY <1>a DEF Abort
<1>e. ASSUME NEW e, PrEvictStep(e) \/ ReleaseVictim(e)
      PROVE  UNCHANGED <<sharedVars, pc, fault, scan, evict>>
  BY <1>e, <1>a DEF PrEvictStep, TakeVictim, ProtectVictim, BackByReserve, BackByFreeSlot,
       PrWriteBack, UnmapVictim, MarkSwappedOut, FreeFrame, TrackVictim, ReleaseVictim
<1>1. ASSUME NEW t \in Threads, MappedAccess(t) \/ PrMapStep(t) PROVE FALSE
  BY <1>1 DEF MappedAccess, Touch, Store, PrMapStep, extmem_munmap, extmem_mmap,
              PopulatePage, lrudisk_ack_vma, MmapReturn, vars
<1>2. ASSUME NEW t \in Threads, PrThreadStep(t)
      PROVE  UNCHANGED <<sharedVars, pc, fault, scan, evict, unmap>>
  <2>0. unmap' = unmap
    BY <1>2 DEF PrThreadStep, PrefetchLookup, PrefetchClaim, KeepsMap
  <2>1. CASE HandlerStep(t)
    BY <1>a, <2>0, <2>1 DEF HandlerStep, FirstTouch, uswap_sig_handler, Spin, FirstAllocate, PutBack,
                FirstMap, FirstAdd, Settle, DiskRead, PrefetchResident
  <2>2. CASE fetch_free_asynch(t)
    BY <1>a, <1>e, <2>0, <2>2 DEF fetch_free_asynch, FetchFree, FetchReclaim, FetchRetry,
                      FetchOutOfMemory, FetchEvicted
  <2>3. CASE lrudisk_ack_swapin(t) \/ lrudisk_swapin_external_async(t)
    BY <1>a, <2>0, <2>3 DEF lrudisk_ack_swapin, lrudisk_swapin_external_async,
                handle_missing_fault, DiskRead, FinishRead, PublishPage
  <2>4. CASE PrefetchLookup(t) \/ PrefetchClaim(t)
    BY <1>a, <2>0, <2>4 DEF PrefetchLookup, PrefetchClaim, PrefetchStop, vars
  <2> QED  BY <1>2, <2>1, <2>2, <2>3, <2>4 DEF PrThreadStep
<1>3. ASSUME NEW w \in Prefetchers, PrefetcherStep(w) PROVE FALSE
  BY <1>3 DEF PrefetcherStep, PrefetchBegin, PrefetchReturn, CallPrefetch, vars
<1>4. ASSUME NEW w \in Workers, PrWorkerStep(w)
      PROVE  UNCHANGED <<sharedVars, pc, fault, scan, evict, unmap>>
  BY <1>4, <1>a, <1>e DEF PrWorkerStep, lrudisk_evictionworker, KeepsMap
<1>5. ASSUME NEW e \in Scanners, direct_allocate_page_asynch(e) PROVE FALSE
  BY <1>5 DEF direct_allocate_page_asynch, ScanInactive, ScanTake, KeepWindow, KeepOrEvict, ScanPut
<1>6. ASSUME PrUnmapStep
      PROVE  UNCHANGED <<sharedVars, pc, fault, scan, evict, unmap>>
  BY <1>6, <1>a DEF PrUnmapStep, UnmapFind, UnmapWait, UnmapRelock, lrudisk_remove_page,
              PrUnmapTake, UnmapTake, UnmapReserve, UnmapFree, PrUnmapRelease, libc_munmap, vars
<1>7. CASE Aborted
  BY <1>7 DEF Aborted, vars
<1> QED  BY <1>1, <1>2, <1>3, <1>4, <1>5, <1>6, <1>7 DEF PrNext

\* Every step keeps a mover for every page that is marked as moving.
LEMMA MovesNext ==
    ASSUME MapInv, FoundOK, FreedInv, MovedInv, failed = "none", PrNext
    PROVE  FreedInv' /\ MovedInv'
<1>u. unmap.at \in {"idle", "page"} => unmap.page = 0
  BY DEF FreedInv
<1>0. CASE failed' # "none"
  <2>1. UNCHANGED <<page, pc, fault, evict, unmap>>
    BY <1>0, PrFails DEF sharedVars
  <2> QED  BY <1>u, <2>1, UnmapRests
<1> SUFFICES ASSUME failed' = "none" PROVE FreedInv' /\ MovedInv'
  BY <1>0
<1>1. ASSUME NEW t \in Threads, MappedAccess(t) \/ PrMapStep(t) PROVE FreedInv' /\ MovedInv'
  BY <1>1, PrCallMoves
<1>2. ASSUME NEW t \in Threads, PrThreadStep(t) PROVE FreedInv' /\ MovedInv'
  BY <1>2, PrThreadMoves
<1>3. ASSUME NEW w \in Prefetchers, PrefetcherStep(w) PROVE FreedInv' /\ MovedInv'
  BY <1>3, PrCallMoves, PageRankAssumption
<1>4. ASSUME NEW w \in Workers, PrWorkerStep(w) PROVE FreedInv' /\ MovedInv'
  <2>1. w \in Executors /\ w \in Evictors /\ unmap' = unmap
    BY <1>4 DEF Executors, Evictors, PrWorkerStep, KeepsMap
  <2>2. PrEvictStep(w) \/ ReleaseVictim(w)
    BY <1>4 DEF PrWorkerStep, lrudisk_evictionworker, Abort
  <2>3. StepMoves(w)
    BY <2>1, <2>2, EvictLetsGo
  <2> QED  BY <2>1, <2>3, MovesLift
<1>5. ASSUME NEW e \in Scanners, direct_allocate_page_asynch(e) PROVE FreedInv' /\ MovedInv'
  <2>1. e \in Executors /\ unmap' = unmap
    BY <1>5 DEF Executors, Scanners, direct_allocate_page_asynch, KeepsMap
  <2> QED  BY <1>5, <2>1, ScanLetsGo, MovesLift
<1>6. CASE PrUnmapStep
  BY <1>6, PrUnmapMoves
<1>7. CASE Aborted /\ KeepsMap
  <2>1. UNCHANGED <<page, pc, fault, evict, unmap>>
    BY <1>7 DEF Aborted, KeepsMap, vars
  <2> QED  BY <1>u, <2>1, UnmapRests
<1> QED  BY <1>1, <1>2, <1>3, <1>4, <1>5, <1>6, <1>7 DEF PrNext

\* After a failed assertion the descriptors are as they were, and the property
\* itself is all that is needed.
MoveInv == PrInv /\ (failed = "none" => FreedInv /\ MovedInv) /\ PrMigratingHasMover

LEMMA MovedIsEnough == MapInv /\ MovedInv => PrMigratingHasMover
<1> SUFFICES ASSUME MapInv, MovedInv, NEW v \in VA, pages[v] # 0, page[pages[v]].migrating
             PROVE  (\E e \in Executors : MovedBy(e, pages[v])) \/ unmap.page = pages[v]
  BY DEF PrMigratingHasMover
<1>1. pages[v] \in Pages /\ Mapped(pages[v])
  BY UnmapFacts DEF HashOK, Mapped
<1> QED  BY <1>1 DEF MovedInv

LEMMA MoveInit == PrInit => MoveInv
<1> SUFFICES ASSUME PrInit PROVE MoveInv
  OBVIOUS
<1>1. PrInv /\ MapInv
  BY PrInitInv, MapInitInv DEF PrInit
<1>2. /\ \A p \in Pages : page[p].va = 0 /\ ~page[p].migrating
      /\ unmap = NoUnmap /\ evict = [e \in Evictors |-> NoEvict]
      /\ fault = [t \in Threads |-> NoFault]
  BY DEF PrInit, MapInit, Init, InitPages, InitPage
<1>3. FreedInv /\ MovedInv
  BY <1>2, SizeAssumption DEF FreedInv, MovedInv, Mapped, VA, NoUnmap, NoEvict, NoFault, Among
<1> QED  BY <1>1, <1>3, MovedIsEnough DEF MoveInv

LEMMA MoveStep == MoveInv /\ [PrNext]_prVars => MoveInv'
<1> SUFFICES ASSUME MoveInv, [PrNext]_prVars PROVE MoveInv'
  OBVIOUS
<1>0. PrInv'
  BY PrInvStep DEF MoveInv
<1>s. ASSUME UNCHANGED <<sharedVars, pc, fault, scan, evict, unmap>> PROVE PrMigratingHasMover'
  <2>1. \A e, p : MovedBy(e, p)' <=> MovedBy(e, p)
    BY <1>s DEF MovedBy, Holds
  <2> QED  BY <1>s, <2>1 DEF MoveInv, PrMigratingHasMover, sharedVars
<1>1. CASE UNCHANGED prVars
  <2>1. UNCHANGED <<sharedVars, pc, fault, scan, evict, unmap>> /\ failed' = failed
    BY <1>1 DEF prVars, mapVars, vars, sharedVars
  <2>2. (FreedInv => FreedInv') /\ (MovedInv => MovedInv')
    BY <2>1 DEF FreedInv, MovedInv, MovedBy, Holds, Mapped, sharedVars
  <2> QED  BY <1>0, <1>s, <2>1, <2>2 DEF MoveInv
<1>2. CASE PrNext /\ failed = "none"
  <2>1. MapInv /\ FoundOK /\ FreedInv /\ MovedInv
    BY <1>2 DEF MoveInv, PrInv, MapSafe, Ended
  <2>2. FreedInv' /\ MovedInv'
    BY <1>2, <2>1, MovesNext
  <2>3. CASE failed' = "none"
    <3>1. MapInv'
      BY <1>0, <2>3 DEF PrInv, MapSafe, Ended
    <3>2. PrMigratingHasMover'
      <4>1. (MapInv /\ MovedInv)' => PrMigratingHasMover'
        BY MovedIsEnough, PTL
      <4> QED  BY <2>2, <3>1, <4>1
    <3> QED  BY <1>0, <2>2, <3>2 DEF MoveInv
  <2>4. CASE failed' # "none"
    <3>1. UNCHANGED <<sharedVars, pc, fault, scan, evict, unmap>>
      BY <1>2, <2>4, PrFails
    <3> QED  BY <1>0, <1>s, <2>4, <3>1 DEF MoveInv
  <2> QED  BY <2>3, <2>4
<1> QED  BY <1>1, <1>2, PrStops

\* Whoever waits for a page waits for somebody: with the pageRank policy, too, a
\* page that an address leads to and that is marked as moving is in the hands of
\* a thread that will let it go, or munmap is removing it.  That munmap leaves
\* the flag set on the descriptors it frees makes nobody wait: the first touch
\* that takes such a descriptor for a page has it in hand until it clears the flag.
THEOREM PrMigratingHasMoverHolds == PrSpec => []PrMigratingHasMover
<1>1. PrInit => MoveInv
  BY MoveInit
<1>2. MoveInv /\ [PrNext]_prVars => MoveInv'
  BY MoveStep
<1>3. MoveInv => PrMigratingHasMover
  BY DEF MoveInv
<1> QED  BY <1>1, <1>2, <1>3, PTL DEF PrSpec

=============================================================================
