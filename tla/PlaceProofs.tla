----------------------------- MODULE PlaceProofs -----------------------------
(***************************************************************************)
(* The place of a descriptor says what is in its fields.  A descriptor on  *)
(* a list, or in the hands of a thread for some purpose, is a free frame,  *)
(* a slot, a reserve, a resident page or a page on disk, and the flags     *)
(* that the asserts of the library look at agree with that.  PlaceInv says *)
(* so, and this module proves that every step keeps it, given OwnerInv.    *)
(*                                                                         *)
(* The argument is the same for every step: the step of x changes the      *)
(* descriptors of a small set C; everything else is Untouched, so what the *)
(* invariant says of it carries over (the Lift lemmas); by Ownership the   *)
(* others hold nothing of C (NotOthers), so what is left is what the step  *)
(* says about C and about x's own locals.                                  *)
(*                                                                         *)
(* The one exception is a page in SettlePcs: it is on active_list or in an *)
(* evictor's hands while a thread has still to clear its flags.  That is   *)
(* the early eviction of core.c, and it is why Resident lets swapped_out   *)
(* stand while the page is Settling and why VictimOK does not ask for the  *)
(* flags of a victim before "track".                                       *)
(*                                                                         *)
(* Two results are read off at the end: the asserts that PlaceInv alone    *)
(* rules out (AssertsHold), and, with MoverInv on top, that a page marked  *)
(* migrating has a thread that will unmark it (MigratingHasMoverHolds).    *)
(* The second half of the module adds which frames and slots descriptors   *)
(* name (FrameInv), and what is in them (DataInv): SlotsExclusive,         *)
(* DramBudget, ReserveIsCurrent and SwapTransparent.                       *)
(***************************************************************************)
EXTENDS ExtMemProofs

-----------------------------------------------------------------------------
(* The inductive invariant: what the place of a descriptor says about its   *)
(* fields.                                                                  *)

\* Thread t has mapped p and has not yet cleared its flags.
Settles(t, p) == t \in Threads /\ pc[t] \in SettlePcs /\ fault[t].page = p

\* As in InPrefetchWindow.
Windows(t, p) == /\ t \in Threads /\ fault[t].job = "prefetch" /\ fault[t].page = p
                 /\ pc[t] \in {"publish", "resident"}

Settling(p) == \E t \in Executors : Settles(t, p)

\* A free frame, a slot of the swap device.
FrameDesc(d) == d.va = 0 /\ d.in_dram /\ InDram(d.virtual_offset) /\ d.reserve = 0

SlotDesc(d) == d.va = 0 /\ ~d.in_dram /\ InDisk(d.virtual_offset)

Present(p) == pte[page[p].va].present

\* A page of the application that is mapped, and one that is on disk.
Resident(p) == /\ Mapped(p) /\ InDram(page[p].virtual_offset) /\ Present(p)
               /\ page[p].in_dram \/ InPrefetchWindow(p)
               /\ page[p].swapped_out => Settling(p)

OnDisk(p) == /\ Mapped(p) /\ ~page[p].in_dram /\ InDisk(page[p].virtual_offset)
             /\ ~Present(p) /\ ~InPrefetchWindow(p)

SwappedOut(p) == OnDisk(p) /\ page[p].swapped_out /\ page[p].reserve = 0

\* d is kept as the reserve of a mapped page.
ReserveOK(d) == LET p == page[d].reserve
                IN  p \in Pages /\ Mapped(p) /\ page[p].reserve = d

ListOK(p) ==
    /\ page[p].list = "dram_free" => FrameDesc(page[p])
    /\ page[p].list = "disk_free" => SlotDesc(page[p]) /\ page[p].reserve = 0
    /\ page[p].list = "disk_reserve" => SlotDesc(page[p]) /\ ReserveOK(p)
    /\ page[p].list \in {"active", "inactive", "eviction"} => Resident(p)
    /\ page[p].list = "disk_active" => SwappedOut(p)

\* The victim, until it is unmapped and from then on.
VictimOK(e) ==
    LET p == evict[e].victim
    IN  /\ pc[e] \in {"protect", "back", "write", "unmap"} => Resident(p)
        /\ pc[e] \in EvictPcs \ {"protect"} => InDram(evict[e].old_offset)
        /\ pc[e] = "unmap" => page[p].in_dram
        /\ pc[e] \in {"mark", "track", "free_frame", "release"} => OnDisk(p)
        /\ pc[e] = "mark" => (page[p].swapped_out => Settling(p))
        /\ pc[e] \in {"track", "free_frame", "release"} =>
             page[p].swapped_out /\ page[p].migrating /\ ~Settling(p)
        /\ (pc[e] = "release" \/ (pc[e] = "free_frame" /\ ~evict[e].backed)) =>
             page[p].list = "disk_active"

\* Evictor e backs its victim p by the slot of d.
Backs(e, p, d) == /\ e \in Evictors /\ evict[e].victim = p /\ evict[e].dpage = d
                  /\ evict[e].backed
                  /\ pc[e] \in {"write", "unmap", "mark", "track", "free_frame"}

\* The descriptor that lends its slot to the victim.
DpageOK(e) ==
    LET p == evict[e].victim
        d == evict[e].dpage
    IN  /\ d # 0 /\ pc[e] # "release" =>
             /\ SlotDesc(page[d])
             /\ evict[e].backed => page[p].reserve = d
             /\ ~evict[e].backed => page[p].reserve = 0 /\ page[d].reserve = 0
        /\ d # 0 /\ pc[e] = "release" => FrameDesc(page[d])
        /\ d = 0 /\ pc[e] = "track" => page[p].reserve = 0
        /\ d # 0 /\ pc[e] \in {"mark", "track", "free_frame"} =>
             page[p].virtual_offset = page[d].virtual_offset

ScanOK(e) == scan[e] # 0 => Resident(scan[e])

ReadOK(t) == \A i \in DOMAIN fault[t].reading :
               SwappedOut(fault[t].reading[i]) /\ page[fault[t].reading[i]].migrating

FreeOK(t) ==
    /\ pc[t] \notin {"map", "add"} =>
         \A i \in DOMAIN fault[t].frees : FrameDesc(page[fault[t].frees[i]])
    /\ pc[t] \in {"map", "add"} => page[fault[t].frees[1]].reserve = 0
    /\ pc[t] = "map" =>
         LET n == fault[t].frees[1]
         IN  /\ page[n].in_dram /\ InDram(page[n].virtual_offset) /\ ~Present(n)
             /\ page[n].migrating /\ ~page[n].swapped_out
    /\ pc[t] = "add" => Resident(fault[t].frees[1])

SettleOK(t) ==
    pc[t] \in SettlePcs =>
      LET p == fault[t].page
      IN  /\ page[p].swapped_out /\ page[p].migrating /\ page[p].reserve # 0
          /\ Windows(t, p) => ~page[p].in_dram
          /\ pc[t] = "publish" => Resident(p)
          /\ pc[t] = "resident" => fault[t].job = "prefetch"

HeldOK(e) == /\ e \in Evictors => VictimOK(e) /\ DpageOK(e)
             /\ e \in Scanners => ScanOK(e)
             /\ e \in Threads => ReadOK(e) /\ FreeOK(e) /\ SettleOK(e)

\* Two evictors never have the same victim.
VictimOnce == \A e, f \in Evictors : evict[e].victim # 0 /\ evict[e].victim = evict[f].victim
                                      => e = f

\* Two threads never swap in the same page.
SettleOnce == \A t, u \in Threads : pc[t] \in SettlePcs /\ pc[u] \in SettlePcs
                                      /\ fault[t].page = fault[u].page => t = u

\* A mapped page's reserve names the page in turn, and is kept on
\* disk_reserve_list until an evictor backs the page by it.
PairOK(p) ==
    LET d == page[p].reserve
    IN  Mapped(p) /\ d # 0 =>
          /\ page[d].va = 0 /\ page[d].reserve = p
          /\ page[d].list = "disk_reserve" \/ \E e \in Executors : Backs(e, p, d)

\* The hash table knows every page that stands for an address.
Hashed == \A p \in Pages : Mapped(p) => pages[page[p].va] = p

\* Nothing is mapped that the hash table does not know.
PresentHashed == \A v \in VA : pte[v].present => pages[v] # 0

PlaceInv ==
    /\ \A p \in Pages : ListOK(p) /\ PairOK(p)
    /\ \A e \in Executors : HeldOK(e)
    /\ VictimOnce /\ SettleOnce /\ Hashed /\ PresentHashed

-----------------------------------------------------------------------------
(* What a step of x leaves alone.                                           *)

\* Nothing that the invariant says of q depends on what x does.
Untouched(x, q) ==
    /\ page'[q] = page[q]
    /\ Mapped(q) => (pte'[page[q].va].present <=> pte[page[q].va].present)
    /\ Settles(x, q)' <=> Settles(x, q)
    /\ Windows(x, q)' <=> Windows(x, q)

\* q is neither in f's hands nor f's victim.
Apart(f, q) == /\ \A r \in Roles : ~Holds(f, r, q)
               /\ f \in Evictors => evict[f].victim # q

\* The prefetch window, thread by thread.
LEMMA WindowDef ==
    ASSUME NEW p
    PROVE  /\ InPrefetchWindow(p) <=> \E t \in Executors : Windows(t, p)
           /\ InPrefetchWindow(p)' <=> \E t \in Executors : Windows(t, p)'
  BY DEF InPrefetchWindow, Windows, Executors

\* Only x's page can begin or end to be settled.
LEMMA OthersSettle ==
    ASSUME NEW x \in Executors, OnlyMoves(x), NEW p
    PROVE  /\ \A t \in Executors \ {x} : Settles(t, p)' <=> Settles(t, p)
           /\ \A t \in Executors \ {x} : Windows(t, p)' <=> Windows(t, p)
  BY DEF OnlyMoves, Settles, Windows, Executors

\* A descriptor that x does not touch is where it was.
LEMMA UntouchedKept ==
    ASSUME NEW x \in Executors, OnlyMoves(x), NEW q, Untouched(x, q)
    PROVE  /\ Settling(q)' <=> Settling(q)
           /\ InPrefetchWindow(q)' <=> InPrefetchWindow(q)
           /\ Mapped(q)' <=> Mapped(q)
           /\ Resident(q) => Resident(q)'
           /\ OnDisk(q) => OnDisk(q)'
           /\ SwappedOut(q) => SwappedOut(q)'
<1>1. Settling(q)' <=> Settling(q)
  BY OthersSettle DEF Settling, Untouched
<1>2. InPrefetchWindow(q)' <=> InPrefetchWindow(q)
  BY OthersSettle, WindowDef DEF Untouched
<1>3. Mapped(q)' <=> Mapped(q)
  BY DEF Mapped, Untouched
<1>4. Mapped(q) => (Present(q)' <=> Present(q))
  BY DEF Untouched, Present
<1>5. OnDisk(q) => OnDisk(q)'
  BY <1>2, <1>3, <1>4 DEF OnDisk, Untouched
<1> QED  BY <1>1, <1>2, <1>3, <1>4, <1>5 DEF Resident, SwappedOut, Untouched

\* Who has a descriptor that is on a list, or in x's hands.
LEMMA NotOthers ==
    ASSUME OwnerInv, PlaceInv, NEW x \in Executors, NEW q \in Pages,
           \/ page[q].list \notin {"none", "disk_active"}
           \/ \E r \in Roles : Holds(x, r, q)
    PROVE  \A f \in Executors \ {x} : Apart(f, q)
<1> SUFFICES ASSUME NEW f \in Executors \ {x} PROVE Apart(f, q)
  OBVIOUS
<1>1. \A r \in Roles : ~Holds(f, r, q)
  BY DEF OwnerInv, Ownership
<1>2. page[q].list # "disk_active"
  BY DEF OwnerInv, Ownership
<1>3. ASSUME f \in Evictors, evict[f].victim = q PROVE FALSE
  <2>1. pc[f] \in EvictPcs
    <3>1. q # 0
      BY DEF Pages
    <3> QED BY <1>3, <3>1 DEF OwnerInv, TypeInv, UseInv, LocalsOK, LocalOK, EvictorOK
  <2>2. ~HoldsVictim(f)
    BY <1>1, <1>3 DEF Holds, Roles
  <2>3. pc[f] = "release" \/ (pc[f] = "free_frame" /\ ~evict[f].backed)
    BY <2>1, <2>2 DEF HoldsVictim, EvictPcs
  <2>4. VictimOK(f)
    BY <1>3 DEF PlaceInv, HeldOK
  <2> QED  BY <1>2, <1>3, <2>3, <2>4 DEF VictimOK
<1> QED  BY <1>1, <1>3 DEF Apart

\* What f holds is not touched by a step of x that only touches descriptors
\* that f does not have; a page f settles keeps its flags.
LEMMA HeldLift ==
    ASSUME OwnerInv, PlaceInv, NEW x \in Executors, OnlyMoves(x), NEW C \in SUBSET Pages,
           \A q \in Pages \ C : Untouched(x, q),
           NEW f \in Executors \ {x},
           \A q \in C : Apart(f, q),
           \A q \in C : Settles(f, q) =>
             /\ page'[q].swapped_out /\ page'[q].migrating /\ page'[q].reserve # 0
             /\ page'[q].in_dram => page[q].in_dram
    PROVE  HeldOK(f)'
<1>0. /\ HeldOK(f) /\ LocalOK(f) /\ TypeOK
      /\ pc'[f] = pc[f]
      /\ f \in Threads => fault'[f] = fault[f] /\ fault[f] \in FaultLocals
      /\ f \in Scanners => scan'[f] = scan[f] /\ scan[f] \in Pages \cup {0}
      /\ f \in Evictors => evict'[f] = evict[f] /\ evict[f] \in EvictLocals
  BY DEF PlaceInv, OwnerInv, TypeInv, UseInv, TypeOK, LocalsOK, OnlyMoves
<1>1. ASSUME NEW q \in Pages, NEW r \in Roles, Holds(f, r, q)
      PROVE  q \notin C
  BY <1>1 DEF Apart
<1>2. ASSUME f \in Evictors PROVE VictimOK(f)' /\ DpageOK(f)'
  <2>p. PICK p, d : p = evict[f].victim /\ d = evict[f].dpage
    OBVIOUS
  <2>0. VictimOK(f) /\ DpageOK(f) /\ EvictorOK(f) /\ p \in Pages \cup {0} /\ d \in Pages \cup {0}
    BY <1>0, <1>2, <2>p DEF HeldOK, LocalOK, EvictLocals
  <2>1. ASSUME p # 0 PROVE Untouched(x, p)
    BY <1>2, <2>0, <2>1, <2>p DEF Apart
  <2>2. ASSUME d # 0 PROVE Untouched(x, d)
    <3>1. d \in Pages /\ Holds(f, "dpage", d)
      BY <1>2, <2>0, <2>2, <2>p DEF Holds
    <3> QED  BY <1>1, <3>1 DEF Roles
  <2>3. VictimOK(f)'
    <3>1. CASE p = 0
      <4>1. pc[f] \notin EvictPcs
        BY <2>0, <2>p, <3>1 DEF EvictorOK
      <4> QED  BY <1>0, <4>1 DEF VictimOK, EvictPcs
    <3>2. CASE p # 0
      <4>1. /\ Settling(p)' <=> Settling(p)
            /\ Resident(p) => Resident(p)'
            /\ OnDisk(p) => OnDisk(p)'
            /\ page'[p] = page[p]
        BY <2>1, <3>2, UntouchedKept DEF Untouched
      <4> QED  BY <1>0, <1>2, <2>0, <2>p, <4>1 DEF VictimOK
    <3> QED  BY <3>1, <3>2
  <2>4. DpageOK(f)'
    <3>1. CASE p = 0
      <4>1. pc[f] \notin EvictPcs /\ d = 0
        BY <2>0, <2>p, <3>1 DEF EvictorOK, EvictPcs
      <4> QED  BY <1>0, <1>2, <2>p, <4>1 DEF DpageOK, EvictPcs
    <3>2. CASE p # 0
      <4>1. page'[p] = page[p] /\ (d # 0 => page'[d] = page[d])
        BY <2>1, <2>2, <3>2 DEF Untouched
      <4> QED  BY <1>0, <1>2, <2>0, <2>p, <4>1 DEF DpageOK
    <3> QED  BY <3>1, <3>2
  <2> QED  BY <2>3, <2>4
<1>3. ASSUME f \in Scanners PROVE ScanOK(f)'
  <2>1. CASE scan[f] = 0
    BY <1>0, <1>3, <2>1 DEF ScanOK
  <2>2. CASE scan[f] # 0
    <3>1. scan[f] \in Pages /\ Holds(f, "scan", scan[f])
      BY <1>0, <1>3, <2>2 DEF Holds
    <3>2. Untouched(x, scan[f])
      BY <1>1, <3>1 DEF Roles
    <3>3. Resident(scan[f])'
      BY <1>0, <1>3, <2>2, <3>2, UntouchedKept DEF HeldOK, ScanOK
    <3> QED  BY <1>0, <1>3, <3>3 DEF ScanOK
  <2> QED  BY <2>1, <2>2
<1>4. ASSUME f \in Threads PROVE ReadOK(f)'
  <2> SUFFICES ASSUME NEW i \in DOMAIN fault[f].reading
               PROVE  SwappedOut(fault[f].reading[i])' /\ page'[fault[f].reading[i]].migrating
    BY <1>0, <1>4 DEF ReadOK
  <2> DEFINE p == fault[f].reading[i]
  <2>1. p \in Pages
    BY <1>0, <1>4 DEF FaultLocals
  <2>2. Holds(f, "read", p)
    BY <1>4 DEF Holds
  <2>3. Untouched(x, p)
    BY <1>1, <2>1, <2>2 DEF Roles
  <2> QED  BY <1>0, <1>4, <2>3, UntouchedKept DEF HeldOK, ReadOK, Untouched
<1>5. ASSUME f \in Threads PROVE FreeOK(f)'
  <2>1. ASSUME NEW i \in DOMAIN fault[f].frees PROVE Untouched(x, fault[f].frees[i])
    <3>1. fault[f].frees[i] \in Pages
      BY <1>0, <1>5 DEF FaultLocals
    <3>2. Holds(f, "free", fault[f].frees[i])
      BY <1>5 DEF Holds
    <3> QED  BY <1>1, <3>1, <3>2 DEF Roles
  <2>2. CASE pc[f] \notin {"map", "add"}
    BY <1>0, <1>5, <2>1, <2>2 DEF HeldOK, FreeOK, Untouched
  <2>3. CASE pc[f] \in {"map", "add"}
    <3>1. 1 \in DOMAIN fault[f].frees
      BY <1>0, <1>5, <2>3 DEF LocalOK, ThreadOK, FirstPcs, FaultLocals
    <3>n. PICK n : n = fault[f].frees[1]
      OBVIOUS
    <3>2. Untouched(x, n) /\ Mapped(n)
      BY <1>5, <2>1, <2>3, <3>1, <3>n DEF OwnerInv, TypeInv, UseInv, LocalsMapped, LocalMapped, LocalUsed
    <3>3. Resident(n) => Resident(n)'
      BY <3>2, UntouchedKept
    <3>4. Present(n)' <=> Present(n)
      BY <3>2 DEF Present, Untouched
    <3> QED  BY <1>0, <1>5, <2>3, <3>2, <3>3, <3>4, <3>n DEF HeldOK, FreeOK, Untouched
  <2> QED  BY <2>2, <2>3
<1>6. ASSUME f \in Threads PROVE SettleOK(f)'
  <2> SUFFICES ASSUME pc[f] \in SettlePcs PROVE SettleOK(f)'
    BY <1>0 DEF SettleOK
  <2>p. PICK p : p = fault[f].page
    OBVIOUS
  <2>1. p \in Pages /\ Settles(f, p) /\ SettleOK(f)
    BY <1>0, <1>6, <2>p DEF LocalOK, ThreadOK, Settles, HeldOK, FaultLocals
  <2>2. Windows(f, p)' <=> Windows(f, p)
    BY OthersSettle
  <2>3. CASE p \notin C
    <3>1. page'[p] = page[p] /\ (Resident(p) => Resident(p)')
      BY <2>1, <2>3, UntouchedKept DEF Untouched
    <3> QED  BY <1>0, <1>6, <2>1, <2>2, <2>p, <3>1 DEF SettleOK
  <2>4. CASE p \in C
    <3>1. pc[f] # "publish"
      <4>1. ~Holds(f, "page", p)
        BY <2>4 DEF Apart, Roles
      <4> QED  BY <1>6, <2>p, <4>1 DEF Holds
    <3>2. /\ page'[p].swapped_out /\ page'[p].migrating /\ page'[p].reserve # 0
          /\ page'[p].in_dram => page[p].in_dram
      BY <2>1, <2>4
    <3> QED  BY <1>0, <1>6, <2>1, <2>2, <2>p, <3>1, <3>2 DEF SettleOK
  <2> QED  BY <2>3, <2>4
<1> QED  BY <1>2, <1>3, <1>4, <1>5, <1>6 DEF HeldOK


\* A descriptor on a list that the step does not touch.
LEMMA ListLift ==
    ASSUME NEW x \in Executors, OnlyMoves(x), NEW q \in Pages, Untouched(x, q), ListOK(q),
           page'[q].list = "disk_reserve" => ReserveOK(q)'
    PROVE  ListOK(q)'
  BY UntouchedKept DEF ListOK, Untouched

\* The reserves are paired as before when no descriptor gains or loses one.
LEMMA PairsQuiet ==
    ASSUME PlaceInv, TypeOK, NEW x \in Executors, OnlyMoves(x),
           \A p \in Pages : /\ page'[p].va = page[p].va /\ page'[p].reserve = page[p].reserve
                            /\ page'[p].list = "disk_reserve" <=> page[p].list = "disk_reserve",
           \A p, d \in Pages : Backs(x, p, d) => Backs(x, p, d)'
    PROVE  /\ \A p \in Pages : PairOK(p)'
           /\ \A d \in Pages : page'[d].list = "disk_reserve" => ReserveOK(d)'
<1>1. \A p, d \in Pages, e \in Executors : Backs(e, p, d) => Backs(e, p, d)'
  BY DEF OnlyMoves, Backs
<1>2. ASSUME NEW p \in Pages PROVE PairOK(p)'
  <2> SUFFICES ASSUME page[p].va \in VA, page[p].reserve # 0
               PROVE  /\ page'[page[p].reserve].va = 0 /\ page'[page[p].reserve].reserve = p
                      /\ \/ page'[page[p].reserve].list = "disk_reserve"
                         \/ \E e \in Executors : Backs(e, p, page[p].reserve)'
    <3>d. PICK d : d = page[p].reserve /\ d = page'[p].reserve
      OBVIOUS
    <3> QED  BY <3>d DEF PairOK, Mapped
  <2>1. page[p].reserve \in Pages /\ PairOK(p) /\ Mapped(p)
    BY DEF TypeOK, UserPage, PlaceInv, Mapped
  <2>d. PICK d \in Pages : d = page[p].reserve
    BY <2>1
  <2>2. /\ page[d].va = 0 /\ page[d].reserve = p
        /\ page[d].list = "disk_reserve" \/ \E e \in Executors : Backs(e, p, d)
    BY <2>1, <2>d DEF PairOK
  <2>3. page'[d].list = "disk_reserve" \/ \E e \in Executors : Backs(e, p, d)'
    BY <1>1, <2>2
  <2>4. page'[p].reserve = d
    BY <2>d
  <2> QED  BY <2>2, <2>3, <2>4, <2>d
<1>3. ASSUME NEW d \in Pages, page'[d].list = "disk_reserve" PROVE ReserveOK(d)'
  <2>1. ReserveOK(d)
    BY <1>3 DEF PlaceInv, ListOK
  <2> QED  BY <2>1 DEF ReserveOK, Mapped
<1> QED  BY <1>2, <1>3

\* What the invariant says about pairs of executors, and about the hash table.
GlobalsOK == VictimOnce /\ SettleOnce /\ Hashed /\ PresentHashed

\* They carry over a step that takes no victim, settles no new page and maps
\* nothing.
LEMMA GlobalsQuiet ==
    ASSUME PlaceInv, TypeOK, NEW x \in Executors, OnlyMoves(x),
           x \in Evictors => evict'[x].victim \in {0, evict[x].victim},
           \A q \in Pages : Settles(x, q)' => Settles(x, q), LocalsOK', TypeOK',
           pages' = pages, \A p \in Pages : page'[p].va = page[p].va,
           \A v \in VA : pte'[v].present => pte[v].present
    PROVE  GlobalsOK'
<1>1. VictimOnce'
  <2> SUFFICES ASSUME NEW e \in Evictors, NEW f \in Evictors, evict'[e].victim # 0,
                      evict'[e].victim = evict'[f].victim
               PROVE  e = f
    BY DEF VictimOnce
  <2>1. evict'[e].victim = evict[e].victim /\ evict'[f].victim = evict[f].victim
    BY DEF OnlyMoves, Evictors, Executors
  <2> QED  BY <2>1 DEF PlaceInv, VictimOnce
<1>2. SettleOnce'
  <2> SUFFICES ASSUME NEW t \in Threads, NEW u \in Threads, pc'[t] \in SettlePcs,
                      pc'[u] \in SettlePcs, fault'[t].page = fault'[u].page
               PROVE  t = u
    BY DEF SettleOnce
  <2>p. PICK p : p = fault'[t].page
    OBVIOUS
  <2>0. p \in Pages
    <3>1. LocalOK(t)' /\ fault'[t] \in FaultLocals
      BY DEF LocalsOK, TypeOK, Executors
    <3> QED  BY <2>p, <3>1 DEF LocalOK, ThreadOK, FaultLocals
  <2>1. Settles(t, p)' /\ Settles(u, p)'
    BY <2>p DEF Settles
  <2>2. Settles(t, p) /\ Settles(u, p)
    BY <2>0, <2>1, OthersSettle DEF Executors
  <2> QED  BY <2>2 DEF PlaceInv, SettleOnce, Settles
<1>3. Hashed'
  BY DEF PlaceInv, Hashed, Mapped
<1>4. PresentHashed'
  BY DEF PlaceInv, PresentHashed
<1> QED  BY <1>1, <1>2, <1>3, <1>4 DEF GlobalsOK

\* The pages a thread reads, and the frames it has got, when the step does not
\* touch them.
LEMMA BatchKept ==
    ASSUME OwnerInv, PlaceInv, NEW x \in Threads, OnlyMoves(x), NEW C \in SUBSET Pages,
           \A q \in Pages \ C : Untouched(x, q),
           \A q \in C : ~Holds(x, "read", q) /\ ~Holds(x, "free", q),
           pc[x] \notin {"map", "add"}, pc'[x] \notin {"map", "add"}
    PROVE  /\ fault'[x].reading = fault[x].reading => ReadOK(x)'
           /\ fault'[x].frees = fault[x].frees => FreeOK(x)'
<1>0. x \in Executors /\ fault[x] \in FaultLocals /\ ReadOK(x) /\ FreeOK(x)
  BY DEF Executors, OwnerInv, TypeInv, UseInv, TypeOK, PlaceInv, HeldOK
<1>1. ASSUME NEW i \in DOMAIN fault[x].reading PROVE Untouched(x, fault[x].reading[i])
  <2>1. fault[x].reading[i] \in Pages /\ Holds(x, "read", fault[x].reading[i])
    BY <1>0 DEF FaultLocals, Holds
  <2> QED  BY <2>1
<1>2. ASSUME NEW i \in DOMAIN fault[x].frees PROVE Untouched(x, fault[x].frees[i])
  <2>1. fault[x].frees[i] \in Pages /\ Holds(x, "free", fault[x].frees[i])
    BY <1>0 DEF FaultLocals, Holds
  <2> QED  BY <2>1
<1>3. ASSUME fault'[x].reading = fault[x].reading PROVE ReadOK(x)'
  <2> SUFFICES ASSUME NEW i \in DOMAIN fault[x].reading, NEW p, p = fault[x].reading[i]
               PROVE  SwappedOut(p)' /\ page'[p].migrating
    BY <1>3 DEF ReadOK
  <2>1. Untouched(x, p) /\ SwappedOut(p) /\ page[p].migrating
    BY <1>0, <1>1 DEF ReadOK
  <2> QED  BY <1>0, <2>1, UntouchedKept DEF Untouched
<1>4. ASSUME fault'[x].frees = fault[x].frees PROVE FreeOK(x)'
  BY <1>0, <1>2, <1>4 DEF FreeOK, Untouched
<1> QED  BY <1>3, <1>4

\* A step of x, as seen by the whole invariant.
LEMMA PlaceLift ==
    ASSUME OwnerInv, PlaceInv, NEW x \in Executors, OnlyMoves(x), NEW C \in SUBSET Pages,
           \A q \in Pages \ C : Untouched(x, q),
           \A q \in C, f \in Executors \ {x} : Apart(f, q),
           \A q \in C, f \in Executors \ {x} : Settles(f, q) =>
             /\ page'[q].swapped_out /\ page'[q].migrating /\ page'[q].reserve # 0
             /\ page'[q].in_dram => page[q].in_dram,
           HeldOK(x)', \A q \in C : ListOK(q)',
           \A p \in Pages : PairOK(p)',
           \A d \in Pages : page'[d].list = "disk_reserve" => ReserveOK(d)',
           GlobalsOK'
    PROVE  PlaceInv'
<1>1. \A f \in Executors \ {x} : HeldOK(f)'
  BY HeldLift
<1>2. \A q \in Pages \ C : ListOK(q)'
  BY ListLift DEF PlaceInv
<1> QED  BY <1>1, <1>2 DEF PlaceInv, GlobalsOK


\* A page some thread settles has its flags set.
LEMMA SettleFlags ==
    ASSUME PlaceInv, NEW q, Settling(q)
    PROVE  page[q].swapped_out /\ page[q].migrating /\ page[q].reserve # 0
  BY DEF Settling, Settles, PlaceInv, HeldOK, SettleOK

\* A mapped page stays one, and a page on disk stays there, when the fields
\* that matter do.
LEMMA FieldsKept ==
    ASSUME NEW x \in Executors, OnlyMoves(x), NEW p,
           page'[p].va = page[p].va, page'[p].virtual_offset = page[p].virtual_offset,
           page'[p].in_dram <=> page[p].in_dram,
           pte'[page[p].va].present <=> pte[page[p].va].present,
           Settles(x, p)' <=> Settles(x, p), Windows(x, p)' <=> Windows(x, p)
    PROVE  /\ Settling(p)' <=> Settling(p)
           /\ (page'[p].swapped_out => page[p].swapped_out) /\ Resident(p) => Resident(p)'
           /\ OnDisk(p) => OnDisk(p)'
<1>1. Settling(p)' <=> Settling(p)
  BY OthersSettle DEF Settling
<1>2. InPrefetchWindow(p)' <=> InPrefetchWindow(p)
  BY OthersSettle, WindowDef
<1> QED  BY <1>1, <1>2 DEF Resident, OnDisk, Present, Mapped

-----------------------------------------------------------------------------
(* The steps of an eviction.                                                *)

\* What a step does to a page that a thread is still settling.
SettleSafe(q) ==
    Settling(q) => /\ page'[q].swapped_out /\ page'[q].migrating /\ page'[q].reserve # 0
                   /\ page'[q].in_dram => page[q].in_dram

\* A descriptor that evictor e has, or takes off a list, and may change.
EvictorTouches(e, q) ==
    /\ \/ page[q].list \notin {"none", "disk_active"}
       \/ Holds(e, "dpage", q)
       \/ q = evict[e].victim
    /\ page'[q].va = page[q].va /\ SettleSafe(q) /\ ListOK(q)'

\* A step of an eviction touches at most two descriptors.
LEMMA EvictLift ==
    ASSUME OwnerInv, OwnerInv', PlaceInv, NEW e \in Evictors, EvictStep(e), failed' = "none",
           NEW a \in Pages, NEW b \in Pages,
           EvictorTouches(e, a), EvictorTouches(e, b),
           \A q \in Pages \ {a, b} :
             page'[q] = page[q] /\ (Mapped(q) => (Present(q)' <=> Present(q))),
           VictimOK(e)', DpageOK(e)', VictimOnce',
           \A p \in Pages : PairOK(p)',
           \A d \in Pages : page'[d].list = "disk_reserve" => ReserveOK(d)',
           \A v \in VA : pte'[v].present => pte[v].present
    PROVE  PlaceInv'
<1>c. PICK C \in SUBSET Pages : C = {a, b}
  OBVIOUS
<1>d. /\ \A q \in C : EvictorTouches(e, q)
      /\ \A q \in Pages \ C : page'[q] = page[q] /\ (Mapped(q) => (Present(q)' <=> Present(q)))
  BY <1>c
<1>0. /\ e \in Executors /\ OnlyMoves(e) /\ EvictorOK(e) /\ TypeOK /\ TypeOK'
      /\ evict[e] \in EvictLocals /\ LocalOK(e) /\ LocalOK(e)'
  BY EvictInv DEF OwnerInv, TypeInv, UseInv, StepOK, Evictors, Executors, LocalsOK, LocalOK, TypeOK
<1>1. UNCHANGED <<pages, fault, scan>>
  BY DEF EvictStep, TakeVictim, ProtectVictim, BackByReserve, BackByFreeSlot, WriteBack,
         UnmapVictim, MarkSwappedOut, FreeFrame, TrackVictim, Abort, sharedVars
<1>3. /\ pc[e] \in {"idle", "reclaim"} \cup EvictPcs /\ pc'[e] \in EvictPcs
  BY <1>0 DEF TypeOK, At, Abort, EvictPcs, EvictStep, TakeVictim, ProtectVictim, BackByReserve,
         BackByFreeSlot, WriteBack, UnmapVictim, MarkSwappedOut, FreeFrame, TrackVictim
<1>4. \A q : /\ Settles(e, q)' <=> Settles(e, q)
             /\ Windows(e, q)' <=> Windows(e, q)
  BY <1>3 DEF Settles, Windows, SettlePcs, EvictPcs
<1>5. \A q \in Pages \ C : Untouched(e, q)
  BY <1>4, <1>d DEF Untouched, Present
<1>6. ASSUME NEW q \in C, NEW f \in Executors \ {e} PROVE Apart(f, q)
  <2>1. CASE page[q].list \notin {"none", "disk_active"} \/ \E r \in Roles : Holds(e, r, q)
    BY <1>0, <2>1, NotOthers
  <2>2. CASE page[q].list \in {"none", "disk_active"} /\ \A r \in Roles : ~Holds(e, r, q)
    <3>1. q = evict[e].victim
      BY <1>d, <2>2 DEF EvictorTouches, Roles
    <3>2. q # 0
      BY DEF Pages
    <3>3. ~HoldsVictim(e)
      BY <2>2, <3>1 DEF Holds, Roles
    <3>4. pc[e] \in EvictPcs
      BY <1>0, <3>1, <3>2 DEF EvictorOK
    <3>5. page[q].list = "disk_active"
      BY <3>1, <3>3, <3>4 DEF HoldsVictim, EvictPcs, PlaceInv, HeldOK, VictimOK, Evictors, Executors
    <3>6. \A r \in Roles : ~Holds(f, r, q)
      BY <3>5 DEF OwnerInv, Ownership
    <3>7. f \in Evictors => evict[f].victim # q
      BY <3>1, <3>2 DEF PlaceInv, VictimOnce
    <3> QED  BY <3>6, <3>7 DEF Apart
  <2> QED  BY <2>1, <2>2
<1>7. \A q \in C, f \in Executors \ {e} : Settles(f, q) =>
        /\ page'[q].swapped_out /\ page'[q].migrating /\ page'[q].reserve # 0
        /\ page'[q].in_dram => page[q].in_dram
  BY <1>d DEF Settling, EvictorTouches, SettleSafe
<1>8. HeldOK(e)'
  <2>1. e \in Scanners => ScanOK(e)'
    BY <1>0, <1>1, <1>3 DEF LocalOK, ScanOK, ScanPcs, EvictPcs
  <2>2. ASSUME e \in Threads PROVE ReadOK(e)' /\ FreeOK(e)' /\ SettleOK(e)'
    <3>1. ASSUME NEW q \in C PROVE ~Holds(e, "read", q) /\ ~Holds(e, "free", q)
      <4>1. CASE page[q].list # "none"
        BY <1>0, <4>1 DEF OwnerInv, Ownership, Roles
      <4>2. CASE Holds(e, "dpage", q)
        BY <1>0, <4>2 DEF OwnerInv, Ownership, Roles
      <4>3. CASE q = evict[e].victim /\ page[q].list = "none"
        <5>1. pc[e] \in EvictPcs /\ VictimOK(e)
          BY <1>0, <4>3 DEF EvictorOK, Pages, PlaceInv, HeldOK
        <5>2. HoldsVictim(e)
          BY <4>3, <5>1 DEF VictimOK, HoldsVictim, EvictPcs
        <5>3. Holds(e, "victim", q)
          BY <4>3, <5>2 DEF Holds
        <5> QED  BY <1>0, <5>3 DEF OwnerInv, Ownership, Roles
      <4> QED  BY <1>d, <4>1, <4>2, <4>3 DEF EvictorTouches
    <3>2. pc[e] \notin {"map", "add"} /\ pc'[e] \notin {"map", "add"} \cup SettlePcs
      BY <1>3 DEF EvictPcs, SettlePcs
    <3>3. ReadOK(e)' /\ FreeOK(e)'
      BY <1>0, <1>1, <1>5, <2>2, <3>1, <3>2, BatchKept
    <3> QED  BY <3>2, <3>3 DEF SettleOK
  <2> QED  BY <2>1, <2>2 DEF HeldOK
<1>9. SettleOnce'
  BY <1>0, <1>4, <1>1, <1>3 DEF PlaceInv, SettleOnce, OnlyMoves, SettlePcs, EvictPcs, Executors
<1>10. Hashed' /\ PresentHashed'
  BY <1>1, <1>d DEF PlaceInv, Hashed, PresentHashed, Mapped, EvictorTouches
<1>11. GlobalsOK'
  BY <1>9, <1>10 DEF GlobalsOK
<1>12. \A q \in C : ListOK(q)'
  BY <1>d DEF EvictorTouches
<1> QED  BY <1>0, <1>5, <1>6, <1>7, <1>8, <1>11, <1>12, PlaceLift


\* The victim is taken from eviction_list, protected, and unmapped.
LEMMA EvictPlaceA ==
    ASSUME OwnerInv, OwnerInv', PlaceInv, NEW e \in Evictors, failed' = "none",
           TakeVictim(e) \/ ProtectVictim(e) \/ WriteBack(e) \/ UnmapVictim(e) \/ MarkSwappedOut(e)
    PROVE  PlaceInv'
<1>0. /\ e \in Executors /\ EvictStep(e) /\ OnlyMoves(e) /\ EvictorOK(e) /\ EvictorOK(e)'
      /\ TypeOK /\ TypeOK' /\ page \in [Pages -> UserPage]
      /\ evict[e] \in EvictLocals /\ VictimOK(e) /\ DpageOK(e)
  BY EvictInv DEF OwnerInv, TypeInv, UseInv, StepOK, Evictors, Executors, LocalsOK, LocalOK, TypeOK,
                  PlaceInv, HeldOK, EvictStep
<1>1. CASE TakeVictim(e)
  <2>p. PICK p : p = Head(fifo["eviction"])
    OBVIOUS
  <2>1. /\ fifo["eviction"] # <<>> /\ fifo["eviction"] \in Seq(Pages)
        /\ page' = [page EXCEPT ![p].list = "none"]
        /\ evict' = [evict EXCEPT ![e].victim = p]
        /\ pc' = [pc EXCEPT ![e] = "protect"]
        /\ pc[e] \in {"idle", "reclaim"}
        /\ UNCHANGED <<pages, pte, disk, fault, scan, failed>>
    BY <1>0, <1>1, <2>p DEF TakeVictim, At, TypeOK, Queues
  <2>2. p \in Pages /\ page[p].list = "eviction"
    <3>1. p \in Pages /\ p = fifo["eviction"][1] /\ 1 \in DOMAIN fifo["eviction"]
      BY <2>p, <2>1, HeadTail
    <3> QED  BY <3>1 DEF OwnerInv, QueuesMatch, Queues
  <2>3. /\ \A q \in Pages \ {p} : page'[q] = page[q]
        /\ page'[p] = [page[p] EXCEPT !.list = "none"]
        /\ page'[p].list = "none"
        /\ \A q \in Pages : /\ page'[q].va = page[q].va /\ page'[q].reserve = page[q].reserve
                            /\ page'[q].virtual_offset = page[q].virtual_offset
                            /\ page'[q].in_dram = page[q].in_dram
                            /\ page'[q].migrating = page[q].migrating
                            /\ page'[q].swapped_out = page[q].swapped_out
    BY <1>0, <2>1, <2>2 DEF UserPage
  <2>4. \A q : Present(q)' <=> pte[page'[q].va].present
    BY <2>1 DEF Present
  <2>5. /\ \A q : Settles(e, q)' <=> Settles(e, q)
        /\ \A q : Windows(e, q)' <=> Windows(e, q)
    BY <1>0, <2>1 DEF Settles, Windows, SettlePcs, TypeOK
  <2>6. Resident(p)'
    <3>1. Resident(p)
      BY <2>2 DEF PlaceInv, ListOK
    <3> QED  BY <1>0, <2>1, <2>2, <2>3, <2>5, <3>1, FieldsKept
  <2>7. VictimOK(e)' /\ DpageOK(e)'
    <3>1. pc'[e] = "protect" /\ evict'[e].victim = p
      BY <1>0, <2>1 DEF TypeOK, EvictLocals
    <3>2. evict'[e].dpage = 0
      BY <1>0, <3>1 DEF EvictorOK
    <3> QED  BY <2>6, <3>1, <3>2 DEF VictimOK, DpageOK
  <2>8. VictimOnce'
    <3>1. \A f \in Executors \ {e} : Apart(f, p)
      BY <1>0, <2>2, NotOthers
    <3>2. \A f \in Evictors \ {e} : evict'[f].victim = evict[f].victim /\ evict[f].victim # p
      BY <1>0, <2>1, <3>1 DEF Apart, Evictors, Executors
    <3>3. evict'[e].victim = p
      BY <1>0, <2>1 DEF TypeOK, EvictLocals
    <3> QED  BY <3>2, <3>3 DEF PlaceInv, VictimOnce
  <2>9. /\ \A q \in Pages : PairOK(q)'
        /\ \A d \in Pages : page'[d].list = "disk_reserve" => ReserveOK(d)'
    <3>1. \A a, d \in Pages : ~Backs(e, a, d)
      BY <2>1 DEF Backs
    <3> QED  BY <1>0, <2>2, <2>3, <3>1, PairsQuiet
  <2>10. ListOK(p)'
    BY <2>3 DEF ListOK
  <2>11. EvictorTouches(e, p)
    BY <2>2, <2>3, <2>10, SettleFlags DEF EvictorTouches, SettleSafe
  <2>12. \A q \in Pages \ {p} : Present(q)' <=> Present(q)
    BY <2>3, <2>4 DEF Present
  <2>13. \A v \in VA : pte'[v].present => pte[v].present
    BY <2>1
  <2> QED
    BY <1>0, <2>2, <2>3, <2>7, <2>8, <2>9, <2>11, <2>12, <2>13, EvictLift
<1>p. PICK p, d : p = evict[e].victim /\ d = evict[e].dpage
  OBVIOUS
<1>h. ASSUME pc[e] \in {"protect", "back", "write", "unmap", "mark"}
      PROVE  p \in Pages /\ page[p].list = "none" /\ Mapped(p)
  <2>1. p \in Pages /\ p # 0
    BY <1>0, <1>h, <1>p DEF EvictorOK, EvictPcs, EvictLocals
  <2>2. Holds(e, "victim", p)
    BY <1>h, <1>p DEF Holds, HoldsVictim
  <2> QED
    BY <1>0, <1>p, <2>1, <2>2 DEF OwnerInv, Ownership, Roles, TypeInv, UseInv, LocalsMapped, LocalMapped, LocalUsed
<1>s. ASSUME evict'[e].victim = p PROVE VictimOnce'
  <2>1. \A f \in Evictors : evict'[f].victim = evict[f].victim
    BY <1>0, <1>p, <1>s DEF OnlyMoves, Evictors, Executors
  <2> QED  BY <2>1 DEF PlaceInv, VictimOnce
<1>w. ASSUME pc[e] \in EvictPcs, pc'[e] \in EvictPcs
      PROVE  \A q : /\ Settles(e, q)' <=> Settles(e, q)
                    /\ Windows(e, q)' <=> Windows(e, q)
  BY <1>w DEF Settles, Windows, SettlePcs, EvictPcs
<1>2. CASE ProtectVictim(e)
  <2>1. /\ page' = [page EXCEPT ![p].migrating = TRUE]
        /\ pte' = [pte EXCEPT ![page[p].va].wp = @ \/ pte[page[p].va].present]
        /\ evict' = [evict EXCEPT ![e].old_offset = page[p].virtual_offset]
        /\ pc' = [pc EXCEPT ![e] = "back"] /\ pc[e] = "protect"
        /\ UNCHANGED <<fifo, pages, disk, fault, scan, failed>>
    BY <1>p, <1>2 DEF ProtectVictim, At, Victim, UffdioWriteprotect
  <2>2. /\ pc'[e] = "back" /\ evict'[e].victim = p /\ evict'[e].dpage = d /\ d = 0
        /\ p \in Pages /\ page[p].list = "none" /\ Mapped(p) /\ Resident(p)
    BY <1>0, <1>p, <1>h, <2>1 DEF TypeOK, EvictLocals, EvictorOK, VictimOK
  <2>3. /\ \A q \in Pages \ {p} : page'[q] = page[q]
        /\ \A q \in Pages : /\ page'[q].va = page[q].va /\ page'[q].reserve = page[q].reserve
                            /\ page'[q].virtual_offset = page[q].virtual_offset
                            /\ page'[q].in_dram = page[q].in_dram
                            /\ page'[q].list = page[q].list
                            /\ page'[q].swapped_out = page[q].swapped_out
        /\ page'[p].migrating
    BY <1>0, <2>1, <2>2 DEF UserPage
  <2>4. \A v \in VA : pte'[v].present = pte[v].present
    BY <1>0, <2>1 DEF TypeOK, Pte
  <2>5. Resident(p)'
    BY <1>0, <1>w, <2>1, <2>2, <2>3, <2>4, FieldsKept DEF Mapped, EvictPcs
  <2>6. VictimOK(e)' /\ DpageOK(e)'
    <3>1. InDram(evict'[e].old_offset)
      BY <1>0, <2>1, <2>2 DEF TypeOK, EvictLocals, Resident
    <3> QED  BY <2>2, <2>5, <3>1 DEF VictimOK, DpageOK
  <2>7. /\ \A q \in Pages : PairOK(q)'
        /\ \A c \in Pages : page'[c].list = "disk_reserve" => ReserveOK(c)'
    <3>1. \A a, c \in Pages : ~Backs(e, a, c)
      BY <2>1 DEF Backs
    <3> QED  BY <1>0, <2>3, <3>1, PairsQuiet
  <2>8. EvictorTouches(e, p)
    <3>1. ListOK(p)'
      BY <2>2, <2>3 DEF ListOK
    <3> QED  BY <1>p, <2>2, <2>3, <3>1, SettleFlags DEF EvictorTouches, SettleSafe
  <2>9. \A q \in Pages \ {p} : Mapped(q) => (Present(q)' <=> Present(q))
    BY <2>3, <2>4 DEF Present, Mapped
  <2> QED  BY <1>0, <1>s, <2>2, <2>3, <2>4, <2>6, <2>7, <2>8, <2>9, EvictLift
<1>3. CASE WriteBack(e)
  <2>1. /\ page' = [page EXCEPT ![p].migrating = @ \/ e \in Threads]
        /\ pc' = [pc EXCEPT ![e] = "unmap"] /\ pc[e] = "write" /\ page[p].in_dram
        /\ UNCHANGED <<fifo, pages, pte, fault, scan, evict, failed>>
    BY <1>p, <1>3 DEF WriteBack, At, Victim, Abort
  <2>2. /\ pc'[e] = "unmap" /\ d \in Pages
        /\ p \in Pages /\ page[p].list = "none" /\ Mapped(p) /\ Resident(p)
    BY <1>0, <1>p, <1>h, <2>1 DEF TypeOK, EvictLocals, EvictorOK, VictimOK
  <2>3. /\ \A q \in Pages \ {p} : page'[q] = page[q]
        /\ \A q \in Pages : /\ page'[q].va = page[q].va /\ page'[q].reserve = page[q].reserve
                            /\ page'[q].virtual_offset = page[q].virtual_offset
                            /\ page'[q].in_dram = page[q].in_dram
                            /\ page'[q].list = page[q].list
                            /\ page'[q].swapped_out = page[q].swapped_out
        /\ page[p].migrating => page'[p].migrating
    BY <1>0, <2>1, <2>2 DEF UserPage
  <2>4. \A v \in VA : pte'[v].present = pte[v].present
    BY <2>1
  <2>5. Resident(p)'
    BY <1>0, <1>w, <2>1, <2>2, <2>3, <2>4, FieldsKept DEF Mapped, EvictPcs
  <2>6. VictimOK(e)'
    BY <1>0, <1>p, <2>1, <2>2, <2>3, <2>5 DEF VictimOK, EvictPcs
  <2>7. DpageOK(e)'
    BY <1>0, <1>p, <2>1, <2>2, <2>3 DEF DpageOK, SlotDesc
  <2>8. /\ \A q \in Pages : PairOK(q)'
        /\ \A c \in Pages : page'[c].list = "disk_reserve" => ReserveOK(c)'
    <3>1. \A a, c \in Pages : Backs(e, a, c) => Backs(e, a, c)'
      BY <2>1, <2>2 DEF Backs
    <3> QED  BY <1>0, <2>3, <3>1, PairsQuiet
  <2>9. EvictorTouches(e, p)
    <3>1. ListOK(p)'
      BY <2>2, <2>3 DEF ListOK
    <3> QED  BY <1>p, <2>2, <2>3, <3>1, SettleFlags DEF EvictorTouches, SettleSafe
  <2>10. \A q \in Pages \ {p} : Mapped(q) => (Present(q)' <=> Present(q))
    BY <2>3, <2>4 DEF Present, Mapped
  <2>11. VictimOnce'
    BY <1>p, <1>s, <2>1
  <2> QED  BY <1>0, <2>2, <2>3, <2>4, <2>6, <2>7, <2>8, <2>9, <2>10, <2>11, EvictLift
<1>4. CASE UnmapVictim(e)
  <2>1. /\ page' = [page EXCEPT ![p].virtual_offset = page[d].virtual_offset, ![p].in_dram = FALSE]
        /\ pte' = [pte EXCEPT ![page[p].va] = NoPte]
        /\ pc' = [pc EXCEPT ![e] = "mark"] /\ pc[e] = "unmap"
        /\ UNCHANGED <<fifo, pages, disk, fault, scan, evict, failed>>
    BY <1>p, <1>4 DEF UnmapVictim, At, Victim, DiskPage, MadviseDontneed
  <2>2. /\ pc'[e] = "mark" /\ d \in Pages /\ SlotDesc(page[d]) /\ d # p
        /\ p \in Pages /\ page[p].list = "none" /\ Mapped(p) /\ Resident(p)
    <3>1. d \in Pages /\ SlotDesc(page[d]) /\ pc'[e] = "mark"
      BY <1>0, <1>p, <2>1 DEF TypeOK, EvictLocals, EvictorOK, DpageOK
    <3>2. p \in Pages /\ page[p].list = "none" /\ Mapped(p) /\ Resident(p)
      BY <1>0, <1>p, <1>h, <2>1 DEF VictimOK
    <3> QED  BY <3>1, <3>2 DEF SlotDesc, Mapped, VA
  <2>3. /\ \A q \in Pages \ {p} : page'[q] = page[q]
        /\ \A q \in Pages : /\ page'[q].va = page[q].va /\ page'[q].reserve = page[q].reserve
                            /\ page'[q].migrating = page[q].migrating
                            /\ page'[q].list = page[q].list
                            /\ page'[q].swapped_out = page[q].swapped_out
        /\ page'[p].virtual_offset = page[d].virtual_offset /\ ~page'[p].in_dram
    BY <1>0, <2>1, <2>2 DEF UserPage
  <2>4. /\ \A v \in VA : pte'[v].present => pte[v].present
        /\ \A v \in VA \ {page[p].va} : pte'[v] = pte[v]
        /\ ~pte'[page[p].va].present
    BY <1>0, <2>1, <2>2 DEF TypeOK, Pte, NoPte, Mapped
  <2>5. OnDisk(p)' /\ (page'[p].swapped_out => Settling(p)')
    <3>0. ~InPrefetchWindow(p)'
      <4>1. page[p].in_dram
        BY <1>0, <1>p, <2>1 DEF VictimOK
      <4>2. ASSUME NEW t \in Executors, Windows(t, p)' PROVE FALSE
        <5>1. Windows(t, p)
          BY <1>0, <1>w, <2>1, <2>2, <4>2, OthersSettle DEF EvictPcs
        <5> QED  BY <4>1, <5>1 DEF PlaceInv, HeldOK, SettleOK, Windows, SettlePcs
      <4> QED  BY <4>2, WindowDef
    <3>1. OnDisk(p)'
      BY <2>2, <2>3, <2>4, <3>0 DEF OnDisk, Mapped, Present, SlotDesc
    <3>2. \A t \in Executors : Settles(t, p)' <=> Settles(t, p)
      BY <1>0, <1>w, <2>1, <2>2, OthersSettle DEF EvictPcs
    <3> QED  BY <2>2, <2>3, <3>1, <3>2 DEF Resident, Settling
  <2>6. VictimOK(e)'
    BY <1>0, <1>p, <2>1, <2>2, <2>5 DEF VictimOK, EvictPcs
  <2>7. DpageOK(e)'
    <3>1. evict[e].backed => page[p].reserve = d
      BY <1>0, <1>p, <2>1, <2>2 DEF DpageOK, Pages
    <3>2. ~evict[e].backed => page[p].reserve = 0 /\ page[d].reserve = 0
      BY <1>0, <1>p, <2>1, <2>2 DEF DpageOK, Pages
    <3>3. SlotDesc(page'[d]) /\ page'[d].reserve = page[d].reserve
          /\ page'[p].virtual_offset = page'[d].virtual_offset
      BY <2>2, <2>3
    <3>4. evict'[e] = evict[e] /\ page'[p].reserve = page[p].reserve
      BY <2>1, <2>2, <2>3
    <3> QED  BY <1>p, <2>2, <3>1, <3>2, <3>3, <3>4 DEF DpageOK, Pages
  <2>8. /\ \A q \in Pages : PairOK(q)'
        /\ \A c \in Pages : page'[c].list = "disk_reserve" => ReserveOK(c)'
    <3>1. \A a, c \in Pages : Backs(e, a, c) => Backs(e, a, c)'
      BY <2>1, <2>2 DEF Backs
    <3> QED  BY <1>0, <2>3, <3>1, PairsQuiet
  <2>9. EvictorTouches(e, p)
    <3>1. ListOK(p)'
      BY <2>2, <2>3 DEF ListOK
    <3> QED  BY <1>p, <2>2, <2>3, <3>1, SettleFlags DEF EvictorTouches, SettleSafe
  <2>10. ASSUME NEW q \in Pages \ {p}, Mapped(q) PROVE Present(q)' <=> Present(q)
    <3>1. page[q].va # page[p].va
      BY <2>2, <2>10 DEF PlaceInv, Hashed
    <3>2. pte'[page[q].va] = pte[page[q].va] /\ page'[q].va = page[q].va
      BY <2>3, <2>4, <2>10, <3>1 DEF Mapped
    <3> QED  BY <3>2 DEF Present
  <2>11. VictimOnce'
    BY <1>p, <1>s, <2>1
  <2> QED  BY <1>0, <2>2, <2>3, <2>4, <2>6, <2>7, <2>8, <2>9, <2>10, <2>11, EvictLift
<1>5. CASE MarkSwappedOut(e)
  <2>1. /\ page' = [page EXCEPT ![p].swapped_out = TRUE]
        /\ pc' = [pc EXCEPT ![e] = IF e \in Workers /\ evict[e].backed
                                   THEN "free_frame" ELSE "track"]
        /\ pc[e] = "mark" /\ ~page[p].swapped_out /\ page[p].migrating
        /\ UNCHANGED <<fifo, pages, pte, disk, fault, scan, evict, failed>>
    BY <1>p, <1>5 DEF MarkSwappedOut, At, Victim, Abort
  <2>2. /\ pc'[e] = (IF e \in Workers /\ evict[e].backed THEN "free_frame" ELSE "track")
        /\ d \in Pages /\ p \in Pages /\ page[p].list = "none" /\ Mapped(p) /\ OnDisk(p)
    BY <1>0, <1>p, <1>h, <2>1 DEF TypeOK, EvictLocals, EvictorOK, VictimOK
  <2>3. /\ \A q \in Pages \ {p} : page'[q] = page[q]
        /\ \A q \in Pages : /\ page'[q].va = page[q].va /\ page'[q].reserve = page[q].reserve
                            /\ page'[q].virtual_offset = page[q].virtual_offset
                            /\ page'[q].in_dram = page[q].in_dram
                            /\ page'[q].list = page[q].list
                            /\ page'[q].migrating = page[q].migrating
        /\ page'[p].swapped_out
    BY <1>0, <2>1, <2>2 DEF UserPage
  <2>4. ~Settling(p)
    BY <2>1, SettleFlags
  <2>5. OnDisk(p)' /\ ~Settling(p)'
    BY <1>0, <1>w, <2>1, <2>2, <2>3, <2>4, FieldsKept DEF EvictPcs
  <2>6. VictimOK(e)'
    BY <1>0, <1>p, <2>1, <2>2, <2>3, <2>5 DEF VictimOK, EvictPcs
  <2>7. DpageOK(e)'
    BY <1>0, <1>p, <2>1, <2>2, <2>3 DEF DpageOK, SlotDesc, Pages
  <2>8. /\ \A q \in Pages : PairOK(q)'
        /\ \A c \in Pages : page'[c].list = "disk_reserve" => ReserveOK(c)'
    <3>1. \A a, c \in Pages : Backs(e, a, c) => Backs(e, a, c)'
      BY <2>1, <2>2 DEF Backs
    <3> QED  BY <1>0, <2>3, <3>1, PairsQuiet
  <2>9. EvictorTouches(e, p)
    <3>1. ListOK(p)'
      BY <2>2, <2>3 DEF ListOK
    <3> QED  BY <1>p, <2>2, <2>3, <2>4, <3>1 DEF EvictorTouches, SettleSafe
  <2>10. \A q \in Pages \ {p} : Mapped(q) => (Present(q)' <=> Present(q))
    BY <2>1, <2>3 DEF Present, Mapped
  <2>11. VictimOnce' /\ \A v \in VA : pte'[v].present => pte[v].present
    BY <1>p, <1>s, <2>1
  <2> QED  BY <1>0, <2>2, <2>3, <2>6, <2>7, <2>8, <2>9, <2>10, <2>11, EvictLift
<1> QED  BY <1>1, <1>2, <1>3, <1>4, <1>5

\* A page that is being settled stands for an address.
LEMMA SettlingMapped ==
    ASSUME OwnerInv, NEW q, Settling(q)
    PROVE  Mapped(q)
<1>1. PICK t \in Threads : pc[t] \in SettlePcs /\ fault[t].page = q
  BY DEF Settling, Settles
<1>2. ThreadOK(t) /\ LocalMapped(t)
  BY DEF OwnerInv, TypeInv, UseInv, LocalsOK, LocalOK, LocalsMapped, Executors
<1> QED  BY <1>1, <1>2 DEF ThreadOK, LocalMapped, LocalUsed

\* The reserves are paired as before when the slot of a victim becomes the
\* frame that the victim left.
LEMMA PairsFreed ==
    ASSUME PlaceInv, TypeOK, NEW e \in Executors, OnlyMoves(e), NEW p \in Pages, NEW d \in Pages,
           p = evict[e].victim, Mapped(p), page[d].va = 0,
           page[p].reserve \in {0, d}, page[p].reserve = 0 => page[d].reserve = 0,
           page'[p].reserve = 0, page'[p].list # "disk_reserve", page'[d].va = 0,
           page'[d].list # "disk_reserve", \A q \in Pages \ {p, d} : page'[q] = page[q]
    PROVE  /\ \A q \in Pages : PairOK(q)'
           /\ \A c \in Pages : page'[c].list = "disk_reserve" => ReserveOK(c)'
<1>0. 0 \notin VA /\ d # 0 /\ d # p
  BY DEF VA, Pages, Mapped
<1>b. page[p].reserve = d => page[d].reserve = p
  BY <1>0 DEF PlaceInv, PairOK
<1>1. ASSUME NEW q \in Pages PROVE PairOK(q)'
  <2>1. CASE q \in {p, d}
    BY <1>0, <2>1 DEF PairOK, Mapped
  <2>2. CASE q \notin {p, d} /\ Mapped(q) /\ page[q].reserve # 0
    <3>c. PICK c \in Pages : c = page[q].reserve
      BY <2>2 DEF TypeOK, UserPage
    <3>1. /\ page[c].va = 0 /\ page[c].reserve = q
          /\ page[c].list = "disk_reserve" \/ \E f \in Executors : Backs(f, q, c)
      BY <2>2, <3>c DEF PlaceInv, PairOK
    <3>2. c # d /\ c # p
      BY <1>0, <1>b, <2>2, <3>1 DEF Mapped, Pages
    <3>3. page'[c] = page[c] /\ page'[q] = page[q]
      BY <2>2, <3>2
    <3>4. \A f \in Executors : Backs(f, q, c) => Backs(f, q, c)'
      BY <2>2 DEF Backs, OnlyMoves
    <3> QED  BY <3>c, <3>1, <3>3, <3>4 DEF PairOK
  <2>3. CASE q \notin {p, d} /\ ~(Mapped(q) /\ page[q].reserve # 0)
    <3>1. page'[q] = page[q]
      BY <2>3
    <3> QED  BY <2>3, <3>1 DEF PairOK, Mapped
  <2> QED  BY <2>1, <2>2, <2>3
<1>2. ASSUME NEW c \in Pages, page'[c].list = "disk_reserve" PROVE ReserveOK(c)'
  <2>1. c \notin {p, d} /\ page'[c] = page[c]
    BY <1>2
  <2>2. ReserveOK(c)
    BY <1>2, <2>1 DEF PlaceInv, ListOK
  <2>q. PICK q \in Pages : q = page[c].reserve /\ Mapped(q) /\ page[q].reserve = c
    BY <2>2 DEF ReserveOK
  <2>3. q \notin {p, d}
    BY <1>0, <2>1, <2>q DEF Mapped, Pages
  <2>4. page'[q] = page[q]
    BY <2>3
  <2> QED  BY <2>1, <2>q, <2>4 DEF ReserveOK, Mapped
<1> QED  BY <1>1, <1>2

\* What an evictor that holds its victim knows of it and of the slot's descriptor.
LEMMA EvictorFacts ==
    ASSUME OwnerInv, PlaceInv, NEW e \in Evictors, NEW p, NEW d,
           p = evict[e].victim, d = evict[e].dpage
    PROVE  /\ pc[e] \in EvictPcs => p \in Pages /\ Mapped(p)
           /\ pc[e] \in EvictPcs /\ HoldsVictim(e) => page[p].list = "none"
           /\ d # 0 => d \in Pages /\ page[d].list = "none" /\ page[d].va = 0 /\ d # p
<1>0. /\ e \in Executors /\ evict[e] \in EvictLocals /\ EvictorOK(e) /\ DpageOK(e)
      /\ LocalMapped(e) /\ Ownership
  BY DEF OwnerInv, TypeInv, UseInv, TypeOK, Evictors, Executors, LocalsOK, LocalOK, LocalsMapped,
         PlaceInv, HeldOK
<1>1. pc[e] \in EvictPcs => p \in Pages /\ Mapped(p)
  BY <1>0 DEF EvictorOK, EvictLocals, LocalMapped, LocalUsed
<1>2. pc[e] \in EvictPcs /\ HoldsVictim(e) => page[p].list = "none"
  <2>1. pc[e] \in EvictPcs /\ HoldsVictim(e) => p \in Pages /\ Holds(e, "victim", p)
    BY <1>1 DEF Holds
  <2> QED  BY <1>0, <2>1 DEF Ownership, Roles
<1>3. ASSUME d # 0 PROVE d \in Pages /\ page[d].list = "none" /\ page[d].va = 0 /\ d # p
  <2>1. d \in Pages /\ Holds(e, "dpage", d) /\ pc[e] \in EvictPcs
    BY <1>0, <1>3 DEF EvictLocals, Holds, EvictorOK, EvictPcs
  <2>2. page[d].list = "none"
    BY <1>0, <2>1 DEF Ownership, Roles
  <2>3. page[d].va = 0
    BY <1>0, <1>3 DEF DpageOK, SlotDesc, FrameDesc
  <2> QED  BY <1>1, <2>1, <2>2, <2>3 DEF Mapped, VA
<1> QED  BY <1>1, <1>2, <1>3

\* The victim gets a slot: its reserve, or one that is free.
LEMMA EvictPlaceB ==
    ASSUME OwnerInv, OwnerInv', PlaceInv, NEW e \in Evictors, failed' = "none",
           BackByReserve(e) \/ BackByFreeSlot(e)
    PROVE  PlaceInv'
<1>p. PICK p : p = evict[e].victim
  OBVIOUS
<1>0. /\ e \in Executors /\ EvictStep(e) /\ OnlyMoves(e) /\ EvictorOK(e)
      /\ TypeOK /\ TypeOK' /\ page \in [Pages -> UserPage]
      /\ evict[e] \in EvictLocals /\ VictimOK(e) /\ DpageOK(e)
  BY EvictInv DEF OwnerInv, TypeInv, UseInv, StepOK, Evictors, Executors, LocalsOK, LocalOK, TypeOK,
                  PlaceInv, HeldOK, EvictStep
<1>1. /\ pc[e] = "back" /\ p \in Pages /\ page[p].list = "none" /\ Mapped(p) /\ Resident(p)
      /\ InDram(evict[e].old_offset)
  <2>1. pc[e] = "back"
    BY DEF BackByReserve, BackByFreeSlot, At
  <2> QED  BY <1>0, <1>p, <2>1, EvictorFacts DEF EvictPcs, HoldsVictim, VictimOK
<1>d. PICK d : d = IF page[p].reserve # 0 THEN page[p].reserve ELSE Head(fifo["disk_free"])
  OBVIOUS
<1>2. /\ d \in Pages /\ page[d].list \in {"disk_reserve", "disk_free"} /\ SlotDesc(page[d])
      /\ page[p].reserve # 0 => page[d].list = "disk_reserve" /\ page[d].reserve = p
      /\ page[p].reserve = 0 => page[d].list = "disk_free" /\ page[d].reserve = 0
      /\ page' = [page EXCEPT ![d].list = "none"]
      /\ pc' = [pc EXCEPT ![e] = "write"]
      /\ evict'[e].victim = p /\ evict'[e].dpage = d /\ evict'[e].backed = (page[p].reserve # 0)
      /\ evict'[e].old_offset = evict[e].old_offset
      /\ UNCHANGED <<pages, pte, disk, fault, scan>>
  <2>1. CASE BackByReserve(e)
    <3>1. /\ page[p].reserve = d /\ d # 0 /\ page[d].reserve = p /\ page[d].list = "disk_reserve"
          /\ page' = [page EXCEPT ![d].list = "none"]
          /\ evict' = [evict EXCEPT ![e].dpage = d, ![e].backed = TRUE,
                                    ![e].writeback = NeedsWriteback(p)]
          /\ pc' = [pc EXCEPT ![e] = "write"]
          /\ UNCHANGED <<pages, pte, disk, fault, scan>>
      BY <1>p, <1>d, <2>1 DEF BackByReserve, Victim, Abort
    <3>2. d \in Pages
      BY <1>0, <1>1, <3>1 DEF UserPage
    <3>3. SlotDesc(page[d])
      BY <3>1, <3>2 DEF PlaceInv, ListOK
    <3>4. /\ evict'[e].victim = p /\ evict'[e].dpage = d /\ evict'[e].backed = TRUE
          /\ evict'[e].old_offset = evict[e].old_offset
      BY <1>0, <1>p, <3>1 DEF TypeOK, EvictLocals
    <3> QED  BY <3>1, <3>2, <3>3, <3>4
  <2>2. CASE BackByFreeSlot(e)
    <3>1. /\ page[p].reserve = 0 /\ fifo["disk_free"] # <<>> /\ d = Head(fifo["disk_free"])
          /\ page' = [page EXCEPT ![d].list = "none"]
          /\ evict' = [evict EXCEPT ![e].dpage = d, ![e].backed = FALSE,
                                    ![e].writeback = NeedsWriteback(p)]
          /\ pc' = [pc EXCEPT ![e] = "write"]
          /\ UNCHANGED <<pages, pte, disk, fault, scan>>
      BY <1>p, <1>d, <2>2 DEF BackByFreeSlot, Victim, Abort
    <3>2. d \in Pages /\ page[d].list = "disk_free"
      <4>1. fifo["disk_free"] \in Seq(Pages) /\ "disk_free" \in Queues
        BY <1>0 DEF TypeOK, Queues
      <4>2. d \in Pages /\ d = fifo["disk_free"][1] /\ 1 \in DOMAIN fifo["disk_free"]
        BY <3>1, <4>1, HeadTail
      <4> QED BY <4>1, <4>2 DEF OwnerInv, QueuesMatch
    <3>3. SlotDesc(page[d]) /\ page[d].reserve = 0
      BY <3>2 DEF PlaceInv, ListOK
    <3>4. /\ evict'[e].victim = p /\ evict'[e].dpage = d /\ evict'[e].backed = FALSE
          /\ evict'[e].old_offset = evict[e].old_offset
      BY <1>0, <1>p, <3>1 DEF TypeOK, EvictLocals
    <3> QED  BY <3>1, <3>2, <3>3, <3>4
  <2> QED  BY <2>1, <2>2
<1>3. /\ \A q \in Pages \ {d} : page'[q] = page[q]
      /\ \A q \in Pages : /\ page'[q].va = page[q].va /\ page'[q].reserve = page[q].reserve
                          /\ page'[q].virtual_offset = page[q].virtual_offset
                          /\ page'[q].in_dram = page[q].in_dram
                          /\ page'[q].migrating = page[q].migrating
                          /\ page'[q].swapped_out = page[q].swapped_out
      /\ page'[d].list = "none" /\ d # p /\ pc'[e] = "write"
  BY <1>0, <1>1, <1>2 DEF UserPage, TypeOK
<1>4. \A q : /\ Settles(e, q)' <=> Settles(e, q)
             /\ Windows(e, q)' <=> Windows(e, q)
  BY <1>1, <1>3 DEF Settles, Windows, SettlePcs
<1>5. VictimOK(e)'
  <2>1. Resident(p)'
    BY <1>0, <1>1, <1>2, <1>3, <1>4, FieldsKept
  <2> QED  BY <1>1, <1>2, <1>3, <2>1 DEF VictimOK
<1>6. DpageOK(e)'
  <2>1. SlotDesc(page'[d])
    BY <1>2, <1>3 DEF SlotDesc
  <2>2. page'[p].reserve = page[p].reserve /\ page'[d].reserve = page[d].reserve /\ d # 0
    BY <1>1, <1>2, <1>3 DEF Pages
  <2>3. /\ page[p].reserve # 0 => page[p].reserve = d
        /\ page[p].reserve = 0 => page[d].reserve = 0
    BY <1>2, <1>d
  <2> QED  BY <1>2, <1>3, <2>1, <2>2, <2>3 DEF DpageOK
<1>7. VictimOnce'
  <2>1. \A f \in Evictors : evict'[f].victim = evict[f].victim
    BY <1>0, <1>p, <1>2 DEF OnlyMoves, Evictors, Executors
  <2> QED  BY <2>1 DEF PlaceInv, VictimOnce
<1>8. /\ \A q \in Pages : PairOK(q)'
      /\ \A c \in Pages : page'[c].list = "disk_reserve" => ReserveOK(c)'
  <2>0. \A q, c \in Pages : ~Backs(e, q, c)
    BY <1>1 DEF Backs
  <2>1. CASE page[p].reserve = 0
    <3>1. \A q \in Pages : page'[q].list = "disk_reserve" <=> page[q].list = "disk_reserve"
      BY <1>2, <1>3, <2>1
    <3> QED  BY <1>0, <1>3, <2>0, <3>1, PairsQuiet
  <2>2. CASE page[p].reserve # 0
    <3>1. Backs(e, p, d)'
      BY <1>2, <1>3, <2>2 DEF Backs
    <3>2. ASSUME NEW q \in Pages PROVE PairOK(q)'
      <4> SUFFICES ASSUME Mapped(q), page[q].reserve # 0 PROVE PairOK(q)'
        BY <1>3 DEF PairOK, Mapped
      <4>c. PICK c \in Pages : c = page[q].reserve
        BY <1>0 DEF UserPage
      <4>1. /\ page[c].va = 0 /\ page[c].reserve = q
            /\ page[c].list = "disk_reserve" \/ \E f \in Executors : Backs(f, q, c)
        BY <4>c DEF PlaceInv, PairOK
      <4>2. page'[c].list = "disk_reserve" \/ \E f \in Executors : Backs(f, q, c)'
        <5>1. CASE c = d
          BY <1>0, <1>2, <2>2, <3>1, <4>1, <5>1
        <5>2. CASE c # d
          <6>1. \A f \in Executors : Backs(f, q, c) => Backs(f, q, c)'
            BY <1>0, <2>0 DEF Backs, OnlyMoves
          <6> QED  BY <1>3, <4>1, <5>2, <6>1
        <5> QED  BY <5>1, <5>2
      <4>3. page'[q].reserve = c /\ page'[c].va = 0 /\ page'[c].reserve = q
        BY <1>3, <4>c, <4>1
      <4> QED  BY <4>2, <4>3 DEF PairOK
    <3>3. ASSUME NEW c \in Pages, page'[c].list = "disk_reserve" PROVE ReserveOK(c)'
      <4>1. page[c].list = "disk_reserve"
        BY <1>3, <3>3
      <4>2. ReserveOK(c)
        BY <4>1 DEF PlaceInv, ListOK
      <4> QED  BY <1>3, <4>2 DEF ReserveOK, Mapped
    <3> QED  BY <3>2, <3>3
  <2> QED  BY <2>1, <2>2
<1>9. EvictorTouches(e, d)
  <2>1. ListOK(d)'
    BY <1>3 DEF ListOK
  <2> QED  BY <1>2, <1>3, <2>1, SettleFlags DEF EvictorTouches, SettleSafe
<1>10. \A q \in Pages \ {d} : Mapped(q) => (Present(q)' <=> Present(q))
  BY <1>2, <1>3 DEF Present
<1>11. \A v \in VA : pte'[v].present => pte[v].present
  BY <1>2
<1> QED  BY <1>0, <1>2, <1>3, <1>5, <1>6, <1>7, <1>8, <1>9, <1>10, <1>11, EvictLift

\* The frame is handed on, and the victim goes to disk_active_list.
LEMMA EvictPlaceC ==
    ASSUME OwnerInv, OwnerInv', PlaceInv, NEW e \in Evictors, failed' = "none",
           FreeFrame(e) \/ TrackVictim(e)
    PROVE  PlaceInv'
<1>p. PICK p, d, o : p = evict[e].victim /\ d = evict[e].dpage /\ o = evict[e].old_offset
  OBVIOUS
<1>0. /\ e \in Executors /\ EvictStep(e) /\ OnlyMoves(e) /\ EvictorOK(e) /\ EvictorOK(e)'
      /\ TypeOK /\ TypeOK' /\ page \in [Pages -> UserPage]
      /\ evict[e] \in EvictLocals /\ VictimOK(e) /\ DpageOK(e)
      /\ (e \in Workers <=> e \notin Threads)
  BY EvictInv, ExecutorAssumption
     DEF OwnerInv, TypeInv, UseInv, StepOK, Evictors, Executors, LocalsOK, LocalOK, TypeOK,
         PlaceInv, HeldOK, EvictStep
<1>1. /\ pc[e] \in {"track", "free_frame"} /\ p \in Pages /\ Mapped(p) /\ OnDisk(p) /\ InDram(o)
      /\ page[p].swapped_out /\ page[p].migrating /\ ~Settling(p)
      /\ HoldsVictim(e) => page[p].list = "none"
      /\ pc[e] = "free_frame" /\ ~evict[e].backed => page[p].list = "disk_active"
  <2>1. pc[e] \in {"track", "free_frame"}
    BY DEF FreeFrame, TrackVictim, At
  <2> QED  BY <1>0, <1>p, <2>1, EvictorFacts DEF EvictPcs, VictimOK
<1>2. /\ d # 0 => /\ d \in Pages /\ page[d].list = "none" /\ page[d].va = 0 /\ d # p
                  /\ SlotDesc(page[d]) /\ Holds(e, "dpage", d)
                  /\ page[p].reserve \in {0, d}
                  /\ page[p].reserve = 0 => page[d].reserve = 0
                  /\ ~evict[e].backed => page[p].reserve = 0
      /\ d = 0 /\ pc[e] = "track" => page[p].reserve = 0
      /\ pc[e] = "free_frame" => d # 0
      /\ pc[e] = "track" => (d # 0 <=> e \in Threads \/ ~evict[e].backed)
  <2>1. d # 0 => d \in Pages /\ page[d].list = "none" /\ page[d].va = 0 /\ d # p
    BY <1>p, EvictorFacts
  <2>2. d # 0 => Holds(e, "dpage", d)
    BY <1>p DEF Holds
  <2>3. ASSUME d # 0
        PROVE  /\ SlotDesc(page[d]) /\ page[p].reserve \in {0, d}
               /\ page[p].reserve = 0 => page[d].reserve = 0
               /\ ~evict[e].backed => page[p].reserve = 0
    <3>1. /\ SlotDesc(page[d])
          /\ evict[e].backed => page[p].reserve = d
          /\ ~evict[e].backed => page[p].reserve = 0 /\ page[d].reserve = 0
      BY <1>0, <1>1, <1>p, <2>3 DEF DpageOK
    <3> QED  BY <2>3, <3>1
  <2>4. /\ d = 0 /\ pc[e] = "track" => page[p].reserve = 0
        /\ pc[e] = "free_frame" => d # 0
        /\ pc[e] = "track" => (d # 0 <=> e \in Threads \/ ~evict[e].backed)
    BY <1>0, <1>p DEF DpageOK, EvictorOK
  <2> QED  BY <2>1, <2>2, <2>3, <2>4
<1>u. /\ UNCHANGED <<pages, pte, disk, fault, scan>>
      /\ evict'[e].victim = p /\ evict'[e].backed = evict[e].backed /\ evict'[e].old_offset = o
      /\ pc'[e] \in {"track", "free_frame", "release"}
      /\ pc'[e] = "track" => pc[e] = "free_frame"
      /\ FreeFrame(e) => /\ evict'[e].dpage = 0 /\ pc[e] = "free_frame"
                         /\ pc'[e] = IF evict[e].backed THEN "track" ELSE "release"
      /\ TrackVictim(e) => /\ evict'[e].dpage = d /\ pc[e] = "track"
                           /\ pc'[e] = IF e \in Workers /\ ~evict[e].backed THEN "free_frame"
                                                                            ELSE "release"
  BY <1>0, <1>p DEF FreeFrame, TrackVictim, At, TypeOK, EvictLocals
<1>w. /\ \A q : /\ Settles(e, q)' <=> Settles(e, q)
                /\ Windows(e, q)' <=> Windows(e, q)
      /\ \A v \in VA : pte'[v].present => pte[v].present
  BY <1>1, <1>u DEF Settles, Windows, SettlePcs
<1>s. VictimOnce'
  <2>1. \A f \in Evictors : evict'[f].victim = evict[f].victim
    BY <1>0, <1>p, <1>u DEF OnlyMoves, Evictors, Executors
  <2> QED  BY <2>1 DEF PlaceInv, VictimOnce
\* What is left to show of the victim.
<1>v. ASSUME page'[p].va = page[p].va, page'[p].virtual_offset = page[p].virtual_offset,
             page'[p].in_dram = page[p].in_dram, page'[p].swapped_out, page'[p].migrating,
             page'[p].list \in {"none", "disk_active"},
             page'[p].list = "disk_active" => page'[p].reserve = 0,
             (pc'[e] = "release" \/ (pc'[e] = "free_frame" /\ ~evict[e].backed)) =>
                page'[p].list = "disk_active"
      PROVE  VictimOK(e)' /\ EvictorTouches(e, p)
  <2>1. OnDisk(p)' /\ ~Settling(p)'
    BY <1>0, <1>1, <1>u, <1>w, <1>v, FieldsKept
  <2>2. ListOK(p)'
    BY <1>v, <2>1 DEF ListOK, SwappedOut
  <2>3. VictimOK(e)'
    BY <1>u, <1>v, <1>1, <2>1 DEF VictimOK
  <2> QED  BY <1>p, <1>1, <1>v, <2>2, <2>3 DEF EvictorTouches, SettleSafe
<1>d. ASSUME d # 0 PROVE ~Settling(d)
  BY <1>2, <1>d, SettlingMapped DEF Mapped, VA
<1>3. CASE FreeFrame(e)
  <2>1. page' = [page EXCEPT ![p].reserve = IF evict[e].backed THEN 0 ELSE @,
                             ![d] = [AsFrame(page[d], o) EXCEPT !.list = "dram_free"]]
    BY <1>p, <1>3 DEF FreeFrame, Victim, DiskPage
  <2>2. /\ d \in Pages /\ d # p /\ page[d] \in UserPage /\ page[p] \in UserPage
        /\ ~evict[e].backed => page[p].reserve = 0
    BY <1>0, <1>1, <1>2, <1>u, <1>3
  <2>3. /\ page'[p] = [page[p] EXCEPT !.reserve = 0]
        /\ page'[d] = [AsFrame(page[d], o) EXCEPT !.list = "dram_free"]
        /\ \A q \in Pages \ {p, d} : page'[q] = page[q]
    BY <1>0, <1>1, <2>1, <2>2
  <2>4. /\ page'[p].va = page[p].va /\ page'[p].virtual_offset = page[p].virtual_offset
        /\ page'[p].in_dram = page[p].in_dram /\ page'[p].swapped_out = page[p].swapped_out
        /\ page'[p].migrating = page[p].migrating /\ page'[p].list = page[p].list
        /\ page'[p].reserve = 0
    BY <2>2, <2>3 DEF UserPage
  <2>5. /\ page'[d].va = page[d].va /\ page'[d].virtual_offset = o /\ page'[d].in_dram
        /\ page'[d].reserve = 0 /\ page'[d].list = "dram_free"
    BY <2>2, <2>3 DEF UserPage, AsFrame
  <2>6. page[p].list = IF evict[e].backed THEN "none" ELSE "disk_active"
    BY <1>1, <1>u, <1>3 DEF HoldsVictim
  <2>7. VictimOK(e)' /\ EvictorTouches(e, p)
    BY <1>1, <1>u, <1>v, <1>3, <2>4, <2>6
  <2>8. DpageOK(e)'
    BY <1>u, <1>3, <2>4 DEF DpageOK
  <2>9. EvictorTouches(e, d)
    <3>1. ListOK(d)'
      BY <1>1, <1>2, <2>2, <2>5 DEF ListOK, FrameDesc, Pages
    <3> QED  BY <1>2, <1>d, <2>2, <2>5, <3>1 DEF EvictorTouches, SettleSafe, Pages
  <2>10. /\ \A q \in Pages : PairOK(q)'
         /\ \A c \in Pages : page'[c].list = "disk_reserve" => ReserveOK(c)'
    <3>1. /\ page[d].va = 0 /\ page[p].reserve \in {0, d}
          /\ page[p].reserve = 0 => page[d].reserve = 0
      BY <1>2, <2>2 DEF Pages
    <3>2. /\ page'[p].reserve = 0 /\ page'[p].list # "disk_reserve" /\ page'[d].va = 0
          /\ page'[d].list # "disk_reserve" /\ \A q \in Pages \ {p, d} : page'[q] = page[q]
      BY <2>3, <2>4, <2>5, <2>6, <3>1
    <3> QED  BY <1>0, <1>1, <1>p, <2>2, <3>1, <3>2, PairsFreed
  <2>11. \A q \in Pages \ {p, d} : Mapped(q) => (Present(q)' <=> Present(q))
    BY <1>u, <2>3 DEF Present
  <2> QED
    BY <1>0, <1>1, <1>w, <1>s, <2>2, <2>3, <2>7, <2>8, <2>9, <2>10, <2>11, EvictLift
<1>4. CASE TrackVictim(e) /\ e \in Workers
  <2>1. page' = [page EXCEPT ![p].list = "disk_active"]
    BY <1>p, <1>4 DEF TrackVictim, Victim, DiskPage
  <2>2. /\ \A q \in Pages \ {p} : page'[q] = page[q]
        /\ \A q \in Pages : /\ page'[q].va = page[q].va /\ page'[q].reserve = page[q].reserve
                            /\ page'[q].virtual_offset = page[q].virtual_offset
                            /\ page'[q].in_dram = page[q].in_dram
                            /\ page'[q].migrating = page[q].migrating
                            /\ page'[q].swapped_out = page[q].swapped_out
        /\ page'[p].list = "disk_active"
    BY <1>0, <1>1, <2>1 DEF UserPage
  <2>3. page[p].reserve = 0 /\ page[p].list = "none"
    BY <1>0, <1>1, <1>2, <1>4, <1>u DEF HoldsVictim
  <2>4. VictimOK(e)' /\ EvictorTouches(e, p)
    BY <1>1, <1>v, <2>2, <2>3
  <2>5. DpageOK(e)'
    <3>1. CASE d = 0
      <4>1. pc'[e] = "release" /\ evict'[e].dpage = 0
        BY <1>2, <1>4, <1>u, <3>1
      <4> QED  BY <4>1 DEF DpageOK
    <3>2. CASE d # 0
      <4>1. pc'[e] = "free_frame" /\ evict'[e].dpage = d /\ ~evict'[e].backed
        BY <1>0, <1>2, <1>4, <1>u, <3>2
      <4>2. page'[d] = page[d] /\ SlotDesc(page[d]) /\ page[d].reserve = 0
        BY <1>2, <2>2, <2>3, <3>2
      <4>3. page[p].virtual_offset = page[d].virtual_offset
        BY <1>0, <1>4, <1>u, <1>p, <3>2 DEF DpageOK
      <4>4. page'[p].virtual_offset = page'[d].virtual_offset /\ page'[p].reserve = 0
        BY <1>1, <2>2, <2>3, <4>2, <4>3
      <4>5. SlotDesc(page'[d]) /\ page'[d].reserve = 0
        BY <4>2
      <4> QED  BY <1>u, <4>1, <4>4, <4>5 DEF DpageOK
    <3> QED  BY <3>1, <3>2
  <2>6. /\ \A q \in Pages : PairOK(q)'
        /\ \A c \in Pages : page'[c].list = "disk_reserve" => ReserveOK(c)'
    <3>1. \A q, c \in Pages : Backs(e, q, c) => Backs(e, q, c)'
      <4>1. ASSUME evict[e].backed, NEW c \in Pages PROVE evict[e].dpage # c
        BY <1>0, <1>2, <1>4, <1>p, <1>u, <4>1 DEF Pages
      <4> QED  BY <4>1 DEF Backs
    <3>2. \A q \in Pages : page'[q].list = "disk_reserve" <=> page[q].list = "disk_reserve"
      BY <2>2, <2>3
    <3> QED  BY <1>0, <2>2, <3>1, <3>2, PairsQuiet
  <2>7. \A q \in Pages \ {p} : Mapped(q) => (Present(q)' <=> Present(q))
    BY <1>u, <2>2 DEF Present
  <2> QED  BY <1>0, <1>1, <1>w, <1>s, <2>2, <2>4, <2>5, <2>6, <2>7, EvictLift
<1>5. CASE TrackVictim(e) /\ e \in Threads
  <2>1. page' = [page EXCEPT ![p].list = "disk_active", ![p].reserve = 0,
                             ![d] = AsFrame(page[d], o)]
    BY <1>0, <1>p, <1>5 DEF TrackVictim, Victim, DiskPage
  <2>2. /\ d \in Pages /\ d # 0 /\ d # p /\ page[d] \in UserPage /\ page[p] \in UserPage
    BY <1>0, <1>1, <1>2, <1>u, <1>5
  <2>3. /\ page'[p] = [page[p] EXCEPT !.list = "disk_active", !.reserve = 0]
        /\ page'[d] = AsFrame(page[d], o)
        /\ \A q \in Pages \ {p, d} : page'[q] = page[q]
    BY <1>0, <1>1, <2>1, <2>2
  <2>4. /\ page'[p].va = page[p].va /\ page'[p].virtual_offset = page[p].virtual_offset
        /\ page'[p].in_dram = page[p].in_dram /\ page'[p].swapped_out = page[p].swapped_out
        /\ page'[p].migrating = page[p].migrating /\ page'[p].list = "disk_active"
        /\ page'[p].reserve = 0
    BY <2>2, <2>3 DEF UserPage
  <2>5. /\ page'[d].va = page[d].va /\ page'[d].virtual_offset = o /\ page'[d].in_dram
        /\ page'[d].reserve = 0 /\ page'[d].list = page[d].list
    BY <2>2, <2>3 DEF UserPage, AsFrame
  <2>7. VictimOK(e)' /\ EvictorTouches(e, p)
    BY <1>1, <1>v, <2>4
  <2>f. FrameDesc(page'[d])
    BY <1>1, <1>2, <2>2, <2>5 DEF FrameDesc
  <2>8. DpageOK(e)'
    <3>1. pc'[e] = "release" /\ evict'[e].dpage = d
      BY <1>0, <1>5, <1>u
    <3> QED  BY <2>2, <2>f, <3>1 DEF DpageOK
  <2>9. EvictorTouches(e, d)
    <3>1. ListOK(d)'
      BY <1>2, <2>2, <2>5 DEF ListOK
    <3> QED  BY <1>2, <1>d, <2>2, <2>5, <3>1 DEF EvictorTouches, SettleSafe
  <2>10. /\ \A q \in Pages : PairOK(q)'
         /\ \A c \in Pages : page'[c].list = "disk_reserve" => ReserveOK(c)'
    <3>1. /\ page[d].va = 0 /\ page[p].reserve \in {0, d} /\ page[d].list = "none"
          /\ page[p].reserve = 0 => page[d].reserve = 0
      BY <1>2, <2>2
    <3>2. /\ page'[p].reserve = 0 /\ page'[p].list # "disk_reserve" /\ page'[d].va = 0
          /\ page'[d].list # "disk_reserve" /\ \A q \in Pages \ {p, d} : page'[q] = page[q]
      BY <2>3, <2>4, <2>5, <3>1
    <3> QED  BY <1>0, <1>1, <1>p, <2>2, <3>1, <3>2, PairsFreed
  <2>11. \A q \in Pages \ {p, d} : Mapped(q) => (Present(q)' <=> Present(q))
    BY <1>u, <2>3 DEF Present
  <2> QED
    BY <1>0, <1>1, <1>w, <1>s, <2>2, <2>3, <2>7, <2>8, <2>9, <2>10, <2>11, EvictLift
<1> QED  BY <1>0, <1>3, <1>4, <1>5

\* Nobody else has an evictor's victim.
LEMMA VictimApart ==
    ASSUME OwnerInv, PlaceInv, NEW e \in Evictors, NEW q \in Pages, q = evict[e].victim
    PROVE  \A f \in Executors \ {e} : Apart(f, q)
<1>0. e \in Executors /\ pc[e] \in EvictPcs /\ VictimOK(e) /\ q # 0
  BY DEF OwnerInv, TypeInv, UseInv, LocalsOK, LocalOK, EvictorOK, Evictors, Executors, PlaceInv, HeldOK,
         Pages
<1>1. CASE HoldsVictim(e)
  <2>1. Holds(e, "victim", q)
    BY <1>1 DEF Holds
  <2> QED  BY <1>0, <2>1, NotOthers DEF Roles
<1>2. CASE ~HoldsVictim(e)
  <2>1. page[q].list = "disk_active"
    BY <1>0, <1>2 DEF HoldsVictim, EvictPcs, VictimOK
  <2> SUFFICES ASSUME NEW f \in Executors \ {e} PROVE Apart(f, q)
    OBVIOUS
  <2>2. \A r \in Roles : ~Holds(f, r, q)
    BY <2>1 DEF OwnerInv, Ownership
  <2>3. f \in Evictors => evict[f].victim # q
    BY <1>0 DEF PlaceInv, VictimOnce
  <2> QED  BY <2>2, <2>3 DEF Apart
<1> QED  BY <1>1, <1>2

\* The end of a worker's eviction.
LEMMA ReleasePlace ==
    ASSUME OwnerInv, OwnerInv', PlaceInv, NEW w \in Workers, ReleaseVictim(w), failed' = "none"
    PROVE  PlaceInv'
<1>p. PICK p : p = evict[w].victim
  OBVIOUS
<1>0. /\ w \in Executors /\ w \in Evictors /\ w \notin Threads /\ w \notin Scanners
      /\ OnlyMoves(w) /\ TypeOK /\ TypeOK' /\ page \in [Pages -> UserPage]
      /\ LocalsOK' /\ evict[w] \in EvictLocals /\ VictimOK(w)
  BY ReleaseInv, ExecutorAssumption
     DEF OwnerInv, TypeInv, UseInv, StepOK, Evictors, Executors, Scanners, LocalsOK, TypeOK,
         PlaceInv, HeldOK
<1>1. /\ page' = [page EXCEPT ![p].migrating = FALSE]
      /\ evict' = [evict EXCEPT ![w] = NoEvict]
      /\ pc' = [pc EXCEPT ![w] = "idle"] /\ pc[w] = "release"
      /\ UNCHANGED <<fifo, pages, pte, disk, fault, scan>>
  BY <1>p DEF ReleaseVictim, At, Victim, Abort
<1>2. /\ p \in Pages /\ Mapped(p) /\ page[p].list = "disk_active" /\ ~Settling(p)
      /\ evict'[w] = NoEvict /\ pc'[w] = "idle"
  BY <1>0, <1>1, <1>p, EvictorFacts DEF VictimOK, TypeOK, EvictPcs
<1>3. /\ \A q \in Pages \ {p} : page'[q] = page[q]
      /\ \A q \in Pages : /\ page'[q].va = page[q].va /\ page'[q].reserve = page[q].reserve
                          /\ page'[q].virtual_offset = page[q].virtual_offset
                          /\ page'[q].in_dram = page[q].in_dram
                          /\ page'[q].list = page[q].list
                          /\ page'[q].swapped_out = page[q].swapped_out
  BY <1>0, <1>1, <1>2 DEF UserPage
<1>4. /\ \A q : /\ Settles(w, q)' <=> Settles(w, q)
                /\ Windows(w, q)' <=> Windows(w, q)
      /\ \A v \in VA : pte'[v].present => pte[v].present
  BY <1>0, <1>1 DEF Settles, Windows
<1>c. PICK C \in SUBSET Pages : C = {p}
  BY <1>2
<1>5. \A q \in Pages \ C : Untouched(w, q)
  BY <1>1, <1>3, <1>4, <1>c DEF Untouched
<1>6. \A q \in C, f \in Executors \ {w} : Apart(f, q)
  BY <1>0, <1>2, <1>c, <1>p, VictimApart
<1>7. \A q \in C, f \in Executors \ {w} : Settles(f, q) =>
        /\ page'[q].swapped_out /\ page'[q].migrating /\ page'[q].reserve # 0
        /\ page'[q].in_dram => page[q].in_dram
  BY <1>2, <1>c DEF Settling
<1>8. HeldOK(w)'
  <2>1. evict'[w].victim = 0 /\ evict'[w].dpage = 0
    BY <1>2 DEF NoEvict
  <2> QED  BY <1>0, <1>2, <2>1 DEF HeldOK, VictimOK, DpageOK, EvictPcs
<1>9. \A q \in C : ListOK(q)'
  <2>1. SwappedOut(p)
    BY <1>2 DEF PlaceInv, ListOK
  <2>2. OnDisk(p)'
    BY <1>0, <1>1, <1>2, <1>3, <1>4, <2>1, FieldsKept DEF SwappedOut
  <2> QED  BY <1>c, <1>2, <1>3, <2>1, <2>2 DEF ListOK, SwappedOut
<1>10. /\ \A q \in Pages : PairOK(q)'
       /\ \A c \in Pages : page'[c].list = "disk_reserve" => ReserveOK(c)'
  <2>1. \A a, c \in Pages : ~Backs(w, a, c)
    BY <1>1 DEF Backs
  <2> QED  BY <1>0, <1>3, <2>1, PairsQuiet
<1>11. GlobalsOK'
  <2>1. w \in Evictors => evict'[w].victim \in {0, evict[w].victim}
    BY <1>2 DEF NoEvict
  <2> QED  BY <1>0, <1>1, <1>3, <1>4, <2>1, GlobalsQuiet
<1> QED  BY <1>0, <1>5, <1>6, <1>7, <1>8, <1>9, <1>10, <1>11, PlaceLift

-----------------------------------------------------------------------------
(* Steps that change nothing the invariant speaks of.                       *)

\* A step that changes data, queues or protection bits only.
LEMMA PlaceSame ==
    ASSUME OwnerInv, PlaceInv, page' = page, pages' = pages, pc' = pc, scan' = scan,
           evict' = evict, \A v \in VA : pte'[v].present <=> pte[v].present,
           \A t \in Threads : /\ fault'[t].job = fault[t].job /\ fault'[t].page = fault[t].page
                              /\ fault'[t].reading = fault[t].reading
                              /\ fault'[t].frees = fault[t].frees
    PROVE  PlaceInv'
<1>1. \A t, q : (Settles(t, q)' <=> Settles(t, q)) /\ (Windows(t, q)' <=> Windows(t, q))
  BY DEF Settles, Windows
<1>2. \A q : (Settling(q)' <=> Settling(q)) /\ (InPrefetchWindow(q)' <=> InPrefetchWindow(q))
  BY <1>1, WindowDef DEF Settling
<1>3. \A q : Mapped(q) => (Present(q)' <=> Present(q))
  BY DEF Mapped, Present
<1>4. \A q : /\ Mapped(q)' <=> Mapped(q) 
             /\ Resident(q) <=> Resident(q)'
             /\ OnDisk(q) <=> OnDisk(q)' 
  BY <1>2, <1>3 DEF Mapped, Resident, OnDisk
<1>5. \A q : SwappedOut(q) <=> SwappedOut(q)'
  BY <1>4 DEF SwappedOut
<1>6. ASSUME NEW q \in Pages PROVE ListOK(q)' /\ PairOK(q)'
  <2>1. ListOK(q)'
    BY <1>4, <1>5 DEF PlaceInv, ListOK, ReserveOK
  <2>2. \A e, p, d : Backs(e, p, d)' <=> Backs(e, p, d)
    BY DEF Backs
  <2>3. PairOK(q)'
    BY <1>4, <2>2 DEF PlaceInv, PairOK
  <2> QED  BY <2>1, <2>3
<1>7. ASSUME NEW e \in Executors PROVE HeldOK(e)'
  <2>0. HeldOK(e)
    BY DEF PlaceInv
  <2>1. e \in Evictors => VictimOK(e)' /\ DpageOK(e)'
    BY <1>2, <1>4, <2>0 DEF HeldOK, VictimOK, DpageOK
  <2>2. e \in Scanners => ScanOK(e)'
    BY <1>4, <2>0 DEF HeldOK, ScanOK
  <2>3. ASSUME e \in Threads PROVE ReadOK(e)' /\ SettleOK(e)'
    BY <1>1, <1>4, <1>5, <2>0, <2>3 DEF HeldOK, ReadOK, SettleOK
  <2>4. ASSUME e \in Threads PROVE FreeOK(e)'
    <3>1. FreeOK(e) /\ (pc[e] \in {"map", "add"} => Mapped(fault[e].frees[1]))
      BY <2>0, <2>4 DEF HeldOK, OwnerInv, TypeInv, UseInv, LocalsMapped, LocalMapped, LocalUsed
    <3>2. pc[e] = "map" => (Present(fault[e].frees[1])' <=> Present(fault[e].frees[1]))
      <4>n. PICK n : n = fault[e].frees[1] /\ n = fault'[e].frees[1]
        BY <2>4
      <4>1. pc[e] = "map" => pte'[page[n].va].present <=> pte[page[n].va].present
        BY <3>1, <4>n DEF Mapped
      <4> QED  BY <4>n, <4>1 DEF Present
    <3> QED  BY <1>4, <2>4, <3>1, <3>2 DEF FreeOK
  <2> QED  BY <2>1, <2>2, <2>3, <2>4 DEF HeldOK
<1>8. VictimOnce' /\ SettleOnce' /\ Hashed' /\ PresentHashed'
  BY DEF PlaceInv, VictimOnce, SettleOnce, Hashed, PresentHashed, Mapped
<1> QED  BY <1>6, <1>7, <1>8 DEF PlaceInv

-----------------------------------------------------------------------------
(* The steps of a thread.                                                   *)

\* A thread that is neither evicting nor scanning.
LEMMA ThreadLift ==
    ASSUME OwnerInv, OwnerInv', PlaceInv, NEW t \in Threads, OnlyMoves(t),
           NEW C \in SUBSET Pages,
           \A q \in Pages \ C : Untouched(t, q),
           \A q \in C, f \in Executors \ {t} : Apart(f, q),
           \A q \in C, f \in Executors \ {t} : Settles(f, q) =>
             /\ page'[q].swapped_out /\ page'[q].migrating /\ page'[q].reserve # 0
             /\ page'[q].in_dram => page[q].in_dram,
           pc'[t] \notin EvictPcs \cup ScanPcs,
           ReadOK(t)', FreeOK(t)', SettleOK(t)',
           \A q \in C : ListOK(q)',
           \A p \in Pages : PairOK(p)',
           \A d \in Pages : page'[d].list = "disk_reserve" => ReserveOK(d)',
           GlobalsOK'
    PROVE  PlaceInv'
<1>1. t \in Executors /\ LocalOK(t)'
  BY DEF Executors, OwnerInv, TypeInv, UseInv, LocalsOK
<1>2. t \in Evictors => VictimOK(t)' /\ DpageOK(t)'
  <2>1. t \in Evictors => evict'[t].dpage = 0
    BY <1>1 DEF LocalOK, EvictorOK, EvictPcs
  <2> QED  BY <2>1 DEF VictimOK, DpageOK, EvictPcs
<1>3. t \in Scanners => ScanOK(t)'
  BY <1>1 DEF LocalOK, ScanOK
<1>4. HeldOK(t)'
  BY <1>2, <1>3 DEF HeldOK
<1> QED  BY <1>1, <1>4, PlaceLift

\* Neither before nor after the step does the thread settle or map a page.
CalmPcs == PcLabels \ ({"map", "add"} \cup SettlePcs)

\* A calm thread settles nothing.
LEMMA CalmSettles ==
    ASSUME NEW t \in Threads, pc[t] \in CalmPcs, pc'[t] \in CalmPcs, NEW q
    PROVE  ~Settles(t, q) /\ ~Settles(t, q)' /\ ~Windows(t, q) /\ ~Windows(t, q)' /\ SettleOK(t)'
  BY DEF Settles, Windows, CalmPcs, SettlePcs, SettleOK

\* A step that changes only the thread's own program point and locals.
LEMMA ThreadStays ==
    ASSUME OwnerInv, OwnerInv', PlaceInv, NEW t \in Threads, OnlyMoves(t),
           page' = page, pages' = pages, pte' = pte, evict' = evict, scan' = scan,
           pc[t] \in CalmPcs, pc'[t] \in CalmPcs \ (EvictPcs \cup ScanPcs),
           fault'[t].reading \in {<<>>, fault[t].reading},
           fault'[t].frees \in {<<>>, fault[t].frees}
    PROVE  PlaceInv'
<1>0. t \in Executors /\ TypeOK /\ TypeOK' /\ LocalsOK'
  BY DEF Executors, OwnerInv, TypeInv, UseInv
<1>c. PICK C \in SUBSET Pages : C = {}
  OBVIOUS
<1>1. \A q \in Pages \ C : Untouched(t, q)
  BY CalmSettles DEF Untouched
<1>2. pc[t] \notin {"map", "add"} /\ pc'[t] \notin {"map", "add"}
  BY DEF CalmPcs
<1>3. /\ fault'[t].reading = fault[t].reading => ReadOK(t)'
      /\ fault'[t].frees = fault[t].frees => FreeOK(t)'
  BY <1>1, <1>2, <1>c, BatchKept
<1>4. ReadOK(t)' /\ FreeOK(t)'
  <2>1. fault'[t].reading = <<>> => ReadOK(t)'
    BY DEF ReadOK
  <2>2. fault'[t].frees = <<>> => FreeOK(t)'
    BY <1>2 DEF FreeOK
  <2> QED  BY <1>3, <2>1, <2>2
<1>5. /\ \A q \in Pages : PairOK(q)'
      /\ \A c \in Pages : page'[c].list = "disk_reserve" => ReserveOK(c)'
  <2>1. \A a, c \in Pages : Backs(t, a, c) => Backs(t, a, c)'
    <3>1. \A a, c \in Pages : Backs(t, a, c) => FALSE
      <4>1. ASSUME NEW a \in Pages, evict[t].victim = a PROVE FALSE
        <5>1. LocalOK(t)' /\ t \in Evictors /\ evict'[t].victim # 0
          BY <1>0, <4>1 DEF LocalsOK, Evictors, Pages
        <5> QED  BY <5>1 DEF LocalOK, EvictorOK
      <4> QED  BY <4>1 DEF Backs
    <3> QED  BY <3>1
  <2> QED  BY <1>0, <2>1, PairsQuiet
<1>6. GlobalsOK'
  BY <1>0, CalmSettles, GlobalsQuiet
<1>7. SettleOK(t)' /\ pc'[t] \notin EvictPcs \cup ScanPcs
  BY CalmSettles
<1> QED  BY <1>1, <1>4, <1>5, <1>6, <1>7, <1>c, ThreadLift

\* The application's accesses.
LEMMA ApplicationPlace ==
    ASSUME OwnerInv, OwnerInv', PlaceInv, NEW t \in Threads, Application(t)
    PROVE  PlaceInv'
<1>0. /\ OnlyMoves(t) /\ t \in Executors /\ TypeOK /\ fault[t] \in FaultLocals
  BY ApplicationInv, ThreadFacts, OwnerWeaker DEF OwnerInv, TypeInv, StepOK
<1>1. ASSUME NEW v \in VA, Touch(t, v) PROVE PlaceInv'
  <2>1. /\ UNCHANGED <<page, pages, pte, evict, scan>> /\ pc[t] = "idle" /\ pc'[t] = "signal"
        /\ fault' = [fault EXCEPT ![t].addr = v]
    BY <1>0, <1>1 DEF Touch, At, sharedVars, TypeOK
  <2>2. fault'[t].reading = fault[t].reading /\ fault'[t].frees = fault[t].frees
    BY <1>0, <2>1 DEF TypeOK, FaultLocals
  <2>3. pc[t] \in CalmPcs /\ pc'[t] \in CalmPcs \ (EvictPcs \cup ScanPcs)
    BY <2>1 DEF CalmPcs, SettlePcs, EvictPcs, ScanPcs, PcLabels
  <2> QED  BY <1>0, <2>1, <2>2, <2>3, ThreadStays
<1>2. ASSUME NEW v \in VA, NEW x \in Vals, Store(t, v, x) PROVE PlaceInv'
  <2>1. /\ UNCHANGED <<page, pages, evict, scan, pc, fault>>
        /\ pte' = [pte EXCEPT ![v].data = x, ![v].dirty = TRUE]
    BY <1>2 DEF Store
  <2>2. \A u \in VA : pte'[u].present <=> pte[u].present
    BY <1>0, <2>1 DEF TypeOK, Pte
  <2> QED  BY <2>1, <2>2, PlaceSame
<1> QED  BY <1>1, <1>2 DEF Application

\* A failed assertion.
LEMMA CrashPlace ==
    ASSUME OwnerInv, PlaceInv, Crash
    PROVE  PlaceInv'
  BY PlaceSame DEF Crash, sharedVars

\* The device completes a read.
LEMMA DiskReadPlace ==
    ASSUME OwnerInv, PlaceInv, NEW t \in Threads, DiskRead(t)
    PROVE  PlaceInv'
<1>0. fault \in [Threads -> FaultLocals]
  BY DEF OwnerInv, TypeInv, UseInv, TypeOK
<1>1. /\ UNCHANGED <<page, pages, pte, pc, evict, scan>>
      /\ fault' = [fault EXCEPT ![t].buf =
                     [i \in 1 .. Len(fault[t].reading) |->
                        disk[page[fault[t].reading[i]].virtual_offset]]]
  BY DEF DiskRead, sharedVars
<1>2. \A u \in Threads : /\ fault'[u].job = fault[u].job /\ fault'[u].page = fault[u].page
                         /\ fault'[u].reading = fault[u].reading
                         /\ fault'[u].frees = fault[u].frees
  BY <1>0, <1>1 DEF FaultLocals
<1> QED  BY <1>1, <1>2, PlaceSame

\* The steps of a fault that only look at the descriptors.
LEMMA FaultQuietPlace ==
    ASSUME OwnerInv, OwnerInv', PlaceInv, NEW t \in Threads, failed' = "none", page' = page,
           \/ uswap_sig_handler(t) \/ Spin(t) \/ handle_missing_fault(t) \/ PrefetchFind(t)
           \/ FetchReclaim(t) \/ FetchRetry(t) \/ FirstAllocate(t)
    PROVE  PlaceInv'
<1>0. /\ t \in Executors /\ TypeOK /\ fault[t] \in FaultLocals /\ ThreadOK(t)
      /\ page \in [Pages -> UserPage] /\ fault[t].page \in Pages \cup {0}
      /\ fault[t].frees \in Seq(Pages)
  BY ThreadFacts, OwnerWeaker
<1>1. OnlyMoves(t)
  BY FaultStartInv, FetchInv, FirstInv DEF OwnerInv, TypeInv, StepOK
<1>n. NoFault.reading = <<>> /\ NoFault.frees = <<>>
  BY DEF NoFault
<1>s. ASSUME UNCHANGED <<pages, pte, evict, scan>>,
             pc[t] \in {"signal", "spin", "missing", "find", "fetch", "reclaim", "allocate"},
             pc'[t] \in {"idle", "fetch", "missing", "spin", "reclaim", "put_back"},
             fault'[t].reading \in {<<>>, fault[t].reading},
             fault'[t].frees \in {<<>>, fault[t].frees}
      PROVE  PlaceInv'
  <2>1. pc[t] \in CalmPcs /\ pc'[t] \in CalmPcs \ (EvictPcs \cup ScanPcs)
    BY <1>s DEF CalmPcs, SettlePcs, EvictPcs, ScanPcs, PcLabels
  <2> QED  BY <1>1, <1>s, <2>1, ThreadStays
<1>2. CASE uswap_sig_handler(t)
  BY <1>0, <1>s, <1>2 DEF uswap_sig_handler, At, sharedVars, TypeOK, FaultLocals
<1>3. CASE Spin(t)
  BY <1>0, <1>n, <1>s, <1>3 DEF Spin, At, sharedVars, Resume, TypeOK
<1>4. CASE handle_missing_fault(t)
  <2>1. CASE ~Claimable(fault[t].page)
    BY <1>0, <1>s, <1>4, <2>1 DEF handle_missing_fault, At, sharedVars, TypeOK
  <2>2. CASE Claimable(fault[t].page)
    <3>p. PICK p : p = fault[t].page
      OBVIOUS
    <3>1. page' = ClaimPage(p) /\ pc[t] = "missing"
      BY <1>4, <2>2, <3>p DEF handle_missing_fault, Abort, At
    <3>2. p \in Pages /\ ~page[p].migrating
      BY <1>0, <2>2, <3>1, <3>p DEF Claimable, ThreadOK
    <3>3. page'[p].migrating
      BY <1>0, <3>1, <3>2 DEF ClaimPage, UserPage
    <3> QED  BY <3>2, <3>3
  <2> QED  BY <2>1, <2>2
<1>5. CASE PrefetchFind(t)
  <2>1. CASE ~PrefetchWanted(t)
    BY <1>0, <1>n, <1>s, <1>5, <2>1 DEF PrefetchFind, At, sharedVars, Resume, TypeOK
  <2>2. CASE PrefetchWanted(t)
    <3>p. PICK p : p = find_page(PrefetchNext(t))
      OBVIOUS
    <3>1. page' = ClaimPage(p)
      BY <1>5, <2>2, <3>p DEF PrefetchFind, Abort
    <3>2. p \in Pages /\ ~page[p].migrating
      <4>1. PrefetchNext(t) \in VA /\ p = pages[PrefetchNext(t)] /\ p # 0 /\ Claimable(p)
        BY <2>2, <3>p DEF PrefetchWanted, find_page
      <4> QED  BY <1>0, <4>1 DEF Claimable, TypeOK
    <3>3. page'[p].migrating
      BY <1>0, <3>1, <3>2 DEF ClaimPage, UserPage
    <3> QED  BY <3>2, <3>3
  <2> QED  BY <2>1, <2>2
<1>6. CASE FetchReclaim(t) \/ FetchRetry(t)
  BY <1>0, <1>s, <1>6 DEF FetchReclaim, FetchRetry, At, sharedVars, TypeOK
<1>7. CASE FirstAllocate(t)
  <2>1. CASE find_page(fault[t].addr) # 0
    <3>1. /\ fault' = [fault EXCEPT ![t].page = find_page(fault[t].addr)]
          /\ pc' = [pc EXCEPT ![t] = "put_back"] /\ pc[t] = "allocate"
          /\ UNCHANGED <<pages, pte, evict, scan>>
      BY <1>7, <2>1 DEF FirstAllocate, At, sharedVars
    <3>2. pc'[t] = "put_back" /\ fault'[t].reading = fault[t].reading
          /\ fault'[t].frees = fault[t].frees
      BY <1>0, <3>1 DEF TypeOK, FaultLocals
    <3> QED  BY <1>s, <3>1, <3>2
  <2>2. CASE find_page(fault[t].addr) = 0
    <3>n. PICK n, v : n = fault[t].frees[1] /\ v = fault[t].addr
      OBVIOUS
    <3>1. /\ page[n].va = 0 /\ pc[t] = "allocate"
          /\ page' = [page EXCEPT ![n].migrating = TRUE, ![n].swapped_out = FALSE, ![n].va = v]
      BY <1>7, <2>2, <3>n DEF FirstAllocate, NewPage, Abort, At
    <3>2. n \in Pages /\ v \in VA
      <4>1. Len(fault[t].frees) = 1 /\ v \in VA
        BY <1>0, <3>1, <3>n DEF ThreadOK, FirstPcs
      <4> QED  BY <1>0, <3>n, <4>1
    <3>3. page'[n].va = v
      BY <1>0, <3>1, <3>2 DEF UserPage
    <3> QED  BY <3>1, <3>2, <3>3 DEF VA
  <2> QED  BY <2>1, <2>2
<1> QED  BY <1>2, <1>3, <1>4, <1>5, <1>6, <1>7

\* A scan takes a resident page off one list and puts it on another.
LEMMA ScanPlace ==
    ASSUME OwnerInv, OwnerInv', PlaceInv, NEW e \in Scanners, ScanStep(e)
    PROVE  PlaceInv'
<1>0. /\ e \in Executors /\ OnlyMoves(e) /\ TypeOK /\ TypeOK' /\ LocalsOK' /\ LocalOK(e)
      /\ LocalOK(e)' /\ page \in [Pages -> UserPage] /\ scan[e] \in Pages \cup {0} /\ HeldOK(e)
      /\ scan \in [Scanners -> Pages \cup {0}] /\ pc \in [Executors -> PcLabels]
  BY ScanInv DEF OwnerInv, TypeInv, UseInv, StepOK, Scanners, Executors, LocalsOK, TypeOK, PlaceInv
<1>1. /\ UNCHANGED <<pages, pte, disk, fault, evict>>
      /\ pc[e] \in {"idle", "reclaim"} \cup ScanPcs
      /\ pc'[e] \in {"idle", "reclaim"} \cup ScanPcs
  BY <1>0 DEF ScanStep, ScanInactive, ScanActive, KeepOrEvict, Deactivate, ScanTake, ScanPut,
              ScanPoint, At, ScanPcs
<1>2. \E p \in Pages, l \in {"none", "active", "inactive", "eviction"} :
        /\ page' = [page EXCEPT ![p].list = l]
        /\ Resident(p)
        /\ page[p].list \in {"active", "inactive"} \/ Holds(e, "scan", p)
        /\ scan'[e] \in {0, p}
  <2>1. ASSUME NEW q \in {"active", "inactive"}, NEW next, ScanTake(e, q, next)
        PROVE  \E p \in Pages : /\ page' = [page EXCEPT ![p].list = "none"]
                                /\ Resident(p) /\ page[p].list = q /\ scan'[e] = p
    <3>p. PICK p : p = Head(fifo[q])
      OBVIOUS
    <3>1. /\ fifo[q] # <<>> /\ page' = [page EXCEPT ![p].list = "none"]
          /\ scan' = [scan EXCEPT ![e] = p]
      BY <2>1, <3>p DEF ScanTake
    <3>2. p \in Pages /\ page[p].list = q
      <4>1. fifo[q] \in Seq(Pages) /\ q \in Queues
        BY <1>0 DEF TypeOK, Queues
      <4>2. p \in Pages /\ p = fifo[q][1] /\ 1 \in DOMAIN fifo[q]
        BY <3>p, <3>1, <4>1, HeadTail
      <4> QED BY <4>1, <4>2 DEF OwnerInv, QueuesMatch
    <3>3. Resident(p)
      BY <3>2 DEF PlaceInv, ListOK
    <3> QED  BY <1>0, <3>1, <3>2, <3>3
  <2>2. ASSUME NEW q \in {"active", "inactive", "eviction"}, ScanPut(e, q), pc[e] \in ScanPcs
        PROVE  \E p \in Pages : /\ page' = [page EXCEPT ![p].list = q]
                                /\ Resident(p) /\ Holds(e, "scan", p) /\ scan'[e] = 0
    <3>1. scan[e] \in Pages /\ Holds(e, "scan", scan[e]) /\ Resident(scan[e])
      BY <1>0, <2>2 DEF LocalOK, Holds, HeldOK, ScanOK
    <3> QED  BY <1>0, <2>2, <3>1 DEF ScanPut
  <2>3. CASE ScanInactive(e) \/ ScanActive(e)
    <3>1. \E q \in {"active", "inactive"}, next \in ScanPcs : ScanTake(e, q, next)
      BY <2>3 DEF ScanInactive, ScanActive, ScanPcs
    <3> QED  BY <2>1, <3>1
  <2>4. CASE KeepOrEvict(e) \/ Deactivate(e)
    <3>1. \E q \in {"active", "inactive", "eviction"} : ScanPut(e, q)
      BY <2>4 DEF KeepOrEvict, Deactivate
    <3>2. pc[e] \in ScanPcs
      BY <2>4 DEF KeepOrEvict, Deactivate, At, ScanPcs
    <3> QED  BY <2>2, <3>1, <3>2
  <2> QED  BY <2>3, <2>4 DEF ScanStep
<1>p. PICK p \in Pages, l \in {"none", "active", "inactive", "eviction"} :
        /\ page' = [page EXCEPT ![p].list = l]
        /\ Resident(p)
        /\ page[p].list \in {"active", "inactive"} \/ Holds(e, "scan", p)
        /\ scan'[e] \in {0, p}
  BY <1>2
<1>3. /\ \A q \in Pages \ {p} : page'[q] = page[q]
      /\ \A q \in Pages : /\ page'[q].va = page[q].va /\ page'[q].reserve = page[q].reserve
                          /\ page'[q].virtual_offset = page[q].virtual_offset
                          /\ page'[q].in_dram = page[q].in_dram
                          /\ page'[q].migrating = page[q].migrating
                          /\ page'[q].swapped_out = page[q].swapped_out
      /\ page'[p].list = l
  BY <1>0, <1>p DEF UserPage
<1>4. /\ \A q : /\ Settles(e, q)' <=> Settles(e, q)
                /\ Windows(e, q)' <=> Windows(e, q)
      /\ \A v \in VA : pte'[v].present => pte[v].present
  BY <1>1 DEF Settles, Windows, SettlePcs, ScanPcs
<1>5. Resident(p)'
  BY <1>0, <1>1, <1>3, <1>4, <1>p, FieldsKept
<1>c. PICK C \in SUBSET Pages : C = {p}
  OBVIOUS
<1>6. \A q \in Pages \ C : Untouched(e, q)
  BY <1>1, <1>3, <1>4, <1>c DEF Untouched
<1>7. \A q \in C, f \in Executors \ {e} : Apart(f, q)
  <2>1. page[p].list \notin {"none", "disk_active"} \/ \E r \in Roles : Holds(e, r, p)
    BY <1>p DEF Roles
  <2> QED  BY <1>0, <1>c, <2>1, NotOthers
<1>8. \A q \in C, f \in Executors \ {e} : Settles(f, q) =>
        /\ page'[q].swapped_out /\ page'[q].migrating /\ page'[q].reserve # 0
        /\ page'[q].in_dram => page[q].in_dram
  BY <1>3, <1>c, SettleFlags DEF Settling
<1>9. HeldOK(e)'
  <2>1. e \in Evictors => VictimOK(e)' /\ DpageOK(e)'
    <3>1. pc'[e] \notin EvictPcs
      BY <1>1 DEF EvictPcs, ScanPcs
    <3>2. e \in Evictors => evict'[e].dpage = 0
      BY <1>0, <3>1 DEF LocalOK, EvictorOK, EvictPcs
    <3> QED  BY <3>1, <3>2 DEF VictimOK, DpageOK, EvictPcs
  <2>2. ScanOK(e)'
    BY <1>5, <1>p DEF ScanOK
  <2>3. ASSUME e \in Threads PROVE ReadOK(e)' /\ FreeOK(e)' /\ SettleOK(e)'
    <3>1. \A q \in C : ~Holds(e, "read", q) /\ ~Holds(e, "free", q)
      BY <1>0, <1>c, <1>p DEF OwnerInv, Ownership, Roles
    <3>2. pc[e] \notin {"map", "add"} /\ pc'[e] \notin {"map", "add"} \cup SettlePcs
      BY <1>1 DEF ScanPcs, SettlePcs
    <3>3. ReadOK(e)' /\ FreeOK(e)'
      BY <1>0, <1>1, <1>6, <2>3, <3>1, <3>2, BatchKept
    <3> QED  BY <3>2, <3>3 DEF SettleOK
  <2> QED  BY <2>1, <2>2, <2>3 DEF HeldOK
<1>10. \A q \in C : ListOK(q)'
  BY <1>c, <1>3, <1>5 DEF ListOK
<1>11. /\ \A q \in Pages : PairOK(q)'
       /\ \A c \in Pages : page'[c].list = "disk_reserve" => ReserveOK(c)'
  <2>1. \A a, c \in Pages : ~Backs(e, a, c)
    BY <1>1 DEF Backs, ScanPcs
  <2>2. page[p].list # "disk_reserve"
    <3>1. Holds(e, "scan", p) => page[p].list = "none"
      BY <1>0 DEF OwnerInv, Ownership, Roles
    <3> QED  BY <1>p, <3>1
  <2>3. \A q \in Pages : page'[q].list = "disk_reserve" <=> page[q].list = "disk_reserve"
    BY <1>3, <2>2
  <2> QED  BY <1>0, <1>3, <2>1, <2>3, PairsQuiet
<1>12. GlobalsOK'
  <2>1. e \in Evictors => evict'[e].victim \in {0, evict[e].victim}
    BY <1>1
  <2> QED  BY <1>0, <1>1, <1>3, <1>4, <2>1, GlobalsQuiet
<1> QED  BY <1>0, <1>6, <1>7, <1>8, <1>9, <1>10, <1>11, <1>12, PlaceLift

\* A thread claims a page that is on disk and that nobody is moving.
LEMMA ClaimPlace ==
    ASSUME OwnerInv, OwnerInv', PlaceInv, NEW t \in Threads, OnlyMoves(t), NEW p \in Pages,
           page[p].list = "disk_active", ~page[p].migrating, page' = ClaimPage(p),
           UNCHANGED <<pages, pte, evict, scan>>,
           pc[t] \in CalmPcs, pc'[t] \in CalmPcs \ (EvictPcs \cup ScanPcs),
           fault'[t].reading = Append(fault[t].reading, p),
           fault'[t].frees = fault[t].frees
    PROVE  PlaceInv'
<1>0. /\ t \in Executors /\ t \in Evictors /\ TypeOK /\ TypeOK' /\ LocalsOK'
      /\ page \in [Pages -> UserPage] /\ fault[t].reading \in Seq(Pages) /\ LocalOK(t)'
  BY ThreadFacts, OwnerWeaker DEF OwnerInv, TypeInv, UseInv, LocalsOK
<1>1. /\ \A q \in Pages \ {p} : page'[q] = page[q]
      /\ \A q \in Pages : /\ page'[q].va = page[q].va /\ page'[q].reserve = page[q].reserve
                          /\ page'[q].virtual_offset = page[q].virtual_offset
                          /\ page'[q].in_dram = page[q].in_dram
                          /\ page'[q].swapped_out = page[q].swapped_out
      /\ page'[p].list = "none" /\ page'[p].migrating
  BY <1>0 DEF UserPage, ClaimPage
<1>2. \A q : /\ Settles(t, q)' <=> Settles(t, q)
             /\ Windows(t, q)' <=> Windows(t, q)
  BY CalmSettles
<1>c. PICK C \in SUBSET Pages : C = {p}
  OBVIOUS
<1>3. \A q \in Pages \ C : Untouched(t, q)
  BY <1>1, <1>2, <1>c DEF Untouched
<1>4. ASSUME NEW f \in Executors PROVE Apart(f, p)
  <2>1. \A r \in Roles : ~Holds(f, r, p)
    BY DEF OwnerInv, Ownership
  <2>2. ASSUME f \in Evictors, evict[f].victim = p PROVE FALSE
    <3>1. pc[f] \in EvictPcs /\ VictimOK(f)
      BY <2>2 DEF OwnerInv, TypeInv, UseInv, LocalsOK, LocalOK, EvictorOK, PlaceInv, HeldOK, Pages
    <3>2. ~HoldsVictim(f)
      BY <2>1, <2>2 DEF Holds, Roles
    <3> QED  BY <2>2, <3>1, <3>2 DEF HoldsVictim, EvictPcs, VictimOK
  <2> QED  BY <2>1, <2>2 DEF Apart
<1>5. ~Settling(p)
  BY SettleFlags
<1>6. SwappedOut(p)'
  <2>1. SwappedOut(p)
    BY DEF PlaceInv, ListOK
  <2>2. OnDisk(p)'
    BY <1>0, <1>1, <1>2, <2>1, FieldsKept DEF SwappedOut
  <2> QED  BY <1>1, <2>1, <2>2 DEF SwappedOut
<1>7. ~Holds(t, "read", p) /\ ~Holds(t, "free", p)
  BY <1>0, <1>4 DEF Apart, Roles
<1>8. pc[t] \notin {"map", "add"} /\ pc'[t] \notin {"map", "add"}
  BY DEF CalmPcs
<1>9. FreeOK(t)'
  BY <1>3, <1>7, <1>8, <1>c, BatchKept
<1>10. ReadOK(t)'
  <2> SUFFICES ASSUME NEW i \in DOMAIN fault'[t].reading, NEW q, q = fault'[t].reading[i]
               PROVE  SwappedOut(q)' /\ page'[q].migrating
    BY DEF ReadOK
  <2>1. CASE q = p
    BY <1>1, <1>6, <2>1
  <2>2. CASE q # p
    <3>1. PICK j \in DOMAIN fault[t].reading : q = fault[t].reading[j]
      BY <1>0, <2>2, AppendMember DEF Among
    <3>2. q \in Pages /\ SwappedOut(q) /\ page[q].migrating
      BY <1>0, <3>1 DEF PlaceInv, HeldOK, ReadOK
    <3>3. Untouched(t, q)
      BY <1>3, <1>c, <2>2, <3>2
    <3> QED  BY <1>0, <3>2, <3>3, UntouchedKept DEF Untouched
  <2> QED  BY <2>1, <2>2
<1>11. ListOK(p)'
  BY <1>1 DEF ListOK
<1>12. /\ \A q \in Pages : PairOK(q)'
       /\ \A c \in Pages : page'[c].list = "disk_reserve" => ReserveOK(c)'
  <2>1. \A a, c \in Pages : ~Backs(t, a, c)
    <3>1. evict[t].dpage = 0
      BY <1>0 DEF LocalOK, EvictorOK, EvictPcs
    <3> QED  BY <3>1 DEF Backs, Pages
  <2>2. \A q \in Pages : page'[q].list = "disk_reserve" <=> page[q].list = "disk_reserve"
    BY <1>1
  <2> QED  BY <1>0, <1>1, <2>1, <2>2, PairsQuiet
<1>13. GlobalsOK'
  BY <1>0, <1>1, <1>2, GlobalsQuiet
<1>14. SettleOK(t)' /\ pc'[t] \notin EvictPcs \cup ScanPcs
  BY CalmSettles
<1>15. \A q \in C, f \in Executors \ {t} : Apart(f, q) /\ ~Settles(f, q)
  BY <1>4, <1>5, <1>c DEF Settling
<1> QED
  BY <1>3, <1>9, <1>10, <1>11, <1>12, <1>13, <1>14, <1>15, <1>c, ThreadLift

\* Swap-in and prefetch claim the pages they read.
LEMMA FaultClaimPlace ==
    ASSUME OwnerInv, OwnerInv', PlaceInv, NEW t \in Threads, failed' = "none", page' # page,
           handle_missing_fault(t) \/ PrefetchFind(t)
    PROVE  PlaceInv'
<1>0. /\ t \in Executors /\ TypeOK /\ fault[t] \in FaultLocals /\ ThreadOK(t) /\ OnlyMoves(t)
      /\ fault[t].page \in Pages \cup {0} /\ fault[t].reading \in Seq(Pages)
  BY ThreadFacts, OwnerWeaker, FaultStartInv DEF OwnerInv, TypeInv, StepOK
<1>s. ASSUME pc[t] \in {"missing", "find"}, pc'[t] \in {"find", "fetch"}
      PROVE  pc[t] \in CalmPcs /\ pc'[t] \in CalmPcs \ (EvictPcs \cup ScanPcs)
  BY <1>s DEF CalmPcs, SettlePcs, EvictPcs, ScanPcs, PcLabels
<1>1. CASE handle_missing_fault(t)
  <2>p. PICK p : p = fault[t].page
    OBVIOUS
  <2>1. /\ Claimable(p) /\ DetachAsserts(p) /\ page' = ClaimPage(p)
        /\ fault' = [fault EXCEPT ![t].job = "swapin", ![t].reading = <<p>>]
        /\ pc' = [pc EXCEPT ![t] = "fetch"] /\ pc[t] = "missing"
        /\ UNCHANGED <<pages, pte, evict, scan>>
    BY <1>1, <2>p DEF handle_missing_fault, At, sharedVars, Abort
  <2>2. p \in Pages /\ fault[t].reading = <<>>
    BY <1>0, <2>1, <2>p DEF ThreadOK
  <2>3. /\ pc'[t] = "fetch" /\ fault'[t].reading = <<p>> /\ fault'[t].frees = fault[t].frees
    BY <1>0, <2>1 DEF TypeOK, FaultLocals
  <2>4. <<p>> = Append(fault[t].reading, p)
    BY <2>2
  <2> QED
    BY <1>0, <1>s, <2>1, <2>2, <2>3, <2>4, ClaimPlace DEF Claimable, DetachAsserts
<1>2. CASE PrefetchFind(t)
  <2>p. PICK p : p = find_page(PrefetchNext(t))
    OBVIOUS
  <2>1. /\ PrefetchWanted(t) /\ DetachAsserts(p) /\ page' = ClaimPage(p)
        /\ fault' = [fault EXCEPT ![t].reading = Append(@, p)]
        /\ pc[t] = "find" /\ UNCHANGED <<pages, pte, pc, evict, scan>>
    BY <1>2, <2>p DEF PrefetchFind, At, sharedVars, Abort
  <2>2. p \in Pages /\ Claimable(p)
    <3>1. PrefetchNext(t) \in VA /\ p = pages[PrefetchNext(t)] /\ p # 0 /\ Claimable(p)
      BY <2>1, <2>p DEF PrefetchWanted, find_page
    <3> QED  BY <1>0, <3>1 DEF TypeOK
  <2>3. /\ pc'[t] = "find" /\ fault'[t].reading = Append(fault[t].reading, p)
        /\ fault'[t].frees = fault[t].frees
    BY <1>0, <2>1 DEF TypeOK, FaultLocals
  <2> QED  BY <1>0, <1>s, <2>1, <2>2, <2>3, ClaimPlace DEF Claimable, DetachAsserts
<1> QED  BY <1>1, <1>2

\* A thread that looked for a frame has got d.
LEMMA ReceivePlace ==
    ASSUME OwnerInv, OwnerInv', PlaceInv, NEW t \in Threads, OnlyMoves(t),
           NEW C \in SUBSET Pages, NEW d \in C,
           \A q \in Pages \ C : Untouched(t, q),
           \A q \in C, f \in Executors \ {t} : Apart(f, q),
           \A q \in C, f \in Executors \ {t} : ~Settles(f, q),
           \A q \in C : ~Holds(t, "read", q) /\ ~Holds(t, "free", q) /\ ListOK(q)',
           pc[t] \in FetchPcs, ReceiveFrame(t, d), FrameDesc(page'[d]),
           \A p \in Pages : PairOK(p)',
           \A c \in Pages : page'[c].list = "disk_reserve" => ReserveOK(c)',
           GlobalsOK'
    PROVE  PlaceInv'
<1>0. /\ t \in Executors /\ TypeOK /\ fault[t] \in FaultLocals /\ fault[t].frees \in Seq(Pages)
      /\ d \in Pages
  BY ThreadFacts, OwnerWeaker
<1>1. /\ pc'[t] \in {"allocate", "fetch", "finish"}
      /\ fault'[t].reading = fault[t].reading
      /\ fault'[t].frees = Append(fault[t].frees, d)
  BY <1>0 DEF ReceiveFrame, TypeOK, FaultLocals
<1>2. pc[t] \notin {"map", "add"} /\ pc'[t] \notin {"map", "add"}
  BY <1>1 DEF FetchPcs, ScanPcs, EvictPcs
<1>3. ReadOK(t)'
  BY <1>1, <1>2, BatchKept
<1>4. FreeOK(t)'
  <2> SUFFICES ASSUME NEW i \in DOMAIN fault'[t].frees, NEW q, q = fault'[t].frees[i]
               PROVE  FrameDesc(page'[q])
    BY <1>2 DEF FreeOK
  <2>1. CASE q = d
    BY <2>1
  <2>2. CASE q # d
    <3>1. PICK j \in DOMAIN fault[t].frees : q = fault[t].frees[j]
      BY <1>0, <1>1, <2>2, AppendMember DEF Among
    <3>2. q \in Pages /\ FrameDesc(page[q]) /\ Holds(t, "free", q)
      BY <1>0, <1>2, <3>1 DEF PlaceInv, HeldOK, FreeOK, Holds
    <3>3. Untouched(t, q)
      BY <3>2
    <3> QED  BY <3>2, <3>3 DEF Untouched
  <2> QED  BY <2>1, <2>2
<1>5. SettleOK(t)' /\ pc'[t] \notin EvictPcs \cup ScanPcs
  BY <1>1 DEF SettleOK, SettlePcs, EvictPcs, ScanPcs
<1> QED  BY <1>3, <1>4, <1>5, ThreadLift

\* A frame from dram_free_list, or the one the thread has emptied itself.
LEMMA FetchPlace ==
    ASSUME OwnerInv, OwnerInv', PlaceInv, NEW t \in Threads, failed' = "none",
           FetchFree(t) \/ FetchEvicted(t)
    PROVE  PlaceInv'
<1>0. /\ t \in Executors /\ t \in Evictors /\ TypeOK /\ TypeOK' /\ LocalsOK'
      /\ page \in [Pages -> UserPage] /\ EvictorOK(t) /\ Ownership
      /\ OnlyMoves(t) /\ evict[t] \in EvictLocals /\ VictimOK(t) /\ DpageOK(t)
  BY ThreadFacts, OwnerWeaker, FetchInv DEF OwnerInv, TypeInv, UseInv, StepOK, PlaceInv, HeldOK, TypeOK
<1>1. /\ pc[t] \in {"fetch", "release"} /\ pc'[t] \in {"allocate", "fetch", "finish"}
      /\ UNCHANGED <<pages, pte, scan>>
  BY <1>0 DEF FetchFree, FetchEvicted, ReceiveFrame, At, Abort, TypeOK
<1>2. /\ \A q : /\ Settles(t, q)' <=> Settles(t, q)
                /\ Windows(t, q)' <=> Windows(t, q)
      /\ pc[t] \in FetchPcs
      /\ \A v \in VA : pte'[v].present => pte[v].present
  BY <1>1 DEF Settles, Windows, SettlePcs, FetchPcs, EvictPcs, ScanPcs
<1>r. /\ "read" \in Roles /\ "free" \in Roles /\ "dpage" \in Roles
  BY DEF Roles
<1>b. \A a, c \in Pages : ~Backs(t, a, c)
  BY <1>1 DEF Backs
<1>3. CASE FetchFree(t)
  <2>d. PICK d : d = Head(fifo["dram_free"])
    OBVIOUS
  <2>1. /\ fifo["dram_free"] # <<>> /\ ReceiveFrame(t, d) /\ evict' = evict
        /\ page' = [page EXCEPT ![d] = [FramePage(t, page[d]) EXCEPT !.list = "none"]]
    BY <1>3, <2>d DEF FetchFree
  <2>2. d \in Pages /\ page[d].list = "dram_free"
    <3>1. fifo["dram_free"] \in Seq(Pages) /\ "dram_free" \in Queues
      BY <1>0 DEF TypeOK, Queues
    <3>2. d \in Pages /\ d = fifo["dram_free"][1] /\ 1 \in DOMAIN fifo["dram_free"]
      BY <2>d, <2>1, <3>1, HeadTail
    <3> QED BY <3>1, <3>2 DEF OwnerInv, QueuesMatch
  <2>3. FrameDesc(page[d])
    BY <2>2 DEF PlaceInv, ListOK
  <2>4. /\ \A q \in Pages \ {d} : page'[q] = page[q]
        /\ page'[d].va = page[d].va /\ page'[d].reserve = page[d].reserve
        /\ page'[d].virtual_offset = page[d].virtual_offset
        /\ page'[d].in_dram = page[d].in_dram /\ page'[d].list = "none"
    BY <1>0, <2>1, <2>2 DEF UserPage, FramePage
  <2>5. FrameDesc(page'[d]) /\ ListOK(d)'
    BY <2>3, <2>4 DEF FrameDesc, ListOK
  <2>c. PICK C \in SUBSET Pages : C = {d}
    BY <2>2
  <2>6. \A q \in Pages \ C : Untouched(t, q)
    BY <1>1, <1>2, <2>4, <2>c DEF Untouched
  <2>7. \A q \in C, f \in Executors \ {t} : Apart(f, q) /\ ~Settles(f, q)
    <3>1. ~Settling(d)
      BY <2>3, SettlingMapped DEF FrameDesc, Mapped, VA
    <3> QED  BY <1>0, <2>2, <2>c, <3>1, NotOthers DEF Settling
  <2>8. \A q \in C : ~Holds(t, "read", q) /\ ~Holds(t, "free", q) /\ ListOK(q)'
    BY <1>0, <1>r, <2>2, <2>5, <2>c DEF Ownership
  <2>9. /\ \A q \in Pages : PairOK(q)'
        /\ \A c \in Pages : page'[c].list = "disk_reserve" => ReserveOK(c)'
    <3>1. \A q \in Pages : /\ page'[q].va = page[q].va /\ page'[q].reserve = page[q].reserve
                           /\ page'[q].list = "disk_reserve" <=> page[q].list = "disk_reserve"
      BY <2>2, <2>4
    <3> QED  BY <1>0, <1>b, <3>1, PairsQuiet
  <2>10. GlobalsOK'
    <3>1. \A q \in Pages : page'[q].va = page[q].va
      BY <2>4
    <3> QED  BY <1>0, <1>1, <1>2, <2>1, <3>1, GlobalsQuiet
  <2> QED
    BY <1>0, <1>2, <2>1, <2>5, <2>6, <2>7, <2>8, <2>9, <2>10, <2>c, ReceivePlace
<1>4. CASE FetchEvicted(t)
  <2>p. PICK p, d : p = evict[t].victim /\ d = evict[t].dpage
    OBVIOUS
  <2>1. /\ page' = [page EXCEPT ![p].migrating = FALSE, ![d] = FramePage(t, page[d])]
        /\ evict' = [evict EXCEPT ![t] = NoEvict] /\ pc[t] = "release"
        /\ ReceiveFrame(t, d)
    BY <1>4, <2>p DEF FetchEvicted, Victim, DiskPage, Abort, At
  <2>2. /\ p \in Pages /\ d \in Pages /\ p # d /\ Mapped(p) /\ page[d].list = "none"
        /\ page[p].list = "disk_active" /\ ~Settling(p) /\ FrameDesc(page[d])
    <3>1. d # 0 /\ pc[t] \in EvictPcs
      BY <1>0, <2>1, <2>p DEF EvictorOK, EvictPcs
    <3>2. page[p].list = "disk_active" /\ ~Settling(p) /\ FrameDesc(page[d])
      BY <1>0, <2>1, <2>p, <3>1 DEF VictimOK, DpageOK
    <3> QED  BY <1>0, <2>p, <3>1, <3>2, EvictorFacts
  <2>3. /\ \A q \in Pages \ {p, d} : page'[q] = page[q]
        /\ page'[p] = [page[p] EXCEPT !.migrating = FALSE]
        /\ page'[d] = FramePage(t, page[d])
    BY <1>0, <2>1, <2>2
  <2>4. /\ \A q \in Pages : /\ page'[q].va = page[q].va /\ page'[q].reserve = page[q].reserve
                            /\ page'[q].virtual_offset = page[q].virtual_offset
                            /\ page'[q].in_dram = page[q].in_dram
                            /\ page'[q].list = page[q].list
                            /\ page'[q].swapped_out = page[q].swapped_out
    BY <1>0, <2>2, <2>3 DEF UserPage, FramePage
  <2>5. FrameDesc(page'[d]) /\ ListOK(d)'
    BY <2>2, <2>4 DEF FrameDesc, ListOK
  <2>6. ListOK(p)'
    <3>1. SwappedOut(p)
      BY <2>2 DEF PlaceInv, ListOK
    <3>2. OnDisk(p)'
      BY <1>0, <1>1, <1>2, <2>2, <2>4, <3>1, FieldsKept DEF SwappedOut
    <3> QED  BY <2>2, <2>4, <3>1, <3>2 DEF ListOK, SwappedOut
  <2>c. PICK C \in SUBSET Pages : C = {p, d}
    BY <2>2
  <2>7. \A q \in Pages \ C : Untouched(t, q)
    BY <1>1, <1>2, <2>3, <2>c DEF Untouched
  <2>8. \A q \in C, f \in Executors \ {t} : Apart(f, q) /\ ~Settles(f, q)
    <3>1. ~Settling(d)
      BY <2>2, SettlingMapped DEF FrameDesc, Mapped, VA
    <3>2. Holds(t, "dpage", d)
      BY <1>0, <2>p DEF Holds
    <3>3. \A f \in Executors \ {t} : Apart(f, d)
      BY <1>0, <1>r, <2>2, <3>2, NotOthers
    <3>4. \A f \in Executors \ {t} : Apart(f, p)
      BY <1>0, <2>2, <2>p, VictimApart
    <3> QED  BY <2>2, <2>c, <3>1, <3>3, <3>4 DEF Settling
  <2>9. \A q \in C : ~Holds(t, "read", q) /\ ~Holds(t, "free", q) /\ ListOK(q)'
    <3>1. ~Holds(t, "read", p) /\ ~Holds(t, "free", p)
      BY <1>0, <1>r, <2>2 DEF Ownership
    <3>2. Holds(t, "dpage", d)
      BY <1>0, <2>p DEF Holds
    <3>3. ~Holds(t, "read", d) /\ ~Holds(t, "free", d)
      BY <1>0, <1>r, <2>2, <3>2 DEF Ownership
    <3> QED  BY <2>5, <2>6, <2>c, <3>1, <3>3
  <2>10. /\ \A q \in Pages : PairOK(q)'
         /\ \A c \in Pages : page'[c].list = "disk_reserve" => ReserveOK(c)'
    BY <1>0, <1>b, <2>4, PairsQuiet
  <2>11. GlobalsOK'
    <3>1. t \in Evictors => evict'[t].victim \in {0, evict[t].victim}
      BY <1>0, <2>1 DEF TypeOK, NoEvict
    <3> QED  BY <1>0, <1>1, <1>2, <2>4, <3>1, GlobalsQuiet
  <2> QED
    BY <1>0, <1>2, <2>1, <2>5, <2>7, <2>8, <2>9, <2>10, <2>11, <2>c, ReceivePlace
<1> QED  BY <1>3, <1>4

\* A first touch: the frame becomes the page's, or goes back.
LEMMA FirstPlace ==
    ASSUME OwnerInv, OwnerInv', PlaceInv, NEW t \in Threads, failed' = "none",
           FirstAllocate(t) => page' # page, FirstAllocate(t) \/ PutBack(t) \/ FirstMap(t) \/ FirstAdd(t)
    PROVE  PlaceInv'
<1>n. PICK n : n = fault[t].frees[1]
  OBVIOUS
<1>0. /\ t \in Executors /\ t \in Evictors /\ TypeOK /\ TypeOK' /\ LocalsOK' /\ Ownership
      /\ page \in [Pages -> UserPage] /\ fault[t] \in FaultLocals /\ ThreadOK(t)
      /\ OnlyMoves(t) /\ fault[t].frees \in Seq(Pages) /\ FreeOK(t) /\ LocalMapped(t)
      /\ EvictorOK(t)
  BY ThreadFacts, OwnerWeaker, FirstInv
     DEF OwnerInv, TypeInv, UseInv, StepOK, PlaceInv, HeldOK, LocalsMapped
<1>1. /\ pc[t] \in FirstPcs /\ pc'[t] \in {"map", "add", "spin", "idle"}
      /\ evict' = evict /\ scan' = scan /\ fault[t].addr \in VA
      /\ (pc[t] = "allocate" <=> FirstAllocate(t)) /\ (pc[t] = "put_back" <=> PutBack(t))
      /\ (pc[t] = "map" <=> FirstMap(t)) /\ (pc[t] = "add" <=> FirstAdd(t))
  <2>1. /\ pc[t] \in FirstPcs /\ evict' = evict /\ scan' = scan
        /\ pc'[t] \in {"map", "add", "spin", "idle"}
        /\ (pc[t] = "allocate" <=> FirstAllocate(t)) /\ (pc[t] = "put_back" <=> PutBack(t))
        /\ (pc[t] = "map" <=> FirstMap(t)) /\ (pc[t] = "add" <=> FirstAdd(t))
    BY <1>0 DEF FirstAllocate, PutBack, FirstMap, FirstAdd, At, FirstPcs, Abort, sharedVars,
                Resume, TypeOK
  <2> QED  BY <1>0, <2>1 DEF ThreadOK, FirstPcs
<1>2. /\ n \in Pages /\ fault[t].reading = <<>> /\ DOMAIN fault[t].frees = {1}
      /\ Holds(t, "free", n)
  <2>1. Len(fault[t].frees) = 1 /\ fault[t].reading = <<>>
    BY <1>0, <1>1 DEF ThreadOK
  <2>2. DOMAIN fault[t].frees = {1} /\ n \in Pages
    BY <1>0, <1>n, <2>1
  <2> QED  BY <1>n, <2>1, <2>2 DEF Holds
<1>3. /\ page[n].list = "none" /\ page[n].reserve = 0 /\ ~Settling(n)
      /\ \A f \in Executors \ {t} : Apart(f, n)
      /\ pc[t] \in {"allocate", "put_back"} => FrameDesc(page[n])
      /\ pc[t] \in {"map", "add"} => Mapped(n)
  <2>1. page[n].list = "none"
    BY <1>0, <1>2 DEF Ownership, Roles
  <2>2. page[n].reserve = 0
    BY <1>0, <1>1, <1>2, <1>n DEF FreeOK, FrameDesc, FirstPcs
  <2>3. ~Settling(n)
    BY <2>2, SettleFlags
  <2>4. \A f \in Executors \ {t} : Apart(f, n)
    BY <1>0, <1>2, NotOthers DEF Roles
  <2>5. pc[t] \in {"allocate", "put_back"} => FrameDesc(page[n])
    BY <1>0, <1>2, <1>n DEF FreeOK
  <2>6. pc[t] \in {"map", "add"} => Mapped(n)
    BY <1>0, <1>n DEF LocalMapped, LocalUsed
  <2> QED  BY <2>1, <2>2, <2>3, <2>4, <2>5, <2>6
<1>4. /\ \A q : /\ Settles(t, q)' <=> Settles(t, q)
                /\ Windows(t, q)' <=> Windows(t, q)
      /\ SettleOK(t)' /\ pc'[t] \notin EvictPcs \cup ScanPcs
  BY <1>1 DEF Settles, Windows, SettlePcs, FirstPcs, SettleOK, EvictPcs, ScanPcs
<1>c. PICK C \in SUBSET Pages : C = {n}
  BY <1>2
\* What is left to show.
<1>5. ASSUME \A q \in Pages \ {n} : page'[q] = page[q],
             \A q \in Pages \ {n} : Mapped(q) => (Present(q)' <=> Present(q)),
             page'[n].va = page[n].va \/ page[n].va = 0, page'[n].reserve = 0,
             page'[n].list # "disk_reserve", ListOK(n)',
             fault'[t].reading = <<>>, FreeOK(t)', Hashed', PresentHashed'
      PROVE  PlaceInv'
  <2>1. \A q \in Pages \ C : Untouched(t, q)
    BY <1>4, <1>5, <1>c DEF Untouched, Present
  <2>2. ReadOK(t)'
    BY <1>5 DEF ReadOK
  <2>3. ASSUME NEW q \in Pages PROVE PairOK(q)'
    <3>1. CASE q = n
      BY <1>5, <3>1 DEF PairOK
    <3>2. CASE q # n /\ Mapped(q) /\ page[q].reserve # 0
      <4>c. PICK c \in Pages : c = page[q].reserve
        BY <1>0, <3>2 DEF UserPage
      <4>1. /\ page[c].va = 0 /\ page[c].reserve = q
            /\ page[c].list = "disk_reserve" \/ \E f \in Executors : Backs(f, q, c)
        BY <3>2, <4>c DEF PlaceInv, PairOK
      <4>2. c # n
        BY <1>3, <4>1 DEF Pages
      <4>3. \A f \in Executors : Backs(f, q, c) => Backs(f, q, c)'
        <5>1. ~Backs(t, q, c)
          BY <1>1 DEF Backs, FirstPcs
        <5> QED  BY <1>0, <1>1, <5>1 DEF Backs, OnlyMoves
      <4> QED  BY <1>5, <3>2, <4>c, <4>1, <4>2, <4>3 DEF PairOK
    <3>3. CASE q # n /\ ~(Mapped(q) /\ page[q].reserve # 0)
      <4>1. page'[q] = page[q]
        BY <1>5, <3>3
      <4> QED  BY <3>3, <4>1 DEF PairOK, Mapped
    <3> QED  BY <3>1, <3>2, <3>3
  <2>4. ASSUME NEW c \in Pages, page'[c].list = "disk_reserve" PROVE ReserveOK(c)'
    <3>1. c # n /\ page'[c] = page[c]
      BY <1>5, <2>4
    <3>2. ReserveOK(c)
      BY <2>4, <3>1 DEF PlaceInv, ListOK
    <3>q. PICK q \in Pages : q = page[c].reserve /\ Mapped(q) /\ page[q].reserve = c
      BY <3>2 DEF ReserveOK
    <3>3. q # n
      BY <1>3, <3>q DEF Pages
    <3>4. page'[q] = page[q]
      BY <1>5, <3>3
    <3> QED  BY <3>1, <3>q, <3>4 DEF ReserveOK, Mapped
  <2>5. GlobalsOK'
    <3>1. VictimOnce'
      BY <1>1 DEF PlaceInv, VictimOnce
    <3>2. SettleOnce'
      <4>1. \A u \in Threads : pc'[u] \in SettlePcs =>
               pc[u] \in SettlePcs /\ fault'[u].page = fault[u].page
        <5>1. pc'[t] \notin SettlePcs
          BY <1>1 DEF SettlePcs
        <5> QED  BY <1>0, <5>1 DEF OnlyMoves, Executors
      <4> QED  BY <4>1 DEF PlaceInv, SettleOnce
    <3> QED  BY <1>5, <3>1, <3>2 DEF GlobalsOK
  <2>6. \A q \in C, f \in Executors \ {t} : Apart(f, q) /\ ~Settles(f, q)
    BY <1>3, <1>c DEF Settling
  <2>7. \A q \in C : ListOK(q)'
    BY <1>5, <1>c
  <2> QED  BY <1>0, <1>4, <1>5, <2>1, <2>2, <2>3, <2>4, <2>5, <2>6, <2>7, ThreadLift
<1>h. ASSUME pages' = pages, \A q \in Pages : page'[q].va = page[q].va PROVE Hashed'
  BY <1>h DEF PlaceInv, Hashed, Mapped
<1>6. CASE FirstAllocate(t)
  <2>v. PICK v \in VA : v = fault[t].addr
    BY <1>1
  <2>1. /\ pages[v] = 0 /\ page[n].va = 0
        /\ page' = [page EXCEPT ![n].migrating = TRUE, ![n].swapped_out = FALSE, ![n].va = v]
        /\ pages' = [pages EXCEPT ![v] = n]
        /\ pc' = [pc EXCEPT ![t] = "map"] /\ UNCHANGED <<pte, fault>>
    BY <1>6, <1>n, <2>v DEF FirstAllocate, NewPage, Abort, sharedVars, find_page, add_page
  <2>2. /\ \A q \in Pages \ {n} : page'[q] = page[q]
        /\ page'[n].va = v /\ page'[n].migrating /\ ~page'[n].swapped_out
        /\ page'[n].list = page[n].list /\ page'[n].reserve = page[n].reserve
        /\ page'[n].virtual_offset = page[n].virtual_offset
        /\ page'[n].in_dram = page[n].in_dram
        /\ pc'[t] = "map"
    BY <1>0, <1>2, <2>1 DEF UserPage, TypeOK
  <2>3. ~Present(n)'
    <3>1. ~pte[v].present
      BY <2>1 DEF PlaceInv, PresentHashed
    <3> QED  BY <2>1, <2>2, <3>1 DEF Present
  <2>4. FreeOK(t)'
    BY <1>1, <1>3, <1>6, <1>n, <2>1, <2>2, <2>3 DEF FreeOK, FrameDesc
  <2>5. Hashed' /\ PresentHashed'
    <3>1. ASSUME NEW q \in Pages, page'[q].va \in VA PROVE pages'[page'[q].va] = q
      <4>1. CASE q = n
        BY <1>0, <2>1, <2>2, <4>1 DEF TypeOK
      <4>2. CASE q # n
        <5>1. page'[q].va = page[q].va /\ pages[page[q].va] = q
          BY <2>2, <3>1, <4>2 DEF PlaceInv, Hashed, Mapped
        <5>2. page[q].va # v
          BY <2>1, <5>1 DEF Pages
        <5> QED  BY <1>0, <2>1, <3>1, <5>1, <5>2 DEF TypeOK
      <4> QED  BY <4>1, <4>2
    <3>2. \A u \in VA : pages'[u] = IF u = v THEN n ELSE pages[u]
      BY <1>0, <2>1 DEF TypeOK
    <3>3. PresentHashed'
      BY <1>2, <2>1, <3>2 DEF PlaceInv, PresentHashed, Pages
    <3> QED  BY <3>1, <3>3 DEF Hashed, Mapped
  <2>6. \A q \in Pages \ {n} : Mapped(q) => (Present(q)' <=> Present(q))
    BY <2>1, <2>2 DEF Present
  <2>7. ListOK(n)'
    BY <1>3, <2>2 DEF ListOK
  <2>8. /\ page'[n].va = page[n].va \/ page[n].va = 0
        /\ page'[n].reserve = 0 /\ page'[n].list # "disk_reserve" /\ fault'[t].reading = <<>>
    BY <1>2, <1>3, <2>1, <2>2
  <2> QED  BY <1>5, <2>2, <2>4, <2>5, <2>6, <2>7, <2>8
<1>7. CASE PutBack(t)
  <2>1. /\ page' = [page EXCEPT ![n].list = "dram_free"] /\ UNCHANGED <<pages, pte>>
        /\ fault' = [fault EXCEPT ![t].frees = <<>>] /\ pc' = [pc EXCEPT ![t] = "spin"]
    BY <1>7, <1>n DEF PutBack, NewPage, Abort, sharedVars
  <2>2. /\ \A q \in Pages \ {n} : page'[q] = page[q]
        /\ page'[n].va = page[n].va /\ page'[n].list = "dram_free"
        /\ page'[n].reserve = page[n].reserve
        /\ page'[n].virtual_offset = page[n].virtual_offset
        /\ page'[n].in_dram = page[n].in_dram
        /\ pc'[t] = "spin" /\ fault'[t].frees = <<>> /\ fault'[t].reading = fault[t].reading
    BY <1>0, <1>2, <2>1 DEF UserPage, TypeOK, FaultLocals
  <2>3. FreeOK(t)'
    BY <2>2 DEF FreeOK
  <2>4. Hashed' /\ PresentHashed'
    BY <1>h, <2>1, <2>2 DEF PlaceInv, PresentHashed
  <2>5. \A q \in Pages \ {n} : Mapped(q) => (Present(q)' <=> Present(q))
    BY <2>1, <2>2 DEF Present
  <2>6. ListOK(n)'
    BY <1>1, <1>3, <1>7, <2>2 DEF ListOK, FrameDesc
  <2>7. /\ page'[n].va = page[n].va \/ page[n].va = 0
        /\ page'[n].reserve = 0 /\ page'[n].list # "disk_reserve" /\ fault'[t].reading = <<>>
    BY <1>2, <1>3, <2>2
  <2> QED  BY <1>5, <2>2, <2>3, <2>4, <2>5, <2>6, <2>7
<1>8. CASE FirstMap(t)
  <2>v. PICK v \in VA : v = page[n].va
    BY <1>1, <1>3, <1>8 DEF Mapped
  <2>1. /\ page' = [page EXCEPT ![n].migrating = FALSE, ![n].swapped_out = FALSE]
        /\ pte' = [pte EXCEPT ![v] = [present |-> TRUE, wp |-> FALSE, dirty |-> FALSE,
                                      data |-> Zero]]
        /\ UNCHANGED <<pages, fault>> /\ pc' = [pc EXCEPT ![t] = "add"] /\ page[n].in_dram
    BY <1>8, <1>n, <2>v DEF FirstMap, NewPage, Abort, sharedVars, UffdioCopy
  <2>2. /\ \A q \in Pages \ {n} : page'[q] = page[q]
        /\ page'[n].va = v /\ page'[n].list = page[n].list
        /\ page'[n].reserve = page[n].reserve
        /\ page'[n].virtual_offset = page[n].virtual_offset
        /\ page'[n].in_dram = page[n].in_dram /\ ~page'[n].swapped_out
        /\ pc'[t] = "add"
    BY <1>0, <1>2, <2>1, <2>v DEF UserPage, TypeOK
  <2>3. \A u \in VA : pte'[u].present = (IF u = v THEN TRUE ELSE pte[u].present)
    BY <1>0, <2>1 DEF TypeOK
  <2>4. Resident(n)'
    <3>1. InDram(page[n].virtual_offset)
      BY <1>0, <1>1, <1>8, <1>n DEF FreeOK
    <3> QED  BY <2>1, <2>2, <2>3, <3>1 DEF Resident, Mapped, Present
  <2>5. FreeOK(t)'
    BY <1>3, <1>n, <2>1, <2>2, <2>4 DEF FreeOK
  <2>6. Hashed' /\ PresentHashed'
    <3>1. pages[v] # 0
      BY <1>2, <2>v DEF PlaceInv, Hashed, Mapped, Pages
    <3>2. PresentHashed'
      BY <2>1, <2>3, <3>1 DEF PlaceInv, PresentHashed
    <3> QED  BY <1>h, <2>1, <2>2, <2>v, <3>2
  <2>7. ASSUME NEW q \in Pages \ {n}, Mapped(q) PROVE Present(q)' <=> Present(q)
    <3>1. page[q].va # v
      BY <1>2, <2>7, <2>v DEF PlaceInv, Hashed, Mapped
    <3> QED  BY <2>2, <2>3, <2>7, <3>1 DEF Present, Mapped
  <2>8. ListOK(n)'
    BY <1>3, <2>2 DEF ListOK
  <2>9. /\ page'[n].va = page[n].va \/ page[n].va = 0
        /\ page'[n].reserve = 0 /\ page'[n].list # "disk_reserve" /\ fault'[t].reading = <<>>
    BY <1>2, <1>3, <2>1, <2>2, <2>v
  <2> QED  BY <1>5, <2>2, <2>5, <2>6, <2>7, <2>8, <2>9
<1>9. CASE FirstAdd(t)
  <2>1. /\ page' = [page EXCEPT ![n].list = "inactive"] /\ UNCHANGED <<pages, pte>>
        /\ fault' = [fault EXCEPT ![t] = NoFault] /\ pc' = [pc EXCEPT ![t] = "idle"]
    BY <1>9, <1>n DEF FirstAdd, NewPage, Abort, sharedVars, Resume
  <2>2. /\ \A q \in Pages \ {n} : page'[q] = page[q]
        /\ page'[n].va = page[n].va /\ page'[n].list = "inactive"
        /\ page'[n].reserve = page[n].reserve
        /\ page'[n].virtual_offset = page[n].virtual_offset
        /\ page'[n].in_dram = page[n].in_dram /\ page'[n].swapped_out = page[n].swapped_out
        /\ pc'[t] = "idle" /\ fault'[t].frees = <<>> /\ fault'[t].reading = <<>>
    BY <1>0, <1>2, <2>1 DEF UserPage, TypeOK, NoFault
  <2>3. FreeOK(t)'
    BY <2>2 DEF FreeOK
  <2>4. Hashed' /\ PresentHashed'
    BY <1>h, <2>1, <2>2 DEF PlaceInv, PresentHashed
  <2>5. \A q \in Pages \ {n} : Mapped(q) => (Present(q)' <=> Present(q))
    BY <2>1, <2>2 DEF Present
  <2>6. ListOK(n)'
    <3>1. Resident(n)
      BY <1>0, <1>1, <1>9, <1>n DEF FreeOK
    <3>2. Resident(n)'
      BY <1>0, <1>4, <2>1, <2>2, <3>1, FieldsKept
    <3> QED  BY <2>2, <3>2 DEF ListOK
  <2>7. /\ page'[n].va = page[n].va \/ page[n].va = 0
        /\ page'[n].reserve = 0 /\ page'[n].list # "disk_reserve" /\ fault'[t].reading = <<>>
    BY <1>3, <2>2
  <2> QED  BY <1>5, <2>2, <2>3, <2>4, <2>5, <2>6, <2>7
<1> QED  BY <1>6, <1>7, <1>8, <1>9

\* A page of the batch takes its frame, and its slot becomes its reserve.
LEMMA FinishPlace ==
    ASSUME OwnerInv, OwnerInv', PlaceInv, NEW t \in Threads, failed' = "none", FinishRead(t)
    PROVE  PlaceInv'
<1>p. PICK p, d : p = Head(fault[t].reading) /\ d = Head(fault[t].frees)
  OBVIOUS
<1>0. /\ t \in Executors /\ t \in Evictors /\ TypeOK /\ TypeOK' /\ LocalsOK' /\ Ownership
      /\ page \in [Pages -> UserPage] /\ fault[t] \in FaultLocals /\ ThreadOK(t)
      /\ OnlyMoves(t) /\ fault[t].reading \in Seq(Pages) /\ fault[t].frees \in Seq(Pages)
      /\ Distinct(fault[t].reading) /\ Distinct(fault[t].frees)
      /\ FreeOK(t) /\ ReadOK(t) /\ EvictorOK(t)
  BY ThreadFacts, OwnerWeaker, SwapInInv DEF OwnerInv, TypeInv, UseInv, StepOK, PlaceInv, HeldOK
<1>1. /\ pte' = UffdioCopy(page[p].va, Head(fault[t].buf))
      /\ page' = [page EXCEPT
           ![p].virtual_offset = page[d].virtual_offset,
           ![p].in_dram = @ \/ fault[t].job = "swapin",
           ![p].reserve = d,
           ![d] = AsReserve(page[d], p, page[p].virtual_offset)]
      /\ fault' = [fault EXCEPT ![t].page = p, ![t].reading = Tail(@),
                                ![t].buf = Tail(@), ![t].frees = Tail(@)]
      /\ pc' = [pc EXCEPT ![t] = "publish"] /\ pc[t] = "finish"
      /\ UNCHANGED <<pages, scan, evict>>
  BY <1>p DEF FinishRead, Abort, At
<1>2. /\ p \in Pages /\ d \in Pages /\ fault[t].reading # <<>> /\ fault[t].frees # <<>>
      /\ Holds(t, "read", p) /\ Holds(t, "free", d)
      /\ SwappedOut(p) /\ page[p].migrating /\ FrameDesc(page[d])
  <2>1. fault[t].reading # <<>> /\ Len(fault[t].frees) = Len(fault[t].reading)
    BY <1>0, <1>1 DEF ThreadOK
  <2>2. fault[t].frees # <<>>
    BY <1>0, <2>1
  <2>3. /\ p \in Pages /\ p = fault[t].reading[1] /\ 1 \in DOMAIN fault[t].reading
        /\ d \in Pages /\ d = fault[t].frees[1] /\ 1 \in DOMAIN fault[t].frees
    BY <1>0, <1>p, <2>1, <2>2, HeadTail
  <2>4. Holds(t, "read", p) /\ Holds(t, "free", d)
    BY <2>3 DEF Holds
  <2> QED  BY <1>0, <1>1, <2>1, <2>2, <2>3, <2>4 DEF ReadOK, FreeOK
<1>3. /\ page[p].list = "none" /\ page[d].list = "none" /\ p # d
      /\ page[d].va = 0 /\ page[p].va \in VA /\ page[p].reserve = 0 /\ page[d].reserve = 0
      /\ ~page[p].in_dram /\ page[p].swapped_out
      /\ \A f \in Executors \ {t} : Apart(f, p) /\ Apart(f, d)
      /\ ~Settling(p) /\ ~Settling(d)
  <2>1. /\ page[d].va = 0 /\ page[p].va \in VA /\ page[p].reserve = 0 /\ page[d].reserve = 0
        /\ ~page[p].in_dram /\ page[p].swapped_out
    BY <1>2 DEF SwappedOut, OnDisk, Mapped, FrameDesc
  <2>2. page[p].list = "none" /\ page[d].list = "none"
    BY <1>0, <1>2 DEF Ownership, Roles
  <2>3. \A f \in Executors \ {t} : Apart(f, p) /\ Apart(f, d)
    BY <1>0, <1>2, NotOthers DEF Roles
  <2>4. ~Settling(p) /\ ~Settling(d)
    BY <2>1, SettleFlags
  <2> QED  BY <2>1, <2>2, <2>3, <2>4 DEF VA
<1>4. /\ \A q \in Pages \ {p, d} : page'[q] = page[q]
      /\ page'[p].va = page[p].va /\ page'[p].virtual_offset = page[d].virtual_offset
      /\ page'[p].in_dram = (fault[t].job = "swapin") /\ page'[p].reserve = d
      /\ page'[p].swapped_out /\ page'[p].migrating /\ page'[p].list = page[p].list
      /\ page'[d].va = page[d].va /\ page'[d].virtual_offset = page[p].virtual_offset
      /\ ~page'[d].in_dram /\ page'[d].reserve = p /\ page'[d].list = "disk_reserve"
  <2>1. page[p] \in UserPage /\ page[d] \in UserPage
    BY <1>0, <1>2
  <2>2. /\ \A q \in Pages \ {p, d} : page'[q] = page[q]
        /\ page'[p] = [page[p] EXCEPT !.virtual_offset = page[d].virtual_offset,
                                      !.in_dram = @ \/ fault[t].job = "swapin", !.reserve = d]
        /\ page'[d] = AsReserve(page[d], p, page[p].virtual_offset)
    BY <1>0, <1>1, <1>2, <1>3
  <2>3. /\ page'[p].va = page[p].va /\ page'[p].virtual_offset = page[d].virtual_offset
        /\ page'[p].in_dram = (page[p].in_dram \/ fault[t].job = "swapin")
        /\ page'[p].reserve = d /\ page'[p].list = page[p].list
        /\ page'[p].swapped_out = page[p].swapped_out
        /\ page'[p].migrating = page[p].migrating
    BY <2>1, <2>2 DEF UserPage
  <2>4. /\ page'[d].va = page[d].va /\ page'[d].virtual_offset = page[p].virtual_offset
        /\ ~page'[d].in_dram /\ page'[d].reserve = p /\ page'[d].list = "disk_reserve"
    BY <2>1, <2>2 DEF UserPage, AsReserve
  <2> QED  BY <1>2, <1>3, <2>2, <2>3, <2>4
<1>5. /\ \A v \in VA : pte'[v].present = (IF v = page[p].va THEN TRUE ELSE pte[v].present)
      /\ pc'[t] = "publish" /\ fault'[t].page = p /\ fault'[t].job = fault[t].job
      /\ fault'[t].reading = Tail(fault[t].reading) /\ fault'[t].frees = Tail(fault[t].frees)
      /\ fault[t].job \in {"swapin", "prefetch"}
  <2>1. \A v \in VA : pte'[v].present = (IF v = page[p].va THEN TRUE ELSE pte[v].present)
    BY <1>0, <1>1 DEF TypeOK, UffdioCopy
  <2> QED  BY <1>0, <1>1, <2>1 DEF TypeOK, FaultLocals, ThreadOK
<1>6. /\ \A q : ~Settles(t, q) /\ ~Windows(t, q)
      /\ \A q : q # p => ~Settles(t, q)' /\ ~Windows(t, q)'
      /\ Settles(t, p)' /\ (Windows(t, p)' <=> fault[t].job = "prefetch")
  BY <1>1, <1>5 DEF Settles, Windows, SettlePcs
<1>7. Resident(p)'
  <2>1. Present(p)'
    BY <1>3, <1>4, <1>5 DEF Present
  <2>2. InDram(page'[p].virtual_offset)
    BY <1>2, <1>4 DEF FrameDesc
  <2>3. Settling(p)'
    BY <1>0, <1>6 DEF Settling
  <2>4. page'[p].in_dram \/ InPrefetchWindow(p)'
    <3>1. CASE fault[t].job = "swapin"
      BY <1>4, <3>1
    <3>2. CASE fault[t].job = "prefetch"
      BY <1>0, <1>6, <3>2, WindowDef
    <3> QED  BY <1>5, <3>1, <3>2
  <2> QED  BY <1>3, <1>4, <2>1, <2>2, <2>3, <2>4 DEF Resident, Mapped
<1>8. ASSUME NEW q \in Pages \ {p}, Mapped(q) PROVE Present(q)' <=> Present(q)
  <2>1. page[q].va # page[p].va /\ q # d
    BY <1>2, <1>3, <1>8 DEF PlaceInv, Hashed, Mapped, VA
  <2>2. page'[q].va = page[q].va
    BY <1>4, <2>1
  <2> QED  BY <1>5, <1>8, <2>1, <2>2 DEF Present, Mapped
<1>c. PICK C \in SUBSET Pages : C = {p, d}
  BY <1>2
<1>9. \A q \in Pages \ C : Untouched(t, q)
  BY <1>4, <1>6, <1>8, <1>c DEF Untouched, Present
<1>10. \A q \in C, f \in Executors \ {t} : Apart(f, q) /\ ~Settles(f, q)
  BY <1>3, <1>c DEF Settling
<1>11. ReadOK(t)'
  <2> SUFFICES ASSUME NEW i \in DOMAIN fault'[t].reading, NEW q, q = fault'[t].reading[i]
               PROVE  SwappedOut(q)' /\ page'[q].migrating
    BY DEF ReadOK
  <2>1. q # p /\ \E j \in DOMAIN fault[t].reading : q = fault[t].reading[j]
    <3>1. \E j \in DOMAIN Tail(fault[t].reading) : q = Tail(fault[t].reading)[j]
      BY <1>5
    <3>s. PICK s \in Seq(Pages) : s = fault[t].reading
      BY <1>0
    <3>2. Distinct(s) /\ s # <<>>
      BY <1>0, <1>2, <3>s
    <3>3. \A x : (\E j \in DOMAIN Tail(s) : x = Tail(s)[j]) <=>
                   (\E j \in DOMAIN s : x = s[j]) /\ x # Head(s)
      BY <3>2, DistinctTail
    <3> QED  BY <1>p, <3>1, <3>3, <3>s
  <2>2. q \in Pages /\ SwappedOut(q) /\ page[q].migrating /\ q # d
    <3>1. PICK j \in DOMAIN fault[t].reading : q = fault[t].reading[j]
      BY <2>1
    <3>2. q \in Pages /\ SwappedOut(q) /\ page[q].migrating
      BY <1>0, <3>1 DEF ReadOK
    <3> QED  BY <1>3, <3>2 DEF SwappedOut, OnDisk, Mapped, VA
  <2>3. Untouched(t, q)
    BY <1>9, <1>c, <2>1, <2>2
  <2> QED  BY <1>0, <2>2, <2>3, UntouchedKept DEF Untouched
<1>12. FreeOK(t)'
  <2> SUFFICES ASSUME NEW i \in DOMAIN fault'[t].frees, NEW q, q = fault'[t].frees[i]
               PROVE  FrameDesc(page'[q])
    BY <1>5 DEF FreeOK
  <2>1. q # d /\ \E j \in DOMAIN fault[t].frees : q = fault[t].frees[j]
    <3>1. \E j \in DOMAIN Tail(fault[t].frees) : q = Tail(fault[t].frees)[j]
      BY <1>5
    <3>s. PICK s \in Seq(Pages) : s = fault[t].frees
      BY <1>0
    <3>2. Distinct(s) /\ s # <<>>
      BY <1>0, <1>2, <3>s
    <3>3. \A x : (\E j \in DOMAIN Tail(s) : x = Tail(s)[j]) <=>
                   (\E j \in DOMAIN s : x = s[j]) /\ x # Head(s)
      BY <3>2, DistinctTail
    <3> QED  BY <1>p, <3>1, <3>3, <3>s
  <2>2. q \in Pages /\ FrameDesc(page[q]) /\ q # p
    <3>1. PICK j \in DOMAIN fault[t].frees : q = fault[t].frees[j]
      BY <2>1
    <3>2. q \in Pages /\ FrameDesc(page[q])
      BY <1>0, <1>1, <3>1 DEF FreeOK
    <3> QED  BY <1>3, <3>2 DEF FrameDesc, VA
  <2> QED  BY <1>4, <2>1, <2>2
<1>13. SettleOK(t)'
  <2>1. d # 0
    BY <1>2 DEF Pages
  <2>2. Windows(t, p)' => ~page'[p].in_dram
    BY <1>4, <1>6
  <2> QED  BY <1>4, <1>5, <1>7, <2>1, <2>2 DEF SettleOK
<1>14. ListOK(p)' /\ ListOK(d)'
  <2>1. ListOK(p)'
    BY <1>3, <1>4 DEF ListOK
  <2>2. SlotDesc(page'[d])
    BY <1>2, <1>3, <1>4 DEF SlotDesc, SwappedOut, OnDisk
  <2>3. ReserveOK(d)'
    BY <1>2, <1>3, <1>4 DEF ReserveOK, Mapped
  <2> QED  BY <1>4, <2>1, <2>2, <2>3 DEF ListOK
<1>15. ASSUME NEW q \in Pages PROVE PairOK(q)'
  <2>1. CASE q = p
    BY <1>3, <1>4, <2>1 DEF PairOK
  <2>2. CASE q = d
    BY <1>3, <1>4, <2>2 DEF PairOK, Mapped, VA
  <2>3. CASE q \notin {p, d} /\ Mapped(q) /\ page[q].reserve # 0
    <3>c. PICK c \in Pages : c = page[q].reserve
      BY <1>0, <2>3 DEF UserPage
    <3>1. /\ page[c].va = 0 /\ page[c].reserve = q
          /\ page[c].list = "disk_reserve" \/ \E f \in Executors : Backs(f, q, c)
      BY <2>3, <3>c DEF PlaceInv, PairOK
    <3>2. c \notin {p, d}
      BY <1>3, <3>1 DEF Pages
    <3>3. \A f \in Executors : Backs(f, q, c) => Backs(f, q, c)'
      <4>1. ~Backs(t, q, c)
        BY <1>1 DEF Backs
      <4> QED  BY <1>0, <4>1 DEF Backs, OnlyMoves
    <3> QED  BY <1>4, <2>3, <3>c, <3>1, <3>2, <3>3 DEF PairOK
  <2>4. CASE q \notin {p, d} /\ ~(Mapped(q) /\ page[q].reserve # 0)
    <3>1. page'[q] = page[q]
      BY <1>4, <2>4
    <3> QED  BY <2>4, <3>1 DEF PairOK, Mapped
  <2> QED  BY <2>1, <2>2, <2>3, <2>4
<1>16. ASSUME NEW c \in Pages, page'[c].list = "disk_reserve" PROVE ReserveOK(c)'
  <2>1. CASE c = d
    BY <1>2, <1>3, <1>4, <2>1 DEF ReserveOK, Mapped
  <2>2. CASE c # d
    <3>1. c # p /\ page'[c] = page[c]
      BY <1>3, <1>4, <1>16, <2>2
    <3>2. ReserveOK(c)
      BY <1>16, <3>1 DEF PlaceInv, ListOK
    <3>q. PICK q \in Pages : q = page[c].reserve /\ Mapped(q) /\ page[q].reserve = c
      BY <3>2 DEF ReserveOK
    <3>3. q \notin {p, d}
      BY <1>3, <3>q DEF Pages
    <3>4. page'[q] = page[q]
      BY <1>4, <3>3
    <3> QED  BY <3>1, <3>q, <3>4 DEF ReserveOK, Mapped
  <2> QED  BY <2>1, <2>2
<1>17. GlobalsOK'
  <2>1. VictimOnce'
    BY <1>1 DEF PlaceInv, VictimOnce
  <2>2. SettleOnce'
    <3>1. \A u \in Threads \ {t} : /\ pc'[u] = pc[u] /\ fault'[u] = fault[u]
                                   /\ pc[u] \in SettlePcs => fault[u].page # p
      <4>1. \A u \in Threads \ {t} : pc'[u] = pc[u] /\ fault'[u] = fault[u]
        BY <1>0 DEF OnlyMoves, Executors
      <4>2. \A u \in Threads : pc[u] \in SettlePcs => fault[u].page # p
        BY <1>3 DEF Settling, Settles, Executors
      <4> QED  BY <4>1, <4>2
    <3> QED  BY <1>5, <3>1 DEF PlaceInv, SettleOnce
  <2>3. Hashed'
    <3>1. \A q \in Pages : page'[q].va = page[q].va
      BY <1>4
    <3> QED  BY <1>1, <3>1 DEF PlaceInv, Hashed, Mapped
  <2>4. PresentHashed'
    <3>1. pages[page[p].va] # 0
      BY <1>2, <1>3 DEF PlaceInv, Hashed, Mapped, Pages
    <3> QED  BY <1>1, <1>5, <3>1 DEF PlaceInv, PresentHashed
  <2> QED  BY <2>1, <2>2, <2>3, <2>4 DEF GlobalsOK
<1>18. \A q \in C : ListOK(q)'
  BY <1>14, <1>c
<1>19. pc'[t] \notin EvictPcs \cup ScanPcs
  BY <1>5 DEF EvictPcs, ScanPcs
<1> QED
  BY <1>0, <1>9, <1>10, <1>11, <1>12, <1>13, <1>15, <1>16, <1>17, <1>18, <1>19, ThreadLift

\* The page is put where reclaim can see it.
LEMMA PublishPlace ==
    ASSUME OwnerInv, OwnerInv', PlaceInv, NEW t \in Threads, failed' = "none", PublishPage(t)
    PROVE  PlaceInv'
<1>p. PICK p : p = fault[t].page
  OBVIOUS
<1>0. /\ t \in Executors /\ t \in Evictors /\ TypeOK /\ TypeOK' /\ LocalsOK' /\ Ownership
      /\ page \in [Pages -> UserPage] /\ fault[t] \in FaultLocals /\ ThreadOK(t)
      /\ OnlyMoves(t) /\ HeldOK(t)
  BY ThreadFacts, OwnerWeaker, SwapInInv DEF OwnerInv, TypeInv, UseInv, StepOK, PlaceInv, PublishPage
<1>1. /\ page' = [page EXCEPT ![p].list = "inactive"]
      /\ pc' = [pc EXCEPT ![t] = IF fault[t].job = "swapin" THEN "settle" ELSE "resident"]
      /\ pc[t] = "publish" /\ UNCHANGED <<pages, pte, disk, fault, scan, evict>>
  BY <1>p DEF PublishPage, At
<1>2. /\ p \in Pages /\ Holds(t, "page", p) /\ Resident(p) /\ SettleOK(t)
      /\ fault[t].job \in {"swapin", "prefetch"}
      /\ pc'[t] = IF fault[t].job = "swapin" THEN "settle" ELSE "resident"
  BY <1>0, <1>1, <1>p DEF ThreadOK, SettlePcs, Holds, HeldOK, SettleOK, FaultLocals, TypeOK
<1>3. /\ \A q \in Pages \ {p} : page'[q] = page[q]
      /\ \A q \in Pages : /\ page'[q].va = page[q].va /\ page'[q].reserve = page[q].reserve
                          /\ page'[q].virtual_offset = page[q].virtual_offset
                          /\ page'[q].in_dram = page[q].in_dram
                          /\ page'[q].migrating = page[q].migrating
                          /\ page'[q].swapped_out = page[q].swapped_out
      /\ page'[p].list = "inactive"
  BY <1>0, <1>1, <1>2 DEF UserPage
<1>4. /\ \A q : /\ Settles(t, q)' <=> Settles(t, q)
                /\ Windows(t, q)' <=> Windows(t, q)
      /\ \A v \in VA : pte'[v].present => pte[v].present
  BY <1>1, <1>2 DEF Settles, Windows, SettlePcs
<1>5. Resident(p)'
  BY <1>0, <1>1, <1>2, <1>3, <1>4, FieldsKept
<1>c. PICK C \in SUBSET Pages : C = {p}
  BY <1>2
<1>6. \A q \in Pages \ C : Untouched(t, q)
  BY <1>1, <1>3, <1>4, <1>c DEF Untouched
<1>7. \A q \in C, f \in Executors \ {t} : Apart(f, q)
  BY <1>0, <1>2, <1>c, NotOthers DEF Roles
<1>8. \A q \in C, f \in Executors \ {t} : Settles(f, q) =>
        /\ page'[q].swapped_out /\ page'[q].migrating /\ page'[q].reserve # 0
        /\ page'[q].in_dram => page[q].in_dram
  BY <1>3, <1>c, SettleFlags DEF Settling
<1>9. ReadOK(t)' /\ FreeOK(t)'
  <2>1. \A q \in C : ~Holds(t, "read", q) /\ ~Holds(t, "free", q)
    BY <1>0, <1>2, <1>c DEF Ownership, Roles
  <2>2. pc[t] \notin {"map", "add"} /\ pc'[t] \notin {"map", "add"}
    BY <1>1, <1>2
  <2> QED  BY <1>0, <1>1, <1>6, <2>1, <2>2, BatchKept
<1>10. SettleOK(t)'
  <2>1. Windows(t, p)' <=> Windows(t, p)
    BY <1>4
  <2>2. /\ pc'[t] # "publish" /\ fault'[t].page = p /\ pc[t] \in SettlePcs
        /\ pc'[t] = "resident" => fault'[t].job = "prefetch"
    BY <1>1, <1>2, <1>p DEF SettlePcs
  <2>3. /\ page[p].swapped_out /\ page[p].migrating /\ page[p].reserve # 0
        /\ Windows(t, p) => ~page[p].in_dram
    BY <1>2, <1>p, <2>2 DEF SettleOK
  <2> QED  BY <1>2, <1>3, <2>1, <2>2, <2>3 DEF SettleOK
<1>11. \A q \in C : ListOK(q)'
  BY <1>3, <1>5, <1>c DEF ListOK
<1>12. /\ \A q \in Pages : PairOK(q)'
       /\ \A c \in Pages : page'[c].list = "disk_reserve" => ReserveOK(c)'
  <2>1. \A a, c \in Pages : ~Backs(t, a, c)
    BY <1>1 DEF Backs
  <2>2. page[p].list = "none"
    BY <1>0, <1>2 DEF Ownership, Roles
  <2>3. \A q \in Pages : page'[q].list = "disk_reserve" <=> page[q].list = "disk_reserve"
    BY <1>3, <2>2
  <2> QED  BY <1>0, <1>3, <2>1, <2>3, PairsQuiet
<1>13. GlobalsOK'
  BY <1>0, <1>1, <1>3, <1>4, GlobalsQuiet
<1>14. pc'[t] \notin EvictPcs \cup ScanPcs
  BY <1>2 DEF EvictPcs, ScanPcs
<1> QED
  BY <1>0, <1>6, <1>7, <1>8, <1>9, <1>10, <1>11, <1>12, <1>13, <1>14, ThreadLift

\* What others say of a page that a thread settles: it is theirs to evict up to
\* the check of its flags, or to scan, and it is nothing else.
LEMMA SettledByOthers ==
    ASSUME OwnerInv, PlaceInv, NEW t \in Threads, NEW p, p = fault[t].page, pc[t] \in SettlePcs
    PROVE  /\ p \in Pages /\ Mapped(p) /\ page[p].reserve # 0
           /\ page[p].list \in {"none", "active", "inactive", "eviction"}
           /\ \A e \in Evictors : evict[e].victim = p =>
                pc[e] \in {"protect", "back", "write", "unmap", "mark"}
           /\ \A e \in Evictors : evict[e].dpage # p
           /\ \A u \in Threads : \A i \in DOMAIN fault[u].reading : fault[u].reading[i] # p
           /\ \A u \in Threads : \A i \in DOMAIN fault[u].frees : fault[u].frees[i] # p
           /\ \A u \in Threads \ {t} : pc[u] \in SettlePcs => fault[u].page # p
<1>0. /\ t \in Executors /\ fault[t] \in FaultLocals /\ ThreadOK(t) /\ page \in [Pages -> UserPage]
      /\ Settles(t, p)
  BY ThreadFacts, OwnerWeaker DEF Settles
<1>1. p \in Pages /\ Mapped(p) /\ page[p].va # 0 /\ Settling(p)
  <2>1. Settling(p)
    BY <1>0 DEF Settling
  <2>2. Mapped(p)
    BY <2>1, SettlingMapped
  <2> QED  BY <1>0, <2>1, <2>2 DEF ThreadOK, FaultLocals, Mapped, VA
<1>2. page[p].reserve # 0 /\ page[p].swapped_out
  BY <1>1, SettleFlags
<1>3. page[p].list \in {"none", "active", "inactive", "eviction"}
  <2>1. page[p].list \in Lists /\ ListOK(p)
    BY <1>0, <1>1 DEF UserPage, PlaceInv
  <2> QED  BY <1>1, <1>2, <2>1 DEF Lists, Queues, ListOK, FrameDesc, SlotDesc, SwappedOut
<1>4. ASSUME NEW e \in Evictors, evict[e].victim = p
      PROVE  pc[e] \in {"protect", "back", "write", "unmap", "mark"}
  <2>1. e \in Executors /\ pc[e] \in EvictPcs /\ VictimOK(e)
    BY <1>1, <1>4 DEF OwnerInv, TypeInv, UseInv, LocalsOK, LocalOK, EvictorOK, PlaceInv, HeldOK, Pages,
                      Evictors, Executors
  <2> QED  BY <1>1, <1>4, <2>1 DEF EvictPcs, VictimOK
<1>5. ASSUME NEW e \in Evictors, evict[e].dpage = p PROVE FALSE
  BY <1>1, <1>5, EvictorFacts DEF Pages
<1>6. ASSUME NEW u \in Threads, NEW i \in DOMAIN fault[u].reading, fault[u].reading[i] = p
      PROVE  FALSE
  <2>1. SwappedOut(p)
    BY <1>6 DEF PlaceInv, HeldOK, ReadOK, Executors
  <2> QED  BY <1>2, <2>1 DEF SwappedOut
<1>7. ASSUME NEW u \in Threads, NEW i \in DOMAIN fault[u].frees, fault[u].frees[i] = p
      PROVE  FALSE
  <2>1. FreeOK(u) /\ ThreadOK(u) /\ fault[u].frees \in Seq(Pages)
    BY <1>7, ThreadFacts, OwnerWeaker DEF PlaceInv, HeldOK
  <2>2. CASE pc[u] \notin {"map", "add"}
    BY <1>1, <1>7, <2>1, <2>2 DEF FreeOK, FrameDesc
  <2>3. CASE pc[u] \in {"map", "add"}
    <3>1. Len(fault[u].frees) = 1
      BY <2>1, <2>3 DEF ThreadOK, FirstPcs
    <3>2. i = 1
      BY <1>7, <2>1, <3>1
    <3> QED  BY <1>2, <1>7, <2>1, <2>3, <3>2 DEF FreeOK
  <2> QED  BY <2>2, <2>3
<1>8. \A u \in Threads \ {t} : pc[u] \in SettlePcs => fault[u].page # p
  BY DEF PlaceInv, SettleOnce
<1> QED  BY <1>1, <1>2, <1>3, <1>4, <1>5, <1>6, <1>7, <1>8

\* The flags of a page change after reclaim may have seen it.
LEMMA SettlePlace ==
    ASSUME OwnerInv, OwnerInv', PlaceInv, NEW t \in Threads, failed' = "none",
           PrefetchResident(t) \/ Settle(t)
    PROVE  PlaceInv'
<1>p. PICK p : p = fault[t].page
  OBVIOUS
<1>0. /\ t \in Executors /\ TypeOK /\ TypeOK' /\ LocalsOK'
      /\ page \in [Pages -> UserPage] /\ fault[t] \in FaultLocals /\ ThreadOK(t)
      /\ OnlyMoves(t) /\ HeldOK(t) /\ SettleOK(t) /\ fault[t].frees \in Seq(Pages)
  BY ThreadFacts, OwnerWeaker, SwapInInv
     DEF OwnerInv, TypeInv, UseInv, StepOK, PlaceInv, HeldOK, PrefetchResident, Settle
<1>1. /\ pc[t] \in {"resident", "settle"} /\ pc[t] \in SettlePcs
      /\ UNCHANGED <<pages, pte, scan, evict>>
      /\ pc[t] = "resident" => /\ PrefetchResident(t) /\ pc'[t] = "settle" /\ fault' = fault
      /\ pc[t] = "settle" => Settle(t) /\ pc'[t] \in {"idle", "find", "finish"}
  BY <1>0 DEF PrefetchResident, Settle, At, SettlePcs, Resume, TypeOK
<1>2. /\ p \in Pages /\ Mapped(p) /\ page[p].reserve # 0
      /\ page[p].list \in {"none", "active", "inactive", "eviction"}
      /\ \A e \in Evictors : evict[e].victim = p =>
           pc[e] \in {"protect", "back", "write", "unmap", "mark"}
      /\ \A e \in Evictors : evict[e].dpage # p
      /\ \A u \in Threads : \A i \in DOMAIN fault[u].reading : fault[u].reading[i] # p
      /\ \A u \in Threads : \A i \in DOMAIN fault[u].frees : fault[u].frees[i] # p
      /\ \A u \in Threads \ {t} : pc[u] \in SettlePcs => fault[u].page # p
  BY <1>1, <1>p, SettledByOthers
<1>3. /\ \A q \in Pages \ {p} : page'[q] = page[q]
      /\ \A q \in Pages : /\ page'[q].va = page[q].va /\ page'[q].reserve = page[q].reserve
                          /\ page'[q].virtual_offset = page[q].virtual_offset
                          /\ page'[q].list = page[q].list
      /\ pc[t] = "resident" => /\ page'[p].in_dram /\ page'[p].migrating = page[p].migrating
                               /\ page'[p].swapped_out = page[p].swapped_out
      /\ pc[t] = "settle" => page'[p].in_dram = page[p].in_dram /\ ~page'[p].swapped_out
  <2>1. CASE pc[t] = "resident"
    BY <1>0, <1>1, <1>2, <1>p, <2>1 DEF PrefetchResident, UserPage
  <2>2. CASE pc[t] = "settle"
    BY <1>0, <1>1, <1>2, <1>p, <2>2 DEF Settle, UserPage
  <2> QED  BY <1>1, <2>1, <2>2
<1>4. /\ \A q : q # p => /\ ~Settles(t, q) /\ ~Settles(t, q)' /\ ~Windows(t, q) /\ ~Windows(t, q)'
      /\ ~Windows(t, p)' /\ (Settles(t, p)' <=> pc[t] = "resident") /\ Settles(t, p)
      /\ Windows(t, p) => pc[t] = "resident"
  BY <1>1, <1>p DEF Settles, Windows, SettlePcs
<1>5. \A q \in Pages \ {p} : Untouched(t, q)
  BY <1>1, <1>3, <1>4 DEF Untouched
<1>6. /\ ~InPrefetchWindow(p)' /\ (InPrefetchWindow(p) <=> pc[t] = "resident")
      /\ pc[t] = "resident" => Settling(p)'
  <2>1. \A u \in Executors \ {t} : ~Windows(u, p) /\ ~Windows(u, p)'
    <3>1. \A u \in Executors \ {t} : ~Windows(u, p)
      BY <1>2 DEF Windows, SettlePcs
    <3> QED  BY <1>0, <3>1, OthersSettle
  <2>2. pc[t] = "resident" => Windows(t, p)
    <3>1. pc[t] = "resident" => fault[t].job = "prefetch"
      BY <1>0, <1>1 DEF SettleOK
    <3> QED  BY <1>p, <3>1 DEF Windows
  <2> QED  BY <1>0, <1>4, <2>1, <2>2, WindowDef DEF Settling
<1>7. Resident(p) => Resident(p)'
  BY <1>1, <1>2, <1>3, <1>6 DEF Resident, Mapped, Present
<1>8. OnDisk(p) => OnDisk(p)' /\ pc[t] = "settle"
  BY <1>1, <1>2, <1>3, <1>6 DEF OnDisk, Mapped, Present
<1>9. \A q \in Pages \ {p} : /\ Settling(q)' <=> Settling(q)
                             /\ Resident(q) => Resident(q)'
                             /\ OnDisk(q) => OnDisk(q)'
                             /\ SwappedOut(q) => SwappedOut(q)'
  BY <1>0, <1>5, UntouchedKept
<1>10. \A q \in Pages : Resident(q) => Resident(q)'
  BY <1>7, <1>9
<1>e. ASSUME NEW e \in Evictors PROVE VictimOK(e)' /\ DpageOK(e)'
  <2>a. PICK a, d : a = evict[e].victim /\ d = evict[e].dpage
    OBVIOUS
  <2>0. /\ e \in Executors /\ VictimOK(e) /\ DpageOK(e) /\ EvictorOK(e) /\ evict'[e] = evict[e]
        /\ a \in Pages \cup {0} /\ d \in Pages \cup {0} /\ EvictorOK(e)'
    BY <1>0, <1>1, <2>a
       DEF PlaceInv, HeldOK, OwnerInv, TypeInv, UseInv, LocalsOK, LocalOK, TypeOK, EvictLocals, Evictors,
           Executors
  <2>1. CASE pc'[e] \notin EvictPcs
    <3>1. evict'[e].dpage = 0
      BY <2>0, <2>1 DEF EvictorOK, EvictPcs
    <3> QED  BY <2>1, <3>1 DEF VictimOK, DpageOK, EvictPcs
  <2>2. CASE pc'[e] \in EvictPcs
    <3>1. pc'[e] = pc[e] /\ a \in Pages /\ a = evict'[e].victim /\ d = evict'[e].dpage
      <4>1. e # t
        BY <1>1, <2>2 DEF EvictPcs
      <4> QED  BY <1>0, <2>0, <2>2, <2>a, <4>1 DEF OnlyMoves, EvictorOK
    <3>2. VictimOK(e)'
      <4>1. CASE a # p
        BY <1>3, <1>9, <2>0, <2>a, <3>1, <4>1 DEF VictimOK
      <4>2. CASE a = p
        <5>1. pc[e] \in {"protect", "back", "write", "unmap", "mark"}
          BY <1>2, <2>a, <4>2
        <5>2. pc[e] = "mark" => OnDisk(p)' /\ ~page'[p].swapped_out
          BY <1>3, <1>8, <2>0, <2>a, <4>2 DEF VictimOK
        <5>3. pc[e] = "unmap" => page'[p].in_dram
          BY <1>1, <1>3, <2>0, <2>a, <4>2 DEF VictimOK
        <5> QED  BY <1>7, <2>0, <2>a, <3>1, <4>2, <5>1, <5>2, <5>3 DEF VictimOK
      <4> QED  BY <4>1, <4>2
    <3>3. DpageOK(e)'
      <4>1. d # p
        BY <1>2, <2>a
      <4>2. d # 0 => page'[d] = page[d]
        BY <1>3, <2>0, <4>1
      <4>3. page'[a].reserve = page[a].reserve /\ page'[a].virtual_offset = page[a].virtual_offset
        BY <1>3, <3>1
      <4> QED  BY <2>0, <2>a, <3>1, <4>2, <4>3 DEF DpageOK
    <3> QED  BY <3>2, <3>3
  <2> QED  BY <2>1, <2>2
<1>f. ASSUME NEW e \in Scanners PROVE ScanOK(e)'
  BY <1>1, <1>10, <1>f DEF PlaceInv, HeldOK, ScanOK, Scanners, Executors, OwnerInv, TypeInv, UseInv, TypeOK
<1>g. ASSUME NEW u \in Threads PROVE ReadOK(u)' /\ FreeOK(u)' /\ SettleOK(u)'
  <2>0. /\ u \in Executors /\ ReadOK(u) /\ FreeOK(u) /\ SettleOK(u) /\ fault[u] \in FaultLocals
        /\ ThreadOK(u) /\ fault[u].reading \in Seq(Pages) /\ fault[u].frees \in Seq(Pages)
    BY ThreadFacts, OwnerWeaker DEF PlaceInv, HeldOK
  <2>1. /\ u # t => pc'[u] = pc[u] /\ fault'[u] = fault[u]
        /\ fault'[u].reading \in {<<>>, fault[u].reading}
        /\ fault'[u].frees \in {<<>>, fault[u].frees}
    <3>1. u # t => pc'[u] = pc[u] /\ fault'[u] = fault[u]
      BY <1>0, <2>0 DEF OnlyMoves
    <3>2. /\ fault'[t].reading \in {<<>>, fault[t].reading}
          /\ fault'[t].frees \in {<<>>, fault[t].frees}
      <4>1. CASE fault' = fault
        BY <4>1
      <4>2. CASE fault' = [fault EXCEPT ![t] = NoFault]
        BY <1>0, <4>2 DEF NoFault, TypeOK
      <4>3. CASE fault' = [fault EXCEPT ![t].job = "prefetch", ![t].page = 0]
        BY <1>0, <4>3 DEF FaultLocals, TypeOK
      <4>4. CASE fault' = [fault EXCEPT ![t].page = 0]
        BY <1>0, <4>4 DEF FaultLocals, TypeOK
      <4> QED  BY <1>1, <4>1, <4>2, <4>3, <4>4 DEF Settle, Resume
    <3> QED  BY <3>1, <3>2
  <2>2. ReadOK(u)'
    <3> SUFFICES ASSUME NEW i \in DOMAIN fault'[u].reading, NEW q, q = fault'[u].reading[i]
                 PROVE  SwappedOut(q)' /\ page'[q].migrating
      BY DEF ReadOK
    <3>1. i \in DOMAIN fault[u].reading /\ q = fault[u].reading[i]
      BY <2>1
    <3>2. q \in Pages /\ q # p /\ SwappedOut(q) /\ page[q].migrating
      BY <1>2, <2>0, <3>1 DEF ReadOK
    <3> QED  BY <1>3, <1>9, <3>2
  <2>3. FreeOK(u)'
    <3>1. ASSUME NEW i \in DOMAIN fault'[u].frees
          PROVE  /\ i \in DOMAIN fault[u].frees /\ fault'[u].frees[i] = fault[u].frees[i]
                 /\ fault[u].frees[i] \in Pages \ {p}
      <4>1. i \in DOMAIN fault[u].frees /\ fault'[u].frees[i] = fault[u].frees[i]
        BY <2>1, <3>1
      <4> QED  BY <1>2, <2>0, <4>1
    <3>2. CASE pc'[u] \notin {"map", "add"}
      <4>1. pc[u] \notin {"map", "add"}
        BY <1>1, <2>1, <3>2
      <4> SUFFICES ASSUME NEW i \in DOMAIN fault'[u].frees PROVE FrameDesc(page'[fault'[u].frees[i]])
        BY <3>2 DEF FreeOK
      <4>n. PICK n : n = fault[u].frees[i]
        OBVIOUS
      <4>2. n \in Pages \ {p} /\ FrameDesc(page[n]) /\ n = fault'[u].frees[i]
        BY <2>0, <3>1, <4>1, <4>n DEF FreeOK
      <4> QED  BY <1>3, <4>2
    <3>3. CASE pc'[u] \in {"map", "add"}
      <4>1. u # t /\ pc'[u] = pc[u] /\ fault'[u] = fault[u]
        BY <1>1, <2>1, <3>3
      <4>2. 1 \in DOMAIN fault[u].frees /\ Len(fault[u].frees) = 1
        BY <2>0, <3>3, <4>1 DEF ThreadOK, FirstPcs
      <4>n. PICK n : n = fault[u].frees[1]
        OBVIOUS
      <4>3. n \in Pages \ {p}
        BY <3>1, <4>1, <4>2, <4>n
      <4>4. page'[n] = page[n] /\ (Resident(n) => Resident(n)') /\ (Present(n)' <=> Present(n))
        BY <1>1, <1>3, <1>9, <4>3 DEF Present
      <4> QED  BY <2>0, <3>3, <4>1, <4>n, <4>4 DEF FreeOK
    <3> QED  BY <3>2, <3>3
  <2>4. SettleOK(u)'
    <3>1. CASE u = t
      <4>1. CASE pc[t] = "resident"
        <5>1. pc'[t] = "settle" /\ fault'[t].page = p /\ ~Windows(t, p)'
          BY <1>1, <1>4, <1>p, <4>1
        <5>2. page[p].swapped_out /\ page[p].migrating
          BY <1>0, <1>1, <1>p DEF SettleOK
        <5> QED  BY <1>2, <1>3, <3>1, <4>1, <5>1, <5>2 DEF SettleOK
      <4>2. CASE pc[t] = "settle"
        BY <1>1, <3>1, <4>2 DEF SettleOK, SettlePcs
      <4> QED  BY <1>1, <4>1, <4>2
    <3>2. CASE u # t /\ pc[u] \in SettlePcs
      <4>q. PICK q : q = fault[u].page
        OBVIOUS
      <4>1. q \in Pages \ {p}
        BY <1>2, <2>0, <3>2, <4>q DEF ThreadOK, FaultLocals
      <4>2. page'[q] = page[q] /\ (Resident(q) => Resident(q)')
        BY <1>3, <1>9, <4>1
      <4>3. Windows(u, q)' <=> Windows(u, q)
        BY <1>0, <2>0, <3>2, OthersSettle
      <4> QED  BY <2>0, <2>1, <3>2, <4>q, <4>2, <4>3 DEF SettleOK
    <3>3. CASE u # t /\ pc[u] \notin SettlePcs
      BY <2>1, <3>3 DEF SettleOK
    <3> QED  BY <3>1, <3>2, <3>3
  <2> QED  BY <2>2, <2>3, <2>4
<1>11. /\ \A q \in Pages : PairOK(q)'
       /\ \A c \in Pages : page'[c].list = "disk_reserve" => ReserveOK(c)'
  <2>1. \A a, c \in Pages : ~Backs(t, a, c)
    BY <1>1 DEF Backs
  <2> QED  BY <1>0, <1>3, <2>1, PairsQuiet
<1>12. ASSUME NEW q \in Pages PROVE ListOK(q)'
  <2>1. CASE q = p
    BY <1>2, <1>3, <1>7, <2>1 DEF PlaceInv, ListOK
  <2>2. CASE q # p
    BY <1>0, <1>5, <1>11, <2>2, ListLift DEF PlaceInv
  <2> QED  BY <2>1, <2>2
<1>13. GlobalsOK'
  BY <1>0, <1>1, <1>3, <1>4, GlobalsQuiet
<1> QED  BY <1>e, <1>f, <1>g, <1>11, <1>12, <1>13 DEF PlaceInv, HeldOK, GlobalsOK


-----------------------------------------------------------------------------
(* The whole.                                                               *)

\* At the start every descriptor is on a free list and nobody holds anything.
LEMMA InitPlace == Init => PlaceInv
<1> SUFFICES ASSUME Init PROVE PlaceInv
  OBVIOUS
<1> USE SizeAssumption DEF Init, InitPages
<1>1. \A p \in Pages :
        /\ page[p].va = 0 /\ page[p].reserve = 0 /\ ~Mapped(p)
        /\ page[p].list = "dram_free" => FrameDesc(page[p])
        /\ page[p].list = "disk_free" => SlotDesc(page[p])
        /\ page[p].list \in {"dram_free", "disk_free"}
  <2> SUFFICES ASSUME NEW p \in Pages
               PROVE  /\ page[p].va = 0 /\ page[p].reserve = 0 /\ ~Mapped(p)
                      /\ page[p].list = "dram_free" => FrameDesc(page[p])
                      /\ page[p].list = "disk_free" => SlotDesc(page[p])
                      /\ page[p].list \in {"dram_free", "disk_free"}
    OBVIOUS
  <2>1. page[p] = InitPage(p) /\ p \in 1 .. (NDram + NDisk)
    BY DEF Pages
  <2>2. page[p].va = 0 /\ page[p].reserve = 0 /\ ~Mapped(p)
    BY <2>1 DEF InitPage, Mapped, VA
  <2>3. CASE p <= NDram
    <3>1. /\ page[p].virtual_offset = p - 1 /\ page[p].in_dram
          /\ page[p].list = "dram_free"
      BY <2>1, <2>3 DEF InitPage
    <3>2. p - 1 < NDram
      BY <2>1, <2>3
    <3> QED  BY <2>2, <3>1, <3>2 DEF FrameDesc, InDram
  <2>4. CASE ~(p <= NDram)
    <3>1. /\ page[p].virtual_offset = p - NDram - 1 /\ ~page[p].in_dram
          /\ page[p].list = "disk_free"
      BY <2>1, <2>4 DEF InitPage
    <3>2. p - NDram - 1 < NDisk
      BY <2>1, <2>4
    <3> QED  BY <2>2, <3>1, <3>2 DEF SlotDesc, InDisk
  <2> QED  BY <2>3, <2>4
<1>2. \A p \in Pages : ListOK(p) /\ PairOK(p)
  BY <1>1 DEF ListOK, PairOK
<1>3. \A e \in Executors :
        /\ pc[e] = "idle"
        /\ e \in Evictors => evict[e].victim = 0 /\ evict[e].dpage = 0
        /\ e \in Scanners => scan[e] = 0
        /\ e \in Threads => fault[e].reading = <<>> /\ fault[e].frees = <<>>
  BY DEF NoEvict, NoFault
<1>4. \A e \in Executors : HeldOK(e)
  <2> SUFFICES ASSUME NEW e \in Executors PROVE HeldOK(e)
    OBVIOUS
  <2>1. e \in Evictors => VictimOK(e) /\ DpageOK(e)
    BY <1>3 DEF VictimOK, DpageOK, EvictPcs
  <2>2. e \in Scanners => ScanOK(e)
    BY <1>3 DEF ScanOK
  <2>3. e \in Threads => ReadOK(e) /\ FreeOK(e) /\ SettleOK(e)
    BY <1>3 DEF ReadOK, FreeOK, SettleOK, SettlePcs
  <2> QED  BY <2>1, <2>2, <2>3 DEF HeldOK
<1>5. VictimOnce /\ SettleOnce
  BY <1>3 DEF VictimOnce, SettleOnce, SettlePcs, Evictors, Executors
<1>6. Hashed /\ PresentHashed
  BY <1>1 DEF Hashed, PresentHashed, NoPte
<1> QED  BY <1>2, <1>4, <1>5, <1>6 DEF PlaceInv

\* Every step keeps the invariant.
LEMMA NextPlace == OwnerInv /\ OwnerInv' /\ PlaceInv /\ [Next]_vars => PlaceInv'
<1> SUFFICES ASSUME OwnerInv, OwnerInv', PlaceInv, [Next]_vars PROVE PlaceInv'
  OBVIOUS
<1>e. /\ Threads \subseteq Evictors /\ Workers \subseteq Evictors
      /\ Threads \subseteq Scanners /\ Kswapd \subseteq Scanners
  BY DEF Evictors, Scanners
<1>1. CASE UNCHANGED vars
  BY <1>1, PlaceSame DEF vars
<1>2. CASE Crash
  BY <1>2, CrashPlace
<1>3. ASSUME NEW t \in Threads, Application(t) PROVE PlaceInv'
  BY <1>3, ApplicationPlace
<1>4. ASSUME NEW e \in Evictors, EvictStep(e), failed' = "none" PROVE PlaceInv'
  BY <1>4, EvictPlaceA, EvictPlaceB, EvictPlaceC DEF EvictStep
<1>5. ASSUME NEW t \in Threads, ThreadStep(t), ~Crash PROVE PlaceInv'
  <2>1. FaultStep(t) \/ EvictStep(t) => failed' = "none"
    BY <1>5, AbortCrashes
  <2>2. CASE FaultStep(t)
    <3>1. failed' = "none" /\ ~FetchOutOfMemory(t)
      BY <2>1, <2>2 DEF FetchOutOfMemory, Abort
    <3>2. CASE \/ uswap_sig_handler(t) \/ Spin(t) \/ FetchReclaim(t) \/ FetchRetry(t)
      <4>1. page' = page
        BY <3>2 DEF uswap_sig_handler, Spin, FetchReclaim, FetchRetry, sharedVars
      <4> QED  BY <3>1, <3>2, <4>1, FaultQuietPlace
    <3>3. CASE handle_missing_fault(t) \/ PrefetchFind(t)
      BY <3>1, <3>3, FaultQuietPlace, FaultClaimPlace
    <3>4. CASE FirstAllocate(t) \/ PutBack(t) \/ FirstMap(t) \/ FirstAdd(t)
      BY <3>1, <3>4, FaultQuietPlace, FirstPlace
    <3> QED  BY <2>2, <3>1, <3>2, <3>3, <3>4, DiskReadPlace, FetchPlace, FinishPlace,
                PublishPlace, SettlePlace
             DEF FaultStep
  <2> QED  BY <1>e, <1>4, <1>5, <2>1, <2>2, ScanPlace DEF ThreadStep
<1>6. ASSUME NEW w \in Workers, WorkerStep(w), ~Crash PROVE PlaceInv'
  <2>1. failed' = "none"
    BY <1>6, AbortCrashes
  <2> QED  BY <1>e, <1>4, <1>6, <2>1, ReleasePlace DEF WorkerStep
<1>7. ASSUME NEW k \in Kswapd, ScanStep(k) PROVE PlaceInv'
  BY <1>e, <1>7, ScanPlace
<1>8. CASE Aborted
  BY <1>1, <1>8 DEF Aborted
<1> QED  BY <1>1, <1>2, <1>3, <1>5, <1>6, <1>7, <1>8 DEF Next


-----------------------------------------------------------------------------
(* The asserts.                                                             *)

\* Besides the early-eviction asserts and "Out of memory", only the search for
\* a slot of a full swap device can end the process.
AssertLimits == {"none", "Out of memory", "no disk page found"} \cup EarlyEvictionAsserts

\* A page that somebody settles is still marked as moving.
LEMMA SettlingMigrates ==
    ASSUME PlaceInv, NEW p, Settling(p)
    PROVE  page[p].migrating /\ page[p].reserve # 0
<1>1. PICK t \in Executors : Settles(t, p)
  BY DEF Settling
<1> QED  BY <1>1 DEF PlaceInv, HeldOK, SettleOK, Settles

\* A page that is swapped out and that nobody moves is on disk_active_list: a
\* fault that finds it claimable can detach it and read it.
LEMMA ClaimableOnDisk ==
    ASSUME OwnerInv, PlaceInv, NEW p \in Pages, Mapped(p), Claimable(p)
    PROVE  page[p].list = "disk_active" /\ SwappedOut(p)
<1>0. /\ ListOK(p) /\ page[p].va # 0 /\ page[p].swapped_out /\ ~page[p].migrating
      /\ ~Settling(p) /\ ~Resident(p) /\ page[p].list \in Lists
  <2>1. page[p].va # 0
    BY SizeAssumption DEF Mapped, VA
  <2>2. ~Settling(p)
    BY SettlingMigrates DEF Claimable
  <2> QED  BY <2>1, <2>2 DEF PlaceInv, Claimable, Resident, OwnerInv, TypeInv, UseInv, TypeOK, UserPage
<1>1. CASE page[p].list # "none"
  BY <1>0, <1>1 DEF ListOK, Lists, Queues, FrameDesc, SlotDesc
<1>2. CASE page[p].list = "none"
  <2>1. PICK e \in Executors, r \in Roles : Holds(e, r, p)
    BY <1>2 DEF OwnerInv, Ownership
  <2>2. HeldOK(e) /\ LocalOK(e) /\ p # 0
    BY DEF PlaceInv, OwnerInv, TypeInv, UseInv, LocalsOK, Pages
  <2>3. CASE r = "victim"
    BY <1>0, <2>1, <2>2, <2>3 DEF Holds, HoldsVictim, HeldOK, VictimOK
  <2>4. CASE r = "dpage"
    BY <1>0, <2>1, <2>2, <2>4 DEF Holds, HeldOK, DpageOK, SlotDesc, FrameDesc
  <2>5. CASE r = "scan"
    BY <1>0, <2>1, <2>2, <2>5 DEF Holds, HeldOK, ScanOK
  <2>6. CASE r = "read"
    BY <1>0, <2>1, <2>2, <2>6 DEF Holds, HeldOK, ReadOK
  <2>7. CASE r = "free"
    <3>1. e \in Threads /\ FreeOK(e) /\ ThreadOK(e) /\ fault[e].frees \in Seq(Pages)
      BY <2>1, <2>2, <2>7, ThreadFacts, OwnerWeaker DEF Holds, HeldOK, LocalOK
    <3>2. PICK i \in DOMAIN fault[e].frees : p = fault[e].frees[i]
      BY <2>1, <2>7 DEF Holds
    <3>3. CASE pc[e] \notin {"map", "add"}
      BY <1>0, <3>1, <3>2, <3>3 DEF FreeOK, FrameDesc
    <3>4. CASE pc[e] \in {"map", "add"}
      <4>1. i = 1
        BY <3>1, <3>2, <3>4 DEF ThreadOK, FirstPcs
      <4> QED  BY <1>0, <3>1, <3>2, <3>4, <4>1 DEF FreeOK
    <3> QED  BY <3>3, <3>4
  <2>8. CASE r = "page"
    BY <1>0, <2>1, <2>2, <2>8 DEF Holds, HeldOK, SettleOK, SettlePcs
  <2> QED  BY <2>3, <2>4, <2>5, <2>6, <2>7, <2>8 DEF Roles
<1> QED  BY <1>0, <1>1, <1>2 DEF ListOK

\* The asserts of an eviction: the reserve is where its page says it is, the
\* offsets are in range, and the victim is released with its flags set.
LEMMA EvictAsserts ==
    ASSUME OwnerInv, PlaceInv, NEW e \in Evictors,
           EvictStep(e) \/ ReleaseVictim(e) \/ (e \in Threads /\ FetchEvicted(e))
    PROVE  failed' \in AssertLimits
<1> USE DEF AssertLimits, EarlyEvictionAsserts
<1>0. /\ VictimOK(e) /\ DpageOK(e) /\ EvictorOK(e) /\ evict[e] \in EvictLocals
      /\ e \in Executors
  BY DEF PlaceInv, HeldOK, OwnerInv, TypeInv, UseInv, TypeOK, LocalsOK, LocalOK, Evictors, Executors
<1>p. PICK p, d : p = evict[e].victim /\ d = evict[e].dpage
  OBVIOUS
<1>v. pc[e] \in EvictPcs => p \in Pages
  BY <1>0, <1>p DEF EvictorOK, EvictLocals
<1>1. CASE BackByReserve(e)
  <2>1. PICK r : r = page[p].reserve
    OBVIOUS
  <2>2. pc[e] = "back" /\ r # 0 /\ p \in Pages /\ Resident(p)
    BY <1>0, <1>1, <1>p, <1>v, <2>1 DEF BackByReserve, Victim, At, VictimOK, EvictPcs
  <2>3. page[r].reserve = p /\ (page[r].list = "disk_reserve" \/ \E f \in Executors : Backs(f, p, r))
    BY <2>1, <2>2 DEF PlaceInv, PairOK, Resident
  <2>4. ASSUME NEW f \in Executors, Backs(f, p, r) PROVE FALSE
    <3>1. f = e
      BY <1>p, <2>2, <2>4 DEF PlaceInv, VictimOnce, Backs, Pages
    <3> QED  BY <2>2, <2>4, <3>1 DEF Backs
  <2>5. page[r].list = "disk_reserve"
    BY <2>3, <2>4
  <2> QED  BY <1>1, <1>p, <2>1, <2>3, <2>5 DEF BackByReserve, Victim, At
<1>2. CASE WriteBack(e)
  <2>1. pc[e] = "write" /\ Resident(p) /\ d # 0 /\ SlotDesc(page[d])
    BY <1>0, <1>2, <1>p DEF WriteBack, At, VictimOK, DpageOK, EvictorOK
  <2>2. WriteAsserts(e)
    BY <1>p, <2>1 DEF WriteAsserts, Victim, DiskPage, Resident, SlotDesc
  <2> QED  BY <1>2, <2>2 DEF WriteBack, At, Abort
<1>3. CASE ReleaseVictim(e) \/ (e \in Threads /\ FetchEvicted(e))
  <2>1. pc[e] = "release"
    BY <1>3 DEF ReleaseVictim, FetchEvicted, At
  <2>2. ReleaseAsserts(e)
    BY <1>0, <1>p, <2>1 DEF VictimOK, ReleaseAsserts, Victim
  <2> QED  BY <1>3, <2>2 DEF ReleaseVictim, FetchEvicted, At
<1>4. CASE \/ TakeVictim(e) \/ ProtectVictim(e) \/ BackByFreeSlot(e) \/ UnmapVictim(e)
           \/ MarkSwappedOut(e) \/ FreeFrame(e) \/ TrackVictim(e)
  BY <1>4 DEF TakeVictim, ProtectVictim, BackByFreeSlot, UnmapVictim, MarkSwappedOut,
              FreeFrame, TrackVictim, At, Abort
<1> QED  BY <1>1, <1>2, <1>3, <1>4 DEF EvictStep

\* The asserts of a fault: a claimed page is on disk_active_list, a frame that
\* was found is free and stays the thread's own, and nothing is mapped yet at
\* the address it is mapped to.
LEMMA FaultAsserts ==
    ASSUME OwnerInv, PlaceInv, NEW t \in Threads, FaultStep(t)
    PROVE  failed' \in AssertLimits
<1> USE DEF AssertLimits, EarlyEvictionAsserts
<1>0. /\ t \in Evictors /\ t \in Executors /\ ThreadOK(t) /\ fault[t] \in FaultLocals
      /\ fault[t].page \in Pages \cup {0} /\ Ownership
      /\ fault[t].reading \in Seq(Pages) /\ fault[t].frees \in Seq(Pages)
  BY ThreadFacts, OwnerWeaker DEF OwnerInv
<1>h. FreeOK(t) /\ ReadOK(t) /\ LocalMapped(t) /\ HashOK /\ TypeOK
  BY <1>0 DEF PlaceInv, HeldOK, OwnerInv, TypeInv, UseInv, LocalsMapped
<1>1. CASE handle_missing_fault(t)
  <2>1. PICK p : p = fault[t].page
    OBVIOUS
  <2>2. p \in Pages /\ Mapped(p)
    BY <1>0, <1>1, <1>h, <2>1 DEF handle_missing_fault, At, ThreadOK, LocalMapped, LocalUsed
  <2>3. Claimable(p) => DetachAsserts(p) /\ StartReadAsserts(p)
    BY <2>2, ClaimableOnDisk DEF DetachAsserts, StartReadAsserts, SwappedOut, OnDisk
  <2> QED  BY <1>1, <2>1, <2>3 DEF handle_missing_fault, At
<1>2. CASE PrefetchFind(t)
  <2>1. PICK p : p = find_page(PrefetchNext(t))
    OBVIOUS
  <2>2. PrefetchWanted(t) => p \in Pages /\ Mapped(p) /\ Claimable(p)
    BY <1>h, <2>1 DEF PrefetchWanted, find_page, HashOK, Mapped, TypeOK
  <2>3. PrefetchWanted(t) => DetachAsserts(p)
    BY <2>2, ClaimableOnDisk DEF DetachAsserts
  <2> QED  BY <1>2, <2>1, <2>3 DEF PrefetchFind, At
<1>3. CASE FirstAllocate(t) \/ PutBack(t) \/ FirstMap(t) \/ FirstAdd(t)
  <2>1. PICK n : n = fault[t].frees[1]
    OBVIOUS
  <2>2. pc[t] \in FirstPcs
    BY <1>3 DEF FirstAllocate, PutBack, FirstMap, FirstAdd, At, FirstPcs
  <2>3. 1 \in DOMAIN fault[t].frees /\ n \in Pages
    BY <1>0, <2>1, <2>2 DEF ThreadOK
  <2>4. page[n].list = "none"
    <3>1. Holds(t, "free", n)
      BY <2>1, <2>3 DEF Holds
    <3> QED  BY <1>0, <2>3, <3>1 DEF Ownership, Roles
  <2>5. pc[t] \in {"allocate", "put_back"} => page[n].va = 0
    BY <1>h, <2>1, <2>3 DEF FreeOK, FrameDesc
  <2>6. pc[t] = "map" => page[n].in_dram /\ ~pte[page[n].va].present
    BY <1>h, <2>1 DEF FreeOK, Present
  <2> QED  BY <1>3, <2>1, <2>4, <2>5, <2>6
           DEF FirstAllocate, PutBack, FirstMap, FirstAdd, NewPage, At
<1>4. CASE FinishRead(t)
  <2>1. PICK p, d : p = Head(fault[t].reading) /\ d = Head(fault[t].frees)
    OBVIOUS
  <2>2. /\ pc[t] = "finish" /\ 1 \in DOMAIN fault[t].reading /\ 1 \in DOMAIN fault[t].frees
        /\ p = fault[t].reading[1] /\ d = fault[t].frees[1] /\ p \in Pages /\ d \in Pages
    <3>1. pc[t] = "finish"
      BY <1>4 DEF FinishRead, At
    <3>2. fault[t].reading # <<>> /\ Len(fault[t].frees) = Len(fault[t].reading)
      BY <1>0, <3>1 DEF ThreadOK
    <3>3. fault[t].frees # <<>>
      BY <1>0, <3>2
    <3> QED  BY <1>0, <2>1, <3>1, <3>2, <3>3
  <2>3. SwappedOut(p) /\ page[p].migrating /\ FrameDesc(page[d])
    BY <1>h, <2>2 DEF ReadOK, FreeOK
  <2>4. page[p].list = "none" /\ page[d].list = "none"
    <3>1. Holds(t, "read", p) /\ Holds(t, "free", d)
      BY <2>2 DEF Holds
    <3> QED  BY <1>0, <2>2, <3>1 DEF Ownership, Roles
  <2>5. FinishAsserts(t, p, d)
    BY <2>3, <2>4 DEF FinishAsserts, StartReadAsserts, SwappedOut, OnDisk, FrameDesc, Present
  <2> QED  BY <1>4, <2>1, <2>5 DEF FinishRead, At
<1>5. CASE FetchEvicted(t)
  BY <1>0, <1>5, EvictAsserts
<1>6. CASE \/ uswap_sig_handler(t) \/ Spin(t) \/ DiskRead(t) \/ FetchFree(t)
           \/ FetchReclaim(t) \/ FetchRetry(t) \/ FetchOutOfMemory(t)
  BY <1>6 DEF uswap_sig_handler, Spin, DiskRead, FetchFree, FetchReclaim, FetchRetry,
              FetchOutOfMemory, Abort, At
<1>7. CASE PublishPage(t) \/ PrefetchResident(t) \/ Settle(t)
  BY <1>7 DEF PublishPage, PrefetchResident, Settle, At
<1> QED  BY <1>1, <1>2, <1>3, <1>4, <1>5, <1>6, <1>7 DEF FaultStep

\* No step fails an assert outside AssertLimits.
LEMMA NextAsserts ==
    OwnerInv /\ PlaceInv /\ failed \in AssertLimits /\ [Next]_vars => failed' \in AssertLimits
<1> SUFFICES ASSUME OwnerInv, PlaceInv, failed \in AssertLimits, [Next]_vars
             PROVE  failed' \in AssertLimits
  OBVIOUS
<1>e. Threads \subseteq Evictors /\ Workers \subseteq Evictors
  BY DEF Evictors
<1>1. CASE UNCHANGED vars
  BY <1>1 DEF vars
<1>2. ASSUME NEW t \in Threads, Application(t) PROVE failed' \in AssertLimits
  BY <1>2 DEF Application, Touch, Store
<1>3. ASSUME NEW e, ScanStep(e) PROVE failed' \in AssertLimits
  BY <1>3 DEF ScanStep, ScanInactive, ScanActive, KeepOrEvict, Deactivate, ScanTake, ScanPut
<1> QED  BY <1>e, <1>1, <1>2, <1>3, EvictAsserts, FaultAsserts
         DEF Next, ThreadStep, WorkerStep, Aborted

\* The inductive invariant of all that follows.
AllInv == OwnerInv /\ PlaceInv

\* It holds at the start,
LEMMA InitAll == Init => AllInv
  BY InitOwner, InitPlace DEF AllInv

\* and every step keeps it.
LEMMA NextAll == AllInv /\ [Next]_vars => AllInv'
  BY NextOwner, NextPlace DEF AllInv

\* Whatever the schedule and the sizes, the process ends only by one of the
\* three asserts on the flags of a page that was evicted before its swap-in
\* had finished, because reclaim found nothing, or because the swap device is
\* full: no other assert of the eviction, first-touch, swap-in and prefetch
\* code can fail.
THEOREM AssertsHold == Spec => [](failed \in AssertLimits)
<1>1. Init => AllInv /\ failed \in AssertLimits
  BY InitAll DEF Init, AssertLimits
<1>2. (AllInv /\ failed \in AssertLimits) /\ [Next]_vars
        => (AllInv /\ failed \in AssertLimits)'
  BY NextAll, NextAsserts DEF AllInv
<1> QED  BY <1>1, <1>2, PTL DEF Spec

-----------------------------------------------------------------------------
(* Movers.                                                                  *)

\* MigratingHasMover, of every page whether the hash table knows it or not.
MoverInv == \A p \in Pages : Mapped(p) /\ page[p].migrating
                               => \E e \in Executors : MovedBy(e, p)

\* A step of x leaves p without a mover only if it lets p go.
MoverOK(x, p) ==
    Mapped(p)' /\ page'[p].migrating =>
      \/ MovedBy(x, p)'
      \/ Mapped(p) /\ page[p].migrating /\ (MovedBy(x, p) => MovedBy(x, p)')

\* The others move what they moved.
LEMMA MoverLift ==
    ASSUME MoverInv, NEW x \in Executors, OnlyMoves(x), \A p \in Pages : MoverOK(x, p)
    PROVE  MoverInv'
<1> SUFFICES ASSUME NEW p \in Pages, Mapped(p)', page'[p].migrating
             PROVE  \E e \in Executors : MovedBy(e, p)'
  BY DEF MoverInv
<1>1. \A e \in Executors \ {x} : MovedBy(e, p)' <=> MovedBy(e, p)
  BY DEF MovedBy, OnlyMoves, Holds, Evictors, Executors
<1>2. CASE MovedBy(x, p)'
  BY <1>2
<1>3. CASE Mapped(p) /\ page[p].migrating /\ (MovedBy(x, p) => MovedBy(x, p)')
  BY <1>1, <1>3 DEF MoverInv
<1> QED  BY <1>2, <1>3 DEF MoverOK

\* An eviction moves its victim until the victim's flag is cleared.
LEMMA EvictMover ==
    ASSUME OwnerInv, PlaceInv, MoverInv, NEW e \in Evictors, failed' = "none",
           EvictStep(e) \/ (e \in Workers /\ ReleaseVictim(e))
    PROVE  MoverInv'
<1>0. /\ e \in Executors /\ OnlyMoves(e) /\ page \in [Pages -> UserPage]
      /\ TypeOK /\ EvictorOK(e) /\ evict[e] \in EvictLocals /\ VictimOK(e) /\ DpageOK(e)
  BY EvictInv, ReleaseInv
     DEF OwnerInv, TypeInv, UseInv, StepOK, LocalsOK, LocalOK, TypeOK, Evictors, Executors,
         PlaceInv, HeldOK
<1>p. PICK p, d : p = evict[e].victim /\ d = evict[e].dpage
  OBVIOUS
<1>t. /\ p \in Pages \cup {0} /\ d \in Pages \cup {0}
      /\ pc[e] \in EvictPcs <=> p # 0
  BY <1>0, <1>p DEF EvictLocals, EvictorOK
<1>m. \A q \in Pages : MovedBy(e, q)' <=> \/ evict'[e].victim = q
                                          \/ MovedBy(e, q)' /\ e \in Threads
  BY DEF MovedBy
<1>q. ASSUME pc[e] \in EvictPcs \cup {"idle", "reclaim"}, pc'[e] \in EvictPcs \cup {"idle"},
             UNCHANGED fault, e \in Threads /\ evict[e].victim # 0 => evict'[e].victim # 0,
             evict'[e].victim # 0 => evict[e].victim \in {0, evict'[e].victim},
             \A q \in Pages : Mapped(q)' => Mapped(q),
             \A q \in Pages : Mapped(q)' /\ page'[q].migrating =>
                                \/ page[q].migrating
                                \/ evict'[e].victim = q,
             evict'[e].victim = 0 => ~page'[p].migrating
      PROVE  MoverInv'
  <2> SUFFICES ASSUME NEW q \in Pages PROVE MoverOK(e, q)
    BY <1>0, MoverLift
  <2>1. e \in Threads => pc[e] \notin SettlePcs \cup {"map"} /\ pc'[e] \notin SettlePcs \cup {"map"}
    BY <1>q DEF EvictPcs, SettlePcs
  <2>2. MovedBy(e, q) => evict[e].victim = q \/ (e \in Threads /\ Holds(e, "read", q))
    BY <2>1 DEF MovedBy, SettlePcs
  <2>3. e \in Threads => (Holds(e, "read", q)' <=> Holds(e, "read", q))
    BY <1>q DEF Holds
  <2>4. /\ evict'[e].victim = q => MovedBy(e, q)'
        /\ e \in Threads /\ Holds(e, "read", q)' => MovedBy(e, q)'
    BY DEF MovedBy
  <2>5. q # 0
    BY DEF Pages
  <2> QED  BY <1>p, <1>q, <2>2, <2>3, <2>4, <2>5 DEF MoverOK
<1>1. CASE TakeVictim(e)
  <2>1. PICK v : v = Head(fifo["eviction"])
    OBVIOUS
  <2>2. /\ page' = [page EXCEPT ![v].list = "none"] /\ evict' = [evict EXCEPT ![e].victim = v]
        /\ pc[e] \in {"idle", "reclaim"} /\ pc'[e] = "protect" /\ UNCHANGED fault
        /\ fifo["eviction"] # <<>>
    BY <1>0, <1>1, <2>1 DEF TakeVictim, At, TypeOK
  <2>3. v \in Pages /\ v # 0
    <3>1. fifo["eviction"] \in Seq(Pages)
      BY <1>0 DEF TypeOK, Queues
    <3>2. v \in Pages
      BY <2>1, <2>2, <3>1, HeadTail
    <3> QED  BY <3>2 DEF Pages
  <2>4. p = 0 /\ evict'[e].victim = v
    BY <1>0, <1>p, <1>t, <2>2 DEF EvictPcs, TypeOK, EvictLocals
  <2>5. \A q \in Pages : /\ Mapped(q)' => Mapped(q)
                         /\ page'[q].migrating => page[q].migrating
    BY <1>0, <2>2, <2>3 DEF UserPage, Mapped
  <2>6. pc[e] \in EvictPcs \cup {"idle", "reclaim"} /\ pc'[e] \in EvictPcs \cup {"idle"}
    BY <2>2 DEF EvictPcs
  <2> QED  BY <1>p, <1>q, <2>2, <2>3, <2>4, <2>5, <2>6
<1>2. CASE EvictStep(e) /\ ~TakeVictim(e)
  <2>1. /\ pc[e] \in EvictPcs /\ pc'[e] \in EvictPcs /\ UNCHANGED fault
    BY <1>0, <1>2 DEF EvictStep, ProtectVictim, BackByReserve, BackByFreeSlot, WriteBack,
         UnmapVictim, MarkSwappedOut, FreeFrame, TrackVictim, At, Abort, EvictPcs, TypeOK
  <2>2. p \in Pages
    BY <1>t, <2>1
  <2>3. evict'[e].victim = p
    <3>1. CASE ProtectVictim(e) \/ FreeFrame(e)
      BY <1>0, <1>p, <3>1 DEF ProtectVictim, FreeFrame, TypeOK, EvictLocals
    <3>2. CASE BackByReserve(e) \/ BackByFreeSlot(e)
      BY <1>0, <1>p, <3>2 DEF BackByReserve, BackByFreeSlot, Abort, TypeOK, EvictLocals
    <3>3. CASE WriteBack(e) \/ UnmapVictim(e) \/ MarkSwappedOut(e) \/ TrackVictim(e)
      BY <1>p, <3>3 DEF WriteBack, UnmapVictim, MarkSwappedOut, TrackVictim, Abort
    <3> QED  BY <1>2, <3>1, <3>2, <3>3 DEF EvictStep
  <2>5. Mapped(p)
    BY <1>0, <1>p, <2>1, <2>2 DEF VictimOK, Resident, OnDisk, EvictPcs
  <2>4. \A q \in Pages \ {p} : /\ Mapped(q)' => Mapped(q)
                               /\ page'[q].migrating => page[q].migrating
    <3>1. CASE ProtectVictim(e) \/ WriteBack(e) \/ UnmapVictim(e) \/ MarkSwappedOut(e)
      BY <1>0, <1>p, <3>1 DEF ProtectVictim, WriteBack, UnmapVictim, MarkSwappedOut, Abort,
                              Victim, Mapped
    <3>2. CASE BackByReserve(e)
      <4>1. PICK r : r = page[p].reserve
        OBVIOUS
      <4>2. page' = [page EXCEPT ![r].list = "none"]
        BY <1>p, <3>2, <4>1 DEF BackByReserve, Abort, Victim
      <4> QED  BY <1>0, <4>2 DEF UserPage, Mapped
    <3>3. CASE BackByFreeSlot(e)
      <4>1. PICK r : r = Head(fifo["disk_free"])
        OBVIOUS
      <4>2. page' = [page EXCEPT ![r].list = "none"]
        BY <3>3, <4>1 DEF BackByFreeSlot, Abort
      <4> QED  BY <1>0, <4>2 DEF UserPage, Mapped
    <3>4. CASE FreeFrame(e) \/ TrackVictim(e)
      <4>1. p # d => \A q \in Pages \ {p, d} : page'[q] = page[q]
        BY <1>0, <1>p, <3>4 DEF FreeFrame, TrackVictim, Victim, DiskPage
      <4>2. ASSUME d \in Pages, p # d
            PROVE  page'[d].va = page[d].va /\ (page'[d].migrating => page[d].migrating)
        <5>1. \/ page'[d] = [AsFrame(page[d], evict[e].old_offset) EXCEPT !.list = "dram_free"]
              \/ page'[d] = AsFrame(page[d], evict[e].old_offset)
              \/ page'[d] = page[d]
          BY <1>0, <1>p, <2>2, <3>4, <4>2 DEF FreeFrame, TrackVictim, Victim, DiskPage
        <5> QED  BY <1>0, <4>2, <5>1 DEF AsFrame, UserPage
      <4>3. p # d
        BY <1>0, <1>p, <2>1, <2>2, <2>5, SizeAssumption
           DEF DpageOK, SlotDesc, FrameDesc, Mapped, VA, Pages
      <4> QED  BY <4>1, <4>2, <4>3 DEF Mapped
    <3> QED  BY <1>2, <3>1, <3>2, <3>3, <3>4 DEF EvictStep
  <2> QED  BY <1>p, <1>q, <2>1, <2>2, <2>3, <2>4, <2>5 DEF Pages
<1>3. CASE e \in Workers /\ ReleaseVictim(e)
  <2>1. /\ page' = [page EXCEPT ![p].migrating = FALSE] /\ evict' = [evict EXCEPT ![e] = NoEvict]
        /\ pc[e] = "release" /\ pc'[e] = "idle" /\ UNCHANGED fault
    BY <1>0, <1>3, <1>p DEF ReleaseVictim, Abort, At, Victim, TypeOK
  <2>2. p \in Pages /\ evict'[e].victim = 0 /\ e \notin Threads
    BY <1>0, <1>t, <1>3, <2>1, ExecutorAssumption DEF EvictPcs, TypeOK, NoEvict
  <2>3. \A q \in Pages : /\ page'[q].va = page[q].va
                         /\ page'[q].migrating => page[q].migrating
    BY <1>0, <2>1, <2>2 DEF UserPage
  <2>4. ~page'[p].migrating
    BY <1>0, <2>1, <2>2
  <2> QED  BY <1>p, <1>q, <2>1, <2>2, <2>3, <2>4 DEF EvictPcs, Mapped
<1> QED  BY <1>1, <1>2, <1>3

\* What a thread moves, by where it is.
ThreadMoves(t, q) ==
    \/ Among(q, fault[t].reading)
    \/ pc[t] \in SettlePcs /\ fault[t].page = q
    \/ pc[t] = "map" /\ Among(q, fault[t].frees)

\* A thread moves its victim and what its fault moves.
LEMMA ThreadMover ==
    ASSUME NEW t \in Threads, NEW q
    PROVE  /\ MovedBy(t, q) <=> evict[t].victim = q \/ ThreadMoves(t, q)
           /\ MovedBy(t, q)' <=> evict'[t].victim = q \/ ThreadMoves(t, q)'
  BY DEF MovedBy, Holds, ThreadMoves, Among, SettlePcs, Evictors

\* A step of a thread outside an eviction, told by what it moves and lets go.
LEMMA ThreadMoverLift ==
    ASSUME MoverInv, NEW t \in Threads, OnlyMoves(t),
           \A q \in Pages : Mapped(q)' /\ page'[q].migrating =>
             \/ ThreadMoves(t, q)' \/ evict'[t].victim = q
             \/ /\ Mapped(q) /\ page[q].migrating /\ ~ThreadMoves(t, q)
                /\ evict[t].victim # q
    PROVE  MoverInv'
<1>1. \A q \in Pages : MoverOK(t, q)
  BY ThreadMover DEF MoverOK
<1> QED  BY <1>1, MoverLift DEF Executors

\* A fault handler lets a page go only when it clears the page's flag.
LEMMA FaultMover ==
    ASSUME OwnerInv, PlaceInv, MoverInv, NEW t \in Threads, failed' = "none", FaultStep(t)
    PROVE  MoverInv'
<1>0. /\ t \in Evictors /\ t \in Executors /\ ThreadOK(t) /\ fault[t] \in FaultLocals
      /\ fault[t].page \in Pages \cup {0} /\ page \in [Pages -> UserPage] /\ EvictorOK(t)
      /\ fault[t].reading \in Seq(Pages) /\ fault[t].frees \in Seq(Pages) /\ TypeOK
      /\ VictimOK(t) /\ DpageOK(t) /\ FreeOK(t) /\ SettleOK(t) /\ evict[t] \in EvictLocals
  BY ThreadFacts, OwnerWeaker DEF PlaceInv, HeldOK, TypeOK
<1>o. /\ OnlyMoves(t) /\ ~FetchOutOfMemory(t)
      /\ UNCHANGED evict \/ FetchEvicted(t)
  <2>1. ~FetchOutOfMemory(t)
    BY DEF FetchOutOfMemory, Abort
  <2>2. OnlyMoves(t)
    BY <2>1, FaultStartInv, FetchInv, FirstInv, SwapInInv DEF FaultStep, OwnerInv, TypeInv, StepOK
  <2>3. UNCHANGED evict \/ FetchEvicted(t)
    BY <2>1 DEF FaultStep, uswap_sig_handler, Spin, handle_missing_fault, DiskRead, FetchFree,
         FetchReclaim, FetchRetry, FirstAllocate, PutBack, FirstMap, FirstAdd, FinishRead,
         PublishPage, PrefetchResident, Settle, PrefetchFind, Abort
  <2> QED  BY <2>1, <2>2, <2>3
\* Nothing is moved, the rest stays: told by three facts.
<1>q. ASSUME UNCHANGED evict,
             \A q \in Pages : Mapped(q)' /\ page'[q].migrating =>
               ThreadMoves(t, q)' \/ (Mapped(q) /\ page[q].migrating /\ ~ThreadMoves(t, q))
      PROVE  MoverInv'
  BY <1>o, <1>q, ThreadMoverLift
<1>1. CASE uswap_sig_handler(t) \/ Spin(t) \/ FetchReclaim(t) \/ FetchRetry(t)
  <2>1. /\ page' = page /\ UNCHANGED evict
        /\ pc[t] \notin SettlePcs \cup {"map"}
        /\ fault'[t].reading = fault[t].reading
    BY <1>0, <1>1 DEF uswap_sig_handler, Spin, FetchReclaim, FetchRetry, At, Resume, sharedVars,
         TypeOK, FaultLocals, ThreadOK, SettlePcs, NoFault
  <2> QED  BY <1>q, <2>1 DEF ThreadMoves, Mapped
<1>2. CASE DiskRead(t)
  <2>1. /\ page' = page /\ UNCHANGED <<evict, pc>>
        /\ fault'[t].reading = fault[t].reading /\ fault'[t].page = fault[t].page
        /\ fault'[t].frees = fault[t].frees
    BY <1>0, <1>2 DEF DiskRead, sharedVars, TypeOK, FaultLocals
  <2> QED  BY <1>q, <2>1 DEF ThreadMoves, Mapped
<1>3. CASE handle_missing_fault(t)
  <2>p. PICK p : p = fault[t].page
    OBVIOUS
  <2>1. CASE page' = page
    <3>1. pc[t] = "missing" /\ fault[t].reading = <<>> /\ UNCHANGED evict
      BY <1>0, <1>3 DEF handle_missing_fault, At, ThreadOK, Abort
    <3>2. \A q : ~ThreadMoves(t, q)
      BY <3>1 DEF ThreadMoves, Among, SettlePcs
    <3> QED  BY <1>q, <2>1, <3>1, <3>2 DEF Mapped
  <2>2. CASE page' # page
    <3>1. /\ page' = [page EXCEPT ![p].migrating = TRUE, ![p].list = "none"]
          /\ fault'[t].reading = <<p>> /\ pc[t] = "missing" /\ UNCHANGED evict
      <4>1. /\ page' = ClaimPage(p) /\ pc[t] = "missing" /\ UNCHANGED evict
            /\ fault' = [fault EXCEPT ![t].job = "swapin", ![t].reading = <<p>>]
        BY <1>3, <2>p, <2>2 DEF handle_missing_fault, At, Abort, sharedVars
      <4>2. fault'[t].reading = <<p>>
        BY <1>0, <4>1 DEF TypeOK, FaultLocals
      <4> QED  BY <4>1, <4>2 DEF ClaimPage
    <3>2. \A q : ~ThreadMoves(t, q)
      BY <1>0, <3>1 DEF ThreadMoves, Among, SettlePcs, ThreadOK
    <3>3. ThreadMoves(t, p)'
      BY <3>1 DEF ThreadMoves, Among
    <3>4. \A q \in Pages \ {p} : page'[q] = page[q]
      BY <1>0, <3>1
    <3> QED  BY <1>q, <3>1, <3>2, <3>3, <3>4 DEF Mapped
  <2> QED  BY <2>1, <2>2
<1>4. CASE PrefetchFind(t)
  <2>p. PICK p : p = find_page(PrefetchNext(t))
    OBVIOUS
  <2>1. CASE PrefetchWanted(t)
    <3>1. /\ page' = [page EXCEPT ![p].migrating = TRUE, ![p].list = "none"]
          /\ fault'[t].reading = Append(fault[t].reading, p) /\ pc[t] = "find" /\ UNCHANGED evict
          /\ p \in Pages
      BY <1>0, <1>4, <2>p, <2>1 DEF PrefetchFind, At, Abort, ClaimPage, TypeOK, FaultLocals,
           PrefetchWanted, find_page
    <3>2. \A q \in Pages : Among(q, fault'[t].reading) <=> Among(q, fault[t].reading) \/ q = p
      BY <1>0, <3>1, AppendMember
    <3>3. \A q \in Pages : ThreadMoves(t, q) \/ q = p => ThreadMoves(t, q)'
      BY <3>1, <3>2 DEF ThreadMoves, SettlePcs
    <3>4. \A q \in Pages \ {p} : page'[q] = page[q]
      BY <1>0, <3>1
    <3> QED  BY <1>q, <3>1, <3>3, <3>4 DEF Mapped
  <2>2. CASE ~PrefetchWanted(t)
    <3>1. /\ page' = page /\ UNCHANGED evict
          /\ pc[t] \notin SettlePcs \cup {"map"}
          /\ fault'[t].reading = fault[t].reading
      <4>1. /\ page' = page /\ UNCHANGED evict /\ pc[t] = "find"
            /\ \/ fault' = fault
               \/ fault[t].reading = <<>> /\ fault' = [fault EXCEPT ![t] = NoFault]
        BY <1>4, <2>2 DEF PrefetchFind, At, Resume, sharedVars
      <4>2. fault'[t].reading = fault[t].reading
        BY <1>0, <4>1 DEF NoFault, TypeOK
      <4> QED  BY <4>1, <4>2 DEF SettlePcs
    <3> QED  BY <1>q, <3>1 DEF ThreadMoves, Mapped
  <2> QED  BY <2>1, <2>2
<1>5. CASE FetchFree(t)
  <2>d. PICK d : d = Head(fifo["dram_free"])
    OBVIOUS
  <2>1. /\ page' = [page EXCEPT ![d] = [FramePage(t, page[d]) EXCEPT !.list = "none"]]
        /\ fault'[t].reading = fault[t].reading /\ pc[t] = "fetch" /\ UNCHANGED evict
        /\ fifo["dram_free"] # <<>> /\ fifo["dram_free"] \in Seq(Pages)
    BY <1>0, <1>5, <2>d DEF FetchFree, At, ReceiveFrame, TypeOK, FaultLocals, Queues
  <2>2. d \in Pages /\ page[d].list = "dram_free"
    <3>1. d \in Pages /\ 1 \in DOMAIN fifo["dram_free"] /\ fifo["dram_free"][1] = d
      BY <2>1, <2>d, HeadTail
    <3> QED  BY <3>1, <1>0 DEF OwnerInv, QueuesMatch, Queues
  <2>3. page[d].va = 0
    BY <2>2 DEF PlaceInv, ListOK, FrameDesc
  <2>4. ~Mapped(d)' /\ \A q \in Pages \ {d} : page'[q] = page[q]
    BY <1>0, <2>1, <2>2, <2>3, SizeAssumption DEF FramePage, UserPage, Mapped, VA
  <2> QED  BY <1>q, <2>1, <2>4 DEF ThreadMoves, SettlePcs, Mapped
<1>6. CASE FetchEvicted(t)
  <2>p. PICK p, d : p = evict[t].victim /\ d = evict[t].dpage
    OBVIOUS
  <2>1. /\ page' = [page EXCEPT ![p].migrating = FALSE, ![d] = FramePage(t, page[d])]
        /\ fault'[t].reading = fault[t].reading /\ pc[t] = "release"
        /\ evict'[t] = NoEvict
    BY <1>0, <1>6, <2>p DEF FetchEvicted, At, Abort, ReceiveFrame, TypeOK, FaultLocals,
         Victim, DiskPage
  <2>2. p \in Pages /\ d \in Pages /\ page[d].va = 0 /\ Mapped(p)
    BY <1>0, <2>1, <2>p DEF EvictorOK, EvictLocals, EvictPcs, DpageOK, FrameDesc, VictimOK, OnDisk
  <2>3. p # d /\ ~Mapped(d)
    BY <2>2, SizeAssumption DEF Mapped, VA
  <2>4. /\ ~page'[p].migrating /\ ~Mapped(d)'
        /\ \A q \in Pages \ {p, d} : page'[q] = page[q]
    BY <1>0, <2>1, <2>2, <2>3 DEF FramePage, UserPage, Mapped
  <2>5. \A q : ThreadMoves(t, q) => ThreadMoves(t, q)'
    BY <2>1 DEF ThreadMoves, SettlePcs
  <2>6. \A q \in Pages : Mapped(q)' /\ page'[q].migrating =>
          /\ Mapped(q) /\ page[q].migrating /\ evict[t].victim # q
    BY <2>p, <2>4 DEF Mapped
  <2> QED  BY <1>o, <2>5, <2>6, ThreadMoverLift
<1>7. CASE FirstAllocate(t) \/ PutBack(t) \/ FirstMap(t) \/ FirstAdd(t)
  <2>n. PICK n : n = fault[t].frees[1]
    OBVIOUS
  <2>1. /\ pc[t] \in FirstPcs /\ fault[t].reading = <<>> /\ Len(fault[t].frees) = 1
        /\ n \in Pages /\ UNCHANGED evict
    <3>1. pc[t] \in FirstPcs /\ ~FetchEvicted(t)
      BY <1>7 DEF FirstAllocate, PutBack, FirstMap, FirstAdd, At, FirstPcs, FetchEvicted
    <3>2. fault[t].reading = <<>> /\ Len(fault[t].frees) = 1
      BY <1>0, <3>1 DEF ThreadOK
    <3>3. fault[t].frees[1] \in Pages
      BY <1>0, <3>2
    <3> QED  BY <1>o, <2>n, <3>1, <3>2, <3>3
  <2>2. \A q : ThreadMoves(t, q) <=> pc[t] = "map" /\ q = n
    BY <1>0, <2>1, <2>n DEF ThreadMoves, Among, FirstPcs, SettlePcs
  <2>3. \A q \in Pages \ {n} : page'[q] = page[q]
    BY <1>0, <1>7, <2>n DEF FirstAllocate, PutBack, FirstMap, FirstAdd, NewPage, Abort, sharedVars
  <2>4. Mapped(n)' /\ page'[n].migrating =>
           ThreadMoves(t, n)' \/ (Mapped(n) /\ page[n].migrating /\ ~ThreadMoves(t, n))
    <3>1. CASE FirstAllocate(t)
      <4>1. CASE find_page(fault[t].addr) # 0
        <5>1. page' = page /\ pc[t] = "allocate"
          BY <3>1, <4>1 DEF FirstAllocate, At, sharedVars
        <5> QED  BY <2>2, <5>1 DEF Mapped
      <4>2. CASE find_page(fault[t].addr) = 0
        <5>1. pc'[t] = "map" /\ fault' = fault
          BY <1>0, <3>1, <4>2 DEF FirstAllocate, Abort, At, TypeOK
        <5> QED  BY <1>0, <2>1, <2>n, <5>1 DEF ThreadMoves, Among
      <4> QED  BY <4>1, <4>2
    <3>2. CASE PutBack(t) \/ FirstAdd(t)
      <4>1. /\ pc[t] # "map"
            /\ \/ page' = [page EXCEPT ![n].list = "dram_free"]
               \/ page' = [page EXCEPT ![n].list = "inactive"]
        BY <2>n, <3>2 DEF PutBack, FirstAdd, At, Abort, NewPage
      <4>2. page'[n].va = page[n].va /\ (page'[n].migrating => page[n].migrating)
        BY <1>0, <2>1, <4>1 DEF UserPage
      <4> QED  BY <2>2, <4>1, <4>2 DEF Mapped
    <3>3. CASE FirstMap(t)
      <4>1. page' = [page EXCEPT ![n].migrating = FALSE, ![n].swapped_out = FALSE]
        BY <2>n, <3>3 DEF FirstMap, Abort, At, NewPage
      <4> QED  BY <1>0, <2>1, <4>1
    <3> QED  BY <1>7, <3>1, <3>2, <3>3
  <2> QED  BY <1>q, <2>1, <2>2, <2>3, <2>4 DEF Mapped
<1>8. CASE FinishRead(t)
  <2>p. PICK p, d : p = Head(fault[t].reading) /\ d = Head(fault[t].frees)
    OBVIOUS
  <2>1. /\ pc[t] = "finish" /\ pc'[t] = "publish" /\ UNCHANGED evict
        /\ page' = [page EXCEPT
                     ![p].virtual_offset = page[d].virtual_offset,
                     ![p].in_dram = @ \/ fault[t].job = "swapin",
                     ![p].reserve = d,
                     ![d] = AsReserve(page[d], p, page[p].virtual_offset)]
        /\ fault'[t].page = p /\ fault'[t].reading = Tail(fault[t].reading)
    BY <1>0, <1>8, <2>p DEF FinishRead, At, Abort, TypeOK, FaultLocals
  <2>2. fault[t].reading # <<>> /\ fault[t].frees # <<>> /\ p \in Pages /\ d \in Pages
    <3>1. fault[t].reading # <<>> /\ Len(fault[t].frees) = Len(fault[t].reading)
      BY <1>0, <2>1 DEF ThreadOK
    <3>2. fault[t].frees # <<>>
      BY <1>0, <3>1
    <3> QED  BY <1>0, <2>p, <3>1, <3>2, HeadTail
  <2>3. page[d].va = 0
    <3>1. 1 \in DOMAIN fault[t].frees /\ d = fault[t].frees[1]
      BY <1>0, <2>p, <2>2, HeadTail
    <3> QED  BY <1>0, <2>1, <3>1 DEF FreeOK, FrameDesc
  <2>4. \A q \in Pages \ {p} : /\ Mapped(q)' => Mapped(q)
                               /\ Mapped(q)' /\ page'[q].migrating => page[q].migrating
    <3>1. \A q \in Pages \ {p, d} : page'[q] = page[q]
      BY <1>0, <2>1, <2>2
    <3>2. p # d => ~Mapped(d)'
      <4>1. p # d => page'[d] = AsReserve(page[d], p, page[p].virtual_offset)
        BY <1>0, <2>1, <2>2
      <4>2. p # d => page'[d].va = page[d].va
        BY <1>0, <2>2, <4>1 DEF AsReserve, UserPage
      <4> QED  BY <2>3, <4>2, SizeAssumption DEF Mapped, VA
    <3> QED  BY <3>1, <3>2 DEF Mapped
  <2>5. ThreadMoves(t, p)'
    BY <2>1 DEF ThreadMoves, SettlePcs
  <2>6. \A q \in Pages \ {p} : ThreadMoves(t, q) => ThreadMoves(t, q)'
    <3> SUFFICES ASSUME NEW q \in Pages \ {p}, ThreadMoves(t, q) PROVE ThreadMoves(t, q)'
      OBVIOUS
    <3>1. PICK i \in DOMAIN fault[t].reading : q = fault[t].reading[i]
      BY <2>1 DEF ThreadMoves, Among, SettlePcs
    <3>2. i - 1 \in DOMAIN Tail(fault[t].reading) /\ Tail(fault[t].reading)[i - 1] = q
      BY <1>0, <2>p, <2>2, <3>1, HeadTail
    <3> QED  BY <2>1, <3>2 DEF ThreadMoves, Among
  <2> QED  BY <1>q, <2>1, <2>4, <2>5, <2>6
<1>9. CASE PublishPage(t) \/ PrefetchResident(t)
  <2>p. PICK p : p = fault[t].page
    OBVIOUS
  <2>1. /\ pc[t] \in SettlePcs /\ pc'[t] \in SettlePcs /\ UNCHANGED <<evict, fault>>
        /\ \/ page' = [page EXCEPT ![p].list = "inactive"]
           \/ page' = [page EXCEPT ![p].in_dram = TRUE]
    BY <1>0, <1>9, <2>p DEF PublishPage, PrefetchResident, At, SettlePcs, TypeOK
  <2>2. \A q \in Pages : page'[q].va = page[q].va /\ (page'[q].migrating => page[q].migrating)
    BY <1>0, <2>1 DEF UserPage
  <2>3. \A q : ThreadMoves(t, q) => ThreadMoves(t, q)'
    BY <2>1 DEF ThreadMoves, SettlePcs
  <2> QED  BY <1>q, <2>1, <2>2, <2>3 DEF Mapped
<1>10. CASE Settle(t)
  <2>p. PICK p : p = fault[t].page
    OBVIOUS
  <2>1. /\ pc[t] = "settle" /\ UNCHANGED evict
        /\ page' = [page EXCEPT ![p].swapped_out = FALSE, ![p].migrating = FALSE]
        /\ fault'[t].reading = fault[t].reading
    BY <1>0, <1>10, <2>p DEF Settle, At, Resume, NoFault, TypeOK, FaultLocals
  <2>2. p \in Pages
    BY <1>0, <2>1, <2>p DEF ThreadOK, SettlePcs
  <2>3. /\ ~page'[p].migrating /\ \A q \in Pages \ {p} : page'[q] = page[q]
    BY <1>0, <2>1, <2>2
  <2>4. \A q \in Pages \ {p} : ThreadMoves(t, q) => ThreadMoves(t, q)'
    BY <2>1, <2>p DEF ThreadMoves
  <2> QED  BY <1>q, <2>1, <2>3, <2>4 DEF Mapped
<1> QED  BY <1>o, <1>1, <1>2, <1>3, <1>4, <1>5, <1>6, <1>7, <1>8, <1>9, <1>10 DEF FaultStep

\* Every page that is marked as moving has a mover, after every step.
LEMMA NextMover == AllInv /\ MoverInv /\ [Next]_vars => MoverInv'
<1> SUFFICES ASSUME OwnerInv, PlaceInv, MoverInv, [Next]_vars PROVE MoverInv'
  BY DEF AllInv
<1>e. /\ Threads \subseteq Evictors /\ Workers \subseteq Evictors
      /\ Threads \subseteq Scanners /\ Kswapd \subseteq Scanners
  BY DEF Evictors, Scanners
<1>1. CASE UNCHANGED vars \/ Crash
  <2>1. UNCHANGED <<page, pc, fault, evict>>
    BY <1>1 DEF vars, Crash, sharedVars
  <2>2. \A e, p : MovedBy(e, p)' <=> MovedBy(e, p)
    BY <2>1 DEF MovedBy, Holds
  <2> QED  BY <2>1, <2>2 DEF MoverInv, Mapped
<1>2. ASSUME NEW t \in Threads, Application(t) PROVE MoverInv'
  <2>0. /\ OnlyMoves(t) /\ fault[t] \in FaultLocals /\ TypeOK
    BY <1>2, ApplicationInv, ThreadFacts, OwnerWeaker DEF OwnerInv, TypeInv, StepOK
  <2>1. /\ UNCHANGED <<page, evict>> /\ pc[t] = "idle" /\ fault'[t].reading = fault[t].reading
    <3>1. /\ UNCHANGED <<page, evict>> /\ pc[t] = "idle"
          /\ fault' = fault \/ \E v \in VA : fault' = [fault EXCEPT ![t].addr = v]
      BY <1>2 DEF Application, Touch, Store, At, sharedVars
    <3> QED  BY <2>0, <3>1 DEF TypeOK, FaultLocals
  <2>2. \A q : ThreadMoves(t, q) => ThreadMoves(t, q)'
    BY <2>1 DEF ThreadMoves, SettlePcs
  <2> QED  BY <2>0, <2>1, <2>2, ThreadMoverLift DEF Mapped
<1>3. ASSUME NEW e \in Scanners, ScanStep(e) PROVE MoverInv'
  <2>0. e \in Executors /\ OnlyMoves(e) /\ page \in [Pages -> UserPage]
    BY <1>3, ScanInv DEF OwnerInv, TypeInv, UseInv, TypeOK, StepOK, Scanners, Executors
  <2>1. /\ UNCHANGED <<fault, evict>>
        /\ pc[e] \notin SettlePcs \cup {"map"} /\ \E p, l : page' = [page EXCEPT ![p].list = l]
    BY <1>3 DEF ScanStep, ScanInactive, ScanActive, KeepOrEvict, Deactivate, ScanTake, ScanPut,
                ScanPoint, At, SettlePcs
  <2>2. \A q \in Pages : page'[q].va = page[q].va /\ (page'[q].migrating => page[q].migrating)
    BY <2>0, <2>1 DEF UserPage
  <2>3. \A q : MovedBy(e, q) => MovedBy(e, q)'
    BY <2>1 DEF MovedBy, Holds, SettlePcs
  <2> QED  BY <2>0, <2>2, <2>3, MoverLift DEF MoverOK, Mapped
<1>4. ASSUME NEW t \in Threads, ThreadStep(t), ~Crash PROVE MoverInv'
  <2>1. FaultStep(t) \/ EvictStep(t) => failed' = "none"
    BY <1>4, AbortCrashes
  <2> QED  BY <1>e, <1>3, <1>4, <2>1, FaultMover, EvictMover DEF ThreadStep
<1>5. ASSUME NEW w \in Workers, WorkerStep(w), ~Crash PROVE MoverInv'
  <2>1. failed' = "none"
    BY <1>5, AbortCrashes
  <2> QED  BY <1>e, <1>5, <2>1, EvictMover DEF WorkerStep
<1> QED  BY <1>e, <1>1, <1>2, <1>3, <1>4, <1>5 DEF Next, Aborted

\* A thread that spins on a page, in handle_wp_fault or in handle_missing_fault,
\* waits for an eviction, a swap-in or a first touch that is under way: no flag
\* is left set by a mover that has gone.
THEOREM MigratingHasMoverHolds == Spec => []MigratingHasMover
<1>1. Init => AllInv /\ MoverInv
  <2>1. Init => MoverInv
    BY DEF Init, InitPages, InitPage, MoverInv
  <2> QED  BY <2>1, InitAll
<1>2. (AllInv /\ MoverInv) /\ [Next]_vars => (AllInv /\ MoverInv)'
  BY NextAll, NextMover
<1>3. AllInv /\ MoverInv => MigratingHasMover
  <2> SUFFICES ASSUME AllInv, MoverInv, NEW v \in VA, pages[v] # 0, page[pages[v]].migrating
               PROVE  \E e \in Executors : MovedBy(e, pages[v])
    BY DEF MigratingHasMover
  <2>1. pages[v] \in Pages /\ Mapped(pages[v])
    BY DEF AllInv, OwnerInv, TypeInv, UseInv, TypeOK, HashOK, Mapped
  <2> QED  BY <2>1 DEF MoverInv
<1> QED  BY <1>1, <1>2, <1>3, PTL DEF Spec

-----------------------------------------------------------------------------
(***************************************************************************)
(* Frames and slots: no two descriptors name one frame, none names a frame *)
(* that an evictor has emptied and not yet handed on, two name one slot    *)
(* only while one lends it to the other, and no slot is forgotten.  From   *)
(* this follow SlotsExclusive, DramBudget and, when the swap device is as  *)
(* large as the mapping, OtherAssertsHold.  The second half is about what  *)
(* is in the pages: ReserveIsCurrent and SwapTransparent.                  *)
(***************************************************************************)

-----------------------------------------------------------------------------
(* The inductive invariant.                                                 *)

\* The offset of p is that of a frame.
InFrame(p) == page[p].in_dram \/ InPrefetchWindow(p)

FramesDistinct ==
    \A p, q \in Pages : p # q /\ InFrame(p) /\ InFrame(q)
                          => page[p].virtual_offset # page[q].virtual_offset

\* Evictor e has emptied a frame and not yet handed it on.
Emptied(e) == pc[e] \in {"mark", "track", "free_frame"} /\ evict[e].dpage # 0

\* old_offset is the victim's frame until it is emptied, and nobody's then.
OldOffset(e) ==
    /\ pc[e] \in {"back", "write", "unmap"} =>
         evict[e].old_offset = page[evict[e].victim].virtual_offset
    /\ Emptied(e) =>
         /\ \A p \in Pages : InFrame(p) => page[p].virtual_offset # evict[e].old_offset
         /\ \A f \in Evictors : Emptied(f) /\ f # e
                                  => evict[f].old_offset # evict[e].old_offset

\* The victim and the descriptor that lends it its slot.
Lends(e, p, q) == Emptied(e) /\ {p, q} = {evict[e].victim, evict[e].dpage}

SlotsDistinct ==
    \A p, q \in Pages : p # q /\ ~InFrame(p) /\ ~InFrame(q)
                          /\ page[p].virtual_offset = page[q].virtual_offset
                          => \E e \in Evictors : Lends(e, p, q)

\* Every slot of the swap device has a descriptor.
SlotsCovered ==
    \A s \in 0 .. NDisk - 1 :
      \E p \in Pages : ~InFrame(p) /\ page[p].virtual_offset = s

FrameInv == /\ FramesDistinct /\ SlotsDistinct /\ SlotsCovered
            /\ \A e \in Evictors : OldOffset(e)

-----------------------------------------------------------------------------
(* Steps that move nothing.                                                 *)

\* p is where it was.
SamePlace(p) == /\ InFrame(p)' <=> InFrame(p)
                /\ page'[p].virtual_offset = page[p].virtual_offset

\* A descriptor whose offset, in_dram and prefetch window stay is where it was.
LEMMA SamePlaces ==
    ASSUME NEW x \in Executors, OnlyMoves(x), NEW p,
           page'[p].in_dram <=> page[p].in_dram,
           page'[p].virtual_offset = page[p].virtual_offset,
           Windows(x, p)' <=> Windows(x, p)
    PROVE  SamePlace(p)
<1>1. InPrefetchWindow(p)' <=> InPrefetchWindow(p)
  BY OthersSettle, WindowDef
<1> QED  BY <1>1 DEF SamePlace, InFrame

\* What the others have emptied stays as it is.
LEMMA OthersEmptied ==
    ASSUME NEW x \in Executors, OnlyMoves(x), NEW e \in Evictors \ {x}
    PROVE  /\ Emptied(e)' <=> Emptied(e)
           /\ pc'[e] = pc[e] /\ evict'[e] = evict[e]
  BY DEF OnlyMoves, Emptied, Evictors, Executors

\* Nothing moves, and x goes on with its eviction.
LEMMA FrameStill ==
    ASSUME FrameInv, NEW x \in Executors, OnlyMoves(x), \A p \in Pages : SamePlace(p),
           TypeOK, \A e \in Evictors : evict[e].victim # 0 <=> pc[e] \in EvictPcs,
           x \in Evictors =>
             /\ Emptied(x)' <=> Emptied(x)
             /\ Emptied(x)' => /\ evict'[x].victim = evict[x].victim
                               /\ evict'[x].dpage = evict[x].dpage
                               /\ evict'[x].old_offset = evict[x].old_offset
             /\ pc'[x] \in {"back", "write", "unmap"} =>
                  /\ evict'[x].victim \in Pages
                  /\ evict'[x].old_offset = page[evict'[x].victim].virtual_offset
    PROVE  FrameInv'
<1>1. \A e \in Evictors :
        /\ Emptied(e)' <=> Emptied(e)
        /\ Emptied(e) => /\ evict'[e].victim = evict[e].victim
                         /\ evict'[e].dpage = evict[e].dpage
                         /\ evict'[e].old_offset = evict[e].old_offset
  BY OthersEmptied
<1>2. FramesDistinct'
  BY DEF FrameInv, FramesDistinct, SamePlace
<1>3. SlotsCovered'
  BY DEF FrameInv, SlotsCovered, SamePlace
<1>4. SlotsDistinct'
  <2>1. \A e \in Evictors : \A p, q : Lends(e, p, q) => Lends(e, p, q)'
    BY <1>1 DEF Lends
  <2> QED  BY <2>1 DEF FrameInv, SlotsDistinct, SamePlace
<1>5. ASSUME NEW e \in Evictors PROVE OldOffset(e)'
  <2>1. /\ OldOffset(e) /\ evict[e].victim \in Pages \cup {0}
        /\ pc[e] \in {"back", "write", "unmap"} => evict[e].victim # 0
    BY DEF FrameInv, TypeOK, EvictLocals, EvictPcs
  <2>2. pc'[e] \in {"back", "write", "unmap"} =>
          evict'[e].old_offset = page'[evict'[e].victim].virtual_offset
    <3>1. CASE e = x
      BY <3>1 DEF SamePlace
    <3>2. CASE e # x
      <4>1. pc'[e] = pc[e] /\ evict'[e] = evict[e]
        BY <3>2, OthersEmptied
      <4> QED  BY <2>1, <4>1 DEF OldOffset, SamePlace
    <3> QED  BY <3>1, <3>2
  <2>3. Emptied(e)' => \A p \in Pages : InFrame(p)' => page'[p].virtual_offset # evict'[e].old_offset
    BY <1>1, <2>1 DEF OldOffset, SamePlace
  <2>4. Emptied(e)' => \A f \in Evictors : Emptied(f)' /\ f # e
                                             => evict'[f].old_offset # evict'[e].old_offset
    BY <1>1, <2>1 DEF OldOffset
  <2> QED  BY <2>2, <2>3, <2>4 DEF OldOffset
<1> QED  BY <1>2, <1>3, <1>4, <1>5 DEF FrameInv

\* An evictor's own window is closed.
LEMMA EvictorWindow ==
    ASSUME NEW e, pc[e] \notin {"publish", "resident"}, pc'[e] \notin {"publish", "resident"}
    PROVE  \A q : ~Windows(e, q) /\ ~Windows(e, q)'
  BY DEF Windows

\* The steps of an eviction that neither empty a frame nor hand one on.
LEMMA EvictFrameStill ==
    ASSUME OwnerInv, PlaceInv, FrameInv, NEW e \in Evictors, failed' = "none",
           \/ TakeVictim(e) \/ ProtectVictim(e) \/ BackByReserve(e) \/ BackByFreeSlot(e)
           \/ WriteBack(e) \/ MarkSwappedOut(e) \/ (e \in Workers /\ TrackVictim(e))
           \/ (e \in Workers /\ ReleaseVictim(e))
    PROVE  FrameInv'
<1>0. /\ e \in Executors /\ OnlyMoves(e) /\ page \in [Pages -> UserPage]
      /\ TypeOK /\ EvictorOK(e) /\ evict[e] \in EvictLocals /\ VictimOK(e) /\ DpageOK(e)
      /\ OldOffset(e)
  BY EvictInv, ReleaseInv
     DEF OwnerInv, TypeInv, UseInv, StepOK, LocalsOK, LocalOK, TypeOK, Evictors, Executors,
         PlaceInv, HeldOK, EvictStep, FrameInv
<1>v. \A f \in Evictors : evict[f].victim # 0 <=> pc[f] \in EvictPcs
  BY DEF OwnerInv, TypeInv, UseInv, LocalsOK, LocalOK, EvictorOK, Evictors, Executors
<1>p. PICK p : p = evict[e].victim
  OBVIOUS
<1>t. p \in Pages \cup {0} /\ (pc[e] \in EvictPcs => p \in Pages)
  BY <1>0, <1>p DEF EvictLocals, EvictorOK
<1>q. ASSUME pc[e] \notin {"publish", "resident"}, pc'[e] \notin {"publish", "resident"},
             \A q \in Pages : /\ page'[q].in_dram <=> page[q].in_dram
                              /\ page'[q].virtual_offset = page[q].virtual_offset
      PROVE  \A q \in Pages : SamePlace(q)
  BY <1>0, <1>q, EvictorWindow, SamePlaces
<1>1. CASE TakeVictim(e)
  <2>1. PICK v : v = Head(fifo["eviction"])
    OBVIOUS
  <2>2. /\ page' = [page EXCEPT ![v].list = "none"]
        /\ pc[e] \in {"idle", "reclaim"} /\ pc'[e] = "protect"
    BY <1>0, <1>1, <2>1 DEF TakeVictim, At, TypeOK
  <2>3. \A q \in Pages : SamePlace(q)
    BY <1>0, <1>q, <2>2 DEF UserPage
  <2> QED  BY <1>0, <1>v, <2>2, <2>3, FrameStill DEF Emptied
<1>2. CASE ProtectVictim(e)
  <2>2. /\ page' = [page EXCEPT ![p].migrating = TRUE]
        /\ evict' = [evict EXCEPT ![e].old_offset = page[p].virtual_offset]
        /\ pc[e] = "protect" /\ pc'[e] = "back"
    BY <1>0, <1>2, <1>p DEF ProtectVictim, At, TypeOK, Victim
  <2>3. \A q \in Pages : SamePlace(q)
    BY <1>0, <1>q, <2>2 DEF UserPage
  <2>4. evict'[e].victim = p /\ evict'[e].old_offset = page[p].virtual_offset /\ p \in Pages
    BY <1>0, <1>p, <1>t, <2>2 DEF TypeOK, EvictLocals, EvictPcs
  <2> QED  BY <1>0, <1>v, <2>2, <2>3, <2>4, FrameStill DEF Emptied
<1>3. CASE BackByReserve(e) \/ BackByFreeSlot(e)
  <2>1. \E d : page' = [page EXCEPT ![d].list = "none"]
    <3>1. CASE BackByReserve(e)
      BY <3>1 DEF BackByReserve, Abort
    <3>2. CASE BackByFreeSlot(e)
      BY <3>2 DEF BackByFreeSlot, Abort
    <3> QED  BY <1>3, <3>1, <3>2
  <2>2. pc[e] = "back" /\ pc'[e] = "write"
    BY <1>0, <1>3 DEF BackByReserve, BackByFreeSlot, Abort, At, TypeOK
  <2>3. \A q \in Pages : SamePlace(q)
    BY <1>0, <1>q, <2>1, <2>2 DEF UserPage
  <2>4. evict'[e].victim = p /\ evict'[e].old_offset = evict[e].old_offset /\ p \in Pages
    <3>1. \E d, b, w : evict' = [evict EXCEPT ![e].dpage = d, ![e].backed = b, ![e].writeback = w]
      <4>1. CASE BackByReserve(e)
        <5>1. evict' = [evict EXCEPT ![e].dpage = page[p].reserve, ![e].backed = TRUE,
                                     ![e].writeback = NeedsWriteback(p)]
          BY <1>p, <4>1 DEF BackByReserve, Abort, Victim
        <5> QED  BY <5>1
      <4>2. CASE BackByFreeSlot(e)
        <5>1. evict' = [evict EXCEPT ![e].dpage = Head(fifo["disk_free"]), ![e].backed = FALSE,
                                     ![e].writeback = NeedsWriteback(p)]
          BY <1>p, <4>2 DEF BackByFreeSlot, Abort, Victim
        <5> QED  BY <5>1
      <4> QED  BY <1>3, <4>1, <4>2
    <3> QED  BY <1>0, <1>p, <1>t, <2>2, <3>1 DEF TypeOK, EvictLocals, EvictPcs
  <2>5. evict[e].old_offset = page[p].virtual_offset
    BY <1>0, <1>p, <2>2 DEF OldOffset
  <2> QED  BY <1>0, <1>v, <2>2, <2>3, <2>4, <2>5, FrameStill DEF Emptied
<1>4. CASE WriteBack(e)
  <2>2. /\ page' = [page EXCEPT ![p].migrating = @ \/ e \in Threads]
        /\ pc[e] = "write" /\ pc'[e] = "unmap" /\ evict' = evict
    BY <1>0, <1>4, <1>p DEF WriteBack, At, TypeOK, Victim, Abort
  <2>3. \A q \in Pages : SamePlace(q)
    BY <1>0, <1>q, <2>2 DEF UserPage
  <2>4. evict[e].old_offset = page[p].virtual_offset /\ p \in Pages
    BY <1>0, <1>p, <1>t, <2>2 DEF OldOffset, EvictPcs
  <2> QED  BY <1>0, <1>p, <1>v, <2>2, <2>3, <2>4, FrameStill DEF Emptied
<1>5. CASE MarkSwappedOut(e)
  <2>2. /\ page' = [page EXCEPT ![p].swapped_out = TRUE]
        /\ pc[e] = "mark" /\ pc'[e] \in {"free_frame", "track"} /\ evict' = evict
    BY <1>0, <1>5, <1>p DEF MarkSwappedOut, At, TypeOK, Victim, Abort
  <2>3. \A q \in Pages : SamePlace(q)
    BY <1>0, <1>q, <2>2 DEF UserPage
  <2> QED  BY <1>0, <1>v, <2>2, <2>3, FrameStill DEF Emptied
<1>6. CASE e \in Workers /\ TrackVictim(e)
  <2>2. /\ page' = [page EXCEPT ![p].list = "disk_active"]
        /\ pc[e] = "track" /\ evict' = evict
        /\ pc'[e] = IF ~evict[e].backed THEN "free_frame" ELSE "release"
    BY <1>0, <1>6, <1>p DEF TrackVictim, At, TypeOK, Victim
  <2>3. \A q \in Pages : SamePlace(q)
    BY <1>0, <1>q, <2>2 DEF UserPage
  <2>4. evict[e].backed => evict[e].dpage = 0
    BY <1>0, <1>6, <2>2, ExecutorAssumption DEF EvictorOK
  <2> QED  BY <1>0, <1>v, <2>2, <2>3, <2>4, FrameStill DEF Emptied
<1>7. CASE e \in Workers /\ ReleaseVictim(e)
  <2>2. /\ page' = [page EXCEPT ![p].migrating = FALSE]
        /\ pc[e] = "release" /\ pc'[e] = "idle"
    BY <1>0, <1>7, <1>p DEF ReleaseVictim, At, TypeOK, Victim, Abort
  <2>3. \A q \in Pages : SamePlace(q)
    BY <1>0, <1>q, <2>2 DEF UserPage
  <2> QED  BY <1>0, <1>v, <2>2, <2>3, FrameStill DEF Emptied
<1> QED  BY <1>1, <1>2, <1>3, <1>4, <1>5, <1>6, <1>7

-----------------------------------------------------------------------------
(* Steps that move a descriptor to another place.                           *)

\* A slot's descriptor is in no frame.
LEMMA SlotOutside ==
    ASSUME OwnerInv, NEW d \in Pages, SlotDesc(page[d])
    PROVE  ~InFrame(d) /\ ~Mapped(d)
<1>1. ~Mapped(d)
  BY SizeAssumption DEF SlotDesc, Mapped, VA
<1>2. ASSUME InPrefetchWindow(d) PROVE FALSE
  <2>1. PICK t \in Threads : fault[t].page = d
    BY <1>2 DEF InPrefetchWindow
  <2>2. d # 0 /\ LocalMapped(t)
    BY DEF Pages, OwnerInv, TypeInv, UseInv, LocalsMapped, Executors
  <2>3. Mapped(d)
    BY <2>1, <2>2 DEF LocalMapped, LocalUsed
  <2> QED  BY <1>1, <2>3
<1> QED  BY <1>1, <1>2 DEF InFrame, SlotDesc

\* UnmapVictim: the victim leaves its frame, which is nobody's from here on,
\* for the slot that dpage lends it.
LEMMA UnmapFrame ==
    ASSUME OwnerInv, PlaceInv, PlaceInv', FrameInv, NEW e \in Evictors, failed' = "none",
           UnmapVictim(e)
    PROVE  FrameInv'
<1>p. PICK p, d : p = evict[e].victim /\ d = evict[e].dpage
  OBVIOUS
<1>0. /\ e \in Executors /\ OnlyMoves(e) /\ page \in [Pages -> UserPage]
      /\ TypeOK /\ EvictorOK(e) /\ evict[e] \in EvictLocals /\ VictimOK(e) /\ DpageOK(e)
      /\ OldOffset(e) /\ VictimOK(e)'
  BY EvictInv
     DEF OwnerInv, TypeInv, UseInv, StepOK, LocalsOK, LocalOK, TypeOK, Evictors, Executors,
         PlaceInv, HeldOK, EvictStep, FrameInv
<1>1. /\ page' = [page EXCEPT ![p].virtual_offset = page[d].virtual_offset, ![p].in_dram = FALSE]
      /\ evict' = evict /\ pc[e] = "unmap" /\ pc'[e] = "mark"
  BY <1>0, <1>p DEF UnmapVictim, At, TypeOK, Victim, DiskPage
<1>2. /\ p \in Pages /\ d \in Pages /\ d # 0 /\ Resident(p) /\ SlotDesc(page[d])
      /\ evict[e].old_offset = page[p].virtual_offset
  BY <1>0, <1>1, <1>p DEF EvictorOK, EvictPcs, EvictLocals, VictimOK, DpageOK, OldOffset
<1>3. /\ InFrame(p) /\ ~InFrame(p)' /\ p # d
      /\ page'[p].virtual_offset = page[d].virtual_offset
  <2>1. OnDisk(p)'
    BY <1>0, <1>1, <1>p DEF VictimOK
  <2>2. p # d
    BY <1>2, SizeAssumption DEF SlotDesc, Resident, Mapped, VA
  <2>3. ~InFrame(p)'
    BY <2>1 DEF OnDisk, InFrame
  <2>4. page'[p].virtual_offset = page[d].virtual_offset
    BY <1>0, <1>1, <1>2 DEF UserPage
  <2> QED  BY <1>2, <2>2, <2>3, <2>4 DEF Resident, InFrame
<1>4. \A q \in Pages \ {p} : SamePlace(q)
  BY <1>0, <1>1, EvictorWindow, SamePlaces
<1>5. ~InFrame(d)
  BY <1>2, SlotOutside
<1>6. /\ ~Emptied(e) /\ Emptied(e)'
      /\ \A f \in Evictors \ {e} : Emptied(f)' <=> Emptied(f)
  BY <1>0, <1>1, <1>2, <1>p, OthersEmptied DEF Emptied
<1>7. FramesDistinct'
  BY <1>3, <1>4 DEF FrameInv, FramesDistinct, SamePlace
<1>8. SlotsCovered'
  <2> SUFFICES ASSUME NEW s \in 0 .. NDisk - 1
               PROVE  \E q \in Pages : ~InFrame(q)' /\ page'[q].virtual_offset = s
    BY DEF SlotsCovered
  <2>1. PICK q \in Pages : ~InFrame(q) /\ page[q].virtual_offset = s
    BY DEF FrameInv, SlotsCovered
  <2> QED  BY <1>3, <1>4, <2>1 DEF SamePlace
<1>9. SlotsDistinct'
  <2> SUFFICES ASSUME NEW q \in Pages, NEW r \in Pages, q # r, ~InFrame(q)', ~InFrame(r)',
                      page'[q].virtual_offset = page'[r].virtual_offset
               PROVE  \E f \in Evictors : Lends(f, q, r)'
    BY DEF SlotsDistinct
  <2>0. \A f \in Evictors : \A a, b : Lends(f, a, b) => Lends(f, a, b)'
    BY <1>1, <1>6 DEF Lends
  <2>1. CASE q # p /\ r # p
    BY <1>4, <2>0, <2>1 DEF FrameInv, SlotsDistinct, SamePlace
  \* A second descriptor of dpage's slot would be lent to by dpage already.
  <2>2. ASSUME NEW a \in Pages \ {p}, ~InFrame(a)',
               page'[a].virtual_offset = page'[p].virtual_offset
        PROVE  a = d
    <3>1. ~InFrame(a) /\ page[a].virtual_offset = page[d].virtual_offset
      BY <1>3, <1>4, <2>2 DEF SamePlace
    <3>2. ASSUME a # d PROVE FALSE
      <4>1. PICK f \in Evictors : Lends(f, a, d)
        BY <1>2, <1>5, <3>1, <3>2 DEF FrameInv, SlotsDistinct
      <4>2. f # e /\ f \in Executors /\ pc[f] \in {"mark", "track", "free_frame"}
        BY <1>6, <4>1 DEF Lends, Emptied, Evictors, Executors
      <4>3. CASE evict[f].dpage = d
        <5>1. Holds(f, "dpage", d) /\ Holds(e, "dpage", d)
          BY <1>p, <4>3 DEF Holds
        <5> QED  BY <1>0, <1>2, <4>2, <5>1 DEF OwnerInv, Ownership, Roles
      <4>4. CASE evict[f].victim = d
        <5>1. Mapped(d)
          BY <1>2, <4>2, <4>4 DEF OwnerInv, TypeInv, UseInv, LocalsMapped, LocalMapped, LocalUsed
        <5> QED  BY <1>2, <5>1, SizeAssumption DEF SlotDesc, Mapped, VA
      <4> QED  BY <4>1, <4>3, <4>4 DEF Lends
    <3> QED  BY <3>2
  <2>3. CASE q = p \/ r = p
    <3>1. {q, r} = {p, d}
      BY <2>2, <2>3
    <3>2. Lends(e, q, r)'
      BY <1>1, <1>6, <1>p, <3>1 DEF Lends
    <3> QED  BY <3>2
  <2> QED  BY <2>1, <2>3
<1>10. ASSUME NEW f \in Evictors PROVE OldOffset(f)'
  <2>1. CASE f = e
    <3>1. \A q \in Pages : InFrame(q)' => page'[q].virtual_offset # evict[e].old_offset
      BY <1>2, <1>3, <1>4 DEF FrameInv, FramesDistinct, SamePlace
    <3>2. \A g \in Evictors : Emptied(g) /\ g # e => evict[g].old_offset # evict[e].old_offset
      BY <1>2, <1>3 DEF FrameInv, OldOffset
    <3>3. /\ Emptied(e)' => \A q \in Pages : InFrame(q)' => page'[q].virtual_offset # evict'[e].old_offset
          /\ Emptied(e)' => \A g \in Evictors : Emptied(g)' /\ g # e
                                                  => evict'[g].old_offset # evict'[e].old_offset
      BY <1>1, <1>6, <3>1, <3>2
    <3> QED  BY <1>1, <2>1, <3>3 DEF OldOffset
  <2>2. CASE f # e
    <3>0. OldOffset(f) /\ pc'[f] = pc[f]
      BY <1>0, <2>2, OthersEmptied DEF FrameInv
    <3>1. ASSUME pc[f] \in {"back", "write", "unmap"}
          PROVE  evict'[f].old_offset = page'[evict'[f].victim].virtual_offset
      <4>1. f \in Executors /\ evict[f] \in EvictLocals /\ EvictorOK(f)
        BY DEF OwnerInv, TypeInv, UseInv, TypeOK, LocalsOK, LocalOK, Evictors, Executors
      <4>2. evict[f].victim \in Pages
        BY <3>1, <4>1 DEF EvictorOK, EvictPcs, EvictLocals
      <4>3. evict[f].victim # p
        BY <1>2, <1>p, <2>2 DEF PlaceInv, VictimOnce, Pages
      <4> QED  BY <1>1, <1>4, <3>0, <3>1, <4>2, <4>3 DEF OldOffset, SamePlace
    <3>2. Emptied(f) => \A q \in Pages : InFrame(q)' => page'[q].virtual_offset # evict[f].old_offset
      BY <1>3, <1>4, <3>0 DEF OldOffset, SamePlace
    <3>3. Emptied(f) => \A g \in Evictors : Emptied(g)' /\ g # f
                                              => evict[g].old_offset # evict[f].old_offset
      BY <1>2, <1>3, <1>6, <3>0 DEF OldOffset
    <3>4. Emptied(f)' <=> Emptied(f)
      BY <1>6, <2>2
    <3> QED  BY <1>1, <3>0, <3>1, <3>2, <3>3, <3>4 DEF OldOffset
  <2> QED  BY <2>1, <2>2
<1> QED  BY <1>7, <1>8, <1>9, <1>10 DEF FrameInv

\* The end of an eviction: dpage becomes the descriptor of the emptied frame,
\* and the victim has the slot for itself.
LEMMA HandOnFrame ==
    ASSUME OwnerInv, PlaceInv, FrameInv, NEW e \in Evictors, failed' = "none",
           FreeFrame(e) \/ (e \in Threads /\ TrackVictim(e))
    PROVE  FrameInv'
<1>p. PICK p, d, o : p = evict[e].victim /\ d = evict[e].dpage /\ o = evict[e].old_offset
  OBVIOUS
<1>0. /\ e \in Executors /\ OnlyMoves(e) /\ page \in [Pages -> UserPage]
      /\ TypeOK /\ EvictorOK(e) /\ evict[e] \in EvictLocals /\ VictimOK(e) /\ DpageOK(e)
      /\ OldOffset(e)
  BY EvictInv
     DEF OwnerInv, TypeInv, UseInv, StepOK, LocalsOK, LocalOK, TypeOK, Evictors, Executors,
         PlaceInv, HeldOK, EvictStep, FrameInv
<1>1. /\ pc[e] \in {"free_frame", "track"} /\ d # 0 /\ Emptied(e)
      /\ pc'[e] \in {"track", "release"} /\ ~Emptied(e)'
  <2>1. CASE FreeFrame(e)
    <3>1. /\ pc[e] = "free_frame" /\ pc'[e] \in {"track", "release"}
          /\ evict' = [evict EXCEPT ![e].dpage = 0]
      BY <1>0, <2>1 DEF FreeFrame, At, TypeOK
    <3>2. evict'[e].dpage = 0
      BY <1>0, <3>1 DEF TypeOK, EvictLocals
    <3> QED  BY <1>0, <1>p, <3>1, <3>2 DEF EvictorOK, Emptied
  <2>2. CASE e \in Threads /\ TrackVictim(e)
    <3>1. pc[e] = "track" /\ pc'[e] = "release"
      BY <1>0, <2>2, ExecutorAssumption DEF TrackVictim, At, TypeOK
    <3> QED  BY <1>0, <1>p, <2>2, <3>1 DEF EvictorOK, Emptied
  <2> QED  BY <2>1, <2>2
<1>2. /\ p \in Pages /\ d \in Pages /\ OnDisk(p) /\ SlotDesc(page[d])
      /\ page[p].virtual_offset = page[d].virtual_offset
  BY <1>0, <1>1, <1>p DEF EvictorOK, EvictPcs, EvictLocals, VictimOK, DpageOK
<1>3. ~InFrame(p) /\ ~InFrame(d) /\ ~Mapped(d) /\ p # d
  BY <1>2, SlotOutside DEF OnDisk, InFrame
<1>4. /\ page'[d].in_dram /\ page'[d].virtual_offset = o
      /\ page'[p].in_dram = page[p].in_dram /\ page'[p].virtual_offset = page[p].virtual_offset
      /\ \A q \in Pages \ {p, d} : page'[q] = page[q]
  <2>1. \/ page'[d] = [AsFrame(page[d], o) EXCEPT !.list = "dram_free"]
        \/ page'[d] = AsFrame(page[d], o)
    BY <1>0, <1>2, <1>3, <1>p, ExecutorAssumption DEF FreeFrame, TrackVictim, Victim, DiskPage
  <2>2. /\ \/ page'[p] = [page[p] EXCEPT !.reserve = IF evict[e].backed THEN 0 ELSE @]
           \/ page'[p] = [page[p] EXCEPT !.list = "disk_active", !.reserve = 0]
        /\ \A q \in Pages \ {p, d} : page'[q] = page[q]
    BY <1>0, <1>2, <1>3, <1>p, ExecutorAssumption DEF FreeFrame, TrackVictim, Victim, DiskPage
  <2>3. page[d] \in UserPage /\ page[p] \in UserPage
    BY <1>0, <1>2
  <2> QED  BY <2>1, <2>2, <2>3 DEF AsFrame, UserPage
<1>5. /\ \A q \in Pages \ {d} : SamePlace(q)
      /\ InFrame(d)' /\ page'[d].virtual_offset = o
  <2>1. \A q \in Pages \ {d} : /\ page'[q].in_dram <=> page[q].in_dram
                               /\ page'[q].virtual_offset = page[q].virtual_offset
    BY <1>4
  <2>2. \A q \in Pages \ {d} : SamePlace(q)
    BY <1>0, <1>1, <2>1, EvictorWindow, SamePlaces
  <2> QED  BY <1>4, <2>2 DEF InFrame
<1>6. \A f \in Evictors \ {e} : /\ Emptied(f)' <=> Emptied(f)
                                /\ pc'[f] = pc[f] /\ evict'[f] = evict[f]
  BY <1>0, OthersEmptied
<1>7. FramesDistinct'
  <2>1. \A q \in Pages \ {d} : InFrame(q)' => page'[q].virtual_offset # o
    BY <1>0, <1>1, <1>5, <1>p DEF OldOffset, SamePlace
  <2> QED  BY <1>5, <2>1 DEF FrameInv, FramesDistinct, SamePlace
<1>8. SlotsCovered'
  <2> SUFFICES ASSUME NEW s \in 0 .. NDisk - 1
               PROVE  \E q \in Pages : ~InFrame(q)' /\ page'[q].virtual_offset = s
    BY DEF SlotsCovered
  <2>1. PICK q \in Pages : ~InFrame(q) /\ page[q].virtual_offset = s
    BY DEF FrameInv, SlotsCovered
  <2>2. CASE q # d
    BY <1>5, <2>1, <2>2 DEF SamePlace
  <2>3. CASE q = d
    BY <1>2, <1>3, <1>5, <2>1, <2>3 DEF SamePlace
  <2> QED  BY <2>2, <2>3
<1>9. SlotsDistinct'
  <2> SUFFICES ASSUME NEW q \in Pages, NEW r \in Pages, q # r, ~InFrame(q)', ~InFrame(r)',
                      page'[q].virtual_offset = page'[r].virtual_offset
               PROVE  \E f \in Evictors : Lends(f, q, r)'
    BY DEF SlotsDistinct
  <2>1. q # d /\ r # d
    BY <1>5
  <2>2. PICK f \in Evictors : Lends(f, q, r)
    BY <1>5, <2>1 DEF FrameInv, SlotsDistinct, SamePlace
  <2>3. f # e
    BY <1>p, <2>1, <2>2 DEF Lends
  <2>4. Lends(f, q, r)'
    BY <1>6, <2>2, <2>3 DEF Lends
  <2> QED  BY <2>4
<1>10. ASSUME NEW f \in Evictors PROVE OldOffset(f)'
  <2>1. CASE f = e
    BY <1>1, <2>1 DEF OldOffset
  <2>2. CASE f # e
    <3>0. OldOffset(f) /\ pc'[f] = pc[f] /\ evict'[f] = evict[f] /\ (Emptied(f)' <=> Emptied(f))
      BY <1>6, <2>2 DEF FrameInv
    <3>1. ASSUME pc[f] \in {"back", "write", "unmap"}
          PROVE  evict'[f].old_offset = page'[evict'[f].victim].virtual_offset
      <4>1. /\ f \in Executors /\ evict[f] \in EvictLocals /\ EvictorOK(f) /\ LocalMapped(f)
        BY DEF OwnerInv, TypeInv, UseInv, TypeOK, LocalsOK, LocalOK, LocalsMapped, Evictors, Executors
      <4>2. evict[f].victim \in Pages
        BY <3>1, <4>1 DEF EvictorOK, EvictPcs, EvictLocals
      <4>3. evict[f].victim # d
        BY <1>1, <1>3, <4>1 DEF LocalMapped, LocalUsed
      <4> QED  BY <1>5, <3>0, <3>1, <4>2, <4>3 DEF OldOffset, SamePlace
    <3>2. Emptied(f) => \A q \in Pages : InFrame(q)' => page'[q].virtual_offset # evict[f].old_offset
      <4>1. Emptied(f) => o # evict[f].old_offset
        BY <1>1, <1>p, <2>2, <3>0 DEF OldOffset
      <4> QED  BY <1>5, <3>0, <4>1 DEF OldOffset, SamePlace
    <3>3. Emptied(f)' => \A g \in Evictors : Emptied(g)' /\ g # f
                                               => evict'[g].old_offset # evict'[f].old_offset
      BY <1>1, <1>6, <3>0 DEF OldOffset
    <3> QED  BY <3>0, <3>1, <3>2, <3>3 DEF OldOffset
  <2> QED  BY <2>1, <2>2
<1> QED  BY <1>7, <1>8, <1>9, <1>10 DEF FrameInv

\* FinishRead: the page and the free frame's descriptor change places.
LEMMA FinishFrame ==
    ASSUME OwnerInv, PlaceInv, FrameInv, NEW t \in Threads, failed' = "none", FinishRead(t)
    PROVE  FrameInv'
<1>p. PICK p, d : p = Head(fault[t].reading) /\ d = Head(fault[t].frees)
  OBVIOUS
<1>0. /\ t \in Executors /\ t \in Evictors /\ TypeOK /\ page \in [Pages -> UserPage]
      /\ fault[t] \in FaultLocals /\ ThreadOK(t) /\ OnlyMoves(t) /\ FreeOK(t) /\ ReadOK(t)
      /\ fault[t].reading \in Seq(Pages) /\ fault[t].frees \in Seq(Pages)
  BY ThreadFacts, OwnerWeaker, SwapInInv DEF OwnerInv, TypeInv, UseInv, StepOK, PlaceInv, HeldOK
<1>1. /\ pc[t] = "finish" /\ pc'[t] = "publish" /\ UNCHANGED evict
      /\ page' = [page EXCEPT
                   ![p].virtual_offset = page[d].virtual_offset,
                   ![p].in_dram = @ \/ fault[t].job = "swapin",
                   ![p].reserve = d,
                   ![d] = AsReserve(page[d], p, page[p].virtual_offset)]
      /\ fault'[t].page = p /\ fault'[t].job = fault[t].job
      /\ fault[t].job \in {"swapin", "prefetch"}
  BY <1>0, <1>p DEF FinishRead, At, Abort, TypeOK, FaultLocals, ThreadOK
<1>2. /\ p \in Pages /\ d \in Pages /\ 1 \in DOMAIN fault[t].reading /\ 1 \in DOMAIN fault[t].frees
      /\ p = fault[t].reading[1] /\ d = fault[t].frees[1]
  <2>1. fault[t].reading # <<>> /\ Len(fault[t].frees) = Len(fault[t].reading)
    BY <1>0, <1>1 DEF ThreadOK
  <2>2. fault[t].frees # <<>>
    BY <1>0, <2>1
  <2> QED  BY <1>0, <1>p, <2>1, <2>2
<1>3. SwappedOut(p) /\ FrameDesc(page[d]) /\ p # d /\ ~Mapped(d)
  <2>1. SwappedOut(p) /\ FrameDesc(page[d])
    BY <1>0, <1>1, <1>2 DEF ReadOK, FreeOK
  <2>2. ~Mapped(d)
    BY <2>1, SizeAssumption DEF FrameDesc, Mapped, VA
  <2> QED  BY <2>1, <2>2 DEF SwappedOut, OnDisk
<1>4. ~InFrame(p) /\ InFrame(d)
  BY <1>3 DEF SwappedOut, OnDisk, FrameDesc, InFrame
<1>5. \A f \in Executors \ {t} : Apart(f, p) /\ Apart(f, d)
  <2>1. Holds(t, "read", p) /\ Holds(t, "free", d)
    BY <1>2 DEF Holds
  <2> QED  BY <1>0, <1>2, <2>1, NotOthers DEF Roles
<1>6. InFrame(p)' /\ page'[p].virtual_offset = page[d].virtual_offset
  <2>1. /\ page'[p].virtual_offset = page[d].virtual_offset
        /\ fault[t].job = "swapin" => page'[p].in_dram
    <3>1. page'[p] = [page[p] EXCEPT !.virtual_offset = page[d].virtual_offset,
                                     !.in_dram = @ \/ fault[t].job = "swapin", !.reserve = d]
      BY <1>0, <1>1, <1>2, <1>3
    <3> QED  BY <1>0, <1>2, <3>1 DEF UserPage
  <2>2. fault[t].job = "prefetch" => InPrefetchWindow(p)'
    BY <1>1 DEF InPrefetchWindow
  <2> QED  BY <1>1, <2>1, <2>2 DEF InFrame
<1>7. ~InFrame(d)' /\ page'[d].virtual_offset = page[p].virtual_offset
  <2>1. ~page'[d].in_dram /\ page'[d].virtual_offset = page[p].virtual_offset
    <3>1. page'[d] = AsReserve(page[d], p, page[p].virtual_offset)
      BY <1>0, <1>1, <1>2, <1>3
    <3> QED  BY <1>0, <1>2, <3>1 DEF AsReserve, UserPage
  <2>2. ASSUME InPrefetchWindow(d)' PROVE FALSE
    <3>1. PICK u \in Threads : fault'[u].page = d
      BY <2>2 DEF InPrefetchWindow
    <3>2. u # t
      BY <1>1, <1>3, <3>1
    <3>3. fault[u].page = d /\ LocalMapped(u)
      BY <1>0, <3>1, <3>2 DEF OnlyMoves, Executors, OwnerInv, TypeInv, UseInv, LocalsMapped
    <3>4. d # 0
      BY <1>2 DEF Pages
    <3> QED  BY <1>3, <3>3, <3>4 DEF LocalMapped, LocalUsed
  <2> QED  BY <2>1, <2>2 DEF InFrame
<1>8. \A q \in Pages \ {p, d} : SamePlace(q)
  <2> SUFFICES ASSUME NEW q \in Pages \ {p, d} PROVE SamePlace(q)
    OBVIOUS
  <2>1. page'[q] = page[q]
    BY <1>0, <1>1, <1>2
  <2>2. ~Windows(t, q) /\ ~Windows(t, q)'
    BY <1>1 DEF Windows
  <2> QED  BY <1>0, <2>1, <2>2, SamePlaces
<1>9. /\ ~Emptied(t) /\ ~Emptied(t)'
      /\ \A f \in Evictors : /\ Emptied(f)' <=> Emptied(f)
                             /\ f # t => pc'[f] = pc[f] /\ evict'[f] = evict[f]
  BY <1>0, <1>1, OthersEmptied DEF Emptied
<1>10. FramesDistinct'
  BY <1>2, <1>4, <1>6, <1>7, <1>8 DEF FrameInv, FramesDistinct, SamePlace
<1>11. SlotsCovered'
  <2> SUFFICES ASSUME NEW s \in 0 .. NDisk - 1
               PROVE  \E q \in Pages : ~InFrame(q)' /\ page'[q].virtual_offset = s
    BY DEF SlotsCovered
  <2>1. PICK q \in Pages : ~InFrame(q) /\ page[q].virtual_offset = s
    BY DEF FrameInv, SlotsCovered
  <2> QED  BY <1>2, <1>4, <1>7, <1>8, <2>1 DEF SamePlace
<1>12. SlotsDistinct'
  <2> SUFFICES ASSUME NEW q \in Pages, NEW r \in Pages, q # r, ~InFrame(q)', ~InFrame(r)',
                      page'[q].virtual_offset = page'[r].virtual_offset
               PROVE  \E f \in Evictors : Lends(f, q, r)'
    BY DEF SlotsDistinct
  <2>0. \A f \in Evictors : \A a, b : Lends(f, a, b) => Lends(f, a, b)'
    BY <1>1, <1>9 DEF Lends
  <2>1. q # p /\ r # p
    BY <1>6
  <2>2. CASE q # d /\ r # d
    BY <1>8, <2>0, <2>1, <2>2 DEF FrameInv, SlotsDistinct, SamePlace
  \* Nobody else has the slot of a page that is being read.
  <2>3. ASSUME NEW a \in Pages \ {p, d}, ~InFrame(a)',
               page'[a].virtual_offset = page'[d].virtual_offset
        PROVE  FALSE
    <3>1. ~InFrame(a) /\ page[a].virtual_offset = page[p].virtual_offset
      BY <1>7, <1>8, <2>3 DEF SamePlace
    <3>2. PICK f \in Evictors : Lends(f, a, p)
      BY <1>2, <1>4, <3>1 DEF FrameInv, SlotsDistinct
    <3>3. f # t /\ f \in Executors
      BY <1>9, <3>2 DEF Lends, Evictors, Executors
    <3>4. evict[f].victim = p \/ Holds(f, "dpage", p)
      BY <3>2 DEF Lends, Holds
    <3> QED  BY <1>5, <3>3, <3>4 DEF Apart, Roles
  <2> QED  BY <2>1, <2>2, <2>3
<1>13. ASSUME NEW f \in Evictors PROVE OldOffset(f)'
  <2>1. CASE f = t
    BY <1>1, <1>9, <2>1 DEF OldOffset
  <2>2. CASE f # t
    <3>0. OldOffset(f) /\ pc'[f] = pc[f] /\ evict'[f] = evict[f] /\ (Emptied(f)' <=> Emptied(f))
      BY <1>9, <2>2 DEF FrameInv
    <3>1. ASSUME pc[f] \in {"back", "write", "unmap"}
          PROVE  evict'[f].old_offset = page'[evict'[f].victim].virtual_offset
      <4>1. f \in Executors /\ evict[f] \in EvictLocals /\ EvictorOK(f)
        BY DEF OwnerInv, TypeInv, UseInv, TypeOK, LocalsOK, LocalOK, Evictors, Executors
      <4>2. evict[f].victim \in Pages
        BY <3>1, <4>1 DEF EvictorOK, EvictPcs, EvictLocals
      <4>3. evict[f].victim \notin {p, d}
        BY <1>5, <2>2, <4>1 DEF Apart
      <4> QED  BY <1>8, <3>0, <3>1, <4>2, <4>3 DEF OldOffset, SamePlace
    <3>2. Emptied(f) => \A q \in Pages : InFrame(q)' => page'[q].virtual_offset # evict[f].old_offset
      BY <1>2, <1>4, <1>6, <1>7, <1>8, <3>0 DEF OldOffset, SamePlace
    <3>3. Emptied(f)' => \A g \in Evictors : Emptied(g)' /\ g # f
                                               => evict'[g].old_offset # evict'[f].old_offset
      BY <1>1, <1>9, <3>0 DEF OldOffset
    <3> QED  BY <3>0, <3>1, <3>2, <3>3 DEF OldOffset
  <2> QED  BY <2>1, <2>2
<1> QED  BY <1>10, <1>11, <1>12, <1>13 DEF FrameInv

\* The other steps of a fault handler leave every descriptor where it is.  That
\* a prefetched page is in a frame is known by its window, until in_dram is set.
LEMMA FaultFrameStill ==
    ASSUME OwnerInv, PlaceInv, FrameInv, NEW t \in Threads, failed' = "none",
           FaultStep(t), ~FinishRead(t)
    PROVE  FrameInv'
<1>0. /\ t \in Executors /\ t \in Evictors /\ TypeOK /\ page \in [Pages -> UserPage]
      /\ fault[t] \in FaultLocals /\ ThreadOK(t) /\ EvictorOK(t) /\ FreeOK(t) /\ SettleOK(t)
      /\ fault[t].page \in Pages \cup {0} /\ DpageOK(t) /\ VictimOK(t) /\ evict[t] \in EvictLocals
      /\ fault[t].frees \in Seq(Pages)
  BY ThreadFacts, OwnerWeaker DEF PlaceInv, HeldOK, TypeOK
<1>o. OnlyMoves(t) /\ ~FetchOutOfMemory(t)
  <2>1. ~FetchOutOfMemory(t)
    BY DEF FetchOutOfMemory, Abort
  <2> QED  BY <2>1, FaultStartInv, FetchInv, FirstInv, SwapInInv DEF FaultStep, OwnerInv, TypeInv, StepOK
<1>v. \A f \in Evictors : evict[f].victim # 0 <=> pc[f] \in EvictPcs
  BY DEF OwnerInv, TypeInv, UseInv, LocalsOK, LocalOK, EvictorOK, Evictors, Executors
\* It is enough that nothing moves.
<1>q. ASSUME \A q \in Pages : SamePlace(q) PROVE FrameInv'
  <2>1. /\ pc[t] \in EvictPcs => pc[t] = "release" \/ DiskRead(t)
        /\ pc'[t] \in EvictPcs => DiskRead(t)
    BY <1>0, <1>o DEF FaultStep, uswap_sig_handler, Spin, handle_missing_fault, FetchFree,
         FetchReclaim, FetchRetry, FetchEvicted, FirstAllocate, PutBack, FirstMap, FirstAdd,
         FinishRead, PublishPage, PrefetchResident, Settle, PrefetchFind, Abort, At, Resume,
         ReceiveFrame, EvictPcs, TypeOK
  <2>2. CASE DiskRead(t)
    <3>1. /\ UNCHANGED <<pc, evict>> /\ OldOffset(t)
      BY <1>0, <2>2 DEF DiskRead, FrameInv
    <3>2. evict[t].victim \in Pages \cup {0}
      BY <1>0 DEF EvictLocals
    <3>3. Emptied(t)' <=> Emptied(t)
      BY <3>1 DEF Emptied
    <3>4. pc[t] \in {"back", "write", "unmap"} =>
            /\ evict[t].victim \in Pages
            /\ evict[t].old_offset = page[evict[t].victim].virtual_offset
      BY <1>0, <1>v, <3>1, <3>2 DEF OldOffset, EvictPcs
    <3> QED  BY <1>0, <1>o, <1>q, <1>v, <3>1, <3>3, <3>4, FrameStill
  <2>3. CASE ~DiskRead(t)
    <3>1. /\ ~Emptied(t) /\ ~Emptied(t)' /\ pc'[t] \notin {"back", "write", "unmap"}
      BY <2>1, <2>3 DEF Emptied, EvictPcs
    <3> QED  BY <1>0, <1>o, <1>q, <1>v, <3>1, FrameStill
  <2> QED  BY <2>2, <2>3
<1>w. ASSUME \A q \in Pages : /\ page'[q].in_dram <=> page[q].in_dram
                              /\ page'[q].virtual_offset = page[q].virtual_offset
                              /\ Windows(t, q)' <=> Windows(t, q)
      PROVE  FrameInv'
  <2>1. \A q \in Pages : SamePlace(q)
    BY <1>0, <1>o, <1>w, SamePlaces
  <2> QED  BY <1>q, <2>1
<1>1. CASE DiskRead(t)
  <2>1. /\ page' = page /\ UNCHANGED pc
        /\ fault'[t].page = fault[t].page /\ fault'[t].job = fault[t].job
    BY <1>0, <1>1 DEF DiskRead, sharedVars, TypeOK, FaultLocals
  <2> QED  BY <1>w, <2>1 DEF Windows
<1>2. CASE \/ uswap_sig_handler(t) \/ Spin(t) \/ handle_missing_fault(t) \/ FetchFree(t)
           \/ FetchReclaim(t) \/ FetchRetry(t) \/ FetchEvicted(t) \/ FirstAllocate(t)
           \/ PutBack(t) \/ FirstMap(t) \/ FirstAdd(t) \/ PrefetchFind(t)
  <2>1. pc[t] \notin {"publish", "resident"} /\ pc'[t] \notin {"publish", "resident"}
    BY <1>0, <1>2 DEF uswap_sig_handler, Spin, handle_missing_fault, FetchFree,
         FetchReclaim, FetchRetry, FetchEvicted, FirstAllocate, PutBack, FirstMap, FirstAdd,
         PrefetchFind, Abort, At, Resume, ReceiveFrame, TypeOK
  <2>2. \A q \in Pages : /\ page'[q].in_dram <=> page[q].in_dram
                         /\ page'[q].virtual_offset = page[q].virtual_offset
    <3>1. CASE uswap_sig_handler(t) \/ Spin(t) \/ FetchReclaim(t) \/ FetchRetry(t)
      BY <3>1 DEF uswap_sig_handler, Spin, FetchReclaim, FetchRetry, sharedVars
    <3>2. CASE handle_missing_fault(t) \/ PrefetchFind(t)
      <4>1. page' = page \/ \E p : page' = ClaimPage(p)
        BY <3>2 DEF handle_missing_fault, PrefetchFind, Abort, sharedVars
      <4>2. ASSUME NEW p, page' = ClaimPage(p), NEW q \in Pages
            PROVE  /\ page'[q].in_dram <=> page[q].in_dram
                   /\ page'[q].virtual_offset = page[q].virtual_offset
        <5>1. \/ page'[q] = page[q]
              \/ page'[q] = [page[q] EXCEPT !.migrating = TRUE, !.list = "none"]
          BY <1>0, <4>2 DEF ClaimPage
        <5> QED  BY <1>0, <5>1 DEF UserPage
      <4> QED  BY <4>1, <4>2
    <3>3. CASE FetchFree(t)
      <4>1. \E d : page' = [page EXCEPT ![d] = [FramePage(t, page[d]) EXCEPT !.list = "none"]]
        BY <3>3 DEF FetchFree
      <4> QED  BY <1>0, <4>1 DEF FramePage, UserPage
    <3>4. CASE FetchEvicted(t)
      <4>p. PICK p, d : p = evict[t].victim /\ d = evict[t].dpage
        OBVIOUS
      <4>1. page' = [page EXCEPT ![p].migrating = FALSE, ![d] = FramePage(t, page[d])]
            /\ pc[t] = "release"
        BY <3>4, <4>p DEF FetchEvicted, Abort, Victim, DiskPage, At
      <4>2. p \in Pages /\ d \in Pages /\ p # d
        BY <1>0, <4>p, <4>1, SizeAssumption
           DEF EvictorOK, EvictLocals, EvictPcs, DpageOK, FrameDesc, VictimOK, OnDisk, Mapped, VA
      <4>3. /\ page'[d] = FramePage(t, page[d])
            /\ page'[p] = [page[p] EXCEPT !.migrating = FALSE]
            /\ \A q \in Pages \ {p, d} : page'[q] = page[q]
        BY <1>0, <4>1, <4>2
      <4> QED  BY <1>0, <4>2, <4>3 DEF FramePage, UserPage
    <3>5. CASE FirstAllocate(t)
      <4>1. \/ page' = page
            \/ \E n, v : page' = [page EXCEPT ![n].migrating = TRUE, ![n].swapped_out = FALSE,
                                              ![n].va = v]
        BY <3>5 DEF FirstAllocate, Abort, sharedVars
      <4>2. CASE page' = page
        BY <4>2
      <4>3. CASE page' # page
        <5>1. PICK n, v : page' = [page EXCEPT ![n].migrating = TRUE, ![n].swapped_out = FALSE,
                                               ![n].va = v]
          BY <4>1, <4>3
        <5> SUFFICES ASSUME NEW q \in Pages
                     PROVE  /\ page'[q].in_dram <=> page[q].in_dram
                            /\ page'[q].virtual_offset = page[q].virtual_offset
          OBVIOUS
        <5>2. \/ page'[q] = page[q]
              \/ page'[q] = [page[q] EXCEPT !.migrating = TRUE, !.swapped_out = FALSE, !.va = v]
          BY <1>0, <5>1
        <5> QED  BY <1>0, <5>2 DEF UserPage
      <4> QED  BY <4>2, <4>3
    <3>6. CASE PutBack(t) \/ FirstAdd(t)
      <4>1. \E n, l : page' = [page EXCEPT ![n].list = l]
        BY <3>6 DEF PutBack, FirstAdd, Abort
      <4> QED  BY <1>0, <4>1 DEF UserPage
    <3>7. CASE FirstMap(t)
      <4>1. \E n : page' = [page EXCEPT ![n].migrating = FALSE, ![n].swapped_out = FALSE]
        BY <3>7 DEF FirstMap, Abort
      <4> QED  BY <1>0, <4>1 DEF UserPage
    <3> QED  BY <1>2, <3>1, <3>2, <3>3, <3>4, <3>5, <3>6, <3>7
  <2> QED  BY <1>w, <2>1, <2>2, EvictorWindow
<1>3. CASE PublishPage(t)
  <2>1. /\ \E p : page' = [page EXCEPT ![p].list = "inactive"]
        /\ pc[t] = "publish" /\ fault' = fault
        /\ pc'[t] = IF fault[t].job = "swapin" THEN "settle" ELSE "resident"
    BY <1>0, <1>3 DEF PublishPage, At, TypeOK
  <2>2. \A q \in Pages : Windows(t, q)' <=> Windows(t, q)
    BY <2>1 DEF Windows
  <2>3. \A q \in Pages : /\ page'[q].in_dram <=> page[q].in_dram
                         /\ page'[q].virtual_offset = page[q].virtual_offset
    BY <1>0, <2>1 DEF UserPage
  <2> QED  BY <1>w, <2>2, <2>3
<1>4. CASE Settle(t)
  <2>1. /\ \E p : page' = [page EXCEPT ![p].swapped_out = FALSE, ![p].migrating = FALSE]
        /\ pc[t] = "settle" /\ pc'[t] \in {"idle", "find", "finish"}
    BY <1>0, <1>4 DEF Settle, Resume, At, TypeOK
  <2>2. \A q \in Pages : /\ page'[q].in_dram <=> page[q].in_dram
                         /\ page'[q].virtual_offset = page[q].virtual_offset
    BY <1>0, <2>1 DEF UserPage
  <2> QED  BY <1>w, <2>1, <2>2, EvictorWindow
<1>5. CASE PrefetchResident(t)
  <2>p. PICK p : p = fault[t].page
    OBVIOUS
  <2>1. /\ page' = [page EXCEPT ![p].in_dram = TRUE]
        /\ pc[t] = "resident" /\ pc'[t] = "settle" /\ fault' = fault
    BY <1>0, <1>5, <2>p DEF PrefetchResident, At, TypeOK
  <2>2. p \in Pages /\ Windows(t, p)
    BY <1>0, <2>p, <2>1 DEF ThreadOK, SettlePcs, SettleOK, Windows
  <2>3. SamePlace(p)
    <3>1. InFrame(p) /\ InFrame(p)'
      BY <1>0, <2>1, <2>2 DEF InFrame, InPrefetchWindow, Windows
    <3>2. page'[p].virtual_offset = page[p].virtual_offset
      BY <1>0, <2>1, <2>2 DEF UserPage
    <3> QED  BY <3>1, <3>2 DEF SamePlace
  <2>4. \A q \in Pages \ {p} : SamePlace(q)
    <3> SUFFICES ASSUME NEW q \in Pages \ {p} PROVE SamePlace(q)
      OBVIOUS
    <3>1. page'[q] = page[q] /\ ~Windows(t, q) /\ ~Windows(t, q)'
      BY <1>0, <2>1, <2>p DEF Windows
    <3> QED  BY <1>0, <1>o, <3>1, SamePlaces
  <2> QED  BY <1>q, <2>3, <2>4
<1> QED  BY <1>o, <1>1, <1>2, <1>3, <1>4, <1>5 DEF FaultStep

-----------------------------------------------------------------------------
(* The whole.                                                               *)

\* lrudisk_init gives every frame and every slot a descriptor of its own.
LEMMA InitFrame == Init => FrameInv
<1> SUFFICES ASSUME Init PROVE FrameInv
  OBVIOUS
<1> USE SizeAssumption DEF Init, InitPages
<1>1. \A p \in Pages : /\ InFrame(p) <=> p <= NDram
                       /\ p <= NDram => page[p].virtual_offset = p - 1
                       /\ p > NDram => page[p].virtual_offset = p - NDram - 1
  <2> SUFFICES ASSUME NEW p \in Pages
               PROVE  /\ InFrame(p) <=> p <= NDram
                      /\ p <= NDram => page[p].virtual_offset = p - 1
                      /\ p > NDram => page[p].virtual_offset = p - NDram - 1
    OBVIOUS
  <2>1. page[p] = InitPage(p) /\ p \in Nat
    BY DEF Pages
  <2>2. ~InPrefetchWindow(p)
    BY DEF InPrefetchWindow, Executors
  <2>3. p > NDram => ~(p <= NDram)
    BY <2>1
  <2> QED  BY <2>1, <2>2, <2>3 DEF InFrame, InitPage
<1>2. \A e \in Evictors : pc[e] = "idle"
  BY DEF Evictors, Executors
<1>3. FramesDistinct
  <2> SUFFICES ASSUME NEW p \in Pages, NEW q \in Pages, InFrame(p), InFrame(q),
                      page[p].virtual_offset = page[q].virtual_offset
               PROVE  p = q
    BY DEF FramesDistinct
  <2>1. p - 1 = q - 1 /\ p \in Nat /\ q \in Nat
    BY <1>1 DEF Pages
  <2> QED  BY <2>1
<1>4. SlotsDistinct
  <2> SUFFICES ASSUME NEW p \in Pages, NEW q \in Pages, ~InFrame(p), ~InFrame(q),
                      page[p].virtual_offset = page[q].virtual_offset
               PROVE  p = q
    BY DEF SlotsDistinct
  <2>1. p \in Nat /\ q \in Nat /\ p > NDram /\ q > NDram
    BY <1>1 DEF Pages
  <2>2. p - NDram - 1 = q - NDram - 1
    BY <1>1, <2>1
  <2> QED  BY <2>1, <2>2
<1>5. SlotsCovered
  <2> SUFFICES ASSUME NEW s \in 0 .. NDisk - 1
               PROVE  \E p \in Pages : ~InFrame(p) /\ page[p].virtual_offset = s
    BY DEF SlotsCovered
  <2>1. PICK p : p = NDram + s + 1
    OBVIOUS
  <2>2. p \in Pages /\ p > NDram /\ ~(p <= NDram) /\ p - NDram - 1 = s
    BY <2>1 DEF Pages
  <2> QED  BY <1>1, <2>2
<1> QED  BY <1>2, <1>3, <1>4, <1>5 DEF FrameInv, OldOffset, Emptied

\* Every step keeps it.
LEMMA NextFrame == AllInv /\ AllInv' /\ FrameInv /\ [Next]_vars => FrameInv'
<1> SUFFICES ASSUME OwnerInv, PlaceInv, PlaceInv', FrameInv, [Next]_vars PROVE FrameInv'
  BY DEF AllInv
<1>e. /\ Threads \subseteq Evictors /\ Workers \subseteq Evictors
      /\ Threads \subseteq Scanners /\ Kswapd \subseteq Scanners
  BY DEF Evictors, Scanners
<1>v. \A f \in Evictors : evict[f].victim # 0 <=> pc[f] \in EvictPcs
  BY DEF OwnerInv, TypeInv, UseInv, LocalsOK, LocalOK, EvictorOK, Evictors, Executors
<1>y. TypeOK /\ page \in [Pages -> UserPage]
  BY DEF OwnerInv, TypeInv, UseInv, TypeOK
\* A step that leaves evictions and descriptors alone, but for a list.
<1>s. ASSUME NEW x \in Executors, OnlyMoves(x), UNCHANGED evict,
             \A q \in Pages : /\ page'[q].in_dram <=> page[q].in_dram
                              /\ page'[q].virtual_offset = page[q].virtual_offset,
             pc[x] \notin {"publish", "resident"} \cup EvictPcs,
             pc'[x] \notin {"publish", "resident"} \cup EvictPcs
      PROVE  FrameInv'
  <2>1. \A q \in Pages : SamePlace(q)
    BY <1>s, EvictorWindow, SamePlaces
  <2>2. ~Emptied(x) /\ ~Emptied(x)' /\ pc'[x] \notin {"back", "write", "unmap"}
    BY <1>s DEF Emptied, EvictPcs
  <2> QED  BY <1>s, <1>v, <1>y, <2>1, <2>2, FrameStill
<1>1. CASE UNCHANGED vars \/ Crash
  <2>1. UNCHANGED <<page, pc, fault, evict>>
    BY <1>1 DEF vars, Crash, sharedVars
  <2>2. \A p : InFrame(p)' <=> InFrame(p)
    BY <2>1 DEF InFrame, InPrefetchWindow
  <2>3. \A f : Emptied(f)' <=> Emptied(f)
    BY <2>1 DEF Emptied
  <2>4. /\ \A f, p, q : Lends(f, p, q)' <=> Lends(f, p, q)
        /\ \A f \in Evictors : OldOffset(f)' <=> OldOffset(f)
    BY <2>1, <2>2, <2>3 DEF Lends, OldOffset
  <2> QED  BY <2>1, <2>2, <2>4 DEF FrameInv, FramesDistinct, SlotsDistinct, SlotsCovered
<1>2. ASSUME NEW t \in Threads, Application(t) PROVE FrameInv'
  <2>1. t \in Executors /\ OnlyMoves(t)
    BY <1>2, ApplicationInv, ThreadFacts, OwnerWeaker DEF OwnerInv, TypeInv, StepOK
  <2>2. /\ page' = page /\ UNCHANGED evict /\ pc[t] = "idle" /\ pc'[t] \in {"idle", "signal"}
    BY <1>2, <1>y, <2>1 DEF Application, Touch, Store, At, sharedVars, TypeOK
  <2> QED  BY <1>s, <2>1, <2>2 DEF EvictPcs
<1>3. ASSUME NEW e \in Scanners, ScanStep(e) PROVE FrameInv'
  <2>1. e \in Executors /\ OnlyMoves(e)
    BY <1>3, ScanInv DEF OwnerInv, TypeInv, StepOK, Scanners, Executors
  <2>2. /\ UNCHANGED evict
        /\ pc[e] \in {"idle", "reclaim"} \cup ScanPcs
        /\ pc'[e] \in {"idle", "reclaim"} \cup ScanPcs
        /\ \E p, l : page' = [page EXCEPT ![p].list = l]
    BY <1>3, <1>y, <2>1 DEF ScanStep, ScanInactive, ScanActive, KeepOrEvict, Deactivate, ScanTake,
         ScanPut, ScanPoint, At, ScanPcs, TypeOK
  <2>3. \A q \in Pages : /\ page'[q].in_dram <=> page[q].in_dram
                         /\ page'[q].virtual_offset = page[q].virtual_offset
    BY <1>y, <2>2 DEF UserPage
  <2> QED  BY <1>s, <2>1, <2>2, <2>3 DEF EvictPcs, ScanPcs
<1>4. ASSUME NEW e \in Evictors, EvictStep(e), failed' = "none" PROVE FrameInv'
  BY <1>4, EvictFrameStill, UnmapFrame, HandOnFrame DEF EvictStep, Evictors
<1>5. ASSUME NEW t \in Threads, ThreadStep(t), ~Crash PROVE FrameInv'
  <2>1. FaultStep(t) \/ EvictStep(t) => failed' = "none"
    BY <1>5, AbortCrashes
  <2> QED  BY <1>e, <1>3, <1>4, <1>5, <2>1, FaultFrameStill, FinishFrame DEF ThreadStep
<1>6. ASSUME NEW w \in Workers, WorkerStep(w), ~Crash PROVE FrameInv'
  <2>1. failed' = "none"
    BY <1>6, AbortCrashes
  <2> QED  BY <1>e, <1>4, <1>6, <2>1, EvictFrameStill DEF WorkerStep
<1> QED  BY <1>e, <1>1, <1>2, <1>3, <1>5, <1>6 DEF Next, Aborted

\* The invariant and what it needs, together.
FullInv == AllInv /\ FrameInv

\* They hold at the start,
LEMMA InitFull == Init => FullInv
  BY InitAll, InitFrame DEF FullInv

\* and every step keeps them.
LEMMA NextFull == FullInv /\ [Next]_vars => FullInv'
  BY NextAll, NextFrame DEF FullInv

\* No frame and no disk slot is ever given to two pages: two descriptors name
\* one place only while an evictor's slot is lent to its victim, and a frame
\* that a victim left is nobody's until its evictor hands it on.
THEOREM SlotsExclusiveHolds == Spec => []SlotsExclusive
<1>1. FullInv => SlotsExclusive
  <2> SUFFICES ASSUME FullInv PROVE SlotsExclusive
    OBVIOUS
  <2>0. OwnerInv /\ PlaceInv /\ FrameInv /\ page \in [Pages -> UserPage]
    BY DEF FullInv, AllInv, OwnerInv, TypeInv, UseInv, TypeOK
  <2>1. ASSUME NEW p \in Pages, NEW q \in Pages, p # q,
               page[p].in_dram = page[q].in_dram,
               page[p].virtual_offset = page[q].virtual_offset,
               ~InPrefetchWindow(p), ~InPrefetchWindow(q)
        PROVE  \E e \in Evictors : {p, q} = {evict[e].victim, evict[e].dpage}
    <3>1. ~InFrame(p) /\ ~InFrame(q)
      BY <2>0, <2>1 DEF FrameInv, FramesDistinct, InFrame, UserPage
    <3> QED  BY <2>0, <2>1, <3>1 DEF FrameInv, SlotsDistinct, Lends
  <2>2. ASSUME NEW e \in Evictors, NEW p \in Pages, evict[e].dpage # 0,
               ~page[evict[e].dpage].in_dram, page[p].in_dram,
               page[p].virtual_offset = evict[e].old_offset
        PROVE  p = evict[e].victim
    <3>1. /\ EvictorOK(e) /\ VictimOK(e) /\ DpageOK(e) /\ OldOffset(e)
          /\ evict[e] \in EvictLocals
      BY <2>0 DEF OwnerInv, TypeInv, UseInv, TypeOK, LocalsOK, LocalOK, PlaceInv, HeldOK, FrameInv,
                  Evictors, Executors
    <3>2. InFrame(p)
      BY <2>2 DEF InFrame
    <3>3. pc[e] # "release"
      BY <2>2, <3>1 DEF DpageOK, FrameDesc
    <3>4. ~Emptied(e)
      BY <2>2, <3>1, <3>2 DEF OldOffset
    <3>5. pc[e] \in {"write", "unmap"}
      BY <2>2, <3>1, <3>3, <3>4 DEF EvictorOK, Emptied
    <3>6. evict[e].victim \in Pages /\ InFrame(evict[e].victim)
          /\ page[evict[e].victim].virtual_offset = evict[e].old_offset
      BY <3>1, <3>5 DEF EvictorOK, EvictPcs, EvictLocals, VictimOK, Resident, InFrame, OldOffset
    <3> QED  BY <2>0, <2>2, <3>2, <3>6 DEF FrameInv, FramesDistinct
  <2> QED  BY <2>1, <2>2 DEF SlotsExclusive
<1> QED  BY <1>1, InitFull, NextFull, PTL DEF Spec

-----------------------------------------------------------------------------
(* The DRAM budget.                                                         *)

\* What is mapped is mapped to a frame.
LEMMA PresentResident ==
    ASSUME OwnerInv, PlaceInv, NEW v \in VA, pte[v].present
    PROVE  /\ pages[v] \in Pages /\ page[pages[v]].va = v /\ Resident(pages[v])
<1>p. PICK p : p = pages[v]
  OBVIOUS
<1>1. p \in Pages /\ page[p].va = v /\ Mapped(p) /\ Present(p)
  BY <1>p DEF PlaceInv, PresentHashed, OwnerInv, TypeInv, UseInv, TypeOK, HashOK, Mapped, Present
<1>2. page[p].va # 0 /\ page[p].list \in Lists /\ ListOK(p) /\ ~OnDisk(p)
  BY <1>1, SizeAssumption DEF VA, OwnerInv, TypeInv, UseInv, TypeOK, UserPage, PlaceInv, OnDisk
<1>3. CASE page[p].list # "none"
  BY <1>2, <1>3, <1>1, <1>p DEF ListOK, Lists, Queues, FrameDesc, SlotDesc, SwappedOut
<1>4. CASE page[p].list = "none"
  <2>1. PICK e \in Executors, r \in Roles : Holds(e, r, p)
    BY <1>1, <1>4 DEF OwnerInv, Ownership
  <2>2. HeldOK(e) /\ LocalOK(e) /\ p # 0
    BY <1>1 DEF PlaceInv, OwnerInv, TypeInv, UseInv, LocalsOK, Pages
  <2>3. CASE r = "victim"
    BY <1>1, <1>2, <1>p, <2>1, <2>2, <2>3 DEF Holds, HoldsVictim, HeldOK, VictimOK
  <2>4. CASE r = "dpage"
    BY <1>2, <2>1, <2>2, <2>4 DEF Holds, HeldOK, DpageOK, SlotDesc, FrameDesc
  <2>5. CASE r = "scan"
    BY <1>1, <1>p, <2>1, <2>2, <2>5 DEF Holds, HeldOK, ScanOK
  <2>6. CASE r = "read"
    BY <1>2, <2>1, <2>2, <2>6 DEF Holds, HeldOK, ReadOK, SwappedOut
  <2>7. CASE r = "free"
    <3>1. e \in Threads /\ FreeOK(e) /\ ThreadOK(e) /\ fault[e].frees \in Seq(Pages)
      BY <2>1, <2>2, <2>7, ThreadFacts, OwnerWeaker DEF Holds, HeldOK, LocalOK
    <3>2. PICK i \in DOMAIN fault[e].frees : p = fault[e].frees[i]
      BY <2>1, <2>7 DEF Holds
    <3>3. CASE pc[e] \notin {"map", "add"}
      BY <1>2, <3>1, <3>2, <3>3 DEF FreeOK, FrameDesc
    <3>4. CASE pc[e] \in {"map", "add"}
      <4>1. i = 1
        BY <3>1, <3>2, <3>4 DEF ThreadOK, FirstPcs
      <4> QED  BY <1>1, <1>p, <3>1, <3>2, <3>4, <4>1 DEF FreeOK
    <3> QED  BY <3>3, <3>4
  <2>8. CASE r = "page"
    BY <1>1, <1>p, <2>1, <2>2, <2>8 DEF Holds, HeldOK, SettleOK, SettlePcs
  <2> QED  BY <2>3, <2>4, <2>5, <2>6, <2>7, <2>8 DEF Roles
<1> QED  BY <1>3, <1>4

\* Two disjoint one-to-one maps into n places.
LEMMA TwoInjections ==
    ASSUME NEW n \in Nat, NEW m \in Nat, NEW S, NEW f \in [S -> 0 .. n - 1],
           NEW g \in [1 .. m -> 0 .. n - 1],
           \A a, b \in S : f[a] = f[b] => a = b,
           \A i, j \in 1 .. m : g[i] = g[j] => i = j,
           \A a \in S, i \in 1 .. m : f[a] # g[i]
    PROVE  IsFiniteSet(S) /\ Cardinality(S) + m <= n
<1>f. PICK F : F = {f[a] : a \in S}
  OBVIOUS
<1>g. PICK G : G = {g[i] : i \in 1 .. m}
  OBVIOUS
<1>1. IsFiniteSet(0 .. n - 1) /\ Cardinality(0 .. n - 1) = n
  BY FS_Interval
<1>2. F \in SUBSET (0 .. n - 1) /\ G \in SUBSET (0 .. n - 1) /\ F \cap G = {}
      /\ F \cup G \in SUBSET (0 .. n - 1)
  BY <1>f, <1>g
<1>3. IsFiniteSet(F) /\ IsFiniteSet(G)
  BY <1>1, <1>2, FS_Subset
<1>u. PICK U : U = F \cup G
  OBVIOUS
<1>4. IsFiniteSet(S) /\ Cardinality(S) <= Cardinality(F)
  <2>1. f \in [S -> F] /\ DOMAIN f = S
    BY <1>f
  <2>2. f \in Injection(S, F)
    BY <2>1 DEF Injection, IsInjective
  <2> QED  BY <1>3, <2>2, FS_Injection
<1>5. m <= Cardinality(G)
  <2>1. g \in [1 .. m -> G] /\ DOMAIN g = 1 .. m
    BY <1>g
  <2>2. g \in Injection(1 .. m, G)
    BY <2>1 DEF Injection, IsInjective
  <2>3. Cardinality(1 .. m) = m
    BY FS_Interval
  <2>4. Cardinality(1 .. m) <= Cardinality(G)
    BY <1>3, <2>2, FS_Injection
  <2> QED  BY <2>3, <2>4
<1>6. Cardinality(U) = Cardinality(F) + Cardinality(G)
  <2>1. Cardinality({}) = 0
    BY FS_EmptySet
  <2>2. Cardinality(F) \in Nat /\ Cardinality(G) \in Nat
    BY <1>3, FS_CardinalityType
  <2>3. Cardinality(F \cup G) = Cardinality(F) + Cardinality(G) - Cardinality(F \cap G)
    BY <1>3, FS_Union
  <2>4. Cardinality(F \cap G) = 0
    BY <1>2, <2>1
  <2>5. Cardinality(U) = Cardinality(F \cup G)
    BY <1>u
  <2> QED  BY <2>2, <2>3, <2>4, <2>5
<1>7. Cardinality(U) <= n
  <2>1. U \in SUBSET (0 .. n - 1)
    BY <1>2, <1>u
  <2>2. Cardinality(U) <= Cardinality(0 .. n - 1)
    BY <1>1, <2>1, FS_Subset
  <2> QED  BY <1>1, <2>2
<1>8. Cardinality(F) \in Nat /\ Cardinality(G) \in Nat /\ Cardinality(S) \in Nat
  BY <1>3, <1>4, FS_CardinalityType
<1> QED  BY <1>4, <1>5, <1>6, <1>7, <1>8

\* The application never has more resident pages than the policy has frames,
\* counting the free ones, however many evictions and swap-ins overlap: a frame
\* is handed out only after the page in it was unmapped.
THEOREM DramBudgetHolds == Spec => []DramBudget
<1>1. FullInv => DramBudget
  <2> SUFFICES ASSUME FullInv PROVE DramBudget
    OBVIOUS
  <2>0. /\ OwnerInv /\ PlaceInv /\ FrameInv /\ page \in [Pages -> UserPage] /\ QueuesMatch
        /\ fifo["dram_free"] \in Seq(Pages)
    BY DEF FullInv, AllInv, OwnerInv, TypeInv, UseInv, TypeOK, Queues
  <2>s. PICK S : S = {v \in VA : pte[v].present}
    OBVIOUS
  <2>m. PICK q, m : q = fifo["dram_free"] /\ m = Len(q)
    OBVIOUS
  <2>1. m \in Nat /\ DOMAIN q = 1 .. m /\ NDram \in Nat
    BY <2>0, <2>m, SizeAssumption
  \* A resident page is in a frame of its own.
  <2>2. \A v \in S : LET p == pages[v]
                     IN  /\ p \in Pages /\ page[p].va = v /\ InFrame(p)
                         /\ page[p].virtual_offset \in 0 .. NDram - 1
    <3> SUFFICES ASSUME NEW v \in S
                 PROVE  LET p == pages[v]
                        IN  /\ p \in Pages /\ page[p].va = v /\ InFrame(p)
                            /\ page[p].virtual_offset \in 0 .. NDram - 1
      OBVIOUS
    <3>p. PICK p : p = pages[v]
      OBVIOUS
    <3>1. p \in Pages /\ page[p].va = v /\ Resident(p)
      BY <2>0, <2>s, <3>p, PresentResident
    <3>2. InFrame(p) /\ page[p].virtual_offset < NDram /\ page[p].virtual_offset \in Offsets
      BY <2>0, <3>1 DEF Resident, InFrame, InDram, UserPage
    <3>3. page[p].virtual_offset \in 0 .. NDram - 1
      BY <3>2, SizeAssumption DEF Offsets
    <3> QED  BY <3>p, <3>1, <3>2, <3>3
  \* So is a free frame.
  <2>3. \A i \in 1 .. m : /\ q[i] \in Pages /\ page[q[i]].va = 0 /\ InFrame(q[i])
                          /\ page[q[i]].virtual_offset \in 0 .. NDram - 1
    <3> SUFFICES ASSUME NEW i \in 1 .. m
                 PROVE  /\ q[i] \in Pages /\ page[q[i]].va = 0 /\ InFrame(q[i])
                        /\ page[q[i]].virtual_offset \in 0 .. NDram - 1
      OBVIOUS
    <3>1. q[i] \in Pages
      BY <2>0, <2>m, <2>1
    <3>2. page[q[i]].list = "dram_free"
      BY <2>0, <2>m, <2>1, <3>1 DEF QueuesMatch, Queues
    <3>3. FrameDesc(page[q[i]])
      BY <2>0, <3>1, <3>2 DEF PlaceInv, ListOK
    <3>4. page[q[i]].virtual_offset \in Offsets
      BY <2>0, <3>1 DEF UserPage
    <3>5. page[q[i]].virtual_offset \in 0 .. NDram - 1
      BY <3>3, <3>4, SizeAssumption DEF FrameDesc, InDram, Offsets
    <3> QED  BY <3>1, <3>3, <3>5 DEF FrameDesc, InFrame
  <2>f. PICK f : f = [v \in S |-> page[pages[v]].virtual_offset]
    OBVIOUS
  <2>g. PICK g : g = [i \in 1 .. m |-> page[q[i]].virtual_offset]
    OBVIOUS
  <2>4. f \in [S -> 0 .. NDram - 1] /\ g \in [1 .. m -> 0 .. NDram - 1]
    BY <2>2, <2>3, <2>f, <2>g
  <2>5. \A a, b \in S : f[a] = f[b] => a = b
    BY <2>0, <2>2, <2>f DEF FrameInv, FramesDistinct
  <2>6. \A i, j \in 1 .. m : g[i] = g[j] => i = j
    <3>1. \A i, j \in 1 .. m : q[i] = q[j] => i = j
      BY <2>0, <2>m, <2>1 DEF QueuesMatch, Queues
    <3>2. \A i, j \in 1 .. m : g[i] = g[j] => q[i] = q[j]
      BY <2>0, <2>3, <2>g DEF FrameInv, FramesDistinct
    <3> QED  BY <3>1, <3>2
  <2>7. \A a \in S, i \in 1 .. m : f[a] # g[i]
    <3> SUFFICES ASSUME NEW a \in S, NEW i \in 1 .. m PROVE f[a] # g[i]
      OBVIOUS
    <3>1. a # 0
      BY <2>s, SizeAssumption DEF VA
    <3>2. pages[a] # q[i]
      BY <2>2, <2>3, <3>1
    <3> QED  BY <2>0, <2>2, <2>3, <2>f, <2>g, <3>2 DEF FrameInv, FramesDistinct
  <2>8. Cardinality(S) + m <= NDram
    BY <2>1, <2>4, <2>5, <2>6, <2>7, TwoInjections
  <2> QED  BY <2>8, <2>m, <2>s DEF DramBudget
<1> QED  BY <1>1, InitFull, NextFull, PTL DEF Spec

-----------------------------------------------------------------------------
(* Room on the swap device.                                                 *)

\* Slot s is kept for the mapped page p: p lies in it, or in the slot of p's
\* reserve, or an evictor of p has taken a descriptor of it.
Keeps(p, s) ==
    /\ p \in Pages /\ Mapped(p)
    /\ \/ OnDisk(p) /\ page[p].virtual_offset = s
       \/ page[p].reserve # 0 /\ page[page[p].reserve].virtual_offset = s
       \/ \E e \in Evictors : /\ evict[e].victim = p /\ evict[e].dpage # 0
                              /\ pc[e] # "release"
                              /\ page[evict[e].dpage].virtual_offset = s

\* A page that an evictor has unmapped lies in the slot of its reserve.
LEMMA OnDiskReserve ==
    ASSUME OwnerInv, PlaceInv, NEW p \in Pages, OnDisk(p), page[p].reserve # 0
    PROVE  page[p].virtual_offset = page[page[p].reserve].virtual_offset
<1>0. /\ ListOK(p) /\ page[p].va # 0 /\ page[p].list \in Lists /\ ~Resident(p)
      /\ ~SwappedOut(p)
  BY SizeAssumption DEF OnDisk, Resident, Mapped, VA, OwnerInv, TypeInv, UseInv, TypeOK, UserPage,
                        PlaceInv, SwappedOut
<1>1. page[p].list = "none"
  BY <1>0 DEF ListOK, Lists, Queues, FrameDesc, SlotDesc
<1>2. PICK e \in Executors, r \in Roles : Holds(e, r, p)
  BY <1>1 DEF OwnerInv, Ownership
<1>3. HeldOK(e) /\ LocalOK(e) /\ p # 0
  BY DEF PlaceInv, OwnerInv, TypeInv, UseInv, LocalsOK, Pages
<1>4. CASE r = "victim"
  <2>1. /\ e \in Evictors /\ VictimOK(e) /\ DpageOK(e) /\ EvictorOK(e) /\ evict[e].victim = p
        /\ HoldsVictim(e)
    BY <1>2, <1>3, <1>4 DEF Holds, HeldOK, LocalOK
  <2>2. pc[e] \in {"mark", "track", "free_frame"}
    BY <1>0, <2>1 DEF HoldsVictim, VictimOK
  <2>3. evict[e].dpage # 0
    BY <2>1, <2>2 DEF DpageOK, EvictorOK
  <2>4. page[p].reserve = evict[e].dpage
    BY <2>1, <2>2, <2>3 DEF DpageOK
  <2> QED  BY <2>1, <2>2, <2>3, <2>4 DEF DpageOK
<1>5. CASE r = "dpage"
  BY <1>0, <1>2, <1>3, <1>5 DEF Holds, HeldOK, DpageOK, SlotDesc, FrameDesc
<1>6. CASE r = "scan"
  BY <1>0, <1>2, <1>3, <1>6 DEF Holds, HeldOK, ScanOK
<1>7. CASE r = "read"
  BY <1>0, <1>2, <1>3, <1>7 DEF Holds, HeldOK, ReadOK
<1>8. CASE r = "free"
  <2>1. e \in Threads /\ FreeOK(e) /\ ThreadOK(e) /\ fault[e].frees \in Seq(Pages)
    BY <1>2, <1>3, <1>8, ThreadFacts, OwnerWeaker DEF Holds, HeldOK, LocalOK
  <2>2. PICK i \in DOMAIN fault[e].frees : p = fault[e].frees[i]
    BY <1>2, <1>8 DEF Holds
  <2>3. CASE pc[e] \notin {"map", "add"}
    BY <1>0, <2>1, <2>2, <2>3 DEF FreeOK, FrameDesc
  <2>4. CASE pc[e] \in {"map", "add"}
    <3>1. i = 1
      BY <2>1, <2>2, <2>4 DEF ThreadOK, FirstPcs
    <3> QED  BY <2>1, <2>2, <2>4, <3>1 DEF FreeOK
  <2> QED  BY <2>3, <2>4
<1>9. CASE r = "page"
  BY <1>0, <1>2, <1>3, <1>9 DEF Holds, HeldOK, SettleOK, SettlePcs
<1> QED  BY <1>2, <1>4, <1>5, <1>6, <1>7, <1>8, <1>9 DEF Roles

\* At most one slot is kept for a page.
LEMMA KeepsOnce ==
    ASSUME OwnerInv, PlaceInv, NEW p, NEW s, NEW u, Keeps(p, s), Keeps(p, u)
    PROVE  s = u
<1>0. p \in Pages /\ Mapped(p) /\ p # 0
  BY DEF Keeps, Pages
\* The evictor's descriptor agrees with the other two.
<1>1. ASSUME NEW e \in Evictors, evict[e].victim = p, evict[e].dpage # 0, pc[e] # "release"
      PROVE  /\ OnDisk(p) => page[p].virtual_offset = page[evict[e].dpage].virtual_offset
             /\ page[p].reserve # 0 => page[p].reserve = evict[e].dpage
  <2>1. VictimOK(e) /\ DpageOK(e) /\ EvictorOK(e) /\ e \in Executors
    BY DEF PlaceInv, HeldOK, OwnerInv, TypeInv, UseInv, LocalsOK, LocalOK, Evictors, Executors
  <2>2. OnDisk(p) => pc[e] \notin {"write", "unmap"}
    BY <1>1, <2>1 DEF VictimOK, Resident, OnDisk
  <2>3. OnDisk(p) => pc[e] \in {"mark", "track", "free_frame"}
    BY <1>1, <2>1, <2>2 DEF EvictorOK
  <2> QED  BY <1>1, <2>1, <2>3 DEF DpageOK
<1>2. OnDisk(p) /\ page[p].reserve # 0
        => page[p].virtual_offset = page[page[p].reserve].virtual_offset
  BY <1>0, OnDiskReserve
<1>3. \A e, f \in Evictors : evict[e].victim = p /\ evict[f].victim = p => e = f
  BY <1>0 DEF PlaceInv, VictimOnce
<1> QED  BY <1>1, <1>2, <1>3 DEF Keeps

\* A slot whose descriptor is not free is kept for a page.
LEMMA UsedSlotKept ==
    ASSUME OwnerInv, PlaceInv, NEW q \in Pages, ~InFrame(q), page[q].list # "disk_free"
    PROVE  \E p : Keeps(p, page[q].virtual_offset)
<1>0. ListOK(q) /\ page[q].list \in Lists /\ ~Resident(q) /\ ~page[q].in_dram /\ q # 0
  BY DEF OwnerInv, TypeInv, UseInv, TypeOK, UserPage, PlaceInv, Resident, InFrame, Pages
<1>d. OnDisk(q) => Keeps(q, page[q].virtual_offset)
  BY DEF OnDisk, Keeps
<1>1. CASE page[q].list = "disk_reserve"
  <2>1. PICK p : p = page[q].reserve
    OBVIOUS
  <2>2. p \in Pages /\ Mapped(p) /\ page[p].reserve = q
    BY <1>0, <1>1, <2>1 DEF ListOK, ReserveOK
  <2> QED  BY <1>0, <2>2 DEF Keeps
<1>2. CASE page[q].list \notin {"disk_reserve", "none"}
  <2>1. OnDisk(q)
    BY <1>0, <1>2 DEF ListOK, Lists, Queues, FrameDesc, SwappedOut
  <2> QED  BY <1>d, <2>1
<1>3. CASE page[q].list = "none"
  <2>1. PICK e \in Executors, r \in Roles : Holds(e, r, q)
    BY <1>3 DEF OwnerInv, Ownership
  <2>2. HeldOK(e) /\ LocalOK(e)
    BY DEF PlaceInv, OwnerInv, TypeInv, UseInv, LocalsOK
  <2>3. CASE r = "victim"
    <3>1. OnDisk(q)
      BY <1>0, <2>1, <2>2, <2>3 DEF Holds, HoldsVictim, HeldOK, VictimOK
    <3> QED  BY <1>d, <3>1
  <2>4. CASE r = "dpage"
    <3>1. /\ e \in Evictors /\ VictimOK(e) /\ DpageOK(e) /\ EvictorOK(e)
          /\ evict[e].dpage = q /\ evict[e].victim \in Pages \cup {0}
      BY <2>1, <2>2, <2>4 DEF Holds, HeldOK, LocalOK, OwnerInv, TypeInv, UseInv, TypeOK, EvictLocals
    <3>2. pc[e] # "release"
      BY <1>0, <3>1 DEF DpageOK, FrameDesc
    <3>3. pc[e] \in {"write", "unmap", "mark", "track", "free_frame"}
      BY <1>0, <3>1, <3>2 DEF EvictorOK
    <3>4. evict[e].victim \in Pages /\ Mapped(evict[e].victim)
      BY <3>1, <3>3 DEF EvictorOK, EvictPcs, VictimOK, Resident, OnDisk
    <3> QED  BY <1>0, <3>1, <3>2, <3>4 DEF Keeps
  <2>5. CASE r = "scan"
    BY <1>0, <2>1, <2>2, <2>5 DEF Holds, HeldOK, ScanOK
  <2>6. CASE r = "read"
    <3>1. OnDisk(q)
      BY <2>1, <2>2, <2>6 DEF Holds, HeldOK, ReadOK, SwappedOut
    <3> QED  BY <1>d, <3>1
  <2>7. CASE r = "free"
    <3>1. e \in Threads /\ FreeOK(e) /\ ThreadOK(e) /\ fault[e].frees \in Seq(Pages)
      BY <2>1, <2>2, <2>7, ThreadFacts, OwnerWeaker DEF Holds, HeldOK, LocalOK
    <3>2. PICK i \in DOMAIN fault[e].frees : q = fault[e].frees[i]
      BY <2>1, <2>7 DEF Holds
    <3>3. CASE pc[e] \notin {"map", "add"}
      BY <1>0, <3>1, <3>2, <3>3 DEF FreeOK, FrameDesc
    <3>4. CASE pc[e] \in {"map", "add"}
      <4>1. i = 1
        BY <3>1, <3>2, <3>4 DEF ThreadOK, FirstPcs
      <4> QED  BY <1>0, <3>1, <3>2, <3>4, <4>1 DEF FreeOK
    <3> QED  BY <3>3, <3>4
  <2>8. CASE r = "page"
    BY <1>0, <2>1, <2>2, <2>8 DEF Holds, HeldOK, SettleOK, SettlePcs
  <2> QED  BY <2>1, <2>3, <2>4, <2>5, <2>6, <2>7, <2>8 DEF Roles
<1> QED  BY <1>1, <1>2, <1>3

\* A resident victim without a reserve keeps no slot yet, so when every other
\* page keeps one and there are as many slots as addresses, one slot is free.
LEMMA RoomToBack ==
    ASSUME FullInv, NVa <= NDisk, NEW e \in Evictors, pc[e] = "back",
           page[evict[e].victim].reserve = 0
    PROVE  fifo["disk_free"] # <<>>
<1> SUFFICES ASSUME fifo["disk_free"] = <<>> PROVE FALSE
  OBVIOUS
<1>0. /\ OwnerInv /\ PlaceInv /\ FrameInv /\ QueuesMatch /\ page \in [Pages -> UserPage]
      /\ VictimOK(e) /\ EvictorOK(e) /\ evict[e].victim \in Pages \cup {0}
  BY DEF FullInv, AllInv, OwnerInv, TypeInv, UseInv, TypeOK, EvictLocals, LocalsOK, LocalOK, PlaceInv,
         HeldOK, Evictors, Executors
<1>p. PICK p : p = evict[e].victim
  OBVIOUS
<1>1. p \in Pages /\ Resident(p) /\ evict[e].dpage = 0 /\ p # 0
  BY <1>0, <1>p DEF VictimOK, EvictorOK, EvictPcs, Pages
<1>2. ASSUME NEW s PROVE ~Keeps(p, s)
  <2>1. ~OnDisk(p)
    BY <1>1 DEF Resident, OnDisk
  <2>2. \A f \in Evictors : evict[f].victim = p => f = e
    BY <1>0, <1>1, <1>p DEF PlaceInv, VictimOnce
  <2> QED  BY <1>1, <1>p, <2>1, <2>2 DEF Keeps
<1>v. PICK v : v = page[p].va
  OBVIOUS
<1>3. v \in VA
  BY <1>1, <1>v DEF Resident, Mapped
<1>4. ASSUME NEW s \in 0 .. NDisk - 1
      PROVE  \E w \in VA \ {v} : Keeps(pages[w], s)
  <2>1. PICK q \in Pages : ~InFrame(q) /\ page[q].virtual_offset = s
    BY <1>0 DEF FrameInv, SlotsCovered
  <2>2. page[q].list # "disk_free"
    BY <1>0 DEF QueuesMatch, Queues
  <2>3. PICK r : Keeps(r, s)
    BY <1>0, <2>1, <2>2, UsedSlotKept
  <2>4. r \in Pages /\ Mapped(r) /\ pages[page[r].va] = r /\ r # p
    BY <1>0, <1>2, <2>3 DEF Keeps, PlaceInv, Hashed
  <2>5. page[r].va # v
    BY <1>0, <1>1, <1>v, <2>4 DEF PlaceInv, Hashed, Resident
  <2> QED  BY <2>3, <2>4, <2>5 DEF Mapped
<1>f. PICK f : f = [s \in 0 .. NDisk - 1 |-> CHOOSE w \in VA \ {v} : Keeps(pages[w], s)]
  OBVIOUS
<1>5. \A s \in 0 .. NDisk - 1 : f[s] \in VA \ {v} /\ Keeps(pages[f[s]], s)
  BY <1>4, <1>f
<1>6. f \in [0 .. NDisk - 1 -> VA \ {v}]
  BY <1>5, <1>f
<1>7. \A s, u \in 0 .. NDisk - 1 : f[s] = f[u] => s = u
  BY <1>0, <1>5, KeepsOnce
<1>8. IsFiniteSet(VA) /\ Cardinality(VA) = NVa
  BY FS_Interval, SizeAssumption DEF VA
<1>9. IsFiniteSet(VA \ {v}) /\ Cardinality(VA \ {v}) = NVa - 1
  BY <1>3, <1>8, FS_RemoveElement
<1>10. IsFiniteSet(0 .. NDisk - 1) /\ Cardinality(0 .. NDisk - 1) = NDisk
  <2>1. PICK n : n = NDisk - 1
    OBVIOUS
  <2>2. n \in Int /\ 0 \in Int /\ ~(0 > n) /\ n - 0 + 1 = NDisk
    BY <2>1, SizeAssumption
  <2>3. IsFiniteSet(0 .. n) /\ Cardinality(0 .. n) = NDisk
    BY <2>2, FS_Interval
  <2> QED  BY <2>1, <2>3
<1>d. PICK D : D = 0 .. NDisk - 1
  OBVIOUS
<1>w. PICK W : W = VA \ {v}
  OBVIOUS
<1>11. Cardinality(W) < Cardinality(D) /\ IsFiniteSet(D) /\ IsFiniteSet(W) /\ f \in [D -> W]
  BY <1>6, <1>9, <1>10, <1>d, <1>w, SizeAssumption
<1>12. \E s, u \in D : s # u /\ f[s] = f[u]
  BY <1>11, FS_PigeonHole
<1> QED  BY <1>7, <1>12, <1>d

\* Only the search for a slot fails for want of a slot.
LEMMA NextRoom ==
    ASSUME FullInv, NVa <= NDisk, failed # "no disk page found", [Next]_vars
    PROVE  failed' # "no disk page found"
<1>1. CASE UNCHANGED vars
  BY <1>1 DEF vars
<1>2. ASSUME NEW t \in Threads, Application(t) PROVE failed' # "no disk page found"
  BY <1>2 DEF Application, Touch, Store
<1>3. ASSUME NEW e, ScanStep(e) PROVE failed' # "no disk page found"
  BY <1>3 DEF ScanStep, ScanInactive, ScanActive, KeepOrEvict, Deactivate, ScanTake, ScanPut
<1>4. ASSUME NEW e \in Evictors, EvictStep(e) \/ ReleaseVictim(e)
      PROVE  failed' # "no disk page found"
  <2>1. CASE BackByFreeSlot(e)
    <3>1. fifo["disk_free"] # <<>>
      BY <1>4, <2>1, RoomToBack DEF BackByFreeSlot, At, Victim
    <3> QED  BY <2>1, <3>1 DEF BackByFreeSlot
  <2>2. CASE TakeVictim(e) \/ ProtectVictim(e) \/ UnmapVictim(e) \/ FreeFrame(e)
    BY <2>2 DEF TakeVictim, ProtectVictim, UnmapVictim, FreeFrame
  <2>3. CASE BackByReserve(e) \/ WriteBack(e)
    BY <2>3 DEF BackByReserve, WriteBack, Abort
  <2>4. CASE MarkSwappedOut(e) \/ TrackVictim(e) \/ ReleaseVictim(e)
    BY <2>4 DEF MarkSwappedOut, TrackVictim, ReleaseVictim, Abort
  <2> QED  BY <1>4, <2>1, <2>2, <2>3, <2>4 DEF EvictStep
<1>5. ASSUME NEW t \in Threads, FaultStep(t) PROVE failed' # "no disk page found"
  <2>1. CASE \/ uswap_sig_handler(t) \/ Spin(t) \/ handle_missing_fault(t)
             \/ PrefetchFind(t) \/ DiskRead(t)
    BY <2>1 DEF uswap_sig_handler, Spin, handle_missing_fault, PrefetchFind, DiskRead, Abort
  <2>2. CASE \/ FetchFree(t) \/ FetchReclaim(t) \/ FetchRetry(t) \/ FetchOutOfMemory(t)
             \/ FetchEvicted(t)
    BY <2>2 DEF FetchFree, FetchReclaim, FetchRetry, FetchOutOfMemory, FetchEvicted, Abort
  <2>3. CASE FirstAllocate(t) \/ PutBack(t) \/ FirstMap(t) \/ FirstAdd(t)
    BY <2>3 DEF FirstAllocate, PutBack, FirstMap, FirstAdd, Abort
  <2>4. CASE FinishRead(t) \/ PublishPage(t) \/ PrefetchResident(t) \/ Settle(t)
    BY <2>4 DEF FinishRead, PublishPage, PrefetchResident, Settle, Abort
  <2> QED  BY <1>5, <2>1, <2>2, <2>3, <2>4 DEF FaultStep
<1>e. Threads \subseteq Evictors /\ Workers \subseteq Evictors
  BY DEF Evictors
<1> QED  BY <1>e, <1>1, <1>2, <1>3, <1>4, <1>5 DEF Next, ThreadStep, WorkerStep, Aborted

\* When the swap device is at least as large as the mapping, an evictor always
\* finds a slot, so of all the asserts only those on the flags of a page that
\* was evicted too early and the one that gives up the search for a frame can
\* fail.  (With fewer slots than pages the device may really be full.)
THEOREM OtherAssertsHoldWithRoom ==
    ASSUME NVa <= NDisk
    PROVE  Spec => []OtherAssertsHold
<1> DEFINE RoomInv == /\ FullInv /\ failed \in AssertLimits
                      /\ failed # "no disk page found"
<1>1. Init => RoomInv
  BY InitFull DEF Init, AssertLimits
<1>2. RoomInv /\ [Next]_vars => RoomInv'
  BY NextFull, NextAsserts, NextRoom DEF FullInv, AllInv
<1>3. RoomInv => OtherAssertsHold
  BY DEF OtherAssertsHold, AssertLimits
<1> QED  BY <1>1, <1>2, <1>3, PTL DEF Spec

-----------------------------------------------------------------------------
(***************************************************************************)
(* What is in the pages: a clean page with a reserve is on disk as it is   *)
(* in memory, and swapping never changes what the application would read.  *)
(* The argument needs FrameInv: a write to the swap device goes to a slot  *)
(* that no other descriptor names.                                         *)
(***************************************************************************)

(* The inductive invariant.                                                 *)

\* The contents of the slot that p names.
OnSlot(p) == disk[page[p].virtual_offset]

PteOf(p) == pte[page[p].va]

\* ReserveIsCurrent, of a descriptor.
ReserveData(p) ==
    Mapped(p) /\ page[p].reserve # 0 /\ PteOf(p).present /\ ~PteOf(p).dirty
      => OnSlot(page[p].reserve) = PteOf(p).data

\* What a thread has read is still what is on disk.
BufData(t) == \A i \in DOMAIN fault[t].buf : fault[t].buf[i] = OnSlot(fault[t].reading[i])

\* From the write-protection to the unmapping nobody writes to the victim, so
\* the dirty bit that was read stays true and what was written stays current.
VictimData(e) ==
    LET p == evict[e].victim
    IN  /\ pc[e] \in {"back", "write", "unmap"} => PteOf(p).wp
        /\ pc[e] = "write" => (evict[e].writeback <=> NeedsWriteback(p))
        /\ pc[e] = "unmap" => OnSlot(evict[e].dpage) = PteOf(p).data

DataInv == /\ \A p \in Pages : ReserveData(p)
           /\ \A t \in Threads : BufData(t)
           /\ \A e \in Evictors : VictimData(e)

\* Mem, address by address.
MemAt(v) == IF pte[v].present THEN pte[v].data
            ELSE IF pages[v] # 0 /\ ~page[pages[v]].in_dram THEN OnSlot(pages[v])
            ELSE Zero

MemKept == \A v \in VA : MemAt(v)' = MemAt(v)

\* Mem is what MemAt says.
LEMMA MemPointwise ==
    /\ MemKept => Mem' = Mem
    /\ \A v \in VA : \A x : (MemAt(v)' = x /\ \A w \in VA \ {v} : MemAt(w)' = MemAt(w))
                          => Mem' = [Mem EXCEPT ![v] = x]
<1>1. Mem = [v \in VA |-> MemAt(v)]
  BY DEF Mem, MemAt, OnSlot
<1>2. Mem' = [v \in VA |-> MemAt(v)']
  BY DEF Mem, MemAt, OnSlot
<1> QED  BY <1>1, <1>2 DEF MemKept

-----------------------------------------------------------------------------
(* What a step leaves alone.                                                *)

\* The step changes nothing of q that the invariant or Mem speaks of.
SameData(q) ==
    /\ page'[q].va = page[q].va /\ page'[q].virtual_offset = page[q].virtual_offset
    /\ page'[q].reserve = page[q].reserve
    /\ Mapped(q) => PteOf(q)' = PteOf(q)
    /\ (page'[q].in_dram <=> page[q].in_dram) \/ Present(q)

\* A mapped page's reserve is the slot of no page and of no other's reserve.
LEMMA ReserveFacts ==
    ASSUME OwnerInv, PlaceInv, NEW p \in Pages, Mapped(p), page[p].reserve # 0
    PROVE  /\ page[p].reserve \in Pages /\ page[page[p].reserve].va = 0
           /\ page[page[p].reserve].reserve = p /\ ~Mapped(page[p].reserve)
<1>1. page[p].reserve \in Pages
  BY DEF OwnerInv, TypeInv, UseInv, TypeOK, UserPage
<1>2. PairOK(p)
  BY DEF PlaceInv
<1> QED  BY <1>1, <1>2, SizeAssumption DEF PairOK, Mapped, VA

\* A step of x that writes nothing to disk, and what it changes is in C.
LEMMA DataLift ==
    ASSUME OwnerInv, PlaceInv, DataInv, NEW x \in Executors, OnlyMoves(x), disk' = disk,
           NEW C \in SUBSET Pages,
           \A q \in Pages \ C : SameData(q),
           \A q \in C : ReserveData(q)',
           \A q \in Pages \ C : Mapped(q) => page[q].reserve \notin C,
           \A f \in Threads \ {x} :
             \A i \in DOMAIN fault[f].reading : fault[f].reading[i] \notin C,
           \A f \in Evictors \ {x} : pc[f] \in {"back", "write", "unmap"} =>
             evict[f].victim \notin C /\ evict[f].dpage \notin C,
           x \in Threads => BufData(x)',
           x \in Evictors => VictimData(x)'
    PROVE  DataInv'
<1>0. /\ page \in [Pages -> UserPage] /\ TypeOK
  BY DEF OwnerInv, TypeInv, UseInv, TypeOK
<1>1. ASSUME NEW p \in Pages \ C PROVE ReserveData(p)'
  <2>1. SameData(p) /\ ReserveData(p)
    BY DEF DataInv
  <2>2. ASSUME Mapped(p), page[p].reserve # 0 PROVE OnSlot(page[p].reserve)' = OnSlot(page[p].reserve)
    <3>1. page[p].reserve \in Pages \ C
      BY <2>2, ReserveFacts
    <3>2. page'[p].reserve = page[p].reserve
      BY <2>1 DEF SameData
    <3> QED  BY <3>1, <3>2 DEF SameData, OnSlot
  <2> QED  BY <2>1, <2>2 DEF SameData, ReserveData, Mapped
<1>2. ASSUME NEW f \in Threads \ {x} PROVE BufData(f)'
  <2>1. /\ fault'[f] = fault[f] /\ BufData(f) /\ f \in Threads /\ ThreadOK(f)
        /\ fault[f].reading \in Seq(Pages) /\ fault[f].buf \in Seq(Vals)
    BY <1>0, ThreadFacts, OwnerWeaker DEF OnlyMoves, DataInv, Executors, TypeOK, FaultLocals
  <2>2. \A i \in DOMAIN fault[f].buf : i \in DOMAIN fault[f].reading
    BY <2>1 DEF ThreadOK
  <2>3. ASSUME NEW i \in DOMAIN fault[f].buf
        PROVE  OnSlot(fault[f].reading[i])' = OnSlot(fault[f].reading[i])
    <3>q. PICK q : q = fault[f].reading[i]
      OBVIOUS
    <3>1. q \in Pages \ C
      BY <2>1, <2>2, <3>q
    <3>2. OnSlot(q)' = OnSlot(q)
      BY <3>1 DEF SameData, OnSlot
    <3> QED  BY <2>1, <3>q, <3>2 DEF OnSlot
  <2> QED  BY <2>1, <2>3 DEF BufData
<1>3. ASSUME NEW f \in Evictors \ {x} PROVE VictimData(f)'
  <2>p. PICK p, d : p = evict[f].victim /\ d = evict[f].dpage
    OBVIOUS
  <2>1. /\ evict'[f] = evict[f] /\ pc'[f] = pc[f] /\ VictimData(f)
    BY DEF OnlyMoves, DataInv, Executors, Evictors
  <2>2. CASE pc[f] \in {"back", "write", "unmap"}
    <3>1. p \in Pages \ C /\ Mapped(p)
      BY <2>p, <2>2, EvictorFacts DEF EvictPcs
    <3>2. pc[f] = "unmap" => d \in Pages \ C
      <4>1. pc[f] = "unmap" => d # 0
        BY <2>p, <2>2 DEF OwnerInv, TypeInv, UseInv, LocalsOK, LocalOK, EvictorOK, Evictors, Executors
      <4> QED  BY <2>p, <2>2, <4>1, EvictorFacts
    <3>3. PteOf(p)' = PteOf(p) /\ page'[p].reserve = page[p].reserve
      BY <3>1 DEF SameData
    <3>4. pc[f] = "unmap" => OnSlot(d)' = OnSlot(d)
      BY <3>2 DEF SameData, OnSlot
    <3>5. NeedsWriteback(p)' <=> NeedsWriteback(p)
      BY <3>3 DEF NeedsWriteback, PteOf
    <3>6. evict'[f].victim = p /\ evict'[f].dpage = d
      BY <2>1, <2>p
    <3>7. VictimData(f)' <=>
            /\ pc'[f] \in {"back", "write", "unmap"} => PteOf(p)'.wp
            /\ pc'[f] = "write" => (evict'[f].writeback <=> NeedsWriteback(p)')
            /\ pc'[f] = "unmap" => OnSlot(d)' = PteOf(p)'.data
      BY <3>6 DEF VictimData, PteOf, OnSlot, NeedsWriteback
    <3> QED  BY <2>1, <2>p, <3>3, <3>4, <3>5, <3>7 DEF VictimData
  <2>3. CASE pc[f] \notin {"back", "write", "unmap"}
    BY <2>1, <2>3 DEF VictimData
  <2> QED  BY <2>2, <2>3
<1> QED  BY <1>1, <1>2, <1>3 DEF DataInv

\* Such a step changes what the application sees only where it changed a page
\* or the hash table.
LEMMA MemLift ==
    ASSUME OwnerInv, PlaceInv, PlaceInv', disk' = disk, NEW C \in SUBSET Pages,
           \A q \in Pages \ C : SameData(q), NEW v \in VA, pages'[v] = pages[v],
           pages[v] \notin C
    PROVE  MemAt(v)' = MemAt(v)
<1>q. PICK q : q = pages[v]
  OBVIOUS
<1>1. CASE q = 0
  <2>1. ~pte[v].present /\ ~pte'[v].present
    BY <1>q, <1>1 DEF PlaceInv, PresentHashed
  <2> QED  BY <1>q, <1>1, <2>1 DEF MemAt
<1>2. CASE q # 0
  <2>1. q \in Pages \ C /\ page[q].va = v
    BY <1>q, <1>2 DEF OwnerInv, TypeInv, UseInv, TypeOK, HashOK
  <2>2. /\ page'[q].virtual_offset = page[q].virtual_offset /\ pte'[v] = pte[v]
        /\ (page'[q].in_dram <=> page[q].in_dram) \/ pte[v].present
    BY <2>1 DEF SameData, PteOf, Mapped, Present
  <2> QED  BY <1>q, <2>1, <2>2 DEF MemAt, OnSlot
<1> QED  BY <1>1, <1>2

\* A thread that keeps its batch, or has nothing read.
LEMMA BufStill ==
    ASSUME OwnerInv, DataInv, disk' = disk, NEW t \in Threads,
           \/ fault'[t].buf = <<>>
           \/ /\ fault'[t].buf = fault[t].buf /\ fault'[t].reading = fault[t].reading
              /\ \A i \in DOMAIN fault[t].reading :
                   page'[fault[t].reading[i]].virtual_offset = page[fault[t].reading[i]].virtual_offset
    PROVE  BufData(t)'
<1>0. /\ BufData(t) /\ ThreadOK(t) /\ fault[t].reading \in Seq(Pages) /\ fault[t].buf \in Seq(Vals)
  BY ThreadFacts, OwnerWeaker DEF DataInv, FaultLocals
<1>1. CASE fault'[t].buf = <<>>
  BY <1>1 DEF BufData
<1>2. CASE fault'[t].buf # <<>>
  <2>1. \A i \in DOMAIN fault[t].buf : i \in DOMAIN fault[t].reading
    BY <1>0 DEF ThreadOK
  <2> QED  BY <1>0, <1>2, <2>1 DEF BufData, OnSlot
<1> QED  BY <1>1, <1>2

\* A step that changes no data.
LEMMA DataStill ==
    ASSUME OwnerInv, PlaceInv, PlaceInv', DataInv, NEW x \in Executors, OnlyMoves(x),
           UNCHANGED <<disk, pages>>, \A q \in Pages : SameData(q),
           x \in Threads => BufData(x)',
           x \in Evictors => VictimData(x)'
    PROVE  DataInv' /\ MemKept
<1>1. PICK C : C = {}
  OBVIOUS
<1>2. C \in SUBSET Pages /\ \A q \in C : FALSE
  BY <1>1
<1>3. DataInv'
  BY <1>2, DataLift
<1>4. MemKept
  BY <1>2, MemLift DEF MemKept
<1> QED  BY <1>3, <1>4

\* The fields that the invariant and Mem speak of.
SameFields(r, s) == /\ r.va = s.va /\ r.virtual_offset = s.virtual_offset
                    /\ r.reserve = s.reserve /\ (r.in_dram <=> s.in_dram)

\* An update of a descriptor's flags and list leaves them alone.
LEMMA FlagUpdate ==
    ASSUME NEW r \in UserPage, NEW l, NEW m, NEW s
    PROVE  /\ SameFields(r, r)
           /\ SameFields([r EXCEPT !.list = l], r)
           /\ SameFields([r EXCEPT !.migrating = m], r)
           /\ SameFields([r EXCEPT !.swapped_out = s], r)
           /\ SameFields([r EXCEPT !.migrating = m, !.list = l], r)
           /\ SameFields([r EXCEPT !.swapped_out = s, !.migrating = m], r)
<1>1. SameFields([r EXCEPT !.list = l], r)
  BY DEF SameFields, UserPage
<1>2. SameFields([r EXCEPT !.migrating = m], r)
  BY DEF SameFields, UserPage
<1>3. SameFields([r EXCEPT !.swapped_out = s], r)
  BY DEF SameFields, UserPage
<1>4. SameFields([r EXCEPT !.migrating = m, !.list = l], r)
  BY DEF SameFields, UserPage
<1>5. SameFields([r EXCEPT !.swapped_out = s, !.migrating = m], r)
  BY DEF SameFields, UserPage
<1> QED  BY <1>1, <1>2, <1>3, <1>4, <1>5 DEF SameFields

\* A step that changes only flags and lists of descriptors.
LEMMA FlagsOnly ==
    ASSUME NEW q, UNCHANGED pte, SameFields(page'[q], page[q])
    PROVE  SameData(q)
  BY DEF SameFields, SameData, PteOf

\* The steps of an eviction that neither write, nor unmap, nor hand a frame on.
LEMMA EvictDataStill ==
    ASSUME OwnerInv, PlaceInv, PlaceInv', DataInv, NEW e \in Evictors, failed' = "none",
           \/ TakeVictim(e) \/ BackByReserve(e) \/ BackByFreeSlot(e)
           \/ MarkSwappedOut(e) \/ (e \in Workers /\ TrackVictim(e))
           \/ (e \in Workers /\ ReleaseVictim(e))
    PROVE  DataInv' /\ MemKept
<1>0. /\ e \in Executors /\ OnlyMoves(e) /\ page \in [Pages -> UserPage]
      /\ TypeOK /\ EvictorOK(e) /\ evict[e] \in EvictLocals /\ VictimData(e)
  BY EvictInv, ReleaseInv
     DEF OwnerInv, TypeInv, UseInv, StepOK, LocalsOK, LocalOK, TypeOK, Evictors, Executors,
         EvictStep, DataInv
<1>1. UNCHANGED <<disk, pages, pte, fault>>
  BY DEF TakeVictim, BackByReserve, BackByFreeSlot, MarkSwappedOut, TrackVictim, ReleaseVictim,
         Abort, sharedVars
<1>2. \A q \in Pages : \/ page'[q] = page[q]
                       \/ page'[q] = [page[q] EXCEPT !.list = "none"]
                       \/ page'[q] = [page[q] EXCEPT !.list = "disk_active"]
                       \/ page'[q] = [page[q] EXCEPT !.migrating = FALSE]
                       \/ page'[q] = [page[q] EXCEPT !.swapped_out = TRUE]
  <2>1. CASE TakeVictim(e)
    BY <1>0, <2>1 DEF TakeVictim
  <2>2. CASE BackByReserve(e)
    BY <1>0, <2>2 DEF BackByReserve, Abort
  <2>3. CASE BackByFreeSlot(e)
    BY <1>0, <2>3 DEF BackByFreeSlot, Abort
  <2>4. CASE MarkSwappedOut(e)
    BY <1>0, <2>4 DEF MarkSwappedOut, Abort
  <2>5. CASE e \in Workers /\ TrackVictim(e)
    BY <1>0, <2>5 DEF TrackVictim
  <2>6. CASE e \in Workers /\ ReleaseVictim(e)
    BY <1>0, <2>6 DEF ReleaseVictim, Abort
  <2> QED  BY <2>1, <2>2, <2>3, <2>4, <2>5, <2>6
<1>3. \A q \in Pages : SameData(q)
  <2> SUFFICES ASSUME NEW q \in Pages PROVE SameFields(page'[q], page[q])
    BY <1>1, FlagsOnly
  <2>1. page[q] \in UserPage
    BY <1>0
  <2>2. /\ SameFields(page[q], page[q])
        /\ \A l : SameFields([page[q] EXCEPT !.list = l], page[q])
        /\ \A m : SameFields([page[q] EXCEPT !.migrating = m], page[q])
        /\ \A s : SameFields([page[q] EXCEPT !.swapped_out = s], page[q])
    BY <2>1, FlagUpdate
  <2> QED  BY <1>2, <2>2
<1>4. e \in Threads => BufData(e)'
  <2>1. ASSUME e \in Threads PROVE fault[e].reading \in Seq(Pages)
    BY <2>1, ThreadFacts, OwnerWeaker
  <2> QED  BY <1>1, <1>3, <2>1, BufStill DEF SameData
<1>5. VictimData(e)'
  <2>1. CASE pc'[e] \notin {"back", "write", "unmap"}
    BY <2>1 DEF VictimData
  <2>2. CASE pc'[e] \in {"back", "write", "unmap"}
    <3>p. PICK p : p = evict[e].victim
      OBVIOUS
    <3>1. BackByReserve(e) \/ BackByFreeSlot(e)
      BY <1>0, <2>2 DEF TakeVictim, MarkSwappedOut, TrackVictim, ReleaseVictim, Abort, TypeOK
    <3>2. /\ pc[e] = "back" /\ pc'[e] = "write" /\ evict'[e].victim = p
          /\ evict'[e].writeback = NeedsWriteback(p)
      <4>1. pc[e] = "back" /\ pc'[e] = "write"
        BY <1>0, <3>1 DEF BackByReserve, BackByFreeSlot, At, Abort, TypeOK
      <4>2. CASE BackByReserve(e)
        <5>1. PICK d : d = page[p].reserve
          OBVIOUS
        <5>2. evict' = [evict EXCEPT ![e].dpage = d, ![e].backed = TRUE,
                                     ![e].writeback = NeedsWriteback(p)]
          BY <3>p, <4>2, <5>1 DEF BackByReserve, Abort, Victim
        <5>3. evict'[e] = [evict[e] EXCEPT !.dpage = d, !.backed = TRUE,
                                           !.writeback = NeedsWriteback(p)]
          BY <1>0, <5>2 DEF TypeOK
        <5> QED  BY <1>0, <3>p, <4>1, <5>3 DEF EvictLocals
      <4>3. CASE BackByFreeSlot(e)
        <5>1. PICK d : d = Head(fifo["disk_free"])
          OBVIOUS
        <5>2. evict' = [evict EXCEPT ![e].dpage = d, ![e].backed = FALSE,
                                     ![e].writeback = NeedsWriteback(p)]
          BY <3>p, <4>3, <5>1 DEF BackByFreeSlot, Abort, Victim
        <5>3. evict'[e] = [evict[e] EXCEPT !.dpage = d, !.backed = FALSE,
                                           !.writeback = NeedsWriteback(p)]
          BY <1>0, <5>2 DEF TypeOK
        <5> QED  BY <1>0, <3>p, <4>1, <5>3 DEF EvictLocals
      <4> QED  BY <3>1, <4>2, <4>3
    <3>3. p \in Pages /\ Mapped(p)
      BY <3>p, <3>2, EvictorFacts DEF EvictPcs
    <3>4. PteOf(p)' = PteOf(p) /\ page'[p].reserve = page[p].reserve
      BY <1>3, <3>3 DEF SameData
    <3>5. /\ NeedsWriteback(p)' <=> NeedsWriteback(p)
          /\ PteOf(p).wp
      BY <1>0, <3>2, <3>4, <3>p DEF NeedsWriteback, PteOf, VictimData
    <3>6. VictimData(e)' <=> PteOf(p)'.wp /\ (evict'[e].writeback <=> NeedsWriteback(p)')
      BY <3>2 DEF VictimData, PteOf, NeedsWriteback
    <3> QED  BY <3>2, <3>4, <3>5, <3>6
  <2> QED  BY <2>1, <2>2
<1> QED  BY <1>0, <1>1, <1>3, <1>4, <1>5, DataStill

-----------------------------------------------------------------------------
(* The steps of an eviction that protect, write, unmap and hand on.         *)

\* Two pages never stand for one address.
LEMMA OtherVa ==
    ASSUME PlaceInv, NEW p \in Pages, NEW q \in Pages, p # q, Mapped(p), Mapped(q)
    PROVE  page[p].va # page[q].va
  BY DEF PlaceInv, Hashed

\* The descriptor an evictor has taken is no other evictor's.
LEMMA DpageOnce ==
    ASSUME OwnerInv, PlaceInv, NEW e \in Evictors, NEW f \in Evictors \ {e}, evict[e].dpage # 0
    PROVE  evict[f].dpage # evict[e].dpage /\ evict[f].victim # evict[e].dpage
<1>d. PICK d : d = evict[e].dpage
  OBVIOUS
<1>1. d \in Pages /\ page[d].va = 0 /\ e \in Executors /\ f \in Executors /\ d # 0
  BY <1>d, EvictorFacts DEF Evictors, Executors
<1>2. Holds(e, "dpage", d)
  BY <1>d DEF Holds
<1>3. ~Holds(f, "dpage", d)
  BY <1>1, <1>2 DEF OwnerInv, Ownership, Roles
<1>4. evict[f].victim # d
  <2>1. evict[f].victim # 0 => Mapped(evict[f].victim)
    BY <1>1 DEF OwnerInv, TypeInv, UseInv, LocalsMapped, LocalMapped, LocalUsed
  <2> QED  BY <1>1, <2>1, SizeAssumption DEF Mapped, VA
<1> QED  BY <1>d, <1>3, <1>4 DEF Holds

\* Until the victim is unmapped, nobody else names the slot it will go to.
LEMMA SlotPrivate ==
    ASSUME OwnerInv, PlaceInv, FrameInv, NEW e \in Evictors, pc[e] \in {"write", "unmap"},
           NEW d, d = evict[e].dpage, NEW q \in Pages \ {d}, ~InFrame(q)
    PROVE  page[q].virtual_offset # page[d].virtual_offset
<1> SUFFICES ASSUME page[q].virtual_offset = page[d].virtual_offset PROVE FALSE
  OBVIOUS
<1>1. d # 0 /\ SlotDesc(page[d]) /\ e \in Executors
  BY DEF OwnerInv, TypeInv, UseInv, LocalsOK, LocalOK, EvictorOK, PlaceInv, HeldOK, DpageOK, Evictors,
         Executors
<1>2. d \in Pages
  BY <1>1, EvictorFacts
<1>3. ~InFrame(d)
  BY <1>1, <1>2, SlotOutside
<1>4. PICK f \in Evictors : Lends(f, q, d)
  BY <1>2, <1>3 DEF FrameInv, SlotsDistinct
<1>5. f # e
  BY <1>4 DEF Lends, Emptied
<1>6. evict[f].dpage # d /\ evict[f].victim # d
  BY <1>1, <1>5, DpageOnce
<1> QED  BY <1>4, <1>6 DEF Lends

\* Another evictor's victim and descriptor.
LEMMA OtherEvictor ==
    ASSUME OwnerInv, PlaceInv, NEW e \in Evictors, NEW f \in Evictors \ {e}, NEW p, NEW d,
           p = evict[e].victim, d = evict[e].dpage, p \in Pages
    PROVE  /\ evict[f].victim # p /\ evict[f].dpage # p
           /\ d # 0 => evict[f].victim # d /\ evict[f].dpage # d
<1>1. p # 0 /\ pc[e] \in EvictPcs
  BY DEF Pages, OwnerInv, TypeInv, UseInv, LocalsOK, LocalOK, EvictorOK, Evictors, Executors
<1>2. Mapped(p) /\ evict[f].victim # p
  BY <1>1, EvictorFacts DEF PlaceInv, VictimOnce
<1>3. evict[f].dpage # 0 => page[evict[f].dpage].va = 0
  BY EvictorFacts
<1>4. evict[f].dpage # p
  BY <1>1, <1>2, <1>3, SizeAssumption DEF Mapped, VA
<1> QED  BY <1>2, <1>4, DpageOnce

\* Write-protecting the victim: its contents stay, and from now on they do so
\* until it is unmapped.
LEMMA ProtectData ==
    ASSUME OwnerInv, PlaceInv, PlaceInv', DataInv, NEW e \in Evictors, failed' = "none",
           ProtectVictim(e)
    PROVE  DataInv' /\ MemKept
<1>p. PICK p : p = evict[e].victim
  OBVIOUS
<1>0. /\ e \in Executors /\ OnlyMoves(e) /\ page \in [Pages -> UserPage] /\ pte \in [VA -> Pte]
      /\ TypeOK /\ evict[e] \in EvictLocals /\ VictimOK(e)
  BY EvictInv
     DEF OwnerInv, TypeInv, UseInv, StepOK, TypeOK, Evictors, Executors, PlaceInv, HeldOK, EvictStep
<1>v. PICK v : v = page[p].va
  OBVIOUS
<1>1. /\ page' = [page EXCEPT ![p].migrating = TRUE]
      /\ pte' = [pte EXCEPT ![v].wp = @ \/ pte[v].present]
      /\ pc[e] = "protect" /\ pc'[e] = "back"
      /\ UNCHANGED <<disk, pages, fault>>
      /\ evict' = [evict EXCEPT ![e].old_offset = page[p].virtual_offset]
  BY <1>0, <1>p, <1>v DEF ProtectVictim, UffdioWriteprotect, At, TypeOK, Victim
<1>2. p \in Pages /\ Resident(p) /\ Mapped(p) /\ v \in VA /\ pte[v].present
  BY <1>0, <1>1, <1>p, <1>v, EvictorFacts DEF VictimOK, EvictPcs, Mapped, Resident, Present
<1>3. /\ pte'[v] = [pte[v] EXCEPT !.wp = TRUE]
      /\ \A w \in VA \ {v} : pte'[w] = pte[w]
  BY <1>0, <1>1, <1>2
<1>4. /\ pte'[v].wp /\ pte'[v].data = pte[v].data
      /\ pte'[v].dirty = pte[v].dirty /\ pte'[v].present = pte[v].present
  BY <1>0, <1>2, <1>3 DEF Pte
<1>5. /\ SameFields(page'[p], page[p])
      /\ \A q \in Pages \ {p} : page'[q] = page[q]
  <2>1. page'[p] = [page[p] EXCEPT !.migrating = TRUE] /\ page[p] \in UserPage
    BY <1>0, <1>1, <1>2
  <2> QED  BY <1>0, <1>1, <2>1, FlagUpdate
<1>6. ASSUME NEW q \in Pages \ {p} PROVE SameData(q)
  <2>1. Mapped(q) => page[q].va \in VA \ {v}
    BY <1>2, <1>v, OtherVa DEF Mapped
  <2> QED  BY <1>3, <1>5, <2>1 DEF SameData, PteOf
<1>7. ReserveData(p)'
  <2>1. ReserveData(p)
    BY <1>2 DEF DataInv
  <2>2. page[p].reserve # 0 => page[p].reserve \in Pages \ {p}
    BY <1>2, ReserveFacts
  <2>3. /\ page'[p].va = v /\ page'[p].reserve = page[p].reserve
    BY <1>5, <1>v DEF SameFields
  <2> QED  BY <1>1, <1>2, <1>4, <1>5, <1>v, <2>1, <2>2, <2>3 DEF ReserveData, PteOf, OnSlot
<1>8. \A q \in Pages \ {p} : Mapped(q) => page[q].reserve # p
  BY <1>2, ReserveFacts DEF Pages
<1>9. ASSUME NEW f \in Threads \ {e}, NEW i \in DOMAIN fault[f].reading
      PROVE  fault[f].reading[i] # p
  <2>1. ReadOK(f)
    BY DEF PlaceInv, HeldOK, Executors
  <2> QED  BY <1>2, <2>1 DEF ReadOK, SwappedOut, OnDisk, Resident
<1>10. \A f \in Evictors \ {e} : evict[f].victim # p /\ evict[f].dpage # p
  BY <1>2, <1>p, OtherEvictor
<1>11. e \in Threads => BufData(e)'
  <2>1. \A q \in Pages : page'[q].virtual_offset = page[q].virtual_offset
    BY <1>5 DEF SameFields
  <2>2. e \in Threads => fault[e].reading \in Seq(Pages)
    BY ThreadFacts, OwnerWeaker
  <2> QED  BY <1>1, <2>1, <2>2, BufStill
<1>12. VictimData(e)'
  <2>1. evict'[e].victim = p
    BY <1>0, <1>1, <1>p DEF TypeOK, EvictLocals
  <2>2. page'[p].va = v
    BY <1>5, <1>v DEF SameFields
  <2> QED  BY <1>1, <1>4, <2>1, <2>2 DEF VictimData, PteOf
<1>c. PICK C : C = {p}
  OBVIOUS
<1>d. C \in SUBSET Pages /\ \A q : q \in C <=> q = p
  BY <1>2, <1>c
<1>13. DataInv'
  <2>1. \A q \in Pages \ C : SameData(q) /\ (Mapped(q) => page[q].reserve \notin C)
    BY <1>6, <1>8, <1>d
  <2>2. \A q \in C : ReserveData(q)'
    BY <1>7, <1>d
  <2>3. \A f \in Threads \ {e} :
          \A i \in DOMAIN fault[f].reading : fault[f].reading[i] \notin C
    BY <1>9, <1>d
  <2>4. \A f \in Evictors \ {e} : evict[f].victim \notin C /\ evict[f].dpage \notin C
    BY <1>10, <1>d
  <2> QED  BY <1>0, <1>1, <1>11, <1>12, <1>d, <2>1, <2>2, <2>3, <2>4, DataLift
<1>14. ASSUME NEW w \in VA PROVE MemAt(w)' = MemAt(w)
  <2>1. CASE pages[w] # p
    BY <1>1, <1>6, <1>d, <2>1, MemLift
  <2>2. CASE pages[w] = p
    <3>1. w = v
      BY <1>2, <1>v, <2>2 DEF OwnerInv, TypeInv, UseInv, HashOK, Pages
    <3> QED  BY <1>2, <1>4, <3>1 DEF MemAt
  <2> QED  BY <2>1, <2>2
<1> QED  BY <1>13, <1>14 DEF MemKept

\* Where a descriptor can be.
LEMMA Places ==
    ASSUME OwnerInv, PlaceInv, NEW q \in Pages
    PROVE  \/ FrameDesc(page[q]) \/ SlotDesc(page[q]) \/ Resident(q) \/ OnDisk(q)
           \/ \E t \in Threads : pc[t] = "map" /\ FreeOK(t) /\ q = fault[t].frees[1]
<1>0. ListOK(q) /\ page[q].list \in Lists /\ q # 0
  <2>1. page[q] \in UserPage /\ q # 0
    BY DEF OwnerInv, TypeInv, UseInv, TypeOK, Pages
  <2> QED  BY <2>1 DEF UserPage, PlaceInv
<1>1. CASE page[q].list # "none"
  BY <1>0, <1>1 DEF ListOK, Lists, Queues, SwappedOut
<1>2. CASE page[q].list = "none"
  <2>1. PICK e \in Executors, r \in Roles : Holds(e, r, q)
    BY <1>2 DEF OwnerInv, Ownership
  <2>2. HeldOK(e) /\ LocalOK(e)
    BY DEF PlaceInv, OwnerInv, TypeInv, UseInv, LocalsOK
  <2>3. CASE r = "victim"
    BY <2>1, <2>2, <2>3 DEF Holds, HoldsVictim, HeldOK, VictimOK
  <2>4. CASE r = "dpage"
    BY <1>0, <2>1, <2>2, <2>4 DEF Holds, HeldOK, DpageOK
  <2>5. CASE r = "scan"
    BY <1>0, <2>1, <2>2, <2>5 DEF Holds, HeldOK, ScanOK
  <2>6. CASE r = "read"
    BY <2>1, <2>2, <2>6 DEF Holds, HeldOK, ReadOK, SwappedOut
  <2>7. CASE r = "free"
    <3>1. e \in Threads /\ FreeOK(e) /\ ThreadOK(e) /\ fault[e].frees \in Seq(Pages)
      BY <2>1, <2>2, <2>7, ThreadFacts, OwnerWeaker DEF Holds, HeldOK, LocalOK
    <3>2. PICK i \in DOMAIN fault[e].frees : q = fault[e].frees[i]
      BY <2>1, <2>7 DEF Holds
    <3>3. CASE pc[e] \notin {"map", "add"}
      BY <3>1, <3>2, <3>3 DEF FreeOK
    <3>4. CASE pc[e] \in {"map", "add"}
      <4>1. i = 1
        BY <3>1, <3>2, <3>4 DEF ThreadOK, FirstPcs
      <4>2. pc[e] = "add" => Resident(q)
        BY <3>1, <3>2, <4>1 DEF FreeOK
      <4> QED  BY <3>1, <3>2, <3>4, <4>1, <4>2
    <3> QED  BY <3>3, <3>4
  <2>8. CASE r = "page"
    BY <2>1, <2>2, <2>8 DEF Holds, HeldOK, SettleOK, SettlePcs
  <2> QED  BY <2>1, <2>3, <2>4, <2>5, <2>6, <2>7, <2>8 DEF Roles
<1> QED  BY <1>1, <1>2

\* A page in its prefetch window is mapped: it is not evicted before in_dram is
\* set, for the assert of the eviction would have stopped that.
LEMMA WindowPresent ==
    ASSUME OwnerInv, PlaceInv, NEW q \in Pages, InPrefetchWindow(q)
    PROVE  Present(q) /\ Resident(q)
<1>1. PICK t \in Threads : Windows(t, q)
  BY DEF InPrefetchWindow, Windows
<1>2. SettleOK(t) /\ LocalMapped(t) /\ q # 0
  BY DEF PlaceInv, HeldOK, Executors, OwnerInv, TypeInv, UseInv, LocalsMapped, Pages
<1>3. Mapped(q) /\ page[q].swapped_out /\ page[q].va # 0
  BY <1>1, <1>2, SizeAssumption DEF Windows, SettleOK, SettlePcs, LocalMapped, LocalUsed, Mapped, VA
<1>4. ASSUME NEW u \in Threads, pc[u] = "map", FreeOK(u), q = fault[u].frees[1] PROVE FALSE
  BY <1>3, <1>4 DEF FreeOK
<1>5. Resident(q)
  BY <1>3, <1>4, Places DEF FrameDesc, SlotDesc, OnDisk
<1> QED  BY <1>5 DEF Resident

\* A reserve is a slot.
LEMMA ReserveOutside ==
    ASSUME OwnerInv, PlaceInv, NEW p \in Pages, Mapped(p), page[p].reserve # 0
    PROVE  ~InFrame(page[p].reserve) /\ page[p].reserve \in Pages
<1>d. PICK d : d = page[p].reserve
  OBVIOUS
<1>1. d \in Pages /\ PairOK(p) /\ ListOK(d)
  BY <1>d, ReserveFacts DEF PlaceInv
<1>2. CASE page[d].list = "disk_reserve"
  <2>1. SlotDesc(page[d])
    BY <1>1, <1>2 DEF ListOK
  <2> QED  BY <1>1, <1>d, <2>1, SlotOutside
<1>3. ASSUME NEW e \in Executors, Backs(e, p, d) PROVE ~InFrame(d)
  <2>1. SlotDesc(page[d])
    BY <1>3, <1>1, <1>d DEF Backs, PlaceInv, HeldOK, DpageOK
  <2> QED  BY <1>1, <2>1, SlotOutside
<1> QED  BY <1>1, <1>2, <1>3, <1>d DEF PairOK

\* The write goes to a slot that nobody reads, and afterwards the slot holds
\* what the victim holds, whether it was written now or earlier.
LEMMA WriteData ==
    ASSUME OwnerInv, PlaceInv, FrameInv, DataInv, NEW e \in Evictors, failed' = "none",
           WriteBack(e)
    PROVE  DataInv' /\ MemKept
<1>p. PICK p, d : p = evict[e].victim /\ d = evict[e].dpage
  OBVIOUS
<1>v. PICK v, o : v = page[p].va /\ o = page[d].virtual_offset
  OBVIOUS
<1>0. /\ e \in Executors /\ OnlyMoves(e) /\ page \in [Pages -> UserPage] /\ pte \in [VA -> Pte]
      /\ TypeOK /\ evict[e] \in EvictLocals /\ VictimOK(e) /\ DpageOK(e) /\ EvictorOK(e)
      /\ disk \in [Offsets -> Vals] /\ VictimData(e)
  BY EvictInv
     DEF OwnerInv, TypeInv, UseInv, StepOK, TypeOK, Evictors, Executors, PlaceInv, HeldOK, EvictStep,
         LocalsOK, LocalOK, DataInv
<1>1. /\ page' = [page EXCEPT ![p].migrating = @ \/ e \in Threads]
      /\ disk' = IF evict[e].writeback THEN [disk EXCEPT ![o] = pte[v].data] ELSE disk
      /\ pc[e] = "write" /\ pc'[e] = "unmap"
      /\ UNCHANGED <<pte, pages, fault, evict>>
  BY <1>0, <1>p, <1>v DEF WriteBack, DiskWrite, At, TypeOK, Victim, DiskPage, Abort
<1>2. /\ p \in Pages /\ Resident(p) /\ Mapped(p) /\ v \in VA /\ pte[v].present
      /\ d \in Pages /\ d # 0 /\ d # p /\ page[d].va = 0 /\ o \in Offsets /\ SlotDesc(page[d])
  <2>1. p \in Pages /\ Mapped(p) /\ d # 0 /\ d \in Pages /\ d # p /\ page[d].va = 0
    BY <1>0, <1>1, <1>p, EvictorFacts DEF EvictPcs, EvictorOK
  <2> QED  BY <1>0, <1>1, <1>p, <1>v, <2>1
           DEF VictimOK, Mapped, Resident, Present, UserPage, DpageOK
<1>3. \A q \in Pages : SameFields(page'[q], page[q])
  <2>m. PICK m : m = (page[p].migrating \/ e \in Threads)
    OBVIOUS
  <2>1. page'[p] = [page[p] EXCEPT !.migrating = m]
        /\ page[p] \in UserPage /\ \A q \in Pages \ {p} : page'[q] = page[q]
    BY <1>0, <1>1, <1>2, <2>m
  <2>2. SameFields(page'[p], page[p])
    BY <2>1, FlagUpdate
  <2>3. \A q \in Pages \ {p} : SameFields(page'[q], page[q])
    BY <2>1 DEF SameFields
  <2> QED  BY <2>2, <2>3
<1>4. ASSUME NEW q \in Pages, q # d, ~InFrame(q) PROVE OnSlot(q)' = OnSlot(q)
  <2>1. page[q].virtual_offset # o /\ page[q].virtual_offset \in Offsets
    BY <1>0, <1>1, <1>p, <1>v, <1>4, SlotPrivate DEF UserPage
  <2>2. page'[q].virtual_offset = page[q].virtual_offset
    BY <1>3 DEF SameFields
  <2> QED  BY <1>0, <1>1, <2>1, <2>2 DEF OnSlot
<1>5. OnSlot(d)' = pte[v].data
  <2>1. page'[d].virtual_offset = o
    BY <1>2, <1>3, <1>v DEF SameFields
  <2>2. CASE evict[e].writeback
    BY <1>0, <1>1, <1>2, <2>1, <2>2 DEF OnSlot
  <2>3. CASE ~evict[e].writeback
    <3>1. ~pte[v].dirty /\ page[p].reserve # 0
      BY <1>0, <1>1, <1>p, <1>v, <2>3 DEF VictimData, NeedsWriteback
    <3>2. page[p].reserve = d
      BY <1>0, <1>1, <1>2, <1>p, <3>1 DEF DpageOK
    <3>3. disk[o] = pte[v].data
      BY <1>2, <1>v, <3>1, <3>2 DEF DataInv, ReserveData, PteOf, OnSlot
    <3> QED  BY <1>1, <2>1, <2>3, <3>3 DEF OnSlot
  <2> QED  BY <2>2, <2>3
<1>6. ASSUME NEW q \in Pages PROVE ReserveData(q)'
  <2> SUFFICES ASSUME Mapped(q), page[q].reserve # 0, PteOf(q).present, ~PteOf(q).dirty
               PROVE  OnSlot(page[q].reserve)' = PteOf(q).data
    <3>1. /\ page'[q].va = page[q].va /\ page'[q].reserve = page[q].reserve
      BY <1>3 DEF SameFields
    <3> QED  BY <1>1, <3>1 DEF ReserveData, PteOf, Mapped, OnSlot
  <2>r. PICK r : r = page[q].reserve
    OBVIOUS
  <2>0. page'[q].reserve = r
    BY <1>3, <2>r DEF SameFields
  <2>1. r \in Pages /\ ~InFrame(r) /\ page[r].reserve = q /\ q # 0
    BY <2>r, ReserveFacts, ReserveOutside DEF Pages
  <2>2. CASE r # d
    <3>1. OnSlot(r)' = OnSlot(r)
      BY <1>4, <2>1, <2>2
    <3>2. OnSlot(r) = PteOf(q).data
      BY <2>r DEF DataInv, ReserveData
    <3> QED  BY <2>0, <2>r, <3>1, <3>2 DEF OnSlot
  <2>3. CASE r = d
    <3>1. page[p].reserve = d
      BY <1>0, <1>1, <1>2, <1>p, <2>1, <2>3 DEF DpageOK
    <3>2. q = p
      BY <1>2, <2>1, <2>3, <3>1, ReserveFacts
    <3> QED  BY <1>5, <1>v, <2>0, <2>3, <2>r, <3>2 DEF OnSlot, PteOf
  <2> QED  BY <2>2, <2>3
<1>7. ASSUME NEW t \in Threads PROVE BufData(t)'
  <2>1. /\ BufData(t) /\ ThreadOK(t) /\ fault[t].reading \in Seq(Pages)
        /\ fault[t].buf \in Seq(Vals) /\ ReadOK(t)
    BY ThreadFacts, OwnerWeaker DEF DataInv, FaultLocals, PlaceInv, HeldOK
  <2>2. \A i \in DOMAIN fault[t].buf : i \in DOMAIN fault[t].reading
    BY <2>1 DEF ThreadOK
  <2>3. ASSUME NEW i \in DOMAIN fault[t].buf, NEW q, q = fault[t].reading[i]
        PROVE  OnSlot(q)' = fault[t].buf[i]
    <3>1. q \in Pages /\ OnDisk(q) /\ fault[t].buf[i] = OnSlot(q)
      BY <2>1, <2>2, <2>3 DEF ReadOK, SwappedOut, BufData
    <3>2. q # d /\ ~InFrame(q)
      BY <1>2, <3>1, SizeAssumption DEF OnDisk, InFrame, Mapped, VA
    <3> QED  BY <1>4, <3>1, <3>2
  <2> QED  BY <1>1, <2>3 DEF BufData, OnSlot
<1>8. ASSUME NEW f \in Evictors PROVE VictimData(f)'
  <2>g. PICK p2, d2 : p2 = evict[f].victim /\ d2 = evict[f].dpage
    OBVIOUS
  <2>1. CASE f = e
    <3>1. page'[p].va = v
      BY <1>2, <1>3, <1>v DEF SameFields
    <3>2. PteOf(p)' = pte[v] /\ pte[v].wp
      BY <1>0, <1>1, <1>p, <1>v, <3>1 DEF PteOf, VictimData
    <3> QED  BY <1>1, <1>5, <1>p, <2>1, <3>2 DEF VictimData, PteOf, OnSlot
  <2>2. CASE f # e
    <3>1. pc'[f] = pc[f] /\ VictimData(f)
      BY <1>0, <2>2 DEF OnlyMoves, Evictors, Executors, DataInv
    <3>2. CASE pc[f] \in {"back", "write", "unmap"}
      <4>1. p2 \in Pages
        BY <2>g, <3>2, EvictorFacts DEF EvictPcs
      <4>2. /\ page'[p2].va = page[p2].va /\ page'[p2].reserve = page[p2].reserve
        BY <1>3, <4>1 DEF SameFields
      <4>3. PteOf(p2)' = PteOf(p2) /\ (NeedsWriteback(p2)' <=> NeedsWriteback(p2))
        BY <1>1, <4>2 DEF PteOf, NeedsWriteback
      <4>4. pc[f] = "unmap" => OnSlot(d2)' = OnSlot(d2)
        <5> SUFFICES ASSUME pc[f] = "unmap" PROVE OnSlot(d2)' = OnSlot(d2)
          OBVIOUS
        <5>1. d2 # 0 /\ SlotDesc(page[d2])
          BY <2>g DEF OwnerInv, TypeInv, UseInv, LocalsOK, LocalOK, EvictorOK, Evictors, Executors,
                      PlaceInv, HeldOK, DpageOK
        <5>2. d2 \in Pages /\ d2 # d
          BY <1>2, <1>p, <2>2, <2>g, <5>1, EvictorFacts, DpageOnce
        <5> QED  BY <1>4, <5>1, <5>2, SlotOutside
      <4>5. VictimData(f)' <=>
              /\ pc'[f] \in {"back", "write", "unmap"} => PteOf(p2)'.wp
              /\ pc'[f] = "write" => (evict'[f].writeback <=> NeedsWriteback(p2)')
              /\ pc'[f] = "unmap" => OnSlot(d2)' = PteOf(p2)'.data
        BY <1>1, <2>g DEF VictimData, PteOf, OnSlot, NeedsWriteback
      <4> QED  BY <1>1, <2>g, <3>1, <4>3, <4>4, <4>5 DEF VictimData
    <3>3. CASE pc[f] \notin {"back", "write", "unmap"}
      BY <3>1, <3>3 DEF VictimData
    <3> QED  BY <3>2, <3>3
  <2> QED  BY <2>1, <2>2
<1>9. ASSUME NEW w \in VA PROVE MemAt(w)' = MemAt(w)
  <2>q. PICK q : q = pages[w]
    OBVIOUS
  <2>1. CASE pte[w].present \/ q = 0
    BY <1>1, <2>1, <2>q DEF MemAt
  <2>2. CASE ~pte[w].present /\ q # 0
    <3>1. q \in Pages /\ page[q].va = w /\ ~Present(q)
      BY <2>2, <2>q DEF OwnerInv, TypeInv, UseInv, TypeOK, HashOK, Present
    <3>2. page'[q].in_dram <=> page[q].in_dram
      BY <1>3, <3>1 DEF SameFields
    <3>3. ~page[q].in_dram => OnSlot(q)' = OnSlot(q)
      <4>1. q # d
        BY <1>2, <3>1, SizeAssumption DEF VA
      <4>2. ~InPrefetchWindow(q)
        BY <3>1, WindowPresent
      <4> QED  BY <1>4, <3>1, <4>1, <4>2 DEF InFrame
    <3> QED  BY <1>1, <2>2, <2>q, <3>2, <3>3 DEF MemAt, OnSlot
  <2> QED  BY <2>1, <2>2
<1> QED  BY <1>6, <1>7, <1>8, <1>9 DEF DataInv, MemKept

\* Unmapping the victim: what was in memory is now in the slot it names.
LEMMA UnmapData ==
    ASSUME OwnerInv, PlaceInv, PlaceInv', DataInv, NEW e \in Evictors, failed' = "none",
           UnmapVictim(e)
    PROVE  DataInv' /\ MemKept
<1>p. PICK p, d : p = evict[e].victim /\ d = evict[e].dpage
  OBVIOUS
<1>v. PICK v : v = page[p].va
  OBVIOUS
<1>0. /\ e \in Executors /\ OnlyMoves(e) /\ page \in [Pages -> UserPage] /\ pte \in [VA -> Pte]
      /\ TypeOK /\ evict[e] \in EvictLocals /\ VictimOK(e) /\ EvictorOK(e) /\ VictimData(e)
  BY EvictInv
     DEF OwnerInv, TypeInv, UseInv, StepOK, TypeOK, Evictors, Executors, PlaceInv, HeldOK, EvictStep,
         LocalsOK, LocalOK, DataInv
<1>1. /\ page' = [page EXCEPT ![p].virtual_offset = page[d].virtual_offset,
                              ![p].in_dram = FALSE]
      /\ pte' = [pte EXCEPT ![v] = NoPte]
      /\ pc[e] = "unmap" /\ pc'[e] = "mark"
      /\ UNCHANGED <<disk, pages, fault, evict>>
  BY <1>0, <1>p, <1>v DEF UnmapVictim, MadviseDontneed, At, TypeOK, Victim, DiskPage
<1>2. /\ p \in Pages /\ Resident(p) /\ Mapped(p) /\ v \in VA /\ pte[v].present
      /\ d \in Pages /\ d # 0 /\ d # p
  <2>1. p \in Pages /\ Mapped(p) /\ d # 0 /\ d \in Pages /\ d # p
    BY <1>0, <1>1, <1>p, EvictorFacts DEF EvictPcs, EvictorOK
  <2> QED  BY <1>0, <1>1, <1>p, <1>v, <2>1 DEF VictimOK, Mapped, Resident, Present
<1>3. /\ ~pte'[v].present /\ \A w \in VA \ {v} : pte'[w] = pte[w]
  BY <1>0, <1>1, <1>2 DEF NoPte
<1>4. /\ page'[p].va = v /\ ~page'[p].in_dram
      /\ page'[p].virtual_offset = page[d].virtual_offset
      /\ \A q \in Pages \ {p} : page'[q] = page[q]
  <2>1. /\ page'[p] = [page[p] EXCEPT !.virtual_offset = page[d].virtual_offset, !.in_dram = FALSE]
        /\ page[p] \in UserPage
        /\ \A q \in Pages \ {p} : page'[q] = page[q]
    BY <1>0, <1>1, <1>2
  <2> QED  BY <1>v, <2>1 DEF UserPage
<1>5. disk[page[d].virtual_offset] = pte[v].data
  BY <1>0, <1>1, <1>p, <1>v DEF VictimData, OnSlot, PteOf
<1>6. ASSUME NEW q \in Pages \ {p} PROVE SameData(q)
  <2>1. Mapped(q) => page[q].va \in VA \ {v}
    BY <1>2, <1>v, OtherVa DEF Mapped
  <2> QED  BY <1>3, <1>4, <2>1 DEF SameData, PteOf
<1>7. ReserveData(p)'
  BY <1>3, <1>4 DEF ReserveData, PteOf
<1>8. \A q \in Pages \ {p} : Mapped(q) => page[q].reserve # p
  BY <1>2, ReserveFacts DEF Pages
<1>9. ASSUME NEW f \in Threads, NEW i \in DOMAIN fault[f].reading
      PROVE  fault[f].reading[i] # p
  <2>1. ReadOK(f)
    BY DEF PlaceInv, HeldOK, Executors
  <2> QED  BY <1>2, <2>1 DEF ReadOK, SwappedOut, OnDisk, Resident
<1>10. \A f \in Evictors \ {e} : evict[f].victim # p /\ evict[f].dpage # p
  BY <1>2, <1>p, OtherEvictor
<1>11. e \in Threads => BufData(e)'
  <2>1. e \in Threads => fault[e].reading \in Seq(Pages)
    BY ThreadFacts, OwnerWeaker
  <2>2. e \in Threads => \A i \in DOMAIN fault[e].reading : fault[e].reading[i] \in Pages \ {p}
    BY <1>9, <2>1
  <2> QED  BY <1>1, <1>4, <2>2, BufStill
<1>12. VictimData(e)'
  BY <1>1 DEF VictimData
<1>c. PICK C : C = {p}
  OBVIOUS
<1>d. C \in SUBSET Pages /\ \A q : q \in C <=> q = p
  BY <1>2, <1>c
<1>13. DataInv'
  <2>1. \A q \in Pages \ C : SameData(q) /\ (Mapped(q) => page[q].reserve \notin C)
    BY <1>6, <1>8, <1>d
  <2>2. \A q \in C : ReserveData(q)'
    BY <1>7, <1>d
  <2>3. \A f \in Threads \ {e} :
          \A i \in DOMAIN fault[f].reading : fault[f].reading[i] \notin C
    BY <1>9, <1>d
  <2>4. \A f \in Evictors \ {e} : evict[f].victim \notin C /\ evict[f].dpage \notin C
    BY <1>10, <1>d
  <2> QED  BY <1>0, <1>1, <1>11, <1>12, <1>d, <2>1, <2>2, <2>3, <2>4, DataLift
<1>14. ASSUME NEW w \in VA PROVE MemAt(w)' = MemAt(w)
  <2>1. CASE pages[w] # p
    BY <1>1, <1>6, <1>d, <2>1, MemLift
  <2>2. CASE pages[w] = p
    <3>1. w = v /\ p # 0
      BY <1>2, <1>v, <2>2 DEF OwnerInv, TypeInv, UseInv, HashOK, Pages
    <3>2. MemAt(w) = pte[v].data
      BY <1>2, <3>1 DEF MemAt
    <3>3. MemAt(w)' = disk[page[d].virtual_offset]
      BY <1>1, <1>3, <1>4, <2>2, <3>1 DEF MemAt, OnSlot
    <3> QED  BY <1>5, <3>2, <3>3
  <2> QED  BY <2>1, <2>2
<1> QED  BY <1>13, <1>14 DEF MemKept

\* Handing the emptied frame on: its descriptor was nobody's reserve but the
\* victim's, and the victim keeps its slot.
LEMMA HandOnData ==
    ASSUME OwnerInv, PlaceInv, PlaceInv', DataInv, NEW e \in Evictors, failed' = "none",
           FreeFrame(e) \/ (e \in Threads /\ TrackVictim(e))
    PROVE  DataInv' /\ MemKept
<1>p. PICK p, d : p = evict[e].victim /\ d = evict[e].dpage
  OBVIOUS
<1>0. /\ e \in Executors /\ OnlyMoves(e) /\ page \in [Pages -> UserPage]
      /\ TypeOK /\ evict[e] \in EvictLocals /\ VictimOK(e) /\ EvictorOK(e) /\ DpageOK(e)
  BY EvictInv
     DEF OwnerInv, TypeInv, UseInv, StepOK, TypeOK, Evictors, Executors, PlaceInv, HeldOK, EvictStep,
         LocalsOK, LocalOK
<1>1. /\ pc[e] \in {"free_frame", "track"} /\ pc'[e] \in {"track", "release"}
      /\ pc[e] = "track" => e \in Threads
      /\ UNCHANGED <<disk, pages, pte, fault>>
  BY <1>0, ExecutorAssumption DEF FreeFrame, TrackVictim, At, TypeOK
<1>2. p \in Pages /\ Mapped(p) /\ d # 0 /\ d \in Pages /\ d # p /\ page[d].va = 0
  BY <1>0, <1>1, <1>p, EvictorFacts DEF EvictPcs, EvictorOK
<1>3. /\ page'[p].va = page[p].va /\ page'[p].reserve = 0
      /\ page'[p].in_dram = page[p].in_dram
      /\ page'[p].virtual_offset = page[p].virtual_offset
      /\ page'[d].va = 0
      /\ \A q \in Pages \ {p, d} : page'[q] = page[q]
  <2>1. CASE FreeFrame(e)
    <3>1. /\ page'[p] = [page[p] EXCEPT !.reserve = IF evict[e].backed THEN 0 ELSE @]
          /\ page'[d] = [AsFrame(page[d], evict[e].old_offset) EXCEPT !.list = "dram_free"]
          /\ \A q \in Pages \ {p, d} : page'[q] = page[q]
      BY <1>0, <1>2, <1>p, <2>1 DEF FreeFrame, Victim, DiskPage
    <3>2. pc[e] = "free_frame"
      BY <2>1 DEF FreeFrame, At
    <3>3. ~evict[e].backed => page[p].reserve = 0
      BY <1>0, <1>2, <1>p, <3>2 DEF DpageOK, EvictorOK
    <3> QED  BY <1>0, <1>2, <3>1, <3>3 DEF UserPage, AsFrame
  <2>2. CASE e \in Threads /\ TrackVictim(e)
    <3>0. e \notin Workers
      BY <2>2, ExecutorAssumption
    <3>1. page' = [page EXCEPT ![p].list = "disk_active", ![p].reserve = 0,
                               ![d] = AsFrame(page[d], evict[e].old_offset)]
      BY <1>p, <2>2, <3>0 DEF TrackVictim, Victim, DiskPage
    <3>2. /\ page'[p] = [page[p] EXCEPT !.list = "disk_active", !.reserve = 0]
          /\ page'[d] = AsFrame(page[d], evict[e].old_offset)
          /\ \A q \in Pages \ {p, d} : page'[q] = page[q]
      BY <1>0, <1>2, <3>1
    <3> QED  BY <1>0, <1>2, <3>2 DEF UserPage, AsFrame
  <2> QED  BY <2>1, <2>2
<1>4. ~Mapped(d) /\ ~Mapped(d)'
  BY <1>2, <1>3, SizeAssumption DEF Mapped, VA
<1>5. ASSUME NEW q \in Pages \ {p, d} PROVE SameData(q)
  BY <1>1, <1>3 DEF SameData, PteOf
<1>6. ReserveData(p)' /\ ReserveData(d)'
  BY <1>3, <1>4 DEF ReserveData
<1>7. ASSUME NEW q \in Pages \ {p, d}, Mapped(q) PROVE page[q].reserve \notin {p, d}
  <2>1. page[q].reserve # p
    BY <1>2, <1>7, ReserveFacts DEF Pages
  <2>2. ASSUME page[q].reserve = d PROVE FALSE
    <3>1. page[d].reserve = q /\ q # 0
      BY <1>2, <1>7, <2>2, ReserveFacts DEF Pages
    <3>2. page[p].reserve = d
      BY <1>0, <1>1, <1>2, <1>p, <3>1 DEF DpageOK
    <3>3. page[d].reserve = p
      BY <1>2, <3>2, ReserveFacts
    <3> QED  BY <3>1, <3>3
  <2> QED  BY <2>1, <2>2
<1>8. ASSUME NEW f \in Threads, NEW i \in DOMAIN fault[f].reading
      PROVE  /\ fault[f].reading[i] \in Pages \ {d}
             /\ f # e => fault[f].reading[i] # p
  <2>1. ReadOK(f) /\ fault[f].reading \in Seq(Pages) /\ f \in Executors
    BY ThreadFacts, OwnerWeaker DEF PlaceInv, HeldOK
  <2>2. fault[f].reading[i] \in Pages /\ Mapped(fault[f].reading[i])
    BY <2>1 DEF ReadOK, SwappedOut, OnDisk
  <2>3. Holds(f, "read", fault[f].reading[i])
    BY DEF Holds
  <2>4. f # e => Apart(f, p)
    BY <1>2, <1>p, <2>1, VictimApart
  <2> QED  BY <1>4, <2>2, <2>3, <2>4 DEF Apart, Roles
<1>9. \A f \in Evictors \ {e} : evict[f].victim \notin {p, d} /\ evict[f].dpage \notin {p, d}
  BY <1>2, <1>p, OtherEvictor
<1>10. e \in Threads => BufData(e)'
  <2>1. e \in Threads => \A i \in DOMAIN fault[e].reading :
          page'[fault[e].reading[i]].virtual_offset = page[fault[e].reading[i]].virtual_offset
    BY <1>3, <1>8
  <2> QED  BY <1>1, <2>1, BufStill
<1>11. VictimData(e)'
  BY <1>1 DEF VictimData
<1>c. PICK C : C = {p, d}
  OBVIOUS
<1>d. C \in SUBSET Pages /\ \A q : q \in C <=> q \in {p, d}
  BY <1>2, <1>c
<1>12. DataInv'
  <2>1. \A q \in Pages \ C : SameData(q) /\ (Mapped(q) => page[q].reserve \notin C)
    BY <1>5, <1>7, <1>d
  <2>2. \A q \in C : ReserveData(q)'
    BY <1>6, <1>d
  <2>3. \A f \in Threads \ {e} :
          \A i \in DOMAIN fault[f].reading : fault[f].reading[i] \notin C
    BY <1>8, <1>d
  <2>4. \A f \in Evictors \ {e} : evict[f].victim \notin C /\ evict[f].dpage \notin C
    BY <1>9, <1>d
  <2> QED  BY <1>0, <1>1, <1>10, <1>11, <1>d, <2>1, <2>2, <2>3, <2>4, DataLift
<1>13. ASSUME NEW w \in VA PROVE MemAt(w)' = MemAt(w)
  <2>1. pages[w] # d
    <3>1. pages[w] # 0 => page[pages[w]].va = w
      BY DEF OwnerInv, TypeInv, UseInv, HashOK
    <3> QED  BY <1>2, <3>1, SizeAssumption DEF VA
  <2>2. CASE pages[w] # p
    BY <1>1, <1>5, <1>d, <2>1, <2>2, MemLift
  <2>3. CASE pages[w] = p
    BY <1>1, <1>3, <2>3 DEF MemAt, OnSlot
  <2> QED  BY <2>2, <2>3
<1> QED  BY <1>12, <1>13 DEF MemKept

-----------------------------------------------------------------------------
(* The application.                                                         *)

\* A store: the page is dirty from now on, and it is no victim whose dirty bit
\* was read, for that one is write-protected.
LEMMA StoreData ==
    ASSUME OwnerInv, PlaceInv, PlaceInv', DataInv, NEW t \in Threads, NEW v \in VA, NEW x,
           Store(t, v, x)
    PROVE  DataInv' /\ Mem' = [Mem EXCEPT ![v] = x]
<1>p. PICK p : p = pages[v]
  OBVIOUS
<1>0. /\ t \in Executors /\ OnlyMoves(t) /\ TypeOK /\ pte \in [VA -> Pte]
  BY ThreadFacts, OwnerWeaker DEF Store, OnlyMoves, Executors, TypeOK
<1>1. /\ pc[t] = "idle" /\ pte[v].present /\ ~pte[v].wp
      /\ pte' = [pte EXCEPT ![v].data = x, ![v].dirty = TRUE]
      /\ UNCHANGED <<page, pages, disk, pc, fault, evict>>
  BY DEF Store, At
<1>2. /\ p \in Pages /\ page[p].va = v /\ Resident(p) /\ Mapped(p)
  BY <1>1, <1>p, PresentResident DEF Mapped
<1>3. /\ pte'[v].present /\ pte'[v].dirty /\ pte'[v].data = x
      /\ \A w \in VA \ {v} : pte'[w] = pte[w]
  <2>1. pte'[v] = [pte[v] EXCEPT !.data = x, !.dirty = TRUE] /\ pte[v] \in Pte
        /\ \A w \in VA \ {v} : pte'[w] = pte[w]
    BY <1>0, <1>1
  <2>2. PICK r \in Pte : r = pte[v]
    BY <2>1
  <2>3. /\ [r EXCEPT !.data = x, !.dirty = TRUE].present = r.present
        /\ [r EXCEPT !.data = x, !.dirty = TRUE].dirty
        /\ [r EXCEPT !.data = x, !.dirty = TRUE].data = x
    BY DEF Pte
  <2> QED  BY <1>1, <2>1, <2>2, <2>3
<1>4. ASSUME NEW q \in Pages \ {p} PROVE SameData(q)
  <2>1. Mapped(q) => page[q].va \in VA \ {v}
    BY <1>2, OtherVa DEF Mapped
  <2> QED  BY <1>1, <1>3, <2>1 DEF SameData, PteOf
<1>5. ReserveData(p)'
  BY <1>1, <1>2, <1>3 DEF ReserveData, PteOf
<1>6. \A q \in Pages \ {p} : Mapped(q) => page[q].reserve # p
  BY <1>2, ReserveFacts DEF Pages
<1>7. ASSUME NEW f \in Threads, NEW i \in DOMAIN fault[f].reading
      PROVE  fault[f].reading[i] # p
  <2>1. ReadOK(f)
    BY DEF PlaceInv, HeldOK, Executors
  <2> QED  BY <1>2, <2>1 DEF ReadOK, SwappedOut, OnDisk, Resident
<1>8. ASSUME NEW f \in Evictors, pc[f] \in {"back", "write", "unmap"}
      PROVE  evict[f].victim # p /\ evict[f].dpage # p
  <2>1. PteOf(evict[f].victim).wp
    BY <1>8 DEF DataInv, VictimData
  <2>2. evict[f].dpage # 0 => page[evict[f].dpage].va = 0
    BY EvictorFacts
  <2>3. p # 0 /\ page[p].va # 0
    BY <1>2, SizeAssumption DEF Pages, VA
  <2> QED  BY <1>1, <1>2, <2>1, <2>2, <2>3 DEF PteOf
<1>9. BufData(t)'
  BY <1>1, BufStill
<1>10. VictimData(t)'
  BY <1>1 DEF VictimData
<1>c. PICK C : C = {p}
  OBVIOUS
<1>d. C \in SUBSET Pages /\ \A q : q \in C <=> q = p
  BY <1>2, <1>c
<1>11. DataInv'
  <2>1. \A q \in Pages \ C : SameData(q) /\ (Mapped(q) => page[q].reserve \notin C)
    BY <1>4, <1>6, <1>d
  <2>2. \A q \in C : ReserveData(q)'
    BY <1>5, <1>d
  <2>3. \A f \in Threads \ {t} :
          \A i \in DOMAIN fault[f].reading : fault[f].reading[i] \notin C
    BY <1>7, <1>d
  <2>4. \A f \in Evictors \ {t} : pc[f] \in {"back", "write", "unmap"} =>
          evict[f].victim \notin C /\ evict[f].dpage \notin C
    BY <1>8, <1>d
  <2> QED  BY <1>0, <1>1, <1>9, <1>10, <1>d, <2>1, <2>2, <2>3, <2>4, DataLift
<1>12. MemAt(v)' = x
  BY <1>3 DEF MemAt
<1>13. ASSUME NEW w \in VA \ {v} PROVE MemAt(w)' = MemAt(w)
  <2>1. pages[w] # p
    BY <1>2 DEF OwnerInv, TypeInv, UseInv, HashOK, Pages
  <2> QED  BY <1>1, <1>4, <1>d, <2>1, MemLift
<1> QED  BY <1>11, <1>12, <1>13, MemPointwise

\* An access that faults.
LEMMA TouchData ==
    ASSUME OwnerInv, PlaceInv, PlaceInv', DataInv, NEW t \in Threads, NEW v \in VA, Touch(t, v)
    PROVE  DataInv' /\ MemKept
<1>0. /\ t \in Executors /\ OnlyMoves(t) /\ TypeOK /\ fault[t] \in FaultLocals
      /\ page \in [Pages -> UserPage]
  BY ThreadFacts, OwnerWeaker DEF Touch, OnlyMoves, Executors, TypeOK, sharedVars
<1>1. /\ pc'[t] = "signal" /\ UNCHANGED <<page, pages, pte, disk, evict>>
      /\ fault'[t].buf = fault[t].buf /\ fault'[t].reading = fault[t].reading
  <2>1. fault'[t] = [fault[t] EXCEPT !.addr = v]
    BY <1>0 DEF Touch, TypeOK
  <2> QED  BY <1>0, <2>1 DEF Touch, TypeOK, sharedVars, FaultLocals
<1>2. \A q \in Pages : SameData(q)
  BY <1>1 DEF SameData, PteOf
<1>3. BufData(t)' /\ VictimData(t)'
  BY <1>1, BufStill DEF VictimData
<1> QED  BY <1>0, <1>1, <1>2, <1>3, DataStill

-----------------------------------------------------------------------------
(* The fault handler.                                                       *)

\* The steps of a fault handler that neither map a page nor enter one in the
\* hash table.
LEMMA FaultDataStill ==
    ASSUME OwnerInv, PlaceInv, PlaceInv', DataInv, NEW t \in Threads, failed' = "none",
           FaultStep(t), ~FinishRead(t), ~FirstMap(t),
           FirstAllocate(t) => find_page(fault[t].addr) # 0
    PROVE  DataInv' /\ MemKept
<1>0. /\ t \in Executors /\ t \in Evictors /\ TypeOK /\ page \in [Pages -> UserPage]
      /\ fault[t] \in FaultLocals /\ ThreadOK(t) /\ EvictorOK(t) /\ SettleOK(t)
      /\ fault[t].page \in Pages \cup {0} /\ DpageOK(t) /\ VictimOK(t) /\ evict[t] \in EvictLocals
      /\ fault[t].reading \in Seq(Pages) /\ VictimData(t)
  BY ThreadFacts, OwnerWeaker DEF PlaceInv, HeldOK, TypeOK, DataInv
<1>o. OnlyMoves(t) /\ ~FetchOutOfMemory(t)
  <2>1. ~FetchOutOfMemory(t)
    BY DEF FetchOutOfMemory, Abort
  <2> QED  BY <2>1, FaultStartInv, FetchInv, FirstInv, SwapInInv DEF FaultStep, OwnerInv, TypeInv, StepOK
<1>a. FirstAllocate(t) => UNCHANGED sharedVars
  BY DEF FirstAllocate, Abort
<1>1. UNCHANGED <<disk, pages, pte>>
  <2>1. CASE \/ uswap_sig_handler(t) \/ Spin(t) \/ handle_missing_fault(t) \/ DiskRead(t)
             \/ FetchFree(t) \/ FetchReclaim(t) \/ FetchRetry(t) \/ FetchEvicted(t)
    BY <2>1 DEF uswap_sig_handler, Spin, handle_missing_fault, DiskRead, FetchFree,
         FetchReclaim, FetchRetry, FetchEvicted, Abort, sharedVars
  <2>2. CASE \/ PutBack(t) \/ FirstAdd(t) \/ PublishPage(t) \/ PrefetchResident(t)
             \/ Settle(t) \/ PrefetchFind(t)
    BY <2>2 DEF PutBack, FirstAdd, PublishPage, PrefetchResident, Settle, PrefetchFind, Abort,
         sharedVars
  <2>3. CASE FirstAllocate(t)
    BY <1>a, <2>3 DEF sharedVars
  <2> QED  BY <1>o, <2>1, <2>2, <2>3 DEF FaultStep
<1>2. ASSUME ~PrefetchResident(t), NEW q \in Pages PROVE SameFields(page'[q], page[q])
  <2>0. page[q] \in UserPage
    BY <1>0
  <2>f. /\ SameFields(page[q], page[q])
        /\ \A l : SameFields([page[q] EXCEPT !.list = l], page[q])
        /\ \A m : SameFields([page[q] EXCEPT !.migrating = m], page[q])
    <3>1. SameFields(page[q], page[q])
      BY DEF SameFields
    <3>2. ASSUME NEW l PROVE SameFields([page[q] EXCEPT !.list = l], page[q])
      BY <2>0 DEF SameFields, UserPage
    <3>3. ASSUME NEW m PROVE SameFields([page[q] EXCEPT !.migrating = m], page[q])
      BY <2>0 DEF SameFields, UserPage
    <3> QED  BY <3>1, <3>2, <3>3
  <2>1. CASE \/ uswap_sig_handler(t) \/ Spin(t) \/ FetchReclaim(t) \/ FetchRetry(t) \/ DiskRead(t)
             \/ FirstAllocate(t)
    <3>1. page' = page
      BY <1>a, <2>1 DEF uswap_sig_handler, Spin, FetchReclaim, FetchRetry, DiskRead, sharedVars
    <3> QED  BY <2>f, <3>1
  <2>2. CASE handle_missing_fault(t) \/ PrefetchFind(t)
    <3>1. page' = page \/ \E p : page' = ClaimPage(p)
      BY <2>2 DEF handle_missing_fault, PrefetchFind, Abort, sharedVars
    <3>2. ASSUME NEW p, page' = ClaimPage(p)
          PROVE  \/ page'[q] = page[q]
                 \/ page'[q] = [page[q] EXCEPT !.migrating = TRUE, !.list = "none"]
      BY <1>0, <3>2 DEF ClaimPage
    <3>3. SameFields([page[q] EXCEPT !.migrating = TRUE, !.list = "none"], page[q])
      BY <2>0 DEF SameFields, UserPage
    <3> QED  BY <2>f, <3>1, <3>2, <3>3
  <2>3. CASE FetchFree(t)
    <3>1. PICK d : page' = [page EXCEPT ![d] = [FramePage(t, page[d]) EXCEPT !.list = "none"]]
      BY <2>3 DEF FetchFree
    <3>2. page'[q] = page[q] \/ page'[q] = [FramePage(t, page[q]) EXCEPT !.list = "none"]
      BY <1>0, <3>1
    <3>3. PICK m : m = (page[q].migrating \/ fault[t].job # "swapin")
      OBVIOUS
    <3>4. FramePage(t, page[q]) = [page[q] EXCEPT !.migrating = m]
      BY <2>0, <3>3 DEF FramePage, UserPage
    <3>5. SameFields([[page[q] EXCEPT !.migrating = m] EXCEPT !.list = "none"], page[q])
      BY <2>0 DEF SameFields, UserPage
    <3> QED  BY <2>f, <3>2, <3>4, <3>5
  <2>4. CASE FetchEvicted(t)
    <3>p. PICK p, d : p = evict[t].victim /\ d = evict[t].dpage
      OBVIOUS
    <3>1. page' = [page EXCEPT ![p].migrating = FALSE, ![d] = FramePage(t, page[d])]
          /\ pc[t] = "release"
      BY <2>4, <3>p DEF FetchEvicted, Abort, Victim, DiskPage, At
    <3>2. p \in Pages /\ d \in Pages /\ p # d
      BY <1>0, <3>p, <3>1, SizeAssumption
         DEF EvictorOK, EvictLocals, EvictPcs, DpageOK, FrameDesc, VictimOK, OnDisk, Mapped, VA
    <3>3. /\ page'[d] = FramePage(t, page[d])
          /\ page'[p] = [page[p] EXCEPT !.migrating = FALSE]
          /\ \A r \in Pages \ {p, d} : page'[r] = page[r]
      BY <1>0, <3>1, <3>2
    <3>4. PICK m : m = (page[d].migrating \/ fault[t].job # "swapin")
      OBVIOUS
    <3>5. FramePage(t, page[d]) = [page[d] EXCEPT !.migrating = m]
      BY <1>0, <3>2, <3>4 DEF FramePage, UserPage
    <3> QED  BY <2>f, <3>3, <3>5
  <2>5. CASE PutBack(t) \/ FirstAdd(t) \/ PublishPage(t)
    <3>1. \E n, l : page' = [page EXCEPT ![n].list = l]
      BY <2>5 DEF PutBack, FirstAdd, PublishPage, Abort
    <3>2. ASSUME NEW n, NEW l, page' = [page EXCEPT ![n].list = l]
          PROVE  page'[q] = page[q] \/ page'[q] = [page[q] EXCEPT !.list = l]
      BY <1>0, <3>2
    <3> QED  BY <2>f, <3>1, <3>2
  <2>6. CASE Settle(t)
    <3>1. PICK p : page' = [page EXCEPT ![p].swapped_out = FALSE, ![p].migrating = FALSE]
      BY <2>6 DEF Settle
    <3>2. \/ page'[q] = page[q]
          \/ page'[q] = [page[q] EXCEPT !.swapped_out = FALSE, !.migrating = FALSE]
      BY <1>0, <3>1
    <3>3. SameFields([page[q] EXCEPT !.swapped_out = FALSE, !.migrating = FALSE], page[q])
      BY <2>0 DEF SameFields, UserPage
    <3> QED  BY <2>f, <3>2, <3>3
  <2> QED  BY <1>o, <1>2, <2>1, <2>2, <2>3, <2>4, <2>5, <2>6 DEF FaultStep
<1>3. ASSUME NEW q \in Pages PROVE SameData(q)
  <2>1. CASE ~PrefetchResident(t)
    BY <1>1, <1>2, <2>1, FlagsOnly
  <2>2. CASE PrefetchResident(t)
    <3>p. PICK p : p = fault[t].page
      OBVIOUS
    <3>1. page' = [page EXCEPT ![p].in_dram = TRUE] /\ pc[t] = "resident"
      BY <2>2, <3>p DEF PrefetchResident, At
    <3>2. p \in Pages /\ InPrefetchWindow(p)
      BY <1>0, <3>p, <3>1 DEF ThreadOK, SettlePcs, SettleOK, InPrefetchWindow
    <3>3. Present(p)
      BY <3>2, WindowPresent
    <3>4. page'[q] = page[q] \/ (q = p /\ page'[q] = [page[q] EXCEPT !.in_dram = TRUE])
      BY <1>0, <3>1
    <3>5. /\ page'[q].va = page[q].va /\ page'[q].virtual_offset = page[q].virtual_offset
          /\ page'[q].reserve = page[q].reserve /\ (q = p \/ page'[q].in_dram = page[q].in_dram)
      BY <1>0, <3>4 DEF UserPage
    <3> QED  BY <1>1, <3>3, <3>5 DEF SameData, PteOf
  <2> QED  BY <2>1, <2>2
<1>4. BufData(t)'
  <2>1. CASE DiskRead(t)
    <3>1. /\ fault'[t].buf = [i \in 1 .. Len(fault[t].reading) |-> OnSlot(fault[t].reading[i])]
          /\ fault'[t].reading = fault[t].reading /\ page' = page
      <4>1. fault'[t] = [fault[t] EXCEPT !.buf = [i \in 1 .. Len(fault[t].reading) |->
                                                   OnSlot(fault[t].reading[i])]]
        BY <1>0, <2>1 DEF DiskRead, OnSlot, TypeOK
      <4> QED  BY <1>0, <2>1, <4>1 DEF FaultLocals, DiskRead, sharedVars
    <3> QED  BY <1>1, <3>1 DEF BufData, OnSlot
  <2>2. CASE ~DiskRead(t)
    <3>1. \/ fault'[t].buf = <<>>
          \/ fault'[t].buf = fault[t].buf /\ fault'[t].reading = fault[t].reading
      <4>1. CASE handle_missing_fault(t) \/ PrefetchFind(t)
        <5>0. pc[t] \in {"missing", "find"}
          <6>1. handle_missing_fault(t) => pc[t] = "missing"
            BY Zenon DEF handle_missing_fault, At
          <6>2. PrefetchFind(t) => pc[t] = "find"
            BY Zenon DEF PrefetchFind, At
          <6> QED  BY <4>1, <6>1, <6>2
        <5>1. fault[t].buf = <<>>
          <6>1. pc[t] = "missing" => fault[t].buf = <<>>
            BY <1>0 DEF ThreadOK
          <6>2. pc[t] = "find" => fault[t].buf = <<>>
            BY <1>0 DEF ThreadOK
          <6> QED  BY <5>0, <6>1, <6>2
        <5>2. fault'[t].buf \in {fault[t].buf, <<>>}
          BY <1>0, <4>1 DEF handle_missing_fault, PrefetchFind, Abort, Resume, NoFault, TypeOK,
                            FaultLocals
        <5> QED  BY <5>1, <5>2
      <4>2. CASE \/ FetchReclaim(t) \/ FetchRetry(t) \/ PublishPage(t) \/ PrefetchResident(t)
        BY <4>2 DEF FetchReclaim, FetchRetry, PublishPage, PrefetchResident
      <4>3. CASE \/ Spin(t) \/ FirstAdd(t) \/ (Settle(t) /\ Resume(t))
        <5>1. fault'[t] = NoFault
          BY <1>0, <4>3 DEF Spin, FirstAdd, Settle, Resume, Abort, TypeOK
        <5> QED  BY <5>1 DEF NoFault
      <4>4. CASE FetchFree(t) \/ FetchEvicted(t)
        <5>1. \E d : fault' = [fault EXCEPT ![t].frees = Append(@, d)]
          BY <4>4 DEF FetchFree, FetchEvicted, ReceiveFrame, Abort
        <5>2. \E s : fault'[t] = [fault[t] EXCEPT !.frees = s]
          BY <1>0, <5>1 DEF TypeOK
        <5> QED  BY <1>0, <5>2 DEF FaultLocals
      <4>5. CASE uswap_sig_handler(t) \/ FirstAllocate(t)
        <5>1. \/ fault' = fault
              \/ \E p : fault' = [fault EXCEPT ![t].page = p]
              \/ fault' = [fault EXCEPT ![t].job = "first"]
          BY <4>5 DEF uswap_sig_handler, FirstAllocate, Abort
        <5>2. \/ fault' = fault
              \/ \E p : fault'[t] = [fault[t] EXCEPT !.page = p]
              \/ fault'[t] = [fault[t] EXCEPT !.job = "first"]
          BY <1>0, <5>1 DEF TypeOK
        <5> QED  BY <1>0, <5>2 DEF FaultLocals
      <4>6. CASE PutBack(t)
        <5>1. fault'[t] = [fault[t] EXCEPT !.frees = <<>>]
          BY <1>0, <4>6 DEF PutBack, Abort, TypeOK
        <5> QED  BY <1>0, <5>1 DEF FaultLocals
      <4>7. CASE Settle(t) /\ ~Resume(t)
        <5>1. \/ fault' = [fault EXCEPT ![t].job = "prefetch", ![t].page = 0]
              \/ fault' = [fault EXCEPT ![t].page = 0]
          BY <4>7 DEF Settle
        <5>2. \/ fault'[t] = [fault[t] EXCEPT !.job = "prefetch", !.page = 0]
              \/ fault'[t] = [fault[t] EXCEPT !.page = 0]
          BY <1>0, <5>1 DEF TypeOK
        <5> QED  BY <1>0, <5>2 DEF FaultLocals
      <4> QED  BY <1>o, <2>2, <4>1, <4>2, <4>3, <4>4, <4>5, <4>6, <4>7 DEF FaultStep
    <3>2. \A i \in DOMAIN fault[t].reading :
            page'[fault[t].reading[i]].virtual_offset = page[fault[t].reading[i]].virtual_offset
      BY <1>0, <1>3 DEF SameData
    <3> QED  BY <1>1, <3>1, <3>2, BufStill
  <2> QED  BY <2>1, <2>2
<1>5. VictimData(t)'
  <2>1. CASE DiskRead(t)
    <3>1. UNCHANGED <<pc, evict, page, pte, disk>>
      BY <2>1 DEF DiskRead, sharedVars
    <3> QED  BY <1>0, <3>1 DEF VictimData, PteOf, OnSlot, NeedsWriteback
  <2>2. CASE ~DiskRead(t)
    <3>1. pc'[t] \notin {"back", "write", "unmap"}
      BY <1>0, <1>o, <2>2 DEF FaultStep, uswap_sig_handler, Spin, handle_missing_fault, FetchFree,
         FetchReclaim, FetchRetry, FetchEvicted, FirstAllocate, PutBack, FirstAdd,
         PublishPage, PrefetchResident, Settle, PrefetchFind, Abort, At, Resume,
         ReceiveFrame, TypeOK
    <3> QED  BY <3>1 DEF VictimData
  <2> QED  BY <2>1, <2>2
<1> QED  BY <1>0, <1>o, <1>1, <1>3, <1>4, <1>5, DataStill

\* What no other executor has, nobody reads, evicts or lends.
LEMMA ApartData ==
    ASSUME NEW x \in Executors, NEW p, \A f \in Executors \ {x} : Apart(f, p)
    PROVE  /\ \A f \in Threads \ {x} :
                \A i \in DOMAIN fault[f].reading : fault[f].reading[i] # p
           /\ \A f \in Evictors \ {x} : evict[f].victim # p /\ evict[f].dpage # p
<1>1. ASSUME NEW f \in Threads \ {x}, NEW i \in DOMAIN fault[f].reading
      PROVE  fault[f].reading[i] # p
  <2>1. f \in Executors \ {x} /\ ~Holds(f, "read", p)
    BY DEF Executors, Apart, Roles
  <2> QED  BY <2>1 DEF Holds
<1>2. ASSUME NEW f \in Evictors \ {x} PROVE evict[f].victim # p /\ evict[f].dpage # p
  <2>1. f \in Executors \ {x} /\ ~Holds(f, "dpage", p) /\ evict[f].victim # p
    BY DEF Executors, Evictors, Apart, Roles
  <2> QED  BY <2>1 DEF Holds
<1> QED  BY <1>1, <1>2

\* A frame or page that is no reserve is nobody's reserve.
LEMMA NotReserve ==
    ASSUME OwnerInv, PlaceInv, NEW n \in Pages, page[n].reserve = 0 \/ Mapped(n),
           NEW q \in Pages, Mapped(q)
    PROVE  page[q].reserve # n
  BY ReserveFacts DEF Pages

\* A first touch enters a free frame in the hash table: an address that was
\* never written, before and after.
LEMMA AllocateData ==
    ASSUME OwnerInv, PlaceInv, PlaceInv', DataInv, NEW t \in Threads, failed' = "none",
           FirstAllocate(t), find_page(fault[t].addr) = 0
    PROVE  DataInv' /\ MemKept
<1>n. PICK n, v : n = fault[t].frees[1] /\ v = fault[t].addr
  OBVIOUS
<1>0. /\ t \in Executors /\ TypeOK /\ page \in [Pages -> UserPage] /\ pages \in [VA -> Pages \cup {0}]
      /\ fault[t] \in FaultLocals /\ ThreadOK(t) /\ FreeOK(t) /\ OnlyMoves(t)
      /\ fault[t].frees \in Seq(Pages)
  BY ThreadFacts, OwnerWeaker, FirstInv DEF PlaceInv, HeldOK, TypeOK, OwnerInv, TypeInv, StepOK
<1>1. /\ pc[t] = "allocate" /\ pc'[t] = "map" /\ UNCHANGED <<pte, disk, fault>>
      /\ page' = [page EXCEPT ![n].migrating = TRUE, ![n].swapped_out = FALSE, ![n].va = v]
      /\ pages' = [pages EXCEPT ![v] = n] /\ pages[v] = 0
  BY <1>0, <1>n DEF FirstAllocate, At, Abort, NewPage, add_page, find_page, TypeOK
<1>2. /\ n \in Pages /\ 1 \in DOMAIN fault[t].frees /\ FrameDesc(page[n]) /\ v \in VA
      /\ fault[t].reading = <<>>
  <2>1. Len(fault[t].frees) = 1 /\ fault[t].reading = <<>> /\ v \in VA
    BY <1>0, <1>1, <1>n DEF ThreadOK, FirstPcs
  <2>2. 1 \in DOMAIN fault[t].frees
    BY <1>0, <2>1
  <2> QED  BY <1>0, <1>1, <1>n, <2>1, <2>2 DEF FreeOK
<1>3. /\ page'[n].reserve = 0 /\ page'[n].in_dram
      /\ \A q \in Pages \ {n} : page'[q] = page[q]
  <2>1. page'[n] = [page[n] EXCEPT !.migrating = TRUE, !.swapped_out = FALSE, !.va = v]
        /\ page[n] \in UserPage
        /\ \A q \in Pages \ {n} : page'[q] = page[q]
    BY <1>0, <1>1, <1>2
  <2>2. [page[n] EXCEPT !.migrating = TRUE, !.swapped_out = FALSE, !.va = v].reserve = page[n].reserve
        /\ [page[n] EXCEPT !.migrating = TRUE, !.swapped_out = FALSE, !.va = v].in_dram
             = page[n].in_dram
    BY <2>1 DEF UserPage
  <2> QED  BY <1>2, <2>1, <2>2 DEF FrameDesc
<1>4. \A q \in Pages \ {n} : SameData(q)
  BY <1>1, <1>3 DEF SameData, PteOf
<1>5. ReserveData(n)'
  BY <1>3 DEF ReserveData
<1>6. \A q \in Pages : Mapped(q) => page[q].reserve # n
  BY <1>2, NotReserve DEF FrameDesc
<1>7. \A f \in Executors \ {t} : Apart(f, n)
  <2>1. Holds(t, "free", n)
    BY <1>2, <1>n DEF Holds
  <2> QED  BY <1>0, <1>2, <2>1, NotOthers DEF Roles
<1>8. BufData(t)' /\ VictimData(t)'
  BY <1>1, <1>2, BufStill DEF VictimData
<1>c. PICK C : C = {n}
  OBVIOUS
<1>d. C \in SUBSET Pages /\ \A q : q \in C <=> q = n
  BY <1>2, <1>c
<1>9. DataInv'
  <2>1. \A q \in Pages \ C : SameData(q) /\ (Mapped(q) => page[q].reserve \notin C)
    BY <1>4, <1>6, <1>d
  <2>2. \A q \in C : ReserveData(q)'
    BY <1>5, <1>d
  <2>3. /\ \A f \in Threads \ {t} :
             \A i \in DOMAIN fault[f].reading : fault[f].reading[i] \notin C
        /\ \A f \in Evictors \ {t} : evict[f].victim \notin C /\ evict[f].dpage \notin C
    <3>1. /\ \A f \in Threads \ {t} :
               \A i \in DOMAIN fault[f].reading : fault[f].reading[i] # n
          /\ \A f \in Evictors \ {t} : evict[f].victim # n /\ evict[f].dpage # n
      BY <1>0, <1>7, ApartData
    <3> QED  BY <1>d, <3>1
  <2> QED  BY <1>0, <1>1, <1>8, <1>d, <2>1, <2>2, <2>3, DataLift
<1>10. ASSUME NEW w \in VA PROVE MemAt(w)' = MemAt(w)
  <2>1. CASE w = v
    <3>1. ~pte[v].present
      BY <1>1, <1>2 DEF PlaceInv, PresentHashed
    <3>2. pages'[v] = n
      BY <1>0, <1>1, <1>2
    <3> QED  BY <1>1, <1>3, <2>1, <3>1, <3>2 DEF MemAt
  <2>2. CASE w # v
    <3>1. pages'[w] = pages[w]
      BY <1>0, <1>1, <2>2
    <3>2. pages[w] # n
      BY <1>2, SizeAssumption DEF OwnerInv, TypeInv, UseInv, HashOK, FrameDesc, VA, Pages
    <3> QED  BY <1>1, <1>4, <1>d, <3>1, <3>2, MemLift
  <2> QED  BY <2>1, <2>2
<1> QED  BY <1>9, <1>10 DEF MemKept

\* Then the zero page is mapped there.
LEMMA FirstMapData ==
    ASSUME OwnerInv, PlaceInv, PlaceInv', DataInv, NEW t \in Threads, failed' = "none",
           FirstMap(t)
    PROVE  DataInv' /\ MemKept
<1>n. PICK n : n = fault[t].frees[1]
  OBVIOUS
<1>v. PICK v : v = page[n].va
  OBVIOUS
<1>0. /\ t \in Executors /\ TypeOK /\ page \in [Pages -> UserPage] /\ pte \in [VA -> Pte]
      /\ fault[t] \in FaultLocals /\ ThreadOK(t) /\ FreeOK(t) /\ OnlyMoves(t) /\ LocalMapped(t)
      /\ fault[t].frees \in Seq(Pages)
  BY ThreadFacts, OwnerWeaker, FirstInv DEF PlaceInv, HeldOK, TypeOK, OwnerInv, TypeInv, UseInv, LocalsMapped, StepOK
<1>1. /\ pc[t] = "map" /\ pc'[t] = "add" /\ UNCHANGED <<disk, fault, pages>>
      /\ page' = [page EXCEPT ![n].migrating = FALSE, ![n].swapped_out = FALSE]
      /\ pte' = [pte EXCEPT ![v] = [present |-> TRUE, wp |-> FALSE, dirty |-> FALSE, data |-> Zero]]
      /\ page[n].in_dram /\ ~pte[v].present
  BY <1>0, <1>n, <1>v DEF FirstMap, At, Abort, NewPage, UffdioCopy, TypeOK
<1>2. /\ n \in Pages /\ 1 \in DOMAIN fault[t].frees /\ Mapped(n) /\ v \in VA
      /\ fault[t].reading = <<>> /\ page[n].reserve = 0
  <2>1. Len(fault[t].frees) = 1 /\ fault[t].reading = <<>>
    BY <1>0, <1>1 DEF ThreadOK, FirstPcs
  <2>2. 1 \in DOMAIN fault[t].frees
    BY <1>0, <2>1
  <2>3. Mapped(n)
    BY <1>0, <1>1, <1>n DEF LocalMapped, LocalUsed
  <2> QED  BY <1>0, <1>1, <1>n, <1>v, <2>1, <2>2, <2>3 DEF FreeOK, Mapped
<1>3. /\ page'[n].reserve = 0 /\ page'[n].va = v
      /\ \A q \in Pages \ {n} : page'[q] = page[q]
  <2>1. page'[n] = [page[n] EXCEPT !.migrating = FALSE, !.swapped_out = FALSE]
        /\ page[n] \in UserPage
        /\ \A q \in Pages \ {n} : page'[q] = page[q]
    BY <1>0, <1>1, <1>2
  <2>2. /\ [page[n] EXCEPT !.migrating = FALSE, !.swapped_out = FALSE].reserve = page[n].reserve
        /\ [page[n] EXCEPT !.migrating = FALSE, !.swapped_out = FALSE].va = page[n].va
    BY <2>1 DEF UserPage
  <2> QED  BY <1>2, <1>v, <2>1, <2>2
<1>p. /\ pte'[v].present /\ pte'[v].data = Zero
      /\ \A w \in VA \ {v} : pte'[w] = pte[w]
  BY <1>0, <1>1, <1>2
<1>4. ASSUME NEW q \in Pages \ {n} PROVE SameData(q)
  <2>1. Mapped(q) => page[q].va \in VA \ {v}
    BY <1>2, <1>v, OtherVa DEF Mapped
  <2> QED  BY <1>3, <1>p, <2>1 DEF SameData, PteOf
<1>5. ReserveData(n)'
  BY <1>3 DEF ReserveData
<1>6. \A q \in Pages : Mapped(q) => page[q].reserve # n
  BY <1>2, NotReserve
<1>7. \A f \in Executors \ {t} : Apart(f, n)
  <2>1. Holds(t, "free", n)
    BY <1>2, <1>n DEF Holds
  <2> QED  BY <1>0, <1>2, <2>1, NotOthers DEF Roles
<1>8. BufData(t)' /\ VictimData(t)'
  BY <1>1, <1>2, BufStill DEF VictimData
<1>c. PICK C : C = {n}
  OBVIOUS
<1>d. C \in SUBSET Pages /\ \A q : q \in C <=> q = n
  BY <1>2, <1>c
<1>9. DataInv'
  <2>1. \A q \in Pages \ C : SameData(q) /\ (Mapped(q) => page[q].reserve \notin C)
    BY <1>4, <1>6, <1>d
  <2>2. \A q \in C : ReserveData(q)'
    BY <1>5, <1>d
  <2>3. /\ \A f \in Threads \ {t} :
             \A i \in DOMAIN fault[f].reading : fault[f].reading[i] \notin C
        /\ \A f \in Evictors \ {t} : evict[f].victim \notin C /\ evict[f].dpage \notin C
    <3>1. /\ \A f \in Threads \ {t} :
               \A i \in DOMAIN fault[f].reading : fault[f].reading[i] # n
          /\ \A f \in Evictors \ {t} : evict[f].victim # n /\ evict[f].dpage # n
      BY <1>0, <1>7, ApartData
    <3> QED  BY <1>d, <3>1
  <2> QED  BY <1>0, <1>1, <1>8, <1>d, <2>1, <2>2, <2>3, DataLift
<1>10. ASSUME NEW w \in VA PROVE MemAt(w)' = MemAt(w)
  <2>1. CASE w = v
    <3>1. pages[v] = n
      BY <1>2, <1>v DEF PlaceInv, Hashed
    <3> QED  BY <1>1, <1>p, <2>1, <3>1 DEF MemAt
  <2>2. CASE w # v
    <3>1. pages[w] # n
      BY <1>2, <1>v, <2>2 DEF OwnerInv, TypeInv, UseInv, HashOK, Pages
    <3> QED  BY <1>1, <1>4, <1>d, <3>1, MemLift
  <2> QED  BY <2>1, <2>2
<1> QED  BY <1>9, <1>10 DEF MemKept

\* The end of a swap-in: what is mapped is what is on disk, and the descriptor
\* that becomes the reserve names the slot it came from.
LEMMA FinishData ==
    ASSUME OwnerInv, PlaceInv, PlaceInv', DataInv, NEW t \in Threads, failed' = "none",
           FinishRead(t)
    PROVE  DataInv' /\ MemKept
<1>p. PICK p, d, b : p = Head(fault[t].reading) /\ d = Head(fault[t].frees)
                     /\ b = Head(fault[t].buf)
  OBVIOUS
<1>v. PICK v : v = page[p].va
  OBVIOUS
<1>0. /\ t \in Executors /\ TypeOK /\ page \in [Pages -> UserPage] /\ pte \in [VA -> Pte]
      /\ fault[t] \in FaultLocals /\ ThreadOK(t) /\ OnlyMoves(t) /\ FreeOK(t) /\ ReadOK(t)
      /\ fault[t].reading \in Seq(Pages) /\ fault[t].frees \in Seq(Pages)
      /\ fault[t].buf \in Seq(Vals) /\ BufData(t) /\ Distinct(fault[t].reading)
  BY ThreadFacts, OwnerWeaker, SwapInInv DEF OwnerInv, TypeInv, UseInv, TypeOK, StepOK, PlaceInv, HeldOK, DataInv,
       FaultLocals
<1>1. /\ pc[t] = "finish" /\ pc'[t] = "publish" /\ UNCHANGED <<pages, disk>>
      /\ fault[t].buf # <<>>
  BY <1>0 DEF FinishRead, At, Abort, TypeOK
<1>a. page' = [page EXCEPT
                ![p].virtual_offset = page[d].virtual_offset,
                ![p].in_dram = @ \/ fault[t].job = "swapin",
                ![p].reserve = d,
                ![d] = AsReserve(page[d], p, page[p].virtual_offset)]
  BY <1>0, <1>p DEF FinishRead, Abort, At, TypeOK, FaultLocals
<1>b. pte' = [pte EXCEPT ![v] = [present |-> TRUE, wp |-> FALSE, dirty |-> FALSE, data |-> b]]
  BY <1>0, <1>p, <1>v DEF FinishRead, Abort, At, UffdioCopy, TypeOK, FaultLocals
<1>f. fault' = [fault EXCEPT ![t].page = p, ![t].reading = Tail(@),
                             ![t].buf = Tail(@), ![t].frees = Tail(@)]
  BY <1>0, <1>p DEF FinishRead, Abort, At, TypeOK, FaultLocals
<1>2. /\ p \in Pages /\ d \in Pages /\ 1 \in DOMAIN fault[t].reading /\ 1 \in DOMAIN fault[t].frees
      /\ p = fault[t].reading[1] /\ d = fault[t].frees[1]
      /\ 1 \in DOMAIN fault[t].buf /\ b = fault[t].buf[1]
      /\ Len(fault[t].buf) = Len(fault[t].reading) /\ fault[t].reading # <<>>
  <2>1. fault[t].reading # <<>> /\ Len(fault[t].frees) = Len(fault[t].reading)
    BY <1>0, <1>1 DEF ThreadOK
  <2>2. Len(fault[t].buf) = Len(fault[t].reading)
    BY <1>0, <1>1 DEF ThreadOK
  <2>3. fault[t].frees # <<>>
    BY <1>0, <2>1
  <2>4. /\ p = fault[t].reading[1] /\ p \in Pages /\ 1 \in DOMAIN fault[t].reading
    BY <1>0, <1>p, <2>1, HeadTail
  <2>5. /\ d = fault[t].frees[1] /\ d \in Pages /\ 1 \in DOMAIN fault[t].frees
    BY <1>0, <1>p, <2>3, HeadTail
  <2>6. b = fault[t].buf[1] /\ 1 \in DOMAIN fault[t].buf
    BY <1>0, <1>1, <1>p, HeadTail
  <2> QED  BY <2>1, <2>2, <2>4, <2>5, <2>6
<1>3. SwappedOut(p) /\ FrameDesc(page[d]) /\ p # d /\ ~Mapped(d) /\ Mapped(p) /\ v \in VA
  <2>1. SwappedOut(p) /\ FrameDesc(page[d])
    BY <1>0, <1>1, <1>2 DEF ReadOK, FreeOK
  <2>2. ~Mapped(d)
    BY <2>1, SizeAssumption DEF FrameDesc, Mapped, VA
  <2> QED  BY <1>v, <2>1, <2>2 DEF SwappedOut, OnDisk, Mapped
<1>4. b = OnSlot(p)
  BY <1>0, <1>2 DEF BufData
<1>5. \A f \in Executors \ {t} : Apart(f, p) /\ Apart(f, d)
  <2>1. Holds(t, "read", p) /\ Holds(t, "free", d)
    BY <1>2 DEF Holds
  <2> QED  BY <1>0, <1>2, <2>1, NotOthers DEF Roles
<1>6. page'[p].va = v /\ page'[p].reserve = d
  <2>1. page'[p] = [page[p] EXCEPT !.virtual_offset = page[d].virtual_offset,
                                   !.in_dram = @ \/ fault[t].job = "swapin", !.reserve = d]
    BY <1>0, <1>2, <1>3, <1>a
  <2> QED  BY <1>0, <1>2, <1>v, <2>1 DEF UserPage
<1>7. page'[d].va = 0 /\ page'[d].virtual_offset = page[p].virtual_offset
  <2>1. page'[d] = AsReserve(page[d], p, page[p].virtual_offset)
    BY <1>0, <1>2, <1>3, <1>a
  <2> QED  BY <1>0, <1>2, <1>3, <2>1 DEF AsReserve, UserPage, FrameDesc
<1>8. \A q \in Pages \ {p, d} : page'[q] = page[q]
  BY <1>0, <1>2, <1>a
<1>9. /\ pte'[v].present /\ pte'[v].data = b /\ \A w \in VA \ {v} : pte'[w] = pte[w]
  BY <1>0, <1>3, <1>b
<1>10. ASSUME NEW q \in Pages \ {p, d} PROVE SameData(q)
  <2>1. Mapped(q) => page[q].va \in VA \ {v}
    BY <1>2, <1>3, <1>v, OtherVa DEF Mapped
  <2> QED  BY <1>8, <1>9, <2>1 DEF SameData, PteOf
<1>11. ReserveData(p)' /\ ReserveData(d)'
  <2>1. OnSlot(d)' = b
    BY <1>1, <1>4, <1>7 DEF OnSlot
  <2>2. ReserveData(p)'
    BY <1>6, <1>9, <2>1 DEF ReserveData, PteOf, OnSlot
  <2>3. ~Mapped(d)'
    BY <1>7, SizeAssumption DEF Mapped, VA
  <2> QED  BY <2>2, <2>3 DEF ReserveData
<1>12. \A q \in Pages : Mapped(q) => page[q].reserve # p /\ page[q].reserve # d
  BY <1>2, <1>3, NotReserve DEF FrameDesc
<1>13. BufData(t)'
  <2>1. fault'[t].buf = Tail(fault[t].buf) /\ fault'[t].reading = Tail(fault[t].reading)
    <3>1. fault'[t] = [fault[t] EXCEPT !.page = p, !.reading = Tail(@), !.buf = Tail(@),
                                       !.frees = Tail(@)]
      BY <1>0, <1>f DEF TypeOK
    <3> QED  BY <1>0, <3>1 DEF FaultLocals
  <2>2. ASSUME NEW i \in DOMAIN Tail(fault[t].buf), NEW q, q = Tail(fault[t].reading)[i]
        PROVE  Tail(fault[t].buf)[i] = OnSlot(q)'
    <3>1. /\ i + 1 \in DOMAIN fault[t].buf /\ i + 1 \in DOMAIN fault[t].reading /\ i + 1 # 1
          /\ Tail(fault[t].buf)[i] = fault[t].buf[i + 1]
          /\ Tail(fault[t].reading)[i] = fault[t].reading[i + 1]
      <4>1. i \in 1 .. Len(fault[t].buf) - 1 /\ DOMAIN fault[t].buf = 1 .. Len(fault[t].buf)
            /\ Tail(fault[t].buf)[i] = fault[t].buf[i + 1] /\ Len(fault[t].buf) \in Nat
        BY <1>0, <1>1, HeadTail
      <4>2. DOMAIN fault[t].reading = 1 .. Len(fault[t].buf)
            /\ Tail(fault[t].reading)[i] = fault[t].reading[i + 1]
        BY <1>0, <1>2, <4>1, HeadTail
      <4> QED  BY <4>1, <4>2
    <3>q. q = fault[t].reading[i + 1]
      BY <2>2, <3>1
    <3>2. q \in Pages /\ Mapped(q)
      BY <1>0, <3>1, <3>q DEF ReadOK, SwappedOut, OnDisk
    <3>3. q # p
      BY <1>0, <1>2, <3>1, <3>q DEF Distinct
    <3>4. q # d
      BY <1>3, <3>2
    <3>5. OnSlot(q)' = OnSlot(q)
      BY <1>1, <1>8, <3>2, <3>3, <3>4 DEF OnSlot
    <3>6. fault[t].buf[i + 1] = OnSlot(q)
      BY <1>0, <3>1, <3>q DEF BufData
    <3> QED  BY <3>1, <3>5, <3>6
  <2> QED  BY <2>1, <2>2 DEF BufData, OnSlot
<1>14. VictimData(t)'
  BY <1>1 DEF VictimData
<1>c. PICK C : C = {p, d}
  OBVIOUS
<1>d. C \in SUBSET Pages /\ \A q : q \in C <=> q = p \/ q = d
  BY <1>2, <1>c
<1>15. DataInv'
  <2>1. \A q \in Pages \ C : SameData(q) /\ (Mapped(q) => page[q].reserve \notin C)
    BY <1>10, <1>12, <1>d
  <2>2. \A q \in C : ReserveData(q)'
    BY <1>11, <1>d
  <2>3. /\ \A f \in Threads \ {t} :
             \A i \in DOMAIN fault[f].reading : fault[f].reading[i] \notin C
        /\ \A f \in Evictors \ {t} : evict[f].victim \notin C /\ evict[f].dpage \notin C
    <3>1. /\ \A f \in Threads \ {t} :
               \A i \in DOMAIN fault[f].reading : fault[f].reading[i] # p
          /\ \A f \in Evictors \ {t} : evict[f].victim # p /\ evict[f].dpage # p
      BY <1>0, <1>5, ApartData
    <3>2. /\ \A f \in Threads \ {t} :
               \A i \in DOMAIN fault[f].reading : fault[f].reading[i] # d
          /\ \A f \in Evictors \ {t} : evict[f].victim # d /\ evict[f].dpage # d
      BY <1>0, <1>5, ApartData
    <3> QED  BY <1>d, <3>1, <3>2
  <2> QED  BY <1>0, <1>1, <1>13, <1>14, <1>d, <2>1, <2>2, <2>3, DataLift
<1>16. ASSUME NEW w \in VA PROVE MemAt(w)' = MemAt(w)
  <2>1. CASE w = v
    <3>1. pages[v] = p /\ p # 0
      BY <1>2, <1>3, <1>v DEF PlaceInv, Hashed, Pages
    <3>2. ~pte[v].present /\ ~page[p].in_dram
      BY <1>3, <1>v DEF SwappedOut, OnDisk, Present
    <3> QED  BY <1>4, <1>9, <2>1, <3>1, <3>2 DEF MemAt, OnSlot
  <2>2. CASE w # v
    <3>1. pages[w] # p
      BY <1>2, <1>v, <2>2 DEF OwnerInv, TypeInv, UseInv, HashOK, Pages
    <3>2. pages[w] # d
      BY <1>2, <1>3, SizeAssumption DEF OwnerInv, TypeInv, UseInv, HashOK, FrameDesc, VA, Pages
    <3> QED  BY <1>1, <1>10, <1>d, <3>1, <3>2, MemLift
  <2> QED  BY <2>1, <2>2
<1> QED  BY <1>15, <1>16 DEF MemKept

-----------------------------------------------------------------------------
(* The whole.                                                               *)

\* A reclaim scan moves pages between lists and nothing else.
LEMMA ScanData ==
    ASSUME OwnerInv, PlaceInv, PlaceInv', DataInv, NEW e \in Scanners, ScanStep(e)
    PROVE  DataInv' /\ MemKept
<1>0. e \in Executors /\ OnlyMoves(e) /\ TypeOK /\ page \in [Pages -> UserPage]
  BY ScanInv DEF OwnerInv, TypeInv, UseInv, TypeOK, StepOK, Scanners, Executors
<1>1. /\ UNCHANGED <<pages, pte, disk, fault, evict>>
      /\ pc'[e] \notin {"back", "write", "unmap"}
      /\ \E p, l : page' = [page EXCEPT ![p].list = l]
  BY <1>0 DEF ScanStep, ScanInactive, ScanActive, KeepOrEvict, Deactivate, ScanTake,
       ScanPut, ScanPoint, At, TypeOK
<1>2. ASSUME NEW q \in Pages PROVE SameData(q)
  <2>1. page'[q] = page[q] \/ \E l : page'[q] = [page[q] EXCEPT !.list = l]
    BY <1>0, <1>1
  <2>2. page[q] \in UserPage
    BY <1>0
  <2>3. ASSUME NEW l PROVE SameFields([page[q] EXCEPT !.list = l], page[q])
    BY <2>2 DEF SameFields, UserPage
  <2>4. SameFields(page[q], page[q])
    BY DEF SameFields
  <2>5. SameFields(page'[q], page[q])
    BY <2>1, <2>3, <2>4
  <2> QED  BY <1>1, <2>5, FlagsOnly
<1>3. e \in Threads => BufData(e)'
  <2>1. ASSUME e \in Threads PROVE fault[e].reading \in Seq(Pages)
    BY <2>1, ThreadFacts, OwnerWeaker
  <2> QED  BY <1>1, <1>2, <2>1, BufStill DEF SameData
<1>4. VictimData(e)'
  BY <1>1 DEF VictimData
<1> QED  BY <1>0, <1>1, <1>2, <1>3, <1>4, DataStill

\* At the start nothing is mapped.
LEMMA InitData == Init => DataInv
<1> SUFFICES ASSUME Init PROVE DataInv
  OBVIOUS
<1>1. \A p \in Pages : ~Mapped(p)
  BY SizeAssumption DEF Init, InitPages, InitPage, Mapped, VA
<1>2. \A t \in Threads : fault[t].buf = <<>>
  BY DEF Init, NoFault
<1>3. \A e \in Evictors : pc[e] = "idle"
  BY DEF Init, Evictors, Executors
<1> QED  BY <1>1, <1>2, <1>3 DEF DataInv, ReserveData, BufData, VictimData

\* Every step keeps the invariant, and what the application sees unless it is
\* the application's own store.
LEMMA NextData ==
    ASSUME FullInv, PlaceInv', DataInv, [Next]_vars
    PROVE  /\ DataInv'
           /\ \/ Mem' = Mem
              \/ \E t \in Threads, v \in VA, x \in Vals :
                   Store(t, v, x) /\ Mem' = [Mem EXCEPT ![v] = x]
<1>0. OwnerInv /\ PlaceInv /\ FrameInv
  BY DEF FullInv, AllInv
<1>e. /\ Threads \subseteq Evictors /\ Workers \subseteq Evictors
      /\ Threads \subseteq Scanners /\ Kswapd \subseteq Scanners
  BY DEF Evictors, Scanners
<1>1. CASE UNCHANGED vars \/ Crash
  <2>1. UNCHANGED <<page, pages, pte, disk, pc, fault, evict>>
    BY <1>1 DEF vars, Crash, sharedVars
  <2>2. /\ \A p : ReserveData(p)' <=> ReserveData(p)
        /\ \A t : BufData(t)' <=> BufData(t)
        /\ \A e : VictimData(e)' <=> VictimData(e)
    BY <2>1 DEF ReserveData, BufData, VictimData, PteOf, OnSlot, Mapped, NeedsWriteback
  <2> QED  BY <2>1, <2>2 DEF DataInv, Mem
<1>2. ASSUME NEW t \in Threads, Application(t)
      PROVE  /\ DataInv'
             /\ \/ MemKept
                \/ \E v \in VA, x \in Vals : Store(t, v, x) /\ Mem' = [Mem EXCEPT ![v] = x]
  <2>1. PICK v \in VA : Touch(t, v) \/ \E x \in Vals : Store(t, v, x)
    BY <1>2 DEF Application
  <2>2. CASE Touch(t, v)
    BY <1>0, <2>2, TouchData
  <2>3. ASSUME NEW x \in Vals, Store(t, v, x) PROVE DataInv' /\ Mem' = [Mem EXCEPT ![v] = x]
    BY <1>0, <2>3, StoreData
  <2> QED  BY <2>1, <2>2, <2>3
<1>3. ASSUME NEW e \in Scanners, ScanStep(e) PROVE DataInv' /\ MemKept
  BY <1>0, <1>3, ScanData
<1>4. ASSUME NEW e \in Evictors, EvictStep(e), failed' = "none" PROVE DataInv' /\ MemKept
  BY <1>0, <1>4, EvictDataStill, ProtectData, WriteData, UnmapData, HandOnData
     DEF EvictStep, Evictors
<1>5. ASSUME NEW t \in Threads, ThreadStep(t), ~Crash PROVE DataInv' /\ MemKept
  <2>1. FaultStep(t) \/ EvictStep(t) => failed' = "none"
    BY <1>5, AbortCrashes
  <2>2. FaultStep(t) => DataInv' /\ MemKept
    BY <1>0, <2>1, FaultDataStill, FinishData, FirstMapData, AllocateData
  <2> QED  BY <1>e, <1>3, <1>4, <1>5, <2>1, <2>2 DEF ThreadStep
<1>6. ASSUME NEW w \in Workers, WorkerStep(w), ~Crash PROVE DataInv' /\ MemKept
  <2>1. failed' = "none"
    BY <1>6, AbortCrashes
  <2> QED  BY <1>0, <1>e, <1>4, <1>6, <2>1, EvictDataStill DEF WorkerStep
<1> QED  BY <1>e, <1>1, <1>2, <1>3, <1>5, <1>6, MemPointwise DEF Next, Aborted

\* All of it is invariant.
LEMMA DataInvariance == Spec => [](FullInv /\ DataInv)
<1>1. FullInv /\ DataInv /\ [Next]_vars => FullInv' /\ DataInv'
  <2>1. FullInv /\ [Next]_vars => PlaceInv'
    BY NextFull DEF FullInv, AllInv
  <2> QED  BY <2>1, NextFull, NextData
<1> QED  BY <1>1, InitFull, InitData, PTL DEF Spec

\* A mapped page that is clean and has a reserve is on disk as it is in
\* memory: the eviction that skips the write of a clean page loses nothing.
THEOREM ReserveIsCurrentHolds == Spec => []ReserveIsCurrent
<1>1. FullInv /\ DataInv => ReserveIsCurrent
  <2> SUFFICES ASSUME OwnerInv, PlaceInv, DataInv, NEW v \in VA, pte[v].present, ~pte[v].dirty,
                      page[pages[v]].reserve # 0
               PROVE  disk[page[page[pages[v]].reserve].virtual_offset] = pte[v].data
    BY DEF FullInv, AllInv, ReserveIsCurrent
  <2>1. pages[v] \in Pages /\ page[pages[v]].va = v
    BY PresentResident
  <2>2. ReserveData(pages[v])
    BY <2>1 DEF DataInv
  <2> QED  BY <2>1, <2>2 DEF ReserveData, PteOf, OnSlot, Mapped
<1> QED  BY <1>1, DataInvariance, PTL

\* Swapping is transparent: no interleaving of faults, evictions, prefetches
\* and scans changes what the application would read, and a store changes the
\* page it stores to and no other.
THEOREM SwapTransparentHolds == Spec => SwapTransparent
<1>1. FullInv /\ DataInv /\ [Next]_vars =>
        [\/ Mem' = Mem
         \/ \E t \in Threads, v \in VA, x \in Vals :
              Store(t, v, x) /\ Mem' = [Mem EXCEPT ![v] = x]]_vars
  <2>1. FullInv /\ [Next]_vars => PlaceInv'
    BY NextFull DEF FullInv, AllInv
  <2> QED  BY <2>1, NextData
<1> QED  BY <1>1, DataInvariance, PTL DEF Spec, SwapTransparent

=============================================================================
