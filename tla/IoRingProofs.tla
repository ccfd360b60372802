---------------------------- MODULE IoRingProofs ----------------------------
(***************************************************************************)
(* Proofs about IoRing: completions are only counted, never matched with a *)
(* request, and yet what a caller awaited is complete, because the number  *)
(* of requests in each ring of a thread is known at every program point.   *)
(* IoInv says which number that is.                                        *)
(***************************************************************************)
EXTENDS IoRing, FiniteSetTheorems, TLAPS

-----------------------------------------------------------------------------
(* The inductive invariant.                                                 *)

RingType == [init : BOOLEAN, sq : SUBSET Requests, flight : SUBSET Requests,
             cq : SUBSET Requests]

Pcs == {"idle", "search", "search_first", "write_wait", "written", "finish", "finish_batch",
        "use", "use_batch", "prefetch", "collect", "prepare", "receive", "unmap"}

WorkerPcs == {"idle", "prepare", "receive", "unmap"}

\* What a ring holds: requests whose completion has not been seen.
Out(rg) == rg.sq \cup rg.flight \cup rg.cq

\* Where a thread is, apart from a write of its own.
Phase(e) == IF pc[e] \in {"write_wait", "written"} THEN back[e] ELSE pc[e]

Kinds(r) == IF r = "read" THEN {"swapin", "batch"} ELSE {"evict", "vector"}

\* How many requests are in ring r of e.
Owed(e, r) ==
    IF r = "read"
    THEN CASE Phase(e) \in {"search", "finish"} -> 1
           [] Phase(e) \in {"collect", "finish_batch"} -> await[e]
           [] Phase(e) = "prefetch" -> await[e] - left[e]
           [] OTHER -> 0
    ELSE CASE pc[e] = "write_wait" -> 1
           [] pc[e] \in {"prepare", "receive"} -> await[e]
           [] OTHER -> 0

\* Where the requests of ring r are prepared one by one, from the last one down.
Filling(e, r) == pc[e] = IF r = "read" THEN "prefetch" ELSE "prepare"

\* A request is in one of the three sets of its ring.
Apart(rg) == /\ rg.sq \cap rg.flight = {} /\ rg.sq \cap rg.cq = {}
             /\ rg.flight \cap rg.cq = {}

RingOK(e, r) ==
    LET rg == ring[e][r]
    IN  /\ IsFiniteSet(Out(rg)) /\ Cardinality(Out(rg)) = Owed(e, r)
        /\ Apart(rg)
        /\ \A c \in Out(rg) : c[1] \in Kinds(r)
        /\ Filling(e, r) => \A c \in Out(rg) : c[2] > left[e]
        /\ ~Filling(e, r) => rg.sq = {}

ReaderOK(e) ==
    /\ pc[e] \in Pcs \ (WorkerPcs \ {"idle"})
    /\ pc[e] \in {"write_wait", "written"} => back[e] \in Searching
    /\ Phase(e) \in {"idle", "search_first", "use", "use_batch"} => left[e] = 0 /\ await[e] = 0
    /\ Phase(e) = "search" => left[e] = 1 /\ await[e] = 0
    /\ Phase(e) = "finish" => left[e] = 0 /\ await[e] = 1
    /\ Phase(e) = "prefetch" => left[e] <= await[e] /\ await[e] <= Batch
    /\ Phase(e) = "collect" => 1 <= left[e] /\ left[e] <= await[e] /\ await[e] <= Batch
    /\ Phase(e) = "finish_batch" => left[e] = 0 /\ 1 <= await[e] /\ await[e] <= Batch
    /\ Phase(e) \in {"search", "finish", "use"} => ring[e]["read"].init
    /\ pc[e] = "prefetch" /\ (e \in Threads \/ left[e] < await[e]) => ring[e]["read"].init

WorkerOK(e) ==
    /\ pc[e] \in WorkerPcs
    /\ pc[e] \in {"idle", "unmap"} => left[e] = 0 /\ await[e] = 0
    /\ pc[e] = "prepare" => left[e] + await[e] <= Vector
    /\ pc[e] = "prepare" /\ await[e] > 0 => ring[e]["write"].init
    /\ pc[e] = "receive" => left[e] = 0 /\ await[e] <= Vector

ExecOK(e) == /\ e \in Readers => ReaderOK(e)
             /\ e \in Workers => WorkerOK(e)
             /\ \A r \in Rings : RingOK(e, r)

IoInv == TypeOK /\ OnlyEmptyRoundFails /\ \A e \in Executors : ExecOK(e)

-----------------------------------------------------------------------------
(* What the operations on a ring do to it.                                  *)

Seen(rg, c) == [rg EXCEPT !.cq = @ \ {c}]

Completed(rg, c) == [rg EXCEPT !.flight = @ \ {c}, !.cq = @ \cup {c}]

\* A request is added.
LEMMA PreparedRing ==
    ASSUME NEW rg \in RingType, NEW c \in Requests, c \notin Out(rg), IsFiniteSet(Out(rg)),
           Apart(rg)
    PROVE  /\ Prepared(rg, c) \in RingType /\ Prepared(rg, c).init
           /\ Out(Prepared(rg, c)) = Out(rg) \cup {c}
           /\ IsFiniteSet(Out(Prepared(rg, c)))
           /\ Cardinality(Out(Prepared(rg, c))) = Cardinality(Out(rg)) + 1
           /\ Apart(Prepared(rg, c))
<1>1. /\ Prepared(rg, c) \in RingType /\ Prepared(rg, c).init
      /\ Prepared(rg, c).sq = rg.sq \cup {c}
      /\ Prepared(rg, c).flight = rg.flight /\ Prepared(rg, c).cq = rg.cq
  BY DEF Prepared, Initialised, RingType
<1>2. Out(Prepared(rg, c)) = Out(rg) \cup {c}
  BY <1>1 DEF Out
<1>3. Apart(Prepared(rg, c))
  BY <1>1 DEF Out, Apart
<1> QED  BY <1>1, <1>2, <1>3, FS_AddElement

\* What was prepared is submitted.
LEMMA SubmittedRing ==
    ASSUME NEW rg \in RingType, Apart(rg)
    PROVE  /\ Submit(rg) \in RingType /\ Submit(rg).init = rg.init
           /\ Submit(rg).sq = {} /\ Out(Submit(rg)) = Out(rg) /\ Apart(Submit(rg))
<1>1. /\ Submit(rg) \in RingType /\ Submit(rg).init = rg.init
      /\ Submit(rg).sq = {} /\ Submit(rg).flight = rg.flight \cup rg.sq
      /\ Submit(rg).cq = rg.cq
  BY DEF Submit, RingType
<1>2. Out(Submit(rg)) = Out(rg)
  BY <1>1 DEF Out
<1>3. Apart(Submit(rg))
  BY <1>1 DEF Apart
<1> QED  BY <1>1, <1>2, <1>3

\* A completion is seen: one request less.
LEMMA SeenRing ==
    ASSUME NEW rg \in RingType, NEW c \in rg.cq, IsFiniteSet(Out(rg)), Apart(rg)
    PROVE  /\ Seen(rg, c) \in RingType /\ Seen(rg, c).init = rg.init
           /\ Seen(rg, c).sq = rg.sq
           /\ Out(Seen(rg, c)) = Out(rg) \ {c} /\ IsFiniteSet(Out(Seen(rg, c)))
           /\ Cardinality(Out(Seen(rg, c))) = Cardinality(Out(rg)) - 1
           /\ Apart(Seen(rg, c))
<1>1. /\ Seen(rg, c) \in RingType /\ Seen(rg, c).init = rg.init
      /\ Seen(rg, c).sq = rg.sq /\ Seen(rg, c).flight = rg.flight
      /\ Seen(rg, c).cq = rg.cq \ {c}
  BY DEF Seen, RingType
<1>2. Out(Seen(rg, c)) = Out(rg) \ {c} /\ c \in Out(rg)
  BY <1>1 DEF Out, Apart
<1>3. Apart(Seen(rg, c))
  BY <1>1 DEF Apart
<1> QED  BY <1>1, <1>2, <1>3, FS_RemoveElement

\* The device completes a request, which stays in the ring.
LEMMA CompletedRing ==
    ASSUME NEW rg \in RingType, NEW c \in rg.flight, Apart(rg)
    PROVE  /\ Completed(rg, c) \in RingType /\ Completed(rg, c).init = rg.init
           /\ Completed(rg, c).sq = rg.sq
           /\ Out(Completed(rg, c)) = Out(rg) /\ Apart(Completed(rg, c))
<1>1. /\ Completed(rg, c) \in RingType /\ Completed(rg, c).init = rg.init
      /\ Completed(rg, c).sq = rg.sq /\ Completed(rg, c).flight = rg.flight \ {c}
      /\ Completed(rg, c).cq = rg.cq \cup {c}
  BY DEF Completed, RingType
<1>2. Out(Completed(rg, c)) = Out(rg)
  BY <1>1 DEF Out
<1>3. Apart(Completed(rg, c))
  BY <1>1 DEF Apart
<1> QED  BY <1>1, <1>2, <1>3

-----------------------------------------------------------------------------
(* What a step of an executor leaves alone.                                 *)

\* The step is one of e.
OnlyMoves(e) == \A f \in Executors \ {e} : /\ ring'[f] = ring[f] /\ pc'[f] = pc[f]
                                           /\ left'[f] = left[f] /\ await'[f] = await[f]
                                           /\ back'[f] = back[f]

\* The others' part of the invariant stays.
LEMMA OthersOK ==
    ASSUME NEW e \in Executors, OnlyMoves(e), NEW f \in Executors \ {e}, ExecOK(f)
    PROVE  ExecOK(f)'
<1>1. /\ ring'[f] = ring[f] /\ pc'[f] = pc[f] /\ left'[f] = left[f] /\ await'[f] = await[f]
      /\ back'[f] = back[f]
  BY DEF OnlyMoves
<1>2. Phase(f)' = Phase(f)
  BY <1>1 DEF Phase
<1>3. ASSUME NEW r \in Rings PROVE RingOK(f, r)'
  <2>1. Owed(f, r)' = Owed(f, r)
    BY <1>1, <1>2 DEF Owed
  <2>2. Filling(f, r)' <=> Filling(f, r)
    BY <1>1 DEF Filling
  <2>3. RingOK(f, r)
    BY DEF ExecOK
  <2> QED  BY <1>1, <2>1, <2>2, <2>3 DEF RingOK
<1>4. ReaderOK(f) => ReaderOK(f)'
  BY <1>1, <1>2 DEF ReaderOK
<1>5. WorkerOK(f) => WorkerOK(f)'
  BY <1>1 DEF WorkerOK
<1> QED  BY <1>3, <1>4, <1>5 DEF ExecOK

\* A ring that the step does not touch, and whose count it does not change.
LEMMA RingStays ==
    ASSUME NEW e, NEW r \in Rings, RingOK(e, r), ring'[e][r] = ring[e][r],
           Owed(e, r)' = Owed(e, r), ~Filling(e, r), ~Filling(e, r)'
    PROVE  RingOK(e, r)'
  BY DEF RingOK

\* The rows of an executor, and nothing else, change.
LEMMA RowUpdate ==
    ASSUME TypeOK, NEW e \in Executors, NEW r \in Rings, NEW X \in RingType,
           ring' = [ring EXCEPT ![e][r] = X]
    PROVE  /\ ring' \in [Executors -> [Rings -> RingType]]
           /\ ring'[e][r] = X /\ \A s \in Rings \ {r} : ring'[e][s] = ring[e][s]
           /\ \A f \in Executors \ {e} : ring'[f] = ring[f]
<1>1. ring \in [Executors -> [Rings -> RingType]]
  BY DEF TypeOK, RingType
<1>2. ring'[e] = [ring[e] EXCEPT ![r] = X] /\ ring[e] \in [Rings -> RingType]
  BY <1>1
<1>3. ring'[e] \in [Rings -> RingType]
  BY <1>2
<1>4. ring' = [ring EXCEPT ![e] = ring'[e]]
  BY <1>1, <1>2
<1> QED  BY <1>1, <1>2, <1>3, <1>4

-----------------------------------------------------------------------------
(* How the parts of the invariant come together after a step.               *)

\* Out of nothing owed follows an empty ring.
LEMMA NothingOwed ==
    ASSUME NEW e, NEW r \in Rings, RingOK(e, r), Owed(e, r) = 0
    PROVE  /\ Out(ring[e][r]) = {} /\ ring[e][r].sq = {} /\ ring[e][r].flight = {}
           /\ ring[e][r].cq = {}
<1>1. Out(ring[e][r]) = {}
  BY FS_EmptySet DEF RingOK
<1> QED  BY <1>1 DEF Out

\* An empty ring that the step does not touch.
LEMMA EmptyStays ==
    ASSUME NEW e, NEW r \in Rings, RingOK(e, r), Owed(e, r) = 0, ring'[e][r] = ring[e][r],
           Owed(e, r)' = 0
    PROVE  RingOK(e, r)'
<1>1. Out(ring[e][r]) = {} /\ ring[e][r].sq = {}
  BY NothingOwed
<1> QED  BY <1>1 DEF RingOK

\* A step of a thread or a prefetch worker.
LEMMA ReaderMoved ==
    ASSUME IoInv, NEW e \in Readers, OnlyMoves(e), TypeOK', failed' = "none", ReaderOK(e)',
           RingOK(e, "read")', RingOK(e, "write")'
    PROVE  IoInv'
<1>1. e \in Executors /\ e \notin Workers
  BY IoAssumption DEF Readers, Executors
<1>2. ExecOK(e)'
  BY <1>1 DEF ExecOK, Rings
<1>3. ASSUME NEW f \in Executors PROVE ExecOK(f)'
  BY <1>1, <1>2, OthersOK DEF IoInv
<1>4. OnlyEmptyRoundFails'
  BY DEF OnlyEmptyRoundFails
<1> QED  BY <1>3, <1>4 DEF IoInv

\* A step of an eviction worker.
LEMMA WorkerMoved ==
    ASSUME IoInv, NEW e \in Workers, OnlyMoves(e), TypeOK', failed' = "none", WorkerOK(e)',
           RingOK(e, "read")', RingOK(e, "write")'
    PROVE  IoInv'
<1>1. e \in Executors /\ e \notin Readers
  BY IoAssumption DEF Readers, Executors
<1>2. ExecOK(e)'
  BY <1>1 DEF ExecOK, Rings
<1>3. ASSUME NEW f \in Executors PROVE ExecOK(f)'
  BY <1>1, <1>2, OthersOK DEF IoInv
<1>4. OnlyEmptyRoundFails'
  BY DEF OnlyEmptyRoundFails
<1> QED  BY <1>3, <1>4 DEF IoInv

\* What is known of a thread or prefetch worker.
LEMMA ReaderFacts ==
    ASSUME IoInv, NEW e \in Readers
    PROVE  /\ e \in Executors /\ ReaderOK(e) /\ RingOK(e, "read") /\ RingOK(e, "write")
           /\ ring[e]["read"] \in RingType /\ ring[e]["write"] \in RingType
           /\ left[e] \in Nat /\ await[e] \in Nat /\ TypeOK
<1>1. e \in Executors
  BY DEF Readers, Executors
<1>2. TypeOK /\ ExecOK(e)
  BY <1>1 DEF IoInv
<1>3. ring[e]["read"] \in RingType /\ ring[e]["write"] \in RingType
  <2>1. ring \in [Executors -> [Rings -> RingType]]
    BY <1>2 DEF TypeOK, RingType
  <2>2. "read" \in Rings /\ "write" \in Rings
    BY DEF Rings
  <2> QED  BY <1>1, <2>1, <2>2
<1>4. left[e] \in Nat /\ await[e] \in Nat
  <2>1. left \in [Executors -> 0 .. QD] /\ await \in [Executors -> 0 .. QD]
    BY <1>2 DEF TypeOK
  <2> QED  BY <1>1, <2>1, IoAssumption
<1> QED  BY <1>1, <1>2, <1>3, <1>4 DEF ExecOK, Rings

\* What is known of an eviction worker.
LEMMA WorkerFacts ==
    ASSUME IoInv, NEW e \in Workers
    PROVE  /\ e \in Executors /\ WorkerOK(e) /\ RingOK(e, "read") /\ RingOK(e, "write")
           /\ ring[e]["read"] \in RingType /\ ring[e]["write"] \in RingType
           /\ left[e] \in Nat /\ await[e] \in Nat /\ TypeOK
<1>1. e \in Executors
  BY DEF Executors
<1>2. TypeOK /\ ExecOK(e)
  BY <1>1 DEF IoInv
<1>3. ring[e]["read"] \in RingType /\ ring[e]["write"] \in RingType
  <2>1. ring \in [Executors -> [Rings -> RingType]]
    BY <1>2 DEF TypeOK, RingType
  <2>2. "read" \in Rings /\ "write" \in Rings
    BY DEF Rings
  <2> QED  BY <1>1, <2>1, <2>2
<1>4. left[e] \in Nat /\ await[e] \in Nat
  <2>1. left \in [Executors -> 0 .. QD] /\ await \in [Executors -> 0 .. QD]
    BY <1>2 DEF TypeOK
  <2> QED  BY <1>1, <2>1, IoAssumption
<1> QED  BY <1>1, <1>2, <1>3, <1>4 DEF ExecOK, Rings

-----------------------------------------------------------------------------
(* Steps that do not touch a ring.                                          *)

\* Where e goes, what it has left to do, how much it awaits and where it returns.
Rows(e, l, m, n, b) == /\ pc' = [pc EXCEPT ![e] = l] /\ left' = [left EXCEPT ![e] = m]
                       /\ await' = [await EXCEPT ![e] = n] /\ back' = [back EXCEPT ![e] = b]

\* The rings keep their type, and those of others their contents.
OwnRings(e) == /\ ring' \in [Executors -> [Rings -> RingType]]
               /\ \A f \in Executors \ {e} : ring'[f] = ring[f]

\* A step of e within the types.
LEMMA Moves ==
    ASSUME TypeOK, NEW e \in Executors, NEW l \in Pcs, NEW m \in 0 .. QD, NEW n \in 0 .. QD,
           NEW b \in {"idle", "search", "search_first", "collect"},
           Rows(e, l, m, n, b), OwnRings(e), failed' = failed
    PROVE  /\ TypeOK' /\ OnlyMoves(e)
           /\ pc'[e] = l /\ left'[e] = m /\ await'[e] = n /\ back'[e] = b
<1>1. pc' \in [Executors -> Pcs] /\ pc'[e] = l /\ \A f \in Executors \ {e} : pc'[f] = pc[f]
  BY DEF TypeOK, Pcs, Rows
<1>2. /\ left' \in [Executors -> 0 .. QD] /\ left'[e] = m
      /\ \A f \in Executors \ {e} : left'[f] = left[f]
  BY DEF TypeOK, Rows
<1>3. /\ await' \in [Executors -> 0 .. QD] /\ await'[e] = n
      /\ \A f \in Executors \ {e} : await'[f] = await[f]
  BY DEF TypeOK, Rows
<1>4. /\ back' \in [Executors -> {"idle", "search", "search_first", "collect"}]
      /\ back'[e] = b /\ \A f \in Executors \ {e} : back'[f] = back[f]
  BY DEF TypeOK, Rows
<1>5. TypeOK'
  BY <1>1, <1>2, <1>3, <1>4 DEF TypeOK, Pcs, RingType, OwnRings
<1> QED  BY <1>1, <1>2, <1>3, <1>4, <1>5 DEF OnlyMoves, OwnRings

\* The counters of an executor as updates of one entry, with their ranges.
LEMMA SameRows ==
    ASSUME TypeOK, NEW e \in Executors
    PROVE  /\ pc = [pc EXCEPT ![e] = pc[e]] /\ pc[e] \in Pcs
           /\ left = [left EXCEPT ![e] = left[e]] /\ left[e] \in 0 .. QD
           /\ await = [await EXCEPT ![e] = await[e]] /\ await[e] \in 0 .. QD
           /\ back = [back EXCEPT ![e] = back[e]]
           /\ back[e] \in {"idle", "search", "search_first", "collect"}
           /\ ring' = ring => OwnRings(e)
<1>1. /\ pc \in [Executors -> Pcs] /\ left \in [Executors -> 0 .. QD]
      /\ await \in [Executors -> 0 .. QD]
      /\ back \in [Executors -> {"idle", "search", "search_first", "collect"}]
      /\ ring \in [Executors -> [Rings -> RingType]]
  BY DEF TypeOK, Pcs, RingType
<1> QED  BY <1>1 DEF OwnRings

\* The first fault of a page starts no read.
LEMMA FirstFaultOK ==
    ASSUME IoInv, NEW t \in Threads, FirstFault(t)
    PROVE  IoInv'
<1>1. /\ t \in Readers /\ t \in Executors /\ ReaderOK(t) /\ RingOK(t, "read")
      /\ RingOK(t, "write") /\ TypeOK
  BY ReaderFacts DEF Readers
<1>2. /\ failed = "none" /\ failed' = failed /\ pc[t] = "idle" /\ ring' = ring
      /\ pc' = [pc EXCEPT ![t] = "search_first"] /\ left' = left /\ await' = await
      /\ back' = back
  BY DEF FirstFault, At, Goto
<1>3. /\ TypeOK' /\ OnlyMoves(t) /\ pc'[t] = "search_first" /\ left'[t] = left[t]
      /\ await'[t] = await[t]
  <2>1. Rows(t, "search_first", left[t], await[t], back[t]) /\ OwnRings(t)
    BY <1>1, <1>2, SameRows DEF Rows
  <2> QED  BY <1>1, <1>2, <2>1, SameRows, Moves DEF Pcs
<1>4. left[t] = 0 /\ await[t] = 0
  BY <1>1, <1>2 DEF ReaderOK, Phase
<1>5. ReaderOK(t)'
  BY <1>3, <1>4 DEF ReaderOK, Phase, Pcs, WorkerPcs
<1>6. ASSUME NEW r \in Rings PROVE Owed(t, r) = 0 /\ Owed(t, r)' = 0
  BY <1>2, <1>3 DEF Owed, Phase, Rings
<1>7. RingOK(t, "read")' /\ RingOK(t, "write")'
  BY <1>1, <1>2, <1>6, EmptyStays DEF Rings
<1> QED  BY <1>1, <1>2, <1>3, <1>5, <1>7, ReaderMoved

\* A page is used, and the thread goes on or reads ahead.
LEMMA UseReadOK ==
    ASSUME IoInv, NEW t \in Readers, UseRead(t)
    PROVE  IoInv'
<1>1. /\ t \in Executors /\ ReaderOK(t) /\ RingOK(t, "read")
      /\ RingOK(t, "write") /\ TypeOK
  BY ReaderFacts
<1>2. /\ failed = "none" /\ failed' = failed /\ pc[t] = "use" /\ ring' = ring
      /\ back' = back
  BY DEF UseRead, At
<1>3. left[t] = 0 /\ await[t] = 0 /\ ring[t]["read"].init
  BY <1>1, <1>2 DEF ReaderOK, Phase
<1>4. PICK l \in {"idle", "prefetch"}, n \in 0 .. Batch :
        /\ pc' = [pc EXCEPT ![t] = l] /\ left' = [left EXCEPT ![t] = n]
        /\ await' = [await EXCEPT ![t] = n] /\ (l = "idle" => n = 0)
  <2>1. CASE Goto(t, "idle") /\ UNCHANGED <<left, await>>
    <3>1. left' = [left EXCEPT ![t] = 0] /\ await' = [await EXCEPT ![t] = 0]
      BY <1>1, <1>3, <2>1, SameRows
    <3>2. 0 \in 0 .. Batch
      BY IoAssumption
    <3> QED  BY <2>1, <3>1, <3>2 DEF Goto
  <2>2. CASE \E n \in 0 .. Batch : BeginBatch(t, n)
    BY <2>2 DEF BeginBatch, Goto
  <2> QED  BY <2>1, <2>2 DEF UseRead
<1>5. n \in 0 .. QD
  BY IoAssumption
<1>6. TypeOK' /\ OnlyMoves(t) /\ pc'[t] = l /\ left'[t] = n /\ await'[t] = n
  <2>1. Rows(t, l, n, n, back[t]) /\ OwnRings(t)
    BY <1>1, <1>2, <1>4, SameRows DEF Rows
  <2> QED  BY <1>1, <1>2, <1>4, <1>5, <2>1, SameRows, Moves DEF Pcs
<1>7. ReaderOK(t)'
  BY <1>2, <1>3, <1>4, <1>6 DEF ReaderOK, Phase, Pcs, WorkerPcs
<1>8. ASSUME NEW r \in Rings PROVE Owed(t, r) = 0 /\ Owed(t, r)' = 0
  BY <1>2, <1>6 DEF Owed, Phase, Rings
<1>9. RingOK(t, "read")' /\ RingOK(t, "write")'
  BY <1>1, <1>2, <1>8, EmptyStays DEF Rings
<1> QED  BY <1>1, <1>2, <1>6, <1>7, <1>9, ReaderMoved

\* A batch is used.
LEMMA UseBatchOK ==
    ASSUME IoInv, NEW t \in Readers, UseBatch(t)
    PROVE  IoInv'
<1>1. /\ t \in Executors /\ ReaderOK(t) /\ RingOK(t, "read")
      /\ RingOK(t, "write") /\ TypeOK
  BY ReaderFacts
<1>2. /\ failed = "none" /\ failed' = failed /\ pc[t] = "use_batch" /\ ring' = ring
      /\ pc' = [pc EXCEPT ![t] = "idle"] /\ left' = left /\ await' = await
      /\ back' = back
  BY DEF UseBatch, At, Goto
<1>3. /\ TypeOK' /\ OnlyMoves(t) /\ pc'[t] = "idle" /\ left'[t] = left[t]
      /\ await'[t] = await[t]
  <2>1. Rows(t, "idle", left[t], await[t], back[t]) /\ OwnRings(t)
    BY <1>1, <1>2, SameRows DEF Rows
  <2> QED  BY <1>1, <1>2, <2>1, SameRows, Moves DEF Pcs
<1>4. left[t] = 0 /\ await[t] = 0
  BY <1>1, <1>2 DEF ReaderOK, Phase
<1>5. ReaderOK(t)'
  BY <1>3, <1>4 DEF ReaderOK, Phase, Pcs, WorkerPcs
<1>6. ASSUME NEW r \in Rings PROVE Owed(t, r) = 0 /\ Owed(t, r)' = 0
  BY <1>2, <1>3 DEF Owed, Phase, Rings
<1>7. RingOK(t, "read")' /\ RingOK(t, "write")'
  BY <1>1, <1>2, <1>6, EmptyStays DEF Rings
<1> QED  BY <1>1, <1>2, <1>3, <1>5, <1>7, ReaderMoved

\* A prefetch worker claims a batch.
LEMMA PrefetchRoundOK ==
    ASSUME IoInv, NEW t \in Prefetchers, PrefetchRound(t)
    PROVE  IoInv'
<1>1. /\ t \in Readers /\ t \in Executors /\ t \notin Threads /\ ReaderOK(t)
      /\ RingOK(t, "read") /\ RingOK(t, "write") /\ TypeOK
  BY ReaderFacts, IoAssumption DEF Readers
<1>2. /\ failed = "none" /\ failed' = failed /\ pc[t] = "idle" /\ ring' = ring
      /\ back' = back
  BY DEF PrefetchRound, At
<1>4. PICK n \in 0 .. Batch :
        /\ pc' = [pc EXCEPT ![t] = "prefetch"] /\ left' = [left EXCEPT ![t] = n]
        /\ await' = [await EXCEPT ![t] = n]
  BY DEF PrefetchRound, BeginBatch, Goto
<1>5. n \in 0 .. QD
  BY IoAssumption
<1>6. TypeOK' /\ OnlyMoves(t) /\ pc'[t] = "prefetch" /\ left'[t] = n /\ await'[t] = n
  <2>1. Rows(t, "prefetch", n, n, back[t]) /\ OwnRings(t)
    BY <1>1, <1>2, <1>4, SameRows DEF Rows
  <2> QED  BY <1>1, <1>2, <1>4, <1>5, <2>1, SameRows, Moves DEF Pcs
<1>7. ReaderOK(t)'
  BY <1>1, <1>2, <1>4, <1>6 DEF ReaderOK, Phase, Pcs, WorkerPcs
<1>8. ASSUME NEW r \in Rings PROVE Owed(t, r) = 0 /\ Owed(t, r)' = 0
  BY <1>2, <1>6 DEF Owed, Phase, Rings
<1>9. RingOK(t, "read")' /\ RingOK(t, "write")'
  BY <1>1, <1>2, <1>8, EmptyStays DEF Rings
<1> QED  BY <1>1, <1>2, <1>6, <1>7, <1>9, ReaderMoved

\* A frame is found: the next thing the thread does.
LEMMA GetFrameOK ==
    ASSUME IoInv, NEW t \in Readers, failed = "none", failed' = "none", ring' = ring,
           NEW from \in Searching, from = Phase(t), pc[t] \in Searching \cup {"written"},
           GetFrame(t, from), back' = back \/ back' = [back EXCEPT ![t] = "idle"]
    PROVE  IoInv'
<1>1. /\ t \in Executors /\ ReaderOK(t) /\ RingOK(t, "read")
      /\ RingOK(t, "write") /\ TypeOK /\ left[t] \in Nat /\ await[t] \in Nat
  BY ReaderFacts
<1>2. PICK l : l = CASE from = "search_first" -> "idle"
                     [] from = "search" -> "finish"
                     [] from = "collect" /\ left[t] = 1 -> "finish_batch"
                     [] OTHER -> "collect"
  OBVIOUS
<1>3. PICK m : m = IF left[t] > 0 THEN left[t] - 1 ELSE left[t]
  OBVIOUS
<1>4. PICK n : n = IF from = "search" THEN 1 ELSE await[t]
  OBVIOUS
<1>5. PICK b : b \in {"idle", back[t]} /\ back' = [back EXCEPT ![t] = b]
  BY <1>1, SameRows
<1>6. Rows(t, l, m, n, b)
  BY <1>1, <1>2, <1>3, <1>4, <1>5, SameRows DEF GetFrame, Rows
<1>7. l \in {"idle", "finish", "finish_batch", "collect"}
  BY <1>2
<1>8. m \in 0 .. QD /\ n \in 0 .. QD
  BY <1>1, <1>3, <1>4, SameRows, IoAssumption
<1>9. b \in {"idle", "search", "search_first", "collect"}
  BY <1>1, <1>5, SameRows
<1>10. TypeOK' /\ OnlyMoves(t) /\ pc'[t] = l /\ left'[t] = m /\ await'[t] = n
  BY <1>1, <1>6, <1>7, <1>8, <1>9, SameRows, Moves DEF Pcs
<1>11. from \in {"search", "search_first", "collect"}
  BY DEF Searching
<1>12. /\ from = "search_first" => left[t] = 0 /\ await[t] = 0
       /\ from = "search" => left[t] = 1 /\ await[t] = 0 /\ ring[t]["read"].init
       /\ from = "collect" => 1 <= left[t] /\ left[t] <= await[t] /\ await[t] <= Batch
  BY <1>1 DEF ReaderOK
<1>13. Phase(t)' = l
  BY <1>7, <1>10 DEF Phase
<1>14. ReaderOK(t)'
  <2>1. CASE from = "search_first"
    BY <2>1, <1>1, <1>2, <1>3, <1>4, <1>10, <1>12, <1>13 DEF ReaderOK, Pcs, WorkerPcs
  <2>2. CASE from = "search"
    BY <2>2, <1>1, <1>2, <1>3, <1>4, <1>10, <1>12, <1>13 DEF ReaderOK, Pcs, WorkerPcs
  <2>3. CASE from = "collect" /\ left[t] = 1
    BY <2>3, <1>1, <1>2, <1>3, <1>4, <1>10, <1>12, <1>13 DEF ReaderOK, Pcs, WorkerPcs
  <2>4. CASE from = "collect" /\ left[t] # 1
    BY <2>4, <1>1, <1>2, <1>3, <1>4, <1>10, <1>12, <1>13, IoAssumption
       DEF ReaderOK, Pcs, WorkerPcs
  <2> QED  BY <1>11, <2>1, <2>2, <2>3, <2>4
<1>15. Owed(t, "read")' = Owed(t, "read")
  BY <1>2, <1>4, <1>10, <1>11, <1>12, <1>13 DEF Owed
<1>16. Owed(t, "write") = 0 /\ Owed(t, "write")' = 0
  BY <1>7, <1>10 DEF Owed, Searching
<1>17. /\ ~Filling(t, "read") /\ ~Filling(t, "read")'
  BY <1>7, <1>10 DEF Filling, Searching
<1>18. RingOK(t, "read")'
  BY <1>1, <1>15, <1>17, RingStays DEF Rings
<1>19. RingOK(t, "write")'
  BY <1>1, <1>16, EmptyStays DEF Rings
<1> QED  BY <1>10, <1>14, <1>18, <1>19, ReaderMoved

\* A frame that was free.
LEMMA GotFrameOK ==
    ASSUME IoInv, NEW t \in Readers, GotFrame(t)
    PROVE  IoInv'
<1>1. /\ failed = "none" /\ failed' = "none" /\ pc[t] \in Searching /\ ring' = ring
      /\ back' = back /\ GetFrame(t, pc[t])
  BY DEF GotFrame
<1>2. Phase(t) = pc[t]
  BY <1>1 DEF Phase, Searching
<1> QED  BY <1>1, <1>2, GetFrameOK

\* A frame that the thread emptied itself.
LEMMA WrittenOK ==
    ASSUME IoInv, NEW t \in Readers, Written(t)
    PROVE  IoInv'
<1>1. /\ failed = "none" /\ failed' = "none" /\ pc[t] = "written" /\ ring' = ring
      /\ back' = [back EXCEPT ![t] = "idle"] /\ GetFrame(t, back[t])
  BY DEF Written, At
<1>2. Phase(t) = back[t] /\ back[t] \in Searching
  BY <1>1, ReaderFacts DEF Phase, ReaderOK
<1> QED  BY <1>1, <1>2, GetFrameOK

\* An eviction worker takes a vector of pages.
LEMMA TakeVectorOK ==
    ASSUME IoInv, NEW w \in Workers, TakeVector(w)
    PROVE  IoInv'
<1>1. /\ w \in Executors /\ WorkerOK(w) /\ RingOK(w, "read")
      /\ RingOK(w, "write") /\ TypeOK
  BY WorkerFacts
<1>2. /\ failed = "none" /\ failed' = failed /\ pc[w] = "idle" /\ ring' = ring
      /\ pc' = [pc EXCEPT ![w] = "prepare"] /\ await' = await /\ back' = back
  BY DEF TakeVector, At, Goto
<1>3. PICK n \in 1 .. Vector : left' = [left EXCEPT ![w] = n]
  BY DEF TakeVector
<1>4. n \in 0 .. QD /\ n \in Nat
  BY IoAssumption
<1>5. /\ TypeOK' /\ OnlyMoves(w) /\ pc'[w] = "prepare" /\ left'[w] = n
      /\ await'[w] = await[w]
  <2>1. Rows(w, "prepare", n, await[w], back[w]) /\ OwnRings(w)
    BY <1>1, <1>2, <1>3, SameRows DEF Rows
  <2> QED  BY <1>1, <1>2, <1>4, <2>1, SameRows, Moves DEF Pcs
<1>6. left[w] = 0 /\ await[w] = 0
  BY <1>1, <1>2 DEF WorkerOK
<1>7. WorkerOK(w)'
  BY <1>4, <1>5, <1>6, IoAssumption DEF WorkerOK, WorkerPcs
<1>8. ASSUME NEW r \in Rings PROVE Owed(w, r) = 0 /\ Owed(w, r)' = 0
  BY <1>2, <1>5, <1>6 DEF Owed, Phase, Rings
<1>9. RingOK(w, "read")' /\ RingOK(w, "write")'
  BY <1>1, <1>2, <1>8, EmptyStays DEF Rings
<1> QED  BY <1>2, <1>5, <1>7, <1>9, WorkerMoved

\* The pages of a vector are unmapped.
LEMMA VectorUnmapOK ==
    ASSUME IoInv, NEW w \in Workers, VectorUnmap(w)
    PROVE  IoInv'
<1>1. /\ w \in Executors /\ WorkerOK(w) /\ RingOK(w, "read")
      /\ RingOK(w, "write") /\ TypeOK
  BY WorkerFacts
<1>2. /\ failed = "none" /\ failed' = failed /\ pc[w] = "unmap" /\ ring' = ring
      /\ pc' = [pc EXCEPT ![w] = "idle"] /\ left' = left /\ await' = await /\ back' = back
  BY DEF VectorUnmap, At, Goto
<1>3. /\ TypeOK' /\ OnlyMoves(w) /\ pc'[w] = "idle" /\ left'[w] = left[w]
      /\ await'[w] = await[w]
  <2>1. Rows(w, "idle", left[w], await[w], back[w]) /\ OwnRings(w)
    BY <1>1, <1>2, SameRows DEF Rows
  <2> QED  BY <1>1, <1>2, <2>1, SameRows, Moves DEF Pcs
<1>4. WorkerOK(w)'
  BY <1>1, <1>2, <1>3 DEF WorkerOK, WorkerPcs
<1>5. ASSUME NEW r \in Rings PROVE Owed(w, r) = 0 /\ Owed(w, r)' = 0
  BY <1>2, <1>3 DEF Owed, Phase, Rings
<1>6. RingOK(w, "read")' /\ RingOK(w, "write")'
  BY <1>1, <1>2, <1>5, EmptyStays DEF Rings
<1> QED  BY <1>2, <1>3, <1>4, <1>6, WorkerMoved

-----------------------------------------------------------------------------
(* The operations on the ring of an executor.                               *)

\* One ring of e becomes X.
RingBecomes(e, r, X) == /\ ring'[e][r] = X
                        /\ \A s \in Rings \ {r} : ring'[e][s] = ring[e][s]

\* An update of one ring of e.
LEMMA Becomes ==
    ASSUME TypeOK, NEW e \in Executors, NEW r \in Rings, NEW X \in RingType,
           ring' = [ring EXCEPT ![e][r] = X]
    PROVE  OwnRings(e) /\ RingBecomes(e, r, X)
  BY RowUpdate DEF OwnRings, RingBecomes

\* The ring of a request, and the other one.
LEMMA RingNames ==
    /\ RingOf("swapin") = "read" /\ RingOf("batch") = "read"
    /\ RingOf("evict") = "write" /\ RingOf("vector") = "write"
    /\ "read" \in Rings /\ "write" \in Rings
  BY DEF RingOf, Rings

\* The requests there are.
LEMMA RequestNames ==
    /\ <<"swapin", 0>> \in Requests /\ <<"evict", 0>> \in Requests
    /\ \A i \in 1 .. Batch : <<"batch", i>> \in Requests
    /\ \A i \in 1 .. Vector : <<"vector", i>> \in Requests
  BY DEF Requests

\* Prepare adds the request to its ring.
LEMMA PrepareStep ==
    ASSUME TypeOK, NEW e \in Executors, NEW kind, NEW i, NEW r \in Rings, r = RingOf(kind),
           NEW c \in Requests, c = <<kind, i>>, Prepare(e, kind, i), ring[e][r] \in RingType
    PROVE  OwnRings(e) /\ RingBecomes(e, r, Prepared(ring[e][r], c))
<1>1. ring' = [ring EXCEPT ![e][r] = Prepared(ring[e][r], c)]
  BY DEF Prepare
<1>2. Prepared(ring[e][r], c) \in RingType
  BY DEF Prepared, Initialised, RingType
<1> QED  BY <1>1, <1>2, Becomes

\* PrepareAndSubmit submits it too.
LEMMA PrepareAndSubmitStep ==
    ASSUME TypeOK, NEW e \in Executors, NEW kind, NEW r \in Rings, r = RingOf(kind),
           NEW c \in Requests, c = <<kind, 0>>, PrepareAndSubmit(e, kind),
           ring[e][r] \in RingType
    PROVE  OwnRings(e) /\ RingBecomes(e, r, Submit(Prepared(ring[e][r], c)))
<1>1. ring' = [ring EXCEPT ![e][r] = Submit(Prepared(ring[e][r], c))]
  BY DEF PrepareAndSubmit
<1>2. Prepared(ring[e][r], c) \in RingType
  BY DEF Prepared, Initialised, RingType
<1>3. Submit(Prepared(ring[e][r], c)) \in RingType
  BY <1>2 DEF Submit, RingType
<1> QED  BY <1>1, <1>3, Becomes

\* A completion is taken from its ring.
LEMMA WaitStep ==
    ASSUME TypeOK, NEW e \in Executors, NEW kind, NEW r \in Rings, r = RingOf(kind),
           WaitCqe(e, kind), ring[e][r] \in RingType
    PROVE  /\ OwnRings(e) /\ ring[e][r].init
           /\ \E c \in ring[e][r].cq : RingBecomes(e, r, Seen(ring[e][r], c))
<1>1. PICK c \in ring[e][r].cq : ring' = [ring EXCEPT ![e][r].cq = @ \ {c}]
  BY DEF WaitCqe
<1>2. ring' = [ring EXCEPT ![e][r] = Seen(ring[e][r], c)]
  BY <1>1 DEF Seen
<1>3. Seen(ring[e][r], c) \in RingType
  BY DEF Seen, RingType
<1>4. ring[e][r].init
  BY DEF WaitCqe
<1> QED  BY <1>2, <1>3, <1>4, Becomes

\* A ring that was empty has one request, submitted.
LEMMA OneRequest ==
    ASSUME NEW e, NEW r \in Rings, RingOK(e, r), Owed(e, r) = 0, ring[e][r] \in RingType,
           NEW c \in Requests, c[1] \in Kinds(r),
           RingBecomes(e, r, Submit(Prepared(ring[e][r], c))), Owed(e, r)' = 1,
           ~Filling(e, r)'
    PROVE  RingOK(e, r)' /\ ring'[e][r].init
<1>1. Out(ring[e][r]) = {} /\ IsFiniteSet(Out(ring[e][r])) /\ Apart(ring[e][r])
      /\ Cardinality(Out(ring[e][r])) = 0
  BY NothingOwed DEF RingOK
<1>2. PICK p : p = Prepared(ring[e][r], c)
  OBVIOUS
<1>3. /\ p \in RingType /\ p.init /\ Out(p) = {c} /\ IsFiniteSet(Out(p))
      /\ Cardinality(Out(p)) = 1 /\ Apart(p)
  BY <1>1, <1>2, PreparedRing
<1>4. /\ Submit(p).init = p.init /\ Submit(p).sq = {} /\ Out(Submit(p)) = Out(p)
      /\ Apart(Submit(p))
  BY <1>3, SubmittedRing
<1>5. ring'[e][r] = Submit(p)
  BY <1>2 DEF RingBecomes
<1>6. RingOK(e, r)'
  BY <1>3, <1>4, <1>5 DEF RingOK
<1> QED  BY <1>3, <1>4, <1>5, <1>6

\* A request of a batch or vector is prepared.
LEMMA OneMore ==
    ASSUME NEW e, NEW r \in Rings, RingOK(e, r), Owed(e, r) \in Nat, ring[e][r] \in RingType,
           NEW c \in Requests, c[1] \in Kinds(r), c[2] = left[e], left[e] \in Nat,
           left'[e] = left[e] - 1, \A d \in Out(ring[e][r]) : d[2] \in Nat,
           RingBecomes(e, r, Prepared(ring[e][r], c)), Owed(e, r)' = Owed(e, r) + 1,
           Filling(e, r), Filling(e, r)'
    PROVE  RingOK(e, r)' /\ ring'[e][r].init
<1>1. /\ IsFiniteSet(Out(ring[e][r])) /\ Apart(ring[e][r])
      /\ Cardinality(Out(ring[e][r])) = Owed(e, r)
      /\ \A d \in Out(ring[e][r]) : d[1] \in Kinds(r) /\ d[2] > left[e]
  BY DEF RingOK
<1>2. c \notin Out(ring[e][r])
  BY <1>1
<1>3. PICK p : p = Prepared(ring[e][r], c)
  OBVIOUS
<1>4. /\ p \in RingType /\ p.init /\ Out(p) = Out(ring[e][r]) \cup {c} /\ IsFiniteSet(Out(p))
      /\ Cardinality(Out(p)) = Owed(e, r) + 1 /\ Apart(p)
  BY <1>1, <1>2, <1>3, PreparedRing
<1>5. ring'[e][r] = p
  BY <1>3 DEF RingBecomes
<1>6. \A d \in Out(p) : d[1] \in Kinds(r) /\ d[2] > left[e] - 1
  BY <1>1, <1>4
<1>7. RingOK(e, r)'
  BY <1>4, <1>5, <1>6 DEF RingOK
<1> QED  BY <1>4, <1>5, <1>7

\* What was prepared is submitted.
LEMMA AllSubmitted ==
    ASSUME NEW e, NEW r \in Rings, RingOK(e, r), ring[e][r] \in RingType,
           RingBecomes(e, r, Submit(ring[e][r])), Owed(e, r)' = Owed(e, r), ~Filling(e, r)'
    PROVE  RingOK(e, r)' /\ ring'[e][r].init = ring[e][r].init
<1>1. PICK p : p = Submit(ring[e][r])
  OBVIOUS
<1>2. /\ p \in RingType /\ p.init = ring[e][r].init /\ p.sq = {} /\ Out(p) = Out(ring[e][r])
      /\ Apart(p)
  BY <1>1, SubmittedRing DEF RingOK
<1>3. ring'[e][r] = p
  BY <1>1 DEF RingBecomes
<1>4. RingOK(e, r)'
  BY <1>2, <1>3 DEF RingOK
<1> QED  BY <1>2, <1>3, <1>4

\* A completion is seen.
LEMMA OneSeen ==
    ASSUME NEW e, NEW r \in Rings, RingOK(e, r), Owed(e, r) \in Nat, ring[e][r] \in RingType,
           NEW c \in ring[e][r].cq, RingBecomes(e, r, Seen(ring[e][r], c)),
           Owed(e, r)' = Owed(e, r) - 1, ~Filling(e, r), ~Filling(e, r)'
    PROVE  RingOK(e, r)' /\ ring'[e][r].init = ring[e][r].init
<1>1. PICK p : p = Seen(ring[e][r], c)
  OBVIOUS
<1>2. /\ p \in RingType /\ p.init = ring[e][r].init /\ p.sq = ring[e][r].sq
      /\ Out(p) = Out(ring[e][r]) \ {c} /\ IsFiniteSet(Out(p))
      /\ Cardinality(Out(p)) = Owed(e, r) - 1 /\ Apart(p)
  BY <1>1, SeenRing DEF RingOK
<1>3. ring'[e][r] = p
  BY <1>1 DEF RingBecomes
<1>4. RingOK(e, r)'
  BY <1>2, <1>3 DEF RingOK
<1> QED  BY <1>2, <1>3, <1>4

\* There is room in the queue as long as fewer requests are owed than it has entries.
LEMMA Room ==
    ASSUME NEW e, NEW r \in Rings, RingOK(e, r), Owed(e, r) \in Nat, Owed(e, r) < QD
    PROVE  Cardinality(ring[e][r].sq) < QD
<1>1. ring[e][r].sq \in SUBSET Out(ring[e][r])
  BY DEF Out
<1>2. /\ Cardinality(ring[e][r].sq) <= Cardinality(Out(ring[e][r]))
      /\ IsFiniteSet(ring[e][r].sq)
  BY <1>1, FS_Subset DEF RingOK
<1>3. Cardinality(ring[e][r].sq) \in Nat /\ Cardinality(Out(ring[e][r])) = Owed(e, r)
  BY <1>2, FS_CardinalityType DEF RingOK
<1> QED  BY <1>2, <1>3, IoAssumption

\* Requests are numbered.
LEMMA Numbered ==
    ASSUME NEW rg \in RingType
    PROVE  \A d \in Out(rg) : d[2] \in Nat
<1>1. Out(rg) \subseteq Requests
  BY DEF Out, RingType
<1>2. \A d \in Requests : d[2] \in Nat
  BY DEF Requests
<1> QED  BY <1>1, <1>2

-----------------------------------------------------------------------------
(* Steps of a thread or a prefetch worker that use a ring.                  *)

\* ioring_start_read
LEMMA StartReadOK ==
    ASSUME IoInv, NEW t \in Threads, StartRead(t)
    PROVE  IoInv'
<1>1. /\ t \in Readers /\ t \in Executors /\ ReaderOK(t) /\ RingOK(t, "read")
      /\ RingOK(t, "write") /\ TypeOK /\ ring[t]["read"] \in RingType
  BY ReaderFacts DEF Readers
<1>2. failed = "none" /\ pc[t] = "idle"
  BY DEF StartRead, At
<1>3. Owed(t, "read") = 0 /\ Owed(t, "write") = 0 /\ left[t] = 0 /\ await[t] = 0
  BY <1>1, <1>2 DEF Owed, Phase, ReaderOK
<1>4. HasRoom(t, "swapin")
  BY <1>1, <1>3, Room, RingNames, IoAssumption DEF HasRoom
<1>5. /\ PrepareAndSubmit(t, "swapin") /\ pc' = [pc EXCEPT ![t] = "search"]
      /\ left' = [left EXCEPT ![t] = 1] /\ await' = await /\ back' = back
      /\ failed' = failed
  BY <1>4 DEF StartRead, Goto
<1>6. /\ OwnRings(t)
      /\ RingBecomes(t, "read", Submit(Prepared(ring[t]["read"], <<"swapin", 0>>)))
  BY <1>1, <1>5, RingNames, RequestNames, PrepareAndSubmitStep
<1>7. /\ TypeOK' /\ OnlyMoves(t) /\ pc'[t] = "search" /\ left'[t] = 1
      /\ await'[t] = await[t]
  <2>1. Rows(t, "search", 1, await[t], back[t])
    BY <1>1, <1>5, SameRows DEF Rows
  <2>2. 1 \in 0 .. QD
    BY IoAssumption
  <2> QED  BY <1>1, <1>5, <1>6, <2>1, <2>2, SameRows, Moves DEF Pcs
<1>8. /\ Owed(t, "read")' = 1 /\ Owed(t, "write")' = 0 /\ ~Filling(t, "read")'
  BY <1>7 DEF Owed, Phase, Filling
<1>9. RingOK(t, "read")' /\ ring'[t]["read"].init
  <2>1. <<"swapin", 0>>[1] \in Kinds("read")
    BY DEF Kinds
  <2> QED  BY <1>1, <1>3, <1>6, <1>8, <2>1, RingNames, RequestNames, OneRequest
<1>10. RingOK(t, "write")'
  <2>1. ring'[t]["write"] = ring[t]["write"]
    BY <1>6 DEF RingBecomes, Rings
  <2> QED  BY <1>1, <1>3, <1>8, <2>1, RingNames, EmptyStays
<1>11. ReaderOK(t)'
  BY <1>3, <1>7, <1>9 DEF ReaderOK, Phase, Pcs, WorkerPcs
<1> QED  BY <1>1, <1>2, <1>5, <1>7, <1>9, <1>10, <1>11, ReaderMoved

\* ioring_write_store, up to the wait.
LEMMA WriteStoreOK ==
    ASSUME IoInv, NEW t \in Readers, WriteStore(t)
    PROVE  IoInv'
<1>1. /\ t \in Executors /\ ReaderOK(t) /\ RingOK(t, "read")
      /\ RingOK(t, "write") /\ TypeOK /\ ring[t]["write"] \in RingType
  BY ReaderFacts
<1>2. failed = "none" /\ pc[t] \in {"search", "search_first", "collect"}
  BY DEF WriteStore, Searching
<1>3. Owed(t, "write") = 0 /\ Phase(t) = pc[t]
  BY <1>1, <1>2 DEF Owed, Phase
<1>4. HasRoom(t, "evict")
  BY <1>1, <1>3, Room, RingNames, IoAssumption DEF HasRoom
<1>5. /\ PrepareAndSubmit(t, "evict") /\ pc' = [pc EXCEPT ![t] = "write_wait"]
      /\ back' = [back EXCEPT ![t] = pc[t]] /\ await' = await /\ left' = left
      /\ failed' = failed
  BY <1>4 DEF WriteStore, Goto
<1>6. /\ OwnRings(t)
      /\ RingBecomes(t, "write", Submit(Prepared(ring[t]["write"], <<"evict", 0>>)))
  BY <1>1, <1>5, RingNames, RequestNames, PrepareAndSubmitStep
<1>7. /\ TypeOK' /\ OnlyMoves(t) /\ pc'[t] = "write_wait" /\ left'[t] = left[t]
      /\ await'[t] = await[t] /\ back'[t] = pc[t]
  <2>1. Rows(t, "write_wait", left[t], await[t], pc[t])
    BY <1>1, <1>5, SameRows DEF Rows
  <2> QED  BY <1>1, <1>2, <1>5, <1>6, <2>1, SameRows, Moves DEF Pcs
<1>8. Phase(t)' = Phase(t)
  BY <1>3, <1>7 DEF Phase
<1>9. /\ Owed(t, "read")' = Owed(t, "read") /\ Owed(t, "write")' = 1
      /\ ~Filling(t, "write")' /\ ~Filling(t, "read") /\ ~Filling(t, "read")'
  BY <1>2, <1>7, <1>8 DEF Owed, Filling
<1>10. ring'[t]["read"] = ring[t]["read"]
  BY <1>6 DEF RingBecomes, Rings
<1>11. RingOK(t, "write")'
  <2>1. <<"evict", 0>>[1] \in Kinds("write")
    BY DEF Kinds
  <2> QED  BY <1>1, <1>3, <1>6, <1>9, <2>1, RingNames, RequestNames, OneRequest
<1>12. RingOK(t, "read")'
  BY <1>1, <1>9, <1>10, RingNames, RingStays
<1>13. ReaderOK(t)'
  BY <1>1, <1>2, <1>3, <1>7, <1>8, <1>10 DEF ReaderOK, Pcs, WorkerPcs, Searching
<1> QED  BY <1>2, <1>5, <1>7, <1>11, <1>12, <1>13, ReaderMoved

\* The end of the write: the only request in the ring has completed.
LEMMA WriteWaitOK ==
    ASSUME IoInv, NEW t \in Readers, WriteWait(t)
    PROVE  IoInv'
<1>1. /\ t \in Executors /\ ReaderOK(t) /\ RingOK(t, "read")
      /\ RingOK(t, "write") /\ TypeOK /\ ring[t]["write"] \in RingType
  BY ReaderFacts
<1>2. /\ failed = "none" /\ pc[t] = "write_wait" /\ failed' = failed
      /\ pc' = [pc EXCEPT ![t] = "written"] /\ WaitCqe(t, "evict")
      /\ left' = left /\ await' = await /\ back' = back
  BY DEF WriteWait, At, Goto
<1>3. OwnRings(t)
  BY <1>1, <1>2, RingNames, WaitStep
<1>4. PICK c \in ring[t]["write"].cq : RingBecomes(t, "write", Seen(ring[t]["write"], c))
  BY <1>1, <1>2, RingNames, WaitStep
<1>5. /\ TypeOK' /\ OnlyMoves(t) /\ pc'[t] = "written" /\ left'[t] = left[t]
      /\ await'[t] = await[t] /\ back'[t] = back[t]
  <2>1. Rows(t, "written", left[t], await[t], back[t])
    BY <1>1, <1>2, SameRows DEF Rows
  <2> QED  BY <1>1, <1>2, <1>3, <2>1, SameRows, Moves DEF Pcs
<1>6. Phase(t)' = Phase(t)
  BY <1>2, <1>5 DEF Phase
<1>7. /\ Owed(t, "read")' = Owed(t, "read") /\ Owed(t, "write") = 1 /\ Owed(t, "write")' = 0
      /\ ~Filling(t, "write") /\ ~Filling(t, "write")'
      /\ ~Filling(t, "read") /\ ~Filling(t, "read")'
  BY <1>2, <1>5, <1>6 DEF Owed, Filling
<1>8. ring'[t]["read"] = ring[t]["read"]
  BY <1>4 DEF RingBecomes, Rings
<1>9. RingOK(t, "write")'
  BY <1>1, <1>4, <1>7, RingNames, OneSeen
<1>10. RingOK(t, "read")'
  BY <1>1, <1>7, <1>8, RingNames, RingStays
<1>11. ReaderOK(t)'
  BY <1>1, <1>2, <1>5, <1>6, <1>8 DEF ReaderOK, Pcs, WorkerPcs
<1> QED  BY <1>2, <1>5, <1>9, <1>10, <1>11, ReaderMoved

\* ioring_finish_read: one request less to wait for.
LEMMA FinishReadOK ==
    ASSUME IoInv, NEW t \in Readers, FinishRead(t)
    PROVE  IoInv'
<1>1. /\ t \in Executors /\ ReaderOK(t) /\ RingOK(t, "read")
      /\ RingOK(t, "write") /\ TypeOK /\ ring[t]["read"] \in RingType
      /\ left[t] \in Nat /\ await[t] \in Nat
  BY ReaderFacts
<1>2. /\ failed = "none" /\ pc[t] \in {"finish", "finish_batch"} /\ failed' = failed
      /\ WaitCqe(t, "swapin") /\ left' = left /\ back' = back
      /\ await' = [await EXCEPT ![t] = await[t] - 1]
  BY DEF FinishRead
<1>3. PICK l : l = CASE await[t] > 1 -> pc[t] [] pc[t] = "finish" -> "use"
                     [] OTHER -> "use_batch"
  OBVIOUS
<1>4. pc' = [pc EXCEPT ![t] = l]
  BY <1>3 DEF FinishRead
<1>5. Phase(t) = pc[t]
  BY <1>2 DEF Phase
<1>6. /\ left[t] = 0 /\ 1 <= await[t] /\ await[t] - 1 \in 0 .. QD
      /\ pc[t] = "finish" => await[t] = 1
      /\ pc[t] = "finish_batch" => await[t] <= Batch
  BY <1>1, <1>2, <1>5, IoAssumption DEF ReaderOK
<1>7. /\ await[t] = 1 /\ pc[t] = "finish" => l = "use"
      /\ await[t] = 1 /\ pc[t] = "finish_batch" => l = "use_batch"
      /\ await[t] # 1 => pc[t] = "finish_batch" /\ l = "finish_batch"
  BY <1>1, <1>2, <1>3, <1>6
<1>8. l \in {"use", "use_batch", "finish_batch"}
  BY <1>2, <1>7
<1>9. OwnRings(t) /\ ring[t]["read"].init
  BY <1>1, <1>2, RingNames, WaitStep
<1>10. PICK c \in ring[t]["read"].cq : RingBecomes(t, "read", Seen(ring[t]["read"], c))
  BY <1>1, <1>2, RingNames, WaitStep
<1>11. /\ TypeOK' /\ OnlyMoves(t) /\ pc'[t] = l /\ left'[t] = left[t]
       /\ await'[t] = await[t] - 1
  <2>1. Rows(t, l, left[t], await[t] - 1, back[t])
    BY <1>1, <1>2, <1>4, SameRows DEF Rows
  <2> QED  BY <1>1, <1>2, <1>6, <1>8, <1>9, <2>1, SameRows, Moves DEF Pcs
<1>12. Phase(t)' = l
  BY <1>8, <1>11 DEF Phase
<1>13. Owed(t, "read") = await[t] /\ Owed(t, "read")' = await[t] - 1
  <2>1. Owed(t, "read") = await[t]
    BY <1>2, <1>5, <1>6 DEF Owed
  <2>2. CASE await[t] = 1
    BY <2>2, <1>2, <1>7, <1>12, <2>1 DEF Owed
  <2>3. CASE await[t] # 1
    BY <2>3, <1>7, <1>11, <1>12, <2>1 DEF Owed
  <2> QED  BY <2>2, <2>3
<1>14. /\ Owed(t, "write") = 0 /\ Owed(t, "write")' = 0
       /\ ~Filling(t, "read") /\ ~Filling(t, "read")'
  BY <1>2, <1>8, <1>11 DEF Owed, Filling
<1>15. RingOK(t, "read")' /\ ring'[t]["read"].init = ring[t]["read"].init
  BY <1>1, <1>10, <1>13, <1>14, RingNames, OneSeen
<1>16. RingOK(t, "write")'
  <2>1. ring'[t]["write"] = ring[t]["write"]
    BY <1>10 DEF RingBecomes, Rings
  <2> QED  BY <1>1, <1>14, <2>1, RingNames, EmptyStays
<1>17. ReaderOK(t)'
  <2>1. CASE await[t] = 1
    BY <2>1, <1>2, <1>6, <1>7, <1>9, <1>11, <1>12, <1>15 DEF ReaderOK, Pcs, WorkerPcs
  <2>2. CASE await[t] # 1
    BY <2>2, <1>1, <1>6, <1>7, <1>9, <1>11, <1>12, <1>15, IoAssumption
       DEF ReaderOK, Pcs, WorkerPcs
  <2> QED  BY <2>1, <2>2
<1> QED  BY <1>2, <1>11, <1>15, <1>16, <1>17, ReaderMoved

\* core_try_prefetch prepares a request.
LEMMA PrefetchPrepareOK ==
    ASSUME IoInv, NEW t \in Readers, PrefetchPrepare(t)
    PROVE  IoInv'
<1>1. /\ t \in Executors /\ ReaderOK(t) /\ RingOK(t, "read")
      /\ RingOK(t, "write") /\ TypeOK /\ ring[t]["read"] \in RingType
      /\ left[t] \in Nat /\ await[t] \in Nat
  BY ReaderFacts
<1>2. failed = "none" /\ pc[t] = "prefetch" /\ left[t] > 0
  BY DEF PrefetchPrepare, At
<1>3. Phase(t) = "prefetch" /\ left[t] <= await[t] /\ await[t] <= Batch
  BY <1>1, <1>2 DEF Phase, ReaderOK
<1>4. /\ Owed(t, "read") = await[t] - left[t] /\ Owed(t, "read") \in Nat
      /\ Owed(t, "read") < QD
  <2>1. Owed(t, "read") = await[t] - left[t]
    BY <1>3 DEF Owed
  <2> QED  BY <1>1, <1>2, <1>3, <2>1, IoAssumption
<1>5. HasRoom(t, "batch")
  BY <1>1, <1>4, Room, RingNames DEF HasRoom
<1>6. /\ Prepare(t, "batch", left[t]) /\ left' = [left EXCEPT ![t] = left[t] - 1]
      /\ pc' = pc /\ await' = await /\ back' = back /\ failed' = failed
  BY <1>5 DEF PrefetchPrepare
<1>7. PICK c : c = <<"batch", left[t]>>
  OBVIOUS
<1>8. c \in Requests /\ c[1] \in Kinds("read") /\ c[2] = left[t]
  <2>1. left[t] \in 1 .. Batch
    BY <1>1, <1>2, <1>3, IoAssumption
  <2> QED  BY <1>7, <2>1, RequestNames DEF Kinds
<1>9. OwnRings(t) /\ RingBecomes(t, "read", Prepared(ring[t]["read"], c))
  BY <1>1, <1>6, <1>7, <1>8, RingNames, PrepareStep
<1>10. /\ TypeOK' /\ OnlyMoves(t) /\ pc'[t] = "prefetch" /\ left'[t] = left[t] - 1
       /\ await'[t] = await[t]
  <2>1. Rows(t, pc[t], left[t] - 1, await[t], back[t])
    BY <1>1, <1>6, SameRows DEF Rows
  <2>2. left[t] - 1 \in 0 .. QD
    BY <1>1, <1>2, <1>3, IoAssumption
  <2> QED  BY <1>1, <1>2, <1>6, <1>9, <2>1, <2>2, SameRows, Moves
<1>11. Phase(t)' = "prefetch"
  BY <1>10 DEF Phase
<1>12. Owed(t, "read")' = Owed(t, "read") + 1
  <2>1. Owed(t, "read")' = await[t] - (left[t] - 1)
    BY <1>10, <1>11 DEF Owed
  <2> QED  BY <1>1, <1>4, <2>1
<1>13. /\ Owed(t, "write") = 0 /\ Owed(t, "write")' = 0
       /\ Filling(t, "read") /\ Filling(t, "read")'
  BY <1>2, <1>10 DEF Owed, Filling
<1>14. RingOK(t, "read")' /\ ring'[t]["read"].init
  BY <1>1, <1>4, <1>8, <1>9, <1>10, <1>12, <1>13, RingNames, Numbered, OneMore
<1>15. RingOK(t, "write")'
  <2>1. ring'[t]["write"] = ring[t]["write"]
    BY <1>9 DEF RingBecomes, Rings
  <2> QED  BY <1>1, <1>13, <2>1, RingNames, EmptyStays
<1>16. ReaderOK(t)'
  BY <1>1, <1>3, <1>10, <1>11, <1>14, IoAssumption DEF ReaderOK, Pcs, WorkerPcs
<1> QED  BY <1>2, <1>6, <1>10, <1>14, <1>15, <1>16, ReaderMoved

\* The process ends at the submission of an empty round.
LEMMA RoundFails ==
    ASSUME IoInv, NEW e \in Prefetchers \cup Workers, pc[e] \in {"prefetch", "prepare"},
           left[e] = 0, await[e] = 0, Fail("submit on a ring that was not initialised")
    PROVE  IoInv'
<1>1. /\ ring' = ring /\ pc' = pc /\ left' = left /\ await' = await /\ back' = back
      /\ failed' = "submit on a ring that was not initialised"
  BY DEF Fail
<1>2. TypeOK'
  BY <1>1 DEF IoInv, TypeOK
<1>3. OnlyEmptyRoundFails'
  BY <1>1 DEF OnlyEmptyRoundFails
<1>4. ASSUME NEW f \in Executors PROVE ExecOK(f)'
  <2>1. ExecOK(f)
    BY DEF IoInv
  <2>2. Phase(f)' = Phase(f)
    BY <1>1 DEF Phase
  <2>3. ASSUME NEW r \in Rings PROVE RingOK(f, r)'
    <3>1. Owed(f, r)' = Owed(f, r)
      BY <1>1, <2>2 DEF Owed
    <3>2. Filling(f, r)' <=> Filling(f, r)
      BY <1>1 DEF Filling
    <3> QED  BY <1>1, <2>1, <3>1, <3>2 DEF RingOK, ExecOK
  <2>4. ReaderOK(f) => ReaderOK(f)'
    BY <1>1, <2>2 DEF ReaderOK
  <2>5. WorkerOK(f) => WorkerOK(f)'
    BY <1>1 DEF WorkerOK
  <2> QED  BY <2>1, <2>3, <2>4, <2>5 DEF ExecOK
<1> QED  BY <1>2, <1>3, <1>4 DEF IoInv

\* core_try_prefetch submits its batch.
LEMMA PrefetchSubmitOK ==
    ASSUME IoInv, NEW t \in Readers, PrefetchSubmit(t)
    PROVE  IoInv'
<1>1. /\ t \in Executors /\ ReaderOK(t) /\ RingOK(t, "read")
      /\ RingOK(t, "write") /\ TypeOK /\ ring[t]["read"] \in RingType
      /\ left[t] \in Nat /\ await[t] \in Nat
  BY ReaderFacts
<1>2. failed = "none" /\ pc[t] = "prefetch" /\ left[t] = 0
  BY DEF PrefetchSubmit, At
<1>3. Phase(t) = "prefetch" /\ await[t] <= Batch
  BY <1>1, <1>2 DEF Phase, ReaderOK
<1>4. Owed(t, "read") = await[t]
  <2>1. Owed(t, "read") = await[t] - left[t]
    BY <1>3 DEF Owed
  <2> QED  BY <1>1, <1>2, <2>1
<1>5. CASE ~ring[t]["read"].init
  <2>1. Fail("submit on a ring that was not initialised")
    BY <1>5, RingNames DEF PrefetchSubmit
  <2>2. t \in Prefetchers /\ await[t] = 0
    BY <1>1, <1>2, <1>5 DEF ReaderOK, Readers
  <2> QED  BY <1>2, <2>1, <2>2, RoundFails
<1>6. CASE ring[t]["read"].init
  <2>1. PICK l : l = IF await[t] = 0 THEN "idle" ELSE "collect"
    OBVIOUS
  <2>2. /\ ring' = [ring EXCEPT ![t]["read"] = Submit(ring[t]["read"])]
        /\ pc' = [pc EXCEPT ![t] = l] /\ left' = [left EXCEPT ![t] = await[t]]
        /\ await' = await /\ back' = back /\ failed' = failed
    BY <1>6, <2>1, RingNames DEF PrefetchSubmit, Goto
  <2>3. Submit(ring[t]["read"]) \in RingType
    BY <1>1, SubmittedRing DEF RingOK
  <2>4. OwnRings(t) /\ RingBecomes(t, "read", Submit(ring[t]["read"]))
    BY <1>1, <2>2, <2>3, RingNames, Becomes
  <2>5. /\ TypeOK' /\ OnlyMoves(t) /\ pc'[t] = l /\ left'[t] = await[t]
        /\ await'[t] = await[t]
    <3>1. Rows(t, l, await[t], await[t], back[t])
      BY <1>1, <2>2, SameRows DEF Rows
    <3> QED  BY <1>1, <2>1, <2>2, <2>4, <3>1, SameRows, Moves DEF Pcs
  <2>6. Phase(t)' = l
    BY <2>1, <2>5 DEF Phase
  <2>7. Owed(t, "read")' = Owed(t, "read")
    BY <1>4, <2>1, <2>5, <2>6 DEF Owed
  <2>8. Owed(t, "write") = 0 /\ Owed(t, "write")' = 0 /\ ~Filling(t, "read")'
    BY <1>2, <2>1, <2>5 DEF Owed, Filling
  <2>9. RingOK(t, "read")'
    BY <1>1, <2>4, <2>7, <2>8, RingNames, AllSubmitted
  <2>10. RingOK(t, "write")'
    <3>1. ring'[t]["write"] = ring[t]["write"]
      BY <2>4 DEF RingBecomes, Rings
    <3> QED  BY <1>1, <2>8, <3>1, RingNames, EmptyStays
  <2>11. ReaderOK(t)'
    BY <1>1, <1>3, <2>1, <2>5, <2>6 DEF ReaderOK, Pcs, WorkerPcs
  <2> QED  BY <1>2, <2>2, <2>5, <2>9, <2>10, <2>11, ReaderMoved
<1> QED  BY <1>5, <1>6

-----------------------------------------------------------------------------
(* Steps of an eviction worker that use a ring.                             *)

\* A page of the vector is written, or is clean.
LEMMA VectorPrepareOK ==
    ASSUME IoInv, NEW w \in Workers, VectorPrepare(w)
    PROVE  IoInv'
<1>1. /\ w \in Executors /\ WorkerOK(w) /\ RingOK(w, "read")
      /\ RingOK(w, "write") /\ TypeOK /\ ring[w]["write"] \in RingType
      /\ left[w] \in Nat /\ await[w] \in Nat
  BY WorkerFacts
<1>2. failed = "none" /\ pc[w] = "prepare" /\ left[w] > 0
  BY DEF VectorPrepare, At
<1>3. /\ left[w] + await[w] <= Vector
      /\ await[w] > 0 => ring[w]["write"].init
  BY <1>1, <1>2 DEF WorkerOK
<1>4. Owed(w, "write") = await[w] /\ Owed(w, "read") = 0 /\ await[w] < QD
  <2>1. Owed(w, "write") = await[w] /\ Owed(w, "read") = 0
    BY <1>2 DEF Owed, Phase
  <2> QED  BY <1>1, <1>2, <1>3, <2>1, IoAssumption
<1>5. HasRoom(w, "vector")
  BY <1>1, <1>4, Room, RingNames DEF HasRoom
<1>6. left[w] - 1 \in 0 .. QD /\ await[w] + 1 \in 0 .. QD /\ left[w] \in 1 .. Vector
  BY <1>1, <1>2, <1>3, <1>4, IoAssumption
<1>7. CASE /\ left' = [left EXCEPT ![w] = @ - 1]
           /\ UNCHANGED <<ring, pc, await, back, failed>>
  <2>1. /\ TypeOK' /\ OnlyMoves(w) /\ pc'[w] = "prepare" /\ left'[w] = left[w] - 1
        /\ await'[w] = await[w]
    <3>1. Rows(w, pc[w], left[w] - 1, await[w], back[w]) /\ OwnRings(w)
      BY <1>1, <1>7, SameRows DEF Rows
    <3> QED  BY <1>1, <1>2, <1>6, <1>7, <3>1, SameRows, Moves
  <2>2. /\ Owed(w, "write")' = await[w] /\ Owed(w, "read")' = 0
        /\ Filling(w, "write") /\ Filling(w, "write")'
    BY <1>2, <2>1 DEF Owed, Phase, Filling
  <2>3. RingOK(w, "read")'
    BY <1>1, <1>4, <1>7, <2>2, RingNames, EmptyStays
  <2>4. RingOK(w, "write")'
    <3>1. \A d \in Out(ring[w]["write"]) : d[2] > left[w] - 1
      <4>1. \A d \in Out(ring[w]["write"]) : d[2] > left[w] /\ d[2] \in Nat
        BY <1>1, <2>2, Numbered DEF RingOK
      <4> QED  BY <1>1, <4>1
    <3> QED  BY <1>1, <1>4, <1>7, <2>1, <2>2, <3>1 DEF RingOK
  <2>5. WorkerOK(w)'
    BY <1>1, <1>3, <1>7, <2>1, IoAssumption DEF WorkerOK, WorkerPcs
  <2> QED  BY <1>2, <1>7, <2>1, <2>3, <2>4, <2>5, WorkerMoved
<1>8. CASE ~UNCHANGED <<ring, pc, await, back, failed>>
  <2>1. /\ Prepare(w, "vector", left[w]) /\ left' = [left EXCEPT ![w] = left[w] - 1]
        /\ await' = [await EXCEPT ![w] = await[w] + 1] /\ pc' = pc /\ back' = back
        /\ failed' = failed
    BY <1>5, <1>8 DEF VectorPrepare
  <2>2. PICK c : c = <<"vector", left[w]>>
    OBVIOUS
  <2>3. c \in Requests /\ c[1] \in Kinds("write") /\ c[2] = left[w]
    BY <1>6, <2>2, RequestNames DEF Kinds
  <2>4. OwnRings(w) /\ RingBecomes(w, "write", Prepared(ring[w]["write"], c))
    BY <1>1, <2>1, <2>2, <2>3, RingNames, PrepareStep
  <2>5. /\ TypeOK' /\ OnlyMoves(w) /\ pc'[w] = "prepare" /\ left'[w] = left[w] - 1
        /\ await'[w] = await[w] + 1
    <3>1. Rows(w, pc[w], left[w] - 1, await[w] + 1, back[w])
      BY <1>1, <2>1, SameRows DEF Rows
    <3> QED  BY <1>1, <1>2, <1>6, <2>1, <2>4, <3>1, SameRows, Moves
  <2>6. /\ Owed(w, "write")' = await[w] + 1 /\ Owed(w, "read")' = 0
        /\ Filling(w, "write") /\ Filling(w, "write")'
    BY <1>2, <2>5 DEF Owed, Phase, Filling
  <2>7. RingOK(w, "write")' /\ ring'[w]["write"].init
    BY <1>1, <1>4, <2>3, <2>4, <2>5, <2>6, RingNames, Numbered, OneMore
  <2>8. RingOK(w, "read")'
    <3>1. ring'[w]["read"] = ring[w]["read"]
      BY <2>4 DEF RingBecomes, Rings
    <3> QED  BY <1>1, <1>4, <2>6, <3>1, RingNames, EmptyStays
  <2>9. WorkerOK(w)'
    BY <1>1, <1>3, <2>5, <2>7, IoAssumption DEF WorkerOK, WorkerPcs
  <2> QED  BY <1>2, <2>1, <2>5, <2>7, <2>8, <2>9, WorkerMoved
<1> QED  BY <1>5, <1>7, <1>8 DEF VectorPrepare

\* The vector is submitted.
LEMMA VectorSubmitOK ==
    ASSUME IoInv, NEW w \in Workers, VectorSubmit(w)
    PROVE  IoInv'
<1>1. /\ w \in Executors /\ WorkerOK(w) /\ RingOK(w, "read")
      /\ RingOK(w, "write") /\ TypeOK /\ ring[w]["write"] \in RingType
      /\ left[w] \in Nat /\ await[w] \in Nat
  BY WorkerFacts
<1>2. failed = "none" /\ pc[w] = "prepare" /\ left[w] = 0
  BY DEF VectorSubmit, At
<1>3. /\ await[w] <= Vector
      /\ await[w] > 0 => ring[w]["write"].init
  <2>1. left[w] + await[w] <= Vector
    BY <1>1, <1>2 DEF WorkerOK
  <2> QED  BY <1>1, <1>2, <2>1 DEF WorkerOK
<1>4. CASE ~ring[w]["write"].init
  <2>1. Fail("submit on a ring that was not initialised")
    BY <1>4, RingNames DEF VectorSubmit, SubmitAll
  <2>2. await[w] = 0
    BY <1>1, <1>3, <1>4
  <2> QED  BY <1>2, <2>1, <2>2, RoundFails
<1>5. CASE ring[w]["write"].init
  <2>1. /\ ring' = [ring EXCEPT ![w]["write"] = Submit(ring[w]["write"])]
        /\ pc' = [pc EXCEPT ![w] = "receive"] /\ left' = left
        /\ await' = await /\ back' = back /\ failed' = failed
    BY <1>5, RingNames DEF VectorSubmit, SubmitAll, Goto
  <2>2. Submit(ring[w]["write"]) \in RingType
    BY <1>1, SubmittedRing DEF RingOK
  <2>3. OwnRings(w) /\ RingBecomes(w, "write", Submit(ring[w]["write"]))
    BY <1>1, <2>1, <2>2, RingNames, Becomes
  <2>4. /\ TypeOK' /\ OnlyMoves(w) /\ pc'[w] = "receive" /\ left'[w] = left[w]
        /\ await'[w] = await[w]
    <3>1. Rows(w, "receive", left[w], await[w], back[w])
      BY <1>1, <2>1, SameRows DEF Rows
    <3> QED  BY <1>1, <2>1, <2>3, <3>1, SameRows, Moves DEF Pcs
  <2>5. /\ Owed(w, "write")' = Owed(w, "write") /\ Owed(w, "read") = 0
        /\ Owed(w, "read")' = 0 /\ ~Filling(w, "write")'
    BY <1>2, <2>4 DEF Owed, Phase, Filling
  <2>6. RingOK(w, "write")'
    BY <1>1, <2>3, <2>5, RingNames, AllSubmitted
  <2>7. RingOK(w, "read")'
    <3>1. ring'[w]["read"] = ring[w]["read"]
      BY <2>3 DEF RingBecomes, Rings
    <3> QED  BY <1>1, <2>5, <3>1, RingNames, EmptyStays
  <2>8. WorkerOK(w)'
    BY <1>2, <1>3, <2>4 DEF WorkerOK, WorkerPcs
  <2> QED  BY <1>2, <2>1, <2>4, <2>6, <2>7, <2>8, WorkerMoved
<1> QED  BY <1>4, <1>5

\* ioring_finish_write as often as requests were prepared.
LEMMA VectorReceiveOK ==
    ASSUME IoInv, NEW w \in Workers, VectorReceive(w)
    PROVE  IoInv'
<1>1. /\ w \in Executors /\ WorkerOK(w) /\ RingOK(w, "read")
      /\ RingOK(w, "write") /\ TypeOK /\ ring[w]["write"] \in RingType
      /\ left[w] \in Nat /\ await[w] \in Nat
  BY WorkerFacts
<1>2. /\ failed = "none" /\ pc[w] = "receive" /\ left' = left /\ back' = back
      /\ failed' = failed
  BY DEF VectorReceive, At
<1>3. left[w] = 0 /\ await[w] <= Vector
  BY <1>1, <1>2 DEF WorkerOK
<1>4. Owed(w, "write") = await[w] /\ Owed(w, "read") = 0 /\ ~Filling(w, "write")
  BY <1>2 DEF Owed, Phase, Filling
<1>5. CASE /\ await[w] = 0 /\ Goto(w, "unmap")
           /\ UNCHANGED <<ring, await>>
  <2>1. /\ TypeOK' /\ OnlyMoves(w) /\ pc'[w] = "unmap" /\ left'[w] = left[w]
        /\ await'[w] = await[w]
    <3>1. Rows(w, "unmap", left[w], await[w], back[w]) /\ OwnRings(w)
      BY <1>1, <1>2, <1>5, SameRows DEF Rows, Goto
    <3> QED  BY <1>1, <1>2, <3>1, SameRows, Moves DEF Pcs
  <2>2. ASSUME NEW r \in Rings PROVE Owed(w, r) = 0 /\ Owed(w, r)' = 0
    BY <1>4, <1>5, <2>1 DEF Owed, Phase, Rings
  <2>3. RingOK(w, "read")' /\ RingOK(w, "write")'
    BY <1>1, <1>5, <2>2, RingNames, EmptyStays
  <2>4. WorkerOK(w)'
    BY <1>3, <1>5, <2>1 DEF WorkerOK, WorkerPcs
  <2> QED  BY <1>2, <2>1, <2>3, <2>4, WorkerMoved
<1>6. CASE /\ await[w] > 0 /\ WaitCqe(w, "vector") /\ UNCHANGED pc
           /\ await' = [await EXCEPT ![w] = @ - 1]
  <2>1. OwnRings(w)
    BY <1>1, <1>6, RingNames, WaitStep
  <2>2. PICK c \in ring[w]["write"].cq : RingBecomes(w, "write", Seen(ring[w]["write"], c))
    BY <1>1, <1>6, RingNames, WaitStep
  <2>3. /\ TypeOK' /\ OnlyMoves(w) /\ pc'[w] = "receive" /\ left'[w] = left[w]
        /\ await'[w] = await[w] - 1
    <3>1. Rows(w, pc[w], left[w], await[w] - 1, back[w])
      BY <1>1, <1>2, <1>6, SameRows DEF Rows
    <3>2. await[w] - 1 \in 0 .. QD
      BY <1>1, <1>3, <1>6, IoAssumption
    <3> QED  BY <1>1, <1>2, <2>1, <3>1, <3>2, SameRows, Moves
  <2>4. /\ Owed(w, "write")' = await[w] - 1 /\ Owed(w, "read")' = 0 /\ ~Filling(w, "write")'
    BY <2>3 DEF Owed, Phase, Filling
  <2>5. RingOK(w, "write")'
    BY <1>1, <1>4, <2>2, <2>4, RingNames, OneSeen
  <2>6. RingOK(w, "read")'
    <3>1. ring'[w]["read"] = ring[w]["read"]
      BY <2>2 DEF RingBecomes, Rings
    <3> QED  BY <1>1, <1>4, <2>4, <3>1, RingNames, EmptyStays
  <2>7. WorkerOK(w)'
    BY <1>1, <1>3, <2>3, IoAssumption DEF WorkerOK, WorkerPcs
  <2> QED  BY <1>2, <2>3, <2>5, <2>6, <2>7, WorkerMoved
<1> QED  BY <1>5, <1>6 DEF VectorReceive

-----------------------------------------------------------------------------
(* The device, and the invariant as a whole.                                *)

\* A completion arrives, in any order: no count changes.
LEMMA CompleteOK ==
    ASSUME IoInv, NEW e \in Executors, NEW r \in Rings, Complete(e, r)
    PROVE  IoInv'
<1>1. TypeOK /\ ExecOK(e) /\ RingOK(e, r)
  BY DEF IoInv, ExecOK
<1>2. ring[e][r] \in RingType /\ Apart(ring[e][r])
  <2>1. ring \in [Executors -> [Rings -> RingType]]
    BY <1>1 DEF TypeOK, RingType
  <2> QED  BY <1>1, <2>1 DEF RingOK
<1>3. /\ failed = "none" /\ failed' = failed /\ pc' = pc /\ left' = left /\ await' = await
      /\ back' = back
  BY DEF Complete
<1>4. PICK c \in ring[e][r].flight :
        ring' = [ring EXCEPT ![e][r].flight = @ \ {c}, ![e][r].cq = @ \cup {c}]
  BY DEF Complete
<1>5. PICK p : p = Completed(ring[e][r], c)
  OBVIOUS
<1>6. /\ p \in RingType /\ p.init = ring[e][r].init /\ p.sq = ring[e][r].sq
      /\ Out(p) = Out(ring[e][r]) /\ Apart(p)
  BY <1>2, <1>5, CompletedRing
<1>7. ring' = [ring EXCEPT ![e][r] = p]
  <2>1. ring \in [Executors -> [Rings -> RingType]]
    BY <1>1 DEF TypeOK, RingType
  <2>2. ring'[e][r] = p
    BY <1>4, <1>5, <2>1 DEF Completed, RingType
  <2>3. ring' = [ring EXCEPT ![e][r] = ring'[e][r]]
    BY <1>4, <2>1
  <2> QED  BY <2>2, <2>3
<1>8. OwnRings(e) /\ RingBecomes(e, r, p)
  BY <1>1, <1>6, <1>7, Becomes
<1>9. TypeOK' /\ OnlyMoves(e)
  <2>1. Rows(e, pc[e], left[e], await[e], back[e])
    BY <1>1, <1>3, SameRows DEF Rows
  <2> QED  BY <1>1, <1>3, <1>8, <2>1, SameRows, Moves
<1>10. /\ Phase(e)' = Phase(e)
       /\ \A s \in Rings : ring'[e][s].init = ring[e][s].init
  BY <1>3, <1>6, <1>8 DEF Phase, RingBecomes
<1>11. ASSUME NEW s \in Rings PROVE RingOK(e, s)'
  <2>1. Owed(e, s)' = Owed(e, s)
    BY <1>3, <1>10 DEF Owed
  <2>2. Filling(e, s)' <=> Filling(e, s)
    BY <1>3 DEF Filling
  <2>3. RingOK(e, s)
    BY <1>1 DEF ExecOK
  <2>4. CASE s = r
    BY <1>3, <1>6, <1>8, <2>1, <2>2, <2>3, <2>4 DEF RingOK, RingBecomes
  <2>5. CASE s # r
    BY <1>3, <1>8, <2>1, <2>2, <2>3, <2>5 DEF RingOK, RingBecomes
  <2> QED  BY <2>4, <2>5
<1>12. ReaderOK(e) => ReaderOK(e)'
  BY <1>3, <1>10, RingNames DEF ReaderOK
<1>13. WorkerOK(e) => WorkerOK(e)'
  BY <1>3, <1>10, RingNames DEF WorkerOK
<1>14. ExecOK(e)'
  BY <1>1, <1>11, <1>12, <1>13 DEF ExecOK
<1>15. ASSUME NEW f \in Executors PROVE ExecOK(f)'
  BY <1>9, <1>14, OthersOK DEF IoInv
<1>16. OnlyEmptyRoundFails'
  BY <1>3 DEF OnlyEmptyRoundFails
<1> QED  BY <1>9, <1>15, <1>16 DEF IoInv

\* A step that changes nothing.
LEMMA StuttersOK ==
    ASSUME IoInv, UNCHANGED vars
    PROVE  IoInv'
<1>1. /\ ring' = ring /\ pc' = pc /\ left' = left /\ await' = await /\ back' = back
      /\ failed' = failed
  BY DEF vars
<1>2. TypeOK' /\ OnlyEmptyRoundFails'
  BY <1>1 DEF IoInv, TypeOK, OnlyEmptyRoundFails
<1>3. ASSUME NEW f \in Executors PROVE ExecOK(f)'
  <2>1. ExecOK(f)
    BY DEF IoInv
  <2>2. Phase(f)' = Phase(f)
    BY <1>1 DEF Phase
  <2>3. ASSUME NEW r \in Rings PROVE RingOK(f, r)'
    <3>1. Owed(f, r)' = Owed(f, r)
      BY <1>1, <2>2 DEF Owed
    <3>2. Filling(f, r)' <=> Filling(f, r)
      BY <1>1 DEF Filling
    <3> QED  BY <1>1, <2>1, <3>1, <3>2 DEF RingOK, ExecOK
  <2>4. ReaderOK(f) => ReaderOK(f)'
    BY <1>1, <2>2 DEF ReaderOK
  <2>5. WorkerOK(f) => WorkerOK(f)'
    BY <1>1 DEF WorkerOK
  <2> QED  BY <2>1, <2>3, <2>4, <2>5 DEF ExecOK
<1> QED  BY <1>2, <1>3 DEF IoInv

\* Initially every ring is empty.
LEMMA InitIo == Init => IoInv
<1> SUFFICES ASSUME Init PROVE IoInv
  OBVIOUS
<1>1. /\ ring = [e \in Executors |-> [r \in Rings |-> NewRing]]
      /\ pc = [e \in Executors |-> "idle"] /\ left = [e \in Executors |-> 0]
      /\ await = [e \in Executors |-> 0] /\ back = [e \in Executors |-> "idle"]
      /\ failed = "none"
  BY DEF Init
<1>2. NewRing \in RingType /\ Out(NewRing) = {} /\ Apart(NewRing) /\ NewRing.sq = {}
  BY DEF NewRing, RingType, Out, Apart
<1>3. TypeOK
  <2>1. ring \in [Executors -> [Rings -> RingType]]
    BY <1>1, <1>2
  <2>2. 0 \in 0 .. QD
    BY IoAssumption
  <2>3. /\ pc \in [Executors -> Pcs] /\ left \in [Executors -> 0 .. QD]
        /\ await \in [Executors -> 0 .. QD]
        /\ back \in [Executors -> {"idle", "search", "search_first", "collect"}]
    BY <1>1, <2>2 DEF Pcs
  <2> QED  BY <1>1, <2>1, <2>3 DEF TypeOK, RingType, Pcs
<1>4. OnlyEmptyRoundFails
  BY <1>1 DEF OnlyEmptyRoundFails
<1>5. ASSUME NEW e \in Executors PROVE ExecOK(e)
  <2>1. pc[e] = "idle" /\ left[e] = 0 /\ await[e] = 0
    BY <1>1
  <2>2. ReaderOK(e) /\ WorkerOK(e)
    BY <2>1 DEF ReaderOK, WorkerOK, Phase, Pcs, WorkerPcs
  <2>3. ASSUME NEW r \in Rings PROVE RingOK(e, r)
    <3>1. ring[e][r] = NewRing
      BY <1>1
    <3>2. Owed(e, r) = 0 /\ ~Filling(e, r)
      BY <2>1 DEF Owed, Phase, Filling
    <3> QED  BY <1>2, <3>1, <3>2, FS_EmptySet DEF RingOK
  <2> QED  BY <2>2, <2>3 DEF ExecOK
<1> QED  BY <1>3, <1>4, <1>5 DEF IoInv

\* Every step keeps the invariant.
LEMMA NextIo == IoInv /\ [Next]_vars => IoInv'
<1> SUFFICES ASSUME IoInv, [Next]_vars PROVE IoInv'
  OBVIOUS
<1>1. ASSUME NEW t \in Threads, StartRead(t) \/ FirstFault(t) PROVE IoInv'
  BY <1>1, StartReadOK, FirstFaultOK
<1>2. ASSUME NEW f \in Prefetchers, PrefetchRound(f) PROVE IoInv'
  BY <1>2, PrefetchRoundOK
<1>3. ASSUME NEW t \in Readers, WriteStore(t) \/ ReaderStep(t) PROVE IoInv'
  BY <1>3, WriteStoreOK, WriteWaitOK, WrittenOK, GotFrameOK, FinishReadOK, UseReadOK,
     UseBatchOK, PrefetchPrepareOK, PrefetchSubmitOK DEF ReaderStep
<1>4. ASSUME NEW w \in Workers, TakeVector(w) \/ WorkerStep(w) PROVE IoInv'
  BY <1>4, TakeVectorOK, VectorPrepareOK, VectorSubmitOK, VectorReceiveOK, VectorUnmapOK
     DEF WorkerStep
<1>5. ASSUME NEW e \in Executors, NEW r \in Rings, Complete(e, r) PROVE IoInv'
  BY <1>5, CompleteOK
<1>6. ASSUME Aborted \/ UNCHANGED vars PROVE IoInv'
  BY <1>6, StuttersOK DEF Aborted
<1> QED  BY <1>1, <1>2, <1>3, <1>4, <1>5, <1>6 DEF Next

\* The invariant holds in every reachable state.
LEMMA IoInvariance == Spec => []IoInv
  BY InitIo, NextIo, PTL DEF Spec

-----------------------------------------------------------------------------
(* The theorems.                                                            *)

\* Every variable keeps its type: no counter of a caller runs past the entries
\* of a queue, for every number of threads and workers and every size.
THEOREM IoTypes == Spec => []TypeOK
<1>1. IoInv => TypeOK
  BY DEF IoInv
<1> QED  BY <1>1, IoInvariance, PTL

\* No request of these kinds is pending when none is out in either ring.
LEMMA NonePending ==
    ASSUME NEW e, NEW kinds,
           \A r \in Rings : \A c \in Out(ring[e][r]) : c[1] \notin kinds
    PROVE  Pending(e, kinds) = {}
  BY DEF Pending, Out

\* What storage_iouring.c awaited is complete: when a page is mapped it has been
\* read, when it is unmapped it has been written, although completions are
\* only counted and arrive in any order.
THEOREM AwaitedIsCompleteHolds == Spec => []AwaitedIsComplete
<1>1. ASSUME IoInv, NEW e \in Executors
      PROVE  /\ pc[e] \in {"use", "use_batch"} => Pending(e, {"swapin", "batch"}) = {}
             /\ pc[e] = "written" => Pending(e, {"evict"}) = {}
             /\ pc[e] = "unmap" => Pending(e, {"vector"}) = {}
  <2>1. \A r \in Rings : RingOK(e, r)
    BY <1>1 DEF IoInv, ExecOK
  <2>2. CASE pc[e] \in {"use", "use_batch", "unmap"}
    <3>1. ASSUME NEW r \in Rings PROVE Out(ring[e][r]) = {}
      <4>1. Owed(e, r) = 0
        BY <2>2 DEF Owed, Phase, Rings
      <4> QED  BY <2>1, <4>1, NothingOwed
    <3>2. /\ Pending(e, {"swapin", "batch"}) = {} /\ Pending(e, {"vector"}) = {}
      BY <3>1, NonePending
    <3> QED  BY <2>2, <3>2
  <2>3. CASE pc[e] = "written"
    <3>1. Owed(e, "write") = 0
      BY <2>3 DEF Owed
    <3>2. Out(ring[e]["write"]) = {}
      BY <2>1, <3>1, RingNames, NothingOwed
    <3>3. \A c \in Out(ring[e]["read"]) : c[1] \in {"swapin", "batch"}
      BY <2>1, RingNames DEF RingOK, Kinds
    <3>4. \A r \in Rings : \A c \in Out(ring[e][r]) : c[1] \notin {"evict"}
      BY <3>2, <3>3 DEF Rings
    <3> QED  BY <2>3, <3>4, NonePending
  <2> QED  BY <2>2, <2>3
<1>2. IoInv => AwaitedIsComplete
  BY <1>1 DEF AwaitedIsComplete
<1> QED  BY <1>2, IoInvariance, PTL

\* Between two faults or rounds the rings of a thread are empty, so that a
\* completion is never counted for a later request.
THEOREM RingsDrainedHolds == Spec => []RingsDrained
<1>1. ASSUME IoInv, NEW e \in Executors, pc[e] = "idle", NEW r \in Rings
      PROVE  ring[e][r].sq = {} /\ ring[e][r].flight = {} /\ ring[e][r].cq = {}
  <2>1. RingOK(e, r)
    BY <1>1 DEF IoInv, ExecOK
  <2>2. Owed(e, r) = 0
    BY <1>1 DEF Owed, Phase, Rings
  <2> QED  BY <2>1, <2>2, NothingOwed
<1>2. IoInv => RingsDrained
  BY <1>1 DEF RingsDrained
<1> QED  BY <1>2, IoInvariance, PTL

\* io_uring_get_sqe never returns null, and a ring is submitted before it was
\* initialised only for the empty round of a worker that never had a request.
THEOREM OnlyEmptyRoundFailsHolds == Spec => []OnlyEmptyRoundFails
<1>1. IoInv => OnlyEmptyRoundFails
  BY DEF IoInv
<1> QED  BY <1>1, IoInvariance, PTL

=============================================================================
