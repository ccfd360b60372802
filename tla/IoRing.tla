-------------------------------- MODULE IoRing --------------------------------
(***************************************************************************)
(* Input and output through io_uring (storage_iouring.c) as its callers    *)
(* use it: a faulting thread starts a read, may have to write out pages of *)
(* its own before it waits for the read, and may then read a batch of      *)
(* pages ahead; the prefetch worker of the pageRank policy reads batches   *)
(* only; an eviction worker writes a vector of pages.  Every thread has a  *)
(* ring for writes and one for reads, initialised by the first request it  *)
(* prepares.  The caller counts its requests and then waits for as many    *)
(* completions; which request a completion belongs to it never looks at.   *)
(*                                                                         *)
(* The pages and the disk are in the modules Eviction and FaultHandler,    *)
(* where an awaited write is one step: this module shows that what these   *)
(* await has really happened.                                              *)
(***************************************************************************)
EXTENDS Naturals, FiniteSets

CONSTANTS
    Threads,    \* faulting threads
    Prefetchers, \* prefetch workers
    Workers,    \* eviction workers
    QD,         \* entries of a submission queue
    Vector,     \* EVICT_VECTOR_SIZE
    Batch       \* CORE_PREFETCH_RATE

ASSUME IoAssumption ==
    /\ QD \in Nat /\ Vector \in Nat \ {0} /\ Batch \in Nat
    /\ Vector <= QD /\ Batch <= QD /\ QD > 0
    /\ Threads \cap Workers = {} /\ Prefetchers \cap (Threads \cup Workers) = {}

VARIABLES
    ring,      \* the two rings of each thread
    pc,        \* where it is
    left,      \* entries of its vector or batch it has still to go through
    await,     \* completions it has still to wait for
    back,      \* where it goes on after the writes of an eviction of its own
    failed     \* what ended the process, or "none"

vars == <<ring, pc, left, await, back, failed>>

Readers   == Threads \cup Prefetchers
Executors == Readers \cup Workers
Rings == {"read", "write"}

\* A request is named by the place it is used: the page of a swap-in, entry i of
\* a batch or a vector, the page a thread evicts.
Requests == {<<"swapin", 0>>, <<"evict", 0>>} \cup ({"batch"} \X (1 .. Batch))
              \cup ({"vector"} \X (1 .. Vector))

\* sq: prepared; flight: submitted; cq: completed and not yet seen.
NewRing == [init |-> FALSE, sq |-> {}, flight |-> {}, cq |-> {}]

Init == /\ ring = [e \in Executors |-> [r \in Rings |-> NewRing]]
        /\ pc = [e \in Executors |-> "idle"]
        /\ left = [e \in Executors |-> 0]
        /\ await = [e \in Executors |-> 0]
        /\ back = [e \in Executors |-> "idle"]
        /\ failed = "none"

At(e, label) == failed = "none" /\ pc[e] = label

Goto(e, label) == pc' = [pc EXCEPT ![e] = label]

Fail(label) == failed' = label /\ UNCHANGED <<ring, pc, left, await, back>>

-----------------------------------------------------------------------------
(* storage_iouring.c.                                                       *)

\* Mutant: reads share the ring of the writes.
RingOf_Shared(kind) == "write"

\* The ring a request goes to.
RingOf(kind) == IF kind \in {"swapin", "batch"} THEN "read" ELSE "write"

\* thread_init_iouring, thread_init_read_iouring: on first use.
Initialised(rg) == [rg EXCEPT !.init = TRUE]

\* io_uring_get_sqe and io_uring_prep_*: there must be room in the queue.
HasRoom(e, kind) == Cardinality(ring[e][RingOf(kind)].sq) < QD

Prepared(rg, c) == [Initialised(rg) EXCEPT !.sq = @ \cup {c}]

Prepare(e, kind, i) ==
    ring' = [ring EXCEPT ![e][RingOf(kind)] = Prepared(@, <<kind, i>>)]

\* Mutant: what was prepared and submitted stays in the queue.
Submit_Keeps(rg) == [rg EXCEPT !.flight = @ \cup rg.sq]

\* io_uring_submit, of everything prepared.
Submit(rg) == [rg EXCEPT !.flight = @ \cup rg.sq, !.sq = {}]

\* One request, submitted at once.
PrepareAndSubmit(e, kind) ==
    ring' = [ring EXCEPT ![e][RingOf(kind)] = Submit(Prepared(@, <<kind, 0>>))]

\* Submission of a ring that was never initialised reads through null pointers.
SubmitAll(e, kind, next) ==
    IF ring[e][RingOf(kind)].init
    THEN /\ ring' = [ring EXCEPT ![e][RingOf(kind)] = Submit(@)]
         /\ Goto(e, next)
         /\ UNCHANGED <<left, await, back, failed>>
    ELSE Fail("submit on a ring that was not initialised")

\* io_uring_wait_cqe and io_uring_cqe_seen: any completion will do.
WaitCqe(e, kind) ==
    /\ ring[e][RingOf(kind)].init
    /\ \E c \in ring[e][RingOf(kind)].cq :
         ring' = [ring EXCEPT ![e][RingOf(kind)].cq = @ \ {c}]

\* The device, in any order and at any time.
Complete(e, r) ==
    /\ failed = "none"
    /\ \E c \in ring[e][r].flight :
         ring' = [ring EXCEPT ![e][r].flight = @ \ {c}, ![e][r].cq = @ \cup {c}]
    /\ UNCHANGED <<pc, left, await, back, failed>>

-----------------------------------------------------------------------------
(* A faulting thread.                                                       *)

\* ioring_start_read
StartRead(t) ==
    /\ At(t, "idle")
    /\ IF HasRoom(t, "swapin")
       THEN /\ PrepareAndSubmit(t, "swapin")
            /\ Goto(t, "search")
            /\ left' = [left EXCEPT ![t] = 1]
            /\ UNCHANGED <<await, back, failed>>
       ELSE Fail("io_uring_get_sqe")

\* A first fault has nothing to read, but needs a frame.
FirstFault(t) ==
    /\ At(t, "idle")
    /\ Goto(t, "search_first")
    /\ UNCHANGED <<ring, left, await, back, failed>>

Searching == {"search", "search_first", "collect"}

\* The frame was the last one needed, or not.
GetFrame(t, from) ==
    /\ pc' = [pc EXCEPT ![t] = CASE from = "search_first" -> "idle"
                                 [] from = "search" -> "finish"
                                 [] from = "collect" /\ left[t] = 1 -> "finish_batch"
                                 [] OTHER -> "collect"]
    /\ await' = [await EXCEPT ![t] = IF from = "search" THEN 1 ELSE @]
    /\ left' = [left EXCEPT ![t] = IF @ > 0 THEN @ - 1 ELSE @]

\* A frame that is free, or that a clean page leaves.
GotFrame(t) ==
    /\ failed = "none" /\ pc[t] \in Searching
    /\ GetFrame(t, pc[t])
    /\ UNCHANGED <<ring, back, failed>>

\* Or the thread evicts a page that must be written: ioring_write_store, up to
\* the wait ...
WriteStore(t) ==
    /\ failed = "none" /\ pc[t] \in Searching
    /\ IF HasRoom(t, "evict")
       THEN /\ PrepareAndSubmit(t, "evict")
            /\ back' = [back EXCEPT ![t] = pc[t]]
            /\ Goto(t, "write_wait")
            /\ UNCHANGED <<left, await, failed>>
       ELSE Fail("io_uring_get_sqe")

WriteWait(t) ==
    /\ At(t, "write_wait")
    /\ WaitCqe(t, "evict")
    /\ Goto(t, "written")
    /\ UNCHANGED <<left, await, back, failed>>

\* ... and the page is unmapped: its frame is the one the thread looked for.
Written(t) ==
    /\ At(t, "written")
    /\ GetFrame(t, back[t])
    /\ back' = [back EXCEPT ![t] = "idle"]
    /\ UNCHANGED <<ring, failed>>

\* ioring_finish_read, once or for each page of a batch.
FinishRead(t) ==
    /\ failed = "none" /\ pc[t] \in {"finish", "finish_batch"}
    /\ WaitCqe(t, "swapin")
    /\ await' = [await EXCEPT ![t] = @ - 1]
    /\ pc' = [pc EXCEPT ![t] = CASE await[t] > 1 -> @
                                 [] @ = "finish" -> "use"
                                 [] OTHER -> "use_batch"]
    /\ UNCHANGED <<left, back, failed>>

\* A prefetch that has claimed n pages.
BeginBatch(t, n) == /\ left' = [left EXCEPT ![t] = n]
                    /\ await' = [await EXCEPT ![t] = n]
                    /\ Goto(t, "prefetch")

\* The page is mapped with what was read; a prefetch may follow.
UseRead(t) ==
    /\ At(t, "use")
    /\ \/ Goto(t, "idle") /\ UNCHANGED <<left, await>>
       \/ \E n \in 0 .. Batch : BeginBatch(t, n)
    /\ UNCHANGED <<ring, back, failed>>

UseBatch(t) ==
    /\ At(t, "use_batch")
    /\ Goto(t, "idle")
    /\ UNCHANGED <<ring, left, await, back, failed>>

\* lrudisk_prefetchworker
PrefetchRound(f) ==
    /\ At(f, "idle")
    /\ \E n \in 0 .. Batch : BeginBatch(f, n)
    /\ UNCHANGED <<ring, back, failed>>

\* Mutant: the page claimed last is not asked for.
PrefetchPrepare_OffByOne(t) ==
    /\ At(t, "prefetch") /\ left[t] > 0
    /\ IF left[t] > 1 THEN Prepare(t, "batch", left[t]) ELSE UNCHANGED ring
    /\ left' = [left EXCEPT ![t] = @ - 1]
    /\ UNCHANGED <<pc, await, back, failed>>

\* core_try_prefetch: a request for each page it claimed ...
PrefetchPrepare(t) ==
    /\ At(t, "prefetch") /\ left[t] > 0
    /\ IF HasRoom(t, "batch")
       THEN /\ Prepare(t, "batch", left[t])
            /\ left' = [left EXCEPT ![t] = @ - 1]
            /\ UNCHANGED <<pc, await, back, failed>>
       ELSE Fail("io_uring_get_sqe")

\* ... one submission, also when there are none, and as many frames.
PrefetchSubmit(t) ==
    /\ At(t, "prefetch") /\ left[t] = 0
    /\ IF ring[t][RingOf("batch")].init
       THEN /\ ring' = [ring EXCEPT ![t][RingOf("batch")] = Submit(@)]
            /\ Goto(t, IF await[t] = 0 THEN "idle" ELSE "collect")
            /\ left' = [left EXCEPT ![t] = await[t]]
            /\ UNCHANGED <<await, back, failed>>
       ELSE Fail("submit on a ring that was not initialised")

-----------------------------------------------------------------------------
(* A worker: extmem_migrate_downdisk_vector.                                *)

TakeVector(w) ==
    /\ At(w, "idle")
    /\ \E n \in 1 .. Vector : left' = [left EXCEPT ![w] = n]
    /\ Goto(w, "prepare")
    /\ UNCHANGED <<ring, await, back, failed>>

\* A page that must be written back is a request, a clean one is not.
VectorPrepare(w) ==
    /\ At(w, "prepare") /\ left[w] > 0
    /\ \/ IF HasRoom(w, "vector")
          THEN /\ Prepare(w, "vector", left[w])
               /\ await' = [await EXCEPT ![w] = @ + 1]
               /\ left' = [left EXCEPT ![w] = @ - 1]
               /\ UNCHANGED <<pc, back, failed>>
          ELSE Fail("io_uring_get_sqe")
       \/ /\ left' = [left EXCEPT ![w] = @ - 1]
          /\ UNCHANGED <<ring, pc, await, back, failed>>

VectorSubmit(w) ==
    /\ At(w, "prepare") /\ left[w] = 0
    /\ SubmitAll(w, "vector", "receive")

\* Mutant: it does not wait.
VectorReceive_NoWait(w) ==
    /\ At(w, "receive")
    /\ Goto(w, "unmap")
    /\ UNCHANGED <<ring, left, await, back, failed>>

\* Mutant: it waits for one completion.
VectorReceive_Once(w) ==
    /\ At(w, "receive")
    /\ \/ await[w] > 0 /\ WaitCqe(w, "vector")
       \/ await[w] = 0 /\ UNCHANGED ring
    /\ await' = [await EXCEPT ![w] = 0]
    /\ Goto(w, "unmap")
    /\ UNCHANGED <<left, back, failed>>

\* ioring_finish_write as often as requests were prepared.
VectorReceive(w) ==
    /\ At(w, "receive")
    /\ \/ /\ await[w] > 0
          /\ WaitCqe(w, "vector")
          /\ await' = [await EXCEPT ![w] = @ - 1]
          /\ UNCHANGED pc
       \/ /\ await[w] = 0
          /\ Goto(w, "unmap")
          /\ UNCHANGED <<ring, await>>
    /\ UNCHANGED <<left, back, failed>>

\* The pages are unmapped and their frames handed on.
VectorUnmap(w) ==
    /\ At(w, "unmap")
    /\ Goto(w, "idle")
    /\ UNCHANGED <<ring, left, await, back, failed>>

-----------------------------------------------------------------------------
Aborted == failed # "none" /\ UNCHANGED vars

\* Steps inside a fault or a round of eviction.
ReaderStep(t) == \/ WriteWait(t) \/ Written(t) \/ GotFrame(t) \/ FinishRead(t) \/ UseRead(t)
                 \/ UseBatch(t) \/ PrefetchPrepare(t) \/ PrefetchSubmit(t)

WorkerStep(w) == VectorPrepare(w) \/ VectorSubmit(w) \/ VectorReceive(w) \/ VectorUnmap(w)

Next == \/ \E t \in Threads : StartRead(t) \/ FirstFault(t)
        \/ \E f \in Prefetchers : PrefetchRound(f)
        \/ \E t \in Readers : WriteStore(t) \/ ReaderStep(t)
        \/ \E w \in Workers : TakeVector(w) \/ WorkerStep(w)
        \/ \E e \in Executors, r \in Rings : Complete(e, r)
        \/ Aborted

Spec == Init /\ [][Next]_vars

\* Threads run, and the device answers.
Fairness == /\ \A t \in Readers : WF_vars(ReaderStep(t))
            /\ \A w \in Workers : WF_vars(WorkerStep(w))
            /\ \A e \in Executors, r \in Rings : WF_vars(Complete(e, r))

FairSpec == Spec /\ Fairness

-----------------------------------------------------------------------------
(* Properties.                                                              *)

\* Every variable keeps its type.
TypeOK ==
    /\ ring \in [Executors -> [Rings -> [init : BOOLEAN, sq : SUBSET Requests,
                                         flight : SUBSET Requests, cq : SUBSET Requests]]]
    /\ pc \in [Executors -> {"idle", "search", "search_first", "write_wait", "written",
                             "finish", "finish_batch", "use", "use_batch", "prefetch",
                             "collect", "prepare", "receive", "unmap"}]
    /\ left \in [Executors -> 0 .. QD] /\ await \in [Executors -> 0 .. QD]
    /\ back \in [Executors -> {"idle", "search", "search_first", "collect"}]
    /\ failed \in {"none", "io_uring_get_sqe", "submit on a ring that was not initialised"}

\* Requests of executor e that are not complete.
Pending(e, kinds) ==
    {c \in UNION {ring[e][r].sq \cup ring[e][r].flight : r \in Rings} : c[1] \in kinds}

\* What was awaited is complete: a page is mapped only after it was read, and
\* unmapped only after it was written, although completions come in any order,
\* are only counted, and writes of the thread come between the start of a
\* read and its end.
AwaitedIsComplete ==
    \A e \in Executors :
      /\ pc[e] \in {"use", "use_batch"} => Pending(e, {"swapin", "batch"}) = {}
      /\ pc[e] = "written" => Pending(e, {"evict"}) = {}
      /\ pc[e] = "unmap" => Pending(e, {"vector"}) = {}

\* Nothing is left over: between two faults or rounds a thread's rings are
\* empty, so that a completion is never counted for a later request and the
\* queues never fill up.
RingsDrained ==
    \A e \in Executors : pc[e] = "idle" =>
      \A r \in Rings : ring[e][r].sq = {} /\ ring[e][r].flight = {} /\ ring[e][r].cq = {}

\* The only thing that can go wrong is the submission of an empty batch or vector
\* by a worker that has not read or written before: no queue is ever full, and
\* an application thread that prefetches has initialised its ring.
OnlyEmptyRoundFails ==
    /\ failed # "io_uring_get_sqe"
    /\ failed # "none" =>
         \E e \in Prefetchers \cup Workers :
           pc[e] \in {"prefetch", "prepare"} /\ left[e] = 0 /\ await[e] = 0

\* Every fault, batch and round of eviction ends: nobody waits for a completion
\* of a request that was counted but not made, or that an earlier wait took.
IoEnds == \A e \in Executors : pc[e] # "idle" ~> (pc[e] = "idle" \/ failed # "none")

=============================================================================
