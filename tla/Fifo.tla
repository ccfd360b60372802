-------------------------------- MODULE Fifo --------------------------------
(***************************************************************************)
(* fifo.c at the level of its pointers: each list has first, last and      *)
(* numentries, each page has next, prev and list.  enqueue_fifo pushes at  *)
(* first, the dequeues pop at last.  An operation holds its list's lock    *)
(* from beginning to end, so it is one step, except that the vector        *)
(* dequeue is shown loop iteration by loop iteration.                      *)
(*                                                                         *)
(* The callers are the policy's threads.  They enqueue only a page that    *)
(* they hold and that is on no list (ExtMem!Ownership), and call           *)
(* page_list_remove_page only with the list the page is on.                *)
(***************************************************************************)
EXTENDS Integers, Sequences, FiniteSets

CONSTANTS Pages, Queues, NULL, VectorSize

ASSUME FifoAssumption ==
    /\ NULL \notin Pages \cup Queues
    /\ IsFiniteSet(Pages)
    /\ VectorSize \in Nat

VARIABLES
    first, last, numentries,    \* struct fifo_list
    next, prev, list,           \* the links in struct user_page
    lock,                       \* list_lock: held by a vector dequeue or not
    nr_taken,                   \* of that dequeue
    ret,                        \* the page the last operation returned
    failed                      \* an assert() has failed

links == <<first, last, numentries, next, prev, list>>
vars  == <<first, last, numentries, next, prev, list, lock, nr_taken, ret, failed>>

Init == /\ first = [q \in Queues |-> NULL]
        /\ last = [q \in Queues |-> NULL]
        /\ numentries = [q \in Queues |-> 0]
        /\ next = [p \in Pages |-> NULL]
        /\ prev = [p \in Pages |-> NULL]
        /\ list = [p \in Pages |-> NULL]
        /\ lock = [q \in Queues |-> FALSE]
        /\ nr_taken = [q \in Queues |-> 0]
        /\ ret = NULL
        /\ failed = FALSE

Fail == failed' = TRUE /\ UNCHANGED <<links, lock, nr_taken, ret>>

EnqueueAsserts(q, p) ==
    /\ prev[p] = NULL
    /\ IF first[q] # NULL THEN prev[first[q]] = NULL
                          ELSE last[q] = NULL /\ numentries[q] = 0

enqueue_fifo(q, p) ==
    /\ ~lock[q] /\ list[p] = NULL
    /\ IF EnqueueAsserts(q, p)
       THEN /\ next' = [next EXCEPT ![p] = first[q]]
            /\ prev' = [x \in Pages |-> IF x = first[q] THEN p ELSE prev[x]]
            /\ last' = IF first[q] = NULL THEN [last EXCEPT ![q] = p] ELSE last
            /\ first' = [first EXCEPT ![q] = p]
            /\ list' = [list EXCEPT ![p] = q]
            /\ numentries' = [numentries EXCEPT ![q] = @ + 1]
            /\ ret' = NULL
            /\ UNCHANGED <<lock, nr_taken, failed>>
       ELSE Fail

\* Mutant: the newest page is taken.
PopLast_Newest(q) ==
    LET p == first[q]
        f == next[p]
    IN  /\ first' = [first EXCEPT ![q] = f]
        /\ last' = IF f = NULL THEN [last EXCEPT ![q] = NULL] ELSE last
        /\ prev' = [x \in Pages |-> IF x \in {f, p} THEN NULL ELSE prev[x]]
        /\ next' = [next EXCEPT ![p] = NULL]
        /\ list' = [list EXCEPT ![p] = NULL]
        /\ numentries' = [numentries EXCEPT ![q] = @ - 1]
        /\ ret' = p

\* The oldest page comes off the end of the list.
PopLast(q) ==
    LET p == last[q]
        l == prev[p]
    IN  /\ last' = [last EXCEPT ![q] = l]
        /\ first' = IF l = NULL THEN [first EXCEPT ![q] = NULL] ELSE first
        /\ next' = [x \in Pages |-> IF x \in {l, p} THEN NULL ELSE next[x]]
        /\ prev' = [prev EXCEPT ![p] = NULL]
        /\ list' = [list EXCEPT ![p] = NULL]
        /\ numentries' = [numentries EXCEPT ![q] = @ - 1]
        /\ ret' = p

dequeue_fifo(q) ==
    /\ ~lock[q] /\ last[q] # NULL
    /\ IF numentries[q] > 0
       THEN PopLast(q) /\ UNCHANGED <<lock, nr_taken, failed>>
       ELSE Fail

\* Mutant: the older neighbour keeps its pointer to the page.
Unlink_StalePrev(q, p) ==
    /\ first' = [first EXCEPT ![q] = IF @ = p THEN next[p] ELSE @]
    /\ last' = [last EXCEPT ![q] = IF @ = p THEN prev[p] ELSE @]
    /\ next' = [x \in Pages |-> CASE x = p -> NULL
                                  [] x # p /\ x = prev[p] -> next[p]
                                  [] OTHER -> next[x]]
    /\ prev' = [prev EXCEPT ![p] = NULL]
    /\ list' = [list EXCEPT ![p] = NULL]
    /\ numentries' = [numentries EXCEPT ![q] = @ - 1]
    /\ ret' = NULL

\* Taking a page out of the middle: the common part of page_list_remove_page
\* and page_list_tryremove_page.
Unlink(q, p) ==
    /\ first' = [first EXCEPT ![q] = IF @ = p THEN next[p] ELSE @]
    /\ last' = [last EXCEPT ![q] = IF @ = p THEN prev[p] ELSE @]
    /\ next' = [x \in Pages |-> CASE x = p -> NULL
                                  [] x # p /\ x = prev[p] -> next[p]
                                  [] OTHER -> next[x]]
    /\ prev' = [x \in Pages |-> CASE x = p -> NULL
                                  [] x # p /\ x = next[p] -> prev[p]
                                  [] OTHER -> prev[x]]
    /\ list' = [list EXCEPT ![p] = NULL]
    /\ numentries' = [numentries EXCEPT ![q] = @ - 1]
    /\ ret' = NULL

\* The page may be anywhere by the time the lock is held: the list it is
\* wanted from is compared with the list it is on.
page_list_tryremove_page(q, p) ==
    /\ ~lock[q] /\ list[p] = q
    /\ first[q] # NULL
    /\ IF numentries[q] > 0
       THEN Unlink(q, p) /\ UNCHANGED <<lock, nr_taken, failed>>
       ELSE Fail

page_list_remove_page(q, p) ==
    /\ ~lock[q] /\ list[p] = q
    /\ first[q] # NULL
    /\ IF numentries[q] > 0
       THEN Unlink(q, p) /\ UNCHANGED <<lock, nr_taken, failed>>
       ELSE Fail

(***************************************************************************)
(* dequeue_fifo_vector: up to VectorSize pages under one lock.             *)
(***************************************************************************)
VectorLock(q) == /\ ~lock[q]
                 /\ lock' = [lock EXCEPT ![q] = TRUE]
                 /\ nr_taken' = [nr_taken EXCEPT ![q] = 0]
                 /\ UNCHANGED <<links, ret, failed>>

VectorTake(q) == /\ lock[q]
                 /\ nr_taken[q] < VectorSize /\ last[q] # NULL
                 /\ IF numentries[q] > 0
                    THEN /\ PopLast(q)
                         /\ nr_taken' = [nr_taken EXCEPT ![q] = @ + 1]
                         /\ UNCHANGED <<lock, failed>>
                    ELSE Fail

VectorUnlock(q) == /\ lock[q]
                   /\ nr_taken[q] = VectorSize \/ last[q] = NULL
                   /\ lock' = [lock EXCEPT ![q] = FALSE]
                   /\ nr_taken' = [nr_taken EXCEPT ![q] = 0]
                   /\ UNCHANGED <<links, ret, failed>>

Next == /\ ~failed
        /\ \E q \in Queues :
             \/ dequeue_fifo(q) \/ VectorLock(q) \/ VectorTake(q) \/ VectorUnlock(q)
             \/ \E p \in Pages : \/ enqueue_fifo(q, p)
                                 \/ page_list_tryremove_page(q, p)
                                 \/ page_list_remove_page(q, p)

Spec == Init /\ [][Next]_vars

-----------------------------------------------------------------------------
(* The sequence a list stands for, read from last along prev.              *)

Chain(q) == LET at[i \in 1 .. numentries[q]] ==
                  IF i = 1 THEN last[q] ELSE prev[at[i - 1]]
            IN  [i \in 1 .. numentries[q] |-> at[i]]

\* numentries counts the pages reached from last along prev, which ends at
\* first; next leads back the same way; and the pages reached are those whose
\* list field says so.  A page unlinked from the middle, an empty list and a
\* list of one page all keep this, and then no assertion of fifo.c fails.
WellLinked ==
    /\ ~failed
    /\ \A q \in Queues :
      LET c == Chain(q)
          n == numentries[q]
      IN  /\ IF n = 0 THEN first[q] = NULL /\ last[q] = NULL
             ELSE /\ \A i \in 1 .. n : c[i] \in Pages
                  /\ c[n] = first[q] /\ prev[c[n]] = NULL /\ next[c[1]] = NULL
                  /\ \A i \in 1 .. n - 1 : next[c[i + 1]] = c[i]
          /\ {c[i] : i \in 1 .. n} = {p \in Pages : list[p] = q}

\* The lists are the queues that the policy takes them for.
Abstract == INSTANCE FifoQueues WITH queue <- [q \in Queues |-> Chain(q)]

RefinesQueues == Abstract!Spec

=============================================================================
