----------------------------- MODULE FifoQueues -----------------------------
(***************************************************************************)
(* What fifo.h promises: every list is a queue of pages, a page is on one  *)
(* list at most, and a page can also leave from the middle when its holder *)
(* names the list it is on.                                                *)
(***************************************************************************)
EXTENDS Integers, Sequences

CONSTANTS Pages, Queues, NULL

VARIABLES
    queue,    \* the pages of each list, oldest first
    ret       \* the page the last operation returned, if it returns one

Init == queue = [q \in Queues |-> <<>>] /\ ret = NULL

On(q, p) == \E i \in DOMAIN queue[q] : queue[q][i] = p

Enqueue(q, p) == /\ \A r \in Queues : ~On(r, p)
                 /\ queue' = [queue EXCEPT ![q] = Append(@, p)]
                 /\ ret' = NULL

Dequeue(q) == /\ queue[q] # <<>>
              /\ queue' = [queue EXCEPT ![q] = Tail(@)]
              /\ ret' = Head(queue[q])

\* Page p leaves q and the others keep their order.
Remove(q, p) ==
    \E i \in DOMAIN queue[q] :
      /\ queue[q][i] = p
      /\ queue' = [queue EXCEPT ![q] =
                     [j \in 1 .. Len(@) - 1 |-> IF j < i THEN @[j] ELSE @[j + 1]]]
      /\ ret' = NULL

Next == \E q \in Queues :
          Dequeue(q) \/ \E p \in Pages : Enqueue(q, p) \/ Remove(q, p)

Spec == Init /\ [][Next]_<<queue, ret>>

=============================================================================
