------------------------------ MODULE MCExtMem ------------------------------
(* Instances of ExtMem for TLC.  Threads are interchangeable, and so are   *)
(* workers; pages are not, since they start in a fixed order.               *)
EXTENDS PagingFlow, TLC

ThreadSymmetry == Permutations(Threads)
WorkerSymmetry == Permutations(Workers)

=============================================================================
