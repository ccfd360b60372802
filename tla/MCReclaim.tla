------------------------------- MODULE MCReclaim -------------------------------
(* Instances of ReclaimControl for TLC.                                       *)
EXTENDS ReclaimControl, TLC

=============================================================================
