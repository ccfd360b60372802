------------------------------- MODULE MCMunmap -------------------------------
(* Instances of Munmap for TLC.                                              *)
EXTENDS Munmap, TLC

=============================================================================
