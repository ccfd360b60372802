------------------------------- MODULE MCIntercept -------------------------------
(* Instances of Intercept for TLC.                                               *)
EXTENDS Intercept, TLC

=============================================================================
