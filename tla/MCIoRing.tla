-------------------------------- MODULE MCIoRing --------------------------------
(* Instances of IoRing for TLC.                                                *)
EXTENDS IoRing, TLC

=============================================================================
