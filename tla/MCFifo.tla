------------------------------- MODULE MCFifo -------------------------------
(* Four pages on two lists: an empty list, one page, first, middle, last.  *)
EXTENDS Fifo
=============================================================================
