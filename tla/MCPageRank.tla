------------------------------- MODULE MCPageRank -------------------------------
(* Instances of PageRank for TLC.                                              *)
EXTENDS PageRank, TLC

\* One page is unmapped and mapped again.
LastPage == {{NVa}}

=============================================================================
