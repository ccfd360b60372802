------------------------------- MODULE Totals -------------------------------
(* The sum of a function's values, as the size of a set: x counts f[x]      *)
(* times.                                                                   *)
EXTENDS Integers, FiniteSets

Units(f) == UNION {{x} \X (1 .. f[x]) : x \in DOMAIN f}

Total(f) == Cardinality(Units(f))

=============================================================================
