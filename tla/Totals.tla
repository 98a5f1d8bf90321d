-------------------------------- MODULE Totals --------------------------------
(* Sums of naturals, counted unit by unit: the cardinality of a set needs no  *)
(* recursive definition, so that proofs can use the facts of FiniteSets.      *)
EXTENDS Integers, FiniteSets

UnitsOf(f) == UNION {{x} \X (1..f[x]) : x \in DOMAIN f}

\* The sum of the naturals f[x].
Total(f) == Cardinality(UnitsOf(f))
===============================================================================
