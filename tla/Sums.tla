-------------------------------- MODULE Sums --------------------------------
(* Numbers added up by counting as many units of each x. *)
EXTENDS Naturals, FiniteSets

Units(S, n) == UNION {{x} \X (1..n[x]) : x \in S}
Total(S, n) == Cardinality(Units(S, n))
=============================================================================
