-------------------------- MODULE MCNavigationCache --------------------------
(* Instances of NavigationCache for TLC. *)
EXTENDS NavigationCache, TLC

CONSTANTS u1, f1, t1, t2, r1, r2, h1

OneUri == {u1}
OwnFile == [u \in {u1} |-> f1]
TwoTexts == {t1, t2}
TwoRequests == {r1, r2}
OneHandler == {h1}

Symmetry == Permutations(TwoTexts) \cup Permutations(TwoRequests)
=============================================================================
