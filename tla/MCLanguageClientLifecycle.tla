---------------------- MODULE MCLanguageClientLifecycle ----------------------
(* Instances of LanguageClientLifecycle for TLC. *)
EXTENDS LanguageClientLifecycle, TLC

CONSTANTS k1, k2

TwoCallers == {k1, k2}

Symmetry == Permutations(Callers)
=============================================================================
