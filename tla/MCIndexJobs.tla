----------------------------- MODULE MCIndexJobs -----------------------------
(* Instances of IndexJobs for TLC. *)
EXTENDS IndexJobs, TLC

CONSTANTS p1, p2, c1, c2, h1, h2

OnePath  == {p1}
TwoPaths == {p1, p2}
NoPaths  == {}
OneSource == {c1}
TwoSources == {c1, c2}
OneHandler == {h1}
TwoHandlers == {h1, h2}
NoFaults == {}
TaskFaults == {"unreadable", "panic", "error", "damaged"}
WriteFails == {"persist"}
DamageAndLoss == {"damaged", "persist"}
CacheLoss == {"persist", "switch"}
SecondPath == {p2}

Symmetry == Permutations(Handlers) \cup Permutations(Sources)
=============================================================================
