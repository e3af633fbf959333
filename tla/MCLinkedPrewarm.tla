--------------------------- MODULE MCLinkedPrewarm ---------------------------
(* Instances of LinkedPrewarm for TLC. *)
EXTENDS LinkedPrewarm, TLC

CONSTANTS p1, c1, c2, h1, d1, w1, w2

OnePath == {p1}
NoPaths == {}
OneSource == {c1}
TwoSources == {c1, c2}
OneHandler == {h1}
NoFaults == {}
OneDocument == {d1}
TwoWarmers == {w1, w2}
=============================================================================
