--------------------------- MODULE SnapshotRegister ---------------------------
(***************************************************************************)
(* What the coordination of index installs promises: the installed index   *)
(* is a register whose content is only ever replaced by one computed from  *)
(* it (`basis` names the version that was read), under a larger version,   *)
(* so no update overwrites another it has not seen.  Once closed by the    *)
(* shutdown, it accepts one last replacement.                              *)
(***************************************************************************)
EXTENDS Naturals

VARIABLES version, basis, closed, late

Init ==
  /\ version \in Nat /\ basis = version
  /\ closed = FALSE /\ late = 0

Replace ==
  /\ version' \in Nat /\ version' > version
  /\ basis' = version
  /\ closed => late = 0
  /\ late' = IF closed THEN 1 ELSE 0
  /\ UNCHANGED closed

Close ==
  /\ ~closed /\ closed' = TRUE
  /\ UNCHANGED <<version, basis, late>>

Next == Replace \/ Close

Spec == Init /\ [][Next]_<<version, basis, closed, late>>
=============================================================================
