-------------------------------- MODULE MCDesk --------------------------------
(* An instance of Desk small enough for TLC. *)
EXTENDS Desk

CONSTANTS c1, c2, s1, s2

TwoConsultants == {c1, c2}
FirstConsultant == {c1}
TwoSlots == {s1, s2}
=============================================================================
