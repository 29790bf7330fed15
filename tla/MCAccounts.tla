------------------------------ MODULE MCAccounts ------------------------------
(* An instance of Accounts small enough for TLC. *)
EXTENDS Accounts, TLC

CONSTANTS r1, r2, root, anna

TwoRequests == {r1, r2}
TwoAccounts == {root, anna}
OneAdmin == {root}
OneConsultant == {anna}

Alike == Permutations(TwoRequests)
=============================================================================
