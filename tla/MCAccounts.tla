------------------------------ MODULE MCAccounts ------------------------------
(* Accounts on a small instance: one address has an account, the other not yet. *)
EXTENDS Accounts, TLC

CONSTANTS e1, p1

MCLegacyAccounts == {[email |-> e1, password |-> p1]}

Symmetry == Permutations(Codes) \cup Permutations(Browsers) \cup Permutations(Calls)
=============================================================================
