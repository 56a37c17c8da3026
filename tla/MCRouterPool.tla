----------------------------- MODULE MCRouterPool -----------------------------
(* RouterPool on a small instance.  Router and call identities are only      *)
(* compared, so permuting them changes nothing; the same goes for rooms.     *)
EXTENDS RouterPool, TLC

Symmetry == Permutations(RoomKeys) \cup Permutations(RouterIds) \cup Permutations(Calls)

=============================================================================
