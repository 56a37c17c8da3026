---------------------------- MODULE MCMediaSession ----------------------------
(* MediaSession on small instances.  Peers, rooms and the identities of        *)
(* objects and calls are only compared, so permuting them changes nothing.     *)
EXTENDS MediaSession, TLC

Symmetry ==
    Permutations(Peers) \cup Permutations(Rooms) \cup Permutations(TransportIds)
    \cup Permutations(ProducerIds) \cup Permutations(ConsumerIds)
    \cup Permutations(RouterIds) \cup Permutations(Calls)

=============================================================================
