------------------------------ MODULE MCRoomPages ------------------------------
(* RoomPages on a small instance.  Row ids are only compared.                    *)
EXTENDS RoomPages, TLC

Symmetry == Permutations(RoomIds)
=============================================================================
