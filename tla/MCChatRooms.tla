------------------------------ MODULE MCChatRooms ------------------------------
(* ChatRooms on small instances.  An earlier version left one private room, with   *)
(* two members who can both invite a third user.                                   *)
EXTENDS ChatRooms, TLC

CONSTANTS u1, u2, u3, c1, c2, owner   \* owner: of the room left over

MCLegacyRooms == {[code |-> c1, owner |-> owner, kind |-> "private"]}

MCLegacyMembers == {<<u1, c1>>, <<u2, c1>>}

Symmetry == Permutations(Sockets) \cup Permutations(Calls) \cup Permutations(MessageIds)

\* Where both members present tokens, are verified and do not own the room.
MemberSymmetry == Symmetry \cup Permutations({u1, u2})
=============================================================================
