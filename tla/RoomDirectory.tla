----------------------------- MODULE RoomDirectory -----------------------------
(***************************************************************************)
(* What the chat promises of its rooms and memberships, whoever asks at the *)
(* same time: a room appears at once, under a code of its own, and nobody   *)
(* but its creator is told that code; a membership appears at once, once,   *)
(* by the invitation of somebody who has one.  An answer follows its write  *)
(* and may be lost; it never comes without it.  ChatRooms implements this   *)
(* with reads and later writes.                                             *)
(***************************************************************************)
CONSTANTS Users, Codes, LegacyRooms, LegacyMembers

VARIABLES
    rooms,        \* the rooms: code, owner, kind
    members,      \* <<user, code>>
    created,      \* who was told which code
    invites,      \* invitations that were confirmed to the inviter
    untold,       \* rooms that are there, their creator still to be told
    unconfirmed   \* memberships that are there, their inviter still to be told

directoryVars == <<rooms, members, created, invites, untold, unconfirmed>>

Taken(code) == \E r \in rooms : r.code = code

Init ==
    /\ rooms = LegacyRooms
    /\ members = LegacyMembers
    /\ created = {}
    /\ invites = {}
    /\ untold = {}
    /\ unconfirmed = {}

Create(u, code, kind) ==
    /\ ~Taken(code)
    /\ rooms' = rooms \cup {[code |-> code, owner |-> u, kind |-> kind]}
    /\ untold' = untold \cup {[user |-> u, code |-> code]}
    /\ UNCHANGED <<members, created, invites, unconfirmed>>

Tell(a) ==
    /\ created' = created \cup {a}
    /\ untold' = untold \ {a}
    /\ UNCHANGED <<rooms, members, invites, unconfirmed>>

Invite(u, g, code) ==
    /\ Taken(code)
    /\ <<u, code>> \in members
    /\ <<g, code>> \notin members
    /\ members' = members \cup {<<g, code>>}
    /\ unconfirmed' = unconfirmed \cup {[inviter |-> u, guest |-> g, code |-> code]}
    /\ UNCHANGED <<rooms, created, invites, untold>>

Confirm(i) ==
    /\ invites' = invites \cup {i}
    /\ unconfirmed' = unconfirmed \ {i}
    /\ UNCHANGED <<rooms, members, created, untold>>

\* Answers are lost; what was written stays.
Lose ==
    /\ untold' \subseteq untold
    /\ unconfirmed' \subseteq unconfirmed
    /\ UNCHANGED <<rooms, members, created, invites>>

Next ==
    \/ \E u \in Users, code \in Codes, kind \in {"public", "private"} :
          Create(u, code, kind)
    \/ \E a \in untold : Tell(a)
    \/ \E u, g \in Users, code \in Codes : Invite(u, g, code)
    \/ \E i \in unconfirmed : Confirm(i)
    \/ Lose

Spec == Init /\ [][Next]_directoryVars

-----------------------------------------------------------------------------
\* Whoever was told a code, or is about to be, owns the only room that has it.
OneOwner ==
    \A a \in created \cup untold :
        /\ \E r \in rooms : r.code = a.code
        /\ \A r \in rooms : r.code = a.code => r.owner = a.user

\* A guest is invited to a room by one member, and was not in it before.
OneInviter ==
    /\ \A i, j \in invites \cup unconfirmed : i.guest = j.guest /\ i.code = j.code => i = j
    /\ \A i \in invites \cup unconfirmed : <<i.guest, i.code>> \in members \ LegacyMembers

\* A membership that did not exist at the start goes back to one that did: a room
\* nobody was in stays without members.
MembersInherited == \A m \in members : \E l \in LegacyMembers : l[2] = m[2]
=============================================================================
