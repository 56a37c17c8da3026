----------------------------- MODULE ProducerBoard -----------------------------
(***************************************************************************)
(* What the /mediasoup namespace promises of announcements, as if a room   *)
(* had a board: who enters a room reads the board, and who publishes is    *)
(* put on it and called out to everybody who has entered, at once.         *)
(* MediaSession implements it with a reply that lists producers after an   *)
(* await, and a newProducer event that socket.io hands to the sockets of a *)
(* room.  The promise is made of peers that stay in one room: a peer that  *)
(* joined a second one is at home in none.                                 *)
(***************************************************************************)
CONSTANTS Peers, Rooms, NoRoom

VARIABLES
    home,       \* the room whose board has the peer's producers, or NoRoom
    entered,    \* the rooms the peer has entered
    published,  \* what the peer publishes
    known       \* what the peer's client was told of

boardVars == <<home, entered, published, known>>

\* The peers whose client has entered the home of p.
Readers(p) == {b \in Peers \ {p} : home[p] \in entered[b]}

Init ==
    /\ home = [p \in Peers |-> NoRoom]
    /\ entered = [p \in Peers |-> {}]
    /\ published = [p \in Peers |-> {}]
    /\ known = [p \in Peers |-> {}]

\* A peer with nothing published finds a home, or a peer loses its own.
Walk(p, to) ==
    /\ to = home[p] \/ to = NoRoom \/ (home[p] = NoRoom /\ published[p] = {})
    /\ home' = [home EXCEPT ![p] = to]

Move(p, to) == Walk(p, to) /\ UNCHANGED <<entered, published, known>>

\* The client reads the board of r, and may read what other peers publish.
Enter(p, to, r, A) ==
    /\ Walk(p, to)
    /\ {a \in Peers : home[a] = r} \subseteq A
    /\ entered' = [entered EXCEPT ![p] = @ \cup {r}]
    /\ known' = [known EXCEPT ![p] = @ \cup UNION {published[a] : a \in A}]
    /\ UNCHANGED published

CallOut(q, A) ==
    known' = [b \in Peers |-> IF b \in A THEN known[b] \cup {q} ELSE known[b]]

Publish(p, A) ==
    /\ UNCHANGED <<home, entered>>
    /\ Readers(p) \subseteq A
    /\ \E q \in published'[p] :
          /\ published' = [published EXCEPT ![p] = @ \cup {q}]
          /\ CallOut(q, A)

\* A producer of a peer that has left meanwhile is called out all the same.
CallOutLate(A) ==
    /\ UNCHANGED <<home, entered, published>>
    /\ \E q \in UNION {known'[b] : b \in A} : CallOut(q, A)

Withdraw(Q) ==
    /\ published' = [p \in Peers |-> published[p] \ Q]
    /\ UNCHANGED <<home, entered, known>>

Leave(p) ==
    /\ home' = [home EXCEPT ![p] = NoRoom]
    /\ entered' = [entered EXCEPT ![p] = {}]
    /\ published' = [published EXCEPT ![p] = {}]
    /\ UNCHANGED known

\* Everybody is thrown out.
Clear ==
    /\ home' = [p \in Peers |-> NoRoom]
    /\ entered' = [p \in Peers |-> {}]
    /\ published' = [p \in Peers |-> {}]
    /\ known' = [p \in Peers |-> {}]

Next ==
    \/ \E p \in Peers, to \in Rooms \cup {NoRoom} : Move(p, to)
    \/ \E p \in Peers, to \in Rooms \cup {NoRoom}, r \in Rooms, A \in SUBSET Peers :
          Enter(p, to, r, A)
    \/ \E p \in Peers, A \in SUBSET Peers : Publish(p, A)
    \/ \E A \in SUBSET Peers : CallOutLate(A)
    \/ \E Q \in SUBSET UNION {published[p] : p \in Peers} : Withdraw(Q)
    \/ \E p \in Peers : Leave(p)
    \/ Clear

Spec == Init /\ [][Next]_boardVars

-----------------------------------------------------------------------------
\* Whoever has entered a room knows all that is published by the peers at home in it.
AllKnown == \A p \in Peers : \A b \in Readers(p) : published[p] \subseteq known[b]
=============================================================================
