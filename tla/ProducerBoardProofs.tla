-------------------------- MODULE ProducerBoardProofs --------------------------
(* What the board promises, for any number of peers, rooms and producers.        *)
EXTENDS ProducerBoard, TLAPS

\* A board has a row for every peer, whatever is published.
BoardTypes ==
    /\ home \in [Peers -> Rooms \cup {NoRoom}]
    /\ entered \in [Peers -> SUBSET Rooms]
    /\ published = [p \in Peers |-> published[p]]
    /\ known = [p \in Peers |-> known[p]]

LEMMA TypesStep == BoardTypes /\ [Next]_boardVars => BoardTypes'
  <1> SUFFICES ASSUME BoardTypes, [Next]_boardVars PROVE BoardTypes'
    OBVIOUS
  <1> USE DEF BoardTypes
  <1>1. ASSUME NEW p \in Peers, NEW to \in Rooms \cup {NoRoom}, Move(p, to) PROVE BoardTypes'
    BY <1>1 DEF Move, Walk
  <1>2. ASSUME NEW p \in Peers, NEW to \in Rooms \cup {NoRoom}, NEW r \in Rooms,
               NEW A \in SUBSET Peers, Enter(p, to, r, A)
        PROVE  BoardTypes'
    BY <1>2 DEF Enter, Walk
  <1>3. ASSUME NEW p \in Peers, NEW A \in SUBSET Peers, Publish(p, A) PROVE BoardTypes'
    BY <1>3 DEF Publish, CallOut
  <1>4. ASSUME NEW A \in SUBSET Peers, CallOutLate(A) PROVE BoardTypes'
    BY <1>4 DEF CallOutLate, CallOut
  <1>5. ASSUME NEW Q, Withdraw(Q) PROVE BoardTypes'
    BY <1>5 DEF Withdraw
  <1>6. ASSUME NEW p \in Peers, Leave(p) PROVE BoardTypes'
    BY <1>6 DEF Leave
  <1>7. Clear => BoardTypes'
    BY DEF Clear
  <1>8. UNCHANGED boardVars => BoardTypes'
    BY DEF boardVars
  <1> QED
    BY <1>1, <1>2, <1>3, <1>4, <1>5, <1>6, <1>7, <1>8 DEF Next

\* Only somebody new at home, or new in the room, or newly published could be missed.
LEMMA KnownStep ==
    ASSUME NoRoom \notin Rooms, BoardTypes, AllKnown, [Next]_boardVars
    PROVE  AllKnown'
  <1> USE DEF BoardTypes, AllKnown, Readers
  <1>1. ASSUME NEW p \in Peers, NEW to \in Rooms \cup {NoRoom}, Move(p, to) PROVE AllKnown'
    BY <1>1 DEF Move, Walk
  <1>2. ASSUME NEW p \in Peers, NEW to \in Rooms \cup {NoRoom}, NEW r \in Rooms,
               NEW A \in SUBSET Peers, Enter(p, to, r, A)
        PROVE  AllKnown'
    <2> SUFFICES ASSUME NEW a \in Peers, NEW b \in Readers(a)' PROVE published'[a] \subseteq known'[b]
      OBVIOUS
    <2>1. published' = published /\ known[b] \subseteq known'[b]
      BY <1>2 DEF Enter
    <2>2. published[a] = {} \/ home[a] = home'[a]
      BY <1>2 DEF Enter, Walk
    <2>3. CASE home[a] = home'[a] /\ home[a] \in entered[b]
      BY <2>1, <2>3
    <2>4. CASE home[a] = home'[a] /\ home[a] \notin entered[b]
      <3>1. b = p /\ home[a] = r
        BY <1>2, <2>4 DEF Enter
      <3> QED
        BY <1>2, <2>1, <3>1 DEF Enter
    <2> QED
      BY <2>1, <2>2, <2>3, <2>4
  <1>3. ASSUME NEW p \in Peers, NEW A \in SUBSET Peers, Publish(p, A) PROVE AllKnown'
    BY <1>3 DEF Publish, CallOut
  <1>4. ASSUME NEW A \in SUBSET Peers, CallOutLate(A) PROVE AllKnown'
    BY <1>4 DEF CallOutLate, CallOut
  <1>5. ASSUME NEW Q, Withdraw(Q) PROVE AllKnown'
    BY <1>5 DEF Withdraw
  <1>6. ASSUME NEW p \in Peers, Leave(p) PROVE AllKnown'
    BY <1>6 DEF Leave
  <1>7. Clear => AllKnown'
    BY DEF Clear
  <1>8. UNCHANGED boardVars => AllKnown'
    BY DEF boardVars
  <1> QED
    BY <1>1, <1>2, <1>3, <1>4, <1>5, <1>6, <1>7, <1>8 DEF Next

\* The board keeps its promise: whoever has entered a room knows all that is published by
\* the peers at home in it.
THEOREM Completeness == ASSUME NoRoom \notin Rooms PROVE Spec => []AllKnown
  <1>1. Init => BoardTypes /\ AllKnown
    BY DEF Init, BoardTypes, AllKnown, Readers
  <1>2. BoardTypes /\ AllKnown /\ [Next]_boardVars => (BoardTypes /\ AllKnown)'
    BY TypesStep, KnownStep
  <1> QED
    BY <1>1, <1>2, PTL DEF Spec
=============================================================================
