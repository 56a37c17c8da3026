---------------------------- MODULE RoomPagesProofs ----------------------------
(***************************************************************************)
(* What a client that reads page after page is shown, for every page size  *)
(* and any number of rooms.  The argument counts the rooms in front of one *)
(* whose place the order fixes: as rows are only added, it only moves back.*)
(***************************************************************************)
EXTENDS RoomPages, FiniteSetTheorems, TLAPS

Earlier(r) == {s \in Public : s.created < r.created}

\* No room has appeared in front of r since the client began.
Undisturbed(r) == \A s \in Earlier(r) : s \in start

Finite == IsFiniteSet(table)

WalkBegins ==
    /\ start \cup listed \subseteq Public
    /\ page <= 1 => start = {} /\ listed = {} /\ repeated = {} /\ ~done

\* A room that was not shown yet comes after all that is skipped.
AheadOfWalk ==
    \A r \in start \ listed : Unshared(r) => ~done /\ Skip <= Cardinality(Earlier(r))

\* A room that was shown is skipped, unless it was moved back.
BehindWalk ==
    \A r \in listed : Unshared(r) /\ Undisturbed(r) =>
        r \notin repeated /\ Cardinality(Earlier(r)) < Skip

PageInv == Finite /\ WalkBegins /\ AheadOfWalk /\ BehindWalk

THEOREM Typing == Spec => []TypeOK
  <1> USE PagesAssumption
  <1>1. Init => TypeOK
    <2> SUFFICES ASSUME Init PROVE TypeOK
      OBVIOUS
    <2>1. now \in Nat /\ page \in Nat
      BY DEF Init
    <2>3. done \in BOOLEAN
      BY Zenon DEF Init
    <2>2. /\ stamped \subseteq Row /\ table \subseteq Row
          /\ start \subseteq table /\ listed \subseteq table /\ repeated \subseteq listed
          /\ \A r \in start \cup listed : ~r.private
      BY DEF Init
    <2> QED
      BY <2>1, <2>2, <2>3 DEF TypeOK
  <1>2. TypeOK /\ [Next]_vars => TypeOK'
    <2> SUFFICES ASSUME TypeOK, [Next]_vars PROVE TypeOK'
      OBVIOUS
    <2> USE DEF TypeOK, Row, rows, walk
    <2>1. CASE Tick
      BY <2>1 DEF Tick
    <2>2. ASSUME NEW id \in RoomIds, NEW private \in BOOLEAN, CreateRoom(id, private)
          PROVE  TypeOK'
      BY <2>2 DEF CreateRoom
    <2>3. ASSUME NEW r \in stamped, RowWritten(r) \/ CreationFailed(r) PROVE TypeOK'
      BY <2>3 DEF RowWritten, CreationFailed
    <2>4. ASSUME NEW Before, NEW W \in SUBSET Public, GetRooms(Before, W) PROVE TypeOK'
      BY <2>4 DEF GetRooms, SafePage, Public
    <2>5. CASE UNCHANGED vars
      BY <2>5 DEF vars
    <2> QED
      BY <2>1, <2>2, <2>3, <2>4, <2>5 DEF Next
  <1> QED
    BY <1>1, <1>2, PTL DEF Spec

-----------------------------------------------------------------------------
(* Windows.                                                                *)

\* The first n rows are n, or all there are.
LEMMA LeadsBounds ==
    ASSUME NEW W, NEW n \in Nat, NEW S, IsFiniteSet(S), Leads(W, n, S)
    PROVE  /\ IsFiniteSet(W) /\ Cardinality(W) \in Nat /\ Cardinality(W) <= n
           /\ W # S => Cardinality(W) = n
  <1>1. IsFiniteSet(W) /\ Cardinality(W) \in Nat /\ Cardinality(S) \in Nat
    BY FS_Subset, FS_CardinalityType DEF Leads
  <1>2. W # S => Cardinality(W) < Cardinality(S)
    BY <1>1, FS_Subset DEF Leads
  <1> QED
    BY <1>1, <1>2 DEF Leads, AtMost

LEMMA SkipType == TypeOK => Skip \in Nat /\ PageSize \in Nat \ {0}
  <1> SUFFICES ASSUME TypeOK PROVE Skip \in Nat /\ PageSize \in Nat \ {0}
    OBVIOUS
  <1>1. SafePage - 1 \in Nat
    BY DEF TypeOK, SafePage
  <1>2. \A m, n \in Nat : m * n \in Nat
    OBVIOUS
  <1> QED
    BY <1>1, <1>2, PagesAssumption DEF Skip

\* Where a room whose place is fixed lies in a window.
LEMMA WindowPlace ==
    ASSUME TypeOK, Finite, NEW Before, NEW W, Window(Before, W), NEW r \in Public, Unshared(r)
    PROVE  /\ IsFiniteSet(Earlier(r)) /\ Cardinality(Earlier(r)) \in Nat
           /\ r \in Before => Cardinality(Earlier(r)) < Skip
           /\ r \notin Before => Skip <= Cardinality(Earlier(r))
           /\ r \in W => Cardinality(Earlier(r)) < Skip + PageSize
           /\ r \notin Before \cup W =>
                /\ Skip + PageSize <= Cardinality(Earlier(r))
                /\ Cardinality(W) = PageSize
  <1> USE SkipType
  <1>1. Public \subseteq Row /\ \A s \in Public : s.created \in Nat
    BY DEF Public, TypeOK, Row
  <1>2. IsFiniteSet(Public) /\ IsFiniteSet(Public \ Before)
    BY FS_Subset DEF Finite, Public
  <1>3. /\ Leads(Before, Skip, Public) /\ Leads(W, PageSize, Public \ Before)
        /\ Before \subseteq Public /\ W \subseteq Public \ Before
    BY DEF Window, Leads
  <1>4. /\ IsFiniteSet(Before) /\ Cardinality(Before) \in Nat /\ Cardinality(Before) <= Skip
        /\ Before # Public => Cardinality(Before) = Skip
    BY <1>2, <1>3, LeadsBounds
  <1>5. /\ IsFiniteSet(W) /\ Cardinality(W) \in Nat /\ Cardinality(W) <= PageSize
        /\ W # Public \ Before => Cardinality(W) = PageSize
    BY <1>2, <1>3, LeadsBounds
  <1>6. IsFiniteSet(Before \cup W)
        /\ Cardinality(Before \cup W) = Cardinality(Before) + Cardinality(W)
    <2>1. Before \cap W = {}
      BY <1>3
    <2> QED
      BY <1>4, <1>5, <2>1, FS_Union, FS_EmptySet
  <1>7. IsFiniteSet(Earlier(r)) /\ Cardinality(Earlier(r)) \in Nat /\ r \notin Earlier(r)
    BY <1>1, <1>2, FS_Subset, FS_CardinalityType DEF Earlier
  <1>8. IsFiniteSet(Earlier(r) \cup {r})
        /\ Cardinality(Earlier(r) \cup {r}) = Cardinality(Earlier(r)) + 1
    BY <1>7, FS_AddElement
  <1>9. r \in Before => Cardinality(Earlier(r)) < Skip
    <2> SUFFICES ASSUME r \in Before PROVE Cardinality(Earlier(r)) < Skip
      OBVIOUS
    <2>1. Earlier(r) \cup {r} \subseteq Before
      BY <1>1, <1>3 DEF Earlier, Leads
    <2>2. Cardinality(Earlier(r) \cup {r}) <= Cardinality(Before)
      BY <1>4, <2>1, FS_Subset
    <2> QED
      BY <1>4, <1>7, <1>8, <2>2
  <1>10. r \notin Before => Before \subseteq Earlier(r) /\ Cardinality(Before) = Skip
    BY <1>1, <1>3, <1>4 DEF Earlier, Leads, Unshared
  <1>11. r \notin Before => Skip <= Cardinality(Earlier(r))
    BY <1>7, <1>10, FS_Subset
  <1>12. r \in W => Cardinality(Earlier(r)) < Skip + PageSize
    <2> SUFFICES ASSUME r \in W PROVE Cardinality(Earlier(r)) < Skip + PageSize
      OBVIOUS
    <2>1. Earlier(r) \cup {r} \subseteq Before \cup W
      BY <1>1, <1>3 DEF Earlier, Leads
    <2>2. Cardinality(Earlier(r) \cup {r}) <= Cardinality(Before \cup W)
      BY <1>6, <2>1, FS_Subset
    <2> QED
      BY <1>4, <1>5, <1>6, <1>7, <1>8, <2>2
  <1>13. ASSUME r \notin Before \cup W
         PROVE  Skip + PageSize <= Cardinality(Earlier(r)) /\ Cardinality(W) = PageSize
    <2>1. Before \cup W \subseteq Earlier(r)
      BY <1>1, <1>3, <1>10, <1>13 DEF Earlier, Leads, Unshared
    <2>2. Cardinality(W) = PageSize
      BY <1>5, <1>13
    <2>3. Cardinality(Before \cup W) <= Cardinality(Earlier(r))
      BY <1>7, <2>1, FS_Subset
    <2> QED
      BY <1>6, <1>10, <1>13, <2>2, <2>3
  <1> QED
    BY <1>7, <1>9, <1>11, <1>12, <1>13

-----------------------------------------------------------------------------
(* The invariant.                                                          *)

\* A row that appears moves no room forward, and moves none back that stays undisturbed.
LEMMA RowStep ==
    ASSUME TypeOK, PageInv, NEW r \in stamped, RowWritten(r)
    PROVE  PageInv'
  <1> USE DEF TypeOK, RowWritten, walk
  <1>1. Public' \subseteq Public \cup {r} /\ Public \subseteq Public'
    BY DEF Public
  <1>2. Finite'
    BY FS_AddElement DEF PageInv, Finite
  <1>3. IsFiniteSet(Public')
    BY <1>2, FS_Subset DEF Finite, Public
  <1>4. WalkBegins'
    BY <1>1 DEF PageInv, WalkBegins
  <1>5. Skip' = Skip
    BY DEF Skip, SafePage
  <1>6. ASSUME NEW s PROVE
          /\ Unshared(s)' => Unshared(s)
          /\ IsFiniteSet(Earlier(s)') /\ Earlier(s) \subseteq Earlier(s)'
          /\ Undisturbed(s)' => Earlier(s)' = Earlier(s) /\ Undisturbed(s)
    <2>1. Unshared(s)' => Unshared(s)
      BY <1>1 DEF Unshared
    <2>2. Earlier(s) \subseteq Earlier(s)'
      BY <1>1 DEF Earlier
    <2>3. IsFiniteSet(Earlier(s)')
      BY <1>3, FS_Subset DEF Earlier
    <2>4. Undisturbed(s)' => Earlier(s)' = Earlier(s) /\ Undisturbed(s)
      BY <1>1, <2>2 DEF Undisturbed, Earlier, PageInv, WalkBegins
    <2> QED
      BY <2>1, <2>2, <2>3, <2>4
  <1>7. AheadOfWalk'
    <2> SUFFICES ASSUME NEW s \in start \ listed, Unshared(s)'
                 PROVE  ~done /\ Skip <= Cardinality(Earlier(s)')
      BY <1>5 DEF AheadOfWalk
    <2>1. ~done /\ Skip <= Cardinality(Earlier(s))
      BY <1>6 DEF PageInv, AheadOfWalk
    <2>2. /\ Cardinality(Earlier(s)) <= Cardinality(Earlier(s)')
          /\ Cardinality(Earlier(s)') \in Nat /\ Cardinality(Earlier(s)) \in Nat
      BY <1>6, FS_Subset, FS_CardinalityType
    <2> QED
      BY <2>1, <2>2, SkipType
  <1>8. BehindWalk'
    BY <1>5, <1>6 DEF PageInv, BehindWalk
  <1> QED
    BY <1>2, <1>4, <1>7, <1>8 DEF PageInv

LEMMA PageRead ==
    ASSUME TypeOK, PageInv, NEW Before, NEW W, GetRooms(Before, W)
    PROVE  PageInv'
  <1> USE DEF TypeOK, GetRooms, rows
  <1>1. Public' = Public /\ Window(Before, W) /\ W \subseteq Public
    BY DEF Public, Window, Leads
  <1>2. Finite' /\ Finite
    BY DEF PageInv, Finite
  <1>3. WalkBegins'
    BY <1>1 DEF PageInv, WalkBegins, SafePage
  <1>4. Skip' = Skip + PageSize /\ Skip \in Nat /\ PageSize \in Nat \ {0}
    <2>1. SafePage' = SafePage + 1 /\ SafePage \in Nat \ {0}
      BY DEF SafePage
    <2>2. \A m \in Nat \ {0}, n \in Nat : ((m + 1) - 1) * n = (m - 1) * n + n
      OBVIOUS
    <2> QED
      BY <2>1, <2>2, SkipType, PagesAssumption DEF Skip
  <1>5. page <= 1 => Skip = 0
    BY PagesAssumption DEF Skip, SafePage
  <1>6. \A s : (Unshared(s)' <=> Unshared(s)) /\ Earlier(s)' = Earlier(s)
    BY <1>1 DEF Unshared, Earlier
  <1>7. AheadOfWalk'
    <2> SUFFICES ASSUME NEW s \in start', s \notin listed', Unshared(s)
                 PROVE  ~done' /\ Skip' <= Cardinality(Earlier(s))
      BY <1>6 DEF AheadOfWalk
    <2>1. s \in Public /\ s \notin W
      BY DEF PageInv, WalkBegins
    <2>2. Skip <= Cardinality(Earlier(s))
      <3>1. CASE page <= 1
        BY <1>1, <1>2, <1>4, <1>5, <2>1, <3>1, WindowPlace
      <3>2. CASE ~(page <= 1)
        BY <3>2 DEF PageInv, AheadOfWalk
      <3> QED
        BY <3>1, <3>2
    <2>3. s \notin Before
      BY <1>1, <1>2, <1>4, <2>1, <2>2, WindowPlace
    <2> QED
      BY <1>1, <1>2, <1>4, <2>1, <2>3, WindowPlace
  <1>8. BehindWalk'
    <2> SUFFICES ASSUME NEW s \in listed', Unshared(s), Undisturbed(s)'
                 PROVE  s \notin repeated' /\ Cardinality(Earlier(s)) < Skip'
      BY <1>6 DEF BehindWalk
    <2>1. s \in Public
      BY <1>1 DEF PageInv, WalkBegins
    <2>2. CASE s \in listed
      <3>1. ~(page <= 1) /\ Undisturbed(s)
        BY <1>6, <2>2 DEF PageInv, WalkBegins, Undisturbed
      <3>2. s \notin repeated /\ Cardinality(Earlier(s)) < Skip
        BY <2>2, <3>1 DEF PageInv, BehindWalk
      <3>3. s \in Before /\ Cardinality(Earlier(s)) \in Nat
        BY <1>1, <1>2, <1>4, <2>1, <3>2, WindowPlace
      <3>4. s \notin W
        BY <1>1, <3>3 DEF Window, Leads
      <3> QED
        BY <1>4, <3>2, <3>3, <3>4
    <2>3. CASE s \notin listed
      <3>1. s \in W /\ s \notin repeated'
        BY <2>3
      <3> QED
        BY <1>1, <1>2, <1>4, <2>1, <3>1, WindowPlace
    <2> QED
      BY <2>2, <2>3
  <1> QED
    BY <1>2, <1>3, <1>7, <1>8 DEF PageInv

LEMMA PageStep == TypeOK /\ PageInv /\ [Next]_vars => PageInv'
  <1> SUFFICES ASSUME TypeOK, PageInv, [Next]_vars PROVE PageInv'
    OBVIOUS
  <1>1. ASSUME UNCHANGED <<table, walk>> PROVE PageInv'
    BY <1>1 DEF PageInv, Finite, WalkBegins, AheadOfWalk, BehindWalk, Public, Earlier,
                Unshared, Undisturbed, Skip, SafePage, walk
  <1>2. Tick => PageInv'
    BY <1>1 DEF Tick
  <1>3. ASSUME NEW id, NEW private, CreateRoom(id, private) PROVE PageInv'
    BY <1>1, <1>3 DEF CreateRoom
  <1>4. ASSUME NEW r, CreationFailed(r) PROVE PageInv'
    BY <1>1, <1>4 DEF CreationFailed
  <1>5. UNCHANGED vars => PageInv'
    BY <1>1 DEF vars, rows
  <1> QED
    BY <1>2, <1>3, <1>4, <1>5, RowStep, PageRead DEF Next

LEMMA PageInvariant == Spec => []PageInv
  <1>1. Init => PageInv
    <2> SUFFICES ASSUME Init PROVE PageInv
      OBVIOUS
    <2>1. Finite
      BY FS_EmptySet DEF Init, Finite
    <2>2. page <= 1
      BY DEF Init
    <2>3. start = {} /\ listed = {} /\ repeated = {} /\ ~done
      BY DEF Init
    <2> QED
      BY <2>1, <2>2, <2>3 DEF PageInv, WalkBegins, AheadOfWalk, BehindWalk
  <1> QED
    BY <1>1, PageStep, Typing, PTL DEF Spec

\* Reading page after page misses no room whose created_at is its own.
THEOREM Coverage == Spec => []NoRoomMissed
  <1>1. PageInv => NoRoomMissed
    BY DEF PageInv, AheadOfWalk, NoRoomMissed
  <1> QED
    BY <1>1, PageInvariant, PTL

\* A room is shown twice only if it shares its created_at, or was moved back.
THEOREM Repetition == Spec => []RepeatsExplained
  <1>1. TypeOK /\ PageInv => RepeatsExplained
    <2> SUFFICES ASSUME TypeOK, PageInv, NEW r \in repeated
                 PROVE  \E s \in Public \ {r} :
                           s.created = r.created \/ (s \notin start /\ s.created < r.created)
      BY DEF RepeatsExplained
    <2>1. r \in listed /\ (~Unshared(r) \/ ~Undisturbed(r))
      BY DEF TypeOK, PageInv, BehindWalk
    <2>2. CASE ~Unshared(r)
      BY <2>2 DEF Unshared
    <2>3. CASE ~Undisturbed(r)
      <3>1. PICK s \in Public : s.created < r.created /\ s \notin start
        BY <2>3 DEF Undisturbed, Earlier
      <3>2. r.created \in Nat
        BY <2>1 DEF TypeOK, Row
      <3>3. s # r
        BY <3>1, <3>2
      <3> QED
        BY <3>1, <3>3
    <2> QED
      BY <2>1, <2>2, <2>3
  <1> QED
    BY <1>1, PageInvariant, Typing, PTL

-----------------------------------------------------------------------------
(* The walk while it lasts.                                                *)

\* A page leaves no gap: what it does not show is not older than what it shows.
LEMMA OrderRead ==
    ASSUME TypeOK, PageInv, ShownInOrder, NEW Before, NEW W, GetRooms(Before, W)
    PROVE  ShownInOrder'
  <1> USE DEF TypeOK, GetRooms, rows
  <1>1. Public' = Public /\ Window(Before, W) /\ W \subseteq Public
    BY DEF Public, Window, Leads
  <1>2. \A s : Unshared(s)' <=> Unshared(s)
    BY <1>1 DEF Unshared
  <1> SUFFICES ASSUME NEW r \in listed', NEW s \in start' \ listed', Unshared(s)
               PROVE  r.created <= s.created
    BY <1>2 DEF ShownInOrder
  <1>3. s \in Public /\ s \notin W
    BY DEF PageInv, WalkBegins
  <1>4. CASE r \in listed
    BY <1>4 DEF PageInv, WalkBegins, ShownInOrder
  <1>5. CASE r \in W
    <2>1. Skip <= Cardinality(Earlier(s))
      <3>1. CASE page <= 1
        <4>1. Skip = 0
          BY <3>1, PagesAssumption DEF Skip, SafePage
        <4> QED
          BY <1>1, <1>3, <4>1, WindowPlace DEF PageInv
      <3>2. CASE ~(page <= 1)
        BY <3>2 DEF PageInv, AheadOfWalk
      <3> QED
        BY <3>1, <3>2
    <2>2. s \notin Before
      BY <1>1, <1>3, <2>1, SkipType, WindowPlace DEF PageInv
    <2> QED
      BY <1>1, <1>3, <1>5, <2>2 DEF Window, Leads
  <1> QED
    BY <1>4, <1>5

\* A page that is full lies in the table, and so does all that is skipped after it.
LEMMA EndRead ==
    ASSUME TypeOK, PageInv, NEW Before, NEW W, GetRooms(Before, W)
    PROVE  PagesEnd'
  <1> USE DEF TypeOK, GetRooms, rows
  <1> SUFFICES ASSUME ~done' PROVE Skip' <= Cardinality(Public')
    BY DEF PagesEnd
  <1>1. /\ Public' = Public
        /\ Leads(Before, Skip, Public) /\ Leads(W, PageSize, Public \ Before)
        /\ Before \subseteq Public /\ W \subseteq Public \ Before
    BY DEF Public, Window, Leads
  <1>2. IsFiniteSet(Public) /\ IsFiniteSet(Public \ Before)
    BY FS_Subset DEF PageInv, Finite, Public
  <1>3. Skip \in Nat /\ PageSize \in Nat \ {0} /\ Skip' = Skip + PageSize
    <2>1. SafePage' = SafePage + 1 /\ SafePage \in Nat \ {0}
      BY DEF SafePage
    <2>2. \A m \in Nat \ {0}, n \in Nat : ((m + 1) - 1) * n = (m - 1) * n + n
      OBVIOUS
    <2> QED
      BY <2>1, <2>2, SkipType, PagesAssumption DEF Skip
  <1>4. /\ IsFiniteSet(Before) /\ Cardinality(Before) \in Nat
        /\ Before # Public => Cardinality(Before) = Skip
    BY <1>1, <1>2, <1>3, LeadsBounds
  <1>5. IsFiniteSet(W) /\ Cardinality(W) = PageSize
    <2>1. IsFiniteSet(W) /\ Cardinality(W) \in Nat /\ Cardinality(W) <= PageSize
      BY <1>1, <1>2, <1>3, LeadsBounds
    <2>2. ~(Cardinality(W) < PageSize)
      OBVIOUS
    <2> QED
      BY <1>3, <2>1, <2>2
  <1>6. Cardinality(Before) = Skip
    <2>1. W # {}
      BY <1>3, <1>5, FS_EmptySet
    <2> QED
      BY <1>1, <1>4, <2>1
  <1>7. Cardinality(Before \cup W) = Cardinality(Before) + Cardinality(W)
    <2>1. Before \cap W = {}
      BY <1>1
    <2>2. Cardinality(Before \cap W) = 0
      BY <2>1, FS_EmptySet
    <2>3. Cardinality(Before \cup W)
            = Cardinality(Before) + Cardinality(W) - Cardinality(Before \cap W)
      BY <1>4, <1>5, FS_Union
    <2> QED
      BY <1>3, <1>4, <1>5, <2>2, <2>3
  <1>8. Cardinality(Before \cup W) <= Cardinality(Public)
    <2>1. Before \cup W \subseteq Public
      BY <1>1
    <2> QED
      BY <1>2, <2>1, FS_Subset
  <1> QED
    BY <1>1, <1>3, <1>5, <1>6, <1>7, <1>8

LEMMA WalkStep ==
    ASSUME TypeOK, PageInv, ShownInOrder, PagesEnd, [Next]_vars
    PROVE  ShownInOrder' /\ PagesEnd'
  <1>1. ASSUME UNCHANGED <<table, walk>> PROVE ShownInOrder' /\ PagesEnd'
    BY <1>1 DEF ShownInOrder, PagesEnd, Public, Unshared, Skip, SafePage, walk
  <1>2. Tick => ShownInOrder' /\ PagesEnd'
    BY <1>1 DEF Tick
  <1>3. ASSUME NEW id, NEW private, CreateRoom(id, private)
        PROVE  ShownInOrder' /\ PagesEnd'
    BY <1>1, <1>3 DEF CreateRoom
  <1>4. ASSUME NEW r, CreationFailed(r) PROVE ShownInOrder' /\ PagesEnd'
    BY <1>1, <1>4 DEF CreationFailed
  <1>5. ASSUME NEW r \in stamped, RowWritten(r) PROVE ShownInOrder' /\ PagesEnd'
    <2>1. Public \subseteq Public' /\ UNCHANGED <<page, done, start, listed>>
      BY <1>5 DEF RowWritten, Public, walk
    <2>2. ShownInOrder'
      BY <2>1 DEF ShownInOrder, Unshared
    <2>3. IsFiniteSet(Public) /\ IsFiniteSet(Public')
      BY <1>5, PageStep, FS_Subset DEF PageInv, Finite, Public, Next
    <2>4. /\ Cardinality(Public) <= Cardinality(Public')
          /\ Cardinality(Public) \in Nat /\ Cardinality(Public') \in Nat
      BY <2>1, <2>3, FS_Subset, FS_CardinalityType
    <2>5. Skip' = Skip /\ Skip \in Nat
      BY <2>1, SkipType DEF Skip, SafePage
    <2> QED
      BY <2>1, <2>2, <2>4, <2>5 DEF PagesEnd
  <1>6. UNCHANGED vars => ShownInOrder' /\ PagesEnd'
    BY <1>1 DEF vars, rows
  <1>7. ASSUME NEW Before, NEW W, GetRooms(Before, W) PROVE ShownInOrder' /\ PagesEnd'
    BY <1>7, OrderRead, EndRead
  <1> QED
    BY <1>2, <1>3, <1>4, <1>5, <1>6, <1>7 DEF Next

LEMMA WalkInvariant == Spec => [](ShownInOrder /\ PagesEnd)
  <1>1. Init => ShownInOrder /\ PagesEnd
    <2> SUFFICES ASSUME Init PROVE ShownInOrder /\ PagesEnd
      OBVIOUS
    <2>1. ShownInOrder
      BY DEF Init, ShownInOrder
    <2>2. Skip = 0
      BY PagesAssumption DEF Init, Skip, SafePage
    <2>3. Public = {} /\ Cardinality(Public) = 0
      BY FS_EmptySet DEF Init, Public
    <2> QED
      BY <2>1, <2>2, <2>3 DEF PagesEnd
  <1> QED
    BY <1>1, WalkStep, PageInvariant, Typing, PTL DEF Spec

\* At every moment the client has seen the rooms up to some point in time and no gap.
THEOREM Order == Spec => []ShownInOrder
  BY WalkInvariant, PTL

\* No page is asked for behind the table: a client that reads on is done, however many
\* rooms there are, after at most one request more than there are full pages.
THEOREM Ending == Spec => []PagesEnd
  BY WalkInvariant, PTL

\* A walk that ends with the rooms it began with, no two of one millisecond, has shown
\* each of them once.
THEOREM ExactWalk ==
    Spec => [](done /\ Public = start /\ (\A r \in Public : Unshared(r)) =>
                 listed = start /\ repeated = {})
  <1>1. TypeOK /\ PageInv =>
            (done /\ Public = start /\ (\A r \in Public : Unshared(r)) =>
                 listed = start /\ repeated = {})
    <2> SUFFICES ASSUME TypeOK, PageInv, done, Public = start,
                        \A r \in Public : Unshared(r)
                 PROVE  listed = start /\ repeated = {}
      OBVIOUS
    <2>1. listed \subseteq start /\ start \subseteq listed
      BY DEF PageInv, WalkBegins, AheadOfWalk
    <2>2. \A r \in listed : Undisturbed(r)
      BY DEF Undisturbed, Earlier
    <2> QED
      BY <2>1, <2>2 DEF TypeOK, PageInv, BehindWalk
  <1> QED
    BY <1>1, PageInvariant, Typing, PTL
=============================================================================
