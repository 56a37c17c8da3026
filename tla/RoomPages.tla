------------------------------- MODULE RoomPages -------------------------------
(***************************************************************************)
(* The list of public rooms, GET /room: ChatController.getRooms,           *)
(* ChatService.getRooms, ChatManager.normalizePage and                     *)
(* ChatRepository.findPublicRooms.  Nothing is kept between two requests:  *)
(* a page is a window of the rows ordered by created_at, cut again for     *)
(* every request while rooms are created.  A row gets its created_at before*)
(* it can be read, so a row may appear in front of rows that were read     *)
(* already, and rows created in the same millisecond have no order: each   *)
(* query may return them differently.                                      *)
(*                                                                         *)
(* The client asks for the pages one after the other until one is not full.*)
(***************************************************************************)
EXTENDS Integers, FiniteSets

CONSTANTS
    RoomIds,    \* rows of the table (bound)
    PageSize,   \* 8 in the code
    MaxTime     \* the clock stops (bound)

ASSUME PagesAssumption ==
    /\ PageSize \in Nat \ {0}
    /\ MaxTime \in Nat

VARIABLES
    now,
    stamped,    \* rows with their created_at, on their way to the table
    table,      \* table room
    page,       \* the page the client asks for next; 0: none is given
    done,       \* the client has seen a page that was not full
    start,      \* history: the public rooms when the first page was read
    listed,     \* history: the rooms the client was shown
    repeated    \* history: those it was shown on two pages

rows == <<now, stamped, table>>
walk == <<page, done, start, listed, repeated>>
vars == <<rows, walk>>

Row == [id : RoomIds, private : BOOLEAN, created : Nat]

\* Faulty variant: is_privated is not looked at.
AllRows == table

\* where: is_privated is false.
Public == {r \in table : ~r.private}

\* A missing page, or one below 1, is page 1.
SafePage == IF page < 1 THEN 1 ELSE page

\* Faulty variants: pages counted from 0, and pages that overlap by a row.
SkipWholePages == SafePage * PageSize
SkipShort == (SafePage - 1) * (PageSize - 1)

Skip == (SafePage - 1) * PageSize

AtMost(n, S) == IF n < Cardinality(S) THEN n ELSE Cardinality(S)

\* W may be the first n rows of S ordered by created_at.
Leads(W, n, S) ==
    /\ W \subseteq S
    /\ Cardinality(W) = AtMost(n, S)
    /\ \A r \in W, s \in S \ W : r.created <= s.created

\* skip and take: W follows the rows in Before.
Window(Before, W) ==
    /\ Leads(Before, Skip, Public)
    /\ Leads(W, PageSize, Public \ Before)

-----------------------------------------------------------------------------
Init ==
    /\ now = 0
    /\ stamped = {} /\ table = {}
    /\ page \in {0, 1} /\ done = FALSE
    /\ start = {} /\ listed = {} /\ repeated = {}

Tick ==
    /\ now < MaxTime
    /\ now' = now + 1
    /\ UNCHANGED <<stamped, table, walk>>

\* room.create is under way: created_at is now().
CreateRoom(id, private) ==
    /\ \A r \in stamped \cup table : r.id # id
    /\ stamped' = stamped \cup {[id |-> id, private |-> private, created |-> now]}
    /\ UNCHANGED <<now, table, walk>>

\* The row can be read.
RowWritten(r) ==
    /\ stamped' = stamped \ {r}
    /\ table' = table \cup {r}
    /\ UNCHANGED <<now, walk>>

CreationFailed(r) ==
    /\ stamped' = stamped \ {r}
    /\ UNCHANGED <<now, table, walk>>

\* getRooms answers the page the client asks for.
GetRooms(Before, W) ==
    /\ ~done
    /\ Window(Before, W)
    /\ page' = SafePage + 1
    /\ done' = (Cardinality(W) < PageSize)
    /\ start' = IF page <= 1 THEN Public ELSE start
    /\ listed' = listed \cup W
    /\ repeated' = repeated \cup (listed \cap W)
    /\ UNCHANGED rows

Next ==
    \/ Tick
    \/ \E id \in RoomIds, private \in BOOLEAN : CreateRoom(id, private)
    \/ \E r \in stamped : RowWritten(r)
    \/ \E r \in stamped : CreationFailed(r)
    \/ \E Before, W \in SUBSET Public : GetRooms(Before, W)

Spec == Init /\ [][Next]_vars

-----------------------------------------------------------------------------
(* Properties.                                                             *)

\* Every variable has its type, and only public rows are shown.
TypeOK ==
    /\ now \in Nat
    /\ stamped \subseteq Row /\ table \subseteq Row
    /\ page \in Nat /\ done \in BOOLEAN
    /\ start \subseteq table /\ listed \subseteq table /\ repeated \subseteq listed
    /\ \A r \in start \cup listed : ~r.private

\* No other public room was created in the same millisecond.
Unshared(r) == \A s \in Public \ {r} : s.created # r.created

\* A client that reads page after page is shown every public room there was when it
\* began, however many are created while it reads, at the end or in front of what it has
\* read (skip counts from the first row again each time).  Rooms created in the same
\* millisecond as another one may be missed: orderBy leaves their order open.
NoRoomMissed == done => \A r \in start : Unshared(r) => r \in listed

\* A room is shown twice only if another one shares its millisecond, or a room whose
\* creation was under way when the client began appeared in front of it.
RepeatsExplained ==
    \A r \in repeated : \E s \in Public \ {r} :
        s.created = r.created \/ (s \notin start /\ s.created < r.created)

\* What was shown up to now has no gap: a room that is still to come is not older than
\* any that was shown, whatever was created since (order and skip of findPublicRooms).
ShownInOrder ==
    \A r \in listed, s \in start \ listed : Unshared(s) => r.created <= s.created

\* The pages end: as long as they were full, no page is asked for that lies behind the
\* table, so that Cardinality(Public) \div PageSize + 1 requests are enough.
PagesEnd == ~done => Skip <= Cardinality(Public)
=============================================================================
