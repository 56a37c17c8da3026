--------------------------- MODULE ChatRoomsProofs ---------------------------
(***************************************************************************)
(* Theorems about ChatRooms for every set of sockets, users, codes and     *)
(* handlers, and every legacy table the assumption allows.                 *)
(*                                                                         *)
(* The properties are not inductive: they depend on what a waiting handler *)
(* has already established.  RecordSound says it, and rests on the tables  *)
(* never losing a row (TablesGrow).                                        *)
(***************************************************************************)
EXTENDS ChatRooms, TLAPS

\* What the queries a handler has behind it have shown, and what still holds.
RecordSound(c) ==
    /\ c \in Waiting
    /\ c.op \in {"inviter", "account", "guest", "row", "invited"} =>
          c.user \in Users /\ RoomExists(c.code)
    /\ c.op \in {"account", "guest", "row"} => <<c.user, c.code>> \in members
    /\ c.op = "invited" => <<c.guest, c.code>> \in members
    /\ c.op = "created" => RoomExists(c.code)
    /\ c.op \in {"store", "emit"} => c.user \in Verified
    /\ c.op = "emit" => [id |-> c.message, author |-> c.user] \in messages

RecordsSound == \A c \in inflight : RecordSound(c)

\* Sockets have verified users or none, messages verified authors.
UsersVerified ==
    /\ user \in [Sockets -> Verified \cup {NoUser}]
    /\ messages \subseteq [id : MessageIds, author : Verified]

ChatInvariant ==
    /\ TypeOK
    /\ RecordsSound
    /\ UsersVerified
    /\ AuthSettles
    /\ SeatsSound
    /\ HeardWasStored

-----------------------------------------------------------------------------
(* Steps and records.                                                      *)

\* The tables only grow: nothing in the chat deletes or changes a row.
LEMMA TablesGrow ==
    ASSUME [Next]_vars
    PROVE  /\ rooms \subseteq rooms'
           /\ members \subseteq members'
           /\ messages \subseteq messages'
  <1>1. CASE \E c \in inflight : RoomCreated(c)
    BY <1>1 DEF RoomCreated, connections
  <1>2. CASE \E c \in inflight : MessageStored(c)
    BY <1>2 DEF MessageStored, connections
  <1>3. CASE \E c \in inflight : GuestInvited(c)
    BY <1>3 DEF GuestInvited, connections
  <1>4. ASSUME ~(\E c \in inflight : RoomCreated(c)),
               ~(\E c \in inflight : MessageStored(c)),
               ~(\E c \in inflight : GuestInvited(c))
        PROVE  UNCHANGED <<rooms, members, messages>>
    BY <1>4 DEF Next, vars, tables, Answered, Connect, Disconnect, CreateRoom, JoinRoom,
        SendMessage, InviteUser, QueryFailed, ProcessExit, Authenticated, AuthRefused,
        OwnerFound, CodeFree, CodeTaken, CodesExhausted, RoomAnswered, SeatTaken,
        SeatRefused, MessageSent, InviteRoomFound, InviterJoined, GuestFound,
        GuestNotJoined, InviteConfirmed
  <1> QED
    BY <1>1, <1>2, <1>3, <1>4

\* What a handler knows stays true while it waits.
LEMMA RecordStays ==
    ASSUME [Next]_vars, NEW c, RecordSound(c)
    PROVE  RecordSound(c)'
  BY TablesGrow DEF RecordSound, RoomExists

\* The fields of a record, by what it waits for.
LEMMA Fields ==
    ASSUME NEW c \in Waiting
    PROVE  /\ c.call \in Calls
           /\ c.op = "auth" => c.socket \in Sockets /\ c.user \in Users \cup {NoUser}
           /\ c.op = "owner" => c.user \in Users /\ c.kind \in {"public", "private"}
           /\ c.op \in {"code", "create", "created"} =>
                 c.user \in Users /\ c.code \in Codes /\ c.kind \in {"public", "private"}
                 /\ c.attempt \in 1 .. Attempts
           /\ c.op = "join" => c.socket \in Sockets /\ c.code \in Codes
           /\ c.op \in {"store", "emit"} =>
                 c.user \in Users /\ c.code \in Codes /\ c.message \in MessageIds
           /\ c.op \in {"room", "inviter", "account", "guest", "row", "invited"} =>
                 c.user \in Users \cup {NoUser} /\ c.guest \in Users /\ c.code \in Codes
  BY DEF Waiting

\* Following the code of createRoom, message and invitePrivateRoom, a record changes
\* the answer it waits for and keeps the rest.
LEMMA MovesOn ==
    ASSUME NEW c \in Waiting, NEW op
    PROVE  /\ c.op \in {"code", "create"} /\ op \in {"create", "created"} =>
                 [c EXCEPT !.op = op] \in Waiting
           /\ c.op = "store" /\ op = "emit" =>
                 /\ [c EXCEPT !.op = op] \in Waiting
                 /\ [c EXCEPT !.op = op].message = c.message
           /\ c.op \in {"room", "inviter", "account", "guest", "row"}
              /\ op \in {"inviter", "account", "guest", "row", "invited"} =>
                 /\ [c EXCEPT !.op = op] \in Waiting
                 /\ [c EXCEPT !.op = op].guest = c.guest
           /\ [c EXCEPT !.op = op].op = op
           /\ [c EXCEPT !.op = op].call = c.call
           /\ [c EXCEPT !.op = op].user = c.user
           /\ c.op \notin {"auth", "owner"} => [c EXCEPT !.op = op].code = c.code
  <1>1. CASE c \in [op : {"auth"}, call : Calls, socket : Sockets, user : Users \cup {NoUser}]
    BY <1>1
  <1>2. CASE c \in [op : {"code", "create", "created"}, call : Calls, user : Users,
                    code : Codes, kind : {"public", "private"}, attempt : 1 .. Attempts]
    BY <1>2 DEF Waiting
  <1>3. CASE c \in [op : {"join"}, call : Calls, socket : Sockets,
                    user : Users \cup {NoUser}, code : Codes]
    BY <1>3
  <1>4. CASE c \in [op : {"store", "emit"}, call : Calls, user : Users, code : Codes,
                    message : MessageIds]
    BY <1>4 DEF Waiting
  <1>5. CASE c \in [op : {"room", "inviter", "account", "guest", "row", "invited"},
                    call : Calls, user : Users \cup {NoUser}, guest : Users, code : Codes]
    BY <1>5 DEF Waiting
  <1>6. CASE c \in [op : {"owner"}, call : Calls, user : Users, kind : {"public", "private"}]
    BY <1>6
  <1> QED
    BY <1>1, <1>2, <1>3, <1>4, <1>5, <1>6 DEF Waiting

-----------------------------------------------------------------------------
(* The invariant, part by part.                                            *)

\* A handler only goes on when its query answered what the record then claims.
LEMMA RecordsStep ==
    ASSUME ChatAssumption, ChatInvariant, [Next]_vars
    PROVE  RecordsSound'
  <1> DEFINE Kept == inflight' \subseteq inflight
             Grows(d) == inflight' \subseteq inflight \cup {d}
  <1>1. \A c \in inflight : c \in Waiting /\ RecordSound(c) /\ RecordSound(c)'
    BY RecordStays DEF ChatInvariant, RecordsSound, RecordSound
  <1>2. Kept => RecordsSound'
    BY <1>1 DEF RecordsSound
  <1>3. ASSUME NEW d, Grows(d), RecordSound(d)'
        PROVE  RecordsSound'
    BY <1>1, <1>3 DEF RecordsSound
  <1>4. ASSUME NEW k \in Calls, NEW s \in Sockets, NEW u \in Tokens, Connect(k, s, u)
        PROVE  RecordsSound'
    <2> DEFINE d == [op |-> "auth", call |-> k, socket |-> s, user |-> u]
    <2>1. RecordSound(d)'
      BY DEF RecordSound, Waiting, ChatAssumption
    <2> QED
      BY <1>3, <1>4, <2>1 DEF Connect
  <1>5. ASSUME NEW k \in Calls, NEW u \in Users, NEW kind \in {"public", "private"},
               CreateRoom(k, u, kind)
        PROVE  RecordsSound'
    <2> DEFINE d == [op |-> "owner", call |-> k, user |-> u, kind |-> kind]
    <2>1. RecordSound(d)'
      BY DEF RecordSound, Waiting, ChatAssumption
    <2> QED
      BY <1>3, <1>5, <2>1 DEF CreateRoom
  <1>6. ASSUME NEW k \in Calls, NEW s \in Sockets, NEW code \in Codes, JoinRoom(k, s, code)
        PROVE  RecordsSound'
    <2>1. PICK u \in Users \cup {NoUser} : u = user[s]
      BY DEF ChatInvariant, TypeOK
    <2> DEFINE d == [op |-> "join", call |-> k, socket |-> s, user |-> u, code |-> code]
    <2>2. RecordSound(d)'
      BY DEF RecordSound, Waiting
    <2> QED
      BY <1>3, <1>6, <2>1, <2>2 DEF JoinRoom
  <1>7. ASSUME NEW k \in Calls, NEW s \in Sockets, NEW m \in MessageIds, NEW code \in Codes,
               SendMessage(k, s, m, code)
        PROVE  RecordsSound'
    <2>1. PICK u \in Verified : u = user[s]
      BY <1>7 DEF SendMessage, ChatInvariant, UsersVerified
    <2> DEFINE d == [op |-> "store", call |-> k, user |-> u, code |-> code, message |-> m]
    <2>2. RecordSound(d)'
      BY DEF RecordSound, Waiting, ChatAssumption
    <2> QED
      BY <1>3, <1>7, <2>1, <2>2 DEF SendMessage
  <1>8. ASSUME NEW k \in Calls, NEW s \in Sockets, NEW g \in Users, NEW code \in Codes,
               InviteUser(k, s, g, code)
        PROVE  RecordsSound'
    <2>1. PICK u \in Users \cup {NoUser} : u = user[s]
      BY DEF ChatInvariant, TypeOK
    <2> DEFINE d == [op |-> "room", call |-> k, user |-> u, guest |-> g, code |-> code]
    <2>2. RecordSound(d)'
      BY DEF RecordSound, Waiting
    <2> QED
      BY <1>3, <1>8, <2>1, <2>2 DEF InviteUser
  <1>9. ASSUME NEW c \in inflight, Answered(c)
        PROVE  RecordsSound'
    <2> USE <1>1
    <2>1. ASSUME CodeFree(c)
          PROVE  RecordsSound'
      <3> DEFINE d == [c EXCEPT !.op = "create"]
      <3>1. d \in Waiting /\ d.op = "create"
        BY <2>1, MovesOn DEF CodeFree
      <3> HIDE DEF d
      <3>2. RecordSound(d)'
        BY <3>1 DEF RecordSound
      <3>3. Grows(d)
        BY <2>1 DEF CodeFree, Moves, d
      <3> QED
        BY <1>3, <3>2, <3>3
    <2>2. ASSUME NEW next \in Codes, CodeTaken(c, next)
          PROVE  RecordsSound'
      <3> DEFINE d == [c EXCEPT !.code = next, !.attempt = @ + 1]
      <3>1. c \in [op : {"code", "create", "created"}, call : Calls, user : Users,
                   code : Codes, kind : {"public", "private"}, attempt : 1 .. Attempts]
        BY <2>2 DEF CodeTaken, Waiting
      <3>2. c.attempt + 1 \in 1 .. Attempts
        BY <3>1, <2>2 DEF CodeTaken, ChatAssumption
      <3>3. /\ d \in [op : {"code", "create", "created"}, call : Calls, user : Users,
                      code : Codes, kind : {"public", "private"}, attempt : 1 .. Attempts]
            /\ d.op = "code"
        BY <3>1, <3>2, <2>2 DEF CodeTaken
      <3>4. RecordSound(d)'
        BY <3>3 DEF RecordSound, Waiting
      <3> QED
        BY <1>3, <2>2, <3>4 DEF CodeTaken, Moves
    <2>3. ASSUME MessageStored(c)
          PROVE  RecordsSound'
      <3> DEFINE d == [c EXCEPT !.op = "emit"]
      <3>1. d \in Waiting /\ d.op = "emit" /\ d.user = c.user /\ d.message = c.message
        BY <2>3, MovesOn DEF MessageStored
      <3>2. c.user \in Verified /\ [id |-> c.message, author |-> c.user] \in messages'
        BY <2>3 DEF MessageStored, RecordSound
      <3> HIDE DEF d
      <3>3. RecordSound(d)'
        BY <3>1, <3>2 DEF RecordSound
      <3>4. Grows(d)
        BY <2>3 DEF MessageStored, Moves, d
      <3> QED
        BY <1>3, <3>3, <3>4
    <2>4. ASSUME InviteRoomFound(c)
          PROVE  RecordsSound'
      <3> DEFINE d == [c EXCEPT !.op = "inviter"]
      <3>1. d \in Waiting /\ d.op = "inviter" /\ d.user = c.user /\ d.code = c.code
        BY <2>4, MovesOn DEF InviteRoomFound
      <3>2. c.user \in Users /\ RoomExists(c.code)'
        BY <2>4, Fields, TablesGrow DEF InviteRoomFound, RoomExists
      <3> HIDE DEF d
      <3>3. RecordSound(d)'
        BY <3>1, <3>2 DEF RecordSound
      <3>4. Grows(d)
        BY <2>4 DEF InviteRoomFound, Moves, d
      <3> QED
        BY <1>3, <3>3, <3>4
    <2>5. ASSUME InviterJoined(c)
          PROVE  RecordsSound'
      <3> DEFINE d == [c EXCEPT !.op = "account"]
      <3>1. d \in Waiting /\ d.op = "account" /\ d.user = c.user /\ d.code = c.code
        BY <2>5, MovesOn DEF InviterJoined
      <3>2. c.user \in Users /\ RoomExists(c.code)' /\ <<c.user, c.code>> \in members'
        BY <2>5, TablesGrow DEF InviterJoined, RecordSound
      <3> HIDE DEF d
      <3>3. RecordSound(d)'
        BY <3>1, <3>2 DEF RecordSound
      <3>4. Grows(d)
        BY <2>5 DEF InviterJoined, Moves, d
      <3> QED
        BY <1>3, <3>3, <3>4
    <2>6. ASSUME GuestNotJoined(c)
          PROVE  RecordsSound'
      <3> DEFINE d == [c EXCEPT !.op = "row"]
      <3>1. d \in Waiting /\ d.op = "row" /\ d.user = c.user /\ d.code = c.code
        BY <2>6, MovesOn DEF GuestNotJoined
      <3>2. c.user \in Users /\ RoomExists(c.code)' /\ <<c.user, c.code>> \in members'
        BY <2>6 DEF GuestNotJoined, RecordSound
      <3> HIDE DEF d
      <3>3. RecordSound(d)'
        BY <3>1, <3>2 DEF RecordSound
      <3>4. Grows(d)
        BY <2>6 DEF GuestNotJoined, Moves, d
      <3> QED
        BY <1>3, <3>3, <3>4
    <2>7. ASSUME GuestFound(c)
          PROVE  RecordsSound'
      <3> DEFINE d == [c EXCEPT !.op = "guest"]
      <3>1. d \in Waiting /\ d.op = "guest" /\ d.user = c.user /\ d.code = c.code
        BY <2>7, MovesOn DEF GuestFound
      <3>2. c.user \in Users /\ RoomExists(c.code)' /\ <<c.user, c.code>> \in members'
        BY <2>7 DEF GuestFound, RecordSound
      <3> HIDE DEF d
      <3>3. RecordSound(d)'
        BY <3>1, <3>2 DEF RecordSound
      <3>4. Grows(d)
        BY <2>7 DEF GuestFound, Moves, d
      <3> QED
        BY <1>3, <3>3, <3>4
    <2>8. ASSUME GuestInvited(c)
          PROVE  RecordsSound'
      <3> DEFINE d == [c EXCEPT !.op = "invited"]
      <3>1. /\ d \in Waiting /\ d.op = "invited"
            /\ d.user = c.user /\ d.code = c.code /\ d.guest = c.guest
        BY <2>8, MovesOn DEF GuestInvited
      <3>2. c.user \in Users /\ RoomExists(c.code)' /\ <<c.guest, c.code>> \in members'
        BY <2>8 DEF GuestInvited, RecordSound
      <3> HIDE DEF d
      <3>3. RecordSound(d)'
        BY <3>1, <3>2 DEF RecordSound
      <3>4. Grows(d)
        BY <2>8 DEF GuestInvited, Moves, d
      <3> QED
        BY <1>3, <3>3, <3>4
    <2>9. ASSUME RoomCreated(c)
          PROVE  RecordsSound'
      <3> DEFINE d == [c EXCEPT !.op = "created"]
      <3>1. d \in Waiting /\ d.op = "created" /\ d.code = c.code
        BY <2>9, MovesOn DEF RoomCreated
      <3>2. RoomExists(c.code)'
        <4>1. PICK r \in rooms' : r = [code |-> c.code, owner |-> c.user, kind |-> c.kind]
          BY <2>9 DEF RoomCreated
        <4> QED
          BY <4>1 DEF RoomExists
      <3> HIDE DEF d
      <3>3. RecordSound(d)'
        BY <3>1, <3>2 DEF RecordSound
      <3>4. Grows(d)
        BY <2>9 DEF RoomCreated, Moves, d
      <3> QED
        BY <1>3, <3>3, <3>4
    <2>10. ASSUME NEW code \in Codes, OwnerFound(c, code)
           PROVE  RecordsSound'
      <3>1. PICK k \in Calls, u \in Users, kind \in {"public", "private"} :
              Moves(c, [op |-> "code", call |-> k, user |-> u, code |-> code,
                        kind |-> kind, attempt |-> 1])
        BY <2>10, Fields DEF OwnerFound
      <3> DEFINE d == [op |-> "code", call |-> k, user |-> u, code |-> code,
                       kind |-> kind, attempt |-> 1]
      <3>2. RecordSound(d)'
        BY DEF RecordSound, Waiting, ChatAssumption
      <3> QED
        BY <1>3, <3>1, <3>2 DEF Moves
    <2>11. ASSUME \/ Authenticated(c) \/ AuthRefused(c) \/ CodesExhausted(c)
                  \/ RoomAnswered(c) \/ SeatTaken(c) \/ SeatRefused(c)
                  \/ MessageSent(c) \/ InviteConfirmed(c)
           PROVE  Kept
      BY <2>11 DEF Authenticated, AuthRefused, CodesExhausted, RoomAnswered, SeatTaken,
          SeatRefused, MessageSent, InviteConfirmed, Ends
    <2> HIDE DEF Kept
    <2> QED
      BY <1>2, <1>9, <2>1, <2>2, <2>3, <2>4, <2>5, <2>6, <2>7, <2>8, <2>9, <2>10, <2>11
         DEF Answered
  <1>10. ASSUME \/ \E s \in Sockets : Disconnect(s)
                \/ \E c \in inflight : QueryFailed(c)
                \/ ProcessExit
                \/ UNCHANGED vars
         PROVE  Kept
    BY <1>10 DEF Disconnect, QueryFailed, ProcessExit, Ends, vars
  <1> HIDE DEF Kept
  <1> QED
    BY <1>2, <1>4, <1>5, <1>6, <1>7, <1>8, <1>9, <1>10 DEF Next

\* The tables keep their types, room its unique codes, and messages are by verified
\* users.
LEMMA TablesStep ==
    ASSUME ChatAssumption, ChatInvariant, [Next]_vars
    PROVE  /\ rooms' \subseteq Room
           /\ \A r, s \in rooms' : r.code = s.code => r = s
           /\ members' \subseteq Users \X Codes
           /\ messages' \subseteq [id : MessageIds, author : Verified]
           /\ created' \subseteq [user : Users, code : Codes]
           /\ invites' \subseteq [inviter : Users, guest : Users, code : Codes]
  <1> DEFINE Goal == /\ rooms' \subseteq Room
                     /\ \A r, s \in rooms' : r.code = s.code => r = s
                     /\ members' \subseteq Users \X Codes
                     /\ messages' \subseteq [id : MessageIds, author : Verified]
                     /\ created' \subseteq [user : Users, code : Codes]
                     /\ invites' \subseteq [inviter : Users, guest : Users, code : Codes]
  <1>1. /\ rooms \subseteq Room
        /\ \A r, s \in rooms : r.code = s.code => r = s
        /\ members \subseteq Users \X Codes
        /\ messages \subseteq [id : MessageIds, author : Verified]
        /\ created \subseteq [user : Users, code : Codes]
        /\ invites \subseteq [inviter : Users, guest : Users, code : Codes]
    BY DEF ChatInvariant, TypeOK, UsersVerified
  <1>2. ASSUME NEW c \in inflight, RoomCreated(c)
        PROVE  Goal
    <2>1. c.user \in Users /\ c.code \in Codes /\ c.kind \in {"public", "private"}
      BY <1>2, Fields DEF RoomCreated, ChatInvariant, TypeOK
    <2> QED
      BY <1>1, <1>2, <2>1 DEF RoomCreated, RoomExists, Room, connections
  <1>3. ASSUME NEW c \in inflight, MessageStored(c)
        PROVE  Goal
    <2>1. c.user \in Verified /\ c.message \in MessageIds
      BY <1>3, Fields DEF MessageStored, ChatInvariant, TypeOK, RecordsSound, RecordSound
    <2> QED
      BY <1>1, <1>3, <2>1 DEF MessageStored
  <1>4. ASSUME NEW c \in inflight, GuestInvited(c)
        PROVE  Goal
    <2>1. c.user \in Users /\ c.guest \in Users /\ c.code \in Codes
      BY <1>4, Fields DEF GuestInvited, ChatInvariant, TypeOK, RecordsSound, RecordSound
    <2> QED
      BY <1>1, <1>4, <2>1 DEF GuestInvited
  <1>8. ASSUME NEW c \in inflight, RoomAnswered(c)
        PROVE  Goal
    <2>1. c.user \in Users /\ c.code \in Codes
      BY <1>8, Fields DEF RoomAnswered, ChatInvariant, TypeOK
    <2> QED
      BY <1>1, <1>8, <2>1 DEF RoomAnswered
  <1>9. ASSUME NEW c \in inflight, InviteConfirmed(c)
        PROVE  Goal
    <2>1. c.user \in Users /\ c.guest \in Users /\ c.code \in Codes
      BY <1>9, Fields DEF InviteConfirmed, ChatInvariant, TypeOK, RecordsSound, RecordSound
    <2> QED
      BY <1>1, <1>9, <2>1 DEF InviteConfirmed
  <1>5. ASSUME UNCHANGED tables
        PROVE  Goal
    BY <1>1, <1>5 DEF tables
  <1>6. ASSUME ~(\E c \in inflight : RoomCreated(c)),
               ~(\E c \in inflight : MessageStored(c)),
               ~(\E c \in inflight : GuestInvited(c)),
               ~(\E c \in inflight : RoomAnswered(c)),
               ~(\E c \in inflight : InviteConfirmed(c))
        PROVE  UNCHANGED tables
    BY <1>6 DEF Next, vars, Answered, Connect, Disconnect, CreateRoom, JoinRoom,
        SendMessage, InviteUser, QueryFailed, ProcessExit, Authenticated, AuthRefused,
        OwnerFound, CodeFree, CodeTaken, CodesExhausted, SeatTaken, SeatRefused,
        MessageSent, InviteRoomFound, InviterJoined, GuestFound, GuestNotJoined
  <1> HIDE DEF Goal
  <1>7. Goal
    BY <1>2, <1>3, <1>4, <1>5, <1>6, <1>8, <1>9
  <1> QED
    BY <1>7 DEF Goal

\* Connections keep their types, and their users are verified.
LEMMA ConnectionsStep ==
    ASSUME ChatAssumption, ChatInvariant, [Next]_vars
    PROVE  /\ sock' \in [Sockets -> {"new", "open", "closed"}]
           /\ user' \in [Sockets -> Verified \cup {NoUser}]
           /\ seats' \in [Sockets -> SUBSET Codes]
           /\ heard' \in [Sockets -> SUBSET MessageIds]
  <1> DEFINE Goal == /\ sock' \in [Sockets -> {"new", "open", "closed"}]
                     /\ user' \in [Sockets -> Verified \cup {NoUser}]
                     /\ seats' \in [Sockets -> SUBSET Codes]
                     /\ heard' \in [Sockets -> SUBSET MessageIds]
  <1>1. /\ sock \in [Sockets -> {"new", "open", "closed"}]
        /\ user \in [Sockets -> Verified \cup {NoUser}]
        /\ seats \in [Sockets -> SUBSET Codes]
        /\ heard \in [Sockets -> SUBSET MessageIds]
    BY DEF ChatInvariant, TypeOK, UsersVerified
  <1>2. ASSUME NEW k \in Calls, NEW s \in Sockets, NEW u \in Tokens, Connect(k, s, u)
        PROVE  Goal
    BY <1>1, <1>2 DEF Connect
  <1>3. ASSUME NEW s \in Sockets, Disconnect(s)
        PROVE  Goal
    BY <1>1, <1>3 DEF Disconnect, Close
  <1>4. ASSUME NEW c \in inflight, Authenticated(c)
        PROVE  Goal
    BY <1>1, <1>4 DEF Authenticated
  <1>5. ASSUME NEW c \in inflight, AuthRefused(c)
        PROVE  Goal
    BY <1>1, <1>5 DEF AuthRefused, Close
  <1>6. ASSUME NEW c \in inflight, SeatTaken(c)
        PROVE  Goal
    <2>1. c.code \in Codes
      BY <1>6, Fields DEF SeatTaken, ChatInvariant, TypeOK
    <2> QED
      BY <1>1, <1>6, <2>1 DEF SeatTaken
  <1>7. ASSUME NEW c \in inflight, MessageSent(c)
        PROVE  Goal
    <2>1. c.message \in MessageIds
      BY <1>7, Fields DEF MessageSent, ChatInvariant, TypeOK
    <2> QED
      BY <1>1, <1>7, <2>1 DEF MessageSent
  <1>8. CASE ProcessExit
    BY <1>8 DEF ProcessExit
  <1>9. ASSUME UNCHANGED connections
        PROVE  Goal
    BY <1>1, <1>9 DEF connections
  <1> HIDE DEF Goal
  <1>10. Next /\ ~UNCHANGED connections =>
            \/ \E k \in Calls, s \in Sockets, u \in Tokens : Connect(k, s, u)
            \/ \E s \in Sockets : Disconnect(s)
            \/ \E c \in inflight : Authenticated(c) \/ AuthRefused(c) \/ SeatTaken(c)
                                   \/ MessageSent(c)
            \/ ProcessExit
    BY DEF Next, Answered, CreateRoom, JoinRoom, SendMessage, InviteUser, QueryFailed,
        OwnerFound, CodeFree, CodeTaken, CodesExhausted, RoomCreated, RoomAnswered,
        SeatRefused, MessageStored, InviteRoomFound, InviterJoined, GuestFound,
        GuestNotJoined, GuestInvited, InviteConfirmed
  <1>11. UNCHANGED vars => UNCHANGED connections
    BY DEF vars
  <1>12. Goal
    BY <1>2, <1>3, <1>4, <1>5, <1>6, <1>7, <1>8, <1>9, <1>10, <1>11 DEF Goal
  <1> QED
    BY <1>12 DEF Goal

\* A socket that stays open keeps its verified user or the look at its token.
LEMMA AuthStep ==
    ASSUME ChatAssumption, ChatInvariant, [Next]_vars
    PROVE  AuthSettles'
  <1> SUFFICES ASSUME NEW s \in Sockets, sock'[s] = "open"
               PROVE  \/ user'[s] \in Verified
                      \/ \E c \in inflight' : c.op = "auth" /\ c.socket = s
    BY DEF AuthSettles
  <1> DEFINE Goal == \/ user'[s] \in Verified
                     \/ \E c \in inflight' : c.op = "auth" /\ c.socket = s
  <1>1. /\ sock \in [Sockets -> {"new", "open", "closed"}]
        /\ user \in [Sockets -> Users \cup {NoUser}]
        /\ sock[s] = "open" =>
              user[s] \in Verified \/ \E c \in inflight : c.op = "auth" /\ c.socket = s
        /\ \A c \in inflight : c.op = "auth" => c.socket \in Sockets
    BY Fields DEF ChatInvariant, TypeOK, AuthSettles
  <1>2. ASSUME sock[s] = "open", user'[s] = user[s],
               \A c \in inflight : c.op = "auth" /\ c.socket = s => c \in inflight'
        PROVE  Goal
    BY <1>1, <1>2
  <1>3. ASSUME NEW k \in Calls, NEW t \in Sockets, NEW u \in Tokens, Connect(k, t, u)
        PROVE  Goal
    <2>1. CASE t = s
      <3> DEFINE d == [op |-> "auth", call |-> k, socket |-> t, user |-> u]
      <3>1. d \in inflight' /\ d.op = "auth" /\ d.socket = s
        BY <1>3, <2>1 DEF Connect
      <3> QED
        BY <3>1
    <2>2. CASE t # s
      BY <1>1, <1>2, <1>3, <2>2 DEF Connect
    <2> QED
      BY <2>1, <2>2
  <1>4. ASSUME NEW c \in inflight, Authenticated(c)
        PROVE  Goal
    <2>1. CASE c.socket = s
      BY <1>1, <1>4, <2>1 DEF Authenticated
    <2>2. CASE c.socket # s
      BY <1>1, <1>2, <1>4, <2>2 DEF Authenticated, Ends
    <2> QED
      BY <2>1, <2>2
  <1>5. ASSUME NEW c \in inflight, AuthRefused(c)
        PROVE  Goal
    <2>1. c.socket # s
      BY <1>1, <1>5 DEF AuthRefused, Close
    <2> QED
      BY <1>1, <1>2, <1>5, <2>1 DEF AuthRefused, Close, Ends
  <1>6. ASSUME NEW t \in Sockets, Disconnect(t)
        PROVE  Goal
    BY <1>1, <1>2, <1>6 DEF Disconnect, Close
  <1>7. ASSUME ProcessExit
        PROVE  Goal
    BY <1>7 DEF ProcessExit
  <1>8. ASSUME UNCHANGED <<sock, user>>,
               \A c \in inflight : c.op = "auth" => c \in inflight'
        PROVE  Goal
    BY <1>2, <1>8
  <1>9. ASSUME NEW c \in inflight,
               (\E code \in Codes : OwnerFound(c, code)) \/ CodeFree(c)
               \/ (\E next \in Codes : CodeTaken(c, next)) \/ CodesExhausted(c)
               \/ RoomCreated(c) \/ RoomAnswered(c) \/ SeatTaken(c) \/ SeatRefused(c)
               \/ MessageStored(c) \/ MessageSent(c) \/ InviteRoomFound(c)
               \/ InviterJoined(c) \/ GuestFound(c) \/ GuestNotJoined(c)
               \/ GuestInvited(c) \/ InviteConfirmed(c) \/ QueryFailed(c)
        PROVE  /\ UNCHANGED <<sock, user>>
               /\ \A d \in inflight : d.op = "auth" => d \in inflight'
    BY <1>9 DEF OwnerFound, CodeFree, CodeTaken, CodesExhausted, RoomCreated,
        RoomAnswered, SeatTaken, SeatRefused, MessageStored, MessageSent, InviteRoomFound,
        InviterJoined, GuestFound, GuestNotJoined, GuestInvited, InviteConfirmed,
        QueryFailed, Moves, Ends, connections
  <1>10. ASSUME \/ \E k \in Calls, u \in Users, kind \in {"public", "private"} :
                      CreateRoom(k, u, kind)
                \/ \E k \in Calls, t \in Sockets, code \in Codes : JoinRoom(k, t, code)
                \/ \E k \in Calls, t \in Sockets, m \in MessageIds, code \in Codes :
                      SendMessage(k, t, m, code)
                \/ \E k \in Calls, t \in Sockets, g \in Users, code \in Codes :
                      InviteUser(k, t, g, code)
                \/ UNCHANGED vars
         PROVE  /\ UNCHANGED <<sock, user>>
                /\ \A d \in inflight : d.op = "auth" => d \in inflight'
    BY <1>10 DEF CreateRoom, JoinRoom, SendMessage, InviteUser, vars, connections
  <1> HIDE DEF Goal
  <1>11. Goal
    BY <1>3, <1>4, <1>5, <1>6, <1>7, <1>8, <1>9, <1>10 DEF Next, Answered
  <1> QED
    BY <1>11 DEF Goal

\* A seat is only taken in a room that is public at that moment, rooms stay what they
\* are, and a socket that closes gives up its seats.
LEMMA SeatsStep ==
    ASSUME ChatAssumption, ChatInvariant, [Next]_vars
    PROVE  SeatsSound'
  <1> SUFFICES ASSUME NEW s \in Sockets, NEW code \in seats'[s]
               PROVE  sock'[s] = "open" /\ RoomIsPublic(code)'
    BY DEF SeatsSound
  <1> DEFINE Goal == sock'[s] = "open" /\ RoomIsPublic(code)'
  <1>1. /\ sock \in [Sockets -> {"new", "open", "closed"}]
        /\ seats \in [Sockets -> SUBSET Codes]
        /\ code \in seats[s] => sock[s] = "open" /\ RoomIsPublic(code)'
        /\ \A c \in inflight : c.op \in {"auth", "join"} => c.socket \in Sockets
    BY TablesGrow, Fields DEF ChatInvariant, TypeOK, SeatsSound, RoomIsPublic
  <1>2. ASSUME UNCHANGED <<sock, seats>>
        PROVE  Goal
    BY <1>1, <1>2
  <1>3. ASSUME NEW k \in Calls, NEW t \in Sockets, NEW u \in Tokens, Connect(k, t, u)
        PROVE  Goal
    BY <1>1, <1>3 DEF Connect
  <1>4. ASSUME NEW c \in inflight, AuthRefused(c)
        PROVE  Goal
    <2>1. c.socket \in Sockets
      BY <1>1, <1>4 DEF AuthRefused
    <2> QED
      BY <1>1, <1>4, <2>1 DEF AuthRefused, Close
  <1>5. ASSUME NEW t \in Sockets, Disconnect(t)
        PROVE  Goal
    BY <1>1, <1>5 DEF Disconnect, Close
  <1>6. ASSUME NEW c \in inflight, SeatTaken(c)
        PROVE  Goal
    <2>1. c.socket \in Sockets /\ RoomIsPublic(c.code)' /\ sock' = sock
      BY <1>1, <1>6, TablesGrow DEF SeatTaken, RoomIsPublic
    <2>2. CASE code \in seats[s]
      BY <1>1, <2>1, <2>2
    <2>3. CASE code \notin seats[s]
      BY <1>1, <1>6, <2>1, <2>3 DEF SeatTaken
    <2> QED
      BY <2>2, <2>3
  <1>7. ASSUME ProcessExit
        PROVE  Goal
    BY <1>7 DEF ProcessExit
  <1> HIDE DEF Goal
  <1>8. Next /\ ~UNCHANGED <<sock, seats>> =>
            \/ \E k \in Calls, t \in Sockets, u \in Tokens : Connect(k, t, u)
            \/ \E t \in Sockets : Disconnect(t)
            \/ \E c \in inflight : AuthRefused(c) \/ SeatTaken(c)
            \/ ProcessExit
    BY DEF Next, Answered, Authenticated, CreateRoom, JoinRoom, SendMessage, InviteUser,
        QueryFailed, OwnerFound, CodeFree, CodeTaken, CodesExhausted, RoomCreated,
        RoomAnswered, SeatRefused, MessageStored, MessageSent, InviteRoomFound,
        InviterJoined, GuestFound, GuestNotJoined, GuestInvited, InviteConfirmed,
        connections
  <1>9. UNCHANGED vars => UNCHANGED <<sock, seats>>
    BY DEF vars, connections
  <1>10. Goal
    BY <1>2, <1>3, <1>4, <1>5, <1>6, <1>7, <1>8, <1>9
  <1> QED
    BY <1>10 DEF Goal

\* A message is only shown after its row was written, and rows stay.
LEMMA HeardStep ==
    ASSUME ChatAssumption, ChatInvariant, [Next]_vars
    PROVE  HeardWasStored'
  <1> SUFFICES ASSUME NEW s \in Sockets, NEW id \in heard'[s]
               PROVE  \E m \in messages' : m.id = id /\ m.author \in Verified
    BY DEF HeardWasStored
  <1>1. ASSUME id \in heard[s]
        PROVE  \E m \in messages' : m.id = id /\ m.author \in Verified
    BY <1>1, TablesGrow DEF ChatInvariant, HeardWasStored
  <1>2. ASSUME NEW c \in inflight, MessageSent(c), id \notin heard[s]
        PROVE  \E m \in messages' : m.id = id /\ m.author \in Verified
    <2>1. id = c.message
      BY <1>2 DEF MessageSent
    <2>2. [id |-> c.message, author |-> c.user] \in messages' /\ c.user \in Verified
      BY <1>2, TablesGrow DEF MessageSent, ChatInvariant, RecordsSound, RecordSound
    <2> QED
      BY <2>1, <2>2
  <1>3. Next /\ heard' # heard => ProcessExit \/ \E c \in inflight : MessageSent(c)
    BY DEF Next, Answered, Connect, Disconnect, Authenticated, AuthRefused, CreateRoom,
        JoinRoom, SendMessage, InviteUser, QueryFailed, OwnerFound, CodeFree, CodeTaken,
        CodesExhausted, RoomCreated, RoomAnswered, SeatTaken, SeatRefused, MessageStored,
        InviteRoomFound, InviterJoined, GuestFound, GuestNotJoined, GuestInvited,
        InviteConfirmed, connections
  <1>4. ~ProcessExit
    BY DEF ProcessExit
  <1>5. UNCHANGED vars => heard' = heard
    BY DEF vars, connections
  <1> QED
    BY <1>1, <1>2, <1>3, <1>4, <1>5

-----------------------------------------------------------------------------
(* The theorems.                                                           *)

\* The start satisfies the invariant, whatever an earlier version left.
LEMMA ChatInit ==
    ASSUME ChatAssumption, Init
    PROVE  ChatInvariant
  BY DEF Init, ChatAssumption, ChatInvariant, TypeOK, RecordsSound, UsersVerified,
      AuthSettles, SeatsSound, HeardWasStored, Room

LEMMA ChatStep ==
    ASSUME ChatAssumption, ChatInvariant, [Next]_vars
    PROVE  ChatInvariant'
  <1>1. RecordsSound'
    BY RecordsStep
  <1>2. inflight' \subseteq Waiting
    BY <1>1 DEF RecordsSound, RecordSound
  <1>3. UsersVerified'
    BY TablesStep, ConnectionsStep DEF UsersVerified
  <1>4. TypeOK'
    BY <1>2, TablesStep, ConnectionsStep DEF TypeOK, ChatAssumption
  <1> QED
    BY <1>1, <1>3, <1>4, AuthStep, SeatsStep, HeardStep DEF ChatInvariant

LEMMA ChatInvariantHolds == Spec => []ChatInvariant
  BY ChatAssumption, ChatInit, ChatStep, PTL DEF Spec

\* Every variable keeps its type, room codes stay unique.
THEOREM Typing == Spec => []TypeOK
  <1>1. ChatInvariant => TypeOK
    BY DEF ChatInvariant
  <1> QED
    BY <1>1, ChatInvariantHolds, PTL

\* Every connection that stays belongs to a verified user.
THEOREM Settling == Spec => []AuthSettles
  <1>1. ChatInvariant => AuthSettles
    BY DEF ChatInvariant
  <1> QED
    BY <1>1, ChatInvariantHolds, PTL

\* Only connected sockets sit in rooms, and only in public rooms.
THEOREM Seats == Spec => []SeatsSound
  <1>1. ChatInvariant => SeatsSound
    BY DEF ChatInvariant
  <1> QED
    BY <1>1, ChatInvariantHolds, PTL

\* No message is shown that was not stored, by a verified author.
THEOREM Storing == Spec => []HeardWasStored
  <1>1. ChatInvariant => HeardWasStored
    BY DEF ChatInvariant
  <1> QED
    BY <1>1, ChatInvariantHolds, PTL

-----------------------------------------------------------------------------
(* The requests in a step.                                                 *)

\* The handler that waited as c and waits as d now has a query less to wait for, or the
\* same one, which took effect.
Nearer(c, d) ==
    \/ QueriesLeft(d) < QueriesLeft(c)
    \/ QueriesLeft(d) = QueriesLeft(c) /\ Written(d) /\ ~Written(c)

\* The rank of a handler, by the answer it waits for.
LEMMA Ranks ==
    ASSUME NEW c \in Waiting, Attempts \in Nat \ {0}
    PROVE  /\ c.op = "owner" => QueriesLeft(c) = Attempts + 2
           /\ c.op = "code" => QueriesLeft(c) = Attempts - c.attempt + 2
           /\ c.op \in {"auth", "join", "create", "created", "store", "emit", "row",
                        "invited"} => QueriesLeft(c) = 1
           /\ c.op = "guest" => QueriesLeft(c) = 2
           /\ c.op = "account" => QueriesLeft(c) = 3
           /\ c.op = "inviter" => QueriesLeft(c) = 4
           /\ c.op = "room" => QueriesLeft(c) = 5
  BY Zenon DEF QueriesLeft

\* A record that goes on is the same request, nearer to its end.
LEMMA MovesNearer ==
    ASSUME ChatAssumption, NEW c \in Waiting, NEW op,
           \/ c.op = "code" /\ op = "create"
           \/ c.op = "create" /\ op = "created"
           \/ c.op = "store" /\ op = "emit"
           \/ c.op = "room" /\ op = "inviter"
           \/ c.op = "inviter" /\ op = "account"
           \/ c.op = "account" /\ op = "guest"
           \/ c.op = "guest" /\ op = "row"
           \/ c.op = "row" /\ op = "invited"
    PROVE  /\ [c EXCEPT !.op = op].call = c.call
           /\ Nearer(c, [c EXCEPT !.op = op])
  <1> DEFINE d == [c EXCEPT !.op = op]
  <1>1. d \in Waiting /\ d.op = op /\ d.call = c.call
    BY MovesOn
  <1> HIDE DEF d
  <1>2. Attempts \in Nat \ {0}
    BY DEF ChatAssumption
  <1>3. CASE op \in {"created", "emit", "invited"}
    <2>1. QueriesLeft(d) = 1 /\ QueriesLeft(c) = 1
      BY <1>1, <1>2, <1>3, Ranks
    <2>2. Nearer(c, d)
      BY <1>1, <1>3, <2>1 DEF Nearer, Written
    <2> QED
      BY <1>1, <2>2 DEF d
  <1>4. CASE op \notin {"created", "emit", "invited"}
    <2>1. c.op = "code" => c.attempt \in 1 .. Attempts
      BY Fields
    <2>2. QueriesLeft(d) < QueriesLeft(c)
      BY <1>1, <1>2, <1>4, <2>1, Ranks
    <2>3. Nearer(c, d)
      BY <2>2 DEF Nearer
    <2> QED
      BY <1>1, <2>3 DEF d
  <1> QED
    BY <1>3, <1>4

\* A request that begins waits for a read.
LEMMA Begins ==
    ASSUME NEW k, NEW d, d.call = k, d.op \notin {"created", "invited"}, Idle(k),
           inflight' = inflight \cup {d}
    PROVE  \E e : /\ Idle(e.call) /\ inflight' = inflight \cup {e}
                  /\ e.op \notin {"created", "invited"}
  OBVIOUS

\* A step ends requests, or starts one under a free identity, or brings one of them
\* nearer to its end.  A room or a membership waits to be told only after it was written.
LEMMA InflightStep ==
    ASSUME ChatAssumption, ChatInvariant, [Next]_vars
    PROVE  \/ inflight' \subseteq inflight
           \/ \E d : /\ Idle(d.call) /\ inflight' = inflight \cup {d}
                     /\ d.op \notin {"created", "invited"}
           \/ \E c \in inflight : \E d :
                /\ d.call = c.call /\ Moves(c, d) /\ Nearer(c, d)
                /\ d.op = "created" => RoomCreated(c) /\ d.code = c.code
                /\ d.op = "invited" => /\ GuestInvited(c)
                                       /\ d.guest = c.guest /\ d.code = c.code
  <1> DEFINE Kept == inflight' \subseteq inflight
             Begun == \E d : /\ Idle(d.call) /\ inflight' = inflight \cup {d}
                             /\ d.op \notin {"created", "invited"}
             Goes == \E c \in inflight : \E d :
                       /\ d.call = c.call /\ Moves(c, d) /\ Nearer(c, d)
                       /\ d.op = "created" => RoomCreated(c) /\ d.code = c.code
                       /\ d.op = "invited" => /\ GuestInvited(c)
                                              /\ d.guest = c.guest /\ d.code = c.code
  <1>1. inflight \subseteq Waiting
    BY DEF ChatInvariant, TypeOK
  <1>2. ASSUME NEW k \in Calls, NEW s \in Sockets, NEW u \in Tokens, Connect(k, s, u)
        PROVE  Begun
    <2> DEFINE d == [op |-> "auth", call |-> k, socket |-> s, user |-> u]
    <2>1. d.call = k /\ d.op \notin {"created", "invited"}
      OBVIOUS
    <2> HIDE DEF d
    <2>2. inflight' = inflight \cup {d} /\ Idle(k)
      BY <1>2 DEF Connect, d
    <2> QED
      BY <2>1, <2>2, Begins
  <1>3. ASSUME NEW k \in Calls, NEW u \in Users, NEW kind \in {"public", "private"},
               CreateRoom(k, u, kind)
        PROVE  Begun
    <2> DEFINE d == [op |-> "owner", call |-> k, user |-> u, kind |-> kind]
    <2>1. d.call = k /\ d.op \notin {"created", "invited"}
      OBVIOUS
    <2> HIDE DEF d
    <2>2. inflight' = inflight \cup {d} /\ Idle(k)
      BY <1>3 DEF CreateRoom, d
    <2> QED
      BY <2>1, <2>2, Begins
  <1>4. ASSUME NEW k \in Calls, NEW s \in Sockets, NEW code \in Codes, JoinRoom(k, s, code)
        PROVE  Begun
    <2> DEFINE d == [op |-> "join", call |-> k, socket |-> s, user |-> user[s], code |-> code]
    <2>1. d.call = k /\ d.op \notin {"created", "invited"}
      OBVIOUS
    <2> HIDE DEF d
    <2>2. inflight' = inflight \cup {d} /\ Idle(k)
      BY <1>4 DEF JoinRoom, d
    <2> QED
      BY <2>1, <2>2, Begins
  <1>5. ASSUME NEW k \in Calls, NEW s \in Sockets, NEW m \in MessageIds, NEW code \in Codes,
               SendMessage(k, s, m, code)
        PROVE  Begun
    <2> DEFINE d == [op |-> "store", call |-> k, user |-> user[s], code |-> code,
                     message |-> m]
    <2>1. d.call = k /\ d.op \notin {"created", "invited"}
      OBVIOUS
    <2> HIDE DEF d
    <2>2. inflight' = inflight \cup {d} /\ Idle(k)
      BY <1>5 DEF SendMessage, d
    <2> QED
      BY <2>1, <2>2, Begins
  <1>6. ASSUME NEW k \in Calls, NEW s \in Sockets, NEW g \in Users, NEW code \in Codes,
               InviteUser(k, s, g, code)
        PROVE  Begun
    <2> DEFINE d == [op |-> "room", call |-> k, user |-> user[s], guest |-> g, code |-> code]
    <2>1. d.call = k /\ d.op \notin {"created", "invited"}
      OBVIOUS
    <2> HIDE DEF d
    <2>2. inflight' = inflight \cup {d} /\ Idle(k)
      BY <1>6 DEF InviteUser, d
    <2> QED
      BY <2>1, <2>2, Begins
  <1>7. ASSUME NEW c \in inflight, NEW d, d.call = c.call, Moves(c, d), Nearer(c, d),
               d.op \notin {"created", "invited"}
        PROVE  Goes
    BY <1>7
  <1>8. ASSUME NEW c \in inflight, NEW next \in Codes, CodeTaken(c, next)
        PROVE  Goes
    <2> DEFINE d == [c EXCEPT !.code = next, !.attempt = @ + 1]
    <2>1. c \in [op : {"code", "create", "created"}, call : Calls, user : Users,
                 code : Codes, kind : {"public", "private"}, attempt : 1 .. Attempts]
      BY <1>1, <1>8 DEF CodeTaken, Waiting
    <2>2. Attempts \in Nat \ {0} /\ c.attempt \in 1 .. Attempts /\ c.attempt < Attempts
      BY <1>8, <2>1 DEF CodeTaken, ChatAssumption
    <2>3. c.attempt + 1 \in 1 .. Attempts
      BY <2>2
    <2>4. d.call = c.call /\ d.attempt = c.attempt + 1
      BY <2>1
    <2>5. Moves(c, d) /\ c.op = "code"
      BY <1>8 DEF CodeTaken
    <2>6. d \in Waiting /\ d.op = "code"
      BY <2>1, <2>3, <2>5 DEF Waiting
    <2> HIDE DEF d
    <2>7. /\ QueriesLeft(c) = Attempts - c.attempt + 2
          /\ QueriesLeft(d) = Attempts - d.attempt + 2
      BY <1>1, <2>2, <2>5, <2>6, Ranks
    <2>8. Nearer(c, d)
      BY <2>2, <2>4, <2>7 DEF Nearer
    <2> QED
      BY <1>7, <2>4, <2>5, <2>6, <2>8
  <1>9. ASSUME NEW c \in inflight, NEW code \in Codes, OwnerFound(c, code)
        PROVE  Goes
    <2>1. PICK k \in Calls, u \in Users, kind \in {"public", "private"} :
            /\ k = c.call
            /\ Moves(c, [op |-> "code", call |-> k, user |-> u, code |-> code,
                         kind |-> kind, attempt |-> 1])
      BY <1>1, <1>9, Fields DEF OwnerFound
    <2> DEFINE d == [op |-> "code", call |-> k, user |-> u, code |-> code,
                     kind |-> kind, attempt |-> 1]
    <2>2. Attempts \in Nat \ {0}
      BY DEF ChatAssumption
    <2>3. d \in Waiting /\ d.op = "code" /\ d.call = k /\ d.attempt = 1
      BY <2>2 DEF Waiting
    <2>4. Moves(c, d)
      BY <2>1
    <2> HIDE DEF d
    <2>5. QueriesLeft(c) = Attempts + 2 /\ QueriesLeft(d) = Attempts - d.attempt + 2
      BY <1>1, <1>9, <2>2, <2>3, Ranks DEF OwnerFound
    <2>6. Nearer(c, d)
      BY <2>2, <2>3, <2>5 DEF Nearer
    <2> QED
      BY <1>7, <2>1, <2>3, <2>4, <2>6
  <1>10. ASSUME NEW c \in inflight,
                \/ CodeFree(c) \/ MessageStored(c) \/ InviteRoomFound(c)
                \/ InviterJoined(c) \/ GuestFound(c) \/ GuestNotJoined(c)
         PROVE  Goes
    <2>1. ASSUME NEW op, Moves(c, [c EXCEPT !.op = op]),
                 \/ c.op = "code" /\ op = "create"
                 \/ c.op = "store" /\ op = "emit"
                 \/ c.op = "room" /\ op = "inviter"
                 \/ c.op = "inviter" /\ op = "account"
                 \/ c.op = "account" /\ op = "guest"
                 \/ c.op = "guest" /\ op = "row"
          PROVE  Goes
      <3> DEFINE d == [c EXCEPT !.op = op]
      <3>1. d.call = c.call /\ Nearer(c, d) /\ d.op = op
        BY <1>1, <2>1, MovesNearer, MovesOn
      <3>2. Moves(c, d)
        BY <2>1
      <3> HIDE DEF d
      <3> QED
        BY <1>7, <2>1, <3>1, <3>2
    <2> HIDE DEF Goes
    <2>2. CASE CodeFree(c)
      BY <2>1, <2>2 DEF CodeFree
    <2>3. CASE MessageStored(c)
      BY <2>1, <2>3 DEF MessageStored
    <2>4. CASE InviteRoomFound(c)
      BY <2>1, <2>4 DEF InviteRoomFound
    <2>5. CASE InviterJoined(c)
      BY <2>1, <2>5 DEF InviterJoined
    <2>6. CASE GuestFound(c)
      BY <2>1, <2>6 DEF GuestFound
    <2>7. CASE GuestNotJoined(c)
      BY <2>1, <2>7 DEF GuestNotJoined
    <2> QED
      BY <1>10, <2>2, <2>3, <2>4, <2>5, <2>6, <2>7
  <1>11. ASSUME NEW c \in inflight, RoomCreated(c)
         PROVE  Goes
    <2> DEFINE d == [c EXCEPT !.op = "created"]
    <2>1. /\ d.call = c.call /\ Nearer(c, d)
          /\ d.op = "created" /\ d.code = c.code
      BY <1>1, <1>11, MovesNearer, MovesOn DEF RoomCreated
    <2>2. Moves(c, d)
      BY <1>11 DEF RoomCreated
    <2> HIDE DEF d
    <2> QED
      BY <1>11, <2>1, <2>2
  <1>12. ASSUME NEW c \in inflight, GuestInvited(c)
         PROVE  Goes
    <2> DEFINE d == [c EXCEPT !.op = "invited"]
    <2>1. /\ d.call = c.call /\ Nearer(c, d)
          /\ d.op = "invited" /\ d.guest = c.guest /\ d.code = c.code
      BY <1>1, <1>12, MovesNearer, MovesOn DEF GuestInvited
    <2>2. Moves(c, d)
      BY <1>12 DEF GuestInvited
    <2> HIDE DEF d
    <2> QED
      BY <1>12, <2>1, <2>2
  <1>13. ASSUME NEW c \in inflight,
                \/ Authenticated(c) \/ AuthRefused(c) \/ CodesExhausted(c)
                \/ RoomAnswered(c) \/ SeatTaken(c) \/ SeatRefused(c)
                \/ MessageSent(c) \/ InviteConfirmed(c) \/ QueryFailed(c)
         PROVE  Kept
    BY <1>13 DEF Authenticated, AuthRefused, CodesExhausted, RoomAnswered, SeatTaken,
        SeatRefused, MessageSent, InviteConfirmed, QueryFailed, Ends
  <1>14. ASSUME (\E s \in Sockets : Disconnect(s)) \/ ProcessExit \/ UNCHANGED vars
         PROVE  Kept
    BY <1>14 DEF Disconnect, ProcessExit, vars
  <1> HIDE DEF Kept, Begun, Goes
  <1>15. Kept \/ Begun \/ Goes
    BY <1>2, <1>3, <1>4, <1>5, <1>6, <1>8, <1>9, <1>10, <1>11, <1>12, <1>13, <1>14
       DEF Next, Answered
  <1> QED
    BY <1>15 DEF Kept, Begun, Goes

-----------------------------------------------------------------------------
(* ChatRooms implements RoomDirectory.                                     *)

\* No two requests are to be told the same room or the same membership, so that telling
\* one of them leaves the others where they were.
AnswersDistinct ==
    /\ \A c, d \in inflight :
          c.op = "created" /\ d.op = "created" /\ c.code = d.code => c = d
    /\ \A c, d \in inflight :
          c.op = "invited" /\ d.op = "invited" /\ c.guest = d.guest /\ c.code = d.code =>
              c = d

\* What was written is in the tables, where the unique columns refuse another one.
LEMMA AnswersStayDistinct ==
    ASSUME ChatAssumption, ChatInvariant, AnswersDistinct, [Next]_vars
    PROVE  AnswersDistinct'
  <1>1. CASE inflight' \subseteq inflight
    BY <1>1 DEF AnswersDistinct
  <1>2. ASSUME NEW d, inflight' = inflight \cup {d}, d.op \notin {"created", "invited"}
        PROVE  AnswersDistinct'
    BY <1>2 DEF AnswersDistinct
  <1>3. ASSUME NEW c \in inflight, NEW d, Moves(c, d),
               d.op = "created" => RoomCreated(c) /\ d.code = c.code,
               d.op = "invited" => GuestInvited(c) /\ d.guest = c.guest /\ d.code = c.code
        PROVE  AnswersDistinct'
    <2>1. inflight' = (inflight \ {c}) \cup {d}
      BY <1>3 DEF Moves
    <2>2. \A e \in inflight : e.op = "created" /\ d.op = "created" => e.code # d.code
      BY <1>3 DEF RoomCreated, ChatInvariant, RecordsSound, RecordSound
    <2>3. \A e \in inflight :
            e.op = "invited" /\ d.op = "invited" => e.guest # d.guest \/ e.code # d.code
      BY <1>3 DEF GuestInvited, ChatInvariant, RecordsSound, RecordSound
    <2> QED
      BY <2>1, <2>2, <2>3 DEF AnswersDistinct
  <1> QED
    BY <1>1, <1>2, <1>3, InflightStep

LEMMA DirectoryInvariant == Spec => [](ChatInvariant /\ AnswersDistinct)
  <1>1. Init => AnswersDistinct
    BY DEF Init, AnswersDistinct
  <1> QED
    BY <1>1, ChatAssumption, ChatInvariantHolds, AnswersStayDistinct, PTL DEF Spec

LEMMA DirectoryStep ==
    ASSUME ChatAssumption, ChatInvariant, AnswersDistinct, [Next]_vars
    PROVE  [Directory!Next]_<<rooms, members, created, invites, Untold, Unconfirmed>>
  <1> DEFINE Told(c) == [user |-> c.user, code |-> c.code]
             Admission(c) == [inviter |-> c.user, guest |-> c.guest, code |-> c.code]
  <1>1. /\ Untold = {Told(c) : c \in {d \in inflight : d.op = "created"}}
        /\ Unconfirmed = {Admission(c) : c \in {d \in inflight : d.op = "invited"}}
        /\ Untold' = {Told(c) : c \in {d \in inflight' : d.op = "created"}}
        /\ Unconfirmed' = {Admission(c) : c \in {d \in inflight' : d.op = "invited"}}
    BY DEF Untold, Unconfirmed
  <1>2. \A c \in inflight : c \in Waiting /\ RecordSound(c)
    BY DEF ChatInvariant, RecordsSound, RecordSound
  <1>3. ASSUME NEW c \in inflight, RoomCreated(c)
        PROVE  Directory!Next
    <2>1. c.user \in Users /\ c.code \in Codes /\ c.kind \in {"public", "private"}
      BY <1>2, <1>3, Fields DEF RoomCreated
    <2> DEFINE d == [c EXCEPT !.op = "created"]
    <2>2. d.op = "created" /\ d.user = c.user /\ d.code = c.code /\ c.op = "create"
      BY <1>2, <1>3, MovesOn DEF RoomCreated
    <2>3. inflight' = (inflight \ {c}) \cup {d}
      BY <1>3 DEF RoomCreated, Moves
    <2> HIDE DEF d
    <2>4. {e \in inflight' : e.op = "created"} = {e \in inflight : e.op = "created"} \cup {d}
      BY <2>2, <2>3
    <2>5. {e \in inflight' : e.op = "invited"} = {e \in inflight : e.op = "invited"}
      BY <2>2, <2>3
    <2>6. Untold' = Untold \cup {[user |-> c.user, code |-> c.code]}
      BY <1>1, <2>2, <2>4
    <2>7. Unconfirmed' = Unconfirmed
      BY <1>1, <2>5
    <2>8. Directory!Create(c.user, c.code, c.kind)
      BY <1>3, <2>6, <2>7 DEF RoomCreated, RoomExists, Directory!Create, Directory!Taken
    <2> QED
      BY <2>1, <2>8 DEF Directory!Next
  <1>4. ASSUME NEW c \in inflight, RoomAnswered(c)
        PROVE  Directory!Next
    <2>1. c.op = "created" /\ inflight' = inflight \ {c}
      BY <1>4 DEF RoomAnswered, Ends
    <2>2. {e \in inflight' : e.op = "created"} = {e \in inflight : e.op = "created"} \ {c}
      BY <2>1
    <2>3. {e \in inflight' : e.op = "invited"} = {e \in inflight : e.op = "invited"}
      BY <2>1
    <2>4. \A e \in inflight : e.op = "created" /\ Told(e) = Told(c) => e = c
      BY <2>1 DEF AnswersDistinct
    <2>5. Told(c) \in Untold
      BY <1>1, <2>1
    <2>6. Untold' = Untold \ {Told(c)}
      BY <1>1, <2>2, <2>4
    <2>7. Unconfirmed' = Unconfirmed
      BY <1>1, <2>3
    <2>8. Directory!Tell(Told(c))
      BY <1>4, <2>6, <2>7 DEF RoomAnswered, Directory!Tell
    <2> QED
      BY <2>5, <2>8 DEF Directory!Next
  <1>5. ASSUME NEW c \in inflight, GuestInvited(c)
        PROVE  Directory!Next
    <2>1. c.user \in Users /\ c.guest \in Users /\ c.code \in Codes
      BY <1>2, <1>5, Fields DEF GuestInvited, RecordSound
    <2>2. RoomExists(c.code) /\ <<c.user, c.code>> \in members
      BY <1>2, <1>5 DEF GuestInvited, RecordSound
    <2> DEFINE d == [c EXCEPT !.op = "invited"]
    <2>3. /\ d.op = "invited" /\ d.user = c.user /\ d.guest = c.guest /\ d.code = c.code
          /\ c.op = "row"
      BY <1>2, <1>5, MovesOn DEF GuestInvited
    <2>4. inflight' = (inflight \ {c}) \cup {d}
      BY <1>5 DEF GuestInvited, Moves
    <2> HIDE DEF d
    <2>5. {e \in inflight' : e.op = "invited"} = {e \in inflight : e.op = "invited"} \cup {d}
      BY <2>3, <2>4
    <2>6. {e \in inflight' : e.op = "created"} = {e \in inflight : e.op = "created"}
      BY <2>3, <2>4
    <2>7. Unconfirmed' =
            Unconfirmed \cup {[inviter |-> c.user, guest |-> c.guest, code |-> c.code]}
      BY <1>1, <2>3, <2>5
    <2>8. Untold' = Untold
      BY <1>1, <2>6
    <2>9. Directory!Invite(c.user, c.guest, c.code)
      BY <1>5, <2>2, <2>7, <2>8
         DEF GuestInvited, RoomExists, Directory!Invite, Directory!Taken
    <2> QED
      BY <2>1, <2>9 DEF Directory!Next
  <1>6. ASSUME NEW c \in inflight, InviteConfirmed(c)
        PROVE  Directory!Next
    <2>1. c.op = "invited" /\ inflight' = inflight \ {c}
      BY <1>6 DEF InviteConfirmed, Ends
    <2>2. {e \in inflight' : e.op = "invited"} = {e \in inflight : e.op = "invited"} \ {c}
      BY <2>1
    <2>3. {e \in inflight' : e.op = "created"} = {e \in inflight : e.op = "created"}
      BY <2>1
    <2>4. \A e \in inflight : e.op = "invited" /\ Admission(e) = Admission(c) => e = c
      BY <2>1 DEF AnswersDistinct
    <2>5. Admission(c) \in Unconfirmed
      BY <1>1, <2>1
    <2>6. Unconfirmed' = Unconfirmed \ {Admission(c)}
      BY <1>1, <2>2, <2>4
    <2>7. Untold' = Untold
      BY <1>1, <2>3
    <2>8. Directory!Confirm(Admission(c))
      BY <1>6, <2>6, <2>7 DEF InviteConfirmed, Directory!Confirm
    <2> QED
      BY <2>5, <2>8 DEF Directory!Next
  <1>7. ASSUME ~(\E c \in inflight : RoomCreated(c)),
               ~(\E c \in inflight : RoomAnswered(c)),
               ~(\E c \in inflight : GuestInvited(c)),
               ~(\E c \in inflight : InviteConfirmed(c))
        PROVE  Directory!Next
    <2>1. UNCHANGED <<rooms, members, created, invites>>
      BY <1>7 DEF Next, vars, tables, Answered, Connect, Disconnect, CreateRoom, JoinRoom,
          SendMessage, InviteUser, QueryFailed, ProcessExit, Authenticated, AuthRefused,
          OwnerFound, CodeFree, CodeTaken, CodesExhausted, SeatTaken, SeatRefused,
          MessageStored, MessageSent, InviteRoomFound, InviterJoined, GuestFound,
          GuestNotJoined
    <2>2. \A d \in inflight' : d.op \in {"created", "invited"} => d \in inflight
      <3>1. ASSUME NEW c \in inflight, NEW d, Moves(c, d), d.op \notin {"created", "invited"}
            PROVE  \A e \in inflight' : e.op \in {"created", "invited"} => e \in inflight
        BY <3>1 DEF Moves
      <3> QED
        BY <1>7, <3>1, InflightStep
    <2>3. Untold' \subseteq Untold
      BY <1>1, <2>2
    <2>4. Unconfirmed' \subseteq Unconfirmed
      BY <1>1, <2>2
    <2> QED
      BY <2>1, <2>3, <2>4 DEF Directory!Next, Directory!Lose
  <1> QED
    BY <1>3, <1>4, <1>5, <1>6, <1>7

\* createRoom and invitePrivateRoom, with their reads and later writes, come out as
\* single steps of RoomDirectory, however their queries interleave: the row appears
\* under a free code or by a member's invitation, and its answer follows or is lost.
THEOREM DirectoryRefined == Spec => ImplementsDirectory
  <1>1. Init => Directory!Init
    BY DEF Init, Directory!Init, Untold, Unconfirmed
  <1>2. ChatInvariant /\ AnswersDistinct /\ [Next]_vars =>
            [Directory!Next]_<<rooms, members, created, invites, Untold, Unconfirmed>>
    BY ChatAssumption, DirectoryStep
  <1> QED
    BY <1>1, <1>2, DirectoryInvariant, PTL
       DEF Spec, ImplementsDirectory, Directory!Spec, Directory!directoryVars

\* What the directory promises follows from its own steps.
LegacyStays == LegacyMembers \subseteq members

LEMMA DirectoryInit ==
    ASSUME Directory!Init
    PROVE  CreatorOwns /\ GuestInvitedOnce /\ MembersInherited /\ LegacyStays
  BY DEF Directory!Init, CreatorOwns, GuestInvitedOnce, MembersInherited, LegacyStays,
      Directory!OneOwner, Directory!OneInviter, Directory!MembersInherited

LEMMA OwnerStays ==
    ASSUME CreatorOwns,
           [Directory!Next]_<<rooms, members, created, invites, Untold, Unconfirmed>>
    PROVE  CreatorOwns'
  <1> DEFINE Owns(a) == /\ \E r \in rooms : r.code = a.code
                        /\ \A r \in rooms : r.code = a.code => r.owner = a.user
  <1>1. CreatorOwns <=> \A a \in created \cup Untold : Owns(a)
    BY DEF CreatorOwns, Directory!OneOwner
  <1>2. CreatorOwns' <=> \A a \in created' \cup Untold' : Owns(a)'
    BY DEF CreatorOwns, Directory!OneOwner
  <1>3. ASSUME rooms' = rooms, created' \cup Untold' \subseteq created \cup Untold
        PROVE  CreatorOwns'
    BY <1>1, <1>2, <1>3
  <1>4. ASSUME NEW u \in Users, NEW code \in Codes, NEW kind \in {"public", "private"},
               Directory!Create(u, code, kind)
        PROVE  CreatorOwns'
    <2> DEFINE new == [code |-> code, owner |-> u, kind |-> kind]
               answer == [user |-> u, code |-> code]
    <2>1. /\ rooms' = rooms \cup {new} /\ new.code = code /\ new.owner = u
          /\ \A r \in rooms : r.code # code
          /\ created' \cup Untold' = (created \cup Untold) \cup {answer}
          /\ answer.code = code /\ answer.user = u
      BY <1>4 DEF Directory!Create, Directory!Taken
    <2> HIDE DEF new, answer
    <2>2. \A a \in created \cup Untold : Owns(a)'
      BY <1>1, <2>1
    <2>3. Owns(answer)'
      BY <2>1
    <2> QED
      BY <1>2, <2>1, <2>2, <2>3
  <1>5. CASE \E a \in Untold : Directory!Tell(a)
    BY <1>3, <1>5 DEF Directory!Tell
  <1>6. CASE \E u, g \in Users, code \in Codes : Directory!Invite(u, g, code)
    BY <1>3, <1>6 DEF Directory!Invite
  <1>7. CASE (\E i \in Unconfirmed : Directory!Confirm(i)) \/ Directory!Lose
    BY <1>3, <1>7 DEF Directory!Confirm, Directory!Lose
  <1> QED
    BY <1>3, <1>4, <1>5, <1>6, <1>7 DEF Directory!Next

LEMMA InviterStays ==
    ASSUME GuestInvitedOnce, LegacyStays,
           [Directory!Next]_<<rooms, members, created, invites, Untold, Unconfirmed>>
    PROVE  GuestInvitedOnce' /\ LegacyStays'
  <1> USE DEF GuestInvitedOnce, LegacyStays, Directory!OneInviter
  <1>1. ASSUME members' = members,
               invites' \cup Unconfirmed' \subseteq invites \cup Unconfirmed
        PROVE  GuestInvitedOnce' /\ LegacyStays'
    BY <1>1
  <1>2. CASE \E u \in Users, code \in Codes, kind \in {"public", "private"} :
               Directory!Create(u, code, kind)
    BY <1>1, <1>2 DEF Directory!Create
  <1>3. CASE \E a \in Untold : Directory!Tell(a)
    BY <1>1, <1>3 DEF Directory!Tell
  <1>4. ASSUME NEW u \in Users, NEW g \in Users, NEW code \in Codes,
               Directory!Invite(u, g, code)
        PROVE  GuestInvitedOnce' /\ LegacyStays'
    <2> DEFINE i == [inviter |-> u, guest |-> g, code |-> code]
    <2>1. /\ invites' \cup Unconfirmed' = (invites \cup Unconfirmed) \cup {i}
          /\ i.guest = g /\ i.code = code
          /\ members' = members \cup {<<g, code>>} /\ <<g, code>> \notin members
      BY <1>4 DEF Directory!Invite
    <2> HIDE DEF i
    <2> QED
      BY <2>1
  <1>5. CASE \E i \in Unconfirmed : Directory!Confirm(i)
    BY <1>1, <1>5 DEF Directory!Confirm
  <1>6. CASE Directory!Lose
    BY <1>1, <1>6 DEF Directory!Lose
  <1> QED
    BY <1>1, <1>2, <1>3, <1>4, <1>5, <1>6 DEF Directory!Next

LEMMA MembersStay ==
    ASSUME MembersInherited,
           [Directory!Next]_<<rooms, members, created, invites, Untold, Unconfirmed>>
    PROVE  MembersInherited'
  <1> USE DEF MembersInherited, Directory!MembersInherited
  <1>1. ASSUME NEW u \in Users, NEW g \in Users, NEW code \in Codes,
               Directory!Invite(u, g, code)
        PROVE  MembersInherited'
    <2>1. PICK l \in LegacyMembers : l[2] = code
      BY <1>1 DEF Directory!Invite
    <2>2. \A m \in members' : m \in members \/ m[2] = code
      BY <1>1 DEF Directory!Invite
    <2> QED
      BY <2>1, <2>2
  <1>2. Directory!Next => \/ \E u, g \in Users, code \in Codes : Directory!Invite(u, g, code)
                          \/ members' = members
    BY DEF Directory!Next, Directory!Create, Directory!Tell, Directory!Confirm,
        Directory!Lose
  <1> QED
    BY <1>1, <1>2

\* Whoever was told a code, or is about to be, owns the only room that has it.
THEOREM Ownership == Spec => []CreatorOwns
  <1>1. Spec => /\ Directory!Init
                /\ [][Directory!Next]_<<rooms, members, created, invites, Untold,
                                        Unconfirmed>>
    BY DirectoryRefined DEF ImplementsDirectory, Directory!Spec, Directory!directoryVars
  <1> QED
    BY <1>1, DirectoryInit, OwnerStays, PTL

\* A guest is invited to a room by one member, once.
THEOREM Invitations == Spec => []GuestInvitedOnce
  <1>1. Spec => /\ Directory!Init
                /\ [][Directory!Next]_<<rooms, members, created, invites, Untold,
                                        Unconfirmed>>
    BY DirectoryRefined DEF ImplementsDirectory, Directory!Spec, Directory!directoryVars
  <1> QED
    BY <1>1, DirectoryInit, InviterStays, PTL

\* A room nobody was a member of at the start stays without members.
THEOREM Memberships == Spec => []MembersInherited
  <1>1. Spec => /\ Directory!Init
                /\ [][Directory!Next]_<<rooms, members, created, invites, Untold,
                                        Unconfirmed>>
    BY DirectoryRefined DEF ImplementsDirectory, Directory!Spec, Directory!directoryVars
  <1> QED
    BY <1>1, DirectoryInit, MembersStay, PTL

-----------------------------------------------------------------------------
(* Requests come to their end.                                             *)

\* One request runs under an identity.
CallsUnique == \A c, d \in inflight : c.call = d.call => c = d

\* Requests are identified by the call they run under.
LEMMA CallsStayUnique ==
    ASSUME ChatAssumption, ChatInvariant, CallsUnique, [Next]_vars
    PROVE  CallsUnique'
  <1>1. CASE inflight' \subseteq inflight
    BY <1>1 DEF CallsUnique
  <1>2. ASSUME NEW d, Idle(d.call), inflight' = inflight \cup {d}
        PROVE  CallsUnique'
    BY <1>2 DEF CallsUnique, Idle
  <1>3. ASSUME NEW c \in inflight, NEW d, d.call = c.call, Moves(c, d)
        PROVE  CallsUnique'
    BY <1>3 DEF CallsUnique, Moves
  <1> QED
    BY <1>1, <1>2, <1>3, InflightStep

LEMMA AdvanceStep ==
    ASSUME ChatAssumption, ChatInvariant, CallsUnique, [Next]_vars,
           NEW c \in inflight, NEW d \in inflight', c.call = d.call
    PROVE  c = d \/ Nearer(c, d)
  <1>1. CASE inflight' \subseteq inflight
    BY <1>1 DEF CallsUnique
  <1>2. ASSUME NEW e, Idle(e.call), inflight' = inflight \cup {e}
        PROVE  c = d
    BY <1>2 DEF CallsUnique, Idle
  <1>3. ASSUME NEW b \in inflight, NEW e, e.call = b.call, Moves(b, e), Nearer(b, e)
        PROVE  c = d \/ Nearer(c, d)
    <2>1. CASE d = e
      <3>1. c = b
        BY <1>3, <2>1 DEF CallsUnique
      <3> QED
        BY <1>3, <2>1, <3>1
    <2>2. CASE d # e
      BY <1>3, <2>2 DEF CallsUnique, Moves
    <2> QED
      BY <2>1, <2>2
  <1> QED
    BY <1>1, <1>2, <1>3, InflightStep

LEMMA RequestInvariant == Spec => [](ChatInvariant /\ CallsUnique)
  <1>1. Init => CallsUnique
    BY DEF Init, CallsUnique
  <1> QED
    BY <1>1, ChatAssumption, ChatInvariantHolds, CallsStayUnique, PTL DEF Spec

\* Every answer brings a request nearer to its end, also an answer that the code of a
\* new room is taken: no request goes on for ever by itself, whatever Attempts is.
THEOREM Advancing == Spec => RequestsAdvance
  <1>1. ChatInvariant /\ CallsUnique /\ [Next]_vars =>
            [\A c \in inflight, d \in inflight' :
                c.call = d.call =>
                    \/ c = d
                    \/ QueriesLeft(d) < QueriesLeft(c)
                    \/ QueriesLeft(d) = QueriesLeft(c) /\ Written(d) /\ ~Written(c)]_vars
    BY ChatAssumption, AdvanceStep DEF Nearer
  <1> QED
    BY <1>1, RequestInvariant, PTL DEF Spec, RequestsAdvance

\* createRoom waits for Attempts + 2 queries at the most, an invitation for five, every
\* other request for fewer.
THEOREM Bounded == Spec => []QueriesBounded
  <1>1. ASSUME ChatInvariant, NEW c \in inflight
        PROVE  QueriesLeft(c) \in
                 1 .. IF c.op \in {"owner", "code", "create", "created"}
                      THEN Attempts + 2 ELSE 5
    <2>1. c \in Waiting
      BY <1>1 DEF ChatInvariant, TypeOK
    <2>2. Attempts \in Nat \ {0}
      BY ChatAssumption DEF ChatAssumption
    <2>3. c.op = "code" => c.attempt \in 1 .. Attempts
      BY <2>1, Fields
    <2>4. c.op \in {"auth", "owner", "code", "create", "created", "join", "store", "emit",
                    "room", "inviter", "account", "guest", "row", "invited"}
      BY <2>1 DEF Waiting
    <2>5. CASE c.op \in {"owner", "code", "create", "created"}
      <3>1. QueriesLeft(c) \in 1 .. Attempts + 2
        BY <2>1, <2>2, <2>3, <2>5, Ranks
      <3> QED
        BY <2>5, <3>1
    <2>6. CASE c.op \notin {"owner", "code", "create", "created"}
      <3>1. QueriesLeft(c) \in 1 .. 5
        BY <2>1, <2>2, <2>4, <2>6, Ranks
      <3> QED
        BY <2>6, <3>1
    <2> QED
      BY <2>5, <2>6
  <1>2. ChatInvariant => QueriesBounded
    BY <1>1 DEF QueriesBounded
  <1> QED
    BY <1>2, ChatInvariantHolds, PTL

\* What an earlier version left stays in the table of rooms.
LEMMA LegacyRoomsStay == Spec => [](LegacyRooms \subseteq rooms)
  <1>1. Init => LegacyRooms \subseteq rooms
    BY DEF Init
  <1>2. LegacyRooms \subseteq rooms /\ [Next]_vars => (LegacyRooms \subseteq rooms)'
    BY TablesGrow
  <1> QED
    BY <1>1, <1>2, PTL DEF Spec

\* A member, and so whoever was invited, is refused a room only when an earlier version
\* left it, private: InvitationAdmits fails in no other way than the run shows.
THEOREM Refusals == Spec => OnlyPrivateRefuses
  <1> DEFINE Known == ChatInvariant /\ MembersInherited /\ LegacyRooms \subseteq rooms
  <1>1. Known => \A c \in inflight :
            c.op = "join" /\ <<c.user, c.code>> \in members /\ SeatRefused(c) =>
                \E r \in LegacyRooms : r.code = c.code /\ r.kind = "private"
    <2> SUFFICES ASSUME Known, NEW c \in inflight,
                        <<c.user, c.code>> \in members, SeatRefused(c)
                 PROVE  \E r \in LegacyRooms : r.code = c.code /\ r.kind = "private"
      OBVIOUS
    <2>1. PICK l \in LegacyMembers : l[2] = <<c.user, c.code>>[2]
      BY DEF MembersInherited, Directory!MembersInherited
    <2>2. PICK r \in LegacyRooms : r.code = c.code
      BY <2>1, ChatAssumption DEF ChatAssumption
    <2>3. r \in Room /\ r \in rooms
      BY DEF ChatInvariant, TypeOK
    <2>4. r.kind \in {"public", "private"} /\ r.kind # "public"
      BY <2>2, <2>3 DEF Room, SeatRefused, RoomIsPublic
    <2> QED
      BY <2>2, <2>4
  <1>2. Known /\ [Next]_vars =>
            [\A c \in inflight :
                c.op = "join" /\ <<c.user, c.code>> \in members /\ SeatRefused(c) =>
                    \E r \in LegacyRooms : r.code = c.code /\ r.kind = "private"]_vars
    BY <1>1
  <1> QED
    BY <1>2, ChatInvariantHolds, Memberships, LegacyRoomsStay, PTL
       DEF Spec, OnlyPrivateRefuses
=============================================================================
