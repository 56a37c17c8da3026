------------------------------- MODULE ChatRooms -------------------------------
(***************************************************************************)
(* The chat: ChatGateway (namespace /chat), ChatController, ChatService,   *)
(* ChatManager and ChatRepository, on the tables room, join_room and       *)
(* messages.  A handler is one step up to its next query and from the      *)
(* answer to the following one; the database runs each query atomically    *)
(* and enforces the unique columns of prisma/schema.prisma.                *)
(*                                                                         *)
(* Accounts do not change here: which users exist, which are verified and  *)
(* whose token a socket presents are inputs.  Joining writes no membership *)
(* (the call is commented out), but the join_room table is not empty where *)
(* an earlier version ran: LegacyMembers.                                  *)
(***************************************************************************)
EXTENDS Naturals, FiniteSets

CONSTANTS
    Sockets,        \* connections of the namespace
    Users,
    Verified,       \* users whose e-mail is verified
    NoUser,         \* client.data.user is undefined; a token of nobody
    Tokens,         \* whose token connections present
    Codes,          \* room codes generateRoomCode may return
    MessageIds,     \* rows of the messages table (bound)
    Calls,          \* identities of handlers that wait
    Attempts,       \* tries of generateUniqueRoomCode: 10 in the code
    LegacyRooms, LegacyMembers   \* the tables at the start

Room == [code : Codes, owner : Users, kind : {"public", "private"}]

ASSUME ChatAssumption ==
    /\ Verified \subseteq Users
    /\ NoUser \notin Users
    /\ Tokens \subseteq Users \cup {NoUser}
    /\ Attempts \in Nat \ {0}
    /\ LegacyRooms \subseteq Room
    /\ \A r, s \in LegacyRooms : r.code = s.code => r = s
    /\ LegacyMembers \subseteq Users \X {r.code : r \in LegacyRooms}

VARIABLES
    rooms,      \* table room
    members,    \* table join_room: <<user, code>>
    messages,   \* table messages: id and author
    created,    \* history: codes createRoom answered, and to whom
    invites,    \* history: invitations inviteUser confirmed
    sock,       \* state of each connection
    user,       \* client.data.user
    seats,      \* socket.io rooms of the socket
    heard,      \* history: messages the connection received
    inflight    \* handlers waiting for an answer

tables == <<rooms, members, messages, created, invites>>
connections == <<sock, user, seats, heard>>
vars == <<tables, connections, inflight>>

\* What is left of a handler, by the query it waits for: the token and the user (auth);
\* the user (owner), findUnique of a new code (code) and room.create (create) of
\* createRoom; findUnique (join); messages.create (store); the five of an invitation, by
\* what they look up or write.  A write takes effect before its answer is there
\* (created, emit, invited).
Waiting ==
    [op : {"auth"}, call : Calls, socket : Sockets, user : Users \cup {NoUser}]
    \cup [op : {"owner"}, call : Calls, user : Users, kind : {"public", "private"}]
    \cup [op : {"code", "create", "created"}, call : Calls, user : Users, code : Codes,
          kind : {"public", "private"}, attempt : 1 .. Attempts]
    \cup [op : {"join"}, call : Calls, socket : Sockets, user : Users \cup {NoUser},
          code : Codes]
    \cup [op : {"store", "emit"}, call : Calls, user : Users, code : Codes,
          message : MessageIds]
    \cup [op : {"room", "inviter", "account", "guest", "row", "invited"}, call : Calls,
          user : Users \cup {NoUser}, guest : Users, code : Codes]

\* Rooms and memberships that are written, the answer still to come.
Untold == {[user |-> c.user, code |-> c.code] : c \in {d \in inflight : d.op = "created"}}

Unconfirmed == {[inviter |-> c.user, guest |-> c.guest, code |-> c.code] :
                   c \in {d \in inflight : d.op = "invited"}}

Directory == INSTANCE RoomDirectory WITH untold <- Untold, unconfirmed <- Unconfirmed

-----------------------------------------------------------------------------
(* Helpers.                                                                *)

Idle(k) == \A c \in inflight : c.call # k

\* findRoomByCode(code) answers a row.
RoomExists(code) == \E r \in rooms : r.code = code

RoomIsPublic(code) == \E r \in rooms : r.code = code /\ r.kind = "public"

\* The handler that waited as c waits as d from now on.
Moves(c, d) == inflight' = (inflight \ {c}) \cup {d}

Ends(c) == inflight' = inflight \ {c}

UsedMessages == {m.id : m \in messages} \cup
                {c.message : c \in {d \in inflight : d.op \in {"store", "emit"}}}

-----------------------------------------------------------------------------
Init ==
    /\ rooms = LegacyRooms
    /\ members = LegacyMembers
    /\ messages = {} /\ created = {} /\ invites = {}
    /\ sock = [s \in Sockets |-> "new"]
    /\ user = [s \in Sockets |-> NoUser]
    /\ seats = [s \in Sockets |-> {}]
    /\ heard = [s \in Sockets |-> {}]
    /\ inflight = {}

\* The process ends and starts again; the tables stay.
ProcessExit ==
    /\ sock' = [s \in Sockets |-> "new"]
    /\ user' = [s \in Sockets |-> NoUser]
    /\ seats' = [s \in Sockets |-> {}]
    /\ heard' = [s \in Sockets |-> {}]
    /\ inflight' = {}
    /\ UNCHANGED <<tables>>

-----------------------------------------------------------------------------
(* Connections.                                                            *)

\* A connection with the token of u; events may arrive before it was looked at.
\* (A connection without token is closed at once.)
Connect(k, s, u) ==
    /\ sock[s] = "new" /\ Idle(k)
    /\ sock' = [sock EXCEPT ![s] = "open"]
    /\ inflight' = inflight \cup {[op |-> "auth", call |-> k, socket |-> s, user |-> u]}
    /\ UNCHANGED <<tables, user, seats, heard>>

Close(s) ==
    /\ sock' = [sock EXCEPT ![s] = "closed"]
    /\ seats' = [seats EXCEPT ![s] = {}]

Disconnect(s) ==
    /\ sock[s] = "open"
    /\ Close(s)
    /\ UNCHANGED <<tables, user, heard, inflight>>

\* The user is read and verified.  The socket may be gone.
Authenticated(c) ==
    /\ c.op = "auth" /\ c.user \in Verified
    /\ user' = [user EXCEPT ![c.socket] = c.user]
    /\ Ends(c)
    /\ UNCHANGED <<tables, sock, seats, heard>>

\* Faulty variant: the error is emitted and the socket stays.
AuthRefusedOpen(c) ==
    /\ c.op = "auth"
    /\ Ends(c)
    /\ UNCHANGED <<tables, connections>>

\* The token is nobody's, the user is not verified, or the lookup failed.
AuthRefused(c) ==
    /\ c.op = "auth"
    /\ Close(c.socket)
    /\ Ends(c)
    /\ UNCHANGED <<tables, user, heard>>

-----------------------------------------------------------------------------
(* POST /room: createRoom, behind the guards that ask for a verified user. *)

CreateRoom(k, u, kind) ==
    /\ u \in Verified /\ Idle(k)
    /\ inflight' = inflight \cup {[op |-> "owner", call |-> k, user |-> u, kind |-> kind]}
    /\ UNCHANGED <<tables, connections>>

\* getUserByIdOrThrow.  The first code is drawn.
OwnerFound(c, code) ==
    /\ c.op = "owner"
    /\ Moves(c, [op |-> "code", call |-> c.call, user |-> c.user, code |-> code,
                 kind |-> c.kind, attempt |-> 1])
    /\ UNCHANGED <<tables, connections>>

CodeFree(c) ==
    /\ c.op = "code" /\ ~RoomExists(c.code)
    /\ Moves(c, [c EXCEPT !.op = "create"])
    /\ UNCHANGED <<tables, connections>>

\* The code is in use: the next attempt draws another one.
CodeTaken(c, next) ==
    /\ c.op = "code" /\ RoomExists(c.code)
    /\ c.attempt < Attempts
    /\ Moves(c, [c EXCEPT !.code = next, !.attempt = @ + 1])
    /\ UNCHANGED <<tables, connections>>

\* Faulty variant: the attempts are never given up.
AttemptsRestarted(c) ==
    /\ c.op = "code" /\ RoomExists(c.code) /\ c.attempt = Attempts
    /\ Moves(c, [c EXCEPT !.attempt = 1])
    /\ UNCHANGED <<tables, connections>>

CodesExhausted(c) ==
    /\ c.op = "code" /\ RoomExists(c.code)
    /\ c.attempt = Attempts
    /\ Ends(c)
    /\ UNCHANGED <<tables, connections>>

\* Faulty variant: the row of a room that took the code meanwhile is overwritten.
RoomUpserted(c) ==
    /\ c.op = "create"
    /\ rooms' = {r \in rooms : r.code # c.code} \cup
                {[code |-> c.code, owner |-> c.user, kind |-> c.kind]}
    /\ Moves(c, [c EXCEPT !.op = "created"])
    /\ UNCHANGED <<members, messages, created, invites, connections>>

\* Faulty variant: room_code is not unique.
RoomInserted(c) ==
    /\ c.op = "create"
    /\ rooms' = rooms \cup {[code |-> c.code, owner |-> c.user, kind |-> c.kind]}
    /\ Moves(c, [c EXCEPT !.op = "created"])
    /\ UNCHANGED <<members, messages, created, invites, connections>>

\* Faulty variant: the creator becomes a member, also of a room joinRoom refuses him.
CreatorEnrolled(c) ==
    /\ c.op = "create" /\ ~RoomExists(c.code)
    /\ rooms' = rooms \cup {[code |-> c.code, owner |-> c.user, kind |-> c.kind]}
    /\ members' = members \cup {<<c.user, c.code>>}
    /\ Moves(c, [c EXCEPT !.op = "created"])
    /\ UNCHANGED <<messages, created, invites, connections>>

\* room.create takes effect.  If the code was taken since it was looked up, the unique
\* column refuses the row (QueryFailed).
RoomCreated(c) ==
    /\ c.op = "create" /\ ~RoomExists(c.code)
    /\ rooms' = rooms \cup {[code |-> c.code, owner |-> c.user, kind |-> c.kind]}
    /\ Moves(c, [c EXCEPT !.op = "created"])
    /\ UNCHANGED <<members, messages, created, invites, connections>>

\* Faulty variant: room.create is not awaited.
RoomAnsweredEarly(c) ==
    /\ c.op \in {"create", "created"}
    /\ created' = created \cup {[user |-> c.user, code |-> c.code]}
    /\ Ends(c)
    /\ UNCHANGED <<rooms, members, messages, invites, connections>>

\* Its answer is there: the caller is told the code.
RoomAnswered(c) ==
    /\ c.op = "created"
    /\ created' = created \cup {[user |-> c.user, code |-> c.code]}
    /\ Ends(c)
    /\ UNCHANGED <<rooms, members, messages, invites, connections>>

-----------------------------------------------------------------------------
(* joinRoom.                                                               *)

JoinRoom(k, s, code) ==
    /\ sock[s] = "open" /\ Idle(k)
    /\ inflight' = inflight \cup
         {[op |-> "join", call |-> k, socket |-> s, user |-> user[s], code |-> code]}
    /\ UNCHANGED <<tables, connections>>

\* Faulty variant: what the room is was looked at too late.
SeatTakenUnchecked(c) ==
    /\ c.op = "join" /\ RoomExists(c.code)
    /\ seats' = IF sock[c.socket] = "open"
                THEN [seats EXCEPT ![c.socket] = @ \cup {c.code}] ELSE seats
    /\ Ends(c)
    /\ UNCHANGED <<tables, sock, user, heard>>

\* The room exists and is public.  join does nothing on a socket that is gone.
SeatTaken(c) ==
    /\ c.op = "join" /\ RoomIsPublic(c.code)
    /\ seats' = IF sock[c.socket] = "open"
                THEN [seats EXCEPT ![c.socket] = @ \cup {c.code}] ELSE seats
    /\ Ends(c)
    /\ UNCHANGED <<tables, sock, user, heard>>

\* ensureRoomIsPublic refuses every private room, and getRoomByCodeOrThrow a code
\* that no room has.
SeatRefused(c) ==
    /\ c.op = "join" /\ ~RoomIsPublic(c.code)
    /\ Ends(c)
    /\ UNCHANGED <<tables, connections>>

-----------------------------------------------------------------------------
(* sendMessage.                                                            *)

\* The message is not blank and the socket has its user, or the handler throws.
\* Neither the room nor a seat in it is looked at.
SendMessage(k, s, m, code) ==
    /\ sock[s] = "open" /\ Idle(k)
    /\ user[s] # NoUser
    /\ m \notin UsedMessages
    /\ inflight' = inflight \cup
         {[op |-> "store", call |-> k, user |-> user[s], code |-> code, message |-> m]}
    /\ UNCHANGED <<tables, connections>>

\* messages.create takes effect.
MessageStored(c) ==
    /\ c.op = "store"
    /\ messages' = messages \cup {[id |-> c.message, author |-> c.user]}
    /\ Moves(c, [c EXCEPT !.op = "emit"])
    /\ UNCHANGED <<rooms, members, created, invites, connections>>

\* Faulty variant: the row is not awaited.
MessageSentEarly(c) ==
    /\ c.op \in {"store", "emit"}
    /\ heard' = [s \in Sockets |-> IF c.code \in seats[s]
                                   THEN heard[s] \cup {c.message} ELSE heard[s]]
    /\ Ends(c)
    /\ UNCHANGED <<tables, sock, user, seats>>

\* The answer is there: everybody who is in the room now gets the message.
MessageSent(c) ==
    /\ c.op = "emit"
    /\ heard' = [s \in Sockets |-> IF c.code \in seats[s]
                                   THEN heard[s] \cup {c.message} ELSE heard[s]]
    /\ Ends(c)
    /\ UNCHANGED <<tables, sock, user, seats>>

-----------------------------------------------------------------------------
(* inviteUser.                                                             *)

InviteUser(k, s, g, code) ==
    /\ sock[s] = "open" /\ Idle(k)
    /\ inflight' = inflight \cup
         {[op |-> "room", call |-> k, user |-> user[s], guest |-> g, code |-> code]}
    /\ UNCHANGED <<tables, connections>>

\* The room exists, and the socket has its user (user.id throws otherwise).
InviteRoomFound(c) ==
    /\ c.op = "room" /\ RoomExists(c.code) /\ c.user # NoUser
    /\ Moves(c, [c EXCEPT !.op = "inviter"])
    /\ UNCHANGED <<tables, connections>>

\* Faulty variant: ensureUserJoinedRoom is not awaited.
InviterUnchecked(c) ==
    /\ c.op = "inviter"
    /\ Moves(c, [c EXCEPT !.op = "account"])
    /\ UNCHANGED <<tables, connections>>

\* ensureUserJoinedRoom.
InviterJoined(c) ==
    /\ c.op = "inviter" /\ <<c.user, c.code>> \in members
    /\ Moves(c, [c EXCEPT !.op = "account"])
    /\ UNCHANGED <<tables, connections>>

\* getUserByEmailOrThrow of the guest.  (An address of nobody ends it: QueryFailed.)
GuestFound(c) ==
    /\ c.op = "account"
    /\ Moves(c, [c EXCEPT !.op = "guest"])
    /\ UNCHANGED <<tables, connections>>

\* ensureUserNotJoinedRoom.
GuestNotJoined(c) ==
    /\ c.op = "guest" /\ <<c.guest, c.code>> \notin members
    /\ Moves(c, [c EXCEPT !.op = "row"])
    /\ UNCHANGED <<tables, connections>>

\* Faulty variant: a row that is there already is taken for success.
InviteUpserted(c) ==
    /\ c.op = "row"
    /\ members' = members \cup {<<c.guest, c.code>>}
    /\ Moves(c, [c EXCEPT !.op = "invited"])
    /\ UNCHANGED <<rooms, messages, created, invites, connections>>

\* join_room.create takes effect.  If the row was created meanwhile, the unique columns
\* refuse it (QueryFailed).
GuestInvited(c) ==
    /\ c.op = "row" /\ <<c.guest, c.code>> \notin members
    /\ members' = members \cup {<<c.guest, c.code>>}
    /\ Moves(c, [c EXCEPT !.op = "invited"])
    /\ UNCHANGED <<rooms, messages, created, invites, connections>>

\* Its answer is there, and is passed on to the inviter.
InviteConfirmed(c) ==
    /\ c.op = "invited"
    /\ invites' = invites \cup {[inviter |-> c.user, guest |-> c.guest, code |-> c.code]}
    /\ Ends(c)
    /\ UNCHANGED <<rooms, members, messages, created, connections>>

\* A query fails, a check or a unique column refuses: the handler throws.  (What it was
\* to write may be there already: created, emit, invited.)
QueryFailed(c) ==
    /\ c.op # "auth"
    /\ Ends(c)
    /\ UNCHANGED <<tables, connections>>

-----------------------------------------------------------------------------
(* The specification.                                                      *)

\* The answer the handler c waits for is there.
Answered(c) ==
    \/ Authenticated(c)
    \/ AuthRefused(c)
    \/ \E code \in Codes : OwnerFound(c, code)
    \/ CodeFree(c)
    \/ \E next \in Codes : CodeTaken(c, next)
    \/ CodesExhausted(c)
    \/ RoomCreated(c)
    \/ RoomAnswered(c)
    \/ SeatTaken(c)
    \/ SeatRefused(c)
    \/ MessageStored(c)
    \/ MessageSent(c)
    \/ InviteRoomFound(c)
    \/ InviterJoined(c)
    \/ GuestFound(c)
    \/ GuestNotJoined(c)
    \/ GuestInvited(c)
    \/ InviteConfirmed(c)

Next ==
    \/ \E k \in Calls, s \in Sockets, u \in Tokens : Connect(k, s, u)
    \/ \E s \in Sockets : Disconnect(s)
    \/ \E k \in Calls, u \in Users, kind \in {"public", "private"} : CreateRoom(k, u, kind)
    \/ \E k \in Calls, s \in Sockets, code \in Codes : JoinRoom(k, s, code)
    \/ \E k \in Calls, s \in Sockets, m \in MessageIds, code \in Codes :
          SendMessage(k, s, m, code)
    \/ \E k \in Calls, s \in Sockets, g \in Users, code \in Codes : InviteUser(k, s, g, code)
    \/ \E c \in inflight : Answered(c)
    \/ \E c \in inflight : QueryFailed(c)
    \/ ProcessExit

Spec == Init /\ [][Next]_vars

\* The database and the token check answer or fail, whatever was asked of them.
Fairness ==
    \A k \in Calls :
        WF_vars(\E c \in inflight : c.call = k /\ (Answered(c) \/ QueryFailed(c)))

FairSpec == Spec /\ Fairness

-----------------------------------------------------------------------------
(* Properties.                                                             *)

\* Every variable has its type, and no two rows of room have one code.
TypeOK ==
    /\ rooms \subseteq Room
    /\ \A r, s \in rooms : r.code = s.code => r = s
    /\ members \subseteq Users \X Codes
    /\ messages \subseteq [id : MessageIds, author : Users]
    /\ created \subseteq [user : Users, code : Codes]
    /\ invites \subseteq [inviter : Users, guest : Users, code : Codes]
    /\ sock \in [Sockets -> {"new", "open", "closed"}]
    /\ user \in [Sockets -> Users \cup {NoUser}]
    /\ seats \in [Sockets -> SUBSET Codes]
    /\ heard \in [Sockets -> SUBSET MessageIds]
    /\ inflight \subseteq Waiting

\* A connection that stays belongs to a verified user: handleConnection runs after the
\* socket was accepted, and whatever it finds, whenever the socket closes, the user is
\* set or the socket is closed in the end.
AuthSettles ==
    \A s \in Sockets : sock[s] = "open" =>
        user[s] \in Verified \/ \E c \in inflight : c.op = "auth" /\ c.socket = s

\* Nobody sits in a room that is private or does not exist, and a connection that was
\* closed while handleJoin was waiting has no seat.
SeatsSound ==
    \A s \in Sockets : \A code \in seats[s] : sock[s] = "open" /\ RoomIsPublic(code)

\* What a connection received is a row of messages by a verified user: no message is
\* shown that a failed query or a restart has lost.
HeardWasStored ==
    \A s \in Sockets : \A id \in heard[s] :
        \E m \in messages : m.id = id /\ m.author \in Verified

\* Whoever was told a code, or is about to be, owns the only room that has it, although
\* two requests may have found the same code free (generateUniqueRoomCode, createRoom).
CreatorOwns == Directory!OneOwner

\* A guest is invited to a room once, by one member, although two invitations may both
\* have found him missing (ensureUserNotJoinedRoom, then createJoinRoom).
GuestInvitedOnce == Directory!OneInviter

\* Memberships come from members: a room without any never gets one, so nobody is ever
\* invited to a room this version of the program created.
MembersInherited == Directory!MembersInherited

\* The reads and later writes of createRoom and inviteUser come out as single steps: a
\* room under a free code, a membership by a member's invitation.  Who is told of one
\* was the one to write it; an answer may be lost, the row stays.
ImplementsDirectory == Directory!Spec

\* A member is refused a room only when it is private and an earlier version left it:
\* his membership never leads to a room that is gone, and no other room has members.
OnlyPrivateRefuses ==
    [][\A c \in inflight :
          c.op = "join" /\ <<c.user, c.code>> \in members /\ SeatRefused(c) =>
              \E r \in LegacyRooms : r.code = c.code /\ r.kind = "private"]_vars

\* How many queries of the handler that waits as c are still to be answered, the one it
\* waits for included.  (The look at a token counts as one.)
QueriesLeft(c) ==
    CASE c.op = "owner" -> Attempts + 2
      [] c.op = "code" -> Attempts - c.attempt + 2
      [] c.op \in {"auth", "join", "create", "created", "store", "emit", "row", "invited"} -> 1
      [] c.op = "guest" -> 2
      [] c.op = "account" -> 3
      [] c.op = "inviter" -> 4
      [] c.op = "room" -> 5

\* The write the handler waits for took effect.
Written(c) == c.op \in {"created", "emit", "invited"}

\* Every answer brings a request nearer to its end, the answer that a code is taken
\* included: only an endless wait for the database keeps a handler, never its own loop.
RequestsAdvance ==
    [][\A c \in inflight, d \in inflight' :
          c.call = d.call =>
              \/ c = d
              \/ QueriesLeft(d) < QueriesLeft(c)
              \/ QueriesLeft(d) = QueriesLeft(c) /\ Written(d) /\ ~Written(c)]_vars

\* createRoom makes two queries and one for each attempt at a code, an invitation five,
\* and no handler makes more.  (The guards of a request have theirs, see Accounts.)
QueriesBounded ==
    \A c \in inflight :
        QueriesLeft(c) \in
            1 .. IF c.op \in {"owner", "code", "create", "created"} THEN Attempts + 2 ELSE 5

\* "Whether the room requires private invitation": whose invitation to a room was
\* confirmed is not refused it (CreateRoom, description of roomIsPrivate).
InvitationAdmits ==
    [][\A c \in inflight :
          c.op = "join" /\ (\E i \in invites : i.guest = c.user /\ i.code = c.code) =>
              ~SeatRefused(c)]_vars

\* Every request ends, also when no free code can be found.
RequestsEnd ==
    \A k \in Calls : (\E c \in inflight : c.call = k) ~> (\A c \in inflight : c.call # k)
=============================================================================
