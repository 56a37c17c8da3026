# youngjin-chai: a TLA+ model of the video-room and chat server

The repository is a NestJS server for video rooms: HTTP endpoints for accounts and
chat rooms, a socket.io namespace for chat and one (`/mediasoup`) for a mediasoup SFU.
This directory models its concurrent parts in TLA+, model-checks them with TLC and
proves the main results with TLAPS.

Paths below are relative to the repository's `src/`.

## 1. The system

| component | state | operations | talks to |
|---|---|---|---|
| `MediasoupService` (`mediasoup/mediasoup.service.ts`) | `workers[]` with a map room -> router each, `nextWorkerIndex` | `onModuleInit`, `createWorker`, the `died` listener, `getWorker`, `getRouter` | mediasoup worker processes |
| `TransportService` (`mediasoup/transport/transport.service.ts`) | `peers`: per peer the room, send and receive transports, producers, consumers | `createPeer`, `createTransport`, `connectTransport`, `producer`, `consumer`, `resumeConsumers`, `handleDisconnect`, four kinds of listeners | `getRouter`, the objects of the mediasoup library |
| `MediasoupGateway` (`mediasoup/mediasoup.gateway.ts`) | `client.data` (peerId, roomId), socket.io rooms | connection middleware, `joinroom`, `createTransport`, `connectTransport`, `produceData`, `consumeGenerate`, `resumeConsumers`, disconnect | `TransportService`, `MediasoupService`, other clients (`newProducer`, `peerLeft`) |
| `ChatGateway` (`chat/chat.gateway.ts`) | `client.data.user`, socket.io rooms | connection (token, user, verified), `joinRoom`, `sendMessage`, `inviteUser`, disconnect | `AuthService`, `UserManager`, `ChatService`, other clients |
| `ChatService`, `ChatManager`, `ChatRepository`, `ChatController` (`chat/`) | tables `Room`, `Join_room`, `Messages` | create, list, detail, join, invite, message | PostgreSQL through Prisma |
| `UserService`, `UserManager`, `UserRepository`, `AuthService` (`user/`) | tables `Users`, `Verify_code`, `Refresh`, `Ip`, `Reports`, `ProfilePicture` | register, send and verify the e-mail code, login, refresh, report, picture | PostgreSQL, SMTP, Discord, the file system |
| guards and filter (`user/auth/*.guard.ts`, `common/global`) | none | access control per request, error replies | `AuthService`, `UserManager` |
| bootstrap (`main.ts`, `app.*`, `prisma/prisma.client.ts`) | none | wiring, static files | |

The program is one Node.js thread. What is hard about it is therefore not data races but
what happens between two awaits of a handler: other handlers run, sockets close, workers
die, tables change. Every module below cuts handlers at the awaits that really wait for
somebody else (a mediasoup worker, the database) and nowhere else.

### Hard behaviours

* `getRouter` reads its table before an await and writes it after, so two handlers of a
  room that is new create two routers (`mediasoup.service.ts:49-59`).
* Workers start in the background; the round-robin index is taken modulo the length of an
  array that may be empty, and an entry whose worker died stays in the array.
* A peer may leave while its `createTransport`, `produce` or `consume` is waiting; the
  handler then goes on with a record that is no longer in the map.
* `joinroom` lists the producers of the room in its reply, `newProducer` announces later
  ones; between them no producer may be missed, whatever the order.
* `resumeConsumers` and `enableTraceEvent` are not awaited: their rejection ends the
  process, and with it every room.
* A worker that dies takes routers, transports, producers and consumers with it, through
  listeners that edit the maps of the peers, and rejects the requests it owed.
* Chat authenticates a socket *after* it was accepted, so events and disconnections come
  before its user is known (`chat.gateway.ts:53`); room codes, invitations and memberships
  are checked with a read and written later (`chat.manager.ts:32`, `chat.service.ts:71`).
* Registration, the e-mailed code and login are reads and later writes too, with clocks
  running: a code may be replaced or expire while it is looked at
  (`user.service.ts:79-80`), a login replaces the token of another (`user.service.ts:92`).
* A report is posted to Discord by a call that is neither awaited nor caught
  (`user.service.ts:121`, `discord.service.ts:47`): its rejection ends the process. An
  e-mail that fails is swallowed (`email.service.ts:37`).
* The list of rooms is cut into pages anew for every request, ordered by `created_at`
  alone (`chat.repository.ts:75`), while rooms are created.

### What makes each component correct

* Pool: every worker that dies is replaced once; the router table is right about what it
  holds; a room keeps the router it has as long as its worker runs; the index picks an
  entry of the array.
* Session: records exist for the sockets that joined and only for those; the maps of a
  peer hold exactly what it has open; a peer that leaves releases everything a worker
  forwards for it; nobody misses a producer; the transports of a peer are on the router of
  its room; every handler ends, and is owed its answer whichever workers die.
* Chat: a connection that stays has a verified user; only public rooms have seats; what is
  shown was stored; a room code has one owner; a membership comes from a member, once.
* Accounts: who was told he is registered keeps the account; verified means a code that
  was mailed and presented in its time; tokens go to who gave the password; the guards let
  only verified users pass; what Discord is told of is in the table.
* Room list: who reads page after page misses no room and is shown none twice, as far as
  the order of the rows decides it.

## 2. Modules

| module | models |
|---|---|
| `RouterPool` | `MediasoupService`: workers, index, router table, `getRouter` |
| `MediaSession` | `MediasoupGateway` and `TransportService`, sharing the variables of `RouterPool` (`Pool == INSTANCE RouterPool`): a session action that calls `getRouter` contains the pool's action |
| `ProducerBoard` | abstract: who is registered in and entered a room, which producers are published there, and who knows of them |
| `RoomDirectory` | abstract: rooms and memberships as single steps |
| `ChatRooms` | `ChatGateway`, `ChatController`, `ChatService`, `ChatManager`, `ChatRepository`; implements `RoomDirectory` (`Directory == INSTANCE RoomDirectory WITH ...`: the tables and histories are shared, `untold` and `unconfirmed` are read off the waiting handlers) |
| `Accounts` | `UserController`, `UserService`, `UserManager`, `UserRepository`, `AuthService`, both guards, `EmailService`, `DiscordService.reportLogger` |
| `RoomPages` | `GET /room`: `ChatController.getRooms`, `ChatManager.normalizePage`, `ChatRepository.findPublicRooms`, with rooms being created |
| `MCRouterPool`, `MCMediaSession`, `MCChatRooms`, `MCAccounts`, `MCRoomPages` | instances for TLC: symmetry sets, tables at the start |
| `RouterPoolProofs`, `MediaSessionProofs`, `SessionOutcomeProofs`, `ProducerBoardProofs`, `ChatRoomsProofs`, `AccountsProofs`, `RoomPagesProofs` | theorems |

The components meet at few places: `MediaSession` contains `RouterPool` and implements
`ProducerBoard`; `RoomPages` reads the rows `ChatRooms` creates, of which it keeps only
what a page shows: whether they are private, and when they were created; `ChatRooms` takes
the verified users as a constant (`Verified`), and `Accounts` shows how a user gets there
and that the guards of `POST /room` ask for it. Chat and media share nothing but the
process: the rooms of one are not the rooms of the other.

### RouterPool

`size` is `workers.length`, `alive` the positions whose process runs, `spawning` the
`createWorker` calls under way, `routers[w][r]` the map of worker `w`. `built` remembers
every Router object, `creating` the `getRouter` calls at their await, `overlapped` the
rooms for which two calls were at the await together. `RequestRouter`/`RouterCreated` are
the two halves of `getRouter`; `RequestThrows` is the call that finds `undefined` or a dead
worker. `ProcessExit` is a crash and restart of the program.

### MediaSession

Transports, producers and consumers are records that never change, as the code holds
references to objects of the library: which exist, which are open (`openTransports`, ...)
and which maps hold them (`held`, `produced`, `consumed`) are variables. A handler that
waits is a record of `inflight` with what the code keeps over the await. `told` and
`joined` are histories of what the clients heard. Faithful details that matter:

* `createPeer` returns early for a known peer: after a second `joinroom` the record keeps
  the old room, while `client.data.roomId` and the socket have the new one.
* A transport whose peer left while it was created stays open in no map (`listed` is
  FALSE): the code throws at `getPeer` and nothing closes it.
* A producer or consumer answered after its transport closed exists in Node but not in the
  worker (`onWorker` is FALSE); no event will report it closed.
* `ResumeRejected`, `UnawaitedRejected`, `WorkerStartFails` end the process (`Restart`).

### ProducerBoard

What announcing producers comes to when the awaits, the transports and the workers are
forgotten: a peer finds a home or loses it, enters a room (and reads what is published
there), publishes a producer (which is called out to everybody who entered), withdraws
producers, leaves; a producer of a peer that left meanwhile may be called out all the same;
a restart clears everything. `AllKnown` is the promise to a client.
`MediaSession` implements it (`ImplementsBoard`) under the mapping

| board | session |
|---|---|
| `home` | `Home`: the room of a peer that stayed in one; none for a peer without record or one that joined a second room |
| `entered` | `Entered`: the rooms whose `joinroom` was answered, of a peer with a record |
| `published` | `produced`, the maps of the records |
| `known` | `told` |

A `joinroom` is several steps of the session (record and socket room, then `getRouter`,
then the reply) of which the first is `Move` and the last `Enter`, or both in one if the
room has its router; a `produceData` is `Publish` only when the worker's answer is there.

### ChatRooms

A record of `inflight` is what is left of a handler, named by the query it waits for:
`auth`; `owner`, `code`, `create` (createRoom: the user, a code, with the attempt it is at,
and the row); `join`; `store` (a message); `room`, `inviter`, `account`, `guest`, `row` (the
five queries of an invitation). An action is the code between two answers. A write takes
effect in a step of its own, after which the handler waits at `created`, `emit` or
`invited` for the answer: `RoomCreated` then `RoomAnswered`, `MessageStored` then
`MessageSent`, `GuestInvited` then `InviteConfirmed`. In between the query may still fail,
or the process end: the row is there and nobody is told. The unique columns of
`prisma/schema.prisma` refuse a row that came too late: `RoomCreated` and `GuestInvited`
are then disabled and `QueryFailed` is what happens, as it may at any query. `created`,
`invites` and `heard` are histories of what clients were told.

Two facts of the code shape the model. Joining no longer writes a membership (the call is
commented out at `chat.service.ts:48`) while inviting needs one; so the table `Join_room`
only matters with rows an earlier version left, which is what `LegacyRooms` and
`LegacyMembers` are. And messages are stored without their room, so only the author is kept.

Left out: texts of messages, names of rooms, replies; the account of a guest is taken to
exist (`getUserByEmailOrThrow` failing is a `QueryFailed`).

### RoomDirectory

The promise behind createRoom and inviteUser: `Create` adds a room under a free code,
`Invite` a membership on a member's word; `Tell` and `Confirm` answer whoever wrote, once,
afterwards; `Lose` drops answers. What is written and not yet answered is `untold` and
`unconfirmed`; `ChatRooms` implements the specification with

| directory | chat |
|---|---|
| `rooms`, `members`, `created`, `invites` | the same |
| `untold` | `Untold`: user and code of the handlers at `created` |
| `unconfirmed` | `Unconfirmed`: inviter, guest and code of the handlers at `invited` |

`OneOwner`, `OneInviter` and `MembersInherited` are stated here; `ChatRooms` takes them over
through the refinement.

### Accounts

As `ChatRooms`: `taken`, `account`, `welcome` (register), `addressee`, `mail`, `code`
(sendVerifyEmail: the time to live starts before the e-mail leaves, the row is written
after it), `verifier`, `check`, `mark` (verifyCode), `password`, `ip`, `session`,
`cookie` (login; the row of `Ip` itself plays no part, its query is a wait like the
others), `lookup`, `owner` (refresh), `guard` (a request behind both guards),
`reporter`, `report`, `thanks` (a report). `unsent` is `code` after an e-mail that
failed: the handler goes on in the same way. `posts` are the posts to Discord nobody
waits for; `PostRejected` ends the process with everything in flight. `now` is a clock;
the two ways of comparing are kept: a code is refused when `expired_at < now`, a token
when `now >= exp`. A row of `Refresh` or `Verify_code` is upserted by user. A hash is
its password and a token what it says: that bcrypt and the signatures work is assumed.
`mailed`, `presented`, `proven`, `registered` and `admitted` are histories.

### RoomPages

`stamped` are rows that have their `created_at` and cannot be read yet, `table` the rows
that can. The client asks for page after page until one is not full; `start`, `listed` and
`repeated` are what it saw. `Window` is the query: the database skips and takes rows in an
order by `created_at` that it may choose differently in every query among rows of the same
millisecond. Codes, names and owners of rooms play no part.

Faulty variants of some operators (marked as such in the modules) are used by no action:
they are the mutations against which the properties were tried.

## 3. Runs

| run | instance | shows |
|---|---|---|
| `pool` | 2 workers + 1 replacement, 2 rooms, 2 routers, 2 calls | the pool's invariants and `AnswerStable`: the answer for a room is the same router while that router's worker runs |
| `announce` | 2 peers, 1 room, 3 transports, 1 producer, 1 consumer, 2 handlers at a time | announcements, exact maps, release, with every handler interleaved |
| `rejoin` | 1 worker, 2 peers, 2 rooms, 1 transport, 1 producer | `joinroom` called again: records, routers and announcements, and the refinement of `ProducerBoard` |
| `deaths` | 1 worker + 1 replacement, 2 transports, 1 producer, 1 consumer | worker deaths in the middle of everything: exact maps; `WaitsOwed`: no handler waits for a worker that is gone; `ProducersInReach`: a producer still listed is on an open router (one room, so that the transports are on the same one is the question of `rejoin` and of the proof) |
| `live` | `announce` with 2 transports, fairness | every handler ends, leavers are forgotten |
| `same_router` | 2 workers, 2 routers, 2 transports | **violated**: the comment in `createTransport` |
| `chat` | 2 sockets, a verified and an unverified user, 1 code, 1 message, 2 attempts, 2 handlers at a time, fairness | sockets that speak, join and close while their token is looked at; a room appears meanwhile; every request ends, also when all codes are taken |
| `directory` | 2 sockets, 3 users, 2 codes, 2 handlers at a time; one private legacy room with two members, owned by the third user | colliding codes and invitations, rows whose answer is lost; the refinement of `RoomDirectory`; the only members who are refused a room |
| `invited` | 2 sockets of a member and of his guest, 1 legacy room | **violated**: a private room admits the invited |
| `accounts` | 2 addresses (one registered), 2 passwords, 2 codes, 2 browsers, 4 requests, 2 at a time, times 0 to 2 | registration, codes, sessions, guards, reports and their posts |
| `sent` | one handler at a time, 2 requests | **violated**: the answer that the e-mail has been sent |
| `pages` | 5 rooms, pages of 2, times 0 to 2 | no room missed, repeats explained |

Bounds. Object ids, calls and `MaxWorkers` are finite; a request is let in only while an
id is left for its object (`Spare`), and a worker may die only while the array has a place
for its replacement. Two peers are a producer and its audience, the smallest instance in
which an announcement can be missed; two calls are the smallest overlap; one producer and
one consumer suffice because the handlers of different objects share only maps that are
keyed by the object. The proofs remove these bounds for the safety properties:
`HeldOnRoomRouter`, for instance, is checked with one worker, two rooms and two routers
(`rejoin`), without deaths, and proved for any number of each and with deaths. Deadlock is not checked in the session runs: when every peer has
left the program has nothing to do until somebody connects, and each connection is used
once; nor in `pages`, where the reader is done.

In `accounts` the number of requests is bounded (`MaxRequests`): four are what it takes to
ask for a code, present it, log in and get past the guards, and two at a time is the
smallest overlap; a time to live of 1 and a clock up to 2 have a moment before, at and
after an expiry. `Attempts` is 10 in the code and 2 in the runs: a retry and the end of
the loop. `chat` has one code, so that the attempts run out once its room exists;
`directory` has two, of which the private legacy room has one: an attempt may draw the
free one, and a public room may be joined next to a private one. Its two members can be
exchanged for each other, the owner being the third user, which the symmetry set uses. A client of `pages` reads
up to three pages, the last of them not full; five rooms and three milliseconds have ties,
rooms that appear behind, in and in front of what was read, and a page that is full of
rooms seen before.

Fairness. `MediaSession`'s `FairSpec`: the library answers or rejects every request, and a
worker that runs delivers its notice that a producer closed; Node.js runs the
continuation. Nothing is assumed of clients, of deaths, or of the order of answers.
`ChatRooms`' `FairSpec`: the database answers or fails, whatever was asked; each identity
in `Calls` is one handler.

Findings. `same_router`: `transport/transport.service.ts:48` says that both transports
of a peer use the router of their room ("the key fix"); two `getRouter` calls that
overlap on a new room (`mediasoup.service.ts:49-59`) make two routers, and the
transports may end up on one each. What does hold is `HeldOnRoomRouter`: unless
creations of its room's router overlapped, a peer that stayed in its room has its
transports on the router the room has (a transport asked for before the first `joinroom`
is on the router of no room). `RoomSharesRouter` says it of all peers of a room
together, and `ProducersInReach` what it is for: the producers listed in a room are on
an open router that the transports of whoever is at home there are on too, where
`canConsume` finds them. `invited`: `dto/chat.create-room.ts:21` calls a room "private"
when it "requires private invitation", but `joinRoom` refuses every private room without
looking at the membership that `inviteUser` wrote (`chat.manager.ts:61-65`,
`chat.service.ts:46`): in the run's trace a member invites a user, the invitation is
confirmed, and the user is refused. What does hold is `OnlyPrivateRefuses`: a member is
refused a room in no other case, and that room is a row of an earlier version, since no
room of this one gets members (`MembersInherited`). `sent`: `user.service.ts:74` answers
"Verification email has been sent." whatever became of it, since `sendEmailMessage`
catches the failure and returns (`email.service.ts:35-39`); what does hold is
`CodeMailedFirst`: a code is stored only after `sendMail` was called with it. (`mailed`
are the codes it was called with, whether or not it then failed.)

Four more things go wrong in the code. The models do what the code does, but no property is
about them, since no comment, document or test of the repository promises anything else: the
index that stays NaN when the first join comes before the first worker
(`mediasoup.service.ts:44`), the rooms of a dead worker, whose closed routers are answered
for ever (`mediasoup.service.ts:28-37`, `49-53`), the transport of a peer that left while it
was created (`transport.service.ts:62`), and the calls nobody awaits, whose rejection ends
the process (`mediasoup.gateway.ts:239`, `transport.service.ts:70`). A repair of
the second would give a room another router after its worker died; `AnswerStable` and
`ProducersInReach` leave room for that, while `OneRouterUnlessOverlap`, `TableSound` and
`HeldOnRoomRouter` describe the code as it is and would have to be restated for routers
whose worker runs.

`NoRoomMissed` and `RepeatsExplained` are as strong as the code allows: rooms of one
millisecond may be missed or shown twice, since `orderBy` leaves their order open, and a
room that becomes visible late pushes back those created after it. TLC finds all three
when the properties are stated without these conditions.

## 4. Proofs

`RouterPoolProofs`: `TableInv` (each router has one creation, the table holds only what was
built, and at most one creation per room is under way unless the room overlapped) is
inductive and gives `OneRouter`, `Soundness`, `Stability`; `Conservation` counts with
`FiniteSetTheorems`.

`MediaSessionProofs`: `StepKinds` splits a step into those that change records, maps or
objects and the quiet rest; then

1. `Typing`; `PoolRefined`: a behaviour of the session is one of the pool, so everything
   proved there holds here;
2. `SocketInv` (a peer without record is in no room and holds nothing) gives `Records`;
3. `MapInv` adds that maps hold only what was made for the peer, that an open listed
   transport is in its peer's maps, and that who waits for a producer or consumer asked for
   it on an own, listed transport. That last part is why a late answer cannot break
   `MapsExact` and `LeaverReleased`, which alone are not inductive;
4. `JoinInv` adds that a client is in every room it joined or is joining: `Announcements`;
5. `RouterInv` traces each transport, each pending transport and each pending creation to a
   room of the peer; with the pool's `Soundness` it gives `RoomRouter`;
6. `BoardStep` shows each non-quiet step to be a step of `ProducerBoard` under the mapping
   above, or a stutter: `BoardImplemented`. It needs 2 and 4: a reply lists the room by the
   records and an announcement reaches it by the sockets, and only because records and
   sockets agree does either reach whoever the board says.

`SessionOutcomeProofs` goes on from there to what handlers and clients come to.

* `WaitInv`: a call identity belongs to one handler, what is open is on a router of a worker
  that runs, and `createRouter` is only waited for while its worker runs, once by each
  handler. `WaitsOwed` is not inductive without them: a handler whose answer arrives may wait
  for another worker next, or for one that dies. `Advancing`, `Owed` and `Closing` (what
  closed stays closed) follow.
* `NoticesToCome` rests on `MapInv`: a producer that is open has its transport in the map of
  a registered peer, so one that a leaver made is not; and a consumer is only answered for a
  producer the worker has (`FedByWorker`), so the worker will report it.
* `ReachInv` traces producers, also those a waiting `produce` will add, to the router of
  their peer's room, as `RouterInv` does with transports. Unless creations overlapped both are
  what `getRouter` answers for the room, and it has one answer (`OneAnswer`): `SharedRouter`,
  `Reach`.
* `PoolKept` and `BoardKept` carry the theorems about `RouterPool` and `ProducerBoard` over
  to the session along `PoolRefined` and `BoardImplemented`: the abstract specifications
  are proved about once, and the session inherits the result.

`ProducerBoardProofs` proves the promise on the board alone (`Completeness`), without a word
about awaits: only somebody new at home, new in a room or newly published could be missed.

`ChatRoomsProofs`: none of the invariants is inductive alone, since they depend on what a
waiting handler already knows: that the inviter had a membership, that the author was
verified, that the row of a message is there. `RecordSound` says this per record; it stays
true because the tables only grow (`TablesGrow`, `RecordStays`), so each step only has to
show it for the one record it adds (`RecordsStep`). With it follow `Typing`, `Settling`,
`Seats`, `Storing`, and `DirectoryRefined`: each step is a step of `RoomDirectory` or a
stutter. The mapping forgets which handler is to tell a room or a membership, so telling one
must not take away another: `AnswersDistinct` says that no two handlers are to tell the
same, because the second row would have been refused. A failed query, a restart, or any step
that only ends handlers, is `Lose`. `Ownership`, `Invitations` and `Memberships` are then
proved of `RoomDirectory`'s five actions only and carried over. `QueriesLeft` ranks a
waiting handler by the queries that are still to be answered; with call identities unique
(`CallsStayUnique`) each answer lowers the rank, or keeps it when a write took effect and its
answer is all that is left (`Advancing`), and it never exceeds `Attempts + 2` in createRoom
(the user, a code for each attempt, the row), or five, which is an invitation (`Bounded`).
`Refusals` follows from `Memberships` and from rooms never being deleted.

`AccountsProofs`: the same with `Grows` in place of `TablesGrow`. `Earned` is what
`verified` needs; a record at `mark` already has it, because `Matches` compared the expiry
with a clock that was past the presentation (`CodeAccepted` in `AnswerSound`). `OwnTokens`
(a row of `Refresh` holds its own user's token) is why a refresh cannot answer for
somebody else. A record at `thanks` has its row, so a post that starts has one
(`PostsStep`, `Reporting`). `Advancing` is a rank argument as in the chat. `Expiry` adds to
each waiting record that what it carries ends in time (`LifeSound`): a code or token made
before an await is written after it, and by then has less time left, never more.

`RoomPagesProofs` counts. `Earlier(r)` are the public rooms in front of `r`; rows are only
added, so their number only grows. `AheadOfWalk`: a room of the start that was not shown yet
and has a millisecond of its own has at least as many rooms in front of it as the next page
skips. `BehindWalk`: one that was shown has fewer, unless a room appeared in front of it.
`WindowPlace` turns such a count into the place of the room in the window a query may answer
(`FiniteSetTheorems`); `Coverage` and `Repetition` follow for every page size.
From `AheadOfWalk` also follows `Order` (no room shown up to now is younger than one of the
start that is still to come and has a millisecond of its own), and, from the size of a full page, `Ending` (no page is asked for behind the
table). `ExactWalk` is what `PageInv` says of a list that did not change: each room is shown
once.

Assumed: only the named assumptions on the constants (`PoolAssumption`,
`SessionAssumption`, `ChatAssumption`, `AccountAssumption`, `NoTokenAssumption`,
`PagesAssumption`): at least one CPU, a page holds at least one room, absent values are no
values, the tables at the start respect their unique columns.

Only model-checked: the liveness properties (`LeaverForgotten`, `HandlersEnd`,
`RequestsEnd`), since fairness rests on ENABLED, which is out of the prover's reach, and the
three violations. What the liveness properties rest on is proved, for all constants:

| liveness | proved | left to fairness |
|---|---|---|
| `HandlersEnd` | `WaitsAdvance`: at most three answers, each one nearer to the end; `WaitsOwed`: a running worker owes the next one | that the answer comes |
| `LeaverForgotten` | `NoticesDue`: a leaver's consumer is held only while its notice is due | that the notice comes |
| `RequestsEnd` | `RequestsAdvance` and `QueriesBounded` | that the database answers or fails |
| reading page after page (no run) | `PagesEnd` | that the client asks on |

`WaitsAdvance`, `NoticesDue`, `ClosedForGood`, `RoomSharesRouter`,
`RequestsAdvance` (`ChatRooms` and `Accounts`), `QueriesBounded`, `LifetimesKept`,
`ShownInOrder` and `PagesEnd` are stated in the modules and proved but listed in no run;
TLC found no violation of them on instances of the runs' sizes. No module has a RECURSIVE
operator; nothing is proved by induction over data.

## 5. Not modelled

* Piping and load measurement of `MediasoupService`: no caller, no effect on the pool.
* Profile pictures. `POST profile/image` is public, so `AuthGuard` sets no user, the id the
  handler gets is undefined (`decorator.user.ts:8`), and `getUserByIdOrThrow(undefined)`
  fails: multer has stored the file, and no row of `ProfilePicture` is ever written. All
  that follows the lookup is unreachable, and a model of it would be of another program.
* Room details and profiles, which only read; what is in the `Ip` table, which login writes
  (a query of its own, `IpStored`) and nothing reads.
* Replies and the exception filter, except where a property is about what a client was told.
  The filter's branch for sockets is never entered: Nest applies global filters to no gateway.
* `errorLogger` and `upsertJoinRoom`: they have no caller.
* Validation of DTOs (but for the page number), wiring, container, migrations.

## 6. Plan

1. Replies: an acknowledgement per request in `MediaSession` and `ChatRooms`, and what a
   client is told when a step failed.
2. `ChatRooms` on top of `Accounts` in place of the constant `Verified`.
