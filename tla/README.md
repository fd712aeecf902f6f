# SyncRTC in TLA+

Specifications of the concurrent core of SyncRTC: TLA+ modules translated from
the source, TLC configurations that check them on small instances, and TLAPS
proofs of safety properties of eight of them for every instance. `PROJECT.json` lists the runs,
which lines each definition stands for, the hazards of the code and the
theorems.

Run from this directory:

    tlc -workers 2 -config RoomThreadPool.cfg MC_RoomThreadPool
    tlapm RoomThreadPool_proofs.tla

## 1. The system

Clients talk HTTP to **GateServer** (accounts, contacts), and keep one TCP
connection to **RealtimeServer** (meetings, chat, media signalling).
RealtimeServer forwards media signalling over a Unix socket to **MediaServer**,
which runs the WebRTC peer connections and forwards RTP. MySQL holds accounts,
meetings and messages; Redis holds tokens and who is in which meeting now.
**VarifyServer** sends verification codes, **AIServer** answers questions.

| Component | State | Operations | Interacts through | What makes it correct |
| --- | --- | --- | --- | --- |
| Event loop: `CServer`, `Session`, `IoWakeup` | sockets, send queues, heartbeat times | read, write, wake, heartbeat check, close | posts requests and one disconnect to `LogicSystem`; `Send` from business threads | no frame that fits a header lost or reordered silently, exactly one disconnect, idle connections closed |
| Business scheduling: `SlowPool`, `BusinessScheduler`, `SerialCommandQueue` | task queue, reservations, counts, one coroutine per queue | Reserve, Submit, Await, Wait, Pump, WaitIdle | threads, strands, completions | serial per queue, reservation honoured, every wait ends, drains on shutdown |
| Routing: `LogicDispatch.cpp` | registry of connection and meeting queues, `m_user_meetings` | PostMsgToQue, Route, SubmitRoom, Dispatch | connection queue waits for meeting queue | one queue per meeting, order per connection, no deadlock, rooms reclaimed |
| Membership: handlers of `LogicSystem.cpp` | `Room` (sessions, members), user index, Redis set, hash and deadline index, meeting status | join, resume, start, leave, end, disconnect, scan, expire | meeting queues, Redis, MySQL, timer | one session per user, grace period kept, disconnected members removed or back, ended meetings empty |
| Chat: handlers of `LogicSystem.cpp`, client `ChatController` | messages in MySQL, rows on the client | group and private message, history pages | storage, broadcast, the client's connection | a failed message was shown to nobody, a page is shown once, only a message refused without its name stays "sending" |
| Media signalling: `LogicDispatch.cpp`, `MediaSignalClient`, client `MediaController` | signal table, UDS epoch, send queue, PeerConnection | offer, answer, candidate, leave, reconnect | UDS frames, control queue | a message of an old epoch or session is never delivered, no media session is orphaned |
| MediaServer workers: `RoomThreadPool` | task queues per meeting, ready queue per worker | Post, run, stop | worker threads | serial FIFO per meeting, fair, drained on destruction |
| MediaServer rooms: `LogicSystem`, `MediaRoom`, `MediaSession`, `Session` | peers, publishers, tracks, negotiation flags, remembered rooms | offer, answer, track ready, leave, disconnect, RTP | callbacks of libdatachannel posted to the workers | no stale callback takes effect, one offer at a time, everybody subscribed in the end unless an answer was dropped |
| GateServer, VarifyServer | MySQL, Redis | codes, registration, reset, login, contacts | HTTP, gRPC | one account per email, a token belongs to the account it was given for |
| Client recovery: `RecoveryController`, `TcpMgr`, `MeetingController` | recovery state, timers, ticket, generation, request id | disconnect, retry, authenticate, resume, leave | TCP | late answers are ignored, a resume is idempotent, a leave is never undone |
| Client accounts: login, register, reset, contacts controllers, `HttpMgr` | remembered login, contacts list | requests, answers, timeouts | HTTP | the remembered account and token belong together, the list follows the server |
| AIServer, client capture, codecs and rendering, QML | | | gRPC, FFmpeg, Qt | not modelled (section 6) |

What is hard: business threads, pool threads and the I/O thread interleave;
handlers suspend in the middle (`Await`) while other queues go on; queues, pools
and the scheduler have limits; the disconnect of an old connection, an expiry
command or a completion may arrive late; every storage call may fail after
others succeeded; the deadline in Redis follows the wall clock and survives the
process, the local one does not. Connections break, or go silent and each end
finds out by itself, while requests, answers and pushes are under way; either
server may restart while the other keeps what it knew; and a socket takes only
part of a frame.

## 2. Modules

| Module | Stands for | Role |
| --- | --- | --- |
| `SerialRooms` | what `RoomThreadPool` promises | abstract specification |
| `RoomThreadPool` | `MediaServer/include/service/RoomThreadPool.h` | implements `SerialRooms` |
| `SlowPool` | `SlowPool` and `Operation` in `BusinessScheduler.cpp` | component |
| `LogicDispatch` | `SerialCommandQueue`, `BusinessScheduler`, `LogicDispatch.cpp` | composes queues with `SlowPool` (`INSTANCE`) |
| `MeetingRoom` | membership handlers of `LogicSystem.cpp` | component |
| `MediaRooms` | MediaServer: `CServer`, `Session`, `LogicSystem`, `MediaRoom`, `MediaSession` | component |
| `MediaSignals` | client media signalling, RealtimeServer's signal table and handlers, `MediaSignalClient` | composes them with `MediaRooms` (`EXTENDS`) |
| `Connections` | RealtimeServer's `CServer`, `Session`, `IoWakeup` | component |
| `Recovery` | client `TcpMgr`, `RecoveryController`, `MeetingController`; the server's login, join, resume, leave and disconnect | composes client and server |
| `MeetingChat` | client `ChatController`; message and history handlers, `MySqlMgr` | composes them with `Recovery` (`EXTENDS`) |
| `Accounts` | GateServer, VarifyServer, client account and contact controllers, `HttpMgr` | composes client and servers |
| `MC_*` | | constants of the instances |
| `*_proofs` | | theorems |

A definition whose name is that of another with a suffix (`Take_Something`), under
the comment "Seeded fault" or "X that ...", is a wrong version of the definition
that follows it. It is not part of any specification; putting it in place of its
original shows that the properties notice it.

**RoomThreadPool.** Each action is one critical section of a worker's mutex or
the `notify_one` after it. `Take` and `Finish` are the two halves of a round of
`RunWorker`; the handler runs between them, when anyone may `Post`. `tasks[r]`
and `scheduled[r]` are the fields of a meeting's `RoomQueue`, and `roomQueues`
says which meetings have one. Tasks are numbered in the order of acceptance;
`accepted`, `begun`, `ended` are history variables that map to `SerialRooms`.
Spurious wakeups are left out: they only repeat the test of the predicate.

**SlowPool.** `Reserve` and `ReleaseCapacity` are what an operation does
(`holders`), `Submit` what `Await` does (`awaiting`); `Return` and `Complete`
keep the order in `Run`: the place is given back before the operation is
resumed.

**LogicDispatch.** Keys are connections, meetings and the timer; each has a
registry entry and at most two queue objects, one registered and one on its way
out. `queue[o]` is the object (`strand` is the FIFO of posted handlers),
`op[o]` its coroutine with a program counter. `PostMsgToQue`,
`PostSessionDisconnected` and `PostReconnectTimeoutCheck` are the entries; `Start`
to `SubmitRoom` are `Route`, `Dispatch*` and `Handler*` are `Dispatch` and the
handler; `Finish`, `Unpend` and `HandleNext` are the three stages of the end of a
command, which other threads can see apart. What a handler does to membership is
abstracted to binding a session and unbinding one, or all of them when the meeting
ends; `MeetingRoom` has the handlers.
Left out: byte quotas and the AI pool; the media control queue is in
`MediaSignals`.

**MeetingRoom.** A command of a meeting runs alone in its queue
(`RegistryAgrees` of `LogicDispatch`), so a handler is one action; join and
resume are two, because `ReserveUser` and `FinishJoin` work on `m_user_meetings`,
which all meetings share. `redis[m][u]` joins the three places Redis keeps a
member in: the member set (`in`), the member hash (`room_state`, `deadline`) and
the deadline index (`index`). Storage calls fail in two ways: not carried out, or
carried out and reported as failed; a failed read looks like a missing value, as
in `RedisMgr`. Deadlines are stored as the time left. `Restart` is a graceful one:
`CServer::Shutdown` posts all disconnects and `LogicSystem::Shutdown` drains.

**MediaRooms.** One meeting: rooms share nothing but the worker pool, whose serial
order per room `RoomThreadPool` gives, so a room's worker is a FIFO of events and
each event's handler one action. A peer is a `MediaSession` with its flags
(`init`, `waiting`, `pending`) and the signalling state of its library object; a
description is the set of tracks it offers. The video and audio track of a
publisher are one, because they are added and removed together; a loop over members is
one operation on the set of them, whose order only shows in that of the offers posted. What the library
calls back (`onLocalDescription`, candidates, track open, state change) is an event
posted to the FIFO with the instance it belongs to, and may arrive after the
session is gone. A UDS connection is accepted, read, stopped and closed as in
`CServer` and `Session`; its end posts one disconnection to every remembered room.

**MediaSignals.** Adds RealtimeServer's three threads of control (I/O thread, control
strand, room strand) and the clients. An offer takes two actions, because
`RegisterSignal` and `SendMediaSignal` are separate locked sections between which
the epoch may change. Faults: a lost TCP connection, a lost UDS connection, a
restart of either server, a library error, a leave. `tag` and `inst` follow a
description from the PeerConnection it was made for; no guard reads `tag`.
Retry delays, and partial writes on the UDS, are abstracted to the moment at which
a frame is on the socket. `MediaRefused` stands for the ways in which a client's media
request ends before MediaServer: the meeting's queue refuses it
(`LogicDispatch.cpp:151`), the storage pool is full (`:173`), or the handler's
`SIsMember` fails (for an answer `LogicSystem.cpp:1886`). It may happen to any offer,
answer or candidate; `refused` is a history variable with the answers dropped so.

**Connections.** A business thread's `Send` or `RequestClose` is one step, under
`m_send_mutex`. The I/O thread has a program counter: between two of its locked
sections, and between `HasPendingWrite` and the `epoll_ctl` that uses its result,
other threads run. Frames have a length, sockets a buffer, `HandleWrite` a budget,
so sends are whole, partial or refused. A payload over `MaxPayload` (65535 bytes, what
the length field of a header can state) is dropped by `Send` alone, and the connection
goes on (`Session.cpp:122`); most callers ignore the result (`LogicSystem.cpp:1597`,
`:1628`, `:1685`). Heartbeats are an overdue flag and the one
recheck that a long pause of the I/O thread grants.

**Recovery.** One client and one meeting; the other member is the state the client
shows of it. `cl` is the client (recovery state, connection, ticket, generation,
request id, pending join and leave), `srv` its membership, `sess` the server's
sessions. Timers need no variable: each runs exactly in the states its expiry is an
action of. Answers carry the connection they were sent on, so what arrives after
the client has moved on is dropped as in `TcpMgr`.

**MeetingChat.** Chat rows on the client (`sending`, `sent`, `failed`, `unknown`), the
table of messages on the server, group and private pages. `RowsFollow` is what
`ChatController` does when the connection or the meeting ends, in the same step as
the change of `Recovery` that causes it. A message is answered by its handler, which
names it, or refused before by `ReplyError` of the dispatcher, which does not: its
answer is applied to no row (`chatcontroller.cpp:219`). `unnamed` is a history
variable with the messages refused so. A history page that is refused, or too long for
one frame, is an answer without messages.

**Accounts.** Each HTTP request is a call with the program counter of its handler: one
action per storage step, so that handlers interleave between their steps. The client
gives up on a request after five seconds while the handler goes on. An email stands
for the account and its uid, and for its name: the unique keys on the email and on the
name reject a registration alike. The contacts page keeps what the last answered query
brought; nothing is reloaded or cleared by a login (`contactscontroller.cpp:100` is the
only place that writes the list). `upset` and `crossed` are history variables: a
contacts request failed or a login succeeded, and two list queries overlapped, since
the page was last entered with no contacts request under way. Storage errors are calls
that are not carried out; a write that is carried out and reported as failed is not
modelled here.

**Assumptions of these models.** The user waits for the answer of a leave (the page
does). What one connection carries arrives before what a later one carries; at
least a second of retry delay lies between them. In `Recovery` and `MeetingChat` a
storage error happens before the handler's first write; errors between writes are
the subject of `MeetingRoom`. Device ids are abstracted: the client is one device.
`Accounts` starts on the login page, where the other account does not exist yet, or
in the shell, where it does.

## 3. Runs

| Run | Instance | States | Checks |
| --- | --- | --- | --- |
| `RoomThreadPool` | 3 meetings, 2 workers, 2 tasks each | 60,822 | `NoLostWakeup`, `DrainedBeforeExit`, `ImplementsSerialRooms`, `NeverOvertaken`, `EveryTaskHandled` |
| `SlowPool` | 3 operations, 2 threads, capacity 2 | 185 | `ReservationHonoured`, `TasksAccounted`, `EveryAwaitReturns` |
| `LogicDispatch` | 2 connections, 1 meeting, 1 thread, pool and queues of size 1 | 1,327,186 | `RegistryAgrees`, `CompletionsAreCurrent`, `HoldersNeverWaitForOthers`, `IdleMeansDone`, `UsesPoolCorrectly` |
| `LogicDispatchLive` | 1 connection, 1 meeting, pool of size 2, queue of size 1, 1 scan | 83,540 | `ConnectionInOrder`, `DisconnectHandled`, `ShutdownCompletes` |
| `MeetingRoom` | 1 user, 2 connections, 2 meetings, 1 fault, 1 clock change | 489,830 | `MembershipAgrees`, `GraceKept` |
| `MeetingRoomCalm` | 2 users, 3 connections (two devices of one user), 1 meeting, no faults | 32,686 | `EndedRoomEmpty`, `RejoinInGrace`, `OfflineOccupantResolved` |
| `MeetingRoomStuck` | 1 meeting, 1 fault | violation | `NotStuckReconnecting` (finding 1) |
| `MeetingRoomRejoin` | 1 meeting, 1 fault | violation | `RejoinInGrace` (finding 2) |
| `MediaSignals` | 2 members, 2 TCP sessions each, 2 UDS connections, 3 PeerConnections, queues of 3, 1 fault, 1 candidate or packet | 1,792,038 | `FramesAreForThisPc`, `OneOfferOutstanding`, `NoOrphans`, `RtpKeepsIdentity`, `QuietMeansSubscribed` |
| `Connections` | 2 connections, 2 sends, payloads up to 2 units, queue of 2 frames or 3 units, buffer 1, budget 2, batch 1, 1 close, error or stop | 757,553 | `NothingStranded`, `FramesInOrder`, `OneDisconnectEach`, `SilentClientIsDropped` |
| `MeetingChat` | 3 connections, 2 tickets, 4 events, 2 messages, pages of 1 | 2,119,112 | `ReadyAgrees`, `RefusedOnlyWhenGone`, `LeaveWins`, `SnapshotsAreValid`, `FailedWasNotShown`, `OnlyUnnamedHang`, `PageIsShown` |
| `Accounts` | 2 emails, 2 passwords, 3 requests, 1 fault | 2,863,846 | `OneAccountPerEmail`, `RememberedAgrees`, `ListFollows` |

Three more configurations, not among the runs `PROJECT.json` lists, reproduce what the
excuses in `QuietMeansSubscribed`, `OnlyUnnamedHang` and `ListFollows` stand for. Each
checks the property without its excuse, and TLC finds it violated within seconds:

| Configuration | Instance | Violated |
| --- | --- | --- |
| `MediaSignalsRefused.cfg` | 1 TCP session and 1 UDS connection, 3 PeerConnections, 1 fault | `PendingIsOffered` (finding 3) |
| `MeetingChatRefused.cfg` | that of `MeetingChat` | `NothingHangs` (finding 4) |
| `AccountsCrossed.cfg` | 2 emails, 2 passwords, 3 requests, no faults | `ChangesAreShown` (finding 5) |

What the runs show:

- **LogicDispatch.** A meeting's commands are never run by two queue objects, rooms
  with members are kept and empty ones reclaimed, a completion in a strand is
  always the one waited for, no operation waits for another one while it holds
  pool capacity, the scheduler's zero means that nothing is left, and the
  composition uses the pool as `SlowPool!Spec` says.
- **LogicDispatchLive.** The commands of a connection are handled one at a time and
  in order although the pool has room for two; a disconnect is handled even with
  full queues; shutdown ends.
- **MeetingRoom.** One session per user, the bound session is the member, and the
  user index agrees, with faults and clock changes; nobody is removed before the
  grace period is over. Without faults: an ended meeting is empty, a disconnected
  member can rejoin, and is not kept for ever.
- **MediaSignals.** A description or candidate reaches only the PeerConnection it was
  made for, through reconnections, reused signal ids and restarts; a session never
  has two offers outstanding over the whole path; when all is quiet MediaServer has
  no session RealtimeServer does not know, and members have each other's tracks, except
  a member whose own answer was refused on the way (`MediaRefused`).
- **Connections.** A frame queued at any moment is watched or woken for; of the frames
  a header can carry, all arrive complete and in order or the connection is closed,
  and a longer payload does not disturb them; each session's end is
  reported once; a silent client is dropped.
- **MeetingChat.** At rest, a client that says it is ready is the member the server
  thinks it is, with that ticket and generation; a resume is refused only when
  the membership is gone; a leave is never undone by a recovery; chat as in the
  table of section 1: a message still "sending" at rest was refused by an answer that
  does not name it, and is not stored.
- **Accounts.** Two registrations of an email cannot both succeed; the remembered
  account and token belong together; once the contacts page was
  entered after the last login, the list shows what the server has for the account,
  through its changes, as long as no request failed and no two queries overlapped.
  Before that it may be the list of the account that was logged in earlier.

**Bounds.** Sizes of 1 make every limit bind at once: a second request is
refused, a disconnect needs the reserved admission, a second operation finds the
pool full. `MaxObjs` is 2: an object that has left the registry accepts nothing new, so
one old object beside the new one gives every kind of overlap; the guard `Available`
only stops an entry that would need a third. The proofs hold for any `MaxObjs`. Three meetings on two workers give a worker shared
by two meetings and one of its own; two tasks per meeting give a Post during the
handler. In `MeetingRoom` two expiry commands per member and a grace period of
two ticks let a stale command meet a newer disconnect; one clock change per
behaviour is enough to separate the two clocks. A larger exploration of the same
instance with two faults (9.06 million states) found nothing else.

In `MediaSignals` the second UDS connection, the second session of a member and the
third PeerConnection are the new ones that late messages of the old ones could
meet; queues of 3 can be filled by one negotiation with its candidates. In
`Connections` a frame of two units does not fit the buffer of one, so sends are
partial, and two frames fill the queue by count and by units; a batch of 1 makes
every loop over ready tokens or deadlines come back. In `MeetingChat` four events
allow an outage during the recovery from another, a leave in either, and a
message before; with three connections the last one follows two failures. In
`Accounts` three requests put a third handler between the steps of two others.
Symmetry is used only in runs without liveness, over connections or meetings that
the instance does not tell apart.

`CHECK_DEADLOCK FALSE` is given where behaviours end when the requests, faults and
events of the bounds are used up: nothing obliges a client to do more.

**Fairness.** Threads that can take a step do (weak fairness per thread, strand
and pending `notify_one`), and handlers return, which is what the OS and the
thread pool give. The destructor, `Shutdown` and the retry timer go on once
begun. Nothing makes clients send, join or disconnect. In `MeetingRoom` time
passes, the timer fires every second and its scan is not refused for ever;
`ExpireMember` and `Disconnect` are strongly fair because their command waits in a
FIFO queue and gets its turn even if joins keep arriving (in the model: the queue
is busy and free again infinitely often). In `Connections` the I/O thread goes on,
the timer expires again and again, the recheck's delay passes, and a client whose
socket buffer has data reads it; nothing makes a client send a PING. The other
new runs state what holds at rest (`Quiet`) as an invariant and assume no fairness.

## 4. Findings

The first two have a run of their own, the others a configuration (section 3).

1. `LogicSystem.cpp:1154`: `HGet` returns an empty string for a failed call as for
   a missing field. One failed read makes the expiry handler remove the index
   entry of a member that is still reconnecting; the member is never removed.
2. `LogicSystem.cpp:1078`: when recording a disconnect fails, `room_state` goes
   back to `active`, and `JOIN` refuses an active member, although the comment at
   line 1001 says that the user can still rejoin within the grace period.
3. `LogicSystem.cpp:1887`, `LogicDispatch.cpp:151` and `:173`: a client's answer is
   dropped without a word when the look at the member set fails, the meeting's queue
   is full or the storage pool is. Nothing repeats it, and the media session waits for
   ever: publishers that come later are recorded (`MediaSession.cpp:350`) and never
   offered, although the comment at line 275 of `MediaSession.cpp` says that they are
   merged into the next round.
4. `LogicDispatch.cpp:41`: a chat message refused before its handler runs gets an answer
   that does not name it; the client drops the answer (`chatcontroller.cpp:219`) and
   the message stays "sending" while the connection lasts, although the comment at
   `MeetingRoomPage.qml:1433` says that a refusal is shown as a failure.
5. `contactscontroller.cpp:100`: the answers of overlapping list queries replace the list
   in the order in which they arrive. The query made after a deletion may be answered
   before one made earlier, whose answer shows the deleted contact again, although
   the comment at line 171 says that the query is there to prevent this.

Seen while modelling, without a run of its own because the repository promises
nothing about it:

- a join that fails after its writes (`LogicSystem.cpp:779`) leaves an active member
  without a session; a leave that fails half way (`:1267`) leaves the session bound
  and the user out of the member set; an `EndMeeting` carried out but reported as
  failed (`:1374`) leaves an ended meeting with its members; an expiry whose `ZRem`
  is carried out but reported as failed (`:1172`) leaves the user in
  `m_user_meetings`; a crash leaves active members that no cleanup at startup
  removes;
- a message that was stored but could not be read back (`MySqlMgr.cpp:912`) is
  reported as failed and pushed to nobody, and appears in the history later;
- a client is not told that the UDS connection broke: it keeps a PeerConnection that
  MediaServer has closed until it rejoins;
- a second leave while the first is unanswered is possible in
  `meetingcontroller.cpp:443` and only prevented by the page;
- after a login as another user the contacts page keeps the list of the account before
  until the page is entered and its query answered;
- a history page of 50 long messages is over 65535 bytes and is never sent; the
  client gets no answer to its request (`LogicSystem.cpp:1628`, `:1685`);
- a Redis error while a remembered login is resumed is reported as an invalid
  session, and the client forgets the login;
- a verification code whose second Redis command (the expiry) fails stays valid
  without limit; two concurrent requests for a code leave only the later one valid,
  although both mails say ten minutes.

## 5. Proofs

`RoomThreadPool_proofs` proves, for every set of meetings, number of workers,
hash and number of tasks, the invariants `NoLostWakeup` and `DrainedBeforeExit` of
the run, `Spec => ImplementsSerialRooms`, and three facts the run leaves to the
proof: `TypeOK`, `LookupsSucceed` (a worker never looks up a missing meeting) and
`ScheduledOnce` (a meeting is in one place at a time). Assumptions: at least one worker, a hash to
`Nat`, `NoRoom` not a meeting. The invariants are not inductive by themselves:
that `Take` finds a task needs to know where a meeting can be. `PoolInv` adds

- `Places`: a meeting has an entry iff it is scheduled iff it is ready or being
  handled by its worker, and a ready meeting has tasks;
- `Handling`: what a worker handles belongs to it;
- `Numbering`: the queue of a meeting holds exactly the accepted tasks that have
  not begun, in order, and one task is between begun and ended while handled;
- `Stopping`: the destructor has told the first `stopped` workers, and a returned
  worker has nothing ready.

Each action is a lemma (`PostStep`, `TakeStep`, ...). `Numbering` gives the
refinement: `Take` begins task `begun + 1`, and only when none is running. `NeverOvertaken` holds for the
same constants: a worker takes only the head of its ready queue, and every other step
leaves that queue as it is or appends to it (`GrowsOnly`).

`SlowPool_proofs` proves `ReservationHonoured` and `TasksAccounted`, and `TypeOK` and
`StopsIdle` (the threads are told to stop only when no operation uses the pool), for every finite set of
operations and threads and every capacity. `PoolInv` relates the counters to
sets: `m_reserved = Cardinality(holders)` and `m_pending = Cardinality(Counted)`,
where `Counted` are the operations whose task is queued or has not returned.
`ReservationHonoured` is then a counting argument: an operation that holds a
reservation and awaits nothing is in `holders` but not in `Counted`, so
`m_pending < m_reserved <= Capacity`.

`LogicDispatch_proofs` proves all five properties of the run `LogicDispatch`, for any
connections, meetings, pool threads, capacities and bounds: `RegistryAgrees`,
`CompletionsAreCurrent`, `HoldersNeverWaitForOthers`, `IdleMeansDone` and the
refinement `UsesPoolCorrectly`. Assumptions: capacities are positive, and the names
of connections, meetings, the timer and queue objects do not coincide. None of the
five is inductive: that a completion is current, for instance, rests on who is still
to send one. `DispatchInv` says

- of each queue with its operation (`ObjOK`): the count is the number of commands in
  its strand, in its list and in the operation (`Accounted`); at most one completion
  is in the strand, and only for the phase that waits (`ResumesOK`);
- of the commands, wherever they are (`EntryAt`): one that will resume a connection's
  operation is the only one to do so, and that operation waits for just that
  (`Lines`, `Single`, `Awaited`);
- of the pool: what holds it runs and does not wait for another operation, what is
  suspended in it has one task and its completion still to come (`PoolUse`,
  `PoolTasks`);
- of the registry: a queue with a positive count is the registered one, a meeting
  some session is bound to is there and occupied, and an empty idle one has the
  handler that reclaims it coming (`Registered`, `Meetings`, `Kept`);
- of the scheduler: its count is the number of commands and of last handlers not yet
  run (`Counted`, as the cardinality of a set of slots).

A step replaces one queue and its operation, or two in a row; the lemma `Update`
reduces it to what changed there. `Moved` says that every command of the new queue
was at a place of the old one and no two at the same, which carries `Lines` and
`Single` over. `IdleMeansDone` is needed for the refinement: `WaitIdleThenJoin` is
`SlowPool`'s `Shutdown` because nobody holds the pool when the count is zero. With it
the theorems of `SlowPool_proofs` apply to the composition: `ReservationKept` is
`ReservationHonoured` for the dispatcher, and with that the reason why `SubmitTask`
has no branch for a refusal.

`ConnectionInOrder`, of the run `LogicDispatchLive`, is proved in the same module for any
number of connections and pool threads. A connection's requests have one number
after the other but are handled in several queues: its own and those of meetings,
between which they travel as commands. `DispatchInv` says where commands are, not in
which order, so a second invariant, `OrderInv`, says that

- the commands of a connection in its own queue rise in number from the one its
  operation has, along the list and then the strand (`Rising`), up to the last one
  posted (`Numbered`), and all but the one begun are above `handled` (`Fresh`);
- a command of the connection that a meeting's queue has is the one the connection's
  operation waits for (`Told`), so it is below all that wait behind it.

A step moves a command only from the end of one list to the start of the next, hence
the order (`Moved` carries it, as it does `Lines`). A handler that begins then takes
the newest number yet, and finds no other handler of its connection (`Later`,
`Begins`).

`MeetingRoom_proofs` proves the four safety properties of the two passing runs, for
any finite sets of users, sessions and meetings and any bounds. `MembershipAgrees` and `GraceKept`
hold with any number of storage faults, clock corrections and restarts.
`EndedRoomEmpty` is proved for `MaxFaults = 0` and `RejoinInGrace` for `MaxFaults = 0`
and `MaxJumps = 0`: these hypotheses are needed, since one failed call breaks either
property (finding 2; an `EndMeeting` reported as failed, section 4) and a wall clock set ahead ends the
grace period Redis knows. `RoomInv` adds to
`MembershipAgrees` that a join under way holds its user's entry in `m_user_meetings`
(`JoinOwnsEntry`), that sessions gone are bound to nothing, that a bound session's
user is not reconnecting for Redis (an expiry command therefore never removes it),
and that clock corrections are within their bound. `GraceKept` follows step by
step. `EndedRoomEmpty` needs that what `EndMeeting` emptied stays empty: `FinishJoin`
refuses a meeting that ended during the join. `RejoinInGrace` relates the local
deadline to the two deadlines in Redis.

`Connections_proofs` proves `NothingStranded`, `FramesInOrder` and `OneDisconnectEach`,
for any number of connections and any limits, `MaxPayload` among them. What a session must satisfy by itself,
whatever the place of the I/O thread, is `SessionOK`, proved once per operation on a session.
For `NothingStranded` the invariant has to say at each place of the I/O thread why a
session with something to write is not forgotten: it is `Covered` by the wakeup list
with its eventfd, by the tokens the thread has taken, by the visit the thread is
paying it, or by its registration for `EPOLLOUT`. The byte count of a queue is
proved by its running totals (`Totals`), because a recursive sum cannot be reasoned
about here.

`Accounts_proofs` proves `OneAccountPerEmail`, `RememberedAgrees` and `ListFollows`, for two accounts,
any passwords and any number of requests, errors, timeouts and expiries. Requests
come and go in a list, so a step is described by `After`: every request but one is
as it was, that one became `d` or is gone. `AccountsInv` ties the
login the client waits for to its one open request (`Logins`, `Awaited`), the winner
of a registration to the row it inserted (`Winners`), and, as long as neither `upset` nor `crossed` holds, the list shown, or the
one a query brings, to the server's (`Calm`, `Follows`).

`MeetingChat_proofs` proves the four properties of `Recovery` under `MeetingChat`'s
specification (`ReadyAgrees`, `RefusedOnlyWhenGone`, `LeaveWins`, `SnapshotsAreValid`),
with the chat going on, for any number of connections, joins and events. The
difficulty is what is under way: a request may reach the server long after the
connection it was sent on broke. `RecoveryInv` says

- of the requests, in the order of their connections (`Ordered`): of a join, a resume
  and a leave on the current connection there is at most one, under way or
  answered, and the client waits for it (`Outstanding`); once the login is answered,
  nothing of earlier connections is left (`Settled`);
- of the resumes: they carry the request id, the ticket and the generation of this
  outage (`Resumes`) and come on a connection that is logged in (`LoggedIn`);
- of the generation of a member: the one the client knows, or a later one made by a
  resume of this outage whose answer was lost (`Generation`); this is why a repeated
  resume is accepted and its snapshot valid;
- of the answers: what they say is true (`Answers`), and while the connection carries
  both ways, the client that shows a meeting, or is about to, is a member on this
  very session (`Membership`);
- of the other member: applying the notices under way, one after the other, to what
  the client shows gives what the server has (`Follows`).

Each handler is a lemma. Those of the client take the head of the answers, those of
the server take the head of the requests and append an answer; an outage is a prefix
of both lists (`OutageKeeps`, `SilenceKeeps`).

It also proves the chat's own invariants (`FailedWasNotShown`, `OnlyUnnamedHang`,
`PageIsShown`), for any number of messages and any page size. `ChatInv`, which TLC
found true of every state of the run, is inductive given `RecoveryInv`. It says

- of the table: every client message id is stored once (`TableOK`), and a message
  that is still to be handled is asked for once and not stored yet (`Requested`);
- of the rows: one for each message id; one with a server id is the stored message,
  unless that was stored with no push, and one that failed belongs to a message that
  nobody was or will be shown (`RowsOK`);
- of the answers: each stands for what is in the table, and a refusal for what was
  not pushed (`Replies`);
- a row is "sending" only while its request or its answer is under way, the
  connection is on its way down, or its message was refused without its name
  (`Unanswered`), in which case it is neither stored nor will be;
- a push of the client's own message finds its row (`OwnShown`, without which
  `applyMessageReceived` would take it for the other member's), which needs that
  nothing of an earlier membership follows a join (`BehindJoin`); and a push of the
  other member's message finds none (`FirstNamed`);
- while the client attends the meeting, each message of the latest page is shown or
  under way, and a latest page under way is completed by what follows it
  (`PageFollows`).

`mergeHistoryMessages` folds over a page and sorts. The induction over the page is
done on the set of counterexamples, which has a least element (`Least`, `Upwards`;
`WFMin` takes a set where the induction theorems take an operator), after `Fold` shows
that the community modules' `FoldLeft` has the running values one expects. The sort is
`InOrder`, which places each row by the number of rows before it; for a strict total
order that is a bijection (`Ranking`), and the order of `std::stable_sort` is one
(`StableOrders`). A step of the connection is described once, by what it keeps of the
requests and the answers (`Frame`, `FrameKeeps`), a step of the server by what it takes
from the first and adds to the second (`ServedKeeps`).

`MediaSignals_proofs` proves `FramesAreForThisPc` and `RtpKeepsIdentity` of
`MediaSignals`, for any finite set of members, at least one TCP session of each and
one UDS connection, and any number of PeerConnections, queue limits and faults. That
a frame is for the PeerConnection that meets it is decided far from there, and signal
ids start again when RealtimeServer restarts while UDS connections do not.
`SignalInv` says that there is an assignment `T` of PeerConnections to the signal ids
handed out since the last restart (the model's variables do not hold it: it grows with
each offer and is looked up by nobody), such that

- every frame that came, or will come, on the current UDS connection has the tag `T`
  gives its signal id, on whatever queue it is: `wire`, the room's FIFO, `control`, a
  media session of MediaServer that still makes callbacks, and the answers in the
  room's strand (`Wired`, `MediaOK`, `QueueOK`). Nothing is said of frames of older
  connections: the control strand drops them, and `Connect` takes a number that no
  frame has;
- a session's signal id, if it has one, is that of the client's PeerConnection, and
  so is every frame on its way to the client (`Publishing`);
- a client that has left is in the meeting again only after its old offers and its old
  signal id are gone: every offer of its session still waiting has a leave behind it
  (`Closing`), the join comes after the leave, and "joined" is the last of what the
  client still has to read (`Joining`);
- sessions that the client has yet to open are named nowhere (`Unused`).

`MediaSignalResponseHandler`'s check that the session still uses the signal id is what
makes the second point hold, and the order of the room's strand the third. Each action
is a lemma; those on a client's requests rest on three about one client and the queue
(it asks, the strand takes the head, it reads a frame).

It also proves `OneOfferOutstanding`, of which MediaServer's session sees only its own
half: `peers[u].waiting` says that an answer is due, and nothing there says that no
second offer is still on one of the other six queues. `TokenInv` gives each
PeerConnection a token, which is in one place at most of the whole path (`At`,
`OneToken`): it is the client's offer, then the session that does not wait, then the
session's offer, then the client's answer, then the session again. A step takes the
token of the head of one queue to one new place, or drops it (`TokensMove`), and only a
new PeerConnection makes one, with a new tag (`TokenMade`). For the operations on
MediaServer's tables, which renegotiate with every session of the meeting at once, the
token follows from the table to the offers they post (`MakeOffersBear`,
`SetRemoteAnswerFollows`). Two places decide whose token a description is by the signal
id and not by the tag, so the invariant relates the two:

- an answer that waits for the room's strand has the tag of its session's signal id,
  and of the session's offers that wait before it (`AnswersOK`): so what the strand
  sends with that id is for that PeerConnection;
- a description on the way to MediaServer, and the session it will find, have the tag
  of their signal id (`Marked`): by `T` on the current connection, and by a second
  assignment `R` on earlier ones, which `Disconnect` and `RealtimeRestart` extend with
  what `T` was. Without it an answer of a session could be taken by the session that
  replaced it.

`NoOrphans` is about quiet states, but its reason is about all the others: what
RealtimeServer has forgotten must be on its way to MediaServer as a leave. `FollowInv`
says where:

- the table: a signal id in `signals` is of the epoch the handlers work in
  (`mediaEpoch`) and belongs to one session (`Table`); a session with an offer still to
  come has none (`Offers`), and an offer between `RegisterSignal` and `SendMediaSignal`
  is known if it can still be sent (`OfferKnown`);
- the connection: a session of MediaServer is of the connection it serves, or the
  "gone" that ends it is in the room's FIFO (`Served`);
- `Kept`, as long as the connection of the epoch is open on both ends: for each session
  MediaServer has of it, and each offer in its FIFO or on the wire, RealtimeServer
  knows the signal id for a bound session of that user (`Known`), or a leave with that
  id is behind it on the same path (`LeftAfter`, `LeftBehind`). Order is what makes
  this inductive: the leave must be behind the offer, not merely under way;
- and a connection that is used is the one the handlers work with (`mediaEpoch =
  epoch`). This is why `AcceptMediaEvent` may drop the whole table without telling
  MediaServer, and `ReleaseMediaSession` a binding of another epoch: nothing of the new
  connection depends on either.

A full queue in `Send` loses a leave, but invalidates the epoch with it, so `Kept` ends
there and the connection's "gone" takes over. `TokenInv` is used for what it says of the
queues and of the outcome of each event of a room.

Only model-checked: all liveness (TLAPS does not handle fairness and `ENABLED`:
`EveryTaskHandled`, `EveryAwaitReturns`, `DisconnectHandled`, `ShutdownCompletes`,
`OfflineOccupantResolved`, `SilentClientIsDropped`), and one invariant of
`MediaSignals` about its quiet states, `QuietMeansSubscribed`: its invariant must name,
for each track a session still lacks, the event, offer or answer under way that will
bring it.

## 6. What is left

The proof of `QuietMeansSubscribed` of `MediaSignals`, on top of `TokenInv` (a session
that waits has its one offer or answer under way) and `FollowInv`.

To model: a crash restart of RealtimeServer as a question of its own; the client's
`AvSyncScheduler` as a pure algorithm against a reference definition; byte quotas and
the AI pool of the business scheduler; recovery's liveness (that a recovery ends
within its budget needs the timers' order); returning from the page of an ended
meeting; creating, starting and ending meetings from the client.

Not modelled and not planned: AIServer (stateless), QML pages, media capture,
codecs and rendering (I/O), SSRC rewriting and codec parameters (data), generated
protobuf code, build and deployment scripts, form validation and HTTP parsing,
GateServer's relay of `/get_varifycode` to VarifyServer (one call without state), the
SQL statements and connection pools beyond success and failure.
