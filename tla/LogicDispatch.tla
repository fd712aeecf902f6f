--------------------------- MODULE LogicDispatch ---------------------------
(***************************************************************************)
(* How the realtime server executes requests: BusinessScheduler,           *)
(* SerialCommandQueue and its Operation (RealtimeServer/src/service/       *)
(* BusinessScheduler.cpp), composed with SlowPool by the routing of        *)
(* LogicSystem (LogicDispatch.cpp).                                        *)
(*                                                                         *)
(* Every connection and every meeting owns a SerialCommandQueue.  A        *)
(* connection's command either does its work itself or submits a command   *)
(* to a meeting's queue and waits for it.  Storage work is awaited on the  *)
(* slow pool.  A queue has a strand (a FIFO of handlers, run one at a      *)
(* time) and at most one operation, a coroutine; the steps a coroutine     *)
(* takes between two suspensions keep the strand busy, and other strands,  *)
(* pool threads and the I/O thread interleave with them.                   *)
(*                                                                         *)
(* Left out: payloads and byte quotas (a disconnect carries no bytes, so   *)
(* the byte quotas can refuse only what the entry quotas can), replies,    *)
(* the AI pool and the media control queue.                                *)
(***************************************************************************)
EXTENDS Integers, Sequences, FiniteSets

CONSTANTS
    Conns,              \* client connections (Session objects)
    Rooms,              \* meeting ids
    Timer,              \* key of m_timer_queue
    Threads,            \* threads of m_storage_pool
    PoolCapacity,       \* its capacity
    QueueCapacity,      \* SerialCommandQueue::m_capacity
    SchedulerCapacity,  \* BusinessScheduler::m_capacity
    MaxMessages,        \* bound: requests per connection
    MaxAwaits,          \* bound: slow steps of one handler
    MaxScans,           \* bound: timer scans
    MaxObjs,            \* bound: queue objects of one key at a time
    Kinds,              \* kinds of requests the clients send
    None

ASSUME DispatchAssumption ==
    /\ {QueueCapacity, SchedulerCapacity, PoolCapacity} \subseteq Nat \ {0}
    /\ {MaxMessages, MaxAwaits, MaxScans} \subseteq Nat /\ MaxObjs \in Nat \ {0}
    /\ Kinds \subseteq {"join", "room", "plain"}

Keys == Conns \cup Rooms \cup {Timer}

(* Queue objects.  The registry entry of a key may be erased and created   *)
(* again: beside the registered object of a key there may be some whose    *)
(* last handlers have not run yet.                                         *)
Objs == Keys \X (1 .. MaxObjs)
Key(o) == o[1]

ASSUME KeysAssumption ==
    /\ Conns \cap Rooms = {} /\ Timer \notin Conns \cup Rooms
    /\ None \notin Keys \cup Objs

VARIABLES
    m_reserved, m_pending, m_tasks, m_stopping, thread, task, holders,
    awaiting,    \* the storage pool, see SlowPool
    stopping,    \* LogicSystem::m_stopping
    scheduled,   \* BusinessScheduler::m_pending
    registry,    \* m_connections, m_rooms: the object of a key, or None
    queue,       \* queue[o]: the SerialCommandQueue object
    op,          \* op[o]: its operation (coroutine)
    occupied,    \* occupied[o]: the Room has members or sessions
    meeting,     \* meeting[c]: Session::m_meeting_id
    closed,      \* closed[c]: Session::IsClosed()
    posted,      \* posted[c]: number of messages read from connection c
    gone,        \* gone[c]: CloseClient has run for c
    scans,       \* number of timer scans posted
    handled      \* handled[c]: number of the last message of c whose handler began

Pool == INSTANCE SlowPool WITH Ops <- Objs, Capacity <- PoolCapacity, NoOp <- None

poolVars == <<m_reserved, m_pending, m_tasks, m_stopping, thread, task, holders, awaiting>>
ioVars == <<posted, gone, scans>>
vars == <<poolVars, stopping, scheduled, registry, queue, op, occupied, meeting,
          closed, handled, ioVars>>

NoToken == [id |-> 0, phase |-> 0]
NoWaiter == [obj |-> None, token |-> NoToken]
NoEntry == [conn |-> None, no |-> 0, kind |-> "none", room |-> None, waiter |-> NoWaiter]
NewQueue == [pending |-> 0, strand |-> <<>>, commands |-> <<>>, next |-> 0,
             active |-> 0, phase |-> 0, token |-> NoToken]
NoOperation == [pc |-> "none", cont |-> "none", awaits |-> 0, target |-> None,
                entry |-> NoEntry]

Terminal(e) == e.kind = "disconnect"

(* Handlers in a strand.                                                   *)
Push(e) == [type |-> "push", entry |-> e, token |-> NoToken]
Resume(token) == [type |-> "resume", entry |-> NoEntry, token |-> token]
AfterDone == [type |-> "next", entry |-> NoEntry, token |-> NoToken]

Init ==
    /\ Pool!Init
    /\ stopping = FALSE
    /\ scheduled = 0
    /\ registry = [k \in Keys |-> IF k = Timer THEN <<Timer, 1>> ELSE None]
    /\ queue = [o \in Objs |-> NewQueue]
    /\ op = [o \in Objs |-> NoOperation]
    /\ occupied = [o \in Objs |-> FALSE]
    /\ meeting = [c \in Conns |-> None]
    /\ closed = [c \in Conns |-> FALSE]
    /\ posted = [c \in Conns |-> 0]
    /\ gone = [c \in Conns |-> FALSE]
    /\ scans = 0
    /\ handled = [c \in Conns |-> 0]

-----------------------------------------------------------------------------
(* SerialCommandQueue                                                      *)

(* An object nobody refers to any more, or not yet.                        *)
Unused(o) ==
    /\ registry[Key(o)] # o
    /\ queue[o] = NewQueue
    /\ op[o] = NoOperation

(* The queue object a key names, created on demand.                        *)
Lookup(k) ==
    IF registry[k] # None THEN registry[k]
    ELSE CHOOSE o \in Objs : Key(o) = k /\ Unused(o)

(* The bound on queue objects: one that can be used for k is left.         *)
Available(k) == registry[k] # None \/ \E o \in Objs : Key(o) = k /\ Unused(o)

(* BusinessScheduler::Reserve and Release.                                 *)
SchedulerReserve == scheduled' = scheduled + 1
SchedulerRelease == scheduled' = scheduled - 1

(* Seeded fault: a disconnect is admitted like any other command.          *)
Admits_NoTerminal(o, e) ==
    queue[o].pending < QueueCapacity /\ scheduled < SchedulerCapacity

(* The admission test of Submit and of BusinessScheduler::Reserve.         *)
Admits(o, e) ==
    \/ Terminal(e)
    \/ queue[o].pending < QueueCapacity /\ scheduled < SchedulerCapacity

(* The rest of Submit: count the entry and post it to the strand.          *)
Admitted(q, e) == [q EXCEPT !.pending = @ + 1, !.strand = Append(@, Push(e))]

(* Pump on a queue: the operation to start next, if any.                   *)
Starts(q) == q.active = 0 /\ q.commands # <<>>

Pumped(q) ==
    IF Starts(q)
    THEN [q EXCEPT !.active = q.next + 1, !.next = q.next + 1, !.phase = 0,
                   !.commands = Tail(@)]
    ELSE q

PumpedOp(o, q) ==
    IF Starts(q)
    THEN [NoOperation EXCEPT !.pc = "start", !.entry = Head(q.commands)]
    ELSE op[o]

(* The strand is free: no coroutine is between two suspensions.            *)
StrandFree(o) == op[o].pc \in {"none", "await", "retry"}

NextHandler(o, type) ==
    /\ StrandFree(o)
    /\ queue[o].strand # <<>>
    /\ Head(queue[o].strand).type = type

(* The handler Submit posted: queue the command and Pump.                  *)
HandlePush(o) ==
    LET h == Head(queue[o].strand)
        q == [queue[o] EXCEPT !.strand = Tail(@), !.commands = Append(@, h.entry)]
    IN  /\ NextHandler(o, "push")
        /\ queue' = [queue EXCEPT ![o] = Pumped(q)]
        /\ op' = [op EXCEPT ![o] = PumpedOp(o, q)]
        /\ UNCHANGED <<poolVars, stopping, scheduled, registry, occupied,
                       meeting, closed, handled, ioVars>>

(* A completion: it resumes the operation and phase it was made for, and   *)
(* nothing else.                                                           *)
Matches(o, token) ==
    queue[o].active = token.id /\ queue[o].phase = token.phase

HandleResume(o) ==
    LET h == Head(queue[o].strand) IN
    /\ NextHandler(o, "resume")
    /\ queue' = [queue EXCEPT ![o].strand = Tail(@)]
    /\ op' = IF Matches(o, h.token) THEN [op EXCEPT ![o].pc = op[o].cont] ELSE op
    /\ UNCHANGED <<poolVars, stopping, scheduled, registry, occupied, meeting,
                   closed, handled, ioVars>>

(* Seeded fault: on_idle does not look at the pending count again.         *)
Reclaims_IgnoresPending(o) ==
    /\ Key(o) # Timer
    /\ Key(o) \in Rooms => ~occupied[o]
    /\ registry[Key(o)] = o

(* The handler posted when an operation ends: on_idle may take the queue   *)
(* out of the registry, Pump starts the next command, and only then is     *)
(* the scheduler's count given back.                                       *)
Reclaims(o) ==
    /\ queue[o].pending = 0
    /\ Key(o) # Timer
    /\ Key(o) \in Rooms => ~occupied[o]
    /\ registry[Key(o)] = o

(* The last reference to an unregistered object goes with this handler.    *)
Retires(o) ==
    /\ queue[o].pending = 0
    /\ Len(queue[o].strand) = 1
    /\ Reclaims(o) \/ registry[Key(o)] # o

HandleNext(o) ==
    LET q == [queue[o] EXCEPT !.strand = Tail(@)] IN
    /\ NextHandler(o, "next")
    /\ registry' = IF Reclaims(o) THEN [registry EXCEPT ![Key(o)] = None] ELSE registry
    /\ queue' = [queue EXCEPT ![o] = IF Retires(o) THEN NewQueue ELSE Pumped(q)]
    /\ op' = [op EXCEPT ![o] = PumpedOp(o, q)]
    /\ SchedulerRelease
    /\ UNCHANGED <<poolVars, stopping, occupied, meeting, closed, handled, ioVars>>

-----------------------------------------------------------------------------
(* Entries: PostMsgToQue, PostSessionDisconnected, PostReconnectTimeoutCheck *)

(* Enter the command of connection c into its queue, creating the queue on *)
(* demand.  A refused request closes the connection.                       *)
Enter(c, e) ==
    LET o == Lookup(c) IN
    IF Admits(o, e)
    THEN /\ registry' = [registry EXCEPT ![c] = o]
         /\ queue' = [queue EXCEPT ![o] = Admitted(@, e)]
         /\ SchedulerReserve
         /\ closed' = [closed EXCEPT ![c] = @ \/ Terminal(e)]
    ELSE /\ registry' = IF queue[o].pending = 0
                        THEN [registry EXCEPT ![c] = None] ELSE registry
         /\ closed' = [closed EXCEPT ![c] = TRUE]
         /\ UNCHANGED <<queue, scheduled>>

Request(c, kind, r) ==
    [conn |-> c, no |-> posted[c] + 1, kind |-> kind, room |-> r, waiter |-> NoWaiter]

PostMsgToQue(c, kind, r) ==
    /\ ~stopping
    /\ ~closed[c] /\ ~gone[c] /\ posted[c] < MaxMessages
    /\ Available(c) /\ Enter(c, Request(c, kind, r))
    /\ posted' = [posted EXCEPT ![c] = @ + 1]
    /\ UNCHANGED <<poolVars, stopping, op, occupied, meeting, handled, gone, scans>>

(* CloseClient: the session is closed and its one disconnect is posted.    *)
PostSessionDisconnected(c) ==
    /\ ~stopping
    /\ ~gone[c]
    /\ Available(c) /\ Enter(c, Request(c, "disconnect", None))
    /\ posted' = [posted EXCEPT ![c] = @ + 1]
    /\ gone' = [gone EXCEPT ![c] = TRUE]
    /\ UNCHANGED <<poolVars, stopping, op, occupied, meeting, handled, scans>>

(* At most one scan is in flight; the scan finds expired members of r.     *)
PostReconnectTimeoutCheck(r) ==
    LET o == registry[Timer]
        e == [NoEntry EXCEPT !.kind = "scan", !.room = r]
    IN  /\ ~stopping
        /\ scans < MaxScans
        /\ queue[o].pending = 0
        /\ Admits(o, e)
        /\ queue' = [queue EXCEPT ![o] = Admitted(@, e)]
        /\ SchedulerReserve
        /\ scans' = scans + 1
        /\ UNCHANGED <<poolVars, stopping, registry, op, occupied, meeting, closed,
                       handled, posted, gone>>

-----------------------------------------------------------------------------
(* Operations.  Local: a step of operation o that changes only op[o].      *)

Local(o, pc) ==
    /\ op' = [op EXCEPT ![o].pc = pc]
    /\ UNCHANGED <<stopping, scheduled, registry, queue, occupied, meeting, closed,
                   handled, ioVars>>

Entry(o) == op[o].entry

(* The connection is closed and the command is not its disconnect.         *)
Dropped(o) == Entry(o).conn # None /\ ~Terminal(Entry(o)) /\ closed[Entry(o).conn]

(* Where Route sends a connection's command: the session's meeting, else   *)
(* the meeting the request names, else nowhere.                            *)
Target(o) ==
    LET e == Entry(o) IN
    IF e.kind \in {"scan", "join"} THEN e.room
    ELSE IF meeting[e.conn] # None THEN meeting[e.conn]
    ELSE IF e.kind = "room" THEN e.room ELSE None

(* The first step of Route, which reads the session's meeting once, or     *)
(* Dispatch at once for a meeting's command.                               *)
FirstStep(o) ==
    IF Key(o) \in Rooms THEN "dispatch"
    ELSE IF Dropped(o) \/ (Entry(o).kind = "join" /\ meeting[Entry(o).conn] # None) THEN "finish"
    ELSE IF Entry(o).kind \in {"scan", "join"} THEN "resolve"
    ELSE IF Target(o) = None THEN "dispatch" ELSE "toRoom"

Start(o) ==
    /\ op[o].pc = "start"
    /\ op' = [op EXCEPT ![o].pc = FirstStep(o), ![o].target = Target(o)]
    /\ UNCHANGED <<poolVars, stopping, scheduled, registry, queue, occupied, meeting,
                   closed, handled, ioVars>>

(* Await without an earlier Reserve: reserve, or end with SlowPoolBusy.    *)
Resolve(o) ==
    /\ op[o].pc = "resolve"
    /\ \/ /\ Pool!Reserve(o)
          /\ op' = [op EXCEPT ![o].pc = "submit", ![o].cont = "resolved"]
       \/ /\ ~Pool!CanReserve
          /\ op' = [op EXCEPT ![o].pc = "finish"]
          /\ UNCHANGED poolVars
    /\ UNCHANGED <<stopping, scheduled, registry, queue, occupied, meeting, closed,
                   handled, ioVars>>

(* The Submit of Await, then the coroutine is suspended in Wait.  The      *)
(* refusal branch of Await is not modelled: ReservationHonoured says that  *)
(* it is never taken.                                                      *)
SubmitTask(o) ==
    LET token == [id |-> queue[o].active, phase |-> queue[o].phase + 1] IN
    /\ op[o].pc = "submit"
    /\ Pool!Submit(o)
    /\ queue' = [queue EXCEPT ![o].phase = token.phase, ![o].token = token]
    /\ op' = [op EXCEPT ![o].pc = "await"]
    /\ UNCHANGED <<stopping, scheduled, registry, occupied, meeting, closed,
                   handled, ioVars>>

(* The slow thread calls resume: the completion is posted to the strand.   *)
CompleteTask(t) ==
    /\ Pool!Complete(t)
    /\ queue' = [queue EXCEPT ![task[t]].strand = Append(@, Resume(queue[task[t]].token))]
    /\ UNCHANGED <<stopping, scheduled, registry, op, occupied, meeting, closed,
                   handled, ioVars>>

(* The meeting was looked up: it exists or not.                            *)
Resolved(o) ==
    /\ op[o].pc = "resolved"
    /\ UNCHANGED poolVars
    /\ \/ Local(o, "toRoom")
       \/ Local(o, "finish")

(* Seeded fault: Route keeps its reservation.                              *)
GivesBack_Never(o) == FALSE

(* Route gives its reservation back before it waits for the meeting; the   *)
(* timer's operation, which does not wait, keeps it to its end.            *)
GivesBack(o) == Key(o) # Timer

RouteReleases(o) ==
    /\ op[o].pc = "toRoom"
    /\ GivesBack(o)
    /\ Pool!ReleaseCapacity(o)
    /\ Local(o, "toRoom")

(* Seeded faults: Route resumes whether the command was accepted or not;   *)
(* Route forgets to resume after a refusal.                                *)
ResumedAtOnce_Always(waits, accepted) == waits
ResumedAtOnce_Never(waits, accepted) == FALSE

(* A refused command resumes the connection's operation at once, which     *)
(* then answers with an error; done() of an accepted one does it later.    *)
ResumedAtOnce(waits, accepted) == waits /\ ~accepted

(* SubmitRoom, and the Wait around it in Route; the timer does not wait.   *)
SubmitRoom(o) ==
    LET k == op[o].target
        p == Lookup(k)
        waits == Key(o) # Timer
        token == [id |-> queue[o].active, phase |-> queue[o].phase + 1]
        e == [Entry(o) EXCEPT !.waiter = IF waits THEN [obj |-> o, token |-> token]
                                         ELSE NoWaiter]
        accepted == Admits(p, e)
        own == [queue[o] EXCEPT
                  !.phase = IF waits THEN token.phase ELSE @,
                  !.strand = IF ResumedAtOnce(waits, accepted)
                             THEN Append(@, Resume(token)) ELSE @]
    IN  /\ op[o].pc = "toRoom"
        /\ GivesBack(o) => o \notin holders
        /\ Available(k)
        /\ IF accepted
           THEN /\ registry' = [registry EXCEPT ![k] = p]
                /\ queue' = [queue EXCEPT ![o] = own, ![p] = Admitted(@, e)]
                /\ SchedulerReserve
           ELSE /\ queue' = [queue EXCEPT ![o] = own]
                /\ UNCHANGED <<registry, scheduled>>
        /\ op' = [op EXCEPT ![o].pc = IF waits THEN "await" ELSE "finish",
                            ![o].cont = "finish"]
        /\ UNCHANGED <<poolVars, stopping, occupied, meeting, closed, handled, ioVars>>

(* Dispatch drops the commands of a closed connection.  Its other          *)
(* rejections are those of a handler that ends at once.                    *)
DispatchDrops(o) ==
    /\ op[o].pc = "dispatch"
    /\ Dropped(o)
    /\ UNCHANGED poolVars
    /\ Local(o, "finish")

(* Dispatch reserves capacity for the whole handler.  A request is refused *)
(* when there is none, a disconnect tries again every 10 ms; a try that    *)
(* fails again changes nothing.                                            *)
DispatchReserves(o) ==
    /\ op[o].pc \in {"dispatch", "retry"}
    /\ ~Dropped(o)
    /\ \/ /\ Pool!Reserve(o)
          /\ op' = [op EXCEPT ![o].pc = "work"]
          /\ handled' = IF Entry(o).conn = None THEN handled
                        ELSE [handled EXCEPT ![Entry(o).conn] = Entry(o).no]
       \/ /\ op[o].pc = "dispatch"
          /\ ~Pool!CanReserve
          /\ op' = [op EXCEPT ![o].pc = IF Terminal(Entry(o)) THEN "retry" ELSE "finish"]
          /\ UNCHANGED <<poolVars, handled>>
    /\ UNCHANGED <<stopping, scheduled, registry, queue, occupied, meeting, closed, ioVars>>

(* The handler awaits one more slow step.                                  *)
HandlerAwaits(o) ==
    /\ op[o].pc = "work"
    /\ op[o].awaits < MaxAwaits
    /\ op' = [op EXCEPT ![o].pc = "submit", ![o].cont = "work", ![o].awaits = @ + 1]
    /\ UNCHANGED <<poolVars, stopping, scheduled, registry, queue, occupied, meeting,
                   closed, handled, ioVars>>

(* Sessions of room r other than c's.                                      *)
Others(c, r) == {d \in Conns \ {c} : meeting[d] = r}

(* The handler ends.  What it did to the membership, as far as routing     *)
(* depends on it: nothing; a join that binds the session, and may take     *)
(* over and close another session of the same user; a leave, an expiry or  *)
(* a disconnect; the end of the meeting, which unbinds all its sessions.   *)
(* MeetingRoom models the handlers themselves.                             *)
HandlerEnds(o) ==
    LET c == Entry(o).conn
        r == Key(o)
    IN
    /\ op[o].pc = "work"
    /\ op' = [op EXCEPT ![o].pc = "finish"]
    /\ \/ /\ ~(Terminal(Entry(o)) /\ r \in Rooms)
          /\ UNCHANGED <<occupied, meeting, closed>>
       \/ /\ Entry(o).kind = "join"
          /\ \E victims \in SUBSET Others(c, r) :
                /\ Cardinality(victims) <= 1
                /\ meeting' = [d \in Conns |-> IF d = c THEN r
                                               ELSE IF d \in victims THEN None ELSE meeting[d]]
                /\ closed' = [d \in Conns |-> closed[d] \/ d \in victims]
          /\ occupied' = [occupied EXCEPT ![o] = TRUE]
       \/ /\ r \in Rooms
          /\ Entry(o).kind \in {"room", "scan"}
          /\ c # None => meeting[c] = r
          /\ meeting' = IF c = None THEN meeting ELSE [meeting EXCEPT ![c] = None]
          /\ \E b \in BOOLEAN : /\ Others(c, r) # {} => b
                                /\ occupied' = [occupied EXCEPT ![o] = b]
          /\ UNCHANGED closed
       \/ /\ r \in Rooms /\ Entry(o).kind = "room" /\ meeting[c] \in {r, None}
          /\ meeting' = [d \in Conns |-> IF meeting[d] = r THEN None ELSE meeting[d]]
          /\ occupied' = [occupied EXCEPT ![o] = FALSE]
          /\ UNCHANGED closed
       \/ /\ Terminal(Entry(o))
          /\ r \in Rooms
          /\ meeting' = [meeting EXCEPT ![c] = None]
          /\ UNCHANGED <<occupied, closed>>
    /\ UNCHANGED <<poolVars, stopping, scheduled, registry, queue, handled, ioVars>>

(* The end of the coroutine: ReleaseCapacity, the queue becomes free and   *)
(* done() resumes the waiting connection ...                               *)
Finish(o) ==
    LET w == Entry(o).waiter IN
    /\ op[o].pc = "finish"
    /\ IF o \in holders THEN Pool!ReleaseCapacity(o) ELSE UNCHANGED poolVars
    /\ queue' = LET q == [queue EXCEPT ![o].active = 0]
                IN  IF w = NoWaiter THEN q
                    ELSE [q EXCEPT ![w.obj].strand = Append(@, Resume(w.token))]
    /\ op' = [op EXCEPT ![o].pc = "unpend"]
    /\ UNCHANGED <<stopping, scheduled, registry, occupied, meeting, closed,
                   handled, ioVars>>

(* Seeded fault: the scheduler's count is given back here as well.         *)
Unpend_ReleasesEarly(o) ==
    /\ op[o].pc = "unpend"
    /\ queue' = [queue EXCEPT ![o].pending = @ - 1, ![o].strand = Append(@, AfterDone)]
    /\ op' = [op EXCEPT ![o] = NoOperation]
    /\ SchedulerRelease
    /\ UNCHANGED <<poolVars, stopping, registry, occupied, meeting, closed, handled, ioVars>>

(* ... and the entry leaves the queue's count.                             *)
Unpend(o) ==
    /\ op[o].pc = "unpend"
    /\ queue' = [queue EXCEPT ![o].pending = @ - 1, ![o].strand = Append(@, AfterDone)]
    /\ op' = [op EXCEPT ![o] = NoOperation]
    /\ UNCHANGED <<poolVars, stopping, scheduled, registry, occupied, meeting, closed,
                   handled, ioVars>>

-----------------------------------------------------------------------------
(* LogicSystem::Shutdown: refuse new entries, wait for idle, join the pool. *)
Stop ==
    /\ ~stopping
    /\ stopping' = TRUE
    /\ UNCHANGED <<poolVars, scheduled, registry, queue, op, occupied, meeting, closed,
                   handled, ioVars>>

(* Seeded fault: the pool is joined without waiting for idle.              *)
Idle_NotAwaited == TRUE

(* BusinessScheduler::WaitIdle returns.                                    *)
Idle == scheduled = 0

WaitIdleThenJoin ==
    /\ stopping
    /\ Idle
    /\ Pool!Join
    /\ UNCHANGED <<stopping, scheduled, registry, queue, op, occupied, meeting, closed,
                   handled, ioVars>>

Terminated == Pool!Joined /\ UNCHANGED vars

PoolThread(t) ==
    /\ Pool!Sleep(t) \/ Pool!Pop(t) \/ Pool!Return(t) \/ Pool!Exit(t)
    /\ UNCHANGED <<stopping, scheduled, registry, queue, op, occupied, meeting, closed,
                   handled, ioVars>>

(* A business thread runs the next handler of a strand or the coroutine.   *)
Strand(o) ==
    \/ HandlePush(o) \/ HandleResume(o) \/ HandleNext(o)
    \/ Start(o) \/ Resolve(o) \/ SubmitTask(o) \/ Resolved(o)
    \/ RouteReleases(o) \/ SubmitRoom(o)
    \/ DispatchDrops(o) \/ DispatchReserves(o)
    \/ HandlerAwaits(o) \/ HandlerEnds(o)
    \/ Finish(o) \/ Unpend(o)

Next ==
    \/ \E c \in Conns : \/ \E kind \in Kinds, r \in Rooms : PostMsgToQue(c, kind, r)
                        \/ PostSessionDisconnected(c)
    \/ \E r \in Rooms : PostReconnectTimeoutCheck(r)
    \/ \E o \in Objs : Strand(o)
    \/ \E t \in Threads : PoolThread(t) \/ CompleteTask(t)
    \/ Stop
    \/ WaitIdleThenJoin
    \/ Terminated

Spec == Init /\ [][Next]_vars

(* Business threads serve every strand, pool threads run, the retry timer  *)
(* fires and Shutdown goes on.  Nothing makes clients send or disconnect.  *)
Fairness ==
    /\ \A o \in Objs : WF_vars(Strand(o))
    /\ \A t \in Threads : WF_vars(PoolThread(t) \/ CompleteTask(t))
    /\ WF_vars(WaitIdleThenJoin)

FairSpec == Spec /\ Fairness

-----------------------------------------------------------------------------
(* Properties                                                              *)

(* The registry agrees with what goes on, although its entries are erased  *)
(* while other threads look them up.  Work is only ever done by the        *)
(* registered queue object of a key, so a meeting's operations never       *)
(* overlap; a session bound to a meeting finds its room, since a room with *)
(* members is never erased; an idle meeting without members is not kept.   *)
RegistryAgrees ==
    /\ \A o \in Objs :
          queue[o].pending > 0 \/ queue[o].active # 0 => registry[Key(o)] = o
    /\ \A c \in Conns : meeting[c] # None =>
          registry[meeting[c]] # None /\ occupied[registry[meeting[c]]]
    /\ \A r \in Rooms :
          LET o == registry[r] IN
          o # None /\ queue[o].pending = 0 /\ queue[o].strand = <<>> /\ StrandFree(o)
             => occupied[o]

(* A completion in a strand is for the operation and the phase that wait   *)
(* for it, and there is only one: none comes late, twice or for another.   *)
CompletionsAreCurrent ==
    \A o \in Objs : LET s == queue[o].strand
                        resumes == {i \in 1 .. Len(s) : s[i].type = "resume"}
                    IN  /\ Cardinality(resumes) <= 1
                        /\ \A i \in resumes : op[o].pc = "await" /\ Matches(o, s[i].token)

InHandler(o, c) ==
    /\ Entry(o).conn = c
    /\ \/ op[o].pc = "work"
       \/ op[o].pc \in {"submit", "await"} /\ op[o].cont = "work"

(* Requests of one connection are handled one at a time and in the order   *)
(* they were read, across its own queue and the meetings' queues: when a   *)
(* handler begins, none of the connection runs and no later one has run.   *)
ConnectionInOrder ==
    [][\A c \in Conns : handled'[c] # handled[c] =>
          /\ handled'[c] > handled[c]
          /\ \A o \in Objs : ~InHandler(o, c)]_vars

(* An operation that holds capacity waits for the pool only, never for     *)
(* another operation: Route gives its reservation back before it waits for *)
(* the meeting, whose disconnect may be waiting for that very place.       *)
HoldersNeverWaitForOthers ==
    \A o \in holders : ~(op[o].pc = "await" /\ op[o].cont = "finish")

(* WaitIdle returns only when nothing is left: when the scheduler's count  *)
(* is zero no queue holds a command, a completion or an operation.  The    *)
(* pool may be joined without abandoning an operation half way.            *)
IdleMeansDone ==
    scheduled = 0 =>
       /\ \A o \in Objs : queue[o].strand = <<>> /\ queue[o].commands = <<>>
                          /\ op[o] = NoOperation
       /\ holders = {} /\ awaiting = {}

(* The composition uses the pool as SlowPool's specification says.         *)
UsesPoolCorrectly == Pool!Spec

(* The disconnect of a connection is handled, even when the queues, the    *)
(* scheduler and the pool are full.                                        *)
DisconnectHandled ==
    \A c \in Conns : gone[c] ~> handled[c] = posted[c]

(* No operation waits forever for another: after Stop the server joins.    *)
ShutdownCompletes == stopping ~> \A t \in Threads : thread[t] = "exited"
=============================================================================
