--------------------------- MODULE RoomThreadPool ---------------------------
(***************************************************************************)
(* The media server's worker pool (MediaServer/include/service/            *)
(* RoomThreadPool.h).  A meeting is bound to one worker by its id; a       *)
(* worker keeps one task queue per meeting and a FIFO of ready meetings,   *)
(* and runs one task of the front meeting per round.                       *)
(*                                                                         *)
(* Each action is one critical section of a worker's mutex, or the         *)
(* notify_one that follows it outside the lock.  The task handler runs     *)
(* between Take and Finish, so that anybody, the handler included, may     *)
(* Post meanwhile.  A Post refused because the worker is stopping changes  *)
(* nothing and is a stuttering step.                                       *)
(***************************************************************************)
EXTENDS Integers, Sequences

CONSTANTS
    Rooms,        \* meeting ids
    WorkerCount,  \* m_workers.size()
    Hash,         \* std::hash<std::uint64_t>
    MaxTasks,     \* bound: tasks accepted per meeting
    NoRoom        \* the worker is running no task

ASSUME WorkerAssumption == WorkerCount \in Nat \ {0}
ASSUME HashAssumption == Hash \in [Rooms -> Nat]
ASSUME MaxTasksAssumption == MaxTasks \in Nat
ASSUME NoRoomAssumption == NoRoom \notin Rooms

Workers == 0 .. (WorkerCount - 1)

WorkerIndex(r) == Hash[r] % WorkerCount

VARIABLES
    roomQueues,  \* keys of the workers' room_queues maps
    tasks,       \* tasks[r]: RoomQueue::tasks of meeting r, as task numbers
    scheduled,   \* scheduled[r]: RoomQueue::scheduled
    ready,       \* ready[w]: Worker::ready_rooms
    stopping,    \* stopping[w]: Worker::stopping
    pc,          \* pc[w]: where the thread of worker w is
    current,     \* current[w]: meeting_id local to RunWorker while it handles
    notifies,    \* notifies[w]: notify_one calls not made yet
    stopped,     \* number of workers the destructor has told to stop
    joined,      \* the destructor has returned
    accepted, begun, ended   \* history, as in SerialRooms

vars == <<roomQueues, tasks, scheduled, ready, stopping, pc, current, notifies,
          stopped, joined, accepted, begun, ended>>

TypeOK ==
    /\ roomQueues \in SUBSET Rooms
    /\ tasks \in [Rooms -> Seq(Nat)]
    /\ scheduled \in [Rooms -> BOOLEAN]
    /\ ready \in [Workers -> Seq(Rooms)]
    /\ stopping \in [Workers -> BOOLEAN]
    /\ pc \in [Workers -> {"lock", "waiting", "handling", "exited"}]
    /\ current \in [Workers -> Rooms \cup {NoRoom}]
    /\ notifies \in [Workers -> Nat]
    /\ stopped \in 0 .. WorkerCount
    /\ joined \in BOOLEAN
    /\ accepted \in [Rooms -> Nat]
    /\ begun \in [Rooms -> Nat]
    /\ ended \in [Rooms -> Nat]

Init ==
    /\ roomQueues = {}
    /\ tasks = [r \in Rooms |-> <<>>]
    /\ scheduled = [r \in Rooms |-> FALSE]
    /\ ready = [w \in Workers |-> <<>>]
    /\ stopping = [w \in Workers |-> FALSE]
    /\ pc = [w \in Workers |-> "lock"]
    /\ current = [w \in Workers |-> NoRoom]
    /\ notifies = [w \in Workers |-> 0]
    /\ stopped = 0
    /\ joined = FALSE
    /\ accepted = [r \in Rooms |-> 0]
    /\ begun = [r \in Rooms |-> 0]
    /\ ended = [r \in Rooms |-> 0]

-----------------------------------------------------------------------------
(* Seeded faults: nobody is notified; the task goes to the front of the    *)
(* meeting's queue.                                                        *)
Post_Silent(r) ==
    LET w == WorkerIndex(r) IN
    /\ accepted[r] < MaxTasks
    /\ ~stopping[w]
    /\ roomQueues' = roomQueues \cup {r}
    /\ tasks' = [tasks EXCEPT ![r] = Append(@, accepted[r] + 1)]
    /\ scheduled' = [scheduled EXCEPT ![r] = TRUE]
    /\ ready' = IF scheduled[r] THEN ready
                ELSE [ready EXCEPT ![w] = Append(@, r)]
    /\ accepted' = [accepted EXCEPT ![r] = @ + 1]
    /\ UNCHANGED <<notifies, stopping, pc, current, stopped, joined, begun, ended>>

Post_ToFront(r) ==
    LET w == WorkerIndex(r) IN
    /\ accepted[r] < MaxTasks
    /\ ~stopping[w]
    /\ roomQueues' = roomQueues \cup {r}
    /\ tasks' = [tasks EXCEPT ![r] = <<accepted[r] + 1>> \o @]
    /\ scheduled' = [scheduled EXCEPT ![r] = TRUE]
    /\ ready' = IF scheduled[r] THEN ready
                ELSE [ready EXCEPT ![w] = Append(@, r)]
    /\ notifies' = [notifies EXCEPT ![w] = @ + 1]
    /\ accepted' = [accepted EXCEPT ![r] = @ + 1]
    /\ UNCHANGED <<stopping, pc, current, stopped, joined, begun, ended>>

(* Post: append the task; a meeting that is not scheduled becomes ready.   *)
(* room_queues[meeting_id] creates the entry with empty tasks and          *)
(* scheduled = false when there is none.                                   *)
Post(r) ==
    LET w == WorkerIndex(r) IN
    /\ accepted[r] < MaxTasks
    /\ ~stopping[w]
    /\ roomQueues' = roomQueues \cup {r}
    /\ tasks' = [tasks EXCEPT ![r] = Append(@, accepted[r] + 1)]
    /\ scheduled' = [scheduled EXCEPT ![r] = TRUE]
    /\ ready' = IF scheduled[r] THEN ready
                ELSE [ready EXCEPT ![w] = Append(@, r)]
    /\ notifies' = [notifies EXCEPT ![w] = @ + 1]
    /\ accepted' = [accepted EXCEPT ![r] = @ + 1]
    /\ UNCHANGED <<stopping, pc, current, stopped, joined, begun, ended>>

(* condition.notify_one(), after the lock of Post or of the destructor.    *)
Notify(w) ==
    /\ notifies[w] > 0
    /\ notifies' = [notifies EXCEPT ![w] = @ - 1]
    /\ pc' = IF pc[w] = "waiting" THEN [pc EXCEPT ![w] = "lock"] ELSE pc
    /\ UNCHANGED <<roomQueues, tasks, scheduled, ready, stopping, current,
                   stopped, joined, accepted, begun, ended>>

(* The wait predicate of RunWorker is false: release the lock and sleep.   *)
Sleep(w) ==
    /\ pc[w] = "lock"
    /\ ~stopping[w]
    /\ ready[w] = <<>>
    /\ pc' = [pc EXCEPT ![w] = "waiting"]
    /\ UNCHANGED <<roomQueues, tasks, scheduled, ready, stopping, current,
                   notifies, stopped, joined, accepted, begun, ended>>

(* Seeded fault: the thread returns with meetings still ready.             *)
Exit_WithWork(w) ==
    /\ pc[w] = "lock"
    /\ stopping[w]
    /\ pc' = [pc EXCEPT ![w] = "exited"]
    /\ UNCHANGED <<roomQueues, tasks, scheduled, ready, stopping, current,
                   notifies, stopped, joined, accepted, begun, ended>>

(* Stopping with nothing ready: the thread function returns.               *)
Exit(w) ==
    /\ pc[w] = "lock"
    /\ stopping[w]
    /\ ready[w] = <<>>
    /\ pc' = [pc EXCEPT ![w] = "exited"]
    /\ UNCHANGED <<roomQueues, tasks, scheduled, ready, stopping, current,
                   notifies, stopped, joined, accepted, begun, ended>>

(* Pop the front meeting and the first of its tasks; the handler starts.   *)
Take(w) ==
    LET r == Head(ready[w]) IN
    /\ pc[w] = "lock"
    /\ ready[w] # <<>>
    /\ ready' = [ready EXCEPT ![w] = Tail(@)]
    /\ tasks' = [tasks EXCEPT ![r] = Tail(@)]
    /\ begun' = [begun EXCEPT ![r] = Head(tasks[r])]
    /\ current' = [current EXCEPT ![w] = r]
    /\ pc' = [pc EXCEPT ![w] = "handling"]
    /\ UNCHANGED <<roomQueues, scheduled, stopping, notifies, stopped, joined,
                   accepted, ended>>

(* Seeded fault: a meeting with more tasks stays in front of the others.   *)
Finish_ToFront(w) ==
    LET r == current[w] IN
    /\ pc[w] = "handling"
    /\ ended' = [ended EXCEPT ![r] = begun[r]]
    /\ IF tasks[r] # <<>>
       THEN /\ ready' = [ready EXCEPT ![w] = <<r>> \o @]
            /\ UNCHANGED <<roomQueues, scheduled>>
       ELSE /\ roomQueues' = roomQueues \ {r}
            /\ scheduled' = [scheduled EXCEPT ![r] = FALSE]
            /\ UNCHANGED ready
    /\ current' = [current EXCEPT ![w] = NoRoom]
    /\ pc' = [pc EXCEPT ![w] = "lock"]
    /\ UNCHANGED <<tasks, stopping, notifies, stopped, joined, accepted, begun>>

(* The handler has returned: a meeting with more tasks goes to the back of *)
(* the ready queue, a meeting without any loses its entry.                 *)
Finish(w) ==
    LET r == current[w] IN
    /\ pc[w] = "handling"
    /\ ended' = [ended EXCEPT ![r] = begun[r]]
    /\ IF tasks[r] # <<>>
       THEN /\ ready' = [ready EXCEPT ![w] = Append(@, r)]
            /\ UNCHANGED <<roomQueues, scheduled>>
       ELSE /\ roomQueues' = roomQueues \ {r}
            /\ scheduled' = [scheduled EXCEPT ![r] = FALSE]
            /\ UNCHANGED ready
    /\ current' = [current EXCEPT ![w] = NoRoom]
    /\ pc' = [pc EXCEPT ![w] = "lock"]
    /\ UNCHANGED <<tasks, stopping, notifies, stopped, joined, accepted, begun>>

(* The destructor sets stopping on one worker after the other ...          *)
StopWorker ==
    /\ stopped < WorkerCount
    /\ stopping' = [stopping EXCEPT ![stopped] = TRUE]
    /\ notifies' = [notifies EXCEPT ![stopped] = @ + 1]
    /\ stopped' = stopped + 1
    /\ UNCHANGED <<roomQueues, tasks, scheduled, ready, pc, current, joined,
                   accepted, begun, ended>>

(* ... then joins every thread.                                            *)
Join ==
    /\ ~joined
    /\ stopped = WorkerCount
    /\ \A w \in Workers : pc[w] = "exited"
    /\ joined' = TRUE
    /\ UNCHANGED <<roomQueues, tasks, scheduled, ready, stopping, pc, current,
                   notifies, stopped, accepted, begun, ended>>

(* The pool is gone; nothing more happens.                                 *)
Terminated == joined /\ UNCHANGED vars

Worker(w) == Sleep(w) \/ Exit(w) \/ Take(w) \/ Finish(w)

Next ==
    \/ \E r \in Rooms : Post(r)
    \/ \E w \in Workers : Notify(w) \/ Worker(w)
    \/ StopWorker
    \/ Join
    \/ Terminated

Spec == Init /\ [][Next]_vars

(* A running thread makes progress, a handler returns, and a thread that   *)
(* has changed a worker's state reaches its notify_one.  Nothing makes     *)
(* clients post or the owner destroy the pool.                             *)
Fairness ==
    /\ \A w \in Workers : WF_vars(Worker(w)) /\ WF_vars(Notify(w))
    /\ WF_vars(stopped > 0 /\ StopWorker)
    /\ WF_vars(Join)

FairSpec == Spec /\ Fairness

-----------------------------------------------------------------------------
(* Properties                                                              *)

InReady(r) == \E i \in 1 .. Len(ready[WorkerIndex(r)]) :
                 ready[WorkerIndex(r)][i] = r

(* RunWorker calls room_queues.at, tasks.front and room_queues.find        *)
(* without checking: a ready meeting has an entry and a task, and the      *)
(* meeting being handled still has its entry when the handler returns,     *)
(* although Post and other rounds changed the maps in between.             *)
LookupsSucceed ==
    /\ \A w \in Workers : \A i \in 1 .. Len(ready[w]) :
          /\ ready[w][i] \in roomQueues
          /\ tasks[ready[w][i]] # <<>>
    /\ \A w \in Workers : pc[w] = "handling" => current[w] \in roomQueues

(* The scheduled flag keeps a meeting in one place: it is ready at most    *)
(* once, never ready while one of its tasks runs, and only with its worker.*)
ScheduledOnce ==
    \A w \in Workers :
       /\ \A i, j \in 1 .. Len(ready[w]) : ready[w][i] = ready[w][j] => i = j
       /\ \A i \in 1 .. Len(ready[w]) :
             /\ WorkerIndex(ready[w][i]) = w
             /\ ready[w][i] # current[w]

(* A worker never sleeps on work or on a stop request that nobody is going *)
(* to notify it of, although notify_one runs after the lock is released.   *)
NoLostWakeup ==
    \A w \in Workers :
       pc[w] = "waiting" /\ (ready[w] # <<>> \/ stopping[w]) => notifies[w] > 0

(* The destructor loses no accepted task: when a worker thread has         *)
(* returned, every task accepted for its meetings has been handled.        *)
DrainedBeforeExit ==
    \A r \in Rooms : pc[WorkerIndex(r)] = "exited" => ended[r] = accepted[r]

(* The pool implements the per-meeting serial FIFO of SerialRooms.         *)
Serial == INSTANCE SerialRooms
ImplementsSerialRooms == Serial!Spec

(* Round robin: of the meetings in a worker's ready queue the first is     *)
(* taken next and the others only ever move forward, whatever is posted to *)
(* or left over in the busy meetings around them.                          *)
NeverOvertaken ==
    [][\A w \in Workers : \A i \in 1 .. Len(ready[w]) :
          \/ i = 1 /\ current'[w] = ready[w][i]
          \/ \E j \in 1 .. i : j <= Len(ready'[w]) /\ ready'[w][j] = ready[w][i]]_vars

(* Every accepted task is handled eventually, during shutdown too.         *)
EveryTaskHandled ==
    \A r \in Rooms : \A n \in 1 .. MaxTasks :
       accepted[r] >= n ~> ended[r] >= n
=============================================================================
