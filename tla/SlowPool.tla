------------------------------ MODULE SlowPool ------------------------------
(***************************************************************************)
(* The realtime server's pool of slow tasks (SlowPool in RealtimeServer/   *)
(* src/service/BusinessScheduler.cpp) and the way a business operation     *)
(* uses it (SerialCommandQueue::Operation): Reserve once, Await any number *)
(* of tasks one after the other, ReleaseCapacity at the end.               *)
(*                                                                         *)
(* Each action is one critical section of m_mutex, or the step a thread    *)
(* takes outside it.  A Reserve or a Submit that is refused changes        *)
(* nothing.  An operation is known to the pool by its queue, which runs    *)
(* one operation at a time.                                                *)
(***************************************************************************)
EXTENDS Integers, Sequences, FiniteSets

CONSTANTS
    Ops,       \* operations that may use the pool
    Threads,   \* m_threads
    Capacity,  \* m_capacity
    NoOp       \* the thread has no task

ASSUME OpsAssumption == IsFiniteSet(Ops) /\ NoOp \notin Ops
ASSUME ThreadsAssumption == IsFiniteSet(Threads)
ASSUME CapacityAssumption == Capacity \in Nat \ {0}

VARIABLES
    m_reserved,  \* reservations handed out
    m_pending,   \* tasks queued or running
    m_tasks,     \* m_tasks, each task named by its operation
    m_stopping,  \* Join has been called
    thread,      \* thread[t]: program counter of Run
    task,        \* task[t]: the task of thread t
    holders,     \* operations with this pool in m_reserved_pools
    awaiting     \* operations suspended in Await on this pool

poolVars == <<m_reserved, m_pending, m_tasks, m_stopping, thread, task,
              holders, awaiting>>

TypeOK ==
    /\ m_reserved \in 0 .. Capacity
    /\ m_pending \in 0 .. Capacity
    /\ m_tasks \in Seq(Ops)
    /\ m_stopping \in BOOLEAN
    /\ thread \in [Threads -> {"check", "waiting", "run", "complete", "exited"}]
    /\ task \in [Threads -> Ops \cup {NoOp}]
    /\ holders \in SUBSET Ops
    /\ awaiting \in SUBSET Ops

Init ==
    /\ m_reserved = 0
    /\ m_pending = 0
    /\ m_tasks = <<>>
    /\ m_stopping = FALSE
    /\ thread = [t \in Threads |-> "check"]
    /\ task = [t \in Threads |-> NoOp]
    /\ holders = {}
    /\ awaiting = {}

-----------------------------------------------------------------------------
(* Seeded fault: one reservation too many.                                 *)
CanReserve_OffByOne == ~m_stopping /\ m_reserved <= Capacity

(* Operation::Reserve, first successful try.  An operation that already    *)
(* holds the pool returns at once.                                         *)
CanReserve == ~m_stopping /\ m_reserved < Capacity

Reserve(o) ==
    /\ o \notin holders
    /\ CanReserve
    /\ m_reserved' = m_reserved + 1
    /\ holders' = holders \cup {o}
    /\ UNCHANGED <<m_pending, m_tasks, m_stopping, thread, task, awaiting>>

(* Operation::ReleaseCapacity.                                             *)
ReleaseCapacity(o) ==
    /\ o \in holders
    /\ o \notin awaiting
    /\ m_reserved' = m_reserved - 1
    /\ holders' = holders \ {o}
    /\ UNCHANGED <<m_pending, m_tasks, m_stopping, thread, task, awaiting>>

(* Submit from Await; notify_one wakes some sleeping thread, if any.       *)
CanSubmit == ~m_stopping /\ m_pending < Capacity

(* Seeded fault: no thread is woken.                                       *)
NotifyOne_Missing == UNCHANGED thread

NotifyOne ==
    IF \E t \in Threads : thread[t] = "waiting"
    THEN \E t \in Threads : /\ thread[t] = "waiting"
                            /\ thread' = [thread EXCEPT ![t] = "check"]
    ELSE UNCHANGED thread

Submit(o) ==
    /\ o \in holders
    /\ o \notin awaiting
    /\ CanSubmit
    /\ m_tasks' = Append(m_tasks, o)
    /\ m_pending' = m_pending + 1
    /\ awaiting' = awaiting \cup {o}
    /\ NotifyOne
    /\ UNCHANGED <<m_reserved, m_stopping, task, holders>>

-----------------------------------------------------------------------------
(* Run: the wait predicate is false.                                       *)
Sleep(t) ==
    /\ thread[t] = "check"
    /\ ~m_stopping
    /\ m_tasks = <<>>
    /\ thread' = [thread EXCEPT ![t] = "waiting"]
    /\ UNCHANGED <<m_reserved, m_pending, m_tasks, m_stopping, task, holders, awaiting>>

(* Seeded fault: the task is copied, not taken.                            *)
Pop_Copies(t) ==
    /\ thread[t] = "check"
    /\ m_tasks # <<>>
    /\ task' = [task EXCEPT ![t] = Head(m_tasks)]
    /\ thread' = [thread EXCEPT ![t] = "run"]
    /\ UNCHANGED <<m_reserved, m_pending, m_tasks, m_stopping, holders, awaiting>>

(* Run: take the first task.                                               *)
Pop(t) ==
    /\ thread[t] = "check"
    /\ m_tasks # <<>>
    /\ task' = [task EXCEPT ![t] = Head(m_tasks)]
    /\ m_tasks' = Tail(m_tasks)
    /\ thread' = [thread EXCEPT ![t] = "run"]
    /\ UNCHANGED <<m_reserved, m_pending, m_stopping, holders, awaiting>>

(* Run: the task has returned; its place is given back first ...           *)
Return(t) ==
    /\ thread[t] = "run"
    /\ m_pending' = m_pending - 1
    /\ thread' = [thread EXCEPT ![t] = "complete"]
    /\ UNCHANGED <<m_reserved, m_tasks, m_stopping, task, holders, awaiting>>

(* ... and only then its operation may go on.                              *)
Complete(t) ==
    /\ thread[t] = "complete"
    /\ awaiting' = awaiting \ {task[t]}
    /\ task' = [task EXCEPT ![t] = NoOp]
    /\ thread' = [thread EXCEPT ![t] = "check"]
    /\ UNCHANGED <<m_reserved, m_pending, m_tasks, m_stopping, holders>>

(* Run: stopping and no task left.                                         *)
Exit(t) ==
    /\ thread[t] = "check"
    /\ m_stopping
    /\ m_tasks = <<>>
    /\ thread' = [thread EXCEPT ![t] = "exited"]
    /\ UNCHANGED <<m_reserved, m_pending, m_tasks, m_stopping, task, holders, awaiting>>

(* Join: stop accepting and wake every sleeping thread (notify_all).       *)
Join ==
    /\ ~m_stopping
    /\ m_stopping' = TRUE
    /\ thread' = [t \in Threads |-> IF thread[t] = "waiting" THEN "check" ELSE thread[t]]
    /\ UNCHANGED <<m_reserved, m_pending, m_tasks, task, holders, awaiting>>

(* LogicSystem::Shutdown joins the pool after WaitIdle, when no operation  *)
(* is left; LogicDispatch models that wait.                                *)
Shutdown == holders = {} /\ Join

(* Every thread has been joined; nothing more happens.                     *)
Joined ==
    /\ m_stopping
    /\ \A t \in Threads : thread[t] = "exited"
    /\ UNCHANGED poolVars

PoolThread(t) == Sleep(t) \/ Pop(t) \/ Return(t) \/ Complete(t) \/ Exit(t)

Next ==
    \/ \E o \in Ops : Reserve(o) \/ ReleaseCapacity(o) \/ Submit(o)
    \/ \E t \in Threads : PoolThread(t)
    \/ Shutdown
    \/ Joined

Spec == Init /\ [][Next]_poolVars

(* The pool's threads run; nothing makes operations reserve or submit.     *)
FairSpec == Spec /\ \A t \in Threads : WF_poolVars(PoolThread(t))

-----------------------------------------------------------------------------
(* Properties                                                              *)

(* Dispatch reserves before the first state change so that "a multi-step   *)
(* write does not stop half way because the pool is full": an operation    *)
(* that holds a reservation and has no task under way finds a place        *)
(* whenever it submits, however the other operations and the threads       *)
(* interleave.                                                             *)
ReservationHonoured ==
    \A o \in holders : o \notin awaiting => CanSubmit

(* No suspended operation is forgotten and none is resumed twice: its task *)
(* is in exactly one place, the queue or one thread, and the tasks that    *)
(* are counted are the ones not yet returned.                              *)
TasksAccounted ==
    /\ \A i, j \in 1 .. Len(m_tasks) : m_tasks[i] = m_tasks[j] => i = j
    /\ \A i \in 1 .. Len(m_tasks) : m_tasks[i] \in awaiting
    /\ \A t \in Threads : task[t] # NoOp =>
          /\ task[t] \in awaiting
          /\ \A i \in 1 .. Len(m_tasks) : m_tasks[i] # task[t]
          /\ \A u \in Threads : task[u] = task[t] => u = t
    /\ \A o \in awaiting : \/ \E i \in 1 .. Len(m_tasks) : m_tasks[i] = o
                           \/ \E t \in Threads : task[t] = o

(* Only operations that hold a reservation are suspended in the pool, and  *)
(* none is when the threads are told to stop.                              *)
StopsIdle ==
    /\ awaiting \subseteq holders
    /\ m_stopping => holders = {} /\ m_tasks = <<>>

(* Every task runs and its operation is resumed.                           *)
EveryAwaitReturns == \A o \in Ops : o \in awaiting ~> o \notin awaiting
=============================================================================
