----------------------- MODULE RoomThreadPool_proofs -----------------------
(***************************************************************************)
(* Proofs about RoomThreadPool: its type invariant, the inductive          *)
(* invariant behind its safety properties, and that it implements          *)
(* SerialRooms, for every set of meetings, number of workers, hash and     *)
(* number of tasks.                                                        *)
(***************************************************************************)
EXTENDS RoomThreadPool, TLAPS

(* A meeting has an entry exactly when it is scheduled, and then it is     *)
(* either ready or being handled by its worker.                            *)
Places ==
    \A r \in Rooms :
       /\ r \in roomQueues <=> scheduled[r]
       /\ r \in roomQueues <=> (InReady(r) \/ current[WorkerIndex(r)] = r)
       /\ r \notin roomQueues => tasks[r] = <<>>
       /\ InReady(r) => tasks[r] # <<>>

(* The meeting being handled belongs to the worker that handles it.        *)
Handling ==
    \A w \in Workers :
       /\ pc[w] = "handling" <=> current[w] # NoRoom
       /\ current[w] # NoRoom => WorkerIndex(current[w]) = w

(* The tasks in a meeting's queue are the accepted ones not begun yet, in  *)
(* order, and one task is between begun and ended while it is handled.     *)
Numbering ==
    \A r \in Rooms :
       /\ Len(tasks[r]) = accepted[r] - begun[r]
       /\ \A i \in 1 .. Len(tasks[r]) : tasks[r][i] = begun[r] + i
       /\ begun[r] = ended[r] + (IF current[WorkerIndex(r)] = r THEN 1 ELSE 0)

(* A worker told to stop stays told, and one that returned has no work.    *)
Stopping ==
    \A w \in Workers :
       /\ stopping[w] <=> w < stopped
       /\ pc[w] = "exited" => stopping[w] /\ ready[w] = <<>>

PoolInv ==
    /\ TypeOK
    /\ ScheduledOnce
    /\ Places
    /\ Handling
    /\ Numbering
    /\ Stopping
    /\ NoLostWakeup

-----------------------------------------------------------------------------
(* Every meeting has a worker.                                             *)
LEMMA WorkerOfRoom == \A r \in Rooms : WorkerIndex(r) \in Workers
  BY WorkerAssumption, HashAssumption DEF WorkerIndex, Workers

(* The first worker the destructor has not told to stop exists.            *)
LEMMA StopTarget ==
    ASSUME stopped \in 0 .. WorkerCount, stopped < WorkerCount
    PROVE  stopped \in Workers
  BY WorkerAssumption DEF Workers

(* Appending and dropping the head, by position.                           *)
LEMMA AppendFacts ==
    ASSUME NEW S, NEW s \in Seq(S), NEW e \in S
    PROVE  /\ Append(s, e) \in Seq(S)
           /\ Len(Append(s, e)) = Len(s) + 1
           /\ \A i \in 1 .. Len(s) : Append(s, e)[i] = s[i]
           /\ Append(s, e)[Len(s) + 1] = e
           /\ Append(s, e) # <<>>
  OBVIOUS

LEMMA TailFacts ==
    ASSUME NEW S, NEW s \in Seq(S), s # <<>>
    PROVE  /\ Head(s) \in S
           /\ Head(s) = s[1]
           /\ Len(s) \in Nat \ {0}
           /\ Tail(s) \in Seq(S)
           /\ Len(Tail(s)) = Len(s) - 1
           /\ \A i \in 1 .. Len(s) - 1 : Tail(s)[i] = s[i + 1]
  OBVIOUS

LEMMA EmptyFacts ==
    ASSUME NEW S, NEW s \in Seq(S)
    PROVE  /\ s = <<>> <=> Len(s) = 0
           /\ Len(s) \in Nat
           /\ \A i \in 1 .. Len(s) : s[i] \in S
  OBVIOUS

-----------------------------------------------------------------------------
(* The type invariant: every action of the pool keeps the maps, flags,     *)
(* queues and program counters in their types.  A task queue or a ready    *)
(* queue is popped only when it is not empty, which is why this needs      *)
(* the other conjuncts of PoolInv.                                         *)
LEMMA TypeStep == PoolInv /\ [Next]_vars => TypeOK'
<1> SUFFICES ASSUME PoolInv, [Next]_vars PROVE TypeOK'
  OBVIOUS
<1> USE DEF PoolInv, TypeOK
<1>1. ASSUME NEW r \in Rooms, Post(r) PROVE TypeOK'
  <2>1. WorkerIndex(r) \in Workers
    BY WorkerOfRoom
  <2>2. Append(tasks[r], accepted[r] + 1) \in Seq(Nat)
    BY AppendFacts
  <2>3. Append(ready[WorkerIndex(r)], r) \in Seq(Rooms)
    BY <2>1, AppendFacts
  <2>4. tasks' \in [Rooms -> Seq(Nat)]
    BY <1>1, <2>2 DEF Post
  <2>5. ready' \in [Workers -> Seq(Rooms)]
    <3>1. CASE scheduled[r]
      BY <1>1, <3>1 DEF Post
    <3>2. CASE ~scheduled[r]
      BY <1>1, <2>1, <2>3, <3>2 DEF Post
    <3> QED
      BY <3>1, <3>2
  <2>6. scheduled' \in [Rooms -> BOOLEAN]
    BY <1>1 DEF Post
  <2>7. notifies' \in [Workers -> Nat] /\ accepted' \in [Rooms -> Nat]
    BY <1>1, <2>1 DEF Post
  <2> QED
    BY <1>1, <2>4, <2>5, <2>6, <2>7 DEF Post
<1>2. ASSUME NEW w \in Workers, Notify(w) PROVE TypeOK'
  <2>1. notifies[w] - 1 \in Nat
    BY <1>2 DEF Notify
  <2>2. notifies' \in [Workers -> Nat]
    BY <1>2, <2>1 DEF Notify
  <2> QED
    BY <1>2, <2>2 DEF Notify
<1>3. ASSUME NEW w \in Workers, Sleep(w) PROVE TypeOK'
  BY <1>3 DEF Sleep
<1>4. ASSUME NEW w \in Workers, Exit(w) PROVE TypeOK'
  BY <1>4 DEF Exit
<1>5. ASSUME NEW w \in Workers, Take(w) PROVE TypeOK'
  <2> DEFINE r == Head(ready[w])
  <2>1. r \in Rooms /\ Tail(ready[w]) \in Seq(Rooms) /\ r = ready[w][1] /\ Len(ready[w]) \in Nat \ {0}
    BY <1>5, TailFacts DEF Take
  <2>2. WorkerIndex(r) = w
    BY <2>1 DEF ScheduledOnce
  <2>3. InReady(r)
    BY <2>1, <2>2 DEF InReady
  <2>4. tasks[r] # <<>>
    BY <2>1, <2>3 DEF Places
  <2>5. Head(tasks[r]) \in Nat /\ Tail(tasks[r]) \in Seq(Nat)
    BY <2>1, <2>4, TailFacts
  <2> QED
    BY <1>5, <2>1, <2>5 DEF Take
<1>6. ASSUME NEW w \in Workers, Finish(w) PROVE TypeOK'
  <2>1. current[w] \in Rooms
    BY <1>6 DEF Finish, Handling
  <2>2. Append(ready[w], current[w]) \in Seq(Rooms)
    BY <2>1, AppendFacts
  <2> QED
    BY <1>6, <2>1, <2>2 DEF Finish
<1>7. CASE StopWorker
  BY <1>7, StopTarget, WorkerAssumption DEF StopWorker
<1>8. CASE Join
  BY <1>8 DEF Join
<1>9. CASE UNCHANGED vars
  BY <1>9 DEF vars
<1> QED
  BY <1>1, <1>2, <1>3, <1>4, <1>5, <1>6, <1>7, <1>8, <1>9
  DEF Next, Worker, Terminated

-----------------------------------------------------------------------------
(* Post keeps the invariant: a new entry is appended to the ready queue    *)
(* only when the meeting is in no place yet.                               *)
LEMMA PostStep ==
    ASSUME PoolInv, NEW r \in Rooms, Post(r)
    PROVE  ScheduledOnce' /\ Places' /\ Handling' /\ Numbering' /\ Stopping'
           /\ NoLostWakeup'
<1> DEFINE w == WorkerIndex(r)
<1>1. w \in Workers
  BY WorkerOfRoom
<1>2. TypeOK /\ TypeOK'
  BY TypeStep DEF PoolInv, Next
<1>3. /\ tasks' = [tasks EXCEPT ![r] = Append(tasks[r], accepted[r] + 1)]
      /\ Len(tasks'[r]) = Len(tasks[r]) + 1
      /\ \A i \in 1 .. Len(tasks[r]) : tasks'[r][i] = tasks[r][i]
      /\ tasks'[r][Len(tasks[r]) + 1] = accepted[r] + 1
      /\ tasks'[r] # <<>>
  <2>1. /\ tasks' = [tasks EXCEPT ![r] = Append(tasks[r], accepted[r] + 1)]
        /\ tasks[r] \in Seq(Nat) /\ accepted[r] + 1 \in Nat
    BY <1>2 DEF Post, TypeOK
  <2>2. tasks'[r] = Append(tasks[r], accepted[r] + 1)
    BY <1>2, <2>1 DEF TypeOK
  <2> DEFINE s == tasks[r]
             e == accepted[r] + 1
  <2>3. s \in Seq(Nat) /\ e \in Nat
    BY <2>1
  <2> HIDE DEF s, e
  <2>4. /\ Len(Append(s, e)) = Len(s) + 1
        /\ \A i \in 1 .. Len(s) : Append(s, e)[i] = s[i]
        /\ Append(s, e)[Len(s) + 1] = e
        /\ Append(s, e) # <<>>
    BY <2>3, AppendFacts
  <2> QED
    BY <2>1, <2>2, <2>4, Zenon DEF s, e
<1>4. \A q \in Rooms : q # r => tasks'[q] = tasks[q] /\ accepted'[q] = accepted[q]
                                /\ (scheduled'[q] <=> scheduled[q])
  BY <1>2 DEF Post, TypeOK
<1>5. /\ roomQueues' = roomQueues \cup {r} /\ scheduled'[r]
      /\ accepted'[r] = accepted[r] + 1
      /\ notifies'[w] > 0 /\ notifies'[w] = notifies[w] + 1
      /\ \A v \in Workers : v # w => notifies'[v] = notifies[v]
      /\ UNCHANGED <<stopping, pc, current, stopped, begun, ended>>
      /\ ~stopping[w]
  BY <1>1, <1>2 DEF Post, TypeOK
<1>6. \A v \in Workers : v # w => ready'[v] = ready[v]
  BY <1>1, <1>2 DEF Post, TypeOK
<1>7. Handling'
  BY <1>5 DEF Handling, PoolInv, WorkerIndex
<1>8. Numbering'
  <2> SUFFICES ASSUME NEW q \in Rooms
               PROVE /\ Len(tasks'[q]) = accepted'[q] - begun'[q]
                     /\ \A i \in 1 .. Len(tasks'[q]) : tasks'[q][i] = begun'[q] + i
                     /\ begun'[q] = ended'[q] + (IF current'[WorkerIndex(q)] = q THEN 1 ELSE 0)
    BY DEF Numbering, WorkerIndex
  <2>1. CASE q # r
    BY <2>1, <1>4, <1>5 DEF Numbering, PoolInv, WorkerIndex
  <2>2. CASE q = r
    <3> DEFINE n == Len(tasks[r])
               m == Len(tasks'[r])
    <3>0. /\ begun[r] \in Nat /\ accepted[r] \in Nat /\ n \in Nat
          /\ n = accepted[r] - begun[r]
          /\ \A i \in 1 .. n : tasks[r][i] = begun[r] + i
          /\ begun'[r] = begun[r] /\ accepted'[r] = accepted[r] + 1 /\ m = n + 1
      BY <1>2, <1>3, <1>5, EmptyFacts DEF Numbering, PoolInv, TypeOK
    <3> HIDE DEF n, m
    <3>1. m = accepted'[r] - begun'[r]
      BY <3>0
    <3>2. ASSUME NEW i \in 1 .. m PROVE tasks'[r][i] = begun'[r] + i
      <4>1. CASE i \in 1 .. n
        BY <4>1, <3>0, <1>3 DEF n
      <4>2. CASE i = n + 1
        BY <4>2, <3>0, <1>3 DEF n
      <4> QED
        BY <3>0, <4>1, <4>2
    <3> USE DEF m
    <3> QED
      BY <2>2, <3>1, <3>2, <1>5 DEF Numbering, PoolInv, WorkerIndex
  <2> QED
    BY <2>1, <2>2
<1>9. CASE scheduled[r]
  <2>1. ready' = ready
    BY <1>9 DEF Post
  <2>2. ScheduledOnce'
    BY <2>1, <1>5 DEF ScheduledOnce, PoolInv, WorkerIndex
  <2>3. Places'
    BY <2>1, <1>2, <1>3, <1>4, <1>5, <1>9 DEF Places, PoolInv, WorkerIndex, InReady
  <2>4. Stopping' /\ NoLostWakeup'
    BY <2>1, <1>5 DEF Stopping, NoLostWakeup, PoolInv
  <2> QED
    BY <2>2, <2>3, <2>4, <1>7, <1>8
<1>10. CASE ~scheduled[r]
  <2>1. /\ ready'[w] = Append(ready[w], r)
        /\ Len(ready'[w]) = Len(ready[w]) + 1
        /\ \A i \in 1 .. Len(ready[w]) : ready'[w][i] = ready[w][i]
        /\ ready'[w][Len(ready[w]) + 1] = r
        /\ Len(ready[w]) \in Nat
    BY <1>1, <1>2, <1>10, AppendFacts, EmptyFacts DEF Post, TypeOK
  <2>2. /\ \A i \in 1 .. Len(ready[w]) : ready[w][i] # r
        /\ current[w] # r
    BY <1>10 DEF Places, PoolInv, InReady
  <2>3. ScheduledOnce'
    <3> SUFFICES ASSUME NEW v \in Workers
                 PROVE /\ \A i, j \in 1 .. Len(ready'[v]) : ready'[v][i] = ready'[v][j] => i = j
                       /\ \A i \in 1 .. Len(ready'[v]) :
                             WorkerIndex(ready'[v][i]) = v /\ ready'[v][i] # current'[v]
      BY DEF ScheduledOnce, WorkerIndex
    <3>1. CASE v # w
      BY <3>1, <1>5, <1>6 DEF ScheduledOnce, PoolInv
    <3>2. CASE v = w
      <4>1. \A i \in 1 .. Len(ready'[w]) : i \in 1 .. Len(ready[w]) \/ i = Len(ready[w]) + 1
        BY <2>1
      <4> QED
        BY <3>2, <4>1, <2>1, <2>2, <1>5 DEF ScheduledOnce, PoolInv
    <3> QED
      BY <3>1, <3>2
  <2>4. InReady(r)'
    BY <2>1 DEF InReady, WorkerIndex
  <2>5. \A q \in Rooms : q # r => (InReady(q)' <=> InReady(q))
    <3> SUFFICES ASSUME NEW q \in Rooms, q # r PROVE InReady(q)' <=> InReady(q)
      OBVIOUS
    <3>1. WorkerIndex(q) \in Workers
      BY WorkerOfRoom
    <3>2. CASE WorkerIndex(q) # w
      BY <3>1, <3>2, <1>6 DEF InReady, WorkerIndex
    <3>3. CASE WorkerIndex(q) = w
      <4>1. \A i \in 1 .. Len(ready'[w]) : i \in 1 .. Len(ready[w]) \/ i = Len(ready[w]) + 1
        BY <2>1
      <4>2. \A i \in 1 .. Len(ready[w]) : i \in 1 .. Len(ready'[w])
        BY <2>1
      <4> QED
        BY <3>3, <4>1, <4>2, <2>1 DEF InReady, WorkerIndex
    <3> QED
      BY <3>2, <3>3
  <2>6. Places'
    BY <2>4, <2>5, <1>3, <1>4, <1>5 DEF Places, PoolInv, WorkerIndex
  <2>7. Stopping'
    BY <1>1, <1>5, <1>6 DEF Stopping, PoolInv
  <2>8. NoLostWakeup'
    BY <1>5, <1>6 DEF NoLostWakeup, PoolInv
  <2> QED
    BY <2>3, <2>6, <2>7, <2>8, <1>7, <1>8
<1> QED
  BY <1>9, <1>10

(* A step that leaves the queues, the current meetings and the history     *)
(* alone keeps the parts of the invariant that speak only of them.         *)
LEMMA QuietStep ==
    ASSUME PoolInv,
           UNCHANGED <<roomQueues, tasks, scheduled, ready, current,
                       accepted, begun, ended>>
    PROVE  ScheduledOnce' /\ Places' /\ Numbering'
<1>1. ScheduledOnce'
  BY DEF PoolInv, ScheduledOnce, WorkerIndex
<1>2. Places'
  BY DEF PoolInv, Places, InReady, WorkerIndex
<1>3. Numbering'
  BY DEF PoolInv, Numbering, WorkerIndex
<1> QED
  BY <1>1, <1>2, <1>3

(* notify_one moves a sleeping worker back to its check of the predicate.  *)
LEMMA NotifyStep ==
    ASSUME PoolInv, NEW w \in Workers, Notify(w)
    PROVE  ScheduledOnce' /\ Places' /\ Handling' /\ Numbering' /\ Stopping'
           /\ NoLostWakeup'
<1>1. Handling'
  BY DEF Notify, PoolInv, Handling, TypeOK, WorkerIndex
<1>2. Stopping'
  BY DEF Notify, PoolInv, Stopping, TypeOK
<1>3. NoLostWakeup'
  BY DEF Notify, PoolInv, NoLostWakeup, TypeOK
<1> QED
  BY <1>1, <1>2, <1>3, QuietStep DEF Notify

(* A worker goes to sleep only when its predicate is false.                *)
LEMMA SleepStep ==
    ASSUME PoolInv, NEW w \in Workers, Sleep(w)
    PROVE  ScheduledOnce' /\ Places' /\ Handling' /\ Numbering' /\ Stopping'
           /\ NoLostWakeup'
<1>1. Handling'
  BY DEF Sleep, PoolInv, Handling, TypeOK, WorkerIndex
<1>2. Stopping'
  BY DEF Sleep, PoolInv, Stopping, TypeOK
<1>3. NoLostWakeup'
  BY DEF Sleep, PoolInv, NoLostWakeup, TypeOK
<1> QED
  BY <1>1, <1>2, <1>3, QuietStep DEF Sleep

(* A worker returns only when it is stopping and has nothing ready.        *)
LEMMA ExitStep ==
    ASSUME PoolInv, NEW w \in Workers, Exit(w)
    PROVE  ScheduledOnce' /\ Places' /\ Handling' /\ Numbering' /\ Stopping'
           /\ NoLostWakeup'
<1>1. Handling'
  BY DEF Exit, PoolInv, Handling, TypeOK, WorkerIndex
<1>2. Stopping'
  BY DEF Exit, PoolInv, Stopping, TypeOK
<1>3. NoLostWakeup'
  BY DEF Exit, PoolInv, NoLostWakeup, TypeOK
<1> QED
  BY <1>1, <1>2, <1>3, QuietStep DEF Exit

(* The destructor's stop request comes with a notification of its own.     *)
LEMMA StopStep ==
    ASSUME PoolInv, StopWorker
    PROVE  ScheduledOnce' /\ Places' /\ Handling' /\ Numbering' /\ Stopping'
           /\ NoLostWakeup'
<1>0. stopped \in Workers
  BY StopTarget DEF StopWorker, PoolInv, TypeOK
<1>1. Handling'
  BY DEF StopWorker, PoolInv, Handling, WorkerIndex
<1>2. Stopping'
  <2> SUFFICES ASSUME NEW v \in Workers
               PROVE /\ stopping'[v] <=> v < stopped'
                     /\ pc'[v] = "exited" => stopping'[v] /\ ready'[v] = <<>>
    BY DEF Stopping
  <2>1. v \in Int /\ stopped \in Int /\ stopped' = stopped + 1
    BY <1>0 DEF Workers, StopWorker
  <2>2. CASE v = stopped
    <3>1. stopping'[v] = TRUE /\ v < stopped' /\ ready'[v] = ready[v] /\ pc'[v] = pc[v]
      BY <1>0, <2>1, <2>2 DEF StopWorker, PoolInv, TypeOK
    <3> QED
      BY <3>1 DEF PoolInv, Stopping
  <2>3. CASE v # stopped
    <3>1. stopping'[v] = stopping[v] /\ (v < stopped' <=> v < stopped)
      BY <1>0, <2>1, <2>3 DEF StopWorker, PoolInv, TypeOK
    <3>2. ready'[v] = ready[v] /\ pc'[v] = pc[v]
      BY DEF StopWorker
    <3> QED
      BY <3>1, <3>2 DEF PoolInv, Stopping
  <2> QED
    BY <2>2, <2>3
<1>3. NoLostWakeup'
  BY <1>0 DEF StopWorker, PoolInv, NoLostWakeup, TypeOK
<1> QED
  BY <1>1, <1>2, <1>3, QuietStep DEF StopWorker

(* Join, and steps that change nothing, keep the invariant.                *)
LEMMA IdleStep ==
    ASSUME PoolInv, Join \/ UNCHANGED vars
    PROVE  ScheduledOnce' /\ Places' /\ Handling' /\ Numbering' /\ Stopping'
           /\ NoLostWakeup'
<1>0. UNCHANGED <<roomQueues, tasks, scheduled, ready, stopping, pc, current,
                  notifies, stopped, accepted, begun, ended>>
  BY DEF Join, vars
<1>1. Handling' /\ Stopping' /\ NoLostWakeup'
  BY <1>0 DEF PoolInv, Handling, Stopping, NoLostWakeup, WorkerIndex
<1> QED
  BY <1>0, <1>1, QuietStep

(* Take moves the front meeting of a worker from ready to current.         *)
LEMMA TakeStep ==
    ASSUME PoolInv, NEW w \in Workers, Take(w)
    PROVE  ScheduledOnce' /\ Places' /\ Handling' /\ Numbering' /\ Stopping'
           /\ NoLostWakeup'
<1>0. PICK r \in Rooms : r = Head(ready[w])
  BY TailFacts DEF Take, PoolInv, TypeOK
<1> DEFINE n == Len(ready[w])
<1>1. /\ ready[w] # <<>> /\ r = ready[w][1] /\ n \in Nat \ {0}
      /\ ready'[w] = Tail(ready[w]) /\ Len(ready'[w]) = n - 1
      /\ \A i \in 1 .. n - 1 : ready'[w][i] = ready[w][i + 1]
      /\ \A v \in Workers : v # w => ready'[v] = ready[v]
  BY <1>0, TailFacts DEF Take, PoolInv, TypeOK
<1>2. WorkerIndex(r) = w /\ current[w] = NoRoom /\ pc[w] = "lock"
  BY <1>1 DEF Take, PoolInv, ScheduledOnce, Handling
<1>3. r \in roomQueues /\ scheduled[r] /\ InReady(r) /\ tasks[r] # <<>>
  <2>1. InReady(r)
    BY <1>1, <1>2 DEF InReady
  <2> QED
    BY <2>1, <1>1 DEF PoolInv, Places
<1>4. /\ UNCHANGED <<roomQueues, scheduled, stopping, notifies, stopped, accepted, ended>>
      /\ current'[w] = r /\ pc'[w] = "handling"
      /\ \A v \in Workers : v # w => current'[v] = current[v] /\ pc'[v] = pc[v]
  BY <1>0 DEF Take, PoolInv, TypeOK
<1>5. /\ tasks[r] \in Seq(Nat) /\ tasks'[r] = Tail(tasks[r])
      /\ Len(tasks[r]) \in Nat \ {0}
      /\ Len(tasks'[r]) = Len(tasks[r]) - 1
      /\ \A i \in 1 .. Len(tasks[r]) - 1 : tasks'[r][i] = tasks[r][i + 1]
      /\ begun'[r] = tasks[r][1]
      /\ \A q \in Rooms : q # r => tasks'[q] = tasks[q] /\ begun'[q] = begun[q]
  <2>1. /\ tasks[r] \in Seq(Nat) /\ tasks'[r] = Tail(tasks[r])
        /\ begun'[r] = Head(tasks[r])
        /\ \A q \in Rooms : q # r => tasks'[q] = tasks[q] /\ begun'[q] = begun[q]
    BY <1>0 DEF Take, PoolInv, TypeOK
  <2> DEFINE s == tasks[r]
  <2>2. s \in Seq(Nat) /\ s # <<>>
    BY <2>1, <1>3
  <2> HIDE DEF s
  <2>3. /\ Head(s) = s[1] /\ Len(s) \in Nat \ {0} /\ Len(Tail(s)) = Len(s) - 1
        /\ \A i \in 1 .. Len(s) - 1 : Tail(s)[i] = s[i + 1]
    BY <2>2, TailFacts
  <2> QED
    BY <2>1, <2>3, Zenon DEF s
<1>6. begun'[r] = begun[r] + 1 /\ begun[r] \in Nat /\ accepted[r] \in Nat
  <2>1. 1 \in 1 .. Len(tasks[r])
    BY <1>5
  <2>2. tasks[r][1] = begun[r] + 1
    BY <2>1 DEF PoolInv, Numbering
  <2> QED
    BY <2>2, <1>5 DEF PoolInv, TypeOK
<1>7. \A i \in 1 .. n : i # 1 => ready[w][i] # r
  <2> SUFFICES ASSUME NEW i \in 1 .. n, i # 1 PROVE ready[w][i] # r
    OBVIOUS
  <2>1. 1 \in 1 .. n
    BY <1>1
  <2> QED
    BY <1>1, <2>1 DEF PoolInv, ScheduledOnce
<1> HIDE DEF n
<1>8. ScheduledOnce'
  <2> SUFFICES ASSUME NEW v \in Workers
               PROVE /\ \A i, j \in 1 .. Len(ready'[v]) : ready'[v][i] = ready'[v][j] => i = j
                     /\ \A i \in 1 .. Len(ready'[v]) :
                           WorkerIndex(ready'[v][i]) = v /\ ready'[v][i] # current'[v]
    BY DEF ScheduledOnce, WorkerIndex
  <2>1. CASE v # w
    BY <2>1, <1>1, <1>4 DEF PoolInv, ScheduledOnce
  <2>2. CASE v = w
    <3>1. \A i \in 1 .. n - 1 : i + 1 \in 1 .. n /\ i + 1 # 1
      BY <1>1
    <3>2. ASSUME NEW i \in 1 .. n - 1, NEW j \in 1 .. n - 1,
                 ready'[w][i] = ready'[w][j]
          PROVE  i = j
      <4>1. ready[w][i + 1] = ready[w][j + 1]
        BY <3>2, <1>1
      <4>2. \A a, b \in 1 .. n : ready[w][a] = ready[w][b] => a = b
        BY DEF PoolInv, ScheduledOnce, n
      <4>3. i + 1 = j + 1
        BY <3>1, <4>1, <4>2
      <4> QED
        BY <4>3
    <3>3. \A i \in 1 .. n - 1 : WorkerIndex(ready'[w][i]) = w /\ ready'[w][i] # r
      BY <3>1, <1>1, <1>7 DEF PoolInv, ScheduledOnce, n
    <3>4. Len(ready'[w]) = n - 1 /\ current'[w] = r
      BY <1>1, <1>4
    <3> QED
      BY <2>2, <3>2, <3>3, <3>4, Zenon
  <2> QED
    BY <2>1, <2>2
<1>9. \A q \in Rooms : q # r => (InReady(q)' <=> InReady(q))
  <2> SUFFICES ASSUME NEW q \in Rooms, q # r PROVE InReady(q)' <=> InReady(q)
    OBVIOUS
  <2>1. CASE WorkerIndex(q) # w
    BY <2>1, <1>1, WorkerOfRoom DEF InReady, WorkerIndex
  <2>2. CASE WorkerIndex(q) = w
    <3>1. ASSUME InReady(q)' PROVE InReady(q)
      <4>1. PICK i \in 1 .. n - 1 : ready'[w][i] = q
        BY <3>1, <2>2, <1>1 DEF InReady, WorkerIndex
      <4>2. i + 1 \in 1 .. n /\ ready[w][i + 1] = q
        BY <4>1, <1>1
      <4> QED
        BY <4>2, <2>2 DEF InReady, n
    <3>2. ASSUME InReady(q) PROVE InReady(q)'
      <4>1. PICK i \in 1 .. n : ready[w][i] = q
        BY <3>2, <2>2 DEF InReady, n
      <4>2. i # 1
        BY <4>1, <1>1
      <4>3. i - 1 \in 1 .. n - 1 /\ ready'[w][i - 1] = q
        BY <4>1, <4>2, <1>1
      <4> QED
        BY <4>3, <2>2, <1>1 DEF InReady, WorkerIndex
    <3> QED
      BY <3>1, <3>2
  <2> QED
    BY <2>1, <2>2
<1>10. ~InReady(r)'
  <2> SUFFICES ASSUME NEW i \in 1 .. n - 1 PROVE ready'[w][i] # r
    BY <1>1, <1>2 DEF InReady, WorkerIndex
  <2>1. i + 1 \in 1 .. n /\ i + 1 # 1
    BY <1>1
  <2> QED
    BY <2>1, <1>1, <1>7
<1>11. \A q \in Rooms : q # r => (current'[WorkerIndex(q)] = q <=> current[WorkerIndex(q)] = q)
  <2> SUFFICES ASSUME NEW q \in Rooms, q # r
               PROVE current'[WorkerIndex(q)] = q <=> current[WorkerIndex(q)] = q
    OBVIOUS
  <2>1. CASE WorkerIndex(q) # w
    BY <2>1, <1>4, WorkerOfRoom
  <2>2. CASE WorkerIndex(q) = w
    BY <2>2, <1>2, <1>4, NoRoomAssumption
  <2> QED
    BY <2>1, <2>2
<1>12. Places'
  BY <1>1, <1>2, <1>3, <1>4, <1>5, <1>9, <1>10, <1>11 DEF PoolInv, Places, WorkerIndex
<1>13. Handling'
  BY <1>1, <1>2, <1>4, NoRoomAssumption DEF PoolInv, Handling, WorkerIndex
<1>14. Numbering'
  <2> SUFFICES ASSUME NEW q \in Rooms
               PROVE /\ Len(tasks'[q]) = accepted'[q] - begun'[q]
                     /\ \A i \in 1 .. Len(tasks'[q]) : tasks'[q][i] = begun'[q] + i
                     /\ begun'[q] = ended'[q] + (IF current'[WorkerIndex(q)] = q THEN 1 ELSE 0)
    BY DEF Numbering, WorkerIndex
  <2>1. CASE q # r
    BY <2>1, <1>4, <1>5, <1>11 DEF PoolInv, Numbering
  <2>2. CASE q = r
    <3> DEFINE k == Len(tasks[r])
    <3>1. /\ k = accepted[r] - begun[r]
          /\ \A i \in 1 .. k : tasks[r][i] = begun[r] + i
      BY DEF PoolInv, Numbering
    <3>0. begun[r] = ended[r] /\ ended[r] \in Nat
      <4>1. current[WorkerIndex(r)] # r
        BY <1>2, NoRoomAssumption
      <4>2. begun[r] = ended[r] + 0 /\ ended[r] \in Nat
        BY <4>1 DEF PoolInv, Numbering, TypeOK
      <4> QED
        BY <4>2
    <3>2. k \in Nat \ {0} /\ Len(tasks'[r]) = k - 1
      BY <1>5
    <3> HIDE DEF k
    <3>3. k - 1 = accepted'[r] - begun'[r]
      BY <3>1, <3>2, <1>6, <1>4
    <3>4. ASSUME NEW i \in 1 .. k - 1 PROVE tasks'[r][i] = begun'[r] + i
      <4>1. i + 1 \in 1 .. k /\ tasks'[r][i] = tasks[r][i + 1]
        BY <3>2, <1>5 DEF k
      <4> QED
        BY <4>1, <3>1, <1>6
    <3>5. begun'[r] = ended'[r] + 1 /\ current'[WorkerIndex(r)] = r
      BY <3>0, <1>2, <1>4, <1>6
    <3> QED
      BY <2>2, <3>2, <3>3, <3>4, <3>5
  <2> QED
    BY <2>1, <2>2
<1>15. Stopping'
  BY <1>1, <1>4 DEF PoolInv, Stopping
<1>16. NoLostWakeup'
  BY <1>1, <1>4 DEF PoolInv, NoLostWakeup
<1> QED
  BY <1>8, <1>12, <1>13, <1>14, <1>15, <1>16

(* Finish moves the handled meeting back to ready, or drops its entry.     *)
LEMMA FinishStep ==
    ASSUME PoolInv, NEW w \in Workers, Finish(w)
    PROVE  ScheduledOnce' /\ Places' /\ Handling' /\ Numbering' /\ Stopping'
           /\ NoLostWakeup'
<1>1. PICK r \in Rooms : r = current[w]
  BY DEF Finish, PoolInv, Handling, TypeOK
<1>2. /\ WorkerIndex(r) = w /\ r \in roomQueues /\ scheduled[r] /\ pc[w] = "handling"
      /\ \A i \in 1 .. Len(ready[w]) : ready[w][i] # r
  BY <1>1, NoRoomAssumption DEF Finish, PoolInv, Handling, Places, ScheduledOnce
<1>3. ~InReady(r)
  BY <1>2 DEF InReady
<1>4. /\ UNCHANGED <<tasks, stopping, notifies, stopped, accepted, begun>>
      /\ current'[w] = NoRoom /\ pc'[w] = "lock"
      /\ \A v \in Workers : v # w => current'[v] = current[v] /\ pc'[v] = pc[v]
                                     /\ ready'[v] = ready[v]
      /\ ended'[r] = begun[r]
      /\ \A q \in Rooms : q # r => ended'[q] = ended[q]
  BY <1>1 DEF Finish, PoolInv, TypeOK
<1>5. \A q \in Rooms : current'[WorkerIndex(q)] = q <=> q # r /\ current[WorkerIndex(q)] = q
  <2> SUFFICES ASSUME NEW q \in Rooms
               PROVE current'[WorkerIndex(q)] = q <=> q # r /\ current[WorkerIndex(q)] = q
    OBVIOUS
  <2>1. CASE WorkerIndex(q) = w
    BY <2>1, <1>1, <1>4, NoRoomAssumption
  <2>2. CASE WorkerIndex(q) # w
    BY <2>2, <1>2, <1>4, WorkerOfRoom
  <2> QED
    BY <2>1, <2>2
<1>6. Handling'
  BY <1>4 DEF PoolInv, Handling, WorkerIndex
<1>7. Numbering'
  <2> SUFFICES ASSUME NEW q \in Rooms
               PROVE /\ Len(tasks'[q]) = accepted'[q] - begun'[q]
                     /\ \A i \in 1 .. Len(tasks'[q]) : tasks'[q][i] = begun'[q] + i
                     /\ begun'[q] = ended'[q] + (IF current'[WorkerIndex(q)] = q THEN 1 ELSE 0)
    BY DEF Numbering, WorkerIndex
  <2>1. /\ Len(tasks'[q]) = accepted'[q] - begun'[q]
        /\ \A i \in 1 .. Len(tasks'[q]) : tasks'[q][i] = begun'[q] + i
    BY <1>4 DEF PoolInv, Numbering
  <2>2. CASE q # r
    BY <2>1, <2>2, <1>4, <1>5 DEF PoolInv, Numbering
  <2>3. CASE q = r
    <3>1. begun'[q] = ended'[q] /\ ended'[q] \in Nat
      BY <2>3, <1>4 DEF PoolInv, TypeOK
    <3>2. current'[WorkerIndex(q)] # q
      BY <2>3, <1>5
    <3> QED
      BY <2>1, <3>1, <3>2
  <2> QED
    BY <2>2, <2>3
<1>8. NoLostWakeup'
  BY <1>4 DEF PoolInv, NoLostWakeup
<1>9. Stopping'
  BY <1>4 DEF PoolInv, Stopping
<1>10. CASE tasks[r] = <<>>
  <2>1. /\ ready' = ready /\ roomQueues' = roomQueues \ {r} /\ ~scheduled'[r]
        /\ \A q \in Rooms : q # r => (scheduled'[q] <=> scheduled[q])
    BY <1>1, <1>10 DEF Finish, PoolInv, TypeOK
  <2>2. ScheduledOnce'
    <3> SUFFICES ASSUME NEW v \in Workers
                 PROVE /\ \A i, j \in 1 .. Len(ready[v]) : ready[v][i] = ready[v][j] => i = j
                       /\ \A i \in 1 .. Len(ready[v]) :
                             WorkerIndex(ready[v][i]) = v /\ ready[v][i] # current'[v]
      BY <2>1 DEF ScheduledOnce, WorkerIndex
    <3>1. \A i \in 1 .. Len(ready[v]) : ready[v][i] \in Rooms
      BY EmptyFacts DEF PoolInv, TypeOK
    <3>2. CASE v = w
      BY <3>1, <3>2, <1>4, NoRoomAssumption DEF PoolInv, ScheduledOnce
    <3>3. CASE v # w
      BY <3>3, <1>4 DEF PoolInv, ScheduledOnce
    <3> QED
      BY <3>2, <3>3
  <2>3. \A q \in Rooms : InReady(q)' <=> InReady(q)
    BY <2>1 DEF InReady, WorkerIndex
  <2>4. Places'
    <3> SUFFICES ASSUME NEW q \in Rooms
                 PROVE /\ q \in roomQueues' <=> scheduled'[q]
                       /\ q \in roomQueues' <=> (InReady(q)' \/ current'[WorkerIndex(q)] = q)
                       /\ q \notin roomQueues' => tasks'[q] = <<>>
                       /\ InReady(q)' => tasks'[q] # <<>>
      BY DEF Places, WorkerIndex
    <3>1. CASE q = r
      BY <3>1, <2>1, <2>3, <1>3, <1>4, <1>5, <1>10
    <3>2. CASE q # r
      BY <3>2, <2>1, <2>3, <1>4, <1>5 DEF PoolInv, Places
    <3> QED
      BY <3>1, <3>2
  <2> QED
    BY <2>2, <2>4, <1>6, <1>7, <1>8, <1>9
<1>11. CASE tasks[r] # <<>>
  <2> DEFINE n == Len(ready[w])
  <2>1. /\ ready'[w] = Append(ready[w], r) /\ Len(ready'[w]) = n + 1 /\ n \in Nat
        /\ \A i \in 1 .. n : ready'[w][i] = ready[w][i]
        /\ ready'[w][n + 1] = r
        /\ \A i \in 1 .. n : ready[w][i] \in Rooms
        /\ UNCHANGED <<roomQueues, scheduled>>
    BY <1>1, <1>11, AppendFacts, EmptyFacts DEF Finish, PoolInv, TypeOK
  <2>2. \A i \in 1 .. n + 1 : i \in 1 .. n \/ i = n + 1
    BY <2>1
  <2>3. \A i \in 1 .. n : i \in 1 .. n + 1
    BY <2>1
  <2>4. n + 1 \in 1 .. n + 1
    BY <2>1
  <2> HIDE DEF n
  <2>5. ScheduledOnce'
    <3> SUFFICES ASSUME NEW v \in Workers
                 PROVE /\ \A i, j \in 1 .. Len(ready'[v]) : ready'[v][i] = ready'[v][j] => i = j
                       /\ \A i \in 1 .. Len(ready'[v]) :
                             WorkerIndex(ready'[v][i]) = v /\ ready'[v][i] # current'[v]
      BY DEF ScheduledOnce, WorkerIndex
    <3>1. CASE v # w
      BY <3>1, <1>4 DEF PoolInv, ScheduledOnce
    <3>2. CASE v = w
      <4>1. \A i, j \in 1 .. n + 1 : ready'[w][i] = ready'[w][j] => i = j
        BY <2>1, <2>2, <1>2 DEF PoolInv, ScheduledOnce, n
      <4>2. \A i \in 1 .. n + 1 : WorkerIndex(ready'[w][i]) = w /\ ready'[w][i] \in Rooms
        BY <2>1, <2>2, <1>2 DEF PoolInv, ScheduledOnce, n
      <4> QED
        BY <3>2, <4>1, <4>2, <2>1, <1>4, NoRoomAssumption
    <3> QED
      BY <3>1, <3>2
  <2>6. \A q \in Rooms : q # r => (InReady(q)' <=> InReady(q))
    <3> SUFFICES ASSUME NEW q \in Rooms, q # r PROVE InReady(q)' <=> InReady(q)
      OBVIOUS
    <3>1. CASE WorkerIndex(q) # w
      BY <3>1, <1>4, WorkerOfRoom DEF InReady, WorkerIndex
    <3>2. CASE WorkerIndex(q) = w
      BY <3>2, <2>1, <2>2, <2>3 DEF InReady, WorkerIndex, n
    <3> QED
      BY <3>1, <3>2
  <2>7. InReady(r)'
    BY <2>1, <2>4, <1>2 DEF InReady, WorkerIndex
  <2>8. Places'
    <3> SUFFICES ASSUME NEW q \in Rooms
                 PROVE /\ q \in roomQueues' <=> scheduled'[q]
                       /\ q \in roomQueues' <=> (InReady(q)' \/ current'[WorkerIndex(q)] = q)
                       /\ q \notin roomQueues' => tasks'[q] = <<>>
                       /\ InReady(q)' => tasks'[q] # <<>>
      BY DEF Places, WorkerIndex
    <3>1. CASE q = r
      BY <3>1, <2>1, <2>7, <1>2, <1>4, <1>11
    <3>2. CASE q # r
      BY <3>2, <2>1, <2>6, <1>4, <1>5 DEF PoolInv, Places
    <3> QED
      BY <3>1, <3>2
  <2> QED
    BY <2>5, <2>8, <1>6, <1>7, <1>8, <1>9
<1> QED
  BY <1>10, <1>11

-----------------------------------------------------------------------------
(* PoolInv holds initially and every step keeps it.                        *)
THEOREM Invariance == Spec => []PoolInv
<1>1. Init => PoolInv
  <2> SUFFICES ASSUME Init PROVE PoolInv
    OBVIOUS
  <2>0. <<>> \in Seq(Nat) /\ <<>> \in Seq(Rooms) /\ 0 \in 0 .. WorkerCount
    BY WorkerAssumption
  <2>1. TypeOK
    BY <2>0 DEF Init, TypeOK
  <2>2. ScheduledOnce /\ Handling /\ NoLostWakeup
    BY DEF Init, ScheduledOnce, Handling, NoLostWakeup
  <2>3. Places
    <3> SUFFICES ASSUME NEW r \in Rooms
                 PROVE  /\ r \notin roomQueues /\ ~scheduled[r] /\ tasks[r] = <<>>
                        /\ ~InReady(r) /\ current[WorkerIndex(r)] # r
      BY DEF Places
    <3>1. WorkerIndex(r) \in Workers /\ r # NoRoom
      BY WorkerOfRoom, NoRoomAssumption
    <3>2. ready[WorkerIndex(r)] = <<>> /\ current[WorkerIndex(r)] = NoRoom
      BY <3>1 DEF Init
    <3> QED
      BY <3>1, <3>2 DEF Init, InReady
  <2>4. Numbering
    <3> SUFFICES ASSUME NEW r \in Rooms
                 PROVE  /\ tasks[r] = <<>> /\ accepted[r] = 0 /\ begun[r] = 0
                        /\ ended[r] = 0 /\ current[WorkerIndex(r)] # r
      <4>1. Len(<<>>) = 0 /\ 0 = 0 - 0 /\ 0 = 0 + 0 /\ 1 .. 0 = {}
        OBVIOUS
      <4> QED
        BY <4>1 DEF Numbering
    <3>1. WorkerIndex(r) \in Workers /\ r # NoRoom
      BY WorkerOfRoom, NoRoomAssumption
    <3> QED
      BY <3>1 DEF Init
  <2>5. Stopping
    BY DEF Init, Stopping, Workers
  <2> QED
    BY <2>1, <2>2, <2>3, <2>4, <2>5 DEF PoolInv
<1>2. PoolInv /\ [Next]_vars => PoolInv'
  <2> SUFFICES ASSUME PoolInv, [Next]_vars PROVE PoolInv'
    OBVIOUS
  <2>1. TypeOK'
    BY TypeStep
  <2>2. ScheduledOnce' /\ Places' /\ Handling' /\ Numbering' /\ Stopping' /\ NoLostWakeup'
    BY PostStep, NotifyStep, SleepStep, ExitStep, TakeStep, FinishStep, StopStep,
       IdleStep DEF Next, Worker, Terminated
  <2> QED
    BY <2>1, <2>2 DEF PoolInv
<1> QED
  BY <1>1, <1>2, PTL DEF Spec

(* Type correctness of the pool.                                           *)
THEOREM TypeCorrect == Spec => []TypeOK
<1>1. PoolInv => TypeOK
  BY DEF PoolInv
<1> QED
  BY <1>1, Invariance, PTL

(* The unchecked lookups of RunWorker always succeed.                      *)
THEOREM LookupSafety == Spec => []LookupsSucceed
<1>1. PoolInv => LookupsSucceed
  <2> SUFFICES ASSUME PoolInv PROVE LookupsSucceed
    OBVIOUS
  <2>1. ASSUME NEW w \in Workers, NEW i \in 1 .. Len(ready[w])
        PROVE  ready[w][i] \in roomQueues /\ tasks[ready[w][i]] # <<>>
    <3>1. ready[w][i] \in Rooms /\ WorkerIndex(ready[w][i]) = w
      BY EmptyFacts DEF PoolInv, TypeOK, ScheduledOnce
    <3>2. InReady(ready[w][i])
      BY <3>1 DEF InReady
    <3> QED
      BY <3>1, <3>2 DEF PoolInv, Places
  <2>2. ASSUME NEW w \in Workers, pc[w] = "handling" PROVE current[w] \in roomQueues
    BY <2>2 DEF PoolInv, TypeOK, Handling, Places
  <2> QED
    BY <2>1, <2>2 DEF LookupsSucceed
<1> QED
  BY <1>1, Invariance, PTL

(* A meeting is ready at most once and never while it is handled.          *)
THEOREM SchedulingSafety == Spec => []ScheduledOnce
<1>1. PoolInv => ScheduledOnce
  BY DEF PoolInv
<1> QED
  BY <1>1, Invariance, PTL

(* No worker sleeps on work nobody will notify it of.                      *)
THEOREM WakeupSafety == Spec => []NoLostWakeup
<1>1. PoolInv => NoLostWakeup
  BY DEF PoolInv
<1> QED
  BY <1>1, Invariance, PTL

(* A worker thread returns only after all its accepted tasks were handled. *)
THEOREM DrainSafety == Spec => []DrainedBeforeExit
<1>1. PoolInv => DrainedBeforeExit
  <2> SUFFICES ASSUME PoolInv, NEW r \in Rooms, pc[WorkerIndex(r)] = "exited"
               PROVE  ended[r] = accepted[r]
    BY DEF DrainedBeforeExit
  <2>1. WorkerIndex(r) \in Workers
    BY WorkerOfRoom
  <2>2. ready[WorkerIndex(r)] = <<>> /\ current[WorkerIndex(r)] = NoRoom
    BY <2>1 DEF PoolInv, Stopping, Handling
  <2>3. ~InReady(r) /\ current[WorkerIndex(r)] # r
    BY <2>2, NoRoomAssumption DEF InReady
  <2>4. tasks[r] = <<>>
    BY <2>3 DEF PoolInv, Places
  <2>5. /\ 0 = accepted[r] - begun[r] /\ begun[r] = ended[r] + 0
        /\ accepted[r] \in Nat /\ begun[r] \in Nat /\ ended[r] \in Nat
    BY <2>3, <2>4 DEF PoolInv, Numbering, TypeOK
  <2> QED
    BY <2>5
<1> QED
  BY <1>1, Invariance, PTL

(* The pool implements SerialRooms: Post accepts, Take begins and Finish   *)
(* ends the next task of a meeting, every other step stutters.             *)
THEOREM Refinement == Spec => ImplementsSerialRooms
<1>1. Init => Serial!Init
  BY DEF Init, Serial!Init
<1>2. PoolInv /\ [Next]_vars => [Serial!Next]_Serial!vars
  <2> SUFFICES ASSUME PoolInv, [Next]_vars
               PROVE  Serial!Next \/ UNCHANGED <<accepted, begun, ended>>
    BY DEF Serial!vars
  <2>1. ASSUME NEW r \in Rooms, Post(r) PROVE Serial!Accept(r)
    BY <2>1 DEF Post, Serial!Accept
  <2>2. ASSUME NEW w \in Workers, Take(w) PROVE \E r \in Rooms : Serial!Begin(r)
    <3>1. PICK r \in Rooms : r = Head(ready[w])
      BY <2>2, TailFacts DEF Take, PoolInv, TypeOK
    <3>2. r = ready[w][1] /\ 1 \in 1 .. Len(ready[w])
      BY <2>2, <3>1, TailFacts DEF Take, PoolInv, TypeOK
    <3>3. WorkerIndex(r) = w /\ InReady(r) /\ current[w] = NoRoom
      BY <2>2, <3>2 DEF Take, PoolInv, ScheduledOnce, InReady, Handling
    <3>4. tasks[r] # <<>>
      BY <3>3 DEF PoolInv, Places
    <3>5. Len(tasks[r]) \in Nat \ {0} /\ Head(tasks[r]) = tasks[r][1]
      BY <3>4, TailFacts DEF PoolInv, TypeOK
    <3>6. /\ begun[r] \in Nat /\ ended[r] \in Nat /\ accepted[r] \in Nat
          /\ Len(tasks[r]) = accepted[r] - begun[r]
          /\ tasks[r][1] = begun[r] + 1
      BY <3>5 DEF PoolInv, Numbering, TypeOK
    <3>7. begun[r] = ended[r] + 0
      BY <3>3, NoRoomAssumption DEF PoolInv, Numbering
    <3>8. begun' = [begun EXCEPT ![r] = begun[r] + 1]
      BY <2>2, <3>1, <3>5, <3>6 DEF Take
    <3>9. begun[r] = ended[r] /\ begun[r] < accepted[r] /\ UNCHANGED <<accepted, ended>>
      BY <2>2, <3>5, <3>6, <3>7 DEF Take
    <3>10. Serial!Begin(r)
      BY <3>8, <3>9 DEF Serial!Begin
    <3> QED
      BY <3>10
  <2>3. ASSUME NEW w \in Workers, Finish(w) PROVE \E r \in Rooms : Serial!End(r)
    <3>1. PICK r \in Rooms : r = current[w]
      BY <2>3 DEF Finish, PoolInv, Handling, TypeOK
    <3>2. current[WorkerIndex(r)] = r
      BY <3>1, NoRoomAssumption DEF PoolInv, Handling
    <3>3. begun[r] = ended[r] + 1 /\ ended[r] \in Nat
      BY <3>2 DEF PoolInv, Numbering, TypeOK
    <3>4. ended[r] < begun[r]
      BY <3>3
    <3>5. ended' = [ended EXCEPT ![r] = begun[r]] /\ UNCHANGED <<accepted, begun>>
      BY <2>3, <3>1 DEF Finish
    <3>6. Serial!End(r)
      BY <3>4, <3>5 DEF Serial!End
    <3> QED
      BY <3>6
  <2>4. ASSUME NEW w \in Workers, Notify(w) \/ Sleep(w) \/ Exit(w)
        PROVE  UNCHANGED <<accepted, begun, ended>>
    BY <2>4 DEF Notify, Sleep, Exit
  <2>5. CASE StopWorker \/ Join \/ UNCHANGED vars
    BY <2>5 DEF StopWorker, Join, vars
  <2> QED
    BY <2>1, <2>2, <2>3, <2>4, <2>5 DEF Next, Worker, Terminated, Serial!Next
<1> QED
  BY <1>1, <1>2, Invariance, PTL DEF Spec, ImplementsSerialRooms, Serial!Spec

-----------------------------------------------------------------------------
(* Round robin: a ready queue only loses its first meeting, to the worker, *)
(* and only grows at its end.                                              *)
LEMMA QueueGrows ==
  ASSUME NEW s \in Seq(Rooms), NEW t, t = s \/ \E r \in Rooms : t = Append(s, r),
         NEW i \in 1 .. Len(s)
  PROVE  \E j \in 1 .. i : j <= Len(t) /\ t[j] = s[i]
<1>1. i \in 1 .. i /\ i <= Len(t) /\ t[i] = s[i]
  <2>1. Len(s) \in Nat /\ i <= Len(s)
    BY EmptyFacts
  <2>2. CASE t = s
    BY <2>1, <2>2
  <2>3. ASSUME NEW r \in Rooms, t = Append(s, r) PROVE i <= Len(t) /\ t[i] = s[i]
    BY <2>1, <2>3, AppendFacts
  <2> QED
    BY <2>1, <2>2, <2>3
<1> QED
  BY <1>1

LEMMA GrowsOnly ==
  ASSUME PoolInv, [Next]_vars, NEW w \in Workers, ~Take(w)
  PROVE  ready'[w] = ready[w] \/ \E r \in Rooms : ready'[w] = Append(ready[w], r)
<1>1. ready \in [Workers -> Seq(Rooms)] /\ current \in [Workers -> Rooms \cup {NoRoom}]
  BY DEF PoolInv, TypeOK
<1>2. ASSUME NEW r \in Rooms, Post(r)
      PROVE  ready'[w] = ready[w] \/ ready'[w] = Append(ready[w], r)
  BY <1>1, <1>2, WorkerOfRoom DEF Post
<1>3. ASSUME NEW v \in Workers, Take(v) PROVE ready'[w] = ready[w]
  BY <1>1, <1>3 DEF Take
<1>4. ASSUME NEW v \in Workers, Finish(v)
      PROVE  ready'[w] = ready[w] \/ \E r \in Rooms : ready'[w] = Append(ready[w], r)
  <2>1. CASE UNCHANGED ready
    BY <2>1
  <2>2. CASE ready' = [ready EXCEPT ![v] = Append(@, current[v])]
    <3>1. current[v] \in Rooms
      BY <1>1, <1>4 DEF Finish, PoolInv, Handling
    <3> QED
      BY <1>1, <2>2, <3>1
  <2> QED
    BY <1>4, <2>1, <2>2 DEF Finish
<1>5. ASSUME NEW v \in Workers, Notify(v) \/ Sleep(v) \/ Exit(v) PROVE ready'[w] = ready[w]
  BY <1>5 DEF Notify, Sleep, Exit
<1>6. ASSUME StopWorker \/ Join \/ Terminated \/ UNCHANGED vars PROVE ready'[w] = ready[w]
  BY <1>6 DEF StopWorker, Join, Terminated, vars
<1> QED
  BY <1>2, <1>3, <1>4, <1>5, <1>6 DEF Next, Worker

LEMMA StepInTurn ==
  PoolInv /\ [Next]_vars =>
     [\A w \in Workers : \A i \in 1 .. Len(ready[w]) :
        \/ i = 1 /\ current'[w] = ready[w][i]
        \/ \E j \in 1 .. i : j <= Len(ready'[w]) /\ ready'[w][j] = ready[w][i]]_vars
<1> SUFFICES ASSUME PoolInv, [Next]_vars, NEW w \in Workers, NEW i \in 1 .. Len(ready[w])
             PROVE  \/ i = 1 /\ current'[w] = ready[w][i]
                    \/ \E j \in 1 .. i : j <= Len(ready'[w]) /\ ready'[w][j] = ready[w][i]
  OBVIOUS
<1>1. TypeOK /\ ready[w] \in Seq(Rooms) /\ current \in [Workers -> Rooms \cup {NoRoom}]
  BY DEF PoolInv, TypeOK
<1>2. CASE Take(w)
  <2>1. PICK s, t : s = ready[w] /\ t = Tail(s)
    OBVIOUS
  <2>2. s # <<>> /\ ready'[w] = t /\ current'[w] = Head(s)
    BY <1>1, <1>2, <2>1 DEF Take, PoolInv, TypeOK
  <2>3. /\ Head(s) = s[1] /\ Len(s) \in Nat /\ Len(t) = Len(s) - 1
        /\ \A j \in 1 .. Len(s) - 1 : t[j] = s[j + 1]
    BY <1>1, <2>1, <2>2, TailFacts
  <2>4. CASE i = 1
    BY <2>1, <2>2, <2>3, <2>4
  <2>5. CASE i # 1
    <3>1. i - 1 \in 1 .. i /\ i - 1 \in 1 .. Len(s) - 1 /\ t[i - 1] = s[i]
      BY <2>1, <2>3, <2>5
    <3>2. i - 1 <= Len(t)
      BY <2>3, <3>1
    <3> QED
      BY <2>1, <2>2, <3>1, <3>2
  <2> QED
    BY <2>4, <2>5
<1>3. CASE ~Take(w)
  <2>1. PICK s, t : s = ready[w] /\ t = ready'[w]
    OBVIOUS
  <2>2. t = s \/ \E r \in Rooms : t = Append(s, r)
    BY <1>3, <2>1, GrowsOnly
  <2>3. \E j \in 1 .. i : j <= Len(t) /\ t[j] = s[i]
    <3>1. s \in Seq(Rooms) /\ i \in 1 .. Len(s)
      BY <1>1, <2>1
    <3> QED
      BY <2>2, <3>1, QueueGrows
  <2> QED
    BY <2>1, <2>3
<1> QED
  BY <1>2, <1>3

(* Round robin among the meetings of a worker: the first is taken next and *)
(* no other is ever overtaken, so a busy meeting starves none.             *)
THEOREM RoundRobin == Spec => NeverOvertaken
<1>1. PoolInv /\ [Next]_vars =>
         [\A w \in Workers : \A i \in 1 .. Len(ready[w]) :
            \/ i = 1 /\ current'[w] = ready[w][i]
            \/ \E j \in 1 .. i : j <= Len(ready'[w]) /\ ready'[w][j] = ready[w][i]]_vars
  BY StepInTurn
<1> QED
  BY <1>1, Invariance, PTL DEF Spec, NeverOvertaken
=============================================================================
