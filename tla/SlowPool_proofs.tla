-------------------------- MODULE SlowPool_proofs --------------------------
(***************************************************************************)
(* Proofs about SlowPool, for every finite set of operations and threads   *)
(* and every capacity: type correctness, that a reservation is always      *)
(* honoured, that no task is lost or doubled, and that the pool is idle    *)
(* when its threads stop.                                                  *)
(***************************************************************************)
EXTENDS SlowPool, FiniteSetTheorems, TLAPS

(* The operation's task is in m_tasks.                                     *)
Queued(o) == \E i \in 1 .. Len(m_tasks) : m_tasks[i] = o

(* The operations whose tasks m_pending counts: queued or not returned.    *)
Counted == {o \in Ops : Queued(o) \/ \E t \in Threads : thread[t] = "run" /\ task[t] = o}

(* A thread has a task exactly between Pop and Complete.                   *)
ThreadsConsistent ==
    \A t \in Threads : task[t] # NoOp <=> thread[t] \in {"run", "complete"}

(* The counters are the sizes of the sets they stand for.                  *)
Counters ==
    /\ m_reserved = Cardinality(holders)
    /\ m_pending = Cardinality(Counted)

PoolInv ==
    /\ TypeOK
    /\ ThreadsConsistent
    /\ TasksAccounted
    /\ StopsIdle
    /\ Counters

-----------------------------------------------------------------------------
(* Subsets of Ops are finite.                                              *)
LEMMA Finite == ASSUME NEW S \in SUBSET Ops
                PROVE  IsFiniteSet(S) /\ Cardinality(S) \in Nat
  BY OpsAssumption, FS_Subset, FS_CardinalityType

LEMMA AppendFacts ==
    ASSUME NEW S, NEW s \in Seq(S), NEW e \in S
    PROVE  /\ Append(s, e) \in Seq(S)
           /\ Len(Append(s, e)) = Len(s) + 1
           /\ Len(s) \in Nat
           /\ \A i \in 1 .. Len(s) : Append(s, e)[i] = s[i]
           /\ Append(s, e)[Len(s) + 1] = e
           /\ Append(s, e) # <<>>
  OBVIOUS

LEMMA TailFacts ==
    ASSUME NEW S, NEW s \in Seq(S), s # <<>>
    PROVE  /\ Head(s) \in S
           /\ Head(s) = s[1]
           /\ Len(s) \in Nat \ {0}
           /\ Tail(s) \in Seq(S)
           /\ Len(Tail(s)) = Len(s) - 1
           /\ \A i \in 1 .. Len(s) - 1 : Tail(s)[i] = s[i + 1]
  OBVIOUS

(* Counted operations are suspended, and suspended ones hold capacity.     *)
LEMMA CountedAwaiting ==
    ASSUME PoolInv PROVE Counted \subseteq awaiting /\ awaiting \subseteq holders
<1>1. ASSUME NEW o \in Ops, Queued(o) PROVE o \in awaiting
  BY <1>1 DEF PoolInv, TasksAccounted, Queued
<1>2. ASSUME NEW o \in Ops, NEW t \in Threads, task[t] = o PROVE o \in awaiting
  BY <1>2, OpsAssumption DEF PoolInv, TasksAccounted
<1> QED
  BY <1>1, <1>2 DEF Counted, PoolInv, StopsIdle

(* The argument behind Reserve: counted operations are suspended holders,  *)
(* so while another holder is not suspended there are fewer of them than   *)
(* reservations, and a place is free.                                      *)
LEMMA PlaceForHolder ==
    ASSUME PoolInv, NEW o \in holders, o \notin awaiting
    PROVE  m_pending < m_reserved /\ m_pending < Capacity /\ ~m_stopping
<1>1. Counted \in SUBSET (holders \ {o}) /\ holders \in SUBSET Ops /\ Counted \in SUBSET Ops
  BY CountedAwaiting DEF PoolInv, TypeOK, Counted
<1>2. IsFiniteSet(holders \ {o}) /\ Cardinality(holders \ {o}) = Cardinality(holders) - 1
  BY <1>1, Finite, FS_RemoveElement
<1>3. Cardinality(Counted) <= Cardinality(holders \ {o})
  BY <1>1, <1>2, FS_Subset
<1>4. Cardinality(holders) \in Nat /\ Cardinality(Counted) \in Nat
  BY <1>1, Finite
<1>5. m_pending < m_reserved /\ m_reserved <= Capacity
  BY <1>2, <1>3, <1>4 DEF PoolInv, Counters, TypeOK
<1>6. ~m_stopping
  BY DEF PoolInv, StopsIdle
<1> QED
  BY <1>5, <1>6, <1>4, CapacityAssumption DEF PoolInv, Counters, TypeOK

-----------------------------------------------------------------------------
(* Reserve: one more holder, one more reservation.                         *)
LEMMA ReserveStep == ASSUME PoolInv, NEW o \in Ops, Reserve(o) PROVE PoolInv'
<1>1. m_reserved' = m_reserved + 1 /\ holders' = holders \cup {o} /\ o \notin holders
      /\ m_reserved < Capacity /\ ~m_stopping
  BY DEF Reserve, CanReserve
<1>2. UNCHANGED <<m_pending, m_tasks, m_stopping, thread, task, awaiting>>
  BY DEF Reserve
<1>3. Cardinality(holders \cup {o}) = Cardinality(holders) + 1
  BY <1>1, Finite, FS_AddElement DEF PoolInv, TypeOK
<1>4. TypeOK'
  BY <1>1, <1>2, CapacityAssumption DEF PoolInv, TypeOK
<1>5. Counters'
  BY <1>1, <1>2, <1>3 DEF PoolInv, Counters, Counted, Queued
<1>6. ThreadsConsistent' /\ TasksAccounted' /\ StopsIdle'
  BY <1>1, <1>2 DEF PoolInv, ThreadsConsistent, TasksAccounted, StopsIdle
<1> QED
  BY <1>4, <1>5, <1>6 DEF PoolInv

(* ReleaseCapacity: an operation that is not suspended gives its           *)
(* reservation back.                                                       *)
LEMMA ReleaseStep == ASSUME PoolInv, NEW o \in Ops, ReleaseCapacity(o) PROVE PoolInv'
<1>1. m_reserved' = m_reserved - 1 /\ holders' = holders \ {o} /\ o \in holders
      /\ o \notin awaiting
  BY DEF ReleaseCapacity
<1>2. UNCHANGED <<m_pending, m_tasks, m_stopping, thread, task, awaiting>>
  BY DEF ReleaseCapacity
<1>3. Cardinality(holders \ {o}) = Cardinality(holders) - 1 /\ Cardinality(holders \ {o}) \in Nat
  BY <1>1, Finite, FS_RemoveElement DEF PoolInv, TypeOK
<1>4. TypeOK'
  <2>1. m_reserved' \in 0 .. Capacity
    BY <1>1, <1>3, CapacityAssumption DEF PoolInv, TypeOK, Counters
  <2> QED
    BY <1>1, <1>2, <2>1 DEF PoolInv, TypeOK
<1>5. Counters'
  BY <1>1, <1>2, <1>3 DEF PoolInv, Counters, Counted, Queued
<1>6. ThreadsConsistent' /\ TasksAccounted' /\ StopsIdle'
  BY <1>1, <1>2 DEF PoolInv, ThreadsConsistent, TasksAccounted, StopsIdle
<1> QED
  BY <1>4, <1>5, <1>6 DEF PoolInv

(* Submit: the operation's task is queued and counted.                     *)
LEMMA SubmitStep == ASSUME PoolInv, NEW o \in Ops, Submit(o) PROVE PoolInv'
<1> DEFINE n == Len(m_tasks)
<1>1. /\ o \in holders /\ o \notin awaiting /\ ~m_stopping /\ m_pending < Capacity
      /\ m_pending' = m_pending + 1 /\ awaiting' = awaiting \cup {o}
      /\ UNCHANGED <<m_reserved, m_stopping, task, holders>>
  BY DEF Submit, CanSubmit
<1>2. /\ m_tasks' \in Seq(Ops) /\ Len(m_tasks') = n + 1 /\ n \in Nat
      /\ \A i \in 1 .. n : m_tasks'[i] = m_tasks[i]
      /\ m_tasks'[n + 1] = o
  BY AppendFacts DEF Submit, PoolInv, TypeOK
<1>3. \A t \in Threads : thread'[t] = thread[t] \/ (thread[t] = "waiting" /\ thread'[t] = "check")
  BY DEF Submit, NotifyOne, PoolInv, TypeOK
<1>4. thread' \in [Threads -> {"check", "waiting", "run", "complete", "exited"}]
  BY DEF Submit, NotifyOne, PoolInv, TypeOK
<1> HIDE DEF n
<1>5. TypeOK'
  BY <1>1, <1>2, <1>4, CapacityAssumption DEF PoolInv, TypeOK
<1>6. ThreadsConsistent'
  BY <1>1, <1>3 DEF PoolInv, ThreadsConsistent
<1>7. \A i \in 1 .. n + 1 : i \in 1 .. n \/ i = n + 1
  BY <1>2
<1>8. \A i \in 1 .. n : i \in 1 .. n + 1
  BY <1>2
<1>9. /\ \A i \in 1 .. n : m_tasks[i] # o
      /\ \A t \in Threads : task[t] # o
  BY <1>1, OpsAssumption DEF PoolInv, TasksAccounted, n
<1>10. \A p : Queued(p)' <=> Queued(p) \/ p = o
  <2>1. n + 1 \in 1 .. n + 1
    BY <1>2
  <2> QED
    BY <2>1, <1>2, <1>7, <1>8 DEF Queued, n
<1>11. TasksAccounted'
  <2>1. \A i, j \in 1 .. n + 1 : m_tasks'[i] = m_tasks'[j] => i = j
    BY <1>2, <1>7, <1>9 DEF PoolInv, TasksAccounted, n
  <2>2. \A i \in 1 .. n + 1 : m_tasks'[i] \in awaiting'
    BY <1>1, <1>2, <1>7 DEF PoolInv, TasksAccounted, n
  <2>3. ASSUME NEW t \in Threads, task[t] # NoOp
        PROVE  /\ task[t] \in awaiting'
               /\ \A i \in 1 .. n + 1 : m_tasks'[i] # task[t]
               /\ \A u \in Threads : task[u] = task[t] => u = t
    BY <2>3, <1>1, <1>2, <1>7, <1>9 DEF PoolInv, TasksAccounted, n
  <2>4. ASSUME NEW p \in awaiting' PROVE Queued(p)' \/ \E t \in Threads : task[t] = p
    <3>1. CASE p = o
      BY <3>1, <1>10
    <3>2. CASE p \in awaiting
      BY <3>2, <1>10 DEF PoolInv, TasksAccounted, Queued
    <3> QED
      BY <2>4, <3>1, <3>2, <1>1
  <2> QED
    BY <2>1, <2>2, <2>3, <2>4, <1>1, <1>2 DEF TasksAccounted, Queued
<1>12. StopsIdle'
  BY <1>1 DEF PoolInv, StopsIdle
<1>13. Counters'
  <2>1. Counted' = Counted \cup {o}
    <3>1. \A t \in Threads : (thread'[t] = "run" <=> thread[t] = "run") /\ task'[t] = task[t]
      BY <1>1, <1>3
    <3> QED
      BY <3>1, <1>10 DEF Counted
  <2>2. o \notin Counted
    BY <1>1, CountedAwaiting
  <2>3. Counted \in SUBSET Ops
    BY DEF Counted
  <2>4. Cardinality(Counted \cup {o}) = Cardinality(Counted) + 1
    BY <2>2, <2>3, Finite, FS_AddElement
  <2> QED
    BY <1>1, <2>1, <2>4 DEF PoolInv, Counters
<1> QED
  BY <1>5, <1>6, <1>11, <1>12, <1>13 DEF PoolInv

(* Pop: the first task moves from the queue to the thread, still counted.  *)
LEMMA PopStep == ASSUME PoolInv, NEW t \in Threads, Pop(t) PROVE PoolInv'
<1> DEFINE n == Len(m_tasks)
<1>1. PICK o \in Ops : o = Head(m_tasks)
  BY TailFacts DEF Pop, PoolInv, TypeOK
<1>2. /\ o = m_tasks[1] /\ n \in Nat \ {0} /\ m_tasks' \in Seq(Ops) /\ Len(m_tasks') = n - 1
      /\ \A i \in 1 .. n - 1 : m_tasks'[i] = m_tasks[i + 1]
  BY <1>1, TailFacts DEF Pop, PoolInv, TypeOK
<1>3. /\ task'[t] = o /\ thread'[t] = "run" /\ thread[t] = "check"
      /\ \A u \in Threads : u # t => task'[u] = task[u] /\ thread'[u] = thread[u]
      /\ UNCHANGED <<m_reserved, m_pending, m_stopping, holders, awaiting>>
      /\ m_tasks # <<>>
  BY <1>1 DEF Pop, PoolInv, TypeOK
<1>4. task[t] = NoOp /\ o # NoOp
  BY <1>3, OpsAssumption DEF PoolInv, ThreadsConsistent
<1> HIDE DEF n
<1>5. TypeOK'
  BY <1>1, <1>2 DEF Pop, PoolInv, TypeOK
<1>6. ThreadsConsistent'
  BY <1>3, <1>4 DEF PoolInv, ThreadsConsistent
<1>7. \A i \in 1 .. n - 1 : i + 1 \in 1 .. n /\ i + 1 # 1
  BY <1>2
<1>8. 1 \in 1 .. n
  BY <1>2
<1>9. \A i \in 1 .. n : i # 1 => m_tasks[i] # o /\ i - 1 \in 1 .. n - 1 /\ m_tasks'[i - 1] = m_tasks[i]
  <2> SUFFICES ASSUME NEW i \in 1 .. n, i # 1
               PROVE  m_tasks[i] # o /\ i - 1 \in 1 .. n - 1 /\ m_tasks'[i - 1] = m_tasks[i]
    OBVIOUS
  <2>1. m_tasks[i] # o
    BY <1>2, <1>8 DEF PoolInv, TasksAccounted, n
  <2>2. i - 1 \in 1 .. n - 1 /\ (i - 1) + 1 = i
    BY <1>2
  <2> QED
    BY <2>1, <2>2, <1>2
<1>10. Queued(o) /\ \A u \in Threads : task[u] # o
  BY <1>2, <1>8, <1>4 DEF Queued, PoolInv, TasksAccounted, n
<1>11. \A p : Queued(p)' <=> Queued(p) /\ p # o
  <2>1. ASSUME NEW p, Queued(p)' PROVE Queued(p) /\ p # o
    <3>1. PICK i \in 1 .. n - 1 : m_tasks'[i] = p
      BY <2>1, <1>2 DEF Queued
    <3>2. i + 1 \in 1 .. n /\ i + 1 # 1 /\ m_tasks[i + 1] = p
      BY <3>1, <1>2, <1>7
    <3> QED
      BY <3>2, <1>9 DEF Queued, n
  <2>2. ASSUME NEW p, Queued(p), p # o PROVE Queued(p)'
    <3>1. PICK i \in 1 .. n : m_tasks[i] = p
      BY <2>2 DEF Queued, n
    <3>2. i # 1
      BY <2>2, <3>1, <1>2
    <3> QED
      BY <3>1, <3>2, <1>2, <1>9 DEF Queued
  <2> QED
    BY <2>1, <2>2
<1>12. TasksAccounted'
  <2>1. ASSUME NEW i \in 1 .. n - 1, NEW j \in 1 .. n - 1, m_tasks'[i] = m_tasks'[j] PROVE i = j
    <3>1. \A a, b \in 1 .. n : m_tasks[a] = m_tasks[b] => a = b
      BY DEF PoolInv, TasksAccounted, n
    <3>2. m_tasks[i + 1] = m_tasks[j + 1] /\ i + 1 \in 1 .. n /\ j + 1 \in 1 .. n
      BY <2>1, <1>2, <1>7
    <3>3. i + 1 = j + 1
      BY <3>1, <3>2
    <3> QED
      BY <3>3
  <2>2. \A i \in 1 .. n - 1 : m_tasks'[i] \in awaiting
    BY <1>2, <1>7 DEF PoolInv, TasksAccounted, n
  <2>3. ASSUME NEW u \in Threads, task'[u] # NoOp
        PROVE  /\ task'[u] \in awaiting
               /\ \A i \in 1 .. n - 1 : m_tasks'[i] # task'[u]
               /\ \A v \in Threads : task'[v] = task'[u] => v = u
    <3>1. CASE u = t
      <4>1. task'[u] = o /\ o \in awaiting
        BY <3>1, <1>2, <1>3, <1>8 DEF PoolInv, TasksAccounted, n
      <4>2. \A v \in Threads : v # t => task'[v] # o
        BY <1>3, <1>10
      <4> QED
        BY <3>1, <4>1, <4>2, <1>2, <1>7, <1>9
    <3>2. CASE u # t
      <4>1. task'[u] = task[u] /\ task[u] # o
        BY <3>2, <1>3, <1>10
      <4>2. task[u] \in awaiting /\ \A i \in 1 .. n : m_tasks[i] # task[u]
        BY <2>3, <4>1 DEF PoolInv, TasksAccounted, n
      <4>3. \A v \in Threads : task'[v] = task'[u] => v = u
        BY <2>3, <4>1, <1>3 DEF PoolInv, TasksAccounted
      <4> QED
        BY <4>1, <4>2, <4>3, <1>2, <1>7
    <3> QED
      BY <3>1, <3>2
  <2>4. ASSUME NEW p \in awaiting PROVE Queued(p)' \/ \E u \in Threads : task'[u] = p
    <3>1. CASE p = o
      BY <3>1, <1>3
    <3>2. CASE p # o /\ Queued(p)
      BY <3>2, <1>11
    <3>3. CASE p # o /\ ~Queued(p)
      <4>1. PICK u \in Threads : task[u] = p
        BY <3>3 DEF PoolInv, TasksAccounted, Queued
      <4>2. p # NoOp
        BY OpsAssumption DEF PoolInv, TypeOK
      <4> QED
        BY <4>1, <4>2, <1>3, <1>4
    <3> QED
      BY <3>1, <3>2, <3>3
  <2> QED
    BY <2>1, <2>2, <2>3, <2>4, <1>2, <1>3 DEF TasksAccounted, Queued
<1>13. StopsIdle'
  BY <1>3 DEF PoolInv, StopsIdle
<1>14. Counters'
  <2>1. Counted' = Counted
    <3>1. ASSUME NEW p \in Ops, p # o
          PROVE  (\E u \in Threads : thread'[u] = "run" /\ task'[u] = p)
                 <=> (\E u \in Threads : thread[u] = "run" /\ task[u] = p)
      BY <3>1, <1>3
    <3>2. o \in Counted /\ o \in Counted'
      BY <1>3, <1>10 DEF Counted
    <3> QED
      BY <3>1, <3>2, <1>11 DEF Counted
  <2> QED
    BY <2>1, <1>3 DEF PoolInv, Counters
<1> QED
  BY <1>5, <1>6, <1>12, <1>13, <1>14 DEF PoolInv

(* Return: the task is no longer counted.                                  *)
LEMMA ReturnStep == ASSUME PoolInv, NEW t \in Threads, Return(t) PROVE PoolInv'
<1>1. /\ thread[t] = "run" /\ m_pending' = m_pending - 1 /\ thread'[t] = "complete"
      /\ \A u \in Threads : u # t => thread'[u] = thread[u]
      /\ UNCHANGED <<m_reserved, m_tasks, m_stopping, task, holders, awaiting>>
  BY DEF Return, PoolInv, TypeOK
<1>2. PICK o \in Ops : o = task[t]
  BY <1>1 DEF PoolInv, TypeOK, ThreadsConsistent
<1>3. o # NoOp /\ ~Queued(o) /\ \A u \in Threads : task[u] = o => u = t
  BY <1>2, OpsAssumption DEF PoolInv, TasksAccounted, Queued
<1>4. Counted' = Counted \ {o} /\ o \in Counted
  <2>1. \A p : Queued(p)' <=> Queued(p)
    BY <1>1 DEF Queued
  <2>2. ASSUME NEW p \in Ops
        PROVE  (\E u \in Threads : thread'[u] = "run" /\ task'[u] = p)
               <=> p # o /\ (\E u \in Threads : thread[u] = "run" /\ task[u] = p)
    BY <1>1, <1>2, <1>3
  <2> QED
    BY <2>1, <2>2, <1>1, <1>2, <1>3 DEF Counted
<1>5. Cardinality(Counted \ {o}) = Cardinality(Counted) - 1 /\ Cardinality(Counted \ {o}) \in Nat
  <2>1. Counted \in SUBSET Ops
    BY DEF Counted
  <2> QED
    BY <2>1, <1>4, Finite, FS_RemoveElement
<1>6. Counters'
  BY <1>1, <1>4, <1>5 DEF PoolInv, Counters
<1>7. TypeOK'
  <2>1. thread' \in [Threads -> {"check", "waiting", "run", "complete", "exited"}]
    BY DEF Return, PoolInv, TypeOK
  <2>2. m_pending' \in 0 .. Capacity
    BY <1>1, <1>4, <1>5, CapacityAssumption DEF PoolInv, TypeOK, Counters
  <2> QED
    BY <1>1, <2>1, <2>2 DEF PoolInv, TypeOK
<1>8. ThreadsConsistent' /\ TasksAccounted' /\ StopsIdle'
  BY <1>1 DEF PoolInv, ThreadsConsistent, TasksAccounted, StopsIdle
<1> QED
  BY <1>6, <1>7, <1>8 DEF PoolInv

(* Complete: the operation is resumed; it holds its reservation still.     *)
LEMMA CompleteStep == ASSUME PoolInv, NEW t \in Threads, Complete(t) PROVE PoolInv'
<1>1. /\ thread[t] = "complete" /\ thread'[t] = "check" /\ task'[t] = NoOp
      /\ \A u \in Threads : u # t => thread'[u] = thread[u] /\ task'[u] = task[u]
      /\ awaiting' = awaiting \ {task[t]}
      /\ UNCHANGED <<m_reserved, m_pending, m_tasks, m_stopping, holders>>
  BY DEF Complete, PoolInv, TypeOK
<1>2. PICK o \in Ops : o = task[t]
  BY <1>1 DEF PoolInv, TypeOK, ThreadsConsistent
<1>3. o # NoOp /\ ~Queued(o) /\ \A u \in Threads : task[u] = o => u = t
  BY <1>2, OpsAssumption DEF PoolInv, TasksAccounted, Queued
<1>4. TypeOK'
  BY DEF Complete, PoolInv, TypeOK
<1>5. ThreadsConsistent'
  BY <1>1 DEF PoolInv, ThreadsConsistent
<1>6. TasksAccounted'
  <2>1. \A i \in 1 .. Len(m_tasks) : m_tasks[i] \in awaiting /\ m_tasks[i] # o
    BY <1>3 DEF PoolInv, TasksAccounted, Queued
  <2>2. ASSUME NEW u \in Threads, task'[u] # NoOp
        PROVE  /\ task'[u] \in awaiting'
               /\ \A i \in 1 .. Len(m_tasks) : m_tasks[i] # task'[u]
               /\ \A v \in Threads : task'[v] = task'[u] => v = u
    <3>1. u # t /\ task'[u] = task[u]
      BY <2>2, <1>1
    <3>2. task[u] # o
      BY <3>1, <1>3
    <3>3. /\ task[u] \in awaiting
          /\ \A i \in 1 .. Len(m_tasks) : m_tasks[i] # task[u]
          /\ \A v \in Threads : task[v] = task[u] => v = u
      BY <2>2, <3>1 DEF PoolInv, TasksAccounted
    <3>4. \A v \in Threads : task'[v] = task'[u] => v = u
      BY <2>2, <3>1, <3>3, <1>1
    <3> QED
      BY <3>1, <3>2, <3>3, <3>4, <1>1, <1>2
  <2>3. ASSUME NEW p \in awaiting', ~Queued(p) PROVE \E u \in Threads : task'[u] = p
    <3>1. PICK u \in Threads : task[u] = p
      BY <2>3, <1>1 DEF PoolInv, TasksAccounted, Queued
    <3> QED
      BY <2>3, <3>1, <1>1
  <2>4. \A i, j \in 1 .. Len(m_tasks) : m_tasks[i] = m_tasks[j] => i = j
    BY DEF PoolInv, TasksAccounted
  <2> QED
    BY <2>1, <2>2, <2>3, <2>4, <1>1, <1>2 DEF TasksAccounted, Queued
<1>7. StopsIdle'
  BY <1>1 DEF PoolInv, StopsIdle
<1>8. Counters'
  <2>1. Counted' = Counted
    BY <1>1 DEF Counted, Queued
  <2> QED
    BY <2>1, <1>1 DEF PoolInv, Counters
<1> QED
  BY <1>4, <1>5, <1>6, <1>7, <1>8 DEF PoolInv

(* Sleep, Exit and Shutdown move threads that have no task.                *)
LEMMA QuietStep ==
    ASSUME PoolInv, (\E t \in Threads : Sleep(t) \/ Exit(t)) \/ Shutdown
    PROVE  PoolInv'
<1>1. UNCHANGED <<m_reserved, m_pending, m_tasks, task, holders, awaiting>>
  BY DEF Sleep, Exit, Shutdown, Join
<1>2. thread' \in [Threads -> {"check", "waiting", "run", "complete", "exited"}]
      /\ m_stopping' \in BOOLEAN
  BY DEF Sleep, Exit, Shutdown, Join, PoolInv, TypeOK
<1>3. \A u \in Threads : \/ thread'[u] = thread[u]
                         \/ thread[u] \in {"check", "waiting"}
                            /\ thread'[u] \in {"check", "waiting", "exited"}
  BY DEF Sleep, Exit, Shutdown, Join, PoolInv, TypeOK
<1>4. TypeOK'
  BY <1>1, <1>2 DEF PoolInv, TypeOK
<1>5. ThreadsConsistent' /\ TasksAccounted'
  BY <1>1, <1>3 DEF PoolInv, ThreadsConsistent, TasksAccounted
<1>6. StopsIdle'
  <2>1. holders = {} => m_tasks = <<>>
    <3> SUFFICES ASSUME holders = {}, m_tasks # <<>> PROVE FALSE
      OBVIOUS
    <3>1. 1 \in 1 .. Len(m_tasks)
      BY TailFacts DEF PoolInv, TypeOK
    <3> QED
      BY <3>1 DEF PoolInv, TasksAccounted, StopsIdle
  <2> QED
    BY <2>1, <1>1 DEF Sleep, Exit, Shutdown, Join, PoolInv, StopsIdle
<1>7. Counters'
  <2>1. Counted' = Counted
    BY <1>1, <1>3 DEF Counted, Queued
  <2> QED
    BY <2>1, <1>1 DEF PoolInv, Counters
<1> QED
  BY <1>4, <1>5, <1>6, <1>7 DEF PoolInv

-----------------------------------------------------------------------------
(* PoolInv holds initially and every step keeps it.                        *)
THEOREM Invariance == Spec => []PoolInv
<1>1. Init => PoolInv
  <2> SUFFICES ASSUME Init PROVE PoolInv
    OBVIOUS
  <2>1. TypeOK
    <3>1. 0 \in 0 .. Capacity
      BY CapacityAssumption
    <3>2. <<>> \in Seq(Ops)
      OBVIOUS
    <3> QED
      BY <3>1, <3>2 DEF Init, TypeOK
  <2>2. ThreadsConsistent /\ TasksAccounted /\ StopsIdle
    BY DEF Init, ThreadsConsistent, TasksAccounted, StopsIdle
  <2>3. Counted = {}
    BY DEF Init, Counted, Queued
  <2> QED
    BY <2>1, <2>2, <2>3, FS_EmptySet DEF Init, PoolInv, Counters
<1>2. PoolInv /\ [Next]_poolVars => PoolInv'
  <2> SUFFICES ASSUME PoolInv, [Next]_poolVars PROVE PoolInv'
    OBVIOUS
  <2>1. CASE UNCHANGED poolVars
    BY <2>1 DEF poolVars, PoolInv, TypeOK, ThreadsConsistent, TasksAccounted, StopsIdle,
                Counters, Counted, Queued
  <2> QED
    BY <2>1, ReserveStep, ReleaseStep, SubmitStep, PopStep, ReturnStep, CompleteStep,
       QuietStep DEF Next, PoolThread, Joined
<1> QED
  BY <1>1, <1>2, PTL DEF Spec

(* Type correctness; in particular the counters never leave 0..Capacity.   *)
THEOREM TypeCorrect == Spec => []TypeOK
<1>1. PoolInv => TypeOK
  BY DEF PoolInv
<1> QED
  BY <1>1, Invariance, PTL

(* An operation that reserved is never told that the pool is full.         *)
THEOREM ReservationSafety == Spec => []ReservationHonoured
<1>1. PoolInv => ReservationHonoured
  BY PlaceForHolder DEF ReservationHonoured, CanSubmit
<1> QED
  BY <1>1, Invariance, PTL

(* No task is lost or runs twice.                                          *)
THEOREM TaskSafety == Spec => []TasksAccounted
<1>1. PoolInv => TasksAccounted
  BY DEF PoolInv
<1> QED
  BY <1>1, Invariance, PTL

(* The threads stop only when no operation uses the pool.                  *)
THEOREM StopSafety == Spec => []StopsIdle
<1>1. PoolInv => StopsIdle
  BY DEF PoolInv
<1> QED
  BY <1>1, Invariance, PTL
=============================================================================
