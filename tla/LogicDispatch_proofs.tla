------------------------ MODULE LogicDispatch_proofs ------------------------
(***************************************************************************)
(* Proofs about LogicDispatch, for any connections, meetings, pool threads *)
(* and capacities.                                                         *)
(*                                                                         *)
(* DispatchInv is the inductive invariant.  A command is at one place at a *)
(* time: in a handler of a strand, in the commands of a queue, or with the *)
(* operation.  Moved says how the places of one queue move in a step; what *)
(* is known of the commands moves with them.  Update says what a step that *)
(* replaces one queue and its operation has to show.                       *)
(*                                                                         *)
(* OrderInv, an invariant beside it, is about the order of a connection's  *)
(* commands.                                                               *)
(***************************************************************************)
EXTENDS LogicDispatch, FiniteSetTheorems, TLAPS

QueueFields == {"pending", "strand", "commands", "next", "active", "phase", "token"}
OpFields == {"pc", "cont", "awaits", "target", "entry"}
EntryFields == {"conn", "no", "kind", "room", "waiter"}

IsSeq(s) == \E S : s \in Seq(S)

(* The number of handlers of a type in a strand.                           *)
Having(s, t) == {i \in 1 .. Len(s) : s[i].type = t}
Count(s, t) == Cardinality(Having(s, t))

(* The operation is between its start and its end.                         *)
Running(p) == p.pc \notin {"none", "unpend"}
Uses(p) == IF p.pc = "none" THEN 0 ELSE 1

(* What a completion must carry to be taken.                               *)
Current(q) == [id |-> q.active, phase |-> q.phase]

QueueOK(q) ==
    /\ DOMAIN q = QueueFields
    /\ q.pending \in Nat /\ q.next \in Nat /\ q.active \in Nat /\ q.phase \in Nat
    /\ IsSeq(q.strand) /\ IsSeq(q.commands)
    /\ \A i \in 1 .. Len(q.strand) : q.strand[i].type \in {"push", "resume", "next"}

(* The count of a queue is the number of commands it has.                  *)
Accounted(q, p) ==
    /\ q.pending = Count(q.strand, "push") + Len(q.commands) + Uses(p)
    /\ q.active # 0 <=> Running(p)

(* At most one completion, for the operation that waits for it.            *)
ResumesOK(q, p) ==
    /\ Count(q.strand, "resume") <= 1
    /\ \A i \in 1 .. Len(q.strand) :
          q.strand[i].type = "resume" => p.pc = "await" /\ q.strand[i].token = Current(q)

Routing(p) ==
    \/ p.pc \in {"resolve", "resolved", "toRoom"}
    \/ p.pc \in {"submit", "await"} /\ p.cont = "resolved"

Handling(p) ==
    \/ p.pc \in {"dispatch", "retry", "work"}
    \/ p.pc \in {"submit", "await"} /\ p.cont = "work"

(* The operation of the connection waits for the one of the meeting.       *)
WaitsForRoom(p) == p.pc = "await" /\ p.cont = "finish"

OpOK(o, p) ==
    /\ DOMAIN p = OpFields
    /\ p.pc = "none" => p = NoOperation
    /\ p.pc = "submit" => p.cont \in {"resolved", "work"}
    /\ p.pc = "await" => p.cont \in {"resolved", "work", "finish"}
    /\ Routing(p) => Key(o) \notin Rooms /\ p.target \in Rooms
    /\ (Handling(p) /\ p.entry.kind = "join") => Key(o) \in Rooms

ObjOK(o, q, p) == QueueOK(q) /\ Accounted(q, p) /\ ResumesOK(q, p) /\ OpOK(o, p)

EntryOK(e) ==
    /\ DOMAIN e = EntryFields
    /\ e.kind \in {"scan", "join", "room", "plain", "disconnect"}
    /\ e.kind = "scan" => e.conn = None
    /\ e.kind # "scan" => e.conn \in Conns
    /\ e.kind \in {"scan", "join", "room"} => e.room \in Rooms

(* The places of a queue and of its operation.                             *)
EntryAt(q, p, k, i, e) ==
    \/ k = "strand" /\ i \in Having(q.strand, "push") /\ e = q.strand[i].entry
    \/ k = "command" /\ i \in 1 .. Len(q.commands) /\ e = q.commands[i]
    \/ k = "op" /\ i = 0 /\ Running(p) /\ e = p.entry

(* The operation that done() will resume waits for just that.              *)
Awaited(qs, ps, w) ==
    /\ w.obj \in Objs /\ WaitsForRoom(ps[w.obj])
    /\ w.token = Current(qs[w.obj]) /\ Count(qs[w.obj].strand, "resume") = 0

Lines(qs, ps) ==
    \A o \in Objs : \A k, i, e : EntryAt(qs[o], ps[o], k, i, e) =>
       EntryOK(e) /\ (e.waiter # NoWaiter => Awaited(qs, ps, e.waiter))

(* No operation is waited for with two commands.                           *)
Single(qs, ps) ==
    \A a, b \in Objs : \A k, l, i, j, d, e :
       /\ EntryAt(qs[a], ps[a], k, i, d) /\ EntryAt(qs[b], ps[b], l, j, e)
       /\ d.waiter # NoWaiter /\ e.waiter # NoWaiter /\ d.waiter.obj = e.waiter.obj
       => a = b /\ k = l /\ i = j

(* No command is to resume x.                                              *)
Unawaited(qs, ps, x) ==
    \A o \in Objs : \A k, i, e :
       EntryAt(qs[o], ps[o], k, i, e) /\ e.waiter # NoWaiter => e.waiter.obj # x

(* What holds the pool is running and does not wait for another operation; *)
(* what is suspended in it has its completion still to come.               *)
UseOK(o, q, p, held, asleep) ==
    /\ o \in held => Running(p) /\ ~WaitsForRoom(p)
    /\ o \in asleep => /\ o \in held /\ p.pc = "await" /\ q.token = Current(q)
                       /\ Count(q.strand, "resume") = 0

PoolUse(qs, ps, held, asleep) ==
    /\ held \subseteq Objs /\ asleep \subseteq held
    /\ \A o \in Objs : UseOK(o, qs[o], ps[o], held, asleep)

Busy(t) == thread[t] \in {"run", "complete"}

(* Every task of the pool is that of a suspended operation, and no two are *)
(* of the same.                                                            *)
PoolTasks ==
    /\ IsSeq(m_tasks) /\ DOMAIN thread = Threads /\ DOMAIN task = Threads
    /\ \A i \in 1 .. Len(m_tasks) : m_tasks[i] \in awaiting
    /\ \A i, j \in 1 .. Len(m_tasks) : m_tasks[i] = m_tasks[j] => i = j
    /\ \A t \in Threads : Busy(t) =>
          /\ task[t] \in awaiting
          /\ \A i \in 1 .. Len(m_tasks) : m_tasks[i] # task[t]
          /\ \A u \in Threads : Busy(u) /\ task[u] = task[t] => u = t

(* Work is done by the registered queue of a key.                          *)
Registered(reg, qs) ==
    /\ DOMAIN reg = Keys /\ reg[Timer] = <<Timer, 1>>
    /\ \A k \in Keys : reg[k] # None => reg[k] \in Objs /\ Key(reg[k]) = k
    /\ \A o \in Objs : qs[o].pending > 0 => reg[Key(o)] = o

Meetings(met, reg, occ) ==
    /\ met \in [Conns -> Rooms \cup {None}]
    /\ \A c \in Conns : met[c] # None => reg[met[c]] # None /\ occ[reg[met[c]]]

(* A room that nobody is in and nothing is done in has its end coming.     *)
Kept(reg, qs, occ) ==
    \A r \in Rooms :
       reg[r] # None /\ qs[reg[r]].pending = 0 /\ Count(qs[reg[r]].strand, "next") = 0
       => occ[reg[r]]

(* What the scheduler counts: the commands, until their last handler.      *)
Load(q) == q.pending + Count(q.strand, "next")
Slots(qs) == {x \in Objs \X Nat : x[2] \in 1 .. Load(qs[x[1]])}
Counted(qs, n) == IsFiniteSet(Slots(qs)) /\ n = Cardinality(Slots(qs))

Fcn(f) == f = [x \in Objs |-> f[x]]

ObjsOK(qs, ps) ==
    /\ DOMAIN qs = Objs /\ DOMAIN ps = Objs /\ Fcn(qs) /\ Fcn(ps)
    /\ \A o \in Objs : ObjOK(o, qs[o], ps[o])

Whole(qs, ps, held, asleep, reg, met, occ, n) ==
    /\ ObjsOK(qs, ps) /\ DOMAIN occ = Objs
    /\ Lines(qs, ps) /\ Single(qs, ps)
    /\ PoolUse(qs, ps, held, asleep)
    /\ Registered(reg, qs) /\ Meetings(met, reg, occ) /\ Kept(reg, qs, occ)
    /\ Counted(qs, n)

DispatchInv ==
    /\ Whole(queue, op, holders, awaiting, registry, meeting, occupied, scheduled)
    /\ PoolTasks

-----------------------------------------------------------------------------
(* Strands                                                                 *)

LEMMA AppendIs ==
  ASSUME NEW s, IsSeq(s), NEW h
  PROVE  /\ IsSeq(Append(s, h)) /\ Len(s) \in Nat /\ Len(Append(s, h)) = Len(s) + 1
         /\ Append(s, h)[Len(s) + 1] = h
         /\ \A i \in 1 .. Len(s) : Append(s, h)[i] = s[i]
<1>1. PICK S : s \in Seq(S)
  BY DEF IsSeq
<1>2. PICK T : T = S \cup {h}
  OBVIOUS
<1>3. s \in Seq(T) /\ h \in T
  BY <1>1, <1>2
<1>4. PICK p : p = Append(s, h)
  OBVIOUS
<1>5. p \in Seq(T) /\ Len(p) = Len(s) + 1 /\ Len(s) \in Nat
  BY <1>3, <1>4
<1>6. p[Len(s) + 1] = h /\ \A i \in 1 .. Len(s) : p[i] = s[i]
  BY <1>3, <1>4
<1> QED
  BY <1>4, <1>5, <1>6 DEF IsSeq

LEMMA TailIs ==
  ASSUME NEW s, IsSeq(s), s # <<>>
  PROVE  /\ IsSeq(Tail(s)) /\ Len(s) \in Nat /\ Len(s) >= 1 /\ Len(Tail(s)) = Len(s) - 1
         /\ Head(s) = s[1]
         /\ \A i \in 1 .. Len(s) - 1 : Tail(s)[i] = s[i + 1]
<1>1. PICK S : s \in Seq(S)
  BY DEF IsSeq
<1>2. Tail(s) \in Seq(S) /\ Len(s) \in Nat /\ Len(s) >= 1 /\ Len(Tail(s)) = Len(s) - 1
  BY <1>1
<1>3. Head(s) = s[1] /\ \A i \in 1 .. Len(s) - 1 : Tail(s)[i] = s[i + 1]
  BY <1>1
<1> QED
  BY <1>2, <1>3 DEF IsSeq

LEMMA HavingFinite ==
  ASSUME NEW s, IsSeq(s), NEW t
  PROVE  IsFiniteSet(Having(s, t)) /\ Count(s, t) \in Nat
<1>1. Len(s) \in Nat
  BY DEF IsSeq
<1>2. IsFiniteSet(1 .. Len(s))
  BY <1>1, FS_Interval
<1>3. IsFiniteSet(Having(s, t))
  BY <1>2, FS_Subset DEF Having
<1> QED
  BY <1>3, FS_CardinalityType DEF Count

LEMMA CountZero ==
  ASSUME NEW s, IsSeq(s), NEW t
  PROVE  Count(s, t) = 0 <=> \A i \in 1 .. Len(s) : s[i].type # t
<1>1. IsFiniteSet(Having(s, t))
  BY HavingFinite
<1>2. Count(s, t) = 0 <=> Having(s, t) = {}
  BY <1>1, FS_EmptySet DEF Count
<1> QED
  BY <1>2 DEF Having

LEMMA CountAppend ==
  ASSUME NEW s, IsSeq(s), NEW h, NEW t
  PROVE  Count(Append(s, h), t) = IF h.type = t THEN Count(s, t) + 1 ELSE Count(s, t)
<1>1. PICK p : p = Append(s, h)
  OBVIOUS
<1>2. /\ Len(s) \in Nat /\ Len(p) = Len(s) + 1 /\ p[Len(s) + 1] = h
      /\ \A i \in 1 .. Len(s) : p[i] = s[i]
  BY <1>1, AppendIs
<1>a. IsFiniteSet(Having(s, t)) /\ Count(s, t) \in Nat
  BY HavingFinite
<1>b. Len(s) + 1 \notin Having(s, t)
  BY <1>2 DEF Having
<1>3. PICK H : H = Having(s, t)
  OBVIOUS
<1>4. CASE h.type = t
  <2>1. Having(p, t) = Having(s, t) \cup {Len(s) + 1}
    BY <1>2, <1>4 DEF Having
  <2> QED
    <3>1. Cardinality(H \cup {Len(s) + 1}) = Cardinality(H) + 1
      BY <1>3, <1>a, <1>b, FS_AddElement
    <3> QED
      BY <1>1, <1>3, <1>4, <2>1, <3>1 DEF Count
<1>5. CASE h.type # t
  <2>1. Having(p, t) = Having(s, t)
    BY <1>2, <1>5 DEF Having
  <2> QED
    BY <1>1, <1>5, <2>1 DEF Count
<1> QED
  BY <1>4, <1>5

LEMMA CountTail ==
  ASSUME NEW s, IsSeq(s), s # <<>>, NEW t
  PROVE  Count(Tail(s), t) = IF Head(s).type = t THEN Count(s, t) - 1 ELSE Count(s, t)
<1>1. PICK p : p = Tail(s)
  OBVIOUS
<1>2. /\ IsSeq(p) /\ Len(s) \in Nat /\ Len(s) >= 1 /\ Len(p) = Len(s) - 1 /\ Head(s) = s[1]
      /\ \A i \in 1 .. Len(s) - 1 : p[i] = s[i + 1]
  BY <1>1, TailIs
<1>3. IsFiniteSet(Having(s, t)) /\ IsFiniteSet(Having(p, t))
  BY <1>2, HavingFinite
<1>4. PICK R : R = Having(s, t) \ {1}
  OBVIOUS
<1>5. Cardinality(R) = Cardinality(Having(p, t))
  <2>1. PICK f : f = [i \in Having(p, t) |-> i + 1]
    OBVIOUS
  <2>2. f \in [Having(p, t) -> R]
    BY <1>2, <1>4, <2>1 DEF Having
  <2>3. \A i, j \in Having(p, t) : i # j => f[i] # f[j]
    BY <2>1 DEF Having
  <2>4. ASSUME NEW j \in R PROVE \E i \in Having(p, t) : f[i] = j
    <3>1. j - 1 \in Having(p, t) /\ f[j - 1] = j
      BY <1>2, <1>4, <2>1 DEF Having
    <3> QED
      BY <3>1
  <2>5. f \in Bijection(Having(p, t), R)
    BY <2>2, <2>3, <2>4 DEF Bijection, Injection, Surjection, IsInjective
  <2> QED
    BY <1>3, <2>5, FS_Bijection DEF ExistsBijection
<1>6. CASE Head(s).type = t
  <2>1. 1 \in Having(s, t)
    BY <1>2, <1>6 DEF Having
  <2>2. Cardinality(R) = Cardinality(Having(s, t)) - 1
    BY <1>3, <1>4, <2>1, FS_RemoveElement
  <2> QED
    BY <1>1, <1>5, <1>6, <2>2 DEF Count
<1>7. CASE Head(s).type # t
  <2>1. R = Having(s, t)
    BY <1>2, <1>4, <1>7 DEF Having
  <2> QED
    BY <1>1, <1>5, <1>7, <2>1 DEF Count
<1> QED
  BY <1>6, <1>7

-----------------------------------------------------------------------------
(* Replacing one queue                                                     *)

Put(f, o, v) == [f EXCEPT ![o] = v]

SameBut(o, A, B) == \A x : x # o => (x \in A <=> x \in B)

(* The command at the first place is dealt with before the other.          *)
Ahead(k, i, l, j) ==
    \/ k = "op" /\ l # "op"
    \/ k = "command" /\ l = "strand"
    \/ k = l /\ i < j

(* No two places come from the same one, none overtakes another, and what  *)
(* was with the operation stays there.                                     *)
InOrder(R) ==
    /\ \A k, i, l, j : <<k, i, l, j>> \in R /\ l = "op" => k = "op"
    /\ \A k, i, k2, i2, l, j :
          <<k, i, l, j>> \in R /\ <<k2, i2, l, j>> \in R => k = k2 /\ i = i2
    /\ \A k, i, k2, i2, l, j, l2, j2 :
          /\ <<k, i, l, j>> \in R /\ <<k2, i2, l2, j2>> \in R
          /\ Ahead(k, i, k2, i2)
          => Ahead(l, j, l2, j2)

(* Every command of the new queue was at a place of the old one, no two at *)
(* the same, and the places keep their order.                              *)
Moved(q, p, q2, p2) ==
    \E R : /\ \A k, i, e : EntryAt(q2, p2, k, i, e) =>
                 \E l, j : <<k, i, l, j>> \in R /\ EntryAt(q, p, l, j, e)
           /\ InOrder(R)

(* What waits for the meeting goes on waiting.                             *)
StillWaits(q, p, q2, p2) ==
    WaitsForRoom(p) /\ Count(q.strand, "resume") = 0 =>
       WaitsForRoom(p2) /\ Current(q2) = Current(q) /\ Count(q2.strand, "resume") = 0

LEMMA PutIs ==
  ASSUME NEW f, DOMAIN f = Objs, NEW o \in Objs, NEW v
  PROVE  /\ DOMAIN Put(f, o, v) = Objs /\ Put(f, o, v)[o] = v
         /\ \A x \in Objs : x # o => Put(f, o, v)[x] = f[x]
BY DEF Put

LEMMA PutFcn ==
  ASSUME NEW f, DOMAIN f = Objs, NEW o \in Objs, NEW v
  PROVE  Fcn(Put(f, o, v))
BY DEF Put, Fcn

LEMMA PutSame ==
  ASSUME NEW f, DOMAIN f = Objs, Fcn(f), NEW o \in Objs
  PROVE  Put(f, o, f[o]) = f
BY DEF Put, Fcn

LEMMA PutObjs ==
  ASSUME NEW qs, NEW ps, ObjsOK(qs, ps), NEW o \in Objs, NEW q, NEW p, ObjOK(o, q, p)
  PROVE  ObjsOK(Put(qs, o, q), Put(ps, o, p))
<1>1. DOMAIN qs = Objs /\ DOMAIN ps = Objs
  BY DEF ObjsOK
<1>2. PICK qn, pn : qn = Put(qs, o, q) /\ pn = Put(ps, o, p)
  OBVIOUS
<1>3. /\ DOMAIN qn = Objs /\ DOMAIN pn = Objs /\ qn[o] = q /\ pn[o] = p
      /\ \A x \in Objs : x # o => qn[x] = qs[x] /\ pn[x] = ps[x]
  BY <1>1, <1>2, PutIs
<1>4. ASSUME NEW x \in Objs PROVE ObjOK(x, qn[x], pn[x])
  BY <1>3 DEF ObjsOK
<1>5. Fcn(qn) /\ Fcn(pn)
  BY <1>1, <1>2, PutFcn
<1> QED
  BY <1>2, <1>3, <1>4, <1>5 DEF ObjsOK

LEMMA PutUnawaited ==
  ASSUME NEW qs, NEW ps, ObjsOK(qs, ps), NEW o \in Objs, NEW q, NEW p, NEW y,
         Unawaited(qs, ps, y), Moved(qs[o], ps[o], q, p)
  PROVE  Unawaited(Put(qs, o, q), Put(ps, o, p), y)
<1>1. DOMAIN qs = Objs /\ DOMAIN ps = Objs
  BY DEF ObjsOK
<1>2. PICK qn, pn : qn = Put(qs, o, q) /\ pn = Put(ps, o, p)
  OBVIOUS
<1>3. /\ qn[o] = q /\ pn[o] = p
      /\ \A x \in Objs : x # o => qn[x] = qs[x] /\ pn[x] = ps[x]
  BY <1>1, <1>2, PutIs
<1>4. ASSUME NEW x \in Objs, NEW k, NEW i, NEW e, EntryAt(qn[x], pn[x], k, i, e)
      PROVE  \E l, j : EntryAt(qs[x], ps[x], l, j, e)
  <2>1. CASE x = o
    <3>1. EntryAt(q, p, k, i, e)
      BY <1>3, <1>4, <2>1
    <3> QED
      BY <2>1, <3>1 DEF Moved
  <2>2. CASE x # o
    BY <1>3, <1>4, <2>2
  <2> QED
    BY <2>1, <2>2
<1>5. ASSUME NEW x \in Objs, NEW k, NEW i, NEW e, EntryAt(qn[x], pn[x], k, i, e),
             e.waiter # NoWaiter
      PROVE  e.waiter.obj # y
  BY <1>4, <1>5 DEF Unawaited
<1> QED
  BY <1>2, <1>5 DEF Unawaited

LEMMA PutLines ==
  ASSUME NEW qs, NEW ps, ObjsOK(qs, ps), NEW o \in Objs, NEW q, NEW p,
         Lines(qs, ps), Moved(qs[o], ps[o], q, p),
         StillWaits(qs[o], ps[o], q, p) \/ Unawaited(qs, ps, o)
  PROVE  Lines(Put(qs, o, q), Put(ps, o, p))
<1>1. DOMAIN qs = Objs /\ DOMAIN ps = Objs
  BY DEF ObjsOK
<1>2. PICK qn, pn : qn = Put(qs, o, q) /\ pn = Put(ps, o, p)
  OBVIOUS
<1>3. /\ qn[o] = q /\ pn[o] = p
      /\ \A x \in Objs : x # o => qn[x] = qs[x] /\ pn[x] = ps[x]
  BY <1>1, <1>2, PutIs
<1>4. ASSUME NEW x \in Objs, NEW k, NEW i, NEW e, EntryAt(qn[x], pn[x], k, i, e)
      PROVE  \E l, j : EntryAt(qs[x], ps[x], l, j, e)
  <2>1. CASE x = o
    <3>1. EntryAt(q, p, k, i, e)
      BY <1>3, <1>4, <2>1
    <3> QED
      BY <2>1, <3>1 DEF Moved
  <2>2. CASE x # o
    BY <1>3, <1>4, <2>2
  <2> QED
    BY <2>1, <2>2
<1>5. ASSUME NEW x \in Objs, NEW k, NEW i, NEW e, EntryAt(qn[x], pn[x], k, i, e)
      PROVE  EntryOK(e) /\ (e.waiter # NoWaiter => Awaited(qn, pn, e.waiter))
  <2>1. PICK l, j : EntryAt(qs[x], ps[x], l, j, e)
    BY <1>4, <1>5
  <2>2. EntryOK(e) /\ (e.waiter # NoWaiter => Awaited(qs, ps, e.waiter))
    BY <2>1 DEF Lines
  <2>3. ASSUME e.waiter # NoWaiter PROVE Awaited(qn, pn, e.waiter)
    <3>1. Awaited(qs, ps, e.waiter)
      BY <2>2, <2>3
    <3>2. PICK w : w = e.waiter
      OBVIOUS
    <3>3. CASE w.obj = o
      <4>1. ~Unawaited(qs, ps, o)
        BY <2>1, <2>3, <3>2, <3>3 DEF Unawaited
      <4>2. StillWaits(qs[o], ps[o], q, p)
        BY <4>1
      <4> QED
        BY <1>3, <3>1, <3>2, <3>3, <4>2 DEF Awaited, StillWaits
    <3>4. CASE w.obj # o
      BY <1>3, <3>1, <3>2, <3>4 DEF Awaited
    <3> QED
      BY <3>3, <3>4
  <2> QED
    BY <2>2, <2>3
<1> QED
  BY <1>2, <1>5 DEF Lines

(* The place <<k, i>> of x was <<l, j>> before o was replaced.             *)
Was(R, o, x, k, i, l, j) ==
    IF x = o THEN <<k, i, l, j>> \in R ELSE k = l /\ i = j

LEMMA PutSingle ==
  ASSUME NEW qs, NEW ps, ObjsOK(qs, ps), NEW o \in Objs, NEW q, NEW p,
         Single(qs, ps), Moved(qs[o], ps[o], q, p)
  PROVE  Single(Put(qs, o, q), Put(ps, o, p))
<1>1. DOMAIN qs = Objs /\ DOMAIN ps = Objs
  BY DEF ObjsOK
<1>2. PICK qn, pn : qn = Put(qs, o, q) /\ pn = Put(ps, o, p)
  OBVIOUS
<1>3. /\ qn[o] = q /\ pn[o] = p
      /\ \A x \in Objs : x # o => qn[x] = qs[x] /\ pn[x] = ps[x]
  BY <1>1, <1>2, PutIs
<1>4. PICK R : /\ \A k, i, e : EntryAt(q, p, k, i, e) =>
                      \E l, j : <<k, i, l, j>> \in R /\ EntryAt(qs[o], ps[o], l, j, e)
               /\ \A k, i, k2, i2, l, j :
                      <<k, i, l, j>> \in R /\ <<k2, i2, l, j>> \in R => k = k2 /\ i = i2
  BY DEF Moved, InOrder
<1>5. ASSUME NEW x \in Objs, NEW k, NEW i, NEW e, EntryAt(qn[x], pn[x], k, i, e)
      PROVE  \E l, j : EntryAt(qs[x], ps[x], l, j, e) /\ Was(R, o, x, k, i, l, j)
  <2>1. CASE x = o
    <3>1. EntryAt(q, p, k, i, e)
      BY <1>3, <1>5, <2>1
    <3> QED
      BY <1>4, <2>1, <3>1 DEF Was
  <2>2. CASE x # o
    BY <1>3, <1>5, <2>2 DEF Was
  <2> QED
    BY <2>1, <2>2
<1>6. ASSUME NEW a \in Objs, NEW b \in Objs, NEW k, NEW l, NEW i, NEW j, NEW d, NEW e,
             EntryAt(qn[a], pn[a], k, i, d), EntryAt(qn[b], pn[b], l, j, e),
             d.waiter # NoWaiter, e.waiter # NoWaiter, d.waiter.obj = e.waiter.obj
      PROVE  a = b /\ k = l /\ i = j
  <2>1. PICK k1, i1 : EntryAt(qs[a], ps[a], k1, i1, d) /\ Was(R, o, a, k, i, k1, i1)
    BY <1>5, <1>6
  <2>2. PICK l1, j1 : EntryAt(qs[b], ps[b], l1, j1, e) /\ Was(R, o, b, l, j, l1, j1)
    BY <1>5, <1>6
  <2>3. a = b /\ k1 = l1 /\ i1 = j1
    <3>1. EntryAt(qs[a], ps[a], k1, i1, d) /\ EntryAt(qs[b], ps[b], l1, j1, e)
      BY <2>1, <2>2
    <3>2. d.waiter # NoWaiter /\ e.waiter # NoWaiter /\ d.waiter.obj = e.waiter.obj
      BY <1>6
    <3> QED
      BY <3>1, <3>2 DEF Single
  <2> QED
    BY <1>4, <2>1, <2>2, <2>3 DEF Was
<1>7. \A a, b \in Objs : \A k, l, i, j, d, e :
         /\ EntryAt(qn[a], pn[a], k, i, d) /\ EntryAt(qn[b], pn[b], l, j, e)
         /\ d.waiter # NoWaiter /\ e.waiter # NoWaiter /\ d.waiter.obj = e.waiter.obj
         => a = b /\ k = l /\ i = j
  <2>1. TAKE a, b \in Objs
  <2>2. TAKE k, l, i, j, d, e
  <2>3. HAVE /\ EntryAt(qn[a], pn[a], k, i, d) /\ EntryAt(qn[b], pn[b], l, j, e)
             /\ d.waiter # NoWaiter /\ e.waiter # NoWaiter /\ d.waiter.obj = e.waiter.obj
  <2> QED
    BY <1>6, <2>3
<1>8. Single(qn, pn)
  BY <1>7 DEF Single
<1> QED
  BY <1>2, <1>8

LEMMA PutPool ==
  ASSUME NEW qs, NEW ps, ObjsOK(qs, ps), NEW o \in Objs, NEW q, NEW p,
         NEW held, NEW asleep, PoolUse(qs, ps, held, asleep),
         NEW held2, NEW asleep2, SameBut(o, held, held2), SameBut(o, asleep, asleep2),
         UseOK(o, q, p, held2, asleep2)
  PROVE  PoolUse(Put(qs, o, q), Put(ps, o, p), held2, asleep2)
<1>1. DOMAIN qs = Objs /\ DOMAIN ps = Objs
  BY DEF ObjsOK
<1>2. PICK qn, pn : qn = Put(qs, o, q) /\ pn = Put(ps, o, p)
  OBVIOUS
<1>3. /\ qn[o] = q /\ pn[o] = p
      /\ \A x \in Objs : x # o => qn[x] = qs[x] /\ pn[x] = ps[x]
  BY <1>1, <1>2, PutIs
<1>4. held2 \subseteq Objs /\ asleep2 \subseteq held2
  BY DEF PoolUse, SameBut, UseOK
<1>5. ASSUME NEW x \in Objs PROVE UseOK(x, qn[x], pn[x], held2, asleep2)
  <2>1. CASE x = o
    BY <1>3, <2>1
  <2>2. CASE x # o
    <3>1. UseOK(x, qs[x], ps[x], held, asleep)
      BY DEF PoolUse
    <3>2. (x \in held <=> x \in held2) /\ (x \in asleep <=> x \in asleep2)
      BY <2>2 DEF SameBut
    <3>3. UseOK(x, qs[x], ps[x], held2, asleep2)
      BY <3>1, <3>2 DEF UseOK
    <3> QED
      BY <1>3, <2>2, <3>3
  <2> QED
    BY <2>1, <2>2
<1> QED
  BY <1>2, <1>4, <1>5 DEF PoolUse

LEMMA PutRegistered ==
  ASSUME NEW qs, DOMAIN qs = Objs, NEW o \in Objs, NEW q, NEW reg, Registered(reg, qs),
         q.pending > 0 => reg[Key(o)] = o
  PROVE  Registered(reg, Put(qs, o, q))
<1>1. PICK qn : qn = Put(qs, o, q)
  OBVIOUS
<1>2. qn[o] = q /\ \A x \in Objs : x # o => qn[x] = qs[x]
  BY <1>1, PutIs
<1>3. ASSUME NEW x \in Objs, qn[x].pending > 0 PROVE reg[Key(x)] = x
  BY <1>2, <1>3 DEF Registered
<1> QED
  BY <1>1, <1>3 DEF Registered

LEMMA PutKept ==
  ASSUME NEW qs, DOMAIN qs = Objs, NEW o \in Objs, NEW q, NEW reg, NEW occ,
         Registered(reg, qs), Kept(reg, qs, occ),
         (/\ Key(o) \in Rooms /\ reg[Key(o)] = o
          /\ q.pending = 0 /\ Count(q.strand, "next") = 0) => occ[o]
  PROVE  Kept(reg, Put(qs, o, q), occ)
<1>1. PICK qn : qn = Put(qs, o, q)
  OBVIOUS
<1>2. qn[o] = q /\ \A x \in Objs : x # o => qn[x] = qs[x]
  BY <1>1, PutIs
<1>3. ASSUME NEW r \in Rooms, reg[r] # None, qn[reg[r]].pending = 0,
             Count(qn[reg[r]].strand, "next") = 0
      PROVE  occ[reg[r]]
  <2>1. reg[r] \in Objs /\ Key(reg[r]) = r
    BY <1>3 DEF Registered, Keys
  <2>2. CASE reg[r] = o
    BY <1>2, <1>3, <2>1, <2>2
  <2>3. CASE reg[r] # o
    <3>1. qn[reg[r]] = qs[reg[r]]
      BY <1>2, <2>1, <2>3
    <3> QED
      BY <1>3, <3>1 DEF Kept
  <2> QED
    BY <2>2, <2>3
<1> QED
  BY <1>1, <1>3 DEF Kept

LEMMA LoadIsNat ==
  ASSUME NEW q, QueueOK(q)
  PROVE  Load(q) \in Nat
BY HavingFinite DEF QueueOK, Load

LEMMA PutCounted ==
  ASSUME NEW qs, DOMAIN qs = Objs, NEW o \in Objs, NEW q, NEW n, NEW m,
         Counted(qs, n), Load(qs[o]) \in Nat, Load(q) \in Nat, Load(q) - Load(qs[o]) \in {-1, 0, 1},
         m = n + (Load(q) - Load(qs[o]))
  PROVE  Counted(Put(qs, o, q), m)
<1>1. PICK qn : qn = Put(qs, o, q)
  OBVIOUS
<1>2. qn[o] = q /\ \A x \in Objs : x # o => qn[x] = qs[x]
  BY <1>1, PutIs
<1>3. PICK A, B : A = Slots(qs) /\ B = Slots(qn)
  OBVIOUS
<1>4. IsFiniteSet(A) /\ n = Cardinality(A)
  BY <1>3 DEF Counted
<1>5. Cardinality(A) \in Nat
  BY <1>4, FS_CardinalityType
<1>6. \A x : x \in A <=> x \in Objs \X Nat /\ x[2] \in 1 .. Load(qs[x[1]])
  BY <1>3 DEF Slots
<1>7. \A x : x \in B <=> x \in Objs \X Nat /\ x[2] \in 1 .. Load(qn[x[1]])
  BY <1>3 DEF Slots
<1>8. PICK a, b : a = Load(qs[o]) /\ b = Load(q)
  OBVIOUS
<1>9. a \in Nat /\ b \in Nat /\ b - a \in {-1, 0, 1} /\ m = n + (b - a)
  BY <1>8
<1>10. ASSUME NEW x PROVE
         x \in B <=> IF x \in Objs \X Nat /\ x[1] = o THEN x[2] \in 1 .. b ELSE x \in A
  BY <1>2, <1>6, <1>7, <1>8
<1>11. ASSUME NEW x PROVE
         x \in Objs \X Nat /\ x[1] = o => (x \in A <=> x[2] \in 1 .. a)
  BY <1>6, <1>8
<1>12. \A x : x \in Objs \X Nat /\ x[1] = o => x = <<o, x[2]>> /\ x[2] \in Nat
  OBVIOUS
<1>13. CASE b = a
  <2>1. B = A
    BY <1>10, <1>11, <1>13
  <2> QED
    BY <1>1, <1>3, <1>4, <1>5, <1>9, <1>13, <2>1 DEF Counted
<1>14. CASE b = a + 1
  <2>1. PICK y : y = <<o, b>>
    OBVIOUS
  <2>2. y \in Objs \X Nat /\ y[1] = o /\ y[2] = b
    BY <1>9, <2>1
  <2>3. y \notin A
    BY <1>9, <1>11, <1>14, <2>2
  <2>4. ASSUME NEW x PROVE x \in B <=> x \in A \cup {y}
    BY <1>9, <1>10, <1>11, <1>12, <1>14, <2>1, <2>2
  <2>5. B = A \cup {y}
    BY <2>4
  <2>6. IsFiniteSet(A \cup {y}) /\ Cardinality(A \cup {y}) = Cardinality(A) + 1
    BY <1>4, <2>3, FS_AddElement
  <2> QED
    BY <1>1, <1>3, <1>4, <1>5, <1>9, <1>14, <2>5, <2>6 DEF Counted
<1>15. CASE b = a - 1
  <2>1. PICK y : y = <<o, a>>
    OBVIOUS
  <2>2. y \in Objs \X Nat /\ y[1] = o /\ y[2] = a
    BY <1>9, <2>1
  <2>3. y \in A
    BY <1>9, <1>11, <1>15, <2>2
  <2>4. ASSUME NEW x PROVE x \in B <=> x \in A \ {y}
    BY <1>9, <1>10, <1>11, <1>12, <1>15, <2>1, <2>2
  <2>5. B = A \ {y}
    BY <2>4
  <2>6. IsFiniteSet(A \ {y}) /\ Cardinality(A \ {y}) = Cardinality(A) - 1
    BY <1>4, <2>3, FS_RemoveElement
  <2> QED
    BY <1>1, <1>3, <1>4, <1>5, <1>9, <1>15, <2>5, <2>6 DEF Counted
<1> QED
  BY <1>9, <1>13, <1>14, <1>15

(* What a step that replaces the queue of o and its operation has to show. *)
LEMMA Update ==
  ASSUME NEW qs, NEW ps, NEW held, NEW asleep, NEW reg, NEW met, NEW occ, NEW n,
         Whole(qs, ps, held, asleep, reg, met, occ, n),
         NEW o \in Objs, NEW q, NEW p, ObjOK(o, q, p), Moved(qs[o], ps[o], q, p),
         StillWaits(qs[o], ps[o], q, p) \/ Unawaited(qs, ps, o),
         NEW held2, NEW asleep2, SameBut(o, held, held2), SameBut(o, asleep, asleep2),
         UseOK(o, q, p, held2, asleep2),
         q.pending > 0 => reg[Key(o)] = o,
         (/\ Key(o) \in Rooms /\ reg[Key(o)] = o
          /\ q.pending = 0 /\ Count(q.strand, "next") = 0) => occ[o],
         NEW m, Load(q) - Load(qs[o]) \in {-1, 0, 1}, m = n + (Load(q) - Load(qs[o]))
  PROVE  Whole(Put(qs, o, q), Put(ps, o, p), held2, asleep2, reg, met, occ, m)
<1>1. /\ ObjsOK(qs, ps) /\ DOMAIN occ = Objs /\ Lines(qs, ps) /\ Single(qs, ps)
      /\ PoolUse(qs, ps, held, asleep) /\ Registered(reg, qs) /\ Meetings(met, reg, occ)
      /\ Kept(reg, qs, occ) /\ Counted(qs, n)
  BY DEF Whole
<1>2. DOMAIN qs = Objs /\ QueueOK(qs[o]) /\ QueueOK(q)
  BY <1>1 DEF ObjsOK, ObjOK
<1>3. Load(qs[o]) \in Nat /\ Load(q) \in Nat
  BY <1>2, LoadIsNat
<1>4. ObjsOK(Put(qs, o, q), Put(ps, o, p))
  BY <1>1, PutObjs
<1>5. Lines(Put(qs, o, q), Put(ps, o, p)) /\ Single(Put(qs, o, q), Put(ps, o, p))
  BY <1>1, PutLines, PutSingle
<1>6. PoolUse(Put(qs, o, q), Put(ps, o, p), held2, asleep2)
  BY <1>1, PutPool
<1>7. Registered(reg, Put(qs, o, q)) /\ Kept(reg, Put(qs, o, q), occ)
  BY <1>1, <1>2, PutRegistered, PutKept
<1>8. Counted(Put(qs, o, q), m)
  BY <1>1, <1>2, <1>3, PutCounted
<1> QED
  BY <1>1, <1>4, <1>5, <1>6, <1>7, <1>8 DEF Whole

-----------------------------------------------------------------------------
(* How places move                                                         *)

Places == {"strand", "command", "op"} \X Int \X {"strand", "command", "op"} \X Int

LEMMA PlacesTyped ==
  ASSUME NEW q, NEW p, IsSeq(q.strand), IsSeq(q.commands),
         NEW k, NEW i, NEW e, EntryAt(q, p, k, i, e)
  PROVE  k \in {"strand", "command", "op"} /\ i \in Int
<1>1. Len(q.strand) \in Nat /\ Len(q.commands) \in Nat
  BY DEF IsSeq
<1> QED
  BY <1>1 DEF EntryAt, Having

(* Nothing moves; a command may be gone.                                   *)
LEMMA MovedWithin ==
  ASSUME NEW q, NEW p, NEW q2, NEW p2, IsSeq(q2.strand), IsSeq(q2.commands),
         \A k, i, e : EntryAt(q2, p2, k, i, e) => EntryAt(q, p, k, i, e)
  PROVE  Moved(q, p, q2, p2)
<1>1. PICK R : R = {x \in Places : x[1] = x[3] /\ x[2] = x[4]}
  OBVIOUS
<1>2. ASSUME NEW k, NEW i, NEW e, EntryAt(q2, p2, k, i, e)
      PROVE  <<k, i, k, i>> \in R
  <2>1. k \in {"strand", "command", "op"} /\ i \in Int
    BY <1>2, PlacesTyped
  <2> QED
    BY <1>1, <2>1 DEF Places
<1>3. ASSUME NEW k, NEW i, NEW k2, NEW i2, NEW l, NEW j,
             <<k, i, l, j>> \in R, <<k2, i2, l, j>> \in R
      PROVE  k = k2 /\ i = i2
  BY <1>1, <1>3 DEF Places
<1>4. \A k, i, e : EntryAt(q2, p2, k, i, e) =>
         \E l, j : <<k, i, l, j>> \in R /\ EntryAt(q, p, l, j, e)
  BY <1>2
<1>o. ASSUME NEW k, NEW i, NEW k2, NEW i2, NEW l, NEW j, NEW l2, NEW j2,
             <<k, i, l, j>> \in R, <<k2, i2, l2, j2>> \in R, Ahead(k, i, k2, i2)
      PROVE  Ahead(l, j, l2, j2)
  BY <1>1, <1>o DEF Places, Ahead
<1> QED
  <2>1. \A k, i, l, j : <<k, i, l, j>> \in R /\ l = "op" => k = "op"
    BY <1>1 DEF Places
  <2>2. InOrder(R)
    BY <1>3, <1>o, <2>1 DEF InOrder
  <2> QED
    BY <1>4, <2>2 DEF Moved

(* The first handler, not one of a command, has run.                       *)
LEMMA MovedTail ==
  ASSUME NEW q, NEW p, NEW q2, NEW p2, IsSeq(q.strand), IsSeq(q.commands),
         q.strand # <<>>, Head(q.strand).type # "push",
         q2.strand = Tail(q.strand), q2.commands = q.commands,
         Running(p2) => Running(p) /\ p2.entry = p.entry
  PROVE  Moved(q, p, q2, p2)
<1>1. PICK s, t : s = q.strand /\ t = q2.strand
  OBVIOUS
<1>2. /\ IsSeq(t) /\ Len(s) \in Nat /\ Len(s) >= 1 /\ Len(t) = Len(s) - 1
      /\ \A i \in 1 .. Len(s) - 1 : t[i] = s[i + 1]
  BY <1>1, TailIs
<1>3. PICK R : R = {x \in Places : x[1] = x[3]
                                   /\ x[4] = IF x[1] = "strand" THEN x[2] + 1 ELSE x[2]}
  OBVIOUS
<1>4. ASSUME NEW k, NEW i, NEW e, EntryAt(q2, p2, k, i, e)
      PROVE  \E l, j : <<k, i, l, j>> \in R /\ EntryAt(q, p, l, j, e)
  <2>1. k \in {"strand", "command", "op"} /\ i \in Int
    BY <1>1, <1>2, <1>4, PlacesTyped
  <2>2. CASE k = "strand"
    <3>1. i \in Having(t, "push") /\ e = t[i].entry
      BY <1>1, <1>4, <2>2 DEF EntryAt
    <3>2. i + 1 \in Having(s, "push") /\ e = s[i + 1].entry
      BY <1>2, <3>1 DEF Having
    <3>3. EntryAt(q, p, k, i + 1, e)
      BY <1>1, <2>2, <3>2 DEF EntryAt
    <3>4. <<k, i, k, i + 1>> \in R
      BY <1>3, <2>1, <2>2 DEF Places
    <3> QED
      BY <3>3, <3>4
  <2>3. CASE k # "strand"
    <3>1. EntryAt(q, p, k, i, e)
      BY <1>4, <2>3 DEF EntryAt
    <3>2. <<k, i, k, i>> \in R
      BY <1>3, <2>1, <2>3 DEF Places
    <3> QED
      BY <3>1, <3>2
  <2> QED
    BY <2>2, <2>3
<1>5. ASSUME NEW k, NEW i, NEW k2, NEW i2, NEW l, NEW j,
             <<k, i, l, j>> \in R, <<k2, i2, l, j>> \in R
      PROVE  k = k2 /\ i = i2
  BY <1>3, <1>5 DEF Places
<1>o. ASSUME NEW k, NEW i, NEW k2, NEW i2, NEW l, NEW j, NEW l2, NEW j2,
             <<k, i, l, j>> \in R, <<k2, i2, l2, j2>> \in R, Ahead(k, i, k2, i2)
      PROVE  Ahead(l, j, l2, j2)
  BY <1>3, <1>o DEF Places, Ahead
<1> QED
  <2>1. \A k, i, l, j : <<k, i, l, j>> \in R /\ l = "op" => k = "op"
    BY <1>3 DEF Places
  <2>2. InOrder(R)
    BY <1>5, <1>o, <2>1 DEF InOrder
  <2> QED
    BY <1>4, <2>2 DEF Moved

(* The first handler has put its command behind the others.                *)
LEMMA MovedPush ==
  ASSUME NEW q, NEW p, NEW q2, IsSeq(q.strand), IsSeq(q.commands),
         q.strand # <<>>, Head(q.strand).type = "push",
         q2.strand = Tail(q.strand), q2.commands = Append(q.commands, Head(q.strand).entry)
  PROVE  Moved(q, p, q2, p)
<1>1. PICK s, t, c, d : s = q.strand /\ t = q2.strand /\ c = q.commands /\ d = q2.commands
  OBVIOUS
<1>2. /\ IsSeq(t) /\ Len(s) \in Nat /\ Len(s) >= 1 /\ Len(t) = Len(s) - 1 /\ Head(s) = s[1]
      /\ \A i \in 1 .. Len(s) - 1 : t[i] = s[i + 1]
  BY <1>1, TailIs
<1>3. /\ IsSeq(d) /\ Len(c) \in Nat /\ Len(d) = Len(c) + 1 /\ d[Len(c) + 1] = Head(s).entry
      /\ \A i \in 1 .. Len(c) : d[i] = c[i]
  BY <1>1, AppendIs
<1>4. PICK R : R = {x \in Places :
                      \/ x[1] = "strand" /\ x[3] = "strand" /\ x[4] = x[2] + 1 /\ x[2] > 0
                      \/ x[1] = "command" /\ x[2] = Len(c) + 1 /\ x[3] = "strand" /\ x[4] = 1
                      \/ x[1] = "command" /\ x[3] = "command" /\ x[4] = x[2] /\ x[2] <= Len(c)
                      \/ x[1] = "op" /\ x[3] = "op" /\ x[4] = x[2]}
  OBVIOUS
<1>5. ASSUME NEW k, NEW i, NEW e, EntryAt(q2, p, k, i, e)
      PROVE  \E l, j : <<k, i, l, j>> \in R /\ EntryAt(q, p, l, j, e)
  <2>1. k \in {"strand", "command", "op"} /\ i \in Int
    BY <1>1, <1>2, <1>3, <1>5, PlacesTyped
  <2>2. CASE k = "strand"
    <3>1. i \in Having(t, "push") /\ e = t[i].entry
      BY <1>1, <1>5, <2>2 DEF EntryAt
    <3>2. i + 1 \in Having(s, "push") /\ e = s[i + 1].entry /\ i > 0
      BY <1>2, <3>1 DEF Having
    <3>3. EntryAt(q, p, "strand", i + 1, e)
      BY <1>1, <3>2 DEF EntryAt
    <3>4. <<k, i, "strand", i + 1>> \in R
      BY <1>4, <2>1, <2>2, <3>2 DEF Places
    <3> QED
      BY <3>3, <3>4
  <2>3. CASE k = "command"
    <3>1. i \in 1 .. Len(d) /\ e = d[i]
      BY <1>1, <1>5, <2>3 DEF EntryAt
    <3>2. CASE i = Len(c) + 1
      <4>1. 1 \in Having(s, "push") /\ e = s[1].entry
        BY <1>1, <1>2, <1>3, <3>1, <3>2 DEF Having
      <4>2. EntryAt(q, p, "strand", 1, e)
        BY <1>1, <4>1 DEF EntryAt
      <4>3. <<k, i, "strand", 1>> \in R
        BY <1>4, <2>1, <2>3, <3>2 DEF Places
      <4> QED
        BY <4>2, <4>3
    <3>3. CASE i # Len(c) + 1
      <4>1. i \in 1 .. Len(c) /\ e = c[i]
        BY <1>3, <3>1, <3>3
      <4>2. EntryAt(q, p, "command", i, e)
        BY <1>1, <4>1 DEF EntryAt
      <4>3. i <= Len(c)
        BY <1>3, <4>1
      <4>4. <<k, i, "command", i>> \in R
        BY <1>4, <2>1, <2>3, <4>3 DEF Places
      <4> QED
        BY <4>2, <4>4
    <3> QED
      BY <3>2, <3>3
  <2>4. CASE k = "op"
    <3>1. EntryAt(q, p, k, i, e)
      BY <1>5, <2>4 DEF EntryAt
    <3>2. <<k, i, k, i>> \in R
      BY <1>4, <2>1, <2>4 DEF Places
    <3> QED
      BY <3>1, <3>2
  <2> QED
    BY <2>1, <2>2, <2>3, <2>4
<1>6. ASSUME NEW k, NEW i, NEW k2, NEW i2, NEW l, NEW j,
             <<k, i, l, j>> \in R, <<k2, i2, l, j>> \in R
      PROVE  k = k2 /\ i = i2
  BY <1>4, <1>6 DEF Places
<1>o. ASSUME NEW k, NEW i, NEW k2, NEW i2, NEW l, NEW j, NEW l2, NEW j2,
             <<k, i, l, j>> \in R, <<k2, i2, l2, j2>> \in R, Ahead(k, i, k2, i2)
      PROVE  Ahead(l, j, l2, j2)
  BY <1>3, <1>4, <1>o DEF Places, Ahead
<1> QED
  <2>1. \A k, i, l, j : <<k, i, l, j>> \in R /\ l = "op" => k = "op"
    BY <1>4 DEF Places
  <2>2. InOrder(R)
    BY <1>6, <1>o, <2>1 DEF InOrder
  <2> QED
    BY <1>5, <2>2 DEF Moved

(* Pump has given the first command to the operation.                      *)
LEMMA MovedPump ==
  ASSUME NEW q, NEW p, NEW q2, NEW p2, IsSeq(q.strand), IsSeq(q.commands),
         q.commands # <<>>, q2.strand = q.strand, q2.commands = Tail(q.commands),
         p2.entry = Head(q.commands)
  PROVE  Moved(q, p, q2, p2)
<1>1. PICK c, d : c = q.commands /\ d = q2.commands
  OBVIOUS
<1>2. /\ IsSeq(d) /\ Len(c) \in Nat /\ Len(c) >= 1 /\ Len(d) = Len(c) - 1 /\ Head(c) = c[1]
      /\ \A i \in 1 .. Len(c) - 1 : d[i] = c[i + 1]
  BY <1>1, TailIs
<1>3. PICK R : R = {x \in Places :
                      \/ x[1] = "strand" /\ x[3] = "strand" /\ x[4] = x[2]
                      \/ x[1] = "command" /\ x[3] = "command" /\ x[4] = x[2] + 1 /\ x[2] > 0
                      \/ x[1] = "op" /\ x[2] = 0 /\ x[3] = "command" /\ x[4] = 1}
  OBVIOUS
<1>4. ASSUME NEW k, NEW i, NEW e, EntryAt(q2, p2, k, i, e)
      PROVE  \E l, j : <<k, i, l, j>> \in R /\ EntryAt(q, p, l, j, e)
  <2>1. k \in {"strand", "command", "op"} /\ i \in Int
    BY <1>1, <1>2, <1>4, PlacesTyped
  <2>2. CASE k = "strand"
    <3>1. EntryAt(q, p, k, i, e)
      BY <1>4, <2>2 DEF EntryAt
    <3>2. <<k, i, k, i>> \in R
      BY <1>3, <2>1, <2>2 DEF Places
    <3> QED
      BY <3>1, <3>2
  <2>3. CASE k = "command"
    <3>1. i \in 1 .. Len(d) /\ e = d[i]
      BY <1>1, <1>4, <2>3 DEF EntryAt
    <3>2. i + 1 \in 1 .. Len(c) /\ e = c[i + 1] /\ i > 0
      BY <1>2, <3>1
    <3>3. EntryAt(q, p, "command", i + 1, e)
      BY <1>1, <3>2 DEF EntryAt
    <3>4. <<k, i, "command", i + 1>> \in R
      BY <1>3, <2>1, <2>3, <3>2 DEF Places
    <3> QED
      BY <3>3, <3>4
  <2>4. CASE k = "op"
    <3>1. i = 0 /\ e = c[1]
      BY <1>1, <1>2, <1>4, <2>4 DEF EntryAt
    <3>2. EntryAt(q, p, "command", 1, e)
      BY <1>1, <1>2, <3>1 DEF EntryAt
    <3>3. <<k, i, "command", 1>> \in R
      BY <1>3, <2>4, <3>1 DEF Places
    <3> QED
      BY <3>2, <3>3
  <2> QED
    BY <2>1, <2>2, <2>3, <2>4
<1>5. ASSUME NEW k, NEW i, NEW k2, NEW i2, NEW l, NEW j,
             <<k, i, l, j>> \in R, <<k2, i2, l, j>> \in R
      PROVE  k = k2 /\ i = i2
  BY <1>3, <1>5 DEF Places
<1>o. ASSUME NEW k, NEW i, NEW k2, NEW i2, NEW l, NEW j, NEW l2, NEW j2,
             <<k, i, l, j>> \in R, <<k2, i2, l2, j2>> \in R, Ahead(k, i, k2, i2)
      PROVE  Ahead(l, j, l2, j2)
  BY <1>3, <1>o DEF Places, Ahead
<1> QED
  <2>1. \A k, i, l, j : <<k, i, l, j>> \in R /\ l = "op" => k = "op"
    BY <1>3 DEF Places
  <2>2. InOrder(R)
    BY <1>5, <1>o, <2>1 DEF InOrder
  <2> QED
    BY <1>4, <2>2 DEF Moved

-----------------------------------------------------------------------------
(* Steps of an operation                                                   *)

LEMMA WholeAt ==
  ASSUME NEW qs, NEW ps, NEW held, NEW asleep, NEW reg, NEW met, NEW occ, NEW n,
         Whole(qs, ps, held, asleep, reg, met, occ, n), NEW o \in Objs
  PROVE  /\ QueueOK(qs[o]) /\ Accounted(qs[o], ps[o]) /\ ResumesOK(qs[o], ps[o])
         /\ OpOK(o, ps[o]) /\ UseOK(o, qs[o], ps[o], held, asleep)
         /\ DOMAIN qs = Objs /\ DOMAIN ps = Objs /\ Fcn(qs) /\ Fcn(ps)
         /\ (qs[o].pending > 0 => reg[Key(o)] = o)
<1>1. ObjsOK(qs, ps) /\ PoolUse(qs, ps, held, asleep) /\ Registered(reg, qs)
  BY DEF Whole
<1> QED
  BY <1>1 DEF ObjsOK, ObjOK, PoolUse, Registered

LEMMA EntryOf ==
  ASSUME NEW qs, NEW ps, NEW held, NEW asleep, NEW reg, NEW met, NEW occ, NEW n,
         Whole(qs, ps, held, asleep, reg, met, occ, n), NEW o \in Objs, Running(ps[o])
  PROVE  EntryOK(ps[o].entry)
         /\ (ps[o].entry.waiter # NoWaiter => Awaited(qs, ps, ps[o].entry.waiter))
<1>1. Lines(qs, ps)
  BY DEF Whole
<1>2. EntryAt(qs[o], ps[o], "op", 0, ps[o].entry)
  BY DEF EntryAt
<1> QED
  BY <1>1, <1>2 DEF Lines

LEMMA BusyQueue ==
  ASSUME NEW q, NEW p, QueueOK(q), Accounted(q, p), p.pc # "none"
  PROVE  q.pending > 0
<1>1. Count(q.strand, "push") \in Nat
  BY HavingFinite DEF QueueOK
<1>2. Len(q.commands) \in Nat
  BY DEF QueueOK, IsSeq
<1> QED
  BY <1>1, <1>2 DEF Accounted, Uses

LEMMA OpStep ==
  ASSUME NEW qs, NEW ps, NEW held, NEW asleep, NEW reg, NEW met, NEW occ, NEW n,
         Whole(qs, ps, held, asleep, reg, met, occ, n), NEW o \in Objs,
         Running(ps[o]), ps[o].pc # "await",
         NEW p, Running(p), p.pc # "await", p.entry = ps[o].entry, OpOK(o, p),
         NEW held2, SameBut(o, held, held2)
  PROVE  Whole(qs, Put(ps, o, p), held2, asleep, reg, met, occ, n)
<1>1. PICK q : q = qs[o]
  OBVIOUS
<1>2. /\ QueueOK(q) /\ Accounted(q, ps[o]) /\ ResumesOK(q, ps[o])
      /\ UseOK(o, q, ps[o], held, asleep)
      /\ DOMAIN qs = Objs /\ Fcn(qs) /\ (q.pending > 0 => reg[Key(o)] = o)
  BY <1>1, WholeAt
<1>3. q.pending > 0
  BY <1>2, BusyQueue DEF Running
<1>4. ObjOK(o, q, p)
  BY <1>2 DEF ObjOK, Accounted, ResumesOK, Running, Uses
<1>5. Moved(q, ps[o], q, p)
  <2>1. IsSeq(q.strand) /\ IsSeq(q.commands)
    BY <1>2 DEF QueueOK
  <2>2. \A k, i, e : EntryAt(q, p, k, i, e) => EntryAt(q, ps[o], k, i, e)
    BY DEF EntryAt
  <2> QED
    BY <2>1, <2>2, MovedWithin
<1>6. StillWaits(q, ps[o], q, p)
  BY DEF StillWaits, WaitsForRoom
<1>7. SameBut(o, asleep, asleep) /\ UseOK(o, q, p, held2, asleep)
  BY <1>2 DEF SameBut, UseOK, WaitsForRoom
<1>8. Load(q) \in Nat
  BY <1>2, LoadIsNat
<1>9. n \in Nat
  BY FS_CardinalityType DEF Whole, Counted
<1>10. Whole(Put(qs, o, q), Put(ps, o, p), held2, asleep, reg, met, occ, n)
  <2>1. Load(q) - Load(qs[o]) \in {-1, 0, 1} /\ n = n + (Load(q) - Load(qs[o]))
    BY <1>1, <1>8, <1>9
  <2>2. q.pending # 0
    BY <1>3
  <2> QED
    BY <1>1, <1>2, <1>3, <1>4, <1>5, <1>6, <1>7, <2>1, <2>2, Update
<1>11. Put(qs, o, q) = qs
  BY <1>1, <1>2, PutSame
<1> QED
  BY <1>10, <1>11

LEMMA PoolTasksSame ==
  ASSUME PoolTasks, UNCHANGED <<m_tasks, thread, task, awaiting>>
  PROVE  PoolTasks'
BY DEF PoolTasks, Busy

LEMMA StartStep ==
  ASSUME DispatchInv, NEW o \in Objs, Start(o)
  PROVE  DispatchInv'
<1>1. Whole(queue, op, holders, awaiting, registry, meeting, occupied, scheduled)
  BY DEF DispatchInv
<1>2. PICK p : p = op[o]
  OBVIOUS
<1>3. p.pc = "start" /\ DOMAIN op = Objs /\ OpOK(o, p)
  BY <1>1, <1>2, WholeAt DEF Start
<1>4. Running(p)
  BY <1>3 DEF Running
<1>5. PICK e : e = p.entry
  OBVIOUS
<1>6. EntryOK(e)
  BY <1>1, <1>2, <1>4, <1>5, EntryOf
<1>7. meeting \in [Conns -> Rooms \cup {None}]
  BY <1>1 DEF Whole, Meetings
<1>8. PICK f, t : f = FirstStep(o) /\ t = Target(o)
  OBVIOUS
<1>9. PICK p2 : p2 = [p EXCEPT !.pc = f, !.target = t]
  OBVIOUS
<1>10. DOMAIN p = OpFields
  BY <1>3 DEF OpOK
<1>11. /\ DOMAIN p2 = OpFields /\ p2.pc = f /\ p2.target = t /\ p2.entry = e
       /\ p2.cont = p.cont
  BY <1>5, <1>9, <1>10 DEF OpFields
<1>12. op' = Put(op, o, p2)
  BY <1>2, <1>3, <1>8, <1>9, <1>10 DEF Start, Put, OpFields
<1>13. f \in {"dispatch", "finish", "resolve", "toRoom"}
  BY <1>8 DEF FirstStep
<1>14. f = "resolve" => Key(o) \notin Rooms /\ t \in Rooms
  BY <1>2, <1>5, <1>6, <1>8 DEF FirstStep, Target, Entry, EntryOK
<1>15. f = "toRoom" => Key(o) \notin Rooms /\ t \in Rooms
  <2>1. ASSUME f = "toRoom" PROVE Key(o) \notin Rooms /\ t # None /\ e.kind \notin {"scan", "join"}
    BY <1>2, <1>5, <1>8, <2>1 DEF FirstStep, Entry
  <2>2. ASSUME t # None, e.kind \notin {"scan", "join"} PROVE t \in Rooms
    BY <1>2, <1>5, <1>6, <1>7, <1>8, <2>2 DEF Target, Entry, EntryOK
  <2> QED
    BY <2>1, <2>2
<1>16. f = "dispatch" /\ e.kind = "join" => Key(o) \in Rooms
  BY <1>2, <1>5, <1>8 DEF FirstStep, Entry
<1>17. OpOK(o, p2) /\ Running(p2) /\ p2.pc # "await"
  BY <1>11, <1>13, <1>14, <1>15, <1>16 DEF OpOK, Routing, Handling, Running
<1>18. SameBut(o, holders, holders)
  BY DEF SameBut
<1>19. Whole(queue, Put(op, o, p2), holders, awaiting, registry, meeting, occupied, scheduled)
  BY <1>1, <1>2, <1>3, <1>4, <1>5, <1>11, <1>17, <1>18, OpStep
<1>20. UNCHANGED <<queue, holders, awaiting, registry, meeting, occupied, scheduled>>
       /\ UNCHANGED <<m_tasks, thread, task, awaiting>>
  BY DEF Start, poolVars
<1>21. PoolTasks'
  BY <1>20, PoolTasksSame DEF DispatchInv
<1> QED
  BY <1>12, <1>19, <1>20, <1>21 DEF DispatchInv

(* A step of the operation that may reserve or give back capacity.         *)
LEMMA PlainStep ==
  ASSUME DispatchInv, NEW o \in Objs, Running(op[o]), op[o].pc # "await",
         NEW p, op' = Put(op, o, p), Running(p), p.pc # "await", p.entry = op[o].entry,
         OpOK(o, p), SameBut(o, holders, holders'),
         UNCHANGED <<queue, awaiting, registry, meeting, occupied, scheduled>>,
         UNCHANGED <<m_tasks, thread, task>>
  PROVE  DispatchInv'
<1>1. Whole(queue, op, holders, awaiting, registry, meeting, occupied, scheduled)
  BY DEF DispatchInv
<1>2. Whole(queue, Put(op, o, p), holders', awaiting, registry, meeting, occupied, scheduled)
  BY <1>1, OpStep
<1>3. PoolTasks'
  BY PoolTasksSame DEF DispatchInv
<1> QED
  BY <1>2, <1>3 DEF DispatchInv

LEMMA OpFacts ==
  ASSUME DispatchInv, NEW o \in Objs
  PROVE  DOMAIN op = Objs /\ OpOK(o, op[o]) /\ DOMAIN op[o] = OpFields /\ DOMAIN queue = Objs
         /\ Fcn(op)
<1>1. Whole(queue, op, holders, awaiting, registry, meeting, occupied, scheduled)
  BY DEF DispatchInv
<1>2. DOMAIN op = Objs /\ OpOK(o, op[o]) /\ DOMAIN queue = Objs /\ Fcn(op)
  BY <1>1, WholeAt
<1> QED
  BY <1>2 DEF OpOK

LEMMA PoolSame ==
  ASSUME NEW o, Pool!Reserve(o) \/ Pool!ReleaseCapacity(o) \/ UNCHANGED poolVars
  PROVE  SameBut(o, holders, holders') /\ UNCHANGED <<m_tasks, thread, task, awaiting>>
BY DEF Pool!Reserve, Pool!ReleaseCapacity, SameBut, poolVars

LEMMA ResolveStep ==
  ASSUME DispatchInv, NEW o \in Objs, Resolve(o)
  PROVE  DispatchInv'
<1>1. PICK p : p = op[o]
  OBVIOUS
<1>2. p.pc = "resolve" /\ DOMAIN op = Objs /\ OpOK(o, p) /\ DOMAIN p = OpFields
  BY <1>1, OpFacts DEF Resolve
<1>3. SameBut(o, holders, holders') /\ UNCHANGED <<m_tasks, thread, task, awaiting>>
  BY PoolSame DEF Resolve
<1>4. UNCHANGED <<queue, registry, meeting, occupied, scheduled>>
  BY DEF Resolve
<1>5. CASE op' = [op EXCEPT ![o].pc = "submit", ![o].cont = "resolved"]
  <2>1. PICK p2 : p2 = [p EXCEPT !.pc = "submit", !.cont = "resolved"]
    OBVIOUS
  <2>2. /\ DOMAIN p2 = OpFields /\ p2.pc = "submit" /\ p2.cont = "resolved"
        /\ p2.entry = p.entry /\ p2.target = p.target
    BY <1>2, <2>1 DEF OpFields
  <2>3. op' = Put(op, o, p2)
    BY <1>1, <1>2, <1>5, <2>1 DEF Put, OpFields
  <2>4. OpOK(o, p2) /\ Running(p2) /\ Running(p) /\ p2.pc # "await"
    BY <1>2, <2>2 DEF OpOK, Routing, Handling, Running
  <2> QED
    BY <1>1, <1>2, <1>3, <1>4, <2>2, <2>3, <2>4, PlainStep
<1>6. CASE op' = [op EXCEPT ![o].pc = "finish"]
  <2>1. PICK p2 : p2 = [p EXCEPT !.pc = "finish"]
    OBVIOUS
  <2>2. DOMAIN p2 = OpFields /\ p2.pc = "finish" /\ p2.entry = p.entry
    BY <1>2, <2>1 DEF OpFields
  <2>3. op' = Put(op, o, p2)
    BY <1>1, <1>2, <1>6, <2>1 DEF Put, OpFields
  <2>4. OpOK(o, p2) /\ Running(p2) /\ Running(p) /\ p2.pc # "await"
    BY <1>2, <2>2 DEF OpOK, Routing, Handling, Running
  <2> QED
    BY <1>1, <1>2, <1>3, <1>4, <2>2, <2>3, <2>4, PlainStep
<1> QED
  BY <1>5, <1>6 DEF Resolve

Gets(o, pc) == op' = [op EXCEPT ![o].pc = pc]

(* The operation gets a pc at which its entry and its target do not matter *)
(* or go on to matter as they did.                                         *)
LEMMA PcStep ==
  ASSUME DispatchInv, NEW o \in Objs, Running(op[o]), op[o].pc # "await",
         NEW pc, Gets(o, pc),
         pc \notin {"none", "unpend", "await", "submit", "dispatch", "resolve", "resolved"},
         pc = "toRoom" => Routing(op[o]),
         pc \in {"retry", "work"} => Handling(op[o]),
         SameBut(o, holders, holders'),
         UNCHANGED <<queue, awaiting, registry, meeting, occupied, scheduled>>,
         UNCHANGED <<m_tasks, thread, task>>
  PROVE  DispatchInv'
<1>1. PICK p : p = op[o]
  OBVIOUS
<1>2. DOMAIN op = Objs /\ OpOK(o, p) /\ DOMAIN p = OpFields
  BY <1>1, OpFacts
<1>3. PICK p2 : p2 = [p EXCEPT !.pc = pc]
  OBVIOUS
<1>4. DOMAIN p2 = OpFields /\ p2.pc = pc /\ p2.entry = p.entry /\ p2.target = p.target
  BY <1>2, <1>3 DEF OpFields
<1>5. op' = Put(op, o, p2)
  BY <1>1, <1>2, <1>3 DEF Put, OpFields, Gets
<1>6. Running(p2) /\ p2.pc # "await"
  BY <1>4 DEF Running
<1>7. OpOK(o, p2)
  BY <1>1, <1>2, <1>4 DEF OpOK, Routing, Handling
<1> QED
  BY <1>1, <1>4, <1>5, <1>6, <1>7, PlainStep

LEMMA ResolvedStep ==
  ASSUME DispatchInv, NEW o \in Objs, Resolved(o)
  PROVE  DispatchInv'
<1>1. op[o].pc = "resolved"
  BY DEF Resolved
<1>2. SameBut(o, holders, holders') /\ UNCHANGED <<m_tasks, thread, task, awaiting>>
  BY PoolSame DEF Resolved
<1>3. UNCHANGED <<queue, registry, meeting, occupied, scheduled>>
  BY DEF Resolved, Local
<1>4. Running(op[o]) /\ Routing(op[o])
  BY <1>1 DEF Running, Routing
<1>5. CASE Gets(o, "toRoom")
  BY <1>1, <1>2, <1>3, <1>4, <1>5, PcStep
<1>6. CASE Gets(o, "finish")
  BY <1>1, <1>2, <1>3, <1>4, <1>6, PcStep
<1> QED
  BY <1>5, <1>6 DEF Resolved, Local, Gets

LEMMA RouteReleasesStep ==
  ASSUME DispatchInv, NEW o \in Objs, RouteReleases(o)
  PROVE  DispatchInv'
<1>1. op[o].pc = "toRoom" /\ Gets(o, "toRoom")
  BY DEF RouteReleases, Local, Gets
<1>2. SameBut(o, holders, holders') /\ UNCHANGED <<m_tasks, thread, task, awaiting>>
  BY PoolSame DEF RouteReleases
<1>3. UNCHANGED <<queue, registry, meeting, occupied, scheduled>>
  BY DEF RouteReleases, Local
<1>4. Running(op[o]) /\ Routing(op[o])
  BY <1>1 DEF Running, Routing
<1> QED
  BY <1>1, <1>2, <1>3, <1>4, PcStep

LEMMA DispatchDropsStep ==
  ASSUME DispatchInv, NEW o \in Objs, DispatchDrops(o)
  PROVE  DispatchInv'
<1>1. op[o].pc = "dispatch" /\ Gets(o, "finish")
  BY DEF DispatchDrops, Local, Gets
<1>2. SameBut(o, holders, holders') /\ UNCHANGED <<m_tasks, thread, task, awaiting>>
  BY PoolSame DEF DispatchDrops
<1>3. UNCHANGED <<queue, registry, meeting, occupied, scheduled>>
  BY DEF DispatchDrops, Local
<1>4. Running(op[o])
  BY <1>1 DEF Running
<1> QED
  BY <1>1, <1>2, <1>3, <1>4, PcStep

LEMMA DispatchReservesStep ==
  ASSUME DispatchInv, NEW o \in Objs, DispatchReserves(o)
  PROVE  DispatchInv'
<1>1. op[o].pc \in {"dispatch", "retry"}
  BY DEF DispatchReserves
<1>2. SameBut(o, holders, holders') /\ UNCHANGED <<m_tasks, thread, task, awaiting>>
  BY PoolSame DEF DispatchReserves
<1>3. UNCHANGED <<queue, registry, meeting, occupied, scheduled>>
  BY DEF DispatchReserves
<1>4. Running(op[o]) /\ Handling(op[o]) /\ op[o].pc # "await"
  BY <1>1 DEF Running, Handling
<1>5. CASE Gets(o, "work")
  BY <1>2, <1>3, <1>4, <1>5, PcStep
<1>6. CASE Gets(o, "retry")
  BY <1>2, <1>3, <1>4, <1>6, PcStep
<1>7. CASE Gets(o, "finish")
  BY <1>2, <1>3, <1>4, <1>7, PcStep
<1> QED
  BY <1>5, <1>6, <1>7 DEF DispatchReserves, Gets

LEMMA HandlerAwaitsStep ==
  ASSUME DispatchInv, NEW o \in Objs, HandlerAwaits(o)
  PROVE  DispatchInv'
<1>1. PICK p : p = op[o]
  OBVIOUS
<1>2. p.pc = "work" /\ DOMAIN op = Objs /\ OpOK(o, p) /\ DOMAIN p = OpFields
  BY <1>1, OpFacts DEF HandlerAwaits
<1>3. /\ SameBut(o, holders, holders')
      /\ UNCHANGED <<m_tasks, thread, task, awaiting>>
      /\ UNCHANGED <<queue, registry, meeting, occupied, scheduled>>
  BY DEF HandlerAwaits, poolVars, SameBut
<1>4. PICK p2 : p2 = [p EXCEPT !.pc = "submit", !.cont = "work", !.awaits = @ + 1]
  OBVIOUS
<1>5. DOMAIN p2 = OpFields /\ p2.pc = "submit" /\ p2.cont = "work" /\ p2.entry = p.entry
  BY <1>2, <1>4 DEF OpFields
<1>6. op' = Put(op, o, p2)
  BY <1>1, <1>2, <1>4 DEF HandlerAwaits, Put, OpFields
<1>7. OpOK(o, p2) /\ Running(p2) /\ Running(p) /\ p2.pc # "await"
  BY <1>2, <1>5 DEF OpOK, Routing, Handling, Running
<1> QED
  BY <1>1, <1>2, <1>3, <1>5, <1>6, <1>7, PlainStep

LEMMA Rebind ==
  ASSUME NEW qs, NEW ps, NEW held, NEW asleep, NEW reg, NEW met, NEW occ, NEW n,
         Whole(qs, ps, held, asleep, reg, met, occ, n),
         NEW met2, NEW occ2, DOMAIN occ2 = Objs, Meetings(met2, reg, occ2), Kept(reg, qs, occ2)
  PROVE  Whole(qs, ps, held, asleep, reg, met2, occ2, n)
BY DEF Whole

LEMMA HandlerEndsStep ==
  ASSUME DispatchInv, NEW o \in Objs, HandlerEnds(o)
  PROVE  DispatchInv'
<1>1. Whole(queue, op, holders, awaiting, registry, meeting, occupied, scheduled)
  BY DEF DispatchInv
<1>2. PICK p : p = op[o]
  OBVIOUS
<1>3. p.pc = "work" /\ DOMAIN op = Objs /\ OpOK(o, p) /\ DOMAIN p = OpFields
  BY <1>2, OpFacts DEF HandlerEnds
<1>4. UNCHANGED <<m_tasks, thread, task, holders, awaiting, queue, registry, scheduled>>
  BY DEF HandlerEnds, poolVars
<1>5. PICK p2 : p2 = [p EXCEPT !.pc = "finish"]
  OBVIOUS
<1>6. DOMAIN p2 = OpFields /\ p2.pc = "finish" /\ p2.entry = p.entry
  BY <1>3, <1>5 DEF OpFields
<1>7. op' = Put(op, o, p2)
  BY <1>2, <1>3, <1>5 DEF HandlerEnds, Put, OpFields
<1>8. OpOK(o, p2) /\ Running(p2) /\ Running(p) /\ p2.pc # "await"
  BY <1>3, <1>6 DEF OpOK, Routing, Handling, Running
<1>9. SameBut(o, holders, holders)
  BY DEF SameBut
<1>10. Whole(queue, Put(op, o, p2), holders, awaiting, registry, meeting, occupied, scheduled)
  BY <1>1, <1>2, <1>3, <1>6, <1>8, <1>9, OpStep
<1>11. queue[o].pending > 0 /\ registry[Key(o)] = o
  <2>1. QueueOK(queue[o]) /\ Accounted(queue[o], op[o])
        /\ (queue[o].pending > 0 => registry[Key(o)] = o)
    BY <1>1, WholeAt
  <2> QED
    BY <1>2, <1>3, <2>1, BusyQueue
<1>12. PICK e, c, r : e = p.entry /\ c = e.conn /\ r = Key(o)
  OBVIOUS
<1>13. EntryOK(e)
  BY <1>1, <1>2, <1>8, <1>12, EntryOf
<1>14. e.kind = "join" => r \in Rooms
  BY <1>3, <1>12 DEF OpOK, Handling
<1>15. /\ meeting \in [Conns -> Rooms \cup {None}] /\ Meetings(meeting, registry, occupied)
       /\ Registered(registry, queue) /\ Kept(registry, queue, occupied)
       /\ DOMAIN occupied = Objs
  BY <1>1 DEF Whole, Meetings
<1>16. None \notin Rooms
  BY KeysAssumption DEF Keys
<1>17. o # None
  BY KeysAssumption
<1>18. ASSUME NEW b, occupied' = [occupied EXCEPT ![o] = b]
       PROVE  /\ DOMAIN occupied' = Objs /\ occupied'[o] = b /\ Kept(registry, queue, occupied')
              /\ \A k \in Rooms : registry[k] # None /\ registry[k] # o =>
                    occupied'[registry[k]] = occupied[registry[k]]
  <2>1. /\ DOMAIN occupied' = Objs /\ occupied'[o] = b
        /\ \A x \in Objs : x # o => occupied'[x] = occupied[x]
    BY <1>15, <1>18
  <2>2. \A k \in Rooms : registry[k] # None => registry[k] \in Objs
    BY <1>15 DEF Registered, Keys
  <2>3. Kept(registry, queue, occupied')
    BY <1>11, <1>15, <2>1, <2>2 DEF Kept
  <2> QED
    BY <2>1, <2>2, <2>3
<1>19. /\ DOMAIN occupied' = Objs /\ Meetings(meeting', registry, occupied')
       /\ Kept(registry, queue, occupied')
  <2>1. CASE UNCHANGED <<occupied, meeting, closed>>
    BY <1>15, <2>1
  <2>2. CASE /\ e.kind = "join"
             /\ \E victims \in SUBSET Others(c, r) :
                   meeting' = [d \in Conns |-> IF d = c THEN r
                                               ELSE IF d \in victims THEN None ELSE meeting[d]]
             /\ occupied' = [occupied EXCEPT ![o] = TRUE]
    <3>1. /\ DOMAIN occupied' = Objs /\ occupied'[o] = TRUE /\ Kept(registry, queue, occupied')
          /\ \A k \in Rooms : registry[k] # None /\ registry[k] # o =>
                occupied'[registry[k]] = occupied[registry[k]]
      BY <1>18, <2>2
    <3>2. meeting' \in [Conns -> Rooms \cup {None}]
      BY <1>14, <1>15, <2>2
    <3>3. ASSUME NEW d \in Conns, meeting'[d] # None
          PROVE  registry[meeting'[d]] # None /\ occupied'[registry[meeting'[d]]]
      <4>1. meeting'[d] = r \/ (meeting'[d] = meeting[d] /\ meeting[d] # None)
        BY <2>2, <3>3
      <4>2. CASE meeting'[d] = r
        BY <1>11, <1>12, <1>17, <3>1, <4>2
      <4>3. CASE meeting'[d] = meeting[d] /\ meeting[d] # None
        <5>1. registry[meeting[d]] # None /\ occupied[registry[meeting[d]]] /\ meeting[d] \in Rooms
          BY <1>15, <4>3 DEF Meetings
        <5> QED
          BY <3>1, <4>3, <5>1
      <4> QED
        BY <4>1, <4>2, <4>3
    <3> QED
      BY <3>1, <3>2, <3>3 DEF Meetings
  <2>3. CASE /\ r \in Rooms /\ e.kind \in {"room", "scan"}
             /\ c # None => meeting[c] = r
             /\ meeting' = IF c = None THEN meeting ELSE [meeting EXCEPT ![c] = None]
             /\ \E b \in BOOLEAN : /\ Others(c, r) # {} => b
                                   /\ occupied' = [occupied EXCEPT ![o] = b]
    <3>1. PICK b \in BOOLEAN : (Others(c, r) # {} => b) /\ occupied' = [occupied EXCEPT ![o] = b]
      BY <2>3
    <3>2. /\ DOMAIN occupied' = Objs /\ occupied'[o] = b /\ Kept(registry, queue, occupied')
          /\ \A k \in Rooms : registry[k] # None /\ registry[k] # o =>
                occupied'[registry[k]] = occupied[registry[k]]
      BY <1>18, <3>1
    <3>3. meeting' \in [Conns -> Rooms \cup {None}]
      BY <1>15, <2>3
    <3>4. ASSUME NEW d \in Conns, meeting'[d] # None
          PROVE  registry[meeting'[d]] # None /\ occupied'[registry[meeting'[d]]]
      <4>1. meeting'[d] = meeting[d] /\ d # c
        <5>1. CASE c = None
          BY <2>3, <5>1, KeysAssumption DEF Keys
        <5>2. CASE c # None
          BY <1>15, <2>3, <3>4, <5>2
        <5> QED
          BY <5>1, <5>2
      <4>2. registry[meeting[d]] # None /\ occupied[registry[meeting[d]]] /\ meeting[d] \in Rooms
        BY <1>15, <3>4, <4>1 DEF Meetings
      <4>3. CASE registry[meeting[d]] = o
        <5>1. meeting[d] = r
          BY <1>12, <1>15, <4>2, <4>3 DEF Registered, Keys
        <5>2. d \in Others(c, r)
          BY <4>1, <5>1 DEF Others
        <5> QED
          BY <3>1, <3>2, <4>1, <4>2, <4>3, <5>2
      <4>4. CASE registry[meeting[d]] # o
        BY <3>2, <4>1, <4>2, <4>4
      <4> QED
        BY <4>3, <4>4
    <3> QED
      BY <3>2, <3>3, <3>4 DEF Meetings
  <2>4. CASE meeting' = [meeting EXCEPT ![c] = None] /\ occupied' = occupied
    <3>1. meeting' \in [Conns -> Rooms \cup {None}]
      BY <1>15, <2>4
    <3>2. ASSUME NEW d \in Conns, meeting'[d] # None PROVE meeting'[d] = meeting[d]
      BY <1>15, <2>4, <3>2
    <3> QED
      BY <1>15, <2>4, <3>1, <3>2 DEF Meetings
  <2>5. CASE /\ meeting' = [d \in Conns |-> IF meeting[d] = r THEN None ELSE meeting[d]]
             /\ occupied' = [occupied EXCEPT ![o] = FALSE]
    <3>1. /\ DOMAIN occupied' = Objs /\ Kept(registry, queue, occupied')
          /\ \A k \in Rooms : registry[k] # None /\ registry[k] # o =>
                occupied'[registry[k]] = occupied[registry[k]]
      BY <1>18, <2>5
    <3>2. meeting' \in [Conns -> Rooms \cup {None}]
      BY <1>15, <2>5
    <3>3. ASSUME NEW d \in Conns, meeting'[d] # None
          PROVE  registry[meeting'[d]] # None /\ occupied'[registry[meeting'[d]]]
      <4>1. meeting'[d] = meeting[d] /\ meeting[d] # r
        BY <2>5, <3>3
      <4>2. registry[meeting[d]] # None /\ occupied[registry[meeting[d]]] /\ meeting[d] \in Rooms
        BY <1>15, <3>3, <4>1 DEF Meetings
      <4>3. registry[meeting[d]] # o
        BY <1>12, <1>15, <4>1, <4>2 DEF Registered, Keys
      <4> QED
        BY <3>1, <4>1, <4>2, <4>3
    <3> QED
      BY <3>1, <3>2, <3>3 DEF Meetings
  <2> QED
    BY <1>2, <1>12, <2>1, <2>2, <2>3, <2>4, <2>5 DEF HandlerEnds, Entry
<1>20. Whole(queue, Put(op, o, p2), holders, awaiting, registry, meeting', occupied', scheduled)
  BY <1>10, <1>19, Rebind
<1>21. PoolTasks'
  BY <1>4, PoolTasksSame DEF DispatchInv
<1> QED
  BY <1>4, <1>7, <1>20, <1>21 DEF DispatchInv

-----------------------------------------------------------------------------
(* Handlers of a strand                                                    *)

LEMMA PutTwice ==
  ASSUME NEW f, DOMAIN f = Objs, NEW o \in Objs, NEW u, NEW v
  PROVE  Put(Put(f, o, u), o, v) = Put(f, o, v)
BY DEF Put

LEMMA CountIsNat ==
  ASSUME NEW q, QueueOK(q), NEW t
  PROVE  Count(q.strand, t) \in Nat
BY HavingFinite DEF QueueOK

StartOf(p, q) ==
    IF Starts(q) THEN [NoOperation EXCEPT !.pc = "start", !.entry = Head(q.commands)] ELSE p

LEMMA PumpStep ==
  ASSUME NEW qs, NEW ps, NEW held, NEW asleep, NEW reg, NEW met, NEW occ, NEW n,
         Whole(qs, ps, held, asleep, reg, met, occ, n), NEW o \in Objs,
         ps[o].pc # "unpend"
  PROVE  Whole(Put(qs, o, Pumped(qs[o])), Put(ps, o, StartOf(ps[o], qs[o])),
               held, asleep, reg, met, occ, n)
<1>1. PICK q, p : q = qs[o] /\ p = ps[o]
  OBVIOUS
<1>2. /\ QueueOK(q) /\ Accounted(q, p) /\ ResumesOK(q, p) /\ OpOK(o, p)
      /\ UseOK(o, q, p, held, asleep) /\ DOMAIN qs = Objs /\ DOMAIN ps = Objs
      /\ Fcn(qs) /\ Fcn(ps) /\ (q.pending > 0 => reg[Key(o)] = o)
  BY <1>1, WholeAt
<1>3. CASE ~Starts(q)
  <2>1. Pumped(q) = q /\ StartOf(p, q) = p
    BY <1>3 DEF Pumped, StartOf
  <2>2. Put(qs, o, q) = qs /\ Put(ps, o, p) = ps
    BY <1>1, <1>2, PutSame
  <2> QED
    BY <1>1, <2>1, <2>2
<1>4. CASE Starts(q)
  <2>1. q.active = 0 /\ q.commands # <<>>
    BY <1>4 DEF Starts
  <2>2. p.pc = "none"
    BY <1>1, <1>2, <2>1 DEF Accounted, Running
  <2>3. PICK q2, p2 : q2 = Pumped(q) /\ p2 = StartOf(p, q)
    OBVIOUS
  <2>4. /\ DOMAIN q2 = QueueFields /\ q2.active = q.next + 1 /\ q2.next = q.next + 1
        /\ q2.phase = 0 /\ q2.commands = Tail(q.commands)
        /\ q2.strand = q.strand /\ q2.pending = q.pending
    BY <1>2, <1>4, <2>3 DEF Pumped, QueueOK, QueueFields
  <2>5. DOMAIN p2 = OpFields /\ p2.pc = "start" /\ p2.entry = Head(q.commands)
    BY <1>4, <2>3 DEF StartOf, NoOperation, OpFields
  <2>6. IsSeq(q.commands) /\ IsSeq(q.strand)
    BY <1>2 DEF QueueOK
  <2>7. IsSeq(q2.commands) /\ Len(q2.commands) = Len(q.commands) - 1
        /\ Len(q.commands) \in Nat /\ Len(q.commands) >= 1
    BY <2>1, <2>4, <2>6, TailIs
  <2>8. Count(q.strand, "push") \in Nat
    BY <1>2, CountIsNat
  <2>9. QueueOK(q2)
    BY <1>2, <2>4, <2>7 DEF QueueOK
  <2>10. Accounted(q2, p2)
    <3>1. PICK x, y, z : x = Count(q.strand, "push") /\ y = Len(q.commands) /\ z = Len(q2.commands)
      OBVIOUS
    <3>2. Uses(p) = 0 /\ Uses(p2) = 1 /\ Running(p2)
      BY <2>2, <2>5 DEF Uses, Running
    <3>3. q2.pending = x + y + 0
      BY <1>2, <2>4, <3>1, <3>2 DEF Accounted
    <3>4. x \in Nat /\ y \in Nat /\ z = y - 1
      BY <2>7, <2>8, <3>1
    <3>5. q2.pending = x + z + 1
      BY <3>3, <3>4
    <3>6. q2.active # 0
      BY <1>2, <2>4 DEF QueueOK
    <3>7. q2.pending = Count(q2.strand, "push") + Len(q2.commands) + Uses(p2)
      BY <2>4, <3>1, <3>2, <3>5
    <3> QED
      BY <3>2, <3>6, <3>7 DEF Accounted
  <2>11. ResumesOK(q2, p2)
    BY <1>2, <2>2, <2>4, <2>5 DEF ResumesOK
  <2>12. OpOK(o, p2)
    BY <2>5 DEF OpOK, Routing, Handling
  <2>13. Moved(q, p, q2, p2)
    BY <2>1, <2>4, <2>5, <2>6, MovedPump
  <2>14. StillWaits(q, p, q2, p2)
    BY <2>2 DEF StillWaits, WaitsForRoom
  <2>15. UseOK(o, q2, p2, held, asleep)
    BY <1>2, <2>2 DEF UseOK, Running
  <2>16. q2.pending > 0 /\ q.pending > 0
    BY <1>2, <2>4, <2>7, <2>8 DEF Accounted, Uses
  <2>17. Load(q2) = Load(q) /\ Load(q) \in Nat
    BY <1>2, <2>4, LoadIsNat DEF Load
  <2>18. n \in Nat
    BY FS_CardinalityType DEF Whole, Counted
  <2>19. SameBut(o, held, held) /\ SameBut(o, asleep, asleep)
    BY DEF SameBut
  <2>20. Load(q2) - Load(q) \in {-1, 0, 1} /\ n = n + (Load(q2) - Load(q))
    BY <2>17, <2>18
  <2>21. ObjOK(o, q2, p2) /\ reg[Key(o)] = o /\ q2.pending # 0
    BY <1>2, <2>9, <2>10, <2>11, <2>12, <2>16 DEF ObjOK
  <2>22. Whole(Put(qs, o, q2), Put(ps, o, p2), held, asleep, reg, met, occ, n)
    BY <1>1, <2>13, <2>14, <2>15, <2>19, <2>20, <2>21, Update
  <2> QED
    BY <1>1, <2>3, <2>22
<1> QED
  BY <1>3, <1>4

(* The first handler of q was taken.                                       *)
TookHead(q, q2) ==
    /\ q.strand # <<>> /\ q2.strand = Tail(q.strand)
    /\ q2.active = q.active /\ q2.phase = q.phase /\ q2.token = q.token
    /\ DOMAIN q2 = QueueFields /\ q2.next = q.next /\ q2.pending = q.pending
    /\ IsSeq(q2.commands)

(* What taking the first handler leaves.                                   *)
LEMMA TailQueue ==
  ASSUME NEW q, NEW p, QueueOK(q), ResumesOK(q, p), NEW q2, TookHead(q, q2)
  PROVE  /\ QueueOK(q2) /\ ResumesOK(q2, p)
         /\ \A t : Count(q2.strand, t) = IF Head(q.strand).type = t THEN Count(q.strand, t) - 1
                                         ELSE Count(q.strand, t)
         /\ Head(q.strand).type \in {"push", "resume", "next"}
         /\ (Head(q.strand).type # "resume" => StillWaits(q, p, q2, p))
         /\ (Head(q.strand).type = "resume" =>
                p.pc = "await" /\ Head(q.strand).token = Current(q)
                /\ Count(q.strand, "resume") = 1 /\ Count(q2.strand, "resume") = 0)
<1>1. PICK s, u : s = q.strand /\ u = q2.strand
  OBVIOUS
<1>a. /\ q.strand # <<>> /\ q2.strand = Tail(q.strand)
      /\ q2.active = q.active /\ q2.phase = q.phase /\ q2.token = q.token
      /\ DOMAIN q2 = QueueFields /\ q2.next = q.next /\ q2.pending = q.pending
      /\ IsSeq(q2.commands)
  BY DEF TookHead
<1>2. IsSeq(s) /\ s # <<>>
  BY <1>1, <1>a DEF QueueOK
<1>3. /\ IsSeq(u) /\ Len(s) \in Nat /\ Len(s) >= 1 /\ Len(u) = Len(s) - 1 /\ Head(s) = s[1]
      /\ \A i \in 1 .. Len(s) - 1 : u[i] = s[i + 1]
  BY <1>1, <1>2, <1>a, TailIs
<1>4. ASSUME NEW t
      PROVE Count(u, t) = IF Head(s).type = t THEN Count(s, t) - 1 ELSE Count(s, t)
  BY <1>1, <1>2, <1>a, CountTail
<1>5. \A i \in 1 .. Len(u) : i + 1 \in 1 .. Len(s) /\ u[i] = s[i + 1]
  BY <1>3
<1>6. QueueOK(q2)
  BY <1>1, <1>3, <1>5, <1>a DEF QueueOK
<1>7. Count(s, "resume") \in Nat /\ Count(s, "resume") <= 1
  BY <1>1, CountIsNat DEF ResumesOK
<1>8. Current(q2) = Current(q)
  BY <1>a DEF Current
<1>9. ResumesOK(q2, p)
  <2>1. Count(u, "resume") <= 1
    BY <1>4, <1>7
  <2>2. \A i \in 1 .. Len(u) : u[i].type = "resume" => p.pc = "await" /\ u[i].token = Current(q)
    BY <1>1, <1>5 DEF ResumesOK
  <2> QED
    BY <1>1, <1>8, <2>1, <2>2 DEF ResumesOK
<1>10. 1 \in 1 .. Len(s)
  BY <1>3
<1>11. Head(s).type \in {"push", "resume", "next"}
  BY <1>1, <1>3, <1>10 DEF QueueOK
<1>12. ASSUME Head(s).type # "resume" PROVE StillWaits(q, p, q2, p)
  BY <1>1, <1>4, <1>8, <1>12 DEF StillWaits
<1>13. ASSUME Head(s).type = "resume"
       PROVE p.pc = "await" /\ Head(s).token = Current(q)
             /\ Count(s, "resume") = 1 /\ Count(u, "resume") = 0
  <2>1. p.pc = "await" /\ Head(s).token = Current(q)
    BY <1>1, <1>3, <1>10, <1>13 DEF ResumesOK
  <2>2. Count(s, "resume") # 0
    BY <1>2, <1>3, <1>10, <1>13, CountZero
  <2> QED
    BY <1>4, <1>7, <1>13, <2>1, <2>2
<1> QED
  BY <1>1, <1>4, <1>6, <1>9, <1>11, <1>12, <1>13

LEMMA HandlePushStep ==
  ASSUME DispatchInv, NEW o \in Objs, HandlePush(o)
  PROVE  DispatchInv'
<1>1. Whole(queue, op, holders, awaiting, registry, meeting, occupied, scheduled)
  BY DEF DispatchInv
<1>2. PICK q, p : q = queue[o] /\ p = op[o]
  OBVIOUS
<1>3. /\ QueueOK(q) /\ Accounted(q, p) /\ ResumesOK(q, p) /\ OpOK(o, p)
      /\ UseOK(o, q, p, holders, awaiting) /\ DOMAIN queue = Objs /\ DOMAIN op = Objs
      /\ Fcn(queue) /\ Fcn(op) /\ (q.pending > 0 => registry[Key(o)] = o)
  BY <1>1, <1>2, WholeAt
<1>4. q.strand # <<>> /\ Head(q.strand).type = "push" /\ p.pc # "unpend"
  BY <1>2 DEF HandlePush, NextHandler, StrandFree
<1>5. PICK q2 : q2 = [q EXCEPT !.strand = Tail(@), !.commands = Append(@, Head(q.strand).entry)]
  OBVIOUS
<1>6. /\ DOMAIN q2 = QueueFields /\ q2.strand = Tail(q.strand)
      /\ q2.commands = Append(q.commands, Head(q.strand).entry)
      /\ q2.active = q.active /\ q2.phase = q.phase /\ q2.token = q.token
      /\ q2.next = q.next /\ q2.pending = q.pending
  BY <1>3, <1>5 DEF QueueOK, QueueFields
<1>7. IsSeq(q.strand) /\ IsSeq(q.commands)
  BY <1>3 DEF QueueOK
<1>8. IsSeq(q2.commands) /\ Len(q2.commands) = Len(q.commands) + 1 /\ Len(q.commands) \in Nat
  BY <1>6, <1>7, AppendIs
<1>a. TookHead(q, q2)
  BY <1>4, <1>6, <1>8 DEF TookHead
<1>9. /\ QueueOK(q2) /\ ResumesOK(q2, p) /\ StillWaits(q, p, q2, p)
      /\ Count(q2.strand, "push") = Count(q.strand, "push") - 1
      /\ Count(q2.strand, "next") = Count(q.strand, "next")
      /\ Count(q2.strand, "resume") = Count(q.strand, "resume")
  BY <1>3, <1>4, <1>a, TailQueue
<1>10. Count(q.strand, "push") \in Nat /\ Count(q2.strand, "push") \in Nat
  BY <1>3, <1>9, CountIsNat
<1>11. Accounted(q2, p)
  BY <1>3, <1>6, <1>8, <1>9, <1>10 DEF Accounted, Uses
<1>12. ObjOK(o, q2, p)
  BY <1>3, <1>9, <1>11 DEF ObjOK
<1>13. Moved(q, p, q2, p)
  BY <1>4, <1>6, <1>7, MovedPush
<1>14. UseOK(o, q2, p, holders, awaiting)
  BY <1>3, <1>6, <1>9 DEF UseOK, Current
<1>15. q.pending > 0
  BY <1>3, <1>8, <1>9, <1>10 DEF Accounted, Uses
<1>16. Load(q2) = Load(q) /\ Load(q) \in Nat
  BY <1>3, <1>6, <1>9, LoadIsNat DEF Load
<1>17. scheduled \in Nat
  BY <1>1, FS_CardinalityType DEF Whole, Counted
<1>18. SameBut(o, holders, holders) /\ SameBut(o, awaiting, awaiting)
  BY DEF SameBut
<1>19. Load(q2) - Load(q) \in {-1, 0, 1} /\ scheduled = scheduled + (Load(q2) - Load(q))
  BY <1>16, <1>17
<1>20. registry[Key(o)] = o /\ q2.pending # 0
  BY <1>3, <1>6, <1>15
<1>21. PICK qm : qm = Put(queue, o, q2)
  OBVIOUS
<1>22. Put(op, o, p) = op
  BY <1>2, <1>3, PutSame
<1>23. Whole(qm, op, holders, awaiting, registry, meeting, occupied, scheduled)
  BY <1>1, <1>2, <1>12, <1>13, <1>9, <1>14, <1>18, <1>19, <1>20, <1>21, <1>22, Update
<1>24. qm[o] = q2
  BY <1>3, <1>21, PutIs
<1>25. Whole(Put(qm, o, Pumped(q2)), Put(op, o, StartOf(p, q2)),
             holders, awaiting, registry, meeting, occupied, scheduled)
  BY <1>2, <1>4, <1>23, <1>24, PumpStep
<1>26. queue' = Put(qm, o, Pumped(q2))
  <2>1. queue' = Put(queue, o, Pumped(q2))
    BY <1>2, <1>5 DEF HandlePush, Put
  <2> QED
    BY <1>3, <1>21, <2>1, PutTwice
<1>27. op' = Put(op, o, StartOf(p, q2))
  BY <1>2, <1>5 DEF HandlePush, Put, StartOf, PumpedOp
<1>28. UNCHANGED <<m_tasks, thread, task, holders, awaiting, registry, meeting, occupied, scheduled>>
  BY DEF HandlePush, poolVars
<1>29. PoolTasks'
  BY <1>28, PoolTasksSame DEF DispatchInv
<1> QED
  BY <1>25, <1>26, <1>27, <1>28, <1>29 DEF DispatchInv

LEMMA HandleResumeStep ==
  ASSUME DispatchInv, NEW o \in Objs, HandleResume(o)
  PROVE  DispatchInv'
<1>1. Whole(queue, op, holders, awaiting, registry, meeting, occupied, scheduled)
  BY DEF DispatchInv
<1>2. PICK q, p : q = queue[o] /\ p = op[o]
  OBVIOUS
<1>3. /\ QueueOK(q) /\ Accounted(q, p) /\ ResumesOK(q, p) /\ OpOK(o, p)
      /\ UseOK(o, q, p, holders, awaiting) /\ DOMAIN queue = Objs /\ DOMAIN op = Objs
      /\ Fcn(queue) /\ Fcn(op) /\ (q.pending > 0 => registry[Key(o)] = o)
  BY <1>1, <1>2, WholeAt
<1>4. q.strand # <<>> /\ Head(q.strand).type = "resume"
  BY <1>2 DEF HandleResume, NextHandler
<1>5. PICK q2 : q2 = [q EXCEPT !.strand = Tail(@)]
  OBVIOUS
<1>6. /\ DOMAIN q2 = QueueFields /\ q2.strand = Tail(q.strand) /\ q2.commands = q.commands
      /\ q2.active = q.active /\ q2.phase = q.phase /\ q2.token = q.token
      /\ q2.next = q.next /\ q2.pending = q.pending
  BY <1>3, <1>5 DEF QueueOK, QueueFields
<1>7. IsSeq(q.strand) /\ IsSeq(q.commands)
  BY <1>3 DEF QueueOK
<1>8. TookHead(q, q2)
  BY <1>4, <1>6, <1>7 DEF TookHead
<1>9. /\ QueueOK(q2) /\ ResumesOK(q2, p)
      /\ Count(q2.strand, "push") = Count(q.strand, "push")
      /\ Count(q2.strand, "next") = Count(q.strand, "next")
      /\ p.pc = "await" /\ Head(q.strand).token = Current(q)
      /\ Count(q.strand, "resume") = 1 /\ Count(q2.strand, "resume") = 0
  <2>1. /\ QueueOK(q2) /\ ResumesOK(q2, p)
        /\ \A t : Count(q2.strand, t) = IF Head(q.strand).type = t THEN Count(q.strand, t) - 1
                                         ELSE Count(q.strand, t)
    BY <1>3, <1>8, TailQueue
  <2>2. /\ p.pc = "await" /\ Head(q.strand).token = Current(q)
        /\ Count(q.strand, "resume") = 1 /\ Count(q2.strand, "resume") = 0
    BY <1>3, <1>4, <1>8, TailQueue
  <2>3. Count(q2.strand, "push") = Count(q.strand, "push")
    BY <1>4, <2>1
  <2>4. Count(q2.strand, "next") = Count(q.strand, "next")
    BY <1>4, <2>1
  <2> QED
    BY <2>1, <2>2, <2>3, <2>4
<1>10. PICK p2 : p2 = [p EXCEPT !.pc = p.cont]
  OBVIOUS
<1>11. DOMAIN p = OpFields /\ p.cont \in {"resolved", "work", "finish"}
  BY <1>3, <1>9 DEF OpOK
<1>12. /\ DOMAIN p2 = OpFields /\ p2.pc = p.cont /\ p2.cont = p.cont /\ p2.entry = p.entry
       /\ p2.target = p.target
  BY <1>10, <1>11 DEF OpFields
<1>13. OpOK(o, p2)
  BY <1>3, <1>9, <1>11, <1>12 DEF OpOK, Routing, Handling
<1>14. Running(p) /\ Running(p2) /\ p2.pc # "await" /\ p2.pc # "none"
  BY <1>9, <1>11, <1>12 DEF Running
<1>15. Accounted(q2, p2)
  BY <1>3, <1>6, <1>9, <1>14 DEF Accounted, Uses
<1>16. ResumesOK(q2, p2)
  <2>1. \A i \in 1 .. Len(q2.strand) : q2.strand[i].type # "resume"
    BY <1>9, CountZero DEF QueueOK
  <2> QED
    BY <1>9, <2>1 DEF ResumesOK
<1>17. ObjOK(o, q2, p2)
  BY <1>9, <1>13, <1>15, <1>16 DEF ObjOK
<1>18. Moved(q, p, q2, p2)
  BY <1>4, <1>6, <1>7, <1>12, <1>14, MovedTail
<1>19. StillWaits(q, p, q2, p2)
  BY <1>9 DEF StillWaits
<1>20. UseOK(o, q2, p2, holders, awaiting)
  BY <1>3, <1>9, <1>14 DEF UseOK, WaitsForRoom
<1>21. q.pending > 0
  BY <1>3, <1>9, BusyQueue
<1>22. Load(q2) = Load(q) /\ Load(q) \in Nat
  BY <1>3, <1>6, <1>9, LoadIsNat DEF Load
<1>23. scheduled \in Nat
  BY <1>1, FS_CardinalityType DEF Whole, Counted
<1>24. SameBut(o, holders, holders) /\ SameBut(o, awaiting, awaiting)
  BY DEF SameBut
<1>25. Load(q2) - Load(q) \in {-1, 0, 1} /\ scheduled = scheduled + (Load(q2) - Load(q))
  BY <1>22, <1>23
<1>26. registry[Key(o)] = o /\ q2.pending # 0
  BY <1>3, <1>6, <1>21
<1>27. Whole(Put(queue, o, q2), Put(op, o, p2),
             holders, awaiting, registry, meeting, occupied, scheduled)
  BY <1>1, <1>2, <1>17, <1>18, <1>19, <1>20, <1>24, <1>25, <1>26, Update
<1>28. queue' = Put(queue, o, q2)
  BY <1>2, <1>3, <1>5 DEF HandleResume, Put, QueueOK, QueueFields
<1>29. op' = Put(op, o, p2)
  <2>1. Matches(o, Head(queue[o].strand).token)
    BY <1>2, <1>9 DEF Matches, Current
  <2> QED
    BY <1>2, <1>3, <1>10, <1>11, <2>1 DEF HandleResume, Put, OpFields
<1>30. UNCHANGED <<m_tasks, thread, task, holders, awaiting, registry, meeting, occupied, scheduled>>
  BY DEF HandleResume, poolVars
<1>31. PoolTasks'
  BY <1>30, PoolTasksSame DEF DispatchInv
<1> QED
  BY <1>27, <1>28, <1>29, <1>30, <1>31 DEF DispatchInv

(* A registry entry is erased.                                             *)
LEMMA Erase ==
  ASSUME NEW qs, NEW ps, NEW held, NEW asleep, NEW reg, NEW met, NEW occ, NEW n,
         Whole(qs, ps, held, asleep, reg, met, occ, n),
         NEW o \in Objs, reg[Key(o)] = o, qs[o].pending = 0, Key(o) # Timer,
         Key(o) \in Rooms => ~occ[o]
  PROVE  Whole(qs, ps, held, asleep, [reg EXCEPT ![Key(o)] = None], met, occ, n)
<1>1. Registered(reg, qs) /\ Meetings(met, reg, occ) /\ Kept(reg, qs, occ)
  BY DEF Whole
<1>2. PICK reg2 : reg2 = [reg EXCEPT ![Key(o)] = None]
  OBVIOUS
<1>3. Key(o) \in Keys
  BY DEF Objs, Key
<1>4. DOMAIN reg = Keys
  BY <1>1 DEF Registered
<1>5. /\ DOMAIN reg2 = Keys /\ reg2[Key(o)] = None
      /\ \A k \in Keys : k # Key(o) => reg2[k] = reg[k]
  BY <1>2, <1>3, <1>4
<1>6. Registered(reg2, qs)
  <2>1. reg2[Timer] = <<Timer, 1>>
    BY <1>1, <1>5 DEF Registered, Keys
  <2>2. \A k \in Keys : reg2[k] # None => reg2[k] \in Objs /\ Key(reg2[k]) = k
    BY <1>1, <1>5 DEF Registered
  <2>3. ASSUME NEW x \in Objs, qs[x].pending > 0 PROVE reg2[Key(x)] = x
    <3>1. reg[Key(x)] = x /\ x # o
      BY <1>1, <2>3 DEF Registered
    <3>2. Key(x) \in Keys /\ Key(x) # Key(o)
      BY <3>1 DEF Objs, Key
    <3> QED
      BY <1>5, <3>1, <3>2
  <2> QED
    BY <1>5, <2>1, <2>2, <2>3 DEF Registered
<1>7. Meetings(met, reg2, occ)
  <2>1. ASSUME NEW c \in Conns, met[c] # None
        PROVE  reg2[met[c]] # None /\ occ[reg2[met[c]]]
    <3>1. met[c] \in Rooms /\ reg[met[c]] # None /\ occ[reg[met[c]]]
      BY <1>1, <2>1 DEF Meetings
    <3>2. met[c] # Key(o)
      BY <3>1
    <3> QED
      BY <1>5, <3>1, <3>2 DEF Keys
  <2> QED
    BY <1>1, <2>1 DEF Meetings
<1>8. Kept(reg2, qs, occ)
  BY <1>1, <1>5 DEF Kept, Keys
<1> QED
  BY <1>2, <1>6, <1>7, <1>8 DEF Whole

LEMMA EmptyStrand ==
  /\ IsSeq(<<>>) /\ Len(<<>>) = 0
  /\ \A t : Count(<<>>, t) = 0
<1>1. IsSeq(<<>>) /\ Len(<<>>) = 0
  <2>1. <<>> \in Seq({})
    OBVIOUS
  <2> QED
    BY <2>1 DEF IsSeq
<1>2. ASSUME NEW t PROVE Count(<<>>, t) = 0
  <2>1. Having(<<>>, t) = {}
    BY DEF Having
  <2> QED
    BY <2>1, FS_EmptySet DEF Count
<1> QED
  BY <1>1, <1>2

LEMMA NewObject ==
  ASSUME NEW o \in Objs
  PROVE  ObjOK(o, NewQueue, NoOperation) /\ Load(NewQueue) = 0
         /\ \A k, i, e : ~EntryAt(NewQueue, NoOperation, k, i, e)
<1>1. PICK q, p : q = NewQueue /\ p = NoOperation
  OBVIOUS
<1>2. /\ DOMAIN q = QueueFields /\ q.pending = 0 /\ q.strand = <<>> /\ q.commands = <<>>
      /\ q.next = 0 /\ q.active = 0 /\ q.phase = 0
  BY <1>1 DEF NewQueue, QueueFields
<1>3. DOMAIN p = OpFields /\ p.pc = "none"
  BY <1>1 DEF NoOperation, OpFields
<1>4. QueueOK(q)
  BY <1>2, EmptyStrand DEF QueueOK
<1>5. Accounted(q, p)
  BY <1>2, <1>3, EmptyStrand DEF Accounted, Uses, Running
<1>6. ResumesOK(q, p)
  BY <1>2, EmptyStrand DEF ResumesOK
<1>7. OpOK(o, p)
  BY <1>1, <1>3 DEF OpOK, Routing, Handling
<1>8. Load(q) = 0
  BY <1>2, EmptyStrand DEF Load
<1>9. ASSUME NEW k, NEW i, NEW e PROVE ~EntryAt(q, p, k, i, e)
  BY <1>2, <1>3, EmptyStrand DEF EntryAt, Having, Running
<1> QED
  BY <1>1, <1>4, <1>5, <1>6, <1>7, <1>8, <1>9 DEF ObjOK

LEMMA EmptyQueue ==
  ASSUME NEW q, NEW p, QueueOK(q), Accounted(q, p), q.pending = 0
  PROVE  Count(q.strand, "push") = 0 /\ q.commands = <<>> /\ p.pc = "none"
<1>1. Count(q.strand, "push") \in Nat
  BY CountIsNat
<1>2. Len(q.commands) \in Nat /\ (Len(q.commands) = 0 => q.commands = <<>>)
  BY DEF QueueOK, IsSeq
<1> QED
  BY <1>1, <1>2 DEF Accounted, Uses

(* The last reference to an object that is not registered goes.            *)
LEMMA Retire ==
  ASSUME NEW qs, NEW ps, NEW held, NEW asleep, NEW reg, NEW met, NEW occ, NEW n,
         Whole(qs, ps, held, asleep, reg, met, occ, n), NEW o \in Objs,
         reg[Key(o)] # o, qs[o].pending = 0, qs[o].strand = <<>>
  PROVE  Whole(Put(qs, o, NewQueue), ps, held, asleep, reg, met, occ, n)
<1>1. PICK q, p : q = qs[o] /\ p = ps[o]
  OBVIOUS
<1>2. /\ QueueOK(q) /\ Accounted(q, p) /\ OpOK(o, p) /\ UseOK(o, q, p, held, asleep)
      /\ DOMAIN ps = Objs /\ Fcn(ps)
  BY <1>1, WholeAt
<1>3. p = NoOperation /\ p.pc = "none"
  BY <1>1, <1>2, EmptyQueue DEF OpOK
<1>4. ObjOK(o, NewQueue, p) /\ Load(NewQueue) = 0
  BY <1>3, NewObject
<1>5. Moved(q, p, NewQueue, p)
  <2>1. \A k, i, e : EntryAt(NewQueue, p, k, i, e) => EntryAt(q, p, k, i, e)
    BY <1>3, NewObject
  <2>2. IsSeq(NewQueue.strand) /\ IsSeq(NewQueue.commands)
    BY <1>4 DEF ObjOK, QueueOK
  <2> QED
    BY <2>1, <2>2, MovedWithin
<1>6. StillWaits(q, p, NewQueue, p)
  BY <1>3 DEF StillWaits, WaitsForRoom
<1>7. UseOK(o, NewQueue, p, held, asleep)
  BY <1>2, <1>3 DEF UseOK, Running
<1>8. SameBut(o, held, held) /\ SameBut(o, asleep, asleep)
  BY DEF SameBut
<1>9. Load(q) = 0
  BY <1>1, EmptyStrand DEF Load
<1>10. n \in Nat
  BY FS_CardinalityType DEF Whole, Counted
<1>11. Load(NewQueue) - Load(q) \in {-1, 0, 1} /\ n = n + (Load(NewQueue) - Load(q))
  BY <1>4, <1>9, <1>10
<1>12. ~(NewQueue.pending > 0)
  BY DEF NewQueue
<1>13. Whole(Put(qs, o, NewQueue), Put(ps, o, p), held, asleep, reg, met, occ, n)
  BY <1>1, <1>4, <1>5, <1>6, <1>7, <1>8, <1>11, <1>12, Update
<1> QED
  BY <1>1, <1>2, <1>13, PutSame

LEMMA HandleNextStep ==
  ASSUME DispatchInv, NEW o \in Objs, HandleNext(o)
  PROVE  DispatchInv'
<1>1. Whole(queue, op, holders, awaiting, registry, meeting, occupied, scheduled)
  BY DEF DispatchInv
<1>2. PICK q, p : q = queue[o] /\ p = op[o]
  OBVIOUS
<1>3. /\ QueueOK(q) /\ Accounted(q, p) /\ ResumesOK(q, p) /\ OpOK(o, p)
      /\ UseOK(o, q, p, holders, awaiting) /\ DOMAIN queue = Objs /\ DOMAIN op = Objs
      /\ Fcn(queue) /\ Fcn(op) /\ (q.pending > 0 => registry[Key(o)] = o)
  BY <1>1, <1>2, WholeAt
<1>4. q.strand # <<>> /\ Head(q.strand).type = "next" /\ p.pc # "unpend"
  BY <1>2 DEF HandleNext, NextHandler, StrandFree
<1>5. PICK q2 : q2 = [q EXCEPT !.strand = Tail(@)]
  OBVIOUS
<1>6. /\ DOMAIN q2 = QueueFields /\ q2.strand = Tail(q.strand) /\ q2.commands = q.commands
      /\ q2.active = q.active /\ q2.phase = q.phase /\ q2.token = q.token
      /\ q2.next = q.next /\ q2.pending = q.pending
  BY <1>3, <1>5 DEF QueueOK, QueueFields
<1>7. IsSeq(q.strand) /\ IsSeq(q.commands) /\ q.pending \in Nat
  BY <1>3 DEF QueueOK
<1>8. TookHead(q, q2)
  BY <1>4, <1>6, <1>7 DEF TookHead
<1>9. /\ QueueOK(q2) /\ ResumesOK(q2, p) /\ StillWaits(q, p, q2, p)
      /\ Count(q2.strand, "push") = Count(q.strand, "push")
      /\ Count(q2.strand, "next") = Count(q.strand, "next") - 1
      /\ Count(q2.strand, "resume") = Count(q.strand, "resume")
  <2>1. /\ QueueOK(q2) /\ ResumesOK(q2, p)
        /\ \A t : Count(q2.strand, t) = IF Head(q.strand).type = t THEN Count(q.strand, t) - 1
                                         ELSE Count(q.strand, t)
    BY <1>3, <1>8, TailQueue
  <2>2. StillWaits(q, p, q2, p)
    BY <1>3, <1>4, <1>8, TailQueue
  <2>3. Count(q2.strand, "push") = Count(q.strand, "push")
    BY <1>4, <2>1
  <2>4. Count(q2.strand, "next") = Count(q.strand, "next") - 1
    BY <1>4, <2>1
  <2>5. Count(q2.strand, "resume") = Count(q.strand, "resume")
    BY <1>4, <2>1
  <2> QED
    BY <2>1, <2>2, <2>3, <2>4, <2>5
<1>10. ObjOK(o, q2, p)
  BY <1>3, <1>6, <1>9 DEF ObjOK, Accounted
<1>11. Moved(q, p, q2, p)
  BY <1>4, <1>6, <1>7, MovedTail
<1>12. UseOK(o, q2, p, holders, awaiting)
  BY <1>3, <1>6, <1>9 DEF UseOK, Current
<1>13. Registered(registry, queue) /\ DOMAIN registry = Keys
  BY <1>1 DEF Whole, Registered
<1>14. Key(o) \in Keys /\ o # None
  BY KeysAssumption DEF Objs, Key
<1>15. Whole(queue, op, holders, awaiting, registry', meeting, occupied, scheduled)
       /\ (Reclaims(o) => registry'[Key(o)] = None)
       /\ (~Reclaims(o) => registry' = registry)
  <2>1. CASE Reclaims(o)
    <3>1. registry' = [registry EXCEPT ![Key(o)] = None]
      BY <2>1 DEF HandleNext
    <3>2. registry[Key(o)] = o /\ queue[o].pending = 0 /\ Key(o) # Timer
          /\ (Key(o) \in Rooms => ~occupied[o])
      BY <2>1 DEF Reclaims
    <3> QED
      BY <1>1, <1>13, <1>14, <2>1, <3>1, <3>2, Erase
  <2>2. CASE ~Reclaims(o)
    <3>1. registry' = registry
      BY <2>2 DEF HandleNext
    <3> QED
      BY <1>1, <2>2, <3>1
  <2> QED
    BY <2>1, <2>2
<1>16. scheduled \in Nat /\ scheduled' = scheduled - 1
  BY <1>1, FS_CardinalityType DEF Whole, Counted, HandleNext, SchedulerRelease
<1>17. Load(q) \in Nat /\ Load(q2) = Load(q) - 1
  <2>1. Count(q.strand, "next") \in Nat
    BY <1>3, CountIsNat
  <2> QED
    BY <1>6, <1>7, <1>9, <2>1 DEF Load
<1>18. Load(q2) - Load(q) \in {-1, 0, 1} /\ scheduled' = scheduled + (Load(q2) - Load(q))
  BY <1>16, <1>17
<1>19. q2.pending > 0 => registry'[Key(o)] = o
  BY <1>2, <1>3, <1>6, <1>15 DEF Reclaims
<1>20. Key(o) \in Rooms /\ registry'[Key(o)] = o /\ q2.pending = 0 => occupied[o]
  <2>1. ASSUME Key(o) \in Rooms, registry'[Key(o)] = o, q2.pending = 0, ~occupied[o] PROVE FALSE
    <3>1. ~Reclaims(o)
      BY <1>14, <1>15, <2>1
    <3>2. registry[Key(o)] = o
      BY <1>15, <2>1, <3>1
    <3> QED
      BY <1>2, <1>6, <2>1, <3>1, <3>2, KeysAssumption DEF Reclaims
  <2> QED
    BY <2>1
<1>21. SameBut(o, holders, holders) /\ SameBut(o, awaiting, awaiting)
  BY DEF SameBut
<1>22. PICK qm : qm = Put(queue, o, q2)
  OBVIOUS
<1>23. Put(op, o, p) = op
  BY <1>2, <1>3, PutSame
<1>24. Whole(qm, op, holders, awaiting, registry', meeting, occupied, scheduled')
  BY <1>2, <1>9, <1>10, <1>11, <1>12, <1>15, <1>18, <1>19, <1>20, <1>21, <1>22, <1>23, Update
<1>25. qm[o] = q2 /\ DOMAIN qm = Objs
  BY <1>3, <1>22, PutIs
<1>26. op' = Put(op, o, StartOf(p, q2))
  BY <1>2, <1>5 DEF HandleNext, Put, StartOf, PumpedOp
<1>27. Whole(queue', op', holders, awaiting, registry', meeting, occupied, scheduled')
  <2>1. CASE Retires(o)
    <3>1. q2.pending = 0 /\ q2.strand = <<>> /\ registry'[Key(o)] # o
      <4>1. q.pending = 0 /\ Len(q.strand) = 1 /\ (Reclaims(o) \/ registry[Key(o)] # o)
        BY <1>2, <2>1 DEF Retires
      <4>2. Len(q2.strand) = 0 /\ IsSeq(q2.strand)
        BY <1>4, <1>6, <1>7, <4>1, TailIs
      <4>3. q2.strand = <<>>
        BY <4>2 DEF IsSeq
      <4>4. registry'[Key(o)] # o
        BY <1>14, <1>15, <4>1
      <4> QED
        BY <1>6, <4>1, <4>3, <4>4
    <3>2. Whole(Put(qm, o, NewQueue), op, holders, awaiting, registry', meeting, occupied, scheduled')
      BY <1>24, <1>25, <3>1, Retire
    <3>3. queue' = Put(qm, o, NewQueue)
      <4>1. queue' = Put(queue, o, NewQueue)
        BY <2>1 DEF HandleNext, Put
      <4> QED
        BY <1>3, <1>22, <4>1, PutTwice
    <3>4. op' = op
      <4>1. q2.commands = <<>>
        BY <1>9, <1>10, <3>1, EmptyQueue DEF ObjOK
      <4>2. StartOf(p, q2) = p
        BY <4>1 DEF StartOf, Starts
      <4> QED
        BY <1>23, <1>26, <4>2
    <3> QED
      BY <3>2, <3>3, <3>4
  <2>2. CASE ~Retires(o)
    <3>1. Whole(Put(qm, o, Pumped(q2)), Put(op, o, StartOf(p, q2)),
                holders, awaiting, registry', meeting, occupied, scheduled')
      BY <1>2, <1>4, <1>24, <1>25, PumpStep
    <3>2. queue' = Put(qm, o, Pumped(q2))
      <4>1. queue' = Put(queue, o, Pumped(q2))
        BY <1>2, <1>5, <2>2 DEF HandleNext, Put
      <4> QED
        BY <1>3, <1>22, <4>1, PutTwice
    <3> QED
      BY <1>26, <3>1, <3>2
  <2> QED
    BY <2>1, <2>2
<1>28. UNCHANGED <<m_tasks, thread, task, holders, awaiting, meeting, occupied>>
  BY DEF HandleNext, poolVars
<1>29. PoolTasks'
  BY <1>28, PoolTasksSame DEF DispatchInv
<1> QED
  BY <1>27, <1>28, <1>29 DEF DispatchInv

-----------------------------------------------------------------------------
(* Posting a handler                                                       *)

Posted(q, q2, h) ==
    /\ q2.strand = Append(q.strand, h) /\ q2.commands = q.commands
    /\ DOMAIN q2 = QueueFields
    /\ q2.pending \in Nat /\ q2.next \in Nat /\ q2.active \in Nat /\ q2.phase \in Nat

LEMMA PostFacts ==
  ASSUME NEW q, QueueOK(q), NEW q2, NEW h, Posted(q, q2, h),
         h.type \in {"push", "resume", "next"}
  PROVE  /\ QueueOK(q2)
         /\ \A t : Count(q2.strand, t) = IF h.type = t THEN Count(q.strand, t) + 1
                                         ELSE Count(q.strand, t)
         /\ \A p, k, i, e : EntryAt(q2, p, k, i, e) =>
               \/ EntryAt(q, p, k, i, e)
               \/ h.type = "push" /\ k = "strand" /\ i = Len(q.strand) + 1 /\ e = h.entry
         /\ \A i \in 1 .. Len(q2.strand) : q2.strand[i].type = "resume" =>
               \/ i \in 1 .. Len(q.strand) /\ q2.strand[i] = q.strand[i]
               \/ h.type = "resume" /\ q2.strand[i] = h
<1>1. PICK s, u : s = q.strand /\ u = q2.strand
  OBVIOUS
<1>2. IsSeq(s) /\ u = Append(s, h)
  BY <1>1 DEF QueueOK, Posted
<1>3. /\ IsSeq(u) /\ Len(s) \in Nat /\ Len(u) = Len(s) + 1 /\ u[Len(s) + 1] = h
      /\ \A i \in 1 .. Len(s) : u[i] = s[i]
  BY <1>2, AppendIs
<1>4. \A i \in 1 .. Len(u) : (i \in 1 .. Len(s) /\ u[i] = s[i]) \/ (i = Len(s) + 1 /\ u[i] = h)
  BY <1>3
<1>5. QueueOK(q2)
  BY <1>1, <1>3, <1>4 DEF QueueOK, Posted
<1>6. \A t : Count(u, t) = IF h.type = t THEN Count(s, t) + 1 ELSE Count(s, t)
  BY <1>2, CountAppend
<1>7. ASSUME NEW p, NEW k, NEW i, NEW e, EntryAt(q2, p, k, i, e)
      PROVE  \/ EntryAt(q, p, k, i, e)
             \/ h.type = "push" /\ k = "strand" /\ i = Len(s) + 1 /\ e = h.entry
  <2>1. CASE k = "strand"
    <3>1. i \in 1 .. Len(u) /\ u[i].type = "push" /\ e = u[i].entry
      BY <1>1, <1>7, <2>1 DEF EntryAt, Having
    <3>2. CASE i \in 1 .. Len(s) /\ u[i] = s[i]
      BY <1>1, <2>1, <3>1, <3>2 DEF EntryAt, Having
    <3>3. CASE i = Len(s) + 1 /\ u[i] = h
      BY <2>1, <3>1, <3>3
    <3> QED
      BY <1>4, <3>1, <3>2, <3>3
  <2>2. CASE k # "strand"
    BY <1>7, <2>2 DEF EntryAt, Posted
  <2> QED
    BY <2>1, <2>2
<1>8. ASSUME NEW i \in 1 .. Len(u), u[i].type = "resume"
      PROVE  \/ i \in 1 .. Len(s) /\ u[i] = s[i]
             \/ h.type = "resume" /\ u[i] = h
  BY <1>4, <1>8
<1> QED
  BY <1>1, <1>5, <1>6, <1>7, <1>8

LEMMA UnpendStep ==
  ASSUME DispatchInv, NEW o \in Objs, Unpend(o)
  PROVE  DispatchInv'
<1>1. Whole(queue, op, holders, awaiting, registry, meeting, occupied, scheduled)
  BY DEF DispatchInv
<1>2. PICK q, p : q = queue[o] /\ p = op[o]
  OBVIOUS
<1>3. /\ QueueOK(q) /\ Accounted(q, p) /\ ResumesOK(q, p) /\ OpOK(o, p)
      /\ UseOK(o, q, p, holders, awaiting) /\ DOMAIN queue = Objs /\ DOMAIN op = Objs
      /\ Fcn(queue) /\ Fcn(op) /\ (q.pending > 0 => registry[Key(o)] = o)
  BY <1>1, <1>2, WholeAt
<1>4. p.pc = "unpend" /\ ~Running(p)
  BY <1>2 DEF Unpend, Running
<1>5. q.pending > 0 /\ q.pending \in Nat /\ registry[Key(o)] = o
  BY <1>3, <1>4, BusyQueue DEF QueueOK
<1>6. PICK q2 : q2 = [q EXCEPT !.pending = @ - 1, !.strand = Append(@, AfterDone)]
  OBVIOUS
<1>7. /\ DOMAIN q2 = QueueFields /\ q2.strand = Append(q.strand, AfterDone)
      /\ q2.commands = q.commands /\ q2.pending = q.pending - 1
      /\ q2.active = q.active /\ q2.phase = q.phase /\ q2.token = q.token
      /\ q2.next = q.next
  BY <1>3, <1>6 DEF QueueOK, QueueFields
<1>8. AfterDone.type = "next"
  BY DEF AfterDone
<1>9. Posted(q, q2, AfterDone)
  BY <1>3, <1>5, <1>7 DEF Posted, QueueOK
<1>10. /\ QueueOK(q2)
       /\ \A t : Count(q2.strand, t) = IF AfterDone.type = t THEN Count(q.strand, t) + 1
                                       ELSE Count(q.strand, t)
       /\ \A x, k, i, e : EntryAt(q2, x, k, i, e) =>
             \/ EntryAt(q, x, k, i, e)
             \/ AfterDone.type = "push" /\ k = "strand" /\ i = Len(q.strand) + 1
                /\ e = AfterDone.entry
       /\ \A i \in 1 .. Len(q2.strand) : q2.strand[i].type = "resume" =>
             \/ i \in 1 .. Len(q.strand) /\ q2.strand[i] = q.strand[i]
             \/ AfterDone.type = "resume" /\ q2.strand[i] = AfterDone
  BY <1>3, <1>8, <1>9, PostFacts
<1>11. /\ Count(q2.strand, "push") = Count(q.strand, "push")
       /\ Count(q2.strand, "next") = Count(q.strand, "next") + 1
       /\ Count(q2.strand, "resume") = Count(q.strand, "resume")
  BY <1>8, <1>10
<1>12. Count(q.strand, "push") \in Nat /\ Count(q.strand, "next") \in Nat
       /\ Len(q.commands) \in Nat
  <2>1. Count(q.strand, "push") \in Nat /\ Count(q.strand, "next") \in Nat
    BY <1>3, CountIsNat
  <2>2. Len(q.commands) \in Nat
    BY <1>3 DEF QueueOK, IsSeq
  <2> QED
    BY <2>1, <2>2
<1>13. PICK p2 : p2 = NoOperation
  OBVIOUS
<1>14. p2.pc = "none" /\ ~Running(p2) /\ OpOK(o, p2)
  BY <1>13, NewObject DEF NoOperation, Running, ObjOK
<1>15. Accounted(q2, p2)
  BY <1>3, <1>4, <1>5, <1>7, <1>11, <1>12, <1>14 DEF Accounted, Uses
<1>16. ResumesOK(q2, p2)
  BY <1>3, <1>4, <1>8, <1>10, <1>11 DEF ResumesOK
<1>17. ObjOK(o, q2, p2)
  BY <1>10, <1>14, <1>15, <1>16 DEF ObjOK
<1>18. Moved(q, p, q2, p2)
  <2>1. ASSUME NEW k, NEW i, NEW e, EntryAt(q2, p2, k, i, e) PROVE EntryAt(q, p, k, i, e)
    <3>1. EntryAt(q, p2, k, i, e)
      BY <1>8, <1>10, <2>1
    <3> QED
      BY <1>14, <3>1 DEF EntryAt
  <2>2. IsSeq(q2.strand) /\ IsSeq(q2.commands)
    BY <1>10 DEF QueueOK
  <2> QED
    BY <2>1, <2>2, MovedWithin
<1>19. StillWaits(q, p, q2, p2)
  BY <1>4 DEF StillWaits, WaitsForRoom
<1>20. UseOK(o, q2, p2, holders, awaiting)
  BY <1>3, <1>4 DEF UseOK
<1>21. Load(q2) = Load(q) /\ Load(q) \in Nat
  BY <1>3, <1>5, <1>7, <1>11, <1>12, LoadIsNat DEF Load
<1>22. scheduled \in Nat
  BY <1>1, FS_CardinalityType DEF Whole, Counted
<1>23. SameBut(o, holders, holders) /\ SameBut(o, awaiting, awaiting)
  BY DEF SameBut
<1>24. Load(q2) - Load(q) \in {-1, 0, 1} /\ scheduled = scheduled + (Load(q2) - Load(q))
  BY <1>21, <1>22
<1>25. Count(q2.strand, "next") # 0
  BY <1>11, <1>12
<1>26. Whole(Put(queue, o, q2), Put(op, o, p2),
             holders, awaiting, registry, meeting, occupied, scheduled)
  BY <1>1, <1>2, <1>5, <1>17, <1>18, <1>19, <1>20, <1>23, <1>24, <1>25, Update
<1>27. queue' = Put(queue, o, q2)
  BY <1>2, <1>3, <1>6 DEF Unpend, Put, QueueOK, QueueFields
<1>28. op' = Put(op, o, p2)
  BY <1>13 DEF Unpend, Put
<1>29. UNCHANGED <<m_tasks, thread, task, holders, awaiting, registry, meeting, occupied, scheduled>>
  BY DEF Unpend, poolVars
<1>30. PoolTasks'
  BY <1>29, PoolTasksSame DEF DispatchInv
<1> QED
  BY <1>26, <1>27, <1>28, <1>29, <1>30 DEF DispatchInv

-----------------------------------------------------------------------------
(* The pool                                                                *)

LEMMA PoolSubmit ==
  ASSUME PoolTasks, NEW o, Pool!Submit(o)
  PROVE  PoolTasks'
<1>1. /\ IsSeq(m_tasks) /\ DOMAIN thread = Threads /\ DOMAIN task = Threads
      /\ o \notin awaiting /\ m_tasks' = Append(m_tasks, o)
      /\ awaiting' = awaiting \cup {o} /\ task' = task
  BY DEF PoolTasks, Pool!Submit
<1>2. DOMAIN thread' = Threads /\ \A t \in Threads : Busy(t)' => Busy(t)
  BY <1>1 DEF Pool!Submit, Pool!NotifyOne, Busy
<1>3. PICK s, u : s = m_tasks /\ u = m_tasks'
  OBVIOUS
<1>4. /\ IsSeq(u) /\ Len(s) \in Nat /\ Len(u) = Len(s) + 1 /\ u[Len(s) + 1] = o
      /\ \A i \in 1 .. Len(s) : u[i] = s[i]
  BY <1>1, <1>3, AppendIs
<1>5. \A i \in 1 .. Len(u) : (i \in 1 .. Len(s) /\ u[i] = s[i]) \/ (i = Len(s) + 1 /\ u[i] = o)
  BY <1>4
<1>6. \A i \in 1 .. Len(s) : s[i] \in awaiting
  BY <1>3 DEF PoolTasks
<1>7. \A i \in 1 .. Len(u) : u[i] \in awaiting'
  BY <1>1, <1>5, <1>6
<1>8. ASSUME NEW i \in 1 .. Len(u), NEW j \in 1 .. Len(u), u[i] = u[j] PROVE i = j
  <2>1. \A a, b \in 1 .. Len(s) : s[a] = s[b] => a = b
    BY <1>3 DEF PoolTasks
  <2> QED
    BY <1>1, <1>5, <1>6, <1>8, <2>1
<1>9. ASSUME NEW t \in Threads, Busy(t)'
      PROVE  /\ task'[t] \in awaiting'
             /\ \A i \in 1 .. Len(u) : u[i] # task'[t]
             /\ \A v \in Threads : Busy(v)' /\ task'[v] = task'[t] => v = t
  <2>1. Busy(t)
    BY <1>2, <1>9
  <2>2. /\ task[t] \in awaiting /\ \A i \in 1 .. Len(s) : s[i] # task[t]
        /\ \A v \in Threads : Busy(v) /\ task[v] = task[t] => v = t
    BY <1>3, <2>1 DEF PoolTasks
  <2> QED
    BY <1>1, <1>2, <1>5, <2>2
<1> QED
  BY <1>1, <1>2, <1>3, <1>4, <1>7, <1>8, <1>9 DEF PoolTasks

LEMMA PoolPop ==
  ASSUME PoolTasks, NEW x \in Threads, Pool!Pop(x)
  PROVE  PoolTasks'
<1>1. /\ IsSeq(m_tasks) /\ DOMAIN thread = Threads /\ DOMAIN task = Threads
      /\ m_tasks # <<>> /\ m_tasks' = Tail(m_tasks) /\ awaiting' = awaiting
      /\ task' = [task EXCEPT ![x] = Head(m_tasks)]
      /\ thread' = [thread EXCEPT ![x] = "run"]
  BY DEF PoolTasks, Pool!Pop
<1>2. PICK s, u : s = m_tasks /\ u = m_tasks'
  OBVIOUS
<1>3. /\ IsSeq(u) /\ Len(s) \in Nat /\ Len(s) >= 1 /\ Len(u) = Len(s) - 1 /\ Head(s) = s[1]
      /\ \A i \in 1 .. Len(s) - 1 : u[i] = s[i + 1]
  BY <1>1, <1>2, TailIs
<1>4. \A i \in 1 .. Len(u) : i + 1 \in 1 .. Len(s) /\ i + 1 # 1 /\ u[i] = s[i + 1]
  BY <1>3
<1>5. \A a, b \in 1 .. Len(s) : s[a] = s[b] => a = b
  BY <1>2 DEF PoolTasks
<1>6. \A i \in 1 .. Len(s) : s[i] \in awaiting
  BY <1>2 DEF PoolTasks
<1>7. 1 \in 1 .. Len(s)
  BY <1>3
<1>8. \A i \in 1 .. Len(u) : u[i] \in awaiting'
  BY <1>1, <1>4, <1>6
<1>9. ASSUME NEW i \in 1 .. Len(u), NEW j \in 1 .. Len(u), u[i] = u[j] PROVE i = j
  <2>1. i + 1 = j + 1
    BY <1>4, <1>5, <1>9
  <2>2. i \in Int /\ j \in Int
    BY <1>3
  <2> QED
    BY <2>1, <2>2
<1>10. DOMAIN task' = Threads /\ DOMAIN thread' = Threads /\ task'[x] = s[1]
       /\ \A t \in Threads : t # x => task'[t] = task[t] /\ thread'[t] = thread[t]
  BY <1>1, <1>2, <1>3
<1>11. \A t \in Threads : t # x => (Busy(t)' <=> Busy(t))
  BY <1>10 DEF Busy
<1>12. \A t \in Threads : Busy(t) =>
          /\ task[t] \in awaiting /\ \A i \in 1 .. Len(s) : s[i] # task[t]
          /\ \A v \in Threads : Busy(v) /\ task[v] = task[t] => v = t
  BY <1>2 DEF PoolTasks
<1>13. ASSUME NEW t \in Threads, Busy(t)'
       PROVE  /\ task'[t] \in awaiting'
              /\ \A i \in 1 .. Len(u) : u[i] # task'[t]
              /\ \A v \in Threads : Busy(v)' /\ task'[v] = task'[t] => v = t
  <2>1. CASE t = x
    BY <1>1, <1>4, <1>5, <1>6, <1>7, <1>10, <1>11, <1>12, <2>1
  <2>2. CASE t # x
    BY <1>1, <1>4, <1>7, <1>10, <1>11, <1>12, <1>13, <2>2
  <2> QED
    BY <2>1, <2>2
<1> QED
  BY <1>2, <1>3, <1>8, <1>9, <1>10, <1>13 DEF PoolTasks

LEMMA PoolComplete ==
  ASSUME PoolTasks, NEW x \in Threads, Pool!Complete(x)
  PROVE  PoolTasks' /\ task[x] \in awaiting
<1>1. /\ DOMAIN thread = Threads /\ DOMAIN task = Threads
      /\ awaiting' = awaiting \ {task[x]} /\ m_tasks' = m_tasks
      /\ task' = [task EXCEPT ![x] = None]
      /\ thread' = [thread EXCEPT ![x] = "check"]
  BY DEF PoolTasks, Pool!Complete
<1>2. Busy(x)
  BY DEF Pool!Complete, Busy
<1>3. ~Busy(x)' /\ \A t \in Threads : t # x => (Busy(t)' <=> Busy(t)) /\ task'[t] = task[t]
  BY <1>1 DEF Busy
<1>4. DOMAIN thread' = Threads /\ DOMAIN task' = Threads
  BY <1>1
<1>5. task[x] \in awaiting /\ \A i \in 1 .. Len(m_tasks) : m_tasks[i] # task[x]
  BY <1>2 DEF PoolTasks
<1>6. \A i \in 1 .. Len(m_tasks) : m_tasks[i] \in awaiting'
  BY <1>1, <1>5 DEF PoolTasks
<1>7. ASSUME NEW t \in Threads, Busy(t)'
      PROVE  /\ task'[t] \in awaiting'
             /\ \A i \in 1 .. Len(m_tasks) : m_tasks[i] # task'[t]
             /\ \A v \in Threads : Busy(v)' /\ task'[v] = task'[t] => v = t
  <2>1. t # x /\ Busy(t) /\ task'[t] = task[t]
    BY <1>3, <1>7
  <2>2. /\ task[t] \in awaiting /\ \A i \in 1 .. Len(m_tasks) : m_tasks[i] # task[t]
        /\ \A v \in Threads : Busy(v) /\ task[v] = task[t] => v = t
    BY <2>1 DEF PoolTasks
  <2>3. task[x] # task[t]
    BY <1>2, <2>1, <2>2
  <2> QED
    BY <1>1, <1>3, <2>1, <2>2, <2>3
<1> QED
  BY <1>1, <1>4, <1>5, <1>6, <1>7 DEF PoolTasks

LEMMA PoolQuiet ==
  ASSUME PoolTasks, NEW x,
         Pool!Sleep(x) \/ Pool!Return(x) \/ Pool!Exit(x) \/ Pool!Join
  PROVE  PoolTasks'
<1>1. UNCHANGED <<m_tasks, task, awaiting>>
  BY DEF Pool!Sleep, Pool!Return, Pool!Exit, Pool!Join
<1>2. DOMAIN thread = Threads
  BY DEF PoolTasks
<1>3. DOMAIN thread' = Threads /\ \A t \in Threads : Busy(t)' <=> Busy(t)
  BY <1>2 DEF Pool!Sleep, Pool!Return, Pool!Exit, Pool!Join, Busy
<1> QED
  BY <1>1, <1>3 DEF PoolTasks

LEMMA SubmitTaskStep ==
  ASSUME DispatchInv, NEW o \in Objs, SubmitTask(o)
  PROVE  DispatchInv'
<1>1. Whole(queue, op, holders, awaiting, registry, meeting, occupied, scheduled)
  BY DEF DispatchInv
<1>2. PICK q, p : q = queue[o] /\ p = op[o]
  OBVIOUS
<1>3. /\ QueueOK(q) /\ Accounted(q, p) /\ ResumesOK(q, p) /\ OpOK(o, p)
      /\ UseOK(o, q, p, holders, awaiting) /\ DOMAIN queue = Objs /\ DOMAIN op = Objs
      /\ Fcn(queue) /\ Fcn(op) /\ (q.pending > 0 => registry[Key(o)] = o)
  BY <1>1, <1>2, WholeAt
<1>4. p.pc = "submit" /\ Pool!Submit(o)
  BY <1>2 DEF SubmitTask
<1>5. o \in holders /\ holders' = holders /\ awaiting' = awaiting \cup {o}
  BY <1>4 DEF Pool!Submit
<1>6. PICK tk : tk = [id |-> q.active, phase |-> q.phase + 1]
  OBVIOUS
<1>7. PICK q2 : q2 = [q EXCEPT !.phase = tk.phase, !.token = tk]
  OBVIOUS
<1>8. /\ DOMAIN q2 = QueueFields /\ q2.strand = q.strand /\ q2.commands = q.commands
      /\ q2.pending = q.pending /\ q2.next = q.next /\ q2.active = q.active
      /\ q2.phase = q.phase + 1 /\ q2.token = tk
  BY <1>3, <1>6, <1>7 DEF QueueOK, QueueFields
<1>9. PICK p2 : p2 = [p EXCEPT !.pc = "await"]
  OBVIOUS
<1>10. DOMAIN p = OpFields /\ p.cont \in {"resolved", "work"}
  BY <1>3, <1>4 DEF OpOK
<1>11. /\ DOMAIN p2 = OpFields /\ p2.pc = "await" /\ p2.cont = p.cont /\ p2.entry = p.entry
       /\ p2.target = p.target
  BY <1>9, <1>10 DEF OpFields
<1>12. OpOK(o, p2)
  BY <1>3, <1>4, <1>10, <1>11 DEF OpOK, Routing, Handling
<1>13. Running(p) /\ Running(p2) /\ ~WaitsForRoom(p2)
  BY <1>4, <1>10, <1>11 DEF Running, WaitsForRoom
<1>14. QueueOK(q2)
  BY <1>3, <1>8 DEF QueueOK
<1>15. Accounted(q2, p2)
  BY <1>3, <1>4, <1>8, <1>11, <1>13 DEF Accounted, Uses
<1>16. \A i \in 1 .. Len(q.strand) : q.strand[i].type # "resume"
  BY <1>3, <1>4 DEF ResumesOK
<1>17. Count(q.strand, "resume") = 0
  BY <1>3, <1>16, CountZero DEF QueueOK
<1>18. ResumesOK(q2, p2)
  BY <1>8, <1>16, <1>17 DEF ResumesOK
<1>19. ObjOK(o, q2, p2)
  BY <1>12, <1>14, <1>15, <1>18 DEF ObjOK
<1>20. Moved(q, p, q2, p2)
  <2>1. \A k, i, e : EntryAt(q2, p2, k, i, e) => EntryAt(q, p, k, i, e)
    BY <1>8, <1>11, <1>13 DEF EntryAt
  <2>2. IsSeq(q2.strand) /\ IsSeq(q2.commands)
    BY <1>14 DEF QueueOK
  <2> QED
    BY <2>1, <2>2, MovedWithin
<1>21. StillWaits(q, p, q2, p2)
  BY <1>4 DEF StillWaits, WaitsForRoom
<1>22. UseOK(o, q2, p2, holders', awaiting')
  BY <1>5, <1>6, <1>8, <1>11, <1>13, <1>17 DEF UseOK, Current
<1>23. SameBut(o, holders, holders') /\ SameBut(o, awaiting, awaiting')
  BY <1>5 DEF SameBut
<1>24. q.pending > 0
  BY <1>3, <1>4, BusyQueue
<1>25. Load(q2) = Load(q) /\ Load(q) \in Nat
  BY <1>3, <1>8, LoadIsNat DEF Load
<1>26. scheduled \in Nat
  BY <1>1, FS_CardinalityType DEF Whole, Counted
<1>27. Load(q2) - Load(q) \in {-1, 0, 1} /\ scheduled = scheduled + (Load(q2) - Load(q))
  BY <1>25, <1>26
<1>28. registry[Key(o)] = o /\ q2.pending # 0
  BY <1>3, <1>8, <1>24
<1>29. Whole(Put(queue, o, q2), Put(op, o, p2),
             holders', awaiting', registry, meeting, occupied, scheduled)
  BY <1>1, <1>2, <1>19, <1>20, <1>21, <1>22, <1>23, <1>27, <1>28, Update
<1>30. queue' = Put(queue, o, q2)
  BY <1>2, <1>3, <1>6, <1>7 DEF SubmitTask, Put, QueueOK, QueueFields
<1>31. op' = Put(op, o, p2)
  BY <1>2, <1>3, <1>9, <1>10 DEF SubmitTask, Put, OpFields
<1>32. UNCHANGED <<registry, meeting, occupied, scheduled>>
  BY DEF SubmitTask
<1>33. PoolTasks'
  BY <1>4, PoolSubmit DEF DispatchInv
<1> QED
  BY <1>29, <1>30, <1>31, <1>32, <1>33 DEF DispatchInv

LEMMA CompleteTaskStep ==
  ASSUME DispatchInv, NEW th \in Threads, CompleteTask(th)
  PROVE  DispatchInv'
<1>1. Whole(queue, op, holders, awaiting, registry, meeting, occupied, scheduled)
  BY DEF DispatchInv
<1>a. PICK o : o = task[th]
  OBVIOUS
<1>b. Pool!Complete(th) /\ PoolTasks
  BY DEF CompleteTask, DispatchInv
<1>c. PoolTasks' /\ o \in awaiting
  BY <1>a, <1>b, PoolComplete
<1>d. o \in Objs
  BY <1>1, <1>c DEF Whole, PoolUse
<1>2. PICK q, p : q = queue[o] /\ p = op[o]
  OBVIOUS
<1>3. /\ QueueOK(q) /\ Accounted(q, p) /\ ResumesOK(q, p) /\ OpOK(o, p)
      /\ UseOK(o, q, p, holders, awaiting) /\ DOMAIN queue = Objs /\ DOMAIN op = Objs
      /\ Fcn(queue) /\ Fcn(op) /\ (q.pending > 0 => registry[Key(o)] = o)
  BY <1>1, <1>2, <1>d, WholeAt
<1>4. /\ o \in holders /\ p.pc = "await" /\ q.token = Current(q)
      /\ Count(q.strand, "resume") = 0 /\ Running(p) /\ ~WaitsForRoom(p)
  BY <1>3, <1>c DEF UseOK
<1>5. holders' = holders /\ awaiting' = awaiting \ {o}
  BY <1>a, <1>b DEF Pool!Complete
<1>6. PICK h : h = Resume(q.token)
  OBVIOUS
<1>7. PICK q2 : q2 = [q EXCEPT !.strand = Append(@, h)]
  OBVIOUS
<1>8. /\ DOMAIN q2 = QueueFields /\ q2.strand = Append(q.strand, h) /\ q2.commands = q.commands
      /\ q2.pending = q.pending /\ q2.next = q.next /\ q2.active = q.active
      /\ q2.phase = q.phase /\ q2.token = q.token
  BY <1>3, <1>7 DEF QueueOK, QueueFields
<1>9. h.type = "resume" /\ h.token = q.token
  BY <1>6 DEF Resume
<1>10. Posted(q, q2, h)
  BY <1>3, <1>8 DEF Posted, QueueOK
<1>11. /\ QueueOK(q2)
       /\ \A t : Count(q2.strand, t) = IF h.type = t THEN Count(q.strand, t) + 1
                                       ELSE Count(q.strand, t)
       /\ \A x, k, i, e : EntryAt(q2, x, k, i, e) =>
             \/ EntryAt(q, x, k, i, e)
             \/ h.type = "push" /\ k = "strand" /\ i = Len(q.strand) + 1 /\ e = h.entry
       /\ \A i \in 1 .. Len(q2.strand) : q2.strand[i].type = "resume" =>
             \/ i \in 1 .. Len(q.strand) /\ q2.strand[i] = q.strand[i]
             \/ h.type = "resume" /\ q2.strand[i] = h
  <2>1. h.type \in {"push", "resume", "next"}
    BY <1>9
  <2> QED
    BY <1>3, <1>10, <2>1, PostFacts
<1>12. /\ Count(q2.strand, "push") = Count(q.strand, "push")
       /\ Count(q2.strand, "next") = Count(q.strand, "next")
       /\ Count(q2.strand, "resume") = 1
  BY <1>4, <1>9, <1>11
<1>13. Accounted(q2, p)
  BY <1>3, <1>8, <1>12 DEF Accounted
<1>14. ResumesOK(q2, p)
  BY <1>3, <1>4, <1>8, <1>9, <1>11, <1>12 DEF ResumesOK, Current
<1>15. ObjOK(o, q2, p)
  BY <1>3, <1>11, <1>13, <1>14 DEF ObjOK
<1>16. Moved(q, p, q2, p)
  <2>1. \A k, i, e : EntryAt(q2, p, k, i, e) => EntryAt(q, p, k, i, e)
    BY <1>9, <1>11
  <2>2. IsSeq(q2.strand) /\ IsSeq(q2.commands)
    BY <1>11 DEF QueueOK
  <2> QED
    BY <2>1, <2>2, MovedWithin
<1>17. StillWaits(q, p, q2, p)
  BY <1>4 DEF StillWaits
<1>18. UseOK(o, q2, p, holders, awaiting')
  BY <1>4, <1>5 DEF UseOK
<1>19. SameBut(o, holders, holders) /\ SameBut(o, awaiting, awaiting')
  BY <1>5 DEF SameBut
<1>20. q.pending > 0
  BY <1>3, <1>4, BusyQueue
<1>21. Load(q2) = Load(q) /\ Load(q) \in Nat
  BY <1>3, <1>8, <1>12, LoadIsNat DEF Load
<1>22. scheduled \in Nat
  BY <1>1, FS_CardinalityType DEF Whole, Counted
<1>23. Load(q2) - Load(q) \in {-1, 0, 1} /\ scheduled = scheduled + (Load(q2) - Load(q))
  BY <1>21, <1>22
<1>24. registry[Key(o)] = o /\ q2.pending # 0
  BY <1>3, <1>8, <1>20
<1>25. Whole(Put(queue, o, q2), Put(op, o, p),
             holders, awaiting', registry, meeting, occupied, scheduled)
  BY <1>1, <1>2, <1>d, <1>15, <1>16, <1>17, <1>18, <1>19, <1>23, <1>24, Update
<1>26. Put(op, o, p) = op
  BY <1>2, <1>3, <1>d, PutSame
<1>27. queue' = Put(queue, o, q2)
  BY <1>2, <1>3, <1>6, <1>7, <1>a DEF CompleteTask, Put, QueueOK, QueueFields
<1>28. UNCHANGED <<op, registry, meeting, occupied, scheduled>>
  BY DEF CompleteTask
<1> QED
  BY <1>5, <1>25, <1>26, <1>27, <1>28, <1>c DEF DispatchInv

LEMMA PoolThreadStep ==
  ASSUME DispatchInv, NEW t \in Threads, PoolThread(t)
  PROVE  DispatchInv'
<1>1. UNCHANGED <<queue, op, holders, awaiting, registry, meeting, occupied, scheduled>>
  BY DEF PoolThread, Pool!Sleep, Pool!Pop, Pool!Return, Pool!Exit
<1>2. PoolTasks'
  BY PoolPop, PoolQuiet DEF PoolThread, DispatchInv
<1> QED
  BY <1>1, <1>2 DEF DispatchInv

LEMMA JoinStep ==
  ASSUME DispatchInv, WaitIdleThenJoin
  PROVE  DispatchInv'
<1>1. UNCHANGED <<queue, op, holders, awaiting, registry, meeting, occupied, scheduled>>
  BY DEF WaitIdleThenJoin, Pool!Join
<1>2. PoolTasks'
  BY PoolQuiet DEF WaitIdleThenJoin, DispatchInv
<1> QED
  BY <1>1, <1>2 DEF DispatchInv

LEMMA SameStep ==
  ASSUME DispatchInv, Stop \/ UNCHANGED vars
  PROVE  DispatchInv'
<1>1. /\ UNCHANGED <<queue, op, holders, awaiting, registry, meeting, occupied, scheduled>>
      /\ UNCHANGED <<m_tasks, thread, task>>
  BY DEF Stop, vars, poolVars
<1>2. PoolTasks'
  BY <1>1, PoolTasksSame DEF DispatchInv
<1> QED
  BY <1>1, <1>2 DEF DispatchInv

-----------------------------------------------------------------------------
(* Admission                                                               *)

(* The object a key names now or will from now on.                         *)
Named(reg, qs, ps, o) ==
    reg[Key(o)] = o \/ (reg[Key(o)] = None /\ qs[o] = NewQueue /\ ps[o] = NoOperation)

(* A command that can be entered.                                          *)
Enterable(qs, ps, e) ==
    /\ EntryOK(e)
    /\ e.waiter # NoWaiter =>
          Awaited(qs, ps, e.waiter) /\ Unawaited(qs, ps, e.waiter.obj)

(* What counting and posting a command does to its queue.                  *)
LEMMA AdmittedIs ==
  ASSUME NEW o, NEW q, NEW p, ObjOK(o, q, p), NEW c, NEW q2, q2 = Admitted(q, c)
  PROVE  /\ ObjOK(o, q2, p) /\ StillWaits(q, p, q2, p) /\ Current(q2) = Current(q)
         /\ q2.token = q.token /\ Count(q2.strand, "resume") = Count(q.strand, "resume")
         /\ Load(q2) = Load(q) + 1 /\ Load(q) \in Nat /\ q2.pending > 0
         /\ \A k, i, d : EntryAt(q2, p, k, i, d) =>
               \/ EntryAt(q, p, k, i, d)
               \/ k = "strand" /\ i = Len(q.strand) + 1 /\ d = c
<1>1. QueueOK(q) /\ Accounted(q, p) /\ ResumesOK(q, p) /\ OpOK(o, p) /\ q.pending \in Nat
  BY DEF ObjOK, QueueOK
<1>2. PICK h : h = Push(c)
  OBVIOUS
<1>3. h.type = "push" /\ h.entry = c
  BY <1>2 DEF Push
<1>4. /\ DOMAIN q2 = QueueFields /\ q2.strand = Append(q.strand, h)
      /\ q2.commands = q.commands /\ q2.pending = q.pending + 1
      /\ q2.active = q.active /\ q2.phase = q.phase /\ q2.token = q.token
      /\ q2.next = q.next
  BY <1>1, <1>2 DEF QueueOK, QueueFields, Admitted
<1>5. Posted(q, q2, h)
  BY <1>1, <1>4 DEF Posted, QueueOK
<1>6. h.type \in {"push", "resume", "next"}
  BY <1>3
<1>7. /\ QueueOK(q2)
      /\ \A t : Count(q2.strand, t) = IF h.type = t THEN Count(q.strand, t) + 1
                                      ELSE Count(q.strand, t)
      /\ \A x, k, i, e : EntryAt(q2, x, k, i, e) =>
            \/ EntryAt(q, x, k, i, e)
            \/ h.type = "push" /\ k = "strand" /\ i = Len(q.strand) + 1 /\ e = h.entry
      /\ \A i \in 1 .. Len(q2.strand) : q2.strand[i].type = "resume" =>
            \/ i \in 1 .. Len(q.strand) /\ q2.strand[i] = q.strand[i]
            \/ h.type = "resume" /\ q2.strand[i] = h
  <2>1. QueueOK(q) /\ Posted(q, q2, h) /\ h.type \in {"push", "resume", "next"}
    BY <1>1, <1>5, <1>6
  <2> QED
    BY <2>1, PostFacts
<1>8. /\ Count(q2.strand, "push") = Count(q.strand, "push") + 1
      /\ Count(q2.strand, "next") = Count(q.strand, "next")
      /\ Count(q2.strand, "resume") = Count(q.strand, "resume")
  BY <1>3, <1>7
<1>9. Count(q.strand, "push") \in Nat /\ Count(q.strand, "next") \in Nat
  BY <1>1, CountIsNat
<1>10. Len(q.commands) \in Nat /\ Uses(p) \in Nat
  BY <1>1 DEF QueueOK, IsSeq, Uses
<1>11. Accounted(q2, p)
  <2>1. q.pending = Count(q.strand, "push") + Len(q.commands) + Uses(p)
        /\ (q.active # 0 <=> Running(p))
    BY <1>1 DEF Accounted
  <2>2. q2.pending = Count(q2.strand, "push") + Len(q2.commands) + Uses(p)
    <3>1. PICK x, y, z : x = Count(q.strand, "push") /\ y = Len(q.commands) /\ z = Uses(p)
      OBVIOUS
    <3>2. q.pending = x + y + z /\ x \in Nat /\ y \in Nat /\ z \in Nat
      BY <1>9, <1>10, <2>1, <3>1
    <3>3. q.pending + 1 = (x + 1) + y + z
      BY <3>2
    <3> QED
      BY <1>4, <1>8, <3>1, <3>3
  <2>3. q2.active # 0 <=> Running(p)
    BY <1>4, <2>1
  <2> QED
    BY <2>2, <2>3 DEF Accounted
<1>12. Current(q2) = Current(q)
  BY <1>4 DEF Current
<1>13. ResumesOK(q2, p)
  BY <1>1, <1>3, <1>7, <1>8, <1>12 DEF ResumesOK
<1>14. ObjOK(o, q2, p)
  BY <1>1, <1>7, <1>11, <1>13 DEF ObjOK
<1>15. StillWaits(q, p, q2, p)
  BY <1>8, <1>12 DEF StillWaits
<1>16. Load(q2) = Load(q) + 1 /\ Load(q) \in Nat /\ q2.pending > 0
  BY <1>1, <1>4, <1>8, <1>9 DEF Load
<1>17. \A k, i, d : EntryAt(q2, p, k, i, d) =>
          \/ EntryAt(q, p, k, i, d)
          \/ k = "strand" /\ i = Len(q.strand) + 1 /\ d = c
  BY <1>3, <1>7
<1> QED
  BY <1>4, <1>8, <1>12, <1>14, <1>15, <1>16, <1>17

LEMMA Admission ==
  ASSUME NEW qs, NEW ps, NEW held, NEW asleep, NEW reg, NEW met, NEW occ, NEW n,
         Whole(qs, ps, held, asleep, reg, met, occ, n), NEW o \in Objs,
         Named(reg, qs, ps, o), NEW e, Enterable(qs, ps, e)
  PROVE  Whole(Put(qs, o, Admitted(qs[o], e)), ps, held, asleep,
               [reg EXCEPT ![Key(o)] = o], met, occ, n + 1)
<1>1. /\ ObjsOK(qs, ps) /\ DOMAIN occ = Objs /\ Lines(qs, ps) /\ Single(qs, ps)
      /\ PoolUse(qs, ps, held, asleep) /\ Registered(reg, qs) /\ Meetings(met, reg, occ)
      /\ Kept(reg, qs, occ) /\ Counted(qs, n)
  BY DEF Whole
<1>2. PICK q, p, q2 : q = qs[o] /\ p = ps[o] /\ q2 = Admitted(q, e)
  OBVIOUS
<1>3. DOMAIN qs = Objs /\ DOMAIN ps = Objs /\ Fcn(ps) /\ ObjOK(o, q, p)
  BY <1>1, <1>2 DEF ObjsOK
<1>4. /\ ObjOK(o, q2, p) /\ StillWaits(q, p, q2, p) /\ Current(q2) = Current(q)
      /\ q2.token = q.token /\ Count(q2.strand, "resume") = Count(q.strand, "resume")
      /\ Load(q2) = Load(q) + 1 /\ Load(q) \in Nat /\ q2.pending > 0
      /\ \A k, i, d : EntryAt(q2, p, k, i, d) =>
            \/ EntryAt(q, p, k, i, d)
            \/ k = "strand" /\ i = Len(q.strand) + 1 /\ d = e
  BY <1>2, <1>3, AdmittedIs
<1>5. PICK qn : qn = Put(qs, o, q2)
  OBVIOUS
<1>6. qn[o] = q2 /\ DOMAIN qn = Objs /\ \A x \in Objs : x # o => qn[x] = qs[x]
  BY <1>3, <1>5, PutIs
<1>7. Put(ps, o, p) = ps
  BY <1>2, <1>3, PutSame
<1>8. ObjsOK(qn, ps)
  BY <1>1, <1>4, <1>5, <1>7, PutObjs
<1>9. ASSUME NEW x \in Objs, NEW k, NEW i, NEW d, EntryAt(qn[x], ps[x], k, i, d)
      PROVE  \/ EntryAt(qs[x], ps[x], k, i, d)
             \/ x = o /\ k = "strand" /\ i = Len(q.strand) + 1 /\ d = e
  BY <1>2, <1>4, <1>6, <1>9
<1>10. ASSUME NEW w, Awaited(qs, ps, w) PROVE Awaited(qn, ps, w)
  <2>1. CASE w.obj = o
    BY <1>2, <1>4, <1>6, <1>10, <2>1 DEF Awaited
  <2>2. CASE w.obj # o
    BY <1>6, <1>10, <2>2 DEF Awaited
  <2> QED
    BY <2>1, <2>2
<1>11. Lines(qn, ps)
  <2>1. ASSUME NEW x \in Objs, NEW k, NEW i, NEW d, EntryAt(qn[x], ps[x], k, i, d)
        PROVE  EntryOK(d) /\ (d.waiter # NoWaiter => Awaited(qn, ps, d.waiter))
    <3>1. CASE EntryAt(qs[x], ps[x], k, i, d)
      BY <1>1, <1>10, <3>1 DEF Lines
    <3>2. CASE d = e
      BY <1>10, <3>2 DEF Enterable
    <3> QED
      BY <1>9, <2>1, <3>1, <3>2
  <2> QED
    BY <2>1 DEF Lines
<1>12. Single(qn, ps)
  <2>1. ASSUME NEW x \in Objs, NEW k, NEW i, NEW d, EntryAt(qs[x], ps[x], k, i, d),
               d.waiter # NoWaiter, e.waiter # NoWaiter
        PROVE  d.waiter.obj # e.waiter.obj
    BY <2>1 DEF Enterable, Unawaited
  <2>2. ASSUME NEW a \in Objs, NEW b \in Objs, NEW k, NEW l, NEW i, NEW j, NEW d, NEW f,
               EntryAt(qn[a], ps[a], k, i, d), EntryAt(qn[b], ps[b], l, j, f),
               d.waiter # NoWaiter, f.waiter # NoWaiter, d.waiter.obj = f.waiter.obj
        PROVE  a = b /\ k = l /\ i = j
    <3>1. \/ EntryAt(qs[a], ps[a], k, i, d)
          \/ a = o /\ k = "strand" /\ i = Len(q.strand) + 1 /\ d = e
      BY <1>9, <2>2
    <3>2. \/ EntryAt(qs[b], ps[b], l, j, f)
          \/ b = o /\ l = "strand" /\ j = Len(q.strand) + 1 /\ f = e
      BY <1>9, <2>2
    <3>3. CASE EntryAt(qs[a], ps[a], k, i, d) /\ EntryAt(qs[b], ps[b], l, j, f)
      BY <1>1, <2>2, <3>3 DEF Single
    <3>4. CASE EntryAt(qs[a], ps[a], k, i, d) /\ f = e
      BY <2>1, <2>2, <3>4
    <3>5. CASE EntryAt(qs[b], ps[b], l, j, f) /\ d = e
      BY <2>1, <2>2, <3>5
    <3> QED
      BY <3>1, <3>2, <3>3, <3>4, <3>5
  <2> QED
    BY <2>2 DEF Single
<1>13. PoolUse(qn, ps, held, asleep)
  <2>1. UseOK(o, q2, p, held, asleep)
    BY <1>1, <1>2, <1>4 DEF PoolUse, UseOK
  <2>2. SameBut(o, held, held) /\ SameBut(o, asleep, asleep)
    BY DEF SameBut
  <2> QED
    BY <1>1, <1>5, <1>7, <2>1, <2>2, PutPool
<1>14. PICK reg2 : reg2 = [reg EXCEPT ![Key(o)] = o]
  OBVIOUS
<1>15. Key(o) \in Keys /\ o # None
  BY KeysAssumption DEF Objs, Key
<1>16. /\ DOMAIN reg2 = Keys /\ reg2[Key(o)] = o
       /\ \A k \in Keys : k # Key(o) => reg2[k] = reg[k]
  BY <1>1, <1>14, <1>15 DEF Registered
<1>17. ASSUME NEW k \in Keys, reg[k] # None PROVE reg2[k] = reg[k]
  BY <1>16, <1>17 DEF Named
<1>18. \A x \in Objs : qs[x].pending > 0 => reg[Key(x)] = x /\ Key(x) \in Keys /\ x # None
  BY <1>1, KeysAssumption DEF Registered, Objs, Key
<1>19. Registered(reg2, qn)
  <2>1. reg2[Timer] = <<Timer, 1>>
    <3>1. reg[Timer] = <<Timer, 1>> /\ Timer \in Keys /\ <<Timer, 1>> \in Objs
      BY <1>1, DispatchAssumption DEF Registered, Keys, Objs
    <3>2. reg[Timer] # None
      BY <3>1, KeysAssumption
    <3> QED
      BY <1>17, <3>1, <3>2
  <2>2. \A k \in Keys : reg2[k] # None => reg2[k] \in Objs /\ Key(reg2[k]) = k
    BY <1>1, <1>16 DEF Registered
  <2>3. ASSUME NEW x \in Objs, qn[x].pending > 0 PROVE reg2[Key(x)] = x
    <3>1. CASE x = o
      BY <1>16, <3>1
    <3>2. CASE x # o
      <4>1. reg[Key(x)] = x /\ Key(x) \in Keys /\ x # None
        BY <1>6, <1>18, <2>3, <3>2
      <4> QED
        BY <1>17, <4>1
    <3> QED
      BY <3>1, <3>2
  <2> QED
    BY <1>16, <2>1, <2>2, <2>3 DEF Registered
<1>20. Meetings(met, reg2, occ)
  <2>1. ASSUME NEW c \in Conns, met[c] # None
        PROVE  reg2[met[c]] # None /\ occ[reg2[met[c]]]
    <3>1. met[c] \in Keys /\ reg[met[c]] # None /\ occ[reg[met[c]]]
      BY <1>1, <2>1 DEF Meetings, Keys
    <3> QED
      BY <1>17, <3>1
  <2> QED
    BY <1>1, <2>1 DEF Meetings
<1>21. Kept(reg2, qn, occ)
  <2>1. ASSUME NEW r \in Rooms, reg2[r] # None, qn[reg2[r]].pending = 0,
               Count(qn[reg2[r]].strand, "next") = 0
        PROVE  occ[reg2[r]]
    <3>1. r \in Keys
      BY DEF Keys
    <3>2. reg2[r] # o
      BY <1>4, <1>6, <2>1
    <3>3. reg2[r] = reg[r]
      BY <1>16, <3>1, <3>2
    <3>4. reg[r] \in Objs /\ qn[reg[r]] = qs[reg[r]]
      BY <1>1, <1>6, <2>1, <3>1, <3>2, <3>3 DEF Registered
    <3> QED
      BY <1>1, <2>1, <3>3, <3>4 DEF Kept
  <2> QED
    BY <2>1 DEF Kept
<1>22. n \in Nat
  BY <1>1, FS_CardinalityType DEF Counted
<1>23. Load(q2) - Load(q) \in {-1, 0, 1} /\ n + 1 = n + (Load(q2) - Load(q)) /\ Load(q2) \in Nat
  BY <1>4, <1>22
<1>24. Counted(qn, n + 1)
  BY <1>1, <1>2, <1>3, <1>4, <1>5, <1>23, PutCounted
<1> QED
  BY <1>1, <1>2, <1>5, <1>8, <1>11, <1>12, <1>13, <1>14, <1>19, <1>20, <1>21, <1>24 DEF Whole

(* The registry matters by what it gives for a key.                        *)
LEMMA RegistrySame ==
  ASSUME NEW qs, NEW ps, NEW held, NEW asleep, NEW reg, NEW met, NEW occ, NEW n,
         Whole(qs, ps, held, asleep, reg, met, occ, n),
         NEW reg2, DOMAIN reg2 = Keys, \A k \in Keys : reg2[k] = reg[k]
  PROVE  Whole(qs, ps, held, asleep, reg2, met, occ, n)
<1>1. Registered(reg, qs) /\ Meetings(met, reg, occ) /\ Kept(reg, qs, occ)
  BY DEF Whole
<1>2. Registered(reg2, qs)
  <2>1. \A x \in Objs : Key(x) \in Keys
    BY DEF Objs, Key
  <2> QED
    BY <1>1, <2>1 DEF Registered, Keys
<1>3. Meetings(met, reg2, occ)
  <2>1. ASSUME NEW c \in Conns, met[c] # None
        PROVE  reg2[met[c]] # None /\ occ[reg2[met[c]]]
    <3>1. met[c] \in Keys /\ reg[met[c]] # None /\ occ[reg[met[c]]]
      BY <1>1, <2>1 DEF Meetings, Keys
    <3> QED
      BY <3>1
  <2> QED
    BY <1>1, <2>1 DEF Meetings
<1>4. Kept(reg2, qs, occ)
  BY <1>1 DEF Kept, Keys
<1> QED
  BY <1>2, <1>3, <1>4 DEF Whole

LEMMA EraseConnection ==
  ASSUME NEW qs, NEW ps, NEW held, NEW asleep, NEW reg, NEW met, NEW occ, NEW n,
         Whole(qs, ps, held, asleep, reg, met, occ, n),
         NEW c \in Conns, reg[c] = None \/ qs[reg[c]].pending = 0
  PROVE  Whole(qs, ps, held, asleep, [reg EXCEPT ![c] = None], met, occ, n)
<1>1. DOMAIN reg = Keys /\ c \in Keys
  BY DEF Whole, Registered, Keys
<1>2. CASE reg[c] = None
  <2>1. PICK reg2 : reg2 = [reg EXCEPT ![c] = None]
    OBVIOUS
  <2>2. DOMAIN reg2 = Keys /\ \A k \in Keys : reg2[k] = reg[k]
    BY <1>1, <1>2, <2>1
  <2> QED
    BY <2>1, <2>2, RegistrySame
<1>3. CASE reg[c] # None
  <2>1. PICK o : o = reg[c]
    OBVIOUS
  <2>2. o \in Objs /\ Key(o) = c
    BY <1>1, <1>3, <2>1 DEF Whole, Registered
  <2>3. Key(o) # Timer /\ Key(o) \notin Rooms
    BY <2>2, KeysAssumption
  <2>4. reg[Key(o)] = o /\ qs[o].pending = 0
    BY <1>3, <2>1, <2>2
  <2> QED
    BY <2>2, <2>3, <2>4, Erase
<1> QED
  BY <1>2, <1>3

LEMMA LookupIs ==
  ASSUME DispatchInv, NEW k \in Keys, Available(k)
  PROVE  Lookup(k) \in Objs /\ Key(Lookup(k)) = k /\ Named(registry, queue, op, Lookup(k))
<1>1. Registered(registry, queue)
  BY DEF DispatchInv, Whole
<1>2. CASE registry[k] # None
  <2>1. Lookup(k) = registry[k]
    BY <1>2 DEF Lookup
  <2>2. registry[k] \in Objs /\ Key(registry[k]) = k
    BY <1>1, <1>2 DEF Registered
  <2> QED
    BY <2>1, <2>2 DEF Named
<1>3. CASE registry[k] = None
  <2>1. \E o \in Objs : Key(o) = k /\ Unused(o)
    BY <1>3 DEF Available
  <2>2. PICK o : o = Lookup(k)
    OBVIOUS
  <2>3. o = CHOOSE x \in Objs : Key(x) = k /\ Unused(x)
    BY <1>3, <2>2 DEF Lookup
  <2>4. o \in Objs /\ Key(o) = k /\ Unused(o)
    BY <2>1, <2>3
  <2> QED
    BY <1>3, <2>2, <2>4 DEF Named, Unused
<1> QED
  BY <1>2, <1>3

LEMMA EnterStep ==
  ASSUME DispatchInv, NEW c \in Conns, Available(c), NEW e, EntryOK(e), e.waiter = NoWaiter,
         Enter(c, e), UNCHANGED <<poolVars, op, meeting, occupied>>
  PROVE  DispatchInv'
<1>1. Whole(queue, op, holders, awaiting, registry, meeting, occupied, scheduled)
  BY DEF DispatchInv
<1>2. c \in Keys
  BY DEF Keys
<1>3. PICK o : o = Lookup(c)
  OBVIOUS
<1>4. o \in Objs /\ Key(o) = c /\ Named(registry, queue, op, o)
  BY <1>2, <1>3, LookupIs
<1>5. UNCHANGED <<m_tasks, thread, task, holders, awaiting>>
  BY DEF poolVars
<1>6. PoolTasks'
  BY <1>5, PoolTasksSame DEF DispatchInv
<1>7. CASE Admits(o, e)
  <2>1. /\ registry' = [registry EXCEPT ![Key(o)] = o]
        /\ queue' = Put(queue, o, Admitted(queue[o], e))
        /\ scheduled' = scheduled + 1
    BY <1>3, <1>4, <1>7 DEF Enter, SchedulerReserve, Put
  <2>2. Enterable(queue, op, e)
    BY DEF Enterable
  <2>3. Whole(queue', op, holders, awaiting, registry', meeting, occupied, scheduled')
    BY <1>1, <1>4, <2>1, <2>2, Admission
  <2> QED
    BY <1>5, <1>6, <2>3 DEF DispatchInv
<1>8. CASE ~Admits(o, e)
  <2>1. /\ registry' = IF queue[o].pending = 0 THEN [registry EXCEPT ![c] = None] ELSE registry
        /\ UNCHANGED <<queue, scheduled>>
    BY <1>3, <1>8 DEF Enter
  <2>2. queue[o].pending = 0 => registry[c] = None \/ queue[registry[c]].pending = 0
    BY <1>4 DEF Named
  <2>3. Whole(queue, op, holders, awaiting, registry', meeting, occupied, scheduled)
    BY <1>1, <2>1, <2>2, EraseConnection
  <2> QED
    BY <1>5, <1>6, <2>1, <2>3 DEF DispatchInv
<1> QED
  BY <1>7, <1>8

LEMMA RequestOK ==
  ASSUME NEW c \in Conns, NEW kind, NEW r,
         kind = "disconnect" \/ (kind \in Kinds /\ r \in Rooms)
  PROVE  EntryOK(Request(c, kind, r)) /\ Request(c, kind, r).waiter = NoWaiter
<1>1. PICK e : e = Request(c, kind, r)
  OBVIOUS
<1>2. /\ DOMAIN e = EntryFields /\ e.conn = c /\ e.kind = kind /\ e.room = r
      /\ e.waiter = NoWaiter
  BY <1>1 DEF Request, EntryFields
<1>3. kind \in {"join", "room", "plain", "disconnect"}
  BY DispatchAssumption
<1> QED
  BY <1>1, <1>2, <1>3 DEF EntryOK

LEMMA PostStep ==
  ASSUME DispatchInv, NEW c \in Conns,
         (\E kind \in Kinds, r \in Rooms : PostMsgToQue(c, kind, r)) \/ PostSessionDisconnected(c)
  PROVE  DispatchInv'
<1>1. ASSUME NEW kind \in Kinds, NEW r \in Rooms, PostMsgToQue(c, kind, r)
      PROVE  DispatchInv'
  <2>1. PICK e : e = Request(c, kind, r)
    OBVIOUS
  <2>2. EntryOK(e) /\ e.waiter = NoWaiter
    BY <2>1, RequestOK
  <2>3. /\ Available(c) /\ Enter(c, e)
        /\ UNCHANGED <<poolVars, op, meeting, occupied>>
    BY <1>1, <2>1 DEF PostMsgToQue
  <2> QED
    BY <2>2, <2>3, EnterStep
<1>2. ASSUME PostSessionDisconnected(c) PROVE DispatchInv'
  <2>1. PICK e : e = Request(c, "disconnect", None)
    OBVIOUS
  <2>2. EntryOK(e) /\ e.waiter = NoWaiter
    BY <2>1, RequestOK
  <2>3. /\ Available(c) /\ Enter(c, e)
        /\ UNCHANGED <<poolVars, op, meeting, occupied>>
    BY <1>2, <2>1 DEF PostSessionDisconnected
  <2> QED
    BY <2>2, <2>3, EnterStep
<1> QED
  BY <1>1, <1>2

LEMMA ScanStep ==
  ASSUME DispatchInv, NEW r \in Rooms, PostReconnectTimeoutCheck(r)
  PROVE  DispatchInv'
<1>1. Whole(queue, op, holders, awaiting, registry, meeting, occupied, scheduled)
  BY DEF DispatchInv
<1>2. Registered(registry, queue)
  BY <1>1 DEF Whole
<1>3. PICK o : o = <<Timer, 1>>
  OBVIOUS
<1>4. o \in Objs /\ Key(o) = Timer /\ registry[Timer] = o /\ Timer \in Keys
  BY <1>2, <1>3, DispatchAssumption DEF Objs, Key, Keys, Registered
<1>5. PICK e : e = [NoEntry EXCEPT !.kind = "scan", !.room = r]
  OBVIOUS
<1>6. /\ DOMAIN e = EntryFields /\ e.conn = None /\ e.kind = "scan" /\ e.room = r
      /\ e.waiter = NoWaiter
  BY <1>5 DEF NoEntry, EntryFields
<1>7. Enterable(queue, op, e)
  BY <1>6 DEF Enterable, EntryOK
<1>8. Named(registry, queue, op, o)
  BY <1>4 DEF Named
<1>9. PICK reg2 : reg2 = [registry EXCEPT ![Key(o)] = o]
  OBVIOUS
<1>10. PICK qn : qn = Put(queue, o, Admitted(queue[o], e))
  OBVIOUS
<1>11. Whole(qn, op, holders, awaiting, reg2, meeting, occupied, scheduled + 1)
  BY <1>1, <1>4, <1>7, <1>8, <1>9, <1>10, Admission
<1>12. DOMAIN registry = Keys /\ \A k \in Keys : registry[k] = reg2[k]
  BY <1>2, <1>4, <1>9 DEF Registered
<1>13. Whole(qn, op, holders, awaiting, registry, meeting, occupied, scheduled + 1)
  BY <1>11, <1>12, RegistrySame
<1>14. queue' = qn /\ scheduled' = scheduled + 1
  BY <1>4, <1>5, <1>10 DEF PostReconnectTimeoutCheck, SchedulerReserve, Put
<1>15. UNCHANGED <<m_tasks, thread, task, holders, awaiting, op, registry, meeting, occupied>>
  BY DEF PostReconnectTimeoutCheck, poolVars
<1>16. PoolTasks'
  BY <1>15, PoolTasksSame DEF DispatchInv
<1> QED
  BY <1>13, <1>14, <1>15, <1>16 DEF DispatchInv

LEMMA NobodyWaits ==
  ASSUME NEW qs, NEW ps, Lines(qs, ps), NEW x, ~WaitsForRoom(ps[x])
  PROVE  Unawaited(qs, ps, x)
BY DEF Lines, Unawaited, Awaited

-----------------------------------------------------------------------------
(* The meeting's command and its end                                       *)

Departs(q1, p1, q, p, waits, resumed, tk) ==
    /\ waits \in BOOLEAN /\ resumed \in BOOLEAN /\ (resumed => waits)
    /\ tk = [id |-> q1.active, phase |-> q1.phase + 1]
    /\ DOMAIN q = QueueFields /\ q.commands = q1.commands /\ q.pending = q1.pending
    /\ q.next = q1.next /\ q.active = q1.active /\ q.token = q1.token
    /\ q.phase = (IF waits THEN q1.phase + 1 ELSE q1.phase)
    /\ q.strand = (IF resumed THEN Append(q1.strand, Resume(tk)) ELSE q1.strand)
    /\ DOMAIN p = OpFields /\ p.pc = (IF waits THEN "await" ELSE "finish")
    /\ p.cont = "finish" /\ p.entry = p1.entry /\ p.target = p1.target

Departed(q, p, waits, resumed, tk) ==
    /\ waits => WaitsForRoom(p) /\ Current(q) = tk
    /\ ~resumed => Count(q.strand, "resume") = 0

(* The connection's operation goes from toRoom to its wait, or to its end  *)
(* if it does not wait; a refused command has resumed it already.          *)
LEMMA ToRoom ==
  ASSUME NEW qs, NEW ps, NEW held, NEW asleep, NEW reg, NEW met, NEW occ, NEW n,
         Whole(qs, ps, held, asleep, reg, met, occ, n), NEW o \in Objs,
         ps[o].pc = "toRoom",
         NEW waits, NEW resumed, NEW tk, NEW q, NEW p,
         Departs(qs[o], ps[o], q, p, waits, resumed, tk), o \in held => ~waits
  PROVE  /\ Whole(Put(qs, o, q), Put(ps, o, p), held, asleep, reg, met, occ, n)
         /\ Unawaited(Put(qs, o, q), Put(ps, o, p), o)
         /\ Departed(q, p, waits, resumed, tk)
<1>1. PICK q1, p1 : q1 = qs[o] /\ p1 = ps[o]
  OBVIOUS
<1>2. /\ QueueOK(q1) /\ Accounted(q1, p1) /\ ResumesOK(q1, p1) /\ OpOK(o, p1)
      /\ UseOK(o, q1, p1, held, asleep) /\ (q1.pending > 0 => reg[Key(o)] = o)
  BY <1>1, WholeAt
<1>3. p1.pc = "toRoom" /\ DOMAIN p1 = OpFields /\ Running(p1)
  BY <1>1, <1>2 DEF OpOK, Running
<1>4. /\ DOMAIN q = QueueFields /\ q.commands = q1.commands /\ q.pending = q1.pending
      /\ q.next = q1.next /\ q.active = q1.active /\ q.token = q1.token
      /\ q.phase = (IF waits THEN q1.phase + 1 ELSE q1.phase)
      /\ q.strand = (IF resumed THEN Append(q1.strand, Resume(tk)) ELSE q1.strand)
  BY <1>1 DEF Departs
<1>b. waits \in BOOLEAN /\ resumed \in BOOLEAN /\ (resumed => waits)
  BY DEF Departs
<1>a. tk = [id |-> q1.active, phase |-> q1.phase + 1]
  BY <1>1 DEF Departs
<1>5. /\ DOMAIN p = OpFields /\ p.pc = (IF waits THEN "await" ELSE "finish")
      /\ p.cont = "finish" /\ p.entry = p1.entry /\ p.target = p1.target
  BY <1>1 DEF Departs
<1>6. OpOK(o, p) /\ Running(p) /\ p.pc # "none"
  BY <1>5, <1>b DEF OpOK, Running, Routing, Handling
<1>7. \A i \in 1 .. Len(q1.strand) : q1.strand[i].type # "resume"
  BY <1>2, <1>3 DEF ResumesOK
<1>8. Count(q1.strand, "resume") = 0
  BY <1>2, <1>7, CountZero DEF QueueOK
<1>9. waits => WaitsForRoom(p) /\ Current(q) = tk
  BY <1>4, <1>5, <1>a, <1>b DEF WaitsForRoom, Current
<1>10. q.phase \in Nat /\ q.pending \in Nat /\ q.next \in Nat /\ q.active \in Nat
  BY <1>2, <1>4, <1>b DEF QueueOK
<1>11. /\ QueueOK(q) /\ ResumesOK(q, p)
       /\ Count(q.strand, "push") = Count(q1.strand, "push")
       /\ Count(q.strand, "next") = Count(q1.strand, "next")
       /\ (~resumed => Count(q.strand, "resume") = 0)
       /\ \A k, i, e : EntryAt(q, p, k, i, e) => EntryAt(q1, p1, k, i, e)
  <2>1. CASE resumed
    <3>1. PICK h : h = Resume(tk)
      OBVIOUS
    <3>2. h.type = "resume" /\ h.token = tk
      BY <3>1 DEF Resume
    <3>3. Posted(q1, q, h)
      BY <1>4, <1>10, <2>1, <3>1 DEF Posted
    <3>4. h.type \in {"push", "resume", "next"}
      BY <3>2
    <3>5. /\ QueueOK(q)
          /\ \A t : Count(q.strand, t) = IF h.type = t THEN Count(q1.strand, t) + 1
                                         ELSE Count(q1.strand, t)
          /\ \A x, k, i, e : EntryAt(q, x, k, i, e) =>
                \/ EntryAt(q1, x, k, i, e)
                \/ h.type = "push" /\ k = "strand" /\ i = Len(q1.strand) + 1 /\ e = h.entry
          /\ \A i \in 1 .. Len(q.strand) : q.strand[i].type = "resume" =>
                \/ i \in 1 .. Len(q1.strand) /\ q.strand[i] = q1.strand[i]
                \/ h.type = "resume" /\ q.strand[i] = h
      BY <1>2, <3>3, <3>4, PostFacts
    <3>6. ResumesOK(q, p)
      <4>1. Count(q.strand, "resume") <= 1
        BY <1>8, <3>2, <3>5
      <4>2. p.pc = "await" /\ Current(q) = tk
        BY <1>5, <1>9, <1>b, <2>1
      <4>3. \A i \in 1 .. Len(q.strand) : q.strand[i].type = "resume" => q.strand[i].token = tk
        BY <1>7, <3>2, <3>5
      <4> QED
        BY <4>1, <4>2, <4>3 DEF ResumesOK
    <3>7. \A k, i, e : EntryAt(q, p, k, i, e) => EntryAt(q1, p, k, i, e)
      BY <3>2, <3>5
    <3>8. \A k, i, e : EntryAt(q, p, k, i, e) => EntryAt(q1, p1, k, i, e)
      <4>1. ASSUME NEW k, NEW i, NEW e, EntryAt(q, p, k, i, e) PROVE EntryAt(q1, p1, k, i, e)
        <5>1. EntryAt(q1, p, k, i, e)
          BY <3>7, <4>1
        <5> QED
          BY <1>3, <1>5, <5>1 DEF EntryAt
      <4> QED
        BY <4>1
    <3>9. Count(q.strand, "push") = Count(q1.strand, "push")
          /\ Count(q.strand, "next") = Count(q1.strand, "next")
      BY <3>2, <3>5
    <3> QED
      BY <2>1, <3>5, <3>6, <3>8, <3>9
  <2>2. CASE ~resumed
    <3>1. q.strand = q1.strand
      BY <1>4, <2>2
    <3>2. QueueOK(q)
      BY <1>2, <1>4, <1>10, <3>1 DEF QueueOK
    <3>3. ResumesOK(q, p)
      BY <1>7, <1>8, <3>1 DEF ResumesOK
    <3>4. \A k, i, e : EntryAt(q, p, k, i, e) => EntryAt(q1, p1, k, i, e)
      BY <1>3, <1>4, <1>5, <3>1 DEF EntryAt
    <3> QED
      BY <1>8, <3>1, <3>2, <3>3, <3>4
  <2> QED
    BY <2>1, <2>2
<1>12. Accounted(q, p)
  <2>1. q1.pending = Count(q1.strand, "push") + Len(q1.commands) + Uses(p1)
        /\ (q1.active # 0 <=> Running(p1))
    BY <1>2 DEF Accounted
  <2>2. Uses(p) = Uses(p1)
    BY <1>3, <1>6 DEF Uses
  <2> QED
    BY <1>3, <1>4, <1>6, <1>11, <2>1, <2>2 DEF Accounted
<1>13. ObjOK(o, q, p)
  BY <1>6, <1>11, <1>12 DEF ObjOK
<1>14. IsSeq(q.strand) /\ IsSeq(q.commands)
  BY <1>11 DEF QueueOK
<1>15. Moved(q1, p1, q, p)
  BY <1>11, <1>14, MovedWithin
<1>16. ~WaitsForRoom(p1)
  BY <1>3 DEF WaitsForRoom
<1>17. StillWaits(q1, p1, q, p)
  BY <1>16 DEF StillWaits
<1>18. UseOK(o, q, p, held, asleep)
  <2>1. o \notin asleep
    BY <1>2, <1>3 DEF UseOK
  <2>2. o \in held => ~WaitsForRoom(p)
    BY <1>5, <1>b DEF WaitsForRoom
  <2> QED
    BY <1>6, <2>1, <2>2 DEF UseOK
<1>19. SameBut(o, held, held) /\ SameBut(o, asleep, asleep)
  BY DEF SameBut
<1>20. q1.pending > 0
  BY <1>2, <1>3, BusyQueue
<1>21. Load(q) = Load(q1) /\ Load(q1) \in Nat
  BY <1>2, <1>4, <1>11, LoadIsNat DEF Load
<1>22. n \in Nat
  BY FS_CardinalityType DEF Whole, Counted
<1>23. Load(q) - Load(q1) \in {-1, 0, 1} /\ n = n + (Load(q) - Load(q1))
  BY <1>21, <1>22
<1>24. reg[Key(o)] = o /\ q.pending # 0
  BY <1>2, <1>4, <1>20
<1>25. Whole(Put(qs, o, q), Put(ps, o, p), held, asleep, reg, met, occ, n)
  BY <1>1, <1>13, <1>15, <1>17, <1>18, <1>19, <1>23, <1>24, Update
<1>26. ObjsOK(qs, ps) /\ Lines(qs, ps)
  BY DEF Whole
<1>27. Unawaited(qs, ps, o)
  BY <1>1, <1>16, <1>26, NobodyWaits
<1>28. Unawaited(Put(qs, o, q), Put(ps, o, p), o)
  BY <1>1, <1>15, <1>26, <1>27, PutUnawaited
<1> QED
  BY <1>9, <1>11, <1>25, <1>28 DEF Departed

LEMMA SubmitRoomStep ==
  ASSUME DispatchInv, NEW o \in Objs, SubmitRoom(o)
  PROVE  DispatchInv'
<1>1. Whole(queue, op, holders, awaiting, registry, meeting, occupied, scheduled)
  BY DEF DispatchInv
<1>2. PICK k, x : k = op[o].target /\ x = Lookup(k)
  OBVIOUS
<1>3. PICK waits \in BOOLEAN : waits <=> Key(o) # Timer
  OBVIOUS
<1>4. PICK tk : tk = [id |-> queue[o].active, phase |-> queue[o].phase + 1]
  OBVIOUS
<1>5. PICK e : e = [Entry(o) EXCEPT !.waiter = IF waits THEN [obj |-> o, token |-> tk]
                                               ELSE NoWaiter]
  OBVIOUS
<1>6. PICK resumed \in BOOLEAN : resumed <=> waits /\ ~Admits(x, e)
  OBVIOUS
<1>7. PICK q : q = [queue[o] EXCEPT !.phase = IF waits THEN tk.phase ELSE @,
                                    !.strand = IF resumed THEN Append(@, Resume(tk)) ELSE @]
  OBVIOUS
<1>8. PICK p : p = [op[o] EXCEPT !.pc = IF waits THEN "await" ELSE "finish", !.cont = "finish"]
  OBVIOUS
<1>9. op[o].pc = "toRoom" /\ (waits => o \notin holders) /\ Available(k)
  BY <1>2, <1>3 DEF SubmitRoom, GivesBack
<1>10. PICK qm, pm : qm = Put(queue, o, q) /\ pm = Put(op, o, p)
  OBVIOUS
<1>a. QueueOK(queue[o]) /\ OpOK(o, op[o])
  BY <1>1, WholeAt
<1>c. waits \in BOOLEAN /\ resumed \in BOOLEAN /\ (resumed => waits)
  BY <1>6
<1>b. Departs(queue[o], op[o], q, p, waits, resumed, tk)
  <2>1. PICK q1, p1 : q1 = queue[o] /\ p1 = op[o]
    OBVIOUS
  <2>2. DOMAIN q1 = QueueFields /\ DOMAIN p1 = OpFields
    BY <1>a, <2>1 DEF QueueOK, OpOK
  <2>3. /\ DOMAIN q = QueueFields /\ q.commands = q1.commands /\ q.pending = q1.pending
        /\ q.next = q1.next /\ q.active = q1.active /\ q.token = q1.token
        /\ q.phase = (IF waits THEN q1.phase + 1 ELSE q1.phase)
        /\ q.strand = (IF resumed THEN Append(q1.strand, Resume(tk)) ELSE q1.strand)
    BY <1>4, <1>7, <2>1, <2>2 DEF QueueFields
  <2>4. /\ DOMAIN p = OpFields /\ p.pc = (IF waits THEN "await" ELSE "finish")
        /\ p.cont = "finish" /\ p.entry = p1.entry /\ p.target = p1.target
    BY <1>8, <2>1, <2>2 DEF OpFields
  <2> QED
    BY <1>4, <1>c, <2>1, <2>3, <2>4 DEF Departs
<1>11. /\ Whole(qm, pm, holders, awaiting, registry, meeting, occupied, scheduled)
       /\ Unawaited(qm, pm, o)
       /\ (waits => WaitsForRoom(p) /\ Current(q) = tk)
       /\ (~resumed => Count(q.strand, "resume") = 0)
  <2>1. op[o].pc = "toRoom" /\ (o \in holders => ~waits)
    BY <1>9
  <2>2. /\ Whole(Put(queue, o, q), Put(op, o, p), holders, awaiting, registry, meeting, occupied,
                 scheduled)
        /\ Unawaited(Put(queue, o, q), Put(op, o, p), o)
        /\ Departed(q, p, waits, resumed, tk)
    BY <1>1, <1>b, <2>1, ToRoom
  <2> QED
    BY <1>10, <2>2 DEF Departed
<1>12. /\ DOMAIN queue = Objs /\ DOMAIN op = Objs /\ OpOK(o, op[o])
  BY <1>1, WholeAt
<1>13. k \in Rooms /\ Key(o) \notin Rooms /\ DOMAIN op[o] = OpFields /\ Running(op[o])
  BY <1>2, <1>9, <1>12 DEF OpOK, Routing, Running
<1>14. x \in Objs /\ Key(x) = k /\ Named(registry, queue, op, x)
  BY <1>2, <1>9, <1>13, LookupIs DEF Keys
<1>15. x # o
  BY <1>13, <1>14
<1>16. /\ qm[o] = q /\ pm[o] = p /\ DOMAIN qm = Objs
       /\ qm[x] = queue[x] /\ pm[x] = op[x]
  BY <1>10, <1>12, <1>14, <1>15, PutIs
<1>17. op' = pm
  BY <1>3, <1>8, <1>10, <1>12, <1>13 DEF SubmitRoom, Put, OpFields
<1>18. UNCHANGED <<m_tasks, thread, task, holders, awaiting, meeting, occupied>>
  BY DEF SubmitRoom, poolVars
<1>19. PoolTasks'
  BY <1>18, PoolTasksSame DEF DispatchInv
<1>20. CASE Admits(x, e)
  <2>1. ~resumed
    BY <1>6, <1>20
  <2>2. EntryOK(op[o].entry)
    BY <1>1, <1>13, EntryOf
  <2>3. /\ DOMAIN e = EntryFields /\ e.conn = op[o].entry.conn /\ e.kind = op[o].entry.kind
        /\ e.room = op[o].entry.room
        /\ e.waiter = (IF waits THEN [obj |-> o, token |-> tk] ELSE NoWaiter)
    BY <1>5, <2>2 DEF EntryOK, EntryFields, Entry
  <2>4. EntryOK(e)
    BY <2>2, <2>3 DEF EntryOK
  <2>5. e.waiter # NoWaiter => Awaited(qm, pm, e.waiter) /\ Unawaited(qm, pm, e.waiter.obj)
    <3>1. ASSUME waits PROVE Awaited(qm, pm, e.waiter) /\ e.waiter.obj = o
      BY <1>11, <1>16, <2>1, <2>3, <3>1 DEF Awaited
    <3> QED
      BY <1>11, <2>3, <3>1
  <2>6. Enterable(qm, pm, e)
    BY <2>4, <2>5 DEF Enterable
  <2>7. Named(registry, qm, pm, x)
    BY <1>14, <1>16 DEF Named
  <2>8. PICK q2 : q2 = Admitted(queue[x], e)
    OBVIOUS
  <2>9. Whole(Put(qm, x, q2), pm, holders, awaiting, [registry EXCEPT ![k] = x],
              meeting, occupied, scheduled + 1)
    BY <1>11, <1>14, <1>16, <2>6, <2>7, <2>8, Admission
  <2>10. registry' = [registry EXCEPT ![k] = x] /\ scheduled' = scheduled + 1
    BY <1>2, <1>3, <1>4, <1>5, <1>20 DEF SubmitRoom, SchedulerReserve
  <2>11. queue' = [queue EXCEPT ![o] = q, ![x] = Admitted(@, e)]
    <3>1. \A w, a : ResumedAtOnce(w, a) <=> (w /\ ~a)
      BY DEF ResumedAtOnce
    <3> QED
      BY <1>2, <1>3, <1>4, <1>5, <1>6, <1>7, <1>20, <3>1 DEF SubmitRoom
  <2>12. queue' = Put(qm, x, q2)
    BY <1>10, <1>12, <1>14, <1>15, <2>8, <2>11 DEF Put
  <2> QED
    BY <1>17, <1>18, <1>19, <2>9, <2>10, <2>12 DEF DispatchInv
<1>21. CASE ~Admits(x, e)
  <2>1. UNCHANGED <<registry, scheduled>>
    BY <1>2, <1>3, <1>4, <1>5, <1>21 DEF SubmitRoom
  <2>2. queue' = [queue EXCEPT ![o] = q]
    <3>1. \A w, a : ResumedAtOnce(w, a) <=> (w /\ ~a)
      BY DEF ResumedAtOnce
    <3> QED
      BY <1>2, <1>3, <1>4, <1>5, <1>6, <1>7, <1>21, <3>1 DEF SubmitRoom
  <2>3. queue' = qm
    BY <1>10, <2>2 DEF Put
  <2> QED
    BY <1>11, <1>17, <1>18, <1>19, <2>1, <2>3 DEF DispatchInv
<1> QED
  BY <1>20, <1>21

Ends(q1, p1, q, p) ==
    q = [q1 EXCEPT !.active = 0] /\ p = [p1 EXCEPT !.pc = "unpend"]

(* The operation's end: its command is gone.                               *)
LEMMA AtEnd ==
  ASSUME NEW qs, NEW ps, NEW held, NEW asleep, NEW reg, NEW met, NEW occ, NEW n,
         Whole(qs, ps, held, asleep, reg, met, occ, n), NEW o \in Objs,
         ps[o].pc = "finish", NEW q, NEW p, Ends(qs[o], ps[o], q, p),
         NEW held2, SameBut(o, held, held2), o \notin held2
  PROVE  /\ Whole(Put(qs, o, q), Put(ps, o, p), held2, asleep, reg, met, occ, n)
         /\ \A k, i, e : EntryAt(q, p, k, i, e) => EntryAt(qs[o], ps[o], k, i, e) /\ k # "op"
<1>1. PICK q1, p1 : q1 = qs[o] /\ p1 = ps[o]
  OBVIOUS
<1>2. /\ QueueOK(q1) /\ Accounted(q1, p1) /\ ResumesOK(q1, p1) /\ OpOK(o, p1)
      /\ UseOK(o, q1, p1, held, asleep) /\ (q1.pending > 0 => reg[Key(o)] = o)
  BY <1>1, WholeAt
<1>3. p1.pc = "finish" /\ DOMAIN p1 = OpFields
  BY <1>1, <1>2 DEF OpOK
<1>4. /\ DOMAIN q = QueueFields /\ q.commands = q1.commands /\ q.pending = q1.pending
      /\ q.next = q1.next /\ q.active = 0 /\ q.token = q1.token
      /\ q.phase = q1.phase /\ q.strand = q1.strand
  BY <1>1, <1>2 DEF QueueOK, QueueFields, Ends
<1>5. DOMAIN p = OpFields /\ p.pc = "unpend"
  BY <1>1, <1>3 DEF OpFields, Ends
<1>6. OpOK(o, p) /\ ~Running(p)
  BY <1>5 DEF OpOK, Running, Routing, Handling
<1>7. QueueOK(q)
  BY <1>2, <1>4 DEF QueueOK
<1>8. Accounted(q, p)
  BY <1>2, <1>3, <1>4, <1>5, <1>6 DEF Accounted, Uses
<1>9. ResumesOK(q, p)
  BY <1>2, <1>3, <1>4 DEF ResumesOK
<1>10. ObjOK(o, q, p)
  BY <1>6, <1>7, <1>8, <1>9 DEF ObjOK
<1>11. \A k, i, e : EntryAt(q, p, k, i, e) => EntryAt(q1, p1, k, i, e) /\ k # "op"
  BY <1>4, <1>6 DEF EntryAt
<1>12. Moved(q1, p1, q, p)
  <2>1. IsSeq(q.strand) /\ IsSeq(q.commands)
    BY <1>7 DEF QueueOK
  <2> QED
    BY <1>11, <2>1, MovedWithin
<1>13. StillWaits(q1, p1, q, p)
  BY <1>3 DEF StillWaits, WaitsForRoom
<1>14. UseOK(o, q, p, held2, asleep)
  BY <1>2, <1>3 DEF UseOK
<1>15. SameBut(o, asleep, asleep)
  BY DEF SameBut
<1>16. q1.pending > 0
  BY <1>2, <1>3, BusyQueue
<1>17. Load(q) = Load(q1) /\ Load(q1) \in Nat
  BY <1>2, <1>4, LoadIsNat DEF Load
<1>18. n \in Nat
  BY FS_CardinalityType DEF Whole, Counted
<1>19. Load(q) - Load(q1) \in {-1, 0, 1} /\ n = n + (Load(q) - Load(q1))
  BY <1>17, <1>18
<1>20. reg[Key(o)] = o /\ q.pending # 0
  BY <1>2, <1>4, <1>16
<1>21. Whole(Put(qs, o, q), Put(ps, o, p), held2, asleep, reg, met, occ, n)
  BY <1>1, <1>10, <1>12, <1>13, <1>14, <1>15, <1>19, <1>20, Update
<1> QED
  BY <1>1, <1>11, <1>21

Wakes(q1, q, w) == q = [q1 EXCEPT !.strand = Append(@, Resume(w.token))]

(* done() resumes the one that waits.                                      *)
LEMMA Resumed ==
  ASSUME NEW qs, NEW ps, NEW held, NEW asleep, NEW reg, NEW met, NEW occ, NEW n,
         Whole(qs, ps, held, asleep, reg, met, occ, n),
         NEW w, Awaited(qs, ps, w), Unawaited(qs, ps, w.obj),
         NEW q, Wakes(qs[w.obj], q, w)
  PROVE  Whole(Put(qs, w.obj, q), ps, held, asleep, reg, met, occ, n)
<1>1. PICK o : o = w.obj
  OBVIOUS
<1>a. /\ o \in Objs /\ WaitsForRoom(ps[o]) /\ w.token = Current(qs[o])
      /\ Count(qs[o].strand, "resume") = 0
  BY <1>1 DEF Awaited
<1>2. PICK q1, p1 : q1 = qs[o] /\ p1 = ps[o]
  OBVIOUS
<1>3. /\ QueueOK(q1) /\ Accounted(q1, p1) /\ ResumesOK(q1, p1) /\ OpOK(o, p1)
      /\ UseOK(o, q1, p1, held, asleep) /\ (q1.pending > 0 => reg[Key(o)] = o)
      /\ DOMAIN ps = Objs /\ Fcn(ps)
  BY <1>2, <1>a, WholeAt
<1>4. p1.pc = "await" /\ Running(p1) /\ WaitsForRoom(p1)
  BY <1>2, <1>a DEF WaitsForRoom, Running
<1>5. PICK h : h = Resume(w.token)
  OBVIOUS
<1>6. h.type = "resume" /\ h.token = Current(q1)
  BY <1>2, <1>5, <1>a DEF Resume
<1>7. /\ DOMAIN q = QueueFields /\ q.commands = q1.commands /\ q.pending = q1.pending
      /\ q.next = q1.next /\ q.active = q1.active /\ q.token = q1.token
      /\ q.phase = q1.phase /\ q.strand = Append(q1.strand, h)
  BY <1>1, <1>2, <1>3, <1>5 DEF QueueOK, QueueFields, Wakes
<1>8. Posted(q1, q, h)
  BY <1>3, <1>7 DEF Posted, QueueOK
<1>9. h.type \in {"push", "resume", "next"}
  BY <1>6
<1>10. /\ QueueOK(q)
       /\ \A t : Count(q.strand, t) = IF h.type = t THEN Count(q1.strand, t) + 1
                                      ELSE Count(q1.strand, t)
       /\ \A x, k, i, e : EntryAt(q, x, k, i, e) =>
             \/ EntryAt(q1, x, k, i, e)
             \/ h.type = "push" /\ k = "strand" /\ i = Len(q1.strand) + 1 /\ e = h.entry
       /\ \A i \in 1 .. Len(q.strand) : q.strand[i].type = "resume" =>
             \/ i \in 1 .. Len(q1.strand) /\ q.strand[i] = q1.strand[i]
             \/ h.type = "resume" /\ q.strand[i] = h
  <2>1. QueueOK(q1) /\ Posted(q1, q, h) /\ h.type \in {"push", "resume", "next"}
    BY <1>3, <1>8, <1>9
  <2> QED
    BY <2>1, PostFacts
<1>11. /\ Count(q.strand, "push") = Count(q1.strand, "push")
       /\ Count(q.strand, "next") = Count(q1.strand, "next")
       /\ Count(q.strand, "resume") = 1
  BY <1>2, <1>6, <1>10, <1>a
<1>12. Accounted(q, p1)
  BY <1>3, <1>7, <1>11 DEF Accounted
<1>13. ResumesOK(q, p1)
  <2>1. Current(q) = Current(q1)
    BY <1>7 DEF Current
  <2> QED
    BY <1>3, <1>4, <1>6, <1>10, <1>11, <2>1 DEF ResumesOK
<1>14. ObjOK(o, q, p1)
  BY <1>3, <1>10, <1>12, <1>13 DEF ObjOK
<1>15. Moved(q1, p1, q, p1)
  <2>1. \A k, i, e : EntryAt(q, p1, k, i, e) => EntryAt(q1, p1, k, i, e)
    BY <1>6, <1>10
  <2>2. IsSeq(q.strand) /\ IsSeq(q.commands)
    BY <1>10 DEF QueueOK
  <2> QED
    BY <2>1, <2>2, MovedWithin
<1>16. UseOK(o, q, p1, held, asleep)
  BY <1>3, <1>4 DEF UseOK
<1>17. SameBut(o, held, held) /\ SameBut(o, asleep, asleep)
  BY DEF SameBut
<1>18. q1.pending > 0
  BY <1>3, <1>4, BusyQueue
<1>19. Load(q) = Load(q1) /\ Load(q1) \in Nat
  BY <1>3, <1>7, <1>11, LoadIsNat DEF Load
<1>20. n \in Nat
  BY FS_CardinalityType DEF Whole, Counted
<1>21. Load(q) - Load(q1) \in {-1, 0, 1} /\ n = n + (Load(q) - Load(q1))
  BY <1>19, <1>20
<1>22. reg[Key(o)] = o /\ q.pending # 0
  BY <1>3, <1>7, <1>18
<1>23. Unawaited(qs, ps, o)
  BY <1>1
<1>24. Whole(Put(qs, o, q), Put(ps, o, p1), held, asleep, reg, met, occ, n)
  BY <1>2, <1>a, <1>14, <1>15, <1>16, <1>17, <1>21, <1>22, <1>23, Update
<1> QED
  BY <1>1, <1>2, <1>3, <1>24, <1>a, PutSame

LEMMA FinishStep ==
  ASSUME DispatchInv, NEW o \in Objs, Finish(o)
  PROVE  DispatchInv'
<1>1. Whole(queue, op, holders, awaiting, registry, meeting, occupied, scheduled)
  BY DEF DispatchInv
<1>2. /\ DOMAIN queue = Objs /\ DOMAIN op = Objs /\ OpOK(o, op[o]) /\ QueueOK(queue[o])
  BY <1>1, WholeAt
<1>3. op[o].pc = "finish" /\ Running(op[o]) /\ ~WaitsForRoom(op[o])
  BY DEF Finish, Running, WaitsForRoom
<1>4. PICK q : q = [queue[o] EXCEPT !.active = 0]
  OBVIOUS
<1>5. PICK p : p = [op[o] EXCEPT !.pc = "unpend"]
  OBVIOUS
<1>6. /\ SameBut(o, holders, holders') /\ o \notin holders'
      /\ UNCHANGED <<m_tasks, thread, task, awaiting>>
  BY DEF Finish, Pool!ReleaseCapacity, SameBut, poolVars
<1>7. PICK qm, pm : qm = Put(queue, o, q) /\ pm = Put(op, o, p)
  OBVIOUS
<1>8. /\ Whole(qm, pm, holders', awaiting, registry, meeting, occupied, scheduled)
      /\ \A k, i, e : EntryAt(q, p, k, i, e) => EntryAt(queue[o], op[o], k, i, e) /\ k # "op"
  <2>1. Ends(queue[o], op[o], q, p)
    BY <1>4, <1>5 DEF Ends
  <2> QED
    BY <1>1, <1>3, <1>6, <1>7, <2>1, AtEnd
<1>9. op' = pm
  BY <1>2, <1>5, <1>7 DEF Finish, Put, OpOK, OpFields
<1>10. UNCHANGED <<registry, meeting, occupied, scheduled>>
  BY DEF Finish
<1>11. PoolTasks'
  BY <1>6, PoolTasksSame DEF DispatchInv
<1>12. PICK w : w = op[o].entry.waiter
  OBVIOUS
<1>13. queue' = IF w = NoWaiter THEN qm
                ELSE [qm EXCEPT ![w.obj].strand = Append(@, Resume(w.token))]
  <2>1. qm = [queue EXCEPT ![o].active = 0]
    BY <1>2, <1>4, <1>7 DEF Put, QueueOK, QueueFields
  <2> QED
    BY <1>12, <2>1 DEF Finish, Entry
<1>14. CASE w = NoWaiter
  BY <1>6, <1>8, <1>9, <1>10, <1>11, <1>13, <1>14 DEF DispatchInv
<1>15. CASE w # NoWaiter
  <2>1. Awaited(queue, op, w)
    BY <1>1, <1>3, <1>12, <1>15, EntryOf
  <2>2. PICK x : x = w.obj
    OBVIOUS
  <2>3. x \in Objs /\ x # o
    BY <1>3, <2>1, <2>2 DEF Awaited
  <2>4. /\ qm[o] = q /\ pm[o] = p /\ DOMAIN qm = Objs
        /\ \A y \in Objs : y # o => qm[y] = queue[y] /\ pm[y] = op[y]
    BY <1>2, <1>7, PutIs
  <2>5. Awaited(qm, pm, w)
    BY <2>1, <2>2, <2>3, <2>4 DEF Awaited
  <2>6. Unawaited(qm, pm, x)
    <3>1. EntryAt(queue[o], op[o], "op", 0, op[o].entry)
      BY <1>3 DEF EntryAt
    <3>2. ASSUME NEW y \in Objs, NEW k, NEW i, NEW e, EntryAt(qm[y], pm[y], k, i, e),
                 e.waiter # NoWaiter, e.waiter.obj = x
          PROVE  FALSE
      <4>1. EntryAt(queue[y], op[y], k, i, e) /\ (y = o => k # "op")
        <5>1. CASE y = o
          BY <1>8, <2>4, <3>2, <5>1
        <5>2. CASE y # o
          BY <2>4, <3>2, <5>2
        <5> QED
          BY <5>1, <5>2
      <4>2. Single(queue, op)
        BY <1>1 DEF Whole
      <4>3. y = o /\ k = "op"
        <5>1. PICK d : d = op[o].entry
          OBVIOUS
        <5>2. /\ EntryAt(queue[o], op[o], "op", 0, d) /\ EntryAt(queue[y], op[y], k, i, e)
              /\ d.waiter # NoWaiter /\ e.waiter # NoWaiter /\ d.waiter.obj = e.waiter.obj
          BY <1>12, <1>15, <2>2, <3>1, <3>2, <4>1, <5>1
        <5>3. o = y /\ "op" = k /\ 0 = i
          BY <4>2, <5>2 DEF Single
        <5> QED
          BY <5>3
      <4> QED
        BY <4>1, <4>3
    <3> QED
      BY <3>2 DEF Unawaited
  <2>7. PICK q3 : q3 = [qm[x] EXCEPT !.strand = Append(@, Resume(w.token))]
    OBVIOUS
  <2>8. Whole(Put(qm, x, q3), pm, holders', awaiting, registry, meeting, occupied, scheduled)
    <3>1. Wakes(qm[w.obj], q3, w) /\ Unawaited(qm, pm, w.obj)
      BY <2>2, <2>6, <2>7 DEF Wakes
    <3> QED
      BY <1>8, <2>2, <2>5, <3>1, Resumed
  <2>9. queue' = Put(qm, x, q3)
    <3>1. QueueOK(qm[x])
      BY <1>8, <2>3, WholeAt
    <3> QED
      BY <1>13, <1>15, <2>2, <2>3, <2>4, <2>7, <3>1 DEF Put, QueueOK, QueueFields
  <2> QED
    BY <1>6, <1>9, <1>10, <1>11, <2>8, <2>9 DEF DispatchInv
<1> QED
  BY <1>14, <1>15

-----------------------------------------------------------------------------
(* The invariant                                                           *)

LEMMA InitOK == Init => DispatchInv
<1> SUFFICES ASSUME Init PROVE DispatchInv
  OBVIOUS
<1>1. /\ queue = [o \in Objs |-> NewQueue] /\ op = [o \in Objs |-> NoOperation]
      /\ occupied = [o \in Objs |-> FALSE] /\ meeting = [c \in Conns |-> None]
      /\ registry = [k \in Keys |-> IF k = Timer THEN <<Timer, 1>> ELSE None]
      /\ scheduled = 0 /\ holders = {} /\ awaiting = {} /\ m_tasks = <<>>
      /\ thread = [t \in Threads |-> "check"] /\ task = [t \in Threads |-> None]
  BY DEF Init, Pool!Init
<1>2. ObjsOK(queue, op)
  BY <1>1, NewObject DEF ObjsOK, Fcn
<1>3. \A o \in Objs : \A k, i, e : ~EntryAt(queue[o], op[o], k, i, e)
  BY <1>1, NewObject
<1>4. Lines(queue, op) /\ Single(queue, op)
  BY <1>3 DEF Lines, Single
<1>5. PoolUse(queue, op, holders, awaiting)
  BY <1>1 DEF PoolUse, UseOK
<1>6. Registered(registry, queue)
  <2>1. <<Timer, 1>> \in Objs /\ Key(<<Timer, 1>>) = Timer /\ Timer \in Keys
    BY DispatchAssumption DEF Objs, Key, Keys
  <2>2. \A o \in Objs : queue[o].pending = 0
    BY <1>1 DEF NewQueue
  <2> QED
    BY <1>1, <2>1, <2>2 DEF Registered
<1>7. Meetings(meeting, registry, occupied)
  BY <1>1 DEF Meetings
<1>8. Kept(registry, queue, occupied)
  BY <1>1, KeysAssumption DEF Kept, Keys
<1>9. Counted(queue, scheduled)
  <2>1. \A o \in Objs : Load(queue[o]) = 0
    BY <1>1, NewObject
  <2>2. Slots(queue) = {}
    BY <2>1 DEF Slots
  <2> QED
    BY <1>1, <2>2, FS_EmptySet DEF Counted
<1>10. PoolTasks
  <2>1. IsSeq(m_tasks) /\ Len(m_tasks) = 0
    BY <1>1, EmptyStrand
  <2>2. \A t \in Threads : ~Busy(t)
    BY <1>1 DEF Busy
  <2> QED
    BY <1>1, <2>1, <2>2 DEF PoolTasks
<1> QED
  BY <1>1, <1>2, <1>4, <1>5, <1>6, <1>7, <1>8, <1>9, <1>10 DEF DispatchInv, Whole

LEMMA StrandStep ==
  ASSUME DispatchInv, NEW o \in Objs, Strand(o)
  PROVE  DispatchInv'
BY HandlePushStep, HandleResumeStep, HandleNextStep, StartStep, ResolveStep, SubmitTaskStep,
   ResolvedStep, RouteReleasesStep, SubmitRoomStep, DispatchDropsStep, DispatchReservesStep,
   HandlerAwaitsStep, HandlerEndsStep, FinishStep, UnpendStep DEF Strand

LEMMA NextStep == DispatchInv /\ [Next]_vars => DispatchInv'
<1> SUFFICES ASSUME DispatchInv, [Next]_vars PROVE DispatchInv'
  OBVIOUS
<1>1. ASSUME NEW c \in Conns,
             (\E kind \in Kinds, r \in Rooms : PostMsgToQue(c, kind, r)) \/ PostSessionDisconnected(c)
      PROVE  DispatchInv'
  BY <1>1, PostStep
<1>2. ASSUME NEW r \in Rooms, PostReconnectTimeoutCheck(r) PROVE DispatchInv'
  BY <1>2, ScanStep
<1>3. ASSUME NEW o \in Objs, Strand(o) PROVE DispatchInv'
  BY <1>3, StrandStep
<1>4. ASSUME NEW t \in Threads, PoolThread(t) \/ CompleteTask(t) PROVE DispatchInv'
  BY <1>4, PoolThreadStep, CompleteTaskStep
<1>5. ASSUME WaitIdleThenJoin PROVE DispatchInv'
  BY <1>5, JoinStep
<1>6. ASSUME Stop \/ Terminated \/ UNCHANGED vars PROVE DispatchInv'
  BY <1>6, SameStep DEF Terminated
<1> QED
  BY <1>1, <1>2, <1>3, <1>4, <1>5, <1>6 DEF Next

(* Every state of the dispatcher satisfies the inductive invariant.        *)
THEOREM DispatchInvariant == Spec => []DispatchInv
<1>1. Init => DispatchInv
  BY InitOK
<1>2. DispatchInv /\ [Next]_vars => DispatchInv'
  BY NextStep
<1> QED
  BY <1>1, <1>2, PTL DEF Spec

-----------------------------------------------------------------------------
(* The properties                                                          *)

LEMMA RegistryLemma == DispatchInv => RegistryAgrees
<1> SUFFICES ASSUME DispatchInv PROVE RegistryAgrees
  OBVIOUS
<1>1. Whole(queue, op, holders, awaiting, registry, meeting, occupied, scheduled)
  BY DEF DispatchInv
<1>2. ASSUME NEW o \in Objs, queue[o].pending > 0 \/ queue[o].active # 0
      PROVE  registry[Key(o)] = o
  <2>1. /\ QueueOK(queue[o]) /\ Accounted(queue[o], op[o])
        /\ (queue[o].pending > 0 => registry[Key(o)] = o)
    BY <1>1, WholeAt
  <2>2. CASE queue[o].active # 0
    <3>1. op[o].pc # "none"
      BY <2>1, <2>2 DEF Accounted, Running
    <3> QED
      BY <2>1, <3>1, BusyQueue
  <2> QED
    BY <1>2, <2>1, <2>2
<1>3. \A c \in Conns : meeting[c] # None =>
         registry[meeting[c]] # None /\ occupied[registry[meeting[c]]]
  BY <1>1 DEF Whole, Meetings
<1>4. ASSUME NEW r \in Rooms, registry[r] # None, queue[registry[r]].pending = 0,
             queue[registry[r]].strand = <<>>
      PROVE  occupied[registry[r]]
  <2>1. Count(queue[registry[r]].strand, "next") = 0
    BY <1>4, EmptyStrand
  <2> QED
    BY <1>1, <1>4, <2>1 DEF Whole, Kept
<1> QED
  BY <1>2, <1>3, <1>4 DEF RegistryAgrees

(* Only the registered queue of a key works, a bound session finds its     *)
(* room, and no empty room stays in the registry.                          *)
THEOREM RegistryIsRight == Spec => []RegistryAgrees
  BY DispatchInvariant, RegistryLemma, PTL

LEMMA CompletionLemma == DispatchInv => CompletionsAreCurrent
<1> SUFFICES ASSUME DispatchInv PROVE CompletionsAreCurrent
  OBVIOUS
<1>1. Whole(queue, op, holders, awaiting, registry, meeting, occupied, scheduled)
  BY DEF DispatchInv
<1>2. ASSUME NEW o \in Objs
      PROVE  /\ Cardinality(Having(queue[o].strand, "resume")) <= 1
             /\ \A i \in Having(queue[o].strand, "resume") :
                   op[o].pc = "await" /\ Matches(o, queue[o].strand[i].token)
  <2>1. ResumesOK(queue[o], op[o])
    BY <1>1, WholeAt
  <2> QED
    BY <2>1 DEF ResumesOK, Count, Having, Current, Matches
<1> QED
  BY <1>2 DEF CompletionsAreCurrent, Having

(* A completion in a strand is for the operation and the phase that wait   *)
(* for it: none comes late, twice or for another.                          *)
THEOREM CompletionsAreRight == Spec => []CompletionsAreCurrent
  BY DispatchInvariant, CompletionLemma, PTL

LEMMA HoldersLemma == DispatchInv => HoldersNeverWaitForOthers
<1> SUFFICES ASSUME DispatchInv, NEW o \in holders
             PROVE  ~(op[o].pc = "await" /\ op[o].cont = "finish")
  BY DEF HoldersNeverWaitForOthers
<1>1. Whole(queue, op, holders, awaiting, registry, meeting, occupied, scheduled)
  BY DEF DispatchInv
<1>2. o \in Objs /\ UseOK(o, queue[o], op[o], holders, awaiting)
  BY <1>1 DEF Whole, PoolUse
<1> QED
  BY <1>2 DEF UseOK, WaitsForRoom

(* An operation that holds capacity never waits for another operation.     *)
THEOREM HoldersOnlyWaitForPool == Spec => []HoldersNeverWaitForOthers
  BY DispatchInvariant, HoldersLemma, PTL

LEMMA IdleLemma == DispatchInv => IdleMeansDone
<1> SUFFICES ASSUME DispatchInv, scheduled = 0
             PROVE  /\ \A o \in Objs : queue[o].strand = <<>> /\ queue[o].commands = <<>>
                                       /\ op[o] = NoOperation
                    /\ holders = {} /\ awaiting = {}
  BY DEF IdleMeansDone
<1>1. Whole(queue, op, holders, awaiting, registry, meeting, occupied, scheduled)
  BY DEF DispatchInv
<1>2. Slots(queue) = {}
  BY <1>1, FS_EmptySet DEF Whole, Counted
<1>3. ASSUME NEW o \in Objs
      PROVE  /\ queue[o].strand = <<>> /\ queue[o].commands = <<>>
             /\ op[o] = NoOperation /\ o \notin holders
  <2>1. PICK q, p : q = queue[o] /\ p = op[o]
    OBVIOUS
  <2>2. /\ QueueOK(q) /\ Accounted(q, p) /\ ResumesOK(q, p) /\ OpOK(o, p)
        /\ UseOK(o, q, p, holders, awaiting)
    BY <1>1, <2>1, WholeAt
  <2>3. Load(q) = 0
    <3>1. Load(q) \in Nat
      BY <2>2, LoadIsNat
    <3>2. <<o, 1>> \notin Slots(queue)
      BY <1>2
    <3>3. 1 \notin 1 .. Load(q)
      BY <2>1, <3>2 DEF Slots
    <3> QED
      BY <3>1, <3>3
  <2>4. q.pending = 0 /\ Count(q.strand, "next") = 0
    <3>1. q.pending \in Nat /\ Count(q.strand, "next") \in Nat
      BY <2>2, HavingFinite DEF QueueOK
    <3> QED
      BY <2>3, <3>1 DEF Load
  <2>5. Count(q.strand, "push") = 0 /\ q.commands = <<>> /\ p.pc = "none"
    BY <2>2, <2>4, EmptyQueue
  <2>6. IsSeq(q.strand)
    BY <2>2 DEF QueueOK
  <2>7. \A i \in 1 .. Len(q.strand) : q.strand[i].type \notin {"push", "next"}
    BY <2>4, <2>5, <2>6, CountZero
  <2>8. \A i \in 1 .. Len(q.strand) : q.strand[i].type # "resume"
    BY <2>2, <2>5 DEF ResumesOK
  <2>9. \A i \in 1 .. Len(q.strand) : FALSE
    BY <2>2, <2>7, <2>8 DEF QueueOK
  <2>10. q.strand = <<>>
    BY <2>6, <2>9 DEF IsSeq
  <2>11. p = NoOperation /\ o \notin holders
    BY <2>2, <2>5 DEF OpOK, UseOK, Running
  <2> QED
    BY <2>1, <2>5, <2>10, <2>11
<1>4. holders \subseteq Objs /\ awaiting \subseteq holders
  BY <1>1 DEF Whole, PoolUse
<1> QED
  BY <1>3, <1>4

(* When WaitIdle finds the count at zero nothing is left to be done.       *)
THEOREM IdleIsDone == Spec => []IdleMeansDone
  BY DispatchInvariant, IdleLemma, PTL

-----------------------------------------------------------------------------
(* The pool is used as SlowPool allows                                     *)

LEMMA StrandUsesPool ==
  ASSUME NEW o \in Objs, Strand(o)
  PROVE  [Pool!Next]_(Pool!poolVars)
<1>1. CASE Pool!Reserve(o) \/ Pool!ReleaseCapacity(o) \/ Pool!Submit(o)
  BY <1>1 DEF Pool!Next
<1>2. CASE UNCHANGED poolVars
  BY <1>2 DEF poolVars, Pool!poolVars
<1>3. (HandlePush(o) \/ HandleResume(o) \/ HandleNext(o) \/ Start(o) \/ HandlerAwaits(o)
        \/ HandlerEnds(o) \/ Unpend(o) \/ SubmitRoom(o)) => UNCHANGED poolVars
  BY DEF HandlePush, HandleResume, HandleNext, Start, HandlerAwaits, HandlerEnds, Unpend,
         SubmitRoom
<1>4. (Resolved(o) \/ DispatchDrops(o)) => UNCHANGED poolVars
  BY DEF Resolved, DispatchDrops
<1>5. SubmitTask(o) => Pool!Submit(o)
  BY DEF SubmitTask
<1>6. RouteReleases(o) => Pool!ReleaseCapacity(o)
  BY DEF RouteReleases
<1>7. (Resolve(o) \/ DispatchReserves(o)) => (Pool!Reserve(o) \/ UNCHANGED poolVars)
  BY DEF Resolve, DispatchReserves
<1>8. Finish(o) => (Pool!ReleaseCapacity(o) \/ UNCHANGED poolVars)
  BY DEF Finish
<1> QED
  BY <1>1, <1>2, <1>3, <1>4, <1>5, <1>6, <1>7, <1>8 DEF Strand

LEMMA StepUsesPool == DispatchInv /\ [Next]_vars => [Pool!Next]_(Pool!poolVars)
<1> SUFFICES ASSUME DispatchInv, [Next]_vars PROVE [Pool!Next]_(Pool!poolVars)
  OBVIOUS
<1>1. UNCHANGED poolVars => [Pool!Next]_(Pool!poolVars)
  BY DEF poolVars, Pool!poolVars
<1>2. ASSUME NEW c \in Conns,
             (\E kind \in Kinds, r \in Rooms : PostMsgToQue(c, kind, r)) \/ PostSessionDisconnected(c)
      PROVE  UNCHANGED poolVars
  BY <1>2 DEF PostMsgToQue, PostSessionDisconnected
<1>3. ASSUME NEW r \in Rooms, PostReconnectTimeoutCheck(r) PROVE UNCHANGED poolVars
  BY <1>3 DEF PostReconnectTimeoutCheck
<1>4. ASSUME NEW t \in Threads, PoolThread(t) \/ CompleteTask(t) PROVE Pool!Next
  <2>1. Pool!PoolThread(t)
    BY <1>4 DEF PoolThread, CompleteTask, Pool!PoolThread
  <2> QED
    BY <2>1 DEF Pool!Next
<1>5. ASSUME WaitIdleThenJoin PROVE Pool!Next
  <2>1. holders = {} /\ Pool!Join
    BY <1>5, IdleLemma DEF WaitIdleThenJoin, Idle, IdleMeansDone
  <2>2. Pool!Shutdown
    BY <2>1 DEF Pool!Shutdown
  <2> QED
    BY <2>2 DEF Pool!Next
<1>6. ASSUME Stop \/ Terminated \/ UNCHANGED vars PROVE UNCHANGED poolVars
  BY <1>6 DEF Stop, Terminated, vars
<1> QED
  BY <1>1, <1>2, <1>3, <1>4, <1>5, <1>6, StrandUsesPool DEF Next

(* The dispatcher drives the pool as its specification says: it submits    *)
(* only with a reservation and joins only when nobody holds one.           *)
THEOREM PoolIsUsedCorrectly == Spec => UsesPoolCorrectly
<1>1. Init => Pool!Init
  BY DEF Init
<1>2. DispatchInv /\ [Next]_vars => [Pool!Next]_(Pool!poolVars)
  BY StepUsesPool
<1> QED
  BY <1>1, <1>2, DispatchInvariant, PTL DEF Spec, UsesPoolCorrectly, Pool!Spec

-----------------------------------------------------------------------------
(* SlowPool's theorems hold in the composition                             *)

Proved == INSTANCE SlowPool_proofs WITH Ops <- Objs, Capacity <- PoolCapacity, NoOp <- None

(* What SlowPool promises the operations that use it as specified, it      *)
(* promises the dispatcher's: one that holds capacity and is not suspended *)
(* in the pool finds a place for its task.  SubmitTask relies on it.       *)
THEOREM ReservationKept ==
  ASSUME IsFiniteSet(Conns), IsFiniteSet(Rooms), IsFiniteSet(Threads)
  PROVE  Spec => []Pool!ReservationHonoured
<1>1. PoolCapacity \in Nat \ {0}
  BY DispatchAssumption
<1>2. Proved!IsFiniteSet(Threads)
  BY DEF Proved!IsFiniteSet, IsFiniteSet
<1>3. IsFiniteSet(Objs)
  <2>1. IsFiniteSet(1 .. MaxObjs)
    BY DispatchAssumption, FS_Interval
  <2>2. IsFiniteSet(Keys)
    BY FS_Union, FS_Singleton DEF Keys
  <2> QED
    BY <2>1, <2>2, FS_Product DEF Objs
<1>4. Proved!IsFiniteSet(Objs) /\ None \notin Objs
  BY <1>3, KeysAssumption DEF Proved!IsFiniteSet, IsFiniteSet
<1>5. Proved!Spec => []Proved!ReservationHonoured
  BY <1>1, <1>2, <1>4, Proved!ReservationSafety, PTL
<1>6. Pool!Init => Proved!Init
  BY DEF Pool!Init, Proved!Init
<1>7. [Pool!Next]_(Pool!poolVars) => [Proved!Next]_(Proved!poolVars)
  BY DEF Pool!Next, Proved!Next, Pool!poolVars, Proved!poolVars, Pool!PoolThread,
         Proved!PoolThread, Pool!Shutdown, Proved!Shutdown, Pool!Joined, Proved!Joined,
         Pool!Reserve, Proved!Reserve, Pool!CanReserve, Proved!CanReserve,
         Pool!ReleaseCapacity, Proved!ReleaseCapacity, Pool!Submit, Proved!Submit,
         Pool!CanSubmit, Proved!CanSubmit, Pool!NotifyOne, Proved!NotifyOne,
         Pool!Sleep, Proved!Sleep, Pool!Pop, Proved!Pop, Pool!Return, Proved!Return,
         Pool!Complete, Proved!Complete, Pool!Exit, Proved!Exit, Pool!Join, Proved!Join
<1>8. Proved!ReservationHonoured => Pool!ReservationHonoured
  BY DEF Pool!ReservationHonoured, Proved!ReservationHonoured, Pool!CanSubmit, Proved!CanSubmit
<1> QED
  BY <1>5, <1>6, <1>7, <1>8, PoolIsUsedCorrectly, PTL DEF UsesPoolCorrectly, Pool!Spec, Proved!Spec

-----------------------------------------------------------------------------
(* The order of a connection's commands                                    *)

(* The operation has yet to begin the handler of its command, and does not *)
(* wait for a meeting to do it.                                            *)
Waiting(p) == p.pc \in {"start", "dispatch", "retry"} \/ Routing(p)

Fresh(k, p) == k = "op" => Waiting(p)

(* A connection's commands are in its queue; the one of them a meeting has *)
(* is that which the connection's operation waits for.                     *)
Home(o, e, ps) ==
    /\ Key(o) \in Conns => e.conn = Key(o) /\ e.waiter = NoWaiter
    /\ Key(o) = Timer => e.conn = None
    /\ Key(o) \in Rooms /\ e.conn # None =>
          /\ e.waiter # NoWaiter /\ Key(e.waiter.obj) = e.conn
          /\ ps[e.waiter.obj].entry.no = e.no

(* No command that is still to be handled was read before one that was.    *)
Numbered(k, p, e, post, done) ==
    e.conn # None =>
       /\ e.no \in Nat /\ e.no <= post[e.conn]
       /\ Fresh(k, p) => e.no > done[e.conn]

(* The commands of a queue are in the order in which they were read.       *)
Rising(q, p) ==
    \A k, i, l, j, d, e :
       EntryAt(q, p, k, i, d) /\ EntryAt(q, p, l, j, e) /\ Ahead(k, i, l, j) => d.no < e.no

Ordered(qs, ps, post, done) ==
    /\ post \in [Conns -> Nat] /\ done \in [Conns -> Nat]
    /\ \A c \in Conns : done[c] <= post[c]
    /\ \A o \in Objs : \A k, i, e : EntryAt(qs[o], ps[o], k, i, e) =>
          Home(o, e, ps) /\ Numbered(k, ps[o], e, post, done)
    /\ \A o \in Objs : Key(o) \in Conns => Rising(qs[o], ps[o])

OrderInv == Ordered(queue, op, posted, handled)

(* An operation goes on with its command, and not back before its handler. *)
Onward(p, p2) ==
    Running(p) /\ Running(p2) => p2.entry = p.entry /\ (Waiting(p2) => Waiting(p))

LEMMA RisingMoved ==
  ASSUME NEW q, NEW p, NEW q2, NEW p2, Moved(q, p, q2, p2), Rising(q, p)
  PROVE  Rising(q2, p2)
<1>1. PICK R : /\ \A k, i, e : EntryAt(q2, p2, k, i, e) =>
                     \E l, j : <<k, i, l, j>> \in R /\ EntryAt(q, p, l, j, e)
               /\ InOrder(R)
  BY DEF Moved
<1>2. ASSUME NEW k, NEW i, NEW l, NEW j, NEW d, NEW e, EntryAt(q2, p2, k, i, d),
             EntryAt(q2, p2, l, j, e), Ahead(k, i, l, j)
      PROVE  d.no < e.no
  <2>1. PICK k1, i1 : <<k, i, k1, i1>> \in R /\ EntryAt(q, p, k1, i1, d)
    BY <1>1, <1>2
  <2>2. PICK l1, j1 : <<l, j, l1, j1>> \in R /\ EntryAt(q, p, l1, j1, e)
    BY <1>1, <1>2
  <2>3. Ahead(k1, i1, l1, j1)
    <3>1. \A a, b, a2, b2, u, v, u2, v2 :
             /\ <<a, b, u, v>> \in R /\ <<a2, b2, u2, v2>> \in R /\ Ahead(a, b, a2, b2)
             => Ahead(u, v, u2, v2)
      BY <1>1 DEF InOrder
    <3> QED
      BY <1>2, <2>1, <2>2, <3>1
  <2> QED
    BY <2>1, <2>2, <2>3 DEF Rising
<1> QED
  BY <1>2 DEF Rising

(* What is waited for with a command is running.                           *)
Served(qs, ps) ==
    \A o \in Objs : \A k, i, e :
       EntryAt(qs[o], ps[o], k, i, e) /\ e.waiter # NoWaiter => Running(ps[e.waiter.obj])

(* Places move and operations go on: the order stays.                      *)
LEMMA Advance ==
  ASSUME NEW qs, NEW ps, NEW qs2, NEW ps2, Lines(qs, ps), Served(qs2, ps2),
         NEW post, NEW done, Ordered(qs, ps, post, done),
         \A x \in Objs : Moved(qs[x], ps[x], qs2[x], ps2[x]) /\ Onward(ps[x], ps2[x])
  PROVE  Ordered(qs2, ps2, post, done)
<1>1. /\ post \in [Conns -> Nat] /\ done \in [Conns -> Nat]
      /\ \A c \in Conns : done[c] <= post[c]
      /\ \A o \in Objs : \A k, i, e : EntryAt(qs[o], ps[o], k, i, e) =>
            Home(o, e, ps) /\ Numbered(k, ps[o], e, post, done)
      /\ \A o \in Objs : Key(o) \in Conns => Rising(qs[o], ps[o])
  BY DEF Ordered
<1>2. ASSUME NEW o \in Objs, NEW k, NEW i, NEW e, EntryAt(qs2[o], ps2[o], k, i, e)
      PROVE  Home(o, e, ps2) /\ Numbered(k, ps2[o], e, post, done)
  <2>1. PICK l, j : EntryAt(qs[o], ps[o], l, j, e) /\ (l = "op" => k = "op")
    <3>1. PICK R : /\ \A a, b, d : EntryAt(qs2[o], ps2[o], a, b, d) =>
                         \E l, j : <<a, b, l, j>> \in R /\ EntryAt(qs[o], ps[o], l, j, d)
                   /\ InOrder(R)
      BY DEF Moved
    <3>2. PICK l, j : <<k, i, l, j>> \in R /\ EntryAt(qs[o], ps[o], l, j, e)
      BY <1>2, <3>1
    <3>3. l = "op" => k = "op"
      BY <3>1, <3>2 DEF InOrder
    <3> QED
      BY <3>2, <3>3
  <2>2. Home(o, e, ps) /\ Numbered(l, ps[o], e, post, done)
    BY <1>1, <2>1
  <2>3. ASSUME e.waiter # NoWaiter
        PROVE  ps2[e.waiter.obj].entry = ps[e.waiter.obj].entry
    <3>1. PICK x : x = e.waiter.obj
      OBVIOUS
    <3>2. x \in Objs /\ WaitsForRoom(ps[x])
      BY <2>1, <2>3, <3>1 DEF Lines, Awaited
    <3>3. Running(ps2[x])
      BY <1>2, <2>3, <3>1 DEF Served
    <3> QED
      BY <3>1, <3>2, <3>3 DEF Onward, WaitsForRoom, Running
  <2>4. Home(o, e, ps2)
    BY <2>2, <2>3 DEF Home
  <2>5. Fresh(k, ps2[o]) => Fresh(l, ps[o])
    <3>1. ASSUME k = "op", l = "op", Waiting(ps2[o]) PROVE Waiting(ps[o])
      BY <1>2, <2>1, <3>1 DEF EntryAt, Onward
    <3> QED
      BY <2>1, <3>1 DEF Fresh
  <2> QED
    BY <2>2, <2>4, <2>5 DEF Numbered
<1>3. \A o \in Objs : Key(o) \in Conns => Rising(qs2[o], ps2[o])
  BY <1>1, RisingMoved
<1> QED
  BY <1>1, <1>2, <1>3 DEF Ordered

LEMMA Stays ==
  ASSUME NEW q, NEW p, QueueOK(q)
  PROVE  Moved(q, p, q, p) /\ Onward(p, p)
<1>1. IsSeq(q.strand) /\ IsSeq(q.commands)
  BY DEF QueueOK
<1>2. Moved(q, p, q, p)
  BY <1>1, MovedWithin
<1> QED
  BY <1>2 DEF Onward

LEMMA MovedTwice ==
  ASSUME NEW q, NEW p, NEW q1, NEW p1, NEW q2, NEW p2,
         IsSeq(q.strand), IsSeq(q.commands), IsSeq(q2.strand), IsSeq(q2.commands),
         Moved(q, p, q1, p1), Moved(q1, p1, q2, p2)
  PROVE  Moved(q, p, q2, p2)
<1>1. PICK R : /\ \A k, i, e : EntryAt(q1, p1, k, i, e) =>
                     \E l, j : <<k, i, l, j>> \in R /\ EntryAt(q, p, l, j, e)
               /\ InOrder(R)
  BY DEF Moved
<1>2. PICK S : /\ \A k, i, e : EntryAt(q2, p2, k, i, e) =>
                     \E l, j : <<k, i, l, j>> \in S /\ EntryAt(q1, p1, l, j, e)
               /\ InOrder(S)
  BY DEF Moved
<1>3. PICK T : T = {x \in Places : \E m, n : <<x[1], x[2], m, n>> \in S /\ <<m, n, x[3], x[4]>> \in R}
  OBVIOUS
<1>4. ASSUME NEW k, NEW i, NEW l, NEW j, <<k, i, l, j>> \in T
      PROVE  \E m, n : <<k, i, m, n>> \in S /\ <<m, n, l, j>> \in R
  BY <1>3, <1>4
<1>5. ASSUME NEW k, NEW i, NEW e, EntryAt(q2, p2, k, i, e)
      PROVE  \E l, j : <<k, i, l, j>> \in T /\ EntryAt(q, p, l, j, e)
  <2>1. PICK m, n : <<k, i, m, n>> \in S /\ EntryAt(q1, p1, m, n, e)
    BY <1>2, <1>5
  <2>2. PICK l, j : <<m, n, l, j>> \in R /\ EntryAt(q, p, l, j, e)
    BY <1>1, <2>1
  <2>3. k \in {"strand", "command", "op"} /\ i \in Int
    BY <1>5, PlacesTyped
  <2>4. l \in {"strand", "command", "op"} /\ j \in Int
    BY <2>2, PlacesTyped
  <2>5. <<k, i, l, j>> \in Places
    BY <2>3, <2>4 DEF Places
  <2>6. <<k, i, l, j>> \in T
    BY <1>3, <2>1, <2>2, <2>5
  <2> QED
    BY <2>2, <2>6
<1>6. InOrder(T)
  <2>1. ASSUME NEW k, NEW i, NEW l, NEW j, <<k, i, l, j>> \in T, l = "op" PROVE k = "op"
    <3>1. PICK m, n : <<k, i, m, n>> \in S /\ <<m, n, l, j>> \in R
      BY <1>4, <2>1
    <3>2. m = "op"
      BY <1>1, <2>1, <3>1 DEF InOrder
    <3> QED
      BY <1>2, <3>1, <3>2 DEF InOrder
  <2>2. ASSUME NEW k, NEW i, NEW k2, NEW i2, NEW l, NEW j,
               <<k, i, l, j>> \in T, <<k2, i2, l, j>> \in T
        PROVE  k = k2 /\ i = i2
    <3>1. PICK m, n : <<k, i, m, n>> \in S /\ <<m, n, l, j>> \in R
      BY <1>4, <2>2
    <3>2. PICK m2, n2 : <<k2, i2, m2, n2>> \in S /\ <<m2, n2, l, j>> \in R
      BY <1>4, <2>2
    <3>3. m = m2 /\ n = n2
      BY <1>1, <3>1, <3>2 DEF InOrder
    <3> QED
      BY <1>2, <3>1, <3>2, <3>3 DEF InOrder
  <2>3. ASSUME NEW k, NEW i, NEW k2, NEW i2, NEW l, NEW j, NEW l2, NEW j2,
               <<k, i, l, j>> \in T, <<k2, i2, l2, j2>> \in T, Ahead(k, i, k2, i2)
        PROVE  Ahead(l, j, l2, j2)
    <3>1. PICK m, n : <<k, i, m, n>> \in S /\ <<m, n, l, j>> \in R
      BY <1>4, <2>3
    <3>2. PICK m2, n2 : <<k2, i2, m2, n2>> \in S /\ <<m2, n2, l2, j2>> \in R
      BY <1>4, <2>3
    <3>3. Ahead(m, n, m2, n2)
      BY <1>2, <2>3, <3>1, <3>2 DEF InOrder
    <3> QED
      BY <1>1, <3>1, <3>2, <3>3 DEF InOrder
  <2> QED
    BY <2>1, <2>2, <2>3 DEF InOrder
<1> QED
  BY <1>5, <1>6 DEF Moved

LEMMA Goes ==
  ASSUME DispatchInv, DispatchInv', OrderInv, UNCHANGED <<posted, handled>>,
         \A x \in Objs : Moved(queue[x], op[x], queue'[x], op'[x]) /\ Onward(op[x], op'[x])
  PROVE  OrderInv'
<1>1. Lines(queue, op)
  BY DEF DispatchInv, Whole
<1>3. PICK qs, ps : qs = queue' /\ ps = op'
  OBVIOUS
<1>2. Served(qs, ps)
  <2>1. Lines(qs, ps)
    BY <1>3 DEF DispatchInv, Whole
  <2>2. \A x : WaitsForRoom(ps[x]) => Running(ps[x])
    BY DEF WaitsForRoom, Running
  <2> QED
    BY <2>1, <2>2 DEF Lines, Awaited, Served
<1>4. Ordered(queue, op, posted, handled)
  BY DEF OrderInv
<1>5. Ordered(qs, ps, posted, handled)
  BY <1>1, <1>2, <1>3, <1>4, Advance
<1> QED
  BY <1>3, <1>5 DEF OrderInv

(* One queue and its operation move.                                       *)
LEMMA OneGoes ==
  ASSUME DispatchInv, DispatchInv', OrderInv, UNCHANGED <<posted, handled>>,
         NEW o \in Objs, Moved(queue[o], op[o], queue'[o], op'[o]), Onward(op[o], op'[o]),
         \A x \in Objs : x # o => queue'[x] = queue[x] /\ op'[x] = op[x]
  PROVE  OrderInv'
<1>1. ASSUME NEW x \in Objs PROVE Moved(queue[x], op[x], queue'[x], op'[x]) /\ Onward(op[x], op'[x])
  <2>1. QueueOK(queue[x])
    BY WholeAt DEF DispatchInv
  <2>2. Moved(queue[x], op[x], queue[x], op[x]) /\ Onward(op[x], op[x])
    BY <2>1, Stays
  <2> QED
    BY <2>2
<1> QED
  BY <1>1, Goes

(* Only the operation goes on.                                             *)
LEMMA OpGoes ==
  ASSUME DispatchInv, DispatchInv', OrderInv, UNCHANGED <<queue, posted, handled>>,
         NEW o \in Objs, Running(op[o]), NEW p, op' = Put(op, o, p), Running(p),
         p.entry = op[o].entry, Waiting(p) => Waiting(op[o])
  PROVE  OrderInv'
<1>1. DOMAIN op = Objs /\ QueueOK(queue[o])
  BY WholeAt DEF DispatchInv
<1>2. op'[o] = p /\ \A x \in Objs : x # o => op'[x] = op[x]
  BY <1>1, PutIs
<1>3. Moved(queue[o], op[o], queue[o], p)
  <2>1. IsSeq(queue[o].strand) /\ IsSeq(queue[o].commands)
    BY <1>1 DEF QueueOK
  <2>2. \A k, i, e : EntryAt(queue[o], p, k, i, e) => EntryAt(queue[o], op[o], k, i, e)
    BY DEF EntryAt
  <2> QED
    BY <2>1, <2>2, MovedWithin
<1>4. Onward(op[o], p)
  BY DEF Onward
<1> QED
  BY <1>2, <1>3, <1>4, OneGoes

LEMMA PcGoes ==
  ASSUME DispatchInv, DispatchInv', OrderInv, UNCHANGED <<queue, posted, handled>>,
         NEW o \in Objs, Running(op[o]), NEW pc, Gets(o, pc),
         pc \notin {"none", "unpend", "submit", "await"},
         pc \in {"start", "dispatch", "retry", "resolve", "resolved", "toRoom"} => Waiting(op[o])
  PROVE  OrderInv'
<1>1. PICK p : p = op[o]
  OBVIOUS
<1>2. DOMAIN op = Objs /\ DOMAIN p = OpFields
  BY <1>1, OpFacts
<1>3. PICK p2 : p2 = [p EXCEPT !.pc = pc]
  OBVIOUS
<1>4. p2.pc = pc /\ p2.entry = p.entry
  BY <1>2, <1>3 DEF OpFields
<1>5. op' = Put(op, o, p2)
  BY <1>1, <1>2, <1>3 DEF Put, OpFields, Gets
<1>6. Running(p2) /\ (Waiting(p2) => Waiting(p))
  BY <1>1, <1>4 DEF Running, Waiting, Routing
<1> QED
  BY <1>1, <1>4, <1>5, <1>6, OpGoes

LEMMA StartGoes ==
  ASSUME DispatchInv, DispatchInv', OrderInv, NEW o \in Objs, Start(o)
  PROVE  OrderInv'
<1>1. PICK p : p = op[o]
  OBVIOUS
<1>2. p.pc = "start" /\ DOMAIN op = Objs /\ DOMAIN p = OpFields
  BY <1>1, OpFacts DEF Start
<1>3. PICK f, t : f = FirstStep(o) /\ t = Target(o)
  OBVIOUS
<1>4. PICK p2 : p2 = [p EXCEPT !.pc = f, !.target = t]
  OBVIOUS
<1>5. p2.pc = f /\ p2.entry = p.entry
  BY <1>2, <1>4 DEF OpFields
<1>6. op' = Put(op, o, p2)
  BY <1>1, <1>2, <1>3, <1>4 DEF Start, Put, OpFields
<1>7. f \notin {"none", "unpend"}
  BY <1>3 DEF FirstStep
<1>8. Running(p) /\ Running(p2) /\ Waiting(p)
  BY <1>2, <1>5, <1>7 DEF Running, Waiting
<1>9. UNCHANGED <<queue, posted, handled>>
  BY DEF Start, ioVars
<1> QED
  BY <1>1, <1>5, <1>6, <1>8, <1>9, OpGoes

LEMMA ResolveGoes ==
  ASSUME DispatchInv, DispatchInv', OrderInv, NEW o \in Objs, Resolve(o)
  PROVE  OrderInv'
<1>1. PICK p : p = op[o]
  OBVIOUS
<1>2. p.pc = "resolve" /\ DOMAIN op = Objs /\ DOMAIN p = OpFields
  BY <1>1, OpFacts DEF Resolve
<1>3. UNCHANGED <<queue, posted, handled>>
  BY DEF Resolve, ioVars
<1>4. Running(p) /\ Waiting(p)
  BY <1>2 DEF Running, Waiting, Routing
<1>5. CASE op' = [op EXCEPT ![o].pc = "submit", ![o].cont = "resolved"]
  <2>1. PICK p2 : p2 = [p EXCEPT !.pc = "submit", !.cont = "resolved"]
    OBVIOUS
  <2>2. p2.pc = "submit" /\ p2.entry = p.entry
    BY <1>2, <2>1 DEF OpFields
  <2>3. op' = Put(op, o, p2)
    BY <1>1, <1>2, <1>5, <2>1 DEF Put, OpFields
  <2>4. Running(p2)
    BY <2>2 DEF Running
  <2> QED
    BY <1>1, <1>3, <1>4, <2>2, <2>3, <2>4, OpGoes
<1>6. CASE Gets(o, "finish")
  BY <1>1, <1>3, <1>4, <1>6, PcGoes
<1> QED
  BY <1>5, <1>6 DEF Resolve, Gets

LEMMA QuietGoes ==
  ASSUME DispatchInv, DispatchInv', OrderInv, NEW o \in Objs,
         Resolved(o) \/ RouteReleases(o) \/ DispatchDrops(o) \/ HandlerEnds(o)
  PROVE  OrderInv'
<1>1. UNCHANGED <<queue, posted, handled>>
  BY DEF Resolved, RouteReleases, DispatchDrops, HandlerEnds, Local, ioVars
<1>2. op[o].pc \in {"resolved", "toRoom", "dispatch", "work"}
  BY DEF Resolved, RouteReleases, DispatchDrops, HandlerEnds
<1>3. Running(op[o])
  BY <1>2 DEF Running
<1>4. CASE Gets(o, "finish")
  BY <1>1, <1>3, <1>4, PcGoes
<1>5. CASE Gets(o, "toRoom") /\ op[o].pc \in {"resolved", "toRoom"}
  <2>1. Waiting(op[o])
    BY <1>5 DEF Waiting, Routing
  <2> QED
    BY <1>1, <1>3, <1>5, <2>1, PcGoes
<1> QED
  BY <1>4, <1>5 DEF Resolved, RouteReleases, DispatchDrops, HandlerEnds, Local, Gets

LEMMA HandlerAwaitsGoes ==
  ASSUME DispatchInv, DispatchInv', OrderInv, NEW o \in Objs, HandlerAwaits(o)
  PROVE  OrderInv'
<1>1. PICK p : p = op[o]
  OBVIOUS
<1>2. p.pc = "work" /\ DOMAIN op = Objs /\ DOMAIN p = OpFields
  BY <1>1, OpFacts DEF HandlerAwaits
<1>3. PICK p2 : p2 = [p EXCEPT !.pc = "submit", !.cont = "work", !.awaits = @ + 1]
  OBVIOUS
<1>4. p2.pc = "submit" /\ p2.cont = "work" /\ p2.entry = p.entry
  BY <1>2, <1>3 DEF OpFields
<1>5. op' = Put(op, o, p2)
  BY <1>1, <1>2, <1>3 DEF HandlerAwaits, Put, OpFields
<1>6. Running(p) /\ Running(p2) /\ ~Waiting(p2)
  BY <1>2, <1>4 DEF Running, Waiting, Routing
<1>7. UNCHANGED <<queue, posted, handled>>
  BY DEF HandlerAwaits, ioVars
<1> QED
  BY <1>1, <1>4, <1>5, <1>6, <1>7, OpGoes

(* The queue's places are what they were, or one of them is gone.          *)
LEMMA QueueGoes ==
  ASSUME DispatchInv, DispatchInv', OrderInv, UNCHANGED <<posted, handled>>,
         NEW o \in Objs, NEW q, NEW p, queue' = Put(queue, o, q), op' = Put(op, o, p),
         \A k, i, e : EntryAt(q, p, k, i, e) => EntryAt(queue[o], op[o], k, i, e),
         Onward(op[o], p)
  PROVE  OrderInv'
<1>1. DOMAIN op = Objs /\ DOMAIN queue = Objs
  BY WholeAt DEF DispatchInv
<1>2. /\ op'[o] = p /\ queue'[o] = q
      /\ \A x \in Objs : x # o => queue'[x] = queue[x] /\ op'[x] = op[x]
  BY <1>1, PutIs
<1>3. QueueOK(queue[o])'
  BY WholeAt DEF DispatchInv
<1>4. IsSeq(q.strand) /\ IsSeq(q.commands)
  BY <1>2, <1>3 DEF QueueOK, IsSeq
<1>5. Moved(queue[o], op[o], q, p)
  BY <1>4, MovedWithin
<1> QED
  BY <1>2, <1>5, OneGoes

(* Pump after a handler has run.                                           *)
LEMMA PumpedGoes ==
  ASSUME DispatchInv, DispatchInv', OrderInv, UNCHANGED <<posted, handled>>,
         NEW o \in Objs, NEW q, DOMAIN q = QueueFields, IsSeq(q.strand), IsSeq(q.commands),
         q.active = queue[o].active,
         Moved(queue[o], op[o], q, op[o]),
         queue' = Put(queue, o, Pumped(q)), op' = Put(op, o, StartOf(op[o], q))
  PROVE  OrderInv'
<1>1. PICK p : p = op[o]
  OBVIOUS
<1>2. PICK q2, p2 : q2 = Pumped(q) /\ p2 = StartOf(p, q)
  OBVIOUS
<1>3. DOMAIN op = Objs /\ DOMAIN queue = Objs /\ QueueOK(queue[o]) /\ Accounted(queue[o], p)
  BY <1>1, WholeAt DEF DispatchInv
<1>4. /\ op'[o] = p2 /\ queue'[o] = q2
      /\ \A x \in Objs : x # o => queue'[x] = queue[x] /\ op'[x] = op[x]
  BY <1>1, <1>2, <1>3, PutIs
<1>5. CASE ~Starts(q)
  <2>1. q2 = q /\ p2 = p
    BY <1>2, <1>5 DEF Pumped, StartOf
  <2>2. Onward(p, p2)
    BY <2>1 DEF Onward
  <2> QED
    BY <1>1, <1>4, <2>1, <2>2, OneGoes
<1>6. CASE Starts(q)
  <2>1. q.commands # <<>> /\ ~Running(p)
    BY <1>3, <1>6 DEF Starts, Accounted
  <2>2. q2.strand = q.strand /\ q2.commands = Tail(q.commands)
    BY <1>2, <1>6 DEF Pumped, QueueFields
  <2>3. p2.entry = Head(q.commands)
    BY <1>2, <1>6 DEF StartOf, NoOperation
  <2>4. Moved(q, p, q2, p2)
    BY <2>1, <2>2, <2>3, MovedPump
  <2>5. IsSeq(q2.strand) /\ IsSeq(q2.commands)
    BY <2>1, <2>2, TailIs
  <2>6. IsSeq(queue[o].strand) /\ IsSeq(queue[o].commands)
    BY <1>3 DEF QueueOK
  <2>7. Moved(queue[o], p, q2, p2)
    BY <1>1, <2>4, <2>5, <2>6, MovedTwice
  <2>8. Onward(p, p2)
    BY <2>1 DEF Onward
  <2> QED
    BY <1>1, <1>4, <2>7, <2>8, OneGoes
<1> QED
  BY <1>5, <1>6

LEMMA HandlePushGoes ==
  ASSUME DispatchInv, DispatchInv', OrderInv, NEW o \in Objs, HandlePush(o)
  PROVE  OrderInv'
<1>1. PICK q, p : q = queue[o] /\ p = op[o]
  OBVIOUS
<1>2. QueueOK(q) /\ DOMAIN queue = Objs /\ DOMAIN op = Objs
  BY <1>1, WholeAt DEF DispatchInv
<1>3. q.strand # <<>> /\ Head(q.strand).type = "push"
  BY <1>1 DEF HandlePush, NextHandler
<1>4. PICK q2 : q2 = [q EXCEPT !.strand = Tail(@), !.commands = Append(@, Head(q.strand).entry)]
  OBVIOUS
<1>5. /\ DOMAIN q2 = QueueFields /\ q2.strand = Tail(q.strand) /\ q2.active = q.active
      /\ q2.commands = Append(q.commands, Head(q.strand).entry)
  BY <1>2, <1>4 DEF QueueOK, QueueFields
<1>6. IsSeq(q.strand) /\ IsSeq(q.commands)
  BY <1>2 DEF QueueOK
<1>7. IsSeq(q2.strand) /\ IsSeq(q2.commands)
  BY <1>3, <1>5, <1>6, AppendIs, TailIs
<1>8. Moved(q, p, q2, p)
  BY <1>3, <1>5, <1>6, MovedPush
<1>9. queue' = Put(queue, o, Pumped(q2))
  BY <1>1, <1>4 DEF HandlePush, Put
<1>10. op' = Put(op, o, StartOf(p, q2))
  BY <1>1, <1>4 DEF HandlePush, Put, StartOf, PumpedOp
<1>11. UNCHANGED <<posted, handled>>
  BY DEF HandlePush, ioVars
<1> QED
  BY <1>1, <1>5, <1>7, <1>8, <1>9, <1>10, <1>11, PumpedGoes

LEMMA HandleNextGoes ==
  ASSUME DispatchInv, DispatchInv', OrderInv, NEW o \in Objs, HandleNext(o)
  PROVE  OrderInv'
<1>1. PICK q, p : q = queue[o] /\ p = op[o]
  OBVIOUS
<1>2. QueueOK(q) /\ Accounted(q, p) /\ OpOK(o, p) /\ DOMAIN queue = Objs /\ DOMAIN op = Objs
  BY <1>1, WholeAt DEF DispatchInv
<1>3. q.strand # <<>> /\ Head(q.strand).type = "next"
  BY <1>1 DEF HandleNext, NextHandler
<1>4. PICK q2 : q2 = [q EXCEPT !.strand = Tail(@)]
  OBVIOUS
<1>5. /\ DOMAIN q2 = QueueFields /\ q2.strand = Tail(q.strand) /\ q2.active = q.active
      /\ q2.commands = q.commands
  BY <1>2, <1>4 DEF QueueOK, QueueFields
<1>6. IsSeq(q.strand) /\ IsSeq(q.commands)
  BY <1>2 DEF QueueOK
<1>7. IsSeq(q2.strand) /\ IsSeq(q2.commands)
  BY <1>3, <1>5, <1>6, TailIs
<1>8. UNCHANGED <<posted, handled>>
  BY DEF HandleNext, ioVars
<1>9. op' = Put(op, o, StartOf(p, q2))
  BY <1>1, <1>4 DEF HandleNext, Put, StartOf, PumpedOp
<1>10. CASE Retires(o)
  <2>1. queue' = Put(queue, o, NewQueue)
    BY <1>10 DEF HandleNext, Put
  <2>2. q.commands = <<>> /\ p = NoOperation
    <3>1. q.pending = 0
      BY <1>1, <1>10 DEF Retires
    <3> QED
      BY <1>2, <3>1, EmptyQueue DEF OpOK
  <2>3. StartOf(p, q2) = NoOperation
    BY <1>5, <2>2 DEF StartOf, Starts
  <2>4. \A k, i, e : ~EntryAt(NewQueue, NoOperation, k, i, e)
    BY NewObject
  <2>5. Onward(op[o], NoOperation)
    BY <1>1, <2>2 DEF Onward
  <2> QED
    BY <1>8, <1>9, <2>1, <2>3, <2>4, <2>5, QueueGoes
<1>11. CASE ~Retires(o)
  <2>1. queue' = Put(queue, o, Pumped(q2))
    BY <1>1, <1>4, <1>11 DEF HandleNext, Put
  <2>2. Moved(q, p, q2, p)
    BY <1>3, <1>5, <1>6, MovedTail
  <2> QED
    BY <1>1, <1>5, <1>7, <1>8, <1>9, <2>1, <2>2, PumpedGoes
<1> QED
  BY <1>10, <1>11

LEMMA HandleResumeGoes ==
  ASSUME DispatchInv, DispatchInv', OrderInv, NEW o \in Objs, HandleResume(o)
  PROVE  OrderInv'
<1>1. PICK q, p : q = queue[o] /\ p = op[o]
  OBVIOUS
<1>2. /\ QueueOK(q) /\ ResumesOK(q, p) /\ OpOK(o, p)
      /\ DOMAIN queue = Objs /\ DOMAIN op = Objs
  BY <1>1, WholeAt DEF DispatchInv
<1>3. q.strand # <<>> /\ Head(q.strand).type = "resume"
  BY <1>1 DEF HandleResume, NextHandler
<1>4. PICK q2 : q2 = [q EXCEPT !.strand = Tail(@)]
  OBVIOUS
<1>5. q2.strand = Tail(q.strand) /\ q2.commands = q.commands
  BY <1>2, <1>4 DEF QueueOK, QueueFields
<1>6. IsSeq(q.strand) /\ IsSeq(q.commands)
  BY <1>2 DEF QueueOK
<1>7. p.pc = "await" /\ Head(q.strand).token = Current(q)
  BY <1>2, <1>3, <1>6, TailIs DEF ResumesOK
<1>8. PICK p2 : p2 = [p EXCEPT !.pc = p.cont]
  OBVIOUS
<1>9. DOMAIN p = OpFields /\ p.cont \in {"resolved", "work", "finish"}
  BY <1>2, <1>7 DEF OpOK
<1>10. p2.pc = p.cont /\ p2.cont = p.cont /\ p2.entry = p.entry
  BY <1>8, <1>9 DEF OpFields
<1>11. Running(p) /\ Running(p2)
  BY <1>7, <1>9, <1>10 DEF Running
<1>12. Waiting(p2) => Waiting(p)
  BY <1>7, <1>9, <1>10 DEF Waiting, Routing
<1>13. Onward(p, p2)
  BY <1>10, <1>12 DEF Onward
<1>14. Moved(q, p, q2, p2)
  BY <1>3, <1>5, <1>6, <1>10, <1>11, MovedTail
<1>15. queue' = Put(queue, o, q2)
  BY <1>1, <1>2, <1>4 DEF HandleResume, Put, QueueOK, QueueFields
<1>16. op' = Put(op, o, p2)
  <2>1. Matches(o, Head(queue[o].strand).token)
    BY <1>1, <1>7 DEF Matches, Current
  <2> QED
    BY <1>1, <1>2, <1>8, <1>9, <2>1 DEF HandleResume, Put, OpFields
<1>17. UNCHANGED <<posted, handled>>
  BY DEF HandleResume, ioVars
<1>18. /\ op'[o] = p2 /\ queue'[o] = q2
       /\ \A x \in Objs : x # o => queue'[x] = queue[x] /\ op'[x] = op[x]
  BY <1>2, <1>15, <1>16, PutIs
<1> QED
  BY <1>1, <1>13, <1>14, <1>17, <1>18, OneGoes

LEMMA SubmitTaskGoes ==
  ASSUME DispatchInv, DispatchInv', OrderInv, NEW o \in Objs, SubmitTask(o)
  PROVE  OrderInv'
<1>1. PICK q, p : q = queue[o] /\ p = op[o]
  OBVIOUS
<1>2. QueueOK(q) /\ OpOK(o, p) /\ DOMAIN queue = Objs /\ DOMAIN op = Objs
  BY <1>1, WholeAt DEF DispatchInv
<1>3. p.pc = "submit" /\ DOMAIN p = OpFields
  BY <1>1, <1>2 DEF SubmitTask, OpOK
<1>4. PICK tk : tk = [id |-> q.active, phase |-> q.phase + 1]
  OBVIOUS
<1>5. PICK q2 : q2 = [q EXCEPT !.phase = tk.phase, !.token = tk]
  OBVIOUS
<1>6. q2.strand = q.strand /\ q2.commands = q.commands
  BY <1>2, <1>5 DEF QueueOK, QueueFields
<1>7. PICK p2 : p2 = [p EXCEPT !.pc = "await"]
  OBVIOUS
<1>8. p2.pc = "await" /\ p2.cont = p.cont /\ p2.entry = p.entry
  BY <1>3, <1>7 DEF OpFields
<1>9. queue' = Put(queue, o, q2)
  BY <1>1, <1>2, <1>4, <1>5 DEF SubmitTask, Put, QueueOK, QueueFields
<1>10. op' = Put(op, o, p2)
  BY <1>1, <1>2, <1>3, <1>7 DEF SubmitTask, Put, OpFields
<1>11. Running(p)
  BY <1>3 DEF Running
<1>12. Waiting(p2) => Waiting(p)
  BY <1>3, <1>8 DEF Waiting, Routing
<1>13. Onward(p, p2)
  BY <1>8, <1>12 DEF Onward
<1>14. \A k, i, e : EntryAt(q2, p2, k, i, e) => EntryAt(q, p, k, i, e)
  BY <1>6, <1>8, <1>11 DEF EntryAt
<1>15. UNCHANGED <<posted, handled>>
  BY DEF SubmitTask, ioVars
<1> QED
  BY <1>1, <1>9, <1>10, <1>13, <1>14, <1>15, QueueGoes

(* A handler that brings no command is posted.                             *)
Told(q, q2) ==
    /\ q2.commands = q.commands
    /\ \E h : h.type # "push" /\ q2.strand = Append(q.strand, h)

LEMMA PostedGoes ==
  ASSUME NEW q, QueueOK(q), NEW q2, Told(q, q2), NEW p, NEW p2,
         Running(p2) => Running(p) /\ p2.entry = p.entry
  PROVE  \A k, i, e : EntryAt(q2, p2, k, i, e) => EntryAt(q, p, k, i, e)
<1> SUFFICES ASSUME NEW k, NEW i, NEW e, EntryAt(q2, p2, k, i, e)
             PROVE  EntryAt(q, p, k, i, e)
  OBVIOUS
<1>1. PICK s, u : s = q.strand /\ u = q2.strand
  OBVIOUS
<1>a. PICK h : h.type # "push" /\ q2.strand = Append(q.strand, h)
  BY DEF Told
<1>2. IsSeq(s) /\ u = Append(s, h)
  BY <1>1, <1>a DEF QueueOK
<1>3. /\ Len(s) \in Nat /\ Len(u) = Len(s) + 1 /\ u[Len(s) + 1] = h
      /\ \A j \in 1 .. Len(s) : u[j] = s[j]
  BY <1>2, AppendIs
<1>4. CASE k = "strand"
  <2>1. i \in 1 .. Len(u) /\ u[i].type = "push" /\ e = u[i].entry
    BY <1>1, <1>4 DEF EntryAt, Having
  <2>2. i \in 1 .. Len(s) /\ u[i] = s[i]
    BY <1>3, <1>a, <2>1
  <2> QED
    BY <1>1, <1>4, <2>1, <2>2 DEF EntryAt, Having
<1>5. CASE k # "strand"
  BY <1>5 DEF EntryAt, Told
<1> QED
  BY <1>4, <1>5

LEMMA CompleteTaskGoes ==
  ASSUME DispatchInv, DispatchInv', OrderInv, NEW th \in Threads, CompleteTask(th)
  PROVE  OrderInv'
<1>1. PICK o : o = task[th]
  OBVIOUS
<1>2. o \in awaiting
  BY <1>1, PoolComplete DEF CompleteTask, DispatchInv
<1>3. o \in Objs
  BY <1>2 DEF DispatchInv, Whole, PoolUse
<1>4. PICK q, p : q = queue[o] /\ p = op[o]
  OBVIOUS
<1>5. QueueOK(q) /\ DOMAIN queue = Objs /\ DOMAIN op = Objs /\ Fcn(op)
  BY <1>3, <1>4, WholeAt DEF DispatchInv
<1>6. PICK h : h = Resume(q.token)
  OBVIOUS
<1>7. PICK q2 : q2 = [q EXCEPT !.strand = Append(@, h)]
  OBVIOUS
<1>8. q2.strand = Append(q.strand, h) /\ q2.commands = q.commands
  BY <1>5, <1>7 DEF QueueOK, QueueFields
<1>9. Told(q, q2)
  BY <1>6, <1>8 DEF Resume, Told
<1>10. \A k, i, e : EntryAt(q2, p, k, i, e) => EntryAt(q, p, k, i, e)
  BY <1>5, <1>9, PostedGoes
<1>11. queue' = Put(queue, o, q2)
  BY <1>1, <1>4, <1>5, <1>6, <1>7 DEF CompleteTask, Put, QueueOK, QueueFields
<1>12. op' = Put(op, o, p)
  <2>1. op' = op
    BY DEF CompleteTask
  <2> QED
    BY <1>3, <1>4, <1>5, <2>1, PutSame
<1>13. Onward(p, p)
  BY DEF Onward
<1>14. UNCHANGED <<posted, handled>>
  BY DEF CompleteTask, ioVars
<1> QED
  BY <1>3, <1>4, <1>10, <1>11, <1>12, <1>13, <1>14, QueueGoes

LEMMA UnpendGoes ==
  ASSUME DispatchInv, DispatchInv', OrderInv, NEW o \in Objs, Unpend(o)
  PROVE  OrderInv'
<1>1. PICK q, p : q = queue[o] /\ p = op[o]
  OBVIOUS
<1>2. QueueOK(q) /\ DOMAIN queue = Objs /\ DOMAIN op = Objs
  BY <1>1, WholeAt DEF DispatchInv
<1>3. ~Running(NoOperation)
  BY DEF NoOperation, Running
<1>4. PICK q2 : q2 = [q EXCEPT !.pending = @ - 1, !.strand = Append(@, AfterDone)]
  OBVIOUS
<1>5. q2.strand = Append(q.strand, AfterDone) /\ q2.commands = q.commands
  BY <1>2, <1>4 DEF QueueOK, QueueFields
<1>6. Told(q, q2)
  BY <1>5 DEF AfterDone, Told
<1>7. \A k, i, e : EntryAt(q2, NoOperation, k, i, e) => EntryAt(q, p, k, i, e)
  BY <1>2, <1>3, <1>6, PostedGoes
<1>8. queue' = Put(queue, o, q2)
  BY <1>1, <1>2, <1>4 DEF Unpend, Put, QueueOK, QueueFields
<1>9. op' = Put(op, o, NoOperation)
  BY DEF Unpend, Put
<1>10. Onward(p, NoOperation)
  BY <1>3 DEF Onward
<1>11. UNCHANGED <<posted, handled>>
  BY DEF Unpend, ioVars
<1> QED
  BY <1>1, <1>7, <1>8, <1>9, <1>10, <1>11, QueueGoes

LEMMA FinishGoes ==
  ASSUME DispatchInv, DispatchInv', OrderInv, NEW o \in Objs, Finish(o)
  PROVE  OrderInv'
<1>1. Whole(queue, op, holders, awaiting, registry, meeting, occupied, scheduled)
  BY DEF DispatchInv
<1>2. /\ DOMAIN queue = Objs /\ DOMAIN op = Objs /\ OpOK(o, op[o]) /\ QueueOK(queue[o])
  BY <1>1, WholeAt
<1>3. op[o].pc = "finish" /\ Running(op[o]) /\ ~WaitsForRoom(op[o])
  BY DEF Finish, Running, WaitsForRoom
<1>4. PICK q : q = [queue[o] EXCEPT !.active = 0]
  OBVIOUS
<1>5. PICK p : p = [op[o] EXCEPT !.pc = "unpend"]
  OBVIOUS
<1>6. q.strand = queue[o].strand /\ q.commands = queue[o].commands
  BY <1>2, <1>4 DEF QueueOK, QueueFields
<1>7. ~Running(p)
  BY <1>2, <1>5 DEF Running, OpOK, OpFields
<1>8. PICK qm : qm = Put(queue, o, q)
  OBVIOUS
<1>9. op' = Put(op, o, p)
  BY <1>2, <1>5 DEF Finish, Put, OpOK, OpFields
<1>10. PICK w : w = op[o].entry.waiter
  OBVIOUS
<1>11. queue' = IF w = NoWaiter THEN qm
                ELSE [qm EXCEPT ![w.obj].strand = Append(@, Resume(w.token))]
  <2>1. qm = [queue EXCEPT ![o].active = 0]
    BY <1>2, <1>4, <1>8 DEF Put, QueueOK, QueueFields
  <2> QED
    BY <1>10, <2>1 DEF Finish, Entry
<1>12. UNCHANGED <<posted, handled>>
  BY DEF Finish, ioVars
<1>13. \A k, i, e : EntryAt(q, p, k, i, e) => EntryAt(queue[o], op[o], k, i, e)
  BY <1>6, <1>7 DEF EntryAt
<1>14. Onward(op[o], p)
  BY <1>7 DEF Onward
<1>15. CASE w = NoWaiter
  BY <1>8, <1>9, <1>11, <1>12, <1>13, <1>14, <1>15, QueueGoes
<1>16. CASE w # NoWaiter
  <2>1. Awaited(queue, op, w)
    BY <1>1, <1>3, <1>10, <1>16, EntryOf
  <2>2. PICK x : x = w.obj
    OBVIOUS
  <2>3. x \in Objs /\ x # o
    BY <1>3, <2>1, <2>2 DEF Awaited
  <2>4. /\ qm[o] = q /\ op'[o] = p /\ DOMAIN qm = Objs
        /\ \A y \in Objs : y # o => qm[y] = queue[y] /\ op'[y] = op[y]
    BY <1>2, <1>8, <1>9, PutIs
  <2>5. QueueOK(queue[x])
    BY <1>1, <2>3, WholeAt
  <2>6. PICK h, q3 : h = Resume(w.token) /\ q3 = [queue[x] EXCEPT !.strand = Append(@, h)]
    OBVIOUS
  <2>7. queue' = Put(qm, x, q3)
    BY <1>11, <1>16, <2>2, <2>3, <2>4, <2>5, <2>6 DEF Put, QueueOK, QueueFields
  <2>8. /\ queue'[x] = q3 /\ queue'[o] = q
        /\ \A y \in Objs : y # x /\ y # o => queue'[y] = queue[y]
    BY <2>3, <2>4, <2>7, PutIs
  <2>9. q3.strand = Append(queue[x].strand, h) /\ q3.commands = queue[x].commands
    BY <2>5, <2>6 DEF QueueOK, QueueFields
  <2>10. Told(queue[x], q3)
    BY <2>6, <2>9 DEF Resume, Told
  <2>11. \A k, i, e : EntryAt(q3, op[x], k, i, e) => EntryAt(queue[x], op[x], k, i, e)
    BY <2>5, <2>10, PostedGoes
  <2>12. Moved(queue[o], op[o], q, p)
    <3>1. IsSeq(q.strand) /\ IsSeq(q.commands)
      BY <1>2, <1>6 DEF QueueOK
    <3> QED
      BY <1>13, <3>1, MovedWithin
  <2>13. Moved(queue[x], op[x], q3, op[x])
    <3>1. IsSeq(q3.strand) /\ IsSeq(q3.commands)
      BY <2>5, <2>9, AppendIs DEF QueueOK
    <3> QED
      BY <2>11, <3>1, MovedWithin
  <2>14. ASSUME NEW y \in Objs
         PROVE  Moved(queue[y], op[y], queue'[y], op'[y]) /\ Onward(op[y], op'[y])
    <3>1. CASE y = o
      BY <1>14, <2>4, <2>8, <2>12, <3>1
    <3>2. CASE y = x
      <4>1. op'[x] = op[x]
        BY <2>3, <2>4
      <4>2. Onward(op[x], op[x])
        BY DEF Onward
      <4> QED
        BY <2>8, <2>13, <3>2, <4>1, <4>2
    <3>3. CASE y # o /\ y # x
      <4>1. QueueOK(queue[y])
        BY <1>1, WholeAt
      <4>2. Moved(queue[y], op[y], queue[y], op[y]) /\ Onward(op[y], op[y])
        BY <4>1, Stays
      <4> QED
        BY <2>4, <2>8, <3>3, <4>2
    <3> QED
      BY <3>1, <3>2, <3>3
  <2> QED
    BY <1>12, <2>14, Goes
<1> QED
  BY <1>15, <1>16

-----------------------------------------------------------------------------
(* A command is entered                                                    *)

LEMMA MorePosted ==
  ASSUME NEW qs, NEW ps, NEW post, NEW done, Ordered(qs, ps, post, done), Lines(qs, ps),
         NEW post2 \in [Conns -> Nat], \A c \in Conns : post[c] <= post2[c]
  PROVE  Ordered(qs, ps, post2, done)
<1>1. ASSUME NEW o \in Objs, NEW k, NEW i, NEW e, EntryAt(qs[o], ps[o], k, i, e)
      PROVE  Home(o, e, ps) /\ Numbered(k, ps[o], e, post2, done)
  <2>1. Home(o, e, ps) /\ Numbered(k, ps[o], e, post, done)
    BY <1>1 DEF Ordered
  <2>2. EntryOK(e)
    BY <1>1 DEF Lines
  <2>3. ASSUME e.conn # None PROVE e.conn \in Conns
    BY <2>2, <2>3 DEF EntryOK
  <2>4. ASSUME e.conn # None PROVE e.no \in Nat /\ e.no <= post2[e.conn]
    <3>1. e.no \in Nat /\ e.no <= post[e.conn]
      BY <2>1, <2>4 DEF Numbered
    <3>2. post[e.conn] \in Nat /\ post2[e.conn] \in Nat /\ post[e.conn] <= post2[e.conn]
      BY <2>3, <2>4 DEF Ordered
    <3> QED
      BY <3>1, <3>2
  <2> QED
    BY <2>1, <2>4 DEF Numbered
<1>2. \A c \in Conns : done[c] <= post2[c]
  <2>1. ASSUME NEW c \in Conns PROVE done[c] <= post2[c]
    <3>1. done[c] <= post[c] /\ done[c] \in Nat /\ post[c] \in Nat
      BY DEF Ordered
    <3>2. post[c] <= post2[c] /\ post2[c] \in Nat
      OBVIOUS
    <3> QED
      BY <3>1, <3>2
  <2> QED
    BY <2>1
<1> QED
  BY <1>1, <1>2 DEF Ordered

(* A command comes to the end of a queue.                                  *)
LEMMA Joins ==
  ASSUME NEW qs, NEW ps, NEW post, NEW done, Ordered(qs, ps, post, done),
         DOMAIN qs = Objs, NEW o \in Objs, ObjOK(o, qs[o], ps[o]),
         NEW e, Home(o, e, ps), Numbered("strand", ps[o], e, post, done),
         Key(o) \in Conns =>
            \A k, i, d : EntryAt(qs[o], ps[o], k, i, d) => d.no < e.no
  PROVE  Ordered(Put(qs, o, Admitted(qs[o], e)), ps, post, done)
<1>1. PICK q, p, q2 : q = qs[o] /\ p = ps[o] /\ q2 = Admitted(q, e)
  OBVIOUS
<1>2. \A k, i, d : EntryAt(q2, p, k, i, d) =>
         \/ EntryAt(q, p, k, i, d)
         \/ k = "strand" /\ i = Len(q.strand) + 1 /\ d = e
  BY <1>1, AdmittedIs
<1>3. PICK qn : qn = Put(qs, o, q2)
  OBVIOUS
<1>4. qn[o] = q2 /\ \A x \in Objs : x # o => qn[x] = qs[x]
  BY <1>3, PutIs
<1>5. ASSUME NEW x \in Objs, NEW k, NEW i, NEW d, EntryAt(qn[x], ps[x], k, i, d)
      PROVE  Home(x, d, ps) /\ Numbered(k, ps[x], d, post, done)
  <2>1. CASE EntryAt(qs[x], ps[x], k, i, d)
    BY <2>1 DEF Ordered
  <2>2. CASE ~EntryAt(qs[x], ps[x], k, i, d)
    <3>1. x = o
      BY <1>4, <1>5, <2>2
    <3>2. k = "strand" /\ d = e
      BY <1>1, <1>2, <1>4, <1>5, <2>2, <3>1
    <3> QED
      BY <3>1, <3>2
  <2> QED
    BY <2>1, <2>2
<1>6. ASSUME NEW x \in Objs, Key(x) \in Conns PROVE Rising(qn[x], ps[x])
  <2>1. Rising(qs[x], ps[x])
    BY <1>6 DEF Ordered
  <2>2. CASE x # o
    BY <1>4, <2>1, <2>2
  <2>3. CASE x = o
    <3>1. IsSeq(q.strand)
      BY <1>1 DEF ObjOK, QueueOK
    <3>2. Len(q.strand) \in Nat
      BY <3>1 DEF IsSeq
    <3>3. ASSUME NEW k, NEW i, NEW l, NEW j, NEW d, NEW f, EntryAt(q2, p, k, i, d),
                 EntryAt(q2, p, l, j, f), Ahead(k, i, l, j)
          PROVE  d.no < f.no
      <4>1. CASE EntryAt(q, p, k, i, d) /\ EntryAt(q, p, l, j, f)
        BY <1>1, <2>1, <2>3, <3>3, <4>1 DEF Rising
      <4>2. CASE EntryAt(q, p, k, i, d) /\ f = e
        BY <1>1, <1>6, <2>3, <4>2
      <4>3. CASE k = "strand" /\ i = Len(q.strand) + 1
        <5>1. l = "strand" /\ i < j
          BY <3>3, <4>3 DEF Ahead
        <5>2. CASE EntryAt(q, p, l, j, f)
          <6>1. j \in 1 .. Len(q.strand)
            BY <5>1, <5>2 DEF EntryAt, Having
          <6> QED
            BY <3>2, <4>3, <5>1, <6>1
        <5>3. CASE j = Len(q.strand) + 1
          BY <3>2, <4>3, <5>1, <5>3
        <5> QED
          BY <1>2, <3>3, <5>2, <5>3
      <4> QED
        BY <1>2, <3>3, <4>1, <4>2, <4>3
    <3>4. Rising(q2, p)
      BY <3>3 DEF Rising
    <3> QED
      BY <1>1, <1>4, <2>3, <3>4
  <2> QED
    BY <2>2, <2>3
<1> QED
  BY <1>1, <1>3, <1>5, <1>6 DEF Ordered

LEMMA EnterGoes ==
  ASSUME DispatchInv, OrderInv, NEW c \in Conns, Available(c), NEW e,
         e.conn = c, e.waiter = NoWaiter, e.no = posted[c] + 1, Enter(c, e),
         posted' = [posted EXCEPT ![c] = @ + 1], UNCHANGED <<op, handled>>
  PROVE  OrderInv'
<1>1. c \in Keys
  BY DEF Keys
<1>2. PICK o : o = Lookup(c)
  OBVIOUS
<1>3. o \in Objs /\ Key(o) = c
  BY <1>1, <1>2, LookupIs
<1>4. PICK post2 : post2 = [posted EXCEPT ![c] = @ + 1]
  OBVIOUS
<1>5. Ordered(queue, op, posted, handled) /\ posted \in [Conns -> Nat]
      /\ handled \in [Conns -> Nat] /\ handled[c] <= posted[c]
  BY DEF OrderInv, Ordered
<1>6. post2 \in [Conns -> Nat] /\ \A x \in Conns : posted[x] <= post2[x]
  BY <1>4, <1>5
<1>7. Lines(queue, op)
  BY DEF DispatchInv, Whole
<1>8. Ordered(queue, op, post2, handled)
  BY <1>5, <1>6, <1>7, MorePosted
<1>9. ObjOK(o, queue[o], op[o]) /\ DOMAIN queue = Objs
  BY <1>3 DEF DispatchInv, Whole, ObjsOK
<1>10. CASE Admits(o, e)
  <2>1. queue' = Put(queue, o, Admitted(queue[o], e))
    BY <1>2, <1>10 DEF Enter, Put
  <2>2. Home(o, e, op)
    BY <1>3, KeysAssumption DEF Home
  <2>3. Numbered("strand", op[o], e, post2, handled)
    <3>1. e.no \in Nat /\ e.no <= post2[c] /\ e.no > handled[c]
      <4>1. posted[c] \in Nat /\ handled[c] \in Nat /\ post2[c] = posted[c] + 1
        BY <1>4, <1>5
      <4> QED
        BY <1>5, <4>1
    <3> QED
      BY <3>1 DEF Numbered
  <2>4. ASSUME NEW k, NEW i, NEW d, EntryAt(queue[o], op[o], k, i, d)
        PROVE  d.no < e.no
    <3>1. d.conn = c
      BY <1>3, <1>5, <2>4 DEF Ordered, Home
    <3>2. d.conn # None
      BY <3>1, <1>1, KeysAssumption
    <3>3. d.no \in Nat /\ d.no <= posted[c]
      BY <1>3, <1>5, <2>4, <3>1, <3>2 DEF Ordered, Numbered
    <3> QED
      BY <1>5, <3>3
  <2>5. Ordered(Put(queue, o, Admitted(queue[o], e)), op, post2, handled)
    BY <1>3, <1>8, <1>9, <2>2, <2>3, <2>4, Joins
  <2> QED
    BY <1>4, <2>1, <2>5 DEF OrderInv
<1>11. CASE ~Admits(o, e)
  <2>1. queue' = queue
    BY <1>2, <1>11 DEF Enter
  <2> QED
    BY <1>4, <1>8, <2>1 DEF OrderInv
<1> QED
  BY <1>10, <1>11

LEMMA PostGoes ==
  ASSUME DispatchInv, OrderInv, NEW c \in Conns,
         (\E kind \in Kinds, r \in Rooms : PostMsgToQue(c, kind, r)) \/ PostSessionDisconnected(c)
  PROVE  OrderInv'
<1>1. ASSUME NEW kind, NEW r, Available(c), Enter(c, Request(c, kind, r)),
             posted' = [posted EXCEPT ![c] = @ + 1], UNCHANGED <<op, handled>>
      PROVE  OrderInv'
  <2>1. PICK e : e = Request(c, kind, r)
    OBVIOUS
  <2>2. e.conn = c /\ e.waiter = NoWaiter /\ e.no = posted[c] + 1
    BY <2>1 DEF Request
  <2> QED
    BY <1>1, <2>1, <2>2, EnterGoes
<1>2. ASSUME NEW kind \in Kinds, NEW r \in Rooms, PostMsgToQue(c, kind, r) PROVE OrderInv'
  BY <1>1, <1>2 DEF PostMsgToQue
<1>3. ASSUME PostSessionDisconnected(c) PROVE OrderInv'
  BY <1>1, <1>3 DEF PostSessionDisconnected
<1> QED
  BY <1>2, <1>3

LEMMA ScanGoes ==
  ASSUME DispatchInv, OrderInv, NEW r \in Rooms, PostReconnectTimeoutCheck(r)
  PROVE  OrderInv'
<1>1. PICK o : o = <<Timer, 1>>
  OBVIOUS
<1>2. o \in Objs /\ Key(o) = Timer /\ registry[Timer] = o /\ Timer \notin Conns \cup Rooms
  BY <1>1, DispatchAssumption, KeysAssumption DEF DispatchInv, Whole, Objs, Key, Keys, Registered
<1>3. PICK e : e = [NoEntry EXCEPT !.kind = "scan", !.room = r]
  OBVIOUS
<1>4. e.conn = None
  BY <1>3 DEF NoEntry
<1>5. queue' = Put(queue, o, Admitted(queue[o], e))
  BY <1>2, <1>3 DEF PostReconnectTimeoutCheck, Put
<1>6. Home(o, e, op) /\ Numbered("strand", op[o], e, posted, handled)
  BY <1>2, <1>4 DEF Home, Numbered
<1>7. ObjOK(o, queue[o], op[o]) /\ DOMAIN queue = Objs
  BY <1>2 DEF DispatchInv, Whole, ObjsOK
<1>8. Ordered(Put(queue, o, Admitted(queue[o], e)), op, posted, handled)
  BY <1>2, <1>6, <1>7, Joins DEF OrderInv
<1>9. UNCHANGED <<op, posted, handled>>
  BY DEF PostReconnectTimeoutCheck
<1> QED
  BY <1>5, <1>8, <1>9 DEF OrderInv

LEMMA SubmitRoomGoes ==
  ASSUME DispatchInv, OrderInv, NEW o \in Objs, SubmitRoom(o)
  PROVE  OrderInv'
<1>1. Whole(queue, op, holders, awaiting, registry, meeting, occupied, scheduled)
  BY DEF DispatchInv
<1>2. PICK k, x : k = op[o].target /\ x = Lookup(k)
  OBVIOUS
<1>3. PICK waits \in BOOLEAN : waits <=> Key(o) # Timer
  OBVIOUS
<1>4. PICK tk : tk = [id |-> queue[o].active, phase |-> queue[o].phase + 1]
  OBVIOUS
<1>5. PICK e : e = [Entry(o) EXCEPT !.waiter = IF waits THEN [obj |-> o, token |-> tk]
                                               ELSE NoWaiter]
  OBVIOUS
<1>6. PICK resumed \in BOOLEAN : resumed <=> waits /\ ~Admits(x, e)
  OBVIOUS
<1>7. PICK q : q = [queue[o] EXCEPT !.phase = IF waits THEN tk.phase ELSE @,
                                    !.strand = IF resumed THEN Append(@, Resume(tk)) ELSE @]
  OBVIOUS
<1>8. PICK p : p = [op[o] EXCEPT !.pc = IF waits THEN "await" ELSE "finish", !.cont = "finish"]
  OBVIOUS
<1>9. op[o].pc = "toRoom" /\ Available(k)
  BY <1>2 DEF SubmitRoom
<1>10. PICK qm, pm : qm = Put(queue, o, q) /\ pm = Put(op, o, p)
  OBVIOUS
<1>11. /\ QueueOK(queue[o]) /\ OpOK(o, op[o]) /\ DOMAIN queue = Objs /\ DOMAIN op = Objs
  BY <1>1, WholeAt
<1>12. /\ k \in Rooms /\ Key(o) \notin Rooms /\ DOMAIN op[o] = OpFields /\ Running(op[o])
       /\ Waiting(op[o])
  BY <1>2, <1>9, <1>11 DEF OpOK, Routing, Running, Waiting
<1>13. x \in Objs /\ Key(x) = k
  BY <1>2, <1>9, <1>12, LookupIs DEF Keys
<1>14. x # o
  BY <1>12, <1>13
<1>15. /\ qm[o] = q /\ pm[o] = p /\ DOMAIN qm = Objs
       /\ \A y \in Objs : y # o => qm[y] = queue[y] /\ pm[y] = op[y]
  BY <1>10, <1>11, PutIs
<1>16. op' = pm
  BY <1>3, <1>8, <1>10, <1>11, <1>12 DEF SubmitRoom, Put, OpFields
<1>17. UNCHANGED <<posted, handled>>
  BY DEF SubmitRoom, ioVars
<1>18. /\ q.commands = queue[o].commands
       /\ q.strand = (IF resumed THEN Append(queue[o].strand, Resume(tk)) ELSE queue[o].strand)
  BY <1>7, <1>11 DEF QueueOK, QueueFields
<1>19. p.pc \in {"await", "finish"} /\ p.cont = "finish" /\ p.entry = op[o].entry
  BY <1>8, <1>12 DEF OpFields
<1>20. Running(p) /\ ~Waiting(p)
  BY <1>19 DEF Running, Waiting, Routing
<1>21. \A l, i, d : EntryAt(q, p, l, i, d) => EntryAt(queue[o], op[o], l, i, d)
  <2>1. CASE resumed
    <3>1. Told(queue[o], q)
      BY <1>18, <2>1 DEF Told, Resume
    <3> QED
      BY <1>11, <1>12, <1>19, <3>1, PostedGoes
  <2>2. CASE ~resumed
    <3>1. q.strand = queue[o].strand
      BY <1>18, <2>2
    <3> QED
      BY <1>12, <1>18, <1>19, <3>1 DEF EntryAt
  <2> QED
    BY <2>1, <2>2
<1>22. IsSeq(q.strand) /\ IsSeq(q.commands)
  BY <1>11, <1>18, AppendIs DEF QueueOK
<1>23. Lines(queue, op) /\ Ordered(queue, op, posted, handled)
  BY <1>1 DEF Whole, OrderInv
<1>24. Served(qm, pm)
  <2>1. ASSUME NEW y \in Objs, NEW l, NEW i, NEW d, EntryAt(qm[y], pm[y], l, i, d),
               d.waiter # NoWaiter
        PROVE  Running(pm[d.waiter.obj])
    <3>1. EntryAt(queue[y], op[y], l, i, d)
      BY <1>15, <1>21, <2>1
    <3>2. d.waiter.obj \in Objs /\ WaitsForRoom(op[d.waiter.obj])
      BY <1>23, <2>1, <3>1 DEF Lines, Awaited
    <3> QED
      BY <1>9, <1>15, <3>2 DEF WaitsForRoom, Running
  <2> QED
    BY <2>1 DEF Served
<1>25. ASSUME NEW y \in Objs
       PROVE  Moved(queue[y], op[y], qm[y], pm[y]) /\ Onward(op[y], pm[y])
  <2>1. CASE y = o
    <3>1. Moved(queue[o], op[o], q, p)
      BY <1>21, <1>22, MovedWithin
    <3>2. Onward(op[o], p)
      BY <1>19, <1>20 DEF Onward
    <3> QED
      BY <1>15, <2>1, <3>1, <3>2
  <2>2. CASE y # o
    <3>1. QueueOK(queue[y])
      BY <1>1, WholeAt
    <3>2. Moved(queue[y], op[y], queue[y], op[y]) /\ Onward(op[y], op[y])
      BY <3>1, Stays
    <3> QED
      BY <1>15, <2>2, <3>2
  <2> QED
    BY <2>1, <2>2
<1>26. Ordered(qm, pm, posted, handled)
  BY <1>23, <1>24, <1>25, Advance
<1>27. CASE Admits(x, e)
  <2>1. EntryOK(op[o].entry)
    BY <1>1, <1>12, EntryOf
  <2>2. /\ e.conn = op[o].entry.conn /\ e.no = op[o].entry.no
        /\ e.waiter = (IF waits THEN [obj |-> o, token |-> tk] ELSE NoWaiter)
    BY <1>5, <2>1 DEF EntryOK, EntryFields, Entry
  <2>3. Home(o, op[o].entry, op) /\ Numbered("op", op[o], op[o].entry, posted, handled)
    <3>1. EntryAt(queue[o], op[o], "op", 0, op[o].entry)
      BY <1>12 DEF EntryAt
    <3> QED
      BY <1>23, <3>1 DEF Ordered
  <2>4. Numbered("strand", pm[x], e, posted, handled)
    BY <1>12, <2>2, <2>3 DEF Numbered, Fresh
  <2>5. Home(x, e, pm)
    <3>1. Key(x) \notin Conns /\ Key(x) # Timer
      BY <1>12, <1>13, KeysAssumption
    <3>2. ASSUME e.conn # None
          PROVE  /\ e.waiter # NoWaiter /\ Key(e.waiter.obj) = e.conn
                 /\ pm[e.waiter.obj].entry.no = e.no
      <4>1. Key(o) \in Conns
        BY <1>12, <2>2, <2>3, <3>2 DEF Home, Objs, Keys, Key
      <4>2. waits /\ Key(o) = e.conn
        BY <1>3, <2>2, <2>3, <4>1, KeysAssumption DEF Home
      <4>3. e.waiter.obj = o /\ e.waiter = [obj |-> o, token |-> tk]
        BY <2>2, <4>2
      <4>4. e.waiter # NoWaiter
        <5>1. o # None
          BY KeysAssumption
        <5>2. NoWaiter.obj = None
          BY DEF NoWaiter
        <5> QED
          BY <4>3, <5>1, <5>2
      <4> QED
        BY <1>15, <1>19, <2>2, <4>2, <4>3, <4>4
    <3> QED
      BY <3>1, <3>2 DEF Home
  <2>6. ObjOK(x, qm[x], pm[x])
    BY <1>1, <1>13, <1>14, <1>15 DEF Whole, ObjsOK
  <2>7. Key(x) \notin Conns
    BY <1>12, <1>13, KeysAssumption
  <2>8. Ordered(Put(qm, x, Admitted(qm[x], e)), pm, posted, handled)
    BY <1>13, <1>15, <1>26, <2>4, <2>5, <2>6, <2>7, Joins
  <2>9. queue' = [queue EXCEPT ![o] = q, ![x] = Admitted(@, e)]
    <3>1. \A w, a : ResumedAtOnce(w, a) <=> (w /\ ~a)
      BY DEF ResumedAtOnce
    <3> QED
      BY <1>2, <1>3, <1>4, <1>5, <1>6, <1>7, <1>27, <3>1 DEF SubmitRoom
  <2>10. queue' = Put(qm, x, Admitted(qm[x], e))
    BY <1>10, <1>11, <1>13, <1>14, <1>15, <2>9 DEF Put
  <2> QED
    BY <1>16, <1>17, <2>8, <2>10 DEF OrderInv
<1>28. CASE ~Admits(x, e)
  <2>1. queue' = [queue EXCEPT ![o] = q]
    <3>1. \A w, a : ResumedAtOnce(w, a) <=> (w /\ ~a)
      BY DEF ResumedAtOnce
    <3> QED
      BY <1>2, <1>3, <1>4, <1>5, <1>6, <1>7, <1>28, <3>1 DEF SubmitRoom
  <2>2. queue' = qm
    BY <1>10, <2>1 DEF Put
  <2> QED
    BY <1>16, <1>17, <1>26, <2>2 DEF OrderInv
<1> QED
  BY <1>27, <1>28

-----------------------------------------------------------------------------
(* A handler begins                                                        *)

(* Where there is a command of a key, there is the key's registered queue. *)
LEMMA AtWork ==
  ASSUME DispatchInv, NEW o \in Objs, NEW k, NEW i, NEW e, EntryAt(queue[o], op[o], k, i, e)
  PROVE  registry[Key(o)] = o
<1>1. PICK q, p : q = queue[o] /\ p = op[o]
  OBVIOUS
<1>2. QueueOK(q) /\ Accounted(q, p) /\ (q.pending > 0 => registry[Key(o)] = o)
  BY <1>1, WholeAt DEF DispatchInv
<1>3. q.pending # 0
  <2>1. ASSUME q.pending = 0 PROVE FALSE
    <3>1. Count(q.strand, "push") = 0 /\ q.commands = <<>> /\ p.pc = "none"
      BY <1>2, <2>1, EmptyQueue
    <3>2. \A j \in 1 .. Len(q.strand) : q.strand[j].type # "push"
      BY <1>2, <3>1, CountZero DEF QueueOK
    <3>3. Len(q.commands) = 0
      BY <3>1, EmptyStrand
    <3> QED
      BY <1>1, <3>1, <3>2, <3>3 DEF EntryAt, Having, Running
  <2> QED
    BY <2>1
<1> QED
  BY <1>2, <1>3 DEF QueueOK

(* What is awaited is the registered queue of its key.                     *)
LEMMA AwaitedAt ==
  ASSUME DispatchInv, NEW w, Awaited(queue, op, w)
  PROVE  /\ w.obj \in Objs /\ registry[Key(w.obj)] = w.obj /\ WaitsForRoom(op[w.obj])
         /\ EntryAt(queue[w.obj], op[w.obj], "op", 0, op[w.obj].entry)
<1>1. w.obj \in Objs /\ WaitsForRoom(op[w.obj])
  BY DEF Awaited
<1>2. EntryAt(queue[w.obj], op[w.obj], "op", 0, op[w.obj].entry)
  BY <1>1 DEF EntryAt, Running, WaitsForRoom
<1> QED
  BY <1>1, <1>2, AtWork

(* The other commands of a connection, when the handler of one begins:     *)
(* they were read later, or wait for this one.                             *)
LEMMA Later ==
  ASSUME DispatchInv, OrderInv, NEW o \in Objs, op[o].pc \in {"dispatch", "retry"},
         op[o].entry.conn # None,
         NEW y \in Objs, NEW k, NEW i, NEW e, EntryAt(queue[y], op[y], k, i, e),
         e.conn = op[o].entry.conn
  PROVE  \/ y = o /\ k = "op"
         \/ k # "op" /\ e.no > op[o].entry.no
         \/ k = "op" /\ WaitsForRoom(op[y])
<1>1. PICK d, c : d = op[o].entry /\ c = d.conn
  OBVIOUS
<1>2. EntryAt(queue[o], op[o], "op", 0, d)
  BY <1>1 DEF EntryAt, Running
<1>3. Ordered(queue, op, posted, handled) /\ Lines(queue, op) /\ Single(queue, op)
  BY DEF OrderInv, DispatchInv, Whole
<1>4. Home(o, d, op) /\ Home(y, e, op)
  BY <1>2, <1>3 DEF Ordered
<1>5. /\ d.waiter # NoWaiter => Awaited(queue, op, d.waiter)
      /\ e.waiter # NoWaiter => Awaited(queue, op, e.waiter)
  BY <1>2, <1>3 DEF Lines
<1>6. d.no \in Nat /\ e.no \in Nat /\ c # None /\ e.conn = c /\ e.conn # None
  BY <1>1, <1>2, <1>3 DEF Ordered, Numbered
<1>7. registry[Key(o)] = o /\ registry[Key(y)] = y
  BY <1>2, AtWork
<1>8. ~WaitsForRoom(op[o])
  BY DEF WaitsForRoom
<1>9. Key(o) \in Conns \cup Rooms /\ Key(y) \in Conns \cup Rooms
  BY <1>1, <1>4, <1>6 DEF Home, Objs, Keys, Key
<1>10. CASE Key(o) \in Conns
  <2>1. Key(o) = c
    BY <1>1, <1>4, <1>10 DEF Home
  <2>2. CASE Key(y) \in Conns
    <3>1. y = o
      BY <1>4, <1>6, <1>7, <2>1, <2>2 DEF Home
    <3>2. ASSUME k # "op" PROVE e.no > d.no
      <4>1. Ahead("op", 0, k, i)
        BY <3>2 DEF Ahead
      <4>2. d.no < e.no
        BY <1>2, <1>3, <1>10, <3>1, <4>1 DEF Ordered, Rising
      <4> QED
        BY <1>6, <4>2
    <3> QED
      BY <1>1, <3>1, <3>2
  <2>3. CASE Key(y) \in Rooms
    <3>1. e.waiter # NoWaiter /\ Key(e.waiter.obj) = c
      BY <1>4, <1>6, <2>3 DEF Home
    <3>2. e.waiter.obj = o /\ WaitsForRoom(op[o])
      BY <1>5, <1>7, <2>1, <3>1, AwaitedAt
    <3> QED
      BY <1>8, <3>2
  <2> QED
    BY <1>9, <2>2, <2>3
<1>11. CASE Key(o) \in Rooms
  <2>1. d.waiter # NoWaiter /\ Key(d.waiter.obj) = c /\ op[d.waiter.obj].entry.no = d.no
    BY <1>1, <1>4, <1>6, <1>11 DEF Home
  <2>2. PICK u : u = d.waiter.obj
    OBVIOUS
  <2>3. /\ u \in Objs /\ registry[c] = u /\ WaitsForRoom(op[u]) /\ Key(u) = c
        /\ EntryAt(queue[u], op[u], "op", 0, op[u].entry)
    BY <1>5, <2>1, <2>2, AwaitedAt
  <2>4. CASE Key(y) \in Conns
    <3>1. y = u
      BY <1>4, <1>6, <1>7, <2>3, <2>4 DEF Home
    <3>2. ASSUME k # "op" PROVE e.no > d.no
      <4>1. Ahead("op", 0, k, i)
        BY <3>2 DEF Ahead
      <4>2. op[u].entry.no < e.no
        BY <1>3, <2>3, <2>4, <3>1, <4>1 DEF Ordered, Rising
      <4> QED
        BY <1>6, <2>1, <2>2, <4>2
    <3> QED
      BY <1>1, <2>3, <3>1, <3>2
  <2>5. CASE Key(y) \in Rooms
    <3>1. e.waiter # NoWaiter /\ Key(e.waiter.obj) = c
      BY <1>4, <1>6, <2>5 DEF Home
    <3>2. e.waiter.obj = u
      BY <1>5, <2>3, <3>1, AwaitedAt
    <3>3. y = o /\ k = "op"
      BY <1>2, <1>3, <2>1, <2>2, <3>1, <3>2 DEF Single
    <3> QED
      BY <3>3
  <2> QED
    BY <1>9, <2>4, <2>5
<1> QED
  BY <1>9, <1>10, <1>11

(* The command whose handler begins is the connection's latest.            *)
LEMMA Begins ==
  ASSUME DispatchInv, OrderInv, NEW o \in Objs, op[o].pc \in {"dispatch", "retry"},
         NEW c, c = op[o].entry.conn, c # None
  PROVE  /\ c \in Conns /\ op[o].entry.no \in Nat /\ op[o].entry.no <= posted[c]
         /\ op[o].entry.no > handled[c]
<1>1. Running(op[o]) /\ Waiting(op[o])
  BY DEF Running, Waiting
<1>2. EntryAt(queue[o], op[o], "op", 0, op[o].entry)
  BY <1>1 DEF EntryAt
<1>3. EntryOK(op[o].entry) /\ Numbered("op", op[o], op[o].entry, posted, handled)
  BY <1>2 DEF DispatchInv, Whole, Lines, OrderInv, Ordered
<1> QED
  BY <1>1, <1>3 DEF EntryOK, Numbered, Fresh

LEMMA BeginGoes ==
  ASSUME DispatchInv, OrderInv, NEW o \in Objs, op[o].pc \in {"dispatch", "retry"},
         NEW c, c = op[o].entry.conn, c # None,
         op' = [op EXCEPT ![o].pc = "work"], handled' = [handled EXCEPT ![c] = op[o].entry.no],
         UNCHANGED <<queue, posted>>
  PROVE  OrderInv'
<1>1. /\ c \in Conns /\ op[o].entry.no \in Nat /\ op[o].entry.no <= posted[c]
      /\ op[o].entry.no > handled[c]
  BY Begins
<1>2. PICK p, p2 : p = op[o] /\ p2 = [p EXCEPT !.pc = "work"]
  OBVIOUS
<1>3. DOMAIN op = Objs /\ DOMAIN p = OpFields
  BY <1>2, OpFacts
<1>4. p2.pc = "work" /\ p2.entry = p.entry
  BY <1>2, <1>3 DEF OpFields
<1>5. op' = Put(op, o, p2)
  BY <1>2, <1>3 DEF Put, OpFields
<1>6. op'[o] = p2 /\ \A x \in Objs : x # o => op'[x] = op[x]
  BY <1>3, <1>5, PutIs
<1>7. Running(p) /\ Running(p2) /\ ~Waiting(p2)
  BY <1>2, <1>4 DEF Running, Waiting, Routing
<1>8. Ordered(queue, op, posted, handled) /\ posted \in [Conns -> Nat]
      /\ handled \in [Conns -> Nat] /\ \A x \in Conns : handled[x] <= posted[x]
  BY DEF OrderInv, Ordered
<1>9. PICK ps, done : ps = op' /\ done = handled'
  OBVIOUS
<1>10. /\ done \in [Conns -> Nat] /\ done[c] = op[o].entry.no
       /\ \A x \in Conns : x # c => done[x] = handled[x]
  BY <1>1, <1>8, <1>9
<1>11. \A x \in Conns : done[x] <= posted[x]
  BY <1>1, <1>8, <1>10
<1>12. ASSUME NEW y \in Objs, NEW k, NEW i, NEW e, EntryAt(queue[y], ps[y], k, i, e)
       PROVE  EntryAt(queue[y], op[y], k, i, e)
  <2>1. CASE y = o
    BY <1>2, <1>4, <1>6, <1>7, <1>9, <1>12, <2>1 DEF EntryAt
  <2>2. CASE y # o
    BY <1>6, <1>9, <1>12, <2>2
  <2> QED
    BY <2>1, <2>2
<1>13. ASSUME NEW y \in Objs, NEW k, NEW i, NEW e, EntryAt(queue[y], ps[y], k, i, e)
       PROVE  Home(y, e, ps) /\ Numbered(k, ps[y], e, posted, done)
  <2>1. EntryAt(queue[y], op[y], k, i, e)
    BY <1>12, <1>13
  <2>2. Home(y, e, op) /\ Numbered(k, op[y], e, posted, handled)
    BY <1>8, <2>1 DEF Ordered
  <2>3. EntryOK(e) /\ (e.waiter # NoWaiter => Awaited(queue, op, e.waiter))
    BY <2>1 DEF DispatchInv, Whole, Lines
  <2>4. e.waiter # NoWaiter => ps[e.waiter.obj].entry = op[e.waiter.obj].entry
    BY <1>2, <1>4, <1>6, <1>9, <2>3 DEF Awaited
  <2>5. Home(y, e, ps)
    BY <2>2, <2>4 DEF Home
  <2>6. ASSUME e.conn # None, Fresh(k, ps[y]) PROVE e.no > done[e.conn]
    <3>1. Fresh(k, op[y]) /\ ~(y = o /\ k = "op")
      BY <1>6, <1>7, <1>9, <2>6, <1>2 DEF Fresh, Waiting
    <3>2. e.no \in Nat /\ e.no > handled[e.conn]
      BY <2>2, <2>6, <3>1 DEF Numbered
    <3>3. e.conn \in Conns
      BY <2>3, <2>6 DEF EntryOK
    <3>4. CASE e.conn = c
      <4>1. ~(k = "op" /\ WaitsForRoom(op[y]))
        BY <3>1 DEF Fresh, Waiting, Routing, WaitsForRoom
      <4>2. e.no > op[o].entry.no
        BY <2>1, <3>1, <3>4, <4>1, Later
      <4> QED
        BY <1>10, <3>4, <4>2
    <3>5. CASE e.conn # c
      BY <1>10, <3>2, <3>3, <3>5
    <3> QED
      BY <3>4, <3>5
  <2>7. Numbered(k, ps[y], e, posted, done)
    BY <2>2, <2>6 DEF Numbered
  <2> QED
    BY <2>5, <2>7
<1>14. ASSUME NEW y \in Objs, Key(y) \in Conns PROVE Rising(queue[y], ps[y])
  <2>1. Rising(queue[y], op[y])
    BY <1>8, <1>14 DEF Ordered
  <2> QED
    BY <1>12, <2>1 DEF Rising
<1>15. Ordered(queue, ps, posted, done)
  BY <1>8, <1>10, <1>11, <1>13, <1>14 DEF Ordered
<1> QED
  BY <1>9, <1>15 DEF OrderInv

LEMMA DispatchReservesGoes ==
  ASSUME DispatchInv, DispatchInv', OrderInv, NEW o \in Objs, DispatchReserves(o)
  PROVE  OrderInv'
<1>1. op[o].pc \in {"dispatch", "retry"} /\ UNCHANGED <<queue, posted>>
  BY DEF DispatchReserves, ioVars
<1>2. Running(op[o]) /\ Waiting(op[o])
  BY <1>1 DEF Running, Waiting
<1>3. CASE Gets(o, "work") /\ handled' = handled
  BY <1>1, <1>2, <1>3, PcGoes
<1>4. CASE /\ op' = [op EXCEPT ![o].pc = "work"] /\ op[o].entry.conn # None
           /\ handled' = [handled EXCEPT ![op[o].entry.conn] = op[o].entry.no]
  BY <1>1, <1>4, BeginGoes
<1>5. CASE (Gets(o, "retry") \/ Gets(o, "finish")) /\ handled' = handled
  <2>1. CASE Gets(o, "retry")
    BY <1>1, <1>2, <1>5, <2>1, PcGoes
  <2>2. CASE Gets(o, "finish")
    BY <1>1, <1>2, <1>5, <2>2, PcGoes
  <2> QED
    BY <1>5, <2>1, <2>2
<1>6. (op' = [op EXCEPT ![o].pc = "work"]
          /\ handled' = IF Entry(o).conn = None THEN handled
                        ELSE [handled EXCEPT ![Entry(o).conn] = Entry(o).no])
      \/ (op' = [op EXCEPT ![o].pc = IF Terminal(Entry(o)) THEN "retry" ELSE "finish"]
          /\ handled' = handled)
  BY DEF DispatchReserves
<1> QED
  BY <1>3, <1>4, <1>5, <1>6 DEF Gets, Entry

LEMMA InitOrdered == Init => OrderInv
<1> SUFFICES ASSUME Init PROVE OrderInv
  OBVIOUS
<1>1. /\ queue = [o \in Objs |-> NewQueue] /\ op = [o \in Objs |-> NoOperation]
      /\ posted = [c \in Conns |-> 0] /\ handled = [c \in Conns |-> 0]
  BY DEF Init
<1>2. \A o \in Objs : \A k, i, e : ~EntryAt(queue[o], op[o], k, i, e)
  BY <1>1, NewObject
<1>3. \A o \in Objs : Rising(queue[o], op[o])
  BY <1>2 DEF Rising
<1> QED
  BY <1>1, <1>2, <1>3 DEF OrderInv, Ordered

LEMMA StrandGoes ==
  ASSUME DispatchInv, DispatchInv', OrderInv, NEW o \in Objs, Strand(o)
  PROVE  OrderInv'
BY HandlePushGoes, HandleResumeGoes, HandleNextGoes, StartGoes, ResolveGoes, SubmitTaskGoes,
   QuietGoes, SubmitRoomGoes, DispatchReservesGoes, HandlerAwaitsGoes, FinishGoes, UnpendGoes
   DEF Strand

LEMMA OrderSame ==
  ASSUME OrderInv, UNCHANGED <<queue, op, posted, handled>>
  PROVE  OrderInv'
BY DEF OrderInv

LEMMA OrderStep == DispatchInv /\ DispatchInv' /\ OrderInv /\ [Next]_vars => OrderInv'
<1> SUFFICES ASSUME DispatchInv, DispatchInv', OrderInv, [Next]_vars PROVE OrderInv'
  OBVIOUS
<1>1. ASSUME NEW c \in Conns,
             (\E kind \in Kinds, r \in Rooms : PostMsgToQue(c, kind, r)) \/ PostSessionDisconnected(c)
      PROVE  OrderInv'
  BY <1>1, PostGoes
<1>2. ASSUME NEW r \in Rooms, PostReconnectTimeoutCheck(r) PROVE OrderInv'
  BY <1>2, ScanGoes
<1>3. ASSUME NEW o \in Objs, Strand(o) PROVE OrderInv'
  BY <1>3, StrandGoes
<1>4. ASSUME NEW t \in Threads, PoolThread(t) \/ CompleteTask(t) PROVE OrderInv'
  <2>1. CASE PoolThread(t)
    BY <2>1, OrderSame DEF PoolThread, ioVars
  <2>2. CASE CompleteTask(t)
    BY <2>2, CompleteTaskGoes
  <2> QED
    BY <1>4, <2>1, <2>2
<1>5. ASSUME WaitIdleThenJoin \/ Stop \/ Terminated \/ UNCHANGED vars PROVE OrderInv'
  BY <1>5, OrderSame DEF WaitIdleThenJoin, Stop, Terminated, vars, ioVars
<1> QED
  BY <1>1, <1>2, <1>3, <1>4, <1>5 DEF Next

(* The commands of a connection stay in the order they were read in, in    *)
(* its own queue and in the meeting's queue that one of them is handed to. *)
THEOREM OrderInvariant == Spec => []OrderInv
<1>1. Init => OrderInv
  BY InitOrdered
<1>2. DispatchInv /\ DispatchInv' /\ OrderInv /\ [Next]_vars => OrderInv'
  BY OrderStep
<1> QED
  BY <1>1, <1>2, DispatchInvariant, PTL DEF Spec

(* Only the beginning of a handler changes what was handled.               *)
LEMMA HandledBy ==
  ASSUME [Next]_vars, handled' # handled
  PROVE  \E o \in Objs : /\ op[o].pc \in {"dispatch", "retry"} /\ op[o].entry.conn # None
                         /\ handled' = [handled EXCEPT ![op[o].entry.conn] = op[o].entry.no]
<1>1. ASSUME NEW c \in Conns,
             (\E kind \in Kinds, r \in Rooms : PostMsgToQue(c, kind, r)) \/ PostSessionDisconnected(c)
      PROVE  handled' = handled
  BY <1>1 DEF PostMsgToQue, PostSessionDisconnected
<1>2. ASSUME NEW r \in Rooms, PostReconnectTimeoutCheck(r) PROVE handled' = handled
  BY <1>2 DEF PostReconnectTimeoutCheck
<1>3. ASSUME NEW t \in Threads, PoolThread(t) \/ CompleteTask(t) PROVE handled' = handled
  BY <1>3 DEF PoolThread, CompleteTask
<1>4. ASSUME WaitIdleThenJoin \/ Stop \/ Terminated \/ UNCHANGED vars PROVE handled' = handled
  BY <1>4 DEF WaitIdleThenJoin, Stop, Terminated, vars
<1>5. PICK o \in Objs : Strand(o)
  BY <1>1, <1>2, <1>3, <1>4 DEF Next
<1>6. ASSUME HandlePush(o) \/ HandleResume(o) \/ HandleNext(o) \/ Start(o) \/ Resolve(o)
                \/ SubmitTask(o) \/ SubmitRoom(o) \/ HandlerAwaits(o) \/ Finish(o) \/ Unpend(o)
      PROVE  handled' = handled
  BY <1>6 DEF HandlePush, HandleResume, HandleNext, Start, Resolve, SubmitTask, SubmitRoom,
              HandlerAwaits, Finish, Unpend
<1>7. ASSUME Resolved(o) \/ RouteReleases(o) \/ DispatchDrops(o) \/ HandlerEnds(o)
      PROVE  handled' = handled
  BY <1>7 DEF Resolved, RouteReleases, DispatchDrops, HandlerEnds, Local
<1>8. DispatchReserves(o)
  BY <1>5, <1>6, <1>7 DEF Strand
<1> QED
  BY <1>8 DEF DispatchReserves, Entry

LEMMA StepInOrder ==
  DispatchInv /\ OrderInv /\ [Next]_vars =>
     [\A c \in Conns : handled'[c] # handled[c] =>
         /\ handled'[c] > handled[c]
         /\ \A o \in Objs : ~InHandler(o, c)]_vars
<1> SUFFICES ASSUME DispatchInv, OrderInv, [Next]_vars, NEW c \in Conns,
                    handled'[c] # handled[c]
             PROVE  /\ handled'[c] > handled[c]
                    /\ \A o \in Objs : ~InHandler(o, c)
  OBVIOUS
<1>1. PICK o \in Objs :
         /\ op[o].pc \in {"dispatch", "retry"} /\ op[o].entry.conn # None
         /\ handled' = [handled EXCEPT ![op[o].entry.conn] = op[o].entry.no]
  BY HandledBy
<1>2. c = op[o].entry.conn
  BY <1>1
<1>3. op[o].entry.no > handled[c] /\ c # None
  BY <1>1, <1>2, Begins
<1>4. handled'[c] = op[o].entry.no
  <2>1. handled \in [Conns -> Nat]
    BY DEF OrderInv, Ordered
  <2> QED
    BY <1>1, <1>2, <2>1
<1>5. ASSUME NEW y \in Objs, InHandler(y, c) PROVE FALSE
  <2>1. op[y].entry.conn = c /\ Running(op[y]) /\ ~WaitsForRoom(op[y]) /\ y # o
    BY <1>1, <1>5 DEF InHandler, Entry, Running, WaitsForRoom
  <2>2. EntryAt(queue[y], op[y], "op", 0, op[y].entry)
    BY <2>1 DEF EntryAt
  <2> QED
    BY <1>1, <1>2, <2>1, <2>2, Later
<1> QED
  BY <1>3, <1>4, <1>5

(* The requests of a connection are handled one at a time and in the order *)
(* they were read, although some are handled in its own queue and some in  *)
(* the queues of meetings.                                                 *)
THEOREM CommandsInOrder == Spec => ConnectionInOrder
<1>1. DispatchInv /\ OrderInv /\ [Next]_vars =>
         [\A c \in Conns : handled'[c] # handled[c] =>
             /\ handled'[c] > handled[c]
             /\ \A o \in Objs : ~InHandler(o, c)]_vars
  BY StepInOrder
<1> QED
  BY <1>1, DispatchInvariant, OrderInvariant, PTL DEF Spec, ConnectionInOrder
=============================================================================
