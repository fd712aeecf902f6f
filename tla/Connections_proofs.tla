------------------------- MODULE Connections_proofs -------------------------
(***************************************************************************)
(* Proofs about Connections, for any number of connections, any limits of  *)
(* the queues, any batch, socket buffer and budget.                        *)
(*                                                                         *)
(* ConnectionsInv is the inductive invariant.  What a session must satisfy *)
(* by itself is SessionOK, proved once for every operation on a session.   *)
(* The rest relates sessions, the wakeup list and the I/O thread: wherever *)
(* the thread is, a session with something to write is Covered, by the     *)
(* wakeup list, by the tokens the thread has taken, by the visit the       *)
(* thread is paying it, or by its EPOLLOUT registration.                   *)
(***************************************************************************)
EXTENDS Connections, Integers, WellFoundedInduction, TLAPS

Fields == {"st", "closed", "closeReq", "pending", "sendq", "offset", "frames", "bytes", "out",
           "space", "got", "asked", "inbox", "user", "hb", "seq", "late", "recheck", "ends"}

Frame == [n : Nat, len : 1..MaxPayload]

\* n is the length of the queue, by running totals that never decrease.
Totals(q, n) ==
  \E t \in [0..Len(q) -> Int] :
    /\ t[0] = 0 /\ t[Len(q)] = n
    /\ \A i \in 1..Len(q) : t[i] = t[i - 1] + q[i].len
    /\ \A i, j \in 0..Len(q) : i <= j => t[i] <= t[j]

\* The client's frames and those of the queue are the ones sent to it.
Numbered(got, q, asked) ==
  /\ got \in Seq(Nat)
  /\ asked = Len(got) + Len(q)
  /\ \A i \in 1..Len(got) : got[i] = i
  /\ \A i \in 1..Len(q) : q[i].n = Len(got) + i

InOrder(c) ==
  /\ c.sendq \in Seq(Frame) /\ c.pending \in Seq(Frame)
  /\ Numbered(c.got, c.sendq \o c.pending, c.asked)
  /\ c.frames = Len(c.sendq \o c.pending)
  /\ Totals(c.sendq \o c.pending, c.bytes)

Lived(c) ==
  /\ c.st \in {"none", "refused", "open", "gone"}
  /\ c.ends = IF c.st = "gone" THEN 1 ELSE 0
  /\ c.closed <=> c.st = "gone"

SessionOK(c) ==
  /\ DOMAIN c = Fields
  /\ Lived(c)
  /\ (c.st = "open" /\ ~c.closeReq) => InOrder(c)

-----------------------------------------------------------------------------
(* The queue of a session                                                  *)

\* Totals of the empty queue.
LEMMA TotalsEmpty == Totals(<<>>, 0)
<1> DEFINE t == [i \in 0..0 |-> 0]
<1>1. t \in [0..Len(<<>>) -> Int] /\ t[0] = 0
  OBVIOUS
<1>2. /\ Len(<<>>) = 0 /\ t[Len(<<>>)] = 0 /\ 1..Len(<<>>) = {}
      /\ \A i, j \in 0..Len(<<>>) : i <= j => t[i] <= t[j]
  OBVIOUS
<1> HIDE DEF t
<1> QED
  BY <1>1, <1>2 DEF Totals

\* A frame at the end of the queue adds its length.
LEMMA TotalsAppend ==
  ASSUME NEW q \in Seq(Frame), NEW n, Totals(q, n), NEW f \in Frame
  PROVE  Totals(Append(q, f), n + f.len)
<1>1. PICK t \in [0..Len(q) -> Int] :
        /\ t[0] = 0 /\ t[Len(q)] = n
        /\ \A i \in 1..Len(q) : t[i] = t[i - 1] + q[i].len
        /\ \A i, j \in 0..Len(q) : i <= j => t[i] <= t[j]
  BY DEF Totals
<1> DEFINE p == Append(q, f)
           u == [i \in 0..Len(p) |-> IF i <= Len(q) THEN t[i] ELSE n + f.len]
<1>2. /\ Len(q) \in Nat /\ Len(p) = Len(q) + 1 /\ p[Len(p)] = f
      /\ \A i \in 1..Len(q) : p[i] = q[i]
  OBVIOUS
<1>3. n \in Int /\ f.len \in Int /\ f.len >= 0
  BY <1>1, <1>2 DEF Frame
<1>4. u \in [0..Len(p) -> Int]
  BY <1>1, <1>2, <1>3
<1>5. u[0] = 0 /\ u[Len(p)] = n + f.len
  BY <1>1, <1>2, <1>3
<1>6. ASSUME NEW i \in 1..Len(p)
      PROVE  u[i] = u[i - 1] + p[i].len
  BY <1>1, <1>2, <1>3
<1>7. ASSUME NEW i \in 0..Len(p), NEW j \in 0..Len(p), i <= j
      PROVE  u[i] <= u[j]
  <2>1. CASE j <= Len(q)
    BY <1>1, <1>2, <1>7, <2>1
  <2>2. CASE j = Len(p) /\ i <= Len(q)
    <3>1. t[i] <= t[Len(q)]
      BY <1>1, <1>2, <2>2
    <3> QED
      BY <1>1, <1>2, <1>3, <2>2, <3>1
  <2>3. CASE i = Len(p) /\ j = Len(p)
    BY <1>2, <1>3, <2>3
  <2> QED
    BY <1>2, <1>7, <2>1, <2>2, <2>3
<1> HIDE DEF p, u
<1>8. Totals(p, n + f.len)
  BY <1>4, <1>5, <1>6, <1>7 DEF Totals
<1> QED
  BY <1>8 DEF p

\* The first frame takes its length away.
LEMMA TotalsTail ==
  ASSUME NEW q \in Seq(Frame), NEW n, Totals(q, n), q # <<>>
  PROVE  Totals(Tail(q), n - Head(q).len)
<1>1. PICK t \in [0..Len(q) -> Int] :
        /\ t[0] = 0 /\ t[Len(q)] = n
        /\ \A i \in 1..Len(q) : t[i] = t[i - 1] + q[i].len
        /\ \A i, j \in 0..Len(q) : i <= j => t[i] <= t[j]
  BY DEF Totals
<1> DEFINE p == Tail(q)
           u == [i \in 0..Len(p) |-> t[i + 1] - q[1].len]
<1>2. /\ Len(q) \in Nat \ {0} /\ Len(p) = Len(q) - 1 /\ Head(q) = q[1] /\ q[1] \in Frame
      /\ \A i \in 1..Len(p) : p[i] = q[i + 1]
  OBVIOUS
<1>3. n \in Int /\ q[1].len \in Int
  BY <1>1, <1>2 DEF Frame
<1>4. u \in [0..Len(p) -> Int]
  BY <1>1, <1>2, <1>3
<1>5. u[0] = 0 /\ u[Len(p)] = n - q[1].len
  BY <1>1, <1>2, <1>3
<1>6. ASSUME NEW i \in 1..Len(p)
      PROVE  u[i] = u[i - 1] + p[i].len
  <2>1. PICK k : k = i + 1
    OBVIOUS
  <2>2. k \in 1..Len(q) /\ k - 1 = i /\ i \in 0..Len(q) /\ i - 1 \in 0..Len(p) /\ i \in 0..Len(p)
    BY <1>2, <2>1
  <2>3. t[k] = t[i] + q[k].len /\ p[i] = q[k] /\ t[k] \in Int /\ t[i] \in Int
    BY <1>1, <1>2, <2>1, <2>2
  <2>4. q[k] \in Frame
    BY <2>2
  <2>5. q[k].len \in Int
    BY <2>4 DEF Frame
  <2>6. u[i] = t[k] - q[1].len /\ u[i - 1] = t[i] - q[1].len
    BY <1>2, <2>1, <2>2
  <2> HIDE DEF p, u
  <2>7. PICK x, y, z : x = t[k] /\ y = t[i] /\ z = q[k].len
    OBVIOUS
  <2>8. x = y + z /\ x \in Int /\ y \in Int /\ z \in Int
    BY <2>3, <2>5, <2>7
  <2>9. u[i] = x - q[1].len /\ u[i - 1] = y - q[1].len /\ p[i].len = z
    BY <2>3, <2>6, <2>7
  <2> QED
    BY <1>3, <2>8, <2>9
<1>7. ASSUME NEW i \in 0..Len(p), NEW j \in 0..Len(p), i <= j
      PROVE  u[i] <= u[j]
  <2>1. t[i + 1] <= t[j + 1] /\ t[i + 1] \in Int /\ t[j + 1] \in Int
    BY <1>1, <1>2, <1>7
  <2> QED
    BY <1>2, <1>3, <2>1
<1> HIDE DEF p, u
<1>8. Totals(p, n - q[1].len)
  BY <1>4, <1>5, <1>6, <1>7 DEF Totals
<1> QED
  BY <1>2, <1>8 DEF p

\* A queue with such totals has the length FramesInOrder speaks of.
LEMMA TotalsAreLengths ==
  ASSUME NEW q \in Seq(Frame), NEW n, Totals(q, n)
  PROVE  TotalLength(q, n)
<1>1. PICK t \in [0..Len(q) -> Int] :
        /\ t[0] = 0 /\ t[Len(q)] = n
        /\ \A i \in 1..Len(q) : t[i] = t[i - 1] + q[i].len
        /\ \A i, j \in 0..Len(q) : i <= j => t[i] <= t[j]
  BY DEF Totals
<1>2. Len(q) \in Nat /\ DOMAIN q = 1..Len(q)
  OBVIOUS
<1>3. \A i \in 0..Len(q) : t[0] <= t[i] /\ t[i] <= t[Len(q)]
  BY <1>1, <1>2
<1>4. t \in [0..Len(q) -> 0..n]
  BY <1>1, <1>2, <1>3
<1> QED
  BY <1>1, <1>2, <1>4 DEF TotalLength

\* The two queues as one.
LEMMA QueueAppend ==
  ASSUME NEW a \in Seq(Frame), NEW b \in Seq(Frame), NEW f \in Frame
  PROVE  a \o Append(b, f) = Append(a \o b, f) /\ a \o b \in Seq(Frame)
  OBVIOUS

LEMMA QueueTail ==
  ASSUME NEW a \in Seq(Frame), NEW b \in Seq(Frame), a # <<>>
  PROVE  /\ Tail(a) \o b = Tail(a \o b) /\ a \o b \in Seq(Frame)
         /\ a \o b # <<>> /\ Head(a \o b) = Head(a) /\ Head(a) \in Frame
  OBVIOUS

LEMMA QueueSwap ==
  ASSUME NEW b \in Seq(Frame)
  PROVE  b \o <<>> = <<>> \o b /\ <<>> \in Seq(Frame)
  OBVIOUS

\* The numbers when a frame is queued,
LEMMA NumberedAppend ==
  ASSUME NEW got, NEW q \in Seq(Frame), NEW asked, Numbered(got, q, asked), NEW l
  PROVE  /\ asked \in Nat
         /\ Numbered(got, Append(q, [n |-> asked + 1, len |-> l]), asked + 1)
<1> DEFINE f == [n |-> asked + 1, len |-> l]
<1>1. Len(got) \in Nat /\ Len(q) \in Nat /\ asked = Len(got) + Len(q) /\ f.n = asked + 1
  BY DEF Numbered
<1>2. Len(Append(q, f)) = Len(q) + 1 /\ Append(q, f)[Len(q) + 1] = f
      /\ \A i \in 1..Len(q) : Append(q, f)[i] = q[i]
  OBVIOUS
<1> HIDE DEF f
<1>3. PICK p : p = Append(q, f)
  OBVIOUS
<1>4. ASSUME NEW i \in 1..Len(p)
      PROVE  p[i].n = Len(got) + i
  <2>1. CASE i \in 1..Len(q)
    BY <1>2, <1>3, <2>1 DEF Numbered
  <2>2. CASE i = Len(q) + 1
    BY <1>1, <1>2, <1>3, <2>2
  <2> QED
    BY <1>1, <1>2, <1>3, <2>1, <2>2
<1>5. asked + 1 = Len(got) + Len(p)
  BY <1>1, <1>2, <1>3
<1>6. got \in Seq(Nat) /\ \A i \in 1..Len(got) : got[i] = i
  BY DEF Numbered
<1>7. Numbered(got, p, asked + 1)
  BY ONLY <1>4, <1>5, <1>6 DEF Numbered
<1> QED
  BY <1>1, <1>3, <1>7 DEF f

\* and when the first one reaches the client.
LEMMA NumberedTail ==
  ASSUME NEW got, NEW q \in Seq(Frame), NEW asked, Numbered(got, q, asked), q # <<>>
  PROVE  Numbered(Append(got, Head(q).n), Tail(q), asked)
<1>1. /\ got \in Seq(Nat) /\ Len(got) \in Nat /\ Len(q) \in Nat \ {0} /\ asked = Len(got) + Len(q)
      /\ Head(q).n = Len(got) + 1
  BY DEF Numbered
<1> DEFINE g == Append(got, Head(q).n)
<1>2. /\ g \in Seq(Nat) /\ Len(g) = Len(got) + 1 /\ g[Len(got) + 1] = Len(got) + 1
      /\ \A i \in 1..Len(got) : g[i] = got[i]
  BY <1>1
<1>3. Len(Tail(q)) = Len(q) - 1 /\ \A i \in 1..Len(Tail(q)) : Tail(q)[i] = q[i + 1]
  OBVIOUS
<1> HIDE DEF g
<1>4. ASSUME NEW i \in 1..Len(g)
      PROVE  g[i] = i
  <2>1. CASE i \in 1..Len(got)
    BY <1>2, <2>1 DEF Numbered
  <2>2. CASE i = Len(got) + 1
    BY <1>2, <2>2
  <2> QED
    BY <1>1, <1>2, <2>1, <2>2
<1>5. \A i \in 1..Len(Tail(q)) : Tail(q)[i].n = Len(g) + i
  BY <1>1, <1>2, <1>3 DEF Numbered
<1>6. Numbered(g, Tail(q), asked)
  BY <1>1, <1>2, <1>3, <1>4, <1>5 DEF Numbered
<1> QED
  BY <1>6 DEF g

-----------------------------------------------------------------------------
(* Operations on a session                                                 *)

\* Two values of a session that agree on all that the invariants read.
Same(c, d) ==
  /\ DOMAIN d = Fields
  /\ d.st = c.st /\ d.ends = c.ends /\ d.closed = c.closed /\ d.closeReq = c.closeReq
  /\ d.sendq = c.sendq /\ d.pending = c.pending /\ d.got = c.got /\ d.asked = c.asked
  /\ d.frames = c.frames /\ d.bytes = c.bytes

LEMMA SameSession ==
  ASSUME NEW c, NEW d, SessionOK(c), Same(c, d)
  PROVE  SessionOK(d) /\ (HasPendingWrite(d) <=> HasPendingWrite(c))
<1>1. Lived(d)
  BY DEF SessionOK, Same, Lived
<1>2. (d.st = "open" /\ ~d.closeReq) => InOrder(d)
  BY DEF SessionOK, Same, InOrder
<1> QED
  BY <1>1, <1>2 DEF SessionOK, Same, HasPendingWrite

\* A session that only closes.
LEMMA ClosingSession ==
  ASSUME NEW c, NEW d, SessionOK(c), DOMAIN d = Fields, d.closeReq,
         d.st = c.st, d.ends = c.ends, d.closed = c.closed
  PROVE  SessionOK(d)
  BY DEF SessionOK, Lived

LEMMA NewSession ==
  ASSUME NEW st \in {"none", "refused", "open"}
  PROVE  LET d == [NoSession EXCEPT !.st = st]
         IN  SessionOK(d) /\ d.st = st /\ ~HasPendingWrite(d)
<1>1. PICK d : d = [NoSession EXCEPT !.st = st]
  OBVIOUS
<1>2. /\ DOMAIN d = Fields /\ d.st = st /\ d.ends = 0 /\ d.closed = FALSE /\ d.closeReq = FALSE
      /\ d.sendq = <<>> /\ d.pending = <<>> /\ d.got = <<>> /\ d.asked = 0
      /\ d.frames = 0 /\ d.bytes = 0
  BY <1>1 DEF NoSession, Fields
<1>3. Lived(d)
  BY <1>2 DEF Lived
<1>4. d.sendq \o d.pending = <<>> /\ <<>> \in Seq(Frame) /\ <<>> \in Seq(Nat) /\ Len(<<>>) = 0
  BY <1>2
<1>5. Numbered(<<>>, <<>>, 0)
  BY <1>4 DEF Numbered
<1>6. InOrder(d)
  BY <1>2, <1>4, <1>5, TotalsEmpty DEF InOrder
<1> QED
  BY <1>1, <1>2, <1>3, <1>6 DEF SessionOK, HasPendingWrite

LEMMA QueueSession ==
  ASSUME NEW c, SessionOK(c), NEW len \in 1..MaxPayload, ~c.closeReq
  PROVE  LET d == Queue(c, len)
         IN  SessionOK(d) /\ d.st = c.st /\ d.out = c.out
<1>1. PICK f : f = [n |-> c.asked + 1, len |-> len]
  OBVIOUS
<1>2. PICK d : d = Queue(c, len)
  OBVIOUS
<1>3. /\ DOMAIN d = Fields /\ d.st = c.st /\ d.ends = c.ends /\ d.closed = c.closed
      /\ d.out = c.out /\ d.sendq = c.sendq /\ d.got = c.got
      /\ d.pending = Append(c.pending, f) /\ d.asked = c.asked + 1
      /\ d.frames = c.frames + 1 /\ d.bytes = c.bytes + len
  BY <1>1, <1>2 DEF Queue, SessionOK, Fields
<1>4. Lived(d)
  BY <1>3 DEF SessionOK, Lived
<1>5. ASSUME c.st = "open"
      PROVE  InOrder(d)
  <2>1. PICK q : q = c.sendq \o c.pending
    OBVIOUS
  <2>2. /\ c.sendq \in Seq(Frame) /\ c.pending \in Seq(Frame) /\ Numbered(c.got, q, c.asked)
        /\ c.frames = Len(q) /\ Totals(q, c.bytes)
    BY <1>5, <2>1 DEF SessionOK, InOrder
  <2>3. q \in Seq(Frame)
    BY <2>1, <2>2
  <2>4. c.asked \in Nat /\ Numbered(c.got, Append(q, f), c.asked + 1)
    BY <1>1, <2>2, <2>3, NumberedAppend
  <2>5. f \in Frame /\ f.len = len
    BY <1>1, <2>4 DEF Frame
  <2>6. d.sendq \o d.pending = Append(q, f) /\ d.pending \in Seq(Frame)
    <3>1. c.sendq \o Append(c.pending, f) = Append(q, f)
      BY <2>1, <2>2, <2>5, QueueAppend
    <3>2. Append(c.pending, f) \in Seq(Frame)
      BY <2>2, <2>5
    <3> QED
      BY <1>3, <3>1, <3>2
  <2>7. Totals(Append(q, f), d.bytes)
    BY <1>3, <2>2, <2>5, <2>3, TotalsAppend
  <2>8. Len(Append(q, f)) = Len(q) + 1
    BY <2>5, <2>3
  <2> QED
    BY <1>3, <2>2, <2>4, <2>6, <2>7, <2>8 DEF InOrder
<1> QED
  BY <1>2, <1>3, <1>4, <1>5 DEF SessionOK

LEMMA SendSession ==
  ASSUME NEW c, SessionOK(c), NEW len \in 1..(MaxPayload + 1)
  PROVE  LET r == Send(c, len)
         IN  /\ SessionOK(r.c) /\ r.c.st = c.st /\ r.c.out = c.out
             /\ r.note \/ r.c = c
<1>1. PICK r : r = Send(c, len)
  OBVIOUS
<1>2. CASE len > MaxPayload \/ c.closed \/ c.closeReq
  <2>1. r.c = c
    BY <1>1, <1>2 DEF Send
  <2> QED
    BY <1>1, <2>1
<1>3. CASE ~(len > MaxPayload \/ c.closed \/ c.closeReq) /\ ~Fits(c, len)
  <2>1. r.c = [c EXCEPT !.closeReq = TRUE, !.asked = @ + 1] /\ r.note
    BY <1>1, <1>3 DEF Send
  <2>2. PICK d : d = r.c
    OBVIOUS
  <2>3. /\ DOMAIN d = Fields /\ d.closeReq /\ d.st = c.st /\ d.ends = c.ends /\ d.closed = c.closed
        /\ d.out = c.out
    BY <2>1, <2>2 DEF SessionOK, Fields
  <2>4. SessionOK(d)
    BY <2>3, ClosingSession
  <2> QED
    BY <1>1, <2>1, <2>2, <2>3, <2>4
<1>4. CASE ~(len > MaxPayload \/ c.closed \/ c.closeReq) /\ Fits(c, len)
  <2>1. r.c = Queue(c, len) /\ r.note
    BY <1>1, <1>4 DEF Send
  <2>2. len \in 1..MaxPayload
    BY <1>4, ConnectionBounds
  <2> QED
    BY <1>1, <1>4, <2>1, <2>2, QueueSession
<1> QED
  BY <1>2, <1>3, <1>4

LEMMA RefillSession ==
  ASSUME NEW c, SessionOK(c)
  PROVE  SessionOK(Refill(c)) /\ Refill(c).st = c.st
<1>1. CASE c.sendq # <<>>
  BY <1>1 DEF Refill
<1>2. CASE c.sendq = <<>>
  <2>1. PICK d : d = Refill(c)
    OBVIOUS
  <2>2. /\ DOMAIN d = Fields /\ d.st = c.st /\ d.ends = c.ends /\ d.closed = c.closed
        /\ d.closeReq = c.closeReq /\ d.got = c.got /\ d.asked = c.asked
        /\ d.frames = c.frames /\ d.bytes = c.bytes /\ d.sendq = c.pending /\ d.pending = <<>>
    BY <1>2, <2>1 DEF Refill, SessionOK, Fields
  <2>3. Lived(d)
    BY <2>2 DEF SessionOK, Lived
  <2>4. ASSUME c.st = "open", ~c.closeReq
        PROVE  InOrder(d)
    <3>1. InOrder(c)
      BY <2>4 DEF SessionOK
    <3>2. d.sendq \o d.pending = c.sendq \o c.pending /\ d.sendq \in Seq(Frame) /\ d.pending \in Seq(Frame)
      BY <1>2, <2>2, <3>1, QueueSwap DEF InOrder
    <3> QED
      BY <2>2, <3>1, <3>2 DEF InOrder
  <2> QED
    BY <2>1, <2>2, <2>3, <2>4 DEF SessionOK
<1> QED
  BY <1>1, <1>2

LEMMA CloseSession ==
  ASSUME NEW c, SessionOK(c), c.st = "open"
  PROVE  SessionOK(CloseClient(c)) /\ CloseClient(c).st = "gone"
<1>1. PICK d : d = CloseClient(c)
  OBVIOUS
<1>2. DOMAIN d = Fields /\ d.st = "gone" /\ d.closed = TRUE /\ d.ends = 1
  BY <1>1 DEF CloseClient, NoSession, Fields, SessionOK, Lived
<1> QED
  BY <1>1, <1>2 DEF SessionOK, Lived

LEMMA SentSession ==
  ASSUME NEW c, SessionOK(c), c.sendq # <<>>
  PROVE  SessionOK(Sent(c)) /\ Sent(c).st = c.st
<1>1. PICK d : d = Sent(c)
  OBVIOUS
<1>2. PICK m : m = Head(c.sendq)
  OBVIOUS
<1>3. /\ DOMAIN d = Fields /\ d.st = c.st /\ d.ends = c.ends /\ d.closed = c.closed
      /\ d.closeReq = c.closeReq /\ d.asked = c.asked /\ d.pending = c.pending
  BY <1>1 DEF Sent, SessionOK, Fields
<1>4. Lived(d)
  BY <1>3 DEF SessionOK, Lived
<1>5. CASE c.offset + Taken(c) # m.len
  <2>1. d.sendq = c.sendq /\ d.got = c.got /\ d.bytes = c.bytes /\ d.frames = c.frames
    BY <1>1, <1>2, <1>5 DEF Sent, SessionOK, Fields
  <2> QED
    BY <1>1, <1>3, <2>1, SameSession DEF Same
<1>6. CASE c.offset + Taken(c) = m.len
  <2>1. /\ d.sendq = Tail(c.sendq) /\ d.got = Append(c.got, m.n)
        /\ d.bytes = c.bytes - m.len /\ d.frames = c.frames - 1
    BY <1>1, <1>2, <1>6 DEF Sent, SessionOK, Fields
  <2>2. ASSUME c.st = "open", ~c.closeReq
        PROVE  InOrder(d)
    <3>1. PICK q : q = c.sendq \o c.pending
      OBVIOUS
    <3>2. /\ c.sendq \in Seq(Frame) /\ c.pending \in Seq(Frame) /\ Numbered(c.got, q, c.asked)
          /\ c.frames = Len(q) /\ Totals(q, c.bytes)
      BY <2>2, <3>1 DEF SessionOK, InOrder
    <3>3. /\ Tail(c.sendq) \o c.pending = Tail(q) /\ q \in Seq(Frame) /\ q # <<>> /\ Head(q) = m
      BY <1>2, <3>1, <3>2, QueueTail
    <3>4. Numbered(d.got, Tail(q), d.asked)
      BY <1>3, <2>1, <3>2, <3>3, NumberedTail
    <3>5. Totals(Tail(q), d.bytes)
      BY <2>1, <3>2, <3>3, TotalsTail
    <3>6. Len(Tail(q)) = Len(q) - 1 /\ Tail(c.sendq) \in Seq(Frame)
      BY <3>2, <3>3
    <3>7. d.sendq \o d.pending = Tail(q) /\ d.sendq \in Seq(Frame) /\ d.pending \in Seq(Frame)
      BY <1>3, <2>1, <3>2, <3>3, <3>6
    <3> QED
      BY <2>1, <3>2, <3>4, <3>5, <3>6, <3>7 DEF InOrder
  <2> QED
    BY <1>1, <1>3, <1>4, <2>2 DEF SessionOK
<1> QED
  BY <1>5, <1>6

-----------------------------------------------------------------------------
(* The invariant                                                           *)

IoFields == {"at", "s", "events", "batch", "out", "back", "want", "written"}

\* The I/O thread visits a session.
Busy == {"send", "read", "ctl"}

Listed(q, s) == \E i \in 1..Len(q) : q[i] = s

Sessions ==
  /\ DOMAIN conn = Tokens
  /\ \A s \in Tokens : SessionOK(conn[s])

\* Tokens are given out in order.
Fresh ==
  /\ next \in Nat /\ backlog \in Nat
  /\ \A s \in Tokens : s >= next => conn[s].st = "none"

WakeOK ==
  /\ ready \in Seq(Tokens)
  /\ \A s \in noted : Listed(ready, s)
  /\ ~stopping => ready = <<>> \/ wakeFd

\* Where the I/O thread may be.
IoOK(w) ==
  /\ DOMAIN w = IoFields
  /\ w.at \in {"wait", "dispatch", "wakeup", "scan", "down"} \cup Busy
  /\ w.back \in {"dispatch", "wakeup", "scan"}
  /\ w.batch \in Seq(Tokens)
  /\ \A e \in w.events : e.t = "session" => e.s \in Tokens

\* Where it may be, and go back to, while the server runs.
Runs(w) ==
  /\ w.at # "down"
  /\ w.at \in {"wait", "dispatch"} => w.back = "dispatch"
  /\ w.at = "scan" => w.back = "scan"
  /\ w.at = "wakeup" => w.back \in {"dispatch", "wakeup"}

Current == io.at \in Busy => io.s \in Tokens /\ Open(io.s)

Down == io.at = "down" => \A s \in Tokens : ~Open(s)

\* The token is among those the thread has taken from the wakeup list.
InBatch(w, s) == (w.at = "wakeup" \/ w.back = "wakeup") /\ Listed(w.batch, s)

\* The visit will look at the queue again, or has and will register for EPOLLOUT.
Visited(w, s, out) ==
  IF w.s = s /\ w.at \in Busy THEN w.at = "ctl" => w.want ELSE out

Covered(s) == Listed(ready, s) \/ InBatch(io, s) \/ Visited(io, s, conn[s].out)

AllCovered ==
  ~stopping => /\ Runs(io)
               /\ \A s \in Tokens : (Open(s) /\ HasPendingWrite(conn[s])) => Covered(s)

ConnectionsInv ==
  /\ Sessions /\ Fresh /\ WakeOK /\ IoOK(io) /\ Current /\ Down /\ AllCovered

-----------------------------------------------------------------------------
(* The wakeup list                                                         *)

LEMMA ListedAppend ==
  ASSUME NEW q \in Seq(Tokens), NEW x \in Tokens, NEW s
  PROVE  Listed(q, s) \/ s = x => Listed(Append(q, x), s)
<1>1. Len(Append(q, x)) = Len(q) + 1 /\ Append(q, x)[Len(q) + 1] = x /\ Len(q) \in Nat
      /\ \A i \in 1..Len(q) : Append(q, x)[i] = q[i]
  OBVIOUS
<1> QED
  BY <1>1 DEF Listed

LEMMA ListedTail ==
  ASSUME NEW q \in Seq(Tokens), q # <<>>, NEW s, Listed(q, s)
  PROVE  s = Head(q) \/ Listed(Tail(q), s)
<1>1. PICK i \in 1..Len(q) : q[i] = s
  BY DEF Listed
<1>2. CASE i = 1
  BY <1>1, <1>2
<1>3. CASE i # 1
  <2>1. i - 1 \in 1..Len(Tail(q)) /\ Tail(q)[i - 1] = q[i]
    BY <1>3
  <2> QED
    BY <1>1, <2>1 DEF Listed
<1> QED
  BY <1>2, <1>3

LEMMA ListedSplit ==
  ASSUME NEW q \in Seq(Tokens), NEW n \in 0..Len(q), NEW s, Listed(q, s)
  PROVE  Listed(SubSeq(q, 1, n), s) \/ Listed(SubSeq(q, n + 1, Len(q)), s)
<1>1. PICK i \in 1..Len(q) : q[i] = s
  BY DEF Listed
<1>2. CASE i <= n
  <2>1. i \in 1..Len(SubSeq(q, 1, n)) /\ SubSeq(q, 1, n)[i] = q[i]
    BY <1>2
  <2> QED
    BY <1>1, <2>1 DEF Listed
<1>3. CASE i > n
  <2>1. i - n \in 1..Len(SubSeq(q, n + 1, Len(q))) /\ SubSeq(q, n + 1, Len(q))[i - n] = q[i]
    BY <1>3
  <2> QED
    BY <1>1, <2>1 DEF Listed
<1> QED
  BY <1>2, <1>3

LEMMA NotifyWakes ==
  ASSUME WakeOK, NEW s \in Tokens, Notify(s)
  PROVE  /\ WakeOK' /\ stopping' = stopping
         /\ \A x : Listed(ready, x) => Listed(ready', x)
         /\ ~stopping => Listed(ready', s)
<1>1. CASE stopping \/ s \in noted
  <2>1. ready' = ready /\ noted' = noted /\ wakeFd' = wakeFd /\ stopping' = stopping
    BY <1>1 DEF Notify, wakeVars
  <2>2. WakeOK'
    BY <2>1 DEF WakeOK
  <2> QED
    BY <1>1, <2>1, <2>2 DEF WakeOK
<1>2. CASE ~(stopping \/ s \in noted)
  <2>1. noted' = noted \cup {s} /\ ready' = Append(ready, s) /\ wakeFd' = TRUE /\ stopping' = stopping
    BY <1>2 DEF Notify
  <2>2. ready \in Seq(Tokens) /\ ready' \in Seq(Tokens)
    BY <2>1 DEF WakeOK
  <2>3. \A x : Listed(ready, x) \/ x = s => Listed(ready', x)
    BY <2>1, <2>2, ListedAppend
  <2>4. \A x \in noted' : Listed(ready', x)
    BY <2>1, <2>3 DEF WakeOK
  <2> QED
    BY <2>1, <2>2, <2>3, <2>4 DEF WakeOK
<1> QED
  BY <1>1, <1>2

\* What Take leaves, and that what it takes is in the batch.
LEMMA TakeKeeps ==
  ASSUME WakeOK, NEW n \in 0..Len(ready), Take(n)
  PROVE  /\ WakeOK' /\ stopping' = stopping
         /\ SubSeq(ready, 1, n) \in Seq(Tokens)
         /\ \A x : Listed(ready, x) => Listed(ready', x) \/ Listed(SubSeq(ready, 1, n), x)
<1>1. PICK a, b : a = SubSeq(ready, 1, n) /\ b = SubSeq(ready, n + 1, Len(ready))
  OBVIOUS
<1>2. ready' = b /\ noted' = noted \ ToSet(a) /\ wakeFd' = (n < Len(ready)) /\ stopping' = stopping
  BY <1>1 DEF Take
<1>3. ready \in Seq(Tokens)
  BY DEF WakeOK
<1>4. a \in Seq(Tokens) /\ b \in Seq(Tokens) /\ Len(a) = n /\ Len(b) = Len(ready) - n
  BY <1>1, <1>3
<1>5. \A x : Listed(ready, x) => Listed(a, x) \/ Listed(b, x)
  BY <1>1, <1>3, ListedSplit
<1>6. \A x : Listed(a, x) => x \in ToSet(a)
  BY <1>4 DEF Listed, ToSet
<1>7. \A x \in noted' : Listed(ready', x)
  BY <1>2, <1>5, <1>6 DEF WakeOK
<1>8. ready' = <<>> \/ wakeFd'
  <2>1. CASE n = Len(ready)
    BY <1>2, <1>3, <1>4, <2>1
  <2>2. CASE n < Len(ready)
    BY <1>2, <2>2
  <2> QED
    BY <1>3, <2>1, <2>2
<1>9. WakeOK'
  BY <1>2, <1>4, <1>7, <1>8 DEF WakeOK
<1> QED
  BY <1>1, <1>2, <1>4, <1>5, <1>9

-----------------------------------------------------------------------------
(* Steps that keep the I/O thread where it is                              *)

\* What must be said to the I/O thread when a session becomes d.
Wakes(s, d) ==
  \/ Notify(s)
  \/ UNCHANGED wakeVars /\ (HasPendingWrite(d) => HasPendingWrite(conn[s]))

LEMMA WakesOK ==
  ASSUME WakeOK, NEW s \in Tokens, NEW d, Wakes(s, d)
  PROVE  /\ WakeOK' /\ stopping' = stopping
         /\ \A x : Listed(ready, x) => Listed(ready', x)
         /\ ~stopping /\ HasPendingWrite(d) => HasPendingWrite(conn[s]) \/ Listed(ready', s)
<1>1. CASE Notify(s)
  BY <1>1, NotifyWakes
<1>2. CASE UNCHANGED wakeVars /\ (HasPendingWrite(d) => HasPendingWrite(conn[s]))
  <2>1. ready' = ready /\ noted' = noted /\ wakeFd' = wakeFd /\ stopping' = stopping
    BY <1>2 DEF wakeVars
  <2>2. WakeOK'
    BY <2>1 DEF WakeOK
  <2> QED
    BY <1>2, <2>1, <2>2
<1> QED
  BY <1>1, <1>2 DEF Wakes

LEMMA SessionStep ==
  ASSUME ConnectionsInv, NEW s \in Tokens, NEW d, conn' = [conn EXCEPT ![s] = d],
         SessionOK(d), d.st = conn[s].st, d.out = conn[s].out, Wakes(s, d),
         io' = io, next' = next, backlog' = backlog
  PROVE  ConnectionsInv'
<1>1. /\ WakeOK' /\ stopping' = stopping
      /\ \A x : Listed(ready, x) => Listed(ready', x)
      /\ ~stopping /\ HasPendingWrite(d) => HasPendingWrite(conn[s]) \/ Listed(ready', s)
  BY WakesOK DEF ConnectionsInv
<1>2. DOMAIN conn' = Tokens /\ conn'[s] = d /\ \A x \in Tokens \ {s} : conn'[x] = conn[x]
  BY DEF ConnectionsInv, Sessions
<1>3. \A x \in Tokens : conn'[x].st = conn[x].st /\ conn'[x].out = conn[x].out
  BY <1>2
<1>4. Sessions'
  BY <1>2 DEF ConnectionsInv, Sessions
<1>5. Fresh' /\ Current' /\ Down'
  BY <1>3 DEF ConnectionsInv, Fresh, Current, Down, Open
<1>6. ASSUME ~stopping', NEW x \in Tokens, Open(x)', HasPendingWrite(conn'[x])
      PROVE  Covered(x)'
  <2>1. CASE Listed(ready', x)
    BY <2>1 DEF Covered
  <2>2. CASE ~Listed(ready', x)
    <3>1. HasPendingWrite(conn[x])
      BY <1>1, <1>2, <1>6, <2>2
    <3>2. Covered(x) /\ ~Listed(ready, x)
      BY <1>1, <1>3, <1>6, <2>2, <3>1 DEF ConnectionsInv, AllCovered, Open
    <3> QED
      BY <1>3, <3>2 DEF Covered
  <2> QED
    BY <2>1, <2>2
<1>7. AllCovered'
  BY <1>1, <1>6 DEF ConnectionsInv, AllCovered
<1> QED
  BY <1>1, <1>4, <1>5, <1>7 DEF ConnectionsInv

\* Only what the invariant does not read has changed.
LEMMA QuietStep ==
  ASSUME ConnectionsInv, NEW s \in Tokens, NEW d, conn' = [conn EXCEPT ![s] = d],
         Same(conn[s], d), d.out = conn[s].out,
         UNCHANGED <<wakeVars, io, next, backlog>>
  PROVE  ConnectionsInv'
<1>1. SessionOK(conn[s])
  BY DEF ConnectionsInv, Sessions
<1>2. SessionOK(d) /\ (HasPendingWrite(d) <=> HasPendingWrite(conn[s]))
  BY <1>1, SameSession
<1>3. Wakes(s, d)
  BY <1>2 DEF Wakes
<1>4. d.st = conn[s].st
  BY DEF Same
<1> QED
  BY <1>2, <1>3, <1>4, SessionStep

\* A close is asked for.
LEMMA ClosingStep ==
  ASSUME ConnectionsInv, NEW s \in Tokens, NEW d, conn' = [conn EXCEPT ![s] = d],
         DOMAIN d = Fields, d.closeReq, d.st = conn[s].st, d.ends = conn[s].ends,
         d.closed = conn[s].closed, d.out = conn[s].out, Notify(s),
         UNCHANGED <<io, next, backlog>>
  PROVE  ConnectionsInv'
<1>1. SessionOK(d)
  BY ClosingSession DEF ConnectionsInv, Sessions
<1>2. Wakes(s, d)
  BY DEF Wakes
<1> QED
  BY <1>1, <1>2, SessionStep

LEMMA BusinessSendStep ==
  ASSUME ConnectionsInv, NEW s \in Tokens, NEW len \in 1..(MaxPayload + 1), BusinessSend(s, len)
  PROVE  ConnectionsInv'
<1>1. PICK r : r = Send(conn[s], len)
  OBVIOUS
<1>2. SessionOK(r.c) /\ r.c.st = conn[s].st /\ r.c.out = conn[s].out /\ (r.note \/ r.c = conn[s])
  BY <1>1, SendSession DEF ConnectionsInv, Sessions
<1>3. /\ conn' = [conn EXCEPT ![s] = r.c] /\ UNCHANGED <<io, next, backlog>>
      /\ IF r.note THEN Notify(s) ELSE UNCHANGED wakeVars
  BY <1>1 DEF BusinessSend
<1>4. Wakes(s, r.c)
  BY <1>2, <1>3 DEF Wakes
<1> QED
  BY <1>2, <1>3, <1>4, SessionStep

LEMMA BusinessCloseStep ==
  ASSUME ConnectionsInv, NEW s \in Tokens, BusinessClose(s)
  PROVE  ConnectionsInv'
<1>1. PICK d : d = [conn[s] EXCEPT !.closeReq = TRUE]
  OBVIOUS
<1>2. conn' = [conn EXCEPT ![s] = d] /\ Notify(s) /\ UNCHANGED <<io, next, backlog>>
  BY <1>1 DEF BusinessClose, RequestClose
<1>3. /\ DOMAIN d = Fields /\ d.closeReq /\ d.st = conn[s].st /\ d.ends = conn[s].ends
      /\ d.closed = conn[s].closed /\ d.out = conn[s].out
  BY <1>1 DEF ConnectionsInv, Sessions, SessionOK, Fields
<1> QED
  BY <1>2, <1>3, ClosingStep

LEMMA LoginStep ==
  ASSUME ConnectionsInv, NEW s \in Tokens, Login(s)
  PROVE  ConnectionsInv'
<1>1. PICK d : d = [conn[s] EXCEPT !.user = TRUE]
  OBVIOUS
<1>2. conn' = [conn EXCEPT ![s] = d] /\ UNCHANGED <<wakeVars, io, next, backlog>>
  BY <1>1 DEF Login
<1>3. Same(conn[s], d) /\ d.out = conn[s].out
  BY <1>1 DEF ConnectionsInv, Sessions, SessionOK, Fields, Same
<1> QED
  BY <1>2, <1>3, QuietStep

LEMMA ClientStep ==
  ASSUME ConnectionsInv, NEW s \in Tokens,
         \/ ClientReads(s) \/ DeadlinePasses(s) \/ RecheckPasses(s)
         \/ \E f \in ClientFrames : ClientSend(s, f)
  PROVE  ConnectionsInv'
<1>1. /\ UNCHANGED <<wakeVars, io, next, backlog>>
      /\ \/ conn' = [conn EXCEPT ![s].space = Room]
         \/ conn' = [conn EXCEPT ![s].late = TRUE]
         \/ conn' = [conn EXCEPT ![s].recheck = "over"]
         \/ \E f \in ClientFrames : conn' = [conn EXCEPT ![s].inbox = Append(@, f)]
  BY DEF ClientReads, DeadlinePasses, RecheckPasses, ClientSend
<1>2. \/ conn' = [conn EXCEPT ![s] = [conn[s] EXCEPT !.space = Room]]
      \/ conn' = [conn EXCEPT ![s] = [conn[s] EXCEPT !.late = TRUE]]
      \/ conn' = [conn EXCEPT ![s] = [conn[s] EXCEPT !.recheck = "over"]]
      \/ \E q : conn' = [conn EXCEPT ![s] = [conn[s] EXCEPT !.inbox = q]]
  BY <1>1
<1>3. PICK d : /\ conn' = [conn EXCEPT ![s] = d]
               /\ \/ d = [conn[s] EXCEPT !.space = Room]
                  \/ d = [conn[s] EXCEPT !.late = TRUE]
                  \/ d = [conn[s] EXCEPT !.recheck = "over"]
                  \/ \E q : d = [conn[s] EXCEPT !.inbox = q]
  BY <1>2
<1>4. Same(conn[s], d) /\ d.out = conn[s].out
  BY <1>3 DEF ConnectionsInv, Sessions, SessionOK, Fields, Same
<1> QED
  BY <1>1, <1>3, <1>4, QuietStep

\* Stop, a new client and the timer change no session.
LEMMA OutsideStep ==
  ASSUME ConnectionsInv, Stop \/ Connect \/ TimerExpires
  PROVE  ConnectionsInv'
<1>1. /\ conn' = conn /\ io' = io /\ next' = next /\ ready' = ready /\ noted' = noted
      /\ backlog' = backlog \/ backlog' = backlog + 1
      /\ stopping' = TRUE \/ (stopping' = stopping /\ wakeFd' = wakeFd)
  BY DEF Stop, Connect, TimerExpires, wakeVars
<1>2. Sessions' /\ Current' /\ Down' /\ IoOK(io')
  BY <1>1 DEF ConnectionsInv, Sessions, Current, Down, Open
<1>3. Fresh'
  BY <1>1 DEF ConnectionsInv, Fresh
<1>4. WakeOK'
  BY <1>1 DEF ConnectionsInv, WakeOK
<1>5. AllCovered'
  BY <1>1 DEF ConnectionsInv, AllCovered, Covered, Open
<1> QED
  BY <1>2, <1>3, <1>4, <1>5 DEF ConnectionsInv

-----------------------------------------------------------------------------
(* Steps of the I/O thread                                                 *)

\* The I/O thread works on session s, which becomes d, and goes on at w.
LEMMA VisitStep ==
  ASSUME ConnectionsInv, NEW s \in Tokens, Open(s), NEW d, NEW w,
         conn' = [conn EXCEPT ![s] = d], io' = w, UNCHANGED <<wakeVars, next, backlog>>,
         SessionOK(d), d.st \in {"open", "gone"}, IoOK(w), w.at # "down",
         io.at \in Busy => io.s = s,
         w.at \in Busy => w.s = s /\ d.st = "open",
         ~stopping => /\ Runs(w)
                      /\ \A x \in Tokens \ {s} : InBatch(io, x) => InBatch(w, x)
                      /\ (d.st = "open" /\ HasPendingWrite(d)) =>
                           Listed(ready, s) \/ InBatch(w, s) \/ Visited(w, s, d.out)
  PROVE  ConnectionsInv'
<1>1. DOMAIN conn' = Tokens /\ conn'[s] = d /\ \A x \in Tokens \ {s} : conn'[x] = conn[x]
  BY DEF ConnectionsInv, Sessions
<1>2. /\ ready' = ready /\ noted' = noted /\ wakeFd' = wakeFd /\ stopping' = stopping
      /\ next' = next /\ backlog' = backlog
  BY DEF wakeVars
<1>3. Sessions'
  BY <1>1 DEF ConnectionsInv, Sessions
<1>4. Fresh'
  BY <1>1, <1>2 DEF ConnectionsInv, Fresh, Open
<1>5. WakeOK'
  BY <1>2 DEF ConnectionsInv, WakeOK
<1>6. Current' /\ Down'
  BY <1>1 DEF Current, Down, Open
<1>7. ASSUME ~stopping', NEW x \in Tokens, Open(x)', HasPendingWrite(conn'[x])
      PROVE  Covered(x)'
  <2>1. CASE x = s
    BY <1>1, <1>2, <1>7, <2>1 DEF Covered, Open
  <2>2. CASE x # s
    <3>1. conn'[x] = conn[x]
      BY <1>1, <2>2
    <3>2. Covered(x)
      BY <1>2, <1>7, <3>1 DEF ConnectionsInv, AllCovered, Open
    <3>3. Visited(io, x, conn[x].out) => Visited(w, x, conn'[x].out)
      BY <2>2, <3>1 DEF Visited
    <3> QED
      BY <1>2, <1>7, <2>2, <3>2, <3>3 DEF Covered
  <2> QED
    BY <2>1, <2>2
<1>8. AllCovered'
  BY <1>2, <1>7 DEF AllCovered
<1> QED
  BY <1>3, <1>4, <1>5, <1>6, <1>8 DEF ConnectionsInv

\* The thread returns from a visit.
LEMMA BackFields ==
  ASSUME NEW w, IoOK(w)
  PROVE  /\ IoOK(Back(w)) /\ Back(w).at = w.back /\ Back(w).back = w.back
         /\ Back(w).batch = w.batch /\ Back(w).at \notin Busy /\ Back(w).at # "down"
<1>1. PICK b : b = Back(w)
  OBVIOUS
<1>2. /\ DOMAIN b = IoFields /\ b.at = w.back /\ b.back = w.back /\ b.batch = w.batch
      /\ b.events = w.events
  BY <1>1 DEF Back, IoOK, IoFields
<1>3. IoOK(b) /\ b.at \notin Busy /\ b.at # "down"
  BY <1>2 DEF IoOK, Busy
<1> QED
  BY <1>1, <1>2, <1>3

\* A closed session is left.
LEMMA CloseStep ==
  ASSUME ConnectionsInv, NEW s \in Tokens, Open(s), NEW w, NEW c, SessionOK(c), c.st = "open",
         conn' = [conn EXCEPT ![s] = CloseClient(c)], io' = Back(w),
         UNCHANGED <<wakeVars, next, backlog>>, IoOK(w),
         io.at \in Busy => io.s = s,
         ~stopping => \A x \in Tokens \ {s} : InBatch(io, x) => w.back = "wakeup" /\ Listed(w.batch, x)
  PROVE  ConnectionsInv'
<1>1. PICK d : d = CloseClient(c)
  OBVIOUS
<1>2. PICK b : b = Back(w)
  OBVIOUS
<1>3. SessionOK(d) /\ d.st = "gone"
  BY <1>1, CloseSession
<1>4. /\ IoOK(b) /\ b.at = w.back /\ b.back = w.back /\ b.batch = w.batch
      /\ b.at \notin Busy /\ b.at # "down"
  BY <1>2, BackFields
<1>5. Runs(b)
  BY <1>4 DEF Runs, IoOK, Busy
<1>6. ~stopping => \A x \in Tokens \ {s} : InBatch(io, x) => InBatch(b, x)
  BY <1>4 DEF InBatch
<1> QED
  BY <1>1, <1>2, <1>3, <1>4, <1>5, <1>6, VisitStep

\* The thread's place when a visit goes on from w.
GoesTo(w, v, a, s) ==
  /\ DOMAIN v = IoFields /\ v.at = a /\ v.s = s
  /\ v.back = w.back /\ v.batch = w.batch /\ v.events = w.events

LEMMA VisitPlace ==
  ASSUME NEW w, IoOK(w), NEW v, NEW a, a \in Busy, NEW s, GoesTo(w, v, a, s)
  PROVE  IoOK(v) /\ Runs(v) /\ v.at = a /\ v.s = s /\ v.back = w.back /\ v.batch = w.batch
<1>1. IoOK(v)
  BY DEF GoesTo, IoOK
<1>2. Runs(v)
  BY DEF GoesTo, Runs, Busy
<1> QED
  BY <1>1, <1>2 DEF GoesTo

\* The visits from w keep the taken tokens.
Keeps(w, s) ==
  ~stopping => \A x \in Tokens \ {s} : InBatch(io, x) => w.back = "wakeup" /\ Listed(w.batch, x)

LEMMA HandleWriteStep ==
  ASSUME ConnectionsInv, NEW s \in Tokens, Open(s), NEW w,
         HandleWrite(s, conn[s], w), UNCHANGED <<wakeVars, next, backlog>>, IoOK(w),
         io.at \in Busy => io.s = s, Keeps(w, s)
  PROVE  ConnectionsInv'
<1>1. SessionOK(conn[s]) /\ conn[s].st = "open"
  BY DEF ConnectionsInv, Sessions, Open
<1>2. CASE conn[s].closed \/ conn[s].closeReq
  <2>1. conn' = [conn EXCEPT ![s] = CloseClient(conn[s])] /\ io' = Back(w)
    BY <1>2 DEF HandleWrite
  <2> QED
    BY <1>1, <2>1, CloseStep DEF Keeps
<1>3. CASE ~(conn[s].closed \/ conn[s].closeReq)
  <2>1. PICK d, v : d = Refill(conn[s]) /\ v = [w EXCEPT !.at = "send", !.s = s]
    OBVIOUS
  <2>2. conn' = [conn EXCEPT ![s] = d] /\ io' = v
    BY <1>3, <2>1 DEF HandleWrite
  <2>3. SessionOK(d) /\ d.st = "open"
    BY <1>1, <2>1, RefillSession
  <2>4. IoOK(v) /\ v.at = "send" /\ v.s = s /\ v.back = w.back /\ v.batch = w.batch /\ Runs(v)
    <3>1. GoesTo(w, v, "send", s)
      BY <2>1 DEF GoesTo, IoOK, IoFields
    <3> QED
      BY <3>1, VisitPlace DEF Busy
  <2>5. Visited(v, s, d.out)
    BY <2>4 DEF Visited, Busy
  <2>6. ~stopping => \A x \in Tokens \ {s} : InBatch(io, x) => InBatch(v, x)
    BY <2>4 DEF InBatch, Keeps
  <2> QED
    BY <2>2, <2>3, <2>4, <2>5, <2>6, VisitStep
<1> QED
  BY <1>2, <1>3

LEMMA UpdateClientStep ==
  ASSUME ConnectionsInv, NEW s \in Tokens, Open(s), NEW c, NEW w,
         SessionOK(c), c.st = "open",
         UpdateClient(s, c, w), UNCHANGED <<wakeVars, next, backlog>>, IoOK(w),
         io.at \in Busy => io.s = s, Keeps(w, s)
  PROVE  ConnectionsInv'
<1>1. PICK v : v = [w EXCEPT !.at = "ctl", !.s = s, !.want = HasPendingWrite(c)]
  OBVIOUS
<1>2. conn' = [conn EXCEPT ![s] = c] /\ io' = v
  BY <1>1 DEF UpdateClient
<1>3. /\ IoOK(v) /\ v.at = "ctl" /\ v.s = s /\ v.back = w.back /\ v.batch = w.batch /\ Runs(v)
      /\ v.want = HasPendingWrite(c)
  <2>1. GoesTo(w, v, "ctl", s) /\ v.want = HasPendingWrite(c)
    BY <1>1 DEF GoesTo, IoOK, IoFields
  <2> QED
    BY <2>1, VisitPlace DEF Busy
<1>4. HasPendingWrite(c) => Visited(v, s, c.out)
  BY <1>3 DEF Visited, Busy
<1>5. ~stopping => \A x \in Tokens \ {s} : InBatch(io, x) => InBatch(v, x)
  BY <1>3 DEF InBatch, Keeps
<1> QED
  BY <1>2, <1>3, <1>4, <1>5, VisitStep

\* A visit under way is of an open session, and goes on from where it is.
LEMMA VisitUnderWay ==
  ASSUME ConnectionsInv, io.at \in Busy
  PROVE  /\ io.s \in Tokens /\ Open(io.s) /\ SessionOK(conn[io.s]) /\ IoOK(io)
         /\ Keeps(io, io.s)
  BY DEF ConnectionsInv, Current, Sessions, Keeps, InBatch, Busy

LEMMA EpollCtlStep ==
  ASSUME ConnectionsInv, EpollCtl
  PROVE  ConnectionsInv'
<1>1. PICK s : s = io.s
  OBVIOUS
<1>2. s \in Tokens /\ Open(s) /\ SessionOK(conn[s]) /\ IoOK(io) /\ Keeps(io, s) /\ io.at = "ctl"
  BY <1>1, VisitUnderWay DEF EpollCtl, Busy
<1>3. PICK d, b : d = [conn[s] EXCEPT !.out = io.want] /\ b = Back(io)
  OBVIOUS
<1>4. conn' = [conn EXCEPT ![s] = d] /\ io' = b /\ UNCHANGED <<wakeVars, next, backlog>>
  BY <1>1, <1>3 DEF EpollCtl
<1>5. Same(conn[s], d) /\ d.out = io.want /\ d.st = "open"
  BY <1>2, <1>3 DEF SessionOK, Fields, Same, Open
<1>6. SessionOK(d) /\ (HasPendingWrite(d) <=> HasPendingWrite(conn[s]))
  BY <1>2, <1>5, SameSession
<1>7. /\ IoOK(b) /\ b.at = io.back /\ b.back = io.back /\ b.batch = io.batch
      /\ b.at \notin Busy /\ b.at # "down"
  BY <1>2, <1>3, BackFields
<1>8. Runs(b)
  BY <1>7 DEF Runs, IoOK, Busy
<1>9. ~stopping => \A x \in Tokens : InBatch(io, x) => InBatch(b, x)
  BY <1>2, <1>7 DEF InBatch
<1>10. ~stopping /\ HasPendingWrite(d) => Listed(ready, s) \/ InBatch(b, s) \/ Visited(b, s, d.out)
  <2>1. ~stopping /\ HasPendingWrite(d) => Listed(ready, s) \/ InBatch(io, s) \/ io.want
    BY <1>1, <1>2, <1>6 DEF ConnectionsInv, AllCovered, Covered, Visited, Busy
  <2> QED
    BY <1>2, <1>5, <1>7, <1>9, <2>1 DEF Visited
<1> QED
  BY <1>1, <1>2, <1>4, <1>5, <1>6, <1>7, <1>8, <1>9, <1>10, VisitStep

\* The thread turns to another place without touching a session.
LEMMA MoveStep ==
  ASSUME ConnectionsInv, NEW w, conn' = conn, io' = w, UNCHANGED <<wakeVars, next, backlog>>,
         IoOK(w), w.at \notin {"down", "ctl"}, io.at \notin Busy,
         w.at \in Busy => w.s \in Tokens /\ Open(w.s),
         ~stopping => /\ Runs(w)
                      /\ \A x \in Tokens : InBatch(io, x) /\ Open(x) => InBatch(w, x)
  PROVE  ConnectionsInv'
<1>1. /\ ready' = ready /\ noted' = noted /\ wakeFd' = wakeFd /\ stopping' = stopping
      /\ next' = next /\ backlog' = backlog
  BY DEF wakeVars
<1>2. Sessions' /\ Fresh' /\ WakeOK'
  BY <1>1 DEF ConnectionsInv, Sessions, Fresh, WakeOK
<1>3. Current' /\ Down'
  BY DEF Current, Down, Open
<1>4. ASSUME ~stopping', NEW x \in Tokens, Open(x)', HasPendingWrite(conn'[x])
      PROVE  Covered(x)'
  <2>1. Covered(x) /\ Open(x)
    BY <1>1, <1>4 DEF ConnectionsInv, AllCovered, Open
  <2>2. Visited(io, x, conn[x].out) => Visited(w, x, conn'[x].out)
    BY DEF Visited
  <2> QED
    BY <1>1, <1>4, <2>1, <2>2 DEF Covered
<1>5. AllCovered'
  BY <1>1, <1>4 DEF AllCovered
<1> QED
  BY <1>2, <1>3, <1>5 DEF ConnectionsInv

LEMMA HandleWakeupStep ==
  ASSUME ConnectionsInv, HandleWakeup
  PROVE  ConnectionsInv'
<1>1. PICK s, w : s = Head(io.batch) /\ w = [io EXCEPT !.batch = Tail(@), !.back = "wakeup"]
  OBVIOUS
<1>2. io.at = "wakeup" /\ IoOK(io) /\ UNCHANGED <<wakeVars, next, backlog>> /\ io.batch \in Seq(Tokens)
      /\ io.at \notin Busy
  BY DEF HandleWakeup, ConnectionsInv, IoOK, Busy
<1>3. CASE io.batch = <<>> \/ stopping
  <2>1. PICK v : v = [io EXCEPT !.at = "dispatch", !.batch = <<>>, !.back = "dispatch"]
    OBVIOUS
  <2>2. io' = v /\ conn' = conn
    BY <1>3, <2>1 DEF HandleWakeup
  <2>3. DOMAIN v = IoFields /\ v.at = "dispatch" /\ v.batch = <<>> /\ v.back = "dispatch"
        /\ v.events = io.events
    BY <1>2, <2>1 DEF IoOK, IoFields
  <2>4. IoOK(v) /\ v.at \notin Busy /\ Runs(v)
    BY <1>2, <2>3 DEF IoOK, Busy, Runs
  <2>5. io.batch = <<>> => \A x \in Tokens : ~InBatch(io, x)
    BY DEF InBatch, Listed
  <2>6. ~stopping => \A x \in Tokens : InBatch(io, x) /\ Open(x) => InBatch(v, x)
    BY <1>3, <2>5
  <2> QED
    BY <1>2, <2>2, <2>3, <2>4, <2>6, MoveStep
<1>4. CASE ~(io.batch = <<>> \/ stopping)
  <2>1. s \in Tokens /\ Tail(io.batch) \in Seq(Tokens)
    BY <1>1, <1>2, <1>4
  <2>2. DOMAIN w = IoFields /\ w.at = "wakeup" /\ w.batch = Tail(io.batch) /\ w.back = "wakeup"
        /\ w.events = io.events
    BY <1>1, <1>2 DEF IoOK, IoFields
  <2>3. IoOK(w) /\ Runs(w)
    BY <1>2, <2>1, <2>2 DEF IoOK, Busy, Runs
  <2>4. \A x \in Tokens \ {s} : Listed(io.batch, x) => Listed(w.batch, x)
    BY <1>1, <1>2, <1>4, <2>2, ListedTail
  <2>5. CASE Open(s)
    <3>1. HandleWrite(s, conn[s], w)
      BY <1>1, <1>4, <2>5 DEF HandleWakeup
    <3>2. Keeps(w, s)
      BY <2>2, <2>4 DEF Keeps, InBatch
    <3> QED
      BY <1>2, <2>1, <2>3, <2>5, <3>1, <3>2, HandleWriteStep
  <2>6. CASE ~Open(s)
    <3>1. io' = w /\ conn' = conn
      BY <1>1, <1>4, <2>6 DEF HandleWakeup
    <3>2. \A x \in Tokens : InBatch(io, x) /\ Open(x) => InBatch(w, x)
      BY <2>2, <2>4, <2>6 DEF InBatch
    <3>3. w.at \notin Busy /\ w.at \notin {"down", "ctl"}
      BY <2>2 DEF Busy
    <3> QED
      BY <1>2, <2>3, <3>1, <3>2, <3>3, MoveStep
  <2> QED
    BY <2>5, <2>6
<1> QED
  BY <1>3, <1>4

LEMMA SendSomeStep ==
  ASSUME ConnectionsInv, SendSome
  PROVE  ConnectionsInv'
<1>1. PICK s, c : s = io.s /\ c = conn[s]
  OBVIOUS
<1>2. s \in Tokens /\ Open(s) /\ SessionOK(c) /\ c.st = "open" /\ IoOK(io) /\ Keeps(io, s)
      /\ io.at = "send" /\ UNCHANGED <<wakeVars, next, backlog>>
  BY <1>1, VisitUnderWay DEF SendSome, Busy, Open
<1>3. CASE c.sendq = <<>> \/ c.space = 0 \/ io.written >= Budget
  <2>1. UpdateClient(s, c, io)
    BY <1>1, <1>3 DEF SendSome
  <2> QED
    BY <1>1, <1>2, <2>1, UpdateClientStep
<1>4. CASE ~(c.sendq = <<>> \/ c.space = 0 \/ io.written >= Budget)
  <2>1. PICK d, w : d = Sent(c) /\ w = [io EXCEPT !.written = @ + Taken(c)]
    OBVIOUS
  <2>2. conn' = [conn EXCEPT ![s] = d] /\ io' = w
    BY <1>1, <1>4, <2>1 DEF SendSome
  <2>3. SessionOK(d) /\ d.st = "open"
    BY <1>2, <1>4, <2>1, SentSession
  <2>4. GoesTo(io, w, "send", s)
    BY <1>1, <1>2, <2>1 DEF GoesTo, IoOK, IoFields
  <2>5. IoOK(w) /\ Runs(w) /\ w.at = "send" /\ w.s = s /\ w.back = io.back /\ w.batch = io.batch
    BY <1>2, <2>4, VisitPlace DEF Busy
  <2>6. Visited(w, s, d.out)
    BY <2>5 DEF Visited, Busy
  <2>7. \A x \in Tokens \ {s} : InBatch(io, x) => InBatch(w, x)
    BY <1>2, <2>5 DEF InBatch
  <2> QED
    BY <1>1, <1>2, <2>2, <2>3, <2>5, <2>6, <2>7, VisitStep
<1> QED
  BY <1>3, <1>4

LEMMA SocketErrorStep ==
  ASSUME ConnectionsInv, SocketError
  PROVE  ConnectionsInv'
<1>1. PICK s : s = io.s
  OBVIOUS
<1>2. s \in Tokens /\ Open(s) /\ SessionOK(conn[s]) /\ IoOK(io) /\ Keeps(io, s)
  BY <1>1, VisitUnderWay DEF SocketError, Busy
<1>3. conn' = [conn EXCEPT ![s] = CloseClient(conn[s])] /\ io' = Back(io)
      /\ UNCHANGED <<wakeVars, next, backlog>>
  BY <1>1 DEF SocketError
<1> QED
  BY <1>1, <1>2, <1>3, CloseStep DEF Keeps, Open

LEMMA RecheckSession ==
  ASSUME NEW c, SessionOK(c), NEW allow
  PROVE  SessionOK(Recheck(c, allow)) /\ Recheck(c, allow).st = c.st
<1>1. PICK d : d = Recheck(c, allow)
  OBVIOUS
<1>2. d = c \/ d = [c EXCEPT !.recheck = "used"]
  BY <1>1 DEF Recheck
<1>3. Same(c, d)
  BY <1>2 DEF SessionOK, Fields, Same
<1> QED
  BY <1>1, <1>3, SameSession DEF Same

LEMMA VerdictStep ==
  ASSUME ConnectionsInv, NEW s, s = io.s, io.at \in Busy, Verdict(s),
         UNCHANGED <<wakeVars, next, backlog>>
  PROVE  ConnectionsInv'
<1>1. s \in Tokens /\ Open(s) /\ SessionOK(conn[s]) /\ conn[s].st = "open" /\ IoOK(io) /\ Keeps(io, s)
  BY VisitUnderWay DEF Open
<1>2. PICK c : c = Recheck(conn[s], scan.recheck)
  OBVIOUS
<1>3. SessionOK(c) /\ c.st = "open"
  BY <1>1, <1>2, RecheckSession
<1>4. CASE IsClosed(s) \/ Expired(c)
  <2>1. conn' = [conn EXCEPT ![s] = CloseClient(c)] /\ io' = Back(io)
    BY <1>2, <1>4 DEF Verdict
  <2> QED
    BY <1>1, <1>3, <2>1, CloseStep DEF Keeps
<1>5. CASE ~(IsClosed(s) \/ Expired(c))
  <2>1. UpdateClient(s, c, io)
    BY <1>2, <1>5 DEF Verdict
  <2> QED
    BY <1>1, <1>3, <2>1, UpdateClientStep
<1> QED
  BY <1>4, <1>5

LEMMA HeartbeatStep ==
  ASSUME ConnectionsInv, NEW s \in Tokens, NEW n, HandleHeartbeat(s, n),
         UNCHANGED <<io, next, backlog>>
  PROVE  ConnectionsInv'
<1>1. PICK c : c = conn[s]
  OBVIOUS
<1>2. SessionOK(c)
  BY <1>1 DEF ConnectionsInv, Sessions
<1>3. PICK e : e = [c EXCEPT !.seq = n, !.hb = TRUE, !.late = FALSE, !.recheck = "unused",
                             !.inbox = Tail(@)]
  OBVIOUS
<1>4. PICK p : p = [c EXCEPT !.inbox = Tail(@)]
  OBVIOUS
<1>5. PICK r : r = Send(e, 1)
  OBVIOUS
<1>6. Same(c, e) /\ e.out = c.out
  BY <1>2, <1>3 DEF SessionOK, Fields, Same
<1>7. Same(c, p) /\ p.out = c.out
  BY <1>2, <1>4 DEF SessionOK, Fields, Same
<1>8. SessionOK(e)
  BY <1>2, <1>6, SameSession
<1>9. SessionOK(r.c) /\ r.c.st = c.st /\ r.c.out = c.out
  <2>1. 1 \in 1..(MaxPayload + 1) /\ e.st = c.st
    BY <1>6, ConnectionBounds DEF Same
  <2>2. SessionOK(r.c) /\ r.c.st = e.st /\ r.c.out = e.out
    BY <1>5, <1>8, <2>1, SendSession
  <2> QED
    BY <1>6, <2>1, <2>2
<1>10. \/ conn' = [conn EXCEPT ![s] = [p EXCEPT !.closeReq = TRUE]] /\ Notify(s)
       \/ conn' = [conn EXCEPT ![s] = p] /\ UNCHANGED wakeVars
       \/ conn' = [conn EXCEPT ![s] = [r.c EXCEPT !.closeReq = @ \/ ~r.ok]] /\ Notify(s)
  BY <1>1, <1>3, <1>4, <1>5 DEF HandleHeartbeat
<1>11. CASE conn' = [conn EXCEPT ![s] = [p EXCEPT !.closeReq = TRUE]] /\ Notify(s)
  <2>1. PICK d : d = [p EXCEPT !.closeReq = TRUE]
    OBVIOUS
  <2>2. /\ DOMAIN d = Fields /\ d.closeReq /\ d.st = c.st /\ d.ends = c.ends
        /\ d.closed = c.closed /\ d.out = c.out
    BY <1>7, <2>1 DEF Same, Fields
  <2> QED
    BY <1>1, <1>11, <2>1, <2>2, ClosingStep
<1>12. CASE conn' = [conn EXCEPT ![s] = p] /\ UNCHANGED wakeVars
  BY <1>1, <1>7, <1>12, QuietStep
<1>13. CASE conn' = [conn EXCEPT ![s] = [r.c EXCEPT !.closeReq = @ \/ ~r.ok]] /\ Notify(s)
  <2>1. PICK f : f = r.c
    OBVIOUS
  <2>2. PICK d : d = [f EXCEPT !.closeReq = f.closeReq \/ ~r.ok]
    OBVIOUS
  <2>3. conn' = [conn EXCEPT ![s] = d]
    BY <1>13, <2>1, <2>2
  <2>4. /\ DOMAIN d = Fields /\ d.st = f.st /\ d.out = f.out /\ d.ends = f.ends
        /\ d.closed = f.closed /\ d.closeReq = (f.closeReq \/ ~r.ok)
        /\ d.sendq = f.sendq /\ d.pending = f.pending /\ d.got = f.got /\ d.asked = f.asked
        /\ d.frames = f.frames /\ d.bytes = f.bytes
    BY <1>9, <2>1, <2>2 DEF SessionOK, Fields
  <2>5. SessionOK(f)
    BY <1>9, <2>1
  <2>6. Lived(d)
    BY <2>4, <2>5 DEF SessionOK, Lived
  <2>7. (d.st = "open" /\ ~d.closeReq) => InOrder(d)
    BY <2>4, <2>5 DEF SessionOK, InOrder
  <2>8. SessionOK(d)
    BY <2>4, <2>6, <2>7 DEF SessionOK
  <2>9. Wakes(s, d)
    BY <1>13 DEF Wakes
  <2> QED
    BY <1>1, <1>9, <2>1, <2>3, <2>4, <2>8, <2>9, SessionStep
<1> QED
  BY <1>10, <1>11, <1>12, <1>13

LEMMA HandleReadStep ==
  ASSUME ConnectionsInv, HandleRead
  PROVE  ConnectionsInv'
<1>1. PICK s, c, f : s = io.s /\ c = conn[s] /\ f = Head(c.inbox)
  OBVIOUS
<1>2. /\ s \in Tokens /\ Open(s) /\ SessionOK(c) /\ c.st = "open" /\ IoOK(io) /\ Keeps(io, s)
      /\ io.at = "read" /\ io.at \in Busy /\ UNCHANGED <<next, backlog>>
  BY <1>1, VisitUnderWay DEF HandleRead, Busy, Open
<1>3. \/ /\ UNCHANGED wakeVars
         /\ \/ Verdict(s) \/ HandleWrite(s, c, io) \/ UpdateClient(s, c, io)
            \/ conn' = [conn EXCEPT ![s] = CloseClient(c)] /\ io' = Back(io)
      \/ HandleHeartbeat(s, f.n) /\ UNCHANGED io
      \/ /\ conn' = [conn EXCEPT ![s].inbox = Tail(@), ![s].closeReq = TRUE]
         /\ Notify(s) /\ UNCHANGED io
  BY <1>1 DEF HandleRead
<1>4. CASE UNCHANGED wakeVars /\ Verdict(s)
  BY <1>1, <1>2, <1>4, VerdictStep
<1>5. CASE UNCHANGED wakeVars /\ HandleWrite(s, c, io)
  BY <1>1, <1>2, <1>5, HandleWriteStep
<1>6. CASE UNCHANGED wakeVars /\ UpdateClient(s, c, io)
  BY <1>1, <1>2, <1>6, UpdateClientStep
<1>7. CASE UNCHANGED wakeVars /\ conn' = [conn EXCEPT ![s] = CloseClient(c)] /\ io' = Back(io)
  BY <1>1, <1>2, <1>7, CloseStep DEF Keeps
<1>8. CASE HandleHeartbeat(s, f.n) /\ UNCHANGED io
  BY <1>2, <1>8, HeartbeatStep
<1>9. CASE /\ conn' = [conn EXCEPT ![s].inbox = Tail(@), ![s].closeReq = TRUE]
           /\ Notify(s) /\ UNCHANGED io
  <2>1. PICK d : d = [c EXCEPT !.inbox = Tail(@), !.closeReq = TRUE]
    OBVIOUS
  <2>2. conn' = [conn EXCEPT ![s] = d]
    BY <1>1, <1>2, <1>9, <2>1 DEF ConnectionsInv, Sessions, SessionOK, Fields
  <2>3. /\ DOMAIN d = Fields /\ d.closeReq /\ d.st = c.st /\ d.ends = c.ends
        /\ d.closed = c.closed /\ d.out = c.out
    BY <1>2, <2>1 DEF SessionOK, Fields
  <2> QED
    BY <1>1, <1>2, <1>9, <2>2, <2>3, ClosingStep
<1> QED
  BY <1>3, <1>4, <1>5, <1>6, <1>7, <1>8, <1>9

\* A set of tokens has a smallest one.
LEMMA SmallestToken ==
  ASSUME NEW S, S \subseteq Tokens, S # {}
  PROVE  (CHOOSE x \in S : \A y \in S : x <= y) \in S
<1>1. S \subseteq Nat
  BY ConnectionBounds DEF Tokens
<1>2. PICK x \in S : \A y \in S : ~(<<y, x>> \in OpToRel(<, Nat))
  BY <1>1, WFMin, NatLessThanWellFounded
<1>3. ASSUME NEW y \in S
      PROVE  x <= y
  <2>1. <<y, x>> \in Nat \X Nat /\ <<y, x>>[1] = y /\ <<y, x>>[2] = x /\ x \in Nat /\ y \in Nat
    BY <1>1
  <2>2. ~(y < x)
    BY <1>2, <2>1 DEF OpToRel
  <2> QED
    BY <2>1, <2>2
<1> QED
  BY <1>3

LEMMA CheckHeartbeatsStep ==
  ASSUME ConnectionsInv, CheckHeartbeats
  PROVE  ConnectionsInv'
<1>1. /\ io.at \in {"dispatch", "scan"} /\ ~stopping /\ conn' = conn
      /\ UNCHANGED <<wakeVars, next, backlog>> /\ IoOK(io) /\ Runs(io)
  BY DEF CheckHeartbeats, ConnectionsInv, AllCovered
<1>2. io.at \notin Busy /\ \A x \in Tokens : ~InBatch(io, x)
  BY <1>1 DEF Runs, InBatch, Busy
<1>3. PICK left : left = {x \in Tokens : Open(x) /\ x > scan.after /\ x <= scan.through}
  OBVIOUS
<1>4. PICK s : s = CHOOSE x \in left : \A y \in left : x <= y
  OBVIOUS
<1>5. PICK done, turn, read :
        /\ done = [io EXCEPT !.at = "wait", !.batch = <<>>, !.back = "dispatch"]
        /\ turn = [io EXCEPT !.at = "scan", !.back = "scan", !.batch = Append(@, s)]
        /\ read = [turn EXCEPT !.at = "read", !.s = s]
  OBVIOUS
<1>6. io' = done \/ (left # {} /\ io' \in {turn, read})
  BY <1>3, <1>4, <1>5 DEF CheckHeartbeats
<1>7. CASE io' = done
  <2>1. DOMAIN done = IoFields /\ done.at = "wait" /\ done.batch = <<>> /\ done.back = "dispatch"
        /\ done.events = io.events
    BY <1>1, <1>5 DEF IoOK, IoFields
  <2>2. IoOK(done) /\ Runs(done) /\ done.at \notin Busy
    BY <1>1, <2>1 DEF IoOK, Runs, Busy
  <2> QED
    BY <1>1, <1>2, <1>7, <2>1, <2>2, MoveStep
<1>8. CASE left # {} /\ io' \in {turn, read}
  <2>1. s \in left
    BY <1>3, <1>4, <1>8, SmallestToken
  <2>2. s \in Tokens /\ Open(s)
    BY <1>3, <2>1
  <2>3. Append(io.batch, s) \in Seq(Tokens)
    BY <1>1, <2>2 DEF IoOK
  <2>4. DOMAIN turn = IoFields /\ turn.at = "scan" /\ turn.batch = Append(io.batch, s)
        /\ turn.back = "scan" /\ turn.events = io.events
    BY <1>1, <1>5 DEF IoOK, IoFields
  <2>5. DOMAIN read = IoFields /\ read.at = "read" /\ read.batch = Append(io.batch, s)
        /\ read.back = "scan" /\ read.events = io.events /\ read.s = s
    BY <1>5, <2>4 DEF IoFields
  <2>6. IoOK(turn) /\ Runs(turn) /\ turn.at \notin Busy
    BY <1>1, <2>3, <2>4 DEF IoOK, Runs, Busy
  <2>7. IoOK(read) /\ Runs(read)
    BY <1>1, <2>3, <2>5 DEF IoOK, Runs, Busy
  <2>8. CASE io' = turn
    BY <1>1, <1>2, <2>4, <2>6, <2>8, MoveStep
  <2>9. CASE io' = read
    BY <1>1, <1>2, <2>2, <2>5, <2>7, <2>9, MoveStep
  <2> QED
    BY <1>8, <2>8, <2>9
<1> QED
  BY <1>6, <1>7, <1>8

LEMMA EpollWaitStep ==
  ASSUME ConnectionsInv, EpollWait
  PROVE  ConnectionsInv'
<1>1. /\ io.at = "wait" /\ ~stopping /\ conn' = conn
      /\ UNCHANGED <<wakeVars, next, backlog>> /\ IoOK(io) /\ Runs(io)
  BY DEF EpollWait, ConnectionsInv, AllCovered
<1>2. PICK E : E = Events
  OBVIOUS
<1>3. \A e \in E : e.t = "session" => e.s \in Tokens
  BY <1>2 DEF Events
<1>4. PICK w : w = [io EXCEPT !.at = "dispatch", !.events = E]
  OBVIOUS
<1>5. io' = w
  BY <1>2, <1>4 DEF EpollWait
<1>6. DOMAIN w = IoFields /\ w.at = "dispatch" /\ w.batch = io.batch /\ w.back = io.back
      /\ w.events = E
  BY <1>1, <1>4 DEF IoOK, IoFields
<1>7. IoOK(w) /\ Runs(w) /\ w.at \notin Busy /\ io.at \notin Busy
  BY <1>1, <1>3, <1>6 DEF IoOK, Runs, Busy
<1>8. \A x \in Tokens : ~InBatch(io, x)
  BY <1>1 DEF Runs, InBatch
<1> QED
  BY <1>1, <1>5, <1>6, <1>7, <1>8, MoveStep

LEMMA ShutdownStep ==
  ASSUME ConnectionsInv, Shutdown
  PROVE  ConnectionsInv'
<1>1. /\ stopping /\ stopping' = stopping /\ io.at \in {"wait", "dispatch", "scan"}
      /\ next' = next /\ backlog' = backlog /\ IoOK(io)
  BY DEF Shutdown, ConnectionsInv
<1>2. PICK open : open = {s \in Tokens : Open(s)}
  OBVIOUS
<1>3. CASE open = {}
  <2>1. PICK w : w = [io EXCEPT !.at = "down"]
    OBVIOUS
  <2>2. io' = w /\ conn' = conn /\ ready' = <<>> /\ noted' = {} /\ wakeFd' = FALSE
    BY <1>2, <1>3, <2>1 DEF Shutdown
  <2>3. DOMAIN w = IoFields /\ w.at = "down" /\ w.batch = io.batch /\ w.back = io.back
        /\ w.events = io.events
    BY <1>1, <2>1 DEF IoOK, IoFields
  <2>4. IoOK(w) /\ w.at \notin Busy
    BY <1>1, <2>3 DEF IoOK, Busy
  <2>5. Sessions' /\ Fresh'
    BY <1>1, <2>2 DEF ConnectionsInv, Sessions, Fresh
  <2>6. WakeOK'
    BY <1>1, <2>2 DEF WakeOK
  <2>7. Current' /\ Down'
    BY <1>2, <1>3, <2>2, <2>3, <2>4 DEF Current, Down, Open
  <2>8. AllCovered'
    BY <1>1 DEF AllCovered
  <2> QED
    BY <2>2, <2>4, <2>5, <2>6, <2>7, <2>8 DEF ConnectionsInv
<1>4. CASE open # {}
  <2>1. PICK s : s = CHOOSE x \in open : \A y \in open : x <= y
    OBVIOUS
  <2>2. s \in Tokens /\ Open(s)
    BY <1>2, <1>4, <2>1, SmallestToken
  <2>3. PICK w : w = [io EXCEPT !.at = "wait", !.events = {}]
    OBVIOUS
  <2>4. conn' = [conn EXCEPT ![s] = CloseClient(conn[s])] /\ io' = w /\ UNCHANGED wakeVars
    BY <1>1, <1>2, <1>4, <2>1, <2>3 DEF Shutdown, wakeVars
  <2>5. DOMAIN w = IoFields /\ w.at = "wait" /\ w.batch = io.batch /\ w.back = io.back
        /\ w.events = {}
    BY <1>1, <2>3 DEF IoOK, IoFields
  <2>6. IoOK(w) /\ w.at \notin Busy /\ io.at \notin Busy
    BY <1>1, <2>5 DEF IoOK, Busy
  <2>7. PICK d : d = CloseClient(conn[s])
    OBVIOUS
  <2>8. SessionOK(d) /\ d.st = "gone"
    BY <2>2, <2>7, CloseSession DEF ConnectionsInv, Sessions, Open
  <2> QED
    BY <1>1, <2>2, <2>4, <2>5, <2>6, <2>7, <2>8, VisitStep
<1> QED
  BY <1>3, <1>4

\* The thread's place after an event has left the round.
LEMMA RestPlace ==
  ASSUME IoOK(io), io.at = "dispatch", Runs(io), NEW e, NEW w, w = [io EXCEPT !.events = @ \ {e}]
  PROVE  /\ DOMAIN w = IoFields /\ w.at = "dispatch" /\ w.batch = io.batch /\ w.back = "dispatch"
         /\ w.events = io.events \ {e} /\ IoOK(w) /\ Runs(w)
         /\ io.at \notin Busy /\ w.at \notin Busy
         /\ \A x \in Tokens : ~InBatch(io, x)
<1>1. /\ DOMAIN w = IoFields /\ w.at = "dispatch" /\ w.batch = io.batch /\ w.back = io.back
      /\ w.events = io.events \ {e}
  BY DEF IoOK, IoFields
<1>2. io.back = "dispatch"
  BY DEF Runs
<1>3. IoOK(w) /\ Runs(w) /\ io.at \notin Busy /\ w.at \notin Busy
  BY <1>1, <1>2 DEF IoOK, Runs, Busy
<1>4. \A x \in Tokens : ~InBatch(io, x)
  BY <1>2 DEF InBatch
<1> QED
  BY <1>1, <1>2, <1>3, <1>4

LEMMA AcceptStep ==
  ASSUME ConnectionsInv, NEW failed \in BOOLEAN, AcceptClients(failed), NEW w, io' = w,
         IoOK(w), Runs(w), w.at \notin Busy, io.at \notin Busy,
         \A x \in Tokens : ~InBatch(io, x)
  PROVE  ConnectionsInv'
<1>1. PICK n : n = IF backlog < Batch THEN backlog ELSE Batch
  OBVIOUS
<1>2. next \in Nat /\ backlog \in Nat /\ n \in Nat /\ n <= backlog
  BY <1>1, ConnectionBounds DEF ConnectionsInv, Fresh
<1>3. PICK st, new : st = (IF failed THEN "refused" ELSE "open") /\ new = [NoSession EXCEPT !.st = st]
  OBVIOUS
<1>4. SessionOK(new) /\ new.st = st /\ ~HasPendingWrite(new)
  BY <1>3, NewSession
<1>5. /\ conn' = [s \in Tokens |-> IF s \in next..(next + n - 1) THEN new ELSE conn[s]]
      /\ next' = next + n /\ backlog' = backlog - n /\ UNCHANGED wakeVars
  BY <1>1, <1>3 DEF AcceptClients
<1>6. Tokens \subseteq Nat
  BY ConnectionBounds DEF Tokens
<1>7. \A s \in Tokens : conn'[s] = new \/ conn'[s] = conn[s]
  BY <1>5
<1>8. Sessions'
  BY <1>4, <1>5, <1>7 DEF ConnectionsInv, Sessions
<1>9. Fresh'
  <2>1. next' \in Nat /\ backlog' \in Nat
    BY <1>2, <1>5
  <2>2. ASSUME NEW s \in Tokens, s >= next'
        PROVE  conn'[s].st = "none"
    <3>1. s \in Nat /\ s >= next /\ s \notin next..(next + n - 1)
      BY <1>2, <1>5, <1>6, <2>2
    <3> QED
      BY <1>5, <3>1 DEF ConnectionsInv, Fresh
  <2> QED
    BY <2>1, <2>2 DEF Fresh
<1>10. WakeOK' /\ ready' = ready /\ stopping' = stopping
  BY <1>5 DEF ConnectionsInv, WakeOK, wakeVars
<1>11. Current' /\ Down'
  BY DEF Current, Down, Runs
<1>12. ASSUME ~stopping', NEW x \in Tokens, Open(x)', HasPendingWrite(conn'[x])
       PROVE  Covered(x)'
  <2>1. conn'[x] = conn[x]
    BY <1>4, <1>7, <1>12
  <2>2. Covered(x)
    BY <1>10, <1>12, <2>1 DEF ConnectionsInv, AllCovered, Open
  <2> QED
    BY <1>10, <2>1, <2>2 DEF Covered, Visited
<1>13. AllCovered'
  BY <1>12 DEF AllCovered
<1> QED
  BY <1>8, <1>9, <1>10, <1>11, <1>13 DEF ConnectionsInv

LEMMA TakeStep ==
  ASSUME ConnectionsInv, NEW n \in 0..Len(ready), Take(n), NEW w, io' = w,
         DOMAIN w = IoFields, w.at = "wakeup", w.back = "dispatch",
         w.batch = SubSeq(ready, 1, n), w.events \subseteq io.events,
         UNCHANGED <<conn, next, backlog>>, io.at \notin Busy,
         \A x \in Tokens : ~InBatch(io, x)
  PROVE  ConnectionsInv'
<1>1. /\ WakeOK' /\ stopping' = stopping /\ w.batch \in Seq(Tokens)
      /\ \A x : Listed(ready, x) => Listed(ready', x) \/ Listed(w.batch, x)
  BY TakeKeeps DEF ConnectionsInv
<1>2. IoOK(w) /\ Runs(w) /\ w.at \notin Busy
  BY <1>1 DEF ConnectionsInv, IoOK, Runs, Busy
<1>3. Sessions' /\ Fresh'
  BY DEF ConnectionsInv, Sessions, Fresh
<1>4. Current' /\ Down'
  BY <1>2 DEF Current, Down
<1>5. ASSUME ~stopping', NEW x \in Tokens, Open(x)', HasPendingWrite(conn'[x])
      PROVE  Covered(x)'
  <2>1. Covered(x)
    BY <1>1, <1>5 DEF ConnectionsInv, AllCovered, Open
  <2> QED
    BY <1>1, <1>2, <2>1 DEF Covered, Visited, InBatch
<1>6. AllCovered'
  BY <1>2, <1>5 DEF AllCovered
<1> QED
  BY <1>1, <1>2, <1>3, <1>4, <1>6 DEF ConnectionsInv

LEMMA DispatchStep ==
  ASSUME ConnectionsInv, Dispatch
  PROVE  ConnectionsInv'
<1>1. io.at = "dispatch" /\ ~stopping /\ IoOK(io) /\ Runs(io)
  BY DEF Dispatch, ConnectionsInv, AllCovered
<1>2. PICK n : n = IF Len(ready) < Batch THEN Len(ready) ELSE Batch
  OBVIOUS
<1>3. PICK e \in io.events :
        LET rest == [io EXCEPT !.events = @ \ {e}]
        IN  \/ /\ e.t = "listen" /\ io' = rest
               /\ \E failed \in BOOLEAN : AcceptClients(failed)
            \/ /\ e.t = "timer" /\ io' = rest
               /\ \E slow \in BOOLEAN : HandleTimer(slow)
            \/ /\ e.t = "wake" /\ Take(n)
               /\ io' = [rest EXCEPT !.at = "wakeup", !.batch = SubSeq(ready, 1, n)]
               /\ UNCHANGED <<conn, backlog, next, timerFd, scan>>
            \/ /\ e.t = "session"
               /\ IF ~Open(e.s) THEN io' = rest /\ UNCHANGED conn
                  ELSE IF e.in
                    THEN /\ io' = [rest EXCEPT !.at = "read", !.s = e.s, !.out = e.out]
                         /\ UNCHANGED conn
                  ELSE HandleWrite(e.s, conn[e.s], rest)
               /\ UNCHANGED <<wakeVars, backlog, next, timerFd, scan, sends>>
  BY <1>2 DEF Dispatch
<1>4. PICK w : w = [io EXCEPT !.events = @ \ {e}]
  OBVIOUS
<1>5. /\ DOMAIN w = IoFields /\ w.at = "dispatch" /\ w.batch = io.batch /\ w.back = "dispatch"
      /\ w.events = io.events \ {e} /\ IoOK(w) /\ Runs(w)
      /\ io.at \notin Busy /\ w.at \notin Busy
      /\ \A x \in Tokens : ~InBatch(io, x)
  BY <1>1, <1>4, RestPlace
<1>6. CASE e.t = "listen" /\ io' = w /\ \E failed \in BOOLEAN : AcceptClients(failed)
  BY <1>5, <1>6, AcceptStep
<1>7. CASE e.t = "timer" /\ io' = w /\ \E slow \in BOOLEAN : HandleTimer(slow)
  <2>1. UNCHANGED <<conn, wakeVars, next, backlog>>
    BY <1>7 DEF HandleTimer
  <2> QED
    BY <1>5, <1>7, <2>1, MoveStep
<1>8. CASE /\ e.t = "wake" /\ Take(n)
           /\ io' = [w EXCEPT !.at = "wakeup", !.batch = SubSeq(ready, 1, n)]
           /\ UNCHANGED <<conn, backlog, next, timerFd, scan>>
  <2>1. n \in 0..Len(ready)
    BY <1>2, ConnectionBounds DEF ConnectionsInv, WakeOK
  <2>2. PICK v : v = [w EXCEPT !.at = "wakeup", !.batch = SubSeq(ready, 1, n)]
    OBVIOUS
  <2>3. /\ DOMAIN v = IoFields /\ v.at = "wakeup" /\ v.back = "dispatch"
        /\ v.batch = SubSeq(ready, 1, n) /\ v.events \subseteq io.events
    BY <1>5, <2>2 DEF IoFields
  <2> QED
    BY <1>5, <1>8, <2>1, <2>2, <2>3, TakeStep
<1>9. CASE /\ e.t = "session"
           /\ IF ~Open(e.s) THEN io' = w /\ UNCHANGED conn
              ELSE IF e.in
                THEN /\ io' = [w EXCEPT !.at = "read", !.s = e.s, !.out = e.out]
                     /\ UNCHANGED conn
              ELSE HandleWrite(e.s, conn[e.s], w)
           /\ UNCHANGED <<wakeVars, backlog, next, timerFd, scan, sends>>
  <2>1. PICK s : s = e.s
    OBVIOUS
  <2>2. s \in Tokens /\ UNCHANGED <<wakeVars, next, backlog>>
    BY <1>1, <1>9, <2>1 DEF IoOK
  <2>3. CASE ~Open(s)
    BY <1>5, <1>9, <2>1, <2>2, <2>3, MoveStep
  <2>4. CASE Open(s) /\ e.in
    <3>1. PICK v : v = [w EXCEPT !.at = "read", !.s = s, !.out = e.out]
      OBVIOUS
    <3>2. io' = v /\ conn' = conn
      BY <1>9, <2>1, <2>4, <3>1
    <3>3. GoesTo(w, v, "read", s)
      BY <1>5, <3>1 DEF GoesTo, IoFields
    <3>4. IoOK(v) /\ Runs(v) /\ v.at = "read" /\ v.s = s
      BY <1>5, <3>3, VisitPlace DEF Busy
    <3> QED
      BY <1>5, <2>2, <2>4, <3>2, <3>4, MoveStep
  <2>5. CASE Open(s) /\ ~e.in
    <3>1. HandleWrite(s, conn[s], w)
      BY <1>9, <2>1, <2>5
    <3>2. Keeps(w, s)
      BY <1>5 DEF Keeps
    <3> QED
      BY <1>5, <2>2, <2>5, <3>1, <3>2, HandleWriteStep
  <2> QED
    BY <2>3, <2>4, <2>5
<1> QED
  BY <1>3, <1>4, <1>6, <1>7, <1>8, <1>9

-----------------------------------------------------------------------------
(* The theorems                                                            *)

LEMMA InitConnections == Init => ConnectionsInv
<1> SUFFICES ASSUME Init PROVE ConnectionsInv
  OBVIOUS
<1>1. PICK none, open : none = [NoSession EXCEPT !.st = "none"]
                     /\ open = [NoSession EXCEPT !.st = "open"]
  OBVIOUS
<1>2. SessionOK(none) /\ none.st = "none" /\ SessionOK(open) /\ open.st = "open"
      /\ ~HasPendingWrite(none) /\ ~HasPendingWrite(open)
  BY <1>1, NewSession
<1>3. none = NoSession
  BY <1>1 DEF NoSession
<1>4. PICK first : first = [NoSession EXCEPT !.st = "open", !.user = TRUE, !.hb = TRUE, !.seq = 1]
  OBVIOUS
<1>5. Same(open, first)
  BY <1>1, <1>4 DEF NoSession, Same, Fields
<1>6. SessionOK(first) /\ ~HasPendingWrite(first)
  BY <1>2, <1>5, SameSession
<1>7. conn = [s \in Tokens |-> IF s = 1 THEN first ELSE none]
  BY <1>3, <1>4 DEF Init
<1>8. Sessions
  BY <1>2, <1>6, <1>7 DEF Sessions
<1>9. Fresh
  <2>1. next = 2 /\ backlog = 0
    BY DEF Init
  <2>2. ASSUME NEW s \in Tokens, s >= next
        PROVE  conn[s].st = "none"
    BY <1>2, <1>7, <2>1, <2>2, ConnectionBounds DEF Tokens
  <2> QED
    BY <2>1, <2>2 DEF Fresh
<1>10. WakeOK
  BY DEF Init, WakeOK
<1>11. DOMAIN io = IoFields /\ io.at = "wait" /\ io.back = "dispatch" /\ io.batch = <<>> /\ io.events = {}
  BY DEF Init, IoFields
<1>12. IoOK(io) /\ Current /\ Down /\ Runs(io)
  BY <1>11 DEF IoOK, Current, Down, Runs, Busy
<1>13. AllCovered
  BY <1>2, <1>6, <1>7, <1>12 DEF AllCovered
<1> QED
  BY <1>8, <1>9, <1>10, <1>12, <1>13 DEF ConnectionsInv

LEMMA StutterConnections ==
  ASSUME ConnectionsInv, UNCHANGED vars
  PROVE  ConnectionsInv'
<1>1. /\ conn' = conn /\ ready' = ready /\ noted' = noted /\ wakeFd' = wakeFd
      /\ stopping' = stopping /\ backlog' = backlog /\ next' = next /\ io' = io
  BY DEF vars, wakeVars
<1>2. Sessions' /\ Fresh' /\ WakeOK' /\ Current' /\ Down'
  BY <1>1 DEF ConnectionsInv, Sessions, Fresh, WakeOK, Current, Down, Open
<1>3. AllCovered'
  BY <1>1 DEF ConnectionsInv, AllCovered, Covered, Open
<1> QED
  BY <1>1, <1>2, <1>3 DEF ConnectionsInv

LEMMA NextConnections == ConnectionsInv /\ [Next]_vars => ConnectionsInv'
<1> SUFFICES ASSUME ConnectionsInv, [Next]_vars PROVE ConnectionsInv'
  OBVIOUS
<1>1. CASE Stop \/ Connect \/ TimerExpires
  BY <1>1, OutsideStep
<1>2. ASSUME NEW s \in Tokens, NEW len \in 1..(MaxPayload + 1), BusinessSend(s, len)
      PROVE  ConnectionsInv'
  BY <1>2, BusinessSendStep
<1>3. ASSUME NEW s \in Tokens, BusinessClose(s)
      PROVE  ConnectionsInv'
  BY <1>3, BusinessCloseStep
<1>4. ASSUME NEW s \in Tokens, Login(s)
      PROVE  ConnectionsInv'
  BY <1>4, LoginStep
<1>5. ASSUME NEW s \in Tokens,
             \/ ClientReads(s) \/ DeadlinePasses(s) \/ RecheckPasses(s)
             \/ \E f \in ClientFrames : ClientSend(s, f)
      PROVE  ConnectionsInv'
  BY <1>5, ClientStep
<1>6. CASE SocketError
  BY <1>6, SocketErrorStep
<1>7. CASE EpollWait
  BY <1>7, EpollWaitStep
<1>8. CASE Dispatch
  BY <1>8, DispatchStep
<1>9. CASE HandleWakeup
  BY <1>9, HandleWakeupStep
<1>10. CASE HandleRead
  BY <1>10, HandleReadStep
<1>11. CASE SendSome
  BY <1>11, SendSomeStep
<1>12. CASE EpollCtl
  BY <1>12, EpollCtlStep
<1>13. CASE CheckHeartbeats
  BY <1>13, CheckHeartbeatsStep
<1>14. CASE Shutdown
  BY <1>14, ShutdownStep
<1>15. CASE UNCHANGED vars
  BY <1>15, StutterConnections
<1> QED
  BY <1>1, <1>2, <1>3, <1>4, <1>5, <1>6, <1>7, <1>8, <1>9, <1>10, <1>11, <1>12, <1>13, <1>14,
     <1>15 DEF Next, Environment, IoStep

\* The inductive invariant holds in every state of the I/O loop, whatever the
\* limits of the queues, the batch, the socket buffers and the budget are.
THEOREM ConnectionsInvariant == Spec => []ConnectionsInv
  BY InitConnections, NextConnections, PTL DEF Spec

\* Session::Send, RequestClose and HandleWrite against IoWakeup: when the I/O
\* thread is about to block, no session with something to write is forgotten.
THEOREM NoSessionIsStranded == Spec => []NothingStranded
<1>1. ConnectionsInv => NothingStranded
  <2> SUFFICES ASSUME ConnectionsInv, io.at = "wait", ~stopping, NEW s \in Tokens,
                      Open(s), HasPendingWrite(conn[s])
               PROVE  conn[s].out \/ (wakeFd /\ \E i \in DOMAIN ready : ready[i] = s)
    BY DEF NothingStranded
  <2>1. Covered(s) /\ Runs(io) /\ ready \in Seq(Tokens) /\ (ready = <<>> \/ wakeFd)
    BY DEF ConnectionsInv, AllCovered, WakeOK
  <2>2. ~InBatch(io, s) /\ io.at \notin Busy
    BY <2>1 DEF Runs, InBatch, Busy
  <2>3. CASE Listed(ready, s)
    BY <2>1, <2>3 DEF Listed
  <2>4. CASE ~Listed(ready, s)
    BY <2>1, <2>2, <2>4 DEF Covered, Visited
  <2> QED
    BY <2>3, <2>4
<1> QED
  BY <1>1, ConnectionsInvariant, PTL

\* Two runs of numbers, the second after the first.
LEMMA ConcatNumbers ==
  ASSUME NEW g \in Seq(Nat), NEW p \in Seq(Nat),
         \A i \in 1..Len(g) : g[i] = i, \A i \in 1..Len(p) : p[i] = Len(g) + i
  PROVE  g \o p = [i \in 1..(Len(g) + Len(p)) |-> i]
<1>1. Len(g) \in Nat /\ Len(p) \in Nat
  OBVIOUS
<1>2. PICK h : h = g \o p
  OBVIOUS
<1>3. h \in Seq(Nat) /\ Len(h) = Len(g) + Len(p)
  BY <1>2
<1>4. \A i \in 1..Len(h) : h[i] = IF i <= Len(g) THEN g[i] ELSE p[i - Len(g)]
  BY <1>2
<1>5. ASSUME NEW i \in 1..Len(h)
      PROVE  h[i] = i
  <2>1. CASE i <= Len(g)
    <3>1. i \in 1..Len(g)
      BY <1>1, <1>3, <2>1
    <3>2. h[i] = g[i]
      BY <1>4, <2>1
    <3> QED
      BY <3>1, <3>2
  <2>2. CASE i > Len(g)
    <3>1. i - Len(g) \in 1..Len(p) /\ Len(g) + (i - Len(g)) = i
      BY <1>1, <1>3, <2>2
    <3>2. h[i] = p[i - Len(g)]
      BY <1>1, <1>3, <1>4, <2>2
    <3> QED
      BY <3>1, <3>2
  <2> QED
    BY <1>1, <1>3, <2>1, <2>2
<1>6. h = [i \in 1..Len(h) |-> h[i]]
  BY <1>3
<1>7. h = [i \in 1..Len(h) |-> i]
  BY <1>5, <1>6
<1> QED
  BY <1>2, <1>3, <1>7

\* Send, the swap of the queues and partial sends in HandleWrite: a client that
\* stays connected gets the frames that a frame header can carry whole, in order
\* and without a gap, the counters that limit the queue count exactly what is in
\* it, and a payload over the limit never gets into it.
THEOREM FramesStayInOrder == Spec => []FramesInOrder
<1>1. ConnectionsInv => FramesInOrder
  <2> SUFFICES ASSUME ConnectionsInv, NEW s \in Tokens, Open(s), ~conn[s].closeReq
               PROVE  LET queue == conn[s].sendq \o conn[s].pending
                      IN  /\ conn[s].got \o [i \in DOMAIN queue |-> queue[i].n]
                               = [i \in 1..conn[s].asked |-> i]
                          /\ conn[s].frames = Len(queue)
                          /\ TotalLength(queue, conn[s].bytes)
                          /\ \A i \in DOMAIN queue : queue[i].len <= MaxPayload
    BY DEF FramesInOrder
  <2>1. PICK c, q : c = conn[s] /\ q = c.sendq \o c.pending
    OBVIOUS
  <2>2. /\ c.sendq \in Seq(Frame) /\ c.pending \in Seq(Frame) /\ Numbered(c.got, q, c.asked)
        /\ c.frames = Len(q) /\ Totals(q, c.bytes)
    BY <2>1 DEF ConnectionsInv, Sessions, SessionOK, InOrder, Open
  <2>3. q \in Seq(Frame)
    BY <2>1, <2>2
  <2>4. TotalLength(q, c.bytes)
    BY <2>2, <2>3, TotalsAreLengths
  <2>5. PICK g, p : g = c.got /\ p = [i \in DOMAIN q |-> q[i].n]
    OBVIOUS
  <2>6. /\ g \in Seq(Nat) /\ c.asked = Len(g) + Len(q)
        /\ \A i \in 1..Len(g) : g[i] = i
        /\ \A i \in 1..Len(q) : q[i].n = Len(g) + i
    BY <2>2, <2>5 DEF Numbered
  <2>7. \A i \in 1..Len(q) : q[i].n \in Nat
    BY <2>3, <2>6
  <2>8. p \in Seq(Nat) /\ Len(p) = Len(q) /\ \A i \in 1..Len(q) : p[i] = Len(g) + i
    BY <2>3, <2>5, <2>6, <2>7
  <2>9. g \o p = [i \in 1..c.asked |-> i]
    <3>1. /\ g \in Seq(Nat) /\ p \in Seq(Nat) /\ \A i \in 1..Len(g) : g[i] = i
          /\ \A i \in 1..Len(p) : p[i] = Len(g) + i
      BY <2>6, <2>8
    <3>2. g \o p = [i \in 1..(Len(g) + Len(p)) |-> i]
      BY ONLY <3>1, ConcatNumbers
    <3> QED
      BY <2>6, <2>8, <3>2
  <2>10. \A i \in DOMAIN q : q[i].len <= MaxPayload
    <3> SUFFICES ASSUME NEW i \in DOMAIN q
                 PROVE  q[i].len <= MaxPayload
      OBVIOUS
    <3>1. q[i] \in Frame
      BY <2>3
    <3>2. q[i].len \in 1..MaxPayload
      BY <3>1 DEF Frame
    <3> QED
      BY <3>2, ConnectionBounds
  <2>11. q = conn[s].sendq \o conn[s].pending
    BY <2>1
  <2>12. /\ conn[s].got \o [i \in DOMAIN q |-> q[i].n] = [i \in 1..conn[s].asked |-> i]
         /\ conn[s].frames = Len(q)
         /\ TotalLength(q, conn[s].bytes)
    BY <2>1, <2>2, <2>4, <2>5, <2>9
  <2> QED
    BY <2>10, <2>11, <2>12
<1> QED
  BY <1>1, ConnectionsInvariant, PTL

\* CloseClient and Shutdown: every session that was accepted is reported to the
\* business side exactly once by the time the server is down, and never twice.
THEOREM DisconnectsAreOnce == Spec => []OneDisconnectEach
<1>1. ConnectionsInv => OneDisconnectEach
  BY DEF ConnectionsInv, Sessions, SessionOK, Lived, Down, Open, OneDisconnectEach
<1> QED
  BY <1>1, ConnectionsInvariant, PTL
=============================================================================
