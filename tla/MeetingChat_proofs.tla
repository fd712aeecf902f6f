------------------------- MODULE MeetingChat_proofs -------------------------
(***************************************************************************)
(* Proofs about a client that recovers its connection and its meeting, and *)
(* the server it talks to (Recovery), for any number of connections, joins *)
(* and events, with the chat going on (MeetingChat).                       *)
(*                                                                         *)
(* RecoveryInv is the inductive invariant, a predicate of the client k,    *)
(* the requests n and answers d under way, whether the connection is       *)
(* silent (q), the sessions ss, the server's record s and the number of    *)
(* joins j.                                                                *)
(*                                                                         *)
(* ChatInv is the invariant of the chat: besides these it is about the     *)
(* rows w, the stored messages t, the number of messages sent sn, those    *)
(* stored without a push sl, and whether the page is fresh (fr).  It is    *)
(* inductive given RecoveryInv.                                            *)
(***************************************************************************)
EXTENDS MeetingChat, Integers, TLAPS, WellFoundedInduction, FiniteSetTheorems

ClientFields == {"rec", "c", "sock", "meeting", "ticket", "gen", "leave", "join", "req", "peer",
                 "left", "invalid"}
SrvFields == {"in", "ticket", "gen", "last", "session", "deadline", "ended", "peer"}
SessFields == {"open", "user", "meeting"}

IsSeq(q) == \E S : q \in Seq(S)

(* The client by itself.                                                   *)
ClientOK(k) ==
  /\ DOMAIN k = ClientFields
  /\ k.rec \in {"Ready", "Waiting", "Connecting", "Authenticating", "Resuming", "Failed"}
  /\ k.sock \in {"none", "connecting", "up"}
  /\ k.sock = "up" <=> k.rec \in {"Ready", "Authenticating", "Resuming"}
  /\ k.ticket \in Nat /\ k.gen \in Nat /\ k.req \in Nat
  /\ k.leave => k.rec = "Ready" /\ k.meeting
  /\ k.join => k.rec = "Ready" /\ ~k.meeting /\ ~k.left
  /\ k.left => ~k.meeting \/ k.leave
  /\ k.rec = "Resuming" => k.meeting /\ k.ticket # 0
  /\ (k.rec = "Failed" \/ ~k.meeting) => k.ticket = 0 /\ ~k.meeting
  /\ ~k.invalid

(* What the client waits for when a request of type t is under way.        *)
Waits(k, t) ==
  /\ t = "resume" => k.rec = "Resuming"
  /\ t = "join" => k.join
  /\ t = "leave" => k.leave

(* The requests in order of their connections.                             *)
Ordered(n, k) ==
  /\ IsSeq(n) /\ k.c \in Conns
  /\ \A i \in 1..Len(n) : n[i].c \in 1..k.c
  /\ \A i, j \in 1..Len(n) : i <= j => n[i].c <= n[j].c

Single == {"resume", "join", "leave"}

(* A request of the connection or its answer is what the client waits for, *)
(* and there is one.                                                       *)
Outstanding(n, d, k) ==
  /\ IsSeq(d)
  /\ k.sock # "up" => d = <<>>
  /\ k.sock = "up" => \A i \in 1..Len(n) : n[i].c = k.c => Waits(k, n[i].t)
  /\ \A i \in 1..Len(d) : Waits(k, d[i].t)
  /\ \A i, j \in 1..Len(n) :
        n[i].c = k.c /\ n[j].c = k.c /\ n[i].t = n[j].t /\ n[i].t \in Single => i = j
  /\ \A i, j \in 1..Len(d) : d[i].t = d[j].t /\ d[i].t \in Single => i = j
  /\ \A i \in 1..Len(n), j \in 1..Len(d) : n[i].c = k.c /\ n[i].t = d[j].t => n[i].t \notin Single

(* Once the login is answered, nothing of earlier connections is left.     *)
Settled(n, d, k) ==
  (k.rec \in {"Ready", "Resuming"} \/ \E i \in 1..Len(d) : d[i].t = "login")
  => \A i \in 1..Len(n) : n[i].c = k.c

(* The resumes under way are for this outage.                              *)
Resumes(n, k) ==
  Recovering(k) /\ k.ticket # 0 =>
    \A i \in 1..Len(n) : n[i].t = "resume" =>
       n[i].req = k.req /\ n[i].ticket = k.ticket /\ n[i].gen = k.gen

(* They come on a connection that is logged in.                            *)
LoggedIn(n, d, k, ss) ==
  /\ \A i \in 1..Len(n) : n[i].t = "resume" /\ ss[n[i].c].open => ss[n[i].c].user
  /\ \A i \in 1..Len(d) : d[i].t = "login" /\ d[i].result = "ok" /\ ss[k.c].open => ss[k.c].user

ServerOK(s, ss, k, j) ==
  /\ DOMAIN s = SrvFields /\ DOMAIN ss = Conns
  /\ \A c \in Conns : DOMAIN ss[c] = SessFields
  /\ j \in Nat /\ s.ticket \in 1..j /\ k.ticket <= j /\ s.gen \in Nat
  /\ s.session \in 0..MaxConns
  /\ s.deadline # "none" => s.session = 0
  /\ s.ended => ~s.in

(* The generation is the one the client knows, or that of a resume of this *)
(* outage whose answer it has not got.                                     *)
Generation(s, k) ==
  s.in /\ k.ticket # 0 /\ s.ticket = k.ticket =>
    s.gen = k.gen \/ (Recovering(k) /\ s.gen > k.gen /\ s.last = k.req)

Gone(s, k) == ~s.in \/ s.deadline = "over" \/ s.ended \/ s.ticket # k.ticket

AnswerTypes == {"login", "resume", "join", "leave", "chat", "push", "history",
                "joined", "left", "reconnecting", "reconnected", "ended"}

(* The answers on their way are true.                                      *)
AnswerOK(m, k, s, j) ==
  /\ m.t \in AnswerTypes
  /\ m.t = "resume" => /\ m.req = k.req
                       /\ m.result \in {"ok", "busy", "refused"}
                       /\ m.result = "refused" => Gone(s, k)
  /\ m.t \in {"resume", "join"} /\ m.result = "ok" =>
       /\ m.ticket \in 1..j /\ m.gen \in Nat
       /\ s.in /\ s.ticket = m.ticket => m.gen = s.gen
  /\ m.t = "resume" /\ m.result = "ok" => m.ticket = k.ticket /\ m.gen >= k.gen
  /\ m.t = "ended" => s.ended

Answers(d, k, s, j) == \A i \in 1..Len(d) : AnswerOK(d[i], k, s, j)

(* The connection carries what either end sends.                           *)
Live(k, q, ss, s) == k.sock = "up" /\ ~q /\ ss[k.c].open /\ ~s.ended

(* The client is a member on its connection with ticket t.                 *)
Bound(k, ss, s, t) ==
  /\ s.in /\ s.session = k.c /\ s.deadline = "none" /\ ss[k.c].meeting /\ s.ticket = t

Snapshot(m) == m.t \in {"resume", "join"} /\ m.result = "ok"
Left(m) == m.t = "leave" /\ m.result = "ok"


InMeeting(k, d) == k.rec = "Ready" /\ k.meeting /\ \A i \in 1..Len(d) : ~Left(d[i])
Snapped(d) == \E i \in 1..Len(d) : Snapshot(d[i])

Membership(k, d, q, ss, s) ==
  Live(k, q, ss, s) =>
    /\ InMeeting(k, d) => Bound(k, ss, s, k.ticket)
    /\ \A i \in 1..Len(d) : Snapshot(d[i]) => Bound(k, ss, s, d[i].ticket)

(* The other member, as the client shows it after the message m.           *)
After(m, p) ==
  IF Snapshot(m) THEN m.peer
  ELSE IF m.t = "left" THEN "absent"
  ELSE IF m.t = "joined" /\ p = "absent" THEN "active"
  ELSE IF m.t = "reconnecting" /\ p # "absent" THEN "reconnecting"
  ELSE IF m.t = "reconnected" /\ p # "absent" THEN "active"
  ELSE p

Trace(d, p) == \A i \in 1..Len(d) : p[i] = After(d[i], p[i - 1])

Here(k, d, q, ss, s) == Live(k, q, ss, s) /\ (InMeeting(k, d) \/ Snapped(d))

Follows(k, d, q, ss, s, p) ==
  /\ Trace(d, p)
  /\ k.rec = "Ready" /\ k.meeting => p[0] = k.peer
  /\ Here(k, d, q, ss, s) => p[Len(d)] = s.peer

Channel(k, n, d) ==
  /\ ClientOK(k) /\ Ordered(n, k) /\ Outstanding(n, d, k) /\ Settled(n, d, k) /\ Resumes(n, k)

State(k, n, d, q, ss, s, j) ==
  /\ Channel(k, n, d)
  /\ LoggedIn(n, d, k, ss) /\ ServerOK(s, ss, k, j) /\ Generation(s, k)
  /\ Answers(d, k, s, j) /\ Membership(k, d, q, ss, s)
  /\ \E p : Follows(k, d, q, ss, s, p)

RecoveryInv == State(cl, net, down, silent, sess, srv, joins)

-----------------------------------------------------------------------------
(* Sequences                                                               *)

LEMMA AppendIs ==
  ASSUME NEW s, IsSeq(s), NEW h
  PROVE  /\ IsSeq(Append(s, h)) /\ Len(s) \in Nat /\ Len(Append(s, h)) = Len(s) + 1
         /\ Append(s, h)[Len(s) + 1] = h
         /\ \A i \in 1..Len(s) : Append(s, h)[i] = s[i]
         /\ Append(s, h) # <<>>
<1>1. PICK S : s \in Seq(S)
  BY DEF IsSeq
<1>2. PICK T : T = S \cup {h}
  OBVIOUS
<1>3. s \in Seq(T) /\ h \in T
  BY <1>1, <1>2
<1>4. PICK p : p = Append(s, h)
  OBVIOUS
<1>5. p \in Seq(T) /\ Len(p) = Len(s) + 1 /\ Len(s) \in Nat
  BY <1>3, <1>4
<1>6. p[Len(s) + 1] = h /\ \A i \in 1..Len(s) : p[i] = s[i]
  BY <1>3, <1>4
<1>7. p # <<>>
  BY <1>5
<1> QED
  BY <1>4, <1>5, <1>6, <1>7 DEF IsSeq

LEMMA TailIs ==
  ASSUME NEW s, IsSeq(s), s # <<>>
  PROVE  /\ IsSeq(Tail(s)) /\ Len(s) \in Nat /\ Len(s) >= 1 /\ Len(Tail(s)) = Len(s) - 1
         /\ Head(s) = s[1]
         /\ \A i \in 1..Len(Tail(s)) : Tail(s)[i] = s[i + 1] /\ i + 1 \in 1..Len(s) /\ i + 1 # 1
<1>1. PICK S : s \in Seq(S)
  BY DEF IsSeq
<1>2. Tail(s) \in Seq(S) /\ Len(s) \in Nat /\ Len(s) >= 1 /\ Len(Tail(s)) = Len(s) - 1
  BY <1>1
<1>3. Head(s) = s[1] /\ \A i \in 1..Len(s) - 1 : Tail(s)[i] = s[i + 1]
  BY <1>1
<1> QED
  BY <1>2, <1>3 DEF IsSeq

LEMMA PrefixIs ==
  ASSUME NEW s, IsSeq(s), NEW m \in 0..Len(s)
  PROVE  /\ IsSeq(SubSeq(s, 1, m)) /\ Len(SubSeq(s, 1, m)) = m
         /\ Len(s) \in Nat /\ \A i \in 1..m : SubSeq(s, 1, m)[i] = s[i] /\ i \in 1..Len(s)
<1>1. PICK S : s \in Seq(S)
  BY DEF IsSeq
<1>2. SubSeq(s, 1, m) \in Seq(S) /\ Len(SubSeq(s, 1, m)) = m /\ Len(s) \in Nat
  BY <1>1
<1>3. \A i \in 1..m : SubSeq(s, 1, m)[i] = s[i]
  BY <1>1
<1> QED
  BY <1>2, <1>3 DEF IsSeq

LEMMA EmptyIs == IsSeq(<<>>) /\ Len(<<>>) = 0
<1>1. <<>> \in Seq({})
  OBVIOUS
<1> QED
  BY <1>1 DEF IsSeq

LEMMA NoneAdded == ASSUME NEW s, IsSeq(s) PROVE s \o <<>> = s
<1>1. PICK S : s \in Seq(S)
  BY DEF IsSeq
<1> QED
  BY <1>1

LEMMA OneAdded == ASSUME NEW s, IsSeq(s), NEW h PROVE s \o <<h>> = Append(s, h)
<1>1. PICK S : s \in Seq(S)
  BY DEF IsSeq
<1>2. PICK T : T = S \cup {h}
  OBVIOUS
<1>3. s \in Seq(T) /\ h \in T
  BY <1>1, <1>2
<1> QED
  BY <1>3

-----------------------------------------------------------------------------
(* The client loses its connection                                         *)

(* What becomes of the client k0 when its connection is aborted.           *)
Outage(k0, k) ==
  /\ ClientOK(k) /\ k.sock # "up" /\ k.c = k0.c
  /\ \/ k.ticket = 0
     \/ /\ k.ticket = k0.ticket /\ k.gen = k0.gen
        /\ \/ k0.rec = "Ready"
           \/ Recovering(k0) /\ Recovering(k) /\ k.req = k0.req

(* n is n0 without some of the last requests.                              *)
Prefix(n, n0) ==
  /\ IsSeq(n) /\ Len(n) \in Nat /\ Len(n0) \in Nat /\ Len(n) <= Len(n0)
  /\ \A i \in 1..Len(n) : n[i] = n0[i] /\ i \in 1..Len(n0)

LEMMA CutIsPrefix ==
  ASSUME NEW s, IsSeq(s), NEW q \in Cuts(s)
  PROVE  Prefix(q, s)
<1>1. PICK m \in 0..Len(s) : q = SubSeq(s, 1, m)
  BY DEF Cuts
<1>2. Len(s) \in Nat
  BY TailIs, EmptyIs
<1> QED
  BY <1>1, <1>2, PrefixIs DEF Prefix

LEMMA OutageChannel ==
  ASSUME NEW k0, NEW k, NEW n0, NEW n, NEW d0,
         Channel(k0, n0, d0), Outage(k0, k), Prefix(n, n0)
  PROVE  Channel(k, n, <<>>)
<1>1. Ordered(n, k)
  BY DEF Channel, Ordered, Outage, Prefix
<1>2. Outstanding(n, <<>>, k)
  <2>1. \A i, j \in 1..Len(n) :
          n[i].c = k.c /\ n[j].c = k.c /\ n[i].t = n[j].t /\ n[i].t \in Single => i = j
    BY DEF Channel, Outstanding, Outage, Prefix
  <2> QED
    BY <2>1, EmptyIs DEF Outstanding, Outage
<1>3. Settled(n, <<>>, k)
  BY EmptyIs DEF Settled, Outage, ClientOK
<1>4. Resumes(n, k)
  <2>1. SUFFICES ASSUME Recovering(k), k.ticket # 0, NEW i \in 1..Len(n), n[i].t = "resume"
                 PROVE  n[i].req = k.req /\ n[i].ticket = k.ticket /\ n[i].gen = k.gen
    BY DEF Resumes
  <2>2. i \in 1..Len(n0) /\ n0[i] = n[i]
    BY DEF Prefix
  <2>3. k0.rec # "Ready"
    BY <2>1, <2>2 DEF Channel, ClientOK, Settled, Outstanding, Waits
  <2> QED
    BY <2>1, <2>2, <2>3 DEF Channel, Outage, Resumes
<1> QED
  BY <1>1, <1>2, <1>3, <1>4 DEF Channel, Outage

LEMMA OutageKeeps ==
  ASSUME NEW k0, NEW k, NEW n0, NEW n, NEW d0, NEW q0, NEW q, NEW ss, NEW s, NEW j,
         State(k0, n0, d0, q0, ss, s, j), Outage(k0, k), Prefix(n, n0)
  PROVE  State(k, n, <<>>, q, ss, s, j)
<1>1. Channel(k, n, <<>>)
  BY OutageChannel DEF State
<1>2. LoggedIn(n, <<>>, k, ss)
  BY EmptyIs DEF State, LoggedIn, Prefix
<1>3. ServerOK(s, ss, k, j)
  BY DEF State, ServerOK, Outage
<1>4. Generation(s, k)
  BY DEF State, Generation, Outage, Recovering
<1>5. Answers(<<>>, k, s, j) /\ Membership(k, <<>>, q, ss, s)
  BY EmptyIs DEF Answers, Membership, Live, Outage
<1>6. Follows(k, <<>>, q, ss, s, <<>>)
  BY EmptyIs DEF Follows, Trace, Here, Live, Outage, ClientOK
<1> QED
  BY <1>1, <1>2, <1>3, <1>4, <1>5, <1>6 DEF State

(* GoesSilent cuts what is under way in both directions.                   *)
LEMMA SilenceKeeps ==
  ASSUME NEW k, NEW n0, NEW n, NEW d0, NEW d, NEW q0, NEW ss, NEW s, NEW j,
         State(k, n0, d0, q0, ss, s, j), k.sock = "up", Prefix(n, n0), Prefix(d, d0)
  PROVE  State(k, n, d, TRUE, ss, s, j)
<1>1. Channel(k, n, d)
  <2>1. ClientOK(k) /\ Ordered(n, k) /\ Settled(n, d, k) /\ Resumes(n, k)
    BY DEF State, Channel, Ordered, Settled, Resumes, Prefix
  <2>2. Outstanding(n, d, k)
    <3>1. Outstanding(n0, d0, k)
      BY DEF State, Channel
    <3> QED
      BY <3>1 DEF Outstanding, Prefix
  <2> QED
    BY <2>1, <2>2 DEF Channel
<1>2. LoggedIn(n, d, k, ss)
  BY DEF State, LoggedIn, Prefix
<1>3. ServerOK(s, ss, k, j) /\ Generation(s, k)
  BY DEF State
<1>4. Answers(d, k, s, j) /\ Membership(k, d, TRUE, ss, s)
  BY DEF State, Answers, Membership, Live, Prefix
<1>5. PICK p : Follows(k, d0, q0, ss, s, p)
  BY DEF State
<1>6. Follows(k, d, TRUE, ss, s, p)
  BY <1>5 DEF Follows, Trace, Here, Live, Prefix
<1> QED
  BY <1>1, <1>2, <1>3, <1>4, <1>6 DEF State

-----------------------------------------------------------------------------
(* Steps of the client                                                     *)

(* k0 gave up its meeting, or asked for something.                         *)
Wishes(k0, k) ==
  /\ ClientOK(k) /\ k.c = k0.c /\ k.rec = k0.rec /\ k.sock = k0.sock
  /\ \/ /\ k.meeting = k0.meeting /\ k.ticket = k0.ticket /\ k.gen = k0.gen
        /\ k.req = k0.req /\ k.peer = k0.peer
     \/ ~k.meeting /\ k0.rec \notin {"Ready", "Resuming"}
  /\ \A t : Waits(k0, t) => Waits(k, t)

LEMMA WishesKeep ==
  ASSUME NEW k0, NEW k, NEW n, NEW d, NEW q, NEW ss, NEW s, NEW j,
         State(k0, n, d, q, ss, s, j), Wishes(k0, k)
  PROVE  State(k, n, d, q, ss, s, j)
<1>1. ~k.meeting => k.ticket = 0
  BY DEF Wishes, ClientOK
<1>2. Channel(k, n, d)
  <2>1. ClientOK(k) /\ Ordered(n, k) /\ Settled(n, d, k)
    BY DEF State, Channel, Wishes, Ordered, Settled
  <2>2. Outstanding(n, d, k)
    <3>1. Outstanding(n, d, k0)
      BY DEF State, Channel
    <3> QED
      BY <3>1 DEF Outstanding, Wishes
  <2>3. Resumes(n, k)
    BY <1>1 DEF State, Channel, Resumes, Wishes, Recovering
  <2> QED
    BY <2>1, <2>2, <2>3 DEF Channel
<1>3. LoggedIn(n, d, k, ss)
  BY DEF State, LoggedIn, Wishes
<1>4. ServerOK(s, ss, k, j)
  BY <1>1 DEF State, ServerOK, Wishes
<1>5. Generation(s, k)
  BY <1>1 DEF State, Generation, Wishes, Recovering
<1>6. k0.rec \notin {"Ready", "Resuming"} => \A i \in 1..Len(d) : d[i].t \notin Single
  BY DEF State, Channel, ClientOK, Outstanding, Waits, Single
<1>7. Answers(d, k, s, j)
  <2>1. SUFFICES ASSUME NEW i \in 1..Len(d) PROVE AnswerOK(d[i], k, s, j)
    BY DEF Answers
  <2>2. AnswerOK(d[i], k0, s, j)
    BY DEF State, Answers
  <2>3. CASE k0.rec \notin {"Ready", "Resuming"}
    BY <1>6, <2>2, <2>3 DEF AnswerOK, Single
  <2>4. CASE k0.rec \in {"Ready", "Resuming"}
    BY <2>2, <2>4 DEF AnswerOK, Wishes, Gone
  <2> QED
    BY <2>3, <2>4
<1>8. InMeeting(k, d) => InMeeting(k0, d)
  BY DEF InMeeting, Wishes
<1>9. Membership(k, d, q, ss, s)
  BY <1>8 DEF State, Membership, Live, InMeeting, Bound, Wishes
<1>10. PICK p : Follows(k0, d, q, ss, s, p)
  BY DEF State
<1>11. Follows(k, d, q, ss, s, p)
  BY <1>8, <1>10 DEF Follows, Here, Live, InMeeting, Wishes
<1> QED
  BY <1>2, <1>3, <1>4, <1>5, <1>7, <1>9, <1>11 DEF State

(* A request that the client may send.                                     *)
MaySend(k, n, d, ss, m) ==
  /\ k.sock = "up" /\ m.c = k.c /\ Waits(k, m.t)
  /\ m.t \in Single => /\ \A i \in 1..Len(n) : n[i].c = k.c => n[i].t # m.t
                       /\ \A i \in 1..Len(d) : d[i].t # m.t
  /\ m.t = "resume" => /\ m.req = k.req /\ m.ticket = k.ticket /\ m.gen = k.gen
                       /\ ss[k.c].open => ss[k.c].user

LEMMA SendKeeps ==
  ASSUME NEW k, NEW n0, NEW d, NEW q, NEW ss, NEW s, NEW j, NEW m,
         State(k, n0, d, q, ss, s, j), MaySend(k, n0, d, ss, m)
  PROVE  State(k, Append(n0, m), d, q, ss, s, j)
<1>1. PICK n : n = Append(n0, m)
  OBVIOUS
<1>2. /\ IsSeq(n) /\ Len(n0) \in Nat /\ Len(n) = Len(n0) + 1 /\ n[Len(n)] = m
      /\ \A i \in 1..Len(n0) : n[i] = n0[i]
  BY <1>1, AppendIs DEF State, Channel, Ordered
<1>3. \A i \in 1..Len(n) : (i \in 1..Len(n0) /\ n[i] = n0[i]) \/ (i = Len(n) /\ n[i] = m)
  BY <1>2
<1>4. Ordered(n, k)
  <2>1. k.c \in Conns /\ \A i \in 1..Len(n0) : n0[i].c \in 1..k.c
    BY DEF State, Channel, Ordered
  <2>2. \A i \in 1..Len(n) : n[i].c \in 1..k.c
    BY <1>3, <2>1 DEF MaySend, Conns
  <2>3. ASSUME NEW a \in 1..Len(n), NEW b \in 1..Len(n), a <= b
        PROVE  n[a].c <= n[b].c
    <3>1. CASE b = Len(n) /\ n[b] = m
      BY <2>2, <3>1 DEF MaySend
    <3>2. CASE b \in 1..Len(n0) /\ n[b] = n0[b]
      <4>1. a \in 1..Len(n0)
        BY <1>2, <2>3, <3>2
      <4> QED
        BY <1>2, <2>3, <3>2, <4>1 DEF State, Channel, Ordered
    <3> QED
      BY <1>3, <3>1, <3>2
  <2> QED
    BY <1>2, <2>1, <2>2, <2>3 DEF Ordered
<1>5. Outstanding(n, d, k)
  <2>1. Outstanding(n0, d, k)
    BY DEF State, Channel
  <2>2. \A i \in 1..Len(n) : n[i].c = k.c => Waits(k, n[i].t)
    BY <1>3, <2>1 DEF Outstanding, MaySend
  <2>3. ASSUME NEW a \in 1..Len(n), NEW b \in 1..Len(n),
               n[a].c = k.c, n[b].c = k.c, n[a].t = n[b].t, n[a].t \in Single
        PROVE  a = b
    BY <1>3, <2>1, <2>3 DEF Outstanding, MaySend
  <2>4. ASSUME NEW a \in 1..Len(n), NEW b \in 1..Len(d), n[a].c = k.c, n[a].t = d[b].t
        PROVE  n[a].t \notin Single
    BY <1>3, <2>1, <2>4 DEF Outstanding, MaySend
  <2> QED
    BY <2>1, <2>2, <2>3, <2>4 DEF Outstanding
<1>6. Settled(n, d, k)
  BY <1>3 DEF State, Channel, Settled, MaySend
<1>7. Resumes(n, k)
  BY <1>3 DEF State, Channel, Resumes, MaySend
<1>8. LoggedIn(n, d, k, ss)
  BY <1>3 DEF State, LoggedIn, MaySend
<1> QED
  BY <1>1, <1>4, <1>5, <1>6, <1>7, <1>8 DEF State, Channel

(* The socket of a new connection.                                         *)
LEMMA ConnectKeeps ==
  ASSUME NEW k0, NEW k, NEW n0, NEW d, NEW q, NEW ss0, NEW ss, NEW s, NEW j, NEW m,
         State(k0, n0, d, q, ss0, s, j), k0.rec = "Connecting", k0.sock = "connecting",
         k0.c < MaxConns,
         k = [k0 EXCEPT !.rec = "Authenticating", !.sock = "up", !.c = @ + 1],
         ss = [ss0 EXCEPT ![k.c].open = TRUE], m.t = "login", m.c = k.c
  PROVE  State(k, Append(n0, m), d, q, ss, s, j)
<1>1. PICK n : n = Append(n0, m)
  OBVIOUS
<1>2. /\ IsSeq(n) /\ Len(n0) \in Nat /\ Len(n) = Len(n0) + 1 /\ n[Len(n)] = m
      /\ \A i \in 1..Len(n0) : n[i] = n0[i]
  BY <1>1, AppendIs DEF State, Channel, Ordered
<1>3. \A i \in 1..Len(n) : (i \in 1..Len(n0) /\ n[i] = n0[i]) \/ (i = Len(n) /\ n[i] = m)
  BY <1>2
<1>4. DOMAIN k0 = ClientFields /\ ClientOK(k0)
  BY DEF State, Channel, ClientOK
<1>5. /\ DOMAIN k = ClientFields /\ k.rec = "Authenticating" /\ k.sock = "up" /\ k.c = k0.c + 1
      /\ k.meeting = k0.meeting /\ k.ticket = k0.ticket /\ k.gen = k0.gen /\ k.leave = k0.leave
      /\ k.join = k0.join /\ k.req = k0.req /\ k.peer = k0.peer /\ k.left = k0.left
      /\ k.invalid = k0.invalid
  BY <1>4 DEF ClientFields
<1>6. ClientOK(k)
  BY <1>4, <1>5 DEF ClientOK
<1>7. k0.c \in Conns /\ MaxConns \in Nat /\ k.c \in Conns /\ k0.c \in Nat
  BY <1>5, RecoveryBounds DEF State, Channel, Ordered, Conns
<1>8. d = <<>> /\ Len(d) = 0 /\ IsSeq(d)
  BY EmptyIs DEF State, Channel, Outstanding
<1>9. \A i \in 1..Len(n0) : n0[i].c \in 1..k0.c /\ n0[i].c # k.c
  BY <1>5, <1>7 DEF State, Channel, Ordered
<1>10. \A i \in 1..Len(n) : n[i].c \in 1..k.c
  BY <1>3, <1>5, <1>7, <1>9 DEF Conns
<1>11. Ordered(n, k)
  <2>1. ASSUME NEW a \in 1..Len(n), NEW b \in 1..Len(n), a <= b
        PROVE  n[a].c <= n[b].c
    <3>1. CASE b = Len(n) /\ n[b] = m
      BY <1>7, <1>10, <3>1
    <3>2. CASE b \in 1..Len(n0) /\ n[b] = n0[b]
      <4>1. a \in 1..Len(n0)
        BY <1>2, <2>1, <3>2
      <4> QED
        BY <1>2, <2>1, <3>2, <4>1 DEF State, Channel, Ordered
    <3> QED
      BY <1>3, <3>1, <3>2
  <2> QED
    BY <1>2, <1>7, <1>10, <2>1 DEF Ordered
<1>12. Outstanding(n, d, k)
  <2>1. \A i \in 1..Len(n) : n[i].c = k.c => i = Len(n) /\ n[i].t = "login"
    BY <1>3, <1>9
  <2> QED
    BY <1>5, <1>8, <2>1 DEF Outstanding, Waits, Single
<1>13. Settled(n, d, k)
  BY <1>5, <1>8 DEF Settled
<1>14. Resumes(n, k)
  <2>1. Recovering(k0)
    BY DEF Recovering
  <2> QED
    BY <1>3, <1>5, <2>1 DEF State, Channel, Resumes
<1>15. /\ DOMAIN ss0 = Conns /\ \A c \in Conns : DOMAIN ss0[c] = SessFields
  BY DEF State, ServerOK
<1>16. /\ DOMAIN ss = Conns /\ (\A c \in Conns : DOMAIN ss[c] = SessFields)
       /\ \A c \in Conns : c # k.c => ss[c] = ss0[c]
  BY <1>7, <1>15 DEF SessFields
<1>17. LoggedIn(n, d, k, ss)
  <2>1. ASSUME NEW i \in 1..Len(n), n[i].t = "resume", ss[n[i].c].open
        PROVE  ss[n[i].c].user
    <3>1. i \in 1..Len(n0) /\ n[i] = n0[i]
      BY <1>3, <2>1
    <3>2. ss[n0[i].c] = ss0[n0[i].c]
      BY <1>7, <1>9, <1>16, <3>1 DEF Conns
    <3> QED
      BY <2>1, <3>1, <3>2 DEF State, LoggedIn
  <2> QED
    BY <1>8, <2>1 DEF LoggedIn
<1>18. ServerOK(s, ss, k, j)
  BY <1>5, <1>16 DEF State, ServerOK
<1>19. Generation(s, k)
  BY <1>5 DEF State, Generation, Recovering
<1>20. Answers(d, k, s, j) /\ Membership(k, d, q, ss, s)
  BY <1>5, <1>8 DEF Answers, Membership, InMeeting
<1>21. Follows(k, d, q, ss, s, <<>>)
  BY <1>5, <1>8 DEF Follows, Trace, Here, InMeeting, Snapped
<1> QED
  BY <1>1, <1>6, <1>11, <1>12, <1>13, <1>14, <1>17, <1>18, <1>19, <1>20, <1>21 DEF State, Channel

(* The client k0 takes the answer m and goes on with its connection.       *)
Reading(k0, m, k) ==
  /\ ClientOK(k) /\ k0.sock = "up" /\ k.sock = "up" /\ k.c = k0.c /\ k.req = k0.req
  /\ \A t : t # m.t /\ Waits(k0, t) => Waits(k, t)
  /\ k.rec \in {"Ready", "Resuming"} => k0.rec \in {"Ready", "Resuming"} \/ m.t = "login"
  /\ k.rec = "Resuming" => k0.rec = "Resuming" \/ (m.t = "login" /\ m.result = "ok")
  /\ \/ k.ticket = 0
     \/ Snapshot(m) /\ k.ticket = m.ticket /\ k.gen = m.gen /\ k.rec = "Ready"
     \/ k.ticket = k0.ticket /\ k.gen = k0.gen /\ (Recovering(k) <=> Recovering(k0))
  /\ k0.rec = "Resuming" /\ m.t # "resume" => k.ticket = k0.ticket /\ k.gen = k0.gen
  /\ k.rec = "Ready" /\ k.meeting =>
       \/ Snapshot(m) /\ k.ticket = m.ticket /\ k.peer = m.peer
       \/ /\ k0.rec = "Ready" /\ k0.meeting /\ ~Left(m) /\ k.peer = After(m, k0.peer)
          /\ k.ticket = k0.ticket \/ m.t = "ended"

LEMMA ReadKeeps ==
  ASSUME NEW k0, NEW k, NEW n, NEW d0, NEW q, NEW ss, NEW s, NEW j,
         State(k0, n, d0, q, ss, s, j), d0 # <<>>, Reading(k0, Head(d0), k)
  PROVE  State(k, n, Tail(d0), q, ss, s, j)
<1>1. PICK d, m : d = Tail(d0) /\ m = Head(d0)
  OBVIOUS
<1>2. /\ IsSeq(d) /\ Len(d0) \in Nat /\ Len(d0) >= 1 /\ Len(d) = Len(d0) - 1 /\ m = d0[1]
      /\ \A i \in 1..Len(d) : d[i] = d0[i + 1] /\ i + 1 \in 1..Len(d0) /\ i + 1 # 1
  BY <1>1, TailIs DEF State, Channel, Outstanding
<1>3. Reading(k0, m, k) /\ 1 \in 1..Len(d0)
  BY <1>1, <1>2
<1>4. Outstanding(n, d0, k0) /\ ClientOK(k0)
  BY DEF State, Channel
<1>5. \A i \in 1..Len(d) : d[i].t = m.t => m.t \notin Single
  BY <1>2, <1>4 DEF Outstanding
<1>6. \A t : t \notin Single => Waits(k, t)
  BY DEF Waits, Single
<1>7. Waits(k0, m.t)
  BY <1>2, <1>3, <1>4 DEF Outstanding
<1>8. Outstanding(n, d, k)
  <2>1. \A i \in 1..Len(d) : Waits(k, d[i].t)
    <3>1. ASSUME NEW i \in 1..Len(d) PROVE Waits(k, d[i].t)
      <4>1. Waits(k0, d[i].t)
        BY <1>2, <1>4 DEF Outstanding
      <4>2. CASE d[i].t = m.t
        BY <1>5, <1>6, <4>2
      <4>3. CASE d[i].t # m.t
        BY <1>3, <4>1, <4>3 DEF Reading
      <4> QED
        BY <4>2, <4>3
    <3> QED
      BY <3>1
  <2>2. \A i \in 1..Len(n) : n[i].c = k.c => Waits(k, n[i].t)
    <3>1. ASSUME NEW i \in 1..Len(n), n[i].c = k.c PROVE Waits(k, n[i].t)
      <4>1. Waits(k0, n[i].t) /\ n[i].c = k0.c
        BY <1>3, <1>4, <3>1 DEF Outstanding, Reading
      <4>2. CASE n[i].t = m.t
        <5>1. n[i].t \notin Single
          BY <1>2, <1>3, <1>4, <4>1, <4>2 DEF Outstanding
        <5> QED
          BY <1>6, <5>1
      <4>3. CASE n[i].t # m.t
        BY <1>3, <4>1, <4>3 DEF Reading
      <4> QED
        BY <4>2, <4>3
    <3> QED
      BY <3>1
  <2>3. ASSUME NEW a \in 1..Len(d), NEW b \in 1..Len(d), d[a].t = d[b].t, d[a].t \in Single
        PROVE  a = b
    <3>1. a + 1 = b + 1
      BY <1>2, <1>4, <2>3 DEF Outstanding
    <3> QED
      BY <3>1
  <2>4. ASSUME NEW a \in 1..Len(n), NEW b \in 1..Len(d), n[a].c = k.c, n[a].t = d[b].t
        PROVE  n[a].t \notin Single
    BY <1>2, <1>3, <1>4, <2>4 DEF Outstanding, Reading
  <2>5. \A a, b \in 1..Len(n) :
          n[a].c = k.c /\ n[b].c = k.c /\ n[a].t = n[b].t /\ n[a].t \in Single => a = b
    BY <1>3, <1>4 DEF Outstanding, Reading
  <2> QED
    BY <1>2, <1>3, <2>1, <2>2, <2>3, <2>4, <2>5 DEF Outstanding, Reading
<1>9. Channel(k, n, d)
  <2>1. Ordered(n, k)
    BY <1>3 DEF State, Channel, Ordered, Reading
  <2>2. Settled(n, d, k)
    BY <1>2, <1>3 DEF State, Channel, Settled, Reading
  <2>3. Resumes(n, k)
    BY <1>3 DEF State, Channel, Resumes, Reading, Recovering
  <2> QED
    BY <1>3, <1>8, <2>1, <2>2, <2>3 DEF Channel, Reading
<1>10. LoggedIn(n, d, k, ss)
  BY <1>2, <1>3 DEF State, LoggedIn, Reading
<1>11. AnswerOK(m, k0, s, j)
  BY <1>2, <1>3 DEF State, Answers
<1>12. ServerOK(s, ss, k, j)
  <2>1. k.ticket <= j
    BY <1>3, <1>11 DEF State, ServerOK, Reading, Snapshot, AnswerOK
  <2> QED
    BY <2>1 DEF State, ServerOK
<1>13. Generation(s, k)
  BY <1>3, <1>11 DEF State, Generation, Reading, Snapshot, AnswerOK
<1>14. Answers(d, k, s, j)
  <2>1. SUFFICES ASSUME NEW i \in 1..Len(d) PROVE AnswerOK(d[i], k, s, j)
    BY DEF Answers
  <2>2. AnswerOK(d[i], k0, s, j)
    BY <1>2 DEF State, Answers
  <2>3. d[i].t = "resume" => k0.rec = "Resuming" /\ m.t # "resume"
    BY <1>2, <1>4, <1>5 DEF Outstanding, Waits, Single
  <2> QED
    BY <1>3, <2>2, <2>3 DEF AnswerOK, Reading, Gone
<1>15. \A x \in 1..Len(d0) : Live(k0, q, ss, s) /\ Snapshot(d0[x]) => Bound(k0, ss, s, d0[x].ticket)
  BY DEF State, Membership
<1>16. ASSUME InMeeting(k, d), Live(k, q, ss, s)
       PROVE  /\ Bound(k, ss, s, k.ticket) /\ Here(k0, d0, q, ss, s)
              /\ \/ Snapshot(m) /\ k.peer = m.peer
                 \/ k0.rec = "Ready" /\ k0.meeting /\ k.peer = After(m, k0.peer)
  <2>1. Live(k0, q, ss, s)
    BY <1>3, <1>16 DEF Live, Reading
  <2>2. CASE Snapshot(m) /\ k.ticket = m.ticket /\ k.peer = m.peer
    <3>1. Bound(k0, ss, s, m.ticket)
      BY <1>2, <1>3, <1>15, <2>1, <2>2
    <3> QED
      BY <1>2, <1>3, <2>1, <2>2, <3>1 DEF Bound, Here, Snapped, Reading
  <2>3. CASE /\ k0.rec = "Ready" /\ k0.meeting /\ ~Left(m) /\ k.peer = After(m, k0.peer)
             /\ k.ticket = k0.ticket \/ m.t = "ended"
    <3>1. k.ticket = k0.ticket
      BY <1>11, <2>1, <2>3 DEF AnswerOK, Live
    <3>2. \A i \in 1..Len(d0) : i = 1 \/ (i - 1 \in 1..Len(d) /\ d0[i] = d[i - 1])
      BY <1>2
    <3>3. InMeeting(k0, d0)
      BY <1>2, <1>16, <2>3, <3>2 DEF InMeeting
    <3>4. Bound(k0, ss, s, k0.ticket)
      BY <2>1, <3>3 DEF State, Membership
    <3> QED
      BY <1>3, <2>1, <2>3, <3>1, <3>3, <3>4 DEF Bound, Here, Reading
  <2> QED
    BY <1>3, <1>16, <2>2, <2>3 DEF Reading, InMeeting
<1>17. Membership(k, d, q, ss, s)
  <2>1. ASSUME Live(k, q, ss, s), NEW i \in 1..Len(d), Snapshot(d[i])
        PROVE  Bound(k, ss, s, d[i].ticket)
    <3>1. Live(k0, q, ss, s)
      BY <1>3, <2>1 DEF Live, Reading
    <3>2. Bound(k0, ss, s, d[i].ticket)
      BY <1>2, <1>15, <2>1, <3>1
    <3> QED
      BY <1>3, <3>2 DEF Bound, Reading
  <2> QED
    BY <1>16, <2>1 DEF Membership
<1>18. PICK p : Follows(k0, d0, q, ss, s, p)
  BY DEF State
<1>19. PICK r : r = [i \in Nat |-> p[i + 1]]
  OBVIOUS
<1>20. /\ \A i \in 1..Len(d) : r[i] = p[i + 1] /\ r[i - 1] = p[i] /\ i + 1 \in 1..Len(d0)
       /\ r[0] = p[1] /\ r[Len(d)] = p[Len(d0)] /\ p[1] = After(m, p[0])
  <2>1. \A i \in Nat : r[i] = p[i + 1]
    BY <1>19
  <2>2. r[0] = p[1] /\ r[Len(d)] = p[Len(d0)]
    BY <1>2, <2>1
  <2>3. p[1] = After(m, p[0])
    <3>1. \A i \in 1..Len(d0) : p[i] = After(d0[i], p[i - 1])
      BY <1>18 DEF Follows, Trace
    <3> QED
      BY <1>2, <1>3, <3>1
  <2>4. ASSUME NEW i \in 1..Len(d) PROVE r[i] = p[i + 1] /\ r[i - 1] = p[i]
    <3>1. PICK x : x = i - 1
      OBVIOUS
    <3>2. i \in Nat /\ x \in Nat /\ x + 1 = i
      BY <1>2, <3>1
    <3>3. r[i] = p[i + 1] /\ r[x] = p[x + 1]
      BY <2>1, <3>2
    <3> QED
      BY <3>1, <3>2, <3>3
  <2> QED
    BY <1>2, <2>2, <2>3, <2>4
<1>21. Trace(d, r)
  <2>1. ASSUME NEW i \in 1..Len(d) PROVE r[i] = After(d[i], r[i - 1])
    <3>1. \A x \in 1..Len(d0) : p[x] = After(d0[x], p[x - 1])
      BY <1>18 DEF Follows, Trace
    <3>2. PICK x : x = i + 1
      OBVIOUS
    <3>3. x \in 1..Len(d0) /\ x - 1 = i /\ d[i] = d0[x] /\ r[i] = p[x] /\ r[i - 1] = p[i]
      BY <1>2, <1>20, <3>2
    <3> QED
      BY <3>1, <3>3
  <2> QED
    BY <2>1 DEF Trace
<1>22. k.rec = "Ready" /\ k.meeting => r[0] = k.peer
  BY <1>3, <1>18, <1>20 DEF Follows, Reading, After
<1>23. Here(k, d, q, ss, s) => Here(k0, d0, q, ss, s)
  <2>1. ASSUME Live(k, q, ss, s), Snapped(d) PROVE Here(k0, d0, q, ss, s)
    BY <1>2, <1>3, <2>1 DEF Here, Snapped, Live, Reading
  <2> QED
    BY <1>16, <2>1 DEF Here
<1>24. Follows(k, d, q, ss, s, r)
  BY <1>18, <1>20, <1>21, <1>22, <1>23 DEF Follows
<1> QED
  BY <1>1, <1>9, <1>10, <1>12, <1>13, <1>14, <1>17, <1>24 DEF State

(* What becomes of the client, and of its connection.                      *)
Goes(k0, m, k) ==
  IF k.sock = "up" THEN Reading(k0, m, k) ELSE Outage(k0, k)

GivesUp(k0, k) == k = Fail(k0, FALSE)

LEMMA FailIs ==
  ASSUME NEW k0, ClientOK(k0), NEW k, GivesUp(k0, k)
  PROVE  ClientOK(k) /\ k.sock = "none" /\ k.c = k0.c /\ k.ticket = 0
<1>1. PICK a : a = AbandonCurrentMeeting(k0)
  OBVIOUS
<1>2. DOMAIN k0 = ClientFields /\ ~k0.invalid /\ k0.req \in Nat
  BY DEF ClientOK
<1>3. /\ DOMAIN a = ClientFields /\ ~a.meeting /\ a.ticket = 0 /\ a.gen = 0 /\ ~a.leave /\ ~a.join
      /\ a.c = k0.c /\ a.req = k0.req /\ a.invalid = k0.invalid
  BY <1>1, <1>2 DEF AbandonCurrentMeeting, ClientFields
<1>4. k = [a EXCEPT !.rec = "Failed", !.sock = "none", !.invalid = @ \/ FALSE]
  BY <1>1 DEF GivesUp, Fail
<1>5. /\ DOMAIN k = ClientFields /\ ~k.meeting /\ k.ticket = 0 /\ k.gen = 0 /\ ~k.leave /\ ~k.join
      /\ k.c = k0.c /\ k.req = k0.req /\ k.rec = "Failed" /\ k.sock = "none"
  BY <1>3, <1>4 DEF ClientFields
<1>6. ~k.invalid
  BY <1>2, <1>3, <1>4 DEF ClientFields
<1>7. k.ticket \in Nat /\ k.gen \in Nat /\ k.req \in Nat
  BY <1>2, <1>5
<1>8. k.rec # "Ready" /\ k.rec # "Resuming" /\ ~(k.sock = "up")
      /\ ~(k.rec \in {"Ready", "Authenticating", "Resuming"})
  BY <1>5
<1>9. /\ k.rec \in {"Ready", "Waiting", "Connecting", "Authenticating", "Resuming", "Failed"}
      /\ k.sock \in {"none", "connecting", "up"}
  BY <1>5
<1>10. ClientOK(k)
  BY <1>5, <1>6, <1>7, <1>8, <1>9, Zenon DEF ClientOK
<1> QED
  BY <1>5, <1>10

LEMMA ApplyLoginGoes ==
  ASSUME NEW k0, ClientOK(k0), k0.sock = "up", NEW m, m.t = "login", NEW k, k = ApplyLogin(k0, m)
  PROVE  Goes(k0, m, k)
<1>1. DOMAIN k0 = ClientFields
  BY DEF ClientOK
<1>2. CASE k0.rec # "Authenticating"
  BY <1>2 DEF ApplyLogin, Goes, Reading, After, Snapshot, Left
<1>3. CASE k0.rec = "Authenticating" /\ m.result = "busy"
  <2>1. k = [k0 EXCEPT !.rec = "Waiting", !.sock = "none"]
    BY <1>3 DEF ApplyLogin, Retry, Recovering
  <2>2. ClientOK(k) /\ k.sock = "none" /\ k.rec = "Waiting" /\ k.c = k0.c /\ k.ticket = k0.ticket
        /\ k.gen = k0.gen /\ k.req = k0.req
    BY <1>1, <1>3, <2>1 DEF ClientOK, ClientFields
  <2> QED
    BY <1>3, <2>2 DEF Goes, Outage, Recovering
<1>4. CASE k0.rec = "Authenticating" /\ m.result \notin {"ok", "busy"}
  <2>1. GivesUp(k0, k)
    BY <1>4 DEF ApplyLogin, GivesUp
  <2>2. ClientOK(k) /\ k.sock = "none" /\ k.c = k0.c /\ k.ticket = 0
    BY <2>1, FailIs
  <2> QED
    BY <2>2 DEF Goes, Outage
<1>5. CASE k0.rec = "Authenticating" /\ m.result = "ok" /\ (~k0.meeting \/ k0.ticket = 0)
  <2>1. k = IF k0.meeting THEN [AbandonCurrentMeeting(k0) EXCEPT !.rec = "Ready"]
            ELSE [k0 EXCEPT !.rec = "Ready"]
    BY <1>5 DEF ApplyLogin, Finish
  <2>2. /\ ClientOK(k) /\ k.sock = "up" /\ k.rec = "Ready" /\ ~k.meeting /\ k.ticket = 0
        /\ k.c = k0.c /\ k.req = k0.req
    BY <1>1, <1>5, <2>1 DEF ClientOK, ClientFields, AbandonCurrentMeeting
  <2>3. \A t : Waits(k0, t) => Waits(k, t)
    BY <1>5 DEF Waits, ClientOK
  <2> QED
    BY <1>5, <2>2, <2>3 DEF Goes, Reading
<1>6. CASE k0.rec = "Authenticating" /\ m.result = "ok" /\ k0.meeting /\ k0.ticket # 0
  <2>1. k = [k0 EXCEPT !.rec = "Resuming"]
    BY <1>6 DEF ApplyLogin
  <2>2. /\ ClientOK(k) /\ k.sock = "up" /\ k.rec = "Resuming" /\ k.ticket = k0.ticket
        /\ k.gen = k0.gen /\ k.c = k0.c /\ k.req = k0.req
    BY <1>1, <1>6, <2>1 DEF ClientOK, ClientFields
  <2>3. \A t : Waits(k0, t) => Waits(k, t)
    BY <1>6, <2>2 DEF Waits, ClientOK
  <2> QED
    BY <1>6, <2>2, <2>3 DEF Goes, Reading, Recovering
<1> QED
  BY <1>2, <1>3, <1>4, <1>5, <1>6

LEMMA ApplyResumeGoes ==
  ASSUME NEW k0, ClientOK(k0), k0.sock = "up", NEW m, m.t = "resume", NEW k, k = ApplyResume(k0, m),
         Waits(k0, m.t), NEW s, NEW j, AnswerOK(m, k0, s, j)
  PROVE  Goes(k0, m, k)
<1>1. DOMAIN k0 = ClientFields /\ k0.rec = "Resuming" /\ m.req = k0.req
  BY DEF ClientOK, Waits, AnswerOK
<1>2. CASE m.result = "busy"
  <2>1. k = [k0 EXCEPT !.rec = "Waiting", !.sock = "none"]
    BY <1>1, <1>2 DEF ApplyResume, Retry, Recovering
  <2>2. ClientOK(k) /\ k.sock = "none" /\ k.rec = "Waiting" /\ k.c = k0.c /\ k.ticket = k0.ticket
        /\ k.gen = k0.gen /\ k.req = k0.req
    BY <1>1, <2>1 DEF ClientOK, ClientFields
  <2> QED
    BY <1>1, <2>2 DEF Goes, Outage, Recovering
<1>3. CASE m.result \notin {"ok", "busy"}
  <2>1. k = [AbandonCurrentMeeting(k0) EXCEPT !.rec = "Ready"]
    BY <1>1, <1>3 DEF ApplyResume, Finish
  <2>2. /\ ClientOK(k) /\ k.sock = "up" /\ k.rec = "Ready" /\ ~k.meeting /\ k.ticket = 0
        /\ k.c = k0.c /\ k.req = k0.req
    BY <1>1, <2>1 DEF ClientOK, ClientFields, AbandonCurrentMeeting
  <2>3. \A t : t # m.t /\ Waits(k0, t) => Waits(k, t)
    BY <1>1 DEF Waits, ClientOK
  <2> QED
    BY <1>1, <2>2, <2>3 DEF Goes, Reading
<1>4. CASE m.result = "ok"
  <2>1. ValidSnapshot(k0, m) /\ m.ticket = k0.ticket /\ m.gen \in Nat
    BY <1>1, <1>4 DEF ValidSnapshot, AnswerOK, ClientOK
  <2>2. k = [k0 EXCEPT !.gen = m.gen, !.peer = m.peer, !.rec = "Ready"]
    BY <1>1, <1>4, <2>1 DEF ApplyResume, Finish, ClientFields
  <2>3. /\ ClientOK(k) /\ k.sock = "up" /\ k.rec = "Ready" /\ k.ticket = m.ticket
        /\ k.gen = m.gen /\ k.c = k0.c /\ k.req = k0.req /\ k.peer = m.peer
    BY <1>1, <2>1, <2>2 DEF ClientOK, ClientFields
  <2>4. \A t : t # m.t /\ Waits(k0, t) => Waits(k, t)
    BY <1>1 DEF Waits, ClientOK
  <2> QED
    BY <1>1, <1>4, <2>3, <2>4 DEF Goes, Reading, Snapshot
<1> QED
  BY <1>2, <1>3, <1>4

LEMMA DispatchGoes ==
  ASSUME NEW k0, ClientOK(k0), k0.rec = "Ready", NEW m, m.t \notin {"login", "resume"},
         NEW k, k = Dispatch(k0, m), Waits(k0, m.t), NEW s, NEW j, AnswerOK(m, k0, s, j)
  PROVE  Goes(k0, m, k)
<1>1. DOMAIN k0 = ClientFields /\ k0.sock = "up"
  BY DEF ClientOK
<1>2. CASE m.t = "join"
  <2>1. k0.join /\ ~k0.meeting /\ ~k0.leave /\ ~k0.left /\ k0.ticket = 0
    BY <1>2 DEF Waits, ClientOK
  <2>2. CASE m.result # "ok"
    <3>1. k = [k0 EXCEPT !.join = FALSE]
      BY <1>2, <2>2 DEF Dispatch, ApplyJoin
    <3>2. /\ ClientOK(k) /\ k.sock = "up" /\ k.rec = "Ready" /\ ~k.meeting /\ k.ticket = 0
          /\ k.c = k0.c /\ k.req = k0.req
      BY <1>1, <2>1, <3>1 DEF ClientOK, ClientFields
    <3>3. \A t : t # m.t /\ Waits(k0, t) => Waits(k, t)
      BY <1>2, <2>1 DEF Waits, ClientOK
    <3> QED
      BY <1>1, <3>2, <3>3 DEF Goes, Reading
  <2>3. CASE m.result = "ok"
    <3>1. k = [k0 EXCEPT !.join = FALSE, !.meeting = TRUE, !.ticket = m.ticket, !.gen = m.gen,
                         !.peer = m.peer]
      BY <1>2, <2>1, <2>3 DEF Dispatch, ApplyJoin
    <3>2. m.ticket \in Nat /\ m.gen \in Nat
      BY <1>2, <2>3 DEF AnswerOK
    <3>3. /\ ClientOK(k) /\ k.sock = "up" /\ k.rec = "Ready" /\ k.ticket = m.ticket
          /\ k.gen = m.gen /\ k.c = k0.c /\ k.req = k0.req /\ k.peer = m.peer
      BY <1>1, <2>1, <3>1, <3>2 DEF ClientOK, ClientFields
    <3>4. \A t : t # m.t /\ Waits(k0, t) => Waits(k, t)
      BY <1>2, <2>1 DEF Waits, ClientOK
    <3> QED
      BY <1>1, <1>2, <2>3, <3>3, <3>4 DEF Goes, Reading, Snapshot
  <2> QED
    BY <2>2, <2>3
<1>3. CASE m.t = "leave"
  <2>1. k0.leave /\ k0.meeting /\ ~k0.join
    BY <1>3 DEF Waits, ClientOK
  <2>2. \A t : t # m.t /\ Waits(k0, t) => t \notin {"resume", "join"}
    BY <2>1 DEF Waits
  <2>3. \A t : t # m.t /\ Waits(k0, t) => Waits(k, t)
    BY <1>3, <2>2 DEF Waits
  <2>4. CASE m.result # "ok"
    <3>1. k = [k0 EXCEPT !.leave = FALSE, !.left = FALSE]
      BY <1>3, <2>4 DEF Dispatch, ApplyLeave
    <3>2. /\ ClientOK(k) /\ k.sock = "up" /\ k.rec = "Ready" /\ k.ticket = k0.ticket
          /\ k.gen = k0.gen /\ k.c = k0.c /\ k.req = k0.req /\ k.peer = k0.peer
      BY <1>1, <2>1, <3>1 DEF ClientOK, ClientFields
    <3> QED
      BY <1>1, <1>3, <2>1, <2>3, <2>4, <3>2 DEF Goes, Reading, Recovering, After, Snapshot, Left
  <2>5. CASE m.result = "ok"
    <3>1. k = [AbandonCurrentMeeting(k0) EXCEPT !.left = TRUE]
      BY <1>3, <2>1, <2>5 DEF Dispatch, ApplyLeave
    <3>2. /\ ClientOK(k) /\ k.sock = "up" /\ k.rec = "Ready" /\ ~k.meeting /\ k.ticket = 0
          /\ k.c = k0.c /\ k.req = k0.req
      BY <1>1, <2>1, <3>1 DEF ClientOK, ClientFields, AbandonCurrentMeeting
    <3> QED
      BY <1>1, <2>3, <3>2 DEF Goes, Reading
  <2> QED
    BY <2>4, <2>5
<1>4. CASE m.t \in {"chat", "push", "history"} \/ (m.t \notin {"join", "leave"} /\ ~k0.meeting)
  <2>1. k = k0
    BY <1>4 DEF Dispatch
  <2> QED
    BY <1>1, <1>4, <2>1 DEF Goes, Reading, After, Snapshot, Left
<1>5. CASE m.t = "ended" /\ k0.meeting
  <2>1. k = [k0 EXCEPT !.ticket = 0, !.gen = 0]
    BY <1>5 DEF Dispatch, ApplyMeetingEnded
  <2>2. /\ ClientOK(k) /\ k.sock = "up" /\ k.rec = "Ready" /\ k.ticket = 0 /\ k.leave = k0.leave
        /\ k.join = k0.join /\ k.c = k0.c /\ k.req = k0.req /\ k.peer = k0.peer
    BY <1>1, <2>1 DEF ClientOK, ClientFields
  <2>3. \A t : Waits(k0, t) => Waits(k, t)
    BY <2>2 DEF Waits
  <2> QED
    BY <1>1, <1>5, <2>2, <2>3 DEF Goes, Reading, After, Snapshot, Left
<1>6. CASE m.t \in {"joined", "left", "reconnecting", "reconnected"} /\ k0.meeting
  <2>1. k = [k0 EXCEPT !.peer = After(m, k0.peer)]
    <3>1. ~Snapshot(m)
      BY <1>6 DEF Snapshot
    <3>2. CASE m.t = "joined"
      BY <1>1, <1>6, <3>1, <3>2 DEF Dispatch, ApplyMemberJoined, After, ClientFields
    <3>3. CASE m.t = "left"
      BY <1>1, <1>6, <3>1, <3>3 DEF Dispatch, ApplyMemberLeft, After, ClientFields
    <3>4. CASE m.t = "reconnecting"
      BY <1>1, <1>6, <3>1, <3>4 DEF Dispatch, ApplyMemberReconnecting, After, ClientFields
    <3>5. CASE m.t = "reconnected"
      BY <1>1, <1>6, <3>1, <3>5 DEF Dispatch, ApplyMemberReconnected, After, ClientFields
    <3> QED
      BY <1>6, <3>2, <3>3, <3>4, <3>5
  <2>2. /\ ClientOK(k) /\ k.sock = "up" /\ k.rec = "Ready" /\ k.ticket = k0.ticket
        /\ k.gen = k0.gen /\ k.leave = k0.leave /\ k.join = k0.join /\ k.c = k0.c
        /\ k.req = k0.req /\ k.peer = After(m, k0.peer)
    BY <1>1, <2>1 DEF ClientOK, ClientFields
  <2>3. \A t : Waits(k0, t) => Waits(k, t)
    BY <2>2 DEF Waits
  <2>4. ~Left(m)
    BY <1>6 DEF Left
  <2> QED
    BY <1>1, <1>6, <2>2, <2>3, <2>4 DEF Goes, Reading, Recovering
<1> QED
  BY <1>2, <1>3, <1>4, <1>5, <1>6 DEF AnswerOK, AnswerTypes

LEMMA ReceiveGoes ==
  ASSUME NEW k0, NEW k, NEW n, NEW d, NEW q, NEW ss, NEW s, NEW j,
         State(k0, n, d, q, ss, s, j), k0.sock = "up", d # <<>>, k = Receive(k0, Head(d))
  PROVE  Goes(k0, Head(d), k)
<1>1. PICK m : m = Head(d)
  OBVIOUS
<1>2. m = d[1] /\ 1 \in 1..Len(d) /\ ClientOK(k0)
  BY <1>1, TailIs DEF State, Channel, Outstanding
<1>3. Waits(k0, m.t) /\ AnswerOK(m, k0, s, j)
  BY <1>2 DEF State, Channel, Outstanding, Answers
<1>4. CASE m.t = "login"
  BY <1>1, <1>2, <1>4, ApplyLoginGoes DEF Receive
<1>5. CASE m.t = "resume"
  <2>1. k = ApplyResume(k0, m)
    BY <1>1, <1>5 DEF Receive
  <2> QED
    BY <1>1, <1>2, <1>3, <1>5, <2>1, ApplyResumeGoes
<1>6. CASE m.t \notin {"login", "resume"} /\ k0.rec # "Ready"
  <2>1. k = k0
    BY <1>1, <1>2, <1>6 DEF Receive, Recovering, ClientOK
  <2> QED
    BY <1>1, <1>2, <1>6, <2>1 DEF Goes, Reading
<1>7. CASE m.t \notin {"login", "resume"} /\ k0.rec = "Ready"
  <2>1. k = Dispatch(k0, m)
    BY <1>1, <1>7 DEF Receive, Recovering
  <2> QED
    BY <1>1, <1>2, <1>3, <1>7, <2>1, DispatchGoes
<1> QED
  BY <1>4, <1>5, <1>6, <1>7

Retried(k0, k) == k = [k0 EXCEPT !.rec = "Waiting", !.sock = "none"]

LEMMA RetryIs ==
  ASSUME NEW k0, ClientOK(k0), Recovering(k0), NEW k, Retried(k0, k)
  PROVE  /\ ClientOK(k) /\ k.sock = "none" /\ k.rec = "Waiting" /\ k.c = k0.c
         /\ k.ticket = k0.ticket /\ k.gen = k0.gen /\ k.req = k0.req
<1>1. DOMAIN k0 = ClientFields
  BY DEF ClientOK
<1>2. /\ DOMAIN k = ClientFields /\ k.rec = "Waiting" /\ k.sock = "none" /\ k.c = k0.c
      /\ k.ticket = k0.ticket /\ k.gen = k0.gen /\ k.req = k0.req /\ k.meeting = k0.meeting
      /\ k.leave = k0.leave /\ k.join = k0.join /\ k.left = k0.left /\ k.invalid = k0.invalid
  BY <1>1 DEF ClientFields, Retried
<1> QED
  BY <1>2 DEF ClientOK, Recovering

LEMMA DisconnectedGoes ==
  ASSUME NEW k0, ClientOK(k0), NEW k, k = Disconnected(k0)
  PROVE  Outage(k0, k)
<1>1. DOMAIN k0 = ClientFields /\ k0.req \in Nat
  BY DEF ClientOK
<1>2. CASE k0.rec = "Failed"
  <2>1. k = [k0 EXCEPT !.sock = "none"]
    BY <1>2 DEF Disconnected
  <2>2. ClientOK(k) /\ k.sock = "none" /\ k.c = k0.c /\ k.ticket = 0
    BY <1>1, <1>2, <2>1 DEF ClientOK, ClientFields
  <2> QED
    BY <2>2 DEF Outage
<1>3. CASE Recovering(k0)
  <2>1. PICK cut : cut = [k0 EXCEPT !.sock = "none"]
    OBVIOUS
  <2>2. k = Retry(cut) /\ cut.rec = k0.rec /\ DOMAIN cut = ClientFields
    BY <1>1, <1>3, <2>1 DEF Disconnected, Recovering, ClientFields
  <2>3. Retried(k0, k)
    BY <1>1, <1>3, <2>1, <2>2 DEF Retried, Retry, Recovering, ClientFields
  <2>4. /\ ClientOK(k) /\ k.sock = "none" /\ k.rec = "Waiting" /\ k.c = k0.c
        /\ k.ticket = k0.ticket /\ k.gen = k0.gen /\ k.req = k0.req
    BY <1>3, <2>3, RetryIs
  <2> QED
    BY <1>3, <2>4 DEF Outage, Recovering
<1>4. CASE k0.rec = "Ready"
  <2>1. PICK w : w = [[k0 EXCEPT !.sock = "none"] EXCEPT !.rec = "Waiting", !.req = @ + 1]
    OBVIOUS
  <2>2. /\ DOMAIN w = ClientFields /\ w.rec = "Waiting" /\ w.sock = "none" /\ w.c = k0.c
        /\ w.ticket = k0.ticket /\ w.gen = k0.gen /\ w.req = k0.req + 1
        /\ w.meeting = k0.meeting /\ w.leave = k0.leave /\ w.join = k0.join
        /\ w.left = k0.left /\ w.invalid = k0.invalid
    BY <1>1, <2>1 DEF ClientFields
  <2>3. PICK v : v = ConnectionInterrupted(w)
    OBVIOUS
  <2>4. k = Retry(v)
    BY <1>4, <2>1, <2>3 DEF Disconnected
  <2>5. CASE w.leave
    <3>1. v = AbandonCurrentMeeting(w)
      BY <2>3, <2>5 DEF ConnectionInterrupted
    <3>2. /\ DOMAIN v = ClientFields /\ v.rec = "Waiting" /\ v.sock = "none" /\ v.c = k0.c
          /\ v.ticket = 0 /\ v.gen = 0 /\ v.req = k0.req + 1 /\ ~v.meeting /\ ~v.leave
          /\ ~v.join /\ v.invalid = k0.invalid
      BY <2>2, <3>1 DEF AbandonCurrentMeeting, ClientFields
    <3>3. Retried(v, k) /\ Recovering(v)
      BY <2>4, <3>2 DEF Retried, Retry, Recovering
    <3>4. ~v.invalid /\ v.req \in Nat
      BY <1>1, <3>2 DEF ClientOK
    <3>5. ClientOK(v)
      BY <3>2, <3>4 DEF ClientOK
    <3>6. ClientOK(k) /\ k.sock = "none" /\ k.c = v.c /\ k.ticket = v.ticket
      BY <3>3, <3>5, RetryIs
    <3> QED
      BY <3>2, <3>6 DEF Outage
  <2>6. CASE ~w.leave
    <3>1. v = [w EXCEPT !.join = FALSE]
      BY <2>3, <2>6 DEF ConnectionInterrupted
    <3>2. /\ DOMAIN v = ClientFields /\ v.rec = "Waiting" /\ v.sock = "none" /\ v.c = k0.c
          /\ v.ticket = k0.ticket /\ v.gen = k0.gen /\ v.req = k0.req + 1
          /\ v.meeting = k0.meeting /\ v.leave = k0.leave /\ ~v.leave
          /\ ~v.join /\ v.left = k0.left /\ v.invalid = k0.invalid
      BY <2>2, <2>6, <3>1 DEF ClientFields
    <3>3. Retried(v, k) /\ Recovering(v)
      BY <2>4, <3>2 DEF Retried, Retry, Recovering
    <3>4. v.req \in Nat /\ k0.rec # "Failed"
      BY <1>1, <1>4, <3>2
    <3>5. ClientOK(v)
      BY <1>4, <3>2, <3>4 DEF ClientOK
    <3>6. ClientOK(k) /\ k.sock = "none" /\ k.c = v.c /\ k.ticket = v.ticket /\ k.gen = v.gen
      BY <3>3, <3>5, RetryIs
    <3> QED
      BY <1>4, <3>2, <3>6 DEF Outage
  <2> QED
    BY <2>5, <2>6
<1> QED
  BY <1>2, <1>3, <1>4 DEF ClientOK, Recovering

LEMMA AbortedKeeps ==
  ASSUME RecoveryInv, NEW k, Aborted(k), Outage(cl, k), UNCHANGED <<sess, srv, joins>>
  PROVE  RecoveryInv'
<1>1. IsSeq(net)
  BY DEF RecoveryInv, State, Channel, Ordered
<1>2. PICK m \in 0..Len(net) : net' = SubSeq(net, 1, m)
  BY DEF Aborted
<1>3. net' \in Cuts(net)
  BY <1>2 DEF Cuts
<1>4. Prefix(net', net)
  BY <1>1, <1>3, CutIsPrefix
<1>5. State(k, net', <<>>, silent', sess, srv, joins)
  BY <1>4, OutageKeeps DEF RecoveryInv
<1> QED
  BY <1>5 DEF RecoveryInv, Aborted

(* The steps of the client, one by one.                                    *)
LEMMA ConnectionEnds ==
  ASSUME RecoveryInv, SocketEnds \/ ConnectFails \/ HeartbeatTick
  PROVE  RecoveryInv'
<1>1. PICK k : k = Disconnected(cl)
  OBVIOUS
<1>2. Aborted(k) /\ UNCHANGED <<sess, srv, joins>>
  BY <1>1 DEF SocketEnds, ConnectFails, HeartbeatTick, ServerVars
<1>3. ClientOK(cl)
  BY DEF RecoveryInv, State, Channel
<1>4. Outage(cl, k)
  BY <1>1, <1>3, DisconnectedGoes
<1> QED
  BY <1>2, <1>4, AbortedKeeps

LEMMA SilentKeeps == ASSUME RecoveryInv, GoesSilent PROVE RecoveryInv'
<1>1. IsSeq(net) /\ IsSeq(down)
  BY DEF RecoveryInv, State, Channel, Ordered, Outstanding
<1>2. net' \in Cuts(net) /\ down' \in Cuts(down)
  BY DEF GoesSilent
<1>3. Prefix(net', net) /\ Prefix(down', down)
  BY <1>1, <1>2, CutIsPrefix
<1>4. cl.sock = "up" /\ silent' = TRUE /\ UNCHANGED <<cl, sess, srv, joins>>
  BY DEF GoesSilent, ServerVars
<1>5. State(cl, net', down', TRUE, sess, srv, joins)
  BY <1>3, <1>4, SilenceKeeps DEF RecoveryInv
<1> QED
  BY <1>4, <1>5 DEF RecoveryInv

LEMMA ConnectNowKeeps == ASSUME RecoveryInv, ConnectNow PROVE RecoveryInv'
<1>1. ClientOK(cl) /\ DOMAIN cl = ClientFields /\ Outstanding(net, down, cl) /\ IsSeq(net)
  BY DEF RecoveryInv, State, Channel, ClientOK, Ordered
<1>2. PICK k : k = cl'
  OBVIOUS
<1>3. k = [cl EXCEPT !.rec = "Connecting", !.sock = "connecting"] /\ cl.rec = "Waiting"
  BY <1>2 DEF ConnectNow
<1>4. /\ DOMAIN k = ClientFields /\ k.rec = "Connecting" /\ k.sock = "connecting" /\ k.c = cl.c
      /\ k.ticket = cl.ticket /\ k.gen = cl.gen /\ k.req = cl.req /\ k.meeting = cl.meeting
      /\ k.leave = cl.leave /\ k.join = cl.join /\ k.left = cl.left /\ k.invalid = cl.invalid
  BY <1>1, <1>3 DEF ClientFields
<1>5. Outage(cl, k)
  BY <1>1, <1>3, <1>4 DEF Outage, ClientOK, Recovering
<1>6. down = <<>>
  BY <1>1, <1>3 DEF Outstanding, ClientOK
<1>7. Prefix(net, net)
  BY <1>1, AppendIs DEF Prefix
<1>8. State(k, net, <<>>, silent, sess, srv, joins)
  BY <1>5, <1>7, OutageKeeps DEF RecoveryInv
<1>9. UNCHANGED <<net, down, silent, sess, srv, joins>>
  BY DEF ConnectNow, ServerVars
<1> QED
  BY <1>2, <1>6, <1>8, <1>9 DEF RecoveryInv

LEMMA TimeoutsKeep == ASSUME RecoveryInv, StageTimeout \/ BudgetTimeout PROVE RecoveryInv'
<1>1. ClientOK(cl)
  BY DEF RecoveryInv, State, Channel
<1>2. CASE StageTimeout
  <2>1. PICK k : k = Retry(cl)
    OBVIOUS
  <2>2. Recovering(cl) /\ Retried(cl, k)
    BY <1>2, <2>1 DEF StageTimeout, Recovering, Retry, Retried
  <2>3. /\ ClientOK(k) /\ k.sock = "none" /\ k.rec = "Waiting" /\ k.c = cl.c
        /\ k.ticket = cl.ticket /\ k.gen = cl.gen /\ k.req = cl.req
    BY <1>1, <2>2, RetryIs
  <2>4. Outage(cl, k)
    BY <2>2, <2>3 DEF Outage, Recovering
  <2> QED
    BY <1>2, <2>1, <2>4, AbortedKeeps DEF StageTimeout, ServerVars
<1>3. CASE BudgetTimeout
  <2>1. PICK k : GivesUp(cl, k)
    BY DEF GivesUp
  <2>2. Aborted(k) /\ UNCHANGED <<sess, srv, joins>>
    BY <1>3, <2>1 DEF BudgetTimeout, GivesUp, ServerVars
  <2>3. ClientOK(k) /\ k.sock = "none" /\ k.c = cl.c /\ k.ticket = 0
    BY <1>1, <2>1, FailIs
  <2>4. Outage(cl, k)
    BY <2>3 DEF Outage
  <2> QED
    BY <2>2, <2>4, AbortedKeeps
<1> QED
  BY <1>2, <1>3

LEMMA ConnectedKeeps == ASSUME RecoveryInv, Connected PROVE RecoveryInv'
<1>1. PICK k : k = [cl EXCEPT !.rec = "Authenticating", !.sock = "up", !.c = @ + 1]
  OBVIOUS
<1>2. PICK m : m = Req("login", k)
  OBVIOUS
<1>3. m.t = "login" /\ m.c = k.c
  BY <1>2 DEF Req
<1>4. PICK ss : ss = [sess EXCEPT ![k.c].open = TRUE]
  OBVIOUS
<1>5. /\ cl' = k /\ net' = Append(net, m) /\ sess' = ss /\ UNCHANGED <<down, silent, srv, joins>>
      /\ cl.rec = "Connecting" /\ cl.sock = "connecting" /\ cl.c < MaxConns
  BY <1>1, <1>2, <1>4 DEF Connected
<1>6. State(k, Append(net, m), down, silent, ss, srv, joins)
  BY <1>1, <1>3, <1>4, <1>5, ConnectKeeps DEF RecoveryInv
<1> QED
  BY <1>5, <1>6 DEF RecoveryInv

(* SendData, of a request the client may send.                             *)
LEMMA SendDataKeeps ==
  ASSUME NEW k, NEW d, NEW ss, NEW s, NEW j, NEW m,
         State(k, net, d, silent, ss, s, j), SendData(k, m), MaySend(k, net, d, ss, m)
  PROVE  State(k, net', d, silent, ss, s, j)
<1>1. State(k, Append(net, m), d, silent, ss, s, j)
  BY SendKeeps
<1>2. net' = Append(net, m) \/ net' = net
  BY DEF SendData
<1> QED
  BY <1>1, <1>2

LEMMA LeaveKeeps == ASSUME RecoveryInv, RequestLeave PROVE RecoveryInv'
<1>1. ClientOK(cl) /\ DOMAIN cl = ClientFields /\ Outstanding(net, down, cl)
  BY DEF RecoveryInv, State, Channel, ClientOK
<1>2. cl.meeting /\ cl.ticket # 0 /\ ~cl.leave /\ UNCHANGED <<sess, srv, joins>>
  BY DEF RequestLeave, ServerVars
<1>3. CASE Recovering(cl)
  <2>1. PICK b : b = AbandonCurrentMeeting(cl)
    OBVIOUS
  <2>2. /\ DOMAIN b = ClientFields /\ ~b.meeting /\ b.ticket = 0 /\ b.gen = 0 /\ ~b.leave /\ ~b.join
        /\ b.c = cl.c /\ b.req = cl.req /\ b.invalid = cl.invalid /\ b.rec = cl.rec
        /\ b.sock = cl.sock
    BY <1>1, <2>1 DEF AbandonCurrentMeeting, ClientFields
  <2>3. PICK a : a = [b EXCEPT !.left = TRUE]
    OBVIOUS
  <2>4. /\ DOMAIN a = ClientFields /\ ~a.meeting /\ a.ticket = 0 /\ a.gen = 0 /\ ~a.leave /\ ~a.join
        /\ a.c = cl.c /\ a.req = cl.req /\ a.invalid = cl.invalid /\ a.rec = cl.rec
        /\ a.sock = cl.sock
    BY <2>2, <2>3 DEF ClientFields
  <2>5. PICK k : k = CancelMeeting(a)
    OBVIOUS
  <2>6. IF k.sock # cl.sock THEN Aborted(k) ELSE cl' = k /\ UNCHANGED <<net, down, silent>>
    BY <1>3, <2>1, <2>3, <2>5 DEF RequestLeave
  <2>7. CASE cl.rec = "Resuming"
    <3>1. k = [a EXCEPT !.rec = "Waiting", !.sock = "none"]
      BY <2>4, <2>5, <2>7 DEF CancelMeeting, Retry, Recovering
    <3>2. /\ DOMAIN k = ClientFields /\ ~k.meeting /\ k.ticket = 0 /\ k.gen = 0 /\ ~k.leave
          /\ ~k.join /\ k.c = cl.c /\ k.req = cl.req /\ k.invalid = cl.invalid
          /\ k.rec = "Waiting" /\ k.sock = "none"
      BY <2>4, <3>1 DEF ClientFields
    <3>3. Outage(cl, k)
      BY <1>1, <3>2 DEF Outage, ClientOK
    <3>4. Aborted(k)
      BY <1>1, <2>6, <2>7, <3>2 DEF ClientOK
    <3> QED
      BY <1>2, <3>3, <3>4, AbortedKeeps
  <2>8. CASE cl.rec # "Resuming"
    <3>1. k = a
      BY <2>4, <2>5, <2>8 DEF CancelMeeting
    <3>2. ClientOK(k)
      BY <1>1, <1>3, <2>4, <2>8, <3>1 DEF ClientOK, Recovering
    <3>3. \A t : Waits(cl, t) => Waits(k, t)
      BY <1>1, <1>3, <2>8 DEF Waits, ClientOK, Recovering
    <3>4. Wishes(cl, k)
      BY <1>3, <2>4, <2>8, <3>1, <3>2, <3>3 DEF Wishes, Recovering
    <3>5. State(k, net, down, silent, sess, srv, joins)
      BY <3>4, WishesKeep DEF RecoveryInv
    <3>6. cl' = k /\ UNCHANGED <<net, down, silent>>
      BY <2>4, <2>6, <3>1
    <3> QED
      BY <1>2, <3>5, <3>6 DEF RecoveryInv
  <2> QED
    BY <2>7, <2>8
<1>4. CASE ~Recovering(cl)
  <2>1. cl.rec = "Ready" /\ cl.sock = "up" /\ ~cl.join
    BY <1>1, <1>2, <1>4 DEF ClientOK, Recovering
  <2>2. PICK m : m = Req("leave", cl)
    OBVIOUS
  <2>3. m.t = "leave" /\ m.c = cl.c
    BY <2>2 DEF Req
  <2>4. PICK k : k = [cl EXCEPT !.leave = TRUE, !.left = TRUE]
    OBVIOUS
  <2>5. cl' = k /\ SendData(cl, m) /\ UNCHANGED <<down, silent>>
    BY <1>4, <2>2, <2>4 DEF RequestLeave
  <2>6. /\ DOMAIN k = ClientFields /\ k.meeting = cl.meeting /\ k.ticket = cl.ticket
        /\ k.gen = cl.gen /\ k.leave /\ k.join = cl.join /\ k.c = cl.c /\ k.req = cl.req
        /\ k.invalid = cl.invalid /\ k.rec = cl.rec /\ k.sock = cl.sock /\ k.peer = cl.peer
    BY <1>1, <2>4 DEF ClientFields
  <2>7. ClientOK(k)
    BY <1>1, <1>2, <2>1, <2>6 DEF ClientOK
  <2>8. \A t : Waits(cl, t) => Waits(k, t)
    BY <2>6 DEF Waits
  <2>9. Wishes(cl, k)
    BY <2>6, <2>7, <2>8 DEF Wishes
  <2>10. State(k, net, down, silent, sess, srv, joins)
    BY <2>9, WishesKeep DEF RecoveryInv
  <2>11. MaySend(k, net, down, sess, m)
    BY <1>1, <1>2, <2>1, <2>3, <2>6 DEF MaySend, Outstanding, Waits
  <2>12. SendData(k, m)
    BY <2>5, <2>6 DEF SendData
  <2>13. State(k, net', down, silent, sess, srv, joins)
    BY <2>10, <2>11, <2>12, SendDataKeeps
  <2> QED
    BY <1>2, <2>5, <2>13 DEF RecoveryInv
<1> QED
  BY <1>3, <1>4

LEMMA JoinKeeps == ASSUME RecoveryInv, RequestJoin PROVE RecoveryInv'
<1>1. ClientOK(cl) /\ DOMAIN cl = ClientFields /\ Outstanding(net, down, cl)
  BY DEF RecoveryInv, State, Channel, ClientOK
<1>2. PICK m : m = Req("join", cl)
  OBVIOUS
<1>3. m.t = "join" /\ m.c = cl.c
  BY <1>2 DEF Req
<1>4. PICK k : k = [cl EXCEPT !.join = TRUE, !.left = FALSE]
  OBVIOUS
<1>5. /\ cl.rec = "Ready" /\ ~cl.meeting /\ ~cl.join
      /\ cl' = k /\ SendData(cl, m) /\ UNCHANGED <<down, silent, sess, srv, joins>>
  BY <1>2, <1>4 DEF RequestJoin, ServerVars
<1>6. /\ DOMAIN k = ClientFields /\ k.meeting = cl.meeting /\ k.ticket = cl.ticket
      /\ k.gen = cl.gen /\ k.leave = cl.leave /\ k.join /\ ~k.left /\ k.c = cl.c
      /\ k.req = cl.req /\ k.invalid = cl.invalid /\ k.rec = cl.rec /\ k.sock = cl.sock
      /\ k.peer = cl.peer
  BY <1>1, <1>4 DEF ClientFields
<1>7. ClientOK(k)
  BY <1>1, <1>5, <1>6 DEF ClientOK
<1>8. \A t : Waits(cl, t) => Waits(k, t)
  BY <1>6 DEF Waits
<1>9. Wishes(cl, k)
  BY <1>6, <1>7, <1>8 DEF Wishes
<1>10. State(k, net, down, silent, sess, srv, joins)
  BY <1>9, WishesKeep DEF RecoveryInv
<1>11. MaySend(k, net, down, sess, m)
  BY <1>1, <1>3, <1>5, <1>6 DEF MaySend, Outstanding, Waits, ClientOK
<1>12. SendData(k, m)
  BY <1>5, <1>6 DEF SendData
<1>13. State(k, net', down, silent, sess, srv, joins)
  BY <1>10, <1>11, <1>12, SendDataKeeps
<1> QED
  BY <1>5, <1>13 DEF RecoveryInv

(* The client reads an answer.                                             *)
LEMMA ClientReceiveKeeps == ASSUME RecoveryInv, ClientReceive PROVE RecoveryInv'
<1>1. PICK m : m = Head(down)
  OBVIOUS
<1>2. PICK k : k = Receive(cl, m)
  OBVIOUS
<1>3. /\ cl.sock = "up" /\ down # <<>> /\ UNCHANGED <<sess, srv, joins>>
      /\ IF k.sock # "up" THEN Aborted(k)
         ELSE /\ cl' = k /\ down' = Tail(down) /\ UNCHANGED silent
              /\ IF k.rec = "Resuming" /\ cl.rec # "Resuming"
                   THEN SendData(k, Req("resume", k))
                 ELSE IF k.rec = "Ready" /\ cl.rec = "Resuming" /\ k.meeting
                   THEN SendData(k, [Req("history", k) EXCEPT !.x = <<"group", 0>>])
                 ELSE UNCHANGED net
  BY <1>1, <1>2 DEF ClientReceive, ServerVars
<1>4. Goes(cl, m, k)
  BY <1>1, <1>2, <1>3, ReceiveGoes DEF RecoveryInv
<1>5. CASE k.sock # "up"
  <2>1. Aborted(k) /\ Outage(cl, k)
    BY <1>3, <1>4, <1>5 DEF Goes
  <2> QED
    BY <1>3, <2>1, AbortedKeeps
<1>6. CASE k.sock = "up"
  <2>1. Reading(cl, m, k)
    BY <1>4, <1>6 DEF Goes
  <2>2. PICK d : d = Tail(down)
    OBVIOUS
  <2>3. State(k, net, d, silent, sess, srv, joins)
    BY <1>1, <1>3, <2>1, <2>2, ReadKeeps DEF RecoveryInv
  <2>4. cl' = k /\ down' = d /\ UNCHANGED silent
    BY <1>3, <1>6, <2>2
  <2>5. CASE k.rec = "Resuming" /\ cl.rec # "Resuming"
    <3>1. PICK r : r = Req("resume", k)
      OBVIOUS
    <3>2. /\ r.t = "resume" /\ r.c = k.c /\ r.req = k.req /\ r.ticket = k.ticket /\ r.gen = k.gen
      BY <3>1 DEF Req
    <3>3. m.t = "login" /\ m.result = "ok" /\ k.c = cl.c
      BY <2>1, <2>5 DEF Reading
    <3>4. /\ m = down[1] /\ 1 \in 1..Len(down)
          /\ \A i \in 1..Len(d) : \E x \in 1..Len(down) : d[i] = down[x]
      BY <1>1, <1>3, <2>2, TailIs DEF RecoveryInv, State, Channel, Outstanding
    <3>5. sess[k.c].open => sess[k.c].user
      BY <3>3, <3>4 DEF RecoveryInv, State, LoggedIn
    <3>6. Outstanding(net, down, cl)
      BY DEF RecoveryInv, State, Channel
    <3>7. \A i \in 1..Len(net) : net[i].c = k.c => net[i].t # "resume"
      BY <1>3, <2>5, <3>3, <3>6 DEF Outstanding, Waits
    <3>8. \A i \in 1..Len(d) : d[i].t # "resume"
      BY <2>5, <3>4, <3>6 DEF Outstanding, Waits
    <3>9. Waits(k, r.t)
      BY <2>5, <3>2 DEF Waits
    <3>10. MaySend(k, net, d, sess, r)
      BY <1>6, <3>2, <3>5, <3>7, <3>8, <3>9 DEF MaySend
    <3>11. SendData(k, r)
      BY <1>3, <1>6, <2>5, <3>1
    <3>12. State(k, net', d, silent, sess, srv, joins)
      BY <2>3, <3>10, <3>11, SendDataKeeps
    <3> QED
      BY <1>3, <2>4, <3>12 DEF RecoveryInv
  <2>6. CASE /\ ~(k.rec = "Resuming" /\ cl.rec # "Resuming")
             /\ k.rec = "Ready" /\ cl.rec = "Resuming" /\ k.meeting
    <3>1. PICK r : r = [Req("history", k) EXCEPT !.x = <<"group", 0>>]
      OBVIOUS
    <3>2. r.t = "history" /\ r.c = k.c
      BY <3>1 DEF Req
    <3>3. MaySend(k, net, d, sess, r)
      BY <1>6, <3>2 DEF MaySend, Waits, Single
    <3>4. SendData(k, r)
      BY <1>3, <1>6, <2>6, <3>1
    <3>5. State(k, net', d, silent, sess, srv, joins)
      BY <2>3, <3>3, <3>4, SendDataKeeps
    <3> QED
      BY <1>3, <2>4, <3>5 DEF RecoveryInv
  <2>7. CASE /\ ~(k.rec = "Resuming" /\ cl.rec # "Resuming")
             /\ ~(k.rec = "Ready" /\ cl.rec = "Resuming" /\ k.meeting)
    <3>1. UNCHANGED net
      BY <1>3, <1>6, <2>7
    <3> QED
      BY <1>3, <2>3, <2>4, <3>1 DEF RecoveryInv
  <2> QED
    BY <2>5, <2>6, <2>7
<1> QED
  BY <1>5, <1>6

-----------------------------------------------------------------------------
(* The server takes a request and answers                                  *)

LEMMA PopChannel ==
  ASSUME NEW k, NEW n0, NEW d, Channel(k, n0, d), n0 # <<>>
  PROVE  Channel(k, Tail(n0), d)
<1>1. PICK n : n = Tail(n0)
  OBVIOUS
<1>2. /\ IsSeq(n) /\ Len(n0) \in Nat /\ Len(n0) >= 1 /\ Len(n) = Len(n0) - 1
      /\ \A i \in 1..Len(n) : n[i] = n0[i + 1] /\ i + 1 \in 1..Len(n0)
  BY <1>1, TailIs DEF Channel, Ordered
<1>3. Ordered(n, k)
  <2>1. Ordered(n0, k)
    BY DEF Channel
  <2>2. ASSUME NEW a \in 1..Len(n), NEW b \in 1..Len(n), a <= b
        PROVE  n[a].c <= n[b].c
    <3>1. PICK x, y : x = a + 1 /\ y = b + 1
      OBVIOUS
    <3>2. x \in 1..Len(n0) /\ y \in 1..Len(n0) /\ x <= y /\ n[a] = n0[x] /\ n[b] = n0[y]
      BY <1>2, <2>2, <3>1
    <3> QED
      BY <2>1, <3>2 DEF Ordered
  <2>3. \A i \in 1..Len(n) : n[i].c \in 1..k.c
    BY <1>2, <2>1 DEF Ordered
  <2> QED
    BY <1>2, <2>1, <2>2, <2>3 DEF Ordered
<1>4. Outstanding(n, d, k)
  <2>1. Outstanding(n0, d, k)
    BY DEF Channel
  <2>2. ASSUME NEW a \in 1..Len(n), NEW b \in 1..Len(n),
               n[a].c = k.c, n[b].c = k.c, n[a].t = n[b].t, n[a].t \in Single
        PROVE  a = b
    <3>1. a + 1 = b + 1
      BY <1>2, <2>1, <2>2 DEF Outstanding
    <3> QED
      BY <3>1
  <2>3. \A i \in 1..Len(n) : \E x \in 1..Len(n0) : n[i] = n0[x]
    BY <1>2
  <2>4. k.sock = "up" => \A i \in 1..Len(n) : n[i].c = k.c => Waits(k, n[i].t)
    BY <2>1, <2>3 DEF Outstanding
  <2>5. \A i \in 1..Len(n), x \in 1..Len(d) : n[i].c = k.c /\ n[i].t = d[x].t => n[i].t \notin Single
    BY <2>1, <2>3 DEF Outstanding
  <2> QED
    BY <2>1, <2>2, <2>4, <2>5 DEF Outstanding
<1>5. Settled(n, d, k) /\ Resumes(n, k)
  BY <1>2 DEF Channel, Settled, Resumes
<1> QED
  BY <1>1, <1>3, <1>4, <1>5 DEF Channel

(* An answer a is added to what is on its way to the client.               *)
LEMMA AddChannel ==
  ASSUME NEW k, NEW n, NEW d0, NEW a, Channel(k, n, d0), k.sock = "up", Waits(k, a.t),
         a.t \in Single => /\ \A i \in 1..Len(d0) : d0[i].t # a.t
                           /\ \A i \in 1..Len(n) : n[i].c = k.c => n[i].t # a.t,
         a.t = "login" => \A i \in 1..Len(n) : n[i].c = k.c
  PROVE  Channel(k, n, Append(d0, a))
<1>1. PICK d : d = Append(d0, a)
  OBVIOUS
<1>2. /\ IsSeq(d) /\ Len(d0) \in Nat /\ Len(d) = Len(d0) + 1 /\ d[Len(d)] = a
      /\ \A i \in 1..Len(d0) : d[i] = d0[i]
  BY <1>1, AppendIs DEF Channel, Outstanding
<1>3. \A i \in 1..Len(d) : (i \in 1..Len(d0) /\ d[i] = d0[i]) \/ (i = Len(d) /\ d[i] = a)
  BY <1>2
<1>4. Outstanding(n, d0, k)
  BY DEF Channel
<1>5. Outstanding(n, d, k)
  <2>1. \A i \in 1..Len(d) : Waits(k, d[i].t)
    BY <1>3, <1>4 DEF Outstanding
  <2>2. ASSUME NEW x \in 1..Len(d), NEW y \in 1..Len(d), d[x].t = d[y].t, d[x].t \in Single
        PROVE  x = y
    BY <1>3, <1>4, <2>2 DEF Outstanding
  <2>3. ASSUME NEW x \in 1..Len(n), NEW y \in 1..Len(d), n[x].c = k.c, n[x].t = d[y].t
        PROVE  n[x].t \notin Single
    BY <1>3, <1>4, <2>3 DEF Outstanding
  <2> QED
    BY <1>2, <1>4, <2>1, <2>2, <2>3 DEF Outstanding
<1>6. Settled(n, d, k)
  BY <1>3 DEF Channel, Settled
<1> QED
  BY <1>1, <1>5, <1>6 DEF Channel

(* The answer to the first request of the client's connection.             *)
LEMMA ReplyChannel ==
  ASSUME NEW k, NEW n0, NEW d0, NEW a, Channel(k, n0, d0), n0 # <<>>, k.sock = "up",
         Head(n0).c = k.c, a.t = Head(n0).t
  PROVE  Channel(k, Tail(n0), Append(d0, a))
<1>1. PICK n : n = Tail(n0)
  OBVIOUS
<1>2. /\ IsSeq(n) /\ Len(n0) \in Nat /\ Len(n0) >= 1 /\ Len(n) = Len(n0) - 1 /\ Head(n0) = n0[1]
      /\ \A i \in 1..Len(n) : n[i] = n0[i + 1] /\ i + 1 \in 1..Len(n0) /\ i + 1 # 1
  BY <1>1, TailIs DEF Channel, Ordered
<1>3. 1 \in 1..Len(n0) /\ n0[1].c = k.c /\ n0[1].t = a.t
  BY <1>2
<1>4. Outstanding(n0, d0, k)
  BY DEF Channel
<1>5. Waits(k, a.t)
  BY <1>3, <1>4 DEF Outstanding
<1>6. ASSUME a.t \in Single
      PROVE  /\ \A i \in 1..Len(d0) : d0[i].t # a.t
             /\ \A i \in 1..Len(n) : n[i].c = k.c => n[i].t # a.t
  BY <1>2, <1>3, <1>4, <1>6 DEF Outstanding
<1>7. \A i \in 1..Len(n) : n[i].c = k.c
  <2>1. ASSUME NEW i \in 1..Len(n) PROVE n[i].c = k.c
    <3>1. PICK x : x = i + 1
      OBVIOUS
    <3>2. x \in 1..Len(n0) /\ n[i] = n0[x] /\ 1 <= x
      BY <1>2, <3>1
    <3>3. n0[1].c <= n0[x].c /\ n0[x].c \in 1..k.c /\ k.c \in Nat
      BY <1>3, <3>2, RecoveryBounds DEF Channel, Ordered, Conns
    <3> QED
      BY <1>3, <3>2, <3>3
  <2> QED
    BY <2>1
<1>8. Channel(k, n, d0)
  BY <1>1, PopChannel
<1>9. Channel(k, n, Append(d0, a))
  BY <1>5, <1>6, <1>7, <1>8, AddChannel
<1> QED
  BY <1>1, <1>9

(* What the client shows after one more message.                           *)
LEMMA TraceOn ==
  ASSUME NEW d0, IsSeq(d0), NEW a, NEW p, Trace(d0, p)
  PROVE  \E r : /\ Trace(Append(d0, a), r) /\ r[0] = p[0]
                /\ r[Len(Append(d0, a))] = After(a, p[Len(d0)])
<1>1. PICK d, h : d = Append(d0, a) /\ h = Len(d0)
  OBVIOUS
<1>2. /\ h \in Nat /\ Len(d) = h + 1 /\ d[h + 1] = a
      /\ \A i \in 1..h : d[i] = d0[i]
  BY <1>1, AppendIs
<1>3. PICK e : e = After(a, p[h])
  OBVIOUS
<1>4. PICK r : r = [i \in 0..h + 1 |-> IF i = h + 1 THEN e ELSE p[i]]
  OBVIOUS
<1>5. r[h + 1] = e /\ \A i \in 0..h : r[i] = p[i]
  BY <1>2, <1>4
<1>6. r[0] = p[0] /\ r[h] = p[h]
  BY <1>2, <1>5
<1>7. Trace(d, r)
  <2>1. ASSUME NEW i \in 1..Len(d) PROVE r[i] = After(d[i], r[i - 1])
    <3>1. CASE i = h + 1
      <4>1. i - 1 = h
        BY <1>2, <3>1
      <4> QED
        BY <1>2, <1>3, <1>5, <1>6, <3>1, <4>1
    <3>2. CASE i # h + 1
      <4>1. PICK x : x = i - 1
        OBVIOUS
      <4>2. i \in 1..h /\ i \in 0..h /\ x \in 0..h
        BY <1>2, <3>2, <4>1
      <4>3. p[i] = After(d0[i], p[x])
        BY <1>1, <4>1, <4>2 DEF Trace
      <4>4. r[i] = p[i] /\ r[x] = p[x] /\ d[i] = d0[i]
        BY <1>2, <1>5, <4>2
      <4> QED
        BY <4>1, <4>3, <4>4
    <3> QED
      BY <3>1, <3>2
  <2> QED
    BY <2>1 DEF Trace
<1> QED
  BY <1>1, <1>2, <1>3, <1>5, <1>6, <1>7

LEMMA PopKeeps ==
  ASSUME NEW k, NEW n0, NEW d, NEW q, NEW ss, NEW s, NEW j,
         State(k, n0, d, q, ss, s, j), n0 # <<>>
  PROVE  State(k, Tail(n0), d, q, ss, s, j)
<1>1. PICK n : n = Tail(n0)
  OBVIOUS
<1>2. Channel(k, n, d)
  BY <1>1, PopChannel DEF State
<1>3. \A i \in 1..Len(n) : n[i] = n0[i + 1] /\ i + 1 \in 1..Len(n0)
  BY <1>1, TailIs DEF State, Channel, Ordered
<1>4. LoggedIn(n, d, k, ss)
  BY <1>3 DEF State, LoggedIn
<1> QED
  BY <1>1, <1>2, <1>4 DEF State

(* A login binds the session c to its user.                                *)
LogsIn(ss0, ss, c, result) == ss = [ss0 EXCEPT ![c].user = @ \/ (result = "ok" /\ ss0[c].open)]

LEMMA UserKeeps ==
  ASSUME NEW k, NEW n, NEW d, NEW q, NEW ss0, NEW ss, NEW s, NEW j, NEW c \in Conns, NEW result,
         State(k, n, d, q, ss0, s, j), LogsIn(ss0, ss, c, result)
  PROVE  /\ State(k, n, d, q, ss, s, j)
         /\ \A x \in Conns : ss[x].open = ss0[x].open /\ ss[x].meeting = ss0[x].meeting
         /\ result = "ok" /\ ss[c].open => ss[c].user
<1>1. ServerOK(s, ss0, k, j)
  BY DEF State
<1>2. /\ DOMAIN ss = Conns
      /\ \A x \in Conns : /\ DOMAIN ss[x] = SessFields /\ ss[x].open = ss0[x].open
                          /\ ss[x].meeting = ss0[x].meeting /\ (x # c => ss[x] = ss0[x])
      /\ (ss0[c].user \/ (result = "ok" /\ ss0[c].open) => ss[c].user)
  <2>1. PICK e : e = [ss0[c] EXCEPT !.user = @ \/ (result = "ok" /\ ss0[c].open)]
    OBVIOUS
  <2>2. /\ DOMAIN e = SessFields /\ e.open = ss0[c].open /\ e.meeting = ss0[c].meeting
    BY <1>1, <2>1 DEF ServerOK, SessFields
  <2>3. ss0[c].user \/ (result = "ok" /\ ss0[c].open) => e.user
    BY <1>1, <2>1 DEF ServerOK, SessFields
  <2>4. ss = [ss0 EXCEPT ![c] = e]
    BY <2>1 DEF LogsIn
  <2>5. DOMAIN ss = Conns /\ ss[c] = e /\ \A x \in Conns : x # c => ss[x] = ss0[x]
    BY <1>1, <2>4 DEF ServerOK
  <2> QED
    BY <1>1, <2>2, <2>3, <2>5 DEF ServerOK
<1>3. \A x \in Conns : ss0[x].user => ss[x].user
  BY <1>2
<1>4. k.c \in Conns /\ \A i \in 1..Len(n) : n[i].c \in Conns
  BY RecoveryBounds DEF State, Channel, Ordered, Conns
<1>5. LoggedIn(n, d, k, ss)
  BY <1>2, <1>3, <1>4 DEF State, LoggedIn
<1>6. ServerOK(s, ss, k, j)
  BY <1>1, <1>2 DEF ServerOK
<1>7. Live(k, q, ss, s) <=> Live(k, q, ss0, s)
  BY <1>2, <1>4 DEF Live
<1>8. Membership(k, d, q, ss, s)
  BY <1>2, <1>4, <1>7 DEF State, Membership, Bound
<1>9. PICK p : Follows(k, d, q, ss0, s, p)
  BY DEF State
<1>10. Follows(k, d, q, ss, s, p)
  BY <1>7, <1>9 DEF Follows, Here
<1>11. Channel(k, n, d) /\ Generation(s, k) /\ Answers(d, k, s, j)
  BY DEF State
<1>12. State(k, n, d, q, ss, s, j)
  BY <1>5, <1>6, <1>8, <1>10, <1>11 DEF State
<1> QED
  BY <1>2, <1>12

(* An answer that changes nothing the client is told about its meeting.    *)
Idle(a) == ~Snapshot(a) /\ \A p : After(a, p) = p

LEMMA NoteKeeps ==
  ASSUME NEW k, NEW n0, NEW n, NEW d0, NEW q, NEW ss, NEW s, NEW j, NEW a,
         State(k, n0, d0, q, ss, s, j), Channel(k, n, Append(d0, a)),
         LoggedIn(n, Append(d0, a), k, ss), AnswerOK(a, k, s, j), Idle(a)
  PROVE  State(k, n, Append(d0, a), q, ss, s, j)
<1>1. PICK d : d = Append(d0, a)
  OBVIOUS
<1>2. /\ IsSeq(d) /\ Len(d0) \in Nat /\ Len(d) = Len(d0) + 1 /\ d[Len(d)] = a
      /\ \A i \in 1..Len(d0) : d[i] = d0[i] /\ i \in 1..Len(d)
  BY <1>1, AppendIs DEF State, Channel, Outstanding
<1>3. \A i \in 1..Len(d) : (i \in 1..Len(d0) /\ d[i] = d0[i]) \/ (i = Len(d) /\ d[i] = a)
  BY <1>2
<1>4. Answers(d, k, s, j)
  BY <1>3 DEF State, Answers
<1>5. InMeeting(k, d) => InMeeting(k, d0)
  BY <1>2 DEF InMeeting
<1>6. Snapped(d) => Snapped(d0)
  BY <1>3 DEF Snapped, Idle
<1>7. Membership(k, d, q, ss, s)
  BY <1>3, <1>5 DEF State, Membership, Idle
<1>8. PICK p : Follows(k, d0, q, ss, s, p)
  BY DEF State
<1>9. IsSeq(d0) /\ Trace(d0, p)
  BY <1>8 DEF State, Channel, Outstanding, Follows
<1>10. PICK r : /\ Trace(d, r) /\ r[0] = p[0] /\ r[Len(d)] = After(a, p[Len(d0)])
  BY <1>1, <1>9, TraceOn
<1>11. r[Len(d)] = p[Len(d0)]
  BY <1>10 DEF Idle
<1>12. Follows(k, d, q, ss, s, r)
  BY <1>5, <1>6, <1>8, <1>10, <1>11 DEF Follows, Here
<1> QED
  BY <1>1, <1>4, <1>7, <1>12 DEF State

LEMMA ReplyLoggedIn ==
  ASSUME NEW k, NEW n0, NEW d0, NEW ss, NEW a, IsSeq(n0), IsSeq(d0), n0 # <<>>,
         LoggedIn(n0, d0, k, ss), a.t = "login" /\ a.result = "ok" /\ ss[k.c].open => ss[k.c].user
  PROVE  LoggedIn(Tail(n0), Append(d0, a), k, ss)
<1>1. PICK n, d : n = Tail(n0) /\ d = Append(d0, a)
  OBVIOUS
<1>2. \A i \in 1..Len(n) : n[i] = n0[i + 1] /\ i + 1 \in 1..Len(n0)
  BY <1>1, TailIs
<1>3. \A i \in 1..Len(d) : (i \in 1..Len(d0) /\ d[i] = d0[i]) \/ d[i] = a
  BY <1>1, AppendIs
<1> QED
  BY <1>1, <1>2, <1>3 DEF LoggedIn

(* What is on its way once the session c was sent a.                       *)
Reaches(k, q, ss, c) == c = k.c /\ k.sock = "up" /\ ~q /\ ss[c].open
Sends(k, q, ss, c, d0, a, d) ==
  IF Reaches(k, q, ss, c) THEN d = Append(d0, a) ELSE d = d0

LEMMA DeliverSends ==
  ASSUME RecoveryInv, NEW c, NEW a, down' = Deliver(c, <<a>>)
  PROVE  Sends(cl, silent, sess, c, down, a, down')
<1>1. IsSeq(down)
  BY DEF RecoveryInv, State, Channel, Outstanding
<1>2. down \o <<>> = down /\ down \o <<a>> = Append(down, a)
  BY <1>1, NoneAdded, OneAdded
<1> QED
  BY <1>2 DEF Deliver, Out, Sends, Reaches

LEMMA ReplyKeeps ==
  ASSUME NEW k, NEW n0, NEW d0, NEW d, NEW q, NEW ss, NEW s, NEW j, NEW a, NEW m,
         State(k, n0, d0, q, ss, s, j), n0 # <<>>, m = Head(n0), a.t = m.t, Idle(a),
         Reaches(k, q, ss, m.c) => AnswerOK(a, k, s, j),
         a.t = "login" /\ a.result = "ok" /\ ss[m.c].open => ss[m.c].user,
         Sends(k, q, ss, m.c, d0, a, d)
  PROVE  State(k, Tail(n0), d, q, ss, s, j)
<1>1. CASE Reaches(k, q, ss, m.c)
  <2>1. d = Append(d0, a) /\ m.c = k.c /\ k.sock = "up"
    BY <1>1 DEF Sends, Reaches
  <2>2. Channel(k, n0, d0) /\ IsSeq(n0) /\ IsSeq(d0) /\ LoggedIn(n0, d0, k, ss)
    BY DEF State, Channel, Ordered, Outstanding
  <2>3. Channel(k, Tail(n0), d)
    BY <2>1, <2>2, ReplyChannel
  <2>4. LoggedIn(Tail(n0), d, k, ss)
    BY <2>1, <2>2, ReplyLoggedIn
  <2>5. AnswerOK(a, k, s, j)
    BY <1>1
  <2> QED
    BY <2>1, <2>3, <2>4, <2>5, NoteKeeps
<1>2. CASE ~Reaches(k, q, ss, m.c)
  BY <1>2, PopKeeps DEF Sends
<1> QED
  BY <1>1, <1>2

LEMMA HeadConn ==
  ASSUME NEW k, NEW n, NEW d, NEW m, Channel(k, n, d), n # <<>>, m = Head(n)
  PROVE  m.c \in Conns
<1>1. m = n[1] /\ 1 \in 1..Len(n)
  BY TailIs DEF Channel, Ordered
<1>2. m.c \in 1..k.c /\ k.c \in 1..MaxConns
  BY <1>1 DEF Channel, Ordered, Conns
<1> QED
  BY <1>2, RecoveryBounds DEF Conns

LEMMA LoginKeeps ==
  ASSUME RecoveryInv, NEW result, LoginHandler(result)
  PROVE  RecoveryInv'
<1>1. PICK m, a : m = Head(net) /\ a = Ans("login", result)
  OBVIOUS
<1>2. /\ net # <<>> /\ m.t = "login" /\ net' = Tail(net)
      /\ UNCHANGED <<cl, silent, srv, joins>>
      /\ LogsIn(sess, sess', m.c, result)
      /\ down' = Deliver(m.c, <<a>>)
  BY <1>1 DEF LoginHandler, Handling, LogsIn
<1>3. a.t = "login" /\ a.result = result
  BY <1>1 DEF Ans
<1>4. m.c \in Conns
  BY <1>1, <1>2, HeadConn DEF RecoveryInv, State
<1>5. PICK ss : ss = sess'
  OBVIOUS
<1>6. /\ State(cl, net, down, silent, ss, srv, joins)
      /\ \A x \in Conns : ss[x].open = sess[x].open /\ ss[x].meeting = sess[x].meeting
      /\ result = "ok" /\ ss[m.c].open => ss[m.c].user
  <2>1. PICK c \in Conns : c = m.c
    BY <1>4
  <2>2. State(cl, net, down, silent, sess, srv, joins) /\ LogsIn(sess, ss, c, result)
    BY <1>2, <1>5, <2>1 DEF RecoveryInv
  <2>3. /\ State(cl, net, down, silent, ss, srv, joins)
        /\ \A x \in Conns : ss[x].open = sess[x].open /\ ss[x].meeting = sess[x].meeting
        /\ result = "ok" /\ ss[c].open => ss[c].user
    BY <2>2, UserKeeps
  <2> QED
    BY <2>1, <2>3
<1>7. Sends(cl, silent, ss, m.c, down, a, down')
  <2>1. Sends(cl, silent, sess, m.c, down, a, down')
    BY <1>2, DeliverSends
  <2> QED
    BY <1>4, <1>6, <2>1 DEF Sends, Reaches
<1>8. Idle(a) /\ AnswerOK(a, cl, srv, joins)
  BY <1>3 DEF Idle, AnswerOK, AnswerTypes, Snapshot, After
<1>9. State(cl, Tail(net), down', silent, ss, srv, joins)
  BY <1>1, <1>2, <1>3, <1>6, <1>7, <1>8, ReplyKeeps
<1> QED
  BY <1>2, <1>5, <1>9 DEF RecoveryInv

(* A first request that is a resume, a join or a leave: what it tells of   *)
(* the client.                                                             *)
LEMMA ResumeFirst ==
  ASSUME NEW k, NEW n, NEW d, NEW ss, NEW m, Channel(k, n, d), LoggedIn(n, d, k, ss),
         n # <<>>, m = Head(n), m.t = "resume"
  PROVE  /\ k.rec # "Ready" /\ m.c \in Conns
         /\ \A i \in 1..Len(d) : d[i].t \notin Single
         /\ Recovering(k) /\ k.ticket # 0 => m.req = k.req /\ m.ticket = k.ticket /\ m.gen = k.gen
         /\ k.sock = "up" /\ m.c = k.c => k.rec = "Resuming" /\ k.meeting /\ k.ticket # 0
         /\ ss[m.c].open => ss[m.c].user
<1>1. m = n[1] /\ 1 \in 1..Len(n)
  BY TailIs DEF Channel, Ordered
<1>2. ClientOK(k) /\ Outstanding(n, d, k)
  BY DEF Channel
<1>3. k.sock = "up" /\ m.c = k.c => k.rec = "Resuming"
  BY <1>1, <1>2 DEF Outstanding, Waits
<1>4. k.rec \in {"Ready", "Resuming"} => k.sock = "up" /\ m.c = k.c
  BY <1>1, <1>2 DEF Channel, Settled, ClientOK
<1>5. k.rec # "Ready"
  BY <1>3, <1>4
<1>6. m.c \in Conns
  BY <1>1, RecoveryBounds DEF Channel, Ordered, Conns
<1>7. \A i \in 1..Len(d) : d[i].t \notin Single
  <2>1. ASSUME NEW i \in 1..Len(d), d[i].t \in Single PROVE FALSE
    <3>1. Waits(k, d[i].t)
      BY <1>2 DEF Outstanding
    <3>2. k.rec = "Resuming" /\ d[i].t = "resume"
      BY <1>2, <1>5, <2>1, <3>1 DEF Waits, Single, ClientOK
    <3> QED
      BY <1>1, <1>2, <1>4, <2>1, <3>2 DEF Outstanding
  <2> QED
    BY <2>1
<1>8. Recovering(k) /\ k.ticket # 0 => m.req = k.req /\ m.ticket = k.ticket /\ m.gen = k.gen
  BY <1>1 DEF Channel, Resumes
<1>9. ss[m.c].open => ss[m.c].user
  BY <1>1 DEF LoggedIn
<1> QED
  BY <1>2, <1>3, <1>5, <1>6, <1>7, <1>8, <1>9 DEF ClientOK

LEMMA JoinFirst ==
  ASSUME NEW k, NEW n, NEW d, NEW m, Channel(k, n, d), n # <<>>, m = Head(n), m.t = "join"
  PROVE  /\ k.rec # "Resuming" /\ ~(k.rec = "Ready" /\ k.meeting) /\ m.c \in Conns
         /\ \A i \in 1..Len(d) : d[i].t \notin Single
<1>1. m = n[1] /\ 1 \in 1..Len(n)
  BY TailIs DEF Channel, Ordered
<1>2. ClientOK(k) /\ Outstanding(n, d, k)
  BY DEF Channel
<1>3. k.sock = "up" /\ m.c = k.c => k.join
  BY <1>1, <1>2 DEF Outstanding, Waits
<1>4. k.rec \in {"Ready", "Resuming"} => k.sock = "up" /\ m.c = k.c
  BY <1>1, <1>2 DEF Channel, Settled, ClientOK
<1>5. k.rec # "Resuming" /\ ~(k.rec = "Ready" /\ k.meeting)
  BY <1>2, <1>3, <1>4 DEF ClientOK
<1>6. m.c \in Conns
  BY <1>1, RecoveryBounds DEF Channel, Ordered, Conns
<1>7. \A i \in 1..Len(d) : d[i].t \notin Single
  <2>1. ASSUME NEW i \in 1..Len(d), d[i].t \in Single PROVE FALSE
    <3>1. Waits(k, d[i].t)
      BY <1>2 DEF Outstanding
    <3>2. k.rec = "Ready" /\ d[i].t = "join"
      BY <1>2, <1>5, <2>1, <3>1 DEF Waits, Single, ClientOK
    <3> QED
      BY <1>1, <1>2, <1>4, <2>1, <3>2 DEF Outstanding
  <2> QED
    BY <2>1
<1> QED
  BY <1>5, <1>6, <1>7

LEMMA LeaveFirst ==
  ASSUME NEW k, NEW n, NEW d, NEW m, Channel(k, n, d), n # <<>>, m = Head(n), m.t = "leave"
  PROVE  /\ k.rec # "Resuming" /\ m.c \in Conns
         /\ k.rec = "Ready" => m.c = k.c
         /\ \A i \in 1..Len(d) : d[i].t \notin Single
<1>1. m = n[1] /\ 1 \in 1..Len(n)
  BY TailIs DEF Channel, Ordered
<1>2. ClientOK(k) /\ Outstanding(n, d, k)
  BY DEF Channel
<1>3. k.sock = "up" /\ m.c = k.c => k.leave
  BY <1>1, <1>2 DEF Outstanding, Waits
<1>4. k.rec \in {"Ready", "Resuming"} => k.sock = "up" /\ m.c = k.c
  BY <1>1, <1>2 DEF Channel, Settled, ClientOK
<1>5. k.rec # "Resuming" /\ (k.rec = "Ready" => k.leave /\ k.meeting)
  BY <1>2, <1>3, <1>4 DEF ClientOK
<1>6. m.c \in Conns
  BY <1>1, RecoveryBounds DEF Channel, Ordered, Conns
<1>7. \A i \in 1..Len(d) : d[i].t \notin Single
  <2>1. ASSUME NEW i \in 1..Len(d), d[i].t \in Single PROVE FALSE
    <3>1. Waits(k, d[i].t)
      BY <1>2 DEF Outstanding
    <3>2. k.rec = "Ready" /\ d[i].t = "leave"
      BY <1>2, <1>5, <2>1, <3>1 DEF Waits, Single, ClientOK
    <3> QED
      BY <1>1, <1>2, <1>4, <2>1, <3>2 DEF Outstanding
  <2> QED
    BY <2>1
<1> QED
  BY <1>4, <1>5, <1>6, <1>7

(* Bind, for the sessions ss0 and the server's record s0.                  *)
Binds(ss0, ss, s0, c) ==
  ss = [x \in Conns |->
          IF x = c THEN [ss0[x] EXCEPT !.meeting = TRUE]
          ELSE IF x = s0.session THEN [ss0[x] EXCEPT !.meeting = FALSE, !.open = FALSE]
          ELSE ss0[x]]

(* What is left open of the sessions stays as it was.                      *)
Closer(ss0, ss) ==
  /\ DOMAIN ss = Conns
  /\ \A x \in Conns : /\ DOMAIN ss[x] = SessFields
                      /\ ss[x].open => ss0[x].open /\ (ss0[x].user => ss[x].user)

LEMMA BindIs ==
  ASSUME NEW ss0, NEW ss, NEW s0, NEW c \in Conns, Binds(ss0, ss, s0, c),
         \A x \in Conns : DOMAIN ss0[x] = SessFields
  PROVE  Closer(ss0, ss) /\ ss[c].meeting
<1>1. DOMAIN ss = Conns
  BY DEF Binds
<1>2. DOMAIN ss[c] = SessFields /\ ss[c].meeting /\ ss[c].open = ss0[c].open /\ ss[c].user = ss0[c].user
  <2>1. ss[c] = [ss0[c] EXCEPT !.meeting = TRUE]
    BY DEF Binds
  <2> QED
    BY <2>1 DEF SessFields
<1>3. ASSUME NEW x \in Conns, x # c
      PROVE  DOMAIN ss[x] = SessFields /\ (ss[x].open => ss0[x].open /\ ss[x].user = ss0[x].user)
  <2>1. CASE x = s0.session
    <3>1. ss[x] = [ss0[x] EXCEPT !.meeting = FALSE, !.open = FALSE]
      BY <1>3, <2>1 DEF Binds
    <3> QED
      BY <3>1 DEF SessFields
  <2>2. CASE x # s0.session
    <3>1. ss[x] = ss0[x]
      BY <1>3, <2>2 DEF Binds
    <3> QED
      BY <3>1
  <2> QED
    BY <2>1, <2>2
<1> QED
  BY <1>1, <1>2, <1>3 DEF Closer

LEMMA CloserLoggedIn ==
  ASSUME NEW k, NEW n, NEW d, NEW ss0, NEW ss, Channel(k, n, d), LoggedIn(n, d, k, ss0), Closer(ss0, ss)
  PROVE  LoggedIn(n, d, k, ss)
<1>1. k.c \in Conns /\ \A i \in 1..Len(n) : n[i].c \in Conns
  BY RecoveryBounds DEF Channel, Ordered, Conns
<1> QED
  BY <1>1 DEF LoggedIn, Closer

(* The server takes the client into the meeting on the session of m, and   *)
(* answers with a snapshot.                                                *)
Admits(s0, s, m, j0, j) ==
  /\ DOMAIN s = SrvFields /\ s.in /\ s.session = m.c /\ s.deadline = "none" /\ ~s.ended /\ ~s0.ended
  /\ s.gen \in Nat /\ j \in Nat /\ j >= j0 /\ s.ticket \in 1..j /\ s.peer = s0.peer

LEMMA AdmitKeeps ==
  ASSUME NEW k, NEW n0, NEW d0, NEW d, NEW q, NEW ss0, NEW ss, NEW s0, NEW s, NEW j0, NEW j,
         NEW a, NEW m,
         State(k, n0, d0, q, ss0, s0, j0), n0 # <<>>, m = Head(n0), m.t \in {"resume", "join"},
         \A i \in 1..Len(d0) : d0[i].t \notin Single, ~(k.rec = "Ready" /\ k.meeting),
         Binds(ss0, ss, s0, m.c), Admits(s0, s, m, j0, j), Generation(s, k),
         a.t = m.t, a.result = "ok", a.ticket = s.ticket, a.gen = s.gen, a.peer = s.peer,
         Reaches(k, q, ss0, m.c) => AnswerOK(a, k, s, j), Sends(k, q, ss0, m.c, d0, a, d)
  PROVE  State(k, Tail(n0), d, q, ss, s, j)
<1>1. Channel(k, n0, d0) /\ LoggedIn(n0, d0, k, ss0) /\ ServerOK(s0, ss0, k, j0)
      /\ IsSeq(n0) /\ IsSeq(d0)
  BY DEF State, Channel, Ordered, Outstanding
<1>2. m.c \in Conns
  BY <1>1, HeadConn
<1>3. Closer(ss0, ss) /\ ss[m.c].meeting
  BY <1>1, <1>2, BindIs DEF ServerOK
<1>4. ServerOK(s, ss, k, j)
  <2>1. k.ticket <= j0 /\ k.ticket \in Nat /\ j0 \in Nat
    BY <1>1 DEF ServerOK, Channel, ClientOK
  <2>2. k.ticket <= j
    BY <2>1 DEF Admits
  <2>3. s.session \in 0..MaxConns
    BY <1>2, RecoveryBounds DEF Admits, Conns
  <2> QED
    BY <1>3, <2>2, <2>3 DEF ServerOK, Admits, Closer
<1>5. PICK p : Follows(k, d0, q, ss0, s0, p)
  BY DEF State
<1>6. \A i \in 1..Len(d0) : AnswerOK(d0[i], k, s, j) /\ ~Snapshot(d0[i])
  <2>1. ASSUME NEW i \in 1..Len(d0) PROVE AnswerOK(d0[i], k, s, j) /\ ~Snapshot(d0[i])
    <3>1. AnswerOK(d0[i], k, s0, j0) /\ d0[i].t \notin {"resume", "join", "leave"}
      BY DEF State, Answers, Single
    <3> QED
      BY <3>1 DEF AnswerOK, Snapshot, Admits
  <2> QED
    BY <2>1
<1>7. CASE Reaches(k, q, ss0, m.c)
  <2>1. d = Append(d0, a) /\ m.c = k.c /\ k.sock = "up"
    BY <1>7 DEF Sends, Reaches
  <2>2. /\ IsSeq(d) /\ Len(d0) \in Nat /\ Len(d) = Len(d0) + 1 /\ d[Len(d)] = a
        /\ \A i \in 1..Len(d0) : d[i] = d0[i]
    BY <1>1, <2>1, AppendIs
  <2>3. \A i \in 1..Len(d) : (i \in 1..Len(d0) /\ d[i] = d0[i]) \/ (i = Len(d) /\ d[i] = a)
    BY <2>2
  <2>4. Channel(k, Tail(n0), d)
    BY <1>1, <2>1, ReplyChannel
  <2>5. LoggedIn(Tail(n0), d, k, ss0)
    BY <1>1, <2>1, ReplyLoggedIn
  <2>6. LoggedIn(Tail(n0), d, k, ss)
    BY <1>3, <2>4, <2>5, CloserLoggedIn
  <2>7. Answers(d, k, s, j)
    BY <1>6, <1>7, <2>3 DEF Answers
  <2>8. Membership(k, d, q, ss, s)
    <3>1. ~InMeeting(k, d)
      BY DEF InMeeting
    <3>2. Bound(k, ss, s, a.ticket)
      BY <1>3, <2>1 DEF Bound, Admits
    <3> QED
      BY <1>6, <2>3, <3>1, <3>2 DEF Membership
  <2>9. Trace(d0, p)
    BY <1>5 DEF Follows
  <2>10. PICK r : Trace(d, r) /\ r[0] = p[0] /\ r[Len(d)] = After(a, p[Len(d0)])
    BY <1>1, <2>1, <2>9, TraceOn
  <2>11. After(a, p[Len(d0)]) = s.peer
    BY DEF After, Snapshot
  <2>12. Follows(k, d, q, ss, s, r)
    BY <2>10, <2>11 DEF Follows
  <2> QED
    BY <1>4, <2>4, <2>6, <2>7, <2>8, <2>12 DEF State
<1>8. CASE ~Reaches(k, q, ss0, m.c)
  <2>1. d = d0
    BY <1>8 DEF Sends
  <2>2. State(k, Tail(n0), d0, q, ss0, s0, j0)
    BY PopKeeps
  <2>3. Channel(k, Tail(n0), d) /\ LoggedIn(Tail(n0), d, k, ss0)
    BY <2>1, <2>2 DEF State
  <2>4. LoggedIn(Tail(n0), d, k, ss)
    BY <1>3, <2>3, CloserLoggedIn
  <2>5. Answers(d, k, s, j)
    BY <1>6, <2>1 DEF Answers
  <2>6. ~InMeeting(k, d) /\ ~Snapped(d)
    BY <1>6, <2>1 DEF InMeeting, Snapped
  <2>7. Membership(k, d, q, ss, s)
    BY <2>6 DEF Membership, Snapped
  <2>8. Follows(k, d, q, ss, s, p)
    BY <1>5, <2>1, <2>6 DEF Follows, Here
  <2> QED
    BY <1>4, <2>3, <2>4, <2>5, <2>7, <2>8 DEF State
<1> QED
  BY <1>7, <1>8

LEMMA LeftKeeps ==
  ASSUME NEW k, NEW n0, NEW d0, NEW d, NEW q, NEW ss0, NEW ss, NEW s0, NEW s, NEW j, NEW a, NEW m,
         State(k, n0, d0, q, ss0, s0, j), n0 # <<>>, m = Head(n0), m.t = "leave",
         DOMAIN ss = Conns,
         \A x \in Conns : DOMAIN ss[x] = SessFields /\ ss[x].open = ss0[x].open /\ ss[x].user = ss0[x].user,
         DOMAIN s = SrvFields, ~s.in, s.session = 0, s.ended = s0.ended, s.ticket = s0.ticket,
         s.gen = s0.gen,
         a.t = "leave", a.result = "ok", Sends(k, q, ss0, m.c, d0, a, d)
  PROVE  State(k, Tail(n0), d, q, ss, s, j)
<1>1. Channel(k, n0, d0) /\ LoggedIn(n0, d0, k, ss0) /\ ServerOK(s0, ss0, k, j)
      /\ IsSeq(n0) /\ IsSeq(d0)
  BY DEF State, Channel, Ordered, Outstanding
<1>2. /\ k.rec # "Resuming" /\ m.c \in Conns /\ (k.rec = "Ready" => m.c = k.c)
      /\ \A i \in 1..Len(d0) : d0[i].t \notin Single
  BY <1>1, LeaveFirst
<1>3. Closer(ss0, ss)
  BY DEF Closer
<1>4. ServerOK(s, ss, k, j)
  BY <1>1, RecoveryBounds DEF ServerOK
<1>5. Generation(s, k)
  BY DEF Generation
<1>6. \A i \in 1..Len(d0) : AnswerOK(d0[i], k, s, j) /\ ~Snapshot(d0[i])
  <2>1. ASSUME NEW i \in 1..Len(d0) PROVE AnswerOK(d0[i], k, s, j) /\ ~Snapshot(d0[i])
    <3>1. AnswerOK(d0[i], k, s0, j) /\ d0[i].t \notin {"resume", "join", "leave"}
      BY <1>2 DEF State, Answers, Single
    <3> QED
      BY <3>1 DEF AnswerOK, Snapshot
  <2> QED
    BY <2>1
<1>7. PICK p : Follows(k, d0, q, ss0, s0, p)
  BY DEF State
<1>8. Trace(d0, p)
  BY <1>7 DEF Follows
<1>9. CASE Reaches(k, q, ss0, m.c)
  <2>1. d = Append(d0, a) /\ m.c = k.c /\ k.sock = "up"
    BY <1>9 DEF Sends, Reaches
  <2>2. /\ IsSeq(d) /\ Len(d0) \in Nat /\ Len(d) = Len(d0) + 1 /\ d[Len(d)] = a /\ Len(d) \in 1..Len(d)
        /\ \A i \in 1..Len(d0) : d[i] = d0[i]
    BY <1>1, <2>1, AppendIs
  <2>3. \A i \in 1..Len(d) : (i \in 1..Len(d0) /\ d[i] = d0[i]) \/ (i = Len(d) /\ d[i] = a)
    BY <2>2
  <2>4. Channel(k, Tail(n0), d)
    BY <1>1, <2>1, ReplyChannel
  <2>5. LoggedIn(Tail(n0), d, k, ss0)
    BY <1>1, <2>1, ReplyLoggedIn
  <2>6. LoggedIn(Tail(n0), d, k, ss)
    BY <1>3, <2>4, <2>5, CloserLoggedIn
  <2>7. AnswerOK(a, k, s, j) /\ ~Snapshot(a) /\ Left(a)
    BY DEF AnswerOK, AnswerTypes, Snapshot, Left
  <2>8. Answers(d, k, s, j)
    BY <1>6, <2>3, <2>7 DEF Answers
  <2>9. ~InMeeting(k, d) /\ ~Snapped(d)
    BY <1>6, <2>2, <2>3, <2>7 DEF InMeeting, Snapped
  <2>10. Membership(k, d, q, ss, s)
    BY <2>9 DEF Membership, Snapped
  <2>11. PICK r : Trace(d, r) /\ r[0] = p[0]
    BY <1>1, <1>8, <2>1, TraceOn
  <2>12. Follows(k, d, q, ss, s, r)
    BY <1>7, <2>9, <2>11 DEF Follows, Here
  <2> QED
    BY <1>4, <1>5, <2>4, <2>6, <2>8, <2>10, <2>12 DEF State
<1>10. CASE ~Reaches(k, q, ss0, m.c)
  <2>1. d = d0
    BY <1>10 DEF Sends
  <2>2. State(k, Tail(n0), d0, q, ss0, s0, j)
    BY PopKeeps
  <2>3. Channel(k, Tail(n0), d) /\ LoggedIn(Tail(n0), d, k, ss0)
    BY <2>1, <2>2 DEF State
  <2>4. LoggedIn(Tail(n0), d, k, ss)
    BY <1>3, <2>3, CloserLoggedIn
  <2>5. Answers(d, k, s, j)
    BY <1>6, <2>1 DEF Answers
  <2>6. k.c \in Conns
    BY <1>1 DEF Channel, Ordered
  <2>7. ~(Live(k, q, ss, s) /\ InMeeting(k, d)) /\ ~Snapped(d)
    BY <1>2, <1>6, <1>10, <2>1, <2>6 DEF InMeeting, Snapped, Live, Reaches
  <2>8. Membership(k, d, q, ss, s)
    BY <2>7 DEF Membership, Snapped
  <2>9. Follows(k, d, q, ss, s, p)
    BY <1>7, <2>1, <2>7 DEF Follows, Here
  <2> QED
    BY <1>4, <1>5, <2>3, <2>4, <2>5, <2>8, <2>9 DEF State
<1> QED
  BY <1>9, <1>10

(* The facts about the first request, of the state as it is.               *)
LEMMA ResumeNow ==
  ASSUME RecoveryInv, net # <<>>, NEW m, m = Head(net), m.t = "resume"
  PROVE  /\ cl.rec # "Ready" /\ m.c \in Conns
         /\ \A i \in 1..Len(down) : down[i].t \notin Single
         /\ Recovering(cl) /\ cl.ticket # 0 =>
               m.req = cl.req /\ m.ticket = cl.ticket /\ m.gen = cl.gen
         /\ cl.sock = "up" /\ m.c = cl.c => cl.rec = "Resuming" /\ cl.meeting /\ cl.ticket # 0
         /\ sess[m.c].open => sess[m.c].user
<1>1. Channel(cl, net, down) /\ LoggedIn(net, down, cl, sess)
  BY DEF RecoveryInv, State
<1> QED
  BY <1>1, ResumeFirst

Takes(s0, s, m, gen) ==
  s = [s0 EXCEPT !.gen = gen, !.session = m.c, !.deadline = "none", !.last = m.req]

LEMMA ResumeAccepted ==
  ASSUME RecoveryInv, NEW m, m = Head(net), net # <<>>, m.t = "resume", MayResume(m),
         NEW gen, gen = (IF srv.session = m.c THEN srv.gen ELSE srv.gen + 1),
         NEW a, a.t = "resume", a.result = "ok", a.req = m.req, a.peer = srv.peer,
         a.ticket = srv.ticket, a.gen = gen,
         NEW s, Takes(srv, s, m, gen),
         NEW ss, Binds(sess, ss, srv, m.c), NEW d, Sends(cl, silent, sess, m.c, down, a, d)
  PROVE  State(cl, Tail(net), d, silent, ss, s, joins)
<1>1. /\ ServerOK(srv, sess, cl, joins) /\ Generation(srv, cl) /\ ClientOK(cl)
      /\ State(cl, net, down, silent, sess, srv, joins)
  BY DEF RecoveryInv, State, Channel
<1>2. /\ DOMAIN srv = SrvFields /\ srv.gen \in Nat /\ joins \in Nat /\ srv.ticket \in 1..joins
  BY <1>1 DEF ServerOK
<1>3. /\ DOMAIN s = SrvFields /\ s.gen = gen /\ s.session = m.c /\ s.deadline = "none"
      /\ s.last = m.req /\ s.in = srv.in /\ s.ticket = srv.ticket /\ s.ended = srv.ended
      /\ s.peer = srv.peer
  BY <1>2 DEF SrvFields, Takes
<1>4. srv.in /\ ~srv.ended /\ srv.ticket = m.ticket
  BY DEF MayResume
<1>5. gen \in Nat /\ gen >= srv.gen
  BY <1>2
<1>6. Admits(srv, s, m, joins, joins)
  BY <1>2, <1>3, <1>4, <1>5 DEF Admits
<1>7. /\ cl.rec # "Ready" /\ m.c \in Conns
      /\ \A i \in 1..Len(down) : down[i].t \notin Single
      /\ Recovering(cl) /\ cl.ticket # 0 =>
            m.req = cl.req /\ m.ticket = cl.ticket /\ m.gen = cl.gen
      /\ cl.sock = "up" /\ m.c = cl.c => cl.rec = "Resuming" /\ cl.meeting /\ cl.ticket # 0
  BY ResumeNow
<1>8. ASSUME cl.ticket # 0, srv.ticket = cl.ticket
      PROVE  Recovering(cl) /\ m.req = cl.req /\ srv.gen >= cl.gen /\ cl.gen \in Nat
  <2>1. Recovering(cl)
    BY <1>1, <1>7, <1>8 DEF ClientOK, Recovering
  <2>2. srv.gen = cl.gen \/ srv.gen > cl.gen
    BY <1>1, <1>4, <1>8 DEF Generation
  <2>3. cl.gen \in Nat
    BY <1>1 DEF ClientOK
  <2> QED
    BY <1>2, <1>7, <1>8, <2>1, <2>2, <2>3
<1>9. Generation(s, cl)
  <2>1. ASSUME cl.ticket # 0, s.ticket = cl.ticket
        PROVE  s.gen = cl.gen \/ (Recovering(cl) /\ s.gen > cl.gen /\ s.last = cl.req)
    <3>1. Recovering(cl) /\ m.req = cl.req /\ srv.gen >= cl.gen /\ cl.gen \in Nat
      BY <1>3, <1>8, <2>1
    <3>2. s.gen = cl.gen \/ s.gen > cl.gen
      BY <1>2, <1>3, <1>5, <3>1
    <3> QED
      BY <1>3, <3>1, <3>2
  <2> QED
    BY <2>1 DEF Generation
<1>10. Reaches(cl, silent, sess, m.c) => AnswerOK(a, cl, s, joins)
  <2>1. SUFFICES ASSUME Reaches(cl, silent, sess, m.c) PROVE AnswerOK(a, cl, s, joins)
    OBVIOUS
  <2>2. cl.rec = "Resuming" /\ cl.ticket # 0
    BY <1>7, <2>1 DEF Reaches
  <2>3. m.req = cl.req /\ m.ticket = cl.ticket
    BY <1>7, <2>2 DEF Recovering
  <2>4. srv.gen >= cl.gen /\ cl.gen \in Nat
    BY <1>4, <1>8, <2>2, <2>3
  <2>5. a.gen >= cl.gen /\ a.gen \in Nat
    BY <1>2, <1>5, <2>4
  <2> QED
    BY <1>2, <1>3, <1>4, <2>3, <2>5 DEF AnswerOK, AnswerTypes
<1>11. ~(cl.rec = "Ready" /\ cl.meeting) /\ m.t \in {"resume", "join"} /\ a.t = m.t
  BY <1>7
<1>12. a.ticket = s.ticket /\ a.gen = s.gen /\ a.peer = s.peer
  BY <1>3
<1> QED
  BY <1>1, <1>6, <1>7, <1>9, <1>10, <1>11, <1>12, AdmitKeeps

LEMMA ResumeRefused ==
  ASSUME RecoveryInv, NEW m, m = Head(net), net # <<>>, m.t = "resume",
         NEW a, a.t = "resume", a.req = m.req,
         a.result = "busy" \/ (a.result = "refused" /\ ~(sess[m.c].user /\ MayResume(m))),
         NEW d, Sends(cl, silent, sess, m.c, down, a, d)
  PROVE  State(cl, Tail(net), d, silent, sess, srv, joins)
<1>1. /\ ServerOK(srv, sess, cl, joins) /\ Generation(srv, cl) /\ ClientOK(cl)
      /\ State(cl, net, down, silent, sess, srv, joins)
  BY DEF RecoveryInv, State, Channel
<1>2. /\ m.c \in Conns
      /\ Recovering(cl) /\ cl.ticket # 0 =>
            m.req = cl.req /\ m.ticket = cl.ticket /\ m.gen = cl.gen
      /\ cl.sock = "up" /\ m.c = cl.c => cl.rec = "Resuming" /\ cl.meeting /\ cl.ticket # 0
      /\ sess[m.c].open => sess[m.c].user
  BY ResumeNow
<1>3. Idle(a)
  BY DEF Idle, Snapshot, After
<1>4. Reaches(cl, silent, sess, m.c) => AnswerOK(a, cl, srv, joins)
  <2>1. SUFFICES ASSUME Reaches(cl, silent, sess, m.c) PROVE AnswerOK(a, cl, srv, joins)
    OBVIOUS
  <2>2. cl.rec = "Resuming" /\ cl.ticket # 0
    BY <1>2, <2>1 DEF Reaches
  <2>3. m.req = cl.req /\ m.ticket = cl.ticket /\ m.gen = cl.gen
    BY <1>2, <2>2 DEF Recovering
  <2>4. ASSUME a.result = "refused" PROVE Gone(srv, cl)
    <3>1. ~MayResume(m)
      BY <1>2, <2>1, <2>4 DEF Reaches
    <3>2. SUFFICES ASSUME srv.in, srv.deadline # "over", ~srv.ended, srv.ticket = cl.ticket
                   PROVE  FALSE
      BY DEF Gone
    <3>3. srv.gen = cl.gen \/ (srv.gen > cl.gen /\ srv.last = cl.req)
      BY <1>1, <2>2, <3>2 DEF Generation
    <3>4. srv.gen \in Nat /\ cl.gen \in Nat
      BY <1>1 DEF ServerOK, ClientOK
    <3>5. m.gen = srv.gen \/ (m.gen < srv.gen /\ srv.last = m.req)
      BY <2>3, <3>3, <3>4
    <3> QED
      BY <2>3, <3>1, <3>2, <3>5 DEF MayResume
  <2> QED
    BY <2>3, <2>4 DEF AnswerOK, AnswerTypes
<1>5. a.t = m.t /\ a.t # "login"
  OBVIOUS
<1> QED
  BY <1>1, <1>3, <1>4, <1>5, ReplyKeeps

LEMMA ResumeKeeps == ASSUME RecoveryInv, NEW result, ResumeHandler(result) PROVE RecoveryInv'
<1>1. PICK m : m = Head(net)
  OBVIOUS
<1>2. PICK gen : gen = (IF srv.session = m.c THEN srv.gen ELSE srv.gen + 1)
  OBVIOUS
<1>3. net # <<>> /\ m.t = "resume" /\ net' = Tail(net) /\ UNCHANGED <<cl, silent, joins>>
  BY <1>1 DEF ResumeHandler, Handling
<1>4. CASE result = "ok" /\ sess[m.c].user /\ MayResume(m)
  <2>1. PICK a : a = [Ans("resume", "ok") EXCEPT !.req = m.req, !.peer = srv.peer,
                                                 !.ticket = srv.ticket, !.gen = gen]
    OBVIOUS
  <2>2. /\ a.t = "resume" /\ a.result = "ok" /\ a.req = m.req /\ a.peer = srv.peer
        /\ a.ticket = srv.ticket /\ a.gen = gen
    BY <2>1 DEF Ans
  <2>3. PICK s : Takes(srv, s, m, gen)
    BY DEF Takes
  <2>4. down' = Deliver(m.c, <<a>>) /\ srv' = s /\ Binds(sess, sess', srv, m.c)
    BY <1>1, <1>2, <1>4, <2>1, <2>3 DEF ResumeHandler, Bind, Binds, Takes
  <2>5. Sends(cl, silent, sess, m.c, down, a, down')
    BY <2>4, DeliverSends
  <2>6. State(cl, Tail(net), down', silent, sess', s, joins)
    BY <1>1, <1>2, <1>3, <1>4, <2>2, <2>3, <2>4, <2>5, ResumeAccepted
  <2> QED
    BY <1>3, <2>4, <2>6 DEF RecoveryInv
<1>5. CASE ~(result = "ok" /\ sess[m.c].user /\ MayResume(m))
  <2>1. PICK a : a = IF result # "ok" THEN [Ans("resume", "busy") EXCEPT !.req = m.req]
                     ELSE [Ans("resume", "refused") EXCEPT !.req = m.req]
    OBVIOUS
  <2>2. /\ a.t = "resume" /\ a.req = m.req
        /\ a.result = "busy" \/ (a.result = "refused" /\ ~(sess[m.c].user /\ MayResume(m)))
    BY <1>5, <2>1 DEF Ans
  <2>3. down' = Deliver(m.c, <<a>>) /\ UNCHANGED <<sess, srv>>
    BY <1>1, <1>5, <2>1 DEF ResumeHandler
  <2>4. Sends(cl, silent, sess, m.c, down, a, down')
    BY <2>3, DeliverSends
  <2>5. State(cl, Tail(net), down', silent, sess, srv, joins)
    BY <1>1, <1>3, <2>2, <2>4, ResumeRefused
  <2> QED
    BY <1>3, <2>3, <2>5 DEF RecoveryInv
<1> QED
  BY <1>4, <1>5

(* The record of a new ticket.                                             *)
Joins(s0, s, m, j) ==
  s = [s0 EXCEPT !.in = TRUE, !.ticket = j + 1, !.gen = 1, !.session = m.c,
                 !.deadline = "none", !.last = 0]

LEMMA JoinAccepted ==
  ASSUME RecoveryInv, NEW m, m = Head(net), net # <<>>, m.t = "join", ~srv.ended,
         NEW a, a.t = "join", a.result = "ok", a.peer = srv.peer, a.ticket = joins + 1, a.gen = 1,
         NEW s, Joins(srv, s, m, joins),
         NEW ss, Binds(sess, ss, srv, m.c), NEW d, Sends(cl, silent, sess, m.c, down, a, d)
  PROVE  State(cl, Tail(net), d, silent, ss, s, joins + 1)
<1>1. /\ ServerOK(srv, sess, cl, joins) /\ Channel(cl, net, down)
      /\ State(cl, net, down, silent, sess, srv, joins)
  BY DEF RecoveryInv, State
<1>2. /\ DOMAIN srv = SrvFields /\ joins \in Nat /\ cl.ticket <= joins
  BY <1>1 DEF ServerOK
<1>3. PICK j : j = joins + 1
  OBVIOUS
<1>4. /\ DOMAIN s = SrvFields /\ s.gen = 1 /\ s.session = m.c /\ s.deadline = "none"
      /\ s.in /\ s.ticket = j /\ s.ended = srv.ended /\ s.peer = srv.peer
  BY <1>2, <1>3 DEF SrvFields, Joins
<1>5. j \in Nat /\ j >= joins /\ j \in 1..j
  BY <1>2, <1>3
<1>6. Admits(srv, s, m, joins, j)
  BY <1>4, <1>5 DEF Admits
<1>7. /\ cl.rec # "Resuming" /\ ~(cl.rec = "Ready" /\ cl.meeting)
      /\ \A i \in 1..Len(down) : down[i].t \notin Single
  BY <1>1, JoinFirst
<1>8. s.ticket # cl.ticket
  <2>1. cl.ticket \in Nat
    BY <1>1 DEF Channel, ClientOK
  <2> QED
    BY <1>2, <1>3, <1>4, <2>1
<1>9. Generation(s, cl)
  BY <1>8 DEF Generation
<1>10. AnswerOK(a, cl, s, j)
  BY <1>3, <1>4, <1>5 DEF AnswerOK, AnswerTypes
<1>11. m.t \in {"resume", "join"} /\ a.t = m.t
  OBVIOUS
<1>12. a.ticket = s.ticket /\ a.gen = s.gen /\ a.peer = s.peer
  BY <1>3, <1>4
<1>13. State(cl, Tail(net), d, silent, ss, s, j)
  BY <1>1, <1>6, <1>7, <1>9, <1>10, <1>11, <1>12, AdmitKeeps
<1> QED
  BY <1>3, <1>13

LEMMA JoinHandlerKeeps == ASSUME RecoveryInv, NEW result, JoinHandler(result) PROVE RecoveryInv'
<1>1. PICK m : m = Head(net)
  OBVIOUS
<1>2. PICK ok : ok = (/\ result = "ok" /\ sess[m.c].user /\ ~srv.ended
                      /\ srv.in => srv.deadline = "running")
  OBVIOUS
<1>3. net # <<>> /\ m.t = "join" /\ net' = Tail(net) /\ UNCHANGED <<cl, silent>>
  BY <1>1 DEF JoinHandler, Handling
<1>4. CASE ok /\ joins < MaxJoins
  <2>1. PICK a : a = [Ans("join", "ok") EXCEPT !.ticket = joins + 1, !.gen = 1, !.peer = srv.peer]
    OBVIOUS
  <2>2. /\ a.t = "join" /\ a.result = "ok" /\ a.peer = srv.peer /\ a.ticket = joins + 1 /\ a.gen = 1
    BY <2>1 DEF Ans
  <2>3. PICK s : Joins(srv, s, m, joins)
    BY DEF Joins
  <2>4. /\ down' = Deliver(m.c, <<a>>) /\ srv' = s /\ Binds(sess, sess', srv, m.c)
        /\ joins' = joins + 1 /\ ~srv.ended
    BY <1>1, <1>2, <1>4, <2>1, <2>3 DEF JoinHandler, Bind, Binds, Joins
  <2>5. Sends(cl, silent, sess, m.c, down, a, down')
    BY <2>4, DeliverSends
  <2>6. State(cl, Tail(net), down', silent, sess', s, joins + 1)
    BY <1>1, <1>3, <2>2, <2>3, <2>4, <2>5, JoinAccepted
  <2> QED
    BY <1>3, <2>4, <2>6 DEF RecoveryInv
<1>5. CASE ~(ok /\ joins < MaxJoins)
  <2>1. PICK a : a = Ans("join", "refused")
    OBVIOUS
  <2>2. a.t = "join" /\ a.result = "refused"
    BY <2>1 DEF Ans
  <2>3. down' = Deliver(m.c, <<a>>) /\ UNCHANGED <<sess, srv, joins>>
    BY <1>1, <1>2, <1>5, <2>1 DEF JoinHandler
  <2>4. Sends(cl, silent, sess, m.c, down, a, down')
    BY <2>3, DeliverSends
  <2>5. Idle(a) /\ AnswerOK(a, cl, srv, joins)
    BY <2>2 DEF Idle, Snapshot, After, AnswerOK, AnswerTypes
  <2>6. State(cl, net, down, silent, sess, srv, joins) /\ a.t = m.t /\ a.t # "login"
    BY <1>3, <2>2 DEF RecoveryInv
  <2>7. State(cl, Tail(net), down', silent, sess, srv, joins)
    BY <1>1, <1>3, <2>4, <2>5, <2>6, ReplyKeeps
  <2> QED
    BY <1>3, <2>3, <2>7 DEF RecoveryInv
<1> QED
  BY <1>4, <1>5

LEMMA LeaveHandlerKeeps == ASSUME RecoveryInv, NEW result, LeaveHandler(result) PROVE RecoveryInv'
<1>1. PICK m : m = Head(net)
  OBVIOUS
<1>2. net # <<>> /\ m.t = "leave" /\ net' = Tail(net) /\ UNCHANGED <<cl, silent, joins>>
  BY <1>1 DEF LeaveHandler, Handling
<1>3. PICK a : a = Ans("leave", IF (result = "ok" /\ sess[m.c].meeting)
                                   \/ (result = "ok" /\ sess[m.c].user /\ srv.ended)
                                THEN "ok" ELSE "busy")
  OBVIOUS
<1>4. a.t = "leave"
  BY <1>3 DEF Ans
<1>5. down' = Deliver(m.c, <<a>>)
  BY <1>1, <1>3 DEF LeaveHandler
<1>6. Sends(cl, silent, sess, m.c, down, a, down')
  BY <1>5, DeliverSends
<1>7. /\ State(cl, net, down, silent, sess, srv, joins) /\ Channel(cl, net, down)
      /\ ServerOK(srv, sess, cl, joins)
  BY DEF RecoveryInv, State
<1>8. m.c \in Conns
  BY <1>1, <1>2, <1>7, HeadConn
<1>9. CASE result = "ok" /\ sess[m.c].meeting
  <2>1. a.result = "ok"
    BY <1>3, <1>9 DEF Ans
  <2>2. PICK ss, s : ss = sess' /\ s = srv'
    OBVIOUS
  <2>3. /\ ss = [sess EXCEPT ![m.c].meeting = FALSE]
        /\ s = [srv EXCEPT !.in = FALSE, !.session = 0, !.deadline = "none"]
    BY <1>1, <1>9, <2>2 DEF LeaveHandler
  <2>4. /\ DOMAIN ss = Conns
        /\ \A x \in Conns : /\ DOMAIN ss[x] = SessFields /\ ss[x].open = sess[x].open
                            /\ ss[x].user = sess[x].user
    BY <1>7, <1>8, <2>3 DEF ServerOK, SessFields
  <2>5. /\ DOMAIN s = SrvFields /\ ~s.in /\ s.session = 0 /\ s.ended = srv.ended
        /\ s.ticket = srv.ticket /\ s.gen = srv.gen
    BY <1>7, <2>3 DEF ServerOK, SrvFields
  <2>6. State(cl, Tail(net), down', silent, ss, s, joins)
    BY <1>1, <1>2, <1>4, <1>6, <1>7, <2>1, <2>4, <2>5, LeftKeeps
  <2> QED
    BY <1>2, <2>2, <2>6 DEF RecoveryInv
<1>10. CASE ~(result = "ok" /\ sess[m.c].meeting)
  <2>1. UNCHANGED <<sess, srv>>
    BY <1>1, <1>10 DEF LeaveHandler
  <2>2. Idle(a) /\ AnswerOK(a, cl, srv, joins)
    BY <1>4 DEF Idle, Snapshot, After, AnswerOK, AnswerTypes
  <2>3. a.t = m.t /\ a.t # "login"
    BY <1>2, <1>4
  <2>4. State(cl, Tail(net), down', silent, sess, srv, joins)
    BY <1>1, <1>2, <1>6, <1>7, <2>2, <2>3, ReplyKeeps
  <2> QED
    BY <1>2, <2>1, <2>4 DEF RecoveryInv
<1> QED
  BY <1>9, <1>10

-----------------------------------------------------------------------------
(* The server by itself                                                    *)

LEMMA SessionEndKeeps == ASSUME RecoveryInv, NEW c \in Conns, SessionDisconnected(c) PROVE RecoveryInv'
<1>1. /\ ServerOK(srv, sess, cl, joins) /\ Channel(cl, net, down) /\ Generation(srv, cl)
      /\ LoggedIn(net, down, cl, sess) /\ Answers(down, cl, srv, joins)
      /\ Membership(cl, down, silent, sess, srv)
  BY DEF RecoveryInv, State
<1>2. PICK ss, s : ss = sess' /\ s = srv'
  OBVIOUS
<1>3. /\ ss = [sess EXCEPT ![c] = [open |-> FALSE, user |-> FALSE, meeting |-> FALSE]]
      /\ s = EndOf(c) /\ UNCHANGED <<cl, net, down, silent, joins>>
      /\ c # cl.c \/ cl.sock # "up" \/ silent
  BY <1>2 DEF SessionDisconnected
<1>4. /\ DOMAIN ss = Conns /\ DOMAIN ss[c] = SessFields /\ ~ss[c].open
      /\ \A x \in Conns : x # c => ss[x] = sess[x]
  BY <1>1, <1>3 DEF ServerOK, SessFields
<1>5. Closer(sess, ss)
  BY <1>1, <1>4 DEF Closer, ServerOK
<1>6. /\ DOMAIN s = SrvFields /\ s.in = srv.in /\ s.ticket = srv.ticket /\ s.gen = srv.gen
      /\ s.last = srv.last /\ s.ended = srv.ended /\ s.peer = srv.peer
      /\ \/ s = srv
         \/ srv.session = c /\ s.session = 0 /\ s.deadline = "running"
  BY <1>1, <1>3 DEF EndOf, ServerOK, SrvFields
<1>7. srv.session = c => srv.deadline = "none"
  BY <1>1, RecoveryBounds DEF ServerOK, Conns
<1>8. ServerOK(s, ss, cl, joins)
  BY <1>1, <1>5, <1>6, RecoveryBounds DEF ServerOK, Closer
<1>9. LoggedIn(net, down, cl, ss)
  BY <1>1, <1>5, CloserLoggedIn
<1>10. Generation(s, cl)
  BY <1>1, <1>6 DEF Generation
<1>11. Gone(srv, cl) => Gone(s, cl)
  BY <1>6, <1>7 DEF Gone
<1>12. Answers(down, cl, s, joins)
  <2>1. ASSUME NEW i \in 1..Len(down) PROVE AnswerOK(down[i], cl, s, joins)
    <3>1. AnswerOK(down[i], cl, srv, joins)
      BY <1>1 DEF Answers
    <3> QED
      BY <1>6, <1>11, <3>1 DEF AnswerOK
  <2> QED
    BY <2>1 DEF Answers
<1>13. cl.c \in Conns
  BY <1>1 DEF Channel, Ordered
<1>14. Live(cl, silent, ss, s) => cl.c # c /\ ss[cl.c] = sess[cl.c] /\ Live(cl, silent, sess, srv)
  BY <1>3, <1>4, <1>6, <1>13 DEF Live
<1>15. \A t : Live(cl, silent, ss, s) /\ Bound(cl, sess, srv, t) => Bound(cl, ss, s, t)
  BY <1>6, <1>14 DEF Bound
<1>16. Membership(cl, down, silent, ss, s)
  BY <1>1, <1>14, <1>15 DEF Membership
<1>17. PICK p : Follows(cl, down, silent, sess, srv, p)
  BY DEF RecoveryInv, State
<1>18. Follows(cl, down, silent, ss, s, p)
  BY <1>6, <1>14, <1>17 DEF Follows, Here
<1>19. State(cl, net, down, silent, ss, s, joins)
  BY <1>1, <1>8, <1>9, <1>10, <1>12, <1>16, <1>18 DEF State
<1> QED
  BY <1>2, <1>3, <1>19 DEF RecoveryInv

(* The grace period: nobody is bound while it runs.                        *)
LEMMA GraceKeeps == ASSUME RecoveryInv, GracePasses PROVE RecoveryInv'
<1>1. /\ ServerOK(srv, sess, cl, joins) /\ Channel(cl, net, down) /\ Generation(srv, cl)
      /\ LoggedIn(net, down, cl, sess) /\ Answers(down, cl, srv, joins)
      /\ Membership(cl, down, silent, sess, srv)
  BY DEF RecoveryInv, State
<1>2. PICK s : s = srv'
  OBVIOUS
<1>3. /\ DOMAIN s = SrvFields /\ s.ticket = srv.ticket /\ s.gen = srv.gen
      /\ s.ended = srv.ended /\ s.peer = srv.peer /\ s.session = srv.session
      /\ (s.in => srv.in /\ s.last = srv.last)
      /\ srv.deadline # "none" /\ (s.deadline = "over" \/ ~s.in)
  BY <1>1, <1>2 DEF GracePasses, ServerOK, SrvFields
<1>4. UNCHANGED <<cl, net, down, silent, sess, joins>>
  BY DEF GracePasses
<1>5. ServerOK(s, sess, cl, joins)
  BY <1>1, <1>3 DEF ServerOK
<1>6. Generation(s, cl)
  BY <1>1, <1>3 DEF Generation
<1>7. Answers(down, cl, s, joins)
  <2>1. ASSUME NEW i \in 1..Len(down) PROVE AnswerOK(down[i], cl, s, joins)
    <3>1. AnswerOK(down[i], cl, srv, joins)
      BY <1>1 DEF Answers
    <3>2. Gone(s, cl)
      BY <1>3 DEF Gone
    <3> QED
      BY <1>3, <3>1, <3>2 DEF AnswerOK
  <2> QED
    BY <2>1 DEF Answers
<1>8. ~Here(cl, down, silent, sess, srv)
  BY <1>1, <1>3 DEF Here, Membership, Bound, Snapped
<1>9. ~Here(cl, down, silent, sess, s)
  BY <1>3, <1>8 DEF Here, Live
<1>10. Membership(cl, down, silent, sess, s)
  BY <1>9 DEF Membership, Here, Snapped
<1>11. PICK p : Follows(cl, down, silent, sess, srv, p)
  BY DEF RecoveryInv, State
<1>12. Follows(cl, down, silent, sess, s, p)
  BY <1>9, <1>11 DEF Follows
<1>13. State(cl, net, down, silent, sess, s, joins)
  BY <1>1, <1>5, <1>6, <1>7, <1>10, <1>12 DEF State
<1> QED
  BY <1>2, <1>4, <1>13 DEF RecoveryInv

(* What the server tells the client's session in the room.                 *)
LEMMA NotifyIs ==
  ASSUME RecoveryInv, NEW t, NEW a, a = Ans(t, "ok")
  PROVE  /\ a.t = t
         /\ IF InRoom /\ Reaches(cl, silent, sess, srv.session) THEN Notify(t) = Append(down, a)
            ELSE Notify(t) = down
<1>1. IsSeq(down)
  BY DEF RecoveryInv, State, Channel, Outstanding
<1>2. down \o <<>> = down /\ down \o <<a>> = Append(down, a)
  BY <1>1, NoneAdded, OneAdded
<1>3. a.t = t
  BY DEF Ans
<1> QED
  BY <1>2, <1>3 DEF Notify, Deliver, Out, Reaches

LEMMA HereIsTold ==
  ASSUME RecoveryInv, Here(cl, down, silent, sess, srv)
  PROVE  InRoom /\ Reaches(cl, silent, sess, srv.session)
<1>1. \E t : Bound(cl, sess, srv, t)
  BY DEF RecoveryInv, State, Membership, Here, Snapped
<1>2. cl.c \in Conns /\ cl.c # 0
  BY RecoveryBounds DEF RecoveryInv, State, Channel, Ordered, Conns
<1> QED
  BY <1>1, <1>2 DEF Bound, InRoom, Reaches, Here, Live


LEMMA NoticeChannel ==
  ASSUME NEW k, NEW n, NEW d0, NEW ss, NEW a, Channel(k, n, d0), LoggedIn(n, d0, k, ss), k.sock = "up",
         a.t \notin Single, a.t # "login"
  PROVE  Channel(k, n, Append(d0, a)) /\ LoggedIn(n, Append(d0, a), k, ss)
<1>1. Waits(k, a.t)
  BY DEF Waits, Single
<1>2. Channel(k, n, Append(d0, a))
  BY <1>1, AddChannel
<1>3. PICK d : d = Append(d0, a)
  OBVIOUS
<1>4. \A i \in 1..Len(d) : (i \in 1..Len(d0) /\ d[i] = d0[i]) \/ d[i] = a
  BY <1>3, AppendIs DEF Channel, Outstanding
<1>5. LoggedIn(n, d, k, ss)
  BY <1>4 DEF LoggedIn
<1> QED
  BY <1>2, <1>3, <1>5

LEMMA PeerKeeps == ASSUME RecoveryInv, PeerStep PROVE RecoveryInv'
<1>1. /\ ServerOK(srv, sess, cl, joins) /\ Channel(cl, net, down) /\ Generation(srv, cl)
      /\ LoggedIn(net, down, cl, sess) /\ Answers(down, cl, srv, joins)
      /\ Membership(cl, down, silent, sess, srv) /\ IsSeq(down)
  BY DEF RecoveryInv, State, Channel, Outstanding
<1>2. UNCHANGED <<cl, net, silent, sess, joins>>
  BY DEF PeerStep
<1>3. PICK step \in {<<"absent", "active", "joined">>, <<"active", "absent", "left">>,
                     <<"active", "reconnecting", "reconnecting">>,
                     <<"reconnecting", "active", "reconnected">>,
                     <<"reconnecting", "absent", "left">>} :
             /\ srv.peer = step[1] /\ srv' = [srv EXCEPT !.peer = step[2]]
             /\ down' = Notify(step[3])
  BY DEF PeerStep
<1>4. PICK a : a = Ans(step[3], "ok")
  OBVIOUS
<1>5. /\ a.t = step[3]
      /\ IF InRoom /\ Reaches(cl, silent, sess, srv.session) THEN down' = Append(down, a)
         ELSE down' = down
  BY <1>3, <1>4, NotifyIs
<1>6. a.t \in {"joined", "left", "reconnecting", "reconnected"}
  BY <1>3, <1>5
<1>7. PICK s, d : s = srv' /\ d = down'
  OBVIOUS
<1>8. /\ DOMAIN s = SrvFields /\ s.in = srv.in /\ s.ticket = srv.ticket /\ s.gen = srv.gen
      /\ s.last = srv.last /\ s.ended = srv.ended /\ s.peer = step[2]
      /\ s.session = srv.session /\ s.deadline = srv.deadline
  BY <1>1, <1>3, <1>7 DEF ServerOK, SrvFields
<1>9. ~Snapshot(a) /\ ~Left(a) /\ a.t \notin Single /\ a.t # "login"
  BY <1>6 DEF Snapshot, Left, Single
<1>10. After(a, srv.peer) = s.peer
  BY <1>3, <1>5, <1>8, <1>9 DEF After
<1>11. ServerOK(s, sess, cl, joins)
  BY <1>1, <1>8 DEF ServerOK
<1>12. Generation(s, cl)
  BY <1>1, <1>8 DEF Generation
<1>13. \A m : AnswerOK(m, cl, srv, joins) => AnswerOK(m, cl, s, joins)
  BY <1>8 DEF AnswerOK, Gone
<1>14. \A t : Bound(cl, sess, srv, t) => Bound(cl, sess, s, t)
  BY <1>8 DEF Bound
<1>15. Live(cl, silent, sess, s) <=> Live(cl, silent, sess, srv)
  BY <1>8 DEF Live
<1>16. PICK p : Follows(cl, down, silent, sess, srv, p)
  BY DEF RecoveryInv, State
<1>17. CASE InRoom /\ Reaches(cl, silent, sess, srv.session)
  <2>1. d = Append(down, a) /\ cl.sock = "up"
    BY <1>5, <1>7, <1>17 DEF Reaches
  <2>2. /\ IsSeq(d) /\ Len(down) \in Nat /\ Len(d) = Len(down) + 1 /\ d[Len(d)] = a
        /\ \A i \in 1..Len(down) : d[i] = down[i] /\ i \in 1..Len(d)
    BY <1>1, <2>1, AppendIs
  <2>3. \A i \in 1..Len(d) : (i \in 1..Len(down) /\ d[i] = down[i]) \/ (i = Len(d) /\ d[i] = a)
    BY <2>2
  <2>4. Channel(cl, net, d) /\ LoggedIn(net, d, cl, sess)
    BY <1>1, <1>9, <2>1, NoticeChannel
  <2>5. AnswerOK(a, cl, s, joins)
    BY <1>6 DEF AnswerOK, AnswerTypes
  <2>6. Answers(d, cl, s, joins)
    BY <1>1, <1>13, <2>3, <2>5 DEF Answers
  <2>7. InMeeting(cl, d) => InMeeting(cl, down)
    BY <2>2 DEF InMeeting
  <2>8. Snapped(d) => Snapped(down)
    BY <1>9, <2>3 DEF Snapped
  <2>9. Membership(cl, d, silent, sess, s)
    BY <1>1, <1>9, <1>14, <1>15, <2>3, <2>7 DEF Membership
  <2>10. Trace(down, p)
    BY <1>16 DEF Follows
  <2>11. PICK r : Trace(d, r) /\ r[0] = p[0] /\ r[Len(d)] = After(a, p[Len(down)])
    BY <1>1, <2>1, <2>10, TraceOn
  <2>12. Here(cl, d, silent, sess, s) => Here(cl, down, silent, sess, srv)
    BY <1>15, <2>7, <2>8 DEF Here
  <2>13. Here(cl, d, silent, sess, s) => r[Len(d)] = s.peer
    BY <1>10, <1>16, <2>11, <2>12 DEF Follows
  <2>14. Follows(cl, d, silent, sess, s, r)
    BY <1>16, <2>11, <2>13 DEF Follows
  <2>15. State(cl, net, d, silent, sess, s, joins)
    BY <1>11, <1>12, <2>4, <2>6, <2>9, <2>14 DEF State
  <2> QED
    BY <1>2, <1>7, <2>15 DEF RecoveryInv
<1>18. CASE ~(InRoom /\ Reaches(cl, silent, sess, srv.session))
  <2>1. d = down
    BY <1>5, <1>7, <1>18
  <2>2. ~Here(cl, down, silent, sess, srv)
    BY <1>18, HereIsTold
  <2>3. ~Here(cl, down, silent, sess, s)
    BY <1>15, <2>2 DEF Here
  <2>4. Answers(down, cl, s, joins)
    BY <1>1, <1>13 DEF Answers
  <2>5. Membership(cl, down, silent, sess, s)
    BY <2>3 DEF Membership, Here, Snapped
  <2>6. Follows(cl, down, silent, sess, s, p)
    BY <1>16, <2>3 DEF Follows
  <2>7. State(cl, net, d, silent, sess, s, joins)
    BY <1>1, <1>11, <1>12, <2>1, <2>4, <2>5, <2>6 DEF State
  <2> QED
    BY <1>2, <1>7, <2>7 DEF RecoveryInv
<1> QED
  BY <1>17, <1>18

LEMMA EndMeetingKeeps == ASSUME RecoveryInv, EndMeeting PROVE RecoveryInv'
<1>1. /\ ServerOK(srv, sess, cl, joins) /\ Channel(cl, net, down) /\ IsSeq(down)
      /\ LoggedIn(net, down, cl, sess) /\ Answers(down, cl, srv, joins)
  BY DEF RecoveryInv, State, Channel, Outstanding
<1>2. UNCHANGED <<cl, net, silent, joins>>
  BY DEF EndMeeting
<1>3. PICK a : a = Ans("ended", "ok")
  OBVIOUS
<1>4. /\ a.t = "ended"
      /\ IF InRoom /\ Reaches(cl, silent, sess, srv.session) THEN down' = Append(down, a)
         ELSE down' = down
  BY <1>3, NotifyIs DEF EndMeeting
<1>5. PICK s, ss, d : s = srv' /\ ss = sess' /\ d = down'
  OBVIOUS
<1>6. /\ DOMAIN s = SrvFields /\ ~s.in /\ s.ticket = srv.ticket /\ s.gen = srv.gen
      /\ s.ended /\ s.session = 0
  BY <1>1, <1>5 DEF EndMeeting, ServerOK, SrvFields
<1>7. /\ DOMAIN ss = Conns
      /\ \A x \in Conns : /\ DOMAIN ss[x] = SessFields /\ ss[x].open = sess[x].open
                          /\ ss[x].user = sess[x].user
  BY <1>1, <1>5 DEF EndMeeting, ServerOK, SessFields
<1>8. Closer(sess, ss)
  BY <1>7 DEF Closer
<1>9. ServerOK(s, ss, cl, joins)
  BY <1>1, <1>6, <1>7, RecoveryBounds DEF ServerOK
<1>10. Generation(s, cl) /\ ~Live(cl, silent, ss, s)
  BY <1>6 DEF Generation, Live
<1>11. \A m : AnswerOK(m, cl, srv, joins) => AnswerOK(m, cl, s, joins)
  BY <1>6 DEF AnswerOK, Gone
<1>12. PICK p : Follows(cl, down, silent, sess, srv, p)
  BY DEF RecoveryInv, State
<1>13. Membership(cl, d, silent, ss, s)
  BY <1>10 DEF Membership
<1>14. CASE InRoom /\ Reaches(cl, silent, sess, srv.session)
  <2>1. d = Append(down, a) /\ cl.sock = "up"
    BY <1>4, <1>5, <1>14 DEF Reaches
  <2>2. \A i \in 1..Len(d) : (i \in 1..Len(down) /\ d[i] = down[i]) \/ d[i] = a
    BY <1>1, <2>1, AppendIs
  <2>3. a.t \notin Single /\ a.t # "login"
    BY <1>4 DEF Single
  <2>4. Channel(cl, net, d) /\ LoggedIn(net, d, cl, sess)
    BY <1>1, <2>1, <2>3, NoticeChannel
  <2>5. LoggedIn(net, d, cl, ss)
    BY <1>8, <2>4, CloserLoggedIn
  <2>6. AnswerOK(a, cl, s, joins)
    BY <1>4, <1>6 DEF AnswerOK, AnswerTypes
  <2>7. Answers(d, cl, s, joins)
    BY <1>1, <1>11, <2>2, <2>6 DEF Answers
  <2>8. Trace(down, p)
    BY <1>12 DEF Follows
  <2>9. PICK r : Trace(d, r) /\ r[0] = p[0]
    BY <1>1, <2>1, <2>8, TraceOn
  <2>10. Follows(cl, d, silent, ss, s, r)
    BY <1>10, <1>12, <2>9 DEF Follows, Here
  <2>11. State(cl, net, d, silent, ss, s, joins)
    BY <1>9, <1>10, <1>13, <2>4, <2>5, <2>7, <2>10 DEF State
  <2> QED
    BY <1>2, <1>5, <2>11 DEF RecoveryInv
<1>15. CASE ~(InRoom /\ Reaches(cl, silent, sess, srv.session))
  <2>1. d = down
    BY <1>4, <1>5, <1>15
  <2>2. LoggedIn(net, down, cl, ss)
    BY <1>1, <1>8, CloserLoggedIn
  <2>3. Answers(down, cl, s, joins)
    BY <1>1, <1>11 DEF Answers
  <2>4. Follows(cl, down, silent, ss, s, p)
    BY <1>10, <1>12 DEF Follows, Here
  <2>5. State(cl, net, d, silent, ss, s, joins)
    BY <1>1, <1>9, <1>10, <1>13, <2>1, <2>2, <2>3, <2>4 DEF State
  <2> QED
    BY <1>2, <1>5, <2>5 DEF RecoveryInv
<1> QED
  BY <1>14, <1>15

-----------------------------------------------------------------------------
(* The chat                                                                *)

ChatTypes == {"chat", "push", "history"}

(* Whatever the server says of the chat leaves the connection as it is.    *)
LEMMA OutKeeps ==
  ASSUME NEW n, NEW d, State(cl, n, d, silent, sess, srv, joins), NEW a, a.t \in ChatTypes, NEW c
  PROVE  State(cl, n, d \o Out(c, <<a>>), silent, sess, srv, joins)
<1>1. IsSeq(d) /\ Channel(cl, n, d) /\ LoggedIn(n, d, cl, sess)
  BY DEF State, Channel, Outstanding
<1>2. d \o <<>> = d /\ d \o <<a>> = Append(d, a)
  BY <1>1, NoneAdded, OneAdded
<1>3. CASE c = cl.c /\ cl.sock = "up" /\ ~silent /\ sess[c].open
  <2>1. a.t \notin Single /\ a.t # "login" /\ cl.sock = "up"
    BY <1>3 DEF ChatTypes, Single
  <2>2. Channel(cl, n, Append(d, a)) /\ LoggedIn(n, Append(d, a), cl, sess)
    BY <1>1, <2>1, NoticeChannel
  <2>3. AnswerOK(a, cl, srv, joins) /\ Idle(a)
    BY DEF ChatTypes, AnswerOK, AnswerTypes, Idle, Snapshot, After
  <2>4. State(cl, n, Append(d, a), silent, sess, srv, joins)
    BY <2>2, <2>3, NoteKeeps
  <2>5. Out(c, <<a>>) = <<a>>
    BY <1>3 DEF Out
  <2> QED
    BY <1>2, <2>4, <2>5
<1>4. CASE ~(c = cl.c /\ cl.sock = "up" /\ ~silent /\ sess[c].open)
  <2>1. Out(c, <<a>>) = <<>>
    BY <1>4 DEF Out
  <2> QED
    BY <1>2, <2>1
<1> QED
  BY <1>3, <1>4

LEMMA PushKeeps ==
  ASSUME NEW n, NEW d, State(cl, n, d, silent, sess, srv, joins), NEW messages, NEW mid
  PROVE  State(cl, n, d \o Push(messages, mid), silent, sess, srv, joins)
<1>1. PICK a : a = [Ans("push", "ok") EXCEPT !.rows = <<Stored(messages, mid)>>]
  OBVIOUS
<1>2. a.t \in ChatTypes
  BY <1>1 DEF Ans, ChatTypes
<1>3. CASE InRoom
  <2>1. Push(messages, mid) = Out(srv.session, <<a>>)
    BY <1>1, <1>3 DEF Push
  <2> QED
    BY <1>2, <2>1, OutKeeps
<1>4. CASE ~InRoom
  <2>1. Push(messages, mid) = <<>> /\ IsSeq(d)
    BY <1>4 DEF Push, State, Channel, Outstanding
  <2>2. d \o <<>> = d
    BY <2>1, NoneAdded
  <2> QED
    BY <2>1, <2>2
<1> QED
  BY <1>3, <1>4

(* A request about the chat.                                               *)
LEMMA ChatSendKeeps ==
  ASSUME RecoveryInv, cl.sock = "up", NEW m, m.t \in ChatTypes, m.c = cl.c, SendData(cl, m)
  PROVE  State(cl, net', down, silent, sess, srv, joins)
<1>1. MaySend(cl, net, down, sess, m)
  BY DEF MaySend, ChatTypes, Waits, Single
<1> QED
  BY <1>1, SendDataKeeps DEF RecoveryInv

LEMMA ChatRequestsKeep ==
  ASSUME RecoveryInv, NEW kind, NEW older, SendMessage(kind) \/ RequestHistory(kind, older)
  PROVE  RecoveryInv'
<1>1. UNCHANGED <<cl, down, silent, sess, srv, joins>>
  BY DEF SendMessage, RequestHistory, ServerVars
<1>2. ClientOK(cl)
  BY DEF RecoveryInv, State, Channel
<1>3. \/ UNCHANGED net
      \/ cl.rec = "Ready" /\ \E m : m.t \in ChatTypes /\ m.c = cl.c /\ SendData(cl, m)
  <2>1. CASE SendMessage(kind)
    <3>1. PICK m : m = [Req("chat", cl) EXCEPT !.x = <<sent + 1, kind>>]
      OBVIOUS
    <3>2. m.t \in ChatTypes /\ m.c = cl.c
      BY <3>1 DEF Req, ChatTypes
    <3> QED
      BY <2>1, <3>1, <3>2 DEF SendMessage
  <2>2. CASE RequestHistory(kind, older)
    <3>1. PICK m : m = [Req("history", cl) EXCEPT
                          !.x = <<kind, IF older THEN EarliestMessageId(kind) ELSE 0>>]
      OBVIOUS
    <3>2. m.t \in ChatTypes /\ m.c = cl.c
      BY <3>1 DEF Req, ChatTypes
    <3> QED
      BY <2>2, <3>1, <3>2 DEF RequestHistory
  <2> QED
    BY <2>1, <2>2
<1>4. State(cl, net', down, silent, sess, srv, joins)
  <2>1. CASE UNCHANGED net
    BY <2>1 DEF RecoveryInv
  <2>2. CASE cl.rec = "Ready" /\ \E m : m.t \in ChatTypes /\ m.c = cl.c /\ SendData(cl, m)
    <3>1. cl.sock = "up"
      BY <1>2, <2>2 DEF ClientOK
    <3> QED
      BY <2>2, <3>1, ChatSendKeeps
  <2> QED
    BY <1>3, <2>1, <2>2
<1> QED
  BY <1>1, <1>4 DEF RecoveryInv

LEMMA PeerMessageKeeps == ASSUME RecoveryInv, NEW kind, PeerMessage(kind) PROVE RecoveryInv'
<1>1. UNCHANGED <<cl, net, silent, sess, srv, joins>>
  BY DEF PeerMessage, ServerVars
<1>2. PICK new : new = table'
  OBVIOUS
<1>3. down' = down \o Push(new, Len(new)) \/ down' = down
  BY <1>2 DEF PeerMessage
<1>4. State(cl, net, down \o Push(new, Len(new)), silent, sess, srv, joins)
  BY PushKeeps DEF RecoveryInv
<1>5. State(cl, net, down', silent, sess, srv, joins)
  BY <1>3, <1>4 DEF RecoveryInv
<1> QED
  BY <1>1, <1>5 DEF RecoveryInv

LEMMA ReplyErrorKeeps == ASSUME RecoveryInv, ReplyError PROVE RecoveryInv'
<1>1. /\ net # <<>> /\ net' = Tail(net) /\ UNCHANGED <<cl, silent, sess, srv, joins>>
  BY DEF ReplyError, Handling
<1>2. PICK m : m = Head(net)
  OBVIOUS
<1>3. PICK a : a = ChatAnswer("busy", 0, 0, m.x[2])
  OBVIOUS
<1>4. down' = down \o Out(m.c, <<a>>) /\ a.t \in ChatTypes
  BY <1>2, <1>3 DEF ReplyError, Deliver, ChatAnswer, Ans, ChatTypes
<1>5. State(cl, Tail(net), down, silent, sess, srv, joins)
  BY <1>1, PopKeeps DEF RecoveryInv
<1>6. State(cl, Tail(net), down \o Out(m.c, <<a>>), silent, sess, srv, joins)
  BY <1>4, <1>5, OutKeeps
<1> QED
  BY <1>1, <1>4, <1>6 DEF RecoveryInv

LEMMA MessageHandlerKeeps ==
  ASSUME RecoveryInv, NEW result, SendMeetingMessageHandler(result)
  PROVE  RecoveryInv'
<1>1. /\ net # <<>> /\ net' = Tail(net) /\ UNCHANGED <<cl, silent, sess, srv, joins>>
  BY DEF SendMeetingMessageHandler, Handling
<1>2. PICK m : m = Head(net)
  OBVIOUS
<1>3. \E saved, mid, r, w :
        LET a == [Ans("chat", r) EXCEPT
                    !.rows = <<[cid |-> m.x[1], mid |-> w, kind |-> m.x[2], mine |-> TRUE]>>]
        IN  \/ down' = down \o Out(m.c, <<a>>)
            \/ down' = down \o Push(saved, mid) \o Out(m.c, <<a>>)
  BY <1>2 DEF SendMeetingMessageHandler, Deliver, ChatAnswer
<1>4. PICK saved, mid, a : /\ a.t \in ChatTypes
                           /\ \/ down' = down \o Out(m.c, <<a>>)
                              \/ down' = down \o Push(saved, mid) \o Out(m.c, <<a>>)
  <2>1. PICK saved, mid, r, w :
          LET a == [Ans("chat", r) EXCEPT
                      !.rows = <<[cid |-> m.x[1], mid |-> w, kind |-> m.x[2], mine |-> TRUE]>>]
          IN  \/ down' = down \o Out(m.c, <<a>>)
              \/ down' = down \o Push(saved, mid) \o Out(m.c, <<a>>)
    BY <1>3
  <2>2. PICK a : a = [Ans("chat", r) EXCEPT
                        !.rows = <<[cid |-> m.x[1], mid |-> w, kind |-> m.x[2], mine |-> TRUE]>>]
    OBVIOUS
  <2>3. a.t \in ChatTypes
    BY <2>2 DEF Ans, ChatTypes
  <2> QED
    BY <2>1, <2>2, <2>3
<1>5. State(cl, Tail(net), down, silent, sess, srv, joins)
  BY <1>1, PopKeeps DEF RecoveryInv
<1>6. State(cl, Tail(net), down \o Push(saved, mid), silent, sess, srv, joins)
  BY <1>5, PushKeeps
<1>7. State(cl, Tail(net), down', silent, sess, srv, joins)
  <2>1. State(cl, Tail(net), down \o Out(m.c, <<a>>), silent, sess, srv, joins)
    BY <1>4, <1>5, OutKeeps
  <2>2. State(cl, Tail(net), down \o Push(saved, mid) \o Out(m.c, <<a>>), silent, sess, srv, joins)
    BY <1>4, <1>6, OutKeeps
  <2> QED
    BY <1>4, <2>1, <2>2
<1> QED
  BY <1>1, <1>7 DEF RecoveryInv

LEMMA HistoryHandlersKeep ==
  ASSUME RecoveryInv, NEW result,
         GetMeetingGroupMessagesHandler(result) \/ GetMeetingPrivateMessagesHandler(result)
  PROVE  RecoveryInv'
<1>1. /\ net # <<>> /\ net' = Tail(net) /\ UNCHANGED <<cl, silent, sess, srv, joins>>
  BY DEF GetMeetingGroupMessagesHandler, GetMeetingPrivateMessagesHandler, Handling
<1>2. PICK m : m = Head(net)
  OBVIOUS
<1>3. PICK ok, messages : HistoryAnswer(m, ok, messages)
  BY <1>2 DEF GetMeetingGroupMessagesHandler, GetMeetingPrivateMessagesHandler
<1>4. PICK a : a = [Ans("history", IF ok THEN "ok" ELSE "busy") EXCEPT
                      !.x = m.x, !.rows = IF ok THEN messages ELSE <<>>]
  OBVIOUS
<1>5. a.t \in ChatTypes
  BY <1>4 DEF Ans, ChatTypes
<1>6. down' = down \o Out(m.c, <<a>>)
  BY <1>3, <1>4 DEF HistoryAnswer, Deliver
<1>7. State(cl, Tail(net), down, silent, sess, srv, joins)
  BY <1>1, PopKeeps DEF RecoveryInv
<1>8. State(cl, Tail(net), down', silent, sess, srv, joins)
  BY <1>5, <1>6, <1>7, OutKeeps
<1> QED
  BY <1>1, <1>8 DEF RecoveryInv

-----------------------------------------------------------------------------
(* The specification                                                       *)

LEMMA RecoveryInit_Inv == Init => RecoveryInv
<1> SUFFICES ASSUME RecoveryInit PROVE RecoveryInv
  BY DEF Init
<1>1. /\ DOMAIN cl = ClientFields /\ cl.rec = "Ready" /\ cl.c = 1 /\ cl.sock = "up" /\ cl.meeting
      /\ cl.ticket = 1 /\ cl.gen = 1 /\ ~cl.leave /\ ~cl.join /\ cl.req = 0
      /\ cl.peer = "active" /\ ~cl.left /\ ~cl.invalid
  BY DEF RecoveryInit, ClientFields
<1>2. net = <<>> /\ down = <<>> /\ joins = 1 /\ IsSeq(<<>>) /\ Len(<<>>) = 0
  BY EmptyIs DEF RecoveryInit
<1>3. 1 \in Conns
  BY RecoveryBounds DEF Conns
<1>4. /\ DOMAIN srv = SrvFields /\ srv.in /\ srv.ticket = 1 /\ srv.gen = 1 /\ srv.session = 1
      /\ srv.deadline = "none" /\ ~srv.ended /\ srv.peer = "active"
  BY DEF RecoveryInit, SrvFields
<1>5. /\ DOMAIN sess = Conns /\ sess[1].meeting
      /\ \A c \in Conns : DOMAIN sess[c] = SessFields
  BY <1>3 DEF RecoveryInit, SessFields
<1>6. ClientOK(cl)
  BY <1>1 DEF ClientOK
<1>7. Channel(cl, net, down)
  BY <1>1, <1>2, <1>3, <1>6 DEF Channel, Ordered, Outstanding, Settled, Resumes
<1>8. LoggedIn(net, down, cl, sess) /\ Answers(down, cl, srv, joins)
  BY <1>2 DEF LoggedIn, Answers
<1>9. ServerOK(srv, sess, cl, joins)
  BY <1>1, <1>2, <1>4, <1>5, RecoveryBounds DEF ServerOK
<1>10. Generation(srv, cl)
  BY <1>1, <1>4 DEF Generation
<1>11. Membership(cl, down, silent, sess, srv)
  BY <1>1, <1>2, <1>4, <1>5 DEF Membership, Bound
<1>12. PICK p : p = [i \in {0} |-> "active"]
  OBVIOUS
<1>13. p[0] = "active"
  BY <1>12
<1>14. Follows(cl, down, silent, sess, srv, p)
  BY <1>1, <1>2, <1>4, <1>13 DEF Follows, Trace
<1> QED
  BY <1>7, <1>8, <1>9, <1>10, <1>11, <1>14 DEF RecoveryInv, State

LEMMA RecoveryStep == ASSUME RecoveryInv, RecoveryNext PROVE RecoveryInv'
<1>1. CASE SocketEnds \/ ConnectFails \/ HeartbeatTick
  BY <1>1, ConnectionEnds
<1>2. CASE GoesSilent
  BY <1>2, SilentKeeps
<1>3. CASE Connected
  BY <1>3, ConnectedKeeps
<1>4. CASE ClientTimers
  BY <1>4, ConnectNowKeeps, TimeoutsKeep DEF ClientTimers
<1>5. CASE BudgetTimeout
  BY <1>5, TimeoutsKeep
<1>6. CASE RequestLeave
  BY <1>6, LeaveKeeps
<1>7. CASE RequestJoin
  BY <1>7, JoinKeeps
<1>8. CASE \E result \in {"ok", "busy", "token"} : LoginHandler(result)
  BY <1>8, LoginKeeps
<1>9. CASE \E result \in {"ok", "busy"} :
             ResumeHandler(result) \/ JoinHandler(result) \/ LeaveHandler(result)
  BY <1>9, ResumeKeeps, JoinHandlerKeeps, LeaveHandlerKeeps
<1>10. CASE \E c \in Conns : SessionDisconnected(c)
  BY <1>10, SessionEndKeeps
<1>11. CASE GracePasses
  BY <1>11, GraceKeeps
<1>12. CASE PeerStep
  BY <1>12, PeerKeeps
<1>13. CASE EndMeeting
  BY <1>13, EndMeetingKeeps
<1> QED
  BY <1>1, <1>2, <1>3, <1>4, <1>5, <1>6, <1>7, <1>8, <1>9, <1>10, <1>11, <1>12, <1>13
     DEF RecoveryNext

LEMMA NextKeeps == ASSUME RecoveryInv, [Next]_vars PROVE RecoveryInv'
<1>1. CASE RecoveryNext
  BY <1>1, RecoveryStep
<1>2. CASE ChatReceive
  BY <1>2, ClientReceiveKeeps DEF ChatReceive
<1>3. CASE \E kind \in Kinds : SendMessage(kind) \/ PeerMessage(kind)
  BY <1>3, ChatRequestsKeep, PeerMessageKeeps
<1>4. CASE \E kind \in Kinds, older \in BOOLEAN : RequestHistory(kind, older)
  BY <1>4, ChatRequestsKeep
<1>5. CASE \E result \in {"ok", "busy", "stored"} : SendMeetingMessageHandler(result)
  BY <1>5, MessageHandlerKeeps
<1>6. CASE \E result \in {"ok", "busy"} : GetMeetingGroupMessagesHandler(result)
                                          \/ GetMeetingPrivateMessagesHandler(result)
  BY <1>6, HistoryHandlersKeep
<1>8. CASE ReplyError
  BY <1>8, ReplyErrorKeeps
<1>7. CASE UNCHANGED vars
  <2>1. UNCHANGED <<cl, net, down, silent, sess, srv, joins>>
    BY <1>7 DEF vars, recoveryVars
  <2> QED
    BY <2>1 DEF RecoveryInv
<1> QED
  BY <1>1, <1>2, <1>3, <1>4, <1>5, <1>6, <1>7, <1>8 DEF Next

(* The invariant of a client and a server that lose their connection:      *)
(* RecoveryController, MeetingController and LoginHandler,                 *)
(* JoinMeeetingHandler, LeaveMeetingHandler, SessionDisconnectedHandler.   *)
THEOREM RecoveryInvariant == Spec => []RecoveryInv
<1> QED
  BY RecoveryInit_Inv, NextKeeps, PTL DEF Spec

(* A meeting the user asked to leave does not come back: while the leave   *)
(* is unanswered the connection holds, and an outage ends the meeting      *)
(* (MeetingController::connectionInterrupted, requestLeaveMeeting).        *)
THEOREM LeaveHolds == Spec => []LeaveWins
<1>1. RecoveryInv => LeaveWins
  BY DEF RecoveryInv, State, Channel, ClientOK, LeaveWins
<1> QED
  BY <1>1, RecoveryInvariant, PTL

(* RecoveryController never meets a snapshot that                          *)
(* applyResumeMeetingResponse rejects, which would end the recovery with   *)
(* the meeting lost.                                                       *)
THEOREM SnapshotsHold == Spec => []SnapshotsAreValid
<1>1. RecoveryInv => SnapshotsAreValid
  BY DEF RecoveryInv, State, Channel, ClientOK, SnapshotsAreValid
<1> QED
  BY <1>1, RecoveryInvariant, PTL

(* JoinMeeetingHandler refuses a resume only of a member that is gone: one *)
(* sent again because its answer was lost is accepted.                     *)
THEOREM RefusalsHold == Spec => []RefusedOnlyWhenGone
<1>1. RecoveryInv => RefusedOnlyWhenGone
  <2> SUFFICES ASSUME RecoveryInv PROVE RefusedOnlyWhenGone
    OBVIOUS
  <2>1. DOMAIN down = 1..Len(down)
    <3>1. PICK S : down \in Seq(S)
      BY DEF RecoveryInv, State, Channel, Outstanding, IsSeq
    <3> QED
      BY <3>1
  <2>2. \A i \in 1..Len(down) : AnswerOK(down[i], cl, srv, joins)
    BY DEF RecoveryInv, State, Answers
  <2> QED
    BY <2>1, <2>2 DEF RefusedOnlyWhenGone, AnswerOK, Gone
<1> QED
  BY <1>1, RecoveryInvariant, PTL

(* When nothing is under way, the client and the server agree on the       *)
(* session, the ticket, the generation and the other member, whatever was  *)
(* lost during the outages before (JoinMeeetingHandler's snapshot and the  *)
(* notices that MeetingController applies after it).                       *)
THEOREM ReadyHolds == Spec => []ReadyAgrees
<1>1. RecoveryInv => ReadyAgrees
  <2> SUFFICES ASSUME RecoveryInv, Quiet, cl.meeting, ~srv.ended
               PROVE  /\ srv.in /\ srv.session = cl.c /\ srv.deadline = "none"
                      /\ srv.ticket = cl.ticket /\ srv.gen = cl.gen /\ srv.peer = cl.peer
    BY DEF ReadyAgrees
  <2>1. cl.rec = "Ready" /\ cl.sock = "up" /\ ~silent /\ sess[cl.c].open /\ Len(down) = 0
    BY EmptyIs DEF Quiet
  <2>2. Live(cl, silent, sess, srv) /\ InMeeting(cl, down)
    BY <2>1 DEF Live, InMeeting
  <2>3. Bound(cl, sess, srv, cl.ticket)
    BY <2>2 DEF RecoveryInv, State, Membership
  <2>4. cl.ticket # 0
    BY <2>3 DEF RecoveryInv, State, ServerOK, Bound
  <2>5. srv.gen = cl.gen
    BY <2>1, <2>3, <2>4 DEF RecoveryInv, State, Generation, Bound, Recovering
  <2>6. PICK p : Follows(cl, down, silent, sess, srv, p)
    BY DEF RecoveryInv, State
  <2>7. p[0] = cl.peer /\ p[0] = srv.peer
    BY <2>1, <2>2, <2>6 DEF Follows, Here
  <2> QED
    BY <2>3, <2>5, <2>7 DEF Bound
<1> QED
  BY <1>1, RecoveryInvariant, PTL

-----------------------------------------------------------------------------
(* The chat                                                                *)

RowFields == {"cid", "mid", "kind", "state", "mine"}

(* No message of the table with the id cid was pushed.                     *)
Held(t, sl, cid) == \A mid \in 1..Len(t) : t[mid].cid = cid => mid \in sl

Asked(n, cid) == \E i \in 1..Len(n) : n[i].t = "chat" /\ n[i].x[1] = cid

HasRow(w, cid) == \E i \in 1..Len(w) : w[i].cid = cid

Shows(w, mid) == \E i \in 1..Len(w) : w[i].mid = mid

TableOK(t, sn) ==
  /\ IsSeq(t) /\ sn \in Nat
  /\ \A m \in 1..Len(t) : t[m].cid \in 1..sn /\ t[m].mine \in BOOLEAN
  /\ \A l, m \in 1..Len(t) : t[l].cid = t[m].cid => l = m

(* A message is asked for once, and not stored before.                     *)
Requested(n, t, sn) ==
  /\ \A i \in 1..Len(n) : n[i].t = "chat" =>
        n[i].x[1] \in 1..sn /\ \A mid \in 1..Len(t) : t[mid].cid # n[i].x[1]
  /\ \A i, j \in 1..Len(n) :
        n[i].t = "chat" /\ n[j].t = "chat" /\ n[i].x[1] = n[j].x[1] => i = j

(* A row with a message id is the stored message, one that failed will not *)
(* be shown to anybody.                                                    *)
RowOK(r, n, t, sn, sl) ==
  /\ DOMAIN r = RowFields /\ r.cid \in 1..sn /\ r.mid \in 0..Len(t)
  /\ r.mid # 0 => /\ r.cid = t[r.mid].cid
                  /\ r.mid \in sl \/ r = FromServer(Stored(t, r.mid), t[r.mid].mine)
  /\ r.state = "failed" => Held(t, sl, r.cid) /\ ~Asked(n, r.cid)

RowsOK(w, n, t, sn, sl) ==
  /\ IsSeq(w)
  /\ \A i \in 1..Len(w) : RowOK(w[i], n, t, sn, sl)
  /\ \A i, j \in 1..Len(w) : w[i].cid = w[j].cid => i = j

IsStored(m, t) == m.mid \in 1..Len(t) /\ m = Stored(t, m.mid)

ReplyOK(m, n, t, sn, sl) ==
  /\ m.t = "chat" =>
       /\ IsSeq(m.rows) /\ Len(m.rows) = 1 /\ m.rows[1].cid \in 0..sn
       /\ ~Asked(n, m.rows[1].cid)
       /\ m.result = "ok" => IsStored(m.rows[1], t) /\ m.rows[1].mine
       /\ m.result # "ok" => Held(t, sl, m.rows[1].cid)
  /\ m.t = "push" => /\ IsSeq(m.rows) /\ Len(m.rows) = 1 /\ IsStored(m.rows[1], t)
                     /\ m.result = "ok"
  /\ m.t = "history" =>
       /\ m.x[1] \in Kinds /\ IsSeq(m.rows) /\ (m.result # "ok" => m.rows = <<>>)
       /\ \A i \in 1..Len(m.rows) : IsStored(m.rows[i], t) /\ m.rows[i].kind = m.x[1]

Replies(d, n, t, sn, sl) == \A i \in 1..Len(d) : ReplyOK(d[i], n, t, sn, sl)

(* A message still "sending" will be answered, unless the connection ends  *)
(* or an answer that does not name it has refused it.                      *)
Unanswered(k, n, d, q, ss, w, un) ==
  \A i \in 1..Len(w) : w[i].state = "sending" =>
    /\ k.rec = "Ready"
    /\ \/ q \/ ~ss[k.c].open \/ w[i].cid \in un
       \/ \E j \in 1..Len(n) : n[j].t = "chat" /\ n[j].c = k.c /\ n[j].x[1] = w[i].cid
       \/ \E j \in 1..Len(d) : d[j].t = "chat" /\ d[j].rows[1].cid = w[i].cid

(* A message refused by such an answer is not stored, nor asked for again. *)
Unnamed(n, t, sn, un) ==
  \A c \in un : c \in 1..sn /\ ~Asked(n, c) /\ \A mid \in 1..Len(t) : t[mid].cid # c

Cleared(k, w, fr) ==
  /\ ~k.meeting => w = <<>> /\ ~fr
  /\ fr => k.rec = "Ready"

(* What the client sent in this meeting it shows.                          *)
OwnShown(k, n, d, w) ==
  k.meeting =>
    /\ \A i \in 1..Len(n) : n[i].t = "chat" => HasRow(w, n[i].x[1])
    /\ \A i \in 1..Len(d) : d[i].t = "push" /\ d[i].rows[1].mine => HasRow(w, d[i].rows[1].cid)

Joined(m) == m.t = "join" /\ m.result = "ok"
OfMember(m) == m.t \in {"chat", "history"}
ToMember(m) == m.t = "history" \/ (m.t = "push" /\ m.rows[1].mine)

(* A client that joins has nothing of an earlier membership behind that.   *)
BehindJoin(k, n, d) ==
  /\ \A i, j \in 1..Len(n) : i < j /\ n[i].t = "join" /\ n[i].c = k.c => ~OfMember(n[j])
  /\ \A i \in 1..Len(d) : Joined(d[i]) =>
       /\ \A j \in 1..Len(n) : ~OfMember(n[j])
       /\ \A j \in 1..Len(d) : i < j => ~ToMember(d[j])
  /\ k.rec # "Ready" =>
       /\ \A i \in 1..Len(d) : d[i].t # "history"
       /\ k.sock = "up" => \A i \in 1..Len(n) : n[i].t = "history" => n[i].c # k.c

Names(m, mid) == m.t \in {"push", "history"} /\ \E i \in 1..Len(m.rows) : m.rows[i].mid = mid

(* The other member's message is new to the client when its push arrives.  *)
FirstNamed(d, w) ==
  \A i \in 1..Len(d) : d[i].t = "push" /\ ~d[i].rows[1].mine =>
     /\ ~HasRow(w, d[i].rows[1].cid)
     /\ \A j \in 1..Len(d) : j < i => ~Names(d[j], d[i].rows[1].mid)

Latest(t) ==
  {i \in 1..Len(t) : t[i].kind = "group" /\
     Cardinality({j \in 1..Len(t) : t[j].kind = "group" /\ i < j}) < Page}

LatestPageOf(m) == m.t = "history" /\ m.result = "ok" /\ m.x = <<"group", 0>>

Attending(k, d, q, ss) ==
  k.rec = "Ready" /\ k.meeting /\ ~q /\ ss[k.c].open /\ \A i \in 1..Len(d) : ~Left(d[i])

(* The latest page is shown or on its way.                                 *)
PageFollows(k, d, q, ss, w, t, sl, fr) ==
  Attending(k, d, q, ss) =>
    /\ fr => \A mid \in Latest(t) \ sl :
               Shows(w, mid) \/ \E j \in 1..Len(d) : Names(d[j], mid)
    /\ \A i \in 1..Len(d) : LatestPageOf(d[i]) =>
         \A mid \in Latest(t) \ sl : \E j \in 1..Len(d) : i <= j /\ Names(d[j], mid)

Chat(k, n, d, q, ss, w, t, sn, sl, fr, un) ==
  /\ TableOK(t, sn) /\ Requested(n, t, sn) /\ RowsOK(w, n, t, sn, sl) /\ Replies(d, n, t, sn, sl)
  /\ Unanswered(k, n, d, q, ss, w, un) /\ Unnamed(n, t, sn, un) /\ Cleared(k, w, fr)
  /\ OwnShown(k, n, d, w) /\ BehindJoin(k, n, d) /\ FirstNamed(d, w)
  /\ PageFollows(k, d, q, ss, w, t, sl, fr)

ChatInv == Chat(cl, net, down, silent, sess, rows, table, sent, silently, fresh, unnamed)

-----------------------------------------------------------------------------
(* Induction over the natural numbers, and sorting                         *)

LEMMA Least ==
  ASSUME NEW T, T \subseteq Nat, T # {}
  PROVE  \E x \in T : \A y \in T : x <= y
<1>1. IsWellFoundedOn(OpToRel(<,Nat), Nat)
  BY NatLessThanWellFounded
<1>2. PICK x \in T : \A y \in T : ~ (<<y, x>> \in OpToRel(<,Nat))
  BY <1>1, WFMin
<1>3. \A y \in T : ~ (y < x)
  BY <1>2 DEF OpToRel
<1> QED
  BY <1>3

LEMMA Upwards ==
  ASSUME NEW S, 0 \in S, \A n \in Nat : n \in S => n + 1 \in S
  PROVE  \A n \in Nat : n \in S
<1> SUFFICES ASSUME Nat \ S # {} PROVE FALSE
  OBVIOUS
<1>1. PICK x \in Nat \ S : \A y \in Nat \ S : x <= y
  BY Least
<1>2. x # 0
  OBVIOUS
<1>3. x - 1 \in Nat /\ x - 1 + 1 = x
  BY <1>2
<1>4. x - 1 \in S
  BY <1>1, <1>3
<1> QED
  BY <1>3, <1>4

LEMMA Greatest ==
  ASSUME NEW T, NEW n \in Nat, T \subseteq 1..n, T # {}
  PROVE  Max(T) \in T
<1>1. PICK U : U = {m \in Nat : \E x \in T : m = n - x}
  OBVIOUS
<1>2. U # {} /\ U \subseteq Nat
  <2>1. PICK x : x \in T
    OBVIOUS
  <2>2. n - x \in Nat
    BY <2>1
  <2> QED
    BY <1>1, <2>1, <2>2
<1>3. PICK m \in U : \A y \in U : m <= y
  BY <1>2, Least
<1>4. PICK x \in T : m = n - x
  BY <1>1, <1>3
<1>5. \A y \in T : x >= y
  <2> SUFFICES ASSUME NEW y \in T PROVE x >= y
    OBVIOUS
  <2>1. x \in 1..n /\ y \in 1..n
    OBVIOUS
  <2>2. n - y \in U
    BY <1>1, <2>1
  <2>3. m <= n - y
    BY <1>3, <2>2
  <2> QED
    BY <1>4, <2>1, <2>3
<1> QED
  BY <1>5 DEF Max

(* The running values of mergeHistoryMessages over the indices in D.       *)
Merging(f, D, list, messages) ==
  f = [s \in D |-> IF s = {} THEN list
                   ELSE MergeOne(f[s \ {Max(s)}], messages[Max(s)])]

LEMMA MergingExists ==
  ASSUME NEW list, NEW messages, NEW n \in Nat
  PROVE  \E f : Merging(f, SUBSET (1..n), list, messages)
<1>1. DEFINE Small(m) == {s \in SUBSET (1..n) : Cardinality(s) <= m}
             Good == {m \in Nat : \E f : Merging(f, Small(m), list, messages)}
<1>2. \A s \in SUBSET (1..n) : IsFiniteSet(s) /\ Cardinality(s) \in Nat /\ Cardinality(s) <= n
  <2>1. IsFiniteSet(1..n) /\ Cardinality(1..n) = n
    BY FS_Interval
  <2> QED
    BY <2>1, FS_Subset, FS_CardinalityType
<1>3. \A s \in SUBSET (1..n) : s # {} => s \ {Max(s)} \in SUBSET (1..n)
                                  /\ Cardinality(s \ {Max(s)}) = Cardinality(s) - 1
  BY <1>2, Greatest, FS_RemoveElement
<1>4. 0 \in Good
  <2>1. Small(0) = {{}}
    BY <1>2, FS_EmptySet
  <2>2. Merging([s \in Small(0) |-> list], Small(0), list, messages)
    BY <2>1 DEF Merging
  <2> QED
    BY <2>2
<1>5. ASSUME NEW m \in Nat, m \in Good PROVE m + 1 \in Good
  <2>1. PICK f : Merging(f, Small(m), list, messages)
    BY <1>5
  <2>2. PICK g : g = [s \in Small(m + 1) |-> IF s = {} THEN list
                        ELSE MergeOne(f[s \ {Max(s)}], messages[Max(s)])]
    OBVIOUS
  <2>3. \A s \in Small(m + 1) : s # {} => s \ {Max(s)} \in Small(m) 
    BY <1>2, <1>3
  <2>4. \A s \in Small(m) : s \in Small(m + 1) 
    BY <1>2
  <2>5. \A s \in Small(m) : f[s] = g[s]
    BY <2>1, <2>2, <2>4 DEF Merging
  <2>6. \A s \in Small(m + 1) : s # {} => f[s \ {Max(s)}] = g[s \ {Max(s)}]
    BY <2>3, <2>5
  <2>7. Merging(g, Small(m + 1), list, messages)
    <3> HIDE DEF Small
    <3> QED BY <2>2, <2>6 DEF Merging
  <2>8. m + 1 \in Nat /\ \E h : Merging(h, Small(m + 1), list, messages)
    <3> HIDE DEF Small
    <3> QED BY <2>7
  <2> QED
    <3> HIDE DEF Small
    <3> QED BY <2>8
<1>6. n \in Good
  <2> HIDE DEF Good
  <2> QED
    BY <1>4, <1>5, Upwards
<1>7. Small(n) = SUBSET (1..n)
  BY <1>2
<1> QED
  BY <1>6, <1>7

LEMMA Fold ==
  ASSUME NEW list, NEW messages, NEW n \in Nat, DOMAIN messages = 1..n
  PROVE  \E f : Merging(f, SUBSET (1..n), list, messages) /\ FoldLeft(MergeOne, list, messages) = f[1..n]
<1>0. \E g : g = [s \in SUBSET (1..n) |-> IF s = {} THEN list
                   ELSE MergeOne(g[s \ {Max(s)}], messages[Max(s)])]
  <2>1. \E g : Merging(g, SUBSET (1..n), list, messages)
    BY MergingExists
  <2> QED
    BY <2>1, Zenon DEF Merging
<1>1. PICK f : f = CHOOSE g : g = [s \in SUBSET (1..n) |-> IF s = {} THEN list
                   ELSE MergeOne(g[s \ {Max(s)}], messages[Max(s)])]
  OBVIOUS
<1>2. Merging(f, SUBSET (1..n), list, messages)
  BY <1>0, <1>1, Zenon DEF Merging
<1>3. FoldLeft(MergeOne, list, messages) = f[1..n]
  BY <1>1 DEF FoldLeft, MapThenFoldSet
<1> QED
  BY <1>2, <1>3

MergedRows(list, messages) == FoldLeft(MergeOne, list, messages)

LEMMA MergeSteps ==
  ASSUME NEW list, NEW messages, NEW n \in Nat, DOMAIN messages = 1..n
  PROVE  \E g : /\ g[0] = list /\ g[n] = MergedRows(list, messages)
                /\ \A i \in 1..n : g[i] = MergeOne(g[i - 1], messages[i])
<1>1. PICK f : Merging(f, SUBSET (1..n), list, messages) /\ FoldLeft(MergeOne, list, messages) = f[1..n]
  BY Fold
<1>2. PICK g : g = [i \in 0..n |-> f[1..i]]
  OBVIOUS
<1>3. g[0] = list
  <2>1. 1..0 = {} /\ {} \in SUBSET (1..n)
    OBVIOUS
  <2>2. f[{}] = list
    BY <1>1, <2>1 DEF Merging
  <2> QED
    BY <1>2, <2>1, <2>2
<1>4. ASSUME NEW i \in 1..n PROVE g[i] = MergeOne(g[i - 1], messages[i])
  <2>1. 1..i \in SUBSET (1..n) /\ 1..i # {} /\ 1..i \subseteq 1..n
    <3>1. i \in 1..i /\ \A j \in 1..i : j \in 1..n
      OBVIOUS
    <3> QED
      BY <3>1
  <2>2. Max(1..i) = i
    <3>1. Max(1..i) \in 1..i
      BY <2>1, Greatest
    <3>2. \E x \in 1..i : \A y \in 1..i : x >= y
      OBVIOUS
    <3>3. \A y \in 1..i : Max(1..i) >= y
      BY <3>2 DEF Max
    <3>4. Max(1..i) >= i
      BY <3>3
    <3> QED
      BY <3>1, <3>4
  <2>3. (1..i) \ {i} = 1..(i - 1)
    OBVIOUS
  <2>4. f[1..i] = MergeOne(f[(1..i) \ {i}], messages[i])
    BY <1>1, <2>1, <2>2, Zenon DEF Merging
  <2>5. i \in 0..n /\ i - 1 \in 0..n
    OBVIOUS
  <2>6. g[i] = f[1..i] /\ g[i - 1] = f[1..(i - 1)]
    BY <1>2, <2>5
  <2> QED
    BY <2>3, <2>4, <2>6
<1>5. g[n] = f[1..n]
  BY <1>2
<1>6. MergedRows(list, messages) = f[1..n]
  BY <1>1 DEF MergedRows
<1> QED
  BY <1>3, <1>4, <1>5, <1>6

Below(S, R, x) == {y \in S : <<y, x>> \in R}

(* R orders S strictly.                                                    *)
Orders(R, S) ==
  /\ \A x \in S : <<x, x>> \notin R
  /\ \A x, y, z \in S : <<x, y>> \in R /\ <<y, z>> \in R => <<x, z>> \in R
  /\ \A x, y \in S : x = y \/ <<x, y>> \in R \/ <<y, x>> \in R

LEMMA Ranking ==
  ASSUME NEW S, IsFiniteSet(S), NEW R, Orders(R, S)
  PROVE  /\ Cardinality(S) \in Nat
         /\ \A k \in 1..Cardinality(S) : InOrder(S, R)[k] \in S
         /\ \A x \in S : \E k \in 1..Cardinality(S) : InOrder(S, R)[k] = x
         /\ \A k, l \in 1..Cardinality(S) : InOrder(S, R)[k] = InOrder(S, R)[l] => k = l
<1>1. PICK n \in Nat : n = Cardinality(S)
  BY FS_CardinalityType
<1>2. PICK f : f = [x \in S |-> Cardinality(Below(S, R, x))]
  OBVIOUS
<1>3. \A x \in S : Below(S, R, x) \subseteq S /\ IsFiniteSet(Below(S, R, x)) /\ Cardinality(Below(S, R, x)) \in Nat
  <2> SUFFICES ASSUME NEW x \in S
               PROVE Below(S, R, x) \subseteq S /\ IsFiniteSet(Below(S, R, x)) /\ Cardinality(Below(S, R, x)) \in Nat
    OBVIOUS
  <2>1. Below(S, R, x) \in SUBSET S
    BY DEF Below
  <2>2. IsFiniteSet(Below(S, R, x))
    BY <2>1, FS_Subset
  <2> QED
    BY <2>1, <2>2, FS_CardinalityType
<1>4. \A x \in S : f[x] \in 0..(n - 1)
  <2> SUFFICES ASSUME NEW x \in S PROVE f[x] \in 0..(n - 1)
    OBVIOUS
  <2>1. Below(S, R, x) \in SUBSET S /\ x \notin Below(S, R, x)
    BY DEF Below, Orders
  <2>2. Cardinality(Below(S, R, x)) <= n /\ Cardinality(Below(S, R, x)) # n
    BY <1>1, <2>1, FS_Subset
  <2> QED
    BY <1>2, <1>3, <2>2
<1>5. ASSUME NEW x \in S, NEW y \in S, <<x, y>> \in R PROVE f[x] < f[y]
  <2>1. Below(S, R, x) \in SUBSET Below(S, R, y) /\ x \in Below(S, R, y) /\ x \notin Below(S, R, x)
    BY <1>5 DEF Below, Orders
  <2>2. Cardinality(Below(S, R, x)) <= Cardinality(Below(S, R, y))
        /\ Cardinality(Below(S, R, x)) # Cardinality(Below(S, R, y))
    BY <1>3, <2>1, FS_Subset
  <2> QED
    BY <1>2, <1>3, <2>2
<1>6. \A x, y \in S : f[x] = f[y] => x = y
  <2> SUFFICES ASSUME NEW x \in S, NEW y \in S, f[x] = f[y], x # y PROVE FALSE
    OBVIOUS
  <2>1. <<x, y>> \in R \/ <<y, x>> \in R
    BY DEF Orders
  <2>2. f[x] < f[y] \/ f[y] < f[x]
    BY <1>5, <2>1
  <2>3. f[x] \in Int /\ f[y] \in Int
    BY <1>4
  <2> QED
    BY <2>2, <2>3
<1>7. f \in Injection(S, 0..(n - 1))
  BY <1>2, <1>4, <1>6 DEF Injection, IsInjective
<1>8. IsFiniteSet(0..(n - 1)) /\ Cardinality(0..(n - 1)) = n
  BY FS_Interval
<1>9. f \in Surjection(S, 0..(n - 1))
  BY <1>1, <1>7, <1>8, FS_Injection
<1>10. \A k \in 1..n : \E x \in S : f[x] = k - 1
  BY <1>9 DEF Surjection
<1>11. \A k \in 1..n : InOrder(S, R)[k] = CHOOSE x \in S : Cardinality(Below(S, R, x)) = k - 1
  BY <1>1 DEF InOrder, Below
<1>12. \A k \in 1..n : InOrder(S, R)[k] \in S /\ f[InOrder(S, R)[k]] = k - 1
  <2> SUFFICES ASSUME NEW k \in 1..n
               PROVE InOrder(S, R)[k] \in S /\ f[InOrder(S, R)[k]] = k - 1
    OBVIOUS
  <2>1. \E x \in S : Cardinality(Below(S, R, x)) = k - 1
    BY <1>2, <1>10
  <2>2. PICK z : z = CHOOSE x \in S : Cardinality(Below(S, R, x)) = k - 1
    OBVIOUS
  <2>3. z \in S /\ Cardinality(Below(S, R, z)) = k - 1
    BY <2>1, <2>2
  <2> QED
    BY <1>2, <1>11, <2>2, <2>3
<1>13. ASSUME NEW x \in S PROVE \E k \in 1..n : InOrder(S, R)[k] = x
  <2>1. PICK v \in 0..(n - 1) : v = f[x]
    BY <1>4
  <2>2. PICK k \in 1..n : k - 1 = v
    <3>1. v + 1 \in 1..n /\ (v + 1) - 1 = v
      OBVIOUS
    <3> QED
      BY <3>1
  <2>3. InOrder(S, R)[k] \in S /\ f[InOrder(S, R)[k]] = k - 1
    BY <1>12
  <2>4. k - 1 = f[x]
    BY <2>1, <2>2
  <2> QED
    BY <1>6, <2>3, <2>4
<1>14. \A k, l \in 1..n : InOrder(S, R)[k] = InOrder(S, R)[l] => k = l
  BY <1>12
<1> QED
  BY <1>1, <1>12, <1>13, <1>14

-----------------------------------------------------------------------------
(* The rows a client shows                                                 *)

LEMMA LenIs == ASSUME NEW s, IsSeq(s) PROVE Len(s) \in Nat /\ DOMAIN s = 1..Len(s)
<1>1. PICK S : s \in Seq(S)
  BY DEF IsSeq
<1> QED
  BY <1>1

LEMMA MappedIs ==
  ASSUME NEW f, NEW n \in Nat, DOMAIN f = 1..n, f = [i \in 1..n |-> f[i]]
  PROVE  IsSeq(f) /\ Len(f) = n
<1>1. PICK S : S = {f[i] : i \in 1..n}
  OBVIOUS
<1>2. f \in [1..n -> S]
  BY <1>1
<1>3. f \in Seq(S)
  BY <1>2
<1>4. Len(f) = n
  BY <1>2
<1> QED
  BY <1>3, <1>4 DEF IsSeq

LEMMA SelectIs ==
  ASSUME NEW w, IsSeq(w), NEW I, I \subseteq 1..Len(w), NEW row, row = IF I # {} THEN Min(I) ELSE 0
  PROVE  /\ row \in 0..Len(w)
         /\ row # 0 => row \in I
         /\ row = 0 => I = {}
<1>1. Len(w) \in Nat
  BY LenIs
<1>2. CASE I = {}
  BY <1>1, <1>2
<1>3. CASE I # {}
  <2>1. I \subseteq Nat
    BY <1>1
  <2>2. PICK x \in I : \A y \in I : x <= y
    BY <1>3, <2>1, Least
  <2>3. Min(I) \in I
    BY <2>2 DEF Min
  <2>4. row \in I
    BY <1>3, <2>3
  <2>5. row \in 1..Len(w)
    BY <2>4
  <2>6. row \in 0..Len(w) /\ row # 0
    BY <1>1, <2>5
  <2> QED
    BY <2>4, <2>6
<1> QED
  BY <1>2, <1>3

LEMMA FindIs ==
  ASSUME NEW w, IsSeq(w), NEW cid
  PROVE  /\ FindMessage(w, cid) \in 0..Len(w)
         /\ FindMessage(w, cid) # 0 => w[FindMessage(w, cid)].cid = cid
         /\ FindMessage(w, cid) = 0 => ~HasRow(w, cid)
<1>1. PICK I : I = {i \in 1..Len(w) : w[i].cid = cid}
  OBVIOUS
<1>2. FindMessage(w, cid) = IF I # {} THEN Min(I) ELSE 0
  BY <1>1 DEF FindMessage, SelectInSeq
<1>3. I \subseteq 1..Len(w)
  BY <1>1
<1>4. PICK row : row = FindMessage(w, cid)
  OBVIOUS
<1>5. row \in 0..Len(w) /\ (row # 0 => row \in I) /\ (row = 0 => I = {})
  BY <1>2, <1>3, <1>4, SelectIs
<1> QED
  BY <1>1, <1>4, <1>5 DEF HasRow

LEMMA FindServerIs ==
  ASSUME NEW w, IsSeq(w), NEW mid
  PROVE  /\ FindByServerId(w, mid) \in 0..Len(w)
         /\ FindByServerId(w, mid) # 0 => mid # 0 /\ w[FindByServerId(w, mid)].mid = mid
<1>1. PICK I : I = {i \in 1..Len(w) : mid # 0 /\ w[i].mid = mid}
  OBVIOUS
<1>2. FindByServerId(w, mid) = IF I # {} THEN Min(I) ELSE 0
  BY <1>1 DEF FindByServerId, SelectInSeq
<1>3. I \subseteq 1..Len(w)
  BY <1>1
<1>4. PICK row : row = FindByServerId(w, mid)
  OBVIOUS
<1>5. row \in 0..Len(w) /\ (row # 0 => row \in I)
  BY <1>2, <1>3, <1>4, SelectIs
<1> QED
  BY <1>1, <1>4, <1>5

(* The rows w2 are those of w after the messages in S, places in the       *)
(* table t, were shown.                                                    *)
Shown(w2, w, S, t) ==
  /\ \A i \in 1..Len(w2) : w2[i].state = "sending" => \E j \in 1..Len(w) : w[j] = w2[i]
  /\ \A cid : HasRow(w, cid) => HasRow(w2, cid)
  /\ \A cid : HasRow(w2, cid) => HasRow(w, cid) \/ \E mid \in S : t[mid].cid = cid
  /\ \A mid : mid # 0 /\ Shows(w, mid) => Shows(w2, mid)
  /\ \A mid \in S : Shows(w2, mid)

LEMMA ShownTwice ==
  ASSUME NEW w, NEW w1, NEW w2, NEW S, NEW S2, NEW t, 0 \notin S,
         Shown(w1, w, S, t), Shown(w2, w1, S2, t)
  PROVE  Shown(w2, w, S \cup S2, t)
<1>1. \A i \in 1..Len(w2) : w2[i].state = "sending" => \E j \in 1..Len(w) : w[j] = w2[i]
  BY DEF Shown
<1>2. \A cid : HasRow(w, cid) => HasRow(w2, cid)
  BY DEF Shown
<1>3. \A cid : HasRow(w2, cid) => HasRow(w, cid) \/ \E mid \in S \cup S2 : t[mid].cid = cid
  <2> SUFFICES ASSUME NEW cid, HasRow(w2, cid), ~HasRow(w, cid)
               PROVE  \E mid \in S \cup S2 : t[mid].cid = cid
    OBVIOUS
  <2>1. CASE HasRow(w1, cid)
    <3>1. PICK mid \in S : t[mid].cid = cid
      BY <2>1 DEF Shown
    <3> QED
      BY <3>1
  <2>2. CASE ~HasRow(w1, cid)
    <3>1. PICK mid \in S2 : t[mid].cid = cid
      BY <2>2 DEF Shown
    <3> QED
      BY <3>1
  <2> QED
    BY <2>1, <2>2
<1>4. \A mid : mid # 0 /\ Shows(w, mid) => Shows(w2, mid)
  BY DEF Shown
<1>5. \A mid \in S \cup S2 : Shows(w2, mid)
  BY DEF Shown
<1> QED
  BY <1>1, <1>2, <1>3, <1>4, <1>5 DEF Shown

LEMMA RowReplaced ==
  ASSUME NEW w, NEW n, NEW t, NEW sn, NEW sl, RowsOK(w, n, t, sn, sl),
         NEW row \in 1..Len(w), NEW r, RowOK(r, n, t, sn, sl), r.cid = w[row].cid,
         r.state # "sending", w[row].mid # 0 => r.mid = w[row].mid,
         NEW w2, w2 = [w EXCEPT ![row] = r]
  PROVE  RowsOK(w2, n, t, sn, sl) /\ Shown(w2, w, {r.mid} \ {0}, t)
<1>1. IsSeq(w) /\ Len(w) \in Nat /\ DOMAIN w = 1..Len(w)
  BY LenIs DEF RowsOK
<1>2. DOMAIN w2 = 1..Len(w) /\ w2[row] = r /\ \A i \in 1..Len(w) : i # row => w2[i] = w[i]
  BY <1>1
<1>3. IsSeq(w2) /\ Len(w2) = Len(w)
  <2>1. w2 = [i \in 1..Len(w) |-> w2[i]]
    BY <1>1
  <2> QED
    BY <1>1, <1>2, <2>1, MappedIs
<1>4. \A i \in 1..Len(w) : w2[i].cid = w[i].cid
  BY <1>2
<1>5. RowsOK(w2, n, t, sn, sl)
  <2>1. \A i \in 1..Len(w2) : RowOK(w2[i], n, t, sn, sl)
    BY <1>2, <1>3 DEF RowsOK
  <2>2. \A i, j \in 1..Len(w2) : w2[i].cid = w2[j].cid => i = j
    BY <1>3, <1>4 DEF RowsOK
  <2> QED
    BY <1>3, <2>1, <2>2 DEF RowsOK
<1>6. Shown(w2, w, {r.mid} \ {0}, t)
  <2>1. \A i \in 1..Len(w2) : w2[i].state = "sending" => \E j \in 1..Len(w) : w[j] = w2[i]
    BY <1>2, <1>3
  <2>2. \A cid : HasRow(w2, cid) <=> HasRow(w, cid)
    BY <1>3, <1>4 DEF HasRow
  <2>3. \A mid : mid # 0 /\ Shows(w, mid) => Shows(w2, mid)
    <3> SUFFICES ASSUME NEW i \in 1..Len(w), w[i].mid # 0 PROVE Shows(w2, w[i].mid)
      BY DEF Shows
    <3>1. w2[i].mid = w[i].mid
      BY <1>2
    <3> QED
      BY <1>3, <3>1 DEF Shows
  <2>4. Shows(w2, r.mid)
    BY <1>2, <1>3 DEF Shows
  <2> QED
    BY <2>1, <2>2, <2>3, <2>4 DEF Shown
<1> QED
  BY <1>5, <1>6

LEMMA RowAdded ==
  ASSUME NEW w, NEW n, NEW t, NEW sn, NEW sl, RowsOK(w, n, t, sn, sl),
         NEW r, RowOK(r, n, t, sn, sl), ~HasRow(w, r.cid),
         NEW w2, w2 = Append(w, r)
  PROVE  /\ RowsOK(w2, n, t, sn, sl)
         /\ r.state # "sending" /\ r.mid # 0 /\ r.cid = t[r.mid].cid => Shown(w2, w, {r.mid}, t)
<1>1. IsSeq(w) /\ Len(w) \in Nat
  BY LenIs DEF RowsOK
<1>2. /\ IsSeq(w2) /\ Len(w2) = Len(w) + 1 /\ w2[Len(w) + 1] = r
      /\ \A i \in 1..Len(w) : w2[i] = w[i]
  BY <1>1, AppendIs
<1>3. \A i \in 1..Len(w2) : i \in 1..Len(w) \/ i = Len(w) + 1
  BY <1>1, <1>2
<1>4. \A i \in 1..Len(w) : w[i].cid # r.cid
  BY DEF HasRow
<1>5. RowsOK(w2, n, t, sn, sl)
  <2>1. \A i \in 1..Len(w2) : RowOK(w2[i], n, t, sn, sl)
    BY <1>2, <1>3 DEF RowsOK
  <2>2. \A i, j \in 1..Len(w2) : w2[i].cid = w2[j].cid => i = j
    BY <1>2, <1>3, <1>4 DEF RowsOK
  <2> QED
    BY <1>2, <2>1, <2>2 DEF RowsOK
<1>6. ASSUME r.state # "sending", r.mid # 0, r.cid = t[r.mid].cid
      PROVE  Shown(w2, w, {r.mid}, t)
  <2>1. \A i \in 1..Len(w2) : w2[i].state = "sending" => \E j \in 1..Len(w) : w[j] = w2[i]
    BY <1>2, <1>3, <1>6
  <2>2. \A i \in 1..Len(w) : i \in 1..Len(w2)
    BY <1>1, <1>2
  <2>3. Len(w) + 1 \in 1..Len(w2)
    BY <1>1, <1>2
  <2>4. \A cid : HasRow(w, cid) => HasRow(w2, cid)
    BY <1>2, <2>2 DEF HasRow
  <2>5. \A cid : HasRow(w2, cid) => HasRow(w, cid) \/ cid = r.cid
    BY <1>2, <1>3 DEF HasRow
  <2>6. \A mid : Shows(w, mid) => Shows(w2, mid)
    BY <1>2, <2>2 DEF Shows
  <2>7. Shows(w2, r.mid)
    BY <1>2, <2>3 DEF Shows
  <2> QED
    BY <1>6, <2>1, <2>4, <2>5, <2>6, <2>7 DEF Shown
<1> QED
  BY <1>5, <1>6

LEMMA StoredRow ==
  ASSUME NEW n, NEW t, NEW sn, NEW sl, TableOK(t, sn), NEW m, IsStored(m, t), NEW mine,
         m.mid \in sl \/ mine = m.mine
  PROVE  /\ RowOK(FromServer(m, mine), n, t, sn, sl)
         /\ FromServer(m, mine).cid = m.cid /\ FromServer(m, mine).mid = m.mid
         /\ FromServer(m, mine).state = "sent" /\ m.cid = t[m.mid].cid
         /\ m.mid # 0 /\ m.mid \in 1..Len(t) /\ m.mine = t[m.mid].mine
         /\ m.mine \in BOOLEAN
<1>1. PICK r : r = FromServer(m, mine)
  OBVIOUS
<1>2. /\ DOMAIN r = RowFields /\ r.cid = m.cid /\ r.mid = m.mid /\ r.state = "sent"
  BY <1>1 DEF FromServer, RowFields
<1>3. m = Stored(t, m.mid) /\ m.mid \in 1..Len(t) /\ Len(t) \in Nat
  BY LenIs DEF IsStored, TableOK
<1>4. m.cid = t[m.mid].cid /\ m.mine = t[m.mid].mine /\ t[m.mid].cid \in 1..sn
      /\ t[m.mid].mine \in BOOLEAN
  <2>1. Stored(t, m.mid).cid = t[m.mid].cid /\ Stored(t, m.mid).mine = t[m.mid].mine
    BY DEF Stored
  <2>2. t[m.mid].cid \in 1..sn /\ t[m.mid].mine \in BOOLEAN
    BY <1>3 DEF TableOK
  <2> QED
    BY <1>3, <2>1, <2>2
<1>5. mine = m.mine => r = FromServer(Stored(t, r.mid), t[r.mid].mine)
  BY <1>1, <1>2, <1>3, <1>4
<1>6. r.mid \in 0..Len(t) /\ m.mid # 0
  BY <1>2, <1>3
<1>7. RowOK(r, n, t, sn, sl)
  BY <1>2, <1>4, <1>5, <1>6 DEF RowOK
<1> QED
  BY <1>1, <1>2, <1>3, <1>4, <1>6, <1>7

(* A row with the id of a stored message has no other place in the table.  *)
LEMMA OnePlace ==
  ASSUME NEW w, NEW n, NEW t, NEW sn, NEW sl, TableOK(t, sn), RowsOK(w, n, t, sn, sl),
         NEW i \in 1..Len(w), w[i].mid # 0, NEW mid \in 1..Len(t)
  PROVE  w[i].cid = t[mid].cid <=> w[i].mid = mid
<1>1. w[i].cid = t[w[i].mid].cid /\ w[i].mid \in 0..Len(t) /\ Len(t) \in Nat
  BY LenIs DEF RowsOK, RowOK, TableOK
<1>2. w[i].mid \in 1..Len(t)
  BY <1>1
<1> QED
  BY <1>1, <1>2 DEF TableOK

LEMMA MergeOneIs ==
  ASSUME NEW w, NEW n, NEW t, NEW sn, NEW sl, TableOK(t, sn), RowsOK(w, n, t, sn, sl),
         NEW m, IsStored(m, t)
  PROVE  RowsOK(MergeOne(w, m), n, t, sn, sl) /\ Shown(MergeOne(w, m), w, {m.mid}, t)
<1>1. PICK r : r = FromServer(m, m.mine)
  OBVIOUS
<1>2. /\ RowOK(r, n, t, sn, sl) /\ r.cid = m.cid /\ r.mid = m.mid /\ r.state = "sent"
      /\ m.cid = t[m.mid].cid /\ m.mid # 0 /\ m.mid \in 1..Len(t)
  BY <1>1, StoredRow
<1>3. IsSeq(w)
  BY DEF RowsOK
<1>4. PICK known : known = FindMessage(w, m.cid)
  OBVIOUS
<1>5. /\ known \in 0..Len(w) /\ (known # 0 => w[known].cid = m.cid)
      /\ (known = 0 => ~HasRow(w, m.cid))
  BY <1>3, <1>4, FindIs
<1>6. Len(w) \in Nat
  BY <1>3, LenIs
<1>7. CASE known # 0
  <2>1. MergeOne(w, m) = [w EXCEPT ![known] = r]
    BY <1>1, <1>4, <1>7 DEF MergeOne
  <2>2. known \in 1..Len(w)
    BY <1>5, <1>6, <1>7
  <2>3. w[known].mid # 0 => w[known].mid = r.mid
    BY <1>2, <1>5, <1>7, <2>2, OnePlace
  <2>4. r.cid = w[known].cid /\ r.state # "sending"
    BY <1>2, <1>5, <1>7
  <2>5. PICK w2 : w2 = [w EXCEPT ![known] = r]
    OBVIOUS
  <2>7. RowOK(r, n, t, sn, sl)
    BY <1>2
  <2>8. RowsOK(w2, n, t, sn, sl) /\ Shown(w2, w, {r.mid} \ {0}, t)
    BY <2>2, <2>3, <2>4, <2>5, <2>7, RowReplaced
  <2>6. {r.mid} \ {0} = {m.mid}
    BY <1>2
  <2> QED
    BY <2>1, <2>5, <2>6, <2>8
<1>8. CASE known = 0
  <2>1. FindByServerId(w, m.mid) = 0
    <3>1. PICK row : row = FindByServerId(w, m.mid)
      OBVIOUS
    <3>2. row \in 0..Len(w) /\ (row # 0 => w[row].mid = m.mid)
      BY <1>3, <3>1, FindServerIs
    <3>3. ASSUME row # 0 PROVE FALSE
      <4>1. row \in 1..Len(w) /\ w[row].mid = m.mid
        BY <1>6, <3>2, <3>3
      <4>2. w[row].cid = t[m.mid].cid
        BY <1>2, <4>1, OnePlace
      <4> QED
        BY <1>2, <1>5, <1>8, <4>1, <4>2 DEF HasRow
    <3> QED
      BY <3>1, <3>3
  <2>2. MergeOne(w, m) = Append(w, r)
    BY <1>1, <1>4, <1>8, <2>1 DEF MergeOne
  <2>3. ~HasRow(w, r.cid) /\ r.state # "sending" /\ r.mid # 0 /\ r.cid = t[r.mid].cid
    BY <1>2, <1>5, <1>8
  <2>4. RowsOK(MergeOne(w, m), n, t, sn, sl) /\ Shown(MergeOne(w, m), w, {r.mid}, t)
    BY <1>2, <2>2, <2>3, RowAdded
  <2> QED
    BY <1>2, <2>4
<1> QED
  BY <1>7, <1>8

Placed(messages, k) == {messages[i].mid : i \in 1..k}

(* mergeHistoryMessages before it sorts, by induction over the page.       *)
LEMMA MergedIs ==
  ASSUME NEW w, NEW n, NEW t, NEW sn, NEW sl, TableOK(t, sn), RowsOK(w, n, t, sn, sl),
         NEW messages, IsSeq(messages), \A i \in 1..Len(messages) : IsStored(messages[i], t),
         NEW w2, w2 = MergedRows(w, messages)
  PROVE  RowsOK(w2, n, t, sn, sl) /\ Shown(w2, w, Placed(messages, Len(messages)), t)
<1>1. Len(messages) \in Nat /\ DOMAIN messages = 1..Len(messages)
  BY LenIs
<1>2. PICK g : /\ g[0] = w /\ g[Len(messages)] = w2
               /\ \A i \in 1..Len(messages) : g[i] = MergeOne(g[i - 1], messages[i])
  <2>1. PICK len \in Nat : len = Len(messages)
    BY <1>1
  <2>2. DOMAIN messages = 1..len
    BY <1>1, <2>1
  <2>3. \E g : /\ g[0] = w /\ g[len] = MergedRows(w, messages)
               /\ \A i \in 1..len : g[i] = MergeOne(g[i - 1], messages[i])
    BY <2>2, MergeSteps
  <2> QED
    BY <2>1, <2>3
<1>3. PICK Good : Good = {k \in Nat : k <= Len(messages) =>
         RowsOK(g[k], n, t, sn, sl) /\ Shown(g[k], w, Placed(messages, k), t)}
  OBVIOUS
<1>4. 0 \in Good
  <2>1. Placed(messages, 0) = {}
    BY DEF Placed
  <2>2. Shown(w, w, {}, t)
    BY DEF Shown
  <2> QED
    BY <1>2, <1>3, <2>1, <2>2
<1>5. ASSUME NEW k \in Nat, k \in Good PROVE k + 1 \in Good
  <2> SUFFICES ASSUME k + 1 <= Len(messages)
               PROVE  /\ RowsOK(g[k + 1], n, t, sn, sl)
                      /\ Shown(g[k + 1], w, Placed(messages, k + 1), t)
    BY <1>3
  <2>1. RowsOK(g[k], n, t, sn, sl) /\ Shown(g[k], w, Placed(messages, k), t)
    BY <1>1, <1>3, <1>5
  <2>2. k + 1 \in 1..Len(messages) /\ (k + 1) - 1 = k
    BY <1>1
  <2>3. g[k + 1] = MergeOne(g[k], messages[k + 1]) /\ IsStored(messages[k + 1], t)
    BY <1>2, <2>2
  <2>4. RowsOK(g[k + 1], n, t, sn, sl) /\ Shown(g[k + 1], g[k], {messages[k + 1].mid}, t)
    BY <2>1, <2>3, MergeOneIs
  <2>5. Placed(messages, k) \cup {messages[k + 1].mid} = Placed(messages, k + 1)
    <3>1. \A i : i \in 1..(k + 1) <=> i \in 1..k \/ i = k + 1
      OBVIOUS
    <3> QED
      BY <3>1 DEF Placed
  <2>6. 0 \notin Placed(messages, k)
    <3>1. \A i \in 1..k : i \in 1..Len(messages)
      BY <1>1, <2>2
    <3>2. \A i \in 1..k : messages[i].mid \in 1..Len(t)
      BY <3>1 DEF IsStored
    <3> QED
      BY <3>2 DEF Placed
  <2>7. Shown(g[k + 1], w, Placed(messages, k) \cup {messages[k + 1].mid}, t)
    BY <2>1, <2>4, <2>6, ShownTwice
  <2> QED
    BY <2>4, <2>5, <2>7
<1>6. \A k \in Nat : k \in Good
  BY <1>4, <1>5, Upwards
<1> QED
  BY <1>1, <1>2, <1>3, <1>6

LEMMA StableOrders ==
  ASSUME NEW w, IsSeq(w), \A i \in 1..Len(w) : w[i].mid \in Nat
  PROVE  Orders(StableOrder(w), DOMAIN w)
<1>1. PICK D : D = DOMAIN w
  OBVIOUS
<1>2. D \subseteq Nat /\ \A i \in D : w[i].mid \in Nat
  BY <1>1, LenIs
<1>3. PICK f : f = [i \in D |-> w[i].mid]
  OBVIOUS
<1>4. \A i, j \in D : <<i, j>> \in StableOrder(w) <=>
         \/ (f[i] # 0 /\ (f[j] = 0 \/ f[i] < f[j]))
         \/ (~(f[j] # 0 /\ (f[i] = 0 \/ f[j] < f[i])) /\ i < j)
  BY <1>1, <1>3 DEF StableOrder, Precedes
<1>5. \A i \in D : f[i] \in Nat /\ i \in Nat
  BY <1>2, <1>3
<1>6. \A i \in D : <<i, i>> \notin StableOrder(w)
  BY <1>4, <1>5
<1>7. ASSUME NEW x \in D, NEW y \in D, NEW z \in D,
             <<x, y>> \in StableOrder(w), <<y, z>> \in StableOrder(w)
      PROVE  <<x, z>> \in StableOrder(w)
  <2>1. PICK a \in Nat, b \in Nat, c \in Nat : a = f[x] /\ b = f[y] /\ c = f[z]
    BY <1>5
  <2>2. (a # 0 /\ (b = 0 \/ a < b)) \/ (~(b # 0 /\ (a = 0 \/ b < a)) /\ x < y)
    BY <1>4, <1>7, <2>1
  <2>3. (b # 0 /\ (c = 0 \/ b < c)) \/ (~(c # 0 /\ (b = 0 \/ c < b)) /\ y < z)
    BY <1>4, <1>7, <2>1
  <2>4. x \in Nat /\ y \in Nat /\ z \in Nat
    BY <1>5
  <2>5. (a # 0 /\ (c = 0 \/ a < c)) \/ (~(c # 0 /\ (a = 0 \/ c < a)) /\ x < z)
    BY <2>2, <2>3, <2>4
  <2> QED
    BY <1>4, <2>1, <2>5
<1>8. ASSUME NEW x \in D, NEW y \in D, x # y
      PROVE  <<x, y>> \in StableOrder(w) \/ <<y, x>> \in StableOrder(w)
  <2>1. PICK a \in Nat, b \in Nat : a = f[x] /\ b = f[y]
    BY <1>5
  <2>2. x \in Nat /\ y \in Nat
    BY <1>5
  <2>3. \/ (a # 0 /\ (b = 0 \/ a < b)) \/ (~(b # 0 /\ (a = 0 \/ b < a)) /\ x < y)
        \/ (b # 0 /\ (a = 0 \/ b < a)) \/ (~(a # 0 /\ (b = 0 \/ a < b)) /\ y < x)
    BY <1>8, <2>2
  <2> QED
    BY <1>4, <2>1, <2>3
<1> QED
  BY <1>1, <1>6, <1>7, <1>8 DEF Orders

(* mergeHistoryMessages shows a page of stored messages.                   *)
LEMMA MergeHistoryIs ==
  ASSUME NEW w, NEW n, NEW t, NEW sn, NEW sl, TableOK(t, sn), RowsOK(w, n, t, sn, sl),
         NEW messages, IsSeq(messages), \A i \in 1..Len(messages) : IsStored(messages[i], t),
         NEW w2, w2 = MergeHistory(w, messages)
  PROVE  RowsOK(w2, n, t, sn, sl) /\ Shown(w2, w, Placed(messages, Len(messages)), t)
<1>1. CASE messages = <<>>
  <2>1. w2 = w
    BY <1>1 DEF MergeHistory
  <2>2. Placed(messages, Len(messages)) = {}
    BY <1>1, EmptyIs DEF Placed
  <2> QED
    BY <2>1, <2>2 DEF Shown
<1>2. CASE messages # <<>>
  <2>1. PICK m : m = MergedRows(w, messages)
    OBVIOUS
  <2>2. RowsOK(m, n, t, sn, sl) /\ Shown(m, w, Placed(messages, Len(messages)), t)
    BY <2>1, MergedIs
  <2>3. IsSeq(m) /\ Len(m) \in Nat /\ DOMAIN m = 1..Len(m)
    BY <2>2, LenIs DEF RowsOK
  <2>4. PICK o : o = InOrder(DOMAIN m, StableOrder(m))
    OBVIOUS
  <2>5. \A i \in 1..Len(m) : m[i].mid \in Nat
    <3>1. Len(t) \in Nat
      BY LenIs DEF TableOK
    <3> QED
      BY <2>2, <3>1 DEF RowsOK, RowOK
  <2>6. IsFiniteSet(DOMAIN m) /\ Cardinality(DOMAIN m) = Len(m)
    BY <2>3, FS_Interval
  <2>7. Orders(StableOrder(m), DOMAIN m)
    BY <2>3, <2>5, StableOrders
  <2>8. /\ \A k \in 1..Len(m) : o[k] \in 1..Len(m)
        /\ \A x \in 1..Len(m) : \E k \in 1..Len(m) : o[k] = x
        /\ \A k, l \in 1..Len(m) : o[k] = o[l] => k = l
    <3>1. PICK D : D = DOMAIN m
      OBVIOUS
    <3>2. /\ \A k \in 1..Cardinality(D) : InOrder(D, StableOrder(m))[k] \in D
          /\ \A x \in D : \E k \in 1..Cardinality(D) : InOrder(D, StableOrder(m))[k] = x
          /\ \A k, l \in 1..Cardinality(D) :
                InOrder(D, StableOrder(m))[k] = InOrder(D, StableOrder(m))[l] => k = l
      BY <2>6, <2>7, <3>1, Ranking
    <3> QED
      BY <2>3, <2>4, <2>6, <3>1, <3>2
  <2>9. w2 = [k \in 1..Len(m) |-> m[o[k]]]
    BY <1>2, <2>1, <2>3, <2>4 DEF MergeHistory, MergedRows
  <2>10. IsSeq(w2) /\ Len(w2) = Len(m)
    BY <2>3, <2>9, MappedIs
  <2>11. \A k \in 1..Len(m) : w2[k] = m[o[k]] /\ o[k] \in 1..Len(m)
    BY <2>8, <2>9
  <2>12. RowsOK(w2, n, t, sn, sl)
    <3>1. \A i \in 1..Len(w2) : RowOK(w2[i], n, t, sn, sl)
      BY <2>2, <2>10, <2>11 DEF RowsOK
    <3>2. ASSUME NEW i \in 1..Len(w2), NEW j \in 1..Len(w2), w2[i].cid = w2[j].cid PROVE i = j
      <4>1. m[o[i]].cid = m[o[j]].cid /\ o[i] \in 1..Len(m) /\ o[j] \in 1..Len(m)
        BY <2>10, <2>11, <3>2
      <4>2. o[i] = o[j]
        BY <2>2, <4>1 DEF RowsOK
      <4> QED
        BY <2>8, <2>10, <4>2
    <3> QED
      BY <2>10, <3>1, <3>2 DEF RowsOK
  <2>16. \A x \in 1..Len(m) : \E k \in 1..Len(w2) : w2[k] = m[x]
    <3> SUFFICES ASSUME NEW x \in 1..Len(m) PROVE \E k \in 1..Len(w2) : w2[k] = m[x]
      OBVIOUS
    <3>1. PICK k \in 1..Len(m) : o[k] = x
      BY <2>8
    <3> QED
      BY <2>10, <2>11, <3>1
  <2>17. \A k \in 1..Len(w2) : \E x \in 1..Len(m) : w2[k] = m[x]
    BY <2>10, <2>11
  <2>13. \A cid : HasRow(m, cid) <=> HasRow(w2, cid)
    <3> SUFFICES ASSUME NEW cid PROVE HasRow(m, cid) <=> HasRow(w2, cid)
      OBVIOUS
    <3>1. HasRow(m, cid) => HasRow(w2, cid)
      BY <2>16 DEF HasRow
    <3>2. HasRow(w2, cid) => HasRow(m, cid)
      BY <2>17 DEF HasRow
    <3> QED
      BY <3>1, <3>2
  <2>14. \A mid : Shows(m, mid) <=> Shows(w2, mid)
    <3> SUFFICES ASSUME NEW mid PROVE Shows(m, mid) <=> Shows(w2, mid)
      OBVIOUS
    <3>1. Shows(m, mid) => Shows(w2, mid)
      BY <2>16 DEF Shows
    <3>2. Shows(w2, mid) => Shows(m, mid)
      BY <2>17 DEF Shows
    <3> QED
      BY <3>1, <3>2
  <2>15. \A i \in 1..Len(w2) : w2[i].state = "sending" => \E j \in 1..Len(w) : w[j] = w2[i]
    BY <2>2, <2>17 DEF Shown
  <2> QED
    BY <2>2, <2>12, <2>13, <2>14, <2>15 DEF Shown
<1> QED
  BY <1>1, <1>2

-----------------------------------------------------------------------------
(* Steps that are not about the chat                                       *)

Chats == {"chat", "push", "history"}

(* What is left of n without its first s messages, with one more at most,  *)
(* which is not about the chat.                                            *)
Later(n2, n, s) ==
  /\ IsSeq(n) /\ IsSeq(n2) /\ s \in {0, 1}
  /\ \A i \in 1..Len(n2) : \/ i + s \in 1..Len(n) /\ n2[i] = n[i + s]
                           \/ i = Len(n2) /\ n2[i].t \notin Chats

(* All of n but its first s messages is left.                              *)
Kept(n2, n, s) == \A i \in 1..Len(n) : i > s => i - s \in 1..Len(n2) /\ n2[i - s] = n[i]

(* The rows after a step that does not change what was said.               *)
Same(w2, w) ==
  /\ IsSeq(w) /\ IsSeq(w2) /\ Len(w2) = Len(w)
  /\ \A i \in 1..Len(w) : \/ w2[i] = w[i]
                          \/ w[i].state = "sending" /\ w2[i] = [w[i] EXCEPT !.state = "unknown"]

Stays(k, k2) == k.rec = "Ready" /\ k.meeting /\ k2.rec = "Ready" /\ k2.meeting

(* A step of the connection: the client k, requests n, answers d, silence  *)
(* q and sessions ss become k2, n2, d2, q2 and ss2.                        *)
Frame(k, n, d, q, ss, k2, n2, d2, q2, ss2, s, r) ==
  /\ Later(n2, n, s) /\ Later(d2, d, r)
  /\ Stays(k, k2) /\ ~q2 =>
        /\ ~q /\ k2.c = k.c /\ (ss2[k.c].open => ss[k.c].open)
        /\ Kept(n2, n, s) /\ (s = 1 => n[1].t \notin Chats)
        /\ Kept(d2, d, r) /\ (r = 1 => d[1].t \notin Chats /\ ~Left(d[1]))
  /\ k.rec = "Ready" /\ k2.rec # "Ready" => Recovering(k2) \/ ~k2.meeting
  /\ ~k.meeting /\ k2.meeting => k.rec = "Ready" /\ r = 1 /\ d # <<>> /\ Joined(d[1])
  /\ \A i \in 1..Len(d2) : Joined(d2[i]) =>
        \/ i + r \in 1..Len(d) /\ d2[i] = d[i + r]
        \/ s = 1 /\ n # <<>> /\ n[1].t = "join" /\ n[1].c = k.c /\ i = Len(d2)
  /\ k2.rec # "Ready" =>
        \/ k.rec # "Ready" /\ k2.c = k.c /\ (k2.sock = "up" => k.sock = "up")
        \/ d2 = <<>> /\ (k2.sock = "up" => \A i \in 1..Len(n2) : n2[i].t = "history" => n2[i].c # k2.c)
  /\ k2.c = k.c \/ \A i \in 1..Len(n2) : n2[i].t = "join" => n2[i].c # k2.c

(* What RowsFollow says.                                                   *)
Follow(k, k2, w, w2, fr, fr2) ==
  /\ w2 = IF ~k2.meeting THEN <<>>
          ELSE IF k.rec = "Ready" /\ Recovering(k2) THEN Interrupted(w) ELSE w
  /\ fr2 = (fr /\ k2.meeting /\ k2.rec = "Ready")

LEMMA RequestsKept ==
  ASSUME NEW n, NEW n2, NEW s, NEW t, NEW sn, Later(n2, n, s), Requested(n, t, sn)
  PROVE  Requested(n2, t, sn) /\ \A cid : Asked(n2, cid) => Asked(n, cid)
<1>1. Len(n) \in Nat /\ Len(n2) \in Nat /\ s \in Int
  BY LenIs DEF Later
<1>2. \A i \in 1..Len(n2) : n2[i].t = "chat" => i + s \in 1..Len(n) /\ n2[i] = n[i + s]
  BY DEF Later, Chats
<1>3. \A i \in 1..Len(n2) : n2[i].t = "chat" =>
         n2[i].x[1] \in 1..sn /\ \A mid \in 1..Len(t) : t[mid].cid # n2[i].x[1]
  BY <1>2 DEF Requested
<1>4. ASSUME NEW i \in 1..Len(n2), NEW j \in 1..Len(n2),
             n2[i].t = "chat", n2[j].t = "chat", n2[i].x[1] = n2[j].x[1]
      PROVE  i = j
  <2>1. i + s \in 1..Len(n) /\ j + s \in 1..Len(n) /\ n2[i] = n[i + s] /\ n2[j] = n[j + s]
    BY <1>2, <1>4
  <2>2. i + s = j + s
    BY <1>4, <2>1 DEF Requested
  <2> QED
    BY <1>1, <2>2
<1>5. \A cid : Asked(n2, cid) => Asked(n, cid)
  BY <1>2 DEF Asked
<1> QED
  BY <1>3, <1>4, <1>5 DEF Requested

LEMMA SameRow ==
  ASSUME NEW w, NEW w2, NEW i \in 1..Len(w), NEW n, NEW t, NEW sn, NEW sl,
         RowOK(w[i], n, t, sn, sl), Same(w2, w)
  PROVE  /\ w2[i].cid = w[i].cid /\ w2[i].mid = w[i].mid
         /\ w2[i].state = "sending" => w2[i] = w[i]
         /\ RowOK(w2[i], n, t, sn, sl)
<1>1. CASE w2[i] = w[i]
  BY <1>1
<1>2. CASE w[i].state = "sending" /\ w2[i] = [w[i] EXCEPT !.state = "unknown"]
  <2>1. PICK r : r = w[i]
    OBVIOUS
  <2>2. PICK r2 : r2 = w2[i]
    OBVIOUS
  <2>3. DOMAIN r = RowFields /\ r2 = [r EXCEPT !.state = "unknown"]
    BY <1>2, <2>1, <2>2 DEF RowOK
  <2>4. r2.cid = r.cid /\ r2.mid = r.mid /\ r2.state = "unknown" /\ DOMAIN r2 = RowFields
    BY <2>3 DEF RowFields
  <2>5. r.mid # 0 => r.mid \in sl
    <3>1. FromServer(Stored(t, r.mid), t[r.mid].mine).state = "sent"
      BY DEF FromServer
    <3> QED
      BY <1>2, <2>1, <3>1 DEF RowOK
  <2> QED
    BY <1>2, <2>1, <2>2, <2>4, <2>5 DEF RowOK
<1> QED
  BY <1>1, <1>2 DEF Same

LEMMA SameRows ==
  ASSUME NEW w, NEW w2, NEW n, NEW n2, NEW t, NEW sn, NEW sl,
         RowsOK(w, n, t, sn, sl), Same(w2, w), \A cid : Asked(n2, cid) => Asked(n, cid)
  PROVE  /\ RowsOK(w2, n2, t, sn, sl)
         /\ \A cid : HasRow(w2, cid) <=> HasRow(w, cid)
         /\ \A mid : Shows(w2, mid) <=> Shows(w, mid)
<1>1. Len(w2) = Len(w) /\ IsSeq(w2)
  BY DEF Same
<1>2. \A i \in 1..Len(w) : /\ w2[i].cid = w[i].cid /\ w2[i].mid = w[i].mid
                           /\ RowOK(w2[i], n, t, sn, sl)
  <2> SUFFICES ASSUME NEW i \in 1..Len(w)
               PROVE  /\ w2[i].cid = w[i].cid /\ w2[i].mid = w[i].mid
                      /\ RowOK(w2[i], n, t, sn, sl)
    OBVIOUS
  <2>1. RowOK(w[i], n, t, sn, sl)
    BY DEF RowsOK
  <2> QED
    BY <2>1, SameRow
<1>3. \A i \in 1..Len(w2) : RowOK(w2[i], n2, t, sn, sl)
  BY <1>1, <1>2 DEF RowOK
<1>4. RowsOK(w2, n2, t, sn, sl)
  BY <1>1, <1>2, <1>3 DEF RowsOK
<1> QED
  BY <1>1, <1>2, <1>4 DEF HasRow, Shows

LEMMA NoRows ==
  ASSUME NEW n, NEW t, NEW sn, NEW sl
  PROVE  /\ RowsOK(<<>>, n, t, sn, sl) /\ Len(<<>>) = 0
         /\ \A cid : ~HasRow(<<>>, cid)
  BY EmptyIs DEF RowsOK, HasRow

LEMMA FollowIs ==
  ASSUME NEW k, NEW k2, NEW w, NEW w2, NEW fr, NEW fr2, NEW n, NEW t, NEW sn, NEW sl,
         RowsOK(w, n, t, sn, sl), Follow(k, k2, w, w2, fr, fr2)
  PROVE  /\ ~k2.meeting => w2 = <<>>
         /\ k2.meeting => Same(w2, w)
         /\ k2.meeting /\ k.rec = "Ready" /\ Recovering(k2) =>
               \A i \in 1..Len(w2) : w2[i].state # "sending"
<1>1. CASE ~k2.meeting
  BY <1>1 DEF Follow
<1>2. CASE k2.meeting /\ k.rec = "Ready" /\ Recovering(k2)
  <2>1. w2 = Interrupted(w)
    BY <1>2 DEF Follow
  <2>2. IsSeq(w) /\ Len(w) \in Nat /\ DOMAIN w = 1..Len(w)
    BY LenIs DEF RowsOK
  <2>3. /\ DOMAIN w2 = 1..Len(w) /\ w2 = [i \in 1..Len(w) |-> w2[i]]
        /\ \A i \in 1..Len(w) : w2[i] = IF w[i].state = "sending"
                                          THEN [w[i] EXCEPT !.state = "unknown"] ELSE w[i]
    BY <2>1, <2>2 DEF Interrupted
  <2>4. IsSeq(w2) /\ Len(w2) = Len(w)
    BY <2>2, <2>3, MappedIs
  <2>5. Same(w2, w)
    BY <2>2, <2>3, <2>4 DEF Same
  <2>6. ASSUME NEW i \in 1..Len(w2), w2[i].state = "sending" PROVE FALSE
    <3>1. PICK r : r = w[i] /\ DOMAIN r = RowFields
      BY <2>4 DEF RowsOK, RowOK
    <3>2. [r EXCEPT !.state = "unknown"].state = "unknown"
      BY <3>1 DEF RowFields
    <3> QED
      BY <2>3, <2>4, <2>6, <3>1, <3>2
  <2> QED
    BY <1>2, <2>5, <2>6
<1>3. CASE k2.meeting /\ ~(k.rec = "Ready" /\ Recovering(k2))
  BY <1>3 DEF Follow, Same, RowsOK
<1> QED
  BY <1>1, <1>2, <1>3

LEMMA RepliesKept ==
  ASSUME NEW d, NEW d2, NEW r, NEW n, NEW n2, NEW t, NEW sn, NEW sl,
         Replies(d, n, t, sn, sl), Later(d2, d, r), \A cid : Asked(n2, cid) => Asked(n, cid)
  PROVE  Replies(d2, n2, t, sn, sl)
<1> SUFFICES ASSUME NEW i \in 1..Len(d2) PROVE ReplyOK(d2[i], n2, t, sn, sl)
  BY DEF Replies
<1>1. CASE d2[i].t \notin Chats
  BY <1>1 DEF ReplyOK, Chats
<1>2. CASE d2[i].t \in Chats
  <2>1. i + r \in 1..Len(d) /\ d2[i] = d[i + r]
    BY <1>2 DEF Later
  <2>2. ReplyOK(d2[i], n, t, sn, sl)
    BY <2>1 DEF Replies
  <2> QED
    BY <2>2 DEF ReplyOK
<1> QED
  BY <1>1, <1>2

(* The first place of a message of n that is left in n2.                   *)
LEMMA KeptAt ==
  ASSUME NEW n, NEW n2, NEW s, Later(n2, n, s), Kept(n2, n, s), NEW i \in 1..Len(n),
         s = 1 => i # 1
  PROVE  i - s \in 1..Len(n2) /\ n2[i - s] = n[i]
<1>1. Len(n) \in Nat
  BY LenIs DEF Later
<1>2. i > s
  BY <1>1 DEF Later
<1> QED
  BY <1>2 DEF Kept

LEMMA UnansweredKept ==
  ASSUME NEW k, NEW n, NEW d, NEW q, NEW ss, NEW k2, NEW n2, NEW d2, NEW q2, NEW ss2, NEW s, NEW r,
         NEW w, NEW w2, NEW t, NEW sn, NEW sl, NEW un,
         Unanswered(k, n, d, q, ss, w, un), Frame(k, n, d, q, ss, k2, n2, d2, q2, ss2, s, r),
         Replies(d, n, t, sn, sl), w # <<>> => k.meeting,
         RowsOK(w, n, t, sn, sl), ~k2.meeting => w2 = <<>>, k2.meeting => Same(w2, w),
         k2.meeting /\ k.rec = "Ready" /\ Recovering(k2) =>
               \A i \in 1..Len(w2) : w2[i].state # "sending"
  PROVE  Unanswered(k2, n2, d2, q2, ss2, w2, un)
<1> SUFFICES ASSUME NEW i \in 1..Len(w2), w2[i].state = "sending"
             PROVE  /\ k2.rec = "Ready"
                    /\ \/ q2 \/ ~ss2[k2.c].open \/ w2[i].cid \in un
                       \/ \E j \in 1..Len(n2) : n2[j].t = "chat" /\ n2[j].c = k2.c /\ n2[j].x[1] = w2[i].cid
                       \/ \E j \in 1..Len(d2) : d2[j].t = "chat" /\ d2[j].rows[1].cid = w2[i].cid
  BY DEF Unanswered
<1>1. k2.meeting /\ Same(w2, w)
  BY NoRows
<1>2. i \in 1..Len(w) /\ w2[i] = w[i]
  <2>1. i \in 1..Len(w)
    BY <1>1 DEF Same
  <2>2. RowOK(w[i], n, t, sn, sl)
    BY <2>1 DEF RowsOK
  <2> QED
    BY <1>1, <2>1, <2>2, SameRow
<1>3. k.rec = "Ready" /\ k.meeting
  <2>1. w # <<>>
    BY <1>2, NoRows
  <2> QED
    BY <1>2, <2>1 DEF Unanswered
<1>4. k2.rec = "Ready"
  BY <1>1, <1>3 DEF Frame
<1>5. CASE q2 \/ ~ss2[k2.c].open \/ w2[i].cid \in un
  BY <1>4, <1>5
<1>6. CASE ~q2 /\ ss2[k2.c].open /\ w2[i].cid \notin un
  <2>1. /\ ~q /\ k2.c = k.c /\ ss[k.c].open
        /\ Kept(n2, n, s) /\ (s = 1 => n[1].t \notin Chats)
        /\ Kept(d2, d, r) /\ (r = 1 => d[1].t \notin Chats)
    BY <1>1, <1>3, <1>4, <1>6 DEF Frame, Stays
  <2>2. Later(n2, n, s) /\ Later(d2, d, r)
    BY DEF Frame
  <2>3. \/ \E j \in 1..Len(n) : n[j].t = "chat" /\ n[j].c = k.c /\ n[j].x[1] = w[i].cid
        \/ \E j \in 1..Len(d) : d[j].t = "chat" /\ d[j].rows[1].cid = w[i].cid
    BY <1>2, <1>6, <2>1 DEF Unanswered
  <2>4. CASE \E j \in 1..Len(n) : n[j].t = "chat" /\ n[j].c = k.c /\ n[j].x[1] = w[i].cid
    <3>1. PICK j \in 1..Len(n) : n[j].t = "chat" /\ n[j].c = k.c /\ n[j].x[1] = w[i].cid
      BY <2>4
    <3>2. s = 1 => j # 1
      BY <2>1, <3>1 DEF Chats
    <3>3. j - s \in 1..Len(n2) /\ n2[j - s] = n[j]
      BY <2>1, <2>2, <3>2, KeptAt
    <3> QED
      BY <1>2, <1>4, <2>1, <3>1, <3>3
  <2>5. CASE \E j \in 1..Len(d) : d[j].t = "chat" /\ d[j].rows[1].cid = w[i].cid
    <3>1. PICK j \in 1..Len(d) : d[j].t = "chat" /\ d[j].rows[1].cid = w[i].cid
      BY <2>5
    <3>2. r = 1 => j # 1
      BY <2>1, <3>1 DEF Chats
    <3>3. j - r \in 1..Len(d2) /\ d2[j - r] = d[j]
      BY <2>1, <2>2, <3>2, KeptAt
    <3> QED
      BY <1>2, <1>4, <3>1, <3>3
  <2> QED
    BY <2>3, <2>4, <2>5
<1> QED
  BY <1>5, <1>6

LEMMA OwnKept ==
  ASSUME NEW k, NEW n, NEW d, NEW q, NEW ss, NEW k2, NEW n2, NEW d2, NEW q2, NEW ss2, NEW s, NEW r,
         NEW w, NEW w2,
         OwnShown(k, n, d, w), BehindJoin(k, n, d),
         Frame(k, n, d, q, ss, k2, n2, d2, q2, ss2, s, r),
         k2.meeting => \A cid : HasRow(w, cid) => HasRow(w2, cid)
  PROVE  OwnShown(k2, n2, d2, w2)
<1> SUFFICES ASSUME k2.meeting
             PROVE  /\ \A i \in 1..Len(n2) : n2[i].t = "chat" => HasRow(w2, n2[i].x[1])
                    /\ \A i \in 1..Len(d2) : d2[i].t = "push" /\ d2[i].rows[1].mine =>
                          HasRow(w2, d2[i].rows[1].cid)
  BY DEF OwnShown
<1>1. Later(n2, n, s) /\ Later(d2, d, r) /\ Len(d) \in Nat /\ Len(d2) \in Nat
  BY LenIs DEF Frame, Later
<1>2. \A i \in 1..Len(n2) : n2[i].t = "chat" => i + s \in 1..Len(n) /\ n2[i] = n[i + s]
  BY <1>1 DEF Later, Chats
<1>3. \A i \in 1..Len(d2) : d2[i].t = "push" => i + r \in 1..Len(d) /\ d2[i] = d[i + r]
  BY <1>1 DEF Later, Chats
<1>4. CASE k.meeting
  BY <1>2, <1>3, <1>4 DEF OwnShown
<1>5. CASE ~k.meeting
  <2>1. r = 1 /\ d # <<>> /\ Joined(d[1])
    BY <1>5 DEF Frame
  <2>2. 1 \in 1..Len(d)
    BY <1>1, <2>1, TailIs DEF Later
  <2>3. \A j \in 1..Len(n) : ~OfMember(n[j])
    BY <2>1, <2>2 DEF BehindJoin
  <2>4. \A j \in 1..Len(d) : 1 < j => ~ToMember(d[j])
    BY <2>1, <2>2 DEF BehindJoin
  <2>5. \A i \in 1..Len(n2) : n2[i].t # "chat"
    BY <1>2, <2>3 DEF OfMember
  <2>6. ASSUME NEW i \in 1..Len(d2), d2[i].t = "push", d2[i].rows[1].mine PROVE FALSE
    <3>1. i + 1 \in 1..Len(d) /\ d2[i] = d[i + 1] /\ 1 < i + 1
      BY <1>1, <1>3, <2>1, <2>6
    <3> QED
      BY <2>4, <2>6, <3>1 DEF ToMember
  <2> QED
    BY <2>5, <2>6
<1> QED
  BY <1>4, <1>5

LEMMA BehindJoinKept ==
  ASSUME NEW k, NEW n, NEW d, NEW q, NEW ss, NEW k2, NEW n2, NEW d2, NEW q2, NEW ss2, NEW s, NEW r,
         BehindJoin(k, n, d), Frame(k, n, d, q, ss, k2, n2, d2, q2, ss2, s, r)
  PROVE  BehindJoin(k2, n2, d2)
<1>1. /\ Later(n2, n, s) /\ Later(d2, d, r) /\ Len(d) \in Nat /\ Len(d2) \in Nat
      /\ Len(n) \in Nat /\ Len(n2) \in Nat /\ s \in {0, 1} /\ r \in {0, 1}
  BY LenIs DEF Frame, Later
<1>2. \A i \in 1..Len(n2) : (i + s \in 1..Len(n) /\ n2[i] = n[i + s]) \/ (i = Len(n2) /\ ~OfMember(n2[i]))
  BY <1>1 DEF Later, Chats, OfMember
<1>3. \A i \in 1..Len(d2) : (i + r \in 1..Len(d) /\ d2[i] = d[i + r]) \/ (i = Len(d2) /\ ~ToMember(d2[i]))
  BY <1>1 DEF Later, Chats, ToMember
<1>4. ASSUME NEW i \in 1..Len(n2), NEW j \in 1..Len(n2), i < j,
             n2[i].t = "join", n2[i].c = k2.c
      PROVE  ~OfMember(n2[j])
  <2>1. k2.c = k.c
    BY <1>4 DEF Frame
  <2>2. i + s \in 1..Len(n) /\ n2[i] = n[i + s]
    BY <1>1, <1>2, <1>4
  <2>3. CASE j + s \in 1..Len(n) /\ n2[j] = n[j + s]
    <3>1. i + s < j + s
      BY <1>1, <1>4
    <3> QED
      BY <1>4, <2>1, <2>2, <2>3, <3>1 DEF BehindJoin
  <2> QED
    BY <1>2, <2>3
<1>5. ASSUME NEW i \in 1..Len(d2), Joined(d2[i])
      PROVE  /\ \A j \in 1..Len(n2) : ~OfMember(n2[j])
             /\ \A j \in 1..Len(d2) : i < j => ~ToMember(d2[j])
  <2>1. CASE i + r \in 1..Len(d) /\ d2[i] = d[i + r]
    <3>1. \A j \in 1..Len(n) : ~OfMember(n[j])
      BY <1>5, <2>1 DEF BehindJoin
    <3>2. \A j \in 1..Len(d) : i + r < j => ~ToMember(d[j])
      BY <1>5, <2>1 DEF BehindJoin
    <3>3. \A j \in 1..Len(n2) : ~OfMember(n2[j])
      BY <1>2, <3>1
    <3>4. ASSUME NEW j \in 1..Len(d2), i < j PROVE ~ToMember(d2[j])
      <4>1. i + r < j + r
        BY <1>1, <3>4
      <4> QED
        BY <1>3, <3>2, <4>1
    <3> QED
      BY <3>3, <3>4
  <2>2. CASE s = 1 /\ n # <<>> /\ n[1].t = "join" /\ n[1].c = k.c /\ i = Len(d2)
    <3>1. 1 \in 1..Len(n)
      BY <1>1, <2>2, TailIs DEF Later
    <3>2. ASSUME NEW j \in 1..Len(n2) PROVE ~OfMember(n2[j])
      <4>1. CASE j + 1 \in 1..Len(n) /\ n2[j] = n[j + 1]
        <5>1. 1 < j + 1
          BY <1>1
        <5> QED
          BY <2>2, <3>1, <4>1, <5>1 DEF BehindJoin
      <4> QED
        BY <1>2, <2>2, <4>1
    <3> QED
      BY <1>1, <2>2, <3>2
  <2> QED
    BY <1>5, <2>1, <2>2 DEF Frame
<1>6. ASSUME k2.rec # "Ready"
      PROVE  /\ \A i \in 1..Len(d2) : d2[i].t # "history"
             /\ k2.sock = "up" => \A i \in 1..Len(n2) : n2[i].t = "history" => n2[i].c # k2.c
  <2>1. CASE k.rec # "Ready" /\ k2.c = k.c /\ (k2.sock = "up" => k.sock = "up")
    <3>1. /\ \A i \in 1..Len(d) : d[i].t # "history"
          /\ k2.sock = "up" => \A i \in 1..Len(n) : n[i].t = "history" => n[i].c # k2.c
      BY <2>1 DEF BehindJoin
    <3> QED
      BY <1>2, <1>3, <3>1 DEF OfMember, ToMember
  <2>2. CASE d2 = <<>> /\ (k2.sock = "up" => \A i \in 1..Len(n2) : n2[i].t = "history" => n2[i].c # k2.c)
    BY <2>2, EmptyIs
  <2> QED
    BY <1>6, <2>1, <2>2 DEF Frame
<1> QED
  BY <1>4, <1>5, <1>6 DEF BehindJoin

LEMMA FirstNamedKept ==
  ASSUME NEW d, NEW d2, NEW r, NEW w, NEW w2, FirstNamed(d, w), Later(d2, d, r),
         \A cid : HasRow(w2, cid) => HasRow(w, cid)
  PROVE  FirstNamed(d2, w2)
<1>1. Len(d) \in Nat /\ Len(d2) \in Nat /\ r \in {0, 1}
  BY LenIs DEF Later
<1> SUFFICES ASSUME NEW i \in 1..Len(d2), d2[i].t = "push", ~d2[i].rows[1].mine
             PROVE  /\ ~HasRow(w2, d2[i].rows[1].cid)
                    /\ \A j \in 1..Len(d2) : j < i => ~Names(d2[j], d2[i].rows[1].mid)
  BY DEF FirstNamed
<1>2. i + r \in 1..Len(d) /\ d2[i] = d[i + r]
  BY DEF Later, Chats
<1>3. ~HasRow(w, d2[i].rows[1].cid)
  BY <1>2 DEF FirstNamed
<1>4. ASSUME NEW j \in 1..Len(d2), j < i PROVE ~Names(d2[j], d2[i].rows[1].mid)
  <2>1. j + r \in 1..Len(d) /\ d2[j] = d[j + r] /\ j + r < i + r
    BY <1>1, <1>4 DEF Later
  <2> QED
    BY <1>2, <2>1 DEF FirstNamed
<1> QED
  BY <1>3, <1>4

LEMMA PageKept ==
  ASSUME NEW k, NEW n, NEW d, NEW q, NEW ss, NEW k2, NEW n2, NEW d2, NEW q2, NEW ss2, NEW s, NEW r,
         NEW w, NEW w2, NEW t, NEW sl, NEW fr, NEW fr2,
         PageFollows(k, d, q, ss, w, t, sl, fr), BehindJoin(k, n, d), Cleared(k, w, fr),
         Frame(k, n, d, q, ss, k2, n2, d2, q2, ss2, s, r),
         k2.meeting => \A mid : Shows(w, mid) => Shows(w2, mid),
         fr2 => fr /\ k.rec = "Ready"
  PROVE  PageFollows(k2, d2, q2, ss2, w2, t, sl, fr2)
<1> SUFFICES ASSUME Attending(k2, d2, q2, ss2)
             PROVE  /\ fr2 => \A mid \in Latest(t) \ sl :
                                Shows(w2, mid) \/ \E j \in 1..Len(d2) : Names(d2[j], mid)
                    /\ \A i \in 1..Len(d2) : LatestPageOf(d2[i]) =>
                         \A mid \in Latest(t) \ sl : \E j \in 1..Len(d2) : i <= j /\ Names(d2[j], mid)
  BY DEF PageFollows
<1>1. Later(d2, d, r) /\ Len(d) \in Nat /\ Len(d2) \in Nat /\ r \in {0, 1}
  BY LenIs DEF Frame, Later
<1>2. k2.rec = "Ready" /\ k2.meeting /\ ~q2 /\ ss2[k2.c].open /\ \A i \in 1..Len(d2) : ~Left(d2[i])
  BY DEF Attending
<1>3. \A i \in 1..Len(d2) : d2[i].t = "history" => i + r \in 1..Len(d) /\ d2[i] = d[i + r]
  BY <1>1 DEF Later, Chats
<1>4. CASE Stays(k, k2)
  <2>1. /\ ~q /\ ss[k.c].open /\ Kept(d2, d, r)
        /\ r = 1 => d[1].t \notin Chats /\ ~Left(d[1])
    BY <1>2, <1>4 DEF Frame
  <2>2. Attending(k, d, q, ss)
    <3>1. ASSUME NEW j \in 1..Len(d), Left(d[j]) PROVE FALSE
      <4>1. r = 1 => j # 1
        BY <2>1, <3>1
      <4>2. j - r \in 1..Len(d2) /\ d2[j - r] = d[j]
        BY <1>1, <2>1, <4>1, KeptAt
      <4> QED
        BY <1>2, <3>1, <4>2
    <3> QED
      BY <1>4, <2>1, <3>1 DEF Attending, Stays
  <2>3. ASSUME NEW j \in 1..Len(d), NEW mid, Names(d[j], mid)
        PROVE  j - r \in 1..Len(d2) /\ Names(d2[j - r], mid)
    <3>1. r = 1 => j # 1
      BY <2>1, <2>3 DEF Names, Chats
    <3> QED
      BY <1>1, <2>1, <2>3, <3>1, KeptAt
  <2>4. ASSUME fr2, NEW mid \in Latest(t) \ sl
        PROVE  Shows(w2, mid) \/ \E j \in 1..Len(d2) : Names(d2[j], mid)
    <3>1. Shows(w, mid) \/ \E j \in 1..Len(d) : Names(d[j], mid)
      BY <2>2, <2>4 DEF PageFollows
    <3> QED
      BY <1>2, <2>3, <3>1
  <2>5. ASSUME NEW i \in 1..Len(d2), LatestPageOf(d2[i]), NEW mid \in Latest(t) \ sl
        PROVE  \E j \in 1..Len(d2) : i <= j /\ Names(d2[j], mid)
    <3>1. i + r \in 1..Len(d) /\ d2[i] = d[i + r]
      BY <1>3, <2>5 DEF LatestPageOf
    <3>2. PICK j \in 1..Len(d) : i + r <= j /\ Names(d[j], mid)
      BY <2>2, <2>5, <3>1 DEF PageFollows
    <3>3. j - r \in 1..Len(d2) /\ Names(d2[j - r], mid)
      BY <2>3, <3>2
    <3>4. i <= j - r
      BY <1>1, <3>2
    <3> QED
      BY <3>3, <3>4
  <2> QED
    BY <2>4, <2>5
<1>5. CASE k.rec # "Ready"
  <2>1. \A i \in 1..Len(d) : d[i].t # "history"
    BY <1>5 DEF BehindJoin
  <2> QED
    BY <1>3, <1>5, <2>1 DEF LatestPageOf
<1>6. CASE k.rec = "Ready" /\ ~k.meeting
  <2>1. r = 1 /\ d # <<>> /\ Joined(d[1])
    BY <1>2, <1>6 DEF Frame
  <2>2. 1 \in 1..Len(d)
    BY <1>1, <2>1, TailIs DEF Later
  <2>3. \A j \in 1..Len(d) : 1 < j => ~ToMember(d[j])
    BY <2>1, <2>2 DEF BehindJoin
  <2>4. ASSUME NEW i \in 1..Len(d2), d2[i].t = "history" PROVE FALSE
    <3>1. i + 1 \in 1..Len(d) /\ d2[i] = d[i + 1] /\ 1 < i + 1
      BY <1>1, <1>3, <2>1, <2>4
    <3> QED
      BY <2>3, <2>4, <3>1 DEF ToMember
  <2>5. ~fr
    BY <1>6 DEF Cleared
  <2> QED
    BY <2>4, <2>5 DEF LatestPageOf
<1> QED
  BY <1>2, <1>4, <1>5, <1>6 DEF Stays

(* A step of the connection leaves the chat in order.                      *)
LEMMA FrameKeeps ==
  ASSUME NEW k, NEW n, NEW d, NEW q, NEW ss, NEW k2, NEW n2, NEW d2, NEW q2, NEW ss2, NEW s, NEW r,
         NEW w, NEW w2, NEW t, NEW sn, NEW sl, NEW fr, NEW fr2, NEW un,
         Chat(k, n, d, q, ss, w, t, sn, sl, fr, un),
         Frame(k, n, d, q, ss, k2, n2, d2, q2, ss2, s, r), Follow(k, k2, w, w2, fr, fr2)
  PROVE  Chat(k2, n2, d2, q2, ss2, w2, t, sn, sl, fr2, un)
<1>1. /\ TableOK(t, sn) /\ Requested(n, t, sn) /\ RowsOK(w, n, t, sn, sl)
      /\ Replies(d, n, t, sn, sl) /\ Unanswered(k, n, d, q, ss, w, un)
      /\ Unnamed(n, t, sn, un) /\ Cleared(k, w, fr)
      /\ OwnShown(k, n, d, w) /\ BehindJoin(k, n, d) /\ FirstNamed(d, w)
      /\ PageFollows(k, d, q, ss, w, t, sl, fr)
  BY DEF Chat
<1>2. Later(n2, n, s) /\ Later(d2, d, r)
  BY DEF Frame
<1>3. Requested(n2, t, sn) /\ \A cid : Asked(n2, cid) => Asked(n, cid)
  BY <1>1, <1>2, RequestsKept
<1>4. /\ ~k2.meeting => w2 = <<>>
      /\ k2.meeting => Same(w2, w)
      /\ k2.meeting /\ k.rec = "Ready" /\ Recovering(k2) =>
               \A i \in 1..Len(w2) : w2[i].state # "sending"
  BY <1>1, FollowIs
<1>7. /\ RowsOK(w2, n2, t, sn, sl)
      /\ \A cid : HasRow(w2, cid) => HasRow(w, cid)
      /\ k2.meeting => \A cid : HasRow(w, cid) => HasRow(w2, cid)
      /\ k2.meeting => \A mid : Shows(w, mid) => Shows(w2, mid)
  <2>1. CASE k2.meeting
    <3>1. /\ RowsOK(w2, n2, t, sn, sl)
          /\ \A cid : HasRow(w2, cid) <=> HasRow(w, cid)
          /\ \A mid : Shows(w2, mid) <=> Shows(w, mid)
      BY <1>1, <1>3, <1>4, <2>1, SameRows
    <3> QED
      BY <2>1, <3>1
  <2>2. CASE ~k2.meeting
    BY <1>4, <2>2, NoRows
  <2> QED
    BY <2>1, <2>2
<1>8. Replies(d2, n2, t, sn, sl)
  BY <1>1, <1>2, <1>3, RepliesKept
<1>9. Unanswered(k2, n2, d2, q2, ss2, w2, un)
  <2>1. w # <<>> => k.meeting
    BY <1>1 DEF Cleared
  <2> QED
    BY <1>1, <1>4, <2>1, UnansweredKept
<1>10. Cleared(k2, w2, fr2)
  BY <1>4 DEF Cleared, Follow
<1>11. OwnShown(k2, n2, d2, w2)
  BY <1>1, <1>7, OwnKept
<1>12. BehindJoin(k2, n2, d2)
  BY <1>1, BehindJoinKept
<1>13. FirstNamed(d2, w2)
  BY <1>1, <1>2, <1>7, FirstNamedKept
<1>14. PageFollows(k2, d2, q2, ss2, w2, t, sl, fr2)
  <2>1. fr2 => fr /\ k.rec = "Ready"
    BY <1>1 DEF Follow, Cleared
  <2> QED
    BY <1>1, <1>7, <2>1, PageKept
<1>15. Unnamed(n2, t, sn, un)
  BY <1>1, <1>3 DEF Unnamed
<1> QED
  BY <1>1, <1>3, <1>7, <1>8, <1>9, <1>10, <1>11, <1>12, <1>13, <1>14, <1>15 DEF Chat

-----------------------------------------------------------------------------
(* The steps of the connection, as the chat sees them                      *)

LEMMA SameLater == ASSUME NEW n, IsSeq(n) PROVE Later(n, n, 0) /\ Kept(n, n, 0)
<1>1. Len(n) \in Nat
  BY LenIs
<1>2. \A i \in 1..Len(n) : i + 0 = i /\ i - 0 = i
  BY <1>1
<1> QED
  BY <1>2 DEF Later, Kept

LEMMA PrefixLater == ASSUME NEW n, NEW n0, IsSeq(n0), Prefix(n, n0) PROVE Later(n, n0, 0)
<1>1. \A i \in 1..Len(n) : i + 0 = i
  BY DEF Prefix
<1> QED
  BY <1>1 DEF Later, Prefix

LEMMA AppendLater ==
  ASSUME NEW n, IsSeq(n), NEW a, a.t \notin Chats
  PROVE  Later(Append(n, a), n, 0) /\ Kept(Append(n, a), n, 0)
<1>1. PICK p : p = Append(n, a)
  OBVIOUS
<1>2. /\ IsSeq(p) /\ Len(n) \in Nat /\ Len(p) = Len(n) + 1 /\ p[Len(n) + 1] = a
      /\ \A i \in 1..Len(n) : p[i] = n[i]
  BY <1>1, AppendIs
<1>3. \A i \in 1..Len(n) : i + 0 = i /\ i - 0 = i /\ i \in 1..Len(p)
  BY <1>2
<1>4. \A i \in 1..Len(p) : (i \in 1..Len(n) /\ i + 0 = i) \/ i = Len(p)
  BY <1>2
<1>5. Later(p, n, 0)
  BY <1>2, <1>4 DEF Later
<1>6. Kept(p, n, 0)
  BY <1>2, <1>3 DEF Kept
<1> QED
  BY <1>1, <1>5, <1>6

LEMMA TailLater ==
  ASSUME NEW n, IsSeq(n), n # <<>>
  PROVE  Later(Tail(n), n, 1) /\ Kept(Tail(n), n, 1)
<1>1. PICK p : p = Tail(n)
  OBVIOUS
<1>2. /\ IsSeq(p) /\ Len(n) \in Nat /\ Len(n) >= 1 /\ Len(p) = Len(n) - 1
      /\ \A i \in 1..Len(p) : p[i] = n[i + 1] /\ i + 1 \in 1..Len(n)
  BY <1>1, TailIs
<1>3. \A i \in 1..Len(n) : i > 1 => i - 1 \in 1..Len(p) /\ (i - 1) + 1 = i
  BY <1>2
<1>4. \A i \in 1..Len(n) : i > 1 => p[i - 1] = n[i]
  BY <1>2, <1>3
<1> QED
  BY <1>1, <1>2, <1>3, <1>4 DEF Later, Kept

(* A connection that is given up.                                          *)
LEMMA AbortedFrame ==
  ASSUME RecoveryInv, NEW k, Aborted(k), Outage(cl, k), ~cl.meeting => ~k.meeting
  PROVE  Frame(cl, net, down, silent, sess, cl', net', down', silent', sess', 0, 0)
<1>1. IsSeq(net) /\ IsSeq(down)
  BY DEF RecoveryInv, State, Channel, Ordered, Outstanding
<1>2. PICK m \in 0..Len(net) : net' = SubSeq(net, 1, m)
  BY DEF Aborted
<1>3. Prefix(net', net)
  BY <1>1, <1>2, CutIsPrefix DEF Cuts
<1>4. Later(net', net, 0)
  BY <1>1, <1>3, PrefixLater
<1>5. cl' = k /\ down' = <<>> /\ Len(<<>>) = 0 /\ IsSeq(<<>>)
  BY EmptyIs DEF Aborted
<1>6. Later(down', down, 0)
  BY <1>1, <1>5 DEF Later
<1>7. ClientOK(k) /\ k.sock # "up" /\ k.c = cl.c
  BY DEF Outage
<1>8. k.rec # "Ready" /\ (Recovering(k) \/ ~k.meeting)
  BY <1>7 DEF ClientOK, Recovering
<1> QED
  BY <1>4, <1>5, <1>6, <1>7, <1>8 DEF Frame, Stays

LEMMA OutageOfMeeting ==
  ASSUME NEW k0, ClientOK(k0), ~k0.meeting, NEW k,
         k = Disconnected(k0) \/ k = Retry(k0) \/ k = Fail(k0, FALSE)
  PROVE  ~k.meeting
<1>1. DOMAIN k0 = ClientFields /\ ~k0.leave
  BY DEF ClientOK
<1>2. CASE k = Fail(k0, FALSE)
  BY <1>1, <1>2 DEF Fail, AbandonCurrentMeeting, ClientFields
<1>3. CASE k = Retry(k0)
  BY <1>1, <1>3 DEF Retry, ClientFields
<1>4. CASE k = Disconnected(k0)
  <2>1. PICK cut : cut = [k0 EXCEPT !.sock = "none"]
    OBVIOUS
  <2>2. DOMAIN cut = ClientFields /\ ~cut.meeting /\ ~cut.leave /\ cut.req = k0.req
    BY <1>1, <2>1 DEF ClientFields
  <2>3. PICK w : w = [cut EXCEPT !.rec = "Waiting", !.req = @ + 1]
    OBVIOUS
  <2>4. DOMAIN w = ClientFields /\ ~w.meeting /\ ~w.leave
    BY <2>2, <2>3 DEF ClientFields
  <2>5. PICK v : v = ConnectionInterrupted(w)
    OBVIOUS
  <2>6. DOMAIN v = ClientFields /\ ~v.meeting
    BY <2>4, <2>5 DEF ConnectionInterrupted, ClientFields
  <2>7. k = cut \/ k = Retry(v) \/ k = Retry(cut)
    <3>1. PICK z : z = [[k0 EXCEPT !.sock = "none"] EXCEPT !.rec = "Waiting", !.req = @ + 1]
      OBVIOUS
    <3>2. z = w
      BY <2>1, <2>3, <3>1
    <3>3. k = cut \/ k = Retry(ConnectionInterrupted(z)) \/ k = Retry(cut)
      BY <1>4, <2>1, <3>1 DEF Disconnected
    <3> QED
      BY <2>5, <3>2, <3>3
  <2>8. ASSUME NEW x, DOMAIN x = ClientFields, ~x.meeting PROVE ~Retry(x).meeting
    BY <2>8 DEF Retry, ClientFields
  <2> QED
    BY <2>2, <2>6, <2>7, <2>8
<1> QED
  BY <1>2, <1>3, <1>4

LEMMA EndsFrame ==
  ASSUME RecoveryInv,
         SocketEnds \/ ConnectFails \/ HeartbeatTick \/ StageTimeout \/ BudgetTimeout
  PROVE  Frame(cl, net, down, silent, sess, cl', net', down', silent', sess', 0, 0)
<1>1. ClientOK(cl)
  BY DEF RecoveryInv, State, Channel
<1>2. CASE SocketEnds \/ ConnectFails \/ HeartbeatTick
  <2>1. PICK k : k = Disconnected(cl)
    OBVIOUS
  <2>2. Aborted(k) /\ Outage(cl, k)
    BY <1>1, <1>2, <2>1, DisconnectedGoes DEF SocketEnds, ConnectFails, HeartbeatTick
  <2>3. ~cl.meeting => ~k.meeting
    BY <1>1, <2>1, OutageOfMeeting
  <2> QED
    BY <2>2, <2>3, AbortedFrame
<1>3. CASE StageTimeout
  <2>1. PICK k : k = Retry(cl)
    OBVIOUS
  <2>2. Recovering(cl) /\ Retried(cl, k)
    BY <1>3, <2>1 DEF StageTimeout, Recovering, Retry, Retried
  <2>3. /\ ClientOK(k) /\ k.sock = "none" /\ k.rec = "Waiting" /\ k.c = cl.c
        /\ k.ticket = cl.ticket /\ k.gen = cl.gen /\ k.req = cl.req
    BY <1>1, <2>2, RetryIs
  <2>4. Outage(cl, k)
    BY <2>2, <2>3 DEF Outage, Recovering
  <2>5. ~cl.meeting => ~k.meeting
    BY <1>1, <2>1, OutageOfMeeting
  <2>6. Aborted(k)
    BY <1>3, <2>1 DEF StageTimeout
  <2> QED
    BY <2>4, <2>5, <2>6, AbortedFrame
<1>4. CASE BudgetTimeout
  <2>1. PICK k : GivesUp(cl, k)
    BY DEF GivesUp
  <2>2. Aborted(k)
    BY <1>4, <2>1 DEF BudgetTimeout, GivesUp
  <2>3. ClientOK(k) /\ k.sock = "none" /\ k.c = cl.c /\ k.ticket = 0
    BY <1>1, <2>1, FailIs
  <2>4. Outage(cl, k)
    BY <2>3 DEF Outage
  <2>5. ~cl.meeting => ~k.meeting
    BY <1>1, <2>1, OutageOfMeeting DEF GivesUp
  <2> QED
    BY <2>2, <2>4, <2>5, AbortedFrame
<1> QED
  BY <1>2, <1>3, <1>4

LEMMA SilentFrame ==
  ASSUME RecoveryInv, GoesSilent
  PROVE  Frame(cl, net, down, silent, sess, cl', net', down', silent', sess', 0, 0)
<1>1. IsSeq(net) /\ IsSeq(down) /\ ClientOK(cl)
  BY DEF RecoveryInv, State, Channel, Ordered, Outstanding
<1>2. net' \in Cuts(net) /\ down' \in Cuts(down) /\ cl.sock = "up" /\ silent' = TRUE /\ cl' = cl
  BY DEF GoesSilent
<1>3. Prefix(net', net) /\ Prefix(down', down)
  BY <1>1, <1>2, CutIsPrefix
<1>4. Later(net', net, 0) /\ Later(down', down, 0)
  BY <1>1, <1>3, PrefixLater
<1>5. \A i \in 1..Len(down') : i + 0 \in 1..Len(down) /\ down'[i] = down[i + 0]
  BY <1>3 DEF Prefix
<1> QED
  BY <1>2, <1>4, <1>5 DEF Frame

LEMMA ConnectNowFrame ==
  ASSUME RecoveryInv, ConnectNow
  PROVE  Frame(cl, net, down, silent, sess, cl', net', down', silent', sess', 0, 0)
<1>1. IsSeq(net) /\ IsSeq(down) /\ ClientOK(cl) /\ DOMAIN cl = ClientFields
  BY DEF RecoveryInv, State, Channel, Ordered, Outstanding, ClientOK
<1>2. PICK k : k = cl'
  OBVIOUS
<1>3. k = [cl EXCEPT !.rec = "Connecting", !.sock = "connecting"] /\ cl.rec = "Waiting"
  BY <1>2 DEF ConnectNow
<1>4. k.rec = "Connecting" /\ k.sock = "connecting" /\ k.c = cl.c /\ k.meeting = cl.meeting
  BY <1>1, <1>3 DEF ClientFields
<1>5. UNCHANGED <<net, down>>
  BY DEF ConnectNow
<1>6. Later(net, net, 0) /\ Later(down, down, 0)
  BY <1>1, SameLater
<1>7. \A i \in 1..Len(down) : i + 0 = i
  BY <1>1, LenIs
<1> QED
  BY <1>2, <1>3, <1>4, <1>5, <1>6, <1>7 DEF Frame, Stays, Recovering

LEMMA ConnectedFrame ==
  ASSUME RecoveryInv, Connected
  PROVE  Frame(cl, net, down, silent, sess, cl', net', down', silent', sess', 0, 0)
<1>1. IsSeq(net) /\ ClientOK(cl) /\ DOMAIN cl = ClientFields /\ Outstanding(net, down, cl)
      /\ Ordered(net, cl) /\ cl.c \in Conns
  BY DEF RecoveryInv, State, Channel, Ordered, ClientOK
<1>2. PICK k : k = [cl EXCEPT !.rec = "Authenticating", !.sock = "up", !.c = @ + 1]
  OBVIOUS
<1>3. PICK m : m = Req("login", k)
  OBVIOUS
<1>4. m.t = "login" /\ m.c = k.c
  BY <1>3 DEF Req
<1>5. /\ cl' = k /\ net' = Append(net, m) /\ UNCHANGED <<down, silent>>
      /\ cl.rec = "Connecting" /\ cl.sock = "connecting"
  BY <1>2, <1>3 DEF Connected
<1>6. k.rec = "Authenticating" /\ k.c = cl.c + 1 /\ k.meeting = cl.meeting
  BY <1>1, <1>2 DEF ClientFields
<1>7. down = <<>> /\ Len(<<>>) = 0 /\ IsSeq(<<>>)
  BY <1>1, <1>5, EmptyIs DEF Outstanding
<1>8. Later(net', net, 0) /\ Later(down, down, 0)
  BY <1>1, <1>4, <1>5, <1>7, AppendLater, SameLater DEF Chats
<1>9. ASSUME NEW i \in 1..Len(net'), net'[i].c = k.c PROVE net'[i] = m
  <2>1. PICK n : n = net'
    OBVIOUS
  <2>2. i \in 1..Len(net) => n[i] = net[i]
    BY <1>1, <1>5, <2>1, AppendIs
  <2>3. i \in 1..Len(net) \/ n[i] = m
    BY <1>1, <1>5, <1>9, <2>1, AppendIs
  <2>4. i \in 1..Len(net) => net[i].c \in 1..cl.c
    BY <1>1 DEF Ordered
  <2>5. cl.c \in Nat
    BY <1>1, RecoveryBounds DEF Conns
  <2> QED
    BY <1>6, <1>9, <2>1, <2>2, <2>3, <2>4, <2>5
<1>10. \A i \in 1..Len(net') : net'[i].c = k.c => net'[i].t \notin {"join", "history"}
  BY <1>4, <1>9
<1> QED
  BY <1>5, <1>6, <1>7, <1>8, <1>10 DEF Frame, Stays

(* What the user asks for.                                                 *)
LEMMA UserFrame ==
  ASSUME RecoveryInv, NEW k, NEW m, cl' = k, net' = net \/ net' = Append(net, m),
         m.t \notin Chats, UNCHANGED <<down, silent, sess>>,
         k.rec = cl.rec, k.sock = cl.sock, k.c = cl.c, k.meeting => cl.meeting
  PROVE  Frame(cl, net, down, silent, sess, cl', net', down', silent', sess', 0, 0)
<1>1. IsSeq(net) /\ IsSeq(down)
  BY DEF RecoveryInv, State, Channel, Ordered, Outstanding
<1>2. Later(net', net, 0) /\ Kept(net', net, 0)
  BY <1>1, AppendLater, SameLater
<1>3. Later(down, down, 0) /\ Kept(down, down, 0)
  BY <1>1, SameLater
<1>4. \A i \in 1..Len(down) : i + 0 = i
  BY <1>1, LenIs
<1> QED
  BY <1>2, <1>3, <1>4 DEF Frame, Stays

LEMMA LeaveFrame ==
  ASSUME RecoveryInv, RequestLeave
  PROVE  Frame(cl, net, down, silent, sess, cl', net', down', silent', sess', 0, 0)
<1>1. ClientOK(cl) /\ DOMAIN cl = ClientFields
  BY DEF RecoveryInv, State, Channel, ClientOK
<1>2. cl.meeting /\ sess' = sess
  BY DEF RequestLeave, ServerVars
<1>3. CASE Recovering(cl)
  <2>1. PICK b : b = AbandonCurrentMeeting(cl)
    OBVIOUS
  <2>2. /\ DOMAIN b = ClientFields /\ ~b.meeting /\ b.ticket = 0 /\ b.gen = 0 /\ ~b.leave /\ ~b.join
        /\ b.c = cl.c /\ b.req = cl.req /\ b.invalid = cl.invalid /\ b.rec = cl.rec
        /\ b.sock = cl.sock
    BY <1>1, <2>1 DEF AbandonCurrentMeeting, ClientFields
  <2>3. PICK a : a = [b EXCEPT !.left = TRUE]
    OBVIOUS
  <2>4. /\ DOMAIN a = ClientFields /\ ~a.meeting /\ a.ticket = 0 /\ a.gen = 0 /\ ~a.leave /\ ~a.join
        /\ a.c = cl.c /\ a.req = cl.req /\ a.invalid = cl.invalid /\ a.rec = cl.rec
        /\ a.sock = cl.sock
    BY <2>2, <2>3 DEF ClientFields
  <2>5. PICK k : k = CancelMeeting(a)
    OBVIOUS
  <2>6. IF k.sock # cl.sock THEN Aborted(k) ELSE cl' = k /\ UNCHANGED <<net, down, silent>>
    BY <1>3, <2>1, <2>3, <2>5 DEF RequestLeave
  <2>7. CASE cl.rec = "Resuming"
    <3>1. k = [a EXCEPT !.rec = "Waiting", !.sock = "none"]
      BY <2>4, <2>5, <2>7 DEF CancelMeeting, Retry, Recovering
    <3>2. /\ DOMAIN k = ClientFields /\ ~k.meeting /\ k.ticket = 0 /\ k.gen = 0 /\ ~k.leave
          /\ ~k.join /\ k.c = cl.c /\ k.req = cl.req /\ k.invalid = cl.invalid
          /\ k.rec = "Waiting" /\ k.sock = "none"
      BY <2>4, <3>1 DEF ClientFields
    <3>3. Outage(cl, k)
      BY <1>1, <3>2 DEF Outage, ClientOK
    <3>4. Aborted(k)
      BY <1>1, <2>6, <2>7, <3>2 DEF ClientOK
    <3> QED
      BY <1>2, <3>3, <3>4, AbortedFrame
  <2>8. CASE cl.rec # "Resuming"
    <3>1. k = a
      BY <2>4, <2>5, <2>8 DEF CancelMeeting
    <3>2. cl' = k /\ UNCHANGED <<net, down, silent>>
      BY <2>4, <2>6, <3>1
    <3>3. PICK m : m = Req("leave", cl)
      OBVIOUS
    <3>4. m.t \notin Chats
      BY <3>3 DEF Req, Chats
    <3>5. cl' = k /\ net' = net /\ UNCHANGED <<down, silent, sess>>
      BY <1>2, <3>2
    <3>6. k.rec = cl.rec /\ k.sock = cl.sock /\ k.c = cl.c /\ (k.meeting => cl.meeting)
      BY <2>4, <3>1
    <3> QED
      BY <3>4, <3>5, <3>6, UserFrame
  <2> QED
    BY <2>7, <2>8
<1>4. CASE ~Recovering(cl)
  <2>1. PICK m : m = Req("leave", cl)
    OBVIOUS
  <2>2. m.t \notin Chats
    BY <2>1 DEF Req, Chats
  <2>3. PICK k : k = [cl EXCEPT !.leave = TRUE, !.left = TRUE]
    OBVIOUS
  <2>4. cl' = k /\ SendData(cl, m) /\ UNCHANGED <<down, silent, sess>>
    BY <1>2, <1>4, <2>1, <2>3 DEF RequestLeave
  <2>5. k.rec = cl.rec /\ k.sock = cl.sock /\ k.c = cl.c /\ (k.meeting => cl.meeting)
    BY <1>1, <2>3 DEF ClientFields
  <2>6. net' = net \/ net' = Append(net, m)
    BY <2>4 DEF SendData
  <2> QED
    BY <2>2, <2>4, <2>5, <2>6, UserFrame
<1> QED
  BY <1>3, <1>4

LEMMA JoinFrame ==
  ASSUME RecoveryInv, RequestJoin
  PROVE  Frame(cl, net, down, silent, sess, cl', net', down', silent', sess', 0, 0)
<1>1. DOMAIN cl = ClientFields
  BY DEF RecoveryInv, State, Channel, ClientOK
<1>2. PICK m : m = Req("join", cl)
  OBVIOUS
<1>3. m.t \notin Chats
  BY <1>2 DEF Req, Chats
<1>4. PICK k : k = [cl EXCEPT !.join = TRUE, !.left = FALSE]
  OBVIOUS
<1>5. cl' = k /\ SendData(cl, m) /\ UNCHANGED <<down, silent, sess>>
  BY <1>2, <1>4 DEF RequestJoin, ServerVars
<1>6. k.rec = cl.rec /\ k.sock = cl.sock /\ k.c = cl.c /\ (k.meeting => cl.meeting)
  BY <1>1, <1>4 DEF ClientFields
<1>7. net' = net \/ net' = Append(net, m)
  BY <1>5 DEF SendData
<1> QED
  BY <1>3, <1>5, <1>6, <1>7, UserFrame

(* A handler that takes the first request.                                 *)
LEMMA HandlerFrame ==
  ASSUME RecoveryInv, net # <<>>, net' = Tail(net), UNCHANGED <<cl, silent>>, NEW m, m = Head(net),
         m.t \notin Chats, NEW a, a.t \notin Chats, Joined(a) => m.t = "join",
         Sends(cl, silent, sess, m.c, down, a, down'), sess'[cl.c].open => sess[cl.c].open
  PROVE  Frame(cl, net, down, silent, sess, cl', net', down', silent', sess', 1, 0)
<1>1. IsSeq(net) /\ IsSeq(down)
  BY DEF RecoveryInv, State, Channel, Ordered, Outstanding
<1>2. m = net[1] /\ Later(net', net, 1) /\ Kept(net', net, 1)
  BY <1>1, TailIs, TailLater
<1>3. Len(down) \in Nat /\ \A i \in 1..Len(down) : i + 0 = i
  BY <1>1, LenIs
<1>4. CASE Reaches(cl, silent, sess, m.c)
  <2>1. PICK d : d = down'
    OBVIOUS
  <2>2. d = Append(down, a) /\ m.c = cl.c
    BY <1>4, <2>1 DEF Sends, Reaches
  <2>3. Later(d, down, 0) /\ Kept(d, down, 0)
    BY <1>1, <2>2, AppendLater
  <2>4. \A i \in 1..Len(d) : (i \in 1..Len(down) /\ d[i] = down[i]) \/ (i = Len(d) /\ d[i] = a)
    BY <1>1, <2>2, AppendIs
  <2>5. \A i \in 1..Len(d) : Joined(d[i]) =>
          \/ i + 0 \in 1..Len(down) /\ d[i] = down[i + 0]
          \/ net[1].t = "join" /\ net[1].c = cl.c /\ i = Len(d)
    BY <1>2, <1>3, <2>2, <2>4
  <2> QED
    BY <1>2, <2>1, <2>3, <2>5 DEF Frame, Stays
<1>5. CASE ~Reaches(cl, silent, sess, m.c)
  <2>1. down' = down /\ Later(down, down, 0) /\ Kept(down, down, 0)
    BY <1>1, <1>5, SameLater DEF Sends
  <2> QED
    BY <1>2, <1>3, <2>1 DEF Frame, Stays
<1> QED
  BY <1>4, <1>5

(* A step of the server of its own.                                        *)
LEMMA ServerFrame ==
  ASSUME RecoveryInv, UNCHANGED <<cl, net, silent>>, NEW a, a.t \notin Chats, ~Joined(a),
         down' = down \/ down' = Append(down, a),
         ~silent /\ cl.rec = "Ready" /\ sess'[cl.c].open => sess[cl.c].open
  PROVE  Frame(cl, net, down, silent, sess, cl', net', down', silent', sess', 0, 0)
<1>1. IsSeq(net) /\ IsSeq(down)
  BY DEF RecoveryInv, State, Channel, Ordered, Outstanding
<1>2. Later(net, net, 0) /\ Kept(net, net, 0)
  BY <1>1, SameLater
<1>3. Later(down', down, 0) /\ Kept(down', down, 0)
  BY <1>1, AppendLater, SameLater
<1>4. \A i \in 1..Len(down) : i + 0 = i
  BY <1>1, LenIs
<1>5. \A i \in 1..Len(down') : Joined(down'[i]) => i + 0 \in 1..Len(down) /\ down'[i] = down[i + 0]
  <2>1. PICK d : d = down'
    OBVIOUS
  <2>2. \A i \in 1..Len(d) : (i \in 1..Len(down) /\ d[i] = down[i]) \/ d[i] = a
    BY <1>1, <2>1, AppendIs
  <2> QED
    BY <1>4, <2>1, <2>2
<1> QED
  BY <1>2, <1>3, <1>5 DEF Frame, Stays

Framed(s) == Frame(cl, net, down, silent, sess, cl', net', down', silent', sess', s, 0)

LEMMA LoginFrame == ASSUME RecoveryInv, NEW result, LoginHandler(result) PROVE Framed(1)
<1>1. PICK m, a : m = Head(net) /\ a = Ans("login", result)
  OBVIOUS
<1>2. /\ net # <<>> /\ m.t = "login" /\ net' = Tail(net) /\ UNCHANGED <<cl, silent>>
      /\ sess' = [sess EXCEPT ![m.c].user = @ \/ (result = "ok" /\ sess[m.c].open)]
      /\ down' = Deliver(m.c, <<a>>)
  BY <1>1 DEF LoginHandler, Handling
<1>3. a.t = "login" /\ m.t \notin Chats /\ a.t \notin Chats /\ ~Joined(a)
  BY <1>1, <1>2 DEF Ans, Chats, Joined
<1>4. Sends(cl, silent, sess, m.c, down, a, down')
  BY <1>2, DeliverSends
<1>5. ServerOK(srv, sess, cl, joins) /\ cl.c \in Conns
  BY DEF RecoveryInv, State, Channel, Ordered
<1>6. m.c \in Conns
  BY <1>1, <1>2, HeadConn DEF RecoveryInv, State
<1>7. sess'[cl.c].open = sess[cl.c].open
  <2>1. PICK ss, c : ss = sess' /\ c = m.c
    OBVIOUS
  <2>2. ss = [sess EXCEPT ![c].user = @ \/ (result = "ok" /\ sess[c].open)]
    BY <1>2, <2>1
  <2>3. ss[cl.c].open = sess[cl.c].open
    BY <1>5, <1>6, <2>1, <2>2 DEF ServerOK, SessFields
  <2> QED
    BY <2>1, <2>3
<1> QED
  BY <1>1, <1>2, <1>3, <1>4, <1>7, HandlerFrame DEF Framed

LEMMA BoundOpen ==
  ASSUME RecoveryInv, NEW c \in Conns, Binds(sess, sess', srv, c)
  PROVE  sess'[cl.c].open => sess[cl.c].open
<1>1. ServerOK(srv, sess, cl, joins) /\ cl.c \in Conns
  BY DEF RecoveryInv, State, Channel, Ordered
<1>2. \A x \in Conns : DOMAIN sess[x] = SessFields
  BY <1>1 DEF ServerOK
<1>3. PICK ss : ss = sess'
  OBVIOUS
<1>4. Closer(sess, ss)
  BY <1>2, <1>3, BindIs
<1> QED
  BY <1>1, <1>3, <1>4 DEF Closer

LEMMA ResumeFrame == ASSUME RecoveryInv, NEW result, ResumeHandler(result) PROVE Framed(1)
<1>1. PICK m : m = Head(net)
  OBVIOUS
<1>2. net # <<>> /\ m.t = "resume" /\ net' = Tail(net) /\ UNCHANGED <<cl, silent>>
  BY <1>1 DEF ResumeHandler, Handling
<1>3. PICK a : /\ a.t = "resume" /\ down' = Deliver(m.c, <<a>>)
               /\ Binds(sess, sess', srv, m.c) \/ UNCHANGED sess
  <2>1. PICK gen : gen = (IF srv.session = m.c THEN srv.gen ELSE srv.gen + 1)
    OBVIOUS
  <2>2. PICK a : a = IF result # "ok" THEN [Ans("resume", "busy") EXCEPT !.req = m.req]
                     ELSE IF result = "ok" /\ sess[m.c].user /\ MayResume(m)
                       THEN [Ans("resume", "ok") EXCEPT !.req = m.req, !.peer = srv.peer,
                                                        !.ticket = srv.ticket, !.gen = gen]
                     ELSE [Ans("resume", "refused") EXCEPT !.req = m.req]
    OBVIOUS
  <2>3. a.t = "resume"
    BY <2>2 DEF Ans
  <2>4. down' = Deliver(m.c, <<a>>)
    BY <1>1, <2>1, <2>2 DEF ResumeHandler
  <2>5. Binds(sess, sess', srv, m.c) \/ UNCHANGED sess
    BY <1>1 DEF ResumeHandler, Bind, Binds
  <2> QED
    BY <2>3, <2>4, <2>5
<1>4. Sends(cl, silent, sess, m.c, down, a, down')
  BY <1>3, DeliverSends
<1>5. m.c \in Conns
  BY <1>1, <1>2, HeadConn DEF RecoveryInv, State
<1>6. sess'[cl.c].open => sess[cl.c].open
  BY <1>3, <1>5, BoundOpen
<1>7. m.t \notin Chats /\ a.t \notin Chats /\ ~Joined(a)
  BY <1>2, <1>3 DEF Chats, Joined
<1> QED
  BY <1>1, <1>2, <1>4, <1>6, <1>7, HandlerFrame DEF Framed

LEMMA JoinHandlerFrame == ASSUME RecoveryInv, NEW result, JoinHandler(result) PROVE Framed(1)
<1>1. PICK m : m = Head(net)
  OBVIOUS
<1>2. net # <<>> /\ m.t = "join" /\ net' = Tail(net) /\ UNCHANGED <<cl, silent>>
  BY <1>1 DEF JoinHandler, Handling
<1>3. PICK a : /\ a.t = "join" /\ down' = Deliver(m.c, <<a>>)
               /\ Binds(sess, sess', srv, m.c) \/ UNCHANGED sess
  <2>1. PICK a : a = [Ans("join", "ok") EXCEPT !.ticket = joins + 1, !.gen = 1, !.peer = srv.peer]
    OBVIOUS
  <2>2. PICK b : b = Ans("join", "refused")
    OBVIOUS
  <2>3. a.t = "join" /\ b.t = "join"
    BY <2>1, <2>2 DEF Ans
  <2>4. \/ down' = Deliver(m.c, <<a>>) /\ Binds(sess, sess', srv, m.c)
        \/ down' = Deliver(m.c, <<b>>) /\ UNCHANGED sess
    BY <1>1, <2>1, <2>2 DEF JoinHandler, Bind, Binds
  <2> QED
    BY <2>3, <2>4
<1>4. Sends(cl, silent, sess, m.c, down, a, down')
  BY <1>3, DeliverSends
<1>5. m.c \in Conns
  BY <1>1, <1>2, HeadConn DEF RecoveryInv, State
<1>6. sess'[cl.c].open => sess[cl.c].open
  BY <1>3, <1>5, BoundOpen
<1>7. m.t \notin Chats /\ a.t \notin Chats
  BY <1>2, <1>3 DEF Chats
<1> QED
  BY <1>1, <1>2, <1>4, <1>6, <1>7, HandlerFrame DEF Framed

LEMMA LeaveHandlerFrame == ASSUME RecoveryInv, NEW result, LeaveHandler(result) PROVE Framed(1)
<1>1. PICK m : m = Head(net)
  OBVIOUS
<1>2. net # <<>> /\ m.t = "leave" /\ net' = Tail(net) /\ UNCHANGED <<cl, silent>>
  BY <1>1 DEF LeaveHandler, Handling
<1>3. PICK a : a = Ans("leave", IF (result = "ok" /\ sess[m.c].meeting)
                                   \/ (result = "ok" /\ sess[m.c].user /\ srv.ended)
                                THEN "ok" ELSE "busy")
  OBVIOUS
<1>4. down' = Deliver(m.c, <<a>>)
  BY <1>1, <1>3 DEF LeaveHandler
<1>5. Sends(cl, silent, sess, m.c, down, a, down')
  BY <1>4, DeliverSends
<1>6. m.t \notin Chats /\ a.t \notin Chats /\ ~Joined(a)
  BY <1>2, <1>3 DEF Ans, Chats, Joined
<1>7. ServerOK(srv, sess, cl, joins) /\ cl.c \in Conns
  BY DEF RecoveryInv, State, Channel, Ordered
<1>8. sess' = sess \/ sess' = [sess EXCEPT ![m.c].meeting = FALSE]
  BY <1>1 DEF LeaveHandler
<1>9. sess'[cl.c].open = sess[cl.c].open
  <2>1. PICK ss, c : ss = sess' /\ c = m.c
    OBVIOUS
  <2>2. ss = sess \/ ss = [sess EXCEPT ![c].meeting = FALSE]
    BY <1>8, <2>1
  <2>3. ss[cl.c].open = sess[cl.c].open
    BY <1>7, <2>2 DEF ServerOK, SessFields
  <2> QED
    BY <2>1, <2>3
<1> QED
  BY <1>1, <1>2, <1>5, <1>6, <1>9, HandlerFrame DEF Framed

LEMMA ServerStepFrame ==
  ASSUME RecoveryInv,
         (\E c \in Conns : SessionDisconnected(c)) \/ GracePasses \/ PeerStep \/ EndMeeting
  PROVE  Framed(0)
<1>1. ServerOK(srv, sess, cl, joins) /\ cl.c \in Conns /\ ClientOK(cl)
  BY DEF RecoveryInv, State, Channel, Ordered
<1>2. CASE \E c \in Conns : SessionDisconnected(c)
  <2>1. PICK c \in Conns : SessionDisconnected(c)
    BY <1>2
  <2>2. UNCHANGED <<cl, net, down, silent>>
    BY <2>1 DEF SessionDisconnected
  <2>3. PICK ss : ss = sess'
    OBVIOUS
  <2>4. /\ ss = [sess EXCEPT ![c] = [open |-> FALSE, user |-> FALSE, meeting |-> FALSE]]
        /\ c # cl.c \/ cl.sock # "up" \/ silent
    BY <2>1, <2>3 DEF SessionDisconnected
  <2>5. ~silent /\ cl.rec = "Ready" => c # cl.c
    BY <1>1, <2>4 DEF ClientOK
  <2>6. ~silent /\ cl.rec = "Ready" /\ ss[cl.c].open => sess[cl.c].open
    BY <1>1, <2>4, <2>5 DEF ServerOK
  <2>7. PICK a : a = Ans("ended", "ok")
    OBVIOUS
  <2>8. a.t \notin Chats /\ ~Joined(a)
    BY <2>7 DEF Ans, Chats, Joined
  <2> QED
    BY <2>2, <2>3, <2>6, <2>8, ServerFrame DEF Framed
<1>3. CASE GracePasses
  <2>1. UNCHANGED <<cl, net, down, silent, sess>>
    BY <1>3 DEF GracePasses
  <2>2. PICK a : a = Ans("ended", "ok")
    OBVIOUS
  <2>3. a.t \notin Chats /\ ~Joined(a)
    BY <2>2 DEF Ans, Chats, Joined
  <2> QED
    BY <2>1, <2>3, ServerFrame DEF Framed
<1>4. CASE PeerStep
  <2>1. UNCHANGED <<cl, net, silent, sess>>
    BY <1>4 DEF PeerStep
  <2>2. PICK t \in {"joined", "left", "reconnecting", "reconnected"} : down' = Notify(t)
    BY <1>4 DEF PeerStep
  <2>3. PICK a : a = Ans(t, "ok")
    OBVIOUS
  <2>4. a.t = t /\ (down' = down \/ down' = Append(down, a))
    BY <2>2, <2>3, NotifyIs
  <2>5. a.t \notin Chats /\ ~Joined(a)
    BY <2>4 DEF Chats, Joined
  <2> QED
    BY <2>1, <2>4, <2>5, ServerFrame DEF Framed
<1>5. CASE EndMeeting
  <2>1. UNCHANGED <<cl, net, silent>> /\ down' = Notify("ended")
        /\ sess' = [c \in Conns |-> [sess[c] EXCEPT !.meeting = FALSE]]
    BY <1>5 DEF EndMeeting
  <2>2. PICK a : a = Ans("ended", "ok")
    OBVIOUS
  <2>3. a.t = "ended" /\ (down' = down \/ down' = Append(down, a))
    BY <2>1, <2>2, NotifyIs
  <2>4. a.t \notin Chats /\ ~Joined(a)
    BY <2>3 DEF Chats, Joined
  <2>5. PICK ss : ss = sess'
    OBVIOUS
  <2>6. ss[cl.c].open = sess[cl.c].open
    BY <1>1, <2>1, <2>5 DEF ServerOK, SessFields
  <2> QED
    BY <2>1, <2>3, <2>4, <2>5, <2>6, ServerFrame DEF Framed
<1> QED
  BY <1>2, <1>3, <1>4, <1>5

(* Every step of the connection, but reading an answer.                    *)
LEMMA RecoveryFrame == ASSUME RecoveryInv, RecoveryNext PROVE \E s : Framed(s)
<1>1. CASE SocketEnds \/ ConnectFails \/ HeartbeatTick \/ BudgetTimeout
  BY <1>1, EndsFrame DEF Framed
<1>2. CASE GoesSilent
  BY <1>2, SilentFrame DEF Framed
<1>3. CASE Connected
  BY <1>3, ConnectedFrame DEF Framed
<1>4. CASE ClientTimers
  BY <1>4, ConnectNowFrame, EndsFrame DEF ClientTimers, Framed
<1>5. CASE RequestLeave
  BY <1>5, LeaveFrame DEF Framed
<1>6. CASE RequestJoin
  BY <1>6, JoinFrame DEF Framed
<1>7. CASE \E result \in {"ok", "busy", "token"} : LoginHandler(result)
  BY <1>7, LoginFrame
<1>8. CASE \E result \in {"ok", "busy"} :
             ResumeHandler(result) \/ JoinHandler(result) \/ LeaveHandler(result)
  BY <1>8, ResumeFrame, JoinHandlerFrame, LeaveHandlerFrame
<1>9. CASE (\E c \in Conns : SessionDisconnected(c)) \/ GracePasses \/ PeerStep \/ EndMeeting
  BY <1>9, ServerStepFrame
<1> QED
  BY <1>1, <1>2, <1>3, <1>4, <1>5, <1>6, <1>7, <1>8, <1>9 DEF RecoveryNext

LEMMA RecoveryChat ==
  ASSUME RecoveryInv, ChatInv, RecoveryNext, RowsFollow, UNCHANGED <<table, sent, silently, unnamed>>
  PROVE  ChatInv'
<1>1. PICK s : Framed(s)
  BY RecoveryFrame
<1>2. Follow(cl, cl', rows, rows', fresh, fresh')
  BY DEF RowsFollow, Follow
<1>3. Chat(cl', net', down', silent', sess', rows', table, sent, silently, fresh', unnamed)
  BY <1>1, <1>2, FrameKeeps DEF Framed, ChatInv
<1> QED
  BY <1>3 DEF ChatInv

-----------------------------------------------------------------------------
(* The client reads what is not about the chat                             *)

LEMMA ReceiveIs ==
  ASSUME NEW k0, ClientOK(k0), k0.sock = "up", NEW m, NEW k, k = Receive(k0, m), m.t \in AnswerTypes
  PROVE  /\ k.meeting /\ ~k0.meeting => k0.rec = "Ready" /\ k.rec = "Ready" /\ Joined(m)
         /\ m.t \in Chats => k = k0
         /\ k0.rec = "Ready" => k.rec = "Ready"
<1>1. DOMAIN k0 = ClientFields
  BY DEF ClientOK
<1>2. CASE m.t = "login"
  <2>1. k = ApplyLogin(k0, m)
    BY <1>2 DEF Receive
  <2>2. k0.rec = "Ready" => k = k0
    BY <2>1 DEF ApplyLogin
  <2>3. ~k0.meeting => ~k.meeting
    <3>1. ASSUME ~k0.meeting PROVE ~Fail(k0, FALSE).meeting
      BY <1>1, <3>1, OutageOfMeeting
    <3>2. ASSUME ~k0.meeting PROVE ~Retry(k0).meeting
      BY <1>1, <3>2, OutageOfMeeting
    <3>3. ASSUME ~k0.meeting PROVE ~Finish(k0).meeting
      BY <1>1, <3>3 DEF Finish, ClientFields
    <3> QED
      BY <2>1, <3>1, <3>2, <3>3 DEF ApplyLogin
  <2> QED
    BY <1>2, <2>2, <2>3 DEF Chats
<1>3. CASE m.t = "resume"
  <2>1. k = ApplyResume(k0, m)
    BY <1>3 DEF Receive
  <2>2. k0.rec # "Resuming" => k = k0
    BY <2>1 DEF ApplyResume
  <2>3. k0.rec = "Resuming" => k0.meeting
    BY DEF ClientOK
  <2> QED
    BY <1>3, <2>2, <2>3 DEF Chats
<1>4. CASE m.t \notin {"login", "resume"} /\ k0.rec # "Ready"
  <2>1. k = k0
    BY <1>4 DEF Receive, Recovering, ClientOK
  <2> QED
    BY <1>4, <2>1
<1>5. CASE m.t \notin {"login", "resume"} /\ k0.rec = "Ready"
  <2>1. k = Dispatch(k0, m)
    BY <1>5 DEF Receive, Recovering
  <2>2. CASE m.t = "join"
    <3>1. k = ApplyJoin(k0, m)
      BY <2>1, <2>2 DEF Dispatch
    <3>2. k.rec = k0.rec /\ (m.result # "ok" => k.meeting = k0.meeting)
      BY <1>1, <3>1 DEF ApplyJoin, ClientFields
    <3> QED
      BY <1>5, <2>2, <3>2 DEF Joined, Chats
  <2>3. CASE m.t = "leave"
    <3>1. k = ApplyLeave(k0, m)
      BY <2>1, <2>3 DEF Dispatch
    <3>2. PICK b : b = AbandonCurrentMeeting(k0)
      OBVIOUS
    <3>3. DOMAIN b = ClientFields /\ ~b.meeting /\ b.rec = k0.rec
      BY <1>1, <3>2 DEF AbandonCurrentMeeting, ClientFields
    <3>4. k = [k0 EXCEPT !.leave = FALSE, !.left = FALSE] \/ k = [b EXCEPT !.left = TRUE]
      BY <3>1, <3>2 DEF ApplyLeave
    <3>5. k.rec = k0.rec /\ (k.meeting => k0.meeting)
      BY <1>1, <3>3, <3>4 DEF ClientFields
    <3> QED
      BY <1>5, <2>3, <3>5 DEF Chats
  <2>4. CASE m.t \in Chats \/ (m.t \notin {"join", "leave"} /\ ~k0.meeting)
    BY <1>5, <2>1, <2>4 DEF Dispatch, Chats
  <2>5. CASE m.t \notin Chats /\ m.t \notin {"join", "leave"} /\ k0.meeting
    <3>1. m.t \in {"joined", "left", "reconnecting", "reconnected", "ended"}
      BY <1>5, <2>5 DEF AnswerTypes, Chats
    <3>2. k.rec = k0.rec
      BY <1>1, <2>1, <2>5, <3>1 DEF Dispatch, ApplyMemberJoined, ApplyMemberLeft,
         ApplyMemberReconnecting, ApplyMemberReconnected, ApplyMeetingEnded, ClientFields
    <3> QED
      BY <1>5, <2>5, <3>2
  <2> QED
    BY <2>2, <2>3, <2>4, <2>5
<1> QED
  BY <1>2, <1>3, <1>4, <1>5

(* A member's request comes behind no join.                                *)
LEMMA BehindJoinAdd ==
  ASSUME NEW k, NEW n, NEW d, NEW m, Channel(k, n, d), k.rec = "Ready", k.meeting,
         BehindJoin(k, n, d)
  PROVE  BehindJoin(k, Append(n, m), d)
<1>1. /\ IsSeq(n) /\ IsSeq(d) /\ k.sock = "up" /\ ~k.join
      /\ \A i \in 1..Len(n) : n[i].c = k.c => Waits(k, n[i].t)
      /\ \A i \in 1..Len(d) : Waits(k, d[i].t)
  BY DEF Channel, Ordered, Outstanding, ClientOK
<1>2. PICK p : p = Append(n, m)
  OBVIOUS
<1>3. /\ Len(n) \in Nat /\ Len(p) = Len(n) + 1
      /\ \A i \in 1..Len(n) : p[i] = n[i]
  BY <1>1, <1>2, AppendIs
<1>4. \A i \in 1..Len(n) : ~(n[i].t = "join" /\ n[i].c = k.c)
  BY <1>1 DEF Waits
<1>5. \A i \in 1..Len(d) : ~Joined(d[i])
  BY <1>1 DEF Waits, Joined
<1>6. \A i, j \in 1..Len(p) : i < j => i \in 1..Len(n)
  BY <1>3
<1>7. \A i, j \in 1..Len(p) : i < j /\ p[i].t = "join" /\ p[i].c = k.c => ~OfMember(p[j])
  BY <1>3, <1>4, <1>6
<1>8. BehindJoin(k, p, d)
  BY <1>5, <1>7 DEF BehindJoin
<1> QED
  BY <1>2, <1>8

(* A history request.                                                      *)
LEMMA AddHistory ==
  ASSUME NEW k, NEW n, NEW d, NEW q, NEW ss, NEW w, NEW t, NEW sn, NEW sl, NEW fr, NEW un,
         NEW m, Channel(k, n, d), k.rec = "Ready", k.meeting, m.t = "history",
         Chat(k, n, d, q, ss, w, t, sn, sl, fr, un)
  PROVE  Chat(k, Append(n, m), d, q, ss, w, t, sn, sl, fr, un)
<1>1. IsSeq(n)
  BY DEF Channel, Ordered
<1>2. PICK p : p = Append(n, m)
  OBVIOUS
<1>3. /\ Len(n) \in Nat /\ Len(p) = Len(n) + 1 /\ p[Len(n) + 1] = m
      /\ \A i \in 1..Len(n) : p[i] = n[i]
  BY <1>1, <1>2, AppendIs
<1>4. \A i \in 1..Len(p) : p[i].t = "chat" => i \in 1..Len(n) /\ p[i] = n[i]
  BY <1>3
<1>5. \A i \in 1..Len(n) : i \in 1..Len(p)
  BY <1>3
<1>6. \A cid : Asked(p, cid) <=> Asked(n, cid)
  BY <1>3, <1>4, <1>5 DEF Asked
<1>7. TableOK(t, sn) /\ Requested(p, t, sn)
  BY <1>4 DEF Chat, Requested
<1>8. RowsOK(w, p, t, sn, sl)
  BY <1>6 DEF Chat, RowsOK, RowOK
<1>9. Replies(d, p, t, sn, sl)
  BY <1>6 DEF Chat, Replies, ReplyOK
<1>10. Unanswered(k, p, d, q, ss, w, un)
  <2> SUFFICES ASSUME NEW i \in 1..Len(w), w[i].state = "sending"
               PROVE  /\ k.rec = "Ready"
                      /\ \/ q \/ ~ss[k.c].open \/ w[i].cid \in un
                         \/ \E j \in 1..Len(p) : p[j].t = "chat" /\ p[j].c = k.c /\ p[j].x[1] = w[i].cid
                         \/ \E j \in 1..Len(d) : d[j].t = "chat" /\ d[j].rows[1].cid = w[i].cid
    BY DEF Unanswered
  <2>1. \/ q \/ ~ss[k.c].open \/ w[i].cid \in un
        \/ \E j \in 1..Len(n) : n[j].t = "chat" /\ n[j].c = k.c /\ n[j].x[1] = w[i].cid
        \/ \E j \in 1..Len(d) : d[j].t = "chat" /\ d[j].rows[1].cid = w[i].cid
    BY DEF Chat, Unanswered
  <2> QED
    BY <1>3, <1>5, <2>1
<1>11. OwnShown(k, p, d, w)
  BY <1>4 DEF Chat, OwnShown
<1>12. BehindJoin(k, p, d)
  BY <1>2, BehindJoinAdd DEF Chat
<1>13. Cleared(k, w, fr) /\ FirstNamed(d, w) /\ PageFollows(k, d, q, ss, w, t, sl, fr)
  BY DEF Chat
<1>15. Unnamed(p, t, sn, un)
  BY <1>6 DEF Chat, Unnamed
<1>14. Chat(k, p, d, q, ss, w, t, sn, sl, fr, un)
  BY <1>7, <1>8, <1>9, <1>10, <1>11, <1>12, <1>13, <1>15 DEF Chat
<1> QED
  BY <1>2, <1>14

OfChat(m) == m.t \in Chats /\ cl.rec = "Ready" /\ cl.meeting

LEMMA ReadFrame ==
  ASSUME RecoveryInv, cl.sock = "up", down # <<>>, NEW m, m = Head(down), NEW k, k = Receive(cl, m),
         k.sock = "up", ~OfChat(m), NEW n, NEW x, x.t \notin Chats, n = net \/ n = Append(net, x)
  PROVE  Frame(cl, net, down, silent, sess, k, n, Tail(down), silent, sess, 0, 1)
<1>1. IsSeq(net) /\ IsSeq(down) /\ ClientOK(cl)
  BY DEF RecoveryInv, State, Channel, Ordered, Outstanding
<1>2. m = down[1] /\ 1 \in 1..Len(down)
  BY <1>1, TailIs
<1>3. Goes(cl, m, k)
  BY ReceiveGoes DEF RecoveryInv
<1>4. Reading(cl, m, k)
  BY <1>3 DEF Goes
<1>5. m.t \in AnswerTypes
  BY <1>2 DEF RecoveryInv, State, Answers, AnswerOK
<1>6. /\ k.meeting /\ ~cl.meeting => cl.rec = "Ready" /\ k.rec = "Ready" /\ Joined(m)
      /\ cl.rec = "Ready" => k.rec = "Ready"
  BY <1>1, <1>5, ReceiveIs
<1>7. Later(n, net, 0) /\ Kept(n, net, 0)
  BY <1>1, AppendLater, SameLater
<1>8. Later(Tail(down), down, 1) /\ Kept(Tail(down), down, 1)
  BY <1>1, TailLater
<1>9. \A i \in 1..Len(Tail(down)) : i + 1 \in 1..Len(down) /\ Tail(down)[i] = down[i + 1]
  BY <1>1, TailIs
<1>10. k.c = cl.c
  BY <1>4 DEF Reading
<1>11. Stays(cl, k) => m.t \notin Chats /\ ~Left(m)
  <2>1. Snapshot(m) => ~Left(m)
    BY DEF Snapshot, Left
  <2> QED
    BY <1>4, <2>1 DEF Stays, OfChat, Reading
<1> QED
  BY <1>2, <1>6, <1>7, <1>8, <1>9, <1>10, <1>11 DEF Frame

LEMMA OtherReceived ==
  ASSUME RecoveryInv, ChatInv, ClientReceive, ~OfChat(Head(down)), RowsFollow,
         UNCHANGED <<table, sent, silently, unnamed>>
  PROVE  ChatInv'
<1>1. PICK m : m = Head(down)
  OBVIOUS
<1>2. PICK k : k = Receive(cl, m)
  OBVIOUS
<1>3. /\ cl.sock = "up" /\ down # <<>> /\ UNCHANGED <<sess, srv, joins>>
      /\ IF k.sock # "up" THEN Aborted(k)
         ELSE /\ cl' = k /\ down' = Tail(down) /\ UNCHANGED silent
              /\ IF k.rec = "Resuming" /\ cl.rec # "Resuming"
                   THEN SendData(k, Req("resume", k))
                 ELSE IF k.rec = "Ready" /\ cl.rec = "Resuming" /\ k.meeting
                   THEN SendData(k, [Req("history", k) EXCEPT !.x = <<"group", 0>>])
                 ELSE UNCHANGED net
  BY <1>1, <1>2 DEF ClientReceive, ServerVars
<1>4. Goes(cl, m, k)
  BY <1>1, <1>2, <1>3, ReceiveGoes DEF RecoveryInv
<1>5. ClientOK(cl) /\ m.t \in AnswerTypes
  <2>1. IsSeq(down) /\ ClientOK(cl)
    BY DEF RecoveryInv, State, Channel, Outstanding
  <2>2. m = down[1] /\ 1 \in 1..Len(down)
    BY <1>1, <1>3, <2>1, TailIs
  <2> QED
    BY <2>1, <2>2 DEF RecoveryInv, State, Answers, AnswerOK
<1>6. Follow(cl, cl', rows, rows', fresh, fresh')
  BY DEF RowsFollow, Follow
<1>7. CASE k.sock # "up"
  <2>1. Aborted(k) /\ Outage(cl, k)
    BY <1>3, <1>4, <1>7 DEF Goes
  <2>2. ~cl.meeting => ~k.meeting
    <3>1. k.meeting /\ ~cl.meeting => k.rec = "Ready"
      BY <1>2, <1>3, <1>5, ReceiveIs
    <3> QED
      BY <2>1, <3>1 DEF Outage, ClientOK
  <2>3. Frame(cl, net, down, silent, sess, cl', net', down', silent', sess', 0, 0)
    BY <2>1, <2>2, AbortedFrame
  <2>4. Chat(cl', net', down', silent', sess', rows', table, sent, silently, fresh', unnamed)
    BY <1>6, <2>3, FrameKeeps DEF ChatInv
  <2> QED
    BY <2>4 DEF ChatInv
<1>8. CASE k.sock = "up"
  <2>1. PICK x : x = Req("resume", k)
    OBVIOUS
  <2>2. PICK h : h = [Req("history", k) EXCEPT !.x = <<"group", 0>>]
    OBVIOUS
  <2>3. x.t \notin Chats /\ h.t = "history"
    BY <2>1, <2>2 DEF Req, Chats
  <2>4. cl' = k /\ down' = Tail(down) /\ UNCHANGED <<silent, sess>>
    BY <1>3, <1>8
  <2>5. \/ net' = net \/ net' = Append(net, x)
        \/ net' = Append(net, h) /\ k.rec = "Ready" /\ k.meeting
    BY <1>3, <1>8, <2>1, <2>2 DEF SendData
  <2>6. ASSUME NEW n, n = net \/ n = Append(net, x)
        PROVE  Chat(k, n, Tail(down), silent, sess, rows', table, sent, silently, fresh', unnamed)
    <3>1. Frame(cl, net, down, silent, sess, k, n, Tail(down), silent, sess, 0, 1)
      BY <1>1, <1>2, <1>3, <1>8, <2>3, <2>6, ReadFrame
    <3>2. Follow(cl, k, rows, rows', fresh, fresh')
      BY <1>6, <2>4
    <3> QED
      BY <3>1, <3>2, FrameKeeps DEF ChatInv
  <2>7. CASE net' = net \/ net' = Append(net, x)
    <3>1. Chat(k, net', Tail(down), silent, sess, rows', table, sent, silently, fresh', unnamed)
      BY <2>6, <2>7
    <3> QED
      BY <2>4, <3>1 DEF ChatInv
  <2>8. CASE net' = Append(net, h) /\ k.rec = "Ready" /\ k.meeting
    <3>1. Chat(k, net, Tail(down), silent, sess, rows', table, sent, silently, fresh', unnamed)
      BY <2>6
    <3>2. PICK d : d = Tail(down)
      OBVIOUS
    <3>3. State(k, net, d, silent, sess, srv, joins)
      BY <1>1, <1>3, <1>4, <1>8, <3>2, ReadKeeps DEF RecoveryInv, Goes
    <3>4. Channel(k, net, d)
      BY <3>3 DEF State
    <3>5. Chat(k, Append(net, h), d, silent, sess, rows', table, sent, silently, fresh', unnamed)
      BY <2>3, <2>8, <3>1, <3>2, <3>4, AddHistory
    <3> QED
      BY <2>4, <2>8, <3>2, <3>5 DEF ChatInv
  <2> QED
    BY <2>5, <2>7, <2>8
<1> QED
  BY <1>7, <1>8

-----------------------------------------------------------------------------
(* The client reads what is about the chat                                 *)

(* The rows w2 are those of w after the message m was applied.             *)
Applied(w2, w, m, n, t, sn, sl) ==
  /\ RowsOK(w2, n, t, sn, sl)
  /\ \A cid : HasRow(w, cid) => HasRow(w2, cid)
  /\ \A cid : HasRow(w2, cid) => HasRow(w, cid) \/ \E mid : Names(m, mid) /\ t[mid].cid = cid
  /\ \A mid : mid # 0 /\ Shows(w, mid) => Shows(w2, mid)
  /\ \A mid : Names(m, mid) => Shows(w2, mid)
  /\ \A i \in 1..Len(w2) : w2[i].state = "sending" =>
       /\ \E j \in 1..Len(w) : w[j] = w2[i]
       /\ m.t = "chat" => w2[i].cid # m.rows[1].cid

LEMMA NamedStored ==
  ASSUME NEW m, NEW n, NEW t, NEW sn, NEW sl, ReplyOK(m, n, t, sn, sl), NEW mid, Names(m, mid)
  PROVE  mid \in 1..Len(t)
<1>1. PICK i \in 1..Len(m.rows) : m.rows[i].mid = mid
  BY DEF Names
<1>2. m.t \in {"push", "history"}
  BY DEF Names
<1>3. IsStored(m.rows[i], t)
  <2>1. CASE m.t = "push"
    <3>1. Len(m.rows) = 1 /\ IsStored(m.rows[1], t)
      BY <2>1 DEF ReplyOK
    <3>2. i = 1
      BY <1>1, <3>1
    <3> QED
      BY <3>1, <3>2
  <2>2. CASE m.t = "history"
    BY <1>1, <2>2 DEF ReplyOK
  <2> QED
    BY <1>2, <2>1, <2>2
<1> QED
  BY <1>1, <1>3 DEF IsStored

(* A push and another answer that name the same message.                   *)
LEMMA PushedOnce ==
  ASSUME NEW d, NEW w, NEW n, NEW t, NEW sn, NEW sl, TableOK(t, sn), Replies(d, n, t, sn, sl),
         FirstNamed(d, w), NEW i \in 1..Len(d), d[i].t = "push", ~d[i].rows[1].mine,
         NEW j \in 1..Len(d), j < i, NEW mid, Names(d[j], mid)
  PROVE  t[mid].cid # d[i].rows[1].cid
<1>1. PICK r : r = d[i].rows[1]
  OBVIOUS
<1>2. IsStored(r, t)
  BY <1>1 DEF Replies, ReplyOK
<1>3. r.mid \in 1..Len(t) /\ r.cid = t[r.mid].cid
  <2>1. Stored(t, r.mid).cid = t[r.mid].cid
    BY DEF Stored
  <2> QED
    BY <1>2, <2>1 DEF IsStored
<1>4. mid \in 1..Len(t)
  BY NamedStored DEF Replies
<1>5. mid # r.mid
  BY <1>1 DEF FirstNamed
<1> QED
  BY <1>1, <1>3, <1>4, <1>5 DEF TableOK

LEMMA ReadChat ==
  ASSUME NEW k, NEW n, NEW d0, NEW q, NEW ss, NEW w, NEW t, NEW sn, NEW sl, NEW fr, NEW m, NEW w2,
         NEW fr2, NEW un, Chat(k, n, d0, q, ss, w, t, sn, sl, fr, un), IsSeq(d0), d0 # <<>>, m = d0[1],
         k.rec = "Ready", k.meeting, m.t \in Chats, Applied(w2, w, m, n, t, sn, sl),
         fr2 => fr \/ LatestPageOf(m)
  PROVE  Chat(k, n, Tail(d0), q, ss, w2, t, sn, sl, fr2, un)
<1>1. /\ TableOK(t, sn) /\ Requested(n, t, sn) /\ RowsOK(w, n, t, sn, sl)
      /\ Replies(d0, n, t, sn, sl) /\ Unanswered(k, n, d0, q, ss, w, un)
      /\ Unnamed(n, t, sn, un) /\ Cleared(k, w, fr)
      /\ OwnShown(k, n, d0, w) /\ BehindJoin(k, n, d0) /\ FirstNamed(d0, w)
      /\ PageFollows(k, d0, q, ss, w, t, sl, fr)
  BY DEF Chat
<1>2. PICK d : d = Tail(d0)
  OBVIOUS
<1>3. /\ IsSeq(d) /\ Len(d0) \in Nat /\ Len(d0) >= 1 /\ Len(d) = Len(d0) - 1
      /\ \A i \in 1..Len(d) : d[i] = d0[i + 1] /\ i + 1 \in 1..Len(d0) /\ i + 1 # 1
  BY <1>2, TailIs
<1>4. 1 \in 1..Len(d0)
  BY <1>3
<1>5. \A j \in 1..Len(d0) : j = 1 \/ (j - 1 \in 1..Len(d) /\ d[j - 1] = d0[j])
  <2> SUFFICES ASSUME NEW j \in 1..Len(d0), j # 1 PROVE j - 1 \in 1..Len(d) /\ d[j - 1] = d0[j]
    OBVIOUS
  <2>1. j - 1 \in 1..Len(d) /\ (j - 1) + 1 = j
    BY <1>3
  <2> QED
    BY <1>3, <2>1
<1>6. RowsOK(w2, n, t, sn, sl)
  BY DEF Applied
<1>7. Replies(d, n, t, sn, sl)
  BY <1>1, <1>3 DEF Replies
<1>8. Unanswered(k, n, d, q, ss, w2, un)
  <2> SUFFICES ASSUME NEW i \in 1..Len(w2), w2[i].state = "sending",
                      ~(q \/ ~ss[k.c].open \/ w2[i].cid \in un
                        \/ \E j \in 1..Len(n) : n[j].t = "chat" /\ n[j].c = k.c /\ n[j].x[1] = w2[i].cid)
               PROVE  \E j \in 1..Len(d) : d[j].t = "chat" /\ d[j].rows[1].cid = w2[i].cid
    BY DEF Unanswered
  <2>1. PICK x \in 1..Len(w) : w[x] = w2[i]
    BY DEF Applied
  <2>2. PICK j \in 1..Len(d0) : d0[j].t = "chat" /\ d0[j].rows[1].cid = w2[i].cid
    BY <1>1, <2>1 DEF Unanswered
  <2>3. j # 1
    BY <2>2 DEF Applied
  <2> QED
    BY <1>5, <2>2, <2>3
<1>9. Cleared(k, w2, fr2)
  BY DEF Cleared
<1>10. OwnShown(k, n, d, w2)
  BY <1>1, <1>3 DEF OwnShown, Applied
<1>11. BehindJoin(k, n, d)
  <2>1. \A i, j \in 1..Len(d) : i < j => i + 1 < j + 1
    BY <1>3
  <2>2. ASSUME NEW i \in 1..Len(d), Joined(d[i])
        PROVE  /\ \A j \in 1..Len(n) : ~OfMember(n[j])
               /\ \A j \in 1..Len(d) : i < j => ~ToMember(d[j])
    <3>1. i + 1 \in 1..Len(d0) /\ Joined(d0[i + 1])
      BY <1>3, <2>2
    <3> QED
      BY <1>1, <1>3, <2>1, <3>1 DEF BehindJoin
  <2>3. \A i, j \in 1..Len(n) : i < j /\ n[i].t = "join" /\ n[i].c = k.c => ~OfMember(n[j])
    BY <1>1 DEF BehindJoin
  <2> QED
    BY <2>2, <2>3 DEF BehindJoin
<1>12. FirstNamed(d, w2)
  <2> SUFFICES ASSUME NEW i \in 1..Len(d), d[i].t = "push", ~d[i].rows[1].mine
               PROVE  /\ ~HasRow(w2, d[i].rows[1].cid)
                      /\ \A j \in 1..Len(d) : j < i => ~Names(d[j], d[i].rows[1].mid)
    BY DEF FirstNamed
  <2>1. i + 1 \in 1..Len(d0) /\ d[i] = d0[i + 1] /\ 1 < i + 1
    BY <1>3
  <2>2. /\ ~HasRow(w, d[i].rows[1].cid)
        /\ \A j \in 1..Len(d0) : j < i + 1 => ~Names(d0[j], d[i].rows[1].mid)
    BY <1>1, <2>1 DEF FirstNamed
  <2>3. \A mid : Names(m, mid) => t[mid].cid # d[i].rows[1].cid
    BY <1>1, <1>4, <2>1, PushedOnce
  <2>4. ~HasRow(w2, d[i].rows[1].cid)
    BY <2>2, <2>3 DEF Applied
  <2>5. \A j \in 1..Len(d) : j < i => j + 1 < i + 1
    BY <1>3
  <2> QED
    BY <1>3, <2>2, <2>4, <2>5
<1>13. PageFollows(k, d, q, ss, w2, t, sl, fr2)
  <2> SUFFICES ASSUME Attending(k, d, q, ss)
               PROVE  /\ fr2 => \A mid \in Latest(t) \ sl :
                                  Shows(w2, mid) \/ \E j \in 1..Len(d) : Names(d[j], mid)
                      /\ \A i \in 1..Len(d) : LatestPageOf(d[i]) =>
                           \A mid \in Latest(t) \ sl : \E j \in 1..Len(d) : i <= j /\ Names(d[j], mid)
    BY DEF PageFollows
  <2>1. Attending(k, d0, q, ss)
    <3>1. ~Left(m)
      BY DEF Left, Chats
    <3>2. \A j \in 1..Len(d0) : ~Left(d0[j])
      BY <1>5, <3>1 DEF Attending
    <3> QED
      BY <3>2 DEF Attending
  <2>2. ASSUME NEW mid \in Latest(t) \ sl,
               Shows(w, mid) \/ \E j \in 1..Len(d0) : Names(d0[j], mid)
        PROVE  Shows(w2, mid) \/ \E j \in 1..Len(d) : Names(d[j], mid)
    <3>1. mid # 0
      BY DEF Latest
    <3>2. CASE Shows(w, mid)
      BY <3>1, <3>2 DEF Applied
    <3>3. CASE \E j \in 1..Len(d0) : Names(d0[j], mid)
      <4>1. PICK j \in 1..Len(d0) : Names(d0[j], mid)
        BY <3>3
      <4>2. CASE j = 1
        BY <4>1, <4>2 DEF Applied
      <4>3. CASE j # 1
        BY <1>5, <4>1, <4>3
      <4> QED
        BY <4>2, <4>3
    <3> QED
      BY <2>2, <3>2, <3>3
  <2>3. ASSUME fr2, NEW mid \in Latest(t) \ sl
        PROVE  Shows(w2, mid) \/ \E j \in 1..Len(d) : Names(d[j], mid)
    <3>1. CASE fr
      <4>1. Shows(w, mid) \/ \E j \in 1..Len(d0) : Names(d0[j], mid)
        BY <1>1, <2>1, <3>1 DEF PageFollows
      <4> QED
        BY <2>2, <4>1
    <3>2. CASE LatestPageOf(m)
      <4>1. \E j \in 1..Len(d0) : Names(d0[j], mid)
        BY <1>1, <1>4, <2>1, <3>2 DEF PageFollows
      <4> QED
        BY <2>2, <4>1
    <3> QED
      BY <2>3, <3>1, <3>2
  <2>4. ASSUME NEW i \in 1..Len(d), LatestPageOf(d[i]), NEW mid \in Latest(t) \ sl
        PROVE  \E j \in 1..Len(d) : i <= j /\ Names(d[j], mid)
    <3>1. i + 1 \in 1..Len(d0) /\ LatestPageOf(d0[i + 1])
      BY <1>3, <2>4
    <3>2. PICK j \in 1..Len(d0) : i + 1 <= j /\ Names(d0[j], mid)
      BY <1>1, <2>1, <3>1 DEF PageFollows
    <3>3. j # 1 /\ i <= j - 1
      BY <1>3, <3>2
    <3> QED
      BY <1>5, <3>2, <3>3
  <2> QED
    BY <2>3, <2>4
<1>14. Chat(k, n, d, q, ss, w2, t, sn, sl, fr2, un)
  BY <1>1, <1>6, <1>7, <1>8, <1>9, <1>10, <1>11, <1>12, <1>13 DEF Chat
<1> QED
  BY <1>2, <1>14

LEMMA StoredMine ==
  ASSUME NEW t, NEW sn, TableOK(t, sn), NEW p, IsStored(p, t)
  PROVE  /\ p.mine => TRUE = p.mine
         /\ ~p.mine => FALSE = p.mine
<1>1. p.mine = t[p.mid].mine /\ p.mid \in 1..Len(t)
  <2>1. Stored(t, p.mid).mine = t[p.mid].mine
    BY DEF Stored
  <2> QED
    BY <2>1 DEF IsStored
<1>2. p.mine \in BOOLEAN
  BY <1>1 DEF TableOK
<1> QED
  BY <1>2

(* What StoredRow says of a row as it is sent.                             *)
LEMMA SentRow ==
  ASSUME NEW n, NEW t, NEW sn, NEW sl, TableOK(t, sn), NEW p, IsStored(p, t)
  PROVE  /\ RowOK(FromServer(p, p.mine), n, t, sn, sl) /\ FromServer(p, p.mine).cid = p.cid
         /\ FromServer(p, p.mine).mid = p.mid /\ FromServer(p, p.mine).state = "sent"
         /\ p.cid = t[p.mid].cid /\ p.mid # 0 /\ p.mid \in 1..Len(t)
  BY StoredRow

(* The two changes of a row.                                               *)
Put(w, row, r) == [w EXCEPT ![row] = r]
Failing(r) == [r EXCEPT !.state = "failed"]

(* A row of the message is replaced by what the server stored.             *)
LEMMA PutStored ==
  ASSUME NEW w, NEW n, NEW t, NEW sn, NEW sl, TableOK(t, sn), RowsOK(w, n, t, sn, sl),
         NEW p, IsStored(p, t), NEW row \in 1..Len(w), w[row].cid = p.cid
  PROVE  /\ RowsOK(Put(w, row, FromServer(p, p.mine)), n, t, sn, sl)
         /\ Shown(Put(w, row, FromServer(p, p.mine)), w, {p.mid}, t)
<1>1. PICK r : r = FromServer(p, p.mine)
  OBVIOUS
<1>3. /\ RowOK(FromServer(p, p.mine), n, t, sn, sl) /\ FromServer(p, p.mine).cid = p.cid
      /\ FromServer(p, p.mine).mid = p.mid /\ FromServer(p, p.mine).state = "sent"
      /\ p.cid = t[p.mid].cid /\ p.mid # 0 /\ p.mid \in 1..Len(t)
  BY SentRow
<1>4. /\ RowOK(r, n, t, sn, sl) /\ r.cid = p.cid /\ r.mid = p.mid /\ r.state = "sent"
      /\ p.cid = t[p.mid].cid /\ p.mid # 0 /\ p.mid \in 1..Len(t)
  BY <1>1, <1>3
<1>5. w[row].mid # 0 => w[row].mid = r.mid
  BY <1>4, OnePlace
<1>6. r.cid = w[row].cid /\ r.state # "sending"
  BY <1>4
<1>7. RowOK(r, n, t, sn, sl)
  BY <1>4
<1>2. PICK w2 : w2 = [w EXCEPT ![row] = r]
  OBVIOUS
<1>8. RowsOK(w2, n, t, sn, sl) /\ Shown(w2, w, {r.mid} \ {0}, t)
  BY <1>2, <1>5, <1>6, <1>7, RowReplaced
<1>9. {r.mid} \ {0} = {p.mid}
  BY <1>4
<1>12. Put(w, row, FromServer(p, p.mine)) = w2
  BY <1>1, <1>2 DEF Put
<1> QED
  BY <1>8, <1>9, <1>12

(* A row for a message of the other member.                                *)
LEMMA StoredAdds ==
  ASSUME NEW w, NEW n, NEW t, NEW sn, NEW sl, TableOK(t, sn), RowsOK(w, n, t, sn, sl),
         NEW p, IsStored(p, t), ~HasRow(w, p.cid)
  PROVE  /\ RowsOK(Append(w, FromServer(p, p.mine)), n, t, sn, sl)
         /\ Shown(Append(w, FromServer(p, p.mine)), w, {p.mid}, t)
<1>1. PICK r : r = FromServer(p, p.mine)
  OBVIOUS
<1>3. /\ RowOK(FromServer(p, p.mine), n, t, sn, sl) /\ FromServer(p, p.mine).cid = p.cid
      /\ FromServer(p, p.mine).mid = p.mid /\ FromServer(p, p.mine).state = "sent"
      /\ p.cid = t[p.mid].cid /\ p.mid # 0 /\ p.mid \in 1..Len(t)
  BY SentRow
<1>4. /\ RowOK(r, n, t, sn, sl) /\ r.cid = p.cid /\ r.mid = p.mid /\ r.state = "sent"
      /\ p.cid = t[p.mid].cid /\ p.mid # 0 /\ p.mid \in 1..Len(t)
  BY <1>1, <1>3
<1>5. ~HasRow(w, r.cid)
  BY <1>4
<1>6. r.state # "sending" /\ r.mid # 0 /\ r.cid = t[r.mid].cid
  BY <1>4
<1>2. PICK w2 : w2 = Append(w, r)
  OBVIOUS
<1>7. RowsOK(w2, n, t, sn, sl) /\ Shown(w2, w, {r.mid}, t)
  BY <1>2, <1>4, <1>5, <1>6, RowAdded
<1> QED
  BY <1>1, <1>2, <1>4, <1>7

(* A row of a message that was not stored, or that nobody was shown.       *)
LEMMA PutFailed ==
  ASSUME NEW w, NEW n, NEW t, NEW sn, NEW sl, TableOK(t, sn), RowsOK(w, n, t, sn, sl),
         NEW row \in 1..Len(w), Held(t, sl, w[row].cid), ~Asked(n, w[row].cid)
  PROVE  /\ RowsOK(Put(w, row, Failing(w[row])), n, t, sn, sl)
         /\ \E S : Shown(Put(w, row, Failing(w[row])), w, S, t)
         /\ Put(w, row, Failing(w[row]))[row].state # "sending"
         /\ \A i \in 1..Len(w) : i # row => Put(w, row, Failing(w[row]))[i] = w[i]
<1>1. PICK o : o = w[row]
  OBVIOUS
<1>3. DOMAIN o = RowFields /\ RowOK(o, n, t, sn, sl) /\ Held(t, sl, o.cid) /\ ~Asked(n, o.cid)
  BY <1>1 DEF RowsOK, RowOK
<1>2. PICK r : r = [o EXCEPT !.state = "failed"]
  OBVIOUS
<1>4. DOMAIN r = RowFields /\ r.cid = o.cid /\ r.mid = o.mid /\ r.state = "failed"
  BY <1>2, <1>3 DEF RowFields
<1>5. r.mid # 0 => r.mid \in sl
  <2>1. Len(t) \in Nat
    BY LenIs DEF TableOK
  <2>2. ASSUME r.mid # 0 PROVE r.mid \in 1..Len(t) /\ t[r.mid].cid = o.cid
    BY <1>3, <1>4, <2>1, <2>2 DEF RowOK
  <2> QED
    BY <1>3, <2>2 DEF Held
<1>6. RowOK(r, n, t, sn, sl)
  BY <1>3, <1>4, <1>5 DEF RowOK
<1>8. r.cid = w[row].cid /\ r.state # "sending"
  BY <1>1, <1>4
<1>12. w[row].mid # 0 => r.mid = w[row].mid
  BY <1>1, <1>4
<1>13. PICK w2 : w2 = [w EXCEPT ![row] = r]
  OBVIOUS
<1>9. RowsOK(w2, n, t, sn, sl) /\ Shown(w2, w, {r.mid} \ {0}, t)
  BY <1>6, <1>8, <1>12, <1>13, RowReplaced
<1>10. DOMAIN w = 1..Len(w)
  BY LenIs DEF RowsOK
<1>11. w2[row] = r /\ \A i \in 1..Len(w) : i # row => w2[i] = w[i]
  BY <1>10, <1>13
<1>14. Put(w, row, Failing(w[row])) = w2
  BY <1>1, <1>2, <1>13 DEF Put, Failing
<1> QED
  BY <1>4, <1>9, <1>11, <1>14

LEMMA AckApplied ==
  ASSUME NEW w, NEW m, NEW n, NEW t, NEW sn, NEW sl, TableOK(t, sn), RowsOK(w, n, t, sn, sl),
         ReplyOK(m, n, t, sn, sl), m.t = "chat", NEW w2, w2 = ApplySendMessageAck(w, m)
  PROVE  Applied(w2, w, m, n, t, sn, sl)
<1>1. PICK ack : ack = m.rows[1]
  OBVIOUS
<1>2. /\ IsSeq(m.rows) /\ Len(m.rows) = 1 /\ ack.cid \in 0..sn /\ ~Asked(n, ack.cid)
      /\ m.result = "ok" => IsStored(ack, t) /\ ack.mine
      /\ m.result # "ok" => Held(t, sl, ack.cid)
  BY <1>1 DEF ReplyOK
<1>3. Head(m.rows) = ack
  <2>1. PICK ms : ms = m.rows
    OBVIOUS
  <2>2. IsSeq(ms) /\ Len(ms) = 1 /\ ms[1] = ack
    BY <1>1, <1>2, <2>1
  <2>3. ms # <<>>
    BY <2>2, EmptyIs
  <2>4. Head(ms) = ms[1]
    BY <2>2, <2>3, TailIs
  <2> QED
    BY <2>1, <2>2, <2>4
<1>4. IsSeq(w) /\ Len(w) \in Nat
  BY LenIs DEF RowsOK
<1>5. PICK row : row = FindMessage(w, ack.cid)
  OBVIOUS
<1>6. /\ row \in 0..Len(w) /\ (row # 0 => w[row].cid = ack.cid)
      /\ (row = 0 => ~HasRow(w, ack.cid))
  BY <1>4, <1>5, FindIs
<1>7. \A mid : ~Names(m, mid)
  BY DEF Names
<1>8. w2 = IF row = 0 THEN w
           ELSE IF m.result # "ok" THEN [w EXCEPT ![row].state = "failed"]
           ELSE [w EXCEPT ![row] = FromServer(ack, TRUE)]
  <2>1. ack.cid = 0 => row = 0
    <3>1. \A i \in 1..Len(w) : w[i].cid \in 1..sn
      BY DEF RowsOK, RowOK
    <3>2. \A i \in 1..Len(w) : w[i].cid # 0
      BY <3>1
    <3> QED
      BY <1>4, <1>6, <3>2
  <2> QED
    BY <1>3, <1>5, <2>1 DEF ApplySendMessageAck
<1>9. CASE row = 0
  <2>1. w2 = w
    BY <1>8, <1>9
  <2>2. \A i \in 1..Len(w) : w[i].cid # ack.cid
    BY <1>6, <1>9 DEF HasRow
  <2> QED
    BY <1>1, <1>7, <2>1, <2>2 DEF Applied
<1>10. CASE row # 0
  <2>1. row \in 1..Len(w) /\ w[row].cid = ack.cid
    BY <1>4, <1>6, <1>10
  <2>9. m.result = "ok" => IsStored(ack, t) /\ TRUE = ack.mine
    BY <1>2, StoredMine
  <2>2. /\ RowsOK(w2, n, t, sn, sl) /\ \E S : Shown(w2, w, S, t)
        /\ w2[row].state # "sending" /\ \A i \in 1..Len(w) : i # row => w2[i] = w[i]
    <3>1. CASE m.result # "ok"
      <4>1. w2 = [w EXCEPT ![row].state = "failed"]
        BY <1>8, <1>10, <3>1
      <4>2. Held(t, sl, w[row].cid) /\ ~Asked(n, w[row].cid)
        BY <1>2, <2>1, <3>1
      <4>5. w2 = Put(w, row, Failing(w[row]))
        BY <4>1 DEF Put, Failing
      <4>3. /\ RowsOK(w2, n, t, sn, sl) /\ \E S : Shown(w2, w, S, t)
            /\ w2[row].state # "sending" /\ \A i \in 1..Len(w) : i # row => w2[i] = w[i]
        BY <2>1, <4>5, <4>2, PutFailed
      <4> QED
        BY <4>3
    <3>2. CASE m.result = "ok"
      <4>1. w2 = [w EXCEPT ![row] = FromServer(ack, TRUE)]
        BY <1>8, <1>10, <3>2
      <4>9. IsStored(ack, t)
        BY <2>9, <3>2
      <4>4. PICK r : r = FromServer(ack, TRUE)
        OBVIOUS
      <4>6. r = FromServer(ack, ack.mine)
        BY <2>9, <3>2, <4>4
      <4>5. w2 = Put(w, row, FromServer(ack, ack.mine))
        BY <4>1, <4>4, <4>6 DEF Put
      <4>8. /\ RowsOK(Put(w, row, FromServer(ack, ack.mine)), n, t, sn, sl)
            /\ Shown(Put(w, row, FromServer(ack, ack.mine)), w, {ack.mid}, t)
        BY <2>1, <4>9, PutStored
      <4>3. /\ RowsOK(w2, n, t, sn, sl) /\ Shown(w2, w, {ack.mid}, t)
        BY <4>5, <4>8
      <4>10. r.state # "sending"
        BY <4>4 DEF FromServer
      <4>12. DOMAIN w = 1..Len(w) /\ w2 = [w EXCEPT ![row] = r]
        BY <4>1, <4>4, LenIs DEF RowsOK
      <4>11. w2[row].state # "sending" /\ \A i \in 1..Len(w) : i # row => w2[i] = w[i]
        BY <2>1, <4>10, <4>12
      <4> QED
        BY <4>3, <4>11
    <3> QED
      BY <3>1, <3>2
  <2>3. IsSeq(w2) /\ Len(w2) = Len(w)
    <3>1. DOMAIN w = 1..Len(w) /\ (\E r : w2 = [w EXCEPT ![row] = r])
      BY <1>4, <1>8, <1>10, LenIs
    <3>2. DOMAIN w2 = 1..Len(w) /\ w2 = [i \in 1..Len(w) |-> w2[i]]
      BY <3>1
    <3> QED
      BY <1>4, <3>2, MappedIs
  <2>4. \A i \in 1..Len(w) : w2[i].cid = w[i].cid
    <3>1. w2[row].cid = w[row].cid
      <4>1. PICK S : Shown(w2, w, S, t)
        BY <2>2
      <4>2. HasRow(w, ack.cid)
        BY <2>1 DEF HasRow
      <4>3. HasRow(w2, ack.cid)
        BY <4>1, <4>2 DEF Shown
      <4>4. \A i \in 1..Len(w) : w[i].cid = ack.cid => i = row
        BY <2>1 DEF RowsOK
      <4>5. PICK i \in 1..Len(w) : w2[i].cid = ack.cid
        BY <2>3, <4>3 DEF HasRow
      <4>6. i = row
        BY <2>2, <4>4, <4>5
      <4> QED
        BY <2>1, <4>5, <4>6
    <3> QED
      BY <2>2, <3>1
  <2>5. \A cid : HasRow(w2, cid) => HasRow(w, cid)
    BY <2>3, <2>4 DEF HasRow
  <2>6. \A i \in 1..Len(w) : w[i].cid = ack.cid => i = row
    BY <2>1 DEF RowsOK
  <2>7. \A i \in 1..Len(w2) : w2[i].state = "sending" => w2[i].cid # ack.cid
    BY <2>2, <2>3, <2>4, <2>6
  <2>8. /\ \A i \in 1..Len(w2) : w2[i].state = "sending" => \E j \in 1..Len(w) : w[j] = w2[i]
        /\ \A cid : HasRow(w, cid) => HasRow(w2, cid)
        /\ \A mid : mid # 0 /\ Shows(w, mid) => Shows(w2, mid)
    BY <2>2 DEF Shown
  <2> QED
    BY <1>1, <1>7, <2>2, <2>5, <2>7, <2>8 DEF Applied
<1> QED
  BY <1>9, <1>10

(* What Shown says is what Applied asks for.                               *)
LEMMA ShownApplied ==
  ASSUME NEW w, NEW w2, NEW m, NEW n, NEW t, NEW sn, NEW sl, RowsOK(w2, n, t, sn, sl), NEW S,
         Shown(w2, w, S, t), m.t # "chat", \A mid : Names(m, mid) <=> mid \in S
  PROVE  Applied(w2, w, m, n, t, sn, sl)
  BY DEF Applied, Shown

LEMMA PushApplied ==
  ASSUME NEW w, NEW m, NEW n, NEW t, NEW sn, NEW sl, TableOK(t, sn), RowsOK(w, n, t, sn, sl),
         ReplyOK(m, n, t, sn, sl), m.t = "push",
         m.rows[1].mine => HasRow(w, m.rows[1].cid), ~m.rows[1].mine => ~HasRow(w, m.rows[1].cid),
         NEW w2, w2 = ApplyMessageReceived(w, m)
  PROVE  Applied(w2, w, m, n, t, sn, sl)
<1>1. PICK p : p = m.rows[1]
  OBVIOUS
<1>2. IsSeq(m.rows) /\ Len(m.rows) = 1 /\ IsStored(p, t)
  BY <1>1 DEF ReplyOK
<1>3. Head(m.rows) = p
  <2>1. PICK ms : ms = m.rows
    OBVIOUS
  <2>2. IsSeq(ms) /\ Len(ms) = 1 /\ ms[1] = p
    BY <1>1, <1>2, <2>1
  <2>3. ms # <<>>
    BY <2>2, EmptyIs
  <2>4. Head(ms) = ms[1]
    BY <2>2, <2>3, TailIs
  <2> QED
    BY <2>1, <2>2, <2>4
<1>4. IsSeq(w) /\ Len(w) \in Nat
  BY LenIs DEF RowsOK
<1>5. PICK row : row = FindMessage(w, p.cid)
  OBVIOUS
<1>6. /\ row \in 0..Len(w) /\ (row # 0 => w[row].cid = p.cid)
      /\ (row = 0 => ~HasRow(w, p.cid))
  BY <1>4, <1>5, FindIs
<1>7. w2 = IF row # 0 THEN [w EXCEPT ![row] = FromServer(p, TRUE)]
           ELSE Append(w, FromServer(p, FALSE))
  BY <1>3, <1>5 DEF ApplyMessageReceived
<1>8. \A mid : Names(m, mid) <=> mid \in {p.mid}
  BY <1>1, <1>2 DEF Names
<1>10. p.mine => TRUE = p.mine
  BY <1>2, StoredMine
<1>11. ~p.mine => FALSE = p.mine
  BY <1>2, StoredMine
<1>9. RowsOK(w2, n, t, sn, sl) /\ Shown(w2, w, {p.mid}, t)
  <2>1. CASE row # 0
    <3>1. row \in 1..Len(w) /\ w[row].cid = p.cid
      BY <1>4, <1>6, <2>1
    <3>2. HasRow(w, p.cid)
      BY <3>1 DEF HasRow
    <3>3. p.mine
      BY <1>1, <3>2
    <3>5. PICK r : r = FromServer(p, TRUE)
      OBVIOUS
    <3>6. r = FromServer(p, p.mine)
      BY <1>10, <3>3, <3>5
    <3>4. w2 = Put(w, row, FromServer(p, p.mine))
      BY <1>7, <2>1, <3>5, <3>6 DEF Put
    <3>7. /\ RowsOK(Put(w, row, FromServer(p, p.mine)), n, t, sn, sl)
          /\ Shown(Put(w, row, FromServer(p, p.mine)), w, {p.mid}, t)
      BY <1>2, <3>1, PutStored
    <3> QED
      BY <3>4, <3>7
  <2>2. CASE row = 0
    <3>1. ~HasRow(w, p.cid) /\ ~p.mine
      BY <1>1, <1>6, <2>2
    <3>5. PICK r : r = FromServer(p, FALSE)
      OBVIOUS
    <3>6. r = FromServer(p, p.mine)
      BY <1>11, <3>1, <3>5
    <3>2. w2 = Append(w, FromServer(p, p.mine))
      BY <1>7, <2>2, <3>5, <3>6
    <3>7. /\ RowsOK(Append(w, FromServer(p, p.mine)), n, t, sn, sl)
          /\ Shown(Append(w, FromServer(p, p.mine)), w, {p.mid}, t)
      BY <1>2, <3>1, StoredAdds
    <3> QED
      BY <3>2, <3>7
  <2> QED
    BY <2>1, <2>2
<1> QED
  BY <1>8, <1>9, ShownApplied

LEMMA HistoryApplied ==
  ASSUME NEW w, NEW m, NEW n, NEW t, NEW sn, NEW sl, TableOK(t, sn), RowsOK(w, n, t, sn, sl),
         ReplyOK(m, n, t, sn, sl), m.t = "history",
         NEW w2, w2 = IF m.x[1] = "group" THEN ApplyGroupHistory(w, m) ELSE ApplyPrivateHistory(w, m)
  PROVE  Applied(w2, w, m, n, t, sn, sl)
<1>1. PICK messages : messages = m.rows
  OBVIOUS
<1>2. /\ m.x[1] \in Kinds /\ IsSeq(messages) /\ (m.result # "ok" => messages = <<>>)
      /\ \A i \in 1..Len(messages) : IsStored(messages[i], t) /\ messages[i].kind = m.x[1]
  BY <1>1 DEF ReplyOK
<1>3. DOMAIN messages = 1..Len(messages)
  BY <1>2, LenIs
<1>4. AllOf(messages, m.x[1])
  BY <1>2, <1>3 DEF AllOf
<1>5. w2 = IF m.result = "ok" THEN MergeHistory(w, messages) ELSE w
  <2>1. m.x[1] = "group" \/ m.x[1] = "private"
    BY <1>2 DEF Kinds
  <2>2. CASE m.x[1] = "group"
    BY <1>1, <1>4, <2>2 DEF ApplyGroupHistory
  <2>3. CASE m.x[1] = "private"
    <3>1. w2 = ApplyPrivateHistory(w, m)
      BY <2>3
    <3> QED
      BY <1>1, <1>4, <2>3, <3>1 DEF ApplyPrivateHistory
  <2> QED
    BY <2>1, <2>2, <2>3
<1>6. w2 = MergeHistory(w, messages)
  <2>1. CASE m.result = "ok"
    BY <1>5, <2>1
  <2>2. CASE m.result # "ok"
    <3>1. messages = <<>> /\ w2 = w
      BY <1>2, <1>5, <2>2
    <3> QED
      BY <3>1 DEF MergeHistory
  <2> QED
    BY <2>1, <2>2
<1>7. PICK S : S = Placed(messages, Len(messages))
  OBVIOUS
<1>8. RowsOK(w2, n, t, sn, sl) /\ Shown(w2, w, Placed(messages, Len(messages)), t)
  <2>1. \A i \in 1..Len(messages) : IsStored(messages[i], t)
    BY <1>2
  <2> QED
    BY <1>2, <1>6, <2>1, MergeHistoryIs
<1>9. \A mid : Names(m, mid) <=> mid \in S
  BY <1>1, <1>7 DEF Names, Placed
<1>10. RowsOK(w2, n, t, sn, sl) /\ Shown(w2, w, S, t) /\ m.t # "chat"
  BY <1>7, <1>8
<1> QED
  BY <1>9, <1>10, ShownApplied

LEMMA ChatReceived ==
  ASSUME RecoveryInv, ChatInv, ChatReceive, OfChat(Head(down))
  PROVE  ChatInv'
<1>1. PICK m : m = Head(down)
  OBVIOUS
<1>2. PICK k : k = Receive(cl, m)
  OBVIOUS
<1>3. /\ cl.sock = "up" /\ down # <<>> /\ UNCHANGED <<sess, srv, joins>>
      /\ IF k.sock # "up" THEN Aborted(k)
         ELSE /\ cl' = k /\ down' = Tail(down) /\ UNCHANGED silent
              /\ IF k.rec = "Resuming" /\ cl.rec # "Resuming"
                   THEN SendData(k, Req("resume", k))
                 ELSE IF k.rec = "Ready" /\ cl.rec = "Resuming" /\ k.meeting
                   THEN SendData(k, [Req("history", k) EXCEPT !.x = <<"group", 0>>])
                 ELSE UNCHANGED net
  BY <1>1, <1>2 DEF ChatReceive, ClientReceive, ServerVars
<1>4. IsSeq(down) /\ ClientOK(cl)
  BY DEF RecoveryInv, State, Channel, Outstanding
<1>5. m = down[1] /\ 1 \in 1..Len(down)
  BY <1>1, <1>3, <1>4, TailIs
<1>6. m.t \in AnswerTypes
  BY <1>5 DEF RecoveryInv, State, Answers, AnswerOK
<1>7. m.t \in Chats /\ cl.rec = "Ready" /\ cl.meeting
  BY <1>1 DEF OfChat
<1>8. k = cl
  BY <1>2, <1>3, <1>4, <1>6, <1>7, ReceiveIs
<1>9. cl' = cl /\ down' = Tail(down) /\ net' = net /\ silent' = silent /\ sess' = sess
  BY <1>3, <1>7, <1>8
<1>10. /\ TableOK(table, sent) /\ RowsOK(rows, net, table, sent, silently)
       /\ Replies(down, net, table, sent, silently) /\ OwnShown(cl, net, down, rows)
       /\ FirstNamed(down, rows)
  BY DEF ChatInv, Chat
<1>11. /\ rows' = CASE m.t = "chat" -> ApplySendMessageAck(rows, m)
                    [] m.t = "push" -> ApplyMessageReceived(rows, m)
                    [] m.t = "history" -> IF m.x[1] = "group" THEN ApplyGroupHistory(rows, m)
                                          ELSE ApplyPrivateHistory(rows, m)
       /\ fresh' = (fresh \/ (m.t = "history" /\ m.result = "ok" /\ m.x = <<"group", 0>>))
  BY <1>1, <1>7 DEF ChatReceive, Chats
<1>12. UNCHANGED <<table, sent, silently, unnamed>>
  BY DEF ChatReceive
<1>13. PICK w2 : w2 = rows'
  OBVIOUS
<1>14. Applied(w2, rows, m, net, table, sent, silently)
  <2>1. ReplyOK(m, net, table, sent, silently)
    BY <1>5, <1>10 DEF Replies
  <2>2. CASE m.t = "chat"
    <3>1. w2 = ApplySendMessageAck(rows, m)
      BY <1>11, <1>13, <2>2
    <3> QED
      BY <1>10, <2>1, <2>2, <3>1, AckApplied
  <2>3. CASE m.t = "push"
    <3>1. w2 = ApplyMessageReceived(rows, m)
      BY <1>11, <1>13, <2>3
    <3>2. m.rows[1].mine => HasRow(rows, m.rows[1].cid)
      BY <1>5, <1>7, <1>10, <2>3 DEF OwnShown
    <3>3. ~m.rows[1].mine => ~HasRow(rows, m.rows[1].cid)
      BY <1>5, <1>10, <2>3 DEF FirstNamed
    <3> QED
      BY <1>10, <2>1, <2>3, <3>1, <3>2, <3>3, PushApplied
  <2>4. CASE m.t = "history"
    <3>1. w2 = IF m.x[1] = "group" THEN ApplyGroupHistory(rows, m) ELSE ApplyPrivateHistory(rows, m)
      BY <1>11, <1>13, <2>4
    <3> QED
      BY <1>10, <2>1, <2>4, <3>1, HistoryApplied
  <2> QED
    BY <1>7, <2>2, <2>3, <2>4 DEF Chats
<1>15. PICK fr2 : fr2 = fresh'
  OBVIOUS
<1>16. fr2 => fresh \/ LatestPageOf(m)
  BY <1>11, <1>15 DEF LatestPageOf
<1>17. Chat(cl, net, Tail(down), silent, sess, w2, table, sent, silently, fr2, unnamed)
  BY <1>3, <1>4, <1>5, <1>7, <1>14, <1>16, ReadChat DEF ChatInv
<1> QED
  BY <1>9, <1>12, <1>13, <1>15, <1>17 DEF ChatInv

LEMMA ReceiveChat == ASSUME RecoveryInv, ChatInv, ChatReceive PROVE ChatInv'
<1>1. CASE OfChat(Head(down))
  BY <1>1, ChatReceived
<1>2. CASE ~OfChat(Head(down))
  <2>1. ClientReceive /\ UNCHANGED <<table, sent, silently, unnamed>>
    BY DEF ChatReceive
  <2>2. RowsFollow
    BY <1>2 DEF ChatReceive, OfChat, Chats
  <2> QED
    BY <1>2, <2>1, <2>2, OtherReceived
<1> QED
  BY <1>1, <1>2

-----------------------------------------------------------------------------
(* What the client asks for                                                *)

LEMMA HistoryRequested ==
  ASSUME RecoveryInv, ChatInv, NEW kind, NEW older, RequestHistory(kind, older)
  PROVE  ChatInv'
<1>1. PICK h : h = [Req("history", cl) EXCEPT !.x = <<kind, IF older THEN EarliestMessageId(kind) ELSE 0>>]
  OBVIOUS
<1>2. h.t = "history"
  BY <1>1 DEF Req
<1>3. /\ cl.meeting /\ cl.rec = "Ready" /\ (net' = net \/ net' = Append(net, h))
      /\ UNCHANGED <<cl, down, silent, sess, rows, table, sent, silently, unnamed, fresh>>
  BY <1>1 DEF RequestHistory, SendData, ServerVars, chatVars
<1>4. Channel(cl, net, down)
  BY DEF RecoveryInv, State
<1>5. Chat(cl, Append(net, h), down, silent, sess, rows, table, sent, silently, fresh, unnamed)
  BY <1>2, <1>3, <1>4, AddHistory DEF ChatInv
<1> QED
  BY <1>3, <1>5 DEF ChatInv

(* What a row that is added leaves as it is.                               *)
LEMMA RowAppended ==
  ASSUME NEW w, IsSeq(w), NEW r, NEW w2, w2 = Append(w, r)
  PROVE  /\ \A cid : HasRow(w2, cid) => HasRow(w, cid) \/ cid = r.cid
         /\ \A cid : HasRow(w, cid) => HasRow(w2, cid)
         /\ HasRow(w2, r.cid)
         /\ \A mid : Shows(w, mid) => Shows(w2, mid)
         /\ \A i \in 1..Len(w2) : (i \in 1..Len(w) /\ w2[i] = w[i]) \/ w2[i] = r
<1>1. /\ Len(w) \in Nat /\ Len(w2) = Len(w) + 1 /\ w2[Len(w) + 1] = r
      /\ \A i \in 1..Len(w) : w2[i] = w[i]
  BY AppendIs
<1>2. \A i \in 1..Len(w2) : i \in 1..Len(w) \/ i = Len(w) + 1
  BY <1>1
<1>3. \A i \in 1..Len(w) : i \in 1..Len(w2)
  BY <1>1
<1>4. Len(w) + 1 \in 1..Len(w2)
  BY <1>1
<1>5. \A cid : HasRow(w2, cid) => HasRow(w, cid) \/ cid = r.cid
  BY <1>1, <1>2 DEF HasRow
<1>6. \A cid : HasRow(w, cid) => HasRow(w2, cid)
  BY <1>1, <1>3 DEF HasRow
<1>7. HasRow(w2, r.cid)
  BY <1>1, <1>4 DEF HasRow
<1>8. \A mid : Shows(w, mid) => Shows(w2, mid)
  BY <1>1, <1>3 DEF Shows
<1>9. \A i \in 1..Len(w2) : (i \in 1..Len(w) /\ w2[i] = w[i]) \/ w2[i] = r
  BY <1>1, <1>2
<1> QED
  BY <1>5, <1>6, <1>7, <1>8, <1>9

(* A message with a new id is shown, and asked for or not.                 *)
LEMMA MessageSent ==
  ASSUME NEW k, NEW n, NEW d, NEW q, NEW ss, NEW w, NEW t, NEW sn, NEW sl, NEW fr, NEW m, NEW r,
         NEW un, NEW n2, NEW cid, cid = sn + 1,
         Channel(k, n, d), Chat(k, n, d, q, ss, w, t, sn, sl, fr, un), k.meeting,
         m.t = "chat", m.c = k.c, m.x[1] = cid,
         DOMAIN r = RowFields, r.cid = cid, r.mid = 0, r.state \in {"sending", "failed"},
         r.state = "sending" => k.rec = "Ready" /\ (q \/ n2 = Append(n, m)),
         n2 = n \/ (n2 = Append(n, m) /\ r.state = "sending"), NEW w2, w2 = Append(w, r)
  PROVE  Chat(k, n2, d, q, ss, w2, t, cid, sl, fr, un)
<1>1. /\ TableOK(t, sn) /\ Requested(n, t, sn) /\ RowsOK(w, n, t, sn, sl) /\ Replies(d, n, t, sn, sl)
      /\ Unanswered(k, n, d, q, ss, w, un) /\ Unnamed(n, t, sn, un) /\ Cleared(k, w, fr)
      /\ OwnShown(k, n, d, w) /\ BehindJoin(k, n, d) /\ FirstNamed(d, w)
      /\ PageFollows(k, d, q, ss, w, t, sl, fr)
  BY DEF Chat
<1>2. /\ sn \in Nat /\ cid \in Nat /\ cid \notin 1..sn /\ cid \in 1..cid
      /\ \A x \in 1..sn : x \in 1..cid /\ x # cid
      /\ \A x \in 0..sn : x \in 0..cid /\ x # cid
  BY <1>1 DEF TableOK
<1>3. IsSeq(n) /\ IsSeq(w)
  BY <1>1 DEF Channel, Ordered, RowsOK
<1>4. /\ \A x : HasRow(w2, x) <=> HasRow(w, x) \/ x = cid
      /\ \A mid : Shows(w, mid) => Shows(w2, mid)
      /\ \A i \in 1..Len(w2) : (i \in 1..Len(w) /\ w2[i] = w[i]) \/ w2[i] = r
  <2>1. \A x : HasRow(w2, x) => HasRow(w, x) \/ x = r.cid
    BY <1>3, RowAppended
  <2>4. \A x : HasRow(w, x) => HasRow(w2, x)
    BY <1>3, RowAppended
  <2>5. HasRow(w2, r.cid)
    BY <1>3, RowAppended
  <2>2. \A mid : Shows(w, mid) => Shows(w2, mid)
    BY <1>3, RowAppended
  <2>3. \A i \in 1..Len(w2) : (i \in 1..Len(w) /\ w2[i] = w[i]) \/ w2[i] = r
    BY <1>3, RowAppended
  <2> QED
    BY <2>1, <2>2, <2>3, <2>4, <2>5
<1>5. /\ \A i \in 1..Len(n) : i \in 1..Len(n2) /\ n2[i] = n[i]
      /\ \A i \in 1..Len(n2) : (i \in 1..Len(n) /\ n2[i] = n[i]) \/ (i = Len(n) + 1 /\ n2[i] = m /\ r.state = "sending")
      /\ r.state = "sending" => q \/ (Len(n) + 1 \in 1..Len(n2) /\ n2[Len(n) + 1] = m)
  <2>1. /\ Len(n) \in Nat
        /\ n2 # n => Len(n2) = Len(n) + 1 /\ n2[Len(n) + 1] = m /\ \A i \in 1..Len(n) : n2[i] = n[i]
    BY <1>3, AppendIs
  <2>2. CASE n2 = n
    <3>1. Append(n, m) # n
      <4>1. Len(Append(n, m)) = Len(n) + 1
        BY <1>3, AppendIs
      <4> QED
        BY <2>1, <4>1
    <3> QED
      BY <2>2, <3>1
  <2>3. CASE n2 # n
    <3>1. r.state = "sending"
      BY <2>3
    <3> QED
      BY <2>1, <2>3, <3>1
  <2> QED
    BY <2>2, <2>3
<1>6. \A x : Asked(n2, x) => Asked(n, x) \/ (x = cid /\ r.state = "sending")
  BY <1>5 DEF Asked
<1>7. TableOK(t, cid)
  BY <1>1, <1>2 DEF TableOK
<1>8. \A mid \in 1..Len(t) : t[mid].cid # cid
  BY <1>1, <1>2 DEF TableOK
<1>9. Requested(n2, t, cid)
  <2>1. \A i \in 1..Len(n2) : n2[i].t = "chat" =>
          n2[i].x[1] \in 1..cid /\ \A mid \in 1..Len(t) : t[mid].cid # n2[i].x[1]
    BY <1>1, <1>2, <1>5, <1>8 DEF Requested
  <2>2. \A i \in 1..Len(n2) : n2[i].t = "chat" /\ i \in 1..Len(n) /\ n2[i] = n[i] => n2[i].x[1] # cid
    BY <1>1, <1>2 DEF Requested
  <2>3. ASSUME NEW i \in 1..Len(n2), NEW j \in 1..Len(n2), n2[i].t = "chat", n2[j].t = "chat",
               n2[i].x[1] = n2[j].x[1]
        PROVE  i = j
    <3>1. CASE i \in 1..Len(n) /\ n2[i] = n[i]
      <4>1. n2[i].x[1] # cid
        BY <2>2, <2>3, <3>1
      <4>2. j \in 1..Len(n) /\ n2[j] = n[j]
        BY <1>5, <2>3, <4>1
      <4> QED
        BY <1>1, <2>3, <3>1, <4>2 DEF Requested
    <3>2. CASE i = Len(n) + 1 /\ n2[i] = m
      <4>1. n2[j].x[1] = cid
        BY <2>3, <3>2
      <4>2. j = Len(n) + 1
        BY <1>5, <2>2, <2>3, <4>1
      <4> QED
        BY <3>2, <4>2
    <3> QED
      BY <1>5, <3>1, <3>2
  <2> QED
    BY <2>1, <2>3 DEF Requested
<1>10. RowsOK(w2, n2, t, cid, sl)
  <2>1. \A i \in 1..Len(w) : RowOK(w[i], n2, t, cid, sl)
    BY <1>1, <1>2, <1>6 DEF RowsOK, RowOK
  <2>2. RowOK(r, n2, t, cid, sl)
    <3>1. Held(t, sl, cid)
      BY <1>8 DEF Held
    <3>2. ~Asked(n, cid)
      BY <1>1, <1>2 DEF Requested, Asked
    <3>3. 0 \in 0..Len(t)
      BY <1>1, LenIs DEF TableOK
    <3>4. r.state = "failed" => ~Asked(n2, cid)
      BY <1>6, <3>2
    <3> QED
      BY <1>2, <3>1, <3>3, <3>4 DEF RowOK
  <2>3. ~HasRow(w, cid)
    BY <1>1, <1>2 DEF HasRow, RowsOK, RowOK
  <2>4. RowsOK(w, n2, t, cid, sl)
    BY <1>1, <2>1 DEF RowsOK
  <2> QED
    BY <2>2, <2>3, <2>4, RowAdded
<1>11. Replies(d, n2, t, cid, sl)
  <2> SUFFICES ASSUME NEW i \in 1..Len(d) PROVE ReplyOK(d[i], n2, t, cid, sl)
    BY DEF Replies
  <2>1. ReplyOK(d[i], n, t, sn, sl)
    BY <1>1 DEF Replies
  <2>2. d[i].t = "chat" => d[i].rows[1].cid \in 0..cid /\ ~Asked(n2, d[i].rows[1].cid)
    BY <1>2, <1>6, <2>1 DEF ReplyOK
  <2> QED
    BY <2>1, <2>2 DEF ReplyOK
<1>12. Unanswered(k, n2, d, q, ss, w2, un)
  <2> SUFFICES ASSUME NEW i \in 1..Len(w2), w2[i].state = "sending"
               PROVE  /\ k.rec = "Ready"
                      /\ \/ q \/ ~ss[k.c].open \/ w2[i].cid \in un
                         \/ \E j \in 1..Len(n2) : n2[j].t = "chat" /\ n2[j].c = k.c /\ n2[j].x[1] = w2[i].cid
                         \/ \E j \in 1..Len(d) : d[j].t = "chat" /\ d[j].rows[1].cid = w2[i].cid
    BY DEF Unanswered
  <2>1. CASE i \in 1..Len(w) /\ w2[i] = w[i]
    <3>1. k.rec = "Ready"
      BY <1>1, <2>1 DEF Unanswered
    <3>2. \/ q \/ ~ss[k.c].open \/ w2[i].cid \in un
          \/ \E j \in 1..Len(n) : n[j].t = "chat" /\ n[j].c = k.c /\ n[j].x[1] = w2[i].cid
          \/ \E j \in 1..Len(d) : d[j].t = "chat" /\ d[j].rows[1].cid = w2[i].cid
      BY <1>1, <2>1 DEF Unanswered
    <3>3. ASSUME NEW j \in 1..Len(n), n[j].t = "chat" /\ n[j].c = k.c /\ n[j].x[1] = w2[i].cid
          PROVE  \E l \in 1..Len(n2) : n2[l].t = "chat" /\ n2[l].c = k.c /\ n2[l].x[1] = w2[i].cid
      BY <1>5, <3>3
    <3> QED
      BY <3>1, <3>2, <3>3
  <2>2. CASE w2[i] = r
    BY <1>5, <2>2
  <2> QED
    BY <1>4, <2>1, <2>2
<1>13. OwnShown(k, n2, d, w2)
  <2>1. \A i \in 1..Len(n2) : n2[i].t = "chat" => HasRow(w2, n2[i].x[1])
    BY <1>1, <1>4, <1>5 DEF OwnShown
  <2>2. \A i \in 1..Len(d) : d[i].t = "push" /\ d[i].rows[1].mine => HasRow(w2, d[i].rows[1].cid)
    BY <1>1, <1>4 DEF OwnShown
  <2> QED
    BY <2>1, <2>2 DEF OwnShown
<1>14. BehindJoin(k, n2, d)
  <2>1. CASE n2 = n
    BY <1>1, <2>1
  <2>2. CASE n2 = Append(n, m) /\ r.state = "sending"
    <3>1. k.rec = "Ready"
      BY <2>2
    <3>2. BehindJoin(k, Append(n, m), d)
      BY <1>1, <3>1, BehindJoinAdd
    <3> QED
      BY <2>2, <3>2
  <2> QED
    BY <2>1, <2>2
<1>15. FirstNamed(d, w2)
  <2>1. \A i \in 1..Len(d) : d[i].t = "push" => d[i].rows[1].cid # cid
    <3> SUFFICES ASSUME NEW i \in 1..Len(d), d[i].t = "push" PROVE d[i].rows[1].cid # cid
      OBVIOUS
    <3>1. PICK p : p = d[i].rows[1]
      OBVIOUS
    <3>2. IsStored(p, t)
      BY <1>1, <3>1 DEF Replies, ReplyOK
    <3>3. p.cid = t[p.mid].cid /\ p.mid \in 1..Len(t)
      <4>1. Stored(t, p.mid).cid = t[p.mid].cid
        BY DEF Stored
      <4> QED
        BY <3>2, <4>1 DEF IsStored
    <3> QED
      BY <1>8, <3>1, <3>3
  <2> QED
    BY <1>1, <1>4, <2>1 DEF FirstNamed
<1>16. PageFollows(k, d, q, ss, w2, t, sl, fr)
  BY <1>1, <1>4 DEF PageFollows
<1>17. Cleared(k, w2, fr)
  BY <1>1 DEF Cleared
<1>18. Unnamed(n2, t, cid, un)
  BY <1>1, <1>2, <1>6 DEF Unnamed
<1> QED
  BY <1>7, <1>9, <1>10, <1>11, <1>12, <1>13, <1>14, <1>15, <1>16, <1>17, <1>18 DEF Chat

LEMMA ChatSent ==
  ASSUME RecoveryInv, ChatInv, NEW kind, SendMessage(kind)
  PROVE  ChatInv'
<1>14. sent \in Nat
  BY DEF ChatInv, Chat, TableOK
<1>1. PICK cid \in Nat : cid = sent + 1
  BY <1>14
<1>2. PICK m : m = [Req("chat", cl) EXCEPT !.x = <<cid, kind>>]
  OBVIOUS
<1>3. PICK r : r = [cid |-> cid, mid |-> 0, kind |-> kind, mine |-> TRUE,
                    state |-> IF cl.rec = "Ready" THEN "sending" ELSE "failed"]
  OBVIOUS
<1>4. /\ cl.meeting /\ sent' = cid /\ rows' = Append(rows, r)
      /\ IF cl.rec = "Ready" THEN SendData(cl, m) ELSE UNCHANGED net
      /\ UNCHANGED <<cl, down, silent, sess, table, silently, unnamed, fresh>>
  BY <1>1, <1>2, <1>3 DEF SendMessage, ServerVars
<1>5. m.t = "chat" /\ m.c = cl.c /\ m.x[1] = cid
  BY <1>2 DEF Req
<1>6. /\ DOMAIN r = RowFields /\ r.cid = cid /\ r.mid = 0
      /\ r.state = IF cl.rec = "Ready" THEN "sending" ELSE "failed"
  BY <1>3 DEF RowFields
<1>7. Channel(cl, net, down) /\ (cl.rec = "Ready" => cl.sock = "up")
  BY DEF RecoveryInv, State, Channel, ClientOK
<1>8. PICK n2 : n2 = net'
  OBVIOUS
<1>9. PICK w2 : w2 = Append(rows, r)
  OBVIOUS
<1>10. r.state \in {"sending", "failed"}
  BY <1>6
<1>11. r.state = "sending" => cl.rec = "Ready" /\ (silent \/ n2 = Append(net, m))
  BY <1>4, <1>6, <1>7, <1>8 DEF SendData
<1>12. n2 = net \/ (n2 = Append(net, m) /\ r.state = "sending")
  BY <1>4, <1>6, <1>8 DEF SendData
<1>13. Chat(cl, n2, down, silent, sess, w2, table, cid, silently, fresh, unnamed)
  BY <1>1, <1>4, <1>5, <1>6, <1>7, <1>9, <1>10, <1>11, <1>12, MessageSent DEF ChatInv
<1> QED
  BY <1>4, <1>8, <1>9, <1>13 DEF ChatInv

-----------------------------------------------------------------------------
(* The server's answers and the messages it stores                         *)

(* The table after a step that stores the message c at most.               *)
Grown(t2, t, sl2, sl, c) ==
  /\ IsSeq(t) /\ IsSeq(t2) /\ sl \subseteq sl2
  /\ \A mid \in 1..Len(t) : mid \in 1..Len(t2) /\ t2[mid] = t[mid]
  /\ \A mid \in 1..Len(t2) :
        mid \in 1..Len(t) \/ (mid = Len(t) + 1 /\ t2[mid].cid = c /\ t2[mid].mine \in BOOLEAN)
  /\ \A mid \in Latest(t2) : mid \in Latest(t) \/ mid = Len(t) + 1

(* The requests n without the first s of them.                             *)
Fewer(n2, n, s) ==
  /\ IsSeq(n) /\ IsSeq(n2) /\ s \in {0, 1}
  /\ \A i \in 1..Len(n2) : i + s \in 1..Len(n) /\ n2[i] = n[i + s]
  /\ \A i \in 1..Len(n) : i > s => i - s \in 1..Len(n2) /\ n2[i - s] = n[i]

(* The answers d and behind them some of A.                                *)
More(d2, d, A) ==
  /\ IsSeq(d) /\ IsSeq(d2)
  /\ \A i \in 1..Len(d) : i \in 1..Len(d2) /\ d2[i] = d[i]
  /\ \A i \in 1..Len(d2) : (i \in 1..Len(d) /\ d2[i] = d[i]) \/ (i > Len(d) /\ d2[i] \in A)

LEMMA FewerAsked ==
  ASSUME NEW n, NEW n2, NEW s, Fewer(n2, n, s), NEW cid, Asked(n2, cid)
  PROVE  Asked(n, cid)
<1>1. PICK i \in 1..Len(n2) : n2[i].t = "chat" /\ n2[i].x[1] = cid
  BY DEF Asked
<1>2. PICK j : j = i + s
  BY DEF Fewer
<1>3. j \in 1..Len(n) /\ n[j] = n2[i]
  BY <1>2 DEF Fewer
<1> QED
  BY <1>1, <1>3 DEF Asked

(* A message that is stored when nobody holds its id.                      *)
LEMMA TableGrown ==
  ASSUME NEW t, NEW t2, NEW sl, NEW sl2, NEW c, NEW sn, NEW sn2, Grown(t2, t, sl2, sl, c),
         TableOK(t, sn), sn2 \in Nat, sn <= sn2, c \in 1..sn2, \A mid \in 1..Len(t) : t[mid].cid # c
  PROVE  TableOK(t2, sn2)
<1>1. sn \in Nat /\ Len(t) \in Nat /\ \A x \in 1..sn : x \in 1..sn2
  BY LenIs DEF TableOK
<1>2. \A m \in 1..Len(t2) : t2[m].cid \in 1..sn2 /\ t2[m].mine \in BOOLEAN
  BY <1>1 DEF TableOK, Grown
<1>3. ASSUME NEW l \in 1..Len(t2), NEW m \in 1..Len(t2), t2[l].cid = t2[m].cid PROVE l = m
  <2>1. CASE l \in 1..Len(t)
    <3>1. t2[l].cid # c /\ t2[l] = t[l]
      BY <2>1 DEF Grown
    <3>2. m \in 1..Len(t) /\ t2[m] = t[m]
      BY <1>3, <3>1 DEF Grown
    <3> QED
      BY <1>3, <2>1, <3>1, <3>2 DEF TableOK
  <2>2. CASE l \notin 1..Len(t)
    <3>1. l = Len(t) + 1 /\ t2[m].cid = c
      BY <1>3, <2>2 DEF Grown
    <3>2. m \notin 1..Len(t)
      BY <3>1 DEF Grown
    <3> QED
      BY <3>1, <3>2 DEF Grown
  <2> QED
    BY <2>1, <2>2
<1> QED
  BY <1>2, <1>3 DEF TableOK, Grown

LEMMA StoredGrown ==
  ASSUME NEW t, NEW t2, NEW sl, NEW sl2, NEW c, Grown(t2, t, sl2, sl, c), NEW mid \in 1..Len(t)
  PROVE  Stored(t2, mid) = Stored(t, mid)
<1>1. t2[mid] = t[mid]
  BY DEF Grown
<1> QED
  BY <1>1 DEF Stored

LEMMA RequestsGrown ==
  ASSUME NEW n, NEW n2, NEW s, NEW t, NEW t2, NEW sl, NEW sl2, NEW c, NEW sn, NEW sn2,
         Fewer(n2, n, s), Grown(t2, t, sl2, sl, c), TableOK(t, sn), sn2 \in Nat, sn <= sn2,
         Requested(n, t, sn), ~Asked(n2, c)
  PROVE  Requested(n2, t2, sn2)
<1>1. sn \in Nat /\ \A x \in 1..sn : x \in 1..sn2
  BY DEF TableOK
<1>2. \A i \in 1..Len(n2) : n2[i].t = "chat" => n2[i].x[1] # c
  BY DEF Asked
<1>3. \A i \in 1..Len(n2) : n2[i].t = "chat" =>
         n2[i].x[1] \in 1..sn2 /\ \A mid \in 1..Len(t) : t[mid].cid # n2[i].x[1]
  <2> SUFFICES ASSUME NEW i \in 1..Len(n2), n2[i].t = "chat"
               PROVE  n2[i].x[1] \in 1..sn2 /\ \A mid \in 1..Len(t) : t[mid].cid # n2[i].x[1]
    OBVIOUS
  <2>1. PICK j : j = i + s
    OBVIOUS
  <2>2. j \in 1..Len(n) /\ n[j] = n2[i]
    BY <2>1 DEF Fewer
  <2>3. n[j].x[1] \in 1..sn /\ \A mid \in 1..Len(t) : t[mid].cid # n[j].x[1]
    BY <2>2 DEF Requested
  <2> QED
    BY <1>1, <2>2, <2>3
<1>4. \A i \in 1..Len(n2) : n2[i].t = "chat" => \A mid \in 1..Len(t2) : t2[mid].cid # n2[i].x[1]
  BY <1>2, <1>3 DEF Grown
<1>5. ASSUME NEW i \in 1..Len(n2), NEW j \in 1..Len(n2),
             n2[i].t = "chat", n2[j].t = "chat", n2[i].x[1] = n2[j].x[1]
      PROVE  i = j
  <2>1. PICK x, y : x = i + s /\ y = j + s
    OBVIOUS
  <2>2. x \in 1..Len(n) /\ n[x] = n2[i] /\ y \in 1..Len(n) /\ n[y] = n2[j] /\ s \in {0, 1}
    BY <2>1 DEF Fewer
  <2>3. x = y
    BY <1>5, <2>2 DEF Requested
  <2> QED
    BY <2>1, <2>2, <2>3
<1> QED
  BY <1>3, <1>4, <1>5 DEF Requested

LEMMA HeldGrown ==
  ASSUME NEW t, NEW t2, NEW sl, NEW sl2, NEW c, Grown(t2, t, sl2, sl, c), NEW cid, cid # c,
         Held(t, sl, cid)
  PROVE  Held(t2, sl2, cid)
  BY DEF Held, Grown

LEMMA RowsGrown ==
  ASSUME NEW n, NEW n2, NEW s, NEW t, NEW t2, NEW sl, NEW sl2, NEW c, NEW sn, NEW sn2, NEW w,
         Fewer(n2, n, s), Grown(t2, t, sl2, sl, c), TableOK(t, sn), sn2 \in Nat, sn <= sn2,
         RowsOK(w, n, t, sn, sl), \A i \in 1..Len(w) : w[i].state = "failed" => w[i].cid # c
  PROVE  RowsOK(w, n2, t2, sn2, sl2)
<1>1. sn \in Nat /\ \A x \in 1..sn : x \in 1..sn2
  BY DEF TableOK
<1>2. Len(t) \in Nat /\ Len(t2) \in Nat
  BY LenIs DEF Grown
<1>3. ASSUME NEW i \in 1..Len(w) PROVE RowOK(w[i], n2, t2, sn2, sl2)
  <2>1. PICK r : r = w[i]
    OBVIOUS
  <2>2. RowOK(r, n, t, sn, sl) /\ (r.state = "failed" => r.cid # c)
    BY <2>1 DEF RowsOK
  <2>3. r.mid \in 0..Len(t) /\ r.cid \in 1..sn2 /\ DOMAIN r = RowFields
    BY <1>1, <2>2 DEF RowOK
  <2>4. r.mid \in 0..Len(t2)
    <3>1. r.mid = 0 \/ r.mid \in 1..Len(t)
      BY <1>2, <2>3
    <3>2. r.mid = 0 \/ r.mid \in 1..Len(t2)
      BY <3>1 DEF Grown
    <3> QED
      BY <1>2, <3>2
  <2>5. ASSUME r.mid # 0
        PROVE  /\ r.cid = t2[r.mid].cid
               /\ r.mid \in sl2 \/ r = FromServer(Stored(t2, r.mid), t2[r.mid].mine)
    <3>1. r.mid \in 1..Len(t)
      BY <1>2, <2>3, <2>5
    <3>2. t2[r.mid] = t[r.mid] /\ sl \subseteq sl2
      BY <3>1 DEF Grown
    <3>3. Stored(t2, r.mid) = Stored(t, r.mid)
      BY <3>1, StoredGrown
    <3>4. r.cid = t[r.mid].cid /\ (r.mid \in sl \/ r = FromServer(Stored(t, r.mid), t[r.mid].mine))
      BY <2>2, <2>5 DEF RowOK
    <3> QED
      BY <3>2, <3>3, <3>4
  <2>6. ASSUME r.state = "failed" PROVE Held(t2, sl2, r.cid) /\ ~Asked(n2, r.cid)
    <3>1. Held(t, sl, r.cid) /\ ~Asked(n, r.cid)
      BY <2>2, <2>6 DEF RowOK
    <3>2. Held(t2, sl2, r.cid)
      BY <2>2, <2>6, <3>1, HeldGrown
    <3>3. ~Asked(n2, r.cid)
      BY <3>1, FewerAsked
    <3> QED
      BY <3>2, <3>3
  <2>7. RowOK(r, n2, t2, sn2, sl2)
    BY <2>3, <2>4, <2>5, <2>6 DEF RowOK
  <2> QED
    BY <2>1, <2>7
<1> QED
  BY <1>3 DEF RowsOK

LEMMA StaysStored ==
  ASSUME NEW t, NEW t2, NEW sl, NEW sl2, NEW c, Grown(t2, t, sl2, sl, c), NEW m, IsStored(m, t)
  PROVE  IsStored(m, t2)
<1>1. m.mid \in 1..Len(t) /\ m = Stored(t, m.mid)
  BY DEF IsStored
<1>2. m.mid \in 1..Len(t2)
  BY <1>1 DEF Grown
<1>3. Stored(t2, m.mid) = Stored(t, m.mid)
  BY <1>1, StoredGrown
<1> QED
  BY <1>1, <1>2, <1>3 DEF IsStored

LEMMA RepliesGrown ==
  ASSUME NEW n, NEW n2, NEW s, NEW t, NEW t2, NEW sl, NEW sl2, NEW c, NEW sn, NEW sn2, NEW d, NEW d2, NEW A,
         Fewer(n2, n, s), Grown(t2, t, sl2, sl, c), TableOK(t, sn), sn2 \in Nat, sn <= sn2,
         Replies(d, n, t, sn, sl), More(d2, d, A),
         \A i \in 1..Len(d) : d[i].t = "chat" => d[i].rows[1].cid # c,
         \A a \in A : ReplyOK(a, n2, t2, sn2, sl2)
  PROVE  Replies(d2, n2, t2, sn2, sl2)
<1>1. sn \in Nat /\ \A x \in 0..sn : x \in 0..sn2
  BY DEF TableOK
<1>2. ASSUME NEW i \in 1..Len(d) PROVE ReplyOK(d[i], n2, t2, sn2, sl2)
  <2>1. PICK m : m = d[i]
    OBVIOUS
  <2>2. ReplyOK(m, n, t, sn, sl) /\ (m.t = "chat" => m.rows[1].cid # c)
    BY <2>1 DEF Replies
  <2>3. \A r : IsStored(r, t) => IsStored(r, t2)
    BY StaysStored
  <2>4. \A cid : ~Asked(n, cid) => ~Asked(n2, cid)
    BY FewerAsked
  <2>5. \A cid : cid # c /\ Held(t, sl, cid) => Held(t2, sl2, cid)
    BY HeldGrown
  <2>6. m.t = "chat" =>
          /\ IsSeq(m.rows) /\ Len(m.rows) = 1 /\ m.rows[1].cid \in 0..sn2
          /\ ~Asked(n2, m.rows[1].cid)
          /\ m.result = "ok" => IsStored(m.rows[1], t2) /\ m.rows[1].mine
          /\ m.result # "ok" => Held(t2, sl2, m.rows[1].cid)
    BY <1>1, <2>2, <2>3, <2>4, <2>5 DEF ReplyOK
  <2>7. m.t = "push" => IsStored(m.rows[1], t2)
    BY <2>2, <2>3 DEF ReplyOK
  <2>8. m.t = "history" => \A j \in 1..Len(m.rows) : IsStored(m.rows[j], t2)
    BY <2>2, <2>3 DEF ReplyOK
  <2>9. ReplyOK(m, n2, t2, sn2, sl2)
    BY <2>2, <2>6, <2>7, <2>8 DEF ReplyOK
  <2> QED
    BY <2>1, <2>9
<1> QED
  BY <1>2 DEF Replies, More

(* A refusal by an answer that names no message: it is not asked for again.*)
LEMMA UnnamedServed ==
  ASSUME NEW n, NEW n2, NEW s, NEW t, NEW t2, NEW sl, NEW sl2, NEW c, NEW sn, NEW sn2, NEW un,
         Fewer(n2, n, s), Grown(t2, t, sl2, sl, c), TableOK(t, sn), sn2 \in Nat, sn <= sn2,
         Unnamed(n, t, sn, un), c \notin un
  PROVE  Unnamed(n2, t2, sn2, un)
<1> SUFFICES ASSUME NEW x \in un
             PROVE  x \in 1..sn2 /\ ~Asked(n2, x) /\ \A mid \in 1..Len(t2) : t2[mid].cid # x
  BY DEF Unnamed
<1>1. x \in 1..sn /\ ~Asked(n, x) /\ (\A mid \in 1..Len(t) : t[mid].cid # x) /\ x # c
  BY DEF Unnamed
<1>2. x \in 1..sn2
  BY <1>1 DEF TableOK
<1>3. ~Asked(n2, x)
  BY <1>1, FewerAsked
<1>4. \A mid \in 1..Len(t2) : t2[mid].cid # x
  BY <1>1 DEF Grown
<1> QED
  BY <1>2, <1>3, <1>4

(* The first request is answered, if it was for a row.                     *)
LEMMA UnansweredServed ==
  ASSUME NEW k, NEW n, NEW n2, NEW s, NEW d, NEW d2, NEW A, NEW q, NEW ss, NEW w, NEW un, NEW un2,
         Fewer(n2, n, s), More(d2, d, A), Unanswered(k, n, d, q, ss, w, un), un \subseteq un2,
         \A i \in 1..Len(w) : w[i].state = "sending" /\ s = 1 /\ n[1].t = "chat" /\ n[1].c = k.c /\ n[1].x[1] = w[i].cid =>
            q \/ ~ss[k.c].open \/ w[i].cid \in un2
              \/ \E j \in 1..Len(d2) : d2[j].t = "chat" /\ d2[j].rows[1].cid = w[i].cid
  PROVE  Unanswered(k, n2, d2, q, ss, w, un2)
<1> SUFFICES ASSUME NEW i \in 1..Len(w), w[i].state = "sending"
             PROVE  /\ k.rec = "Ready"
                    /\ \/ q \/ ~ss[k.c].open \/ w[i].cid \in un2
                       \/ \E j \in 1..Len(n2) : n2[j].t = "chat" /\ n2[j].c = k.c /\ n2[j].x[1] = w[i].cid
                       \/ \E j \in 1..Len(d2) : d2[j].t = "chat" /\ d2[j].rows[1].cid = w[i].cid
  BY DEF Unanswered
<1>1. k.rec = "Ready"
  BY DEF Unanswered
<1>2. \/ q \/ ~ss[k.c].open \/ w[i].cid \in un2
      \/ \E j \in 1..Len(n) : n[j].t = "chat" /\ n[j].c = k.c /\ n[j].x[1] = w[i].cid
      \/ \E j \in 1..Len(d) : d[j].t = "chat" /\ d[j].rows[1].cid = w[i].cid
  BY DEF Unanswered
<1>3. CASE q \/ ~ss[k.c].open \/ w[i].cid \in un2
  BY <1>1, <1>3
<1>4. CASE \E j \in 1..Len(d) : d[j].t = "chat" /\ d[j].rows[1].cid = w[i].cid
  <2>1. PICK j \in 1..Len(d) : d[j].t = "chat" /\ d[j].rows[1].cid = w[i].cid
    BY <1>4
  <2>2. j \in 1..Len(d2) /\ d2[j] = d[j]
    BY DEF More
  <2> QED
    BY <1>1, <2>1, <2>2
<1>5. CASE \E j \in 1..Len(n) : n[j].t = "chat" /\ n[j].c = k.c /\ n[j].x[1] = w[i].cid
  <2>1. PICK j \in 1..Len(n) : n[j].t = "chat" /\ n[j].c = k.c /\ n[j].x[1] = w[i].cid
    BY <1>5
  <2>2. Len(n) \in Nat /\ s \in {0, 1}
    BY LenIs DEF Fewer
  <2>3. j > s \/ (s = 1 /\ j = 1)
    BY <2>2
  <2>4. CASE j > s
    <3>1. PICK l : l = j - s
      BY <2>2
    <3>2. l \in 1..Len(n2) /\ n2[l] = n[j]
      BY <2>4, <3>1 DEF Fewer
    <3> QED
      BY <1>1, <2>1, <3>2
  <2>5. CASE s = 1 /\ j = 1
    <3>1. q \/ ~ss[k.c].open \/ w[i].cid \in un2
          \/ \E l \in 1..Len(d2) : d2[l].t = "chat" /\ d2[l].rows[1].cid = w[i].cid
      BY <2>1, <2>5
    <3> QED
      BY <1>1, <3>1
  <2> QED
    BY <2>3, <2>4, <2>5
<1> QED
  BY <1>2, <1>3, <1>4, <1>5

LEMMA OwnServed ==
  ASSUME NEW k, NEW n, NEW n2, NEW s, NEW d, NEW d2, NEW A, NEW w,
         Fewer(n2, n, s), More(d2, d, A), OwnShown(k, n, d, w),
         \A a \in A : k.meeting /\ a.t = "push" /\ a.rows[1].mine => HasRow(w, a.rows[1].cid)
  PROVE  OwnShown(k, n2, d2, w)
<1> SUFFICES ASSUME k.meeting
             PROVE  /\ \A i \in 1..Len(n2) : n2[i].t = "chat" => HasRow(w, n2[i].x[1])
                    /\ \A i \in 1..Len(d2) : d2[i].t = "push" /\ d2[i].rows[1].mine => HasRow(w, d2[i].rows[1].cid)
  BY DEF OwnShown
<1>1. \A i \in 1..Len(n2) : n2[i].t = "chat" => HasRow(w, n2[i].x[1])
  BY DEF OwnShown, Fewer
<1>2. \A i \in 1..Len(d2) : d2[i].t = "push" /\ d2[i].rows[1].mine => HasRow(w, d2[i].rows[1].cid)
  BY DEF OwnShown, More
<1> QED
  BY <1>1, <1>2

LEMMA BehindJoinServed ==
  ASSUME NEW k, NEW n, NEW n2, NEW s, NEW d, NEW d2, NEW A,
         Fewer(n2, n, s), More(d2, d, A), BehindJoin(k, n, d),
         \A a \in A : /\ ~Joined(a)
                      /\ ToMember(a) => \E i \in 1..Len(n) : OfMember(n[i])
                      /\ a.t = "history" => k.rec = "Ready"
  PROVE  BehindJoin(k, n2, d2)
<1>1. Len(n) \in Nat /\ Len(n2) \in Nat /\ Len(d) \in Nat /\ Len(d2) \in Nat /\ s \in {0, 1}
  BY LenIs DEF Fewer, More
<1>2. ASSUME NEW i \in 1..Len(n2), NEW j \in 1..Len(n2), i < j, n2[i].t = "join", n2[i].c = k.c
      PROVE  ~OfMember(n2[j])
  <2>1. PICK x \in Int, y \in Int : x = i + s /\ y = j + s
    BY <1>1
  <2>2. x \in 1..Len(n) /\ y \in 1..Len(n) /\ n2[i] = n[x] /\ n2[j] = n[y]
    BY <2>1 DEF Fewer
  <2>3. x < y
    BY <1>1, <1>2, <2>1
  <2> QED
    BY <1>2, <2>2, <2>3 DEF BehindJoin
<1>3. ASSUME NEW i \in 1..Len(d2), Joined(d2[i])
      PROVE  /\ \A j \in 1..Len(n2) : ~OfMember(n2[j])
             /\ \A j \in 1..Len(d2) : i < j => ~ToMember(d2[j])
  <2>1. i \in 1..Len(d) /\ Joined(d[i])
    BY <1>3 DEF More
  <2>2. \A j \in 1..Len(n) : ~OfMember(n[j])
    BY <2>1 DEF BehindJoin
  <2>3. \A j \in 1..Len(n2) : ~OfMember(n2[j])
    BY <2>2 DEF Fewer
  <2>4. \A a \in A : ~ToMember(a)
    BY <2>2
  <2>5. \A j \in 1..Len(d) : i < j => ~ToMember(d[j])
    BY <2>1 DEF BehindJoin
  <2>6. \A j \in 1..Len(d2) : i < j => ~ToMember(d2[j])
    BY <2>4, <2>5 DEF More
  <2> QED
    BY <2>3, <2>6
<1>4. ASSUME k.rec # "Ready"
      PROVE  /\ \A i \in 1..Len(d2) : d2[i].t # "history"
             /\ k.sock = "up" => \A i \in 1..Len(n2) : n2[i].t = "history" => n2[i].c # k.c
  <2>1. \A i \in 1..Len(d) : d[i].t # "history"
    BY <1>4 DEF BehindJoin
  <2>2. \A i \in 1..Len(d2) : d2[i].t # "history"
    BY <1>4, <2>1 DEF More
  <2>3. k.sock = "up" => \A i \in 1..Len(n) : n[i].t = "history" => n[i].c # k.c
    BY <1>4 DEF BehindJoin
  <2>4. k.sock = "up" => \A i \in 1..Len(n2) : n2[i].t = "history" => n2[i].c # k.c
    BY <2>3 DEF Fewer
  <2> QED
    BY <2>2, <2>4
<1> QED
  BY <1>2, <1>3, <1>4 DEF BehindJoin

LEMMA FirstServed ==
  ASSUME NEW d, NEW d2, NEW A, NEW w, More(d2, d, A), FirstNamed(d, w),
         \A i \in 1..Len(d2) : i > Len(d) /\ d2[i].t = "push" /\ ~d2[i].rows[1].mine =>
            /\ i = Len(d) + 1 /\ ~HasRow(w, d2[i].rows[1].cid)
            /\ \A j \in 1..Len(d) : ~Names(d[j], d2[i].rows[1].mid)
  PROVE  FirstNamed(d2, w)
<1> SUFFICES ASSUME NEW i \in 1..Len(d2), d2[i].t = "push", ~d2[i].rows[1].mine
             PROVE  /\ ~HasRow(w, d2[i].rows[1].cid)
                    /\ \A j \in 1..Len(d2) : j < i => ~Names(d2[j], d2[i].rows[1].mid)
  BY DEF FirstNamed
<1>1. Len(d) \in Nat /\ Len(d2) \in Nat
  BY LenIs DEF More
<1>2. CASE i \in 1..Len(d)
  <2>1. d2[i] = d[i]
    BY <1>2 DEF More
  <2>2. \A j \in 1..Len(d2) : j < i => j \in 1..Len(d)
    BY <1>1, <1>2
  <2>3. \A j \in 1..Len(d2) : j < i => d2[j] = d[j]
    BY <2>2 DEF More
  <2> QED
    BY <1>2, <2>1, <2>2, <2>3 DEF FirstNamed
<1>3. CASE i \notin 1..Len(d)
  <2>1. i > Len(d)
    BY <1>1, <1>3
  <2>2. \A j \in 1..Len(d2) : j < i => j \in 1..Len(d)
    BY <1>1, <2>1
  <2>3. \A j \in 1..Len(d2) : j < i => d2[j] = d[j]
    BY <2>2 DEF More
  <2> QED
    BY <2>1, <2>2, <2>3
<1> QED
  BY <1>2, <1>3

LEMMA PageServed ==
  ASSUME NEW k, NEW d, NEW d2, NEW A, NEW q, NEW ss, NEW w, NEW t, NEW t2, NEW sl, NEW sl2, NEW c, NEW fr,
         More(d2, d, A), Grown(t2, t, sl2, sl, c), PageFollows(k, d, q, ss, w, t, sl, fr),
         Attending(k, d2, q, ss) /\ Len(t) + 1 \in Latest(t2) \ sl2 =>
            \E j \in 1..Len(d2) : j > Len(d) /\ Names(d2[j], Len(t) + 1),
         \A a \in A : LatestPageOf(a) => \A mid \in Latest(t2) \ sl2 : Names(a, mid)
  PROVE  PageFollows(k, d2, q, ss, w, t2, sl2, fr)
<1> SUFFICES ASSUME Attending(k, d2, q, ss)
             PROVE  /\ fr => \A mid \in Latest(t2) \ sl2 :
                                Shows(w, mid) \/ \E j \in 1..Len(d2) : Names(d2[j], mid)
                    /\ \A i \in 1..Len(d2) : LatestPageOf(d2[i]) =>
                         \A mid \in Latest(t2) \ sl2 : \E j \in 1..Len(d2) : i <= j /\ Names(d2[j], mid)
  BY DEF PageFollows
<1>1. Len(d) \in Nat /\ Len(d2) \in Nat
  BY LenIs DEF More
<1>2. Attending(k, d, q, ss)
  BY DEF Attending, More
<1>3. \A mid \in Latest(t2) \ sl2 : mid \in Latest(t) \ sl \/ mid = Len(t) + 1
  BY DEF Grown
<1>4. ASSUME fr, NEW mid \in Latest(t2) \ sl2
      PROVE  Shows(w, mid) \/ \E j \in 1..Len(d2) : Names(d2[j], mid)
  <2>1. CASE mid \in Latest(t) \ sl
    <3>1. Shows(w, mid) \/ \E j \in 1..Len(d) : Names(d[j], mid)
      BY <1>2, <1>4, <2>1 DEF PageFollows
    <3> QED
      BY <3>1 DEF More
  <2>2. CASE mid = Len(t) + 1
    BY <1>4, <2>2
  <2> QED
    BY <1>3, <2>1, <2>2
<1>5. ASSUME NEW i \in 1..Len(d2), LatestPageOf(d2[i]), NEW mid \in Latest(t2) \ sl2
      PROVE  \E j \in 1..Len(d2) : i <= j /\ Names(d2[j], mid)
  <2>1. CASE i \in 1..Len(d)
    <3>1. CASE mid \in Latest(t) \ sl
      <4>1. LatestPageOf(d[i])
        BY <1>5, <2>1 DEF More
      <4>2. PICK j \in 1..Len(d) : i <= j /\ Names(d[j], mid)
        BY <1>2, <2>1, <3>1, <4>1 DEF PageFollows
      <4>3. j \in 1..Len(d2) /\ d2[j] = d[j]
        BY DEF More
      <4> QED
        BY <4>2, <4>3
    <3>2. CASE mid = Len(t) + 1
      <4>1. PICK j \in 1..Len(d2) : j > Len(d) /\ Names(d2[j], mid)
        BY <1>5, <3>2
      <4>2. i <= j
        BY <1>1, <2>1, <4>1
      <4> QED
        BY <4>1, <4>2
    <3> QED
      BY <1>3, <3>1, <3>2
  <2>2. CASE i \notin 1..Len(d)
    <3>1. d2[i] \in A
      BY <2>2 DEF More
    <3>2. Names(d2[i], mid) /\ i <= i
      BY <1>5, <3>1
    <3> QED
      BY <3>2
  <2> QED
    BY <2>1, <2>2
<1> QED
  BY <1>4, <1>5

(* A step of the server: the first request is answered or none, the        *)
(* message c is stored or none, and the client is sent some of A.          *)
LEMMA ServedKeeps ==
  ASSUME NEW k, NEW n, NEW n2, NEW s, NEW d, NEW d2, NEW A, NEW q, NEW ss, NEW w,
         NEW t, NEW t2, NEW sl, NEW sl2, NEW c, NEW sn, NEW sn2, NEW fr,
         NEW un, NEW un2, un \subseteq un2, Unnamed(n2, t2, sn2, un2),
         Chat(k, n, d, q, ss, w, t, sn, sl, fr, un),
         Fewer(n2, n, s), More(d2, d, A), Grown(t2, t, sl2, sl, c),
         TableOK(t2, sn2), sn2 \in Nat, sn <= sn2, ~Asked(n2, c),
         \A i \in 1..Len(w) : w[i].state = "failed" => w[i].cid # c,
         \A i \in 1..Len(d) : d[i].t = "chat" => d[i].rows[1].cid # c,
         \A a \in A : ReplyOK(a, n2, t2, sn2, sl2),
         \A i \in 1..Len(w) : w[i].state = "sending" /\ s = 1 /\ n[1].t = "chat" /\ n[1].c = k.c /\ n[1].x[1] = w[i].cid =>
            q \/ ~ss[k.c].open \/ w[i].cid \in un2
              \/ \E j \in 1..Len(d2) : d2[j].t = "chat" /\ d2[j].rows[1].cid = w[i].cid,
         \A a \in A : k.meeting /\ a.t = "push" /\ a.rows[1].mine => HasRow(w, a.rows[1].cid),
         \A a \in A : /\ ~Joined(a)
                      /\ ToMember(a) => \E i \in 1..Len(n) : OfMember(n[i])
                      /\ a.t = "history" => k.rec = "Ready",
         \A i \in 1..Len(d2) : i > Len(d) /\ d2[i].t = "push" /\ ~d2[i].rows[1].mine =>
            /\ i = Len(d) + 1 /\ ~HasRow(w, d2[i].rows[1].cid)
            /\ \A j \in 1..Len(d) : ~Names(d[j], d2[i].rows[1].mid),
         Attending(k, d2, q, ss) /\ Len(t) + 1 \in Latest(t2) \ sl2 =>
            \E j \in 1..Len(d2) : j > Len(d) /\ Names(d2[j], Len(t) + 1),
         \A a \in A : LatestPageOf(a) => \A mid \in Latest(t2) \ sl2 : Names(a, mid)
  PROVE  Chat(k, n2, d2, q, ss, w, t2, sn2, sl2, fr, un2)
<1>1. /\ TableOK(t, sn) /\ Requested(n, t, sn) /\ RowsOK(w, n, t, sn, sl) /\ Replies(d, n, t, sn, sl)
      /\ Unanswered(k, n, d, q, ss, w, un) /\ Unnamed(n, t, sn, un) /\ Cleared(k, w, fr)
      /\ OwnShown(k, n, d, w) /\ BehindJoin(k, n, d) /\ FirstNamed(d, w)
      /\ PageFollows(k, d, q, ss, w, t, sl, fr)
  BY DEF Chat
<1>2. Requested(n2, t2, sn2)
  BY <1>1, RequestsGrown
<1>3. RowsOK(w, n2, t2, sn2, sl2)
  BY <1>1, RowsGrown
<1>4. Replies(d2, n2, t2, sn2, sl2)
  BY <1>1, RepliesGrown
<1>5. Unanswered(k, n2, d2, q, ss, w, un2)
  BY <1>1, UnansweredServed
<1>6. OwnShown(k, n2, d2, w)
  BY <1>1, OwnServed
<1>7. BehindJoin(k, n2, d2)
  BY <1>1, BehindJoinServed
<1>8. FirstNamed(d2, w)
  BY <1>1, FirstServed
<1>9. PageFollows(k, d2, q, ss, w, t2, sl2, fr)
  BY <1>1, PageServed
<1> QED
  BY <1>1, <1>2, <1>3, <1>4, <1>5, <1>6, <1>7, <1>8, <1>9 DEF Chat

-----------------------------------------------------------------------------
(* What a handler of the server changes                                    *)

(* The group messages behind the place b of the table.                     *)
GroupOf(t, b) == {i \in 1..Len(t) : t[i].kind = "group" /\ b < i}

LEMMA LatestGrown ==
  ASSUME NEW t, IsSeq(t), NEW x, NEW t2, t2 = Append(t, x), NEW mid \in Latest(t2)
  PROVE  mid \in Latest(t) \/ mid = Len(t) + 1
<1>1. /\ IsSeq(t2) /\ Len(t) \in Nat /\ Len(t2) = Len(t) + 1
      /\ \A i \in 1..Len(t) : t2[i] = t[i] /\ i \in 1..Len(t2)
  BY AppendIs
<1>2. mid \in 1..Len(t2) /\ t2[mid].kind = "group" /\ Cardinality(GroupOf(t2, mid)) < Page
  BY DEF Latest, GroupOf
<1>3. CASE mid \in 1..Len(t)
  <2>1. PICK S : S = GroupOf(t, mid)
    OBVIOUS
  <2>2. PICK S2 : S2 = GroupOf(t2, mid)
    OBVIOUS
  <2>3. S \in SUBSET S2
    BY <1>1, <2>1, <2>2 DEF GroupOf
  <2>4. IsFiniteSet(S2)
    <3>1. S2 \in SUBSET (1..Len(t2))
      BY <2>2 DEF GroupOf
    <3>2. IsFiniteSet(1..Len(t2))
      BY <1>1, FS_Interval
    <3> QED
      BY <3>1, <3>2, FS_Subset
  <2>5. Cardinality(S) <= Cardinality(S2) /\ Cardinality(S) \in Nat /\ Cardinality(S2) \in Nat
    BY <2>3, <2>4, FS_Subset, FS_CardinalityType
  <2>6. Page \in Nat
    BY ChatBounds
  <2>7. Cardinality(S) < Page
    BY <1>2, <2>2, <2>5, <2>6
  <2>8. t[mid].kind = "group"
    BY <1>1, <1>2, <1>3
  <2> QED
    BY <1>3, <2>1, <2>7, <2>8 DEF Latest, GroupOf
<1>4. CASE mid \notin 1..Len(t)
  BY <1>1, <1>2, <1>4
<1> QED
  BY <1>3, <1>4

Adds(t2, t, x, c) == t2 = Append(t, x) /\ x.cid = c /\ x.mine \in BOOLEAN

LEMMA GrownBy ==
  ASSUME NEW t, IsSeq(t), NEW x, NEW c, NEW t2, Adds(t2, t, x, c),
         NEW sl, NEW sl2, sl \subseteq sl2
  PROVE  Grown(t2, t, sl2, sl, c)
<1>0. t2 = Append(t, x) /\ x.cid = c /\ x.mine \in BOOLEAN
  BY DEF Adds
<1>1. /\ IsSeq(t2) /\ Len(t) \in Nat /\ Len(t2) = Len(t) + 1 /\ t2[Len(t) + 1] = x
      /\ \A i \in 1..Len(t) : t2[i] = t[i] /\ i \in 1..Len(t2)
  BY <1>0, AppendIs
<1>2. \A mid \in 1..Len(t2) : mid \in 1..Len(t) \/ mid = Len(t) + 1
  BY <1>1
<1>3. \A mid \in Latest(t2) : mid \in Latest(t) \/ mid = Len(t) + 1
  BY <1>0, LatestGrown
<1> QED
  BY <1>0, <1>1, <1>2, <1>3 DEF Grown

LEMMA NotGrown ==
  ASSUME NEW t, IsSeq(t), NEW sl, NEW c PROVE Grown(t, t, sl, sl, c)
  BY DEF Grown

LEMMA NoneServed == ASSUME NEW n, IsSeq(n) PROVE Fewer(n, n, 0)
<1>1. Len(n) \in Nat /\ \A i \in 1..Len(n) : i + 0 = i /\ i - 0 = i
  BY LenIs
<1> QED
  BY <1>1 DEF Fewer

LEMMA OneServed == ASSUME NEW n, IsSeq(n), n # <<>> PROVE Fewer(Tail(n), n, 1)
<1>1. PICK n2 : n2 = Tail(n)
  OBVIOUS
<1>2. /\ IsSeq(n2) /\ Len(n) \in Nat /\ Len(n2) = Len(n) - 1
      /\ \A i \in 1..Len(n2) : n2[i] = n[i + 1] /\ i + 1 \in 1..Len(n)
  BY <1>1, TailIs
<1>3. ASSUME NEW i \in 1..Len(n), i > 1 PROVE i - 1 \in 1..Len(n2) /\ n2[i - 1] = n[i]
  <2>1. i - 1 \in 1..Len(n2) /\ (i - 1) + 1 = i
    BY <1>2, <1>3
  <2> QED
    BY <1>2, <2>1
<1>4. Fewer(n2, n, 1)
  BY <1>2, <1>3 DEF Fewer
<1> QED
  BY <1>1, <1>4

LEMMA NoneMore == ASSUME NEW d, IsSeq(d), NEW A PROVE More(d, d, A)
  BY DEF More

LEMMA OneMore ==
  ASSUME NEW d, IsSeq(d), NEW a, NEW A, a \in A, NEW d2, d2 = Append(d, a)
  PROVE  /\ More(d2, d, A)
         /\ Len(d) + 1 \in 1..Len(d2) /\ d2[Len(d) + 1] = a /\ Len(d) + 1 > Len(d)
         /\ \A i \in 1..Len(d2) : i > Len(d) => i = Len(d) + 1
<1>1. /\ IsSeq(d2) /\ Len(d) \in Nat /\ Len(d2) = Len(d) + 1 /\ d2[Len(d) + 1] = a
      /\ \A i \in 1..Len(d) : d2[i] = d[i] /\ i \in 1..Len(d2)
  BY AppendIs
<1>2. \A i \in 1..Len(d2) : i \in 1..Len(d) \/ (i > Len(d) /\ i = Len(d) + 1)
  BY <1>1
<1>3. More(d2, d, A)
  BY <1>1, <1>2 DEF More
<1>4. Len(d) + 1 \in 1..Len(d2) /\ Len(d) + 1 > Len(d)
  BY <1>1
<1> QED
  BY <1>1, <1>2, <1>3, <1>4

LEMMA TwiceMore ==
  ASSUME NEW d, NEW d1, NEW d2, NEW A, More(d1, d, A), More(d2, d1, A)
  PROVE  /\ More(d2, d, A)
         /\ \A i \in 1..Len(d1) : i \in 1..Len(d2) /\ d2[i] = d1[i]
         /\ \A i \in 1..Len(d1) : i > Len(d) => i \in 1..Len(d2) /\ i > Len(d)
<1>1. Len(d) \in Nat /\ Len(d1) \in Nat /\ Len(d2) \in Nat
  BY LenIs DEF More
<1>2. Len(d) <= Len(d1)
  <2>1. CASE Len(d) = 0
    BY <1>1, <2>1
  <2>2. CASE Len(d) # 0
    <3>1. Len(d) \in 1..Len(d)
      BY <1>1, <2>2
    <3>2. Len(d) \in 1..Len(d1)
      BY <3>1 DEF More
    <3> QED
      BY <3>2
  <2> QED
    BY <2>1, <2>2
<1>3. \A i \in 1..Len(d) : i \in 1..Len(d2) /\ d2[i] = d[i]
  BY DEF More
<1>4. ASSUME NEW i \in 1..Len(d2)
      PROVE  (i \in 1..Len(d) /\ d2[i] = d[i]) \/ (i > Len(d) /\ d2[i] \in A)
  <2>1. (i \in 1..Len(d1) /\ d2[i] = d1[i]) \/ (i > Len(d1) /\ d2[i] \in A)
    BY DEF More
  <2>2. CASE i > Len(d1) /\ d2[i] \in A
    <3>1. i > Len(d)
      BY <1>1, <1>2, <2>2
    <3> QED
      BY <2>2, <3>1
  <2>3. CASE i \in 1..Len(d1) /\ d2[i] = d1[i]
    <3>1. (i \in 1..Len(d) /\ d1[i] = d[i]) \/ (i > Len(d) /\ d1[i] \in A)
      BY <2>3 DEF More
    <3> QED
      BY <2>3, <3>1
  <2> QED
    BY <2>1, <2>2, <2>3
<1>5. IsSeq(d) /\ IsSeq(d2)
  BY DEF More
<1>6. More(d2, d, A)
  BY <1>3, <1>4, <1>5 DEF More
<1> QED
  BY <1>6 DEF More

(* SaveMeetingMessage stores what is not in the table.                     *)
LEMMA SavedIs ==
  ASSUME IsSeq(table), NEW x, \A mid \in 1..Len(table) : table[mid].cid # x.cid
  PROVE  /\ SaveMeetingMessage(x) = Append(table, x)
         /\ FindMessage(Append(table, x), x.cid) = Len(table) + 1
<1>1. FindMessage(table, x.cid) = 0
  <2>1. PICK row : row = FindMessage(table, x.cid)
    OBVIOUS
  <2>2. row \in 0..Len(table) /\ (row # 0 => table[row].cid = x.cid) /\ Len(table) \in Nat
    BY <2>1, FindIs, LenIs
  <2>3. row # 0 => row \in 1..Len(table)
    BY <2>2
  <2> QED
    BY <2>1, <2>2, <2>3
<1>2. SaveMeetingMessage(x) = Append(table, x)
  BY <1>1 DEF SaveMeetingMessage
<1>3. PICK t2 : t2 = Append(table, x)
  OBVIOUS
<1>4. /\ IsSeq(t2) /\ Len(table) \in Nat /\ Len(t2) = Len(table) + 1 /\ t2[Len(table) + 1] = x
      /\ \A i \in 1..Len(table) : t2[i] = table[i]
  BY <1>3, AppendIs
<1>5. FindMessage(t2, x.cid) = Len(table) + 1
  <2>1. PICK row : row = FindMessage(t2, x.cid)
    OBVIOUS
  <2>2. row \in 0..Len(t2) /\ (row # 0 => t2[row].cid = x.cid) /\ (row = 0 => ~HasRow(t2, x.cid))
    BY <1>4, <2>1, FindIs
  <2>3. HasRow(t2, x.cid)
    <3>1. Len(table) + 1 \in 1..Len(t2)
      BY <1>4
    <3> QED
      BY <1>4, <3>1 DEF HasRow
  <2>4. row # 0
    BY <2>2, <2>3
  <2>5. row \in 1..Len(t2)
    BY <1>4, <2>2, <2>4
  <2>6. row \notin 1..Len(table)
    BY <1>4, <2>2, <2>4
  <2>7. row = Len(table) + 1
    BY <1>4, <2>5, <2>6
  <2> QED
    BY <2>1, <2>7
<1> QED
  BY <1>2, <1>3, <1>5

Pushed(messages, mid) == [Ans("push", "ok") EXCEPT !.rows = <<Stored(messages, mid)>>]

LEMMA PushedIs ==
  ASSUME NEW t, NEW mid \in 1..Len(t), NEW p, p = Pushed(t, mid)
  PROVE  /\ p.t = "push" /\ p.result = "ok" /\ IsSeq(p.rows) /\ Len(p.rows) = 1
         /\ p.rows[1] = Stored(t, mid) /\ p.rows[1].mid = mid /\ p.rows[1].cid = t[mid].cid
         /\ p.rows[1].mine = t[mid].mine /\ IsStored(p.rows[1], t) /\ Names(p, mid)
<1>1. PICK r : r = Stored(t, mid)
  OBVIOUS
<1>2. r.mid = mid /\ r.cid = t[mid].cid /\ r.mine = t[mid].mine
  BY <1>1 DEF Stored
<1>3. p.t = "push" /\ p.result = "ok" /\ p.rows = <<r>>
  BY <1>1 DEF Pushed, Ans
<1>4. IsSeq(<<r>>) /\ Len(<<r>>) = 1 /\ <<r>>[1] = r
  <2>1. <<r>> \in Seq({r}) /\ Len(<<r>>) = 1 /\ <<r>>[1] = r
    OBVIOUS
  <2> QED
    BY <2>1 DEF IsSeq
<1>5. IsStored(r, t)
  BY <1>1, <1>2 DEF IsStored
<1>6. 1 \in 1..Len(p.rows)
  BY <1>3, <1>4
<1>7. Names(p, mid)
  BY <1>2, <1>3, <1>4, <1>6 DEF Names
<1> QED
  BY <1>1, <1>2, <1>3, <1>4, <1>5, <1>7

LEMMA OutIs ==
  ASSUME NEW d, IsSeq(d), NEW c, NEW a
  PROVE  /\ d \o Out(c, <<a>>) = d \/ d \o Out(c, <<a>>) = Append(d, a)
         /\ c = cl.c /\ cl.sock = "up" /\ ~silent /\ sess[c].open => d \o Out(c, <<a>>) = Append(d, a)
         /\ ~(c = cl.c /\ cl.sock = "up") => d \o Out(c, <<a>>) = d
<1>1. d \o <<>> = d /\ d \o <<a>> = Append(d, a)
  BY NoneAdded, OneAdded
<1>2. CASE c = cl.c /\ cl.sock = "up" /\ ~silent /\ sess[c].open
  <2>1. Out(c, <<a>>) = <<a>>
    BY <1>2 DEF Out
  <2> QED
    BY <1>1, <1>2, <2>1
<1>3. CASE ~(c = cl.c /\ cl.sock = "up" /\ ~silent /\ sess[c].open)
  <2>1. Out(c, <<a>>) = <<>>
    BY <1>3 DEF Out
  <2> QED
    BY <1>1, <1>3, <2>1
<1> QED
  BY <1>2, <1>3

(* What is pushed reaches the client that attends the meeting.             *)
LEMMA PushIs ==
  ASSUME RecoveryInv, NEW messages, NEW mid, NEW p, p = Pushed(messages, mid)
  PROVE  /\ down \o Push(messages, mid) = down \/ down \o Push(messages, mid) = Append(down, p)
         /\ Attending(cl, down, silent, sess) /\ ~srv.ended =>
              down \o Push(messages, mid) = Append(down, p)
<1>1. IsSeq(down) /\ ClientOK(cl) /\ cl.c \in 1..MaxConns /\ Membership(cl, down, silent, sess, srv)
  BY DEF RecoveryInv, State, Channel, Outstanding, Ordered, Conns
<1>2. Push(messages, mid) = IF InRoom THEN Out(srv.session, <<p>>) ELSE <<>>
  BY DEF Push, Pushed
<1>3. down \o <<>> = down
  BY <1>1, NoneAdded
<1>4. down \o Push(messages, mid) = down \/ down \o Push(messages, mid) = Append(down, p)
  <2>1. CASE InRoom
    <3>1. Push(messages, mid) = Out(srv.session, <<p>>)
      BY <1>2, <2>1
    <3>2. down \o Out(srv.session, <<p>>) = down \/ down \o Out(srv.session, <<p>>) = Append(down, p)
      BY <1>1, OutIs
    <3> QED
      BY <3>1, <3>2
  <2>2. CASE ~InRoom
    BY <1>2, <1>3, <2>2
  <2> QED
    BY <2>1, <2>2
<1>5. ASSUME Attending(cl, down, silent, sess), ~srv.ended
      PROVE  down \o Push(messages, mid) = Append(down, p)
  <2>1. cl.rec = "Ready" /\ cl.meeting /\ ~silent /\ sess[cl.c].open /\ \A i \in 1..Len(down) : ~Left(down[i])
    BY <1>5 DEF Attending
  <2>2. cl.sock = "up"
    BY <1>1, <2>1 DEF ClientOK
  <2>3. Bound(cl, sess, srv, cl.ticket)
    BY <1>1, <1>5, <2>1, <2>2 DEF Membership, Live, InMeeting
  <2>4. srv.in /\ srv.session = cl.c /\ sess[cl.c].meeting /\ cl.c # 0
    BY <1>1, <2>3, RecoveryBounds DEF Bound
  <2>5. InRoom
    BY <2>4 DEF InRoom
  <2>6. Push(messages, mid) = Out(cl.c, <<p>>)
    BY <1>2, <2>4, <2>5
  <2> QED
    BY <1>1, <2>1, <2>2, <2>6, OutIs
<1> QED
  BY <1>4, <1>5

(* PeerMessage: the other member's message is stored and pushed.           *)
LEMMA PeerChat == ASSUME RecoveryInv, ChatInv, NEW kind, PeerMessage(kind) PROVE ChatInv'
<1>1. /\ TableOK(table, sent) /\ RowsOK(rows, net, table, sent, silently)
      /\ Requested(net, table, sent) /\ Replies(down, net, table, sent, silently)
  BY DEF ChatInv, Chat
<1>2. IsSeq(table) /\ sent \in Nat /\ IsSeq(net) /\ IsSeq(down) /\ Len(table) \in Nat
  BY <1>1, LenIs DEF TableOK, RecoveryInv, State, Channel, Ordered, Outstanding
<1>3. PICK c \in Nat : c = sent + 1
  BY <1>2
<1>4. c \notin 1..sent /\ c \in 1..c /\ sent <= c /\ \A x \in 0..sent : x # c
  BY <1>2, <1>3
<1>5. PICK x : x = [cid |-> c, kind |-> kind, mine |-> FALSE]
  OBVIOUS
<1>6. x.cid = c /\ x.mine \in BOOLEAN /\ x.mine = FALSE
  BY <1>5
<1>7. \A mid \in 1..Len(table) : table[mid].cid # c
  BY <1>1, <1>4 DEF TableOK
<1>8. PICK t2 : t2 = Append(table, x)
  OBVIOUS
<1>9. PICK L \in Nat : L = Len(table) + 1
  BY <1>2
<1>10. Len(t2) = L /\ t2[L] = x /\ L \in 1..Len(t2) /\ L \notin 1..Len(table)
  <2>1. Len(t2) = L /\ t2[L] = x
    BY <1>2, <1>8, <1>9, AppendIs
  <2> QED
    BY <1>2, <1>9, <2>1
<1>11. /\ ~srv.ended /\ sent' = c /\ table' = SaveMeetingMessage(x)
       /\ \/ down' = down \o Push(table', Len(table')) /\ silently' = silently
          \/ down' = down /\ silently' = silently \cup {Len(table')}
       /\ UNCHANGED <<cl, net, silent, sess, rows, unnamed, fresh>>
  BY <1>3, <1>5 DEF PeerMessage, ServerVars
<1>12. table' = t2
  BY <1>2, <1>6, <1>7, <1>8, <1>11, SavedIs
<1>13. PICK p : p = Pushed(t2, L)
  OBVIOUS
<1>14. /\ p.t = "push" /\ p.result = "ok" /\ IsSeq(p.rows) /\ Len(p.rows) = 1
       /\ p.rows[1].mid = L /\ p.rows[1].cid = c
       /\ p.rows[1].mine = FALSE /\ IsStored(p.rows[1], t2) /\ Names(p, L)
  BY <1>6, <1>10, <1>13, PushedIs
<1>15. PICK A : A = {p}
  OBVIOUS
<1>16. PICK d2 : d2 = down'
  OBVIOUS
<1>17. PICK sl2 : sl2 = silently'
  OBVIOUS
<1>18. /\ d2 = down \/ d2 = Append(down, p)
       /\ Attending(cl, down, silent, sess) => d2 = Append(down, p) \/ L \in sl2
       /\ silently \subseteq sl2
  <2>1. /\ down \o Push(t2, L) = down \/ down \o Push(t2, L) = Append(down, p)
        /\ Attending(cl, down, silent, sess) /\ ~srv.ended => down \o Push(t2, L) = Append(down, p)
    BY <1>13, PushIs
  <2> QED
    BY <1>10, <1>11, <1>12, <1>16, <1>17, <2>1
<1>19. Grown(t2, table, sl2, silently, c)
  <2>1. Adds(t2, table, x, c)
    BY <1>6, <1>8 DEF Adds
  <2>2. silently \subseteq sl2
    BY <1>18
  <2> QED
    BY <1>2, <2>1, <2>2, GrownBy
<1>20. TableOK(t2, c)
  BY <1>1, <1>2, <1>4, <1>7, <1>19, TableGrown
<1>21. More(d2, down, A)
  BY <1>2, <1>15, <1>18, NoneMore, OneMore
<1>22. \A i \in 1..Len(d2) : i > Len(down) => i = Len(down) + 1 /\ d2[i] = p
  <2>1. CASE d2 = down
    BY <1>2, <2>1, LenIs
  <2>2. CASE d2 = Append(down, p)
    BY <1>2, <1>15, <2>2, OneMore
  <2> QED
    BY <1>18, <2>1, <2>2
<1>23. Fewer(net, net, 0)
  BY <1>2, NoneServed
<1>24. ~Asked(net, c)
  BY <1>1, <1>4 DEF Requested, Asked
<1>25. \A i \in 1..Len(rows) : rows[i].cid # c
  BY <1>1, <1>2, <1>4 DEF RowsOK, RowOK
<1>26. \A i \in 1..Len(down) : down[i].t = "chat" => down[i].rows[1].cid # c
  BY <1>1, <1>4 DEF Replies, ReplyOK
<1>27. \A a \in A : ReplyOK(a, net, t2, c, sl2)
  <2>1. ReplyOK(p, net, t2, c, sl2)
    BY <1>14 DEF ReplyOK
  <2> QED
    BY <1>15, <2>1
<1>28. \A a \in A : ~a.rows[1].mine /\ ~Joined(a) /\ a.t # "history" /\ ~ToMember(a)
  <2>1. ~p.rows[1].mine /\ ~Joined(p) /\ p.t # "history" /\ ~ToMember(p)
    BY <1>14 DEF Joined, ToMember
  <2> QED
    BY <1>15, <2>1
<1>29. \A j \in 1..Len(down) : ~Names(down[j], L)
  <2> SUFFICES ASSUME NEW j \in 1..Len(down), Names(down[j], L) PROVE FALSE
    OBVIOUS
  <2>1. ReplyOK(down[j], net, table, sent, silently)
    BY <1>1 DEF Replies
  <2>2. L \in 1..Len(table)
    BY <2>1, NamedStored
  <2> QED
    BY <1>10, <2>2
<1>30. \A i \in 1..Len(d2) : i > Len(down) /\ d2[i].t = "push" /\ ~d2[i].rows[1].mine =>
         /\ i = Len(down) + 1 /\ ~HasRow(rows, d2[i].rows[1].cid)
         /\ \A j \in 1..Len(down) : ~Names(down[j], d2[i].rows[1].mid)
  <2>1. ~HasRow(rows, c)
    BY <1>25 DEF HasRow
  <2> QED
    BY <1>14, <1>22, <1>29, <2>1
<1>31. Attending(cl, d2, silent, sess) /\ Len(table) + 1 \in Latest(t2) \ sl2 =>
         \E j \in 1..Len(d2) : j > Len(down) /\ Names(d2[j], Len(table) + 1)
  <2> SUFFICES ASSUME Attending(cl, d2, silent, sess), Len(table) + 1 \in Latest(t2) \ sl2
               PROVE  \E j \in 1..Len(d2) : j > Len(down) /\ Names(d2[j], Len(table) + 1)
    OBVIOUS
  <2>1. Attending(cl, down, silent, sess)
    BY <1>21 DEF Attending, More
  <2>2. d2 = Append(down, p)
    BY <1>9, <1>18, <2>1
  <2>3. Len(down) + 1 \in 1..Len(d2) /\ d2[Len(down) + 1] = p /\ Len(down) + 1 > Len(down)
    BY <1>2, <1>15, <2>2, OneMore
  <2> QED
    BY <1>9, <1>14, <2>3
<1>32. \A a \in A : LatestPageOf(a) => \A mid \in Latest(t2) \ sl2 : Names(a, mid)
  BY <1>28 DEF LatestPageOf
<1>33. Chat(cl, net, d2, silent, sess, rows, t2, c, sl2, fresh, unnamed)
  <2>1. Chat(cl, net, down, silent, sess, rows, table, sent, silently, fresh, unnamed)
    BY DEF ChatInv
  <2>2. \A i \in 1..Len(rows) : rows[i].state = "failed" => rows[i].cid # c
    BY <1>25
  <2>3. \A i \in 1..Len(rows) : rows[i].state = "sending" /\ 0 = 1 /\ net[1].t = "chat" /\ net[1].c = cl.c /\ net[1].x[1] = rows[i].cid =>
          silent \/ ~sess[cl.c].open \/ rows[i].cid \in unnamed
            \/ \E j \in 1..Len(d2) : d2[j].t = "chat" /\ d2[j].rows[1].cid = rows[i].cid
    OBVIOUS
  <2>4. \A a \in A : cl.meeting /\ a.t = "push" /\ a.rows[1].mine => HasRow(rows, a.rows[1].cid)
    BY <1>28
  <2>5. \A a \in A : /\ ~Joined(a)
                     /\ ToMember(a) => \E i \in 1..Len(net) : OfMember(net[i])
                     /\ a.t = "history" => cl.rec = "Ready"
    BY <1>28
  <2>6. c \notin unnamed /\ Unnamed(net, table, sent, unnamed)
    BY <1>4, <2>1 DEF Chat, Unnamed
  <2>7. Unnamed(net, t2, c, unnamed)
    BY <1>1, <1>2, <1>4, <1>19, <1>23, <2>6, UnnamedServed
  <2> QED
    BY <1>4, <1>19, <1>20, <1>21, <1>23, <1>24, <1>26, <1>27, <1>30, <1>31, <1>32,
       <2>1, <2>2, <2>3, <2>4, <2>5, <2>7, ServedKeeps
<1> QED
  BY <1>11, <1>12, <1>16, <1>17, <1>33 DEF ChatInv

-----------------------------------------------------------------------------
(* The messages and the pages the server answers with                      *)

(* The message at the head of the requests is asked for by nobody else.    *)
LEMMA ChatHead ==
  ASSUME RecoveryInv, ChatInv, net # <<>>, NEW m, m = Head(net), m.t = "chat", NEW c, c = m.x[1]
  PROVE  /\ net[1] = m /\ 1 \in 1..Len(net) /\ IsSeq(net) /\ IsSeq(down) /\ IsSeq(table)
         /\ sent \in Nat /\ Len(table) \in Nat /\ IsSeq(Tail(net))
         /\ c \in 1..sent /\ ~Asked(Tail(net), c) /\ c \notin unnamed
         /\ \A mid \in 1..Len(table) : table[mid].cid # c
         /\ \A i \in 1..Len(rows) : rows[i].state = "failed" => rows[i].cid # c
         /\ \A i \in 1..Len(down) : down[i].t = "chat" => down[i].rows[1].cid # c
         /\ cl.meeting => HasRow(rows, c)
<1>1. /\ TableOK(table, sent) /\ RowsOK(rows, net, table, sent, silently)
      /\ Requested(net, table, sent) /\ Replies(down, net, table, sent, silently)
      /\ OwnShown(cl, net, down, rows) /\ Unnamed(net, table, sent, unnamed)
  BY DEF ChatInv, Chat
<1>2. IsSeq(table) /\ sent \in Nat /\ IsSeq(net) /\ IsSeq(down) /\ Len(table) \in Nat
  BY <1>1, LenIs DEF TableOK, RecoveryInv, State, Channel, Ordered, Outstanding
<1>3. net[1] = m /\ 1 \in 1..Len(net)
  BY <1>2, TailIs
<1>4. Asked(net, c)
  BY <1>3 DEF Asked
<1>5. c \in 1..sent /\ \A mid \in 1..Len(table) : table[mid].cid # c
  BY <1>1, <1>3 DEF Requested
<1>6. PICK n2 : n2 = Tail(net)
  OBVIOUS
<1>7. IsSeq(n2) /\ \A i \in 1..Len(n2) : n2[i] = net[i + 1] /\ i + 1 \in 1..Len(net) /\ i + 1 # 1
  BY <1>2, <1>6, TailIs
<1>8. ~Asked(n2, c)
  <2> SUFFICES ASSUME NEW i \in 1..Len(n2), n2[i].t = "chat", n2[i].x[1] = c PROVE FALSE
    BY DEF Asked
  <2>1. PICK j : j = i + 1
    OBVIOUS
  <2>2. j \in 1..Len(net) /\ j # 1 /\ net[j].t = "chat" /\ net[j].x[1] = net[1].x[1]
    BY <1>3, <1>7, <2>1
  <2> QED
    BY <1>1, <1>3, <2>2 DEF Requested
<1>9. \A i \in 1..Len(rows) : rows[i].state = "failed" => rows[i].cid # c
  BY <1>1, <1>4 DEF RowsOK, RowOK
<1>10. \A i \in 1..Len(down) : down[i].t = "chat" => down[i].rows[1].cid # c
  BY <1>1, <1>4 DEF Replies, ReplyOK
<1>11. cl.meeting => HasRow(rows, c)
  BY <1>1, <1>3 DEF OwnShown
<1>12. c \notin unnamed
  BY <1>1, <1>4 DEF Unnamed
<1> QED
  BY <1>2, <1>3, <1>5, <1>6, <1>7, <1>8, <1>9, <1>10, <1>11, <1>12

Answering(a, c) == a.t = "chat" /\ a.rows[1].cid = c

OwnPush(p, c, mid) == p.t = "push" /\ p.rows[1].mine /\ p.rows[1].cid = c /\ Names(p, mid)

(* The answers after the push p, if it was sent.                           *)
Pushes(d1, d, p) == d1 = d \/ d1 = Append(d, p)

(* The message is pushed, or only answered.                                *)
Tells(p, a, c, mid) == p = a \/ OwnPush(p, c, mid)

(* A client that attends the meeting is told of a message of the page.     *)
Told(p, c, d1, t2, sl2) ==
  Attending(cl, down, silent, sess) /\ Len(table) + 1 \in Latest(t2) \ sl2 =>
     d1 = Append(down, p) /\ OwnPush(p, c, Len(table) + 1)

(* SendMeetingMessageHandler: what was stored is pushed, then answered.    *)
LEMMA ChatAnswered ==
  ASSUME RecoveryInv, ChatInv, net # <<>>, NEW m, m = Head(net), m.t = "chat", NEW c, c = m.x[1],
         NEW t2, NEW sl2, Grown(t2, table, sl2, silently, c), TableOK(t2, sent),
         NEW a, Answering(a, c), ReplyOK(a, Tail(net), t2, sent, sl2),
         NEW p, Tells(p, a, c, Len(table) + 1), ReplyOK(p, Tail(net), t2, sent, sl2),
         NEW d1, Pushes(d1, down, p), Told(p, c, d1, t2, sl2)
  PROVE  Chat(cl, Tail(net), d1 \o Out(m.c, <<a>>), silent, sess, rows, t2, sent, sl2, fresh, unnamed)
<1>1. /\ net[1] = m /\ 1 \in 1..Len(net) /\ IsSeq(net) /\ IsSeq(down) /\ IsSeq(table)
      /\ sent \in Nat /\ Len(table) \in Nat /\ IsSeq(Tail(net))
      /\ c \in 1..sent /\ ~Asked(Tail(net), c) /\ c \notin unnamed
      /\ \A mid \in 1..Len(table) : table[mid].cid # c
      /\ \A i \in 1..Len(rows) : rows[i].state = "failed" => rows[i].cid # c
      /\ \A i \in 1..Len(down) : down[i].t = "chat" => down[i].rows[1].cid # c
      /\ cl.meeting => HasRow(rows, c)
  BY ChatHead
<1>2. PICK n2 : n2 = Tail(net)
  OBVIOUS
<1>3. Fewer(n2, net, 1)
  BY <1>1, <1>2, OneServed
<1>4. PICK A : A = {p, a}
  OBVIOUS
<1>5. p \in A /\ a \in A /\ \A z \in A : z = p \/ z = a
  BY <1>4
<1>6. More(d1, down, A)
  <2>1. CASE d1 = down
    BY <1>1, <2>1, NoneMore
  <2>2. CASE d1 = Append(down, p)
    BY <1>1, <1>5, <2>2, OneMore
  <2> QED
    BY <2>1, <2>2 DEF Pushes
<1>7. PICK d2 : d2 = d1 \o Out(m.c, <<a>>)
  OBVIOUS
<1>8. /\ d2 = d1 \/ d2 = Append(d1, a)
      /\ m.c = cl.c /\ cl.sock = "up" /\ ~silent /\ sess[m.c].open => d2 = Append(d1, a)
  <2>1. IsSeq(d1)
    BY <1>6 DEF More
  <2> QED
    BY <1>7, <2>1, OutIs
<1>9. More(d2, d1, A)
  <2>1. IsSeq(d1)
    BY <1>6 DEF More
  <2>2. CASE d2 = d1
    BY <2>1, <2>2, NoneMore
  <2>3. CASE d2 = Append(d1, a)
    BY <1>5, <2>1, <2>3, OneMore
  <2> QED
    BY <1>8, <2>2, <2>3
<1>10. More(d2, down, A) /\ \A i \in 1..Len(d1) : i \in 1..Len(d2) /\ d2[i] = d1[i]
  BY <1>6, <1>9, TwiceMore
<1>11. Chat(cl, net, down, silent, sess, rows, table, sent, silently, fresh, unnamed)
  BY DEF ChatInv
<1>12. \A z \in A : ReplyOK(z, n2, t2, sent, sl2)
  BY <1>2, <1>5
<1>13. \A i \in 1..Len(rows) : rows[i].state = "sending" /\ 1 = 1 /\ net[1].t = "chat" /\ net[1].c = cl.c
                                 /\ net[1].x[1] = rows[i].cid =>
          silent \/ ~sess[cl.c].open \/ rows[i].cid \in unnamed
            \/ \E j \in 1..Len(d2) : d2[j].t = "chat" /\ d2[j].rows[1].cid = rows[i].cid
  <2> SUFFICES ASSUME NEW i \in 1..Len(rows), rows[i].state = "sending", net[1].c = cl.c,
                      net[1].x[1] = rows[i].cid, ~silent, sess[cl.c].open
               PROVE  \E j \in 1..Len(d2) : d2[j].t = "chat" /\ d2[j].rows[1].cid = rows[i].cid
    OBVIOUS
  <2>1. cl.rec = "Ready"
    BY <1>11 DEF Chat, Unanswered
  <2>2. cl.sock = "up"
    BY <2>1 DEF RecoveryInv, State, Channel, ClientOK
  <2>3. m.c = cl.c /\ rows[i].cid = c
    BY <1>1
  <2>4. d2 = Append(d1, a)
    BY <1>8, <2>2, <2>3
  <2>5. IsSeq(d1)
    BY <1>6 DEF More
  <2>6. Len(d1) + 1 \in 1..Len(d2) /\ d2[Len(d1) + 1] = a
    BY <1>5, <2>4, <2>5, OneMore
  <2> QED
    BY <2>3, <2>6 DEF Answering
<1>14. \A z \in A : cl.meeting /\ z.t = "push" /\ z.rows[1].mine => HasRow(rows, z.rows[1].cid)
  <2>1. cl.meeting /\ p.t = "push" => HasRow(rows, p.rows[1].cid)
    BY <1>1 DEF Tells, OwnPush, Answering
  <2>2. a.t # "push"
    BY DEF Answering
  <2> QED
    BY <1>5, <2>1, <2>2
<1>15. \A z \in A : /\ ~Joined(z)
                    /\ ToMember(z) => \E i \in 1..Len(net) : OfMember(net[i])
                    /\ z.t = "history" => cl.rec = "Ready"
  <2>1. OfMember(net[1])
    BY <1>1 DEF OfMember
  <2>2. p.t \in {"push", "chat"} /\ a.t = "chat"
    BY DEF Tells, OwnPush, Answering
  <2>3. ~Joined(p) /\ ~Joined(a) /\ p.t # "history" /\ a.t # "history"
    BY <2>2 DEF Joined
  <2> QED
    BY <1>1, <1>5, <2>1, <2>3
<1>16. \A i \in 1..Len(d2) : i > Len(down) /\ d2[i].t = "push" /\ ~d2[i].rows[1].mine =>
         /\ i = Len(down) + 1 /\ ~HasRow(rows, d2[i].rows[1].cid)
         /\ \A j \in 1..Len(down) : ~Names(down[j], d2[i].rows[1].mid)
  <2> SUFFICES ASSUME NEW i \in 1..Len(d2), i > Len(down), d2[i].t = "push", ~d2[i].rows[1].mine PROVE FALSE
    OBVIOUS
  <2>1. d2[i] \in A
    <3>1. Len(down) \in Nat
      BY <1>1, LenIs
    <3> QED
      BY <1>10, <3>1 DEF More
  <2>2. d2[i] = p \/ d2[i] = a
    BY <1>5, <2>1
  <2> QED
    BY <2>2 DEF Tells, OwnPush, Answering
<1>17. Attending(cl, d2, silent, sess) /\ Len(table) + 1 \in Latest(t2) \ sl2 =>
         \E j \in 1..Len(d2) : j > Len(down) /\ Names(d2[j], Len(table) + 1)
  <2> SUFFICES ASSUME Attending(cl, d2, silent, sess), Len(table) + 1 \in Latest(t2) \ sl2
               PROVE  \E j \in 1..Len(d2) : j > Len(down) /\ Names(d2[j], Len(table) + 1)
    OBVIOUS
  <2>1. Attending(cl, down, silent, sess)
    BY <1>10 DEF Attending, More
  <2>2. d1 = Append(down, p) /\ OwnPush(p, c, Len(table) + 1)
    BY <2>1 DEF Told
  <2>3. Len(down) + 1 \in 1..Len(d1) /\ d1[Len(down) + 1] = p /\ Len(down) + 1 > Len(down)
    BY <1>1, <1>5, <2>2, OneMore
  <2>4. Len(down) + 1 \in 1..Len(d2) /\ d2[Len(down) + 1] = p
    BY <1>10, <2>3
  <2> QED
    BY <2>2, <2>3, <2>4 DEF OwnPush
<1>18. \A z \in A : LatestPageOf(z) => \A mid \in Latest(t2) \ sl2 : Names(z, mid)
  <2>1. p.t # "history" /\ a.t # "history"
    BY DEF Tells, OwnPush, Answering
  <2> QED
    BY <1>5, <2>1 DEF LatestPageOf
<1>19. /\ ~Asked(n2, c) /\ sent <= sent /\ sent \in Nat
       /\ \A i \in 1..Len(rows) : rows[i].state = "failed" => rows[i].cid # c
       /\ \A i \in 1..Len(down) : down[i].t = "chat" => down[i].rows[1].cid # c
  BY <1>1, <1>2
<1>21. Unnamed(n2, t2, sent, unnamed)
  <2>1. Unnamed(net, table, sent, unnamed) /\ TableOK(table, sent)
    BY <1>11 DEF Chat
  <2> QED
    BY <1>1, <1>3, <1>19, <2>1, UnnamedServed
<1>20. Chat(cl, n2, d2, silent, sess, rows, t2, sent, sl2, fresh, unnamed)
  BY <1>3, <1>10, <1>11, <1>12, <1>13, <1>14, <1>15, <1>16, <1>17, <1>18, <1>19, <1>21,
     ServedKeeps
<1> QED
  BY <1>2, <1>7, <1>20

LEMMA ChatAnswerIs ==
  ASSUME NEW r, NEW cid, NEW mid, NEW kind, NEW a, a = ChatAnswer(r, cid, mid, kind)
  PROVE  /\ a.t = "chat" /\ a.result = r /\ IsSeq(a.rows) /\ Len(a.rows) = 1
         /\ a.rows[1] = [cid |-> cid, mid |-> mid, kind |-> kind, mine |-> TRUE]
         /\ a.rows[1].cid = cid /\ a.rows[1].mine /\ Answering(a, cid)
<1>1. PICK x : x = [cid |-> cid, mid |-> mid, kind |-> kind, mine |-> TRUE]
  OBVIOUS
<1>2. x.cid = cid /\ x.mine
  BY <1>1
<1>3. a.t = "chat" /\ a.result = r /\ a.rows = <<x>>
  BY <1>1 DEF ChatAnswer, Ans
<1>4. IsSeq(<<x>>) /\ Len(<<x>>) = 1 /\ <<x>>[1] = x
  <2>1. <<x>> \in Seq({x}) /\ Len(<<x>>) = 1 /\ <<x>>[1] = x
    OBVIOUS
  <2> QED
    BY <2>1 DEF IsSeq
<1>5. IsSeq(a.rows) /\ Len(a.rows) = 1 /\ a.rows[1] = x
  BY <1>3, <1>4
<1> QED
  BY <1>1, <1>2, <1>3, <1>5 DEF Answering

(* The handler stores nothing.                                             *)
LEMMA ChatRefused ==
  ASSUME RecoveryInv, ChatInv, net # <<>>, NEW m, m = Head(net), m.t = "chat", NEW c, c = m.x[1],
         NEW kind, NEW a, a = ChatAnswer("busy", c, 0, kind)
  PROVE  Chat(cl, Tail(net), down \o Out(m.c, <<a>>), silent, sess, rows, table, sent, silently, fresh, unnamed)
<1>1. /\ IsSeq(table) /\ c \in 1..sent /\ ~Asked(Tail(net), c) /\ Len(table) \in Nat
      /\ \A mid \in 1..Len(table) : table[mid].cid # c
  BY ChatHead
<1>2. Grown(table, table, silently, silently, c)
  BY <1>1, NotGrown
<1>3. TableOK(table, sent)
  BY DEF ChatInv, Chat
<1>4. /\ a.t = "chat" /\ a.result = "busy" /\ IsSeq(a.rows) /\ Len(a.rows) = 1
      /\ a.rows[1] = [cid |-> c, mid |-> 0, kind |-> kind, mine |-> TRUE]
      /\ a.rows[1].cid = c /\ a.rows[1].mine /\ Answering(a, c)
  BY ChatAnswerIs
<1>5. Held(table, silently, c)
  BY <1>1 DEF Held
<1>6. ReplyOK(a, Tail(net), table, sent, silently)
  <2>1. c \in 0..sent
    BY <1>1
  <2> QED
    BY <1>1, <1>4, <1>5, <2>1 DEF ReplyOK
<1>7. Pushes(down, down, a)
  BY DEF Pushes
<1>8. Tells(a, a, c, Len(table) + 1)
  BY DEF Tells
<1>9. Told(a, c, down, table, silently)
  <2>1. Len(table) + 1 \notin Latest(table)
    BY <1>1 DEF Latest
  <2> QED
    BY <2>1 DEF Told
<1>10. Answering(a, c)
  BY <1>4
<1> QED
  BY <1>2, <1>3, <1>6, <1>7, <1>8, <1>9, <1>10, ChatAnswered

(* It stores the message and cannot read it back.                          *)
LEMMA ChatStored ==
  ASSUME RecoveryInv, ChatInv, net # <<>>, NEW m, m = Head(net), m.t = "chat", NEW c, c = m.x[1],
         NEW kind, NEW a, a = ChatAnswer("busy", c, 0, kind),
         NEW x, x.cid = c, x.mine \in BOOLEAN
  PROVE  Chat(cl, Tail(net), down \o Out(m.c, <<a>>), silent, sess, rows,
              Append(table, x), sent, silently \cup {Len(table) + 1}, fresh, unnamed)
<1>1. /\ IsSeq(table) /\ c \in 1..sent /\ ~Asked(Tail(net), c) /\ Len(table) \in Nat /\ sent \in Nat
      /\ \A mid \in 1..Len(table) : table[mid].cid # c
  BY ChatHead
<1>2. PICK t2 : t2 = Append(table, x)
  OBVIOUS
<1>3. PICK sl2 : sl2 = silently \cup {Len(table) + 1}
  OBVIOUS
<1>4. Grown(t2, table, sl2, silently, c)
  <2>1. Adds(t2, table, x, c)
    BY <1>2 DEF Adds
  <2>2. silently \subseteq sl2
    BY <1>3
  <2> QED
    BY <1>1, <2>1, <2>2, GrownBy
<1>5. TableOK(t2, sent)
  <2>1. TableOK(table, sent)
    BY DEF ChatInv, Chat
  <2>2. sent <= sent
    BY <1>1
  <2> QED
    BY <1>1, <1>4, <2>1, <2>2, TableGrown
<1>6. /\ a.t = "chat" /\ a.result = "busy" /\ IsSeq(a.rows) /\ Len(a.rows) = 1
      /\ a.rows[1] = [cid |-> c, mid |-> 0, kind |-> kind, mine |-> TRUE]
      /\ a.rows[1].cid = c /\ a.rows[1].mine /\ Answering(a, c)
  BY ChatAnswerIs
<1>7. Held(t2, sl2, c)
  <2>1. \A mid \in 1..Len(t2) : t2[mid].cid = c => mid = Len(table) + 1
    BY <1>1, <1>4 DEF Grown
  <2> QED
    BY <1>3, <2>1 DEF Held
<1>8. ReplyOK(a, Tail(net), t2, sent, sl2)
  <2>1. c \in 0..sent
    BY <1>1
  <2> QED
    BY <1>1, <1>6, <1>7, <2>1 DEF ReplyOK
<1>9. Pushes(down, down, a)
  BY DEF Pushes
<1>10. Tells(a, a, c, Len(table) + 1) /\ Told(a, c, down, t2, sl2)
  BY <1>3 DEF Tells, Told
<1>11. Answering(a, c)
  BY <1>6
<1>12. Chat(cl, Tail(net), down \o Out(m.c, <<a>>), silent, sess, rows, t2, sent, sl2, fresh, unnamed)
  BY <1>4, <1>5, <1>8, <1>9, <1>10, <1>11, ChatAnswered
<1> QED
  BY <1>2, <1>3, <1>12

LEMMA OwnPushed ==
  ASSUME NEW t, NEW mid \in 1..Len(t), NEW c, t[mid].cid = c, t[mid].mine = TRUE,
         NEW p, p = Pushed(t, mid), NEW sn, NEW sl
  PROVE  OwnPush(p, c, mid) /\ \A n : ReplyOK(p, n, t, sn, sl)
<1>1. /\ p.t = "push" /\ p.result = "ok" /\ IsSeq(p.rows) /\ Len(p.rows) = 1
      /\ p.rows[1] = Stored(t, mid) /\ p.rows[1].mid = mid /\ p.rows[1].cid = t[mid].cid
      /\ p.rows[1].mine = t[mid].mine /\ IsStored(p.rows[1], t) /\ Names(p, mid)
  BY PushedIs
<1>2. p.rows[1].mine /\ p.rows[1].cid = c
  BY <1>1
<1> QED
  BY <1>1, <1>2 DEF OwnPush, ReplyOK

(* It stores the message, pushes it and answers.                           *)
LEMMA ChatServed ==
  ASSUME RecoveryInv, ChatInv, net # <<>>, NEW m, m = Head(net), m.t = "chat", NEW c, c = m.x[1],
         NEW kind, NEW a, a = ChatAnswer("ok", c, Len(table) + 1, kind),
         NEW x, x = [cid |-> c, kind |-> kind, mine |-> TRUE], ~srv.ended,
         NEW t2, t2 = Append(table, x)
  PROVE  Chat(cl, Tail(net), (down \o Push(t2, Len(table) + 1)) \o Out(m.c, <<a>>), silent, sess, rows,
              t2, sent, silently, fresh, unnamed)
<1>1. /\ IsSeq(table) /\ c \in 1..sent /\ ~Asked(Tail(net), c) /\ Len(table) \in Nat /\ sent \in Nat
      /\ \A mid \in 1..Len(table) : table[mid].cid # c
  BY ChatHead
<1>2. x.cid = c /\ x.mine \in BOOLEAN /\ x.mine = TRUE /\ x.kind = kind
  OBVIOUS
<1>3. Grown(t2, table, silently, silently, c)
  <2>1. Adds(t2, table, x, c)
    BY <1>2 DEF Adds
  <2> QED
    BY <1>1, <2>1, GrownBy
<1>4. TableOK(t2, sent)
  <2>1. TableOK(table, sent)
    BY DEF ChatInv, Chat
  <2>2. sent <= sent
    BY <1>1
  <2> QED
    BY <1>1, <1>3, <2>1, <2>2, TableGrown
<1>5. PICK L \in Nat : L = Len(table) + 1
  BY <1>1
<1>6. Len(t2) = L /\ t2[L] = x /\ L \in 1..Len(t2) /\ L \notin 1..Len(table)
  <2>1. Len(t2) = L /\ t2[L] = x
    BY <1>1, <1>5, AppendIs
  <2> QED
    BY <1>1, <1>5, <2>1
<1>7. PICK p : p = Pushed(t2, L)
  OBVIOUS
<1>8. t2[L].cid = c /\ t2[L].mine = TRUE
  BY <1>2, <1>6
<1>9. OwnPush(p, c, L) /\ \A n : ReplyOK(p, n, t2, sent, silently)
  BY <1>6, <1>7, <1>8, OwnPushed
<1>10. OwnPush(p, c, L)
  BY <1>9
<1>11. ReplyOK(p, Tail(net), t2, sent, silently)
  BY <1>9
<1>12. /\ a.t = "chat" /\ a.result = "ok" /\ IsSeq(a.rows) /\ Len(a.rows) = 1 /\ a.rows[1].cid = c
       /\ a.rows[1] = [cid |-> c, mid |-> L, kind |-> kind, mine |-> TRUE] /\ a.rows[1].mine
       /\ Answering(a, c)
  BY <1>5, ChatAnswerIs
<1>13. IsStored(a.rows[1], t2)
  <2>1. PICK y : y = [cid |-> c, mid |-> L, kind |-> kind, mine |-> TRUE]
    OBVIOUS
  <2>2. x.mine = TRUE
    OBVIOUS
  <2>3. Stored(t2, L) = y
    BY <1>2, <1>6, <2>1, <2>2 DEF Stored
  <2>4. y.mid = L
    BY <2>1
  <2>5. IsStored(y, t2)
    BY <1>6, <2>3, <2>4 DEF IsStored
  <2> QED
    BY <1>12, <2>1, <2>5
<1>14. ReplyOK(a, Tail(net), t2, sent, silently)
  <2>1. c \in 0..sent
    BY <1>1
  <2> QED
    BY <1>1, <1>12, <1>13, <2>1 DEF ReplyOK
<1>15. PICK d1 : d1 = down \o Push(t2, L)
  OBVIOUS
<1>16. (d1 = down \/ d1 = Append(down, p)) /\ (Attending(cl, down, silent, sess) => d1 = Append(down, p))
  BY <1>7, <1>15, PushIs
<1>17. Pushes(d1, down, p)
  BY <1>16 DEF Pushes
<1>18. Chat(cl, Tail(net), d1 \o Out(m.c, <<a>>), silent, sess, rows, t2, sent, silently, fresh, unnamed)
  <2>1. OwnPush(p, c, Len(table) + 1)
    BY <1>5, <1>10
  <2>2. Tells(p, a, c, Len(table) + 1) /\ Told(p, c, d1, t2, silently)
    BY <1>16, <2>1 DEF Tells, Told
  <2>3. Answering(a, c)
    BY <1>12
  <2> QED
    BY <1>3, <1>4, <1>11, <1>14, <1>17, <2>2, <2>3, ChatAnswered
<1> QED
  BY <1>5, <1>15, <1>18

(* ReplyError: the request is refused, and the answer names no message.    *)
LEMMA RefusedUnnamed == ASSUME RecoveryInv, ChatInv, ReplyError PROVE ChatInv'
<1>1. PICK m : m = Head(net)
  OBVIOUS
<1>2. /\ net # <<>> /\ m.t = "chat" /\ net' = Tail(net)
      /\ UNCHANGED <<cl, silent, sess, rows, table, sent, silently, fresh>>
  BY <1>1 DEF ReplyError, Handling
<1>3. PICK h : h = m.x[1]
  OBVIOUS
<1>4. PICK a : a = ChatAnswer("busy", 0, 0, m.x[2])
  OBVIOUS
<1>5. down' = down \o Out(m.c, <<a>>) /\ unnamed' = unnamed \cup {h}
  BY <1>1, <1>3, <1>4 DEF ReplyError, Deliver
<1>6. /\ a.t = "chat" /\ a.result = "busy" /\ IsSeq(a.rows) /\ Len(a.rows) = 1
      /\ a.rows[1].cid = 0
  <2>1. PICK kind, z : kind = m.x[2] /\ z = 0
    OBVIOUS
  <2>2. a = ChatAnswer("busy", z, z, kind)
    BY <1>4, <2>1
  <2>3. /\ a.t = "chat" /\ a.result = "busy" /\ IsSeq(a.rows) /\ Len(a.rows) = 1
        /\ a.rows[1] = [cid |-> z, mid |-> z, kind |-> kind, mine |-> TRUE]
        /\ a.rows[1].cid = z /\ a.rows[1].mine /\ Answering(a, z)
    BY <2>2, ChatAnswerIs
  <2> QED
    BY <2>1, <2>3
<1>7. /\ net[1] = m /\ 1 \in 1..Len(net) /\ IsSeq(net) /\ IsSeq(down) /\ IsSeq(table)
      /\ sent \in Nat /\ Len(table) \in Nat
      /\ h \in 1..sent /\ ~Asked(Tail(net), h)
      /\ \A mid \in 1..Len(table) : table[mid].cid # h
  BY <1>1, <1>2, <1>3, ChatHead
<1>8. Chat(cl, net, down, silent, sess, rows, table, sent, silently, fresh, unnamed)
  BY DEF ChatInv
<1>9. /\ TableOK(table, sent) /\ RowsOK(rows, net, table, sent, silently)
      /\ Requested(net, table, sent) /\ Replies(down, net, table, sent, silently)
      /\ Unnamed(net, table, sent, unnamed)
  BY <1>8 DEF Chat
<1>10. PICK n2 : n2 = Tail(net)
  OBVIOUS
<1>11. Fewer(n2, net, 1)
  BY <1>2, <1>7, <1>10, OneServed
<1>12. PICK c : c = sent + 1
  OBVIOUS
<1>13. c \notin 1..sent /\ \A x \in 0..sent : x # c
  BY <1>7, <1>12
<1>14. ~Asked(net, c)
  BY <1>9, <1>13 DEF Requested, Asked
<1>15. ~Asked(n2, c)
  BY <1>11, <1>14, FewerAsked
<1>16. Grown(table, table, silently, silently, c)
  BY <1>7, NotGrown
<1>17. PICK d2 : d2 = down \o Out(m.c, <<a>>)
  OBVIOUS
<1>18. PICK A : A = {a}
  OBVIOUS
<1>19. More(d2, down, A)
  <2>1. d2 = down \/ d2 = Append(down, a)
    BY <1>7, <1>17, OutIs
  <2>2. CASE d2 = down
    BY <1>7, <2>2, NoneMore
  <2>3. CASE d2 = Append(down, a)
    BY <1>7, <1>18, <2>3, OneMore
  <2> QED
    BY <2>1, <2>2, <2>3
<1>20. /\ sent <= sent
       /\ \A i \in 1..Len(rows) : rows[i].state = "failed" => rows[i].cid # c
       /\ \A i \in 1..Len(down) : down[i].t = "chat" => down[i].rows[1].cid # c
  <2>1. sent <= sent
    BY <1>7
  <2>2. \A i \in 1..Len(rows) : rows[i].cid # c
    BY <1>9, <1>13 DEF RowsOK, RowOK
  <2>3. \A i \in 1..Len(down) : down[i].t = "chat" => down[i].rows[1].cid # c
    BY <1>9, <1>13 DEF Replies, ReplyOK
  <2> QED
    BY <2>1, <2>2, <2>3
<1>21. ReplyOK(a, n2, table, sent, silently)
  <2>1. 0 \in 0..sent /\ 0 \notin 1..sent
    BY <1>7
  <2>2. ~Asked(net, 0)
    BY <1>9, <2>1 DEF Requested, Asked
  <2>3. ~Asked(n2, 0)
    BY <1>11, <2>2, FewerAsked
  <2>4. Held(table, silently, 0)
    BY <1>9, <2>1 DEF TableOK, Held
  <2> QED
    BY <1>6, <2>1, <2>3, <2>4 DEF ReplyOK
<1>22. PICK un2 : un2 = unnamed \cup {h}
  OBVIOUS
<1>23. Unnamed(n2, table, sent, un2)
  <2>1. c \notin unnamed
    BY <1>9, <1>13 DEF Unnamed
  <2>2. Unnamed(n2, table, sent, unnamed)
    BY <1>7, <1>9, <1>11, <1>16, <1>20, <2>1, UnnamedServed
  <2> QED
    BY <1>7, <1>10, <1>22, <2>2 DEF Unnamed
<1>24. \A i \in 1..Len(rows) : rows[i].state = "sending" /\ 1 = 1 /\ net[1].t = "chat" /\ net[1].c = cl.c
                                 /\ net[1].x[1] = rows[i].cid =>
          silent \/ ~sess[cl.c].open \/ rows[i].cid \in un2
            \/ \E j \in 1..Len(d2) : d2[j].t = "chat" /\ d2[j].rows[1].cid = rows[i].cid
  BY <1>3, <1>7, <1>22
<1>25. \A z \in A : z = a
  BY <1>18
<1>26. \A z \in A : ReplyOK(z, n2, table, sent, silently)
  BY <1>21, <1>25
<1>27. \A z \in A : cl.meeting /\ z.t = "push" /\ z.rows[1].mine => HasRow(rows, z.rows[1].cid)
  BY <1>6, <1>25
<1>28. \A z \in A : /\ ~Joined(z)
                    /\ ToMember(z) => \E i \in 1..Len(net) : OfMember(net[i])
                    /\ z.t = "history" => cl.rec = "Ready"
  BY <1>6, <1>25 DEF Joined, ToMember
<1>29. \A i \in 1..Len(d2) : i > Len(down) /\ d2[i].t = "push" /\ ~d2[i].rows[1].mine =>
         /\ i = Len(down) + 1 /\ ~HasRow(rows, d2[i].rows[1].cid)
         /\ \A j \in 1..Len(down) : ~Names(down[j], d2[i].rows[1].mid)
  <2> SUFFICES ASSUME NEW i \in 1..Len(d2), i > Len(down), d2[i].t = "push" PROVE FALSE
    OBVIOUS
  <2>1. d2[i] \in A
    <3>1. Len(down) \in Nat
      BY <1>7, LenIs
    <3> QED
      BY <1>19, <3>1 DEF More
  <2> QED
    BY <1>6, <1>25, <2>1
<1>30. Attending(cl, d2, silent, sess) /\ Len(table) + 1 \in Latest(table) \ silently =>
         \E j \in 1..Len(d2) : j > Len(down) /\ Names(d2[j], Len(table) + 1)
  <2>1. Len(table) + 1 \notin Latest(table)
    BY <1>7 DEF Latest
  <2> QED
    BY <2>1
<1>31. \A z \in A : LatestPageOf(z) => \A mid \in Latest(table) \ silently : Names(z, mid)
  BY <1>6, <1>25 DEF LatestPageOf
<1>32. unnamed \subseteq un2
  BY <1>22
<1>33. Chat(cl, n2, d2, silent, sess, rows, table, sent, silently, fresh, un2)
  BY <1>7, <1>8, <1>9, <1>11, <1>15, <1>16, <1>19, <1>20, <1>23, <1>24, <1>26, <1>27, <1>28, <1>29,
     <1>30, <1>31, <1>32, ServedKeeps
<1> QED
  BY <1>2, <1>5, <1>10, <1>17, <1>22, <1>33 DEF ChatInv

(* SendMeetingMessageHandler                                               *)
LEMMA MessageServed ==
  ASSUME RecoveryInv, ChatInv, NEW result, SendMeetingMessageHandler(result)
  PROVE  ChatInv'
<1>1. PICK m : m = Head(net)
  OBVIOUS
<1>2. net # <<>> /\ m.t = "chat" /\ net' = Tail(net) /\ UNCHANGED <<cl, silent, sess, rows, sent, unnamed, fresh>>
  BY <1>1 DEF SendMeetingMessageHandler, Handling
<1>3. PICK c : c = m.x[1]
  OBVIOUS
<1>4. PICK kind : kind = m.x[2]
  OBVIOUS
<1>5. PICK x : x = [cid |-> c, kind |-> kind, mine |-> TRUE]
  OBVIOUS
<1>6. PICK busy : busy = ChatAnswer("busy", c, 0, kind)
  OBVIOUS
<1>7. PICK mid : mid = FindMessage(SaveMeetingMessage(x), c)
  OBVIOUS
<1>8. PICK ok : ok = ChatAnswer("ok", c, mid, kind)
  OBVIOUS
<1>9. \/ down' = Deliver(m.c, <<busy>>) /\ UNCHANGED <<table, silently>>
      \/ /\ table' = SaveMeetingMessage(x) /\ silently' = silently \cup {mid}
         /\ down' = Deliver(m.c, <<busy>>)
      \/ /\ ~srv.ended /\ table' = SaveMeetingMessage(x) /\ UNCHANGED silently
         /\ down' = down \o Push(SaveMeetingMessage(x), mid) \o Out(m.c, <<ok>>)
  BY <1>1, <1>3, <1>4, <1>5, <1>6, <1>7, <1>8 DEF SendMeetingMessageHandler
<1>10. IsSeq(table) /\ x.cid = c /\ x.mine \in BOOLEAN /\ \A l \in 1..Len(table) : table[l].cid # x.cid
  BY <1>1, <1>2, <1>3, <1>5, ChatHead
<1>11. SaveMeetingMessage(x) = Append(table, x) /\ FindMessage(Append(table, x), x.cid) = Len(table) + 1
  BY <1>10, SavedIs
<1>12. mid = Len(table) + 1
  BY <1>7, <1>10, <1>11
<1>13. CASE down' = Deliver(m.c, <<busy>>) /\ UNCHANGED <<table, silently>>
  <2>1. Chat(cl, Tail(net), down \o Out(m.c, <<busy>>), silent, sess, rows, table, sent, silently, fresh, unnamed)
    BY <1>1, <1>2, <1>3, <1>6, ChatRefused
  <2> QED
    BY <1>2, <1>13, <2>1 DEF ChatInv, Deliver
<1>14. CASE /\ table' = SaveMeetingMessage(x) /\ silently' = silently \cup {mid}
            /\ down' = Deliver(m.c, <<busy>>)
  <2>1. Chat(cl, Tail(net), down \o Out(m.c, <<busy>>), silent, sess, rows,
             Append(table, x), sent, silently \cup {Len(table) + 1}, fresh, unnamed)
    BY <1>1, <1>2, <1>3, <1>6, <1>10, ChatStored
  <2> QED
    BY <1>2, <1>11, <1>12, <1>14, <2>1 DEF ChatInv, Deliver
<1>15. CASE /\ ~srv.ended /\ table' = SaveMeetingMessage(x) /\ UNCHANGED silently
            /\ down' = down \o Push(SaveMeetingMessage(x), mid) \o Out(m.c, <<ok>>)
  <2>1. PICK t2 : t2 = Append(table, x)
    OBVIOUS
  <2>2. ok = ChatAnswer("ok", c, Len(table) + 1, kind)
    BY <1>8, <1>12
  <2>3. Chat(cl, Tail(net), (down \o Push(t2, Len(table) + 1)) \o Out(m.c, <<ok>>), silent, sess, rows,
             t2, sent, silently, fresh, unnamed)
    BY <1>1, <1>2, <1>3, <1>5, <1>15, <2>1, <2>2, ChatServed
  <2> QED
    BY <1>2, <1>11, <1>12, <1>15, <2>1, <2>3 DEF ChatInv
<1> QED
  BY <1>9, <1>13, <1>14, <1>15

(* LatestPage names the latest of the ids, and nothing else.               *)
AmongLatest(mid, ids) == Cardinality({j \in ids : mid < j}) < Page

LatestOf(h, ids) ==
  /\ IsSeq(h)
  /\ \A i \in 1..Len(h) : /\ IsStored(h[i], table) /\ h[i].mid \in ids
                          /\ h[i].kind = table[h[i].mid].kind /\ AmongLatest(h[i].mid, ids)
  /\ \A mid \in ids : AmongLatest(mid, ids) => \E i \in 1..Len(h) : h[i].mid = mid

LEMMA LatestPageIs ==
  ASSUME IsSeq(table), NEW ids \in SUBSET (1..Len(table))
  PROVE  LatestOf(LatestPage(ids), ids)
<1>0. PICK h : h = LatestPage(ids)
  OBVIOUS
<1>1. PICK latest : latest = {i \in ids : Cardinality({j \in ids : i < j}) < Page}
  OBVIOUS
<1>2. PICK R : R = {p \in latest \X latest : p[1] < p[2]}
  OBVIOUS
<1>3. PICK oldest : oldest = InOrder(latest, R)
  OBVIOUS
<1>4. Len(table) \in Nat /\ latest \in SUBSET (1..Len(table))
  BY <1>1, LenIs
<1>5. IsFiniteSet(latest)
  <2>1. IsFiniteSet(1..Len(table))
    BY <1>4, FS_Interval
  <2> QED
    BY <1>4, <2>1, FS_Subset
<1>6. Orders(R, latest)
  <2>1. \A x, y \in latest : <<x, y>> \in R <=> x < y
    BY <1>2
  <2>2. \A x \in latest : x \in Int
    BY <1>4
  <2> QED
    BY <2>1, <2>2 DEF Orders
<1>7. PICK n : n = Cardinality(latest)
  OBVIOUS
<1>8. /\ n \in Nat
      /\ \A k \in 1..n : oldest[k] \in latest
      /\ \A x \in latest : \E k \in 1..n : oldest[k] = x
  BY <1>3, <1>5, <1>6, <1>7, Ranking
<1>9. DOMAIN oldest = 1..n
  BY <1>3, <1>7 DEF InOrder
<1>10. h = [k \in 1..n |-> Stored(table, oldest[k])]
  BY <1>0, <1>1, <1>2, <1>3, <1>9 DEF LatestPage
<1>11. DOMAIN h = 1..n /\ \A k \in 1..n : h[k] = Stored(table, oldest[k])
  BY <1>10
<1>12. IsSeq(h) /\ Len(h) = n
  <2>1. h = [k \in 1..n |-> h[k]]
    BY <1>10, <1>11
  <2> QED
    BY <1>8, <1>11, <2>1, MappedIs
<1>13. \A k \in 1..n : h[k].mid = oldest[k] /\ h[k].kind = table[oldest[k]].kind
  BY <1>11 DEF Stored
<1>14. ASSUME NEW i \in 1..n
       PROVE  /\ IsStored(h[i], table) /\ h[i].mid \in ids
              /\ h[i].kind = table[h[i].mid].kind
              /\ AmongLatest(h[i].mid, ids)
  <2>1. h[i].mid \in latest
    BY <1>8, <1>13
  <2>2. h[i].mid \in 1..Len(table) /\ h[i] = Stored(table, h[i].mid)
    BY <1>4, <1>11, <1>13, <2>1
  <2>3. h[i].mid \in ids /\ AmongLatest(h[i].mid, ids)
    BY <1>1, <2>1 DEF AmongLatest
  <2>4. h[i].kind = table[h[i].mid].kind
    BY <1>13
  <2> QED
    BY <2>2, <2>3, <2>4 DEF IsStored
<1>15. ASSUME NEW mid \in ids, AmongLatest(mid, ids)
       PROVE  \E i \in 1..n : h[i].mid = mid
  <2>1. mid \in latest
    BY <1>1, <1>15 DEF AmongLatest
  <2> QED
    BY <1>8, <1>13, <2>1
<1> QED
  BY <1>0, <1>12, <1>14, <1>15 DEF LatestOf

GroupIds(t) == {i \in 1..Len(t) : t[i].kind = "group"}

LEMMA LatestIs ==
  ASSUME NEW t, NEW mid
  PROVE  mid \in Latest(t) <=> mid \in GroupIds(t) /\ AmongLatest(mid, GroupIds(t))
<1>1. {j \in GroupIds(t) : mid < j} = {j \in 1..Len(t) : t[j].kind = "group" /\ mid < j}
  BY DEF GroupIds
<1> QED
  BY <1>1 DEF Latest, GroupIds, AmongLatest

(* What the server answers to a request for history.                       *)
PageOf(h, kind, b, t) ==
  /\ IsSeq(h) /\ \A i \in 1..Len(h) : IsStored(h[i], t) /\ h[i].kind = kind
  /\ kind = "group" /\ b = 0 =>
       /\ \A i \in 1..Len(h) : h[i].mid \in Latest(t)
       /\ \A mid \in Latest(t) : \E i \in 1..Len(h) : h[i].mid = mid

LEMMA GroupPageIs ==
  ASSUME IsSeq(table), NEW b, NEW h, h = GetMeetingGroupMessages(b)
  PROVE  PageOf(h, "group", b, table)
<1>1. PICK ids : ids = {i \in 1..Len(table) : table[i].kind = "group" /\ (b = 0 \/ i < b)}
  OBVIOUS
<1>2. h = LatestPage(ids)
  BY <1>1, LenIs DEF GetMeetingGroupMessages
<1>3. ids \in SUBSET (1..Len(table)) /\ \A i \in ids : table[i].kind = "group"
  BY <1>1
<1>4. LatestOf(h, ids)
  <2>1. ids \in SUBSET (1..Len(table))
    BY <1>3
  <2>2. LatestOf(LatestPage(ids), ids)
    BY <2>1, LatestPageIs
  <2> QED
    BY <1>2, <2>2
<1>5. ASSUME b = 0
      PROVE  /\ \A i \in 1..Len(h) : h[i].mid \in Latest(table)
             /\ \A mid \in Latest(table) : \E i \in 1..Len(h) : h[i].mid = mid
  <2>1. ids = GroupIds(table)
    BY <1>1, <1>5 DEF GroupIds
  <2>2. \A i \in 1..Len(h) : h[i].mid \in Latest(table)
    BY <1>4, <2>1, LatestIs DEF LatestOf
  <2>3. \A mid \in Latest(table) : \E i \in 1..Len(h) : h[i].mid = mid
    BY <1>4, <2>1, LatestIs DEF LatestOf
  <2> QED
    BY <2>2, <2>3
<1>6. \A i \in 1..Len(h) : h[i].kind = "group"
  BY <1>3, <1>4 DEF LatestOf
<1> QED
  BY <1>4, <1>5, <1>6 DEF PageOf, LatestOf

LEMMA PrivatePageIs ==
  ASSUME IsSeq(table), NEW b, NEW h, h = GetMeetingPrivateMessages(b)
  PROVE  PageOf(h, "private", b, table)
<1>1. PICK ids : ids = {i \in 1..Len(table) : table[i].kind = "private" /\ (b = 0 \/ i < b)}
  OBVIOUS
<1>2. h = LatestPage(ids)
  BY <1>1, LenIs DEF GetMeetingPrivateMessages
<1>3. ids \in SUBSET (1..Len(table)) /\ \A i \in ids : table[i].kind = "private"
  BY <1>1
<1>4. LatestOf(h, ids)
  <2>1. ids \in SUBSET (1..Len(table))
    BY <1>3
  <2>2. LatestOf(LatestPage(ids), ids)
    BY <2>1, LatestPageIs
  <2> QED
    BY <1>2, <2>2
<1>5. \A i \in 1..Len(h) : h[i].kind = "private"
  BY <1>3, <1>4 DEF LatestOf
<1> QED
  BY <1>4, <1>5 DEF PageOf, LatestOf

(* The answer a to the request m for history.                              *)
HistoryOf(a, m, h) ==
  /\ a.t = "history" /\ a.x = m.x /\ m.t = "history" /\ m.x[1] \in Kinds
  /\ PageOf(h, m.x[1], m.x[2], table)
  /\ \/ a.result = "ok" /\ a.rows = h
     \/ a.result # "ok" /\ a.rows = <<>>

LEMMA HistoryServed ==
  ASSUME RecoveryInv, ChatInv, net # <<>>, NEW m, m = Head(net), NEW h, NEW a, HistoryOf(a, m, h)
  PROVE  Chat(cl, Tail(net), down \o Out(m.c, <<a>>), silent, sess, rows, table, sent, silently, fresh, unnamed)
<1>1. /\ TableOK(table, sent) /\ RowsOK(rows, net, table, sent, silently)
      /\ Requested(net, table, sent) /\ Replies(down, net, table, sent, silently)
      /\ BehindJoin(cl, net, down)
  BY DEF ChatInv, Chat
<1>2. IsSeq(table) /\ sent \in Nat /\ IsSeq(net) /\ IsSeq(down) /\ Len(table) \in Nat
  BY <1>1, LenIs DEF TableOK, RecoveryInv, State, Channel, Ordered, Outstanding
<1>3. net[1] = m /\ 1 \in 1..Len(net) /\ m.t = "history" /\ a.t = "history"
  BY <1>2, TailIs DEF HistoryOf
<1>4. PICK n2 : n2 = Tail(net)
  OBVIOUS
<1>5. Fewer(n2, net, 1)
  BY <1>2, <1>4, OneServed
<1>27. PICK c : c = sent + 1
  OBVIOUS
<1>28. c \notin 1..sent /\ \A x \in 0..sent : x # c
  BY <1>2, <1>27
<1>6. ~Asked(net, c)
  BY <1>1, <1>28 DEF Requested, Asked
<1>7. ~Asked(n2, c)
  BY <1>5, <1>6, FewerAsked
<1>8. PICK d2 : d2 = down \o Out(m.c, <<a>>)
  OBVIOUS
<1>9. /\ d2 = down \/ d2 = Append(down, a)
      /\ ~(m.c = cl.c /\ cl.sock = "up") => d2 = down
  BY <1>2, <1>8, OutIs
<1>10. PICK A : A = {z \in {a} : m.c = cl.c /\ cl.sock = "up"}
  OBVIOUS
<1>11. \A z \in A : z = a /\ m.c = cl.c /\ cl.sock = "up"
  BY <1>10
<1>12. More(d2, down, A)
  <2>1. CASE d2 = down
    BY <1>2, <2>1, NoneMore
  <2>2. CASE d2 # down
    <3>1. a \in A /\ d2 = Append(down, a)
      BY <1>9, <1>10, <2>2
    <3> QED
      BY <1>2, <3>1, OneMore
  <2> QED
    BY <2>1, <2>2
<1>13. Grown(table, table, silently, silently, c)
  BY <1>2, NotGrown
<1>14. Chat(cl, net, down, silent, sess, rows, table, sent, silently, fresh, unnamed)
  BY DEF ChatInv
<1>15. /\ sent <= sent
       /\ \A i \in 1..Len(rows) : rows[i].state = "failed" => rows[i].cid # c
       /\ \A i \in 1..Len(down) : down[i].t = "chat" => down[i].rows[1].cid # c
  <2>1. sent <= sent
    BY <1>2
  <2>2. \A i \in 1..Len(rows) : rows[i].cid # c
    BY <1>1, <1>28 DEF RowsOK, RowOK
  <2>3. \A i \in 1..Len(down) : down[i].t = "chat" => down[i].rows[1].cid # c
    BY <1>1, <1>28 DEF Replies, ReplyOK
  <2> QED
    BY <2>1, <2>2, <2>3
<1>16. ReplyOK(a, n2, table, sent, silently)
  <2>1. a.x[1] \in Kinds /\ a.t # "chat" /\ a.t # "push" /\ (a.result # "ok" => a.rows = <<>>)
    BY <1>3 DEF HistoryOf
  <2>2. IsSeq(a.rows) /\ \A i \in 1..Len(a.rows) : IsStored(a.rows[i], table) /\ a.rows[i].kind = a.x[1]
    <3>1. CASE a.rows = <<>>
      BY <3>1, EmptyIs
    <3>2. CASE a.rows = h
      BY <3>2 DEF HistoryOf, PageOf
    <3> QED
      BY <3>1, <3>2 DEF HistoryOf
  <2> QED
    BY <2>1, <2>2 DEF ReplyOK
<1>17. \A z \in A : ReplyOK(z, n2, table, sent, silently)
  BY <1>11, <1>16
<1>18. \A i \in 1..Len(rows) : rows[i].state = "sending" /\ 1 = 1 /\ net[1].t = "chat" /\ net[1].c = cl.c
                                 /\ net[1].x[1] = rows[i].cid =>
          silent \/ ~sess[cl.c].open \/ rows[i].cid \in unnamed
            \/ \E j \in 1..Len(d2) : d2[j].t = "chat" /\ d2[j].rows[1].cid = rows[i].cid
  BY <1>3
<1>19. \A z \in A : cl.meeting /\ z.t = "push" /\ z.rows[1].mine => HasRow(rows, z.rows[1].cid)
  BY <1>3, <1>11
<1>20. \A z \in A : /\ ~Joined(z)
                    /\ ToMember(z) => \E i \in 1..Len(net) : OfMember(net[i])
                    /\ z.t = "history" => cl.rec = "Ready"
  <2> SUFFICES ASSUME NEW z \in A
               PROVE  ~Joined(a) /\ (\E i \in 1..Len(net) : OfMember(net[i])) /\ cl.rec = "Ready"
    BY <1>11
  <2>1. m.c = cl.c /\ cl.sock = "up"
    BY <1>11
  <2>2. cl.rec = "Ready"
    BY <1>1, <1>3, <2>1 DEF BehindJoin
  <2>3. OfMember(net[1]) /\ ~Joined(a)
    BY <1>3 DEF OfMember, Joined
  <2> QED
    BY <1>3, <2>2, <2>3
<1>21. \A i \in 1..Len(d2) : i > Len(down) /\ d2[i].t = "push" /\ ~d2[i].rows[1].mine =>
         /\ i = Len(down) + 1 /\ ~HasRow(rows, d2[i].rows[1].cid)
         /\ \A j \in 1..Len(down) : ~Names(down[j], d2[i].rows[1].mid)
  <2> SUFFICES ASSUME NEW i \in 1..Len(d2), i > Len(down), d2[i].t = "push" PROVE FALSE
    OBVIOUS
  <2>1. d2[i] \in A
    <3>1. Len(down) \in Nat
      BY <1>2, LenIs
    <3> QED
      BY <1>12, <3>1 DEF More
  <2> QED
    BY <1>3, <1>11, <2>1
<1>22. Attending(cl, d2, silent, sess) /\ Len(table) + 1 \in Latest(table) \ silently =>
         \E j \in 1..Len(d2) : j > Len(down) /\ Names(d2[j], Len(table) + 1)
  <2>1. Len(table) + 1 \notin Latest(table)
    BY <1>2 DEF Latest
  <2> QED
    BY <2>1
<1>23. LatestPageOf(a) => \A mid \in Latest(table) \ silently : Names(a, mid)
  <2> SUFFICES ASSUME LatestPageOf(a), NEW mid \in Latest(table) PROVE Names(a, mid)
    OBVIOUS
  <2>1. a.result = "ok" /\ a.x = <<"group", 0>> /\ a.t = "history"
    BY DEF LatestPageOf
  <2>2. m.x[1] = "group" /\ m.x[2] = 0 /\ a.rows = h
    BY <2>1 DEF HistoryOf
  <2>3. \E i \in 1..Len(h) : h[i].mid = mid
    BY <2>2 DEF HistoryOf, PageOf
  <2> QED
    BY <2>1, <2>2, <2>3 DEF Names
<1>24. \A z \in A : LatestPageOf(z) => \A mid \in Latest(table) \ silently : Names(z, mid)
  BY <1>11, <1>23
<1>25. TableOK(table, sent) /\ sent \in Nat
  BY <1>1, <1>2
<1>29. Unnamed(n2, table, sent, unnamed)
  <2>1. Unnamed(net, table, sent, unnamed)
    BY <1>14 DEF Chat
  <2>2. c \notin unnamed
    BY <1>28, <2>1 DEF Unnamed
  <2> QED
    BY <1>1, <1>2, <1>5, <1>13, <1>15, <2>1, <2>2, UnnamedServed
<1>26. Chat(cl, n2, d2, silent, sess, rows, table, sent, silently, fresh, unnamed)
  BY <1>5, <1>7, <1>12, <1>13, <1>14, <1>15, <1>17, <1>18, <1>19, <1>20, <1>21, <1>22, <1>24, <1>25,
     <1>29, ServedKeeps
<1> QED
  BY <1>4, <1>8, <1>26

(* The answer of the two handlers.                                         *)
LEMMA HistoryServes ==
  ASSUME RecoveryInv, ChatInv, net # <<>>, NEW m, m = Head(net), m.t = "history", m.x[1] \in Kinds,
         NEW h, PageOf(h, m.x[1], m.x[2], table), NEW ok \in BOOLEAN, HistoryAnswer(m, ok, h),
         net' = Tail(net), UNCHANGED <<cl, silent, sess, chatVars>>
  PROVE  ChatInv'
<1>1. PICK a : a = [Ans("history", IF ok THEN "ok" ELSE "busy") EXCEPT
                      !.x = m.x, !.rows = IF ok THEN h ELSE <<>>]
  OBVIOUS
<1>2. a.t = "history" /\ a.x = m.x
      /\ ((a.result = "ok" /\ a.rows = h) \/ (a.result # "ok" /\ a.rows = <<>>))
  <2>1. CASE ok
    BY <1>1, <2>1 DEF Ans
  <2>2. CASE ~ok
    BY <1>1, <2>2 DEF Ans
  <2> QED
    BY <2>1, <2>2
<1>3. HistoryOf(a, m, h)
  BY <1>2 DEF HistoryOf
<1>4. down' = down \o Out(m.c, <<a>>)
  BY <1>1 DEF HistoryAnswer, Deliver
<1>5. Chat(cl, Tail(net), down \o Out(m.c, <<a>>), silent, sess, rows, table, sent, silently, fresh, unnamed)
  BY <1>3, HistoryServed
<1> QED
  BY <1>4, <1>5 DEF ChatInv, chatVars

LEMMA GroupHistoryServed ==
  ASSUME RecoveryInv, ChatInv, NEW result, GetMeetingGroupMessagesHandler(result)
  PROVE  ChatInv'
<1>1. PICK m : m = Head(net)
  OBVIOUS
<1>2. PICK h : h = GetMeetingGroupMessages(m.x[2])
  OBVIOUS
<1>3. PICK ok \in BOOLEAN : ok = (result = "ok" /\ sess[m.c].meeting)
  OBVIOUS
<1>4. /\ net # <<>> /\ m.t = "history" /\ m.x[1] = "group" /\ net' = Tail(net)
      /\ UNCHANGED <<cl, silent, sess, chatVars>> /\ HistoryAnswer(m, ok, h)
  BY <1>1, <1>2, <1>3 DEF GetMeetingGroupMessagesHandler, Handling
<1>5. m.x[1] \in Kinds /\ PageOf(h, m.x[1], m.x[2], table)
  <2>1. IsSeq(table)
    BY DEF ChatInv, Chat, TableOK
  <2>2. PageOf(h, "group", m.x[2], table)
    BY <1>2, <2>1, GroupPageIs
  <2> QED
    BY <1>4, <2>2 DEF Kinds
<1> QED
  BY <1>1, <1>4, <1>5, HistoryServes

LEMMA PrivateHistoryServed ==
  ASSUME RecoveryInv, ChatInv, NEW result, GetMeetingPrivateMessagesHandler(result)
  PROVE  ChatInv'
<1>1. PICK m : m = Head(net)
  OBVIOUS
<1>2. PICK h : h = GetMeetingPrivateMessages(m.x[2])
  OBVIOUS
<1>3. PICK ok \in BOOLEAN : ok = (result = "ok" /\ sess[m.c].meeting /\ srv.peer # "absent")
  OBVIOUS
<1>4. /\ net # <<>> /\ m.t = "history" /\ m.x[1] = "private" /\ net' = Tail(net)
      /\ UNCHANGED <<cl, silent, sess, chatVars>> /\ HistoryAnswer(m, ok, h)
  BY <1>1, <1>2, <1>3 DEF GetMeetingPrivateMessagesHandler, Handling
<1>5. m.x[1] \in Kinds /\ PageOf(h, m.x[1], m.x[2], table)
  <2>1. IsSeq(table)
    BY DEF ChatInv, Chat, TableOK
  <2>2. PageOf(h, "private", m.x[2], table)
    BY <1>2, <2>1, PrivatePageIs
  <2> QED
    BY <1>4, <2>2 DEF Kinds
<1> QED
  BY <1>1, <1>4, <1>5, HistoryServes

-----------------------------------------------------------------------------
(* The specification, with the chat                                        *)

LEMMA InitChat == ASSUME Init PROVE ChatInv
<1>1. /\ cl.rec = "Ready" /\ rows = <<>> /\ table = <<>> /\ sent = 0 /\ silently = {}
      /\ unnamed = {} /\ fresh = FALSE
      /\ net = <<>> /\ down = <<>>
  BY DEF Init, RecoveryInit, ChatInit
<1>2. /\ IsSeq(rows) /\ IsSeq(table) /\ 1..Len(rows) = {} /\ 1..Len(table) = {}
      /\ 1..Len(net) = {} /\ 1..Len(down) = {}
  BY <1>1, EmptyIs
<1>3. TableOK(table, sent) /\ Requested(net, table, sent) /\ RowsOK(rows, net, table, sent, silently)
      /\ Replies(down, net, table, sent, silently)
  BY <1>1, <1>2 DEF TableOK, Requested, RowsOK, Replies
<1>4. /\ Unanswered(cl, net, down, silent, sess, rows, unnamed)
      /\ Unnamed(net, table, sent, unnamed) /\ Cleared(cl, rows, fresh)
  BY <1>1, <1>2 DEF Unanswered, Unnamed, Cleared
<1>5. OwnShown(cl, net, down, rows) /\ BehindJoin(cl, net, down) /\ FirstNamed(down, rows)
  BY <1>1, <1>2 DEF OwnShown, BehindJoin, FirstNamed
<1>6. PageFollows(cl, down, silent, sess, rows, table, silently, fresh)
  BY <1>1, <1>2 DEF PageFollows
<1> QED
  BY <1>3, <1>4, <1>5, <1>6 DEF ChatInv, Chat

LEMMA NextChat == ASSUME RecoveryInv, ChatInv, [Next]_vars PROVE ChatInv'
<1>1. CASE RecoveryNext /\ RowsFollow /\ UNCHANGED <<table, sent, silently, unnamed>>
  BY <1>1, RecoveryChat
<1>2. CASE ChatReceive
  BY <1>2, ReceiveChat
<1>3. CASE \E kind \in Kinds : SendMessage(kind) \/ PeerMessage(kind)
  BY <1>3, ChatSent, PeerChat
<1>4. CASE \E kind \in Kinds, older \in BOOLEAN : RequestHistory(kind, older)
  BY <1>4, HistoryRequested
<1>5. CASE \E result \in {"ok", "busy", "stored"} : SendMeetingMessageHandler(result)
  BY <1>5, MessageServed
<1>6. CASE \E result \in {"ok", "busy"} : GetMeetingGroupMessagesHandler(result)
                                          \/ GetMeetingPrivateMessagesHandler(result)
  BY <1>6, GroupHistoryServed, PrivateHistoryServed
<1>7. CASE UNCHANGED vars
  BY <1>7 DEF vars, recoveryVars, chatVars, ChatInv
<1>8. CASE ReplyError
  BY <1>8, RefusedUnnamed
<1> QED
  BY <1>1, <1>2, <1>3, <1>4, <1>5, <1>6, <1>7, <1>8 DEF Next

(* The invariant of the chat: what ChatController shows, what is stored in *)
(* meeting_messages and what is under way between them                     *)
(* (SendMeetingMessageHandler, the history handlers, mergeHistoryMessages).*)
THEOREM ChatInvariant == Spec => []ChatInv
<1>1. RecoveryInv /\ ChatInv /\ [Next]_vars => ChatInv'
  BY NextChat
<1> QED
  BY <1>1, InitChat, RecoveryInvariant, PTL DEF Spec

(* A message shown as failed was pushed to nobody, nor will be:            *)
(* ChatController::applySendMessageAck says "failed" after a refusal of    *)
(* SendMeetingMessageHandler, connectionInterrupted only "unknown".        *)
THEOREM FailedHolds == Spec => []FailedWasNotShown
<1>1. ChatInv => FailedWasNotShown
  <2> SUFFICES ASSUME ChatInv PROVE FailedWasNotShown
    OBVIOUS
  <2>1. RowsOK(rows, net, table, sent, silently) /\ TableOK(table, sent)
    BY DEF ChatInv, Chat
  <2>2. DOMAIN rows = 1..Len(rows) /\ DOMAIN table = 1..Len(table)
    BY <2>1, LenIs DEF RowsOK, TableOK
  <2> QED
    BY <2>1, <2>2 DEF FailedWasNotShown, RowsOK, RowOK, Held
<1> QED
  BY <1>1, ChatInvariant, PTL

(* When nothing is under way a message is "sending" only if ReplyError     *)
(* refused it: the answer names no message, applySendMessageAck passes it  *)
(* over, and the message is not stored.  Every other request was answered, *)
(* or connectionInterrupted gave its message up.                           *)
THEOREM AnsweredHolds == Spec => []OnlyUnnamedHang
<1>1. ChatInv => OnlyUnnamedHang
  <2> SUFFICES ASSUME ChatInv, Quiet, NEW i \in DOMAIN rows, rows[i].state = "sending"
               PROVE  /\ rows[i].cid \in unnamed
                      /\ \A mid \in DOMAIN table : table[mid].cid # rows[i].cid
    BY DEF OnlyUnnamedHang
  <2>1. /\ RowsOK(rows, net, table, sent, silently) /\ TableOK(table, sent)
        /\ Unanswered(cl, net, down, silent, sess, rows, unnamed)
        /\ Unnamed(net, table, sent, unnamed)
    BY DEF ChatInv, Chat
  <2>2. i \in 1..Len(rows) /\ DOMAIN table = 1..Len(table)
    BY <2>1, LenIs DEF RowsOK, TableOK
  <2>3. 1..Len(net) = {} /\ 1..Len(down) = {} /\ ~silent /\ sess[cl.c].open
    BY EmptyIs DEF Quiet
  <2>4. rows[i].cid \in unnamed
    BY <2>1, <2>2, <2>3 DEF Unanswered
  <2> QED
    BY <2>1, <2>2, <2>4 DEF Unnamed
<1> QED
  BY <1>1, ChatInvariant, PTL

(* At rest the latest page of the group chat is shown, each message once   *)
(* and as the server stored it: mergeHistoryMessages, applySendMessageAck  *)
(* and applyMessageReceived find what is shown already by client_msg_id    *)
(* or message id.                                                          *)
THEOREM PageHolds == Spec => []PageIsShown
<1>1. ChatInv => PageIsShown
  <2> SUFFICES ASSUME ChatInv, Quiet, fresh, cl.meeting,
                      NEW k \in DOMAIN GetMeetingGroupMessages(0),
                      NEW m, m = GetMeetingGroupMessages(0)[k], m.mid \notin silently
               PROVE  /\ Cardinality({i \in DOMAIN rows : rows[i].cid = m.cid \/ rows[i].mid = m.mid}) = 1
                      /\ rows[FindMessage(rows, m.cid)] = FromServer(m, m.mine)
    BY DEF PageIsShown
  <2>1. /\ RowsOK(rows, net, table, sent, silently) /\ TableOK(table, sent)
        /\ PageFollows(cl, down, silent, sess, rows, table, silently, fresh)
    BY DEF ChatInv, Chat
  <2>2. IsSeq(rows) /\ DOMAIN rows = 1..Len(rows) /\ Len(rows) \in Nat /\ Len(table) \in Nat
    BY <2>1, LenIs DEF RowsOK, TableOK
  <2>3. IsStored(m, table) /\ m.mid \in Latest(table)
    <3>1. PICK h : h = GetMeetingGroupMessages(0)
      OBVIOUS
    <3>2. PageOf(h, "group", 0, table)
      <4>1. IsSeq(table)
        BY <2>1 DEF TableOK
      <4> QED
        BY <3>1, <4>1, GroupPageIs
    <3>3. k \in 1..Len(h) /\ m = h[k]
      BY <3>1, <3>2, LenIs DEF PageOf
    <3> QED
      BY <3>2, <3>3 DEF PageOf
  <2>4. Attending(cl, down, silent, sess)
    BY EmptyIs DEF Quiet, Attending
  <2>5. Shows(rows, m.mid)
    <3>1. 1..Len(down) = {}
      BY EmptyIs DEF Quiet
    <3> QED
      BY <2>1, <2>3, <2>4, <3>1 DEF PageFollows
  <2>6. PICK i \in 1..Len(rows) : rows[i].mid = m.mid
    BY <2>5 DEF Shows
  <2>7. m.mid \in 1..Len(table) /\ m = Stored(table, m.mid) /\ m.mid # 0
    BY <2>2, <2>3 DEF IsStored
  <2>8. m.cid = table[m.mid].cid /\ m.mine = table[m.mid].mine
    BY <2>7 DEF Stored
  <2>9. RowOK(rows[i], net, table, sent, silently)
    BY <2>1 DEF RowsOK
  <2>10. rows[i].cid = m.cid /\ rows[i] = FromServer(m, m.mine)
    BY <2>6, <2>7, <2>8, <2>9 DEF RowOK
  <2>11. ASSUME NEW j \in 1..Len(rows), rows[j].cid = m.cid \/ rows[j].mid = m.mid PROVE j = i
    <3>1. CASE rows[j].cid = m.cid
      BY <2>1, <2>10, <3>1 DEF RowsOK
    <3>2. CASE rows[j].mid = m.mid
      <4>1. RowOK(rows[j], net, table, sent, silently)
        BY <2>1 DEF RowsOK
      <4>2. rows[j].cid = m.cid
        BY <2>7, <2>8, <3>2, <4>1 DEF RowOK
      <4> QED
        BY <2>1, <2>10, <4>2 DEF RowsOK
    <3> QED
      BY <2>11, <3>1, <3>2
  <2>12. {j \in DOMAIN rows : rows[j].cid = m.cid \/ rows[j].mid = m.mid} = {i}
    BY <2>2, <2>6, <2>11
  <2>13. FindMessage(rows, m.cid) = i
    <3>1. PICK row : row = FindMessage(rows, m.cid)
      OBVIOUS
    <3>2. row \in 0..Len(rows) /\ (row # 0 => rows[row].cid = m.cid) /\ (row = 0 => ~HasRow(rows, m.cid))
      BY <2>2, <3>1, FindIs
    <3>3. row # 0
      BY <2>10, <3>2 DEF HasRow
    <3>4. row \in 1..Len(rows)
      BY <2>2, <3>2, <3>3
    <3> QED
      BY <2>11, <3>1, <3>2, <3>3, <3>4
  <2> QED
    BY <2>10, <2>12, <2>13, FS_Singleton
<1> QED
  BY <1>1, ChatInvariant, PTL
=============================================================================
