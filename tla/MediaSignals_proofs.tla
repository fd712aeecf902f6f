-------------------------- MODULE MediaSignals_proofs --------------------------
(***************************************************************************)
(* Proofs about the signalling path of a meeting's media (MediaSignals):   *)
(* for any number of members, connections, sessions and PeerConnections, a *)
(* frame that reaches a client's PeerConnection was made for that very     *)
(* one, and a packet is written only to the tracks of its own instance.    *)
(*                                                                         *)
(* Signal ids start again with RealtimeServer, UDS connections do not.  So *)
(* the invariant says of every frame, on whatever queue, that came or goes *)
(* on the current connection which PeerConnection its signal id stands for *)
(* (T), and of every client that what is under way of earlier media        *)
(* sessions is released before it is back in the meeting.                  *)
(*                                                                         *)
(* In the second part each PeerConnection has one token, which its offer,  *)
(* its session, the session's offer and the answer pass on: a token is in  *)
(* one place at most of the whole path, so a session never has two offers  *)
(* outstanding.                                                            *)
(*                                                                         *)
(* In the third part whatever MediaServer has or will have a session for   *)
(* is known to RealtimeServer, or its leave is on the way: when nothing is *)
(* left to do, no session is an orphan.                                    *)
(***************************************************************************)
EXTENDS MediaSignals, Integers, FiniteSetTheorems, TLAPS

PeerFields == {"inst", "sig", "conn", "tag", "init", "waiting", "pending", "state", "out",
               "offered", "open"}
TableFields == {"peers", "video", "audio", "post"}

IsSeq(q) == \E S : q \in Seq(S)

(* T[id] is the PeerConnection whose offer got the signal id.              *)
Tagged(m, T) == m.sig \in 1..(nextSig - 1) /\ m.tag = T[m.sig]

(* A frame for that PeerConnection.                                        *)
Genuine(m, T) == Tagged(m, T) /\ m.type # "joined"

(* The connections.                                                        *)
Connected ==
  /\ nconn \in 1..MaxConns /\ econn \in 0..nconn
  /\ active # 0 <=> econn # 0
  /\ connected => active # 0
  /\ epoch \in Nat /\ nextSig \in Nat \ {0} /\ pcs \in Nat
  /\ serving \in 0..nconn
  /\ IsSeq(backlog) /\ \A i \in 1..Len(backlog) : backlog[i] \in 1..nconn

(* A frame on its way to MediaServer.                                      *)
FrameOK(f, T) == f.uid \in Users /\ (f.type = "offer" => Tagged(f, T))

(* Connections to be opened are unused.                                    *)
Wired(T) ==
  /\ DOMAIN wire = Conns /\ \A c \in Conns : IsSeq(wire[c])
  /\ \A c \in Conns : c > nconn => wire[c] = <<>>
  /\ \A c \in Conns : \A i \in 1..Len(wire[c]) : wire[c][i].uid \in Users
  /\ econn # 0 => \A i \in 1..Len(wire[econn]) : FrameOK(wire[econn][i], T)

(* MediaServer: what it holds of the epoch's connection has the tag of its *)
(* signal id.                                                              *)
PeerRec(p, T) ==
  DOMAIN p = PeerFields /\ p.conn \in 1..nconn /\ (p.conn = econn => Tagged(p, T))

PeersOK(ps, T) ==
  DOMAIN ps = Users /\ \A u \in Users : ps[u] # NoPeer => PeerRec(ps[u], T)

EventOK(e, T) ==
  /\ e.t = "signal" => /\ e.uid \in Users /\ e.conn \in 1..nconn
                       /\ e.type = "offer" /\ e.conn = econn => Tagged(e, T)
  /\ e.t = "ready" => e.uid \in Users
  /\ e.t = "local" => e.conn \in 1..nconn /\ (e.conn = econn => Genuine(e, T))

EventsOK(q, T) == IsSeq(q) /\ \A i \in 1..Len(q) : EventOK(q[i], T)

ControlOK(T) ==
  /\ IsSeq(control)
  /\ \A i \in 1..Len(control) : control[i].t = "message" =>
       /\ control[i].conn \in 1..nconn
       /\ control[i].conn = econn => Genuine(control[i].m, T)

(* RealtimeServer: the room's strand, its operation and the signal table.  *)
RequestOK(o, T) == o.session \in Sessions /\ (o.t = "response" => Genuine(o.m, T))

QueueOK(T) == IsSeq(roomq) /\ \A i \in 1..Len(roomq) : RequestOK(roomq[i], T)

OpOK(T) ==
  op # <<>> => /\ op[1].session \in Sessions
               /\ op[1].id \in 1..(nextSig - 1) /\ op[1].tag = T[op[1].id]

BindingsOK ==
  /\ sig \in [Sessions -> 0..(nextSig - 1)]
  /\ \A id \in DOMAIN signals : signals[id].session \in Sessions

Named(o, t, s) == o.t = t /\ o.session = s

(* No offer of the session s counts any more, and none is under way.       *)
Clean(s, q, g) == g = 0 /\ \A i \in 1..Len(q) : ~Named(q[i], "offer", s)

(* The client, in phase ph with PeerConnection p, between what it has asked *)
(* for (q), the signal id of its session (g) and what comes for it (d).    *)
Publishing(ph, p, d, s, q, g, T) ==
  /\ ph = "in"
  /\ \A i \in 1..Len(q) : Named(q[i], "offer", s) => q[i].tag = p
  /\ g # 0 => T[g] = p
  /\ \A i \in 1..Len(d) : d[i].type # "joined" /\ d[i].tag = p

(* Before it joins again its session's media is released.                  *)
Closing(s, q, g) ==
  /\ \A i \in 1..Len(q) : Named(q[i], "offer", s) => \E j \in i..Len(q) : Named(q[j], "leave", s)
  /\ g # 0 => \E j \in 1..Len(q) : Named(q[j], "leave", s)

NoJoin(s, q) == \A i \in 1..Len(q) : ~Named(q[i], "join", s)

Joining(d, s, q, g) ==
  /\ \A i, j \in 1..Len(q) : Named(q[i], "leave", s) /\ Named(q[j], "join", s) => i < j
  /\ \A i, j \in 1..Len(q) : Named(q[i], "join", s) /\ Named(q[j], "join", s) => i = j
  /\ \A i \in 1..Len(d) : d[i].type = "joined" => i = Len(d) /\ Clean(s, q, g) /\ NoJoin(s, q)

UserOK(ph, p, d, s, q, g, T) ==
  /\ ph \in {"in", "out", "joining"} /\ IsSeq(d)
  /\ p # 0 => Publishing(ph, p, d, s, q, g, T)
  /\ ph = "in" => NoJoin(s, q)
  /\ ph = "in" /\ p = 0 => Clean(s, q, g) /\ d = <<>>
  /\ ph # "in" => Closing(s, q, g)
  /\ ph = "out" => NoJoin(s, q) /\ \A i \in 1..Len(d) : d[i].type # "joined"
  /\ ph = "joining" => Joining(d, s, q, g)

(* Sessions to come.                                                       *)
Unused(u) ==
  \A k \in 1..MaxSessions : k > cur[u] =>
    sig[<<u, k>>] = 0
    /\ \A i \in 1..Len(roomq) : roomq[i].t # "response" => roomq[i].session # <<u, k>>

UserIs(u, T) ==
  UserOK(phase[u], pc[u], toClient[u], Current(u), roomq, sig[Current(u)], T)

ClientsOK(T) ==
  /\ cur \in [Users -> 1..MaxSessions]
  /\ DOMAIN phase = Users /\ DOMAIN pc = Users /\ DOMAIN toClient = Users
  /\ \A u \in Users : Unused(u)
  /\ \A u \in Users : UserIs(u, T)

MediaOK(T) == PeersOK(peers, T) /\ EventsOK(fifo, T) /\ ControlOK(T)

Signalled(T) ==
  /\ Connected /\ Wired(T) /\ MediaOK(T)
  /\ QueueOK(T) /\ OpOK(T) /\ BindingsOK
  /\ ClientsOK(T)

SignalInv == \E T : Signalled(T)

-----------------------------------------------------------------------------
(* Sequences                                                               *)

LEMMA AppendIs ==
  ASSUME NEW s, IsSeq(s), NEW h
  PROVE  /\ IsSeq(Append(s, h)) /\ Len(s) \in Nat /\ Len(Append(s, h)) = Len(s) + 1
         /\ Append(s, h)[Len(s) + 1] = h
         /\ \A i \in 1..Len(s) : Append(s, h)[i] = s[i]
         /\ Append(s, h) # <<>>
<1>1. PICK S : s \in Seq(S)
  BY DEF IsSeq
<1>2. PICK T : T = S \cup {h}
  OBVIOUS
<1>3. s \in Seq(T) /\ h \in T
  BY <1>1, <1>2
<1>4. PICK p : p = Append(s, h)
  OBVIOUS
<1>5. p \in Seq(T) /\ Len(p) = Len(s) + 1 /\ Len(s) \in Nat
  BY <1>3, <1>4
<1>6. p[Len(s) + 1] = h /\ \A i \in 1..Len(s) : p[i] = s[i]
  BY <1>3, <1>4
<1>7. p # <<>>
  BY <1>5
<1> QED
  BY <1>4, <1>5, <1>6, <1>7 DEF IsSeq

LEMMA TailIs ==
  ASSUME NEW s, IsSeq(s), s # <<>>
  PROVE  /\ IsSeq(Tail(s)) /\ Len(s) \in Nat /\ Len(s) >= 1 /\ Len(Tail(s)) = Len(s) - 1
         /\ Head(s) = s[1]
         /\ \A i \in 1..Len(Tail(s)) : Tail(s)[i] = s[i + 1] /\ i + 1 \in 1..Len(s) /\ i + 1 # 1
<1>1. PICK S : s \in Seq(S)
  BY DEF IsSeq
<1>2. Tail(s) \in Seq(S) /\ Len(s) \in Nat /\ Len(s) >= 1 /\ Len(Tail(s)) = Len(s) - 1
  BY <1>1
<1>3. Head(s) = s[1] /\ \A i \in 1..Len(s) - 1 : Tail(s)[i] = s[i + 1]
  BY <1>1
<1> QED
  BY <1>2, <1>3 DEF IsSeq

LEMMA PrefixIs ==
  ASSUME NEW s, IsSeq(s), NEW m \in 0..Len(s)
  PROVE  /\ IsSeq(SubSeq(s, 1, m)) /\ Len(SubSeq(s, 1, m)) = m
         /\ Len(s) \in Nat /\ \A i \in 1..m : SubSeq(s, 1, m)[i] = s[i] /\ i \in 1..Len(s)
<1>1. PICK S : s \in Seq(S)
  BY DEF IsSeq
<1>2. SubSeq(s, 1, m) \in Seq(S) /\ Len(SubSeq(s, 1, m)) = m /\ Len(s) \in Nat
  BY <1>1
<1>3. \A i \in 1..m : SubSeq(s, 1, m)[i] = s[i]
  BY <1>1
<1> QED
  BY <1>2, <1>3 DEF IsSeq

LEMMA EmptyIs == IsSeq(<<>>) /\ Len(<<>>) = 0
<1>1. <<>> \in Seq({})
  OBVIOUS
<1> QED
  BY <1>1 DEF IsSeq

LEMMA ConcatIs ==
  ASSUME NEW s, NEW r, IsSeq(s), IsSeq(r)
  PROVE  /\ IsSeq(s \o r) /\ Len(s) \in Nat /\ Len(r) \in Nat
         /\ Len(s \o r) = Len(s) + Len(r)
         /\ \A i \in 1..Len(s) : (s \o r)[i] = s[i]
         /\ \A i \in 1..Len(r) : (s \o r)[Len(s) + i] = r[i]
<1>1. PICK S : s \in Seq(S)
  BY DEF IsSeq
<1>2. PICK R : r \in Seq(R)
  BY DEF IsSeq
<1>3. PICK U : U = S \cup R
  OBVIOUS
<1>4. s \in Seq(U) /\ r \in Seq(U)
  BY <1>1, <1>2, <1>3
<1>5. PICK p : p = s \o r
  OBVIOUS
<1>6. p \in Seq(U) /\ Len(p) = Len(s) + Len(r) /\ Len(s) \in Nat /\ Len(r) \in Nat
  BY <1>4, <1>5
<1>7. \A i \in 1..Len(s) : p[i] = s[i]
  BY <1>4, <1>5
<1>8. \A i \in 1..Len(r) : p[Len(s) + i] = r[i]
  BY <1>4, <1>5
<1> QED
  BY <1>5, <1>6, <1>7, <1>8 DEF IsSeq

(* Every element of a concatenation is one of either.                      *)
LEMMA ConcatFrom ==
  ASSUME NEW s, NEW r, IsSeq(s), IsSeq(r), NEW i \in 1..Len(s \o r)
  PROVE  (\E j \in 1..Len(s) : (s \o r)[i] = s[j]) \/ (\E j \in 1..Len(r) : (s \o r)[i] = r[j])
<1>1. Len(s) \in Nat /\ Len(r) \in Nat /\ Len(s \o r) = Len(s) + Len(r)
  BY ConcatIs
<1>2. CASE i <= Len(s)
  <2>1. i \in 1..Len(s)
    BY <1>1, <1>2
  <2> QED
    BY <2>1, ConcatIs
<1>3. CASE ~(i <= Len(s))
  <2>1. PICK j : j = i - Len(s)
    OBVIOUS
  <2>2. j \in 1..Len(r) /\ i = Len(s) + j
    BY <1>1, <1>3, <2>1
  <2> QED
    BY <2>2, ConcatIs
<1> QED
  BY <1>2, <1>3

LEMMA LiteralIs ==
  ASSUME NEW n \in Nat, NEW S, NEW f \in [1..n -> S]
  PROVE  IsSeq(f) /\ Len(f) = n
<1>1. f \in Seq(S) /\ Len(f) = n
  OBVIOUS
<1> QED
  BY <1>1 DEF IsSeq

LEMMA OrderIs ==
  ASSUME NEW S, IsFiniteSet(S)
  PROVE  /\ IsSeq(SetToSeq(S)) /\ Len(SetToSeq(S)) \in Nat
         /\ \A i \in 1..Len(SetToSeq(S)) : SetToSeq(S)[i] \in S
         /\ \A i, j \in 1..Len(SetToSeq(S)) : SetToSeq(S)[i] = SetToSeq(S)[j] => i = j
<1>1. Cardinality(S) \in Nat /\ ExistsBijection(1..Cardinality(S), S)
  BY FS_CardinalityType
<1>2. PICK b : b \in Bijection(1..Cardinality(S), S)
  BY <1>1 DEF ExistsBijection
<1>3. b \in [1..Cardinality(S) -> S] /\ IsInjective(b)
  BY <1>2 DEF Bijection, Injection, IsInjective
<1>4. SetToSeq(S) \in [1..Cardinality(S) -> S] /\ IsInjective(SetToSeq(S))
  BY <1>3 DEF SetToSeq
<1>5. IsSeq(SetToSeq(S)) /\ Len(SetToSeq(S)) = Cardinality(S)
  BY <1>1, <1>4, LiteralIs
<1> QED
  BY <1>1, <1>4, <1>5 DEF IsInjective

-----------------------------------------------------------------------------
(* The tables of the room, within one event                                *)

TablesOK(t, T) == DOMAIN t = TableFields /\ PeersOK(t.peers, T) /\ EventsOK(t.post, T)

(* A session keeps its identity, whatever happens to its tracks.           *)
Same(p, p0) ==
  /\ DOMAIN p = DOMAIN p0 /\ p.conn = p0.conn /\ p.sig = p0.sig /\ p.tag = p0.tag

LEMMA SameKeeps ==
  ASSUME NEW T, NEW p, NEW p0, PeerRec(p0, T), Same(p, p0)
  PROVE  PeerRec(p, T)
BY DEF PeerRec, Same, Tagged

LEMMA FieldsSame ==
  ASSUME NEW p, DOMAIN p = PeerFields, NEW a, NEW S
  PROVE  /\ Same([p EXCEPT !.out = S], p)
         /\ Same([p EXCEPT !.pending = a], p)
         /\ Same([p EXCEPT !.init = a], p)
BY DEF Same, PeerFields

LEMMA OfferSame ==
  ASSUME NEW p, DOMAIN p = PeerFields, NEW S
  PROVE  Same([p EXCEPT !.waiting = TRUE, !.pending = FALSE, !.state = "have-local-offer",
                        !.offered = S], p)
BY DEF Same, PeerFields

LEMMA AnswerSame ==
  ASSUME NEW p, DOMAIN p = PeerFields, NEW S
  PROVE  Same([p EXCEPT !.state = "stable", !.waiting = FALSE, !.open = S], p)
BY DEF Same, PeerFields

(* New tables: every session left is one of t, and what t posted is there. *)
LEMMA NewPeersKeep ==
  ASSUME NEW T, NEW t, TablesOK(t, T), NEW ps, NEW r,
         DOMAIN r = TableFields, r.peers = ps, r.post = t.post, DOMAIN ps = Users,
         \A u \in Users : ps[u] # NoPeer => t.peers[u] # NoPeer /\ Same(ps[u], t.peers[u])
  PROVE  TablesOK(r, T)
BY SameKeeps DEF TablesOK, PeersOK

LEMMA RemovePeersKeeps ==
  ASSUME NEW T, NEW t, TablesOK(t, T), NEW gone
  PROVE  TablesOK(RemovePeers(t, gone), T)
<1>1. PICK ps : ps = [v \in Users |->
                  IF v \in gone \/ t.peers[v] = NoPeer THEN NoPeer
                  ELSE [t.peers[v] EXCEPT !.out = {x \in @ : x[1] \notin gone}]]
  OBVIOUS
<1>2. PICK r : r = RemovePeers(t, gone)
  OBVIOUS
<1>3. r.peers = ps /\ r.post = t.post /\ DOMAIN r = TableFields
  BY <1>1, <1>2 DEF RemovePeers, TablesOK, TableFields
<1>4. ASSUME NEW u \in Users, ps[u] # NoPeer
      PROVE  t.peers[u] # NoPeer /\ Same(ps[u], t.peers[u])
  <2>1. t.peers[u] # NoPeer
    BY <1>1, <1>4
  <2>2. PICK S : S = {x \in t.peers[u].out : x[1] \notin gone}
    OBVIOUS
  <2>3. ps[u] = [t.peers[u] EXCEPT !.out = S]
    BY <1>1, <1>4, <2>2
  <2>4. DOMAIN t.peers[u] = PeerFields
    BY <2>1 DEF TablesOK, PeersOK, PeerRec
  <2> QED
    BY <2>1, <2>3, <2>4, FieldsSame
<1>5. DOMAIN ps = Users
  BY <1>1
<1> QED
  BY <1>2, <1>3, <1>4, <1>5, NewPeersKeep

LEMMA RemovePeerKeeps ==
  ASSUME NEW T, NEW t, TablesOK(t, T), NEW u, NEW inst
  PROVE  TablesOK(RemovePeer(t, u, inst), T)
BY RemovePeersKeeps DEF RemovePeer

(* What a session of the tables posts.                                     *)
LEMMA SignalOK ==
  ASSUME NEW T, NEW u, NEW p, PeerRec(p, T),
         NEW type \in {"offer", "answer", "candidate"}
  PROVE  EventOK(LocalSignal(u, p, type), T)
BY DEF PeerRec, EventOK, LocalSignal, Tagged, Genuine

LEMMA PostKeeps ==
  ASSUME NEW T, NEW q, NEW r, EventsOK(q, T), EventsOK(r, T)
  PROVE  EventsOK(q \o r, T)
<1>1. IsSeq(q) /\ IsSeq(r) /\ IsSeq(q \o r)
  BY ConcatIs DEF EventsOK
<1>2. ASSUME NEW i \in 1..Len(q \o r) PROVE EventOK((q \o r)[i], T)
  BY <1>1, <1>2, ConcatFrom DEF EventsOK
<1> QED
  BY <1>1, <1>2 DEF EventsOK

LEMMA MakeOffersKeeps ==
  ASSUME NEW T, NEW t, TablesOK(t, T), NEW offering, offering \subseteq Users,
         \A u \in offering : PeerRec(t.peers[u], T)
  PROVE  TablesOK(MakeOffers(t, offering), T)
<1>1. PICK ps : ps = [u \in Users |->
            IF u \in offering
              THEN [t.peers[u] EXCEPT !.waiting = TRUE, !.pending = FALSE,
                                      !.state = "have-local-offer",
                                      !.offered = t.peers[u].out]
              ELSE t.peers[u]]
  OBVIOUS
<1>2. PICK order : order = SetToSeq(offering)
  OBVIOUS
<1>3. PICK news : news = [i \in 1..Len(order) |->
                            LocalSignal(order[i], t.peers[order[i]], "offer")]
  OBVIOUS
<1>4. PICK r : r = MakeOffers(t, offering)
  OBVIOUS
<1>5. r.peers = ps /\ r.post = t.post \o news /\ DOMAIN r = TableFields
  BY <1>1, <1>2, <1>3, <1>4 DEF MakeOffers, TablesOK, TableFields
<1>6. EventsOK(news, T)
  <2>1. IsFiniteSet(offering)
    BY MediaBounds, FS_Subset
  <2>2. Len(order) \in Nat /\ \A i \in 1..Len(order) : order[i] \in offering
    BY <1>2, <2>1, OrderIs
  <2>3. PICK S : S = {LocalSignal(order[i], t.peers[order[i]], "offer") : i \in 1..Len(order)}
    OBVIOUS
  <2>4. news \in [1..Len(order) -> S]
    BY <1>3, <2>3
  <2>5. IsSeq(news) /\ Len(news) = Len(order)
    BY <2>2, <2>4, LiteralIs
  <2>6. \A i \in 1..Len(news) : EventOK(news[i], T)
    BY <1>3, <2>2, <2>5, SignalOK
  <2> QED
    BY <2>5, <2>6 DEF EventsOK
<1>7. EventsOK(r.post, T)
  BY <1>5, <1>6, PostKeeps DEF TablesOK
<1>8. PeersOK(ps, T)
  <2>1. ASSUME NEW u \in Users, ps[u] # NoPeer PROVE PeerRec(ps[u], T)
    <3>1. CASE u \in offering
      <4>1. PeerRec(t.peers[u], T) /\ DOMAIN t.peers[u] = PeerFields
        BY <3>1 DEF PeerRec
      <4>2. PICK S : S = t.peers[u].out
        OBVIOUS
      <4>3. ps[u] = [t.peers[u] EXCEPT !.waiting = TRUE, !.pending = FALSE,
                                       !.state = "have-local-offer", !.offered = S]
        BY <1>1, <3>1, <4>2
      <4>4. Same(ps[u], t.peers[u])
        BY <4>1, <4>3, OfferSame
      <4> QED
        BY <4>1, <4>4, SameKeeps
    <3>2. CASE u \notin offering
      BY <1>1, <2>1, <3>2 DEF TablesOK, PeersOK
    <3> QED
      BY <3>1, <3>2
  <2> QED
    BY <1>1, <2>1 DEF PeersOK
<1> QED
  BY <1>4, <1>5, <1>7, <1>8 DEF TablesOK

LEMMA PostponeKeeps ==
  ASSUME NEW T, NEW t, TablesOK(t, T), NEW asked, asked \subseteq Members(t)
  PROVE  TablesOK(Postpone(t, asked), T) /\ Members(Postpone(t, asked)) \subseteq Users
<1>1. PICK ps : ps = [u \in Users |-> IF u \in asked THEN [t.peers[u] EXCEPT !.pending = TRUE]
                                                     ELSE t.peers[u]]
  OBVIOUS
<1>2. PICK r : r = Postpone(t, asked)
  OBVIOUS
<1>3. r.peers = ps /\ r.post = t.post /\ DOMAIN r = TableFields
  BY <1>1, <1>2 DEF Postpone, TablesOK, TableFields
<1>4. ASSUME NEW u \in Users, ps[u] # NoPeer
      PROVE  t.peers[u] # NoPeer /\ Same(ps[u], t.peers[u])
  <2>1. t.peers[u] # NoPeer
    BY <1>1, <1>4 DEF Members
  <2>2. DOMAIN t.peers[u] = PeerFields
    BY <2>1 DEF TablesOK, PeersOK, PeerRec
  <2>3. Same([t.peers[u] EXCEPT !.pending = TRUE], t.peers[u]) /\ Same(t.peers[u], t.peers[u])
    BY <2>2, FieldsSame DEF Same
  <2> QED
    BY <1>1, <2>1, <2>3
<1>5. DOMAIN ps = Users
  BY <1>1
<1> QED
  BY <1>2, <1>3, <1>4, <1>5, NewPeersKeep DEF Members

LEMMA RenegotiationKeeps ==
  ASSUME NEW T, NEW t, TablesOK(t, T), NEW asked
  PROVE  TablesOK(RequestRenegotiation(t, asked), T)
<1>1. PICK offering : offering = {u \in asked \cap Members(t) : MayOffer(t.peers[u])}
  OBVIOUS
<1>2. PICK later : later = (asked \cap Members(t)) \ offering
  OBVIOUS
<1>3. TablesOK(Postpone(t, later), T)
  BY <1>2, PostponeKeeps
<1>4. offering \subseteq Users
  BY <1>1 DEF Members
<1>5. ASSUME NEW u \in offering PROVE PeerRec(Postpone(t, later).peers[u], T)
  <2>1. u \notin later /\ u \in Users /\ t.peers[u] # NoPeer
    BY <1>1, <1>2, <1>5 DEF Members
  <2>2. Postpone(t, later).peers[u] = t.peers[u]
    BY <2>1 DEF Postpone, TablesOK, TableFields
  <2> QED
    BY <2>1, <2>2 DEF TablesOK, PeersOK
<1>6. TablesOK(MakeOffers(Postpone(t, later), offering), T)
  BY <1>3, <1>4, <1>5, MakeOffersKeeps
<1>7. RequestRenegotiation(t, asked) = MakeOffers(Postpone(t, later), offering)
  BY <1>1, <1>2 DEF RequestRenegotiation
<1> QED
  BY <1>6, <1>7

LEMMA TracksKeep ==
  ASSUME NEW T, NEW t, TablesOK(t, T), NEW u \in Users, NEW olds
  PROVE  TablesOK([t EXCEPT !.peers = [v \in Users |->
                     IF v \in Members(t)
                       THEN AddOutgoingTracks(t, v, IF v = u THEN olds ELSE {u})
                       ELSE NoPeer]], T)
<1>1. PICK ps : ps = [v \in Users |->
                     IF v \in Members(t)
                       THEN AddOutgoingTracks(t, v, IF v = u THEN olds ELSE {u})
                       ELSE NoPeer]
  OBVIOUS
<1>2. PICK r : r = [t EXCEPT !.peers = ps]
  OBVIOUS
<1>3. r.peers = ps /\ r.post = t.post /\ DOMAIN r = TableFields
  BY <1>2 DEF TablesOK, TableFields
<1>4. ASSUME NEW v \in Users, ps[v] # NoPeer
      PROVE  t.peers[v] # NoPeer /\ Same(ps[v], t.peers[v])
  <2>1. v \in Members(t) /\ t.peers[v] # NoPeer
    BY <1>1, <1>4 DEF Members
  <2>2. PICK from : from = IF v = u THEN olds ELSE {u}
    OBVIOUS
  <2>3. PICK S : S = t.peers[v].out \cup
                     {<<w, t.peers[w].inst>> :
                        w \in {w \in from \cap Members(t) : \A x \in t.peers[v].out : x[1] # w}}
    OBVIOUS
  <2>4. ps[v] = [t.peers[v] EXCEPT !.out = S]
    BY <1>1, <2>1, <2>2, <2>3 DEF AddOutgoingTracks
  <2>5. DOMAIN t.peers[v] = PeerFields
    BY <2>1 DEF TablesOK, PeersOK, PeerRec
  <2> QED
    BY <2>1, <2>4, <2>5, FieldsSame
<1>5. DOMAIN ps = Users
  BY <1>1
<1>6. TablesOK(r, T)
  BY <1>3, <1>4, <1>5, NewPeersKeep
<1> QED
  BY <1>1, <1>2, <1>6

LEMMA RegisterKeeps ==
  ASSUME NEW T, NEW t, TablesOK(t, T), NEW u \in Users, NEW media, NEW failing
  PROVE  TablesOK(RegisterPublisherTrack(t, u, media, failing), T)
<1>1. PICK t1 : t1 = IF media = "video" THEN [t EXCEPT !.video = @ \cup {u}]
                                        ELSE [t EXCEPT !.audio = @ \cup {u}]
  OBVIOUS
<1>2. PICK olds : olds = (t1.video \cap t1.audio) \ {u}
  OBVIOUS
<1>3. PICK asked : asked = (Members(t1) \ {u}) \cup (IF olds # {} THEN {u} ELSE {})
  OBVIOUS
<1>4. PICK left : left = RemovePeers(t1, failing \cap asked)
  OBVIOUS
<1>5. PICK given : given = [left EXCEPT !.peers = [v \in Users |->
                     IF v \in Members(left)
                       THEN AddOutgoingTracks(left, v, IF v = u THEN olds ELSE {u})
                       ELSE NoPeer]]
  OBVIOUS
<1>6. TablesOK(t1, T)
  <2>1. t1.peers = t.peers /\ t1.post = t.post /\ DOMAIN t1 = TableFields
    BY <1>1 DEF TablesOK, TableFields
  <2> QED
    BY <2>1 DEF TablesOK
<1>7. TablesOK(given, T)
  BY <1>4, <1>5, <1>6, RemovePeersKeeps, TracksKeep
<1>8. TablesOK(RequestRenegotiation(given, asked), T)
  BY <1>7, RenegotiationKeeps
<1>9. \/ RegisterPublisherTrack(t, u, media, failing) = t
      \/ RegisterPublisherTrack(t, u, media, failing) = t1
      \/ RegisterPublisherTrack(t, u, media, failing) = RequestRenegotiation(given, asked)
  BY <1>1, <1>2, <1>3, <1>4, <1>5 DEF RegisterPublisherTrack
<1> QED
  BY <1>6, <1>8, <1>9

(* SetRemoteOffer and SetRemoteAnswer change one session, post about it,   *)
(* and may make an offer.                                                  *)
LEMMA OneChanged ==
  ASSUME NEW T, NEW t, TablesOK(t, T), NEW u \in Users, PeerRec(t.peers[u], T),
         NEW r, DOMAIN r = TableFields, r.peers = [t.peers EXCEPT ![u] = r.peers[u]],
         Same(r.peers[u], t.peers[u]), EventsOK(r.post, T)
  PROVE  TablesOK(r, T) /\ TablesOK(MakeOffers(r, {u}), T)
<1>1. PeerRec(r.peers[u], T)
  BY SameKeeps
<1>2. DOMAIN r.peers = Users
  BY DEF TablesOK, PeersOK
<1>3. \A v \in Users : v # u => r.peers[v] = t.peers[v]
  BY DEF TablesOK, PeersOK
<1>4. TablesOK(r, T)
  BY <1>1, <1>2, <1>3 DEF TablesOK, PeersOK
<1> QED
  BY <1>1, <1>4, MakeOffersKeeps

LEMMA SetRemoteOfferKeeps ==
  ASSUME NEW T, NEW t, TablesOK(t, T), NEW u \in Users, PeerRec(t.peers[u], T)
  PROVE  TablesOK(SetRemoteOffer(t, u), T)
<1>1. PICK p : p = t.peers[u]
  OBVIOUS
<1>2. PICK e1 : e1 = [t |-> "ready", uid |-> u, inst |-> p.inst, media |-> "video"]
  OBVIOUS
<1>3. PICK e2 : e2 = [t |-> "ready", uid |-> u, inst |-> p.inst, media |-> "audio"]
  OBVIOUS
<1>4. PICK e3 : e3 = LocalSignal(u, p, "answer")
  OBVIOUS
<1>5. EventsOK(<<e1, e2, e3>>, T)
  <2>1. EventOK(e1, T) /\ EventOK(e2, T)
    BY <1>2, <1>3 DEF EventOK
  <2>2. EventOK(e3, T)
    BY <1>1, <1>4, SignalOK
  <2>3. <<e1, e2, e3>> \in Seq({e1, e2, e3}) /\ Len(<<e1, e2, e3>>) = 3
    OBVIOUS
  <2>4. \A i \in 1..3 : <<e1, e2, e3>>[i] \in {e1, e2, e3}
    OBVIOUS
  <2> QED
    BY <2>1, <2>2, <2>3, <2>4 DEF EventsOK, IsSeq
<1>6. PICK r : r = [t EXCEPT !.peers[u].init = TRUE, !.post = @ \o <<e1, e2, e3>>]
  OBVIOUS
<1>7. /\ DOMAIN r = TableFields /\ r.post = t.post \o <<e1, e2, e3>>
      /\ r.peers = [t.peers EXCEPT ![u] = [t.peers[u] EXCEPT !.init = TRUE]]
  BY <1>6 DEF TablesOK, TableFields
<1>8. r.peers[u] = [t.peers[u] EXCEPT !.init = TRUE]
  BY <1>7 DEF TablesOK, PeersOK
<1>9. Same(r.peers[u], t.peers[u])
  <2>1. DOMAIN p = PeerFields
    BY <1>1 DEF PeerRec
  <2> QED
    BY <1>1, <1>8, <2>1, FieldsSame
<1>10. EventsOK(r.post, T)
  BY <1>5, <1>7, PostKeeps DEF TablesOK
<1>11. r.peers = [t.peers EXCEPT ![u] = r.peers[u]]
  BY <1>7, <1>8
<1>12. TablesOK(r, T) /\ TablesOK(MakeOffers(r, {u}), T)
  BY <1>7, <1>9, <1>10, <1>11, OneChanged
<1>13. SetRemoteOffer(t, u) = IF p.pending THEN MakeOffers(r, {u}) ELSE r
  BY <1>1, <1>2, <1>3, <1>4, <1>6 DEF SetRemoteOffer
<1> QED
  BY <1>12, <1>13

LEMMA SetRemoteAnswerKeeps ==
  ASSUME NEW T, NEW t, TablesOK(t, T), NEW u \in Users, PeerRec(t.peers[u], T)
  PROVE  TablesOK(SetRemoteAnswer(t, u), T)
<1>1. PICK o : o = t.peers[u].offered
  OBVIOUS
<1>2. PICK r : r = [t EXCEPT !.peers[u].state = "stable", !.peers[u].waiting = FALSE,
                             !.peers[u].open = t.peers[u].offered]
  OBVIOUS
<1>3. /\ DOMAIN r = TableFields /\ r.post = t.post
      /\ r.peers = [t.peers EXCEPT ![u] = [t.peers[u] EXCEPT !.state = "stable",
                                              !.waiting = FALSE, !.open = o]]
  BY <1>1, <1>2 DEF TablesOK, TableFields, PeersOK
<1>4. r.peers[u] = [t.peers[u] EXCEPT !.state = "stable", !.waiting = FALSE, !.open = o]
  BY <1>3 DEF TablesOK, PeersOK
<1>5. Same(r.peers[u], t.peers[u])
  <2>1. PICK p : p = t.peers[u]
    OBVIOUS
  <2>2. DOMAIN p = PeerFields
    BY <2>1 DEF PeerRec
  <2> QED
    BY <1>4, <2>1, <2>2, AnswerSame
<1>6. r.peers = [t.peers EXCEPT ![u] = r.peers[u]]
  BY <1>3, <1>4
<1>7. EventsOK(r.post, T)
  BY <1>3 DEF TablesOK
<1>8. TablesOK(r, T) /\ TablesOK(MakeOffers(r, {u}), T)
  BY <1>3, <1>5, <1>6, <1>7, OneChanged
<1> QED
  BY <1>2, <1>8 DEF SetRemoteAnswer

-----------------------------------------------------------------------------
(* The room of MediaServer                                                 *)

IdsStay == UNCHANGED <<nconn, econn, nextSig>>

LEMMA TablesAre == ASSUME NEW T, PeersOK(peers, T) PROVE TablesOK(Tables, T)
<1>1. Tables.peers = peers /\ Tables.post = <<>> /\ DOMAIN Tables = TableFields
  BY DEF Tables, TableFields
<1> QED
  BY <1>1, EmptyIs DEF TablesOK, EventsOK

LEMMA HeadOK ==
  ASSUME NEW T, EventsOK(fifo, T), fifo # <<>>
  PROVE  EventOK(Head(fifo), T) /\ EventsOK(Tail(fifo), T)
<1>1. IsSeq(fifo)
  BY DEF EventsOK
<1>2. 1 \in 1..Len(fifo)
  BY <1>1, TailIs
<1> QED
  BY <1>1, <1>2, TailIs DEF EventsOK

LEMMA FinishKeeps ==
  ASSUME NEW T, MediaOK(T), IdsStay, fifo # <<>>, NEW t, TablesOK(t, T), SetTables(t),
         fifo' = Tail(fifo) \o t.post
  PROVE  PeersOK(peers, T)' /\ EventsOK(fifo, T)'
<1>1. PeersOK(t.peers, T) /\ EventsOK(t.post, T) /\ EventsOK(Tail(fifo), T)
  BY HeadOK DEF TablesOK, MediaOK
<1>2. EventsOK(Tail(fifo) \o t.post, T)
  BY <1>1, PostKeeps
<1>3. PeersOK(peers, T)'
  BY <1>1 DEF PeersOK, PeerRec, Tagged, SetTables, IdsStay
<1>4. EventsOK(fifo, T)'
  BY <1>2 DEF EventsOK, EventOK, Genuine, Tagged, IdsStay
<1> QED
  BY <1>3, <1>4

LEMMA SkipKeeps ==
  ASSUME NEW T, MediaOK(T), IdsStay, fifo # <<>>, fifo' = Tail(fifo), peers' = peers
  PROVE  PeersOK(peers, T)' /\ EventsOK(fifo, T)'
<1>1. EventsOK(Tail(fifo), T)
  BY HeadOK DEF MediaOK
<1>2. PeersOK(peers, T)'
  BY DEF MediaOK, PeersOK, PeerRec, Tagged, IdsStay
<1>3. EventsOK(fifo, T)'
  BY <1>1 DEF EventsOK, EventOK, Genuine, Tagged, IdsStay
<1> QED
  BY <1>2, <1>3

LEMMA ControlStays ==
  ASSUME NEW T, ControlOK(T), IdsStay, control' = control
  PROVE  ControlOK(T)'
BY DEF ControlOK, Genuine, Tagged, IdsStay

LEMMA OfferTables ==
  ASSUME NEW T, PeersOK(peers, T), NEW e, EventOK(e, T), e.t = "signal", e.type = "offer",
         NEW throws, HandleOffer(e, throws)
  PROVE  \E t : TablesOK(t, T) /\ Finish(t)
<1>1. PICK u : u = e.uid
  OBVIOUS
<1>2. u \in Users
  BY <1>1 DEF EventOK
<1>3. PICK fresh : fresh = NewPeer(Len(born) + 1, e.sig, e.conn, e.tag)
  OBVIOUS
<1>4. PeerRec(fresh, T)
  BY <1>3 DEF PeerRec, NewPeer, PeerFields, EventOK, Tagged
<1>5. PICK clean : clean = IF peers[u] = NoPeer \/ Addressed(e) THEN Tables
                           ELSE RemovePeer(Tables, u, peers[u].inst)
  OBVIOUS
<1>6. TablesOK(clean, T)
  BY <1>5, TablesAre, RemovePeerKeeps
<1>7. PICK made : made = IF Addressed(e) THEN clean ELSE [clean EXCEPT !.peers[u] = fresh]
  OBVIOUS
<1>8. TablesOK(made, T) /\ PeerRec(made.peers[u], T)
  <2>1. CASE Addressed(e)
    <3>1. made = Tables /\ peers[u] # NoPeer
      BY <1>1, <1>5, <1>7, <2>1 DEF Addressed
    <3>2. made.peers = peers
      BY <3>1 DEF Tables
    <3> QED
      BY <1>2, <3>1, <3>2, TablesAre DEF PeersOK
  <2>2. CASE ~Addressed(e)
    <3>1. /\ DOMAIN made = TableFields /\ made.post = clean.post
          /\ made.peers = [clean.peers EXCEPT ![u] = fresh]
      BY <1>6, <1>7, <2>2 DEF TablesOK, TableFields
    <3>2. made.peers[u] = fresh /\ DOMAIN made.peers = Users
          /\ \A v \in Users : v # u => made.peers[v] = clean.peers[v]
      BY <1>2, <1>6, <3>1 DEF TablesOK, PeersOK
    <3> QED
      BY <1>4, <1>6, <3>1, <3>2 DEF TablesOK, PeersOK
  <2> QED
    BY <2>1, <2>2
<1>9. PICK t : t = IF throws THEN RemovePeer(made, u, made.peers[u].inst)
                   ELSE SetRemoteOffer(made, u)
  OBVIOUS
<1>10. TablesOK(t, T)
  BY <1>2, <1>8, <1>9, RemovePeerKeeps, SetRemoteOfferKeeps
<1>11. Finish(t)
  BY <1>1, <1>3, <1>5, <1>7, <1>9 DEF HandleOffer
<1> QED
  BY <1>10, <1>11

LEMMA SignalTables ==
  ASSUME NEW T, PeersOK(peers, T), NEW e, EventOK(e, T), e.t = "signal",
         NEW throws, HandleSignal(e, throws), e.conn \notin stopped
  PROVE  \E t : TablesOK(t, T) /\ Finish(t)
<1>1. CASE e.type = "offer" /\ HandleOffer(e, throws)
  BY <1>1, OfferTables
<1>2. CASE HandleAnswer(e)
  <2>1. PICK u : u = e.uid
    OBVIOUS
  <2>2. PICK t : t = IF ~Addressed(e) THEN Tables
                     ELSE IF peers[u].state # "have-local-offer"
                       THEN RemovePeer(Tables, u, peers[u].inst)
                     ELSE SetRemoteAnswer(Tables, u)
    OBVIOUS
  <2>3. Finish(t)
    BY <1>2, <2>1, <2>2 DEF HandleAnswer
  <2>4. u \in Users
    BY <2>1 DEF EventOK
  <2>5. Addressed(e) => PeerRec(Tables.peers[u], T)
    BY <2>1, <2>4 DEF Addressed, PeersOK, Tables
  <2>6. TablesOK(t, T)
    BY <2>2, <2>4, <2>5, TablesAre, RemovePeerKeeps, SetRemoteAnswerKeeps
  <2> QED
    BY <2>3, <2>6
<1>3. CASE HandleCandidate(e, throws)
  <2>1. PICK t : t = IF throws /\ Addressed(e)
                       THEN RemovePeer(Tables, e.uid, peers[e.uid].inst) ELSE Tables
    OBVIOUS
  <2>2. Finish(t)
    BY <1>3, <2>1 DEF HandleCandidate
  <2>3. TablesOK(t, T)
    BY <2>1, TablesAre, RemovePeerKeeps
  <2> QED
    BY <2>2, <2>3
<1>4. CASE HandleLeave(e)
  <2>1. PICK t : t = IF Addressed(e) THEN RemovePeer(Tables, e.uid, peers[e.uid].inst)
                     ELSE Tables
    OBVIOUS
  <2>2. Finish(t)
    BY <1>4, <2>1 DEF HandleLeave
  <2>3. TablesOK(t, T)
    BY <2>1, TablesAre, RemovePeerKeeps
  <2> QED
    BY <2>2, <2>3
<1> QED
  BY <1>1, <1>2, <1>3, <1>4 DEF HandleSignal

(* HandleLocalMediaSignal sends on what it was given.                      *)
LEMMA SendBackKeeps ==
  ASSUME NEW T, MediaOK(T), IdsStay, NEW e, EventOK(e, T), e.t = "local",
         SendBack(e.conn, e)
  PROVE  ControlOK(T)'
<1>1. CASE control' = control
  BY <1>1, ControlStays DEF MediaOK
<1>2. CASE control' = Append(control, [t |-> "message", conn |-> e.conn, m |-> e])
  <2>1. PICK h : h = [t |-> "message", conn |-> e.conn, m |-> e]
    OBVIOUS
  <2>2. h.conn \in 1..nconn /\ (h.conn = econn => Genuine(h.m, T))
    BY <2>1 DEF EventOK
  <2>3. IsSeq(control)
    BY DEF MediaOK, ControlOK
  <2>4. PICK q : q = Append(control, h)
    OBVIOUS
  <2>5. /\ IsSeq(q) /\ Len(control) \in Nat /\ Len(q) = Len(control) + 1
        /\ q[Len(control) + 1] = h /\ \A i \in 1..Len(control) : q[i] = control[i]
    BY <2>3, <2>4, AppendIs
  <2>6. control' = q
    BY <1>2, <2>1, <2>4
  <2>7. \A i \in 1..Len(q) : q[i] = h \/ \E j \in 1..Len(control) : q[i] = control[j]
    BY <2>5
  <2>8. \A i \in 1..Len(q) : q[i].t = "message" =>
          q[i].conn \in 1..nconn /\ (q[i].conn = econn => Genuine(q[i].m, T))
    BY <2>2, <2>7 DEF MediaOK, ControlOK
  <2> QED
    BY <2>5, <2>6, <2>8 DEF ControlOK, Genuine, Tagged, IdsStay
<1> QED
  BY <1>1, <1>2 DEF SendBack

LEMMA RoomEventKeeps ==
  ASSUME NEW T, MediaOK(T), IdsStay, NEW throws, HandleRoomEvent(throws)
  PROVE  MediaOK(T)'
<1>1. PICK e : e = Head(fifo)
  OBVIOUS
<1>2. fifo # <<>> /\ EventOK(e, T)
  BY <1>1, HeadOK DEF HandleRoomEvent, MediaOK
<1>3. CASE e.t = "signal" /\ HandleSignal(e, throws)
  <2>1. ControlOK(T)'
    BY <1>3, ControlStays DEF MediaOK, HandleSignal
  <2>2. CASE e.conn \in stopped
    BY <1>2, <1>3, <2>1, <2>2, SkipKeeps DEF HandleSignal, MediaOK
  <2>3. CASE e.conn \notin stopped
    <3>1. PICK t : TablesOK(t, T) /\ Finish(t)
      BY <1>2, <1>3, <2>3, SignalTables DEF MediaOK
    <3> QED
      BY <1>2, <2>1, <3>1, FinishKeeps DEF Finish, MediaOK
  <2> QED
    BY <2>2, <2>3
<1>4. CASE e.t = "ready" /\ HandlePublisherTrackReady(e, throws)
  <2>1. ControlOK(T)'
    BY <1>4, ControlStays DEF MediaOK, HandlePublisherTrackReady
  <2>2. CASE fifo' = Tail(fifo) /\ peers' = peers
    BY <1>2, <2>1, <2>2, SkipKeeps DEF MediaOK
  <2>3. CASE \E u \in Users : Finish(RegisterPublisherTrack(Tables, e.uid, e.media,
                                       {v \in Users : throws} \cap {u}))
    <3>1. PICK t : Finish(t) /\ \E f : t = RegisterPublisherTrack(Tables, e.uid, e.media, f)
      BY <2>3
    <3>2. TablesOK(t, T)
      BY <1>2, <1>4, <3>1, TablesAre, RegisterKeeps DEF EventOK, MediaOK
    <3> QED
      BY <1>2, <2>1, <3>1, <3>2, FinishKeeps DEF Finish, MediaOK
  <2> QED
    BY <1>4, <2>2, <2>3 DEF HandlePublisherTrackReady
<1>5. CASE e.t = "local" /\ HandleLocalMediaSignal(e)
  <2>1. PeersOK(peers, T)' /\ EventsOK(fifo, T)'
    BY <1>2, <1>5, SkipKeeps DEF HandleLocalMediaSignal
  <2>2. ControlOK(T)'
    BY <1>2, <1>5, SendBackKeeps, ControlStays DEF HandleLocalMediaSignal, MediaOK
  <2> QED
    BY <2>1, <2>2 DEF MediaOK
<1>6. CASE HandleSignalDisconnected(e)
  <2>1. ControlOK(T)'
    BY <1>6, ControlStays DEF MediaOK, HandleSignalDisconnected
  <2>2. PICK t : Finish(t) /\ \E gone : t = RemovePeers(Tables, gone)
    BY <1>6 DEF HandleSignalDisconnected
  <2>3. TablesOK(t, T)
    BY <2>2, TablesAre, RemovePeersKeeps DEF MediaOK
  <2> QED
    BY <1>2, <2>1, <2>2, <2>3, FinishKeeps DEF Finish, MediaOK
<1> QED
  BY <1>1, <1>3, <1>4, <1>5, <1>6 DEF HandleRoomEvent

-----------------------------------------------------------------------------
(* The connections between the servers                                     *)

Sub(q, r) == IsSeq(q) /\ \A i \in 1..Len(q) : \E j \in 1..Len(r) : q[i] = r[j]

LEMMA TailSub == ASSUME NEW r, IsSeq(r), r # <<>> PROVE Sub(Tail(r), r)
BY TailIs DEF Sub

LEMMA CutSub == ASSUME NEW r, IsSeq(r), NEW q \in Cut(r) PROVE Sub(q, r)
<1>1. PICK n \in 0..Len(r) : q = SubSeq(r, 1, n)
  BY DEF Cut
<1> QED
  BY <1>1, PrefixIs DEF Sub

LEMMA NoneSub == ASSUME NEW r PROVE Sub(<<>>, r)
BY EmptyIs DEF Sub

LEMMA ConnectedIs ==
  ASSUME Connected
  PROVE  /\ nconn \in Nat /\ nconn >= 1 /\ nconn <= MaxConns /\ MaxConns \in Nat
         /\ econn \in Nat /\ econn <= nconn
         /\ econn # 0 => econn \in 1..nconn /\ econn \in Conns
         /\ connected => econn \in 1..nconn /\ econn \in Conns
         /\ \A c \in 1..nconn : c \in Conns
BY MediaBounds DEF Connected, Conns

LEMMA WireShrinks ==
  ASSUME NEW T, Wired(T), Connected, IdsStay, NEW c \in 1..nconn, NEW q, Sub(q, wire[c]),
         wire' = [wire EXCEPT ![c] = q]
  PROVE  Wired(T)'
<1>1. c \in Conns /\ econn \in 0..nconn /\ nconn \in Nat /\ MaxConns \in Nat
  BY MediaBounds DEF Connected, Conns
<1>2. DOMAIN wire' = Conns
  BY DEF Wired
<1>3. \A b \in Conns : wire'[b] = IF b = c THEN q ELSE wire[b]
  BY <1>1 DEF Wired
<1>4. \A b \in Conns : IsSeq(wire'[b])
  BY <1>3 DEF Wired, Sub
<1>5. \A b \in Conns : b > nconn => wire'[b] = <<>>
  BY <1>1, <1>3 DEF Wired
<1>6. \A b \in Conns : \A i \in 1..Len(wire'[b]) :
        \E j \in 1..Len(wire[b]) : wire'[b][i] = wire[b][j]
  BY <1>3 DEF Sub
<1>7. econn # 0 => econn \in Conns
  BY ConnectedIs
<1>8. \A b \in Conns : \A i \in 1..Len(wire'[b]) : wire'[b][i].uid \in Users
  BY <1>6 DEF Wired
<1>9. econn # 0 => \A i \in 1..Len(wire'[econn]) : FrameOK(wire'[econn][i], T)
  BY <1>6, <1>7 DEF Wired
<1> QED
  BY <1>2, <1>4, <1>5, <1>8, <1>9 DEF Wired, FrameOK, Tagged, IdsStay

LEMMA WireStays == ASSUME NEW T, Wired(T), IdsStay, wire' = wire PROVE Wired(T)'
BY DEF Wired, FrameOK, Tagged, IdsStay

(* MediaSignalClient::Send                                                 *)
LEMMA SendKeeps ==
  ASSUME NEW T, Wired(T), Connected, IdsStay, NEW e, NEW f, FrameOK(f, T), Send(e, f)
  PROVE  Wired(T)' /\ (connected' => connected)
<1>1. CASE wire' = wire
  BY <1>1, WireStays DEF Send, SendAccepted, IsCurrent
<1>2. CASE wire' # wire
  <2>1. /\ connected /\ wire' = [wire EXCEPT ![econn] = Append(@, f)]
        /\ connected' = connected
    BY <1>2 DEF Send, SendAccepted, IsCurrent
  <2>2. PICK q : q = Append(wire[econn], f)
    OBVIOUS
  <2>3. econn \in Conns /\ econn \in 1..nconn
    BY <2>1, ConnectedIs
  <2>4. IsSeq(wire[econn]) /\ DOMAIN wire = Conns
    BY <2>3 DEF Wired
  <2>5. IsSeq(q) /\ \A i \in 1..Len(q) : q[i] = f \/ \E j \in 1..Len(wire[econn]) : q[i] = wire[econn][j]
    <3>1. /\ IsSeq(q) /\ Len(wire[econn]) \in Nat /\ Len(q) = Len(wire[econn]) + 1
          /\ q[Len(wire[econn]) + 1] = f
          /\ \A i \in 1..Len(wire[econn]) : q[i] = wire[econn][i]
      BY <2>2, <2>4, AppendIs
    <3> QED
      BY <3>1
  <2>6. DOMAIN wire' = Conns /\ \A b \in Conns : wire'[b] = IF b = econn THEN q ELSE wire[b]
    BY <2>1, <2>2, <2>3, <2>4
  <2>7. f.uid \in Users
    BY DEF FrameOK
  <2>8. \A i \in 1..Len(q) : q[i].uid \in Users /\ FrameOK(q[i], T)
    BY <2>3, <2>5, <2>7 DEF Wired
  <2>9. /\ \A b \in Conns : IsSeq(wire'[b])
        /\ \A b \in Conns : b > nconn => wire'[b] = <<>>
    BY <2>3, <2>5, <2>6, ConnectedIs DEF Wired
  <2>10. \A b \in Conns : \A i \in 1..Len(wire'[b]) : wire'[b][i].uid \in Users
    BY <2>6, <2>8 DEF Wired
  <2>11. \A i \in 1..Len(wire'[econn]) : FrameOK(wire'[econn][i], T)
    BY <2>3, <2>6, <2>8
  <2> QED
    BY <2>1, <2>6, <2>9, <2>10, <2>11 DEF Wired, FrameOK, Tagged, IdsStay
<1> QED
  BY <1>1, <1>2

LEMMA EventsGrow ==
  ASSUME NEW T, EventsOK(fifo, T), IdsStay, NEW e, EventOK(e, T), fifo' = Append(fifo, e)
  PROVE  EventsOK(fifo, T)'
<1>1. IsSeq(fifo)
  BY DEF EventsOK
<1>2. PICK q : q = Append(fifo, e)
  OBVIOUS
<1>3. /\ IsSeq(q) /\ Len(fifo) \in Nat /\ Len(q) = Len(fifo) + 1 /\ q[Len(fifo) + 1] = e
      /\ \A i \in 1..Len(fifo) : q[i] = fifo[i]
  BY <1>1, <1>2, AppendIs
<1>4. \A i \in 1..Len(q) : q[i] = e \/ \E j \in 1..Len(fifo) : q[i] = fifo[j]
  BY <1>3
<1>5. \A i \in 1..Len(q) : EventOK(q[i], T)
  BY <1>4 DEF EventsOK
<1> QED
  BY <1>2, <1>3, <1>5 DEF EventsOK, EventOK, Genuine, Tagged, IdsStay

LEMMA MediaStays ==
  ASSUME NEW T, MediaOK(T), IdsStay, UNCHANGED <<peers, fifo, control>>
  PROVE  MediaOK(T)'
BY DEF MediaOK, PeersOK, PeerRec, EventsOK, EventOK, ControlOK, Genuine, Tagged, IdsStay

LEMMA PeersStay ==
  ASSUME NEW T, PeersOK(peers, T), IdsStay, peers' = peers
  PROVE  PeersOK(peers, T)'
BY DEF PeersOK, PeerRec, Tagged, IdsStay

LEMMA AcceptKeeps ==
  ASSUME NEW T, Wired(T), Connected, MediaOK(T), IdsStay, UNCHANGED udsVars, pcs' = pcs, Accept
  PROVE  Wired(T)' /\ Connected' /\ MediaOK(T)'
<1>1. Wired(T)' /\ MediaOK(T)'
  BY WireStays, MediaStays DEF Accept
<1>2. IsSeq(backlog) /\ backlog # <<>>
  BY DEF Accept, Connected
<1>3. 1 \in 1..Len(backlog) /\ Head(backlog) = backlog[1]
  BY <1>2, TailIs
<1>4. serving' \in 1..nconn
  BY <1>3 DEF Accept, Connected
<1>5. IsSeq(backlog') /\ \A i \in 1..Len(backlog') : backlog'[i] \in 1..nconn
  BY <1>2, TailIs DEF Accept, Connected
<1> QED
  BY <1>1, <1>4, <1>5 DEF Connected, IdsStay, udsVars

LEMMA HandleReadKeeps ==
  ASSUME NEW T, Wired(T), Connected, MediaOK(T), IdsStay, UNCHANGED udsVars, pcs' = pcs, HandleRead
  PROVE  Wired(T)' /\ Connected' /\ MediaOK(T)'
<1>1. serving \in 1..nconn /\ serving \in Conns
  BY ConnectedIs DEF HandleRead, Connected
<1>2. PICK m : m = Head(wire[serving])
  OBVIOUS
<1>3. IsSeq(wire[serving]) /\ wire[serving] # <<>>
  BY <1>1 DEF HandleRead, Wired
<1>4. 1 \in 1..Len(wire[serving]) /\ m = wire[serving][1]
  BY <1>2, <1>3, TailIs
<1>5. m.uid \in Users /\ (serving = econn => FrameOK(m, T))
  BY <1>1, <1>4 DEF Wired, HandleRead
<1>6. PICK e : e = [t |-> "signal", conn |-> serving, type |-> m.type, sig |-> m.sig,
                    uid |-> m.uid, tag |-> m.tag, re |-> m.re]
  OBVIOUS
<1>7. EventOK(e, T)
  BY <1>1, <1>5, <1>6 DEF EventOK, FrameOK, Tagged
<1>8. EventsOK(fifo, T)'
  <2>1. fifo' = Append(fifo, e)
    BY <1>2, <1>6 DEF HandleRead
  <2> QED
    BY <1>7, <2>1, EventsGrow DEF MediaOK
<1>9. Wired(T)'
  <2>1. PICK q : q = Tail(wire[serving])
    OBVIOUS
  <2>2. Sub(q, wire[serving]) /\ wire' = [wire EXCEPT ![serving] = q]
    BY <1>3, <2>1, TailSub DEF HandleRead
  <2> QED
    BY <1>1, <2>2, WireShrinks
<1>10. PeersOK(peers, T)' /\ ControlOK(T)'
  BY PeersStay, ControlStays DEF MediaOK, HandleRead
<1>11. Connected'
  BY DEF Connected, HandleRead, IdsStay, udsVars
<1> QED
  BY <1>8, <1>9, <1>10, <1>11 DEF MediaOK

LEMMA EndConnectionKeeps ==
  ASSUME NEW T, Wired(T), Connected, MediaOK(T), IdsStay, UNCHANGED udsVars, pcs' = pcs,
         NEW ended, EndConnection(ended)
  PROVE  Wired(T)' /\ Connected' /\ MediaOK(T)'
<1>1. serving \in 1..nconn
  BY ConnectedIs DEF EndConnection, Connected
<1>2. Wired(T)'
  BY <1>1, WireShrinks, NoneSub DEF EndConnection
<1>3. EventsOK(fifo, T)'
  <2>1. CASE fifo' = fifo
    BY <2>1 DEF MediaOK, EventsOK, EventOK, Genuine, Tagged, IdsStay
  <2>2. PICK e : e = [t |-> "gone", conn |-> serving]
    OBVIOUS
  <2>3. EventOK(e, T)
    BY <2>2 DEF EventOK
  <2>4. CASE fifo' = Append(fifo, e)
    BY <2>3, <2>4, EventsGrow DEF MediaOK
  <2> QED
    BY <2>1, <2>2, <2>4 DEF EndConnection
<1>4. PeersOK(peers, T)' /\ ControlOK(T)'
  BY PeersStay, ControlStays DEF MediaOK, EndConnection
<1>5. Connected'
  BY ConnectedIs DEF Connected, EndConnection, IdsStay, udsVars
<1> QED
  BY <1>2, <1>3, <1>4, <1>5 DEF MediaOK

LEMMA ServerStepKeeps ==
  ASSUME NEW T, Wired(T), Connected, MediaOK(T), nextSig' = nextSig, pcs' = pcs, ServerStep
  PROVE  Wired(T)' /\ Connected' /\ MediaOK(T)'
<1>1. IdsStay /\ UNCHANGED udsVars
  BY DEF ServerStep, realtimeVars, udsVars, IdsStay
<1> QED
  BY <1>1, AcceptKeeps, HandleReadKeeps, EndConnectionKeeps DEF ServerStep

LEMMA RestartKeeps ==
  ASSUME NEW T, Wired(T), Connected, MediaOK(T), IdsStay, UNCHANGED udsVars, pcs' = pcs,
         MediaRestart
  PROVE  Wired(T)' /\ Connected' /\ MediaOK(T)'
<1>1. Wired(T)'
  BY EmptyIs, ConnectedIs DEF Wired, MediaRestart, IdsStay
<1>2. Connected'
  BY ConnectedIs, EmptyIs DEF Connected, MediaRestart, IdsStay, udsVars
<1>3. PeersOK(peers, T)' /\ EventsOK(fifo, T)'
  BY EmptyIs DEF PeersOK, EventsOK, MediaRestart
<1>4. ControlOK(T)'
  BY ControlStays DEF MediaOK, MediaRestart
<1> QED
  BY <1>1, <1>2, <1>3, <1>4 DEF MediaOK

(* An event of the library: an ICE candidate of a media session.           *)
LEMMA CandidateKeeps ==
  ASSUME NEW T, Wired(T), Connected, MediaOK(T), IdsStay, UNCHANGED udsVars, pcs' = pcs,
         NEW u \in Users, LocalCandidate(u)
  PROVE  Wired(T)' /\ Connected' /\ MediaOK(T)'
<1>1. Wired(T)'
  BY WireStays DEF LocalCandidate
<1>2. Connected'
  BY DEF Connected, LocalCandidate, IdsStay, udsVars
<1>3. EventOK(LocalSignal(u, peers[u], "candidate"), T)
  BY SignalOK DEF MediaOK, PeersOK, LocalCandidate
<1>4. EventsOK(fifo, T)'
  BY <1>3, EventsGrow DEF MediaOK, LocalCandidate
<1>5. PeersOK(peers, T)' /\ ControlOK(T)'
  BY PeersStay, ControlStays DEF MediaOK, LocalCandidate
<1> QED
  BY <1>1, <1>2, <1>4, <1>5 DEF MediaOK

(* What does not touch MediaServer.                                        *)
LEMMA ServerStays ==
  ASSUME NEW T, Wired(T), Connected, MediaOK(T), UNCHANGED udsVars, nextSig' = nextSig,
         UNCHANGED <<serving, backlog, wire, control, fifo, peers>>, pcs' \in Nat
  PROVE  Wired(T)' /\ Connected' /\ MediaOK(T)'
<1>1. IdsStay
  BY DEF IdsStay, udsVars
<1>2. Wired(T)' /\ MediaOK(T)'
  BY <1>1, WireStays, MediaStays
<1> QED
  BY <1>2 DEF Connected, udsVars

(* A new connection has nothing of the old ones.                           *)
LEMMA ConnectKeeps ==
  ASSUME NEW T, Wired(T), Connected, MediaOK(T), nextSig' = nextSig, pcs' = pcs, Connect
  PROVE  Wired(T)' /\ Connected' /\ MediaOK(T)'
<1>1. /\ nconn \in Nat /\ nconn' = nconn + 1 /\ econn' = nconn + 1 /\ nconn' <= MaxConns
      /\ econn' \in Conns /\ econn' > nconn
  BY ConnectedIs DEF Connect, Conns
<1>2. \A c : c \in 1..nconn => c \in 1..nconn' /\ c # econn'
  BY <1>1
<1>3. Wired(T)'
  <2>1. wire[econn'] = <<>>
    BY <1>1 DEF Wired
  <2>2. wire' = wire
    BY DEF Connect
  <2>3. \A c \in Conns : c > nconn' => c > nconn
    BY <1>1 DEF Conns
  <2> QED
    BY <2>1, <2>2, <2>3, EmptyIs DEF Wired
<1>4. PICK e : e = [t |-> "up", conn |-> nconn + 1, epoch |-> epoch + 1]
  OBVIOUS
<1>5. PICK q : q = Append(control, e)
  OBVIOUS
<1>6. IsSeq(control)
  BY DEF MediaOK, ControlOK
<1>7. IsSeq(q) /\ \A i \in 1..Len(q) : q[i] = e \/ \E j \in 1..Len(control) : q[i] = control[j]
  <2>1. /\ IsSeq(q) /\ Len(control) \in Nat /\ Len(q) = Len(control) + 1
        /\ q[Len(control) + 1] = e /\ \A i \in 1..Len(control) : q[i] = control[i]
    BY <1>5, <1>6, AppendIs
  <2> QED
    BY <2>1
<1>8. control' = q
  BY <1>4, <1>5 DEF Connect
<1>9. \A i \in 1..Len(q) : q[i].t = "message" =>
         q[i].conn \in 1..nconn' /\ q[i].conn # econn'
  BY <1>2, <1>4, <1>7 DEF MediaOK, ControlOK
<1>10. ControlOK(T)'
  BY <1>7, <1>8, <1>9 DEF ControlOK
<1>11. PeersOK(peers, T)'
  BY <1>2 DEF MediaOK, PeersOK, PeerRec, Connect
<1>12. EventsOK(fifo, T)'
  BY <1>2 DEF MediaOK, EventsOK, EventOK, Connect
<1>13. Connected'
  <2>1. PICK b : b = Append(backlog, nconn + 1)
    OBVIOUS
  <2>2. IsSeq(backlog)
    BY DEF Connected
  <2>3. /\ IsSeq(b) /\ Len(backlog) \in Nat /\ Len(b) = Len(backlog) + 1
        /\ b[Len(backlog) + 1] = nconn + 1 /\ \A i \in 1..Len(backlog) : b[i] = backlog[i]
    BY <2>1, <2>2, AppendIs
  <2>4. \A i \in 1..Len(b) : b[i] \in 1..nconn'
    <3>1. \A i \in 1..Len(b) : i \in 1..Len(backlog) \/ i = Len(backlog) + 1
      BY <2>3
    <3>2. nconn + 1 \in 1..nconn'
      BY <1>1
    <3> QED
      BY <1>2, <2>3, <3>1, <3>2 DEF Connected
  <2>5. backlog' = b
    BY <2>1 DEF Connect
  <2>6. serving' \in 0..nconn'
    BY <1>1 DEF Connected, Connect
  <2>7. nconn' \in 1..MaxConns /\ econn' \in 0..nconn' /\ econn' # 0
    BY <1>1, ConnectedIs
  <2>8. active' # 0 /\ epoch' \in Nat
    BY DEF Connected, Connect
  <2> QED
    BY <2>3, <2>4, <2>5, <2>6, <2>7, <2>8 DEF Connected
<1> QED
  BY <1>3, <1>10, <1>11, <1>12, <1>13 DEF MediaOK

LEMMA DisconnectKeeps ==
  ASSUME NEW T, Wired(T), Connected, MediaOK(T), nextSig' = nextSig, pcs' = pcs, Disconnect
  PROVE  Wired(T)' /\ Connected' /\ MediaOK(T)'
<1>1. nconn \in Nat /\ nconn' = nconn /\ econn' = 0 /\ econn \in 1..nconn
  BY ConnectedIs DEF Disconnect, Connected
<1>2. \A c : c \in 1..nconn => c \in 1..nconn' /\ c # econn'
  BY <1>1
<1>3. Wired(T)'
  <2>1. PICK q \in Cut(wire[econn]) : wire' = [wire EXCEPT ![econn] = q]
    BY DEF Disconnect
  <2>2. econn \in Conns
    BY <1>1, ConnectedIs
  <2>3. Sub(q, wire[econn])
    BY <2>2, CutSub DEF Wired
  <2>4. DOMAIN wire' = Conns /\ \A b \in Conns : wire'[b] = IF b = econn THEN q ELSE wire[b]
    BY <2>1, <2>2 DEF Wired
  <2>5. \A b \in Conns : IsSeq(wire'[b])
    BY <2>3, <2>4 DEF Wired, Sub
  <2>6. \A b \in Conns : b > nconn' => wire'[b] = <<>>
    BY <1>1, <2>4 DEF Wired
  <2>7. \A b \in Conns : \A i \in 1..Len(wire'[b]) : wire'[b][i].uid \in Users
    BY <2>2, <2>3, <2>4 DEF Wired, Sub
  <2> QED
    BY <1>1, <2>4, <2>5, <2>6, <2>7 DEF Wired
<1>4. PICK e : e = [t |-> "down", conn |-> econn, epoch |-> active]
  OBVIOUS
<1>5. PICK q : q = Append(control, e)
  OBVIOUS
<1>6. IsSeq(control)
  BY DEF MediaOK, ControlOK
<1>7. IsSeq(q) /\ \A i \in 1..Len(q) : q[i] = e \/ \E j \in 1..Len(control) : q[i] = control[j]
  <2>1. /\ IsSeq(q) /\ Len(control) \in Nat /\ Len(q) = Len(control) + 1
        /\ q[Len(control) + 1] = e /\ \A i \in 1..Len(control) : q[i] = control[i]
    BY <1>5, <1>6, AppendIs
  <2> QED
    BY <2>1
<1>8. control' = q
  BY <1>4, <1>5 DEF Disconnect
<1>9. \A i \in 1..Len(q) : q[i].t = "message" =>
         q[i].conn \in 1..nconn' /\ q[i].conn # econn'
  BY <1>2, <1>4, <1>7 DEF MediaOK, ControlOK
<1>10. ControlOK(T)'
  BY <1>7, <1>8, <1>9 DEF ControlOK
<1>11. PeersOK(peers, T)'
  BY <1>2 DEF MediaOK, PeersOK, PeerRec, Disconnect
<1>12. EventsOK(fifo, T)'
  BY <1>2 DEF MediaOK, EventsOK, EventOK, Disconnect
<1>13. Connected'
  BY <1>1 DEF Connected, Disconnect
<1> QED
  BY <1>3, <1>10, <1>11, <1>12, <1>13 DEF MediaOK

-----------------------------------------------------------------------------
(* One client: what it asks for joins the end of the queue, the room's     *)
(* strand takes the head                                                   *)

LEMMA AppendFrom ==
  ASSUME NEW s, IsSeq(s), NEW h
  PROVE  /\ IsSeq(Append(s, h))
         /\ \A i \in 1..Len(Append(s, h)) :
               Append(s, h)[i] = h \/ \E j \in 1..Len(s) : Append(s, h)[i] = s[j]
<1>1. /\ IsSeq(Append(s, h)) /\ Len(s) \in Nat /\ Len(Append(s, h)) = Len(s) + 1
      /\ Append(s, h)[Len(s) + 1] = h /\ \A i \in 1..Len(s) : Append(s, h)[i] = s[i]
  BY AppendIs
<1>2. \A i \in 1..Len(s) + 1 : i \in 1..Len(s) \/ i = Len(s) + 1
  BY <1>1
<1> QED
  BY <1>1, <1>2

(* The request o says nothing about the session s.                         *)
Foreign(o, s) == ~Named(o, "offer", s) /\ ~Named(o, "leave", s) /\ ~Named(o, "join", s)

(* q is q0 and one more.                                                   *)
Grown(q, q0, o) ==
  /\ Len(q0) \in Nat /\ Len(q) = Len(q0) + 1 /\ q[Len(q0) + 1] = o
  /\ \A i \in 1..Len(q0) : q[i] = q0[i]

LEMMA AppendGrown == ASSUME NEW q, IsSeq(q), NEW o PROVE Grown(Append(q, o), q, o)
BY AppendIs DEF Grown

LEMMA ClosingGrows ==
  ASSUME NEW s, NEW q0, NEW q, NEW o, NEW g, Grown(q, q0, o), Closing(s, q0, g),
         ~Named(o, "offer", s)
  PROVE  Closing(s, q, g)
<1>1. ASSUME NEW i \in 1..Len(q), Named(q[i], "offer", s)
      PROVE  \E j \in i..Len(q) : Named(q[j], "leave", s)
  <2>1. i \in 1..Len(q0) /\ q0[i] = q[i]
    BY <1>1 DEF Grown
  <2>2. PICK j \in i..Len(q0) : Named(q0[j], "leave", s)
    BY <1>1, <2>1 DEF Closing
  <2>3. j \in 1..Len(q0) /\ j \in i..Len(q)
    BY <2>1, <2>2 DEF Grown
  <2> QED
    BY <2>2, <2>3 DEF Grown
<1>2. g # 0 => \E j \in 1..Len(q) : Named(q[j], "leave", s)
  BY DEF Closing, Grown
<1> QED
  BY <1>1, <1>2 DEF Closing

LEMMA CleanGrows ==
  ASSUME NEW s, NEW q0, NEW q, NEW o, NEW g, Grown(q, q0, o), Clean(s, q0, g),
         ~Named(o, "offer", s)
  PROVE  Clean(s, q, g)
BY DEF Clean, Grown

LEMMA NoJoinGrows ==
  ASSUME NEW s, NEW q0, NEW q, NEW o, Grown(q, q0, o), NoJoin(s, q0), ~Named(o, "join", s)
  PROVE  NoJoin(s, q)
BY DEF NoJoin, Grown

LEMMA ForeignGrows ==
  ASSUME NEW ph, NEW p, NEW d, NEW s, NEW q0, NEW q, NEW g, NEW T, NEW o,
         UserOK(ph, p, d, s, q0, g, T), Grown(q, q0, o), Foreign(o, s)
  PROVE  UserOK(ph, p, d, s, q, g, T)
<1>1. p # 0 => Publishing(ph, p, d, s, q, g, T)
  BY DEF UserOK, Publishing, Grown, Foreign
<1>2. NoJoin(s, q0) => NoJoin(s, q)
  BY NoJoinGrows DEF Foreign
<1>3. Clean(s, q0, g) => Clean(s, q, g)
  BY CleanGrows DEF Foreign
<1>4. Closing(s, q0, g) => Closing(s, q, g)
  BY ClosingGrows DEF Foreign
<1>5. Joining(d, s, q0, g) => Joining(d, s, q, g)
  <2>1. \A i \in 1..Len(q) : Named(q[i], "leave", s) \/ Named(q[i], "join", s) =>
           i \in 1..Len(q0) /\ q[i] = q0[i]
    BY DEF Grown, Foreign
  <2> QED
    BY <1>2, <1>3, <2>1 DEF Joining
<1> QED
  BY <1>1, <1>2, <1>3, <1>4, <1>5 DEF UserOK

(* OpenCamera                                                              *)
LEMMA OfferGrows ==
  ASSUME NEW s, NEW q0, NEW q, NEW g, NEW T, NEW o,
         UserOK("in", 0, <<>>, s, q0, g, T), Grown(q, q0, o), Named(o, "offer", s), o.tag # 0
  PROVE  UserOK("in", o.tag, <<>>, s, q, g, T)
<1>1. Clean(s, q0, g) /\ NoJoin(s, q0)
  BY DEF UserOK
<1>2. NoJoin(s, q)
  BY <1>1, NoJoinGrows DEF Named
<1>3. Publishing("in", o.tag, <<>>, s, q, g, T)
  BY <1>1, EmptyIs DEF Publishing, Clean, Grown
<1> QED
  BY <1>2, <1>3, EmptyIs DEF UserOK

(* LeaveMeeting                                                            *)
LEMMA LeaveGrows ==
  ASSUME NEW p, NEW d, NEW s, NEW q0, NEW q, NEW g, NEW T, NEW o,
         UserOK("in", p, d, s, q0, g, T), Grown(q, q0, o), Named(o, "leave", s)
  PROVE  UserOK("out", 0, d, s, q, g, T)
<1>1. NoJoin(s, q)
  BY NoJoinGrows DEF UserOK, Named
<1>2. Len(q) \in Nat /\ Len(q) \in 1..Len(q) /\ Named(q[Len(q)], "leave", s)
  BY DEF Grown
<1>3. Closing(s, q, g)
  <2>1. \A i \in 1..Len(q) : Len(q) \in i..Len(q)
    BY <1>2
  <2> QED
    BY <1>2, <2>1 DEF Closing
<1>4. \A i \in 1..Len(d) : d[i].type # "joined"
  BY EmptyIs DEF UserOK, Publishing
<1> QED
  BY <1>1, <1>3, <1>4 DEF UserOK

(* Rejoin                                                                  *)
LEMMA JoinGrows ==
  ASSUME NEW d, NEW s, NEW q0, NEW q, NEW g, NEW T, NEW o,
         UserOK("out", 0, d, s, q0, g, T), Grown(q, q0, o), Named(o, "join", s)
  PROVE  UserOK("joining", 0, d, s, q, g, T)
<1>1. Closing(s, q, g)
  BY ClosingGrows DEF UserOK, Named
<1>2. \A i \in 1..Len(q) : Named(q[i], "join", s) => i = Len(q)
  BY DEF UserOK, NoJoin, Grown
<1>3. \A i \in 1..Len(q) : Named(q[i], "leave", s) => i < Len(q)
  BY DEF Grown, Named
<1>4. Joining(d, s, q, g)
  BY <1>2, <1>3 DEF Joining, UserOK
<1> QED
  BY <1>1, <1>4 DEF UserOK

(* A session that nobody has used.                                         *)
LEMMA FreshUser ==
  ASSUME NEW s, NEW q, NEW T, \A i \in 1..Len(q) : Foreign(q[i], s)
  PROVE  UserOK("out", 0, <<>>, s, q, 0, T)
BY EmptyIs DEF UserOK, Foreign, NoJoin, Closing

(* q is q0 without its head.                                               *)
Shrunk(q, q0) ==
  /\ Len(q0) \in Nat /\ Len(q0) >= 1 /\ Len(q) = Len(q0) - 1
  /\ \A i \in 1..Len(q) : q[i] = q0[i + 1]

LEMMA TailShrunk ==
  ASSUME NEW q, IsSeq(q), q # <<>>
  PROVE  Shrunk(Tail(q), q) /\ Head(q) = q[1]
BY TailIs DEF Shrunk

LEMMA ShrunkIs ==
  ASSUME NEW q, NEW q0, Shrunk(q, q0)
  PROVE  /\ \A i \in 1..Len(q) : i + 1 \in 1..Len(q0) /\ q[i] = q0[i + 1]
         /\ \A i \in 1..Len(q0) : i # 1 => i - 1 \in 1..Len(q) /\ q[i - 1] = q0[i]
BY DEF Shrunk

LEMMA CleanShrinks ==
  ASSUME NEW s, NEW q0, NEW q, NEW g, Shrunk(q, q0), Clean(s, q0, g)
  PROVE  Clean(s, q, g)
BY ShrunkIs DEF Clean

LEMMA NoJoinShrinks ==
  ASSUME NEW s, NEW q0, NEW q, Shrunk(q, q0), NoJoin(s, q0)
  PROVE  NoJoin(s, q)
BY ShrunkIs DEF NoJoin

(* The offers left have their leave behind them.                           *)
LEMMA ClosingShrinks ==
  ASSUME NEW s, NEW q0, NEW q, NEW g, NEW h, Shrunk(q, q0), Closing(s, q0, g),
         h # 0 => (g # 0 \/ Named(q0[1], "offer", s)) /\ ~Named(q0[1], "leave", s)
  PROVE  Closing(s, q, h)
<1>1. ASSUME NEW i \in 1..Len(q), Named(q[i], "offer", s)
      PROVE  \E j \in i..Len(q) : Named(q[j], "leave", s)
  <2>1. PICK k : k = i + 1
    OBVIOUS
  <2>2. k \in 1..Len(q0) /\ Named(q0[k], "offer", s)
    BY <1>1, <2>1, ShrunkIs
  <2>3. PICK j \in k..Len(q0) : Named(q0[j], "leave", s)
    BY <2>2 DEF Closing
  <2>4. PICK m : m = j - 1
    OBVIOUS
  <2>5. j \in 1..Len(q0) /\ j # 1 /\ m \in i..Len(q)
    BY <2>1, <2>2, <2>3, <2>4 DEF Shrunk
  <2>6. q[m] = q0[j]
    BY <2>4, <2>5, ShrunkIs
  <2> QED
    BY <2>3, <2>5, <2>6
<1>2. ASSUME h # 0 PROVE \E j \in 1..Len(q) : Named(q[j], "leave", s)
  <2>1. PICK j \in 1..Len(q0) : Named(q0[j], "leave", s)
    <3>1. CASE g # 0
      BY <3>1 DEF Closing
    <3>2. CASE Named(q0[1], "offer", s)
      <4>1. 1 \in 1..Len(q0)
        BY DEF Shrunk
      <4>2. PICK j \in 1..Len(q0) : Named(q0[j], "leave", s)
        BY <3>2, <4>1 DEF Closing
      <4> QED
        BY <4>2
    <3> QED
      BY <1>2, <3>1, <3>2
  <2>2. j # 1
    BY <1>2, <2>1
  <2>3. PICK m : m = j - 1
    OBVIOUS
  <2>4. m \in 1..Len(q) /\ q[m] = q0[j]
    BY <2>2, <2>3, ShrunkIs
  <2> QED
    BY <2>1, <2>4
<1> QED
  BY <1>1, <1>2 DEF Closing

LEMMA JoiningShrinks ==
  ASSUME NEW d, NEW s, NEW q0, NEW q, NEW g, NEW h, Shrunk(q, q0), Joining(d, s, q0, g),
         h # 0 => g # 0 \/ Named(q0[1], "offer", s)
  PROVE  Joining(d, s, q, h)
<1>1. \A i, j \in 1..Len(q) : Named(q[i], "leave", s) /\ Named(q[j], "join", s) => i < j
  <2>1. TAKE i, j \in 1..Len(q)
  <2>2. HAVE Named(q[i], "leave", s) /\ Named(q[j], "join", s)
  <2>3. PICK k, m : k = i + 1 /\ m = j + 1
    OBVIOUS
  <2>4. k \in 1..Len(q0) /\ m \in 1..Len(q0) /\ q0[k] = q[i] /\ q0[m] = q[j]
    BY <2>3, ShrunkIs
  <2>5. k < m
    BY <2>2, <2>4 DEF Joining
  <2> QED
    BY <2>3, <2>5
<1>2. \A i, j \in 1..Len(q) : Named(q[i], "join", s) /\ Named(q[j], "join", s) => i = j
  <2>1. TAKE i, j \in 1..Len(q)
  <2>2. HAVE Named(q[i], "join", s) /\ Named(q[j], "join", s)
  <2>3. PICK k, m : k = i + 1 /\ m = j + 1
    OBVIOUS
  <2>4. k \in 1..Len(q0) /\ m \in 1..Len(q0) /\ q0[k] = q[i] /\ q0[m] = q[j]
    BY <2>3, ShrunkIs
  <2>5. k = m
    BY <2>2, <2>4 DEF Joining
  <2> QED
    BY <2>3, <2>5
<1>3. ASSUME NEW i \in 1..Len(d), d[i].type = "joined"
      PROVE  i = Len(d) /\ Clean(s, q, h) /\ NoJoin(s, q)
  <2>1. i = Len(d) /\ Clean(s, q0, g) /\ NoJoin(s, q0)
    BY <1>3 DEF Joining
  <2>2. 1 \in 1..Len(q0)
    BY DEF Shrunk
  <2>3. h = 0
    BY <2>1, <2>2 DEF Clean
  <2>4. Clean(s, q, g) /\ NoJoin(s, q)
    BY <2>1, CleanShrinks, NoJoinShrinks
  <2> QED
    BY <2>1, <2>3, <2>4 DEF Clean
<1> QED
  BY <1>1, <1>2, <1>3 DEF Joining

(* The room's strand takes a request that is not a join of this session,   *)
(* and the session keeps its signal id (h = g), or loses it (h = 0), as    *)
(* with its leave.                                                         *)
LEMMA HeadTaken ==
  ASSUME NEW ph, NEW p, NEW d, NEW s, NEW q0, NEW q, NEW g, NEW h, NEW T,
         UserOK(ph, p, d, s, q0, g, T), Shrunk(q, q0),
         h = 0 \/ (h = g /\ ~Named(q0[1], "leave", s))
  PROVE  UserOK(ph, p, d, s, q, h, T)
<1>1. p # 0 => Publishing(ph, p, d, s, q, h, T)
  BY ShrunkIs DEF UserOK, Publishing
<1>2. NoJoin(s, q0) => NoJoin(s, q)
  BY NoJoinShrinks
<1>3. Clean(s, q0, g) => Clean(s, q, h)
  BY CleanShrinks DEF Clean
<1>4. Closing(s, q0, g) => Closing(s, q, h)
  BY ClosingShrinks
<1>5. Joining(d, s, q0, g) => Joining(d, s, q, h)
  BY JoiningShrinks
<1> QED
  BY <1>1, <1>2, <1>3, <1>4, <1>5 DEF UserOK

(* It takes an offer of this session, which gets the new signal id.        *)
LEMMA OfferTaken ==
  ASSUME NEW ph, NEW p, NEW d, NEW s, NEW q0, NEW q, NEW g, NEW id, NEW T,
         UserOK(ph, p, d, s, q0, g, T), Shrunk(q, q0), Named(q0[1], "offer", s),
         id # 0, T[id] = q0[1].tag
  PROVE  UserOK(ph, p, d, s, q, id, T)
<1>1. 1 \in 1..Len(q0) /\ ~Named(q0[1], "leave", s)
  BY DEF Shrunk, Named
<1>2. p # 0 => Publishing(ph, p, d, s, q, id, T)
  BY <1>1, ShrunkIs DEF UserOK, Publishing
<1>3. NoJoin(s, q0) => NoJoin(s, q)
  BY NoJoinShrinks
<1>4. ~Clean(s, q0, g)
  BY <1>1 DEF Clean
<1>5. Closing(s, q0, g) => Closing(s, q, id)
  BY <1>1, ClosingShrinks
<1>6. Joining(d, s, q0, g) => Joining(d, s, q, id)
  BY JoiningShrinks
<1> QED
  BY <1>2, <1>3, <1>4, <1>5, <1>6 DEF UserOK

(* It takes the join of this session: nothing is left of the last media    *)
(* session.                                                                *)
LEMMA JoinTaken ==
  ASSUME NEW ph, NEW p, NEW d0, NEW d, NEW s, NEW q0, NEW q, NEW g, NEW h, NEW T, NEW m,
         UserOK(ph, p, d0, s, q0, g, T), Shrunk(q, q0), Named(q0[1], "join", s),
         IsSeq(d), Grown(d, d0, m), h = g \/ h = 0
  PROVE  UserOK(ph, p, d, s, q, h, T)
<1>1. 1 \in 1..Len(q0)
  BY DEF Shrunk
<1>2. ph = "joining" /\ p = 0 /\ ~NoJoin(s, q0) /\ Closing(s, q0, g) /\ Joining(d0, s, q0, g)
  BY <1>1 DEF UserOK, Publishing, NoJoin
<1>3. \A i \in 1..Len(q0) : ~Named(q0[i], "leave", s)
  <2>1. ASSUME NEW i \in 1..Len(q0), Named(q0[i], "leave", s) PROVE FALSE
    <3>1. i < 1
      BY <1>1, <1>2, <2>1 DEF Joining
    <3> QED
      BY <3>1
  <2> QED
    BY <2>1
<1>4. Clean(s, q0, g)
  <2>1. g = 0
    BY <1>2, <1>3 DEF Closing
  <2>2. ASSUME NEW i \in 1..Len(q0), Named(q0[i], "offer", s) PROVE FALSE
    <3>1. PICK j \in i..Len(q0) : Named(q0[j], "leave", s)
      BY <1>2, <2>2 DEF Closing
    <3>2. j \in 1..Len(q0)
      BY DEF Shrunk
    <3> QED
      BY <1>3, <3>1, <3>2
  <2> QED
    BY <2>1, <2>2 DEF Clean
<1>5. Clean(s, q, h)
  BY <1>4, CleanShrinks DEF Clean
<1>6. NoJoin(s, q)
  <2>1. ASSUME NEW i \in 1..Len(q), Named(q[i], "join", s) PROVE FALSE
    <3>1. PICK k : k = i + 1
      OBVIOUS
    <3>2. k \in 1..Len(q0) /\ Named(q0[k], "join", s)
      BY <2>1, <3>1, ShrunkIs
    <3>3. k = 1
      BY <1>1, <1>2, <3>2 DEF Joining
    <3> QED
      BY <3>1, <3>3
  <2> QED
    BY <2>1 DEF NoJoin
<1>7. Closing(s, q, h)
  BY <1>5 DEF Clean, Closing
<1>8. \A i \in 1..Len(d0) : d0[i].type # "joined"
  BY <1>2 DEF Joining
<1>9. \A i \in 1..Len(d) : d[i].type = "joined" => i = Len(d)
  BY <1>8 DEF Grown
<1>10. Joining(d, s, q, h)
  BY <1>5, <1>6, <1>9 DEF Joining, NoJoin
<1> QED
  BY <1>2, <1>7, <1>10 DEF UserOK

(* The client gets a frame of its session's signal id.                     *)
LEMMA FrameComes ==
  ASSUME NEW ph, NEW p, NEW d0, NEW d, NEW s, NEW q, NEW g, NEW T, NEW m,
         UserOK(ph, p, d0, s, q, g, T), IsSeq(d), Grown(d, d0, m), g # 0,
         m.tag = T[g], m.type # "joined"
  PROVE  UserOK(ph, p, d, s, q, g, T)
<1>1. ~Clean(s, q, g)
  BY DEF Clean
<1>2. p # 0 => Publishing(ph, p, d, s, q, g, T)
  BY DEF UserOK, Publishing, Grown
<1>3. ph # "in" => \A i \in 1..Len(d0) : d0[i].type # "joined"
  BY <1>1 DEF UserOK, Joining
<1>4. ph # "in" => \A i \in 1..Len(d) : d[i].type # "joined"
  BY <1>3 DEF Grown
<1>5. ph = "joining" => Joining(d, s, q, g)
  BY <1>4 DEF UserOK, Joining
<1> QED
  BY <1>1, <1>2, <1>4, <1>5 DEF UserOK

(* It reads a frame.                                                       *)
LEMMA FrameRead ==
  ASSUME NEW ph, NEW p, NEW d0, NEW d, NEW s, NEW q, NEW g, NEW T,
         UserOK(ph, p, d0, s, q, g, T), IsSeq(d), Shrunk(d, d0), d0[1].type # "joined"
  PROVE  UserOK(ph, p, d, s, q, g, T)
<1>1. ASSUME p # 0 PROVE Publishing(ph, p, d, s, q, g, T)
  <2>1. Publishing(ph, p, d0, s, q, g, T)
    BY <1>1 DEF UserOK
  <2>2. \A i \in 1..Len(d) : \E j \in 1..Len(d0) : d[i] = d0[j]
    BY ShrunkIs
  <2> QED
    BY <2>1, <2>2 DEF Publishing
<1>2. ~(ph = "in" /\ p = 0)
  BY EmptyIs DEF UserOK, Shrunk
<1>3. ph = "out" => \A i \in 1..Len(d) : d[i].type # "joined"
  BY ShrunkIs DEF UserOK
<1>4. ASSUME Joining(d0, s, q, g) PROVE Joining(d, s, q, g)
  <2>1. ASSUME NEW i \in 1..Len(d), d[i].type = "joined"
        PROVE  i = Len(d) /\ Clean(s, q, g) /\ NoJoin(s, q)
    <3>1. PICK k : k = i + 1
      OBVIOUS
    <3>2. k \in 1..Len(d0) /\ d0[k].type = "joined"
      BY <2>1, <3>1, ShrunkIs
    <3>3. k = Len(d0) /\ Clean(s, q, g) /\ NoJoin(s, q)
      BY <1>4, <3>2 DEF Joining
    <3> QED
      BY <3>1, <3>3 DEF Shrunk
  <2> QED
    BY <1>4, <2>1 DEF Joining
<1> QED
  BY <1>1, <1>2, <1>3, <1>4 DEF UserOK

(* It reads that it has joined: that is the last one.                      *)
LEMMA JoinedRead ==
  ASSUME NEW ph, NEW p, NEW d0, NEW d, NEW s, NEW q, NEW g, NEW T,
         UserOK(ph, p, d0, s, q, g, T), IsSeq(d), Shrunk(d, d0), d0[1].type = "joined"
  PROVE  UserOK("in", p, d, s, q, g, T)
<1>1. 1 \in 1..Len(d0) /\ d0 # <<>>
  BY EmptyIs DEF Shrunk
<1>2. ph = "joining" /\ p = 0
  BY <1>1 DEF UserOK, Publishing
<1>3. Len(d0) = 1 /\ Clean(s, q, g) /\ NoJoin(s, q)
  BY <1>1, <1>2 DEF UserOK, Joining
<1>4. Len(d) = 0
  BY <1>3 DEF Shrunk
<1>5. d = <<>>
  <2>1. PICK S : d \in Seq(S)
    BY DEF IsSeq
  <2> QED
    BY <1>4, <2>1
<1> QED
  BY <1>2, <1>3, <1>5, EmptyIs DEF UserOK

(* The signal ids of other sessions.                                       *)
LEMMA TagsAgree ==
  ASSUME NEW ph, NEW p, NEW d, NEW s, NEW q, NEW g, NEW T, NEW T2,
         UserOK(ph, p, d, s, q, g, T), g # 0 => T2[g] = T[g]
  PROVE  UserOK(ph, p, d, s, q, g, T2)
BY DEF UserOK, Publishing

(* A session loses its signal id.                                          *)
LEMMA IdDropped ==
  ASSUME NEW ph, NEW p, NEW d, NEW s, NEW q, NEW g, NEW T, UserOK(ph, p, d, s, q, g, T)
  PROVE  UserOK(ph, p, d, s, q, 0, T)
BY DEF UserOK, Publishing, Clean, Closing, Joining

-----------------------------------------------------------------------------
(* The room's strand of RealtimeServer                                     *)

LEMMA QueueGrows ==
  ASSUME NEW T, QueueOK(T), nextSig' = nextSig, NEW o, RequestOK(o, T),
         roomq' = Append(roomq, o)
  PROVE  QueueOK(T)'
<1>1. PICK q : q = Append(roomq, o)
  OBVIOUS
<1>2. IsSeq(q) /\ \A i \in 1..Len(q) : q[i] = o \/ \E j \in 1..Len(roomq) : q[i] = roomq[j]
  BY <1>1, AppendFrom DEF QueueOK
<1>3. \A i \in 1..Len(q) : RequestOK(q[i], T)
  BY <1>2 DEF QueueOK
<1> QED
  BY <1>1, <1>2, <1>3 DEF QueueOK, RequestOK, Genuine, Tagged, Sessions

LEMMA QueueShrinks ==
  ASSUME NEW T, QueueOK(T), nextSig' = nextSig, roomq # <<>>, roomq' = Tail(roomq)
  PROVE  QueueOK(T)'
<1>1. PICK q : q = Tail(roomq)
  OBVIOUS
<1>2. IsSeq(q) /\ \A i \in 1..Len(q) : \E j \in 1..Len(roomq) : q[i] = roomq[j]
  BY <1>1, TailIs DEF QueueOK
<1>3. \A i \in 1..Len(q) : RequestOK(q[i], T)
  BY <1>2 DEF QueueOK
<1> QED
  BY <1>1, <1>2, <1>3 DEF QueueOK, RequestOK, Genuine, Tagged, Sessions

LEMMA RoomStays ==
  ASSUME NEW T, QueueOK(T), OpOK(T), BindingsOK, nextSig' = nextSig
  PROVE  /\ roomq' = roomq => QueueOK(T)'
         /\ op' = op => OpOK(T)'
         /\ sig' = sig /\ signals' = signals => BindingsOK'
<1>1. roomq' = roomq => QueueOK(T)'
  BY DEF QueueOK, RequestOK, Genuine, Tagged, Sessions
<1>2. op' = op => OpOK(T)'
  BY DEF OpOK, Sessions
<1>3. sig' = sig /\ signals' = signals => BindingsOK'
  BY DEF BindingsOK, Sessions
<1> QED
  BY <1>1, <1>2, <1>3

LEMMA ClientsStay ==
  ASSUME NEW T, ClientsOK(T), UNCHANGED <<cur, phase, pc, toClient, roomq, sig>>
  PROVE  ClientsOK(T)'
<1>1. \A u \in Users : Unused(u)'
  BY DEF ClientsOK, Unused
<1>2. \A u \in Users : UserIs(u, T)'
  BY DEF ClientsOK, UserIs, Current
<1> QED
  BY <1>1, <1>2 DEF ClientsOK

LEMMA CurrentIs ==
  ASSUME NEW T, ClientsOK(T), NEW u \in Users
  PROVE  /\ Current(u) \in Sessions /\ Current(u)[1] = u /\ Current(u)[2] = cur[u]
         /\ \A v \in Users : v # u => Current(v) # Current(u)
BY DEF ClientsOK, Current, Sessions

(* A request of the client u.                                              *)
LEMMA UnusedGrows ==
  ASSUME NEW T, ClientsOK(T), IsSeq(roomq), NEW o, roomq' = Append(roomq, o),
         UNCHANGED <<cur, sig>>,
         o.t # "response" => \E v \in Users : o.session = Current(v)
  PROVE  \A u \in Users : Unused(u)'
<1>1. SUFFICES ASSUME NEW u \in Users PROVE Unused(u)'
  OBVIOUS
<1>2. Unused(u)
  BY DEF ClientsOK
<1>3. PICK q : q = Append(roomq, o)
  OBVIOUS
<1>4. \A i \in 1..Len(q) : q[i] = o \/ \E j \in 1..Len(roomq) : q[i] = roomq[j]
  BY <1>3, AppendFrom
<1>5. ASSUME NEW k \in 1..MaxSessions, k > cur[u]
      PROVE  /\ sig[<<u, k>>] = 0
             /\ \A i \in 1..Len(q) : q[i].t # "response" => q[i].session # <<u, k>>
  <2>1. /\ sig[<<u, k>>] = 0
        /\ \A i \in 1..Len(roomq) : roomq[i].t # "response" => roomq[i].session # <<u, k>>
    BY <1>2, <1>5 DEF Unused
  <2>2. cur[u] \in Nat /\ k # cur[u]
    BY <1>5 DEF ClientsOK
  <2>3. o.t # "response" => o.session # <<u, k>>
    BY <2>2 DEF Current
  <2> QED
    BY <1>4, <2>1, <2>3
<1> QED
  BY <1>3, <1>5 DEF Unused

LEMMA ResponseComes ==
  ASSUME NEW T, ClientsOK(T), IsSeq(roomq), NEW o, roomq' = Append(roomq, o),
         UNCHANGED <<cur, phase, pc, toClient, sig>>, o.t = "response"
  PROVE  ClientsOK(T)'
<1>1. \A u \in Users : Unused(u)'
  BY UnusedGrows
<1>2. \A u \in Users : UserIs(u, T)'
  <2>1. TAKE u \in Users
  <2>2. PICK q : q = Append(roomq, o)
    OBVIOUS
  <2>3. Grown(q, roomq, o) /\ Foreign(o, Current(u))
    BY <2>2, AppendGrown DEF Foreign, Named
  <2>4. UserOK(phase[u], pc[u], toClient[u], Current(u), q, sig[Current(u)], T)
    BY <2>3, ForeignGrows DEF ClientsOK, UserIs
  <2> QED
    BY <2>2, <2>4 DEF UserIs, Current
<1> QED
  BY <1>1, <1>2 DEF ClientsOK

LEMMA ClientAsks ==
  ASSUME NEW T, ClientsOK(T), IsSeq(roomq), NEW u \in Users, NEW o, o.session = Current(u),
         roomq' = Append(roomq, o), UNCHANGED <<cur, sig>>,
         DOMAIN phase' = Users, DOMAIN pc' = Users, DOMAIN toClient' = Users,
         \A v \in Users : v # u => /\ phase'[v] = phase[v] /\ pc'[v] = pc[v]
                                   /\ toClient'[v] = toClient[v],
         UserIs(u, T)'
  PROVE  ClientsOK(T)'
<1>1. \A v \in Users : Unused(v)'
  BY UnusedGrows
<1>2. ASSUME NEW v \in Users, v # u PROVE UserIs(v, T)'
  <2>1. PICK q : q = Append(roomq, o)
    OBVIOUS
  <2>2. Grown(q, roomq, o) /\ Foreign(o, Current(v))
    BY <1>2, <2>1, AppendGrown, CurrentIs DEF Foreign, Named
  <2>3. UserOK(phase[v], pc[v], toClient[v], Current(v), q, sig[Current(v)], T)
    BY <2>2, ForeignGrows DEF ClientsOK, UserIs
  <2> QED
    BY <1>2, <2>1, <2>3 DEF UserIs, Current
<1> QED
  BY <1>1, <1>2 DEF ClientsOK

(* The strand takes the head.                                              *)
LEMMA UnusedShrinks ==
  ASSUME NEW T, ClientsOK(T), IsSeq(roomq), roomq # <<>>, roomq' = Tail(roomq), cur' = cur,
         \A s \in Sessions : sig'[s] \in {0, sig[s]} \/ (/\ Head(roomq).t # "response"
                                                         /\ s = Head(roomq).session)
  PROVE  \A u \in Users : Unused(u)'
<1>1. SUFFICES ASSUME NEW u \in Users PROVE Unused(u)'
  OBVIOUS
<1>2. Unused(u)
  BY DEF ClientsOK
<1>3. PICK q : q = Tail(roomq)
  OBVIOUS
<1>4. \A i \in 1..Len(q) : \E j \in 1..Len(roomq) : q[i] = roomq[j]
  BY <1>3, TailIs
<1>5. 1 \in 1..Len(roomq) /\ Head(roomq) = roomq[1]
  BY TailIs
<1>6. ASSUME NEW k \in 1..MaxSessions, k > cur[u]
      PROVE  /\ sig'[<<u, k>>] = 0
             /\ \A i \in 1..Len(q) : q[i].t # "response" => q[i].session # <<u, k>>
  <2>1. /\ sig[<<u, k>>] = 0
        /\ \A i \in 1..Len(roomq) : roomq[i].t # "response" => roomq[i].session # <<u, k>>
    BY <1>2, <1>6 DEF Unused
  <2>2. <<u, k>> \in Sessions
    BY DEF Sessions
  <2> QED
    BY <1>4, <1>5, <2>1, <2>2
<1> QED
  BY <1>3, <1>6 DEF Unused

(* Its request is of no consequence for the clients, but may drop signal   *)
(* ids.                                                                    *)
LEMMA HeadLeaves ==
  ASSUME NEW T, ClientsOK(T), IsSeq(roomq), roomq # <<>>, roomq' = Tail(roomq),
         UNCHANGED <<cur, phase, pc, toClient>>,
         \A s \in Sessions : sig'[s] \in {0, sig[s]},
         Head(roomq).t # "join",
         Head(roomq).t = "leave" => sig'[Head(roomq).session] = 0
  PROVE  ClientsOK(T)'
<1>1. \A u \in Users : Unused(u)'
  BY UnusedShrinks
<1>2. \A u \in Users : UserIs(u, T)'
  <2>1. TAKE u \in Users
  <2>2. PICK q : q = Tail(roomq)
    OBVIOUS
  <2>3. Shrunk(q, roomq) /\ Head(roomq) = roomq[1]
    BY <2>2, TailShrunk
  <2>4. PICK g, h : g = sig[Current(u)] /\ h = sig'[Current(u)]
    OBVIOUS
  <2>5. h = 0 \/ (h = g /\ ~Named(roomq[1], "leave", Current(u)))
    BY <2>3, <2>4, CurrentIs DEF Named
  <2>6. UserOK(phase[u], pc[u], toClient[u], Current(u), roomq, g, T)
    BY <2>4 DEF ClientsOK, UserIs
  <2>7. UserOK(phase[u], pc[u], toClient[u], Current(u), q, h, T)
    BY <2>3, <2>5, <2>6, HeadTaken
  <2> QED
    BY <2>2, <2>4, <2>7 DEF UserIs, Current
<1> QED
  BY <1>1, <1>2 DEF ClientsOK

LEMMA ReleaseKeeps ==
  ASSUME NEW T, Wired(T), Connected, BindingsOK, IdsStay, NEW s, s[1] \in Users,
         ReleaseMediaSession(s)
  PROVE  /\ Wired(T)' /\ (connected' => connected) /\ BindingsOK'
         /\ \A x \in Sessions : sig'[x] \in {0, sig[x]}
         /\ s \in Sessions => sig'[s] = 0
<1>1. Wired(T)' /\ (connected' => connected)
  <2>1. FrameOK(Frame("leave", sig[s], s[1], 0, 0), T)
    BY DEF FrameOK, Frame
  <2>2. CASE wire' = wire /\ connected' = connected
    BY <2>2, WireStays
  <2>3. CASE Send(FindSignal(sig[s]).epoch, Frame("leave", sig[s], s[1], 0, 0))
    BY <2>1, <2>3, SendKeeps
  <2> QED
    BY <2>2, <2>3 DEF ReleaseMediaSession
<1>2. sig' = [sig EXCEPT ![s] = 0]
  BY DEF ReleaseMediaSession
<1>3. sig \in [Sessions -> 0..(nextSig - 1)] /\ nextSig \in Nat \ {0}
  BY DEF BindingsOK, Connected
<1>4. sig' \in [Sessions -> 0..(nextSig - 1)]
  <2>1. PICK S : S = 0..(nextSig - 1)
    OBVIOUS
  <2>2. 0 \in S
    BY <1>3, <2>1
  <2>3. sig \in [Sessions -> S]
    BY <1>3, <2>1
  <2>4. sig' \in [Sessions -> S]
    BY <1>2, <2>2, <2>3
  <2> QED
    BY <2>1, <2>4
<1>5. \A id \in DOMAIN signals' : id \in DOMAIN signals /\ signals'[id] = signals[id]
  BY DEF ReleaseMediaSession, Without
<1>6. BindingsOK'
  BY <1>4, <1>5 DEF BindingsOK, IdsStay, Sessions
<1> QED
  BY <1>1, <1>2, <1>3, <1>6

(* The parts of a step of the strand that no client sees.                  *)
StrandVars ==
  <<serving, backlog, control, fifo, peers, epoch, active, econn, nconn, pcs, cur, phase, pc>>

LEMMA StrandStays ==
  ASSUME NEW T, Signalled(T), UNCHANGED StrandVars, connected' => connected, nextSig' = nextSig
  PROVE  Connected' /\ MediaOK(T)' /\ IdsStay
<1>1. IdsStay
  BY DEF StrandVars, IdsStay
<1>2. MediaOK(T)'
  BY <1>1, MediaStays DEF Signalled, StrandVars
<1>3. Connected'
  BY DEF Signalled, Connected, StrandVars
<1> QED
  BY <1>1, <1>2, <1>3

LEMMA RoomHead ==
  ASSUME NEW T, QueueOK(T), roomq # <<>>
  PROVE  RequestOK(Head(roomq), T) /\ 1 \in 1..Len(roomq) /\ Head(roomq) = roomq[1] /\ IsSeq(roomq)
BY TailIs DEF QueueOK

LEMMA RelayStep ==
  ASSUME NEW T, Signalled(T), op = <<>>, roomq # <<>>, roomq' = Tail(roomq),
         UNCHANGED StrandVars, NEW o, o = Head(roomq), o.t \in {"answer", "candidate"}, Relay(o)
  PROVE  Signalled(T)'
<1>1. nextSig' = nextSig /\ UNCHANGED <<signals, sig, op, toClient>>
  BY DEF Relay
<1>2. RequestOK(o, T) /\ IsSeq(roomq)
  BY RoomHead DEF Signalled
<1>3. IdsStay
  BY <1>1 DEF IdsStay, StrandVars
<1>4. Wired(T)' /\ (connected' => connected)
  <2>1. FrameOK(Frame(o.t, sig[o.session], o.session[1], o.tag, o.re), T)
    BY <1>2 DEF FrameOK, Frame, RequestOK, Sessions
  <2>2. CASE wire' = wire /\ connected' = connected
    BY <1>3, <2>2, WireStays DEF Signalled
  <2>3. CASE \E e : Send(e, Frame(o.t, sig[o.session], o.session[1], o.tag, o.re))
    BY <1>3, <2>1, <2>3, SendKeeps DEF Signalled
  <2> QED
    BY <2>2, <2>3 DEF Relay
<1>5. Connected' /\ MediaOK(T)'
  BY <1>1, <1>4, StrandStays
<1>6. QueueOK(T)' /\ OpOK(T)' /\ BindingsOK'
  BY <1>1, QueueShrinks, RoomStays DEF Signalled
<1>7. ClientsOK(T)'
  BY <1>1, <1>2, HeadLeaves DEF Signalled, StrandVars, BindingsOK
<1> QED
  BY <1>4, <1>5, <1>6, <1>7 DEF Signalled

LEMMA ReleaseStep ==
  ASSUME NEW T, Signalled(T), op = <<>>, roomq # <<>>, roomq' = Tail(roomq),
         UNCHANGED StrandVars, NEW o, o = Head(roomq), o.t \in {"leave", "lost"}, Release(o)
  PROVE  Signalled(T)'
<1>1. nextSig' = nextSig /\ UNCHANGED <<op, toClient>> /\ ReleaseMediaSession(o.session)
  BY DEF Release
<1>2. RequestOK(o, T) /\ IsSeq(roomq)
  BY RoomHead DEF Signalled
<1>3. IdsStay
  BY <1>1 DEF IdsStay, StrandVars
<1>4. o.session \in Sessions /\ o.session[1] \in Users
  BY <1>2 DEF RequestOK, Sessions
<1>5. /\ Wired(T)' /\ (connected' => connected) /\ BindingsOK'
      /\ \A x \in Sessions : sig'[x] \in {0, sig[x]}
      /\ sig'[o.session] = 0
  BY <1>1, <1>3, <1>4, ReleaseKeeps DEF Signalled
<1>6. Connected' /\ MediaOK(T)'
  BY <1>1, <1>5, StrandStays
<1>7. QueueOK(T)' /\ OpOK(T)'
  BY <1>1, QueueShrinks, RoomStays DEF Signalled
<1>8. ClientsOK(T)'
  BY <1>1, <1>2, <1>5, HeadLeaves DEF Signalled, StrandVars
<1> QED
  BY <1>5, <1>6, <1>7, <1>8 DEF Signalled

LEMMA JoinStep ==
  ASSUME NEW T, Signalled(T), op = <<>>, roomq # <<>>, roomq' = Tail(roomq),
         UNCHANGED StrandVars, NEW o, o = Head(roomq), o.t = "join", JoinMeeting(o)
  PROVE  Signalled(T)'
<1>1. nextSig' = nextSig /\ op' = op
  BY DEF JoinMeeting
<1>2. RequestOK(o, T) /\ IsSeq(roomq) /\ roomq[1] = o
  BY RoomHead DEF Signalled
<1>3. IdsStay
  BY <1>1 DEF IdsStay, StrandVars
<1>4. PICK s, u : s = o.session /\ u = s[1]
  OBVIOUS
<1>5. s \in Sessions /\ u \in Users
  BY <1>2, <1>4 DEF RequestOK, Sessions
<1>6. /\ Wired(T)' /\ (connected' => connected) /\ BindingsOK'
      /\ \A x \in Sessions : sig'[x] \in {0, sig[x]}
  <2>1. CASE ReleaseMediaSession(<<u, bound[u]>>)
    BY <1>3, <1>5, <2>1, ReleaseKeeps DEF Signalled
  <2>2. CASE UNCHANGED <<wire, connected, signals, sig>>
    BY <1>1, <1>3, <2>2, WireStays, RoomStays DEF Signalled
  <2> QED
    BY <1>4, <2>1, <2>2 DEF JoinMeeting
<1>7. Connected' /\ MediaOK(T)'
  BY <1>1, <1>6, StrandStays
<1>8. QueueOK(T)' /\ OpOK(T)'
  BY <1>1, QueueShrinks, RoomStays DEF Signalled
<1>9. \A v \in Users : Unused(v)'
  BY <1>2, <1>6, UnusedShrinks DEF Signalled, StrandVars
<1>10. PICK m : m = [type |-> "joined", tag |-> 0]
  OBVIOUS
<1>11. toClient' = IF s = Current(u) THEN [toClient EXCEPT ![u] = Append(@, m)] ELSE toClient
  BY <1>4, <1>10 DEF JoinMeeting
<1>12. DOMAIN toClient = Users /\ DOMAIN toClient' = Users
  BY <1>11 DEF Signalled, ClientsOK
<1>13. \A v \in Users : UserIs(v, T)'
  <2>1. TAKE v \in Users
  <2>2. PICK q, g, h : q = Tail(roomq) /\ g = sig[Current(v)] /\ h = sig'[Current(v)]
    OBVIOUS
  <2>3. Shrunk(q, roomq)
    BY <1>2, <2>2, TailShrunk
  <2>4. UserOK(phase[v], pc[v], toClient[v], Current(v), roomq, g, T)
    BY <2>2 DEF Signalled, ClientsOK, UserIs
  <2>5. h = g \/ h = 0
    BY <1>6, <2>2, CurrentIs DEF Signalled
  <2>6. UserOK(phase[v], pc[v], toClient'[v], Current(v), q, h, T)
    <3>1. CASE s = Current(v)
      <4>1. v = u /\ Named(roomq[1], "join", Current(v))
        BY <1>2, <1>4, <3>1 DEF Named, Current
      <4>2. toClient'[v] = Append(toClient[v], m)
        BY <1>11, <1>12, <3>1, <4>1
      <4>3. IsSeq(toClient[v])
        BY <2>4 DEF UserOK
      <4>4. IsSeq(toClient'[v]) /\ Grown(toClient'[v], toClient[v], m)
        BY <4>2, <4>3, AppendIs, AppendGrown
      <4> QED
        BY <2>3, <2>4, <2>5, <4>1, <4>4, JoinTaken
    <3>2. CASE s # Current(v)
      <4>1. toClient'[v] = toClient[v]
        <5>1. CASE v = u
          BY <1>11, <3>2, <5>1
        <5>2. CASE v # u
          BY <1>11, <1>12, <5>2
        <5> QED
          BY <5>1, <5>2
      <4>2. ~Named(roomq[1], "leave", Current(v))
        BY <1>2 DEF Named
      <4> QED
        BY <2>3, <2>4, <2>5, <4>1, <4>2, HeadTaken
    <3> QED
      BY <3>1, <3>2
  <2> QED
    BY <2>2, <2>6 DEF UserIs, Current, StrandVars
<1>14. ClientsOK(T)'
  BY <1>9, <1>12, <1>13 DEF ClientsOK, Signalled, StrandVars
<1> QED
  BY <1>6, <1>7, <1>8, <1>14 DEF Signalled

(* MediaSignalResponseHandler: a frame of the session's own signal id.     *)
LEMMA ResponseStep ==
  ASSUME NEW T, Signalled(T), op = <<>>, roomq # <<>>, roomq' = Tail(roomq),
         UNCHANGED StrandVars, NEW o, o = Head(roomq), o.t = "response", MediaResponse(o)
  PROVE  Signalled(T)'
<1>1. UNCHANGED <<wire, connected, signals, sig, nextSig, op>>
  BY DEF MediaResponse
<1>2. RequestOK(o, T) /\ IsSeq(roomq) /\ roomq[1] = o
  BY RoomHead DEF Signalled
<1>3. IdsStay
  BY <1>1 DEF IdsStay, StrandVars
<1>4. Wired(T)' /\ Connected' /\ MediaOK(T)'
  BY <1>1, <1>3, WireStays, StrandStays DEF Signalled
<1>5. QueueOK(T)' /\ OpOK(T)' /\ BindingsOK'
  BY <1>1, QueueShrinks, RoomStays DEF Signalled
<1>6. \A v \in Users : Unused(v)'
  BY <1>1, <1>2, UnusedShrinks DEF Signalled, StrandVars
<1>7. PICK s, u : s = FindSignal(o.m.sig).session /\ u = s[1]
  OBVIOUS
<1>8. toClient' = IF Delivers(o) /\ s = Current(u)
                    THEN [toClient EXCEPT ![u] = Append(@, o.m)] ELSE toClient
  BY <1>7 DEF MediaResponse
<1>9. DOMAIN toClient = Users /\ DOMAIN toClient' = Users
  BY <1>8 DEF Signalled, ClientsOK
<1>10. Genuine(o.m, T)
  BY <1>2 DEF RequestOK
<1>11. Delivers(o) => s \in Sessions /\ u \in Users /\ sig[s] = o.m.sig
  BY <1>2, <1>7 DEF Delivers, RequestOK, Sessions
<1>12. \A v \in Users : UserIs(v, T)'
  <2>1. TAKE v \in Users
  <2>2. PICK q, g : q = Tail(roomq) /\ g = sig[Current(v)]
    OBVIOUS
  <2>3. Shrunk(q, roomq)
    BY <1>2, <2>2, TailShrunk
  <2>4. UserOK(phase[v], pc[v], toClient[v], Current(v), roomq, g, T)
    BY <2>2 DEF Signalled, ClientsOK, UserIs
  <2>5. UserOK(phase[v], pc[v], toClient[v], Current(v), q, g, T)
    BY <1>2, <2>3, <2>4, HeadTaken DEF Named
  <2>6. UserOK(phase[v], pc[v], toClient'[v], Current(v), q, g, T)
    <3>1. CASE Delivers(o) /\ s = Current(u) /\ u = v
      <4>1. toClient'[v] = Append(toClient[v], o.m)
        BY <1>8, <1>9, <3>1
      <4>2. IsSeq(toClient[v])
        BY <2>4 DEF UserOK
      <4>3. IsSeq(toClient'[v]) /\ Grown(toClient'[v], toClient[v], o.m)
        BY <4>1, <4>2, AppendIs, AppendGrown
      <4>4. g = o.m.sig
        BY <1>11, <2>2, <3>1
      <4>5. g # 0 /\ o.m.tag = T[g] /\ o.m.type # "joined"
        BY <1>10, <4>4 DEF Genuine, Tagged
      <4> QED
        BY <2>5, <4>3, <4>5, FrameComes
    <3>2. CASE ~(Delivers(o) /\ s = Current(u) /\ u = v)
      <4>1. toClient'[v] = toClient[v]
        BY <1>8, <1>9, <3>2
      <4> QED
        BY <2>5, <4>1
    <3> QED
      BY <3>1, <3>2
  <2> QED
    BY <1>1, <2>2, <2>6 DEF UserIs, Current, StrandVars
<1>13. ClientsOK(T)'
  BY <1>6, <1>9, <1>12 DEF ClientsOK, Signalled, StrandVars
<1> QED
  BY <1>4, <1>5, <1>13 DEF Signalled

(* A new signal id: what the others stand for does not change.             *)
LEMMA NewId ==
  ASSUME NEW T, NEW T2, Signalled(T), nextSig' = nextSig + 1,
         \A id \in 1..(nextSig - 1) : T2[id] = T[id],
         UNCHANGED <<wire, connected>>, UNCHANGED StrandVars
  PROVE  Wired(T2)' /\ Connected' /\ MediaOK(T2)'
<1>1. nextSig \in Nat
  BY DEF Signalled, Connected
<1>2. ASSUME NEW m, Tagged(m, T) PROVE m.sig \in 1..(nextSig' - 1) /\ m.tag = T2[m.sig]
  BY <1>1, <1>2 DEF Tagged
<1>3. Connected'
  BY <1>1 DEF Signalled, Connected, StrandVars
<1>4. nconn' = nconn /\ econn' = econn
  BY DEF StrandVars
<1>5. Wired(T2)'
  BY <1>2, <1>4 DEF Signalled, Wired, FrameOK, Tagged
<1>6. PeersOK(peers, T2)'
  BY <1>2, <1>4 DEF Signalled, MediaOK, PeersOK, PeerRec, Tagged, StrandVars
<1>7. EventsOK(fifo, T2)'
  <2>1. ASSUME NEW e, EventOK(e, T)
        PROVE  /\ e.t = "signal" => /\ e.uid \in Users /\ e.conn \in 1..nconn'
                                    /\ e.type = "offer" /\ e.conn = econn' =>
                                         e.sig \in 1..(nextSig' - 1) /\ e.tag = T2[e.sig]
               /\ e.t = "ready" => e.uid \in Users
               /\ e.t = "local" => /\ e.conn \in 1..nconn'
                                   /\ e.conn = econn' =>
                                        /\ e.sig \in 1..(nextSig' - 1) /\ e.tag = T2[e.sig]
                                        /\ e.type # "joined"
    BY <1>2, <1>4, <2>1 DEF EventOK, Genuine
  <2>2. \A i \in 1..Len(fifo) : EventOK(fifo[i], T)
    BY DEF Signalled, MediaOK, EventsOK
  <2> QED
    BY <2>1, <2>2 DEF Signalled, MediaOK, EventsOK, EventOK, Genuine, Tagged, StrandVars
<1>8. ControlOK(T2)'
  BY <1>2, <1>4 DEF Signalled, MediaOK, ControlOK, Genuine, Tagged, StrandVars
<1> QED
  BY <1>3, <1>5, <1>6, <1>7, <1>8 DEF MediaOK

(* The ids so far stand for what they did, and the next one for tag.       *)
Extends(T2, T, tag) ==
  T2[nextSig] = tag /\ \A id \in 1..(nextSig - 1) : T2[id] = T[id]

(* MediaOfferHandler and RegisterSignal                                    *)
LEMMA RegisterStep ==
  ASSUME NEW T, Signalled(T), op = <<>>, roomq # <<>>, roomq' = Tail(roomq),
         UNCHANGED StrandVars, NEW o, o = Head(roomq), o.t = "offer", MediaOffer(o),
         Bound(o.session)
  PROVE  \E T2 : Signalled(T2)' /\ Extends(T2, T, o.tag)
<1>1. PICK s, id : s = o.session /\ id = nextSig
  OBVIOUS
<1>2. /\ signals' = With(Without(signals, sig[s]), id, [session |-> s, epoch |-> mediaEpoch])
      /\ sig' = [sig EXCEPT ![s] = id] /\ nextSig' = id + 1
      /\ op' = <<[id |-> id, session |-> s, epoch |-> mediaEpoch, tag |-> o.tag]>>
      /\ UNCHANGED <<wire, connected, toClient>>
  BY <1>1 DEF MediaOffer
<1>3. RequestOK(o, T) /\ IsSeq(roomq) /\ roomq[1] = o
  BY RoomHead DEF Signalled
<1>4. id \in Nat \ {0} /\ s \in Sessions
  BY <1>1, <1>3 DEF Signalled, Connected, RequestOK
<1>5. PICK T2 : T2 = [i \in Nat |-> IF i = id THEN o.tag ELSE T[i]]
  OBVIOUS
<1>6. T2[id] = o.tag /\ \A i \in 1..(nextSig - 1) : T2[i] = T[i]
  BY <1>1, <1>4, <1>5
<1>7. Wired(T2)' /\ Connected' /\ MediaOK(T2)'
  BY <1>1, <1>2, <1>6, NewId
<1>8. QueueOK(T2)'
  <2>1. PICK q : q = Tail(roomq)
    OBVIOUS
  <2>2. IsSeq(q) /\ \A i \in 1..Len(q) : \E j \in 1..Len(roomq) : q[i] = roomq[j]
    BY <1>3, <2>1, TailIs
  <2>3. \A i \in 1..Len(q) : RequestOK(q[i], T)
    BY <2>2 DEF Signalled, QueueOK
  <2>4. ASSUME NEW r, RequestOK(r, T)
        PROVE  r.session \in Sessions
               /\ (r.t = "response" => /\ r.m.sig \in 1..(nextSig' - 1) /\ r.m.tag = T2[r.m.sig]
                                       /\ r.m.type # "joined")
    BY <1>1, <1>2, <1>4, <1>6, <2>4 DEF RequestOK, Genuine, Tagged
  <2> QED
    BY <2>1, <2>2, <2>3, <2>4 DEF QueueOK, RequestOK, Genuine, Tagged, Sessions
<1>9. OpOK(T2)'
  <2>1. op'[1].id = id /\ op'[1].session = s /\ op'[1].tag = o.tag
    BY <1>2
  <2>2. id \in 1..(nextSig' - 1)
    BY <1>2, <1>4
  <2> QED
    BY <1>4, <1>6, <2>1, <2>2 DEF OpOK, Sessions
<1>10. BindingsOK'
  <2>1. PICK S, S0 : S = 0..(nextSig' - 1) /\ S0 = 0..(nextSig - 1)
    OBVIOUS
  <2>2. id \in S /\ S0 \subseteq S
    BY <1>1, <1>2, <1>4, <2>1
  <2>3. sig \in [Sessions -> S]
    BY <2>1, <2>2 DEF Signalled, BindingsOK
  <2>4. sig' \in [Sessions -> S]
    BY <1>2, <2>2, <2>3
  <2>5. \A i \in DOMAIN signals' : i = id \/ (i \in DOMAIN signals /\ signals'[i] = signals[i])
    BY <1>2 DEF With, Without
  <2>6. id \in DOMAIN signals' => signals'[id].session = s
    BY <1>2 DEF With, Without
  <2>7. \A i \in DOMAIN signals' : signals'[i].session \in Sessions
    BY <1>4, <2>5, <2>6 DEF Signalled, BindingsOK
  <2> QED
    BY <2>1, <2>4, <2>7 DEF BindingsOK, Sessions
<1>11. \A x \in Sessions : sig'[x] = IF x = s THEN id ELSE sig[x]
  BY <1>2, <1>4 DEF Signalled, BindingsOK
<1>12. \A v \in Users : Unused(v)'
  BY <1>1, <1>3, <1>11, UnusedShrinks DEF Signalled, StrandVars
<1>13. \A v \in Users : UserIs(v, T2)'
  <2>1. TAKE v \in Users
  <2>2. PICK q, g, h : q = Tail(roomq) /\ g = sig[Current(v)] /\ h = sig'[Current(v)]
    OBVIOUS
  <2>3. Shrunk(q, roomq)
    BY <1>3, <2>2, TailShrunk
  <2>4. Current(v) \in Sessions
    BY CurrentIs DEF Signalled
  <2>5. UserOK(phase[v], pc[v], toClient[v], Current(v), roomq, g, T)
    BY <2>2 DEF Signalled, ClientsOK, UserIs
  <2>6. g # 0 => T2[g] = T[g]
    BY <1>6, <2>2, <2>4 DEF Signalled, BindingsOK
  <2>7. UserOK(phase[v], pc[v], toClient[v], Current(v), roomq, g, T2)
    BY <2>5, <2>6, TagsAgree
  <2>8. UserOK(phase[v], pc[v], toClient[v], Current(v), q, h, T2)
    <3>1. CASE Current(v) = s
      <4>1. h = id /\ Named(roomq[1], "offer", Current(v))
        BY <1>1, <1>3, <1>11, <2>2, <2>4, <3>1 DEF Named
      <4> QED
        BY <1>3, <1>4, <1>6, <2>3, <2>7, <4>1, OfferTaken
    <3>2. CASE Current(v) # s
      <4>1. h = g /\ ~Named(roomq[1], "leave", Current(v))
        BY <1>1, <1>3, <1>11, <2>2, <2>4, <3>2 DEF Named
      <4> QED
        BY <2>3, <2>7, <4>1, HeadTaken
    <3> QED
      BY <3>1, <3>2
  <2> QED
    BY <1>2, <2>2, <2>8 DEF UserIs, Current, StrandVars
<1>14. ClientsOK(T2)'
  BY <1>2, <1>12, <1>13 DEF ClientsOK, Signalled, StrandVars
<1>15. Signalled(T2)'
  BY <1>7, <1>8, <1>9, <1>10, <1>14 DEF Signalled
<1>16. Extends(T2, T, o.tag)
  BY <1>1, <1>6 DEF Extends
<1> QED
  BY <1>15, <1>16

LEMMA RoomStepKeeps ==
  ASSUME NEW T, Signalled(T), RoomStep
  PROVE  \E T2 : /\ Signalled(T2)'
                 /\ \/ T2 = T /\ nextSig' = nextSig
                    \/ nextSig' = nextSig + 1 /\ Extends(T2, T, Head(roomq).tag)
<1>1. PICK o : o = Head(roomq)
  OBVIOUS
<1>2. op = <<>> /\ roomq # <<>> /\ roomq' = Tail(roomq) /\ UNCHANGED StrandVars
  BY DEF RoomStep, StrandVars
<1>3. CASE o.t = "offer" /\ MediaOffer(o)
  <2>1. CASE Bound(o.session)
    <3>1. nextSig' = nextSig + 1
      BY <1>3, <2>1 DEF MediaOffer
    <3> QED
      BY <1>1, <1>2, <1>3, <2>1, <3>1, RegisterStep
  <2>2. CASE ~Bound(o.session)
    <3>1. UNCHANGED <<signals, sig, nextSig, op, wire, connected, toClient>>
      BY <1>3, <2>2 DEF MediaOffer
    <3>2. IdsStay
      BY <1>2, <3>1 DEF IdsStay, StrandVars
    <3>3. Wired(T)' /\ Connected' /\ MediaOK(T)'
      BY <1>2, <3>1, <3>2, WireStays, StrandStays DEF Signalled
    <3>4. QueueOK(T)' /\ OpOK(T)' /\ BindingsOK'
      BY <1>2, <3>1, QueueShrinks, RoomStays DEF Signalled
    <3>5. IsSeq(roomq)
      BY DEF Signalled, QueueOK
    <3>6. ClientsOK(T)'
      BY <1>1, <1>2, <1>3, <3>1, <3>5, HeadLeaves DEF Signalled, StrandVars
    <3> QED
      BY <3>1, <3>3, <3>4, <3>6 DEF Signalled
  <2> QED
    BY <2>1, <2>2
<1>4. CASE MediaAnswer(o) \/ MediaCandidate(o)
  BY <1>1, <1>2, <1>4, RelayStep DEF MediaAnswer, MediaCandidate, Relay
<1>5. CASE o.t \in {"leave", "lost"} /\ Release(o)
  BY <1>1, <1>2, <1>5, ReleaseStep DEF Release
<1>6. CASE o.t = "join" /\ JoinMeeting(o)
  BY <1>1, <1>2, <1>6, JoinStep DEF JoinMeeting
<1>7. CASE o.t = "response" /\ MediaResponse(o)
  BY <1>1, <1>2, <1>7, ResponseStep DEF MediaResponse
<1>8. CASE MediaRefused(o)
  <2>1. UNCHANGED <<signals, sig, nextSig, op, wire, connected, toClient>>
    BY <1>8 DEF MediaRefused
  <2>2. IdsStay
    BY <1>2, <2>1 DEF IdsStay, StrandVars
  <2>3. Wired(T)' /\ Connected' /\ MediaOK(T)'
    BY <1>2, <2>1, <2>2, WireStays, StrandStays DEF Signalled
  <2>4. QueueOK(T)' /\ OpOK(T)' /\ BindingsOK'
    BY <1>2, <2>1, QueueShrinks, RoomStays DEF Signalled
  <2>5. IsSeq(roomq)
    BY DEF Signalled, QueueOK
  <2>6. ClientsOK(T)'
    BY <1>1, <1>2, <1>8, <2>1, <2>5, HeadLeaves DEF MediaRefused, Signalled, StrandVars
  <2> QED
    BY <2>1, <2>3, <2>4, <2>6 DEF Signalled
<1> QED
  BY <1>1, <1>3, <1>4, <1>5, <1>6, <1>7, <1>8 DEF RoomStep

(* Sessions lose their signal ids.                                         *)
LEMMA IdsDrop ==
  ASSUME NEW T, ClientsOK(T), UNCHANGED <<cur, phase, pc, toClient, roomq>>,
         \A s \in Sessions : sig'[s] \in {0, sig[s]}
  PROVE  ClientsOK(T)'
<1>1. ASSUME NEW u \in Users PROVE Unused(u)'
  <2>1. Unused(u)
    BY DEF ClientsOK
  <2>2. \A k \in 1..MaxSessions : sig[<<u, k>>] = 0 => sig'[<<u, k>>] = 0
    BY DEF Sessions
  <2> QED
    BY <2>1, <2>2 DEF Unused
<1>2. ASSUME NEW u \in Users PROVE UserIs(u, T)'
  <2>1. PICK g, h : g = sig[Current(u)] /\ h = sig'[Current(u)]
    OBVIOUS
  <2>2. h = g \/ h = 0
    BY <2>1, CurrentIs
  <2>3. UserOK(phase[u], pc[u], toClient[u], Current(u), roomq, g, T)
    BY <2>1 DEF ClientsOK, UserIs
  <2>4. UserOK(phase[u], pc[u], toClient[u], Current(u), roomq, h, T)
    BY <2>2, <2>3, IdDropped
  <2> QED
    BY <2>1, <2>4 DEF UserIs, Current
<1> QED
  BY <1>1, <1>2 DEF ClientsOK

LEMMA BindingsDrop ==
  ASSUME BindingsOK, Connected, nextSig' = nextSig,
         \/ \E id, s : signals' = Without(signals, id) /\ sig' = [sig EXCEPT ![s] = 0]
         \/ /\ signals' = <<>>
            /\ \E S : sig' = [s \in Sessions |-> IF s \in S THEN 0 ELSE sig[s]]
  PROVE  BindingsOK' /\ \A s \in Sessions : sig'[s] \in {0, sig[s]}
<1>1. PICK S : S = 0..(nextSig - 1)
  OBVIOUS
<1>2. 0 \in S /\ sig \in [Sessions -> S]
  BY <1>1 DEF BindingsOK, Connected
<1>3. sig' \in [Sessions -> S] /\ \A s \in Sessions : sig'[s] \in {0, sig[s]}
  <2>1. CASE \E s : sig' = [sig EXCEPT ![s] = 0]
    BY <1>2, <2>1
  <2>2. CASE \E R : sig' = [s \in Sessions |-> IF s \in R THEN 0 ELSE sig[s]]
    BY <1>2, <2>2
  <2> QED
    BY <2>1, <2>2
<1>4. \A id \in DOMAIN signals' : signals'[id].session \in Sessions
  <2>1. PICK f : f = signals
    OBVIOUS
  <2>2. \A id \in DOMAIN f : f[id].session \in Sessions
    BY <2>1 DEF BindingsOK
  <2>3. ASSUME NEW i, signals' = Without(f, i)
        PROVE  \A id \in DOMAIN signals' : signals'[id].session \in Sessions
    <3>1. DOMAIN signals' = DOMAIN f \ {i} /\ \A id \in DOMAIN f \ {i} : signals'[id] = f[id]
      BY <2>3 DEF Without
    <3> QED
      BY <2>2, <3>1
  <2>4. CASE signals' = <<>>
    <3>1. DOMAIN signals' = {}
      BY <2>4
    <3> QED
      BY <3>1
  <2> QED
    BY <2>1, <2>3, <2>4
<1> QED
  BY <1>1, <1>3, <1>4 DEF BindingsOK, Sessions

LEMMA OfferSendKeeps ==
  ASSUME NEW T, Signalled(T), MediaOfferSend
  PROVE  Signalled(T)'
<1>1. PICK o : o = op[1]
  OBVIOUS
<1>2. op # <<>> /\ op' = <<>> /\ nextSig' = nextSig /\ UNCHANGED <<roomq, toClient>>
      /\ UNCHANGED StrandVars
  BY DEF MediaOfferSend, StrandVars, clientVars
<1>3. o.session \in Sessions /\ o.id \in 1..(nextSig - 1) /\ o.tag = T[o.id]
  BY <1>1, <1>2 DEF Signalled, OpOK
<1>4. IdsStay
  BY <1>2 DEF IdsStay, StrandVars
<1>5. Wired(T)' /\ (connected' => connected)
  <2>1. FrameOK(Frame("offer", o.id, o.session[1], o.tag, 0), T)
    BY <1>3 DEF FrameOK, Frame, Tagged, Sessions
  <2>2. Send(o.epoch, Frame("offer", o.id, o.session[1], o.tag, 0))
    BY <1>1 DEF MediaOfferSend
  <2> QED
    BY <1>4, <2>1, <2>2, SendKeeps DEF Signalled
<1>6. Connected' /\ MediaOK(T)'
  BY <1>2, <1>5, StrandStays
<1>7. QueueOK(T)' /\ OpOK(T)'
  BY <1>2, RoomStays DEF Signalled, OpOK
<1>8. BindingsOK' /\ \A s \in Sessions : sig'[s] \in {0, sig[s]}
  <2>1. CASE UNCHANGED <<signals, sig>>
    BY <1>2, <2>1, RoomStays DEF Signalled
  <2>2. CASE signals' = Without(signals, o.id) /\ sig' = [sig EXCEPT ![o.session] = 0]
    BY <1>2, <2>2, BindingsDrop DEF Signalled
  <2> QED
    BY <1>1, <2>1, <2>2 DEF MediaOfferSend
<1>9. ClientsOK(T)'
  BY <1>2, <1>8, IdsDrop DEF Signalled, StrandVars
<1> QED
  BY <1>5, <1>6, <1>7, <1>8, <1>9 DEF Signalled

(* The control strand takes an event.                                      *)
LEMMA ControlStepKeeps ==
  ASSUME NEW T, Signalled(T), ControlStep
  PROVE  Signalled(T)'
<1>1. PICK e : e = Head(control)
  OBVIOUS
<1>2. /\ control # <<>> /\ control' = Tail(control) /\ nextSig' = nextSig
      /\ UNCHANGED <<serving, backlog, wire, fifo, peers, op, epoch, active, econn, nconn>>
      /\ UNCHANGED <<cur, phase, pc, toClient, pcs>>
  BY DEF ControlStep, clientVars
<1>3. IsSeq(control)
  BY DEF Signalled, MediaOK, ControlOK
<1>4. 1 \in 1..Len(control) /\ e = control[1]
  BY <1>1, <1>2, <1>3, TailIs
<1>5. IdsStay
  BY <1>2 DEF IdsStay
<1>6. connected' => connected
  BY DEF ControlStep
<1>7. Connected'
  BY <1>2, <1>6 DEF Signalled, Connected
<1>8. Wired(T)' /\ PeersOK(peers, T)' /\ EventsOK(fifo, T)'
  BY <1>2, <1>5, WireStays, PeersStay
     DEF Signalled, MediaOK, EventsOK, EventOK, Genuine, Tagged, IdsStay
<1>9. ControlOK(T)'
  <2>1. PICK q : q = Tail(control)
    OBVIOUS
  <2>2. IsSeq(q) /\ \A i \in 1..Len(q) : \E j \in 1..Len(control) : q[i] = control[j]
    BY <1>2, <1>3, <2>1, TailIs
  <2>3. \A i \in 1..Len(q) : q[i].t = "message" =>
           q[i].conn \in 1..nconn /\ (q[i].conn = econn => Genuine(q[i].m, T))
    BY <2>2 DEF Signalled, MediaOK, ControlOK
  <2> QED
    BY <1>2, <2>1, <2>2, <2>3 DEF ControlOK, Genuine, Tagged, IdsStay
<1>10. CASE e.t # "message" /\ AcceptMediaEvent(e) /\ roomq' = roomq
  <2>1. BindingsOK' /\ \A s \in Sessions : sig'[s] \in {0, sig[s]}
    <3>1. CASE UNCHANGED <<signals, sig>>
      BY <1>2, <3>1, RoomStays DEF Signalled
    <3>2. PICK S : S = {s \in Sessions : \E id \in DOMAIN signals :
                                           signals[id].session = s /\ sig[s] = id}
      OBVIOUS
    <3>3. CASE /\ signals' = <<>>
               /\ sig' = [s \in Sessions |->
                        IF \E id \in DOMAIN signals : signals[id].session = s /\ sig[s] = id
                          THEN 0 ELSE sig[s]]
      <4>1. sig' = [s \in Sessions |-> IF s \in S THEN 0 ELSE sig[s]]
        BY <3>2, <3>3
      <4> QED
        BY <1>2, <3>3, <4>1, BindingsDrop DEF Signalled
    <3> QED
      BY <1>10, <3>1, <3>3 DEF AcceptMediaEvent
  <2>2. QueueOK(T)' /\ OpOK(T)'
    BY <1>2, <1>10, RoomStays DEF Signalled
  <2>3. ClientsOK(T)'
    BY <1>2, <1>10, <2>1, IdsDrop DEF Signalled
  <2> QED
    BY <1>7, <1>8, <1>9, <2>1, <2>2, <2>3 DEF Signalled, MediaOK
<1>11. CASE UNCHANGED <<signals, sig, roomq>>
  BY <1>2, <1>7, <1>8, <1>9, <1>11, RoomStays, ClientsStay DEF Signalled, MediaOK
<1>12. CASE e.t = "message" /\ UNCHANGED <<signals, sig>> /\ roomq' # roomq
  <2>1. PICK s : s = FindSignal(e.m.sig)
    OBVIOUS
  <2>2. PICK r : r = [t |-> "response", session |-> s.session, epoch |-> active, m |-> e.m]
    OBVIOUS
  <2>3. e.conn = econn /\ AcceptMessage(active) /\ s.epoch = active /\ roomq' = Append(roomq, r)
    BY <1>1, <1>12, <2>1, <2>2 DEF ControlStep
  <2>4. Genuine(e.m, T)
    BY <1>4, <1>12, <2>3 DEF Signalled, MediaOK, ControlOK
  <2>5. active # 0
    BY <2>3 DEF AcceptMessage, IsCurrent, Signalled, Connected
  <2>6. s.session \in Sessions
    BY <2>1, <2>3, <2>5 DEF FindSignal, Signalled, BindingsOK
  <2>7. RequestOK(r, T) /\ r.t = "response"
    BY <2>2, <2>4, <2>6 DEF RequestOK
  <2>8. QueueOK(T)'
    BY <1>2, <2>3, <2>7, QueueGrows DEF Signalled
  <2>9. OpOK(T)' /\ BindingsOK'
    BY <1>2, <1>12, RoomStays DEF Signalled
  <2>10. ClientsOK(T)'
    BY <1>2, <1>12, <2>3, <2>7, ResponseComes DEF Signalled, QueueOK
  <2> QED
    BY <1>7, <1>8, <1>9, <2>8, <2>9, <2>10 DEF Signalled, MediaOK
<1> QED
  BY <1>1, <1>10, <1>11, <1>12 DEF ControlStep

-----------------------------------------------------------------------------
(* The clients                                                             *)

(* A request, with what it changes of the client.                          *)
LEMMA AskKeeps ==
  ASSUME NEW T, Signalled(T), UNCHANGED <<mediaVars, udsVars, signalVars, cur>>,
         pcs' \in Nat, NEW u \in Users, NEW o, o.session = Current(u), o.t # "response",
         roomq' = Append(roomq, o),
         DOMAIN phase' = Users, DOMAIN pc' = Users, DOMAIN toClient' = Users,
         \A v \in Users : v # u => /\ phase'[v] = phase[v] /\ pc'[v] = pc[v]
                                   /\ toClient'[v] = toClient[v],
         UserIs(u, T)'
  PROVE  Signalled(T)'
<1>1. Wired(T)' /\ Connected' /\ MediaOK(T)'
  BY ServerStays DEF Signalled, mediaVars, signalVars, udsVars
<1>2. nextSig' = nextSig
  BY DEF signalVars
<1>3. RequestOK(o, T)
  BY CurrentIs DEF RequestOK, Signalled
<1>4. QueueOK(T)'
  BY <1>2, <1>3, QueueGrows DEF Signalled
<1>5. OpOK(T)' /\ BindingsOK'
  BY <1>2, RoomStays DEF Signalled, signalVars
<1>6. ClientsOK(T)'
  BY ClientAsks DEF Signalled, QueueOK, signalVars
<1> QED
  BY <1>1, <1>4, <1>5, <1>6 DEF Signalled

LEMMA OpenCameraKeeps ==
  ASSUME NEW T, Signalled(T), NEW u \in Users, OpenCamera(u)
  PROVE  Signalled(T)'
<1>1. PICK o : o = Request("offer", u, pcs + 1, 0)
  OBVIOUS
<1>2. /\ o.session = Current(u) /\ o.t = "offer" /\ o.tag = pcs + 1
      /\ Named(o, "offer", Current(u))
  BY <1>1 DEF Request, Named
<1>3. pcs \in Nat /\ pcs' = pcs + 1 /\ o.tag # 0
  BY <1>2 DEF Signalled, Connected, OpenCamera, StartMediaSession
<1>4. roomq' = Append(roomq, o) /\ UNCHANGED <<mediaVars, udsVars, signalVars, cur>>
  BY <1>1 DEF OpenCamera
<1>5. pc' = [pc EXCEPT ![u] = o.tag] /\ phase' = phase /\ toClient' = toClient
  BY <1>2 DEF OpenCamera, StartMediaSession
<1>6. DOMAIN phase' = Users /\ DOMAIN pc' = Users /\ DOMAIN toClient' = Users /\ pc'[u] = o.tag
  BY <1>5 DEF Signalled, ClientsOK
<1>7. \A v \in Users : v # u => phase'[v] = phase[v] /\ pc'[v] = pc[v] /\ toClient'[v] = toClient[v]
  BY <1>5, <1>6 DEF Signalled, ClientsOK
<1>8. UserIs(u, T)'
  <2>1. PICK q : q = Append(roomq, o)
    OBVIOUS
  <2>2. Grown(q, roomq, o)
    BY <2>1, AppendGrown DEF Signalled, QueueOK
  <2>3. UserOK(phase[u], pc[u], toClient[u], Current(u), roomq, sig[Current(u)], T)
    BY DEF Signalled, ClientsOK, UserIs
  <2>4. phase[u] = "in" /\ pc[u] = 0 /\ toClient[u] = <<>>
    BY <2>3 DEF UserOK, OpenCamera
  <2>5. UserOK("in", o.tag, <<>>, Current(u), q, sig[Current(u)], T)
    BY <1>2, <1>3, <2>2, <2>3, <2>4, OfferGrows
  <2> QED
    BY <1>4, <1>5, <1>6, <2>1, <2>4, <2>5 DEF UserIs, Current, signalVars
<1> QED
  BY <1>2, <1>3, <1>4, <1>6, <1>7, <1>8, AskKeeps

(* A candidate, and any other request that no part of the invariant names. *)
LEMMA ClientCandidateKeeps ==
  ASSUME NEW T, Signalled(T), NEW u \in Users, ClientCandidate(u)
  PROVE  Signalled(T)'
<1>1. PICK o : o = Request("candidate", u, pc[u], 0)
  OBVIOUS
<1>2. o.session = Current(u) /\ o.t = "candidate" /\ Foreign(o, Current(u))
  BY <1>1 DEF Request, Named, Foreign
<1>3. /\ roomq' = Append(roomq, o) /\ UNCHANGED <<mediaVars, udsVars, signalVars, cur>>
      /\ phase' = phase /\ pc' = pc /\ toClient' = toClient /\ pcs' = pcs
  BY <1>1 DEF ClientCandidate, clientVars
<1>4. DOMAIN phase' = Users /\ DOMAIN pc' = Users /\ DOMAIN toClient' = Users /\ pcs' \in Nat
  BY <1>3 DEF Signalled, ClientsOK, Connected
<1>5. UserIs(u, T)'
  <2>1. PICK q : q = Append(roomq, o)
    OBVIOUS
  <2>2. Grown(q, roomq, o)
    BY <2>1, AppendGrown DEF Signalled, QueueOK
  <2>3. UserOK(phase[u], pc[u], toClient[u], Current(u), q, sig[Current(u)], T)
    BY <1>2, <2>2, ForeignGrows DEF Signalled, ClientsOK, UserIs
  <2> QED
    BY <1>3, <2>1, <2>3 DEF UserIs, Current, signalVars
<1> QED
  BY <1>2, <1>3, <1>4, <1>5, AskKeeps

LEMMA LeaveMeetingKeeps ==
  ASSUME NEW T, Signalled(T), NEW u \in Users, LeaveMeeting(u)
  PROVE  Signalled(T)'
<1>1. PICK o : o = Request("leave", u, 0, 0)
  OBVIOUS
<1>2. o.session = Current(u) /\ o.t = "leave" /\ Named(o, "leave", Current(u))
  BY <1>1 DEF Request, Named
<1>3. /\ roomq' = Append(roomq, o) /\ UNCHANGED <<mediaVars, udsVars, signalVars, cur>>
      /\ phase' = [phase EXCEPT ![u] = "out"] /\ pc' = [pc EXCEPT ![u] = 0]
      /\ toClient' = toClient /\ pcs' = pcs
  BY <1>1 DEF LeaveMeeting, StopMediaSession
<1>4. /\ DOMAIN phase' = Users /\ DOMAIN pc' = Users /\ DOMAIN toClient' = Users /\ pcs' \in Nat
      /\ phase'[u] = "out" /\ pc'[u] = 0
  BY <1>3 DEF Signalled, ClientsOK, Connected
<1>5. \A v \in Users : v # u => phase'[v] = phase[v] /\ pc'[v] = pc[v] /\ toClient'[v] = toClient[v]
  BY <1>3 DEF Signalled, ClientsOK
<1>6. UserIs(u, T)'
  <2>1. PICK q : q = Append(roomq, o)
    OBVIOUS
  <2>2. Grown(q, roomq, o)
    BY <2>1, AppendGrown DEF Signalled, QueueOK
  <2>3. UserOK("in", pc[u], toClient[u], Current(u), roomq, sig[Current(u)], T)
    BY DEF Signalled, ClientsOK, UserIs, LeaveMeeting
  <2>4. UserOK("out", 0, toClient[u], Current(u), q, sig[Current(u)], T)
    BY <1>2, <2>2, <2>3, LeaveGrows
  <2> QED
    BY <1>3, <1>4, <2>1, <2>4 DEF UserIs, Current, signalVars
<1> QED
  BY <1>2, <1>3, <1>4, <1>5, <1>6, AskKeeps

LEMMA RejoinKeeps ==
  ASSUME NEW T, Signalled(T), NEW u \in Users, Rejoin(u)
  PROVE  Signalled(T)'
<1>1. PICK o : o = Request("join", u, 0, 0)
  OBVIOUS
<1>2. o.session = Current(u) /\ o.t = "join" /\ Named(o, "join", Current(u))
  BY <1>1 DEF Request, Named
<1>3. /\ roomq' = Append(roomq, o) /\ UNCHANGED <<mediaVars, udsVars, signalVars, cur>>
      /\ phase' = [phase EXCEPT ![u] = "joining"] /\ pc' = pc
      /\ toClient' = toClient /\ pcs' = pcs
  BY <1>1 DEF Rejoin
<1>4. /\ DOMAIN phase' = Users /\ DOMAIN pc' = Users /\ DOMAIN toClient' = Users /\ pcs' \in Nat
      /\ phase'[u] = "joining"
  BY <1>3 DEF Signalled, ClientsOK, Connected
<1>5. \A v \in Users : v # u => phase'[v] = phase[v] /\ pc'[v] = pc[v] /\ toClient'[v] = toClient[v]
  BY <1>3 DEF Signalled, ClientsOK
<1>6. UserIs(u, T)'
  <2>1. PICK q : q = Append(roomq, o)
    OBVIOUS
  <2>2. Grown(q, roomq, o)
    BY <2>1, AppendGrown DEF Signalled, QueueOK
  <2>3. UserOK("out", pc[u], toClient[u], Current(u), roomq, sig[Current(u)], T)
    BY DEF Signalled, ClientsOK, UserIs, Rejoin
  <2>4. pc[u] = 0
    BY <2>3 DEF UserOK, Publishing
  <2>5. UserOK("joining", 0, toClient[u], Current(u), q, sig[Current(u)], T)
    BY <1>2, <2>2, <2>3, <2>4, JoinGrows
  <2> QED
    BY <1>3, <1>4, <2>1, <2>4, <2>5 DEF UserIs, Current, signalVars
<1> QED
  BY <1>2, <1>3, <1>4, <1>5, <1>6, AskKeeps

(* The client reads a frame without asking anything.                       *)
LEMMA ReadKeeps ==
  ASSUME NEW T, Signalled(T), UNCHANGED <<mediaVars, udsVars, signalVars, cur, pc, pcs, roomq>>,
         NEW u \in Users, DOMAIN phase' = Users, DOMAIN toClient' = Users,
         \A v \in Users : v # u => phase'[v] = phase[v] /\ toClient'[v] = toClient[v],
         UserIs(u, T)'
  PROVE  Signalled(T)'
<1>1. pcs' \in Nat /\ nextSig' = nextSig
  BY DEF Signalled, Connected, signalVars
<1>2. Wired(T)' /\ Connected' /\ MediaOK(T)'
  BY <1>1, ServerStays DEF Signalled, mediaVars
<1>3. QueueOK(T)' /\ OpOK(T)' /\ BindingsOK'
  BY <1>1, RoomStays DEF Signalled, signalVars
<1>4. \A v \in Users : Unused(v)'
  BY DEF Signalled, ClientsOK, Unused, signalVars
<1>5. \A v \in Users : UserIs(v, T)'
  <2>1. TAKE v \in Users
  <2>2. CASE v # u
    BY <2>2 DEF Signalled, ClientsOK, UserIs, Current, signalVars
  <2> QED
    BY <2>2
<1>6. ClientsOK(T)'
  BY <1>4, <1>5 DEF Signalled, ClientsOK
<1> QED
  BY <1>2, <1>3, <1>6 DEF Signalled

LEMMA ClientReceiveKeeps ==
  ASSUME NEW T, Signalled(T), NEW u \in Users, ClientReceive(u)
  PROVE  Signalled(T)'
<1>1. PICK d0, d : d0 = toClient[u] /\ d = Tail(d0)
  OBVIOUS
<1>2. UserOK(phase[u], pc[u], d0, Current(u), roomq, sig[Current(u)], T)
  BY <1>1 DEF Signalled, ClientsOK, UserIs
<1>3. d0 # <<>> /\ IsSeq(d0)
  BY <1>1, <1>2 DEF UserOK, ClientReceive
<1>4. Shrunk(d, d0) /\ Head(d0) = d0[1] /\ IsSeq(d)
  BY <1>1, <1>3, TailShrunk, TailIs
<1>5. PICK m : m = d0[1]
  OBVIOUS
<1>6. /\ toClient' = [toClient EXCEPT ![u] = d]
      /\ UNCHANGED <<mediaVars, udsVars, signalVars, cur, pc, pcs>>
  BY <1>1 DEF ClientReceive
<1>7. /\ DOMAIN toClient' = Users /\ toClient'[u] = d
      /\ \A v \in Users : v # u => toClient'[v] = toClient[v]
      /\ DOMAIN phase = Users /\ DOMAIN pc = Users /\ pcs' \in Nat
  BY <1>6 DEF Signalled, ClientsOK, Connected
<1>8. CASE m.type = "joined" /\ phase' = [phase EXCEPT ![u] = "in"] /\ roomq' = roomq
  <2>1. UserOK("in", pc[u], d, Current(u), roomq, sig[Current(u)], T)
    BY <1>2, <1>4, <1>5, <1>8, JoinedRead
  <2>2. /\ DOMAIN phase' = Users /\ phase'[u] = "in"
        /\ \A v \in Users : v # u => phase'[v] = phase[v]
    BY <1>7, <1>8
  <2>3. UserIs(u, T)'
    BY <1>6, <1>7, <1>8, <2>1, <2>2 DEF UserIs, Current, signalVars
  <2> QED
    BY <1>6, <1>7, <1>8, <2>2, <2>3, ReadKeeps
<1>9. CASE m.type # "joined" /\ phase' = phase /\ roomq' = roomq
  <2>1. UserOK(phase[u], pc[u], d, Current(u), roomq, sig[Current(u)], T)
    BY <1>2, <1>4, <1>5, <1>9, FrameRead
  <2>2. UserIs(u, T)'
    BY <1>6, <1>7, <1>9, <2>1 DEF UserIs, Current, signalVars
  <2> QED
    BY <1>6, <1>7, <1>9, <2>2, ReadKeeps
<1>10. CASE ApplyMediaOffer(u, m)
  <2>1. PICK o : o = Request("answer", u, pc[u], m.inst)
    OBVIOUS
  <2>2. o.session = Current(u) /\ o.t = "answer" /\ Foreign(o, Current(u))
    BY <2>1 DEF Request, Named, Foreign
  <2>3. roomq' = Append(roomq, o) /\ phase' = phase /\ m.type # "joined"
    BY <1>10, <2>1 DEF ApplyMediaOffer
  <2>4. UserIs(u, T)'
    <3>1. PICK q : q = Append(roomq, o)
      OBVIOUS
    <3>2. Grown(q, roomq, o)
      BY <3>1, AppendGrown DEF Signalled, QueueOK
    <3>3. UserOK(phase[u], pc[u], d, Current(u), roomq, sig[Current(u)], T)
      BY <1>2, <1>4, <1>5, <2>3, FrameRead
    <3>4. UserOK(phase[u], pc[u], d, Current(u), q, sig[Current(u)], T)
      BY <2>2, <3>2, <3>3, ForeignGrows
    <3> QED
      BY <1>6, <1>7, <2>3, <3>1, <3>4 DEF UserIs, Current, signalVars
  <2> QED
    BY <1>6, <1>7, <2>2, <2>3, <2>4, AskKeeps
<1>11. \/ m.type = "joined" /\ phase' = [phase EXCEPT ![u] = "in"] /\ UNCHANGED <<roomq, pcState>>
       \/ ApplyMediaAnswer(u, m) \/ ApplyMediaOffer(u, m) \/ ApplyMediaCandidate(u, m)
  <2>1. m = Head(toClient[u])
    BY <1>1, <1>4, <1>5
  <2> QED
    BY <2>1 DEF ClientReceive
<1>12. CASE ApplyMediaCandidate(u, m)
  <2>1. m.type # "joined" /\ phase' = phase /\ roomq' = roomq
    BY <1>12 DEF ApplyMediaCandidate
  <2> QED
    BY <1>9, <2>1
<1>13. CASE ApplyMediaAnswer(u, m)
  BY <1>9, <1>13 DEF ApplyMediaAnswer
<1> QED
  BY <1>8, <1>10, <1>11, <1>12, <1>13

(* Two requests at once.                                                   *)
LEMMA AppendTwo ==
  ASSUME NEW s, IsSeq(s), NEW a, NEW b
  PROVE  s \o <<a, b>> = Append(Append(s, a), b)
<1>1. PICK S : s \in Seq(S)
  BY DEF IsSeq
<1>2. PICK U : U = S \cup {a, b}
  OBVIOUS
<1>3. s \in Seq(U) /\ a \in U /\ b \in U
  BY <1>1, <1>2
<1>4. PICK p, q : p = s \o <<a, b>> /\ q = Append(Append(s, a), b)
  OBVIOUS
<1>5. p \in Seq(U) /\ q \in Seq(U) /\ Len(p) = Len(s) + 2 /\ Len(q) = Len(s) + 2 /\ Len(s) \in Nat
  BY <1>3, <1>4
<1>6. \A i \in 1..(Len(s) + 2) : p[i] = q[i]
  <2>1. \A i \in 1..Len(s) : p[i] = s[i] /\ q[i] = s[i]
    BY <1>3, <1>4
  <2>2. p[Len(s) + 1] = a /\ q[Len(s) + 1] = a
    BY <1>3, <1>4
  <2>3. p[Len(s) + 2] = b /\ q[Len(s) + 2] = b
    BY <1>3, <1>4
  <2>4. \A i \in 1..(Len(s) + 2) : i \in 1..Len(s) \/ i = Len(s) + 1 \/ i = Len(s) + 2
    BY <1>5
  <2> QED
    BY <2>1, <2>2, <2>3, <2>4
<1> QED
  BY <1>4, <1>5, <1>6

(* What a lost connection asks for concerns the old session and the next.  *)
Ours(o, u) == o.t # "response" /\ o.session \in {<<u, cur[u]>>, <<u, cur[u] + 1>>}

(* What else it changes.                                                   *)
Moved(u) ==
  /\ UNCHANGED <<mediaVars, udsVars, signalVars, pcs>>
  /\ cur[u] < MaxSessions /\ cur' = [cur EXCEPT ![u] = @ + 1]
  /\ DOMAIN phase' = Users /\ DOMAIN pc' = Users /\ DOMAIN toClient' = Users
  /\ \A v \in Users : v # u => /\ phase'[v] = phase[v] /\ pc'[v] = pc[v]
                              /\ toClient'[v] = toClient[v]

LEMMA LoseKeeps ==
  ASSUME NEW T, Signalled(T), NEW u \in Users, Moved(u), UserIs(u, T)',
         NEW a, NEW b, Ours(a, u), Ours(b, u), roomq' = roomq \o <<a, b>>
  PROVE  Signalled(T)'
<1>1. PICK q1, q2 : q1 = Append(roomq, a) /\ q2 = Append(q1, b)
  OBVIOUS
<1>2. IsSeq(roomq)
  BY DEF Signalled, QueueOK
<1>3. IsSeq(q1) /\ IsSeq(q2) /\ Grown(q1, roomq, a) /\ Grown(q2, q1, b)
  BY <1>1, <1>2, AppendIs, AppendGrown
<1>4. roomq' = q2
  BY <1>1, <1>2, AppendTwo
<1>5. \A i \in 1..Len(q2) : q2[i] = a \/ q2[i] = b \/ \E j \in 1..Len(roomq) : q2[i] = roomq[j]
  <2>1. \A i \in 1..Len(q1) : q1[i] = a \/ \E j \in 1..Len(roomq) : q1[i] = roomq[j]
    BY <1>1, <1>2, AppendFrom
  <2>2. \A i \in 1..Len(q2) : q2[i] = b \/ \E j \in 1..Len(q1) : q2[i] = q1[j]
    BY <1>1, <1>3, AppendFrom
  <2> QED
    BY <2>1, <2>2
<1>6. nextSig' = nextSig /\ pcs' \in Nat
  BY DEF Signalled, Connected, signalVars, Moved
<1>7. Wired(T)' /\ Connected' /\ MediaOK(T)'
  BY <1>6, ServerStays DEF Signalled, mediaVars, Moved
<1>8. OpOK(T)' /\ BindingsOK'
  BY <1>6, RoomStays DEF Signalled, signalVars, Moved
<1>9. /\ cur \in [Users -> 1..MaxSessions] /\ cur[u] \in Nat /\ cur[u] + 1 \in 1..MaxSessions
      /\ cur' \in [Users -> 1..MaxSessions] /\ cur'[u] = cur[u] + 1
      /\ \A v \in Users : v # u => cur'[v] = cur[v]
  <2>1. cur \in [Users -> 1..MaxSessions]
    BY DEF Signalled, ClientsOK
  <2>2. cur[u] \in 1..MaxSessions
    BY <2>1
  <2>3. cur[u] \in Nat /\ cur[u] + 1 \in 1..MaxSessions
    BY <2>2, SignalBounds DEF Moved
  <2> QED
    BY <2>1, <2>3 DEF Moved
<1>10. QueueOK(T)'
  <2>1. <<u, cur[u]>> \in Sessions /\ <<u, cur[u] + 1>> \in Sessions
    BY <1>9 DEF Sessions
  <2>2. RequestOK(a, T) /\ RequestOK(b, T)
    BY <2>1 DEF RequestOK, Ours
  <2>3. \A i \in 1..Len(q2) : RequestOK(q2[i], T)
    BY <1>5, <2>2 DEF Signalled, QueueOK
  <2> QED
    BY <1>3, <1>4, <1>6, <2>3 DEF QueueOK, RequestOK, Genuine, Tagged, Sessions
<1>11. ASSUME NEW v \in Users PROVE Unused(v)'
  <2>1. Unused(v) /\ cur[v] \in Nat
    BY <1>9 DEF Signalled, ClientsOK
  <2>2. ASSUME NEW k \in 1..MaxSessions, k > cur'[v]
        PROVE  sig[<<v, k>>] = 0
               /\ \A i \in 1..Len(q2) : q2[i].t # "response" => q2[i].session # <<v, k>>
    <3>1. k > cur[v]
      <4>1. cur'[v] = cur[v] \/ cur'[v] = cur[v] + 1
        BY <1>9
      <4>2. PICK m : m = cur[v]
        OBVIOUS
      <4>3. m \in Nat /\ (k > m \/ k > m + 1)
        BY <2>1, <2>2, <4>1, <4>2
      <4>4. k \in Int /\ k > m
        BY <4>3
      <4> QED
        BY <4>2, <4>4
    <3>2. sig[<<v, k>>] = 0
          /\ \A i \in 1..Len(roomq) : roomq[i].t # "response" => roomq[i].session # <<v, k>>
      BY <2>1, <3>1 DEF Unused
    <3>3. v = u => k # cur[u] /\ k # cur[u] + 1
      BY <1>9, <2>2, <3>1
    <3>4. a.session # <<v, k>> /\ b.session # <<v, k>>
      BY <3>3 DEF Ours
    <3> QED
      BY <1>5, <3>2, <3>4
  <2> QED
    BY <1>4, <2>2 DEF Unused, signalVars, Moved
<1>12. ASSUME NEW v \in Users, v # u PROVE UserIs(v, T)'
  <2>1. Foreign(a, Current(v)) /\ Foreign(b, Current(v))
    BY <1>12 DEF Foreign, Named, Current, Ours
  <2>2. UserOK(phase[v], pc[v], toClient[v], Current(v), roomq, sig[Current(v)], T)
    BY DEF Signalled, ClientsOK, UserIs
  <2>3. UserOK(phase[v], pc[v], toClient[v], Current(v), q1, sig[Current(v)], T)
    BY <1>3, <2>1, <2>2, ForeignGrows
  <2>4. UserOK(phase[v], pc[v], toClient[v], Current(v), q2, sig[Current(v)], T)
    BY <1>3, <2>1, <2>3, ForeignGrows
  <2> QED
    BY <1>4, <1>9, <1>12, <2>4 DEF UserIs, Current, signalVars, Moved
<1>13. ClientsOK(T)'
  BY <1>9, <1>11, <1>12 DEF ClientsOK, Moved
<1> QED
  BY <1>7, <1>8, <1>10, <1>13 DEF Signalled

LEMMA LoseConnectionKeeps ==
  ASSUME NEW T, Signalled(T), NEW u \in Users, LoseConnection(u)
  PROVE  Signalled(T)'
<1>1. PICK s : s = <<u, cur[u] + 1>>
  OBVIOUS
<1>2. PICK lost : lost = Request("lost", u, 0, 0)
  OBVIOUS
<1>3. PICK join : join = [lost EXCEPT !.t = "join", !.session = s]
  OBVIOUS
<1>4. /\ lost.session = <<u, cur[u]>> /\ lost.t = "lost" /\ Foreign(lost, s)
      /\ join.session = s /\ join.t = "join" /\ Named(join, "join", s)
  BY <1>2, <1>3 DEF Request, Current, Named, Foreign
<1>5. roomq' = roomq \o <<lost, join>> \/ roomq' = roomq \o <<join, lost>>
  BY <1>1, <1>2, <1>3 DEF LoseConnection
<1>6. /\ UNCHANGED <<mediaVars, udsVars, signalVars, pcs>>
      /\ cur[u] < MaxSessions /\ cur' = [cur EXCEPT ![u] = @ + 1]
      /\ phase' = [phase EXCEPT ![u] = "joining"] /\ pc' = [pc EXCEPT ![u] = 0]
      /\ toClient' = [toClient EXCEPT ![u] = <<>>]
  BY DEF LoseConnection, StopMediaSession
<1>7. /\ DOMAIN phase' = Users /\ DOMAIN pc' = Users /\ DOMAIN toClient' = Users
      /\ phase'[u] = "joining" /\ pc'[u] = 0 /\ toClient'[u] = <<>>
  BY <1>6 DEF Signalled, ClientsOK
<1>8. \A v \in Users : v # u => phase'[v] = phase[v] /\ pc'[v] = pc[v] /\ toClient'[v] = toClient[v]
  BY <1>6 DEF Signalled, ClientsOK
<1>9. cur \in [Users -> 1..MaxSessions] /\ cur'[u] = cur[u] + 1
  BY <1>6 DEF Signalled, ClientsOK
<1>10. cur[u] + 1 \in 1..MaxSessions /\ cur[u] + 1 > cur[u]
  <2>1. cur[u] \in 1..MaxSessions
    BY <1>9
  <2> QED
    BY <1>6, <2>1, SignalBounds
<1>11. sig[s] = 0 /\ \A i \in 1..Len(roomq) : roomq[i].t # "response" => roomq[i].session # s
  <2>1. Unused(u)
    BY DEF Signalled, ClientsOK
  <2> QED
    BY <1>1, <1>10, <2>1 DEF Unused
<1>12. UserOK("out", 0, <<>>, s, roomq, 0, T)
  <2>1. \A i \in 1..Len(roomq) : Foreign(roomq[i], s)
    BY <1>11 DEF Foreign, Named
  <2> QED
    BY <2>1, FreshUser
<1>13. IsSeq(roomq)
  BY DEF Signalled, QueueOK
<1>14. Ours(lost, u) /\ Ours(join, u) /\ Moved(u)
  BY <1>1, <1>4, <1>6, <1>7, <1>8 DEF Ours, Moved
<1>15. CASE roomq' = roomq \o <<lost, join>>
  <2>1. PICK q1, q2 : q1 = Append(roomq, lost) /\ q2 = Append(q1, join)
    OBVIOUS
  <2>2. Grown(q1, roomq, lost) /\ Grown(q2, q1, join)
    BY <1>13, <2>1, AppendIs, AppendGrown
  <2>3. UserOK("out", 0, <<>>, s, q1, 0, T)
    BY <1>4, <1>12, <2>2, ForeignGrows
  <2>4. UserOK("joining", 0, <<>>, s, q2, 0, T)
    BY <1>4, <2>2, <2>3, JoinGrows
  <2>5. roomq' = q2
    BY <1>13, <1>15, <2>1, AppendTwo
  <2>6. UserIs(u, T)'
    BY <1>1, <1>6, <1>7, <1>9, <1>11, <2>4, <2>5 DEF UserIs, Current, signalVars
  <2> QED
    BY <1>14, <1>15, <2>6, LoseKeeps
<1>16. CASE roomq' = roomq \o <<join, lost>>
  <2>1. PICK q1, q2 : q1 = Append(roomq, join) /\ q2 = Append(q1, lost)
    OBVIOUS
  <2>2. Grown(q1, roomq, join) /\ Grown(q2, q1, lost)
    BY <1>13, <2>1, AppendIs, AppendGrown
  <2>3. UserOK("joining", 0, <<>>, s, q1, 0, T)
    BY <1>4, <1>12, <2>2, JoinGrows
  <2>4. UserOK("joining", 0, <<>>, s, q2, 0, T)
    BY <1>4, <2>2, <2>3, ForeignGrows
  <2>5. roomq' = q2
    BY <1>13, <1>16, <2>1, AppendTwo
  <2>6. UserIs(u, T)'
    BY <1>1, <1>6, <1>7, <1>9, <1>11, <2>4, <2>5 DEF UserIs, Current, signalVars
  <2> QED
    BY <1>14, <1>16, <2>6, LoseKeeps
<1> QED
  BY <1>5, <1>15, <1>16

-----------------------------------------------------------------------------
(* A restart of RealtimeServer                                             *)

(* The connection of its epoch is over, whatever of it MediaServer still   *)
(* reads.                                                                  *)
LEMMA ServerForgotten ==
  ASSUME NEW T, Signalled(T), RealtimeRestart
  PROVE  Wired(T)' /\ Connected' /\ MediaOK(T)'
<1>1. /\ econn' = 0 /\ active' = 0 /\ ~connected' /\ epoch' = 0 /\ nextSig' = 1 /\ control' = <<>>
      /\ UNCHANGED <<serving, backlog, fifo, peers, nconn, pcs>>
  BY DEF RealtimeRestart
<1>2. nconn \in Nat /\ \A c : c \in 1..nconn => c # 0
  BY ConnectedIs DEF Signalled
<1>3. Wired(T)'
  <2>1. CASE wire' = wire
    BY <1>1, <2>1 DEF Signalled, Wired
  <2>2. CASE econn # 0 /\ \E q \in Cut(wire[econn]) : wire' = [wire EXCEPT ![econn] = q]
    <3>1. PICK q \in Cut(wire[econn]) : wire' = [wire EXCEPT ![econn] = q]
      BY <2>2
    <3>2. econn \in Conns /\ econn \in 1..nconn
      BY <2>2, ConnectedIs DEF Signalled
    <3>3. Sub(q, wire[econn])
      BY <3>2, CutSub DEF Signalled, Wired
    <3>4. DOMAIN wire' = Conns /\ \A b \in Conns : wire'[b] = IF b = econn THEN q ELSE wire[b]
      BY <3>1, <3>2 DEF Signalled, Wired
    <3>5. \A b \in Conns : IsSeq(wire'[b])
      BY <3>3, <3>4 DEF Signalled, Wired, Sub
    <3>6. \A b \in Conns : b > nconn' => wire'[b] = <<>>
      <4>1. ~(econn > nconn)
        BY <1>2, <3>2
      <4> QED
        BY <1>1, <3>4, <4>1 DEF Signalled, Wired
    <3>7. \A b \in Conns : \A i \in 1..Len(wire'[b]) : wire'[b][i].uid \in Users
      BY <3>2, <3>3, <3>4 DEF Signalled, Wired, Sub
    <3> QED
      BY <1>1, <3>4, <3>5, <3>6, <3>7 DEF Wired
  <2> QED
    BY <2>1, <2>2 DEF RealtimeRestart
<1>4. Connected'
  BY <1>1 DEF Signalled, Connected
<1>5. PeersOK(peers, T)'
  BY <1>1, <1>2 DEF Signalled, MediaOK, PeersOK, PeerRec
<1>6. EventsOK(fifo, T)'
  BY <1>1, <1>2 DEF Signalled, MediaOK, EventsOK, EventOK
<1>7. ControlOK(T)'
  BY <1>1, EmptyIs DEF ControlOK
<1> QED
  BY <1>3, <1>4, <1>5, <1>6, <1>7 DEF MediaOK

(* Every client joins on a new session, once.                              *)
Joins(S, f) ==
  [i \in 1..Len(SetToSeq(S)) |->
     [t |-> "join", session |-> <<SetToSeq(S)[i], f[SetToSeq(S)[i]]>>, tag |-> 0, re |-> 0]]

LEMMA EveryoneJoins ==
  ASSUME NEW S, IsFiniteSet(S), NEW f, NEW q, q = Joins(S, f)
  PROVE  /\ IsSeq(q)
         /\ \A i \in 1..Len(q) : q[i].t = "join" /\ \E u \in S : q[i].session = <<u, f[u]>>
         /\ \A i, j \in 1..Len(q) : q[i].session = q[j].session => i = j
<1>1. PICK order, n : order = SetToSeq(S) /\ n = Len(SetToSeq(S))
  OBVIOUS
<1>2. /\ n \in Nat /\ \A i \in 1..n : order[i] \in S
      /\ \A i, j \in 1..n : order[i] = order[j] => i = j
  BY <1>1, OrderIs
<1>3. PICK R : R = {[t |-> "join", session |-> <<u, f[u]>>, tag |-> 0, re |-> 0] : u \in S}
  OBVIOUS
<1>4. /\ q = [i \in 1..n |-> [t |-> "join", session |-> <<order[i], f[order[i]]>>,
                               tag |-> 0, re |-> 0]]
      /\ q \in [1..n -> R]
  BY <1>1, <1>2, <1>3 DEF Joins
<1>5. IsSeq(q) /\ Len(q) = n
  BY <1>2, <1>4, LiteralIs
<1>6. \A i \in 1..n : q[i].t = "join" /\ q[i].session = <<order[i], f[order[i]]>>
  BY <1>4
<1>7. \A i \in 1..n : \E u \in S : q[i].session = <<u, f[u]>>
  BY <1>2, <1>6
<1>8. ASSUME NEW i \in 1..n, NEW j \in 1..n, q[i].session = q[j].session
      PROVE  i = j
  <2>1. order[i] = order[j]
    BY <1>6, <1>8
  <2> QED
    BY <1>2, <2>1
<1> QED
  BY <1>5, <1>6, <1>7, <1>8

LEMMA RealtimeRestartKeeps ==
  ASSUME NEW T, Signalled(T), RealtimeRestart
  PROVE  Signalled(T)'
<1>1. PICK q : q = roomq'
  OBVIOUS
<1>2. PICK f : f = [u \in Users |-> cur[u] + 1]
  OBVIOUS
<1>3. q = Joins(Users, f)
  <2>1. \A i \in 1..Len(SetToSeq(Users)) : SetToSeq(Users)[i] \in Users
    BY OrderIs, MediaBounds
  <2> QED
    BY <1>1, <1>2, <2>1 DEF RealtimeRestart, Joins
<1>4. /\ IsSeq(q)
      /\ \A i \in 1..Len(q) : q[i].t = "join" /\ \E u \in Users : q[i].session = <<u, f[u]>>
      /\ \A i, j \in 1..Len(q) : q[i].session = q[j].session => i = j
  BY <1>3, EveryoneJoins, MediaBounds
<1>5. /\ cur' = f /\ f \in [Users -> 1..MaxSessions]
      /\ \A u \in Users : f[u] \in Nat
  <2>1. \A u \in Users : cur[u] \in 1..MaxSessions /\ cur[u] < MaxSessions
    BY DEF Signalled, ClientsOK, RealtimeRestart
  <2>2. \A u \in Users : cur[u] + 1 \in 1..MaxSessions
    BY <2>1, SignalBounds
  <2>3. f \in [Users -> 1..MaxSessions]
    BY <1>2, <2>2
  <2>4. \A u \in Users : f[u] \in Nat
    BY <2>3
  <2> QED
    BY <1>2, <2>3, <2>4 DEF RealtimeRestart
<1>6. /\ phase' = [u \in Users |-> "joining"] /\ pc' = [u \in Users |-> 0]
      /\ toClient' = [u \in Users |-> <<>>] /\ sig' = [s \in Sessions |-> 0]
      /\ signals' = <<>> /\ op' = <<>> /\ nextSig' = 1
  BY DEF RealtimeRestart
<1>7. \A u \in Users : <<u, f[u]>> \in Sessions
  BY <1>5 DEF Sessions
<1>8. QueueOK(T)'
  <2>1. \A i \in 1..Len(q) : q[i].session \in Sessions /\ q[i].t # "response"
    BY <1>4, <1>7
  <2> QED
    BY <1>1, <1>4, <2>1 DEF QueueOK, RequestOK, Sessions
<1>9. OpOK(T)' /\ BindingsOK'
  <2>1. DOMAIN signals' = {}
    BY <1>6
  <2>2. sig' \in [Sessions -> 0..0]
    BY <1>6
  <2> QED
    BY <1>6, <2>1, <2>2 DEF OpOK, BindingsOK, Sessions
<1>10. ASSUME NEW u \in Users PROVE Unused(u)'
  <2>1. ASSUME NEW k \in 1..MaxSessions, k > f[u]
        PROVE  sig'[<<u, k>>] = 0 /\ \A i \in 1..Len(q) : q[i].session # <<u, k>>
    <3>1. <<u, k>> \in Sessions /\ k # f[u]
      BY <1>5, <2>1 DEF Sessions
    <3> QED
      BY <1>4, <1>6, <3>1
  <2> QED
    BY <1>1, <1>5, <2>1 DEF Unused
<1>11. ASSUME NEW u \in Users PROVE UserIs(u, T)'
  <2>1. PICK s : s = <<u, f[u]>>
    OBVIOUS
  <2>2. Closing(s, q, 0)
    BY <1>4 DEF Closing, Named
  <2>3. Joining(<<>>, s, q, 0)
    <3>1. \A i, j \in 1..Len(q) : Named(q[i], "join", s) /\ Named(q[j], "join", s) => i = j
      BY <1>4 DEF Named
    <3>2. \A i \in 1..Len(q) : ~Named(q[i], "leave", s)
      BY <1>4 DEF Named
    <3> QED
      BY <3>1, <3>2, EmptyIs DEF Joining
  <2>4. UserOK("joining", 0, <<>>, s, q, 0, T)
    BY <2>2, <2>3, EmptyIs DEF UserOK
  <2> QED
    BY <1>1, <1>5, <1>6, <1>7, <2>1, <2>4 DEF UserIs, Current
<1>12. ClientsOK(T)'
  BY <1>5, <1>6, <1>10, <1>11 DEF ClientsOK
<1> QED
  BY <1>8, <1>9, <1>12, ServerForgotten DEF Signalled

-----------------------------------------------------------------------------
(* The invariant                                                           *)

LEMMA InitHolds == Init => SignalInv
<1>1. SUFFICES ASSUME Init PROVE SignalInv
  OBVIOUS
<1>2. PICK T : T = [i \in Nat |-> 1]
  OBVIOUS
<1>3. T[1] = 1 /\ 1 \in 1..(nextSig - 1) /\ nextSig = 2
  BY <1>1, <1>2 DEF Init
<1>4. Connected
  BY <1>1, MediaBounds, EmptyIs DEF Connected, Init, MediaInit
<1>5. Wired(T)
  <2>1. wire = [c \in Conns |-> <<>>] /\ econn = 1 /\ 1 \in Conns
    BY <1>1, MediaBounds DEF Init, MediaInit, Conns
  <2> QED
    BY <2>1, EmptyIs DEF Wired
<1>6. MediaOK(T)
  <2>1. PICK p : p = [NewPeer(1, 1, 1, 1) EXCEPT !.init = TRUE]
    OBVIOUS
  <2>2. DOMAIN p = PeerFields /\ p.conn = 1 /\ p.sig = 1 /\ p.tag = 1
    BY <2>1 DEF NewPeer, PeerFields
  <2>3. nconn = 1 /\ econn = 1 /\ peers = [u \in Users |-> IF u = First THEN p ELSE NoPeer]
    BY <1>1, <2>1 DEF Init, MediaInit
  <2>4. PeerRec(p, T)
    BY <1>3, <2>2, <2>3 DEF PeerRec, Tagged
  <2>5. PeersOK(peers, T)
    BY <2>3, <2>4 DEF PeersOK
  <2> QED
    BY <1>1, <2>5, EmptyIs DEF MediaOK, EventsOK, ControlOK, Init, MediaInit
<1>7. QueueOK(T) /\ OpOK(T)
  BY <1>1, EmptyIs DEF QueueOK, OpOK, Init
<1>8. <<First, 1>> \in Sessions /\ \A u \in Users : <<u, 1>> \in Sessions
  BY MediaBounds, SignalBounds DEF Sessions
<1>9. sig = [s \in Sessions |-> IF s = <<First, 1>> THEN 1 ELSE 0]
  BY <1>1 DEF Init
<1>10. BindingsOK
  <2>1. sig \in [Sessions -> 0..1]
    BY <1>9
  <2>2. signals = <<[session |-> <<First, 1>>, epoch |-> 1]>>
    BY <1>1 DEF Init
  <2>3. DOMAIN signals = {1} /\ signals[1].session = <<First, 1>>
    BY <2>2
  <2>4. 0..(nextSig - 1) = 0..1
    BY <1>3
  <2> QED
    BY <1>8, <2>1, <2>3, <2>4 DEF BindingsOK
<1>11. /\ cur = [u \in Users |-> 1] /\ phase = [u \in Users |-> "in"]
       /\ pc = [u \in Users |-> IF u = First THEN 1 ELSE 0]
       /\ toClient = [u \in Users |-> <<>>] /\ roomq = <<>>
  BY <1>1 DEF Init
<1>12. cur \in [Users -> 1..MaxSessions]
  BY <1>11, SignalBounds
<1>13. ASSUME NEW u \in Users PROVE Unused(u)
  <2>1. ASSUME NEW k \in 1..MaxSessions, k > 1 PROVE sig[<<u, k>>] = 0
    <3>1. <<u, k>> \in Sessions /\ <<u, k>> # <<First, 1>>
      BY <2>1 DEF Sessions
    <3> QED
      BY <1>9, <3>1
  <2> QED
    BY <1>11, <2>1, EmptyIs DEF Unused
<1>14. ASSUME NEW u \in Users PROVE UserIs(u, T)
  <2>1. PICK s : s = <<u, 1>>
    OBVIOUS
  <2>2. NoJoin(s, <<>>)
    BY EmptyIs DEF NoJoin
  <2>3. CASE u = First
    <3>1. Publishing("in", 1, <<>>, s, <<>>, 1, T)
      BY <1>3, EmptyIs DEF Publishing
    <3>2. UserOK("in", 1, <<>>, s, <<>>, 1, T)
      BY <2>2, <3>1, EmptyIs DEF UserOK
    <3> QED
      BY <1>8, <1>9, <1>11, <2>1, <2>3, <3>2 DEF UserIs, Current
  <2>4. CASE u # First
    <3>1. UserOK("in", 0, <<>>, s, <<>>, 0, T)
      BY <2>2, EmptyIs DEF UserOK, Clean
    <3>2. sig[s] = 0
      BY <1>8, <1>9, <2>1, <2>4
    <3> QED
      BY <1>11, <2>1, <2>4, <3>1, <3>2 DEF UserIs, Current
  <2> QED
    BY <2>3, <2>4
<1>15. ClientsOK(T)
  BY <1>11, <1>12, <1>13, <1>14 DEF ClientsOK
<1> QED
  BY <1>4, <1>5, <1>6, <1>7, <1>10, <1>15 DEF Signalled, SignalInv

(* A step of MediaServer or of the UDS connection.                         *)
LEMMA MediaStepKeeps ==
  ASSUME NEW T, Signalled(T), UNCHANGED <<signalVars, clientVars, roomq>>,
         Wired(T)' /\ Connected' /\ MediaOK(T)'
  PROVE  Signalled(T)'
<1>1. QueueOK(T)' /\ OpOK(T)' /\ BindingsOK'
  BY RoomStays DEF Signalled, signalVars
<1>2. ClientsOK(T)'
  BY ClientsStay DEF Signalled, signalVars, clientVars
<1> QED
  BY <1>1, <1>2 DEF Signalled

LEMMA StepKeeps ==
  ASSUME NEW T, Signalled(T), [Next]_vars, ~RoomStep
  PROVE  Signalled(T)'
<1>1. Signalled(T)
  OBVIOUS
<1>2. Wired(T) /\ Connected /\ MediaOK(T)
  BY <1>1 DEF Signalled
<1>4. CASE RoomEvent
  <2>1. PICK throws \in BOOLEAN : HandleRoomEvent(throws)
    BY <1>4 DEF RoomEvent
  <2>2. UNCHANGED <<signalVars, clientVars, roomq, udsVars>>
    BY <1>4 DEF RoomEvent, realtimeVars
  <2>3. IdsStay /\ UNCHANGED <<serving, backlog, wire, pcs>>
    BY <2>1, <2>2 DEF IdsStay, HandleRoomEvent, signalVars, clientVars, udsVars
  <2>4. MediaOK(T)'
    BY <1>2, <2>1, <2>3, RoomEventKeeps
  <2>5. Wired(T)'
    BY <1>2, <2>3, WireStays
  <2>6. Connected'
    BY <1>2, <2>2, <2>3 DEF Connected, udsVars, IdsStay
  <2> QED
    BY <1>1, <2>2, <2>4, <2>5, <2>6, MediaStepKeeps
<1>5. CASE ServerStep
  <2>1. UNCHANGED <<signalVars, clientVars, roomq>> /\ nextSig' = nextSig /\ pcs' = pcs
    BY <1>5 DEF ServerStep, realtimeVars, signalVars, clientVars
  <2> QED
    BY <1>1, <1>2, <1>5, <2>1, ServerStepKeeps, MediaStepKeeps
<1>6. CASE Connect
  <2>1. UNCHANGED <<signalVars, clientVars, roomq>> /\ nextSig' = nextSig /\ pcs' = pcs
    BY <1>6 DEF Connect, signalVars, clientVars
  <2> QED
    BY <1>1, <1>2, <1>6, <2>1, ConnectKeeps, MediaStepKeeps
<1>7. CASE Disconnect
  <2>1. UNCHANGED <<signalVars, clientVars, roomq>> /\ nextSig' = nextSig /\ pcs' = pcs
    BY <1>7 DEF Disconnect, signalVars, clientVars
  <2> QED
    BY <1>1, <1>2, <1>7, <2>1, DisconnectKeeps, MediaStepKeeps
<1>8. CASE RtpStep
  <2>1. /\ UNCHANGED <<signalVars, clientVars, roomq>> /\ UNCHANGED udsVars
        /\ nextSig' = nextSig /\ pcs' = pcs
    BY <1>8 DEF RtpStep, realtimeVars, signalVars, clientVars
  <2>2. UNCHANGED <<serving, backlog, wire, control, fifo, peers>>
    BY <1>8 DEF RtpStep, ForwardRtp, ForwardTo
  <2>3. pcs' \in Nat
    BY <1>2, <2>1 DEF Connected
  <2> QED
    BY <1>1, <1>2, <2>1, <2>2, <2>3, ServerStays, MediaStepKeeps
<1>9. CASE ServerCandidate
  <2>1. PICK u \in Users : LocalCandidate(u)
    BY <1>9 DEF ServerCandidate
  <2>2. UNCHANGED <<signalVars, clientVars, roomq>> /\ UNCHANGED udsVars /\ pcs' = pcs
    BY <1>9 DEF ServerCandidate, realtimeVars, clientVars
  <2>3. IdsStay
    BY <2>2 DEF IdsStay, signalVars, udsVars
  <2> QED
    BY <1>1, <1>2, <2>1, <2>2, <2>3, CandidateKeeps, MediaStepKeeps
<1>10. CASE Restart
  <2>1. MediaRestart /\ UNCHANGED <<signalVars, clientVars, roomq>> /\ UNCHANGED udsVars
        /\ pcs' = pcs
    BY <1>10 DEF Restart, realtimeVars, clientVars
  <2>2. IdsStay
    BY <2>1 DEF IdsStay, signalVars, udsVars
  <2> QED
    BY <1>1, <1>2, <2>1, <2>2, RestartKeeps, MediaStepKeeps
<1>11. CASE UNCHANGED vars
  <2>1. /\ UNCHANGED <<signalVars, clientVars, roomq>> /\ UNCHANGED udsVars
        /\ UNCHANGED <<serving, backlog, wire, control, fifo, peers>>
        /\ nextSig' = nextSig /\ pcs' = pcs
    BY <1>11 DEF vars, mediaVars, signalVars, clientVars
  <2>2. pcs' \in Nat
    BY <1>2, <2>1 DEF Connected
  <2> QED
    BY <1>1, <1>2, <2>1, <2>2, ServerStays, MediaStepKeeps
<1>12. CASE \E u \in Users : \/ OpenCamera(u) \/ ClientCandidate(u) \/ LeaveMeeting(u)
                            \/ Rejoin(u) \/ LoseConnection(u) \/ ClientReceive(u)
  <2>1. PICK u \in Users : \/ OpenCamera(u) \/ ClientCandidate(u) \/ LeaveMeeting(u)
                          \/ Rejoin(u) \/ LoseConnection(u) \/ ClientReceive(u)
    BY <1>12
  <2> QED
    BY <1>1, <2>1, OpenCameraKeeps, ClientCandidateKeeps, LeaveMeetingKeeps, RejoinKeeps,
       LoseConnectionKeeps, ClientReceiveKeeps
<1>13. CASE ControlStep
  BY <1>1, <1>13, ControlStepKeeps
<1>14. CASE MediaOfferSend
  BY <1>1, <1>14, OfferSendKeeps
<1>15. CASE RealtimeRestart
  BY <1>1, <1>15, RealtimeRestartKeeps
<1> QED
  BY <1>4, <1>5, <1>6, <1>7, <1>8, <1>9, <1>10, <1>11, <1>12, <1>13, <1>14, <1>15
     DEF Next, Progress

LEMMA NextKeeps ==
  ASSUME SignalInv, [Next]_vars
  PROVE  SignalInv'
BY RoomStepKeeps, StepKeeps DEF SignalInv

(* Every signal id stands for one PeerConnection while its UDS connection  *)
(* and RealtimeServer's numbering last, whatever the order of offers,      *)
(* leaves, joins, losses and restarts.                                     *)
THEOREM SignalInvariant == Spec => []SignalInv
<1>1. SignalInv /\ [Next]_vars => SignalInv'
  BY NextKeeps
<1> QED
  BY InitHolds, <1>1, PTL DEF Spec

(* A description or candidate that reaches a client with a PeerConnection  *)
(* was made for it: the checks of MediaSignalResponseHandler and of the    *)
(* control strand keep out what is late, however many members, sessions    *)
(* and connections there are.                                              *)
THEOREM FramesHold == Spec => []FramesAreForThisPc
<1>1. SignalInv => FramesAreForThisPc
  <2>1. SUFFICES ASSUME SignalInv, NEW u \in Users, pc[u] # 0, NEW i \in DOMAIN toClient[u]
                 PROVE  toClient[u][i].type = "joined" \/ toClient[u][i].tag = pc[u]
    BY DEF FramesAreForThisPc
  <2>2. PICK T : Signalled(T)
    BY <2>1 DEF SignalInv
  <2>3. UserOK(phase[u], pc[u], toClient[u], Current(u), roomq, sig[Current(u)], T)
    BY <2>2 DEF Signalled, ClientsOK, UserIs
  <2>4. IsSeq(toClient[u]) /\ \A j \in 1..Len(toClient[u]) : toClient[u][j].tag = pc[u]
    BY <2>1, <2>3 DEF UserOK, Publishing
  <2>5. PICK S : toClient[u] \in Seq(S)
    BY <2>4 DEF IsSeq
  <2>6. i \in 1..Len(toClient[u])
    BY <2>5
  <2> QED
    BY <2>4, <2>6
<1> QED
  BY SignalInvariant, <1>1, PTL

-----------------------------------------------------------------------------
(* RTP                                                                     *)

PacketOK(k) ==
  /\ DOMAIN k = {"from", "inst", "wrote", "targets"}
  /\ \A x \in k.wrote : x[2] = k.inst

RtpInv == IsSeq(rtp) /\ \A k \in 1..Len(rtp) : PacketOK(rtp[k])

LEMMA RtpForwarded ==
  ASSUME RtpInv, NEW i, ForwardRtp(i)
  PROVE  RtpInv'
<1>1. PICK r : r = [from |-> born[i], inst |-> i, wrote |-> {},
                    targets |-> {<<v, peers[v].inst>> : v \in Members(Tables) \ {born[i]}}]
  OBVIOUS
<1>2. PacketOK(r) /\ rtp' = Append(rtp, r)
  BY <1>1 DEF PacketOK, ForwardRtp
<1>3. PICK q : q = Append(rtp, r)
  OBVIOUS
<1>4. IsSeq(q) /\ \A k \in 1..Len(q) : q[k] = r \/ \E j \in 1..Len(rtp) : q[k] = rtp[j]
  BY <1>3, AppendFrom DEF RtpInv
<1> QED
  BY <1>2, <1>3, <1>4 DEF RtpInv

LEMMA RtpWritten ==
  ASSUME RtpInv, NEW target, ForwardTo(target)
  PROVE  RtpInv'
<1>1. PICK k : k = Len(rtp)
  OBVIOUS
<1>2. PICK S : rtp \in Seq(S)
  BY DEF RtpInv, IsSeq
<1>3. k \in 1..Len(rtp) /\ k \in DOMAIN rtp
  BY <1>1, <1>2 DEF ForwardTo
<1>4. PICK r : r = [rtp[k] EXCEPT !.targets = @ \ {target}, !.wrote = @ \cup SendOn(target, rtp[k])]
  OBVIOUS
<1>5. rtp' = [rtp EXCEPT ![k] = r]
  BY <1>1, <1>4 DEF ForwardTo
<1>6. PacketOK(rtp[k])
  BY <1>3 DEF RtpInv
<1>7. DOMAIN r = DOMAIN rtp[k] /\ r.inst = rtp[k].inst
      /\ r.wrote = rtp[k].wrote \cup SendOn(target, rtp[k])
  BY <1>4, <1>6 DEF PacketOK
<1>8. PacketOK(r)
  BY <1>6, <1>7 DEF PacketOK, SendOn
<1>9. PICK U : U = S \cup {r}
  OBVIOUS
<1>10. PICK q : q = [rtp EXCEPT ![k] = r]
  OBVIOUS
<1>11. rtp \in Seq(U) /\ r \in U
  BY <1>2, <1>9
<1>12. q \in Seq(U) /\ Len(q) = Len(rtp)
  BY <1>3, <1>10, <1>11
<1>13. \A j \in 1..Len(rtp) : q[j] = r \/ q[j] = rtp[j]
  BY <1>2, <1>10
<1> QED
  BY <1>5, <1>8, <1>10, <1>12, <1>13 DEF RtpInv, IsSeq

LEMMA RtpStays ==
  ASSUME [Next]_vars, ~RtpStep, ~Restart
  PROVE  rtp' = rtp
<1>1. CASE \E u \in Users : \/ OpenCamera(u) \/ ClientCandidate(u) \/ LeaveMeeting(u)
                           \/ Rejoin(u) \/ LoseConnection(u) \/ ClientReceive(u)
  BY <1>1 DEF OpenCamera, ClientCandidate, LeaveMeeting, Rejoin, LoseConnection, ClientReceive,
              mediaVars
<1>2. CASE RoomEvent
  BY <1>2 DEF RoomEvent, HandleRoomEvent
<1>3. CASE ServerStep
  BY <1>3 DEF ServerStep, Accept, HandleRead, EndConnection
<1>4. CASE Connect \/ Disconnect
  BY <1>4 DEF Connect, Disconnect
<1>5. CASE ControlStep \/ MediaOfferSend \/ RoomStep
  BY <1>5 DEF ControlStep, MediaOfferSend, RoomStep
<1>6. CASE ServerCandidate
  BY <1>6 DEF ServerCandidate, LocalCandidate
<1>7. CASE RealtimeRestart
  BY <1>7 DEF RealtimeRestart
<1>8. CASE UNCHANGED vars
  BY <1>8 DEF vars, mediaVars
<1> QED
  BY <1>1, <1>2, <1>3, <1>4, <1>5, <1>6, <1>7, <1>8 DEF Next, Progress

(* MediaSession::ForwardRtp writes a packet only to a track made for the   *)
(* instance it came from, whatever happened to the room and its sessions   *)
(* since the targets were chosen.                                          *)
THEOREM RtpIdentity == Spec => []RtpKeepsIdentity
<1>1. Init => RtpInv
  BY EmptyIs DEF Init, MediaInit, RtpInv
<1>2. RtpInv /\ [Next]_vars => RtpInv'
  <2>1. SUFFICES ASSUME RtpInv, [Next]_vars PROVE RtpInv'
    OBVIOUS
  <2>2. CASE RtpStep
    BY <2>1, <2>2, RtpForwarded, RtpWritten DEF RtpStep
  <2>3. CASE Restart
    <3>1. rtp' = <<>>
      BY <2>3 DEF Restart, MediaRestart
    <3> QED
      BY <3>1, EmptyIs DEF RtpInv
  <2>4. CASE rtp' = rtp
    BY <2>1, <2>4 DEF RtpInv
  <2> QED
    BY <2>1, <2>2, <2>3, <2>4, RtpStays
<1>3. RtpInv => RtpKeepsIdentity
  <2>1. SUFFICES ASSUME RtpInv, NEW k \in DOMAIN rtp PROVE \A x \in rtp[k].wrote : x[2] = rtp[k].inst
    BY DEF RtpKeepsIdentity
  <2>2. PICK S : rtp \in Seq(S)
    BY <2>1 DEF RtpInv, IsSeq
  <2>3. k \in 1..Len(rtp)
    BY <2>1, <2>2
  <2> QED
    BY <2>1, <2>3 DEF RtpInv, PacketOK
<1> QED
  BY <1>1, <1>2, <1>3, PTL DEF Spec

-----------------------------------------------------------------------------
(* Every offer of a PeerConnection is one token: the client's offer, then  *)
(* the session that waits for no answer, then MediaServer's offer, then    *)
(* the client's answer to it, then the session again.  Here the tokens of  *)
(* the room's tables: of the sessions, and of the offers they post.        *)

Shaped(t) ==
  /\ DOMAIN t = TableFields /\ DOMAIN t.peers = Users /\ IsSeq(t.post)
  /\ \A u \in Users : t.peers[u] # NoPeer => DOMAIN t.peers[u] = PeerFields

LocalOffer(e, g) == e.t = "local" /\ e.type = "offer" /\ e.tag = g

Bears(t, k, a, i, g) ==
  \/ k = "peer" /\ a \in Users /\ i = 0
     /\ t.peers[a] # NoPeer /\ ~t.peers[a].waiting /\ t.peers[a].tag = g
  \/ k = "post" /\ a = 0 /\ i \in 1..Len(t.post) /\ LocalOffer(t.post[i], g)

Borne(t, g) == \E k, a, i : Bears(t, k, a, i, g)

Alone(t) ==
  \A g, k, a, i, l, b, j :
    Bears(t, k, a, i, g) /\ Bears(t, l, b, j, g) => k = l /\ a = b /\ i = j

(* What the room posts while it handles an event.                          *)
IsNotice(e) == e.t \in {"ready", "local"}
Notices(q) == \A i \in 1..Len(q) : IsNotice(q[i])

Kin(t, t0) ==
  \A u \in Users : t.peers[u] # NoPeer =>
    t0.peers[u] # NoPeer /\ Same(t.peers[u], t0.peers[u])

(* The tables t come from t0: no session is new, and no token, but maybe   *)
(* that of the PeerConnection g.                                           *)
FollowsWith(t, t0, g) ==
  /\ Shaped(t) /\ Kin(t, t0)
  /\ Notices(t0.post) => Notices(t.post)
  /\ Alone(t0) => Alone(t)
  /\ \A h : Borne(t, h) => Borne(t0, h) \/ h = g

Follows(t, t0) ==
  /\ Shaped(t) /\ Kin(t, t0)
  /\ Notices(t0.post) => Notices(t.post)
  /\ Alone(t0) => Alone(t)
  /\ \A h : Borne(t, h) => Borne(t0, h)

LEMMA FollowsSelf == ASSUME NEW t, Shaped(t) PROVE Follows(t, t)
BY DEF Follows, Kin, Same

LEMMA FollowsChain ==
  ASSUME NEW t, NEW t1, NEW t2, Follows(t2, t1), Follows(t1, t)
  PROVE  Follows(t2, t)
<1>1. Kin(t2, t)
  BY DEF Follows, Kin, Same
<1> QED
  BY <1>1 DEF Follows

LEMMA WithChain ==
  ASSUME NEW t, NEW t1, NEW t2, NEW g,
         \/ FollowsWith(t2, t1, g) /\ Follows(t1, t)
         \/ Follows(t2, t1) /\ FollowsWith(t1, t, g)
  PROVE  FollowsWith(t2, t, g)
<1>1. Kin(t2, t)
  BY DEF Follows, FollowsWith, Kin, Same
<1> QED
  BY <1>1 DEF Follows, FollowsWith

LEMMA FollowsAny ==
  ASSUME NEW t, NEW t0, NEW g, Follows(t, t0)
  PROVE  FollowsWith(t, t0, g)
BY DEF Follows, FollowsWith

(* Sessions leave or change their tracks.                                  *)
LEMMA PeersFollow ==
  ASSUME NEW t, Shaped(t), NEW r, DOMAIN r = TableFields, r.post = t.post,
         DOMAIN r.peers = Users,
         \A u \in Users : r.peers[u] # NoPeer =>
           t.peers[u] # NoPeer /\ Same(r.peers[u], t.peers[u])
           /\ r.peers[u].waiting = t.peers[u].waiting
  PROVE  Follows(r, t)
<1>1. Shaped(r) /\ Kin(r, t)
  BY DEF Shaped, Kin, Same
<1>2. \A k, a, i, g : Bears(r, k, a, i, g) => Bears(t, k, a, i, g)
  BY DEF Bears, Same
<1> QED
  BY <1>1, <1>2 DEF Follows, Alone, Borne

LEMMA RemovePeersFollow ==
  ASSUME NEW t, Shaped(t), NEW gone
  PROVE  /\ Follows(RemovePeers(t, gone), t)
         /\ \A u \in Users \cap gone : RemovePeers(t, gone).peers[u] = NoPeer
<1>1. PICK ps : ps = [v \in Users |->
                  IF v \in gone \/ t.peers[v] = NoPeer THEN NoPeer
                  ELSE [t.peers[v] EXCEPT !.out = {x \in @ : x[1] \notin gone}]]
  OBVIOUS
<1>2. PICK r : r = RemovePeers(t, gone)
  OBVIOUS
<1>3. r.peers = ps /\ r.post = t.post /\ DOMAIN r = TableFields
  BY <1>1, <1>2 DEF RemovePeers, Shaped, TableFields
<1>4. ASSUME NEW u \in Users, ps[u] # NoPeer
      PROVE  t.peers[u] # NoPeer /\ Same(ps[u], t.peers[u]) /\ ps[u].waiting = t.peers[u].waiting
  <2>1. t.peers[u] # NoPeer
    BY <1>1, <1>4
  <2>2. PICK S : S = {x \in t.peers[u].out : x[1] \notin gone}
    OBVIOUS
  <2>3. ps[u] = [t.peers[u] EXCEPT !.out = S]
    BY <1>1, <1>4, <2>2
  <2>4. DOMAIN t.peers[u] = PeerFields
    BY <2>1 DEF Shaped
  <2>5. ps[u].waiting = t.peers[u].waiting
    BY <2>3, <2>4 DEF PeerFields
  <2> QED
    BY <2>1, <2>3, <2>4, <2>5, FieldsSame
<1>5. DOMAIN ps = Users /\ \A u \in Users \cap gone : ps[u] = NoPeer
  BY <1>1
<1> QED
  BY <1>2, <1>3, <1>4, <1>5, PeersFollow

LEMMA RemovePeerFollows ==
  ASSUME NEW t, Shaped(t), NEW u, NEW inst
  PROVE  Follows(RemovePeer(t, u, inst), t)
BY RemovePeersFollow, FollowsSelf DEF RemovePeer

LEMMA PostponeFollows ==
  ASSUME NEW t, Shaped(t), NEW asked, asked \subseteq Members(t)
  PROVE  Follows(Postpone(t, asked), t)
<1>1. PICK ps : ps = [u \in Users |-> IF u \in asked THEN [t.peers[u] EXCEPT !.pending = TRUE]
                                                     ELSE t.peers[u]]
  OBVIOUS
<1>2. PICK r : r = Postpone(t, asked)
  OBVIOUS
<1>3. r.peers = ps /\ r.post = t.post /\ DOMAIN r = TableFields
  BY <1>1, <1>2 DEF Postpone, Shaped, TableFields
<1>4. ASSUME NEW u \in Users, ps[u] # NoPeer
      PROVE  t.peers[u] # NoPeer /\ Same(ps[u], t.peers[u]) /\ ps[u].waiting = t.peers[u].waiting
  <2>1. t.peers[u] # NoPeer
    BY <1>1, <1>4 DEF Members
  <2>2. DOMAIN t.peers[u] = PeerFields
    BY <2>1 DEF Shaped
  <2>3. Same([t.peers[u] EXCEPT !.pending = TRUE], t.peers[u]) /\ Same(t.peers[u], t.peers[u])
    BY <2>2, FieldsSame DEF Same
  <2>4. [t.peers[u] EXCEPT !.pending = TRUE].waiting = t.peers[u].waiting
    BY <2>2 DEF PeerFields
  <2> QED
    BY <1>1, <2>1, <2>3, <2>4
<1>5. DOMAIN ps = Users
  BY <1>1
<1> QED
  BY <1>2, <1>3, <1>4, <1>5, PeersFollow

(* The tokens after one or more offers: those of t, but for the sessions   *)
(* that made them, and one of each offer.                                  *)
OfferTokens(r, t, offering, n, order) ==
  /\ n \in Nat
  /\ \A i, j \in 1..Len(order) : order[i] = order[j] => i = j
  /\ \A k, a, i, g : Bears(r, k, a, i, g) =>
       \/ /\ Bears(t, k, a, i, g)
          /\ k = "peer" => a \notin offering
          /\ k = "post" => i \in 1..n
       \/ /\ k = "post" /\ a = 0 /\ i \in Int /\ i > n
          /\ i - n \in 1..Len(order) /\ order[i - n] \in offering
          /\ t.peers[order[i - n]].tag = g

LEMMA MakeOffersBear ==
  ASSUME NEW t, Shaped(t), NEW offering, offering \subseteq Users,
         \A u \in offering : DOMAIN t.peers[u] = PeerFields
  PROVE  /\ Shaped(MakeOffers(t, offering))
         /\ \A u \in Users : MakeOffers(t, offering).peers[u] # NoPeer =>
              /\ u \in offering \/ t.peers[u] # NoPeer
              /\ Same(MakeOffers(t, offering).peers[u], t.peers[u])
         /\ Notices(t.post) => Notices(MakeOffers(t, offering).post)
         /\ \E n, order : OfferTokens(MakeOffers(t, offering), t, offering, n, order)
<1>1. PICK ps : ps = [u \in Users |->
            IF u \in offering
              THEN [t.peers[u] EXCEPT !.waiting = TRUE, !.pending = FALSE,
                                      !.state = "have-local-offer",
                                      !.offered = t.peers[u].out]
              ELSE t.peers[u]]
  OBVIOUS
<1>2. PICK order : order = SetToSeq(offering)
  OBVIOUS
<1>3. PICK news : news = [i \in 1..Len(order) |->
                            LocalSignal(order[i], t.peers[order[i]], "offer")]
  OBVIOUS
<1>4. PICK r : r = MakeOffers(t, offering)
  OBVIOUS
<1>5. r.peers = ps /\ r.post = t.post \o news /\ DOMAIN r = TableFields
  BY <1>1, <1>2, <1>3, <1>4 DEF MakeOffers, Shaped, TableFields
<1>6. /\ Len(order) \in Nat /\ \A i \in 1..Len(order) : order[i] \in offering
      /\ \A i, j \in 1..Len(order) : order[i] = order[j] => i = j
  <2>1. IsFiniteSet(offering)
    BY MediaBounds, FS_Subset DEF Members
  <2> QED
    BY <1>2, <2>1, OrderIs
<1>7. IsSeq(news) /\ Len(news) = Len(order)
  <2>1. PICK S : S = {LocalSignal(order[i], t.peers[order[i]], "offer") : i \in 1..Len(order)}
    OBVIOUS
  <2>2. news \in [1..Len(order) -> S]
    BY <1>3, <2>1
  <2> QED
    BY <1>6, <2>2, LiteralIs
<1>8. \A i \in 1..Len(order) : news[i] = LocalSignal(order[i], t.peers[order[i]], "offer")
  BY <1>3
<1>9. PICK n : n = Len(t.post)
  OBVIOUS
<1>10. /\ n \in Nat /\ IsSeq(r.post) /\ Len(r.post) = n + Len(order)
       /\ \A i \in 1..n : r.post[i] = t.post[i]
       /\ \A i \in 1..Len(order) : r.post[n + i] = news[i]
  <2>1. PICK q : q = t.post
    OBVIOUS
  <2>0. IsSeq(q) /\ IsSeq(news)
    BY <1>7, <2>1 DEF Shaped
  <2>2. r.post = q \o news /\ n = Len(q)
    BY <1>5, <1>9, <2>1
  <2>3. /\ IsSeq(q \o news) /\ Len(q) \in Nat /\ Len(q \o news) = Len(q) + Len(news)
        /\ \A i \in 1..Len(q) : (q \o news)[i] = q[i]
        /\ \A i \in 1..Len(news) : (q \o news)[Len(q) + i] = news[i]
    BY <2>0, ConcatIs
  <2> QED
    BY <1>7, <2>1, <2>2, <2>3
<1>11. \A i \in 1..Len(r.post) :
         \/ i \in 1..n
         \/ i - n \in 1..Len(order) /\ i > n /\ i = n + (i - n)
            /\ r.post[i] = LocalSignal(order[i - n], t.peers[order[i - n]], "offer")
  <2>1. \A i \in 1..Len(r.post) : i \in 1..n \/ (i - n \in 1..Len(order) /\ i > n /\ i = n + (i - n))
    <3>1. PICK m : m = Len(order)
      OBVIOUS
    <3>2. m \in Nat /\ n \in Nat /\ Len(r.post) = n + m
      BY <1>6, <1>10, <3>1
    <3>3. \A i \in 1..(n + m) : i \in 1..n \/ (i - n \in 1..m /\ i > n /\ i = n + (i - n))
      BY <3>2
    <3> QED
      BY <3>1, <3>2, <3>3
  <2>2. \A i : i - n \in 1..Len(order) /\ i = n + (i - n) =>
          r.post[i] = LocalSignal(order[i - n], t.peers[order[i - n]], "offer")
    BY <1>8, <1>10
  <2> QED
    BY <2>1, <2>2
<1>12. ASSUME NEW u \in Users, ps[u] # NoPeer
       PROVE  /\ u \in offering \/ t.peers[u] # NoPeer
              /\ Same(ps[u], t.peers[u])
              /\ IF u \in offering THEN ps[u].waiting ELSE ps[u] = t.peers[u]
  <2>1. CASE u \in offering
    <3>1. DOMAIN t.peers[u] = PeerFields
      BY <2>1
    <3>2. PICK S : S = t.peers[u].out
      OBVIOUS
    <3>0. PICK p : p = t.peers[u]
      OBVIOUS
    <3>3. ps[u] = [p EXCEPT !.waiting = TRUE, !.pending = FALSE,
                            !.state = "have-local-offer", !.offered = S]
      BY <1>1, <2>1, <3>2, <3>0
    <3>6. DOMAIN p = PeerFields
      BY <3>0, <3>1
    <3>7. Same([p EXCEPT !.waiting = TRUE, !.pending = FALSE,
                         !.state = "have-local-offer", !.offered = S], p)
      BY <3>6, OfferSame
    <3>4. Same(ps[u], t.peers[u])
      BY <3>0, <3>3, <3>7
    <3>5. ps[u].waiting = TRUE
      BY <3>3, <3>6 DEF PeerFields
    <3> QED
      BY <2>1, <3>1, <3>4, <3>5
  <2>2. CASE u \notin offering
    BY <1>1, <1>12, <2>2 DEF Same
  <2> QED
    BY <2>1, <2>2
<1>13. Shaped(r)
  <2>1. \A u \in Users : ps[u] # NoPeer => DOMAIN ps[u] = PeerFields
    BY <1>12 DEF Shaped, Same
  <2> QED
    BY <1>1, <1>5, <1>10, <2>1 DEF Shaped
<1>14. Notices(t.post) => Notices(r.post)
  <2>1. SUFFICES ASSUME Notices(t.post), NEW i \in 1..Len(r.post) PROVE IsNotice(r.post[i])
    BY DEF Notices
  <2>2. CASE i \in 1..n
    BY <1>9, <1>10, <2>1, <2>2 DEF Notices
  <2>3. CASE r.post[i] = LocalSignal(order[i - n], t.peers[order[i - n]], "offer")
    BY <2>3 DEF IsNotice, LocalSignal
  <2> QED
    BY <1>11, <2>2, <2>3
<1>15. ASSUME NEW k, NEW a, NEW i, NEW g, Bears(r, k, a, i, g)
       PROVE  \/ /\ Bears(t, k, a, i, g)
                 /\ k = "peer" => a \notin offering
                 /\ k = "post" => i \in 1..n
              \/ /\ k = "post" /\ a = 0 /\ i \in Int /\ i > n
                 /\ i - n \in 1..Len(order) /\ order[i - n] \in offering
                 /\ t.peers[order[i - n]].tag = g
  <2>1. CASE k = "peer"
    BY <1>5, <1>12, <1>15, <2>1 DEF Bears, Same
  <2>2. CASE k = "post" /\ i \in 1..n
    BY <1>9, <1>10, <1>15, <2>2 DEF Bears
  <2>3. CASE k = "post" /\ i \notin 1..n
    <3>1. i \in 1..Len(r.post) /\ LocalOffer(r.post[i], g) /\ a = 0
      BY <1>15, <2>3 DEF Bears
    <3>2. /\ i - n \in 1..Len(order) /\ i > n
          /\ r.post[i] = LocalSignal(order[i - n], t.peers[order[i - n]], "offer")
      BY <1>11, <2>3, <3>1
    <3>3. order[i - n] \in offering /\ t.peers[order[i - n]].tag = g
      BY <1>6, <3>1, <3>2 DEF LocalOffer, LocalSignal
    <3>4. i \in Int
      BY <1>10, <3>1
    <3> QED
      BY <2>3, <3>1, <3>2, <3>3, <3>4
  <2> QED
    BY <1>15, <2>1, <2>2, <2>3 DEF Bears
<1>16. \A u \in Users : r.peers[u] # NoPeer =>
         (u \in offering \/ t.peers[u] # NoPeer) /\ Same(r.peers[u], t.peers[u])
  BY <1>5, <1>12
<1>17. OfferTokens(r, t, offering, n, order)
  BY <1>6, <1>10, <1>15 DEF OfferTokens
<1> QED
  BY <1>4, <1>13, <1>14, <1>16, <1>17

(* An offer takes the token of its session along.                          *)
LEMMA MakeOffersFollow ==
  ASSUME NEW t, Shaped(t), NEW offering, offering \subseteq Members(t),
         \A u \in offering : ~t.peers[u].waiting
  PROVE  Follows(MakeOffers(t, offering), t)
<1>1. PICK r : r = MakeOffers(t, offering)
  OBVIOUS
<1>0. offering \subseteq Users /\ \A u \in offering : DOMAIN t.peers[u] = PeerFields
  BY DEF Members, Shaped
<1>2. Shaped(r) /\ Kin(r, t) /\ (Notices(t.post) => Notices(r.post))
  BY <1>0, <1>1, MakeOffersBear DEF Kin, Members
<1>3. PICK n, order : OfferTokens(r, t, offering, n, order)
  BY <1>0, <1>1, MakeOffersBear
<1>4. ASSUME NEW k, NEW a, NEW i, NEW g, Bears(r, k, a, i, g)
      PROVE  \/ Bears(t, k, a, i, g) /\ (k = "peer" => a \notin offering)
             \/ /\ k = "post" /\ a = 0 /\ i \in Int /\ i - n \in 1..Len(order)
                /\ order[i - n] \in offering /\ Bears(t, "peer", order[i - n], 0, g)
  <2>1. CASE order[i - n] \in offering /\ t.peers[order[i - n]].tag = g
    <3>1. Bears(t, "peer", order[i - n], 0, g)
      BY <2>1 DEF Bears, Members
    <3> QED
      BY <1>3, <1>4, <3>1 DEF OfferTokens
  <2>2. CASE ~(order[i - n] \in offering /\ t.peers[order[i - n]].tag = g)
    BY <1>3, <1>4, <2>2 DEF OfferTokens
  <2> QED
    BY <2>1, <2>2
<1>5. ASSUME Alone(t), NEW g, NEW k, NEW a, NEW i, NEW l, NEW b, NEW j,
             Bears(r, k, a, i, g), Bears(r, l, b, j, g)
      PROVE  k = l /\ a = b /\ i = j
  <2>1. CASE Bears(t, k, a, i, g) /\ (k = "peer" => a \notin offering)
    <3>1. CASE Bears(t, l, b, j, g)
      BY <1>5, <2>1, <3>1 DEF Alone
    <3>2. CASE order[j - n] \in offering /\ Bears(t, "peer", order[j - n], 0, g)
      BY <1>5, <2>1, <3>2 DEF Alone
    <3> QED
      BY <1>4, <1>5, <3>1, <3>2
  <2>2. CASE /\ k = "post" /\ a = 0 /\ i \in Int /\ i - n \in 1..Len(order)
             /\ order[i - n] \in offering /\ Bears(t, "peer", order[i - n], 0, g)
    <3>1. CASE Bears(t, l, b, j, g) /\ (l = "peer" => b \notin offering)
      BY <1>5, <2>2, <3>1 DEF Alone
    <3>2. CASE /\ l = "post" /\ b = 0 /\ j \in Int /\ j - n \in 1..Len(order)
               /\ order[j - n] \in offering /\ Bears(t, "peer", order[j - n], 0, g)
      <4>1. order[i - n] = order[j - n]
        BY <1>5, <2>2, <3>2 DEF Alone
      <4>2. i - n = j - n /\ n \in Nat
        BY <1>3, <2>2, <3>2, <4>1 DEF OfferTokens
      <4> QED
        BY <2>2, <3>2, <4>2
    <3> QED
      BY <1>4, <1>5, <3>1, <3>2
  <2> QED
    BY <1>4, <1>5, <2>1, <2>2
<1>6. Alone(t) => Alone(r)
  BY <1>5 DEF Alone
<1>7. \A h : Borne(r, h) => Borne(t, h)
  BY <1>4 DEF Borne
<1> QED
  BY <1>1, <1>2, <1>6, <1>7 DEF Follows

LEMMA RenegotiationFollows ==
  ASSUME NEW t, Shaped(t), NEW asked
  PROVE  Follows(RequestRenegotiation(t, asked), t)
<1>1. PICK offering : offering = {u \in asked \cap Members(t) : MayOffer(t.peers[u])}
  OBVIOUS
<1>2. PICK later : later = (asked \cap Members(t)) \ offering
  OBVIOUS
<1>3. PICK r : r = Postpone(t, later)
  OBVIOUS
<1>4. Follows(r, t) /\ Shaped(r)
  BY <1>2, <1>3, PostponeFollows DEF Follows
<1>5. ASSUME NEW u \in offering PROVE u \in Members(r) /\ ~r.peers[u].waiting
  <2>1. u \notin later /\ u \in Users /\ t.peers[u] # NoPeer /\ ~t.peers[u].waiting
    BY <1>1, <1>2, <1>5 DEF Members, MayOffer
  <2>2. r.peers[u] = t.peers[u]
    BY <1>3, <2>1 DEF Postpone, Shaped, TableFields
  <2> QED
    BY <2>1, <2>2 DEF Members
<1>6. Follows(MakeOffers(r, offering), r)
  BY <1>4, <1>5, MakeOffersFollow
<1>7. RequestRenegotiation(t, asked) = MakeOffers(r, offering)
  BY <1>1, <1>2, <1>3 DEF RequestRenegotiation
<1> QED
  BY <1>4, <1>6, <1>7, FollowsChain

LEMMA TracksFollow ==
  ASSUME NEW t, Shaped(t), NEW u \in Users, NEW olds
  PROVE  Follows([t EXCEPT !.peers = [v \in Users |->
                     IF v \in Members(t)
                       THEN AddOutgoingTracks(t, v, IF v = u THEN olds ELSE {u})
                       ELSE NoPeer]], t)
<1>1. PICK ps : ps = [v \in Users |->
                     IF v \in Members(t)
                       THEN AddOutgoingTracks(t, v, IF v = u THEN olds ELSE {u})
                       ELSE NoPeer]
  OBVIOUS
<1>2. PICK r : r = [t EXCEPT !.peers = ps]
  OBVIOUS
<1>3. r.peers = ps /\ r.post = t.post /\ DOMAIN r = TableFields
  BY <1>2 DEF Shaped, TableFields
<1>4. ASSUME NEW v \in Users, ps[v] # NoPeer
      PROVE  t.peers[v] # NoPeer /\ Same(ps[v], t.peers[v]) /\ ps[v].waiting = t.peers[v].waiting
  <2>1. v \in Members(t) /\ t.peers[v] # NoPeer
    BY <1>1, <1>4 DEF Members
  <2>2. PICK from : from = IF v = u THEN olds ELSE {u}
    OBVIOUS
  <2>3. PICK S : S = t.peers[v].out \cup
                     {<<w, t.peers[w].inst>> :
                        w \in {w \in from \cap Members(t) : \A x \in t.peers[v].out : x[1] # w}}
    OBVIOUS
  <2>4. ps[v] = [t.peers[v] EXCEPT !.out = S]
    BY <1>1, <2>1, <2>2, <2>3 DEF AddOutgoingTracks
  <2>5. DOMAIN t.peers[v] = PeerFields
    BY <2>1 DEF Shaped
  <2>6. ps[v].waiting = t.peers[v].waiting
    BY <2>4, <2>5 DEF PeerFields
  <2> QED
    BY <2>1, <2>4, <2>5, <2>6, FieldsSame
<1>5. DOMAIN ps = Users
  BY <1>1
<1>6. Follows(r, t)
  BY <1>3, <1>4, <1>5, PeersFollow
<1> QED
  BY <1>1, <1>2, <1>6

LEMMA RegisterFollows ==
  ASSUME NEW t, Shaped(t), NEW u \in Users, NEW media, NEW failing
  PROVE  Follows(RegisterPublisherTrack(t, u, media, failing), t)
<1>1. PICK t1 : t1 = IF media = "video" THEN [t EXCEPT !.video = @ \cup {u}]
                                        ELSE [t EXCEPT !.audio = @ \cup {u}]
  OBVIOUS
<1>2. PICK olds : olds = (t1.video \cap t1.audio) \ {u}
  OBVIOUS
<1>3. PICK asked : asked = (Members(t1) \ {u}) \cup (IF olds # {} THEN {u} ELSE {})
  OBVIOUS
<1>4. PICK left : left = RemovePeers(t1, failing \cap asked)
  OBVIOUS
<1>5. PICK given : given = [left EXCEPT !.peers = [v \in Users |->
                     IF v \in Members(left)
                       THEN AddOutgoingTracks(left, v, IF v = u THEN olds ELSE {u})
                       ELSE NoPeer]]
  OBVIOUS
<1>6. Follows(t1, t) /\ Shaped(t1)
  <2>1. t1.peers = t.peers /\ t1.post = t.post /\ DOMAIN t1 = TableFields
    BY <1>1 DEF Shaped, TableFields
  <2>2. DOMAIN t1.peers = Users
    BY <2>1 DEF Shaped
  <2>3. \A v \in Users : Same(t1.peers[v], t.peers[v])
    BY <2>1 DEF Same
  <2>4. Follows(t1, t)
    BY <2>1, <2>2, <2>3, PeersFollow
  <2> QED
    BY <2>4 DEF Follows
<1>7. Follows(left, t1) /\ Shaped(left)
  BY <1>4, <1>6, RemovePeersFollow DEF Follows
<1>8. Follows(given, left) /\ Shaped(given)
  <2>1. Follows(given, left)
    BY <1>5, <1>7, TracksFollow
  <2> QED
    BY <2>1 DEF Follows
<1>9. Follows(RequestRenegotiation(given, asked), given)
  BY <1>8, RenegotiationFollows
<1>10. Follows(RequestRenegotiation(given, asked), t)
  <2>1. Follows(left, t)
    BY <1>6, <1>7, FollowsChain
  <2>2. Follows(given, t)
    BY <1>8, <2>1, FollowsChain
  <2> QED
    BY <1>9, <2>2, FollowsChain
<1>11. \/ RegisterPublisherTrack(t, u, media, failing) = t
       \/ RegisterPublisherTrack(t, u, media, failing) = t1
       \/ RegisterPublisherTrack(t, u, media, failing) = RequestRenegotiation(given, asked)
  BY <1>1, <1>2, <1>3, <1>4, <1>5 DEF RegisterPublisherTrack
<1> QED
  BY <1>6, <1>10, <1>11, FollowsSelf

(* No token of the PeerConnection of u's session is elsewhere.             *)
Solitary(t, u) ==
  \A k, a, i : Bears(t, k, a, i, t.peers[u].tag) => k = "peer" /\ a = u

(* One session changes its state, and may make an offer: its token is      *)
(* either nowhere else, or comes with the event (an answer to its offer).  *)
LEMMA OneFollows ==
  ASSUME NEW t, Shaped(t), NEW u \in Users, t.peers[u] # NoPeer, Solitary(t, u),
         NEW g, g = t.peers[u].tag,
         NEW r, DOMAIN r = TableFields, DOMAIN r.peers = Users, IsSeq(r.post),
         Notices(t.post) => Notices(r.post), Same(r.peers[u], t.peers[u]),
         \A v \in Users : v # u => r.peers[v] = t.peers[v],
         \A k, a, i, h : Bears(r, k, a, i, h) =>
           Bears(t, k, a, i, h) \/ (k = "peer" /\ a = u /\ i = 0 /\ h = g)
  PROVE  FollowsWith(r, t, g) /\ FollowsWith(MakeOffers(r, {u}), t, g)
<1>1. Shaped(r) /\ Kin(r, t) /\ DOMAIN r.peers[u] = PeerFields /\ r.peers[u].tag = g
  BY DEF Shaped, Kin, Same
<1>2. \A k, a, i : Bears(r, k, a, i, g) => k = "peer" /\ a = u
  BY DEF Solitary
<1>3. FollowsWith(r, t, g)
  <2>1. ASSUME Alone(t), NEW h, NEW k, NEW a, NEW i, NEW l, NEW b, NEW j,
               Bears(r, k, a, i, h), Bears(r, l, b, j, h)
        PROVE  k = l /\ a = b /\ i = j
    <3>1. CASE h = g
      <4>1. k = "peer" /\ a = u /\ l = "peer" /\ b = u
        BY <1>2, <2>1, <3>1
      <4> QED
        BY <2>1, <4>1 DEF Bears
    <3>2. CASE h # g
      BY <2>1, <3>2 DEF Alone
    <3> QED
      BY <3>1, <3>2
  <2>2. \A h : Borne(r, h) => Borne(t, h) \/ h = g
    BY DEF Borne
  <2>3. Alone(t) => Alone(r)
    BY <2>1 DEF Alone
  <2> QED
    BY <1>1, <2>2, <2>3 DEF FollowsWith
<1>4. PICK s : s = MakeOffers(r, {u})
  OBVIOUS
<1>5. /\ Shaped(s)
      /\ Notices(r.post) => Notices(s.post)
      /\ \A v \in Users : s.peers[v] # NoPeer =>
           (v \in {u} \/ r.peers[v] # NoPeer) /\ Same(s.peers[v], r.peers[v])
  BY <1>1, <1>4, MakeOffersBear
<1>6. PICK n, order : OfferTokens(s, r, {u}, n, order)
  BY <1>1, <1>4, MakeOffersBear
<1>7. \A k, a, i, h : Bears(s, k, a, i, h) =>
        \/ Bears(t, k, a, i, h) /\ h # g
        \/ /\ k = "post" /\ a = 0 /\ i \in Int /\ i - n \in 1..Len(order)
           /\ order[i - n] = u /\ h = g
  BY <1>1, <1>2, <1>6 DEF OfferTokens
<1>8. ASSUME Alone(t), NEW h, NEW k, NEW a, NEW i, NEW l, NEW b, NEW j,
             Bears(s, k, a, i, h), Bears(s, l, b, j, h)
      PROVE  k = l /\ a = b /\ i = j
  <2>1. CASE h = g
    <3>1. /\ k = "post" /\ a = 0 /\ i \in Int /\ i - n \in 1..Len(order) /\ order[i - n] = u
          /\ l = "post" /\ b = 0 /\ j \in Int /\ j - n \in 1..Len(order) /\ order[j - n] = u
      BY <1>7, <1>8, <2>1
    <3>2. i - n = j - n /\ n \in Nat
      BY <1>6, <3>1 DEF OfferTokens
    <3> QED
      BY <3>1, <3>2
  <2>2. CASE h # g
    BY <1>7, <1>8, <2>2 DEF Alone
  <2> QED
    BY <2>1, <2>2
<1>9. Alone(t) => Alone(s)
  BY <1>8 DEF Alone
<1>10. \A h : Borne(s, h) => Borne(t, h) \/ h = g
  BY <1>7 DEF Borne
<1>11. Kin(s, t)
  <2>1. SUFFICES ASSUME NEW v \in Users, s.peers[v] # NoPeer
                 PROVE  t.peers[v] # NoPeer /\ Same(s.peers[v], t.peers[v])
    BY DEF Kin
  <2>2. (v = u \/ r.peers[v] # NoPeer) /\ Same(s.peers[v], r.peers[v])
    BY <1>5, <2>1
  <2>3. t.peers[v] # NoPeer /\ Same(r.peers[v], t.peers[v])
    BY <2>2 DEF Same
  <2> QED
    BY <2>2, <2>3 DEF Same
<1>12. Notices(t.post) => Notices(s.post)
  BY <1>5
<1>13. FollowsWith(s, t, g)
  BY <1>5, <1>9, <1>10, <1>11, <1>12 DEF FollowsWith
<1> QED
  BY <1>3, <1>4, <1>13

(* setRemoteDescription and the answer: notices are posted, and no offer. *)
Posted(r, t, u) ==
  /\ Shaped(r) /\ (Notices(t.post) => Notices(r.post))
  /\ Same(r.peers[u], t.peers[u]) /\ r.peers[u].waiting = t.peers[u].waiting
  /\ \A v \in Users : v # u => r.peers[v] = t.peers[v]
  /\ \A i, g : Bears(r, "post", 0, i, g) => Bears(t, "post", 0, i, g)
  /\ SetRemoteOffer(t, u) = IF t.peers[u].pending THEN MakeOffers(r, {u}) ELSE r

LEMMA AnswerPosted ==
  ASSUME NEW t, Shaped(t), NEW u \in Users, DOMAIN t.peers[u] = PeerFields
  PROVE  \E r : Posted(r, t, u)
<1>1. PICK p : p = t.peers[u]
  OBVIOUS
<1>2. PICK e1 : e1 = [t |-> "ready", uid |-> u, inst |-> p.inst, media |-> "video"]
  OBVIOUS
<1>3. PICK e2 : e2 = [t |-> "ready", uid |-> u, inst |-> p.inst, media |-> "audio"]
  OBVIOUS
<1>4. PICK e3 : e3 = LocalSignal(u, p, "answer")
  OBVIOUS
<1>5. PICK news : news = <<e1, e2, e3>>
  OBVIOUS
<1>6. IsSeq(news) /\ Len(news) = 3 /\ \A i \in 1..3 : news[i] \in {e1, e2, e3}
  <2>1. news \in Seq({e1, e2, e3}) /\ Len(news) = 3
    BY <1>5
  <2>2. \A i \in 1..3 : news[i] \in {e1, e2, e3}
    BY <1>5
  <2> QED
    BY <2>1, <2>2 DEF IsSeq
<1>7. \A i \in 1..Len(news) : IsNotice(news[i]) /\ \A g : ~LocalOffer(news[i], g)
  BY <1>2, <1>3, <1>4, <1>6 DEF IsNotice, LocalOffer, LocalSignal
<1>8. PICK r : r = [t EXCEPT !.peers[u].init = TRUE, !.post = @ \o news]
  OBVIOUS
<1>9. /\ DOMAIN r = TableFields /\ r.post = t.post \o news
      /\ r.peers = [t.peers EXCEPT ![u] = [t.peers[u] EXCEPT !.init = TRUE]]
  BY <1>8 DEF Shaped, TableFields
<1>10. /\ DOMAIN r.peers = Users
       /\ r.peers[u] = [p EXCEPT !.init = TRUE]
       /\ \A v \in Users : v # u => r.peers[v] = t.peers[v]
  BY <1>1, <1>9 DEF Shaped
<1>11. Same(r.peers[u], p) /\ r.peers[u].waiting = p.waiting
  <2>1. DOMAIN p = PeerFields
    BY <1>1
  <2>2. Same([p EXCEPT !.init = TRUE], p)
    BY <2>1, FieldsSame
  <2>3. Same(r.peers[u], p)
    BY <1>10, <2>2
  <2> QED
    BY <1>10, <2>1, <2>3 DEF PeerFields
<1>12. PICK n : n = Len(t.post)
  OBVIOUS
<1>13. /\ IsSeq(r.post) /\ n \in Nat
       /\ \A i \in 1..Len(r.post) :
            \/ i \in 1..n /\ r.post[i] = t.post[i]
            \/ \E j \in 1..Len(news) : r.post[i] = news[j]
  <2>1. PICK q : q = t.post
    OBVIOUS
  <2>2. IsSeq(q) /\ IsSeq(news)
    BY <1>6, <2>1 DEF Shaped
  <2>3. /\ IsSeq(q \o news) /\ Len(q) \in Nat /\ Len(news) \in Nat
        /\ Len(q \o news) = Len(q) + Len(news)
        /\ \A i \in 1..Len(q) : (q \o news)[i] = q[i]
        /\ \A i \in 1..Len(news) : (q \o news)[Len(q) + i] = news[i]
    BY <2>2, ConcatIs
  <2>4. PICK w, m : w = q \o news /\ m = Len(news)
    OBVIOUS
  <2>5. /\ IsSeq(w) /\ n \in Nat /\ m \in Nat /\ Len(w) = n + m
        /\ \A i \in 1..n : w[i] = q[i]
        /\ \A i \in 1..m : w[n + i] = news[i]
    BY <1>12, <2>1, <2>3, <2>4
  <2>6. ASSUME NEW i \in 1..Len(w)
        PROVE  (i \in 1..n /\ w[i] = q[i]) \/ \E j \in 1..m : w[i] = news[j]
    <3>1. CASE i \in 1..n
      BY <2>5, <3>1
    <3>2. CASE i \notin 1..n
      <4>1. i - n \in 1..m /\ i = n + (i - n)
        BY <2>5, <3>2
      <4> QED
        BY <2>5, <4>1
    <3> QED
      BY <3>1, <3>2
  <2>7. r.post = w
    BY <1>9, <2>1, <2>4
  <2> QED
    BY <2>1, <2>4, <2>5, <2>6, <2>7
<1>14. Shaped(r)
  BY <1>1, <1>9, <1>10, <1>11, <1>13 DEF Shaped, Same
<1>15. Notices(t.post) => Notices(r.post)
  <2>1. SUFFICES ASSUME Notices(t.post), NEW i \in 1..Len(r.post) PROVE IsNotice(r.post[i])
    BY DEF Notices
  <2> QED
    BY <1>7, <1>12, <1>13, <2>1 DEF Notices
<1>16. \A i, g : Bears(r, "post", 0, i, g) => Bears(t, "post", 0, i, g)
  BY <1>7, <1>12, <1>13 DEF Bears
<1>17. SetRemoteOffer(t, u) = IF p.pending THEN MakeOffers(r, {u}) ELSE r
  BY <1>1, <1>2, <1>3, <1>4, <1>5, <1>8 DEF SetRemoteOffer
<1> QED
  BY <1>1, <1>10, <1>11, <1>14, <1>15, <1>16, <1>17 DEF Posted

LEMMA SetRemoteOfferFollows ==
  ASSUME NEW t, Shaped(t), NEW u \in Users, t.peers[u] # NoPeer, Solitary(t, u)
  PROVE  FollowsWith(SetRemoteOffer(t, u), t, t.peers[u].tag)
<1>1. DOMAIN t.peers[u] = PeerFields
  BY DEF Shaped
<1>2. PICK r : Posted(r, t, u)
  BY <1>1, AnswerPosted
<1>3. PICK g : g = t.peers[u].tag
  OBVIOUS
<1>4. \A k, a, i, h : Bears(r, k, a, i, h) => Bears(t, k, a, i, h)
  <2>1. SUFFICES ASSUME NEW k, NEW a, NEW i, NEW h, Bears(r, k, a, i, h)
                 PROVE  Bears(t, k, a, i, h)
    OBVIOUS
  <2>2. CASE k = "peer"
    BY <1>2, <2>1, <2>2 DEF Posted, Bears, Same
  <2>3. CASE k = "post"
    <3>1. a = 0
      BY <2>1, <2>3 DEF Bears
    <3> QED
      BY <1>2, <2>1, <2>3, <3>1 DEF Posted
  <2> QED
    BY <2>1, <2>2, <2>3 DEF Bears
<1>5. FollowsWith(r, t, g) /\ FollowsWith(MakeOffers(r, {u}), t, g)
  <2>1. /\ Same(r.peers[u], t.peers[u]) /\ IsSeq(r.post) /\ DOMAIN r = TableFields
        /\ DOMAIN r.peers = Users /\ (Notices(t.post) => Notices(r.post))
        /\ \A v \in Users : v # u => r.peers[v] = t.peers[v]
    BY <1>2 DEF Posted, Shaped
  <2> QED
    BY <1>3, <1>4, <2>1, OneFollows
<1> QED
  BY <1>2, <1>3, <1>5 DEF Posted

LEMMA SetRemoteAnswerFollows ==
  ASSUME NEW t, Shaped(t), NEW u \in Users, t.peers[u] # NoPeer, Solitary(t, u)
  PROVE  FollowsWith(SetRemoteAnswer(t, u), t, t.peers[u].tag)
<1>1. PICK p, o : p = t.peers[u] /\ o = p.offered
  OBVIOUS
<1>2. PICK r : r = [t EXCEPT !.peers[u].state = "stable", !.peers[u].waiting = FALSE,
                             !.peers[u].open = t.peers[u].offered]
  OBVIOUS
<1>3. /\ DOMAIN r = TableFields /\ r.post = t.post
      /\ r.peers = [t.peers EXCEPT ![u] = [t.peers[u] EXCEPT !.state = "stable",
                                              !.waiting = FALSE, !.open = o]]
  BY <1>1, <1>2 DEF Shaped, TableFields
<1>4. /\ DOMAIN r.peers = Users
      /\ r.peers[u] = [p EXCEPT !.state = "stable", !.waiting = FALSE, !.open = o]
      /\ \A v \in Users : v # u => r.peers[v] = t.peers[v]
  BY <1>1, <1>3 DEF Shaped
<1>5. Same(r.peers[u], p)
  <2>1. DOMAIN p = PeerFields
    BY <1>1 DEF Shaped
  <2>2. Same([p EXCEPT !.state = "stable", !.waiting = FALSE, !.open = o], p)
    BY <2>1, AnswerSame
  <2> QED
    BY <1>4, <2>2
<1>6. IsSeq(r.post) /\ (Notices(t.post) => Notices(r.post))
  BY <1>3 DEF Shaped
<1>7. PICK g : g = p.tag
  OBVIOUS
<1>8. ASSUME NEW k, NEW a, NEW i, NEW h, Bears(r, k, a, i, h)
      PROVE  Bears(t, k, a, i, h) \/ (k = "peer" /\ a = u /\ i = 0 /\ h = g)
  <2>1. CASE k = "peer" /\ a = u
    BY <1>5, <1>7, <1>8, <2>1 DEF Bears, Same
  <2>2. CASE k = "peer" /\ a # u
    BY <1>4, <1>8, <2>2 DEF Bears
  <2>3. CASE k = "post"
    BY <1>3, <1>8, <2>3 DEF Bears
  <2> QED
    BY <1>8, <2>1, <2>2, <2>3 DEF Bears
<1>9. FollowsWith(r, t, g) /\ FollowsWith(MakeOffers(r, {u}), t, g)
  BY <1>1, <1>3, <1>4, <1>5, <1>6, <1>7, <1>8, OneFollows
<1>10. SetRemoteAnswer(t, u) = IF p.pending THEN MakeOffers(r, {u}) ELSE r
  BY <1>1, <1>2 DEF SetRemoteAnswer
<1> QED
  BY <1>1, <1>7, <1>9, <1>10

-----------------------------------------------------------------------------
(* The tokens of the whole path.                                           *)

FrameBears(f, g) == f.type \in {"offer", "answer"} /\ f.tag = g

OfferBears(m, g) == m.type = "offer" /\ m.tag = g

RequestBears(o, g) ==
  \/ o.t \in {"offer", "answer"} /\ o.tag = g
  \/ o.t = "response" /\ OfferBears(o.m, g)

EventBears(e, g) == (e.t = "signal" /\ FrameBears(e, g)) \/ LocalOffer(e, g)

At(k, a, i, g) ==
  \/ k = "roomq" /\ a = 0 /\ i \in 1..Len(roomq) /\ RequestBears(roomq[i], g)
  \/ k = "op" /\ a = 0 /\ i = 1 /\ op # <<>> /\ op[1].tag = g
  \/ k = "wire" /\ a \in Conns /\ i \in 1..Len(wire[a]) /\ FrameBears(wire[a][i], g)
  \/ k = "fifo" /\ a = 0 /\ i \in 1..Len(fifo) /\ EventBears(fifo[i], g)
  \/ k = "control" /\ a = 0 /\ i \in 1..Len(control)
     /\ control[i].t = "message" /\ OfferBears(control[i].m, g)
  \/ k = "client" /\ a \in Users /\ i \in 1..Len(toClient[a]) /\ OfferBears(toClient[a][i], g)
  \/ k = "peer" /\ a \in Users /\ i = 0
     /\ peers[a] # NoPeer /\ ~peers[a].waiting /\ peers[a].tag = g

(* A PeerConnection has one token at most, wherever it is.                 *)
OneToken ==
  \A g, k, a, i, l, b, j :
    At(k, a, i, g) /\ At(l, b, j, g) => k = l /\ a = b /\ i = j

TagsKnown == \A k, a, i, g : At(k, a, i, g) => g \in 1..pcs

(* The indices of a sequence.                                              *)
LEMMA SequenceIs == ASSUME NEW q, IsSeq(q) PROVE DOMAIN q = 1..Len(q) /\ Len(q) \in Nat
BY DEF IsSeq

(* A set of one element at most.                                           *)
Lone(A) == \A x, y \in A : x = y

(* It is empty or a singleton.                                             *)
LEMMA LoneIs == ASSUME NEW A, Lone(A) PROVE A = {} \/ Cardinality(A) = 1
<1>1. SUFFICES ASSUME A # {} PROVE Cardinality(A) = 1
  OBVIOUS
<1>2. PICK x : x \in A
  BY <1>1
<1>3. A = {x}
  BY <1>2 DEF Lone
<1> QED
  BY <1>3, FS_Singleton

(* The offers and answers that the property counts are tokens of one       *)
(* PeerConnection.                                                         *)
LEMMA OneOutstanding ==
  ASSUME NEW T, Signalled(T), OneToken
  PROVE  OneOfferOutstanding
<1>1. SUFFICES ASSUME NEW u \in Users, peers[u] # NoPeer,
                      NEW p, p = peers[u],
                      NEW A, A = {i \in DOMAIN fifo : fifo[i].t = "local"
                              /\ fifo[i].type = "offer" /\ fifo[i].tag = p.tag /\ fifo[i].inst = p.inst},
                      NEW B, B = {i \in DOMAIN control : control[i].t = "message"
                              /\ control[i].m.type = "offer" /\ control[i].m.tag = p.tag
                              /\ control[i].m.inst = p.inst},
                      NEW C, C = {i \in DOMAIN roomq : roomq[i].t = "response"
                              /\ roomq[i].m.type = "offer" /\ roomq[i].m.tag = p.tag
                              /\ roomq[i].m.inst = p.inst},
                      NEW D, D = {i \in DOMAIN toClient[u] : toClient[u][i].type = "offer"
                              /\ toClient[u][i].tag = p.tag /\ toClient[u][i].inst = p.inst},
                      NEW E, E = {i \in DOMAIN roomq : roomq[i].t = "answer"
                              /\ roomq[i].tag = p.tag /\ roomq[i].re = p.inst},
                      NEW F, F = {i \in DOMAIN wire[p.conn] : wire[p.conn][i].type = "answer"
                              /\ wire[p.conn][i].tag = p.tag /\ wire[p.conn][i].re = p.inst},
                      NEW G, G = {i \in DOMAIN fifo : fifo[i].t = "signal"
                              /\ fifo[i].type = "answer" /\ fifo[i].tag = p.tag /\ fifo[i].re = p.inst}
               PROVE  Cardinality(A) + Cardinality(B) + Cardinality(C) + Cardinality(D)
                      + Cardinality(E) + Cardinality(F) + Cardinality(G)
                      <= IF p.waiting THEN 1 ELSE 0
  BY DEF OneOfferOutstanding, Count
<1>2. PICK g, c : g = p.tag /\ c = p.conn
  OBVIOUS
<1>3. c \in Conns
  BY <1>1, <1>2, ConnectedIs DEF Signalled, MediaOK, PeersOK, PeerRec
<1>4. /\ DOMAIN fifo = 1..Len(fifo) /\ DOMAIN control = 1..Len(control)
      /\ DOMAIN roomq = 1..Len(roomq) /\ DOMAIN toClient[u] = 1..Len(toClient[u])
      /\ DOMAIN wire[c] = 1..Len(wire[c])
  <2>1. IsSeq(fifo) /\ IsSeq(control) /\ IsSeq(roomq) /\ IsSeq(wire[c])
    BY <1>3 DEF Signalled, MediaOK, EventsOK, ControlOK, QueueOK, Wired
  <2>2. IsSeq(toClient[u])
    BY DEF Signalled, ClientsOK, UserIs, UserOK
  <2> QED
    BY <2>1, <2>2, SequenceIs
<1>5. /\ \A i \in A : At("fifo", 0, i, g) /\ fifo[i].t = "local"
      /\ \A i \in G : At("fifo", 0, i, g) /\ fifo[i].t = "signal"
  BY <1>1, <1>2, <1>4 DEF At, EventBears, LocalOffer, FrameBears
<1>6. \A i \in B : At("control", 0, i, g)
  BY <1>1, <1>2, <1>4 DEF At, OfferBears
<1>7. /\ \A i \in C : At("roomq", 0, i, g) /\ roomq[i].t = "response"
      /\ \A i \in E : At("roomq", 0, i, g) /\ roomq[i].t = "answer"
  BY <1>1, <1>2, <1>4 DEF At, RequestBears, OfferBears
<1>8. \A i \in D : At("client", u, i, g)
  BY <1>1, <1>2, <1>4 DEF At, OfferBears
<1>9. \A i \in F : At("wire", c, i, g)
  BY <1>1, <1>2, <1>3, <1>4 DEF At, FrameBears
<1>10. CASE p.waiting
  <2>1. Lone(A) /\ Lone(B) /\ Lone(C) /\ Lone(D) /\ Lone(E) /\ Lone(F) /\ Lone(G)
    BY <1>5, <1>6, <1>7, <1>8, <1>9 DEF OneToken, Lone
  <2>2. /\ A # {} => B = {} /\ C = {} /\ D = {} /\ E = {} /\ F = {} /\ G = {}
        /\ B # {} => C = {} /\ D = {} /\ E = {} /\ F = {} /\ G = {}
        /\ C # {} => D = {} /\ E = {} /\ F = {} /\ G = {}
        /\ D # {} => E = {} /\ F = {} /\ G = {}
        /\ E # {} => F = {} /\ G = {}
        /\ F # {} => G = {}
    BY <1>5, <1>6, <1>7, <1>8, <1>9 DEF OneToken
  <2>3. Cardinality(A) + Cardinality(B) + Cardinality(C) + Cardinality(D)
        + Cardinality(E) + Cardinality(F) + Cardinality(G) <= 1
    <3>1. Cardinality({}) = 0
      BY FS_EmptySet
    <3>2. /\ A = {} \/ Cardinality(A) = 1
          /\ B = {} \/ Cardinality(B) = 1
          /\ C = {} \/ Cardinality(C) = 1
          /\ D = {} \/ Cardinality(D) = 1
          /\ E = {} \/ Cardinality(E) = 1
          /\ F = {} \/ Cardinality(F) = 1
          /\ G = {} \/ Cardinality(G) = 1
      BY <2>1, LoneIs
    <3> QED
      BY <2>2, <3>1, <3>2
  <2> QED
    BY <1>10, <2>3
<1>11. CASE ~p.waiting
  <2>1. At("peer", u, 0, g)
    BY <1>1, <1>2, <1>11 DEF At
  <2>2. A = {} /\ B = {} /\ C = {} /\ D = {} /\ E = {} /\ F = {} /\ G = {}
    BY <1>5, <1>6, <1>7, <1>8, <1>9, <2>1 DEF OneToken
  <2> QED
    BY <1>11, <2>2, FS_EmptySet
<1> QED
  BY <1>10, <1>11

Tokens == OneToken /\ TagsKnown

(* No token is new and none moves.                                         *)
LEMMA TokensStay ==
  ASSUME Tokens, pcs' = pcs,
         \A k, a, i, g : At(k, a, i, g)' => At(k, a, i, g)
  PROVE  Tokens'
BY DEF Tokens, OneToken, TagsKnown

(* The head of one queue is taken, and its token moves to a new place.     *)
Moves(k0, a0, k1, a1, i1) ==
  \A k, a, i, g : At(k, a, i, g)' =>
     \/ (k # k0 \/ a # a0) /\ At(k, a, i, g)
     \/ k = k0 /\ a = a0 /\ i \in Nat /\ i # 0 /\ At(k, a, i + 1, g)
     \/ k = k1 /\ a = a1 /\ i = i1 /\ At(k0, a0, 1, g)

LEMMA TokensMove ==
  ASSUME Tokens, pcs' = pcs, NEW k0, NEW a0, NEW k1, NEW a1, NEW i1,
         Moves(k0, a0, k1, a1, i1)
  PROVE  Tokens'
<1>0. \A k, a, i, g : At(k, a, i, g)' =>
        \/ (k # k0 \/ a # a0) /\ At(k, a, i, g)
        \/ k = k0 /\ a = a0 /\ i \in Nat /\ i # 0 /\ At(k, a, i + 1, g)
        \/ k = k1 /\ a = a1 /\ i = i1 /\ At(k0, a0, 1, g)
  BY DEF Moves
<1>1. \A k, a, i, g : At(k, a, i, g)' => \E l, b, j : At(l, b, j, g)
  BY <1>0
<1>2. TagsKnown'
  BY <1>1 DEF Tokens, TagsKnown
<1>3. \A i, j : i \in Nat /\ j \in Nat /\ i + 1 = j + 1 => i = j
  OBVIOUS
<1>4. \A i : i \in Nat /\ i # 0 => i + 1 # 1
  OBVIOUS
<1>5. ASSUME NEW g, NEW k, NEW a, NEW i, NEW l, NEW b, NEW j, At(k, a, i, g)', At(l, b, j, g)'
      PROVE  k = l /\ a = b /\ i = j
  <2>1. CASE (k # k0 \/ a # a0) /\ At(k, a, i, g)
    <3>1. ASSUME At(k0, a0, 1, g) PROVE FALSE
      BY <2>1, <3>1 DEF Tokens, OneToken
    <3>2. ASSUME l = k0, b = a0, At(l, b, j + 1, g) PROVE FALSE
      BY <2>1, <3>2 DEF Tokens, OneToken
    <3> QED
      BY <1>0, <1>5, <2>1, <3>1, <3>2 DEF Tokens, OneToken
  <2>2. CASE k = k0 /\ a = a0 /\ i \in Nat /\ i # 0 /\ At(k, a, i + 1, g)
    <3>1. ASSUME At(k0, a0, 1, g) PROVE FALSE
      BY <1>4, <2>2, <3>1 DEF Tokens, OneToken
    <3>2. ASSUME l # k0 \/ b # a0, At(l, b, j, g) PROVE FALSE
      BY <2>2, <3>2 DEF Tokens, OneToken
    <3>3. l = k0 /\ b = a0 /\ j \in Nat /\ At(l, b, j + 1, g)
      BY <1>0, <1>5, <3>1, <3>2
    <3>4. i + 1 = j + 1
      BY <2>2, <3>3 DEF Tokens, OneToken
    <3> QED
      BY <1>3, <2>2, <3>3, <3>4
  <2>3. CASE k = k1 /\ a = a1 /\ i = i1 /\ At(k0, a0, 1, g)
    <3>1. ASSUME l # k0 \/ b # a0, At(l, b, j, g) PROVE FALSE
      BY <2>3, <3>1 DEF Tokens, OneToken
    <3>2. ASSUME l = k0, b = a0, j \in Nat, j # 0, At(l, b, j + 1, g) PROVE FALSE
      BY <1>4, <2>3, <3>2 DEF Tokens, OneToken
    <3> QED
      BY <1>0, <1>5, <2>3, <3>1, <3>2
  <2> QED
    BY <1>0, <1>5, <2>1, <2>2, <2>3
<1> QED
  BY <1>2, <1>5 DEF Tokens, OneToken

(* A new PeerConnection makes its first offer.                             *)
Makes(k1, a1, i1) ==
  \A k, a, i, g : At(k, a, i, g)' =>
     At(k, a, i, g) \/ (k = k1 /\ a = a1 /\ i = i1 /\ g = pcs + 1)

(* A token that nobody has, in one new place, leaves every token single.   *)
LEMMA TokenMade ==
  ASSUME Tokens, pcs \in Nat, pcs' = pcs + 1, NEW k1, NEW a1, NEW i1, Makes(k1, a1, i1)
  PROVE  Tokens'
<1>0. \A k, a, i, g : At(k, a, i, g)' =>
        At(k, a, i, g) \/ (k = k1 /\ a = a1 /\ i = i1 /\ g = pcs + 1)
  BY DEF Makes
<1>1. \A g \in 1..pcs : g \in 1..pcs' /\ g # pcs + 1
  OBVIOUS
<1>2. pcs + 1 \in 1..pcs'
  OBVIOUS
<1>3. TagsKnown'
  BY <1>0, <1>1, <1>2 DEF Tokens, TagsKnown
<1>4. \A k, a, i : ~At(k, a, i, pcs + 1)
  BY <1>1 DEF Tokens, TagsKnown
<1>5. ASSUME NEW g, NEW k, NEW a, NEW i, NEW l, NEW b, NEW j, At(k, a, i, g)', At(l, b, j, g)'
      PROVE  k = l /\ a = b /\ i = j
  <2>1. CASE g = pcs + 1
    BY <1>0, <1>4, <1>5, <2>1
  <2>2. CASE g # pcs + 1
    BY <1>0, <1>5, <2>2 DEF Tokens, OneToken
  <2> QED
    BY <2>1, <2>2
<1> QED
  BY <1>3, <1>5 DEF Tokens, OneToken

(* The elements of a queue that has got one more.                          *)
LEMMA AppendAt ==
  ASSUME NEW s, IsSeq(s), NEW h
  PROVE  \A i \in 1..Len(Append(s, h)) :
           \/ i \in 1..Len(s) /\ Append(s, h)[i] = s[i]
           \/ i = Len(s) + 1 /\ Append(s, h)[i] = h
<1>1. /\ Len(s) \in Nat /\ Len(Append(s, h)) = Len(s) + 1
      /\ Append(s, h)[Len(s) + 1] = h /\ \A i \in 1..Len(s) : Append(s, h)[i] = s[i]
  BY AppendIs
<1>2. \A i \in 1..Len(s) + 1 : i \in 1..Len(s) \/ i = Len(s) + 1
  BY <1>1
<1> QED
  BY <1>1, <1>2

(* The elements of a queue that has lost its head.                         *)
LEMMA TailAt ==
  ASSUME NEW s, IsSeq(s), s # <<>>
  PROVE  /\ 1 \in 1..Len(s) /\ Head(s) = s[1]
         /\ \A i \in 1..Len(Tail(s)) :
              i \in Nat /\ i # 0 /\ i + 1 \in 1..Len(s) /\ Tail(s)[i] = s[i + 1]
BY TailIs

(* The queues are sequences.                                               *)
LEMMA QueuesAre ==
  ASSUME NEW T, Signalled(T)
  PROVE  /\ IsSeq(control) /\ IsSeq(fifo) /\ IsSeq(roomq) /\ pcs \in Nat
         /\ DOMAIN wire = Conns /\ \A c \in Conns : IsSeq(wire[c])
         /\ DOMAIN toClient = Users /\ \A u \in Users : IsSeq(toClient[u])
         /\ DOMAIN peers = Users
BY DEF Signalled, MediaOK, EventsOK, ControlOK, QueueOK, Wired, ClientsOK, UserIs, UserOK,
       Connected, PeersOK

(* MediaSignalClient::Send                                                 *)
LEMMA SendAt ==
  ASSUME NEW T, Signalled(T), NEW e, NEW f, Send(e, f)
  PROVE  \A c \in Conns : \A i \in 1..Len(wire'[c]) :
           \/ i \in 1..Len(wire[c]) /\ wire'[c][i] = wire[c][i]
           \/ /\ c = econn /\ i = Len(wire[c]) + 1 /\ wire'[c][i] = f
              /\ SendAccepted(e)
<1>1. CASE wire' = wire
  BY <1>1
<1>2. CASE wire' # wire
  <2>1. connected /\ SendAccepted(e) /\ wire' = [wire EXCEPT ![econn] = Append(@, f)]
    BY <1>2 DEF Send, SendAccepted, IsCurrent
  <2>2. PICK q : q = Append(wire[econn], f)
    OBVIOUS
  <2>3. econn \in Conns
    BY <2>1, ConnectedIs DEF Signalled
  <2>4. \A c \in Conns : wire'[c] = IF c = econn THEN q ELSE wire[c]
    BY <2>1, <2>2, <2>3, QueuesAre
  <2>5. \A i \in 1..Len(q) :
          (i \in 1..Len(wire[econn]) /\ q[i] = wire[econn][i]) \/ (i = Len(wire[econn]) + 1 /\ q[i] = f)
    BY <2>2, <2>3, QueuesAre, AppendAt
  <2> QED
    BY <2>1, <2>4, <2>5
<1> QED
  BY <1>1, <1>2

(* Only the wire of c changes, to a part of what it was.                   *)
LEMMA CutAt ==
  ASSUME NEW T, Signalled(T), NEW c, NEW q, q \in Cut(wire[c]) \/ q = <<>>, c \in Conns,
         wire' = [wire EXCEPT ![c] = q]
  PROVE  \A b \in Conns : \A i \in 1..Len(wire'[b]) :
           i \in 1..Len(wire[b]) /\ wire'[b][i] = wire[b][i]
<1>1. \A b \in Conns : wire'[b] = IF b = c THEN q ELSE wire[b]
  BY QueuesAre
<1>2. \A i \in 1..Len(q) : i \in 1..Len(wire[c]) /\ q[i] = wire[c][i]
  <2>1. CASE q = <<>>
    BY <2>1, EmptyIs
  <2>2. CASE q \in Cut(wire[c])
    <3>1. PICK n \in 0..Len(wire[c]) : q = SubSeq(wire[c], 1, n)
      BY <2>2 DEF Cut
    <3> QED
      BY <3>1, PrefixIs, QueuesAre
  <2> QED
    BY <2>1, <2>2
<1> QED
  BY <1>1, <1>2

(* A new connection moves no token.                                        *)
LEMMA ConnectTokens ==
  ASSUME NEW T, Signalled(T), Tokens, Connect
  PROVE  Tokens'
<1>1. PICK h : h.t = "up" /\ control' = Append(control, h)
  BY DEF Connect
<1>2. \A i \in 1..Len(control') : control'[i].t = "message" =>
         i \in 1..Len(control) /\ control'[i] = control[i]
  BY <1>1, QueuesAre, AppendAt
<1>3. UNCHANGED <<roomq, op, wire, fifo, toClient, peers, pcs>>
  BY DEF Connect, signalVars, clientVars
<1>4. \A k, a, i, g : At(k, a, i, g)' => At(k, a, i, g)
  BY <1>2, <1>3 DEF At
<1> QED
  BY <1>3, <1>4, TokensStay

(* What a lost connection drops takes its tokens with it.                  *)
LEMMA DisconnectTokens ==
  ASSUME NEW T, Signalled(T), Tokens, Disconnect
  PROVE  Tokens'
<1>1. PICK h : h.t = "down" /\ control' = Append(control, h)
  BY DEF Disconnect
<1>2. \A i \in 1..Len(control') : control'[i].t = "message" =>
         i \in 1..Len(control) /\ control'[i] = control[i]
  BY <1>1, QueuesAre, AppendAt
<1>3. UNCHANGED <<roomq, op, fifo, toClient, peers, pcs>>
  BY DEF Disconnect, signalVars, clientVars
<1>4. PICK q \in Cut(wire[econn]) : wire' = [wire EXCEPT ![econn] = q]
  BY DEF Disconnect
<1>5. econn \in Conns
  BY ConnectedIs DEF Disconnect, Signalled, Connected
<1>6. \A b \in Conns : \A i \in 1..Len(wire'[b]) :
           i \in 1..Len(wire[b]) /\ wire'[b][i] = wire[b][i]
  BY <1>4, <1>5, CutAt
<1>7. \A k, a, i, g : At(k, a, i, g)' => At(k, a, i, g)
  BY <1>2, <1>3, <1>6 DEF At
<1> QED
  BY <1>3, <1>7, TokensStay

(* HandleEvents and PostMediaEvent: an offer comes for the room.           *)
LEMMA ControlTokens ==
  ASSUME NEW T, Signalled(T), Tokens, ControlStep
  PROVE  Tokens'
<1>1. PICK e : e = Head(control)
  OBVIOUS
<1>2. /\ control # <<>> /\ control' = Tail(control)
      /\ UNCHANGED <<op, wire, fifo, toClient, peers, pcs>>
  BY DEF ControlStep, clientVars
<1>3. /\ 1 \in 1..Len(control) /\ e = control[1]
      /\ \A i \in 1..Len(control') :
            i \in Nat /\ i # 0 /\ i + 1 \in 1..Len(control) /\ control'[i] = control[i + 1]
  BY <1>1, <1>2, QueuesAre, TailAt
<1>4. \/ roomq' = roomq
      \/ \E r : r.t = "response" /\ r.m = e.m /\ e.t = "message" /\ roomq' = Append(roomq, r)
  BY <1>1 DEF ControlStep
<1>5. \A i \in 1..Len(roomq') :
        \/ i \in 1..Len(roomq) /\ roomq'[i] = roomq[i]
        \/ /\ i = Len(roomq) + 1 /\ e.t = "message"
           /\ roomq'[i].t = "response" /\ roomq'[i].m = e.m
  <2>1. CASE roomq' = roomq
    BY <2>1
  <2>2. CASE roomq' # roomq
    <3>1. PICK r : r.t = "response" /\ r.m = e.m /\ e.t = "message" /\ roomq' = Append(roomq, r)
      BY <1>4, <2>2
    <3>2. \A i \in 1..Len(roomq') : (i \in 1..Len(roomq) /\ roomq'[i] = roomq[i])
                                    \/ (i = Len(roomq) + 1 /\ roomq'[i] = r)
      BY <3>1, QueuesAre, AppendAt
    <3> QED
      BY <3>1, <3>2
  <2> QED
    BY <2>1, <2>2
<1>6. ASSUME NEW k, NEW a, NEW i, NEW g, At(k, a, i, g)'
      PROVE  \/ (k # "control" \/ a # 0) /\ At(k, a, i, g)
             \/ k = "control" /\ a = 0 /\ i \in Nat /\ i # 0 /\ At(k, a, i + 1, g)
             \/ k = "roomq" /\ a = 0 /\ i = Len(roomq) + 1 /\ At("control", 0, 1, g)
  <2>1. CASE k = "control"
    BY <1>3, <1>6, <2>1 DEF At
  <2>2. CASE k = "roomq"
    BY <1>3, <1>5, <1>6, <2>2 DEF At, RequestBears
  <2>3. CASE k \notin {"control", "roomq"}
    BY <1>2, <1>6, <2>3 DEF At
  <2> QED
    BY <2>1, <2>2, <2>3
<1>7. Moves("control", 0, "roomq", 0, Len(roomq) + 1)
  BY <1>6 DEF Moves
<1> QED
  BY <1>2, <1>7, TokensMove

(* SendMediaSignal of an offer                                             *)
LEMMA OfferSendTokens ==
  ASSUME NEW T, Signalled(T), Tokens, MediaOfferSend
  PROVE  Tokens'
<1>1. PICK o, f : o = op[1] /\ f = Frame("offer", o.id, o.session[1], o.tag, 0)
  OBVIOUS
<1>2. /\ op # <<>> /\ op' = <<>> /\ Send(o.epoch, f)
      /\ UNCHANGED <<roomq, control, fifo, toClient, peers, pcs>>
  BY <1>1 DEF MediaOfferSend, clientVars
<1>3. f.tag = o.tag
  BY <1>1 DEF Frame
<1>4. \A c \in Conns : \A i \in 1..Len(wire'[c]) :
           \/ i \in 1..Len(wire[c]) /\ wire'[c][i] = wire[c][i]
           \/ c = econn /\ i = Len(wire[c]) + 1 /\ wire'[c][i] = f
  BY <1>2, SendAt
<1>5. ASSUME NEW k, NEW a, NEW i, NEW g, At(k, a, i, g)'
      PROVE  \/ (k # "op" \/ a # 0) /\ At(k, a, i, g)
             \/ /\ k = "wire" /\ a = econn /\ i = Len(wire[econn]) + 1
                /\ At("op", 0, 1, g)
  <2>1. CASE k = "wire"
    BY <1>1, <1>2, <1>3, <1>4, <1>5, <2>1 DEF At, FrameBears
  <2>2. CASE k # "wire"
    BY <1>2, <1>5, <2>2 DEF At
  <2> QED
    BY <2>1, <2>2
<1>6. Moves("op", 0, "wire", econn, Len(wire[econn]) + 1)
  BY <1>5 DEF Moves
<1> QED
  BY <1>2, <1>6, TokensMove

(* Nothing but the wire or a client's frames grows, or an operation starts. *)
LEMMA RoomTaken ==
  ASSUME NEW T, Signalled(T), roomq # <<>>, roomq' = Tail(roomq),
         UNCHANGED <<control, fifo, peers>>,
         NEW k1, NEW a1, NEW i1,
         \A i, g : At("op", 0, i, g)' =>
           At("op", 0, i, g) \/ (k1 = "op" /\ a1 = 0 /\ i1 = i /\ RequestBears(Head(roomq), g)),
         \A c, i, g : At("wire", c, i, g)' =>
           At("wire", c, i, g) \/ (k1 = "wire" /\ a1 = c /\ i1 = i /\ RequestBears(Head(roomq), g)),
         \A u, i, g : At("client", u, i, g)' =>
           At("client", u, i, g) \/ (k1 = "client" /\ a1 = u /\ i1 = i /\ RequestBears(Head(roomq), g))
  PROVE  Moves("roomq", 0, k1, a1, i1)
<1>1. /\ 1 \in 1..Len(roomq) /\ Head(roomq) = roomq[1]
      /\ \A i \in 1..Len(roomq') :
            i \in Nat /\ i # 0 /\ i + 1 \in 1..Len(roomq) /\ roomq'[i] = roomq[i + 1]
  BY QueuesAre, TailAt
<1>2. \A g : RequestBears(Head(roomq), g) => At("roomq", 0, 1, g)
  BY <1>1 DEF At
<1>3. ASSUME NEW k, NEW a, NEW i, NEW g, At(k, a, i, g)'
      PROVE  \/ (k # "roomq" \/ a # 0) /\ At(k, a, i, g)
             \/ k = "roomq" /\ a = 0 /\ i \in Nat /\ i # 0 /\ At(k, a, i + 1, g)
             \/ k = k1 /\ a = a1 /\ i = i1 /\ At("roomq", 0, 1, g)
  <2>1. CASE k = "roomq"
    BY <1>1, <1>3, <2>1 DEF At
  <2>2. CASE k = "op"
    <3>1. a = 0
      BY <1>3, <2>2 DEF At
    <3> QED
      BY <1>2, <1>3, <2>2, <3>1
  <2>3. CASE k \in {"wire", "client"}
    BY <1>2, <1>3, <2>3
  <2>4. CASE k \notin {"roomq", "op", "wire", "client"}
    BY <1>3, <2>4 DEF At
  <2> QED
    BY <2>1, <2>2, <2>3, <2>4
<1> QED
  BY <1>3 DEF Moves

(* The strand of the room moves the token of its head, or drops it.        *)
LEMMA RoomTokens ==
  ASSUME NEW T, Signalled(T), Tokens, RoomStep
  PROVE  Tokens'
<1>1. PICK o : o = Head(roomq)
  OBVIOUS
<1>2. /\ op = <<>> /\ roomq # <<>> /\ roomq' = Tail(roomq)
      /\ UNCHANGED <<control, fifo, peers, pcs>>
  BY DEF RoomStep
<1>3. (op' = op => \A i, g : At("op", 0, i, g)' => At("op", 0, i, g))
      /\ (wire' = wire => \A c, i, g : At("wire", c, i, g)' => At("wire", c, i, g))
      /\ (toClient' = toClient => \A u, i, g : At("client", u, i, g)' => At("client", u, i, g))
  BY DEF At
<1>4. ASSUME NEW f, f.type \notin {"offer", "answer"}, NEW e, Send(e, f)
      PROVE  \A c, i, g : At("wire", c, i, g)' => At("wire", c, i, g)
  BY <1>4, SendAt DEF At, FrameBears
<1>5. CASE o.t = "offer" /\ MediaOffer(o)
  <2>1. wire' = wire /\ toClient' = toClient
    BY <1>5 DEF MediaOffer
  <2>2. op' = op \/ \E x : x.tag = o.tag /\ op' = <<x>>
    BY <1>5 DEF MediaOffer
  <2>3. \A i, g : At("op", 0, i, g)' =>
           At("op", 0, i, g) \/ (i = 1 /\ RequestBears(o, g))
    BY <1>5, <2>2 DEF At, RequestBears
  <2>4. Moves("roomq", 0, "op", 0, 1)
    BY <1>1, <1>2, <1>3, <2>1, <2>3, RoomTaken
  <2> QED
    BY <1>2, <2>4, TokensMove
<1>6. CASE o.t \in {"answer", "candidate"} /\ Relay(o)
  <2>1. op' = op /\ toClient' = toClient
    BY <1>6 DEF Relay
  <2>2. \A c, i, g : At("wire", c, i, g)' =>
           At("wire", c, i, g) \/ (c = econn /\ i = Len(wire[econn]) + 1 /\ RequestBears(o, g))
    <3>1. CASE wire' = wire
      BY <1>3, <3>1
    <3>2. CASE wire' # wire
      <4>1. PICK e, f : Send(e, f) /\ f = Frame(o.t, sig[o.session], o.session[1], o.tag, o.re)
        BY <1>6, <3>2 DEF Relay
      <4>2. f.type = o.t /\ f.tag = o.tag
        BY <4>1 DEF Frame
      <4>3. \A c \in Conns : \A i \in 1..Len(wire'[c]) :
               \/ i \in 1..Len(wire[c]) /\ wire'[c][i] = wire[c][i]
               \/ c = econn /\ i = Len(wire[c]) + 1 /\ wire'[c][i] = f
        BY <4>1, SendAt
      <4> QED
        BY <1>6, <4>2, <4>3 DEF At, FrameBears, RequestBears
    <3> QED
      BY <3>1, <3>2
  <2>3. Moves("roomq", 0, "wire", econn, Len(wire[econn]) + 1)
    BY <1>1, <1>2, <1>3, <2>1, <2>2, RoomTaken
  <2> QED
    BY <1>2, <2>3, TokensMove
<1>7. CASE Release(o) \/ (o.t = "join" /\ JoinMeeting(o))
  <2>1. op' = op
    BY <1>7 DEF Release, JoinMeeting
  <2>2. wire' = wire \/ \E e, f : Send(e, f) /\ f.type = "leave"
    BY <1>7 DEF Release, JoinMeeting, ReleaseMediaSession, Frame
  <2>3. \A c, i, g : At("wire", c, i, g)' => At("wire", c, i, g)
    BY <1>3, <1>4, <2>2
  <2>4. \A u, i, g : At("client", u, i, g)' => At("client", u, i, g)
    <3>1. CASE toClient' = toClient
      BY <1>3, <3>1
    <3>2. CASE toClient' # toClient
      <4>1. PICK v, m : m = [type |-> "joined", tag |-> 0]
                        /\ toClient' = [toClient EXCEPT ![v] = Append(@, m)]
        BY <1>7, <3>2 DEF Release, JoinMeeting
      <4>2. \A u \in Users : u # v => toClient'[u] = toClient[u]
        BY <4>1, QueuesAre
      <4>3. ASSUME v \in Users
            PROVE  \A i \in 1..Len(toClient'[v]) :
                     \/ i \in 1..Len(toClient[v]) /\ toClient'[v][i] = toClient[v][i]
                     \/ i = Len(toClient[v]) + 1 /\ toClient'[v][i] = m
        <5>1. toClient'[v] = Append(toClient[v], m)
          BY <4>1, <4>3, QueuesAre
        <5> QED
          BY <4>3, <5>1, QueuesAre, AppendAt
      <4>4. m.type = "joined"
        BY <4>1
      <4>5. ASSUME NEW u, NEW i, NEW g, At("client", u, i, g)' PROVE At("client", u, i, g)
        <5>1. CASE u = v
          BY <4>3, <4>4, <4>5, <5>1 DEF At, OfferBears
        <5>2. CASE u # v
          BY <4>2, <4>5, <5>2 DEF At
        <5> QED
          BY <5>1, <5>2
      <4> QED
        BY <4>5
    <3> QED
      BY <3>1, <3>2
  <2>5. Moves("roomq", 0, "none", 0, 0)
    BY <1>1, <1>2, <1>3, <2>1, <2>3, <2>4, RoomTaken
  <2> QED
    BY <1>2, <2>5, TokensMove
<1>8. CASE o.t = "response" /\ MediaResponse(o)
  <2>1. op' = op /\ wire' = wire
    BY <1>8 DEF MediaResponse
  <2>2. CASE toClient' = toClient
    <3>1. Moves("roomq", 0, "none", 0, 0)
      BY <1>1, <1>2, <1>3, <2>1, <2>2, RoomTaken
    <3> QED
      BY <1>2, <3>1, TokensMove
  <2>3. CASE toClient' # toClient
    <3>1. PICK v : toClient' = [toClient EXCEPT ![v] = Append(@, o.m)]
      BY <1>8, <2>3 DEF MediaResponse
    <3>2. \A u \in Users : u # v => toClient'[u] = toClient[u]
      BY <3>1, QueuesAre
    <3>3. ASSUME v \in Users
          PROVE  \A i \in 1..Len(toClient'[v]) :
                   \/ i \in 1..Len(toClient[v]) /\ toClient'[v][i] = toClient[v][i]
                   \/ i = Len(toClient[v]) + 1 /\ toClient'[v][i] = o.m
      <4>1. toClient'[v] = Append(toClient[v], o.m)
        BY <3>1, <3>3, QueuesAre
      <4> QED
        BY <3>3, <4>1, QueuesAre, AppendAt
    <3>4. ASSUME NEW u, NEW i, NEW g, At("client", u, i, g)'
          PROVE  At("client", u, i, g)
                 \/ (u = v /\ i = Len(toClient[v]) + 1 /\ RequestBears(o, g))
      <4>1. CASE u = v
        BY <1>8, <3>3, <3>4, <4>1 DEF At, RequestBears
      <4>2. CASE u # v
        BY <3>2, <3>4, <4>2 DEF At
      <4> QED
        BY <4>1, <4>2
    <3>5. Moves("roomq", 0, "client", v, Len(toClient[v]) + 1)
      BY <1>1, <1>2, <1>3, <2>1, <3>4, RoomTaken
    <3> QED
      BY <1>2, <3>5, TokensMove
  <2> QED
    BY <2>2, <2>3
<1>9. CASE MediaRefused(o)
  <2>1. op' = op /\ wire' = wire /\ toClient' = toClient
    BY <1>9 DEF MediaRefused
  <2>2. Moves("roomq", 0, "none", 0, 0)
    BY <1>1, <1>2, <1>3, <2>1, RoomTaken
  <2> QED
    BY <1>2, <2>2, TokensMove
<1> QED
  BY <1>1, <1>5, <1>6, <1>7, <1>8, <1>9 DEF RoomStep, MediaAnswer, MediaCandidate

(* The clients                                                             *)
LEMMA RequestAt ==
  ASSUME NEW T, Signalled(T), NEW o, roomq' = Append(roomq, o)
  PROVE  \A i \in 1..Len(roomq') :
           (i \in 1..Len(roomq) /\ roomq'[i] = roomq[i]) \/ (i = Len(roomq) + 1 /\ roomq'[i] = o)
BY QueuesAre, AppendAt

(* A new PeerConnection makes a token: its offer has a new tag.            *)
LEMMA OpenTokens ==
  ASSUME NEW T, Signalled(T), Tokens, NEW u \in Users, OpenCamera(u)
  PROVE  Tokens'
<1>1. PICK o : o = Request("offer", u, pcs + 1, 0)
  OBVIOUS
<1>2. /\ roomq' = Append(roomq, o) /\ pcs' = pcs + 1
      /\ UNCHANGED <<op, wire, control, fifo, peers, toClient>>
  BY <1>1 DEF OpenCamera, StartMediaSession, mediaVars, signalVars
<1>3. o.t = "offer" /\ o.tag = pcs + 1
  BY <1>1 DEF Request
<1>4. Makes("roomq", 0, Len(roomq) + 1)
  BY <1>2, <1>3, RequestAt DEF Makes, At, RequestBears
<1> QED
  BY <1>2, <1>4, QueuesAre, TokenMade

(* A request that is no description.                                       *)
LEMMA AskTokens ==
  ASSUME NEW T, Signalled(T), Tokens, NEW o, o.t \notin {"offer", "answer", "response"},
         roomq' = Append(roomq, o),
         UNCHANGED <<op, wire, control, fifo, peers, toClient, pcs>>
  PROVE  Tokens'
<1>1. \A k, a, i, g : At(k, a, i, g)' => At(k, a, i, g)
  BY RequestAt DEF At, RequestBears
<1> QED
  BY <1>1, TokensStay

(* A client turns the offer it reads into the answer it sends.             *)
LEMMA ReceiveTokens ==
  ASSUME NEW T, Signalled(T), Tokens, NEW u \in Users, ClientReceive(u)
  PROVE  Tokens'
<1>1. PICK m : m = Head(toClient[u])
  OBVIOUS
<1>2. /\ toClient[u] # <<>> /\ toClient' = [toClient EXCEPT ![u] = Tail(@)]
      /\ UNCHANGED <<op, wire, control, fifo, peers, pcs, pc>>
  BY DEF ClientReceive, mediaVars, signalVars
<1>3. PICK q : q = Tail(toClient[u])
  OBVIOUS
<1>4. /\ 1 \in 1..Len(toClient[u]) /\ m = toClient[u][1]
      /\ \A i \in 1..Len(q) :
            i \in Nat /\ i # 0 /\ i + 1 \in 1..Len(toClient[u]) /\ q[i] = toClient[u][i + 1]
  BY <1>1, <1>2, <1>3, QueuesAre, TailAt
<1>5. \A v \in Users : toClient'[v] = IF v = u THEN q ELSE toClient[v]
  BY <1>2, <1>3, QueuesAre
<1>6. \/ roomq' = roomq
      \/ \E o : /\ m.type = "offer" /\ o.t = "answer" /\ o.tag = pc[u] /\ pc[u] # 0
                /\ roomq' = Append(roomq, o)
  BY <1>1 DEF ClientReceive, ApplyMediaAnswer, ApplyMediaOffer, ApplyMediaCandidate, Request
<1>7. pc[u] # 0 => m.tag = pc[u]
  BY <1>4 DEF Signalled, ClientsOK, UserIs, UserOK, Publishing
<1>8. \A i \in 1..Len(roomq') :
        \/ i \in 1..Len(roomq) /\ roomq'[i] = roomq[i]
        \/ /\ i = Len(roomq) + 1 /\ m.type = "offer"
           /\ roomq'[i].t = "answer" /\ roomq'[i].tag = m.tag
  <2>1. CASE roomq' = roomq
    BY <2>1
  <2>2. CASE roomq' # roomq
    <3>1. PICK o : /\ m.type = "offer" /\ o.t = "answer" /\ o.tag = m.tag
                   /\ roomq' = Append(roomq, o)
      BY <1>6, <1>7, <2>2
    <3>2. \A i \in 1..Len(roomq') : (i \in 1..Len(roomq) /\ roomq'[i] = roomq[i])
                                    \/ (i = Len(roomq) + 1 /\ roomq'[i] = o)
      BY <3>1, RequestAt
    <3> QED
      BY <3>1, <3>2
  <2> QED
    BY <2>1, <2>2
<1>9. ASSUME NEW k, NEW a, NEW i, NEW g, At(k, a, i, g)'
      PROVE  \/ (k # "client" \/ a # u) /\ At(k, a, i, g)
             \/ k = "client" /\ a = u /\ i \in Nat /\ i # 0 /\ At(k, a, i + 1, g)
             \/ k = "roomq" /\ a = 0 /\ i = Len(roomq) + 1 /\ At("client", u, 1, g)
  <2>1. CASE k = "client"
    BY <1>4, <1>5, <1>9, <2>1 DEF At
  <2>2. CASE k = "roomq"
    BY <1>4, <1>8, <1>9, <2>2 DEF At, RequestBears, OfferBears
  <2>3. CASE k \notin {"client", "roomq"}
    BY <1>2, <1>9, <2>3 DEF At
  <2> QED
    BY <2>1, <2>2, <2>3
<1>10. Moves("client", u, "roomq", 0, Len(roomq) + 1)
  BY <1>9 DEF Moves
<1> QED
  BY <1>2, <1>10, TokensMove

(* A client that is lost takes its tokens with it.                         *)
LEMMA LoseTokens ==
  ASSUME NEW T, Signalled(T), Tokens, NEW u \in Users, LoseConnection(u)
  PROVE  Tokens'
<1>1. /\ toClient' = [toClient EXCEPT ![u] = <<>>]
      /\ UNCHANGED <<op, wire, control, fifo, peers, pcs>>
  BY DEF LoseConnection, mediaVars, signalVars
<1>2. PICK r, s : /\ r.t \notin {"offer", "answer", "response"}
                  /\ s.t \notin {"offer", "answer", "response"} /\ roomq' = roomq \o <<r, s>>
  BY DEF LoseConnection, Request
<1>3. PICK q : q = <<r, s>>
  OBVIOUS
<1>4. IsSeq(q) /\ Len(q) = 2 /\ \A i \in 1..2 : q[i] \in {r, s}
  <2>1. q \in Seq({r, s}) /\ Len(q) = 2
    BY <1>3
  <2>2. \A i \in 1..2 : q[i] \in {r, s}
    BY <1>3
  <2> QED
    BY <2>1, <2>2 DEF IsSeq
<1>5. /\ Len(roomq) \in Nat /\ Len(roomq \o q) = Len(roomq) + 2
      /\ \A i \in 1..Len(roomq) : (roomq \o q)[i] = roomq[i]
      /\ \A i \in 1..2 : (roomq \o q)[Len(roomq) + i] \in {r, s}
  <2>1. IsSeq(roomq) /\ IsSeq(q)
    BY <1>4, QueuesAre
  <2>2. /\ Len(roomq) \in Nat /\ Len(roomq \o q) = Len(roomq) + Len(q)
        /\ \A i \in 1..Len(roomq) : (roomq \o q)[i] = roomq[i]
        /\ \A i \in 1..Len(q) : (roomq \o q)[Len(roomq) + i] = q[i]
    BY <2>1, ConcatIs
  <2> QED
    BY <1>4, <2>2
<1>6. \A i \in 1..Len(roomq') :
        \/ i \in 1..Len(roomq) /\ roomq'[i] = roomq[i]
        \/ roomq'[i].t \notin {"offer", "answer", "response"}
  <2>1. PICK w, n : w = roomq \o q /\ n = Len(roomq)
    OBVIOUS
  <2>2. /\ n \in Nat /\ Len(w) = n + 2 /\ \A i \in 1..n : w[i] = roomq[i]
        /\ \A i \in 1..2 : w[n + i] \in {r, s}
    BY <1>5, <2>1
  <2>3. \A i \in 1..(n + 2) : i \in 1..n \/ i = n + 1 \/ i = n + 2
    BY <2>2
  <2>4. w[n + 1] \in {r, s} /\ w[n + 2] \in {r, s}
    BY <2>2
  <2>5. \A i \in 1..Len(w) : (i \in 1..n /\ w[i] = roomq[i]) \/ w[i] \in {r, s}
    BY <2>2, <2>3, <2>4
  <2> QED
    BY <1>2, <1>3, <2>1, <2>5
<1>7. \A v \in Users : \A i \in 1..Len(toClient'[v]) :
         i \in 1..Len(toClient[v]) /\ toClient'[v][i] = toClient[v][i]
  <2>1. \A v \in Users : toClient'[v] = IF v = u THEN <<>> ELSE toClient[v]
    BY <1>1, QueuesAre
  <2> QED
    BY <2>1, EmptyIs
<1>8. \A k, a, i, g : At(k, a, i, g)' => At(k, a, i, g)
  BY <1>1, <1>6, <1>7 DEF At, RequestBears
<1> QED
  BY <1>1, <1>8, TokensStay

(* RealtimeServer's restart takes the tokens of its queues with it.        *)
LEMMA RealtimeTokens ==
  ASSUME NEW T, Signalled(T), Tokens, RealtimeRestart
  PROVE  Tokens'
<1>1. /\ op' = <<>> /\ control' = <<>> /\ toClient' = [u \in Users |-> <<>>]
      /\ UNCHANGED <<fifo, peers, pcs>>
  BY DEF RealtimeRestart
<1>2. \A i \in DOMAIN roomq' : roomq'[i].t = "join"
  BY DEF RealtimeRestart
<1>3. \A i \in 1..Len(roomq') : roomq'[i].t = "join"
  <2>1. Len(SetToSeq(Users)) \in Nat
    BY MediaBounds, OrderIs
  <2>2. PICK n, q : n = Len(SetToSeq(Users)) /\ q = roomq'
    OBVIOUS
  <2>3. DOMAIN q = 1..n
    BY <2>2 DEF RealtimeRestart
  <2>4. PICK S : S = {q[i] : i \in 1..n}
    OBVIOUS
  <2>5. q \in [1..n -> S]
    <3>1. q = [i \in 1..n |-> q[i]]
      BY <2>2, <2>3 DEF RealtimeRestart
    <3> QED
      BY <2>4, <3>1
  <2>6. Len(q) = n
    BY <2>1, <2>2, <2>5, LiteralIs
  <2> QED
    BY <1>2, <2>2, <2>3, <2>6
<1>4. \A b \in Conns : \A i \in 1..Len(wire'[b]) :
         i \in 1..Len(wire[b]) /\ wire'[b][i] = wire[b][i]
  <2>1. CASE econn = 0
    BY <2>1 DEF RealtimeRestart
  <2>2. CASE econn # 0
    <3>1. PICK q \in Cut(wire[econn]) : wire' = [wire EXCEPT ![econn] = q]
      BY <2>2 DEF RealtimeRestart
    <3>2. econn \in Conns
      BY <2>2, ConnectedIs DEF Signalled
    <3> QED
      BY <3>1, <3>2, CutAt
  <2> QED
    BY <2>1, <2>2
<1>5. \A k, a, i, g : At(k, a, i, g)' => At(k, a, i, g)
  <2>1. TAKE k, a, i, g
  <2>2. HAVE At(k, a, i, g)'
  <2>3. CASE k = "roomq"
    BY <1>3, <2>2, <2>3 DEF At, RequestBears
  <2>4. CASE k \in {"op", "control", "client"}
    BY <1>1, <2>2, <2>4, EmptyIs DEF At
  <2>5. CASE k = "wire"
    BY <1>4, <2>2, <2>5 DEF At
  <2>6. CASE k \notin {"roomq", "op", "control", "client", "wire"}
    BY <1>1, <2>2, <2>6 DEF At
  <2> QED
    BY <2>3, <2>4, <2>5, <2>6
<1> QED
  BY <1>1, <1>5, TokensStay

(* MediaServer's connections *)
LEMMA AcceptTokens == ASSUME Tokens, Accept, UNCHANGED realtimeVars PROVE Tokens'
<1>1. UNCHANGED <<roomq, op, wire, control, fifo, toClient, peers, pcs>>
  BY DEF Accept, realtimeVars, signalVars, clientVars
<1>2. \A k, a, i, g : At(k, a, i, g)' => At(k, a, i, g)
  BY <1>1 DEF At
<1> QED
  BY <1>1, <1>2, TokensStay

(* A frame that MediaServer reads goes from the wire to the FIFO.          *)
LEMMA ReadTokens ==
  ASSUME NEW T, Signalled(T), Tokens, HandleRead, UNCHANGED realtimeVars
  PROVE  Tokens'
<1>1. UNCHANGED <<roomq, op, control, toClient, peers, pcs>>
  BY DEF HandleRead, realtimeVars, signalVars, clientVars
<1>2. serving \in Conns /\ wire[serving] # <<>>
  BY ConnectedIs DEF HandleRead, Signalled, Connected
<1>3. PICK c, m : c = serving /\ m = Head(wire[serving])
  OBVIOUS
<1>4. PICK e : e = [t |-> "signal", conn |-> serving, type |-> m.type, sig |-> m.sig,
                    uid |-> m.uid, tag |-> m.tag, re |-> m.re]
  OBVIOUS
<1>5. fifo' = Append(fifo, e) /\ wire' = [wire EXCEPT ![c] = Tail(@)]
  BY <1>3, <1>4 DEF HandleRead
<1>6. \A g : EventBears(e, g) => FrameBears(m, g)
  BY <1>4 DEF EventBears, FrameBears, LocalOffer
<1>7. PICK q : q = Tail(wire[c])
  OBVIOUS
<1>8. /\ 1 \in 1..Len(wire[c]) /\ m = wire[c][1]
      /\ \A i \in 1..Len(q) :
            i \in Nat /\ i # 0 /\ i + 1 \in 1..Len(wire[c]) /\ q[i] = wire[c][i + 1]
  BY <1>2, <1>3, <1>7, QueuesAre, TailAt
<1>9. \A b \in Conns : wire'[b] = IF b = c THEN q ELSE wire[b]
  BY <1>5, <1>7, QueuesAre
<1>10. \A i \in 1..Len(fifo') :
          (i \in 1..Len(fifo) /\ fifo'[i] = fifo[i]) \/ (i = Len(fifo) + 1 /\ fifo'[i] = e)
  BY <1>5, QueuesAre, AppendAt
<1>11. ASSUME NEW k, NEW a, NEW i, NEW g, At(k, a, i, g)'
       PROVE  \/ (k # "wire" \/ a # c) /\ At(k, a, i, g)
              \/ k = "wire" /\ a = c /\ i \in Nat /\ i # 0 /\ At(k, a, i + 1, g)
              \/ k = "fifo" /\ a = 0 /\ i = Len(fifo) + 1 /\ At("wire", c, 1, g)
  <2>1. CASE k = "wire"
    BY <1>8, <1>9, <1>11, <2>1 DEF At
  <2>2. CASE k = "fifo"
    <3>1. At("wire", c, 1, g) <=> FrameBears(m, g)
      BY <1>2, <1>3, <1>8 DEF At
    <3> QED
      BY <1>6, <1>10, <1>11, <2>2, <3>1 DEF At
  <2>3. CASE k \notin {"wire", "fifo"}
    BY <1>1, <1>11, <2>3 DEF At
  <2> QED
    BY <2>1, <2>2, <2>3
<1>12. Moves("wire", c, "fifo", 0, Len(fifo) + 1)
  BY <1>11 DEF Moves
<1> QED
  BY <1>1, <1>12, TokensMove

(* Events that carry no description. *)
LEMMA FifoAt ==
  ASSUME NEW T, Signalled(T), NEW e, \A g : ~EventBears(e, g),
         fifo' = fifo \/ fifo' = Append(fifo, e)
  PROVE  \A i, g : At("fifo", 0, i, g)' => At("fifo", 0, i, g)
<1>1. CASE fifo' = fifo
  BY <1>1 DEF At
<1>2. CASE fifo' = Append(fifo, e)
  <2>1. \A i \in 1..Len(fifo') :
          (i \in 1..Len(fifo) /\ fifo'[i] = fifo[i]) \/ (i = Len(fifo) + 1 /\ fifo'[i] = e)
    BY <1>2, QueuesAre, AppendAt
  <2> QED
    BY <2>1 DEF At
<1> QED
  BY <1>1, <1>2

(* The end of a connection makes no token.                                 *)
LEMMA EndTokens ==
  ASSUME NEW T, Signalled(T), Tokens, NEW ended, EndConnection(ended), UNCHANGED realtimeVars
  PROVE  Tokens'
<1>1. UNCHANGED <<roomq, op, control, toClient, peers, pcs>>
  BY DEF EndConnection, realtimeVars, signalVars, clientVars
<1>2. serving \in Conns
  BY ConnectedIs DEF EndConnection, Signalled, Connected
<1>3. PICK e : e = [t |-> "gone", conn |-> serving]
  OBVIOUS
<1>4. \A g : ~EventBears(e, g)
  BY <1>3 DEF EventBears, LocalOffer
<1>5. \A i, g : At("fifo", 0, i, g)' => At("fifo", 0, i, g)
  <2>1. fifo' = fifo \/ fifo' = Append(fifo, e)
    BY <1>3 DEF EndConnection
  <2> QED
    BY <1>4, <2>1, FifoAt
<1>6. \A b \in Conns : \A i \in 1..Len(wire'[b]) :
           i \in 1..Len(wire[b]) /\ wire'[b][i] = wire[b][i]
  BY <1>2, CutAt DEF EndConnection
<1>7. ASSUME NEW k, NEW a, NEW i, NEW g, At(k, a, i, g)' PROVE At(k, a, i, g)
  <2>1. CASE k = "fifo"
    <3>1. a = 0
      BY <1>7, <2>1 DEF At
    <3> QED
      BY <1>5, <1>7, <2>1, <3>1
  <2>2. CASE k = "wire"
    BY <1>6, <1>7, <2>2 DEF At
  <2>3. CASE k \notin {"wire", "fifo"}
    BY <1>1, <1>7, <2>3 DEF At
  <2> QED
    BY <2>1, <2>2, <2>3
<1> QED
  BY <1>1, <1>7, TokensStay

(* MediaServer's socket steps make no token.                               *)
LEMMA ServerTokens ==
  ASSUME NEW T, Signalled(T), Tokens, ServerStep
  PROVE  Tokens'
<1>1. UNCHANGED realtimeVars
  BY DEF ServerStep
<1> QED
  BY <1>1, AcceptTokens, ReadTokens, EndTokens DEF ServerStep

(* A candidate is no token.                                                *)
LEMMA CandidateTokens ==
  ASSUME NEW T, Signalled(T), Tokens, ServerCandidate
  PROVE  Tokens'
<1>1. PICK u \in Users : LocalCandidate(u)
  BY DEF ServerCandidate
<1>2. UNCHANGED <<roomq, op, wire, control, toClient, peers, pcs>>
  BY <1>1 DEF ServerCandidate, LocalCandidate, realtimeVars, signalVars, clientVars
<1>3. PICK e : e = LocalSignal(u, peers[u], "candidate")
  OBVIOUS
<1>4. \A g : ~EventBears(e, g)
  BY <1>3 DEF EventBears, LocalOffer, LocalSignal
<1>5. \A i, g : At("fifo", 0, i, g)' => At("fifo", 0, i, g)
  BY <1>1, <1>3, <1>4, FifoAt DEF LocalCandidate
<1>6. ASSUME NEW k, NEW a, NEW i, NEW g, At(k, a, i, g)' PROVE At(k, a, i, g)
  <2>1. CASE k = "fifo"
    <3>1. a = 0
      BY <1>6, <2>1 DEF At
    <3> QED
      BY <1>5, <1>6, <2>1, <3>1
  <2>2. CASE k # "fifo"
    BY <1>2, <1>6, <2>2 DEF At
  <2> QED
    BY <2>1, <2>2
<1> QED
  BY <1>2, <1>6, TokensStay

(* MediaServer's restart takes the tokens of its queues with it.           *)
LEMMA RestartTokens ==
  ASSUME NEW T, Signalled(T), Tokens, Restart
  PROVE  Tokens'
<1>1. UNCHANGED <<roomq, op, control, toClient, pcs>>
  BY DEF Restart, MediaRestart, realtimeVars, signalVars, clientVars
<1>2. fifo' = <<>> /\ peers' = [u \in Users |-> NoPeer] /\ wire' = [c \in Conns |-> <<>>]
  BY DEF Restart, MediaRestart
<1>3. ASSUME NEW k, NEW a, NEW i, NEW g, At(k, a, i, g)' PROVE At(k, a, i, g)
  <2>1. CASE k \in {"fifo", "wire", "peer"}
    BY <1>2, <1>3, <2>1, EmptyIs DEF At
  <2>2. CASE k \notin {"fifo", "wire", "peer"}
    BY <1>1, <1>3, <2>2 DEF At
  <2> QED
    BY <2>1, <2>2
<1> QED
  BY <1>1, <1>3, TokensStay

(* A step that leaves the queues and the peers alone moves no token.       *)
LEMMA NothingTokens ==
  ASSUME Tokens, UNCHANGED vars \/ RtpStep
  PROVE  Tokens'
<1>1. UNCHANGED <<roomq, op, wire, control, fifo, toClient, peers, pcs>>
  BY DEF vars, mediaVars, signalVars, clientVars, RtpStep, ForwardRtp, ForwardTo, realtimeVars
<1>2. \A k, a, i, g : At(k, a, i, g)' => At(k, a, i, g)
  BY <1>1 DEF At
<1> QED
  BY <1>1, <1>2, TokensStay

(* A description has the tag that its signal id stands for: of the current *)
(* connection by T, of an earlier one by R.                                *)
Described(m) == m.type \in {"offer", "answer"}

Mark(c, m, T, R) ==
  m.sig \in Nat /\ IF c = econn THEN Tagged(m, T) ELSE m.tag = R[<<c, m.sig>>]

Marked(T, R) ==
  /\ \A c \in Conns : \A i \in 1..Len(wire[c]) :
       Described(wire[c][i]) => Mark(c, wire[c][i], T, R)
  /\ \A i \in 1..Len(fifo) :
       fifo[i].t = "signal" /\ Described(fifo[i]) => Mark(fifo[i].conn, fifo[i], T, R)
  /\ \A u \in Users : peers[u] # NoPeer => Mark(peers[u].conn, peers[u], T, R)

(* A description that finds its session has the tag of the session.        *)
LEMMA AddressedTag ==
  ASSUME NEW T, Signalled(T), NEW R, Marked(T, R), fifo # <<>>, NEW e, e = Head(fifo),
         e.t = "signal", Described(e), Addressed(e)
  PROVE  e.uid \in Users /\ peers[e.uid] # NoPeer /\ peers[e.uid].tag = e.tag
<1>1. 1 \in 1..Len(fifo) /\ e = fifo[1]
  BY QueuesAre, TailAt
<1>2. e.uid \in Users
  BY <1>1 DEF Signalled, MediaOK, EventsOK, EventOK
<1>3. PICK p : p = peers[e.uid]
  OBVIOUS
<1>4. p # NoPeer /\ p.sig = e.sig /\ p.conn = e.conn
  BY <1>3 DEF Addressed
<1>5. Mark(e.conn, e, T, R) /\ Mark(p.conn, p, T, R)
  BY <1>1, <1>2, <1>3, <1>4 DEF Marked
<1>6. p.tag = e.tag
  BY <1>4, <1>5 DEF Mark, Tagged
<1> QED
  BY <1>2, <1>3, <1>4, <1>6

(* The token of the event that the worker takes is nowhere else.           *)
LEMMA HeadToken ==
  ASSUME NEW T, Signalled(T), Tokens, fifo # <<>>, NEW e, e = Head(fifo),
         NEW g, EventBears(e, g)
  PROVE  /\ \A k, a, i : At(k, a, i, g) => k = "fifo" /\ a = 0 /\ i = 1
         /\ ~Borne(Tables, g)
<1>1. 1 \in 1..Len(fifo) /\ e = fifo[1]
  BY QueuesAre, TailAt
<1>2. At("fifo", 0, 1, g)
  BY <1>1 DEF At
<1>3. \A k, a, i : At(k, a, i, g) => k = "fifo" /\ a = 0 /\ i = 1
  BY <1>2 DEF Tokens, OneToken
<1>4. \A k, a, i : Bears(Tables, k, a, i, g) => At("peer", a, 0, g)
  BY EmptyIs DEF Bears, Tables, At
<1> QED
  BY <1>3, <1>4 DEF Borne

(* The tables of MediaServer have the shape of an outcome.                 *)
LEMMA TablesShaped ==
  ASSUME NEW T, Signalled(T), Tokens
  PROVE  /\ Shaped(Tables) /\ Notices(Tables.post) /\ Alone(Tables)
         /\ Tables.peers = peers
<1>1. Tables.peers = peers /\ Tables.post = <<>> /\ DOMAIN Tables = TableFields
  BY DEF Tables, TableFields
<1>2. Shaped(Tables)
  BY <1>1, EmptyIs DEF Shaped, Signalled, MediaOK, PeersOK, PeerRec
<1>3. Notices(Tables.post)
  BY <1>1, EmptyIs DEF Notices
<1>4. \A g, k, a, i : Bears(Tables, k, a, i, g) => k = "peer" /\ i = 0 /\ At("peer", a, 0, g)
  BY <1>1, EmptyIs DEF Bears, At
<1>5. Alone(Tables)
  BY <1>4 DEF Alone, Tokens, OneToken
<1> QED
  BY <1>1, <1>2, <1>3, <1>5

(* What the room's tables are after the event e.                           *)
FreshPeer(u, p, e) ==
  /\ e.uid = u /\ e.t = "signal" /\ e.type = "offer"
  /\ p.sig = e.sig /\ p.conn = e.conn /\ p.tag = e.tag

Outcome(t, e) ==
  /\ Shaped(t) /\ Notices(t.post) /\ Alone(t)
  /\ \A g : Borne(t, g) => Borne(Tables, g) \/ EventBears(e, g)
  /\ \A u \in Users : t.peers[u] # NoPeer =>
       (peers[u] # NoPeer /\ Same(t.peers[u], peers[u])) \/ FreshPeer(u, t.peers[u], e)

(* What an outcome bears follows from the tables.                          *)
LEMMA OutcomeFollows ==
  ASSUME NEW T, Signalled(T), Tokens, NEW e, NEW t,
         Follows(t, Tables) \/ \E g : EventBears(e, g) /\ FollowsWith(t, Tables, g)
  PROVE  Outcome(t, e)
BY TablesShaped DEF Outcome, Follows, FollowsWith, Kin

(* An operation on an outcome gives an outcome.                            *)
LEMMA OutcomeChain ==
  ASSUME NEW e, NEW t, NEW t0, Outcome(t0, e),
         Follows(t, t0) \/ \E g : EventBears(e, g) /\ FollowsWith(t, t0, g)
  PROVE  Outcome(t, e)
<1>1. Shaped(t) /\ Notices(t.post) /\ Alone(t) /\ Kin(t, t0)
  BY DEF Outcome, Follows, FollowsWith
<1>2. \A h : Borne(t, h) => Borne(t0, h) \/ EventBears(e, h)
  BY DEF Follows, FollowsWith
<1>3. ASSUME NEW u \in Users, t.peers[u] # NoPeer
      PROVE  (peers[u] # NoPeer /\ Same(t.peers[u], peers[u])) \/ FreshPeer(u, t.peers[u], e)
  <2>1. t0.peers[u] # NoPeer /\ Same(t.peers[u], t0.peers[u])
    BY <1>1, <1>3 DEF Kin
  <2>2. PICK p, q : p = t.peers[u] /\ q = t0.peers[u]
    OBVIOUS
  <2>3. (peers[u] # NoPeer /\ Same(q, peers[u])) \/ FreshPeer(u, q, e)
    BY <2>1, <2>2 DEF Outcome
  <2> QED
    BY <2>1, <2>2, <2>3 DEF Same, FreshPeer
<1> QED
  BY <1>1, <1>2, <1>3 DEF Outcome

(* The tables after an offer, whose token the new session takes.           *)
LEMMA OfferOutcome ==
  ASSUME NEW T, Signalled(T), Tokens, NEW R, Marked(T, R), fifo # <<>>,
         NEW e, e = Head(fifo), e.t = "signal", e.type = "offer",
         NEW throws, HandleOffer(e, throws)
  PROVE  \E t : Outcome(t, e) /\ Finish(t)
<1>1. PICK u, g : u = e.uid /\ g = e.tag
  OBVIOUS
<1>2. 1 \in 1..Len(fifo) /\ e = fifo[1]
  BY QueuesAre, TailAt
<1>3. u \in Users
  BY <1>1, <1>2 DEF Signalled, MediaOK, EventsOK, EventOK
<1>4. EventBears(e, g) /\ ~Borne(Tables, g)
  <2>1. EventBears(e, g)
    BY <1>1 DEF EventBears, FrameBears
  <2> QED
    BY <2>1, HeadToken
<1>5. PICK fresh : fresh = NewPeer(Len(born) + 1, e.sig, e.conn, e.tag)
  OBVIOUS
<1>6. /\ DOMAIN fresh = PeerFields /\ fresh.tag = g /\ ~fresh.waiting /\ ~fresh.pending
      /\ FreshPeer(u, fresh, e)
  BY <1>1, <1>5 DEF NewPeer, PeerFields, FreshPeer
<1>7. PICK clean : clean = IF peers[u] = NoPeer \/ Addressed(e) THEN Tables
                           ELSE RemovePeer(Tables, u, peers[u].inst)
  OBVIOUS
<1>8. Follows(clean, Tables) /\ Shaped(clean)
  <2>1. Follows(clean, Tables)
    BY <1>7, TablesShaped, FollowsSelf, RemovePeerFollows
  <2> QED
    BY <2>1 DEF Follows
<1>9. PICK made : made = IF Addressed(e) THEN clean ELSE [clean EXCEPT !.peers[u] = fresh]
  OBVIOUS
<1>10. PICK t : t = IF throws THEN RemovePeer(made, u, made.peers[u].inst)
                    ELSE SetRemoteOffer(made, u)
  OBVIOUS
<1>11. ASSUME Addressed(e) PROVE Outcome(t, e)
  <2>1. made = Tables
    BY <1>7, <1>9, <1>11
  <2>2. made.peers[u] # NoPeer /\ made.peers[u].tag = g
    BY <1>1, <1>11, <2>1, AddressedTag, TablesShaped DEF Described
  <2>3. Solitary(made, u) /\ Shaped(made)
    BY <1>4, <2>1, <2>2, TablesShaped DEF Solitary, Borne
  <2>4. Follows(t, made) \/ FollowsWith(t, made, g)
    BY <1>3, <1>10, <2>2, <2>3, RemovePeerFollows, SetRemoteOfferFollows
  <2> QED
    BY <1>4, <2>1, <2>4, OutcomeFollows
<1>12. ASSUME ~Addressed(e) PROVE Outcome(t, e)
  <2>1. /\ DOMAIN made = TableFields /\ made.post = clean.post
        /\ made.peers = [clean.peers EXCEPT ![u] = fresh]
    BY <1>8, <1>9, <1>12 DEF Shaped, TableFields
  <2>2. made.peers[u] = fresh /\ DOMAIN made.peers = Users
        /\ \A v \in Users : v # u => made.peers[v] = clean.peers[v]
    BY <1>3, <1>8, <2>1 DEF Shaped
  <2>3. Shaped(made)
    BY <1>6, <1>8, <2>1, <2>2 DEF Shaped
  <2>4. SUFFICES ASSUME NEW q, q = made \/ Posted(q, made, u) PROVE Outcome(q, e)
    <3>1. CASE throws
      <4>1. Outcome(made, e)
        BY <2>4
      <4> QED
        BY <1>10, <2>3, <3>1, <4>1, RemovePeerFollows, OutcomeChain
    <3>2. CASE ~throws
      <4>1. PICK q : Posted(q, made, u)
        BY <1>3, <1>6, <2>2, <2>3, AnswerPosted
      <4>2. t = q
        BY <1>6, <1>10, <2>2, <3>2, <4>1 DEF Posted
      <4> QED
        BY <2>4, <4>1, <4>2
    <3> QED
      BY <3>1, <3>2
  <2>5. /\ Shaped(q) /\ (Notices(made.post) => Notices(q.post))
        /\ \A v \in Users : v # u => q.peers[v] = made.peers[v]
        /\ q.peers[u].waiting = fresh.waiting /\ Same(q.peers[u], fresh)
        /\ \A i, h : Bears(q, "post", 0, i, h) => Bears(made, "post", 0, i, h)
    BY <2>2, <2>3, <2>4 DEF Posted, Same
  <2>6. ASSUME NEW k, NEW a, NEW i, NEW h, Bears(q, k, a, i, h)
        PROVE  Bears(clean, k, a, i, h) \/ (k = "peer" /\ a = u /\ i = 0 /\ h = g)
    <3>1. CASE k = "peer"
      BY <1>6, <2>2, <2>5, <2>6, <3>1 DEF Bears, Same
    <3>2. CASE k = "post"
      <4>1. a = 0
        BY <2>6, <3>2 DEF Bears
      <4>2. Bears(made, "post", 0, i, h)
        BY <2>5, <2>6, <3>2, <4>1
      <4> QED
        BY <2>1, <3>2, <4>1, <4>2 DEF Bears
    <3> QED
      BY <2>6, <3>1, <3>2 DEF Bears
  <2>7. \A k, a, i : ~Bears(clean, k, a, i, g)
    BY <1>4, <1>8 DEF Follows, Borne
  <2>8. Alone(clean) /\ Notices(clean.post)
    BY <1>8, TablesShaped DEF Follows
  <2>9. Alone(q)
    BY <2>6, <2>7, <2>8 DEF Alone
  <2>10. \A h : Borne(q, h) => Borne(Tables, h) \/ EventBears(e, h)
    BY <1>4, <1>8, <2>6 DEF Follows, Borne
  <2>11. \A v \in Users : q.peers[v] # NoPeer =>
          (peers[v] # NoPeer /\ Same(q.peers[v], peers[v])) \/ FreshPeer(v, q.peers[v], e)
    <3>1. FreshPeer(u, q.peers[u], e)
      BY <1>6, <2>5 DEF FreshPeer, Same
    <3>2. ASSUME NEW v \in Users, v # u, q.peers[v] # NoPeer
          PROVE  peers[v] # NoPeer /\ Same(q.peers[v], peers[v])
      BY <1>8, <2>2, <2>5, <3>2, TablesShaped DEF Follows, Kin
    <3> QED
      BY <3>1, <3>2
  <2>12. Outcome(q, e)
    BY <2>1, <2>5, <2>8, <2>9, <2>10, <2>11 DEF Outcome
  <2> QED
    BY <2>12
<1>13. Finish(t)
  BY <1>1, <1>5, <1>7, <1>9, <1>10 DEF HandleOffer
<1> QED
  BY <1>11, <1>12, <1>13

(* The tables after an answer, whose token the session takes.              *)
LEMMA AnswerOutcome ==
  ASSUME NEW T, Signalled(T), Tokens, NEW R, Marked(T, R), fifo # <<>>,
         NEW e, e = Head(fifo), e.t = "signal", e.type = "answer", HandleAnswer(e)
  PROVE  \E t : Outcome(t, e) /\ Finish(t)
<1>1. PICK u, g : u = e.uid /\ g = e.tag
  OBVIOUS
<1>2. EventBears(e, g) /\ ~Borne(Tables, g)
  <2>1. EventBears(e, g)
    BY <1>1 DEF EventBears, FrameBears
  <2> QED
    BY <2>1, HeadToken
<1>3. PICK t : t = IF ~Addressed(e) THEN Tables
                   ELSE IF peers[u].state # "have-local-offer"
                     THEN RemovePeer(Tables, u, peers[u].inst)
                   ELSE SetRemoteAnswer(Tables, u)
  OBVIOUS
<1>4. Finish(t)
  BY <1>1, <1>3 DEF HandleAnswer
<1>5. Shaped(Tables) /\ Follows(Tables, Tables) /\ Tables.peers = peers
  BY TablesShaped, FollowsSelf
<1>6. CASE ~Addressed(e)
  BY <1>3, <1>4, <1>5, <1>6, OutcomeFollows
<1>7. CASE Addressed(e)
  <2>1. u \in Users /\ Tables.peers[u] # NoPeer /\ Tables.peers[u].tag = g
    BY <1>1, <1>5, <1>7, AddressedTag DEF Described
  <2>2. Solitary(Tables, u)
    BY <1>2, <2>1 DEF Solitary, Borne
  <2>3. Follows(t, Tables) \/ FollowsWith(t, Tables, g)
    BY <1>3, <1>5, <1>7, <2>1, <2>2, RemovePeerFollows, SetRemoteAnswerFollows
  <2> QED
    BY <1>2, <1>4, <2>3, OutcomeFollows
<1> QED
  BY <1>6, <1>7

(* The tables after a frame.                                               *)
LEMMA SignalOutcome ==
  ASSUME NEW T, Signalled(T), Tokens, NEW R, Marked(T, R), fifo # <<>>,
         NEW e, e = Head(fifo), e.t = "signal", NEW throws, HandleSignal(e, throws)
  PROVE  \/ \E t : Outcome(t, e) /\ Finish(t)
         \/ fifo' = Tail(fifo) /\ peers' = peers
<1>1. Shaped(Tables) /\ Follows(Tables, Tables)
  BY TablesShaped, FollowsSelf
<1>2. CASE e.type = "offer" /\ HandleOffer(e, throws)
  BY <1>2, OfferOutcome
<1>3. CASE e.type = "answer" /\ HandleAnswer(e)
  BY <1>3, AnswerOutcome
<1>4. CASE HandleCandidate(e, throws)
  <2>1. PICK t : t = IF throws /\ Addressed(e)
                       THEN RemovePeer(Tables, e.uid, peers[e.uid].inst) ELSE Tables
    OBVIOUS
  <2>2. Finish(t)
    BY <1>4, <2>1 DEF HandleCandidate
  <2>3. Follows(t, Tables)
    BY <1>1, <2>1, RemovePeerFollows
  <2> QED
    BY <2>2, <2>3, OutcomeFollows
<1>5. CASE HandleLeave(e)
  <2>1. PICK t : t = IF Addressed(e) THEN RemovePeer(Tables, e.uid, peers[e.uid].inst)
                     ELSE Tables
    OBVIOUS
  <2>2. Finish(t)
    BY <1>5, <2>1 DEF HandleLeave
  <2>3. Follows(t, Tables)
    BY <1>1, <2>1, RemovePeerFollows
  <2> QED
    BY <2>2, <2>3, OutcomeFollows
<1> QED
  BY <1>2, <1>3, <1>4, <1>5 DEF HandleSignal

(* The worker handles an event.                                            *)
Handled(e) ==
  \/ \E t : Outcome(t, e) /\ Finish(t) /\ control' = control
  \/ fifo' = Tail(fifo) /\ peers' = peers /\ control' = control
  \/ fifo' = Tail(fifo) /\ peers' = peers /\ e.t = "local" /\ SendBack(e.conn, e)

(* The tables after any event of the FIFO.                                 *)
LEMMA EventHandled ==
  ASSUME NEW T, Signalled(T), Tokens, NEW R, Marked(T, R),
         NEW throws, HandleRoomEvent(throws), NEW e, e = Head(fifo)
  PROVE  fifo # <<>> /\ Handled(e)
<1>1. fifo # <<>>
  BY DEF HandleRoomEvent
<1>2. EventOK(e, T)
  BY <1>1, HeadOK DEF Signalled, MediaOK
<1>3. CASE e.t = "signal" /\ HandleSignal(e, throws)
  <2>1. control' = control
    BY <1>3 DEF HandleSignal
  <2> QED
    BY <1>1, <1>3, <2>1, SignalOutcome DEF Handled
<1>4. CASE e.t = "ready" /\ HandlePublisherTrackReady(e, throws)
  <2>1. control' = control
    BY <1>4 DEF HandlePublisherTrackReady
  <2>2. CASE fifo' = Tail(fifo) /\ peers' = peers
    BY <1>1, <2>1, <2>2 DEF Handled
  <2>3. CASE \E u \in Users : Finish(RegisterPublisherTrack(Tables, e.uid, e.media,
                                       {v \in Users : throws} \cap {u}))
    <3>1. PICK t : Finish(t) /\ \E f : t = RegisterPublisherTrack(Tables, e.uid, e.media, f)
      BY <2>3
    <3>2. Follows(t, Tables)
      BY <1>2, <1>4, <3>1, TablesShaped, RegisterFollows DEF EventOK
    <3> QED
      BY <1>1, <2>1, <3>1, <3>2, OutcomeFollows DEF Handled
  <2> QED
    BY <1>4, <2>2, <2>3 DEF HandlePublisherTrackReady
<1>5. CASE e.t = "local" /\ HandleLocalMediaSignal(e)
  BY <1>1, <1>5 DEF HandleLocalMediaSignal, Handled
<1>6. CASE HandleSignalDisconnected(e)
  <2>1. PICK t : Finish(t) /\ \E gone : t = RemovePeers(Tables, gone)
    BY <1>6 DEF HandleSignalDisconnected
  <2>2. Follows(t, Tables)
    BY <2>1, TablesShaped, RemovePeersFollow
  <2>3. control' = control
    BY <1>6 DEF HandleSignalDisconnected
  <2> QED
    BY <1>1, <2>1, <2>2, <2>3, OutcomeFollows DEF Handled
<1> QED
  BY <1>3, <1>4, <1>5, <1>6 DEF HandleRoomEvent

-----------------------------------------------------------------------------
(* A token after the event: one that was not in the room or at the head,   *)
(* or one of the tables.                                                   *)
Rests(k, a, i, g) ==
  \/ k \notin {"fifo", "peer"} /\ At(k, a, i, g)
  \/ k = "fifo" /\ a = 0 /\ i \in Nat /\ i # 0 /\ At("fifo", 0, i + 1, g)

Comes(t, k, a, i, g) ==
  \/ k = "peer" /\ Bears(t, "peer", a, 0, g) /\ i = 0
  \/ /\ k = "fifo" /\ a = 0 /\ i \in Nat /\ i >= Len(fifo)
     /\ Bears(t, "post", 0, i - (Len(fifo) - 1), g)

(* A token after an event was there before it, or comes from its outcome.  *)
LEMMA FinishedAt ==
  ASSUME NEW T, Signalled(T), fifo # <<>>, NEW e, NEW t, Outcome(t, e), Finish(t),
         UNCHANGED <<roomq, op, wire, control, toClient>>,
         NEW k, NEW a, NEW i, NEW g, At(k, a, i, g)'
  PROVE  Rests(k, a, i, g) \/ Comes(t, k, a, i, g)
<1>1. CASE k \notin {"fifo", "peer"}
  BY <1>1 DEF At, Rests
<1>2. CASE k = "peer"
  <2>1. peers' = t.peers
    BY DEF Finish, SetTables
  <2> QED
    BY <1>2, <2>1 DEF At, Comes, Bears
<1>3. CASE k = "fifo"
  <2>1. PICK q, s, n : q = Tail(fifo) /\ s = t.post /\ n = Len(fifo)
    OBVIOUS
  <2>2. /\ IsSeq(q) /\ IsSeq(s) /\ n \in Nat /\ n # 0 /\ Len(q) = n - 1
        /\ \A j \in 1..Len(q) : j + 1 \in 1..n /\ q[j] = fifo[j + 1]
    <3>1. IsSeq(s)
      BY <2>1 DEF Outcome, Shaped
    <3>2. IsSeq(fifo)
      BY QueuesAre
    <3>3. IsSeq(q) /\ n \in Nat /\ n # 0 /\ Len(q) = n - 1
      BY <2>1, <3>2, TailIs
    <3>4. \A j \in 1..Len(q) : j + 1 \in 1..n /\ q[j] = fifo[j + 1]
      BY <2>1, <3>2, TailAt
    <3> QED
      BY <3>1, <3>3, <3>4
  <2>3. PICK w : w = q \o s
    OBVIOUS
  <2>4. /\ Len(s) \in Nat /\ Len(w) = Len(q) + Len(s)
        /\ \A j \in 1..Len(q) : w[j] = q[j]
        /\ \A j \in 1..Len(s) : w[Len(q) + j] = s[j]
    <3>1. /\ Len(s) \in Nat /\ Len(q \o s) = Len(q) + Len(s)
          /\ \A j \in 1..Len(q) : (q \o s)[j] = q[j]
          /\ \A j \in 1..Len(s) : (q \o s)[Len(q) + j] = s[j]
      <4>1. IsSeq(q) /\ IsSeq(s)
        BY <2>2
      <4> QED
        BY <4>1, ConcatIs
    <3> QED
      BY <2>3, <3>1
  <2>5. fifo' = w
    BY <2>1, <2>3 DEF Finish
  <2>6. a = 0 /\ i \in 1..Len(w) /\ EventBears(w[i], g)
    BY <1>3, <2>5 DEF At
  <2>7. CASE i \in 1..Len(q)
    <3>1. i \in Nat /\ i # 0 /\ i + 1 \in 1..n /\ w[i] = fifo[i + 1]
      <4>1. i + 1 \in 1..n /\ q[i] = fifo[i + 1]
        BY <2>2, <2>7
      <4>2. w[i] = q[i]
        BY <2>4, <2>7
      <4>3. Len(q) \in Nat
        BY <2>2
      <4>4. i \in Nat /\ i # 0
        BY <2>7, <4>3
      <4> QED
        BY <4>1, <4>2, <4>4
    <3>2. At("fifo", 0, i + 1, g)
      BY <2>1, <2>6, <3>1 DEF At
    <3> QED
      BY <1>3, <2>6, <3>1, <3>2 DEF Rests
  <2>8. CASE i \notin 1..Len(q)
    <3>1. PICK j : j = i - (n - 1)
      OBVIOUS
    <3>2. i \in Nat /\ i >= n /\ j \in 1..Len(s) /\ i = Len(q) + j
      BY <2>2, <2>4, <2>6, <2>8, <3>1
    <3>3. w[i] = s[j]
      BY <2>4, <3>2
    <3>4. IsNotice(s[j])
      BY <2>1, <3>2 DEF Outcome, Notices
    <3>5. LocalOffer(s[j], g)
      BY <2>6, <3>3, <3>4 DEF EventBears, IsNotice
    <3>6. Bears(t, "post", 0, j, g)
      BY <2>1, <3>2, <3>5 DEF Bears
    <3> QED
      BY <1>3, <2>1, <2>6, <3>1, <3>2, <3>6 DEF Comes
  <2> QED
    BY <2>7, <2>8
<1> QED
  BY <1>1, <1>2, <1>3

(* A finished event leaves every token single.                             *)
LEMMA FinishTokens ==
  ASSUME NEW T, Signalled(T), Tokens, fifo # <<>>, NEW e, e = Head(fifo),
         NEW t, Outcome(t, e), Finish(t), UNCHANGED <<roomq, op, wire, control, toClient, pcs>>
  PROVE  Tokens'
<1>1. \A k, a, i, g : At(k, a, i, g)' => Rests(k, a, i, g) \/ Comes(t, k, a, i, g)
  BY FinishedAt
<1>2. Len(fifo) \in Nat /\ 1 \in 1..Len(fifo) /\ fifo[1] = e
  BY QueuesAre, TailAt, SequenceIs
<1>3. ASSUME NEW k, NEW a, NEW i, NEW g, Rests(k, a, i, g)
      PROVE  \E j : /\ At(k, a, j, g) /\ k # "peer" /\ ~(k = "fifo" /\ j = 1)
                    /\ k # "fifo" => j = i
                    /\ k = "fifo" => i \in Nat /\ j = i + 1
  <2>1. CASE k = "fifo"
    <3>1. i \in Nat /\ i # 0 /\ i + 1 # 1 /\ At(k, a, i + 1, g)
      BY <1>3, <2>1 DEF Rests
    <3> QED
      BY <2>1, <3>1
  <2>2. CASE k # "fifo"
    BY <1>3, <2>2 DEF Rests
  <2> QED
    BY <2>1, <2>2
<1>4. ASSUME NEW k, NEW a, NEW i, NEW g, Comes(t, k, a, i, g)
      PROVE  At("fifo", 0, 1, g) \/ \E b : At("peer", b, 0, g)
  <2>1. Borne(t, g)
    BY <1>4 DEF Comes, Borne
  <2>2. Borne(Tables, g) \/ EventBears(e, g)
    BY <2>1 DEF Outcome
  <2>3. Borne(Tables, g) => \E b : At("peer", b, 0, g)
    BY TablesShaped, EmptyIs DEF Borne, Bears, At, Tables
  <2> QED
    BY <1>2, <2>2, <2>3 DEF At
<1>5. TagsKnown'
  BY <1>1, <1>3, <1>4 DEF Tokens, TagsKnown
<1>6. ASSUME NEW g, NEW k, NEW a, NEW i, NEW l, NEW b, NEW j,
             Rests(k, a, i, g), Rests(l, b, j, g)
      PROVE  k = l /\ a = b /\ i = j
  <2>1. PICK x : /\ At(k, a, x, g) /\ (k # "fifo" => x = i)
                 /\ k = "fifo" => i \in Nat /\ x = i + 1
    BY <1>3, <1>6
  <2>2. PICK y : /\ At(l, b, y, g) /\ (l # "fifo" => y = j)
                 /\ l = "fifo" => j \in Nat /\ y = j + 1
    BY <1>3, <1>6
  <2>3. k = l /\ a = b /\ x = y
    BY <2>1, <2>2 DEF Tokens, OneToken
  <2>4. CASE k = "fifo"
    <3>1. i \in Nat /\ j \in Nat /\ i + 1 = j + 1
      BY <2>1, <2>2, <2>3, <2>4
    <3>2. i = j
      BY <3>1
    <3> QED
      BY <2>3, <3>2
  <2>5. CASE k # "fifo"
    BY <2>1, <2>2, <2>3, <2>5
  <2> QED
    BY <2>4, <2>5
<1>7. ASSUME NEW g, NEW k, NEW a, NEW i, NEW l, NEW b, NEW j,
             Rests(k, a, i, g), Comes(t, l, b, j, g)
      PROVE  FALSE
  <2>1. PICK x : At(k, a, x, g) /\ k # "peer" /\ ~(k = "fifo" /\ x = 1)
    BY <1>3, <1>7
  <2>2. At("fifo", 0, 1, g) \/ \E c : At("peer", c, 0, g)
    BY <1>4, <1>7
  <2> QED
    BY <2>1, <2>2 DEF Tokens, OneToken
<1>8. ASSUME NEW g, NEW k, NEW a, NEW i, NEW l, NEW b, NEW j,
             Comes(t, k, a, i, g), Comes(t, l, b, j, g)
      PROVE  k = l /\ a = b /\ i = j
  <2>1. Alone(t)
    BY DEF Outcome
  <2>2. CASE k = "peer" /\ l = "peer"
    BY <1>8, <2>1, <2>2 DEF Comes, Alone
  <2>3. CASE k = "fifo" /\ l = "fifo"
    <3>1. PICK n : n = Len(fifo) - 1
      OBVIOUS
    <3>2. /\ a = 0 /\ b = 0 /\ i \in Nat /\ j \in Nat /\ n \in Int
          /\ Bears(t, "post", 0, i - n, g) /\ Bears(t, "post", 0, j - n, g)
      BY <1>2, <1>8, <2>3, <3>1 DEF Comes
    <3>3. i - n = j - n
      BY <2>1, <3>2 DEF Alone
    <3> QED
      BY <2>3, <3>2, <3>3
  <2>4. CASE k # l
    BY <1>8, <2>1, <2>4 DEF Comes, Alone
  <2> QED
    BY <1>8, <2>2, <2>3, <2>4 DEF Comes
<1>9. OneToken'
  <2>1. SUFFICES ASSUME NEW g, NEW k, NEW a, NEW i, NEW l, NEW b, NEW j,
                        At(k, a, i, g)', At(l, b, j, g)'
                 PROVE  k = l /\ a = b /\ i = j
    BY DEF OneToken
  <2>2. /\ Rests(k, a, i, g) \/ Comes(t, k, a, i, g)
        /\ Rests(l, b, j, g) \/ Comes(t, l, b, j, g)
    BY <1>1, <2>1
  <2> QED
    BY <1>6, <1>7, <1>8, <2>2
<1> QED
  BY <1>5, <1>9 DEF Tokens

(* The event is dropped, or a local offer is sent.                         *)
LEMMA TakenTokens ==
  ASSUME NEW T, Signalled(T), Tokens, fifo # <<>>, NEW e, e = Head(fifo),
         fifo' = Tail(fifo), control' = control \/ (e.t = "local" /\ SendBack(e.conn, e)),
         UNCHANGED <<roomq, op, wire, toClient, peers, pcs>>
  PROVE  Tokens'
<1>1. /\ 1 \in 1..Len(fifo) /\ e = fifo[1]
      /\ \A i \in 1..Len(fifo') :
            i \in Nat /\ i # 0 /\ i + 1 \in 1..Len(fifo) /\ fifo'[i] = fifo[i + 1]
  BY QueuesAre, TailAt
<1>2. \A i \in 1..Len(control') :
        \/ i \in 1..Len(control) /\ control'[i] = control[i]
        \/ i = Len(control) + 1 /\ control'[i].m = e /\ e.t = "local"
  <2>1. CASE control' = control
    BY <2>1
  <2>2. CASE control' # control
    <3>1. PICK h : h.m = e /\ e.t = "local" /\ control' = Append(control, h)
      BY <2>2 DEF SendBack
    <3>2. \A i \in 1..Len(control') :
            (i \in 1..Len(control) /\ control'[i] = control[i])
            \/ (i = Len(control) + 1 /\ control'[i] = h)
      BY <3>1, QueuesAre, AppendAt
    <3> QED
      BY <3>1, <3>2
  <2> QED
    BY <2>1, <2>2
<1>3. \A g : OfferBears(e, g) /\ e.t = "local" => At("fifo", 0, 1, g)
  BY <1>1 DEF OfferBears, At, EventBears, LocalOffer
<1>4. ASSUME NEW k, NEW a, NEW i, NEW g, At(k, a, i, g)'
      PROVE  \/ (k # "fifo" \/ a # 0) /\ At(k, a, i, g)
             \/ k = "fifo" /\ a = 0 /\ i \in Nat /\ i # 0 /\ At(k, a, i + 1, g)
             \/ k = "control" /\ a = 0 /\ i = Len(control) + 1 /\ At("fifo", 0, 1, g)
  <2>1. CASE k = "fifo"
    BY <1>1, <1>4, <2>1 DEF At
  <2>2. CASE k = "control"
    <3>1. a = 0 /\ i \in 1..Len(control') /\ control'[i].t = "message" /\ OfferBears(control'[i].m, g)
      BY <1>4, <2>2 DEF At
    <3>2. CASE i \in 1..Len(control) /\ control'[i] = control[i]
      BY <2>2, <3>1, <3>2 DEF At
    <3>3. CASE i = Len(control) + 1 /\ control'[i].m = e /\ e.t = "local"
      BY <1>3, <2>2, <3>1, <3>3
    <3> QED
      BY <1>2, <3>1, <3>2, <3>3
  <2>3. CASE k \notin {"fifo", "control"}
    BY <1>4, <2>3 DEF At
  <2> QED
    BY <2>1, <2>2, <2>3
<1>5. Moves("fifo", 0, "control", 0, Len(control) + 1)
  BY <1>4 DEF Moves
<1> QED
  BY <1>5, TokensMove

(* MediaServer's steps keep the tokens single.                             *)
LEMMA RoomEventTokens ==
  ASSUME NEW T, Signalled(T), Tokens, NEW R, Marked(T, R), RoomEvent
  PROVE  Tokens'
<1>1. PICK throws \in BOOLEAN : HandleRoomEvent(throws) /\ UNCHANGED realtimeVars
  BY DEF RoomEvent
<1>2. UNCHANGED <<roomq, op, wire, toClient, pcs>>
  BY <1>1 DEF HandleRoomEvent, realtimeVars, signalVars, clientVars
<1>3. PICK e : e = Head(fifo)
  OBVIOUS
<1>4. fifo # <<>> /\ Handled(e)
  BY <1>1, <1>3, EventHandled
<1>5. CASE \E t : Outcome(t, e) /\ Finish(t) /\ control' = control
  BY <1>2, <1>3, <1>4, <1>5, FinishTokens
<1>6. CASE fifo' = Tail(fifo) /\ peers' = peers
           /\ (control' = control \/ (e.t = "local" /\ SendBack(e.conn, e)))
  BY <1>2, <1>3, <1>4, <1>6, TakenTokens
<1> QED
  BY <1>4, <1>5, <1>6 DEF Handled

(* Every step keeps the tokens single.                                     *)
LEMMA NextTokens ==
  ASSUME NEW T, Signalled(T), Tokens, NEW R, Marked(T, R), [Next]_vars
  PROVE  Tokens'
<1>1. ASSUME NEW u \in Users,
             OpenCamera(u) \/ ClientCandidate(u) \/ LeaveMeeting(u) \/ Rejoin(u)
             \/ LoseConnection(u) \/ ClientReceive(u)
      PROVE  Tokens'
  <2>1. CASE OpenCamera(u)
    BY <2>1, OpenTokens
  <2>2. CASE ClientCandidate(u)
    <3>1. PICK o : o = Request("candidate", u, pc[u], 0)
      OBVIOUS
    <3>2. roomq' = Append(roomq, o) /\ o.t = "candidate"
      BY <2>2, <3>1 DEF ClientCandidate, Request
    <3>3. UNCHANGED <<op, wire, control, fifo, peers, toClient, pcs>>
      BY <2>2 DEF ClientCandidate, mediaVars, signalVars, clientVars
    <3> QED
      BY <3>2, <3>3, AskTokens
  <2>3. CASE LeaveMeeting(u)
    <3>1. PICK o : o = Request("leave", u, 0, 0)
      OBVIOUS
    <3>2. roomq' = Append(roomq, o) /\ o.t = "leave"
      BY <2>3, <3>1 DEF LeaveMeeting, Request
    <3>3. UNCHANGED <<op, wire, control, fifo, peers, toClient, pcs>>
      BY <2>3 DEF LeaveMeeting, mediaVars, signalVars
    <3> QED
      BY <3>2, <3>3, AskTokens
  <2>4. CASE Rejoin(u)
    <3>1. PICK o : o = Request("join", u, 0, 0)
      OBVIOUS
    <3>2. roomq' = Append(roomq, o) /\ o.t = "join"
      BY <2>4, <3>1 DEF Rejoin, Request
    <3>3. UNCHANGED <<op, wire, control, fifo, peers, toClient, pcs>>
      BY <2>4 DEF Rejoin, mediaVars, signalVars
    <3> QED
      BY <3>2, <3>3, AskTokens
  <2>5. CASE LoseConnection(u)
    BY <2>5, LoseTokens
  <2>6. CASE ClientReceive(u)
    BY <2>6, ReceiveTokens
  <2> QED
    BY <1>1, <2>1, <2>2, <2>3, <2>4, <2>5, <2>6
<1>2. CASE RoomEvent \/ ServerStep \/ ServerCandidate \/ Restart
  BY <1>2, RoomEventTokens, ServerTokens, CandidateTokens, RestartTokens
<1>3. CASE Connect \/ Disconnect \/ ControlStep
  BY <1>3, ConnectTokens, DisconnectTokens, ControlTokens
<1>4. CASE MediaOfferSend \/ RoomStep \/ RealtimeRestart
  BY <1>4, OfferSendTokens, RoomTokens, RealtimeTokens
<1>5. CASE UNCHANGED vars \/ RtpStep
  BY <1>5, NothingTokens
<1> QED
  BY <1>1, <1>2, <1>3, <1>4, <1>5 DEF Next, Progress

(* An answer waits with the tag of its session's signal id, and of the     *)
(* offers of the session that wait before it.                              *)
AnswerOK(q, i, ids, T) ==
  /\ ids[q[i].session] # 0 => T[ids[q[i].session]] = q[i].tag
  /\ \A j \in 1..(i - 1) : Named(q[j], "offer", q[i].session) => q[j].tag = q[i].tag

AnswersOK(T) ==
  \A i \in 1..Len(roomq) : roomq[i].t = "answer" => AnswerOK(roomq, i, sig, T)

(* Nothing that adds no answer and hands out no signal id disturbs them.   *)
LEMMA AnswersStay ==
  ASSUME NEW T, Signalled(T), AnswersOK(T),
         \A i \in 1..Len(roomq) : roomq'[i] = roomq[i],
         \A i \in 1..Len(roomq') : i \in 1..Len(roomq) \/ roomq'[i].t # "answer",
         \A s \in Sessions : sig'[s] \in {0, sig[s]}
  PROVE  AnswersOK(T)'
<1>1. SUFFICES ASSUME NEW i \in 1..Len(roomq'), roomq'[i].t = "answer"
               PROVE  AnswerOK(roomq', i, sig', T)
  BY DEF AnswersOK
<1>2. i \in 1..Len(roomq) /\ roomq'[i] = roomq[i] /\ Len(roomq) \in Nat
  BY <1>1, QueuesAre, SequenceIs
<1>3. AnswerOK(roomq, i, sig, T) /\ roomq[i].session \in Sessions
  BY <1>1, <1>2 DEF AnswersOK, Signalled, QueueOK, RequestOK
<1>4. \A j \in 1..(i - 1) : j \in 1..Len(roomq) /\ roomq'[j] = roomq[j]
  BY <1>2
<1> QED
  BY <1>2, <1>3, <1>4 DEF AnswerOK

(* The room's strand takes an operation, which may be an offer.            *)
LEMMA AnswersShift ==
  ASSUME NEW T, Signalled(T), AnswersOK(T), NEW T2, roomq # <<>>, roomq' = Tail(roomq),
         \A id \in 1..(nextSig - 1) : T2[id] = T[id],
         \A s \in Sessions :
           \/ sig'[s] \in {0, sig[s]}
           \/ Named(Head(roomq), "offer", s) /\ T2[sig'[s]] = Head(roomq).tag
  PROVE  AnswersOK(T2)'
<1>1. PICK o : o = Head(roomq)
  OBVIOUS
<1>2. /\ 1 \in 1..Len(roomq) /\ o = roomq[1] /\ Len(roomq) \in Nat
      /\ \A i \in 1..Len(roomq') :
            i \in Nat /\ i # 0 /\ i + 1 \in 1..Len(roomq) /\ roomq'[i] = roomq[i + 1]
  <2>1. IsSeq(roomq)
    BY QueuesAre
  <2>2. /\ 1 \in 1..Len(roomq) /\ Head(roomq) = roomq[1]
        /\ \A i \in 1..Len(roomq') :
              i \in Nat /\ i # 0 /\ i + 1 \in 1..Len(roomq) /\ roomq'[i] = roomq[i + 1]
    BY <2>1, TailAt
  <2> QED
    BY <1>1, <2>1, <2>2, SequenceIs
<1>3. \A i \in 1..Len(roomq') : Len(roomq') \in Nat /\ i < Len(roomq') + 1
  BY QueuesAre, TailIs
<1>4. SUFFICES ASSUME NEW i \in 1..Len(roomq'), roomq'[i].t = "answer"
               PROVE  AnswerOK(roomq', i, sig', T2)
  BY DEF AnswersOK
<1>5. i \in Nat /\ i # 0 /\ i + 1 \in 1..Len(roomq) /\ roomq'[i] = roomq[i + 1]
  BY <1>2
<1>6. PICK r, s : r = roomq[i + 1] /\ s = r.session
  OBVIOUS
<1>7. AnswerOK(roomq, i + 1, sig, T) /\ s \in Sessions
  BY <1>4, <1>5, <1>6 DEF AnswersOK, Signalled, QueueOK, RequestOK
<1>8. \A j \in 1..i : Named(roomq[j], "offer", s) => roomq[j].tag = r.tag
  BY <1>5, <1>6, <1>7 DEF AnswerOK
<1>9. \A j \in 1..(i - 1) : Named(roomq'[j], "offer", s) => roomq'[j].tag = r.tag
  <2>1. ASSUME NEW j \in 1..(i - 1), Named(roomq'[j], "offer", s) PROVE roomq'[j].tag = r.tag
    <3>1. j \in 1..Len(roomq') /\ j + 1 \in 1..i
      BY <1>2, <1>3, <1>5
    <3>2. roomq'[j] = roomq[j + 1]
      BY <1>2, <3>1
    <3> QED
      BY <1>8, <2>1, <3>1, <3>2
  <2> QED
    BY <2>1
<1>10. sig'[s] # 0 => T2[sig'[s]] = r.tag
  <2>1. CASE sig'[s] \in {0, sig[s]}
    <3>1. sig[s] \in 0..(nextSig - 1) /\ nextSig \in Nat
      BY <1>7 DEF Signalled, BindingsOK, Connected
    <3>2. sig[s] # 0 => T[sig[s]] = r.tag
      BY <1>6, <1>7 DEF AnswerOK
    <3>3. sig[s] # 0 => T2[sig[s]] = T[sig[s]]
      BY <3>1
    <3> QED
      BY <2>1, <3>2, <3>3
  <2>2. CASE Named(o, "offer", s) /\ T2[sig'[s]] = o.tag
    BY <1>2, <1>5, <1>8, <2>2
  <2> QED
    BY <1>1, <1>7, <2>1, <2>2
<1> QED
  BY <1>5, <1>6, <1>9, <1>10 DEF AnswerOK

(* The client answers with the tag of its PeerConnection.                  *)
LEMMA AnswerComes ==
  ASSUME NEW T, Signalled(T), AnswersOK(T), NEW u \in Users, pc[u] # 0,
         NEW o, o.t = "answer", o.session = Current(u), o.tag = pc[u],
         roomq' = Append(roomq, o), sig' = sig
  PROVE  AnswersOK(T)'
<1>1. /\ Len(roomq) \in Nat /\ Len(roomq') = Len(roomq) + 1 /\ roomq'[Len(roomq) + 1] = o
      /\ \A i \in 1..Len(roomq) : roomq'[i] = roomq[i]
  BY QueuesAre, AppendIs
<1>2. PICK n : n = Len(roomq)
  OBVIOUS
<1>3. SUFFICES ASSUME NEW i \in 1..Len(roomq'), roomq'[i].t = "answer"
               PROVE  AnswerOK(roomq', i, sig, T)
  BY DEF AnswersOK
<1>4. CASE i \in 1..n
  <2>1. AnswerOK(roomq, i, sig, T) /\ roomq'[i] = roomq[i]
    BY <1>1, <1>2, <1>3, <1>4 DEF AnswersOK
  <2>2. \A j \in 1..(i - 1) : roomq'[j] = roomq[j]
    BY <1>1, <1>2, <1>4
  <2> QED
    BY <2>1, <2>2 DEF AnswerOK
<1>5. CASE i = n + 1
  <2>1. roomq'[i] = o /\ i - 1 = n
    BY <1>1, <1>2, <1>5
  <2>2. Publishing(phase[u], pc[u], toClient[u], Current(u), roomq, sig[Current(u)], T)
    BY DEF Signalled, ClientsOK, UserIs, UserOK
  <2>3. PICK s : s = Current(u)
    OBVIOUS
  <2>4. /\ sig[s] # 0 => T[sig[s]] = o.tag
        /\ \A j \in 1..n : Named(roomq[j], "offer", s) => roomq[j].tag = o.tag
    BY <1>2, <2>2, <2>3 DEF Publishing
  <2>5. \A j \in 1..n : roomq'[j] = roomq[j]
    BY <1>1, <1>2
  <2> QED
    BY <2>1, <2>3, <2>4, <2>5 DEF AnswerOK
<1> QED
  BY <1>1, <1>2, <1>4, <1>5

(* The signal ids that a step of the strand leaves.                        *)
LEMMA RoomIds ==
  ASSUME NEW T, Signalled(T), RoomStep, NEW o, o = Head(roomq)
  PROVE  \A s \in Sessions :
           \/ sig'[s] \in {0, sig[s]}
           \/ Named(o, "offer", s) /\ sig'[s] = nextSig /\ nextSig' = nextSig + 1
<1>1. DOMAIN sig = Sessions /\ roomq # <<>>
  BY DEF Signalled, BindingsOK, RoomStep
<1>2. o.session \in Sessions /\ o.session[1] \in Users
  BY <1>1, RoomHead DEF Signalled, RequestOK, Sessions
<1>3. CASE o.t = "offer" /\ MediaOffer(o)
  BY <1>1, <1>3 DEF MediaOffer, Named
<1>4. CASE sig' = sig
  BY <1>4
<1>5. CASE \E x : sig' = [sig EXCEPT ![x] = 0]
  BY <1>1, <1>5
<1>6. CASE Release(o) \/ JoinMeeting(o)
  BY <1>4, <1>5, <1>6 DEF Release, JoinMeeting, ReleaseMediaSession
<1> QED
  BY <1>3, <1>4, <1>6
     DEF RoomStep, MediaAnswer, MediaCandidate, Relay, MediaRefused, MediaResponse

(* The strand keeps the answers behind its head in order.                  *)
LEMMA RoomAnswers ==
  ASSUME NEW T, Signalled(T), AnswersOK(T), RoomStep, NEW T2,
         \/ T2 = T /\ nextSig' = nextSig
         \/ nextSig' = nextSig + 1 /\ Extends(T2, T, Head(roomq).tag)
  PROVE  AnswersOK(T2)'
<1>1. roomq # <<>> /\ roomq' = Tail(roomq)
  BY DEF RoomStep
<1>2. \A id \in 1..(nextSig - 1) : T2[id] = T[id]
  BY DEF Extends
<1>3. nextSig \in Nat
  BY DEF Signalled, Connected
<1>4. PICK o : o = Head(roomq)
  OBVIOUS
<1>5. nextSig' = nextSig + 1 => T2[nextSig] = o.tag
  BY <1>3, <1>4 DEF Extends
<1>6. \A s \in Sessions : sig'[s] \in {0, sig[s]} \/ (Named(o, "offer", s) /\ T2[sig'[s]] = o.tag)
  BY <1>4, <1>5, RoomIds
<1> QED
  BY <1>1, <1>2, <1>4, <1>6, AnswersShift

(* A request at the end of the strand's queue.                             *)
LEMMA QueueAppend ==
  ASSUME NEW T, Signalled(T), AnswersOK(T), NEW o, o.t # "answer",
         roomq' = Append(roomq, o), \A s \in Sessions : sig'[s] \in {0, sig[s]}
  PROVE  AnswersOK(T)'
<1>1. /\ Len(roomq) \in Nat /\ Len(roomq') = Len(roomq) + 1 /\ roomq'[Len(roomq) + 1] = o
      /\ \A i \in 1..Len(roomq) : roomq'[i] = roomq[i]
  BY QueuesAre, AppendIs
<1>2. \A i \in 1..Len(roomq') : i \in 1..Len(roomq) \/ i = Len(roomq) + 1
  BY <1>1
<1>3. \A i \in 1..Len(roomq') : i \in 1..Len(roomq) \/ roomq'[i].t # "answer"
  BY <1>1, <1>2
<1> QED
  BY <1>1, <1>3, AnswersStay

(* The strand's queue is left alone.                                       *)
LEMMA QueueSame ==
  ASSUME NEW T, Signalled(T), AnswersOK(T), roomq' = roomq,
         \A s \in Sessions : sig'[s] \in {0, sig[s]}
  PROVE  AnswersOK(T)'
BY AnswersStay

(* A client's answer has the tag of the offer that it has read.            *)
LEMMA ClientAnswers ==
  ASSUME NEW T, Signalled(T), AnswersOK(T), NEW u \in Users,
         OpenCamera(u) \/ ClientCandidate(u) \/ LeaveMeeting(u) \/ Rejoin(u)
         \/ LoseConnection(u) \/ ClientReceive(u)
  PROVE  AnswersOK(T)'
<1>1. sig' = sig
  BY DEF OpenCamera, ClientCandidate, LeaveMeeting, Rejoin, LoseConnection, ClientReceive,
         signalVars
<1>2. CASE roomq' = roomq
  BY <1>1, <1>2, QueueSame
<1>3. CASE \E o : o.t # "answer" /\ roomq' = Append(roomq, o)
  BY <1>1, <1>3, QueueAppend
<1>4. CASE OpenCamera(u) \/ ClientCandidate(u) \/ LeaveMeeting(u) \/ Rejoin(u)
  BY <1>3, <1>4 DEF OpenCamera, ClientCandidate, LeaveMeeting, Rejoin, Request
<1>5. CASE LoseConnection(u)
  <2>1. PICK r, s : r.t # "answer" /\ s.t # "answer" /\ roomq' = roomq \o <<r, s>>
    BY <1>5 DEF LoseConnection, Request
  <2>2. PICK q : q = Append(roomq, r)
    OBVIOUS
  <2>3. IsSeq(roomq) /\ IsSeq(q)
    BY <2>2, QueuesAre, AppendIs
  <2>4. roomq' = Append(q, s)
    BY <2>1, <2>2, <2>3, AppendTwo
  <2>5. /\ Len(roomq) \in Nat /\ Len(q) = Len(roomq) + 1 /\ q[Len(roomq) + 1] = r
        /\ \A i \in 1..Len(roomq) : q[i] = roomq[i]
    BY <2>2, <2>3, AppendIs
  <2>6. /\ Len(roomq') = Len(q) + 1 /\ roomq'[Len(q) + 1] = s
        /\ \A i \in 1..Len(q) : roomq'[i] = q[i]
    BY <2>3, <2>4, AppendIs
  <2>7. PICK n : n = Len(roomq)
    OBVIOUS
  <2>8. /\ n \in Nat /\ Len(q) = n + 1 /\ Len(roomq') = n + 2
        /\ \A i \in 1..n : i \in 1..(n + 1)
        /\ \A i \in 1..(n + 2) : i \in 1..n \/ i = n + 1 \/ i = n + 2
        /\ n + 1 \in 1..(n + 1)
    BY <2>5, <2>6, <2>7
  <2>9. \A i \in 1..n : roomq'[i] = roomq[i]
    BY <2>5, <2>6, <2>7, <2>8
  <2>10. roomq'[n + 1] = r /\ roomq'[n + 2] = s
    <3>1. roomq'[n + 1] = q[n + 1] /\ q[n + 1] = r
      BY <2>5, <2>6, <2>7, <2>8
    <3>2. Len(q) + 1 = n + 2
      BY <2>8
    <3> QED
      BY <2>6, <3>1, <3>2
  <2>11. \A i \in 1..Len(roomq') : i \in 1..n \/ roomq'[i].t # "answer"
    BY <2>1, <2>8, <2>10
  <2> QED
    BY <1>1, <2>7, <2>9, <2>11, AnswersStay
<1>6. CASE ClientReceive(u)
  <2>1. CASE \E m : ApplyMediaOffer(u, m)
    <3>1. PICK o : /\ o.t = "answer" /\ o.session = Current(u) /\ o.tag = pc[u]
                   /\ roomq' = Append(roomq, o) /\ pc[u] # 0
      BY <2>1 DEF ApplyMediaOffer, Request
    <3> QED
      BY <1>1, <3>1, AnswerComes
  <2>2. CASE roomq' = roomq
    BY <1>2, <2>2
  <2> QED
    BY <1>6, <2>1, <2>2 DEF ClientReceive, ApplyMediaAnswer, ApplyMediaCandidate
<1> QED
  BY <1>4, <1>5, <1>6

(* Every other step keeps the answers right.                               *)
LEMMA NextAnswers ==
  ASSUME NEW T, Signalled(T), AnswersOK(T), [Next]_vars, ~RoomStep
  PROVE  AnswersOK(T)'
<1>1. CASE \E u \in Users :
             OpenCamera(u) \/ ClientCandidate(u) \/ LeaveMeeting(u) \/ Rejoin(u)
             \/ LoseConnection(u) \/ ClientReceive(u)
  BY <1>1, ClientAnswers
<1>2. CASE UNCHANGED <<roomq, sig>>
  BY <1>2, QueueSame
<1>3. CASE UNCHANGED realtimeVars \/ UNCHANGED vars
  BY <1>2, <1>3 DEF realtimeVars, vars, signalVars
<1>4. CASE Connect \/ Disconnect
  BY <1>2, <1>4 DEF Connect, Disconnect, signalVars
<1>5. CASE ControlStep
  <2>1. PICK e : e = Head(control)
    OBVIOUS
  <2>2. CASE AcceptMediaEvent(e) /\ roomq' = roomq
    <3>1. \A s \in Sessions : sig'[s] \in {0, sig[s]}
      BY <2>2 DEF AcceptMediaEvent
    <3> QED
      BY <2>2, <3>1, QueueSame
  <2>3. CASE sig' = sig /\ \E o : o.t = "response" /\ roomq' = Append(roomq, o)
    BY <2>3, QueueAppend
  <2>4. CASE UNCHANGED <<roomq, sig>>
    BY <1>2, <2>4
  <2> QED
    BY <1>5, <2>1, <2>2, <2>3, <2>4 DEF ControlStep
<1>6. CASE MediaOfferSend
  <2>1. roomq' = roomq /\ (sig' = sig \/ \E x : sig' = [sig EXCEPT ![x] = 0])
    BY <1>6 DEF MediaOfferSend
  <2>2. \A s \in Sessions : sig'[s] \in {0, sig[s]}
    BY <2>1 DEF Signalled, BindingsOK
  <2> QED
    BY <2>1, <2>2, QueueSame
<1>7. CASE RealtimeRestart
  <2>1. \A i \in DOMAIN roomq' : roomq'[i].t = "join"
    BY <1>7 DEF RealtimeRestart
  <2>2. Signalled(T)'
    BY StepKeeps
  <2>3. DOMAIN roomq' = 1..Len(roomq')
    BY <2>2, SequenceIs DEF Signalled, QueueOK
  <2> QED
    BY <2>1, <2>3 DEF AnswersOK
<1> QED
  BY <1>1, <1>3, <1>4, <1>5, <1>6, <1>7
     DEF Next, Progress, RoomEvent, ServerStep, ServerCandidate, Restart, RtpStep

(* The marks after a step are marks of before.                             *)
Agrees(T2, T) ==
  /\ econn' = econn /\ nextSig \in Nat /\ nextSig' \in Nat /\ nextSig <= nextSig'
  /\ \A id \in 1..(nextSig - 1) : T2[id] = T[id]

(* A step that adds no description and changes no session keeps the marks. *)
LEMMA MarkedKept ==
  ASSUME NEW T, NEW R, NEW T2, Agrees(T2, T),
         \A c \in Conns : \A i \in 1..Len(wire'[c]) :
           Described(wire'[c][i]) => Mark(c, wire'[c][i], T, R),
         \A i \in 1..Len(fifo') :
           fifo'[i].t = "signal" /\ Described(fifo'[i]) => Mark(fifo'[i].conn, fifo'[i], T, R),
         \A u \in Users : peers'[u] # NoPeer => Mark(peers'[u].conn, peers'[u], T, R)
  PROVE  Marked(T2, R)'
<1>1. \A id : id \in 1..(nextSig - 1) => id \in 1..(nextSig' - 1) /\ T2[id] = T[id]
  <2>1. PICK n, m : n = nextSig /\ m = nextSig'
    OBVIOUS
  <2>2. n \in Nat /\ m \in Nat /\ n <= m
    BY <2>1 DEF Agrees
  <2>3. \A id \in 1..(n - 1) : id \in 1..(m - 1)
    BY <2>2
  <2> QED
    BY <2>1, <2>3 DEF Agrees
<1>2. econn' = econn
  BY DEF Agrees
<1>3. ASSUME NEW c \in Conns, NEW i \in 1..Len(wire'[c]), Described(wire'[c][i])
      PROVE  Mark(c, wire[c][i], T2, R)'
  BY <1>1, <1>2, <1>3 DEF Mark, Tagged
<1>4. ASSUME NEW i \in 1..Len(fifo'), fifo'[i].t = "signal", Described(fifo'[i])
      PROVE  Mark(fifo[i].conn, fifo[i], T2, R)'
  BY <1>1, <1>2, <1>4 DEF Mark, Tagged
<1>5. ASSUME NEW u \in Users, peers'[u] # NoPeer
      PROVE  Mark(peers[u].conn, peers[u], T2, R)'
  BY <1>1, <1>2, <1>5 DEF Mark, Tagged
<1> QED
  BY <1>3, <1>4, <1>5 DEF Marked, Described

(* An assignment agrees with itself.                                       *)
LEMMA AgreesItself ==
  ASSUME NEW T, Signalled(T), econn' = econn, nextSig' = nextSig
  PROVE  Agrees(T, T)
BY DEF Agrees, Signalled, Connected

(* Nothing of MediaServer's side moves.                                    *)
LEMMA MarksStay ==
  ASSUME NEW T, Signalled(T), NEW R, Marked(T, R), UNCHANGED <<econn, nextSig, wire, fifo, peers>>
  PROVE  Marked(T, R)'
BY AgreesItself, MarkedKept DEF Marked

(* A frame is written.                                                     *)
LEMMA SendMarks ==
  ASSUME NEW T, Signalled(T), NEW R, Marked(T, R), NEW T2, Agrees(T2, T),
         NEW e, NEW f, Send(e, f), Described(f) => Tagged(f, T), UNCHANGED <<fifo, peers>>
  PROVE  Marked(T2, R)'
<1>1. nextSig \in Nat
  BY DEF Agrees
<1>2. ASSUME NEW c \in Conns, NEW i \in 1..Len(wire'[c]), Described(wire'[c][i])
      PROVE  Mark(c, wire'[c][i], T, R)
  <2>1. CASE i \in 1..Len(wire[c]) /\ wire'[c][i] = wire[c][i]
    BY <1>2, <2>1 DEF Marked
  <2>2. CASE c = econn /\ wire'[c][i] = f
    BY <1>1, <1>2, <2>2 DEF Mark, Tagged
  <2> QED
    BY <2>1, <2>2, SendAt
<1> QED
  BY <1>2, MarkedKept DEF Marked

(* The current connection is given up: its marks are those of an earlier one. *)
LEMMA MarksAbsorbed ==
  ASSUME NEW T, Signalled(T), NEW R, Marked(T, R), econn' = 0, UNCHANGED <<fifo, peers>>,
         \A b \in Conns : \A i \in 1..Len(wire'[b]) :
           i \in 1..Len(wire[b]) /\ wire'[b][i] = wire[b][i]
  PROVE  \E R2 : Marked(T, R2)'
<1>1. PICK R2 : R2 = [x \in Conns \X Nat |-> IF x[1] = econn THEN T[x[2]] ELSE R[x]]
  OBVIOUS
<1>2. ASSUME NEW c \in Conns, NEW m, Mark(c, m, T, R)
      PROVE  m.sig \in Nat /\ c # 0 /\ m.tag = R2[<<c, m.sig>>]
  <2>1. m.sig \in Nat
    BY <1>2 DEF Mark
  <2>2. R2[<<c, m.sig>>] = IF c = econn THEN T[m.sig] ELSE R[<<c, m.sig>>]
    BY <1>1, <2>1
  <2>3. c # 0
    BY DEF Conns
  <2> QED
    BY <1>2, <2>1, <2>2, <2>3 DEF Mark, Tagged
<1>3. \A c \in 1..nconn : c \in Conns
  BY ConnectedIs DEF Signalled
<1>4. ASSUME NEW c \in Conns, NEW i \in 1..Len(wire'[c]), Described(wire'[c][i])
      PROVE  Mark(c, wire[c][i], T, R2)'
  <2>1. Mark(c, wire'[c][i], T, R)
    BY <1>4 DEF Marked
  <2> QED
    BY <1>2, <2>1 DEF Mark
<1>5. ASSUME NEW i \in 1..Len(fifo), fifo[i].t = "signal", Described(fifo[i])
      PROVE  fifo[i].conn \in Conns /\ Mark(fifo[i].conn, fifo[i], T, R)
  BY <1>3, <1>5 DEF Marked, Signalled, MediaOK, EventsOK, EventOK
<1>6. ASSUME NEW i \in 1..Len(fifo'), fifo'[i].t = "signal", Described(fifo'[i])
      PROVE  Mark(fifo[i].conn, fifo[i], T, R2)'
  BY <1>2, <1>5, <1>6 DEF Mark
<1>7. ASSUME NEW u \in Users, peers[u] # NoPeer
      PROVE  peers[u].conn \in Conns /\ Mark(peers[u].conn, peers[u], T, R)
  BY <1>3, <1>7 DEF Marked, Signalled, MediaOK, PeersOK, PeerRec
<1>8. ASSUME NEW u \in Users, peers'[u] # NoPeer
      PROVE  Mark(peers[u].conn, peers[u], T, R2)'
  BY <1>2, <1>7, <1>8 DEF Mark
<1> QED
  BY <1>4, <1>6, <1>8 DEF Marked, Described

(* A new connection has no marks yet.                                      *)
LEMMA ConnectMarks ==
  ASSUME NEW T, Signalled(T), NEW R, Marked(T, R), Connect
  PROVE  Marked(T, R)'
<1>1. /\ UNCHANGED <<fifo, peers, wire>> /\ active = 0 /\ econn' = nconn + 1
      /\ nconn < MaxConns
  BY DEF Connect
<1>2. econn = 0 /\ nconn \in Nat
  BY <1>1, ConnectedIs DEF Signalled, Connected
<1>3. \A c \in 1..nconn : c # econn /\ c # econn' /\ c \in Conns
  BY <1>1, <1>2, ConnectedIs DEF Signalled
<1>4. ASSUME NEW c \in Conns, NEW i \in 1..Len(wire'[c]), Described(wire'[c][i])
      PROVE  Mark(c, wire[c][i], T, R)'
  <2>1. c \in 1..nconn
    <3>1. c > nconn => wire[c] = <<>>
      BY DEF Signalled, Wired
    <3>2. i \in 1..Len(wire[c])
      BY <1>1, <1>4
    <3>3. ~(c > nconn)
      BY <3>1, <3>2, EmptyIs
    <3> QED
      BY <1>2, <3>3 DEF Conns
  <2>2. Mark(c, wire[c][i], T, R)
    BY <1>1, <1>4 DEF Marked
  <2> QED
    BY <1>1, <1>3, <2>1, <2>2 DEF Mark
<1>5. ASSUME NEW i \in 1..Len(fifo'), fifo'[i].t = "signal", Described(fifo'[i])
      PROVE  Mark(fifo[i].conn, fifo[i], T, R)'
  <2>1. fifo[i].conn \in 1..nconn /\ Mark(fifo[i].conn, fifo[i], T, R)
    BY <1>1, <1>5 DEF Marked, Signalled, MediaOK, EventsOK, EventOK
  <2> QED
    BY <1>1, <1>3, <2>1 DEF Mark
<1>6. ASSUME NEW u \in Users, peers'[u] # NoPeer
      PROVE  Mark(peers[u].conn, peers[u], T, R)'
  <2>1. peers[u].conn \in 1..nconn /\ Mark(peers[u].conn, peers[u], T, R)
    BY <1>1, <1>6 DEF Marked, Signalled, MediaOK, PeersOK, PeerRec
  <2> QED
    BY <1>1, <1>3, <2>1 DEF Mark
<1> QED
  BY <1>4, <1>5, <1>6 DEF Marked, Described

RoomAgrees(T2, T) ==
  \/ T2 = T /\ nextSig' = nextSig
  \/ nextSig' = nextSig + 1 /\ Extends(T2, T, Head(roomq).tag)

(* What the strand sends has the tag that its signal id stands for.        *)
LEMMA RoomMarks ==
  ASSUME NEW T, Signalled(T), AnswersOK(T), NEW R, Marked(T, R), RoomStep,
         NEW T2, RoomAgrees(T2, T)
  PROVE  Marked(T2, R)'
<1>1. roomq # <<>> /\ UNCHANGED <<fifo, peers, econn>>
  BY DEF RoomStep
<1>2. nextSig \in Nat \ {0}
  BY DEF Signalled, Connected
<1>3. Agrees(T2, T)
  BY <1>1, <1>2 DEF RoomAgrees, Extends, Agrees
<1>4. PICK o, s : o = Head(roomq) /\ s = o.session
  OBVIOUS
<1>5. RequestOK(o, T) /\ 1 \in 1..Len(roomq) /\ o = roomq[1]
  BY <1>1, <1>4, RoomHead DEF Signalled
<1>6. CASE wire' = wire
  BY <1>1, <1>3, <1>6, MarkedKept DEF Marked
<1>7. CASE \E e, f : Send(e, f) /\ (Described(f) => Tagged(f, T))
  BY <1>1, <1>3, <1>7, SendMarks
<1>8. CASE o.t \in {"answer", "candidate"} /\ Relay(o)
  <2>1. CASE wire' = wire
    BY <1>6, <2>1
  <2>2. CASE wire' # wire
    <3>1. PICK e, f : /\ Send(e, f) /\ f = Frame(o.t, sig[s], s[1], o.tag, o.re)
                      /\ sig[s] # 0
      BY <1>4, <1>8, <2>2 DEF Relay
    <3>2. f.type = o.t /\ f.sig = sig[s] /\ f.tag = o.tag
      BY <3>1 DEF Frame
    <3>3. sig[s] \in 1..(nextSig - 1)
      <4>1. sig[s] \in 0..(nextSig - 1)
        BY <1>4, <1>5 DEF Signalled, BindingsOK, RequestOK
      <4> QED
        BY <1>2, <3>1, <4>1
    <3>4. o.t = "answer" => T[sig[s]] = o.tag
      BY <1>4, <1>5, <3>1 DEF AnswersOK, AnswerOK
    <3>5. Described(f) => Tagged(f, T)
      BY <1>8, <3>2, <3>3, <3>4 DEF Described, Tagged
    <3> QED
      BY <1>7, <3>1, <3>5
  <2> QED
    BY <2>1, <2>2
<1>9. CASE Release(o) \/ JoinMeeting(o)
  <2>1. wire' = wire \/ \E e, f : Send(e, f) /\ f.type = "leave"
    BY <1>9 DEF Release, JoinMeeting, ReleaseMediaSession, Frame
  <2> QED
    BY <1>6, <1>7, <2>1 DEF Described
<1>10. CASE MediaOffer(o) \/ MediaRefused(o) \/ MediaResponse(o)
  BY <1>6, <1>10 DEF MediaOffer, MediaRefused, MediaResponse
<1> QED
  BY <1>4, <1>8, <1>9, <1>10 DEF RoomStep, MediaAnswer, MediaCandidate

(* The offer that MediaOfferHandler sends is marked.                       *)
LEMMA OfferMarks ==
  ASSUME NEW T, Signalled(T), NEW R, Marked(T, R), MediaOfferSend
  PROVE  Marked(T, R)'
<1>1. PICK o, f : o = op[1] /\ f = Frame("offer", o.id, o.session[1], o.tag, 0)
  OBVIOUS
<1>2. op # <<>> /\ Send(o.epoch, f) /\ UNCHANGED <<fifo, peers, econn, nextSig>>
  BY <1>1 DEF MediaOfferSend
<1>3. f.sig = o.id /\ f.tag = o.tag
  BY <1>1 DEF Frame
<1>4. Tagged(f, T)
  BY <1>1, <1>2, <1>3 DEF Tagged, Signalled, OpOK
<1> QED
  BY <1>2, <1>4, AgreesItself, SendMarks

(* A frame keeps its mark from the wire to the FIFO.                       *)
LEMMA ReadMarks ==
  ASSUME NEW T, Signalled(T), NEW R, Marked(T, R), HandleRead, UNCHANGED realtimeVars
  PROVE  Marked(T, R)'
<1>1. UNCHANGED <<peers, econn, nextSig>>
  BY DEF HandleRead, realtimeVars, udsVars, signalVars
<1>2. serving \in Conns /\ wire[serving] # <<>>
  BY ConnectedIs DEF HandleRead, Signalled, Connected
<1>3. PICK c, m : c = serving /\ m = Head(wire[serving])
  OBVIOUS
<1>4. PICK e : e = [t |-> "signal", conn |-> serving, type |-> m.type, sig |-> m.sig,
                    uid |-> m.uid, tag |-> m.tag, re |-> m.re]
  OBVIOUS
<1>5. fifo' = Append(fifo, e) /\ wire' = [wire EXCEPT ![c] = Tail(@)]
  BY <1>3, <1>4 DEF HandleRead
<1>6. PICK q : q = Tail(wire[c])
  OBVIOUS
<1>7. /\ 1 \in 1..Len(wire[c]) /\ m = wire[c][1]
      /\ \A i \in 1..Len(q) :
            i \in Nat /\ i # 0 /\ i + 1 \in 1..Len(wire[c]) /\ q[i] = wire[c][i + 1]
  BY <1>2, <1>3, <1>6, QueuesAre, TailAt
<1>8. \A b \in Conns : wire'[b] = IF b = c THEN q ELSE wire[b]
  BY <1>5, <1>6, QueuesAre
<1>9. Described(e) => Mark(e.conn, e, T, R)
  <2>1. Described(m) => Mark(c, m, T, R)
    BY <1>2, <1>3, <1>7 DEF Marked
  <2>2. e.conn = c /\ e.type = m.type /\ e.sig = m.sig /\ e.tag = m.tag
    BY <1>3, <1>4
  <2> QED
    BY <2>1, <2>2 DEF Mark, Tagged, Described
<1>10. ASSUME NEW i \in 1..Len(fifo'), fifo'[i].t = "signal", Described(fifo'[i])
       PROVE  Mark(fifo'[i].conn, fifo'[i], T, R)
  <2>1. (i \in 1..Len(fifo) /\ fifo'[i] = fifo[i]) \/ fifo'[i] = e
    BY <1>5, QueuesAre, AppendAt
  <2> QED
    BY <1>9, <1>10, <2>1 DEF Marked
<1>11. ASSUME NEW b \in Conns, NEW i \in 1..Len(wire'[b]), Described(wire'[b][i])
       PROVE  Mark(b, wire'[b][i], T, R)
  BY <1>7, <1>8, <1>11 DEF Marked
<1>12. \A u \in Users : peers'[u] # NoPeer => Mark(peers'[u].conn, peers'[u], T, R)
  BY <1>1 DEF Marked
<1> QED
  BY <1>1, <1>10, <1>11, <1>12, AgreesItself, MarkedKept

(* What is appended is no description, what is taken from the wire is gone. *)
LEMMA LessMarks ==
  ASSUME NEW T, Signalled(T), NEW R, Marked(T, R), UNCHANGED <<econn, nextSig>>,
         \A b \in Conns : \A i \in 1..Len(wire'[b]) :
           i \in 1..Len(wire[b]) /\ wire'[b][i] = wire[b][i],
         \A i \in 1..Len(fifo') :
           (\E j \in 1..Len(fifo) : fifo'[i] = fifo[j]) \/ fifo'[i].t # "signal",
         \A u \in Users : peers'[u] # NoPeer => Mark(peers'[u].conn, peers'[u], T, R)
  PROVE  Marked(T, R)'
<1>1. \A b \in Conns : \A i \in 1..Len(wire'[b]) :
        Described(wire'[b][i]) => Mark(b, wire'[b][i], T, R)
  BY DEF Marked
<1>2. \A i \in 1..Len(fifo') :
        fifo'[i].t = "signal" /\ Described(fifo'[i]) => Mark(fifo'[i].conn, fifo'[i], T, R)
  BY DEF Marked
<1> QED
  BY <1>1, <1>2, AgreesItself, MarkedKept

(* MediaServer's socket steps, candidates and restart keep the marks.      *)
LEMMA ServerMarks ==
  ASSUME NEW T, Signalled(T), NEW R, Marked(T, R), ServerStep \/ ServerCandidate \/ Restart
  PROVE  Marked(T, R)'
<1>1. UNCHANGED <<econn, nextSig>> /\ UNCHANGED realtimeVars
  BY DEF ServerStep, ServerCandidate, Restart, realtimeVars, udsVars, signalVars
<1>2. CASE Accept
  BY <1>1, <1>2, MarksStay DEF Accept
<1>3. CASE HandleRead
  BY <1>1, <1>3, ReadMarks
<1>4. CASE \E ended : EndConnection(ended)
  <2>1. serving \in Conns
    BY <1>4, ConnectedIs DEF EndConnection, Signalled, Connected
  <2>2. wire' = [wire EXCEPT ![serving] = <<>>] /\ peers' = peers
    BY <1>4 DEF EndConnection
  <2>3. \A b \in Conns : \A i \in 1..Len(wire'[b]) :
          i \in 1..Len(wire[b]) /\ wire'[b][i] = wire[b][i]
    BY <2>1, <2>2, CutAt
  <2>4. PICK e : e = [t |-> "gone", conn |-> serving]
    OBVIOUS
  <2>5. e.t # "signal" /\ (fifo' = fifo \/ fifo' = Append(fifo, e))
    BY <1>4, <2>4 DEF EndConnection
  <2>6. \A i \in 1..Len(fifo') : (\E j \in 1..Len(fifo) : fifo'[i] = fifo[j]) \/ fifo'[i].t # "signal"
    BY <2>5, QueuesAre, AppendAt
  <2> QED
    BY <1>1, <2>2, <2>3, <2>6, LessMarks DEF Marked
<1>5. CASE ServerCandidate
  <2>1. PICK u \in Users : LocalCandidate(u)
    BY <1>5 DEF ServerCandidate
  <2>2. PICK e : e = LocalSignal(u, peers[u], "candidate")
    OBVIOUS
  <2>3. e.t # "signal" /\ fifo' = Append(fifo, e) /\ UNCHANGED <<wire, peers>>
    BY <2>1, <2>2 DEF LocalCandidate, LocalSignal
  <2>4. \A i \in 1..Len(fifo') : (\E j \in 1..Len(fifo) : fifo'[i] = fifo[j]) \/ fifo'[i].t # "signal"
    BY <2>3, QueuesAre, AppendAt
  <2> QED
    BY <1>1, <2>3, <2>4, LessMarks DEF Marked
<1>6. CASE Restart
  <2>1. fifo' = <<>> /\ peers' = [u \in Users |-> NoPeer] /\ wire' = [c \in Conns |-> <<>>]
    BY <1>6 DEF Restart, MediaRestart
  <2> QED
    BY <1>1, <2>1, EmptyIs, LessMarks
<1> QED
  BY <1>2, <1>3, <1>4, <1>5, <1>6 DEF ServerStep

(* MediaServer's steps keep the marks.                                     *)
LEMMA RoomEventMarks ==
  ASSUME NEW T, Signalled(T), Tokens, NEW R, Marked(T, R), RoomEvent
  PROVE  Marked(T, R)'
<1>1. PICK throws \in BOOLEAN : HandleRoomEvent(throws) /\ UNCHANGED realtimeVars
  BY DEF RoomEvent
<1>2. UNCHANGED <<wire, econn, nextSig>>
  BY <1>1 DEF HandleRoomEvent, realtimeVars, udsVars, signalVars
<1>3. PICK e : e = Head(fifo)
  OBVIOUS
<1>4. fifo # <<>> /\ Handled(e)
  BY <1>1, <1>3, EventHandled
<1>5. /\ 1 \in 1..Len(fifo) /\ e = fifo[1] /\ IsSeq(Tail(fifo))
      /\ \A i \in 1..Len(Tail(fifo)) : \E j \in 1..Len(fifo) : Tail(fifo)[i] = fifo[j]
  <2>1. IsSeq(fifo)
    BY QueuesAre
  <2>2. /\ 1 \in 1..Len(fifo) /\ Head(fifo) = fifo[1]
        /\ \A i \in 1..Len(Tail(fifo)) : i + 1 \in 1..Len(fifo) /\ Tail(fifo)[i] = fifo[i + 1]
    BY <1>4, <2>1, TailAt
  <2>3. IsSeq(Tail(fifo))
    BY <1>4, <2>1, TailIs
  <2> QED
    BY <1>3, <2>2, <2>3
<1>6. CASE fifo' = Tail(fifo) /\ peers' = peers
  BY <1>2, <1>5, <1>6, LessMarks DEF Marked
<1>7. CASE \E t : Outcome(t, e) /\ Finish(t)
  <2>1. PICK t : Outcome(t, e) /\ Finish(t)
    BY <1>7
  <2>2. fifo' = Tail(fifo) \o t.post /\ peers' = t.peers
    BY <2>1 DEF Finish, SetTables
  <2>3. PICK q, r : q = Tail(fifo) /\ r = t.post
    OBVIOUS
  <2>4. IsSeq(q) /\ IsSeq(r) /\ Notices(r)
    BY <1>5, <2>1, <2>3 DEF Outcome, Shaped
  <2>5. PICK w : w = q \o r
    OBVIOUS
  <2>6. \A i \in 1..Len(fifo') :
          (\E j \in 1..Len(fifo) : fifo'[i] = fifo[j]) \/ fifo'[i].t # "signal"
    <3>1. ASSUME NEW i \in 1..Len(w)
          PROVE  (\E j \in 1..Len(q) : w[i] = q[j]) \/ (\E j \in 1..Len(r) : w[i] = r[j])
      <4>1. i \in 1..Len(q \o r)
        BY <2>5, <3>1
      <4>2. (\E j \in 1..Len(q) : (q \o r)[i] = q[j]) \/ (\E j \in 1..Len(r) : (q \o r)[i] = r[j])
        <5>1. IsSeq(q) /\ IsSeq(r)
          BY <2>4
        <5> QED
          BY <4>1, <5>1, ConcatFrom
      <4> QED
        BY <2>5, <4>2
    <3>2. \A j \in 1..Len(r) : r[j].t # "signal"
      BY <2>4 DEF Notices, IsNotice
    <3>3. \A j \in 1..Len(q) : \E k \in 1..Len(fifo) : q[j] = fifo[k]
      BY <1>5, <2>3
    <3>4. \A i \in 1..Len(w) : (\E k \in 1..Len(fifo) : w[i] = fifo[k]) \/ w[i].t # "signal"
      BY <3>1, <3>2, <3>3
    <3>5. fifo' = w
      BY <2>2, <2>3, <2>5
    <3> QED
      BY <3>4, <3>5
  <2>7. ASSUME NEW u \in Users, peers'[u] # NoPeer
        PROVE  Mark(peers'[u].conn, peers'[u], T, R)
    <3>1. CASE peers[u] # NoPeer /\ Same(t.peers[u], peers[u])
      BY <2>2, <3>1 DEF Marked, Mark, Tagged, Same
    <3>2. CASE FreshPeer(u, t.peers[u], e)
      <4>1. Mark(e.conn, e, T, R)
        BY <1>5, <3>2 DEF Marked, FreshPeer, Described
      <4> QED
        BY <2>2, <3>2, <4>1 DEF FreshPeer, Mark, Tagged
    <3> QED
      BY <2>1, <2>2, <2>7, <3>1, <3>2 DEF Outcome
  <2> QED
    BY <1>2, <2>6, <2>7, LessMarks
<1> QED
  BY <1>4, <1>6, <1>7 DEF Handled

(* Every other step keeps the marks, for some R.                           *)
LEMMA NextMarks ==
  ASSUME NEW T, Signalled(T), Tokens, NEW R, Marked(T, R), [Next]_vars, ~RoomStep
  PROVE  \E R2 : Marked(T, R2)'
<1>1. CASE UNCHANGED <<econn, nextSig, wire, fifo, peers>>
  BY <1>1, MarksStay
<1>2. CASE RoomEvent \/ ServerStep \/ ServerCandidate \/ Restart
  BY <1>2, RoomEventMarks, ServerMarks
<1>3. CASE \E u \in Users :
             OpenCamera(u) \/ ClientCandidate(u) \/ LeaveMeeting(u) \/ Rejoin(u)
             \/ LoseConnection(u) \/ ClientReceive(u)
  BY <1>1, <1>3 DEF OpenCamera, ClientCandidate, LeaveMeeting, Rejoin, LoseConnection,
                    ClientReceive, mediaVars, udsVars, signalVars
<1>4. CASE Connect
  BY <1>4, ConnectMarks
<1>5. CASE Disconnect
  <2>1. PICK q \in Cut(wire[econn]) : wire' = [wire EXCEPT ![econn] = q]
    BY <1>5 DEF Disconnect
  <2>2. econn \in Conns
    BY <1>5, ConnectedIs DEF Disconnect, Signalled, Connected
  <2>3. \A b \in Conns : \A i \in 1..Len(wire'[b]) :
          i \in 1..Len(wire[b]) /\ wire'[b][i] = wire[b][i]
    BY <2>1, <2>2, CutAt
  <2>4. econn' = 0 /\ UNCHANGED <<fifo, peers>>
    BY <1>5 DEF Disconnect
  <2> QED
    BY <2>3, <2>4, MarksAbsorbed
<1>6. CASE RealtimeRestart
  <2>1. \A b \in Conns : \A i \in 1..Len(wire'[b]) :
          i \in 1..Len(wire[b]) /\ wire'[b][i] = wire[b][i]
    <3>1. CASE econn = 0
      BY <1>6, <3>1 DEF RealtimeRestart
    <3>2. CASE econn # 0
      <4>1. PICK q \in Cut(wire[econn]) : wire' = [wire EXCEPT ![econn] = q]
        BY <1>6, <3>2 DEF RealtimeRestart
      <4>2. econn \in Conns
        BY <3>2, ConnectedIs DEF Signalled
      <4> QED
        BY <4>1, <4>2, CutAt
    <3> QED
      BY <3>1, <3>2
  <2>2. econn' = 0 /\ UNCHANGED <<fifo, peers>>
    BY <1>6 DEF RealtimeRestart
  <2> QED
    BY <2>1, <2>2, MarksAbsorbed
<1>7. CASE ControlStep
  BY <1>1, <1>7 DEF ControlStep
<1>8. CASE MediaOfferSend
  BY <1>8, OfferMarks
<1>9. CASE RtpStep \/ UNCHANGED vars
  BY <1>1, <1>9 DEF RtpStep, ForwardRtp, ForwardTo, realtimeVars, vars, mediaVars, udsVars,
                    signalVars
<1> QED
  BY <1>2, <1>3, <1>4, <1>5, <1>6, <1>7, <1>8, <1>9 DEF Next, Progress

(* Every PeerConnection of a client has at most one offer, answer or turn  *)
(* on the whole path.                                                      *)
TokenInv == \E T, R : Signalled(T) /\ Tokens /\ AnswersOK(T) /\ Marked(T, R)

(* Every step keeps the invariant.                                         *)
LEMMA TokenStep == ASSUME TokenInv, [Next]_vars PROVE TokenInv'
<1>1. PICK T, R : Signalled(T) /\ Tokens /\ AnswersOK(T) /\ Marked(T, R)
  BY DEF TokenInv
<1>2. Tokens'
  BY <1>1, NextTokens
<1>3. CASE RoomStep
  <2>1. PICK T2 : Signalled(T2)' /\ RoomAgrees(T2, T)
    BY <1>1, <1>3, RoomStepKeeps DEF RoomAgrees
  <2>2. Marked(T2, R)'
    BY <1>1, <1>3, <2>1, RoomMarks
  <2>3. AnswersOK(T2)'
    BY <1>1, <1>3, <2>1, RoomAnswers DEF RoomAgrees
  <2> QED
    BY <1>2, <2>1, <2>2, <2>3 DEF TokenInv
<1>4. CASE ~RoomStep
  <2>1. Signalled(T)' /\ AnswersOK(T)'
    BY <1>1, <1>4, StepKeeps, NextAnswers
  <2>2. PICK R2 : Marked(T, R2)'
    BY <1>1, <1>4, NextMarks
  <2> QED
    BY <1>2, <2>1, <2>2 DEF TokenInv
<1> QED
  BY <1>3, <1>4

(* It holds at first: the one session has the token of its client.         *)
LEMMA TokenInit == Init => TokenInv
<1>1. SUFFICES ASSUME Init PROVE TokenInv
  OBVIOUS
<1>2. PICK T : Signalled(T)
  BY <1>1, InitHolds DEF SignalInv
<1>3. /\ wire = [c \in Conns |-> <<>>] /\ control = <<>> /\ fifo = <<>> /\ roomq = <<>>
      /\ op = <<>> /\ toClient = [u \in Users |-> <<>>] /\ econn = 1 /\ pcs = 1
      /\ nextSig = 2
  BY <1>1 DEF Init, MediaInit
<1>4. PICK p : p = [NewPeer(1, 1, 1, 1) EXCEPT !.init = TRUE]
  OBVIOUS
<1>5. /\ peers = [u \in Users |-> IF u = First THEN p ELSE NoPeer]
      /\ p.conn = 1 /\ p.sig = 1 /\ p.tag = 1
  BY <1>1, <1>4 DEF Init, MediaInit, NewPeer
<1>6. \A k, a, i, g : At(k, a, i, g) => k = "peer" /\ a = First /\ i = 0 /\ g = 1
  BY <1>3, <1>5, EmptyIs DEF At
<1>7. Tokens
  BY <1>3, <1>6 DEF Tokens, OneToken, TagsKnown
<1>8. AnswersOK(T)
  BY <1>3, EmptyIs DEF AnswersOK
<1>9. ASSUME NEW R PROVE Marked(T, R)
  <2>1. \A u \in Users : peers[u] # NoPeer => Mark(peers[u].conn, peers[u], T, R)
    BY <1>2, <1>3, <1>5 DEF Signalled, MediaOK, PeersOK, PeerRec, Mark
  <2> QED
    BY <1>3, <2>1, EmptyIs DEF Marked
<1> QED
  BY <1>2, <1>7, <1>8, <1>9 DEF TokenInv

(* Offers, answers and turns: each PeerConnection has one at most over     *)
(* RealtimeServer's strand and threads, the UDS connection, MediaServer's  *)
(* FIFO and its client, through losses, leaves and restarts of either      *)
(* server.                                                                 *)
THEOREM TokenInvariant == Spec => []TokenInv
<1>1. TokenInv /\ [Next]_vars => TokenInv'
  BY TokenStep
<1> QED
  BY TokenInit, <1>1, PTL DEF Spec

(* A media session has at most one offer outstanding over every queue of   *)
(* the path, and none when it does not wait for an answer: neither a       *)
(* renegotiation, nor a session replaced by a new offer, nor a lost        *)
(* connection or a restart of either server makes a second one.            *)
THEOREM OneOfferHolds == Spec => []OneOfferOutstanding
<1>1. TokenInv => OneOfferOutstanding
  BY OneOutstanding DEF TokenInv, Tokens
<1> QED
  BY TokenInvariant, <1>1, PTL

-----------------------------------------------------------------------------
(* What RealtimeServer has forgotten is on its way to MediaServer as a     *)
(* leave, as long as the connection holds: the signal table, the epochs    *)
(* and the offers under way first.                                         *)

(* The event of the connection numbered e.epoch.                           *)
Timely(e) == e.epoch \in Nat /\ e.epoch <= epoch /\ (e.t # "up" /\ connected => e.epoch < epoch)

Epochs ==
  /\ active # 0 => active = epoch
  /\ mediaEpoch \in Nat /\ mediaEpoch <= epoch
  /\ \A i \in 1..Len(control) : control[i].t # "message" => Timely(control[i])

(* The table of signals.                                                   *)
Table ==
  /\ DOMAIN signals \subseteq 1..(nextSig - 1)
  /\ \A id \in DOMAIN signals : signals[id].epoch = mediaEpoch
  /\ \A s \in Sessions : sig[s] \in DOMAIN signals => signals[sig[s]].session = s

(* A session that makes an offer has no signal id.                         *)
Offers ==
  \A i \in 1..Len(roomq) : roomq[i].t = "offer" =>
    /\ sig[roomq[i].session] = 0
    /\ \A j \in 1..Len(roomq) : Named(roomq[j], "offer", roomq[i].session) => j = i

(* RealtimeServer uses the signal id for a session of u that is there.     *)
Known(id, u) ==
  /\ id \in DOMAIN signals /\ signals[id].session[1] = u
  /\ Bound(signals[id].session) /\ sig[signals[id].session] = id

(* The offer between RegisterSignal and SendMediaSignal.                   *)
OfferKnown ==
  op # <<>> =>
    /\ op[1].epoch \in Nat /\ op[1].epoch <= mediaEpoch
    /\ sig[op[1].session] \in {0, op[1].id}
    /\ op[1].id \in DOMAIN signals => op[1].epoch = mediaEpoch
    /\ IsCurrent(op[1].epoch) => Known(op[1].id, op[1].session[1])

(* A session of MediaServer ends with its connection.                      *)
PeersServed ==
  \A u \in Users : peers[u] # NoPeer =>
    /\ peers[u].conn \in remembered
    /\ \/ peers[u].conn = serving
       \/ \E i \in 1..Len(fifo) : fifo[i].t = "gone" /\ fifo[i].conn = peers[u].conn

SignalsServed ==
  \A i \in 1..Len(fifo) : fifo[i].t = "signal" =>
    fifo[i].conn \in remembered /\ (fifo[i].conn = serving \/ fifo[i].conn \in stopped)

(* A leave on its way to MediaServer, on the connection of the epoch,      *)
(* after the i-th event or frame.                                          *)
IsLeave(m, id, u) == m.type = "leave" /\ m.sig = id /\ m.uid = u

FifoLeave(i, id, u) ==
  \E j \in 1..Len(fifo) :
    j > i /\ fifo[j].t = "signal" /\ fifo[j].conn = econn /\ IsLeave(fifo[j], id, u)

WireLeave(i, id, u) == \E j \in 1..Len(wire[econn]) : j > i /\ IsLeave(wire[econn][j], id, u)

(* The session of u with the signal id is known, or its leave comes after  *)
(* the i-th event of the FIFO.                                             *)
LeftAfter(i, id, u) == Known(id, u) \/ FifoLeave(i, id, u) \/ WireLeave(0, id, u)

(* Or after the i-th frame of the connection.                              *)
LeftBehind(i, id, u) == Known(id, u) \/ WireLeave(i, id, u)

IsOffer(e) == e.t = "signal" /\ e.type = "offer" /\ e.conn = econn

PeersKept ==
  \A u \in Users : peers[u] # NoPeer /\ peers[u].conn = econn => LeftAfter(0, peers[u].sig, u)

FifoKept ==
  \A i \in 1..Len(fifo) : IsOffer(fifo[i]) => LeftAfter(i, fifo[i].sig, fifo[i].uid)

WireKept ==
  \A i \in 1..Len(wire[econn]) : wire[econn][i].type = "offer" =>
    LeftBehind(i, wire[econn][i].sig, wire[econn][i].uid)

(* MediaServer has, or will have, a session of the connection.             *)
Used ==
  \/ \E u \in Users : peers[u] # NoPeer /\ peers[u].conn = econn
  \/ \E i \in 1..Len(fifo) : IsOffer(fifo[i])
  \/ wire[econn] # <<>>

Healthy == econn # 0 /\ connected /\ econn \notin stopped

Kept == Healthy => PeersKept /\ FifoKept /\ WireKept /\ (Used => mediaEpoch = epoch)

(* The events of the room neither touch RealtimeServer nor open anything.  *)
LEMMA RoomEventSends ==
  ASSUME TokenInv, RoomEvent
  PROVE  /\ UNCHANGED realtimeVars
         /\ control' = control \/ \E e : e.t = "message" /\ control' = Append(control, e)
<1>1. PICK throws \in BOOLEAN : HandleRoomEvent(throws) /\ UNCHANGED realtimeVars
  BY DEF RoomEvent
<1>2. PICK T, R : Signalled(T) /\ Tokens /\ Marked(T, R)
  BY DEF TokenInv
<1>3. Handled(Head(fifo))
  BY <1>1, <1>2, EventHandled
<1>4. ASSUME NEW c, NEW m, SendBack(c, m)
      PROVE  control' = control \/ \E e : e.t = "message" /\ control' = Append(control, e)
  <2>1. PICK e : e = [t |-> "message", conn |-> c, m |-> m]
    OBVIOUS
  <2>2. e.t = "message" /\ (control' = control \/ control' = Append(control, e))
    BY <1>4, <2>1 DEF SendBack
  <2> QED
    BY <2>2
<1> QED
  BY <1>1, <1>3, <1>4 DEF Handled

LEMMA EpochsStay ==
  ASSUME Epochs, UNCHANGED <<active, epoch>>, (connected' => connected),
         mediaEpoch' \in Nat, mediaEpoch' <= epoch,
         \A i \in 1..Len(control') :
           (\E j \in 1..Len(control) : control'[i] = control[j]) \/ control'[i].t = "message"
  PROVE  Epochs'
<1>1. ASSUME NEW i \in 1..Len(control'), control'[i].t # "message" PROVE Timely(control[i])'
  <2>1. PICK j \in 1..Len(control) : control'[i] = control[j]
    BY <1>1
  <2>2. Timely(control[j])
    BY <1>1, <2>1 DEF Epochs
  <2> QED
    BY <2>1, <2>2 DEF Timely
<1> QED
  BY <1>1 DEF Epochs

(* The epochs of the connections.                                          *)
LEMMA EpochsStep ==
  ASSUME TokenInv, Epochs, [Next]_vars
  PROVE  Epochs'
<1>1. PICK T : Signalled(T)
  BY DEF TokenInv
<1>2. IsSeq(control) /\ epoch \in Nat /\ mediaEpoch \in Nat /\ mediaEpoch <= epoch
  BY <1>1, QueuesAre DEF Signalled, Connected, Epochs
<1>3. CASE UNCHANGED <<control, active, epoch, connected, mediaEpoch>>
  BY <1>2, <1>3, EpochsStay
<1>4. CASE RoomEvent
  <2>1. UNCHANGED <<active, epoch, connected, mediaEpoch>>
    BY <1>4, RoomEventSends DEF realtimeVars, udsVars, signalVars
  <2>2. ASSUME NEW e, e.t = "message", control' = Append(control, e) PROVE Epochs'
    BY <1>2, <2>1, <2>2, AppendFrom, EpochsStay
  <2> QED
    BY <1>3, <1>4, <2>1, <2>2, RoomEventSends
<1>5. CASE Connect
  <2>1. PICK e : e = [t |-> "up", conn |-> nconn + 1, epoch |-> epoch + 1]
    OBVIOUS
  <2>2. /\ control' = Append(control, e) /\ epoch' = epoch + 1 /\ active' = epoch + 1
        /\ connected' = TRUE /\ mediaEpoch' = mediaEpoch
    BY <1>5, <2>1 DEF Connect, signalVars
  <2>3. ASSUME NEW i \in 1..Len(control'), control'[i].t # "message" PROVE Timely(control[i])'
    <3>1. CASE control'[i] = e
      BY <1>2, <2>1, <2>2, <3>1 DEF Timely
    <3>2. CASE \E j \in 1..Len(control) : control'[i] = control[j]
      <4>1. PICK j \in 1..Len(control) : control'[i] = control[j]
        BY <3>2
      <4>2. Timely(control[j])
        BY <2>3, <4>1 DEF Epochs
      <4> QED
        BY <1>2, <2>2, <4>1, <4>2 DEF Timely
    <3> QED
      BY <1>2, <2>2, <2>3, <3>1, <3>2, AppendFrom
  <2> QED
    BY <1>2, <2>2, <2>3 DEF Epochs
<1>6. CASE Disconnect
  <2>1. PICK e : e = [t |-> "down", conn |-> econn, epoch |-> active]
    OBVIOUS
  <2>2. /\ control' = Append(control, e) /\ epoch' = epoch /\ active' = 0 /\ active # 0
        /\ connected' = FALSE /\ mediaEpoch' = mediaEpoch
    BY <1>6, <2>1 DEF Disconnect, signalVars
  <2>3. ASSUME NEW i \in 1..Len(control'), control'[i].t # "message" PROVE Timely(control[i])'
    <3>1. CASE control'[i] = e
      BY <1>2, <2>1, <2>2, <3>1 DEF Timely, Epochs
    <3>2. CASE \E j \in 1..Len(control) : control'[i] = control[j]
      <4>1. PICK j \in 1..Len(control) : control'[i] = control[j]
        BY <3>2
      <4>2. Timely(control[j])
        BY <2>3, <4>1 DEF Epochs
      <4> QED
        BY <2>2, <4>1, <4>2 DEF Timely
    <3> QED
      BY <1>2, <2>2, <2>3, <3>1, <3>2, AppendFrom
  <2> QED
    BY <1>2, <2>2, <2>3 DEF Epochs
<1>7. CASE ControlStep
  <2>1. PICK e : e = Head(control)
    OBVIOUS
  <2>2. /\ control # <<>> /\ control' = Tail(control) /\ UNCHANGED <<epoch, active>>
        /\ (connected' => connected)
        /\ mediaEpoch' = mediaEpoch \/ (e.t # "message" /\ AcceptMediaEvent(e))
    BY <1>1, <1>7, <2>1 DEF ControlStep, Signalled, Connected
  <2>3. /\ \A i \in 1..Len(control') : \E j \in 1..Len(control) : control'[i] = control[j]
        /\ 1 \in 1..Len(control) /\ e = control[1]
    BY <1>2, <2>1, <2>2, TailAt
  <2>4. mediaEpoch' \in Nat /\ mediaEpoch' <= epoch
    <3>1. CASE mediaEpoch' = mediaEpoch
      BY <1>2, <3>1
    <3>2. CASE e.t # "message" /\ mediaEpoch' = e.epoch
      BY <2>3, <3>2 DEF Epochs, Timely
    <3> QED
      BY <2>2, <3>1, <3>2 DEF AcceptMediaEvent
  <2> QED
    BY <2>2, <2>3, <2>4, EpochsStay
<1>8. CASE MediaOfferSend \/ RoomStep
  <2>1. UNCHANGED <<control, active, epoch, mediaEpoch>>
    BY <1>8 DEF MediaOfferSend, RoomStep
  <2>2. (connected' => connected)
    <3>1. \A e, f : Send(e, f) => (connected' => connected)
      BY DEF Send
    <3> QED
      BY <1>8, <3>1 DEF MediaOfferSend, RoomStep, MediaOffer, MediaAnswer, MediaCandidate,
                        Relay, MediaRefused, Release, ReleaseMediaSession, JoinMeeting,
                        MediaResponse
  <2> QED
    BY <1>2, <2>1, <2>2, EpochsStay
<1>9. CASE RealtimeRestart
  <2>1. control' = <<>> /\ epoch' = 0 /\ active' = 0 /\ mediaEpoch' = 0
    BY <1>9 DEF RealtimeRestart
  <2> QED
    BY <2>1, EmptyIs DEF Epochs
<1>10. CASE ServerStep \/ ServerCandidate \/ RtpStep \/ Restart \/ UNCHANGED vars
  BY <1>3, <1>10 DEF ServerStep, ServerCandidate, RtpStep, Restart, realtimeVars, udsVars,
     signalVars, vars, mediaVars, Accept, HandleRead, EndConnection, LocalCandidate,
     ForwardRtp, ForwardTo, MediaRestart
<1>11. CASE \E u \in Users :
             OpenCamera(u) \/ ClientCandidate(u) \/ LeaveMeeting(u) \/ Rejoin(u)
             \/ LoseConnection(u) \/ ClientReceive(u)
  BY <1>3, <1>11 DEF OpenCamera, ClientCandidate, LeaveMeeting, Rejoin, LoseConnection,
     ClientReceive, mediaVars, udsVars, signalVars
<1> QED
  BY <1>4, <1>5, <1>6, <1>7, <1>8, <1>9, <1>10, <1>11 DEF Next, Progress

LEMMA TableStays == ASSUME Table, UNCHANGED <<signals, sig, mediaEpoch, nextSig>> PROVE Table'
BY DEF Table

(* A signal is forgotten.                                                  *)
LEMMA TableDrops ==
  ASSUME NEW T, Signalled(T), Table, UNCHANGED <<mediaEpoch, nextSig>>, NEW id, NEW s,
         signals' = Without(signals, id), sig' = [sig EXCEPT ![s] = 0]
  PROVE  Table'
<1>1. /\ DOMAIN signals' \subseteq DOMAIN signals
      /\ \A i \in DOMAIN signals' : signals'[i] = signals[i]
  BY DEF Without
<1>2. \A r \in Sessions : sig'[r] \in {0, sig[r]}
  BY DEF Signalled, BindingsOK
<1>3. 0 \notin DOMAIN signals'
  BY <1>1 DEF Table, Signalled, Connected
<1> QED
  BY <1>1, <1>2, <1>3 DEF Table

LEMMA TableReleased ==
  ASSUME NEW T, Signalled(T), Table, UNCHANGED <<mediaEpoch, nextSig>>, NEW s,
         ReleaseMediaSession(s)
  PROVE  Table'
<1>1. signals' = Without(signals, sig[s]) /\ sig' = [sig EXCEPT ![s] = 0]
  BY DEF ReleaseMediaSession
<1> QED
  BY <1>1, TableDrops

(* RegisterSignal: the session has a new signal id.                        *)
LEMMA Registered ==
  ASSUME NEW T, Signalled(T), Table, NEW s \in Sessions,
         signals' = With(Without(signals, sig[s]), nextSig, [session |-> s, epoch |-> mediaEpoch]),
         sig' = [sig EXCEPT ![s] = nextSig], nextSig' = nextSig + 1, mediaEpoch' = mediaEpoch
  PROVE  /\ Table'
         /\ nextSig \in DOMAIN signals' /\ signals'[nextSig].session = s /\ sig'[s] = nextSig
         /\ \A r \in Sessions : r # s => sig'[r] = sig[r] /\ sig[r] # nextSig
         /\ \A id \in DOMAIN signals :
              id # sig[s] => id \in DOMAIN signals' /\ signals'[id] = signals[id]
<1>1. nextSig \in Nat \ {0} /\ sig \in [Sessions -> 0..(nextSig - 1)]
  BY DEF Signalled, Connected, BindingsOK
<1>2. PICK b : b = [session |-> s, epoch |-> mediaEpoch]
  OBVIOUS
<1>3. /\ DOMAIN signals' = (DOMAIN signals \ {sig[s]}) \cup {nextSig}
      /\ signals'[nextSig] = b
      /\ \A i \in DOMAIN signals \ {sig[s]} : i # nextSig => signals'[i] = signals[i]
  BY <1>2 DEF With, Without
<1>4. nextSig \notin DOMAIN signals
  BY <1>1 DEF Table
<1>5. sig'[s] = nextSig /\ \A r \in Sessions : r # s => sig'[r] = sig[r] /\ sig[r] # nextSig
  BY <1>1
<1>6. \A i \in DOMAIN signals' : i = nextSig \/ (i \in DOMAIN signals /\ signals'[i] = signals[i])
  BY <1>3
<1>7. DOMAIN signals' \subseteq 1..(nextSig' - 1)
  BY <1>1, <1>6 DEF Table
<1>8. \A i \in DOMAIN signals' : signals'[i].epoch = mediaEpoch'
  BY <1>2, <1>3, <1>6 DEF Table
<1>9. \A r \in Sessions : sig'[r] \in DOMAIN signals' => signals'[sig'[r]].session = r
  BY <1>2, <1>3, <1>5, <1>6 DEF Table
<1> QED
  BY <1>2, <1>3, <1>4, <1>5, <1>7, <1>8, <1>9 DEF Table

LEMMA TableStep ==
  ASSUME TokenInv, Table, [Next]_vars
  PROVE  Table'
<1>1. PICK T : Signalled(T)
  BY DEF TokenInv
<1>2. CASE UNCHANGED <<signals, sig, mediaEpoch, nextSig>>
  BY <1>2, TableStays
<1>3. CASE UNCHANGED realtimeVars \/ UNCHANGED signalVars
  BY <1>2, <1>3 DEF realtimeVars, signalVars
<1>4. CASE ControlStep
  <2>1. nextSig' = nextSig
    BY <1>4 DEF ControlStep
  <2>2. CASE signals' = <<>>
    <3>1. DOMAIN signals' = {}
      BY <2>2
    <3> QED
      BY <3>1 DEF Table
  <2>3. UNCHANGED <<signals, sig, mediaEpoch>> \/ signals' = <<>>
    BY <1>4 DEF ControlStep, AcceptMediaEvent
  <2> QED
    BY <1>2, <2>1, <2>2, <2>3
<1>5. CASE MediaOfferSend
  <2>1. /\ UNCHANGED <<mediaEpoch, nextSig>>
        /\ \/ UNCHANGED <<signals, sig>>
           \/ \E id, s : signals' = Without(signals, id) /\ sig' = [sig EXCEPT ![s] = 0]
    BY <1>5 DEF MediaOfferSend
  <2> QED
    BY <1>1, <1>2, <2>1, TableDrops
<1>6. CASE RoomStep
  <2>1. PICK o : o = Head(roomq)
    OBVIOUS
  <2>2. o.session \in Sessions /\ mediaEpoch' = mediaEpoch
    BY <1>1, <1>6, <2>1, RoomHead DEF RoomStep, Signalled, RequestOK
  <2>3. CASE MediaOffer(o)
    <3>1. PICK s : s = o.session
      OBVIOUS
    <3>2. \/ /\ signals' = With(Without(signals, sig[s]), nextSig,
                                 [session |-> s, epoch |-> mediaEpoch])
             /\ sig' = [sig EXCEPT ![s] = nextSig] /\ nextSig' = nextSig + 1
          \/ UNCHANGED <<signals, sig, nextSig>>
      BY <2>3, <3>1 DEF MediaOffer
    <3> QED
      BY <1>1, <1>2, <2>2, <3>1, <3>2, Registered
  <2>4. CASE MediaAnswer(o) \/ MediaCandidate(o) \/ MediaRefused(o) \/ MediaResponse(o)
    BY <1>2, <2>2, <2>4 DEF MediaAnswer, MediaCandidate, Relay, MediaRefused, MediaResponse
  <2>5. CASE Release(o) \/ JoinMeeting(o)
    <3>1. nextSig' = nextSig
      BY <2>5 DEF Release, JoinMeeting
    <3>2. UNCHANGED <<signals, sig>> \/ \E s : ReleaseMediaSession(s)
      BY <2>5 DEF Release, JoinMeeting
    <3> QED
      BY <1>1, <1>2, <2>2, <3>1, <3>2, TableReleased
  <2> QED
    BY <1>6, <2>1, <2>3, <2>4, <2>5 DEF RoomStep
<1>7. CASE RealtimeRestart
  <2>1. signals' = <<>>
    BY <1>7 DEF RealtimeRestart
  <2>2. DOMAIN signals' = {}
    BY <2>1
  <2> QED
    BY <2>2 DEF Table
<1>8. CASE Connect \/ Disconnect \/ UNCHANGED vars
  BY <1>3, <1>8 DEF Connect, Disconnect, vars
<1>9. CASE RoomEvent \/ ServerStep \/ ServerCandidate \/ RtpStep \/ Restart
  BY <1>3, <1>9 DEF RoomEvent, ServerStep, ServerCandidate, RtpStep, Restart
<1>10. CASE \E u \in Users :
             OpenCamera(u) \/ ClientCandidate(u) \/ LeaveMeeting(u) \/ Rejoin(u)
             \/ LoseConnection(u) \/ ClientReceive(u)
  BY <1>3, <1>10 DEF OpenCamera, ClientCandidate, LeaveMeeting, Rejoin, LoseConnection,
     ClientReceive
<1> QED
  BY <1>4, <1>5, <1>6, <1>7, <1>8, <1>9, <1>10 DEF Next, Progress

-----------------------------------------------------------------------------
(* Nothing that adds no offer and hands out no signal id disturbs them.    *)
LEMMA OffersStay ==
  ASSUME NEW T, Signalled(T), Offers, IsSeq(roomq)',
         \A i \in 1..Len(roomq') :
           (i \in 1..Len(roomq) /\ roomq'[i] = roomq[i]) \/ roomq'[i].t # "offer",
         \A s \in Sessions : sig'[s] \in {0, sig[s]}
  PROVE  Offers'
<1>1. SUFFICES ASSUME NEW i \in 1..Len(roomq'), roomq'[i].t = "offer",
                      NEW o, o = roomq'[i]
               PROVE  /\ sig'[o.session] = 0
                      /\ \A j \in 1..Len(roomq') : Named(roomq'[j], "offer", o.session) => j = i
  BY DEF Offers
<1>2. i \in 1..Len(roomq) /\ roomq[i] = o /\ o.session \in Sessions
  BY <1>1 DEF Signalled, QueueOK, RequestOK
<1>3. sig'[o.session] = 0
  BY <1>1, <1>2 DEF Offers
<1>4. ASSUME NEW j \in 1..Len(roomq'), Named(roomq'[j], "offer", o.session) PROVE j = i
  <2>1. j \in 1..Len(roomq) /\ roomq'[j] = roomq[j]
    BY <1>4 DEF Named
  <2> QED
    BY <1>1, <1>2, <1>4, <2>1 DEF Offers
<1> QED
  BY <1>3, <1>4

LEMMA OffersAppend ==
  ASSUME NEW T, Signalled(T), Offers, NEW o, o.t # "offer", roomq' = Append(roomq, o), sig' = sig
  PROVE  Offers'
<1>1. IsSeq(roomq)' /\ \A i \in 1..Len(roomq') :
        (i \in 1..Len(roomq) /\ roomq'[i] = roomq[i]) \/ roomq'[i].t # "offer"
  BY QueuesAre, AppendIs, AppendAt
<1> QED
  BY <1>1, OffersStay

LEMMA OffersSame ==
  ASSUME NEW T, Signalled(T), Offers, roomq' = roomq, \A s \in Sessions : sig'[s] \in {0, sig[s]}
  PROVE  Offers'
BY QueuesAre, OffersStay

(* A client makes an offer when its session has none.                      *)
LEMMA OfferMade ==
  ASSUME NEW T, Signalled(T), Offers, NEW u \in Users, OpenCamera(u)
  PROVE  Offers'
<1>1. PICK r, n : r = Request("offer", u, pcs + 1, 0) /\ n = Len(roomq)
  OBVIOUS
<1>2. /\ roomq' = Append(roomq, r) /\ sig' = sig /\ r.t = "offer" /\ r.session = Current(u)
      /\ phase[u] = "in" /\ pc[u] = 0
  BY <1>1 DEF OpenCamera, Request, signalVars
<1>3. /\ sig[Current(u)] = 0
      /\ \A i \in 1..n : ~Named(roomq[i], "offer", Current(u))
  BY <1>1, <1>2 DEF Signalled, ClientsOK, UserIs, UserOK, Clean
<1>4. /\ n \in Nat
      /\ \A i \in 1..Len(roomq') : (i \in 1..n /\ roomq'[i] = roomq[i]) \/ (i = n + 1 /\ roomq'[i] = r)
  BY <1>1, <1>2, QueuesAre, AppendAt, AppendIs
<1>5. SUFFICES ASSUME NEW i \in 1..Len(roomq'), roomq'[i].t = "offer",
                      NEW o, o = roomq'[i]
               PROVE  /\ sig'[o.session] = 0
                      /\ \A j \in 1..Len(roomq') : Named(roomq'[j], "offer", o.session) => j = i
  BY DEF Offers
<1>6. CASE i \in 1..n /\ o = roomq[i]
  <2>1. sig[o.session] = 0 /\ \A j \in 1..n : Named(roomq[j], "offer", o.session) => j = i
    BY <1>1, <1>5, <1>6 DEF Offers
  <2>2. o.session # Current(u)
    BY <1>3, <1>5, <1>6 DEF Named
  <2>3. ASSUME NEW j \in 1..Len(roomq'), Named(roomq'[j], "offer", o.session) PROVE j = i
    <3>1. j \in 1..n /\ roomq'[j] = roomq[j]
      BY <1>2, <1>4, <2>2, <2>3 DEF Named
    <3> QED
      BY <2>1, <2>3, <3>1
  <2> QED
    BY <1>2, <2>1, <2>3
<1>7. CASE i = n + 1 /\ o = r
  <2>1. ASSUME NEW j \in 1..Len(roomq'), Named(roomq'[j], "offer", o.session) PROVE j = i
    BY <1>2, <1>3, <1>4, <1>7, <2>1 DEF Named
  <2> QED
    BY <1>2, <1>3, <1>7, <2>1
<1> QED
  BY <1>4, <1>5, <1>6, <1>7

(* The strand takes an offer only for its own session.                     *)
LEMMA OffersTaken ==
  ASSUME NEW T, Signalled(T), Offers, RoomStep
  PROVE  Offers'
<1>1. PICK o, q : o = Head(roomq) /\ q = Tail(roomq)
  OBVIOUS
<1>2. /\ roomq' = q /\ 1 \in 1..Len(roomq) /\ o = roomq[1]
      /\ \A i \in 1..Len(q) : i \in Nat /\ i # 0 /\ i + 1 \in 1..Len(roomq) /\ q[i] = roomq[i + 1]
  BY <1>1, QueuesAre, TailAt DEF RoomStep
<1>3. SUFFICES ASSUME NEW i \in 1..Len(q), q[i].t = "offer", NEW s, s = q[i].session
               PROVE  sig'[s] = 0 /\ \A j \in 1..Len(q) : Named(q[j], "offer", s) => j = i
  BY <1>2 DEF Offers
<1>4. i + 1 \in 1..Len(roomq) /\ q[i] = roomq[i + 1] /\ i \in Nat /\ i # 0
  BY <1>2
<1>5. s \in Sessions
  BY <1>3, <1>4 DEF Signalled, QueueOK, RequestOK
<1>6. sig[s] = 0 /\ \A j \in 1..Len(roomq) : Named(roomq[j], "offer", s) => j = i + 1
  BY <1>3, <1>4 DEF Offers
<1>7. ~Named(o, "offer", s)
  <2>1. i + 1 # 1
    BY <1>4
  <2> QED
    BY <1>2, <1>6, <2>1
<1>8. sig'[s] = 0
  BY <1>1, <1>5, <1>6, <1>7, RoomIds
<1>9. ASSUME NEW j \in 1..Len(q), Named(q[j], "offer", s) PROVE j = i
  <2>1. j + 1 = i + 1 /\ j \in Nat
    BY <1>2, <1>6, <1>9
  <2> QED
    BY <1>4, <2>1
<1> QED
  BY <1>8, <1>9

LEMMA OffersStep ==
  ASSUME TokenInv, Offers, [Next]_vars
  PROVE  Offers'
<1>1. PICK T : Signalled(T)
  BY DEF TokenInv
<1>2. PICK U : Signalled(U)'
  BY TokenStep DEF TokenInv
<1>3. CASE UNCHANGED <<roomq, sig>>
  BY <1>1, <1>3, OffersSame
<1>4. CASE UNCHANGED realtimeVars \/ UNCHANGED vars
  BY <1>3, <1>4 DEF realtimeVars, vars, signalVars
<1>5. CASE Connect \/ Disconnect
  BY <1>3, <1>5 DEF Connect, Disconnect, signalVars
<1>6. CASE RoomStep
  BY <1>1, <1>6, OffersTaken
<1>7. CASE ControlStep
  <2>1. PICK e : e = Head(control)
    OBVIOUS
  <2>2. CASE AcceptMediaEvent(e) /\ roomq' = roomq
    <3>1. \A s \in Sessions : sig'[s] \in {0, sig[s]}
      BY <2>2 DEF AcceptMediaEvent
    <3> QED
      BY <1>1, <2>2, <3>1, OffersSame
  <2>3. CASE sig' = sig /\ \E o : o.t = "response" /\ roomq' = Append(roomq, o)
    BY <1>1, <2>3, OffersAppend
  <2> QED
    BY <1>3, <1>7, <2>1, <2>2, <2>3 DEF ControlStep
<1>8. CASE MediaOfferSend
  <2>1. roomq' = roomq /\ (sig' = sig \/ \E x : sig' = [sig EXCEPT ![x] = 0])
    BY <1>8 DEF MediaOfferSend
  <2>2. \A s \in Sessions : sig'[s] \in {0, sig[s]}
    BY <1>1, <2>1 DEF Signalled, BindingsOK
  <2> QED
    BY <1>1, <2>1, <2>2, OffersSame
<1>9. CASE RealtimeRestart
  <2>1. \A i \in DOMAIN roomq' : roomq'[i].t = "join"
    BY <1>9 DEF RealtimeRestart
  <2>2. DOMAIN roomq' = 1..Len(roomq')
    BY <1>2, SequenceIs DEF Signalled, QueueOK
  <2> QED
    BY <2>1, <2>2 DEF Offers
<1>10. CASE \E u \in Users : OpenCamera(u)
  BY <1>1, <1>10, OfferMade
<1>11. CASE \E u \in Users : ClientCandidate(u) \/ LeaveMeeting(u) \/ Rejoin(u)
  <2>1. sig' = sig /\ \E o : o.t # "offer" /\ roomq' = Append(roomq, o)
    BY <1>11 DEF ClientCandidate, LeaveMeeting, Rejoin, Request, signalVars
  <2> QED
    BY <1>1, <2>1, OffersAppend
<1>12. CASE \E u \in Users : ClientReceive(u)
  <2>1. /\ sig' = sig
        /\ roomq' = roomq \/ \E o : o.t # "offer" /\ roomq' = Append(roomq, o)
    BY <1>12 DEF ClientReceive, ApplyMediaOffer, ApplyMediaAnswer, ApplyMediaCandidate, Request,
                 signalVars
  <2> QED
    BY <1>1, <1>3, <2>1, OffersAppend
<1>13. CASE \E u \in Users : LoseConnection(u)
  <2>1. PICK r, s : sig' = sig /\ r.t # "offer" /\ s.t # "offer" /\ roomq' = roomq \o <<r, s>>
    BY <1>13 DEF LoseConnection, Request, signalVars
  <2>2. PICK q : q = Append(roomq, r)
    OBVIOUS
  <2>3. IsSeq(roomq) /\ IsSeq(q)
    BY <1>1, <2>2, QueuesAre, AppendIs
  <2>4. roomq' = Append(q, s)
    BY <2>1, <2>2, <2>3, AppendTwo
  <2>5. \A i \in 1..Len(q) : (i \in 1..Len(roomq) /\ q[i] = roomq[i]) \/ q[i].t # "offer"
    BY <2>1, <2>2, <2>3, AppendAt
  <2>6. IsSeq(roomq)' /\ \A i \in 1..Len(roomq') :
          (i \in 1..Len(q) /\ roomq'[i] = q[i]) \/ roomq'[i].t # "offer"
    <3>1. PICK w : w = Append(q, s)
      OBVIOUS
    <3>2. IsSeq(w)
      BY <2>3, <3>1, AppendIs
    <3>3. \A i \in 1..Len(w) : (i \in 1..Len(q) /\ w[i] = q[i]) \/ w[i] = s
      BY <2>3, <3>1, AppendAt
    <3> QED
      BY <2>1, <2>4, <3>1, <3>2, <3>3
  <2>7. \A i \in 1..Len(roomq') :
          (i \in 1..Len(roomq) /\ roomq'[i] = roomq[i]) \/ roomq'[i].t # "offer"
    BY <2>5, <2>6
  <2>8. \A x \in Sessions : sig'[x] \in {0, sig[x]}
    BY <2>1
  <2> QED
    BY <1>1, <2>6, <2>7, <2>8, OffersStay
<1> QED
  BY <1>4, <1>5, <1>6, <1>7, <1>8, <1>9, <1>10, <1>11, <1>12, <1>13
     DEF Next, Progress, RoomEvent, ServerStep, ServerCandidate, Restart, RtpStep

LEMMA KnownStays ==
  ASSUME UNCHANGED <<signals, sig, bound>>
  PROVE  \A id, u : Known(id, u)' <=> Known(id, u)
BY DEF Known, Bound

LEMMA OfferStays ==
  ASSUME OfferKnown, UNCHANGED <<op, mediaEpoch, signals, sig, bound, epoch>>,
         (connected' => connected)
  PROVE  OfferKnown'
<1>1. \A id, u : Known(id, u) => Known(id, u)'
  BY KnownStays
<1> QED
  BY <1>1 DEF OfferKnown, IsCurrent

(* The event of a connection that RealtimeServer accepts while it holds     *)
(* signals of the current one.                                             *)
LEMMA Accepted ==
  ASSUME TokenInv, Epochs, control # <<>>, NEW e, e = Head(control), e.t # "message",
         AcceptMediaEvent(e)
  PROVE  \/ UNCHANGED <<mediaEpoch, signals, sig>>
         \/ /\ mediaEpoch' \in Nat /\ mediaEpoch <= mediaEpoch' /\ signals' = <<>>
            /\ \A s \in Sessions : sig'[s] \in {0, sig[s]}
            /\ connected => mediaEpoch # epoch
<1>1. Timely(e) /\ mediaEpoch \in Nat /\ epoch \in Nat /\ mediaEpoch <= epoch
  <2>1. PICK T : Signalled(T)
    BY DEF TokenInv
  <2>2. 1 \in 1..Len(control) /\ e = control[1]
    BY <2>1, QueuesAre, TailAt
  <2> QED
    BY <2>1, <2>2 DEF Epochs, Signalled, Connected
<1>2. CASE e.epoch < mediaEpoch \/ (e.t = "up" /\ e.epoch = mediaEpoch)
  BY <1>2 DEF AcceptMediaEvent
<1>3. CASE ~(e.epoch < mediaEpoch) /\ ~(e.t = "up" /\ e.epoch = mediaEpoch)
  <2>1. mediaEpoch' = e.epoch /\ signals' = <<>> /\ \A s \in Sessions : sig'[s] \in {0, sig[s]}
    BY <1>3 DEF AcceptMediaEvent
  <2>2. mediaEpoch <= e.epoch /\ e.epoch \in Nat
    BY <1>1, <1>3 DEF Timely
  <2>3. connected => mediaEpoch # epoch
    BY <1>1, <1>3 DEF Timely
  <2> QED
    BY <2>1, <2>2, <2>3
<1> QED
  BY <1>2, <1>3

(* An offer is registered.                                                 *)
LEMMA OfferRegistered ==
  ASSUME TokenInv, Epochs, Table, RoomStep, NEW o, o = Head(roomq), MediaOffer(o)
  PROVE  OfferKnown'
<1>1. PICK T : Signalled(T)
  BY DEF TokenInv
<1>2. o.session \in Sessions /\ op = <<>> /\ mediaEpoch' = mediaEpoch /\ mediaEpoch \in Nat
  BY <1>1, RoomHead DEF RoomStep, Signalled, RequestOK, Epochs
<1>3. PICK s : s = o.session
  OBVIOUS
<1>4. CASE Bound(s)
  <2>1. PICK n : n = nextSig
    OBVIOUS
  <2>2. /\ signals' = With(Without(signals, sig[s]), nextSig, [session |-> s, epoch |-> mediaEpoch])
        /\ sig' = [sig EXCEPT ![s] = nextSig] /\ nextSig' = nextSig + 1 /\ bound' = bound
        /\ op' = <<[id |-> n, session |-> s, epoch |-> mediaEpoch, tag |-> o.tag]>>
    BY <1>3, <1>4, <2>1 DEF MediaOffer
  <2>3. n \in DOMAIN signals' /\ signals'[n].session = s /\ sig'[s] = n
    BY <1>1, <1>2, <1>3, <2>1, <2>2, Registered
  <2>4. Bound(s)'
    BY <1>4, <2>2 DEF Bound
  <2>5. Bound(signals[n].session)' /\ sig'[signals'[n].session] = n
        /\ signals'[n].session[1] = s[1]
    BY <2>3, <2>4
  <2>6. Known(n, s[1])'
    BY <2>3, <2>5 DEF Known
  <2>7. PICK p : p = [id |-> n, session |-> s, epoch |-> mediaEpoch, tag |-> o.tag]
    OBVIOUS
  <2>8. op'[1] = p
    BY <2>2, <2>7
  <2>9. /\ p.epoch \in Nat /\ p.epoch <= mediaEpoch' /\ sig'[p.session] \in {0, p.id}
        /\ p.epoch = mediaEpoch' /\ p.id = n /\ p.session = s
    BY <1>2, <2>3, <2>7
  <2>10. Known(op[1].id, op[1].session[1])'
    BY <2>6, <2>8, <2>9
  <2> QED
    BY <2>8, <2>9, <2>10 DEF OfferKnown
<1>5. CASE ~Bound(s)
  BY <1>2, <1>3, <1>5 DEF MediaOffer, OfferKnown
<1> QED
  BY <1>4, <1>5

LEMMA OfferStep ==
  ASSUME TokenInv, Epochs, Table, OfferKnown, [Next]_vars
  PROVE  OfferKnown'
<1>1. PICK T : Signalled(T)
  BY DEF TokenInv
<1>2. CASE UNCHANGED <<op, mediaEpoch, signals, sig, bound, epoch, connected>>
  BY <1>2, OfferStays
<1>3. CASE UNCHANGED realtimeVars \/ UNCHANGED vars
  BY <1>2, <1>3 DEF realtimeVars, vars, signalVars, udsVars
<1>4. CASE Connect
  <2>1. UNCHANGED signalVars /\ epoch' = epoch + 1
    BY <1>4 DEF Connect
  <2>2. ASSUME op # <<>> PROVE op[1].epoch # epoch'
    BY <1>1, <2>1, <2>2 DEF Signalled, Connected, Epochs, OfferKnown
  <2> QED
    BY <2>1, <2>2 DEF OfferKnown, signalVars, IsCurrent
<1>5. CASE Disconnect
  <2>1. UNCHANGED signalVars /\ epoch' = epoch /\ connected' = FALSE
    BY <1>5 DEF Disconnect
  <2> QED
    BY <2>1, OfferStays DEF signalVars
<1>6. CASE RoomStep
  <2>1. PICK o : o = Head(roomq)
    OBVIOUS
  <2>2. CASE MediaOffer(o)
    BY <1>6, <2>1, <2>2, OfferRegistered
  <2>3. CASE op' = op
    BY <1>6, <2>3 DEF RoomStep, OfferKnown
  <2> QED
    BY <1>6, <2>1, <2>2, <2>3
       DEF RoomStep, MediaAnswer, MediaCandidate, Relay, MediaRefused, Release, JoinMeeting,
           MediaResponse
<1>7. CASE ControlStep
  <2>1. PICK e : e = Head(control)
    OBVIOUS
  <2>2. UNCHANGED <<op, bound, epoch>> /\ (connected' => connected) /\ control # <<>>
    BY <1>1, <1>7 DEF ControlStep, Signalled, Connected
  <2>3. CASE UNCHANGED <<mediaEpoch, signals, sig>>
    BY <2>2, <2>3, OfferStays
  <2>4. CASE e.t # "message" /\ AcceptMediaEvent(e) /\ connected' = connected
    <3>1. CASE mediaEpoch' \in Nat /\ mediaEpoch <= mediaEpoch' /\ signals' = <<>>
               /\ (\A s \in Sessions : sig'[s] \in {0, sig[s]})
               /\ (connected => mediaEpoch # epoch)
      <4>1. DOMAIN signals' = {}
        BY <3>1
      <4>2. SUFFICES ASSUME op # <<>>, NEW o, o = op[1]
                     PROVE  /\ o.epoch \in Nat /\ o.epoch <= mediaEpoch'
                            /\ sig'[o.session] \in {0, o.id}
                            /\ ~IsCurrent(o.epoch)'
        BY <2>2, <4>1 DEF OfferKnown
      <4>3. o.epoch \in Nat /\ o.epoch <= mediaEpoch /\ sig[o.session] \in {0, o.id}
            /\ o.session \in Sessions
        BY <1>1, <4>2 DEF OfferKnown, Signalled, OpOK
      <4>4. mediaEpoch \in Nat /\ epoch \in Nat /\ mediaEpoch <= epoch
        BY <1>1 DEF Epochs, Signalled, Connected
      <4>5. o.epoch <= mediaEpoch'
        BY <3>1, <4>3, <4>4
      <4>6. connected => o.epoch # epoch
        BY <3>1, <4>3, <4>4
      <4> QED
        BY <2>2, <2>4, <3>1, <4>3, <4>5, <4>6 DEF IsCurrent
    <3> QED
      BY <2>1, <2>2, <2>3, <2>4, <3>1, Accepted
  <2> QED
    BY <1>7, <2>1, <2>3, <2>4 DEF ControlStep
<1>8. CASE MediaOfferSend \/ RealtimeRestart
  <2>1. op' = <<>>
    BY <1>8 DEF MediaOfferSend, RealtimeRestart
  <2> QED
    BY <2>1 DEF OfferKnown
<1>9. CASE RoomEvent \/ ServerStep \/ ServerCandidate \/ RtpStep \/ Restart
  BY <1>3, <1>9 DEF RoomEvent, ServerStep, ServerCandidate, RtpStep, Restart
<1>10. CASE \E u \in Users :
             OpenCamera(u) \/ ClientCandidate(u) \/ LeaveMeeting(u) \/ Rejoin(u)
             \/ LoseConnection(u) \/ ClientReceive(u)
  BY <1>2, <1>10 DEF OpenCamera, ClientCandidate, LeaveMeeting, Rejoin, LoseConnection,
     ClientReceive, udsVars, signalVars
<1> QED
  BY <1>3, <1>4, <1>5, <1>6, <1>7, <1>8, <1>9, <1>10 DEF Next, Progress

-----------------------------------------------------------------------------
(* An event of the room takes the head of the FIFO.                        *)
Taken ==
  /\ \A j \in 1..Len(fifo) : j # 1 => j - 1 \in 1..Len(fifo') /\ fifo'[j - 1] = fifo[j]
  /\ \A i \in 1..Len(fifo') :
       (i + 1 \in 1..Len(fifo) /\ fifo'[i] = fifo[i + 1]) \/ IsNotice(fifo'[i])

LEMMA TakenIs ==
  ASSUME NEW q, IsSeq(q), q # <<>>, NEW s, IsSeq(s), Notices(s), q = fifo, fifo' = Tail(q) \o s
  PROVE  Taken
<1>1. PICK r, n, w : r = Tail(q) /\ n = Len(q) /\ w = r \o s
  OBVIOUS
<1>2. /\ IsSeq(r) /\ n \in Nat /\ n >= 1 /\ Len(r) = n - 1
      /\ \A i \in 1..Len(r) : r[i] = q[i + 1]
  BY <1>1, TailIs
<1>3. /\ Len(s) \in Nat /\ Len(w) = Len(r) + Len(s)
      /\ \A i \in 1..Len(r) : w[i] = r[i]
      /\ \A i \in 1..Len(s) : w[Len(r) + i] = s[i]
  <2>1. IsSeq(r) /\ IsSeq(s)
    BY <1>2
  <2> QED
    BY <1>1, <2>1, ConcatIs
<1>4. ASSUME NEW j \in 1..n, j # 1 PROVE j - 1 \in 1..Len(w) /\ w[j - 1] = q[j]
  <2>1. j - 1 \in 1..Len(r) /\ j - 1 \in 1..Len(w) /\ (j - 1) + 1 = j
    BY <1>2, <1>3, <1>4
  <2>2. w[j - 1] = r[j - 1] /\ r[j - 1] = q[(j - 1) + 1]
    BY <1>2, <1>3, <2>1
  <2> QED
    BY <2>1, <2>2
<1>5. ASSUME NEW i \in 1..Len(w) PROVE (i + 1 \in 1..n /\ w[i] = q[i + 1]) \/ IsNotice(w[i])
  <2>1. CASE i <= Len(r)
    <3>1. i \in 1..Len(r) /\ i + 1 \in 1..n
      BY <1>2, <1>3, <1>5, <2>1
    <3> QED
      BY <1>2, <1>3, <3>1
  <2>2. CASE ~(i <= Len(r))
    <3>1. PICK j : j = i - Len(r)
      OBVIOUS
    <3>2. j \in 1..Len(s) /\ i = Len(r) + j
      BY <1>2, <1>3, <1>5, <2>2, <3>1
    <3>3. w[i] = s[j]
      BY <1>3, <3>2
    <3> QED
      BY <3>2, <3>3 DEF Notices
  <2> QED
    BY <2>1, <2>2
<1>6. fifo' = w
  BY <1>1
<1> QED
  BY <1>1, <1>4, <1>5, <1>6 DEF Taken

LEMMA TailTaken ==
  ASSUME NEW q, IsSeq(q), q # <<>>, q = fifo, fifo' = Tail(q)
  PROVE  Taken
<1>1. PICK r, n : r = Tail(q) /\ n = Len(q)
  OBVIOUS
<1>2. /\ n \in Nat /\ n >= 1 /\ Len(r) = n - 1
      /\ \A i \in 1..Len(r) : r[i] = q[i + 1]
  BY <1>1, TailIs
<1>3. ASSUME NEW j \in 1..n, j # 1 PROVE j - 1 \in 1..Len(r) /\ r[j - 1] = q[j]
  <2>1. j - 1 \in 1..Len(r) /\ (j - 1) + 1 = j
    BY <1>2, <1>3
  <2> QED
    BY <1>2, <2>1
<1>4. ASSUME NEW i \in 1..Len(r) PROVE i + 1 \in 1..n /\ r[i] = q[i + 1]
  BY <1>2, <1>4
<1> QED
  BY <1>1, <1>3, <1>4 DEF Taken

(* The sessions after an event: those of before, or that of its offer.     *)
PeersFrom(e) ==
  \A u \in Users : peers'[u] # NoPeer =>
    \/ peers[u] # NoPeer /\ Same(peers'[u], peers[u])
    \/ FreshPeer(u, peers'[u], e) /\ e.conn \notin stopped

LEMMA RoomEventIs ==
  ASSUME TokenInv, RoomEvent, NEW e, e = Head(fifo)
  PROVE  /\ fifo # <<>> /\ 1 \in 1..Len(fifo) /\ e = fifo[1]
         /\ Taken /\ PeersFrom(e)
<1>1. PICK throws \in BOOLEAN : HandleRoomEvent(throws)
  BY DEF RoomEvent
<1>2. PICK T, R : Signalled(T) /\ Tokens /\ Marked(T, R)
  BY DEF TokenInv
<1>3. fifo # <<>> /\ Handled(e)
  BY <1>1, <1>2, EventHandled
<1>4. IsSeq(fifo) /\ 1 \in 1..Len(fifo) /\ e = fifo[1]
  BY <1>2, <1>3, QueuesAre, TailAt
<1>5. Taken
  <2>1. CASE fifo' = Tail(fifo)
    BY <1>3, <1>4, <2>1, TailTaken
  <2>2. CASE \E t : Outcome(t, e) /\ Finish(t)
    <3>1. PICK t : Outcome(t, e) /\ Finish(t)
      BY <2>2
    <3>2. IsSeq(t.post) /\ Notices(t.post) /\ fifo' = Tail(fifo) \o t.post
      BY <3>1 DEF Outcome, Shaped, Finish
    <3> QED
      BY <1>3, <1>4, <3>2, TakenIs
  <2> QED
    BY <1>3, <2>1, <2>2 DEF Handled
<1>6. PeersFrom(e)
  <2>1. CASE peers' = peers
    BY <2>1 DEF PeersFrom, Same
  <2>2. CASE e.t = "signal" /\ e.conn \in stopped
    <3>1. peers' = peers
      BY <1>1, <2>2 DEF HandleRoomEvent, HandleSignal
    <3> QED
      BY <2>1, <3>1
  <2>3. CASE ~(e.t = "signal" /\ e.conn \in stopped) /\ \E t : Outcome(t, e) /\ Finish(t)
    <3>1. PICK t : Outcome(t, e) /\ peers' = t.peers
      BY <2>3 DEF Finish, SetTables
    <3> QED
      BY <2>3, <3>1 DEF Outcome, PeersFrom, FreshPeer
  <2> QED
    BY <1>3, <2>1, <2>2, <2>3 DEF Handled
<1> QED
  BY <1>3, <1>4, <1>5, <1>6

(* HandleLeave and HandleSignalDisconnected remove what they mean.         *)
LEMMA Removed ==
  ASSUME NEW T, Signalled(T), NEW gone, Finish(RemovePeers(Tables, gone))
  PROVE  \A u \in Users : u \in gone => peers'[u] = NoPeer
<1>1. PICK t : t = RemovePeers(Tables, gone)
  OBVIOUS
<1>2. peers' = t.peers
  BY <1>1 DEF Finish, SetTables
<1>3. t.peers = [v \in Users |->
                  IF v \in gone \/ peers[v] = NoPeer THEN NoPeer
                  ELSE [peers[v] EXCEPT !.out = {x \in @ : x[1] \notin gone}]]
  BY <1>1 DEF RemovePeers, Tables
<1> QED
  BY <1>2, <1>3

LEMMA LeaveRemoves ==
  ASSUME TokenInv, RoomEvent, NEW e, e = Head(fifo), e.t = "signal", e.type = "leave",
         e.conn \notin stopped, Addressed(e), e.uid \in Users
  PROVE  peers'[e.uid] = NoPeer
<1>1. PICK T : Signalled(T)
  BY DEF TokenInv
<1>2. HandleLeave(e)
  BY DEF RoomEvent, HandleRoomEvent, HandleSignal
<1>3. Finish(RemovePeers(Tables, {e.uid}))
  BY <1>2 DEF HandleLeave, RemovePeer, Addressed, Tables
<1> QED
  BY <1>1, <1>3, Removed

LEMMA GoneRemoves ==
  ASSUME TokenInv, RoomEvent, NEW e, e = Head(fifo), e.t = "gone",
         NEW u \in Users, peers[u] # NoPeer, peers[u].conn = e.conn
  PROVE  peers'[u] = NoPeer
<1>1. PICK T : Signalled(T)
  BY DEF TokenInv
<1>2. HandleSignalDisconnected(e)
  BY DEF RoomEvent, HandleRoomEvent
<1>3. PICK mine : mine = {v \in Users : peers[v] # NoPeer /\ peers[v].conn = e.conn}
  OBVIOUS
<1>4. Finish(RemovePeers(Tables, mine)) /\ u \in mine
  BY <1>2, <1>3 DEF HandleSignalDisconnected
<1> QED
  BY <1>1, <1>4, Removed

-----------------------------------------------------------------------------
(* What MediaServer holds is of the connection it serves, or of one that   *)
(* has ended.                                                              *)
Served == PeersServed /\ SignalsServed

(* The connection that was served still is, or it is stopped.              *)
ServingStays ==
  /\ remembered \subseteq remembered' /\ stopped \subseteq stopped'
  /\ \A c \in 1..nconn : c = serving => c = serving' \/ c \in stopped'

LEMMA SignalsStay ==
  ASSUME NEW T, Signalled(T), SignalsServed, ServingStays,
         \A i \in 1..Len(fifo') : fifo'[i].t = "signal" =>
           \E j \in 1..Len(fifo) : fifo'[i] = fifo[j]
  PROVE  SignalsServed'
<1>1. SUFFICES ASSUME NEW i \in 1..Len(fifo'), fifo'[i].t = "signal", NEW e, e = fifo'[i]
               PROVE  e.conn \in remembered' /\ (e.conn = serving' \/ e.conn \in stopped')
  BY DEF SignalsServed
<1>2. PICK j \in 1..Len(fifo) : e = fifo[j]
  BY <1>1
<1>3. e.conn \in 1..nconn
  BY <1>1, <1>2 DEF Signalled, MediaOK, EventsOK, EventOK
<1>4. e.conn \in remembered /\ (e.conn = serving \/ e.conn \in stopped)
  BY <1>1, <1>2 DEF SignalsServed
<1> QED
  BY <1>3, <1>4 DEF ServingStays

(* The sessions stay, and so does what ends them.                          *)
LEMMA PeersStayServed ==
  ASSUME PeersServed, peers' = peers, remembered \subseteq remembered', serving' = serving,
         \A j \in 1..Len(fifo) : \E i \in 1..Len(fifo') : fifo'[i] = fifo[j]
  PROVE  PeersServed'
BY DEF PeersServed

LEMMA RoomEventServed ==
  ASSUME TokenInv, Served, RoomEvent
  PROVE  Served'
<1>1. PICK T : Signalled(T)
  BY DEF TokenInv
<1>2. PICK e : e = Head(fifo)
  OBVIOUS
<1>3. /\ 1 \in 1..Len(fifo) /\ e = fifo[1]
      /\ Taken /\ PeersFrom(e)
  BY <1>2, RoomEventIs
<1>4. UNCHANGED <<serving, remembered>> /\ stopped \subseteq stopped'
  BY DEF RoomEvent, HandleRoomEvent, HandleSignal, HandlePublisherTrackReady,
         HandleLocalMediaSignal, SendBack, HandleSignalDisconnected
<1>5. SignalsServed'
  <2>1. \A i \in 1..Len(fifo') : fifo'[i].t = "signal" =>
          \E j \in 1..Len(fifo) : fifo'[i] = fifo[j]
    BY <1>3 DEF Taken, IsNotice
  <2> QED
    BY <1>1, <1>4, <2>1, SignalsStay DEF Served, ServingStays
<1>6. ASSUME NEW u \in Users, peers'[u] # NoPeer, NEW c, c = peers'[u].conn
      PROVE  /\ c \in remembered
             /\ c = serving \/ \E i \in 1..Len(fifo') : fifo'[i].t = "gone" /\ fifo'[i].conn = c
  <2>1. CASE peers[u] # NoPeer /\ Same(peers'[u], peers[u])
    <3>1. peers[u].conn = c
      BY <1>6, <2>1 DEF Same
    <3>2. c \in remembered
      BY <2>1, <3>1 DEF Served, PeersServed
    <3>3. ASSUME NEW j \in 1..Len(fifo), fifo[j].t = "gone", fifo[j].conn = c
          PROVE  \E i \in 1..Len(fifo') : fifo'[i].t = "gone" /\ fifo'[i].conn = c
      <4>1. j # 1
        BY <1>2, <1>3, <1>6, <2>1, <3>1, <3>3, GoneRemoves
      <4> QED
        BY <1>3, <3>3, <4>1 DEF Taken
    <3> QED
      BY <2>1, <3>1, <3>2, <3>3 DEF Served, PeersServed
  <2>2. CASE FreshPeer(u, peers'[u], e) /\ e.conn \notin stopped
    <3>1. c = e.conn /\ e.t = "signal"
      BY <1>6, <2>2 DEF FreshPeer
    <3> QED
      BY <1>3, <2>2, <3>1 DEF Served, SignalsServed
  <2> QED
    BY <1>3, <1>6, <2>1, <2>2 DEF PeersFrom
<1>7. PeersServed'
  BY <1>4, <1>6 DEF PeersServed
<1> QED
  BY <1>5, <1>7 DEF Served

LEMMA AcceptServed ==
  ASSUME TokenInv, Served, Accept
  PROVE  Served'
<1>1. PICK T : Signalled(T)
  BY DEF TokenInv
<1>2. UNCHANGED <<stopped, remembered, fifo, peers>> /\ serving = 0
  BY DEF Accept
<1>3. SignalsServed'
  BY <1>1, <1>2, SignalsStay, ConnectedIs DEF Served, ServingStays
<1>4. \A u \in Users : peers[u] # NoPeer => peers[u].conn # 0
  BY <1>1, ConnectedIs DEF Signalled, MediaOK, PeersOK, PeerRec
<1>5. PeersServed'
  BY <1>2, <1>4 DEF Served, PeersServed
<1> QED
  BY <1>3, <1>5 DEF Served

LEMMA ReadServed ==
  ASSUME TokenInv, Served, HandleRead
  PROVE  Served'
<1>1. PICK T : Signalled(T)
  BY DEF TokenInv
<1>2. PICK e : /\ fifo' = Append(fifo, e) /\ e.t = "signal" /\ e.conn = serving
               /\ remembered' = remembered \cup {serving}
               /\ UNCHANGED <<serving, stopped, peers>>
  BY DEF HandleRead
<1>3. /\ \A i \in 1..Len(fifo') :
           (i \in 1..Len(fifo) /\ fifo'[i] = fifo[i]) \/ fifo'[i] = e
      /\ \A j \in 1..Len(fifo) : j \in 1..Len(fifo') /\ fifo'[j] = fifo[j]
  BY <1>1, <1>2, QueuesAre, AppendAt, AppendIs
<1>4. SignalsServed'
  <2>1. ASSUME NEW i \in 1..Len(fifo'), fifo'[i].t = "signal", NEW m, m = fifo'[i]
        PROVE  m.conn \in remembered' /\ (m.conn = serving \/ m.conn \in stopped)
    BY <1>2, <1>3, <2>1 DEF Served, SignalsServed
  <2> QED
    BY <1>2, <2>1 DEF SignalsServed
<1>5. PeersServed'
  BY <1>2, <1>3, PeersStayServed DEF Served
<1> QED
  BY <1>4, <1>5 DEF Served

LEMMA EndServed ==
  ASSUME TokenInv, Served, NEW ended, EndConnection(ended)
  PROVE  Served'
<1>1. PICK T : Signalled(T)
  BY DEF TokenInv
<1>2. PICK e, c : e = [t |-> "gone", conn |-> serving] /\ c = serving
  OBVIOUS
<1>3. /\ fifo' = IF c \in remembered THEN Append(fifo, e) ELSE fifo
      /\ stopped' = stopped \cup {c} /\ serving' = 0 /\ UNCHANGED <<remembered, peers>>
  BY <1>2 DEF EndConnection
<1>4. /\ \A j \in 1..Len(fifo) : j \in 1..Len(fifo') /\ fifo'[j] = fifo[j]
      /\ \A i \in 1..Len(fifo') : (i \in 1..Len(fifo) /\ fifo'[i] = fifo[i]) \/ fifo'[i] = e
      /\ c \in remembered => \E i \in 1..Len(fifo') : fifo'[i] = e
  <2>1. CASE c \in remembered
    <3>1. fifo' = Append(fifo, e)
      BY <1>3, <2>1
    <3>2. PICK n : n = Len(fifo)
      OBVIOUS
    <3>3. n \in Nat /\ Len(fifo') = n + 1 /\ fifo'[n + 1] = e
          /\ \A j \in 1..n : fifo'[j] = fifo[j]
      BY <1>1, <3>1, <3>2, QueuesAre, AppendIs
    <3> QED
      BY <3>2, <3>3
  <2>2. CASE c \notin remembered
    BY <1>3, <2>2
  <2> QED
    BY <2>1, <2>2
<1>5. SignalsServed'
  <2>1. \A i \in 1..Len(fifo') : fifo'[i].t = "signal" =>
          \E j \in 1..Len(fifo) : fifo'[i] = fifo[j]
    BY <1>2, <1>4
  <2>2. ServingStays
    BY <1>2, <1>3 DEF ServingStays
  <2> QED
    BY <1>1, <2>1, <2>2, SignalsStay DEF Served
<1>6. ASSUME NEW u \in Users, peers[u] # NoPeer, NEW d, d = peers[u].conn
      PROVE  /\ d \in remembered
             /\ \E i \in 1..Len(fifo') : fifo'[i].t = "gone" /\ fifo'[i].conn = d
  <2>1. d \in remembered
    BY <1>6 DEF Served, PeersServed
  <2>2. CASE d = c
    BY <1>2, <1>4, <2>1, <2>2
  <2>3. CASE d # c
    <3>1. PICK j \in 1..Len(fifo) : fifo[j].t = "gone" /\ fifo[j].conn = d
      BY <1>2, <1>6, <2>3 DEF Served, PeersServed
    <3> QED
      BY <1>4, <2>1, <3>1
  <2> QED
    BY <2>2, <2>3
<1>7. PeersServed'
  BY <1>3, <1>6 DEF PeersServed
<1> QED
  BY <1>5, <1>7 DEF Served

LEMMA ServedStep ==
  ASSUME TokenInv, Served, [Next]_vars
  PROVE  Served'
<1>1. PICK T : Signalled(T)
  BY DEF TokenInv
<1>2. CASE UNCHANGED <<serving, remembered, stopped, fifo, peers>>
  BY <1>2 DEF Served, PeersServed, SignalsServed
<1>3. CASE UNCHANGED mediaVars \/ UNCHANGED vars
  BY <1>2, <1>3 DEF mediaVars, vars
<1>4. CASE ServerStep
  BY <1>4, AcceptServed, ReadServed, EndServed DEF ServerStep
<1>5. CASE ServerCandidate
  <2>1. PICK u \in Users : LocalCandidate(u)
    BY <1>5 DEF ServerCandidate
  <2>2. PICK e : /\ e = LocalSignal(u, peers[u], "candidate") /\ fifo' = Append(fifo, e)
                 /\ UNCHANGED <<serving, remembered, stopped, peers>>
    BY <2>1 DEF LocalCandidate
  <2>3. e.t = "local"
    BY <2>2 DEF LocalSignal
  <2>4. /\ \A i \in 1..Len(fifo') :
             (i \in 1..Len(fifo) /\ fifo'[i] = fifo[i]) \/ fifo'[i] = e
        /\ \A j \in 1..Len(fifo) : j \in 1..Len(fifo') /\ fifo'[j] = fifo[j]
    BY <1>1, <2>2, QueuesAre, AppendAt, AppendIs
  <2>5. SignalsServed'
    BY <1>1, <2>2, <2>3, <2>4, SignalsStay DEF Served, ServingStays
  <2>6. PeersServed'
    BY <2>2, <2>4, PeersStayServed DEF Served
  <2> QED
    BY <2>5, <2>6 DEF Served
<1>6. CASE Restart
  <2>1. fifo' = <<>> /\ peers' = [u \in Users |-> NoPeer]
    BY <1>6 DEF Restart, MediaRestart
  <2> QED
    BY <2>1, EmptyIs DEF Served, PeersServed, SignalsServed
<1>7. CASE RtpStep
  BY <1>2, <1>7 DEF RtpStep, ForwardRtp, ForwardTo
<1>8. CASE Connect \/ Disconnect \/ ControlStep \/ MediaOfferSend \/ RoomStep \/ RealtimeRestart
  BY <1>2, <1>8 DEF Connect, Disconnect, ControlStep, MediaOfferSend, RoomStep, RealtimeRestart
<1>9. CASE \E u \in Users :
             OpenCamera(u) \/ ClientCandidate(u) \/ LeaveMeeting(u) \/ Rejoin(u)
             \/ LoseConnection(u) \/ ClientReceive(u)
  BY <1>3, <1>9 DEF OpenCamera, ClientCandidate, LeaveMeeting, Rejoin, LoseConnection,
     ClientReceive
<1> QED
  BY <1>3, <1>4, <1>5, <1>6, <1>7, <1>8, <1>9, RoomEventServed DEF Next, Progress

-----------------------------------------------------------------------------
(* A connection that nothing came on.                                      *)
LEMMA NothingUsed == ASSUME ~Used' PROVE Kept'
<1>1. wire'[econn'] = <<>>
  BY DEF Used
<1>2. 1..Len(wire'[econn']) = {}
  BY <1>1, EmptyIs
<1>3. PeersKept' /\ FifoKept'
  BY DEF Used, PeersKept, FifoKept
<1>4. WireKept'
  BY <1>2 DEF WireKept
<1> QED
  BY <1>3, <1>4 DEF Kept

LEMMA StaysUnused ==
  ASSUME ~Used, UNCHANGED <<fifo, peers, econn>>, wire'[econn] = wire[econn]
  PROVE  Kept'
<1>1. ~Used'
  BY DEF Used, IsOffer
<1> QED
  BY <1>1, NothingUsed

(* RealtimeServer forgets nothing that is used, and sends nothing.         *)
LEMMA NothingForgotten ==
  ASSUME Kept, Healthy' => Healthy, UNCHANGED <<fifo, peers, econn, mediaEpoch, epoch>>,
         wire'[econn] = wire[econn],
         \A id, u : Known(id, u) => Known(id, u)'
  PROVE  Kept'
<1>1. SUFFICES ASSUME Healthy' PROVE PeersKept' /\ FifoKept' /\ WireKept' /\ (Used => mediaEpoch = epoch)'
  BY DEF Kept
<1>2. PeersKept /\ FifoKept /\ WireKept /\ (Used => mediaEpoch = epoch)
  BY <1>1 DEF Kept
<1>3. \A i, id, u : LeftAfter(i, id, u) => LeftAfter(i, id, u)'
  BY DEF LeftAfter, FifoLeave, WireLeave
<1>4. \A i, id, u : LeftBehind(i, id, u) => LeftBehind(i, id, u)'
  BY DEF LeftBehind, WireLeave
<1>5. PeersKept'
  BY <1>2, <1>3 DEF PeersKept
<1>6. FifoKept'
  BY <1>2, <1>3 DEF FifoKept, IsOffer
<1>7. WireKept'
  BY <1>2, <1>4 DEF WireKept
<1>8. Used' => Used
  BY DEF Used, IsOffer
<1> QED
  BY <1>2, <1>5, <1>6, <1>7, <1>8

(* It sends the frame f: an offer of a session it knows, or the leave of    *)
(* what it forgets.                                                        *)
LEMMA FrameSent ==
  ASSUME NEW T, Signalled(T), Kept, Healthy, UNCHANGED <<fifo, peers, econn>>,
         NEW f, wire' = [wire EXCEPT ![econn] = Append(@, f)],
         \A id, u : Known(id, u) => Known(id, u)' \/ IsLeave(f, id, u),
         f.type = "offer" => Known(f.sig, f.uid)',
         mediaEpoch' = epoch'
  PROVE  Kept'
<1>1. PICK w, q, n : w = wire[econn] /\ q = Append(w, f) /\ n = Len(w)
  OBVIOUS
<1>2. econn \in Conns /\ IsSeq(w) /\ wire'[econn] = q
  BY <1>1, QueuesAre, ConnectedIs DEF Healthy, Signalled
<1>3. /\ n \in Nat /\ Len(q) = n + 1 /\ q[n + 1] = f
      /\ \A i \in 1..n : q[i] = w[i]
  BY <1>1, <1>2, AppendIs
<1>4. PeersKept /\ FifoKept /\ WireKept
  BY DEF Kept
<1>5. ASSUME NEW i \in 0..n, NEW id, NEW u, WireLeave(i, id, u) \/ IsLeave(f, id, u)
      PROVE  WireLeave(i, id, u)'
  <2>1. SUFFICES \E j \in 1..Len(q) : j > i /\ IsLeave(q[j], id, u)
    BY <1>2 DEF WireLeave
  <2>2. CASE IsLeave(f, id, u)
    BY <1>3, <2>2
  <2>3. CASE WireLeave(i, id, u)
    <3>1. PICK j \in 1..n : j > i /\ IsLeave(w[j], id, u)
      BY <1>1, <2>3 DEF WireLeave
    <3>2. j \in 1..Len(q) /\ q[j] = w[j]
      BY <1>3
    <3> QED
      BY <3>1, <3>2
  <2> QED
    BY <1>5, <2>2, <2>3
<1>6. ASSUME NEW i, NEW id, NEW u, LeftAfter(i, id, u) PROVE LeftAfter(i, id, u)'
  <2>1. CASE Known(id, u)
    <3>1. Known(id, u)' \/ WireLeave(0, id, u)'
      BY <1>3, <1>5, <2>1
    <3> QED
      BY <3>1 DEF LeftAfter
  <2>2. CASE FifoLeave(i, id, u)
    BY <2>2 DEF LeftAfter, FifoLeave
  <2>3. CASE WireLeave(0, id, u)
    BY <1>3, <1>5, <2>3 DEF LeftAfter
  <2> QED
    BY <1>6, <2>1, <2>2, <2>3 DEF LeftAfter
<1>7. PeersKept'
  BY <1>4, <1>6 DEF PeersKept
<1>8. FifoKept'
  BY <1>4, <1>6 DEF FifoKept, IsOffer
<1>9. WireKept'
  <2>1. SUFFICES ASSUME NEW i \in 1..Len(q), q[i].type = "offer", NEW m, m = q[i]
                 PROVE  LeftBehind(i, m.sig, m.uid)'
    BY <1>2 DEF WireKept
  <2>2. CASE i = n + 1
    BY <1>3, <2>1, <2>2 DEF LeftBehind
  <2>3. CASE i \in 1..n
    <3>1. m = w[i]
      BY <1>3, <2>1, <2>3
    <3>2. LeftBehind(i, m.sig, m.uid)
      BY <1>1, <1>4, <2>1, <2>3, <3>1 DEF WireKept
    <3>3. i \in 0..n
      BY <1>3, <2>3
    <3>4. PICK id, u : id = m.sig /\ u = m.uid
      OBVIOUS
    <3>5. LeftBehind(i, id, u)'
      BY <1>5, <3>2, <3>3, <3>4 DEF LeftBehind
    <3> QED
      BY <3>4, <3>5
  <2> QED
    BY <1>3, <2>1, <2>2, <2>3
<1> QED
  BY <1>7, <1>8, <1>9 DEF Kept

(* MediaServer's socket and library only add to the FIFO.                  *)
LEMMA FifoGrows ==
  ASSUME NEW T, Signalled(T), Kept, UNCHANGED <<signals, sig, bound, mediaEpoch, epoch>>,
         UNCHANGED <<econn, peers>>, wire'[econn] = wire[econn],
         (connected' => connected), stopped \subseteq stopped',
         fifo' = fifo \/ \E e : fifo' = Append(fifo, e) /\ ~(e.t = "signal" /\ e.conn = econn)
  PROVE  Kept'
<1>1. SUFFICES ASSUME Healthy' PROVE PeersKept' /\ FifoKept' /\ WireKept' /\ (Used => mediaEpoch = epoch)'
  BY DEF Kept
<1>2. PeersKept /\ FifoKept /\ WireKept /\ (Used => mediaEpoch = epoch)
  BY <1>1 DEF Kept, Healthy
<1>3. /\ \A j \in 1..Len(fifo) : j \in 1..Len(fifo') /\ fifo'[j] = fifo[j]
      /\ \A i \in 1..Len(fifo') : (i \in 1..Len(fifo) /\ fifo'[i] = fifo[i])
                                  \/ ~(fifo'[i].t = "signal" /\ fifo'[i].conn = econn)
  <2>1. ASSUME NEW e, fifo' = Append(fifo, e), ~(e.t = "signal" /\ e.conn = econn)
        PROVE  /\ \A j \in 1..Len(fifo) : j \in 1..Len(fifo') /\ fifo'[j] = fifo[j]
               /\ \A i \in 1..Len(fifo') : (i \in 1..Len(fifo) /\ fifo'[i] = fifo[i])
                                           \/ ~(fifo'[i].t = "signal" /\ fifo'[i].conn = econn)
    <3>1. /\ Len(fifo) \in Nat /\ Len(fifo') = Len(fifo) + 1
          /\ \A j \in 1..Len(fifo) : fifo'[j] = fifo[j]
      BY <2>1, QueuesAre, AppendIs
    <3>2. \A i \in 1..Len(fifo') : (i \in 1..Len(fifo) /\ fifo'[i] = fifo[i]) \/ fifo'[i] = e
      BY <2>1, QueuesAre, AppendAt
    <3> QED
      BY <2>1, <3>1, <3>2
  <2> QED
    BY <2>1
<1>4. \A i, id, u : FifoLeave(i, id, u) => FifoLeave(i, id, u)'
  BY <1>3 DEF FifoLeave
<1>5. \A i, id, u : LeftAfter(i, id, u) => LeftAfter(i, id, u)'
  BY <1>4, KnownStays DEF LeftAfter, WireLeave
<1>6. \A i, id, u : LeftBehind(i, id, u) => LeftBehind(i, id, u)'
  BY KnownStays DEF LeftBehind, WireLeave
<1>7. PeersKept'
  BY <1>2, <1>5 DEF PeersKept
<1>8. FifoKept'
  <2>1. ASSUME NEW i \in 1..Len(fifo'), IsOffer(fifo[i])', NEW m, m = fifo'[i]
        PROVE  LeftAfter(i, m.sig, m.uid)'
    <3>1. i \in 1..Len(fifo) /\ m = fifo[i] /\ IsOffer(m)
      BY <1>3, <2>1 DEF IsOffer
    <3>2. LeftAfter(i, m.sig, m.uid)
      BY <1>2, <3>1 DEF FifoKept
    <3> QED
      BY <1>5, <3>2
  <2> QED
    BY <2>1 DEF FifoKept
<1>9. WireKept'
  BY <1>2, <1>6 DEF WireKept
<1>10. Used' => Used
  BY <1>3 DEF Used, IsOffer
<1> QED
  BY <1>2, <1>7, <1>8, <1>9, <1>10

-----------------------------------------------------------------------------
(* A leave behind the head of the FIFO stays behind what stood before it.  *)
LEMMA LeaveTaken ==
  ASSUME NEW T, Signalled(T), Taken, econn' = econn, NEW i \in Nat, NEW id, NEW u,
         FifoLeave(i + 1, id, u)
  PROVE  FifoLeave(i, id, u)'
<1>1. PICK j \in 1..Len(fifo) : /\ j > i + 1 /\ fifo[j].t = "signal" /\ fifo[j].conn = econn
                                /\ IsLeave(fifo[j], id, u)
  BY DEF FifoLeave
<1>2. j # 1 /\ j - 1 > i
  BY <1>1
<1>3. j - 1 \in 1..Len(fifo') /\ fifo'[j - 1] = fifo[j]
  BY <1>1, <1>2 DEF Taken
<1> QED
  BY <1>1, <1>2, <1>3 DEF FifoLeave

LEMMA RoomEventFollows ==
  ASSUME TokenInv, Kept, RoomEvent
  PROVE  Kept'
<1>1. PICK T : Signalled(T)
  BY DEF TokenInv
<1>2. PICK e : e = Head(fifo)
  OBVIOUS
<1>3. 1 \in 1..Len(fifo) /\ e = fifo[1] /\ Taken /\ PeersFrom(e)
  BY <1>2, RoomEventIs
<1>4. /\ UNCHANGED <<signals, sig, bound, mediaEpoch, epoch, econn, connected, wire>>
      /\ stopped \subseteq stopped'
  BY DEF RoomEvent, realtimeVars, signalVars, udsVars, HandleRoomEvent, HandleSignal,
         HandlePublisherTrackReady, HandleLocalMediaSignal, SendBack, HandleSignalDisconnected
<1>5. SUFFICES ASSUME Healthy' PROVE PeersKept' /\ FifoKept' /\ WireKept' /\ (Used => mediaEpoch = epoch)'
  BY DEF Kept
<1>6. /\ PeersKept /\ FifoKept /\ WireKept /\ (Used => mediaEpoch = epoch)
      /\ econn \notin stopped
  BY <1>4, <1>5 DEF Kept, Healthy
<1>7. \A id, u : Known(id, u) => Known(id, u)'
  BY <1>4, KnownStays
<1>8. \A i, id, u : WireLeave(i, id, u) => WireLeave(i, id, u)'
  BY <1>4 DEF WireLeave
<1>9. ASSUME NEW i \in Nat, NEW id, NEW u, LeftAfter(i + 1, id, u) PROVE LeftAfter(i, id, u)'
  BY <1>1, <1>3, <1>4, <1>7, <1>8, <1>9, LeaveTaken DEF LeftAfter
<1>10. ASSUME NEW u \in Users, peers'[u] # NoPeer, peers'[u].conn = econn,
              NEW id, id = peers'[u].sig
       PROVE  LeftAfter(0, id, u)'
  <2>1. CASE FreshPeer(u, peers'[u], e)
    <3>1. IsOffer(fifo[1]) /\ fifo[1].sig = id /\ fifo[1].uid = u
      BY <1>3, <1>10, <2>1 DEF FreshPeer, IsOffer
    <3>2. LeftAfter(0 + 1, id, u)
      BY <1>3, <1>6, <3>1 DEF FifoKept
    <3> QED
      BY <1>9, <3>2
  <2>2. CASE peers[u] # NoPeer /\ Same(peers'[u], peers[u])
    <3>1. peers[u].conn = econn /\ peers[u].sig = id
      BY <1>10, <2>2 DEF Same
    <3>2. LeftAfter(0, id, u)
      BY <1>6, <2>2, <3>1 DEF PeersKept
    <3>3. CASE FifoLeave(0, id, u)
      <4>1. PICK j \in 1..Len(fifo) : /\ fifo[j].t = "signal" /\ fifo[j].conn = econn
                                      /\ IsLeave(fifo[j], id, u)
        BY <3>3 DEF FifoLeave
      <4>2. j # 1
        <5>1. SUFFICES ASSUME j = 1 PROVE FALSE
          OBVIOUS
        <5>2. /\ e.t = "signal" /\ e.type = "leave" /\ e.conn = econn /\ e.uid = u /\ e.sig = id
          BY <1>3, <4>1, <5>1 DEF IsLeave
        <5>3. Addressed(e)
          BY <2>2, <3>1, <5>2 DEF Addressed
        <5> QED
          BY <1>2, <1>6, <1>10, <5>2, <5>3, LeaveRemoves
      <4>3. j - 1 \in 1..Len(fifo') /\ fifo'[j - 1] = fifo[j] /\ j - 1 > 0
        BY <1>3, <4>2 DEF Taken
      <4>4. FifoLeave(0, id, u)'
        BY <1>4, <4>1, <4>3 DEF FifoLeave
      <4> QED
        BY <4>4 DEF LeftAfter
    <3> QED
      BY <1>7, <1>8, <3>2, <3>3 DEF LeftAfter
  <2> QED
    BY <1>3, <1>10, <2>1, <2>2 DEF PeersFrom
<1>11. PeersKept'
  BY <1>4, <1>10 DEF PeersKept
<1>12. ASSUME NEW i \in 1..Len(fifo'), IsOffer(fifo[i])', NEW m, m = fifo'[i]
       PROVE  /\ i + 1 \in 1..Len(fifo) /\ IsOffer(fifo[i + 1])
              /\ LeftAfter(i, m.sig, m.uid)'
  <2>1. IsOffer(m)
    BY <1>4, <1>12 DEF IsOffer
  <2>2. i + 1 \in 1..Len(fifo) /\ m = fifo[i + 1]
    BY <1>3, <1>12, <2>1 DEF Taken, IsOffer, IsNotice
  <2>3. LeftAfter(i + 1, m.sig, m.uid)
    BY <1>6, <2>1, <2>2 DEF FifoKept
  <2>4. i \in Nat
    BY <1>12
  <2> QED
    BY <1>9, <2>1, <2>2, <2>3, <2>4
<1>13. FifoKept'
  BY <1>12 DEF FifoKept
<1>14. WireKept'
  BY <1>4, <1>6, <1>7, <1>8 DEF WireKept, LeftBehind
<1>15. Used' => Used
  <2>1. ASSUME NEW u \in Users, peers'[u] # NoPeer, peers'[u].conn = econn PROVE Used
    <3>1. CASE FreshPeer(u, peers'[u], e)
      BY <1>3, <2>1, <3>1 DEF FreshPeer, Used, IsOffer
    <3>2. CASE peers[u] # NoPeer /\ Same(peers'[u], peers[u])
      BY <2>1, <3>2 DEF Used, Same
    <3> QED
      BY <1>3, <2>1, <3>1, <3>2 DEF PeersFrom
  <2>2. ASSUME NEW i \in 1..Len(fifo'), IsOffer(fifo[i])' PROVE Used
    <3>1. PICK m : m = fifo'[i]
      OBVIOUS
    <3> QED
      BY <1>12, <2>2, <3>1 DEF Used
  <2> QED
    BY <1>4, <2>1, <2>2 DEF Used
<1> QED
  BY <1>4, <1>6, <1>11, <1>13, <1>14, <1>15

(* MediaServer reads a frame of the epoch's connection.                    *)
LEMMA ReadFollows ==
  ASSUME NEW T, Signalled(T), Kept, HandleRead, UNCHANGED realtimeVars, serving = econn
  PROVE  Kept'
<1>1. /\ UNCHANGED <<signals, sig, bound, mediaEpoch, epoch, econn, connected, peers, stopped>>
      /\ econn # 0
  BY DEF HandleRead, realtimeVars, signalVars, udsVars
<1>2. PICK w, q, n, m, e :
         /\ w = wire[econn] /\ q = Tail(w) /\ n = Len(fifo) /\ m = Head(w)
         /\ e = [t |-> "signal", conn |-> econn, type |-> m.type, sig |-> m.sig, uid |-> m.uid,
                 tag |-> m.tag, re |-> m.re]
  OBVIOUS
<1>3. econn \in Conns /\ IsSeq(w) /\ w # <<>>
  BY <1>1, <1>2, QueuesAre, ConnectedIs DEF Signalled, HandleRead
<1>4. wire'[econn] = q /\ fifo' = Append(fifo, e)
  BY <1>2, <1>3, QueuesAre DEF HandleRead
<1>5. /\ n \in Nat /\ Len(fifo') = n + 1 /\ fifo'[n + 1] = e
      /\ \A i \in 1..n : fifo'[i] = fifo[i]
  BY <1>2, <1>4, QueuesAre, AppendIs
<1>6. /\ Len(w) \in Nat /\ Len(w) >= 1 /\ Len(q) = Len(w) - 1 /\ m = w[1]
      /\ \A i \in 1..Len(q) : q[i] = w[i + 1]
  BY <1>2, <1>3, TailIs
<1>7. SUFFICES ASSUME Healthy' PROVE PeersKept' /\ FifoKept' /\ WireKept' /\ (Used => mediaEpoch = epoch)'
  BY DEF Kept
<1>8. PeersKept /\ FifoKept /\ WireKept /\ mediaEpoch = epoch
  BY <1>1, <1>2, <1>3, <1>7 DEF Kept, Healthy, Used
<1>9. \A id, u : Known(id, u) => Known(id, u)'
  BY <1>1, KnownStays
<1>10. ASSUME NEW i \in Nat, NEW id, NEW u, WireLeave(i + 1, id, u) PROVE WireLeave(i, id, u)'
  <2>1. PICK j \in 1..Len(w) : j > i + 1 /\ IsLeave(w[j], id, u)
    BY <1>2, <1>10 DEF WireLeave
  <2>2. j - 1 \in 1..Len(q) /\ j - 1 > i /\ (j - 1) + 1 = j
    BY <1>6, <2>1
  <2>3. q[j - 1] = w[j]
    BY <1>6, <2>2
  <2> QED
    BY <1>1, <1>4, <2>1, <2>2, <2>3 DEF WireLeave
<1>11. ASSUME NEW i \in 0..n, NEW id, NEW u, LeftAfter(i, id, u) PROVE LeftAfter(i, id, u)'
  <2>1. CASE FifoLeave(i, id, u)
    <3>1. PICK j \in 1..n : /\ j > i /\ fifo[j].t = "signal" /\ fifo[j].conn = econn
                            /\ IsLeave(fifo[j], id, u)
      BY <1>2, <2>1 DEF FifoLeave
    <3>2. j \in 1..Len(fifo') /\ fifo'[j] = fifo[j]
      BY <1>5
    <3> QED
      BY <1>1, <3>1, <3>2 DEF LeftAfter, FifoLeave
  <2>2. CASE WireLeave(0, id, u)
    <3>1. PICK j \in 1..Len(w) : j > 0 /\ IsLeave(w[j], id, u)
      BY <1>2, <2>2 DEF WireLeave
    <3>2. CASE j = 1
      <4>1. IsLeave(e, id, u) /\ e.t = "signal" /\ e.conn = econn
        BY <1>2, <1>6, <3>1, <3>2 DEF IsLeave
      <4>2. n + 1 \in 1..Len(fifo') /\ n + 1 > i
        BY <1>5
      <4> QED
        BY <1>1, <1>5, <4>1, <4>2 DEF LeftAfter, FifoLeave
    <3>3. CASE j # 1
      <4>1. WireLeave(0 + 1, id, u)
        BY <1>2, <3>1, <3>3 DEF WireLeave
      <4>2. WireLeave(0, id, u)'
        BY <1>10, <4>1
      <4> QED
        BY <4>2 DEF LeftAfter
    <3> QED
      BY <3>2, <3>3
  <2> QED
    BY <1>9, <1>11, <2>1, <2>2 DEF LeftAfter
<1>12. PeersKept'
  <2>1. 0 \in 0..n
    BY <1>5
  <2> QED
    BY <1>1, <1>8, <1>11, <2>1 DEF PeersKept
<1>13. ASSUME NEW i \in 1..Len(fifo'), IsOffer(fifo[i])', NEW o, o = fifo'[i]
       PROVE  LeftAfter(i, o.sig, o.uid)'
  <2>1. IsOffer(o)
    BY <1>1, <1>13 DEF IsOffer
  <2>2. CASE i \in 1..n
    <3>1. o = fifo[i] /\ i \in 0..n
      BY <1>5, <1>13, <2>2
    <3>2. LeftAfter(i, o.sig, o.uid)
      BY <1>2, <1>8, <2>1, <2>2, <3>1 DEF FifoKept
    <3> QED
      BY <1>11, <3>1, <3>2
  <2>3. CASE i \notin 1..n
    <3>1. i = n + 1
      BY <1>5, <1>13, <2>3
    <3>2. o = e
      BY <1>5, <1>13, <3>1
    <3>3. w[1].type = "offer" /\ o.sig = w[1].sig /\ o.uid = w[1].uid /\ 1 \in 1..Len(w)
      BY <1>2, <1>6, <2>1, <3>2 DEF IsOffer
    <3>4. PICK id, u : id = o.sig /\ u = o.uid
      OBVIOUS
    <3>5. LeftBehind(1, id, u)
      BY <1>2, <1>8, <3>3, <3>4 DEF WireKept
    <3>6. CASE WireLeave(0 + 1, id, u)
      <4>1. WireLeave(0, id, u)'
        BY <1>10, <3>6
      <4> QED
        BY <3>4, <4>1 DEF LeftAfter
    <3>7. CASE Known(id, u)
      <4>1. Known(id, u)'
        BY <1>9, <3>7
      <4> QED
        BY <3>4, <4>1 DEF LeftAfter
    <3> QED
      BY <3>5, <3>6, <3>7 DEF LeftBehind
  <2> QED
    BY <2>2, <2>3
<1>14. FifoKept'
  BY <1>13 DEF FifoKept
<1>15. WireKept'
  <2>1. SUFFICES ASSUME NEW i \in 1..Len(q), q[i].type = "offer", NEW id, id = q[i].sig,
                        NEW u, u = q[i].uid
                 PROVE  LeftBehind(i, id, u)'
    BY <1>1, <1>4 DEF WireKept
  <2>2. i + 1 \in 1..Len(w) /\ q[i] = w[i + 1] /\ i \in Nat
    BY <1>6, <2>1
  <2>3. LeftBehind(i + 1, id, u)
    BY <1>2, <1>8, <2>1, <2>2 DEF WireKept
  <2> QED
    BY <1>9, <1>10, <2>2, <2>3 DEF LeftBehind
<1> QED
  BY <1>1, <1>8, <1>12, <1>14, <1>15

LEMMA ServerFollows ==
  ASSUME TokenInv, Kept, ServerStep \/ ServerCandidate \/ Restart
  PROVE  Kept'
<1>1. PICK T : Signalled(T)
  BY DEF TokenInv
<1>2. UNCHANGED realtimeVars
      /\ UNCHANGED <<signals, sig, bound, mediaEpoch, epoch, econn, connected>>
  BY DEF ServerStep, ServerCandidate, Restart, realtimeVars, signalVars, udsVars
<1>3. CASE Accept
  BY <1>1, <1>2, <1>3, FifoGrows DEF Accept
<1>4. CASE HandleRead
  <2>1. CASE serving = econn
    BY <1>1, <1>2, <1>4, <2>1, ReadFollows
  <2>2. CASE serving # econn
    <3>1. wire'[econn] = wire[econn] /\ UNCHANGED <<peers, stopped>>
      BY <1>1, <1>4, <2>2, QueuesAre DEF HandleRead
    <3>2. PICK e : fifo' = Append(fifo, e) /\ e.conn = serving
      BY <1>4 DEF HandleRead
    <3> QED
      BY <1>1, <1>2, <2>2, <3>1, <3>2, FifoGrows
  <2> QED
    BY <2>1, <2>2
<1>5. CASE \E ended : EndConnection(ended)
  <2>1. PICK e : e = [t |-> "gone", conn |-> serving]
    OBVIOUS
  <2>2. /\ fifo' = fifo \/ fifo' = Append(fifo, e)
        /\ stopped' = stopped \cup {serving} /\ wire' = [wire EXCEPT ![serving] = <<>>]
        /\ peers' = peers
    BY <1>5, <2>1 DEF EndConnection
  <2>3. CASE serving = econn
    <3>1. ~Healthy'
      BY <1>2, <2>2, <2>3 DEF Healthy
    <3> QED
      BY <3>1 DEF Kept
  <2>4. CASE serving # econn
    <3>1. wire'[econn] = wire[econn] /\ e.t # "signal"
      BY <1>1, <2>1, <2>2, <2>4, QueuesAre
    <3> QED
      BY <1>1, <1>2, <2>2, <3>1, FifoGrows
  <2> QED
    BY <2>3, <2>4
<1>6. CASE ServerCandidate
  <2>1. PICK u \in Users : LocalCandidate(u)
    BY <1>6 DEF ServerCandidate
  <2>2. PICK e : /\ e = LocalSignal(u, peers[u], "candidate") /\ fifo' = Append(fifo, e)
                 /\ UNCHANGED <<wire, stopped, peers>>
    BY <2>1 DEF LocalCandidate
  <2>3. e.t = "local"
    BY <2>2 DEF LocalSignal
  <2> QED
    BY <1>1, <1>2, <2>2, <2>3, FifoGrows
<1>7. CASE Restart
  <2>1. fifo' = <<>> /\ peers' = [u \in Users |-> NoPeer] /\ wire' = [c \in Conns |-> <<>>]
    BY <1>7 DEF Restart, MediaRestart
  <2>2. CASE econn # 0
    <3>1. econn \in Conns
      BY <1>1, <2>2, ConnectedIs DEF Signalled
    <3>2. ~Used'
      BY <1>2, <2>1, <3>1, EmptyIs DEF Used
    <3> QED
      BY <3>2, NothingUsed
  <2>3. CASE econn = 0
    BY <1>2, <2>3 DEF Kept, Healthy
  <2> QED
    BY <2>2, <2>3
<1> QED
  BY <1>3, <1>4, <1>5, <1>6, <1>7 DEF ServerStep

(* A new connection has nothing of the old ones.                           *)
LEMMA ConnectFollows ==
  ASSUME TokenInv, Connect
  PROVE  Kept'
<1>1. PICK T : Signalled(T)
  BY DEF TokenInv
<1>2. PICK c : c = nconn + 1
  OBVIOUS
<1>3. c \in Conns /\ c > nconn /\ nconn \in Nat /\ \A d \in 1..nconn : d # c
  BY <1>1, <1>2, ConnectedIs DEF Connect, Signalled, Conns
<1>4. econn' = c /\ UNCHANGED <<wire, fifo, peers>>
  BY <1>2 DEF Connect
<1>5. wire[c] = <<>>
  BY <1>1, <1>3 DEF Signalled, Wired
<1>6. \A u \in Users : peers[u] # NoPeer => peers[u].conn # c
  BY <1>1, <1>3 DEF Signalled, MediaOK, PeersOK, PeerRec
<1>7. \A i \in 1..Len(fifo) : fifo[i].t = "signal" => fifo[i].conn # c
  BY <1>1, <1>3 DEF Signalled, MediaOK, EventsOK, EventOK
<1>8. ~Used'
  BY <1>4, <1>5, <1>6, <1>7 DEF Used, IsOffer
<1> QED
  BY <1>8, NothingUsed

-----------------------------------------------------------------------------
(* The session of the room each member has.                                *)
Bindings == bound \in [Users -> 0..MaxSessions]

LEMMA BindingsStep ==
  ASSUME TokenInv, Bindings, [Next]_vars
  PROVE  Bindings'
<1>1. PICK T : Signalled(T)
  BY DEF TokenInv
<1>2. CASE bound' = bound
  BY <1>2 DEF Bindings
<1>3. CASE UNCHANGED realtimeVars \/ UNCHANGED signalVars
  BY <1>2, <1>3 DEF realtimeVars, signalVars
<1>4. CASE RoomStep
  <2>1. PICK o : o = Head(roomq)
    OBVIOUS
  <2>2. PICK s : s = o.session
    OBVIOUS
  <2>3. s \in Sessions
    BY <1>1, <1>4, <2>1, <2>2, RoomHead DEF RoomStep, Signalled, RequestOK
  <2>4. s[1] \in Users /\ s[2] \in 1..MaxSessions
    BY <2>3 DEF Sessions
  <2>5. s[2] \in 0..MaxSessions /\ 0 \in 0..MaxSessions
    BY <2>4, SignalBounds
  <2>6. bound' = bound \/ \E k \in {0, s[2]} : bound' = [bound EXCEPT ![s[1]] = k]
    BY <1>4, <2>1, <2>2
       DEF RoomStep, MediaOffer, MediaAnswer, MediaCandidate, Relay, MediaRefused, Release,
           JoinMeeting, MediaResponse
  <2> QED
    BY <2>4, <2>5, <2>6 DEF Bindings
<1>5. CASE RealtimeRestart
  <2>1. bound' = [u \in Users |-> 0] /\ 0 \in 0..MaxSessions
    BY <1>5, SignalBounds DEF RealtimeRestart
  <2> QED
    BY <2>1 DEF Bindings
<1>6. CASE ControlStep \/ MediaOfferSend
  BY <1>2, <1>6 DEF ControlStep, MediaOfferSend
<1>7. CASE Connect \/ Disconnect \/ UNCHANGED vars
  BY <1>3, <1>7 DEF Connect, Disconnect, vars
<1>8. CASE RoomEvent \/ ServerStep \/ ServerCandidate \/ RtpStep \/ Restart
  BY <1>3, <1>8 DEF RoomEvent, ServerStep, ServerCandidate, RtpStep, Restart
<1>9. CASE \E u \in Users :
             OpenCamera(u) \/ ClientCandidate(u) \/ LeaveMeeting(u) \/ Rejoin(u)
             \/ LoseConnection(u) \/ ClientReceive(u)
  BY <1>3, <1>9 DEF OpenCamera, ClientCandidate, LeaveMeeting, Rejoin, LoseConnection,
     ClientReceive
<1> QED
  BY <1>4, <1>5, <1>6, <1>7, <1>8, <1>9 DEF Next, Progress

(* Forgetting the signal id of s forgets no other one.                     *)
LEMMA KnownButOne ==
  ASSUME NEW T, Signalled(T), Table, NEW id, NEW s \in Sessions, sig[s] \in {0, id},
         signals' = Without(signals, id), sig' = [sig EXCEPT ![s] = 0],
         \A r \in Sessions : Bound(r) /\ r # s => Bound(r)'
  PROVE  \A i, u : Known(i, u) /\ i # id => Known(i, u)'
<1>1. SUFFICES ASSUME NEW i, NEW u, Known(i, u), i # id PROVE Known(i, u)'
  OBVIOUS
<1>2. PICK r : r = signals[i].session
  OBVIOUS
<1>3. i \in DOMAIN signals /\ r \in Sessions /\ r[1] = u /\ Bound(r) /\ sig[r] = i /\ i # 0
  BY <1>1, <1>2 DEF Known, Signalled, BindingsOK, Table
<1>4. i \in DOMAIN signals' /\ signals'[i] = signals[i]
  BY <1>1, <1>3 DEF Without
<1>5. r # s
  BY <1>1, <1>3
<1>6. Bound(r)' /\ sig'[r] = i
  BY <1>3, <1>5 DEF Signalled, BindingsOK
<1>7. signals'[i].session = r
  BY <1>2, <1>4
<1> QED
  BY <1>3, <1>4, <1>6, <1>7 DEF Known, Bound

(* ReleaseMediaSession tells MediaServer what RealtimeServer forgets, as   *)
(* long as the connection holds.                                           *)
LEMMA ReleaseFollows ==
  ASSUME TokenInv, Epochs, Table, Kept, NEW s \in Sessions, ReleaseMediaSession(s),
         UNCHANGED <<fifo, peers, econn, mediaEpoch, epoch, stopped>>,
         \A r \in Sessions : Bound(r) /\ r # s => Bound(r)'
  PROVE  Kept'
<1>1. PICK T : Signalled(T)
  BY DEF TokenInv
<1>2. PICK id : id = sig[s]
  OBVIOUS
<1>3. signals' = Without(signals, id) /\ sig' = [sig EXCEPT ![s] = 0]
  BY <1>2 DEF ReleaseMediaSession
<1>4. \A i, u : Known(i, u) /\ i # id => Known(i, u)'
  BY <1>1, <1>2, <1>3, KnownButOne
<1>5. SUFFICES ASSUME Healthy' PROVE Kept'
  BY DEF Kept
<1>6. Healthy
  <2>1. connected' => connected
    BY DEF ReleaseMediaSession, Send
  <2> QED
    BY <1>5, <2>1 DEF Healthy
<1>7. connected /\ epoch # 0 /\ mediaEpoch \in Nat /\ epoch \in Nat
  BY <1>1, <1>6 DEF Healthy, Epochs, Signalled, Connected
<1>8. CASE id \notin DOMAIN signals
  <2>1. wire' = wire
    BY <1>2, <1>8 DEF ReleaseMediaSession, FindSignal
  <2>2. \A i, u : Known(i, u) => Known(i, u)'
    BY <1>4, <1>8 DEF Known
  <2> QED
    BY <1>6, <2>1, <2>2, NothingForgotten
<1>9. CASE id \in DOMAIN signals /\ mediaEpoch # epoch
  <2>1. ~Used
    BY <1>6, <1>9 DEF Kept
  <2>2. wire' = wire
    BY <1>2, <1>9 DEF ReleaseMediaSession, FindSignal, Table, Send, SendAccepted, IsCurrent
  <2> QED
    BY <2>1, <2>2, StaysUnused
<1>10. CASE id \in DOMAIN signals /\ mediaEpoch = epoch
  <2>1. FindSignal(id).session = s /\ FindSignal(id).epoch = mediaEpoch /\ id # 0
    BY <1>2, <1>10 DEF FindSignal, Table
  <2>2. PICK f : f = Frame("leave", id, s[1], 0, 0)
    OBVIOUS
  <2>3. Send(mediaEpoch, f)
    BY <1>2, <1>7, <1>10, <2>1, <2>2 DEF ReleaseMediaSession
  <2>4. wire' = [wire EXCEPT ![econn] = Append(@, f)]
    BY <1>5, <1>7, <1>10, <2>3 DEF Send, SendAccepted, IsCurrent, Healthy
  <2>5. \A i, u : Known(i, u) => Known(i, u)' \/ IsLeave(f, i, u)
    <3>1. SUFFICES ASSUME NEW u, Known(id, u) PROVE IsLeave(f, id, u)
      BY <1>4
    <3>2. u = s[1]
      BY <1>2, <3>1 DEF Known, Table
    <3> QED
      BY <2>2, <3>2 DEF IsLeave, Frame
  <2>6. f.type # "offer" /\ mediaEpoch' = epoch'
    BY <1>10, <2>2 DEF Frame
  <2> QED
    BY <1>1, <1>6, <2>4, <2>5, <2>6, FrameSent
<1> QED
  BY <1>8, <1>9, <1>10

(* An offer goes out under a signal id that is known, or is forgotten.     *)
LEMMA OfferFollows ==
  ASSUME TokenInv, Epochs, Table, OfferKnown, Kept, MediaOfferSend
  PROVE  Kept'
<1>1. PICK T : Signalled(T)
  BY DEF TokenInv
<1>2. PICK o : o = op[1]
  OBVIOUS
<1>3. PICK f : f = Frame("offer", o.id, o.session[1], o.tag, 0)
  OBVIOUS
<1>4. /\ o.session \in Sessions /\ o.epoch \in Nat /\ o.epoch <= mediaEpoch
      /\ sig[o.session] \in {0, o.id}
      /\ o.id \in DOMAIN signals => o.epoch = mediaEpoch
      /\ IsCurrent(o.epoch) => Known(o.id, o.session[1])
      /\ mediaEpoch \in Nat /\ epoch \in Nat /\ mediaEpoch <= epoch
  BY <1>1, <1>2 DEF MediaOfferSend, OfferKnown, Signalled, OpOK, Connected, Epochs
<1>5. /\ Send(o.epoch, f)
      /\ UNCHANGED <<fifo, peers, econn, mediaEpoch, epoch, stopped, bound>>
      /\ IF Sent(o.epoch) THEN UNCHANGED <<signals, sig>>
         ELSE signals' = Without(signals, o.id) /\ sig' = [sig EXCEPT ![o.session] = 0]
  BY <1>2, <1>3 DEF MediaOfferSend
<1>6. SUFFICES ASSUME Healthy' PROVE Kept'
  BY DEF Kept
<1>7. Healthy /\ connected
  <2>1. connected' => connected
    BY <1>5 DEF Send
  <2> QED
    BY <1>5, <1>6, <2>1 DEF Healthy
<1>8. CASE IsCurrent(o.epoch)
  <2>1. Sent(o.epoch) /\ wire' = [wire EXCEPT ![econn] = Append(@, f)]
    BY <1>5, <1>6, <1>8 DEF Send, SendAccepted, Sent, Healthy
  <2>2. \A i, u : Known(i, u)' <=> Known(i, u)
    BY <1>5, <2>1, KnownStays
  <2>3. mediaEpoch' = epoch'
    BY <1>4, <1>5, <1>8 DEF IsCurrent
  <2>4. PICK i, u : i = f.sig /\ u = f.uid
    OBVIOUS
  <2>5. i = o.id /\ u = o.session[1]
    BY <1>3, <2>4 DEF Frame
  <2>6. Known(i, u)'
    BY <1>4, <1>8, <2>2, <2>5
  <2>7. Known(f.sig, f.uid)'
    BY <2>4, <2>6
  <2> QED
    BY <1>1, <1>5, <1>7, <2>1, <2>2, <2>3, <2>7, FrameSent
<1>9. CASE ~IsCurrent(o.epoch)
  <2>1. /\ wire' = wire
        /\ signals' = Without(signals, o.id) /\ sig' = [sig EXCEPT ![o.session] = 0]
    BY <1>5, <1>9 DEF Send, SendAccepted, Sent
  <2>2. CASE ~Used
    BY <1>5, <2>1, <2>2, StaysUnused
  <2>3. CASE Used
    <3>1. o.id \notin DOMAIN signals
      BY <1>4, <1>7, <1>9, <2>3 DEF Kept, IsCurrent
    <3>2. \A r \in Sessions : Bound(r) => Bound(r)'
      BY <1>5 DEF Bound
    <3>3. \A i, u : Known(i, u) /\ i # o.id => Known(i, u)'
      BY <1>1, <1>4, <2>1, <3>2, KnownButOne
    <3>4. \A i, u : Known(i, u) => Known(i, u)'
      BY <3>1, <3>3 DEF Known
    <3> QED
      BY <1>5, <1>7, <2>1, <3>4, NothingForgotten
  <2> QED
    BY <2>2, <2>3
<1> QED
  BY <1>8, <1>9
-----------------------------------------------------------------------------
(* The strand relays a frame of a session, which is no offer.              *)
LEMMA RelayFollows ==
  ASSUME TokenInv, Epochs, Table, Kept, NEW o, o.t # "offer", Relay(o),
         UNCHANGED <<fifo, peers, econn, mediaEpoch, epoch, stopped>>
  PROVE  Kept'
<1>1. PICK T : Signalled(T)
  BY DEF TokenInv
<1>2. UNCHANGED <<signals, sig, bound>> /\ (connected' => connected)
  BY DEF Relay, Send
<1>3. \A i, u : Known(i, u) => Known(i, u)'
  BY <1>2, KnownStays
<1>4. SUFFICES ASSUME Healthy' PROVE Kept'
  BY DEF Kept
<1>5. Healthy
  BY <1>2, <1>4 DEF Healthy
<1>6. CASE wire' = wire
  BY <1>3, <1>5, <1>6, NothingForgotten
<1>7. CASE wire' # wire
  <2>1. PICK f : /\ f.type = o.t /\ Send(mediaEpoch, f)
    <3>1. PICK f : /\ f = Frame(o.t, sig[o.session], o.session[1], o.tag, o.re)
      OBVIOUS
    <3>2. f.type = o.t
      BY <3>1 DEF Frame
    <3>3. Send(mediaEpoch, f)
      BY <1>7, <3>1 DEF Relay
    <3> QED
      BY <3>2, <3>3
  <2>2. wire' = [wire EXCEPT ![econn] = Append(@, f)] /\ mediaEpoch' = epoch'
    BY <1>7, <2>1 DEF Send, SendAccepted, IsCurrent
  <2> QED
    BY <1>1, <1>3, <1>5, <2>1, <2>2, FrameSent
<1> QED
  BY <1>6, <1>7

(* The strand takes an offer, whose session has no signal id.              *)
LEMMA RegistrationFollows ==
  ASSUME TokenInv, Table, Offers, Kept, RoomStep, NEW o, o = Head(roomq), o.t = "offer",
         MediaOffer(o)
  PROVE  Kept'
<1>1. PICK T : Signalled(T)
  BY DEF TokenInv
<1>2. PICK s : s = o.session
  OBVIOUS
<1>3. s \in Sessions /\ 1 \in 1..Len(roomq) /\ o = roomq[1]
  BY <1>1, <1>2, RoomHead DEF RoomStep, Signalled, RequestOK
<1>4. sig[s] = 0
  BY <1>2, <1>3 DEF Offers
<1>5. UNCHANGED <<fifo, peers, econn, mediaEpoch, epoch, stopped, wire, connected, bound>>
  BY DEF RoomStep, MediaOffer
<1>6. CASE Bound(s)
  <2>1. /\ signals' = With(Without(signals, sig[s]), nextSig, [session |-> s, epoch |-> mediaEpoch])
        /\ sig' = [sig EXCEPT ![s] = nextSig] /\ nextSig' = nextSig + 1
    BY <1>2, <1>6 DEF MediaOffer
  <2>2. /\ \A r \in Sessions : r # s => sig'[r] = sig[r]
        /\ \A id \in DOMAIN signals :
             id # sig[s] => id \in DOMAIN signals' /\ signals'[id] = signals[id]
    BY <1>1, <1>3, <1>5, <2>1, Registered
  <2>3. ASSUME NEW i, NEW u, Known(i, u) PROVE Known(i, u)'
    <3>1. PICK r : r = signals[i].session
      OBVIOUS
    <3>2. i \in DOMAIN signals /\ r \in Sessions /\ r[1] = u /\ Bound(r) /\ sig[r] = i /\ i # 0
      BY <1>1, <2>3, <3>1 DEF Known, Signalled, BindingsOK, Table
    <3>3. i \in DOMAIN signals' /\ signals'[i].session = r /\ sig'[r] = i
      BY <1>4, <2>2, <3>1, <3>2
    <3>4. Bound(r)'
      BY <1>5, <3>2 DEF Bound
    <3> QED
      BY <3>2, <3>3, <3>4 DEF Known, Bound
  <2>4. Healthy' => Healthy
    BY <1>5 DEF Healthy
  <2> QED
    BY <1>5, <2>3, <2>4, NothingForgotten
<1>7. CASE ~Bound(s)
  <2>1. \A i, u : Known(i, u) => Known(i, u)'
    BY <1>2, <1>5, <1>7, KnownStays DEF MediaOffer
  <2>2. Healthy' => Healthy
    BY <1>5 DEF Healthy
  <2> QED
    BY <1>5, <2>1, <2>2, NothingForgotten
<1> QED
  BY <1>6, <1>7

(* A leave and the end of a TCP connection release the session's media.    *)
LEMMA LeftFollows ==
  ASSUME TokenInv, Epochs, Table, Bindings, Kept, NEW o, o.session \in Sessions, Release(o),
         UNCHANGED <<fifo, peers, econn, mediaEpoch, epoch, stopped>>
  PROVE  Kept'
<1>1. PICK s : s = o.session
  OBVIOUS
<1>2. /\ s \in Sessions /\ ReleaseMediaSession(s)
      /\ bound' = IF Bound(s) THEN [bound EXCEPT ![s[1]] = 0] ELSE bound
  BY <1>1 DEF Release
<1>3. ASSUME NEW r \in Sessions, Bound(r), r # s PROVE Bound(r)'
  <2>1. CASE r[1] = s[1]
    <3>1. r[2] # s[2]
      BY <1>2, <1>3, <2>1 DEF Sessions
    <3>2. ~Bound(s)
      BY <1>3, <2>1, <3>1 DEF Bound
    <3> QED
      BY <1>2, <1>3, <3>2 DEF Bound
  <2>2. CASE r[1] # s[1]
    BY <1>2, <1>3, <2>2 DEF Bound, Bindings, Sessions
  <2> QED
    BY <2>1, <2>2
<1> QED
  BY <1>2, <1>3, ReleaseFollows

(* A session that takes another one's place releases the other's media.    *)
LEMMA JoinFollows ==
  ASSUME TokenInv, Epochs, Table, Bindings, Kept, NEW o, o.session \in Sessions, JoinMeeting(o),
         UNCHANGED <<fifo, peers, econn, mediaEpoch, epoch, stopped>>
  PROVE  Kept'
<1>1. PICK s, u, k : s = o.session /\ u = s[1] /\ k = bound[u]
  OBVIOUS
<1>2. s = <<u, s[2]>> /\ u \in Users /\ s[2] \in 1..MaxSessions /\ k \in 0..MaxSessions
  BY <1>1 DEF Sessions, Bindings
<1>3. /\ IF k \notin {0, s[2]} THEN ReleaseMediaSession(<<u, k>>)
         ELSE UNCHANGED <<wire, connected, signals, sig>>
      /\ bound' = [bound EXCEPT ![u] = s[2]]
  BY <1>1 DEF JoinMeeting
<1>4. ASSUME NEW r \in Sessions, Bound(r), r # <<u, k>> \/ k = s[2] PROVE Bound(r)'
  <2>1. CASE r[1] = u
    <3>1. r[2] = k /\ r = <<u, k>>
      BY <1>1, <1>4, <2>1 DEF Bound, Sessions
    <3> QED
      BY <1>2, <1>3, <1>4, <2>1, <3>1 DEF Bound, Bindings
  <2>2. CASE r[1] # u
    BY <1>3, <1>4, <2>2 DEF Bound, Bindings, Sessions
  <2> QED
    BY <2>1, <2>2
<1>5. CASE k \notin {0, s[2]}
  <2>1. PICK q : q = <<u, k>>
    OBVIOUS
  <2>2. q \in Sessions
    BY <1>2, <1>5, <2>1, SignalBounds DEF Sessions
  <2>3. ReleaseMediaSession(q) /\ \A r \in Sessions : Bound(r) /\ r # q => Bound(r)'
    BY <1>3, <1>4, <1>5, <2>1
  <2> QED
    BY <2>2, <2>3, ReleaseFollows
<1>6. CASE k \in {0, s[2]}
  <2>1. UNCHANGED <<wire, connected, signals, sig>>
    BY <1>3, <1>6
  <2>2. PICK T : Signalled(T)
    BY DEF TokenInv
  <2>3. \A r \in Sessions : Bound(r) => Bound(r)'
    <3>1. SUFFICES ASSUME NEW r \in Sessions, Bound(r) PROVE r # <<u, k>> \/ k = s[2]
      BY <1>4
    <3>2. CASE k = 0
      <4>1. r[2] # 0 /\ <<u, k>>[2] = 0
        BY <3>2, SignalBounds DEF Sessions
      <4> QED
        BY <4>1
    <3> QED
      BY <1>6, <3>2
  <2>4. ASSUME NEW i, NEW v, Known(i, v) PROVE Known(i, v)'
    <3>1. PICK r : r = signals[i].session
      OBVIOUS
    <3>2. r \in Sessions /\ Bound(r)
      BY <2>2, <2>4, <3>1 DEF Known, Signalled, BindingsOK
    <3>3. Bound(r)'
      BY <2>3, <3>2
    <3> QED
      BY <2>1, <2>4, <3>1, <3>3 DEF Known, Bound
  <2>5. Healthy' => Healthy
    BY <2>1 DEF Healthy
  <2> QED
    BY <2>1, <2>4, <2>5, NothingForgotten
<1> QED
  BY <1>5, <1>6
-----------------------------------------------------------------------------
LEMMA RoomFollows ==
  ASSUME TokenInv, Epochs, Table, Offers, Bindings, Kept, RoomStep
  PROVE  Kept'
<1>1. PICK T : Signalled(T)
  BY DEF TokenInv
<1>2. PICK o : o = Head(roomq)
  OBVIOUS
<1>3. o.session \in Sessions
  BY <1>1, <1>2, RoomHead DEF RoomStep, Signalled, RequestOK
<1>4. UNCHANGED <<fifo, peers, econn, mediaEpoch, epoch, stopped>>
  BY DEF RoomStep
<1>5. CASE o.t = "offer" /\ MediaOffer(o)
  BY <1>2, <1>5, RegistrationFollows
<1>6. CASE MediaAnswer(o) \/ MediaCandidate(o)
  <2>1. Relay(o) /\ o.t # "offer"
    BY <1>6 DEF MediaAnswer, MediaCandidate
  <2> QED
    BY <1>4, <2>1, RelayFollows
<1>7. CASE Release(o)
  BY <1>3, <1>4, <1>7, LeftFollows
<1>8. CASE JoinMeeting(o)
  BY <1>3, <1>4, <1>8, JoinFollows
<1>9. CASE MediaRefused(o) \/ MediaResponse(o)
  <2>1. UNCHANGED <<signals, sig, bound, wire, connected>>
    BY <1>9 DEF MediaRefused, MediaResponse
  <2>2. \A i, u : Known(i, u) => Known(i, u)'
    BY <2>1, KnownStays
  <2>3. Healthy' => Healthy
    BY <1>4, <2>1 DEF Healthy
  <2> QED
    BY <1>4, <2>1, <2>2, <2>3, NothingForgotten
<1> QED
  BY <1>2, <1>5, <1>6, <1>7, <1>8, <1>9 DEF RoomStep

(* The table is dropped only for a connection that is not used yet.        *)
LEMMA ControlFollows ==
  ASSUME TokenInv, Epochs, Kept, ControlStep
  PROVE  Kept'
<1>1. PICK T : Signalled(T)
  BY DEF TokenInv
<1>2. PICK e : e = Head(control)
  OBVIOUS
<1>3. UNCHANGED <<fifo, peers, econn, epoch, stopped, wire, bound>> /\ control # <<>>
  BY DEF ControlStep
<1>4. connected' => connected
  BY <1>1 DEF ControlStep, Signalled, Connected
<1>5. SUFFICES ASSUME Healthy' PROVE Kept'
  BY DEF Kept
<1>6. Healthy /\ connected
  BY <1>3, <1>4, <1>5 DEF Healthy
<1>7. CASE UNCHANGED <<mediaEpoch, signals, sig>>
  <2>1. \A i, u : Known(i, u) => Known(i, u)'
    BY <1>3, <1>7, KnownStays
  <2> QED
    BY <1>3, <1>6, <1>7, <2>1, NothingForgotten
<1>8. CASE e.t # "message" /\ AcceptMediaEvent(e)
  <2>1. UNCHANGED <<mediaEpoch, signals, sig>> \/ mediaEpoch # epoch
    BY <1>2, <1>3, <1>6, <1>8, Accepted
  <2>2. CASE mediaEpoch # epoch
    <3>1. ~Used
      BY <1>6, <2>2 DEF Kept
    <3> QED
      BY <1>3, <3>1, StaysUnused
  <2> QED
    BY <1>7, <2>1, <2>2
<1> QED
  BY <1>2, <1>7, <1>8 DEF ControlStep

LEMMA KeptStep ==
  ASSUME TokenInv, Epochs, Table, Offers, OfferKnown, Bindings, Kept, [Next]_vars
  PROVE  Kept'
<1>1. PICK T : Signalled(T)
  BY DEF TokenInv
<1>2. CASE /\ UNCHANGED <<signals, sig, bound, mediaEpoch, epoch, connected>>
           /\ UNCHANGED <<econn, peers, wire, stopped, fifo>>
  BY <1>1, <1>2, FifoGrows
<1>3. CASE UNCHANGED <<mediaVars, udsVars, signalVars>> \/ UNCHANGED vars
  BY <1>2, <1>3 DEF mediaVars, udsVars, signalVars, vars
<1>4. CASE Disconnect \/ RealtimeRestart
  <2>1. ~Healthy'
    BY <1>4 DEF Disconnect, RealtimeRestart, Healthy
  <2> QED
    BY <2>1 DEF Kept
<1>5. CASE RtpStep
  BY <1>2, <1>5 DEF RtpStep, ForwardRtp, ForwardTo, realtimeVars, udsVars, signalVars
<1>6. CASE \E u \in Users :
             OpenCamera(u) \/ ClientCandidate(u) \/ LeaveMeeting(u) \/ Rejoin(u)
             \/ LoseConnection(u) \/ ClientReceive(u)
  BY <1>3, <1>6 DEF OpenCamera, ClientCandidate, LeaveMeeting, Rejoin, LoseConnection,
     ClientReceive
<1> QED
  BY <1>3, <1>4, <1>5, <1>6, RoomEventFollows, ServerFollows, ConnectFollows, RoomFollows,
     ControlFollows, OfferFollows DEF Next, Progress

(* What RealtimeServer holds, what MediaServer holds, and how the first    *)
(* accounts for the second.                                                *)
FollowInv ==
  Epochs /\ Table /\ Offers /\ OfferKnown /\ Served /\ Bindings /\ Kept

LEMMA FollowStep == ASSUME TokenInv, FollowInv, [Next]_vars PROVE FollowInv'
<1>1. Epochs /\ Table /\ Offers /\ OfferKnown /\ Served /\ Bindings /\ Kept
  BY DEF FollowInv
<1>2. Epochs' /\ Table' /\ Offers' /\ OfferKnown'
  BY <1>1, EpochsStep, TableStep, OffersStep, OfferStep
<1>3. Served' /\ Bindings' /\ Kept'
  BY <1>1, ServedStep, BindingsStep, KeptStep
<1> QED
  BY <1>2, <1>3 DEF FollowInv

(* It holds at first: MediaServer has the one session that is registered.  *)
LEMMA FollowInit == Init => FollowInv
<1>1. SUFFICES ASSUME Init PROVE FollowInv
  OBVIOUS
<1>2. PICK T : Signalled(T)
  BY <1>1, InitHolds DEF SignalInv
<1>3. /\ wire = [c \in Conns |-> <<>>] /\ control = <<>> /\ fifo = <<>> /\ roomq = <<>>
      /\ op = <<>> /\ econn = 1 /\ serving = 1 /\ remembered = {1}
      /\ nextSig = 2 /\ epoch = 1 /\ active = 1 /\ mediaEpoch = 1
  BY <1>1 DEF Init, MediaInit
<1>4. PICK b : b = [session |-> <<First, 1>>, epoch |-> 1]
  OBVIOUS
<1>5. DOMAIN signals = {1} /\ signals[1] = b
  BY <1>1, <1>4 DEF Init
<1>6. PICK s : s = <<First, 1>>
  OBVIOUS
<1>7. /\ s \in Sessions /\ s[1] = First /\ s[2] = 1 /\ b.session = s /\ b.epoch = 1
      /\ sig = [r \in Sessions |-> IF r = s THEN 1 ELSE 0]
      /\ bound = [u \in Users |-> 1] /\ First \in Users
  BY <1>1, <1>4, <1>6, MediaBounds, SignalBounds DEF Init, Sessions
<1>8. PICK p : p = [NewPeer(1, 1, 1, 1) EXCEPT !.init = TRUE]
  OBVIOUS
<1>9. /\ peers = [u \in Users |-> IF u = First THEN p ELSE NoPeer]
      /\ p.conn = 1 /\ p.sig = 1
  BY <1>1, <1>8 DEF Init, MediaInit, NewPeer
<1>10. Epochs
  BY <1>3, EmptyIs DEF Epochs
<1>11. Table
  <2>1. ASSUME NEW r \in Sessions, sig[r] \in DOMAIN signals PROVE signals[sig[r]].session = r
    <3>1. r = s /\ sig[r] = 1
      BY <1>5, <1>7, <2>1
    <3> QED
      BY <1>5, <1>7, <3>1
  <2>2. DOMAIN signals \subseteq 1..(nextSig - 1)
    BY <1>3, <1>5
  <2>3. \A id \in DOMAIN signals : signals[id].epoch = mediaEpoch
    BY <1>3, <1>5, <1>7
  <2> QED
    BY <2>1, <2>2, <2>3 DEF Table
<1>12. Offers /\ OfferKnown
  BY <1>3, EmptyIs DEF Offers, OfferKnown
<1>13. Served
  BY <1>3, <1>9, EmptyIs DEF Served, PeersServed, SignalsServed
<1>14. Bindings
  <2>1. 1 \in 0..MaxSessions
    BY SignalBounds
  <2> QED
    BY <1>7, <2>1 DEF Bindings
<1>15. Known(1, First)
  BY <1>5, <1>7 DEF Known, Bound
<1>16. PeersKept
  BY <1>9, <1>15 DEF PeersKept, LeftAfter
<1>17. wire[econn] = <<>>
  BY <1>2, <1>3, ConnectedIs DEF Signalled
<1>18. FifoKept /\ WireKept
  BY <1>3, <1>17, EmptyIs DEF FifoKept, WireKept
<1> QED
  BY <1>3, <1>10, <1>11, <1>12, <1>13, <1>14, <1>16, <1>18 DEF FollowInv, Kept

(* As long as their connection holds, whatever MediaServer has or will     *)
(* have a session for is registered in RealtimeServer's signal table with  *)
(* its user's session, or its leave is behind it on the way: through the   *)
(* losses, leaves, replaced sessions and restarts of either server.        *)
THEOREM FollowInvariant == Spec => []FollowInv
<1>1. TokenInv /\ FollowInv /\ [Next]_vars => FollowInv'
  BY FollowStep
<1> QED
  BY FollowInit, TokenInvariant, <1>1, PTL DEF Spec

(* When nothing is left to do, every session of MediaServer is that of a   *)
(* bound session of RealtimeServer, under its signal id and in the current *)
(* epoch.                                                                  *)
THEOREM NoOrphansHolds == Spec => []NoOrphans
<1>1. TokenInv /\ FollowInv => NoOrphans
  <2>1. SUFFICES ASSUME TokenInv, FollowInv, Quiet, NEW u \in Users, peers[u] # NoPeer,
                        NEW b, b = FindSignal(peers[u].sig)
                 PROVE  /\ peers[u].conn = econn
                        /\ b.epoch = mediaEpoch /\ b.session[1] = u
                        /\ Bound(b.session) /\ sig[b.session] = peers[u].sig
    BY DEF NoOrphans
  <2>2. PICK T : Signalled(T)
    BY <2>1 DEF TokenInv
  <2>3. /\ fifo = <<>> /\ \A c \in Conns : wire[c] = <<>>
        /\ connected /\ serving = econn /\ econn \notin stopped
    BY <2>1 DEF Quiet
  <2>4. econn # 0 /\ econn \in Conns
    BY <2>2, <2>3, ConnectedIs DEF Signalled, Connected
  <2>5. 1..Len(fifo) = {} /\ 1..Len(wire[econn]) = {}
    BY <2>3, <2>4, EmptyIs
  <2>6. peers[u].conn = econn
    BY <2>1, <2>3, <2>5 DEF FollowInv, Served, PeersServed
  <2>7. LeftAfter(0, peers[u].sig, u)
    BY <2>1, <2>3, <2>4, <2>6 DEF FollowInv, Kept, Healthy, PeersKept
  <2>8. Known(peers[u].sig, u)
    BY <2>5, <2>7 DEF LeftAfter, FifoLeave, WireLeave
  <2> QED
    BY <2>1, <2>6, <2>8 DEF Known, FindSignal, FollowInv, Table
<1> QED
  BY TokenInvariant, FollowInvariant, <1>1, PTL
===============================================================================
