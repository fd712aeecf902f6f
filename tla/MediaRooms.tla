----------------------------- MODULE MediaRooms -----------------------------
(***************************************************************************)
(* MediaServer: the UDS connections on which RealtimeServer sends it media *)
(* signalling, the FIFO of a meeting's room worker, the media sessions of  *)
(* the room, and the forwarding of RTP between them.                       *)
(*                                                                         *)
(* One meeting is modelled: rooms share nothing but the worker pool, whose *)
(* serial order per room is the subject of RoomThreadPool.  A library      *)
(* object (rtc::PeerConnection) is its signalling state, and a description *)
(* is the set of tracks it offers.  The pair of H264 and Opus tracks of a  *)
(* publisher is one track: they are always added and removed together.     *)
(*                                                                         *)
(* tag is the client's PeerConnection an offer came from.  No code reads   *)
(* it: the properties use it to tell the answers to two offers apart.      *)
(***************************************************************************)
EXTENDS Naturals, Sequences, FiniteSets, SequencesExt

CONSTANTS Users,        \* the participants
          First,        \* the one who publishes when the others come
          MaxConns,     \* UDS connections RealtimeServer may open
          MaxPending,   \* kMaxPendingFrames of both ends of a connection
          MaxRtp,       \* RTP packets forwarded in a behaviour
          NoPeer        \* no media session

ASSUME MediaBounds == /\ MaxConns \in Nat \ {0} /\ MaxPending \in Nat \ {0}
                      /\ MaxRtp \in Nat /\ First \in Users /\ IsFiniteSet(Users)

VARIABLES serving,      \* the accepted connection, 0 between two of them
          backlog,      \* connected, waiting for accept4
          stopped,      \* connections whose Session has m_stopping set
          remembered,   \* connections that posted to the room (m_meeting_ids)
          wire,         \* frames on their way to MediaServer, per connection
          control,      \* frames and connection events on their way to RealtimeServer's
                        \* control strand: socket, receive buffer and strand in one
          fifo,         \* events of the room, in the order the worker takes them
          room,         \* the meeting has an entry in m_rooms
          peers,        \* m_peers with their MediaSession
          video, audio, \* m_video_publishers, m_audio_publishers
          born,         \* the users the media instances were created for
          rtp           \* packets being forwarded, with their remaining targets

mediaVars == <<serving, backlog, stopped, remembered, wire, control, fifo,
               room, peers, video, audio, born, rtp>>

Conns == 1..MaxConns

\* A media session as its constructor leaves it.
NewPeer(inst, id, conn, tag) ==
  [inst |-> inst, sig |-> id, conn |-> conn, tag |-> tag,
   init |-> FALSE, waiting |-> FALSE, pending |-> FALSE,
   state |-> "stable", out |-> {}, offered |-> {}, open |-> {}]

\* Connection 1 is served and the member First publishes already.
MediaInit ==
  /\ serving = 1 /\ backlog = <<>> /\ stopped = {} /\ remembered = {1}
  /\ wire = [c \in Conns |-> <<>>] /\ control = <<>> /\ fifo = <<>>
  /\ room = TRUE /\ born = <<First>> /\ rtp = <<>>
  /\ peers = [u \in Users |-> IF u = First
                 THEN [NewPeer(1, 1, 1, 1) EXCEPT !.init = TRUE] ELSE NoPeer]
  /\ video = {First} /\ audio = {First}

(***************************************************************************)
(* MediaRoom and MediaSession                                              *)
(***************************************************************************)

\* The room's tables, as the helpers pass them along within one event.
Tables == [peers |-> peers, video |-> video, audio |-> audio, post |-> <<>>]

SetTables(t) ==
  /\ peers' = t.peers /\ video' = t.video /\ audio' = t.audio

Members(t) == {u \in Users : t.peers[u] # NoPeer}

\* A closed end loses what its send queue still holds.  The peer reads what the
\* kernel has taken, some prefix of it.
Cut(queue) == {SubSeq(queue, 1, n) : n \in 0..Len(queue)}

\* MediaRoom::RemovePeer and MediaSession::RemoveOutgoingTracks, for one or more
\* peers.
RemovePeers(t, gone) ==
  [t EXCEPT
     !.peers = [v \in Users |->
        IF v \in gone \/ t.peers[v] = NoPeer
          THEN NoPeer
          ELSE [t.peers[v] EXCEPT !.out = {x \in @ : x[1] \notin gone}]],
     !.video = @ \ gone, !.audio = @ \ gone]

\* The instance the caller means is checked against the current one.
RemovePeer(t, u, inst) ==
  IF t.peers[u] = NoPeer \/ t.peers[u].inst # inst THEN t ELSE RemovePeers(t, {u})

\* onLocalDescription and onLocalCandidate only post: the event carries the
\* identity its session had when the callback was installed.
LocalSignal(u, p, type) ==
  [t |-> "local", uid |-> u, inst |-> p.inst, sig |-> p.sig, conn |-> p.conn,
   type |-> type, tag |-> p.tag,
   tracks |-> IF type = "offer" THEN p.out ELSE {}]

\* setLocalDescription() in the stable state makes an offer, here for one or more
\* peers.
MakeOffers(t, offering) ==
  LET order == SetToSeq(offering)
  IN  [t EXCEPT
         !.peers = [u \in Users |->
            IF u \in offering
              THEN [t.peers[u] EXCEPT !.waiting = TRUE, !.pending = FALSE,
                                      !.state = "have-local-offer",
                                      !.offered = t.peers[u].out]
              ELSE t.peers[u]],
         !.post = @ \o [i \in 1..Len(order) |->
                          LocalSignal(order[i], t.peers[order[i]], "offer")]]

\* The peers that need a renegotiation later.
Postpone(t, asked) ==
  [t EXCEPT !.peers = [u \in Users |-> IF u \in asked
                                         THEN [t.peers[u] EXCEPT !.pending = TRUE]
                                         ELSE t.peers[u]]]

\* An offer can be made: the first answer is out, and no offer outstanding.
MayOffer(p) == p.init /\ ~p.waiting

\* RequestRenegotiation that forgets what came while an offer is outstanding.
RequestRenegotiation_Forgets(t, asked) ==
  MakeOffers(t, {u \in asked \cap Members(t) : MayOffer(t.peers[u])})

\* RequestRenegotiation that does not wait for the answer to the last offer.
RequestRenegotiation_Eager(t, asked) ==
  LET offering == {u \in asked \cap Members(t) : t.peers[u].init}
  IN  MakeOffers(Postpone(t, (asked \cap Members(t)) \ offering), offering)

\* MediaSession::RequestRenegotiation, of those asked that are still there.
RequestRenegotiation(t, asked) ==
  LET offering == {u \in asked \cap Members(t) : MayOffer(t.peers[u])}
  IN  MakeOffers(Postpone(t, (asked \cap Members(t)) \ offering), offering)

\* MediaSession::SetRemoteOffer: the tracks are ready when the description is
\* applied, the notices are only posted, then the answer is made.
SetRemoteOffer(t, u) ==
  LET p == t.peers[u]
      ready(m) == [t |-> "ready", uid |-> u, inst |-> p.inst, media |-> m]
      answered ==
        [t EXCEPT !.peers[u].init = TRUE,
                  !.post = @ \o <<ready("video"), ready("audio"),
                                  LocalSignal(u, p, "answer")>>]
  IN  IF p.pending THEN MakeOffers(answered, {u}) ELSE answered

\* MediaSession::SetRemoteAnswer
SetRemoteAnswer(t, u) ==
  LET stable == [t EXCEPT !.peers[u].state = "stable", !.peers[u].waiting = FALSE,
                          !.peers[u].open = t.peers[u].offered]
  IN  IF t.peers[u].pending THEN MakeOffers(stable, {u}) ELSE stable

\* MediaSession::AddOutgoingTrack: u with one track of each of the publishers that
\* are still there.
AddOutgoingTracks(t, u, publishers) ==
  LET p   == t.peers[u]
      new == {v \in publishers \cap Members(t) : \A x \in p.out : x[1] # v}
  IN  [p EXCEPT !.out = @ \cup {<<v, t.peers[v].inst>> : v \in new}]

\* MediaRoom::RegisterPublisherTrack: when both tracks of u are there, everyone
\* else gets u's tracks, and u those of every complete publisher; then each of
\* them renegotiates.  A target the library refuses (failing) is removed.
RegisterPublisherTrack(t, u, media, failing) ==
  LET known    == IF media = "video" THEN u \in t.video ELSE u \in t.audio
      t1       == IF media = "video" THEN [t EXCEPT !.video = @ \cup {u}]
                                     ELSE [t EXCEPT !.audio = @ \cup {u}]
      complete == t1.video \cap t1.audio
      olds     == complete \ {u}
      asked    == (Members(t1) \ {u}) \cup (IF olds # {} THEN {u} ELSE {})
      left     == RemovePeers(t1, failing \cap asked)
      given    == [left EXCEPT !.peers = [v \in Users |->
                     IF v \in Members(left)
                       THEN AddOutgoingTracks(left, v, IF v = u THEN olds ELSE {u})
                       ELSE NoPeer]]
  IN  IF known THEN t
      ELSE IF u \notin complete THEN t1
      ELSE RequestRenegotiation(given, asked)

\* LogicSystem::RemoveSession drops an empty room, and what the event posted
\* joins the end of the room's FIFO.
Finish(t) ==
  /\ SetTables(t)
  /\ room' = (Members(t) # {})
  /\ fifo' = Tail(fifo) \o t.post

(***************************************************************************)
(* LogicSystem: one event of the room at a time                            *)
(***************************************************************************)

\* The peer a request or a callback means: same signal id, same connection.
Addressed(e) == /\ peers[e.uid] # NoPeer
                /\ peers[e.uid].sig = e.sig
                /\ peers[e.uid].conn = e.conn

\* HandleOffer: another signal id or another connection means a new media
\* session, whose instance number is fresh.
HandleOffer(e, throws) ==
  LET old   == peers[e.uid]
      same  == Addressed(e)
      fresh == NewPeer(Len(born) + 1, e.sig, e.conn, e.tag)
      clean == IF old = NoPeer \/ same THEN Tables
               ELSE RemovePeer(Tables, e.uid, old.inst)
      made  == IF same THEN clean ELSE [clean EXCEPT !.peers[e.uid] = fresh]
  IN  /\ born' = IF same THEN born ELSE Append(born, e.uid)
      /\ Finish(IF throws THEN RemovePeer(made, e.uid, made.peers[e.uid].inst)
                ELSE SetRemoteOffer(made, e.uid))

\* HandleAnswer: the library throws unless an offer is outstanding, and the
\* session that failed is removed.
HandleAnswer(e) ==
  /\ Finish(IF ~Addressed(e) THEN Tables
            ELSE IF peers[e.uid].state # "have-local-offer"
                   THEN RemovePeer(Tables, e.uid, peers[e.uid].inst)
            ELSE SetRemoteAnswer(Tables, e.uid))
  /\ UNCHANGED born

\* HandleCandidate: a candidate the library refuses removes its session.
HandleCandidate(e, throws) ==
  /\ Finish(IF throws /\ Addressed(e)
              THEN RemovePeer(Tables, e.uid, peers[e.uid].inst) ELSE Tables)
  /\ UNCHANGED born

\* HandleLeave
HandleLeave(e) ==
  /\ Finish(IF Addressed(e) THEN RemovePeer(Tables, e.uid, peers[e.uid].inst) ELSE Tables)
  /\ UNCHANGED born

\* HandleSignal: a task of a stopped connection does nothing.
HandleSignal(e, throws) ==
  /\ UNCHANGED <<control, stopped>>
  /\ IF e.conn \in stopped
       THEN /\ fifo' = Tail(fifo)
            /\ UNCHANGED <<peers, video, audio, room, born>>
       ELSE \/ e.type = "offer" /\ HandleOffer(e, throws)
            \/ e.type = "answer" /\ ~throws /\ HandleAnswer(e)
            \/ e.type = "candidate" /\ HandleCandidate(e, throws)
            \/ e.type = "leave" /\ ~throws /\ HandleLeave(e)

\* HandlePublisherTrackReady
HandlePublisherTrackReady(e, throws) ==
  LET current == /\ peers[e.uid] # NoPeer
                 /\ peers[e.uid].inst = e.inst
                 /\ peers[e.uid].conn \notin stopped
      failing == {u \in Users : throws}
  IN  /\ UNCHANGED <<control, stopped, born>>
      /\ IF current
           THEN \E u \in Users :
                  Finish(RegisterPublisherTrack(Tables, e.uid, e.media,
                                                failing \cap {u}))
           ELSE /\ fifo' = Tail(fifo)
                /\ UNCHANGED <<peers, video, audio, room>>

\* Session::Send: a full queue stops the connection, nothing is dropped alone.
\* A frame of a connection the other end has closed is lost.
SendBack(c, frame) ==
  LET mine == {i \in DOMAIN control : control[i].t = "message" /\ control[i].conn = c}
  IN  IF Cardinality(mine) < MaxPending
        THEN /\ control' = Append(control, [t |-> "message", conn |-> c, m |-> frame])
             /\ UNCHANGED stopped
        ELSE stopped' = stopped \cup {c} /\ UNCHANGED control

\* HandleLocalMediaSignal that does not compare the instance and the signal id.
HandleLocalMediaSignal_AnyInstance(e) ==
  /\ fifo' = Tail(fifo)
  /\ UNCHANGED <<peers, video, audio, room, born>>
  /\ IF peers[e.uid] # NoPeer /\ e.conn \notin stopped
       THEN SendBack(e.conn, [e EXCEPT !.sig = peers[e.uid].sig])
       ELSE UNCHANGED <<control, stopped>>

\* HandleLocalMediaSignal: only the callback of the current instance, with its
\* signal id and connection, is sent.
HandleLocalMediaSignal(e) ==
  /\ fifo' = Tail(fifo)
  /\ UNCHANGED <<peers, video, audio, room, born>>
  /\ IF Addressed(e) /\ peers[e.uid].inst = e.inst /\ e.conn \notin stopped
       THEN SendBack(e.conn, e)
       ELSE UNCHANGED <<control, stopped>>

\* HandleSignalDisconnected removes the sessions of that connection only.
HandleSignalDisconnected(e) ==
  LET mine == {u \in Users : peers[u] # NoPeer /\ peers[u].conn = e.conn}
  IN  /\ Finish(RemovePeers(Tables, mine))
      /\ UNCHANGED <<control, stopped, born>>

\* HandleRoomEvent: the worker takes the head of the room's FIFO.
HandleRoomEvent(throws) ==
  /\ fifo # <<>>
  /\ LET e == Head(fifo)
     IN  \/ e.t = "signal" /\ HandleSignal(e, throws)
         \/ e.t = "ready" /\ HandlePublisherTrackReady(e, throws)
         \/ e.t = "local" /\ ~throws /\ HandleLocalMediaSignal(e)
         \/ e.t = "gone" /\ ~throws /\ HandleSignalDisconnected(e)
  /\ UNCHANGED <<serving, backlog, remembered, wire, rtp>>

(***************************************************************************)
(* CServer and Session                                                     *)
(***************************************************************************)

\* CServer::Run accepts the next connection once the last one is dealt with.
Accept ==
  /\ serving = 0 /\ backlog # <<>>
  /\ serving' = Head(backlog) /\ backlog' = Tail(backlog)
  /\ UNCHANGED <<stopped, remembered, wire, control, fifo, room, peers, video, audio,
                 born, rtp>>

\* Session::HandleRead and LogicSystem::PostMsgToQue: the room is remembered
\* before the task is posted.
HandleRead ==
  /\ serving # 0 /\ serving \notin stopped /\ wire[serving] # <<>>
  /\ LET m == Head(wire[serving])
     IN  /\ wire' = [wire EXCEPT ![serving] = Tail(@)]
         /\ remembered' = remembered \cup {serving}
         /\ fifo' = Append(fifo, [t |-> "signal", conn |-> serving, type |-> m.type,
                                  sig |-> m.sig, uid |-> m.uid, tag |-> m.tag,
                                  re |-> m.re])
  /\ UNCHANGED <<serving, backlog, stopped, control, room, peers, video, audio, born, rtp>>

\* The read loop ends: EOF or error (ended), or a Stop by another thread.  Close
\* returns, then the disconnection is posted to the rooms the session knew.
EndConnection(ended) ==
  /\ serving # 0
  /\ ended \/ serving \in stopped
  /\ stopped' = stopped \cup {serving}
  /\ wire' = [wire EXCEPT ![serving] = <<>>]
  /\ fifo' = IF serving \in remembered
               THEN Append(fifo, [t |-> "gone", conn |-> serving]) ELSE fifo
  /\ serving' = 0
  /\ UNCHANGED <<backlog, remembered, control, room, peers, video, audio, born, rtp>>

\* MediaServer's process restarts: instance numbers start again.
MediaRestart ==
  /\ peers' = [u \in Users |-> NoPeer] /\ video' = {} /\ audio' = {} /\ room' = FALSE
  /\ fifo' = <<>> /\ born' = <<>> /\ rtp' = <<>> /\ remembered' = {} /\ serving' = 0
  /\ backlog' = <<>>
  /\ stopped' = stopped \cup ToSet(backlog) \cup (IF serving = 0 THEN {} ELSE {serving})
  /\ wire' = [c \in Conns |-> <<>>]
  /\ UNCHANGED control

(***************************************************************************)
(* RTP: the room is locked to choose the targets, each target's tracks are *)
(* locked later, and the room may have changed in between                  *)
(***************************************************************************)

\* MediaRoom::ForwardRtp for a packet of instance i, whose callback may have
\* outlived its session.
ForwardRtp(i) ==
  LET u == born[i]
  IN  /\ Len(rtp) < MaxRtp
      /\ \A k \in DOMAIN rtp : rtp[k].targets = {}
      /\ peers[u] # NoPeer /\ peers[u].inst = i
      /\ Members(Tables) # {u}
      /\ rtp' = Append(rtp, [from |-> u, inst |-> i, wrote |-> {},
                             targets |-> {<<v, peers[v].inst>> : v \in Members(Tables) \ {u}}])
      /\ UNCHANGED <<serving, backlog, stopped, remembered, wire, control, fifo, room,
                     peers, video, audio, born>>

\* The tracks of publisher u that a target still in the room can send on.
OpenTracks(target, u) ==
  LET p == peers[target[1]]
  IN  IF p = NoPeer \/ p.inst # target[2] THEN {}
      ELSE {x \in p.out \cap p.open : x[1] = u}

\* SendOn that takes whatever track the publisher's uid has by then.
SendOn_AnyInstance(target, packet) == OpenTracks(target, packet.from)

\* MediaSession::ForwardRtp for one target: the track must belong to the
\* instance the packet came from, and be open.
SendOn(target, packet) == {x \in OpenTracks(target, packet.from) : x[2] = packet.inst}

ForwardTo(target) ==
  LET k == Len(rtp)
  IN  /\ k > 0 /\ target \in rtp[k].targets
      /\ rtp' = [rtp EXCEPT ![k].targets = @ \ {target},
                            ![k].wrote = @ \cup SendOn(target, rtp[k])]
      /\ UNCHANGED <<serving, backlog, stopped, remembered, wire, control, fifo, room,
                     peers, video, audio, born>>

\* An ICE candidate of a live session is posted by a library thread.
LocalCandidate(u) ==
  /\ peers[u] # NoPeer
  /\ fifo' = Append(fifo, LocalSignal(u, peers[u], "candidate"))
  /\ UNCHANGED <<serving, backlog, stopped, remembered, wire, control, room, peers,
                 video, audio, born, rtp>>
=============================================================================
