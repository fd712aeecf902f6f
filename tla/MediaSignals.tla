---------------------------- MODULE MediaSignals ----------------------------
(***************************************************************************)
(* The signalling path of a meeting's media, end to end: the client's      *)
(* PeerConnection, RealtimeServer's handlers and signal table, its UDS     *)
(* client (MediaSignalClient), and MediaServer (MediaRooms).               *)
(*                                                                         *)
(* RealtimeServer runs three parts side by side: the I/O thread (connect,  *)
(* receive, disconnect), the control strand (events of the UDS client) and *)
(* the room's strand (requests and answers of the meeting).  A strand runs *)
(* one operation at a time, which LogicDispatch is about.                  *)
(***************************************************************************)
EXTENDS MediaRooms

CONSTANTS MaxPcs,       \* PeerConnections the clients open
          MaxSessions,  \* TCP connections of a client
          MaxRoomQueue, \* messages the room's strand takes before refusing
          MaxExtras,    \* ICE candidates and RTP packets, together
          MaxFaults     \* leaves, lost connections, restarts, library errors

ASSUME SignalBounds == MaxSessions \in Nat \ {0} /\ MaxPcs \in Nat

VARIABLES epoch,        \* m_epoch of MediaSignalClient
          connected,    \* m_connected
          active,       \* m_active_epoch, 0 without a socket
          econn,        \* the UDS connection of the active epoch
          nconn,        \* UDS connections opened so far
          mediaEpoch,   \* m_media_epoch of LogicSystem
          signals,      \* m_signals: signal id -> session, epoch
          nextSig,      \* m_next_media_signal_id
          sig,          \* m_media_signal_id of every TCP session
          bound,        \* the session of the room each member has, 0 for none
          roomq,        \* operations waiting for the room's strand
          op,           \* an offer between RegisterSignal and SendMediaSignal
          cur,          \* number of the client's TCP session
          phase,        \* "in" the meeting, "out" of it, "joining" it
          pc,           \* the client's PeerConnection, 0 for none
          pcState,      \* its signalling state
          toClient,     \* frames of the client's TCP session
          refused,      \* answers of clients that were dropped on the way
          pcs, cands, faults

signalVars == <<mediaEpoch, signals, nextSig, sig, bound, op>>
udsVars    == <<epoch, connected, active, econn, nconn>>
clientVars == <<cur, phase, pc, pcState, toClient, pcs>>
vars == <<mediaVars, signalVars, udsVars, clientVars, roomq, refused, cands, faults>>

Sessions == Users \X (1..MaxSessions)
Current(u) == <<u, cur[u]>>

Init ==
  /\ MediaInit
  /\ epoch = 1 /\ connected = TRUE /\ active = 1 /\ econn = 1 /\ nconn = 1
  /\ mediaEpoch = 1 /\ nextSig = 2 /\ op = <<>> /\ roomq = <<>>
  /\ signals = <<[session |-> <<First, 1>>, epoch |-> 1]>>
  /\ sig = [s \in Sessions |-> IF s = <<First, 1>> THEN 1 ELSE 0]
  /\ bound = [u \in Users |-> 1]
  /\ cur = [u \in Users |-> 1] /\ phase = [u \in Users |-> "in"]
  /\ pc = [u \in Users |-> IF u = First THEN 1 ELSE 0]
  /\ pcState = [u \in Users |-> "stable"]
  /\ toClient = [u \in Users |-> <<>>]
  /\ refused = {} /\ pcs = 1 /\ cands = 0 /\ faults = 0

Without(f, i) == [j \in DOMAIN f \ {i} |-> f[j]]
With(f, i, v) == [j \in DOMAIN f \cup {i} |-> IF j = i THEN v ELSE f[j]]

(***************************************************************************)
(* MediaSignalClient, on the I/O thread                                    *)
(***************************************************************************)

\* MediaSignalClient::IsCurrent
IsCurrent(e) == connected /\ epoch = e

\* Connect and Connected, after any number of failed attempts.
Connect ==
  /\ active = 0 /\ nconn < MaxConns
  /\ nconn' = nconn + 1 /\ econn' = nconn + 1
  /\ epoch' = epoch + 1 /\ active' = epoch + 1 /\ connected' = TRUE
  /\ backlog' = Append(backlog, nconn + 1)
  /\ control' = Append(control, [t |-> "up", conn |-> nconn + 1, epoch |-> epoch + 1])
  /\ UNCHANGED <<serving, stopped, remembered, wire, fifo, room, peers, video,
                 audio, born, rtp, signalVars, clientVars, roomq, refused, cands, faults>>

\* Disconnect, when another thread invalidated the epoch (Tick) or the peer
\* closed (HandleEvents).  Frames not yet written and not yet read are lost.
Disconnect ==
  /\ active # 0
  /\ ~IsCurrent(active) \/ econn \in stopped
  /\ \E q \in Cut(wire[econn]) : wire' = [wire EXCEPT ![econn] = q]
  /\ connected' = FALSE /\ active' = 0 /\ econn' = 0
  /\ control' = Append(control, [t |-> "down", conn |-> econn, epoch |-> active])
  /\ UNCHANGED <<serving, backlog, stopped, remembered, fifo, room, peers, video,
                 audio, born, rtp, epoch, nconn, signalVars, clientVars, roomq,
                 refused, cands, faults>>

\* MediaSignalClient::Send takes a frame for the current epoch only.
SendAccepted(e) == IsCurrent(e)

\* MediaSignalClient::Send: a full queue invalidates the epoch.
Send(e, frame) ==
  IF ~SendAccepted(e) THEN UNCHANGED <<wire, connected>>
  ELSE IF Len(wire[econn]) < MaxPending
         THEN /\ wire' = [wire EXCEPT ![econn] = Append(@, frame)]
              /\ UNCHANGED connected
         ELSE connected' = FALSE /\ UNCHANGED wire

Sent(e) == SendAccepted(e) /\ Len(wire[econn]) < MaxPending

Frame(type, id, u, tag, re) ==
  [type |-> type, sig |-> id, uid |-> u, tag |-> tag, re |-> re]

(***************************************************************************)
(* The signal table                                                        *)
(***************************************************************************)

\* FindSignal; epoch 0 stands for no entry.
FindSignal(id) ==
  IF id \in DOMAIN signals THEN signals[id] ELSE [session |-> <<>>, epoch |-> 0]

\* AcceptMediaEvent for a message.
AcceptMessage(e) == e = mediaEpoch /\ IsCurrent(mediaEpoch)

\* AcceptMediaEvent for a connection or a disconnection: an event of an older
\* epoch, or the same connection twice, changes nothing.
AcceptMediaEvent(e) ==
  LET stale == e.epoch < mediaEpoch \/ (e.t = "up" /\ e.epoch = mediaEpoch)
  IN  IF stale THEN UNCHANGED <<mediaEpoch, signals, sig>>
      ELSE /\ mediaEpoch' = e.epoch /\ signals' = <<>>
           /\ sig' = [s \in Sessions |->
                        IF \E id \in DOMAIN signals : signals[id].session = s /\ sig[s] = id
                          THEN 0 ELSE sig[s]]

\* HandleEvents reads a frame, PostMediaEvent submits it to the control strand,
\* and the strand hands it to the room of its signal.  A strand that refuses a
\* message costs the epoch.  Frames of a connection that was closed before they
\* were read are lost.
ControlStep ==
  /\ control # <<>>
  /\ control' = Tail(control)
  /\ LET e == Head(control)
         s == FindSignal(e.m.sig)
     IN  \/ /\ e.t # "message" /\ AcceptMediaEvent(e)
            /\ UNCHANGED <<connected, roomq>>
         \/ /\ e.t = "message"
            /\ UNCHANGED <<mediaEpoch, signals, sig>>
            /\ IF e.conn # econn \/ ~AcceptMessage(active) \/ s.epoch # active
                 THEN UNCHANGED <<connected, roomq>>
               ELSE IF Len(roomq) < MaxRoomQueue
                 THEN /\ roomq' = Append(roomq, [t |-> "response", session |-> s.session,
                                                 epoch |-> active, m |-> e.m])
                      /\ UNCHANGED connected
               ELSE connected' = FALSE /\ UNCHANGED roomq
  /\ UNCHANGED <<serving, backlog, stopped, remembered, wire, fifo, room, peers, video,
                 audio, born, rtp, nextSig, bound, op, epoch, active, econn, nconn,
                 clientVars, refused, cands, faults>>

(***************************************************************************)
(* Handlers on the room's strand                                           *)
(***************************************************************************)

Bound(s) == bound[s[1]] = s[2]

\* MediaOfferHandler up to RegisterSignal.  The member and status checks of the
\* storage are those of the meeting (MeetingRoom).
MediaOffer(o) ==
  LET s == o.session
  IN  /\ IF Bound(s)
           THEN /\ signals' = With(Without(signals, sig[s]), nextSig,
                                   [session |-> s, epoch |-> mediaEpoch])
                /\ sig' = [sig EXCEPT ![s] = nextSig]
                /\ nextSig' = nextSig + 1
                /\ op' = <<[id |-> nextSig, session |-> s, epoch |-> mediaEpoch,
                            tag |-> o.tag]>>
           ELSE UNCHANGED <<signals, sig, nextSig, op>>
      /\ UNCHANGED <<bound, wire, connected, toClient>>

\* The rest of MediaOfferHandler: an offer that cannot be sent is forgotten.
MediaOfferSend ==
  /\ op # <<>>
  /\ LET o == op[1]
     IN  /\ Send(o.epoch, Frame("offer", o.id, o.session[1], o.tag, 0))
         /\ IF Sent(o.epoch) THEN UNCHANGED <<signals, sig>>
            ELSE /\ signals' = Without(signals, o.id)
                 /\ sig' = [sig EXCEPT ![o.session] = 0]
  /\ op' = <<>>
  /\ UNCHANGED <<serving, backlog, stopped, remembered, control, fifo, room, peers, video,
                 audio, born, rtp, epoch, active, econn, nconn, mediaEpoch, nextSig,
                 bound, clientVars, roomq, refused, cands, faults>>

\* The request of a client goes out under the signal id its session has now.
Relay(o) ==
  LET s == o.session
      id == sig[s]
      b == FindSignal(id)
  IN  /\ IF Bound(s) /\ id # 0 /\ b.session = s /\ b.epoch = mediaEpoch
           THEN Send(b.epoch, Frame(o.t, id, s[1], o.tag, o.re))
           ELSE UNCHANGED <<wire, connected>>
      /\ UNCHANGED <<signals, sig, nextSig, op, bound, toClient>>

\* MediaAnswerHandler and MediaCandidateHandler
MediaAnswer(o) == o.t = "answer" /\ Relay(o)

MediaCandidate(o) == o.t = "candidate" /\ Relay(o)

\* A media request that goes no further: the room's queue refuses it (Route), the
\* pool of storage tasks is full (Dispatch), or the handler's look at the room's
\* members, SIsMember, fails.  The client ignores the error that an offer or a
\* candidate is answered with; an answer is dropped without a word.
MediaRefused(o) ==
  /\ o.t \in {"offer", "answer", "candidate"}
  /\ refused' = IF o.t = "answer" THEN refused \cup {<<o.tag, o.re>>} ELSE refused
  /\ UNCHANGED <<wire, connected, signals, sig, nextSig, op, bound, toClient>>

\* ReleaseMediaSession that drops the binding without telling Media.
ReleaseMediaSession_Silent(s) ==
  /\ UNCHANGED <<wire, connected>>
  /\ signals' = Without(signals, sig[s])
  /\ sig' = [sig EXCEPT ![s] = 0]

\* ReleaseMediaSession: Media is told under the epoch of the binding, then the
\* binding is dropped.
ReleaseMediaSession(s) ==
  LET id == sig[s]
      b == FindSignal(id)
  IN  /\ IF id # 0 /\ b.epoch # 0 /\ b.session = s
           THEN Send(b.epoch, Frame("leave", id, s[1], 0, 0))
           ELSE UNCHANGED <<wire, connected>>
      /\ signals' = Without(signals, id)
      /\ sig' = [sig EXCEPT ![s] = 0]

\* LeaveMeetingHandler and SessionDisconnectedHandler, what they do to media.
Release(o) ==
  LET s == o.session
  IN  /\ ReleaseMediaSession(s)
      /\ bound' = IF Bound(s) THEN [bound EXCEPT ![s[1]] = 0] ELSE bound
      /\ UNCHANGED <<nextSig, op, toClient>>

\* JoinMeeetingHandler, what it does to media: a session that takes the place
\* of another one releases the other's media first.
JoinMeeting(o) ==
  LET s == o.session
      u == s[1]
  IN  /\ IF bound[u] \notin {0, s[2]} THEN ReleaseMediaSession(<<u, bound[u]>>)
         ELSE UNCHANGED <<wire, connected, signals, sig>>
      /\ bound' = [bound EXCEPT ![u] = s[2]]
      /\ toClient' = IF s = Current(u)
                       THEN [toClient EXCEPT ![u] = Append(@, [type |-> "joined", tag |-> 0])]
                       ELSE toClient
      /\ UNCHANGED <<nextSig, op>>

\* The checks before MediaSignalResponseHandler sends: the epoch is still
\* current, the signal has the session it had on the control strand, and that
\* session is open, in the room and still uses the signal.
Delivers(o) ==
  LET b == FindSignal(o.m.sig)
  IN  /\ AcceptMessage(o.epoch)
      /\ b.epoch = o.epoch /\ b.session = o.session
      /\ Bound(b.session) /\ sig[b.session] = o.m.sig

\* MediaSignalResponseHandler
MediaResponse(o) ==
  LET s == FindSignal(o.m.sig).session
  IN  /\ toClient' = IF Delivers(o) /\ s = Current(s[1])
                       THEN [toClient EXCEPT ![s[1]] = Append(@, o.m)] ELSE toClient
      /\ UNCHANGED <<wire, connected, signals, sig, nextSig, op, bound>>

\* The room's strand takes an operation.
RoomStep ==
  /\ op = <<>> /\ roomq # <<>>
  /\ roomq' = Tail(roomq)
  /\ LET o == Head(roomq)
     IN  \/ o.t = "offer" /\ MediaOffer(o) /\ UNCHANGED refused
         \/ (MediaAnswer(o) \/ MediaCandidate(o)) /\ UNCHANGED refused
         \/ MediaRefused(o)
         \/ o.t \in {"leave", "lost"} /\ Release(o) /\ UNCHANGED refused
         \/ o.t = "join" /\ JoinMeeting(o) /\ UNCHANGED refused
         \/ o.t = "response" /\ MediaResponse(o) /\ UNCHANGED refused
  /\ UNCHANGED <<serving, backlog, stopped, remembered, control, fifo, room, peers, video,
                 audio, born, rtp, epoch, active, econn, nconn, mediaEpoch, cur, phase, pc, pcState, pcs, cands, faults>>

(***************************************************************************)
(* The client: MediaController, RtcTransportWorker, MediaSession           *)
(***************************************************************************)

Request(type, u, tag, re) ==
  [t |-> type, session |-> Current(u), tag |-> tag, re |-> re]

\* stopMediaSession of the client's RtcTransportWorker
StopMediaSession(u) ==
  pc' = [pc EXCEPT ![u] = 0] /\ pcState' = [pcState EXCEPT ![u] = "stable"]

\* startMediaSession: a new PeerConnection, which makes an offer
StartMediaSession(u) ==
  /\ pcs' = pcs + 1
  /\ pc' = [pc EXCEPT ![u] = pcs + 1]
  /\ pcState' = [pcState EXCEPT ![u] = "have-local-offer"]

\* requestOpenCamera starts a media session when there is none; its offer is
\* sent on the TCP session.
OpenCamera(u) ==
  /\ phase[u] = "in" /\ pc[u] = 0 /\ pcs < MaxPcs
  /\ StartMediaSession(u)
  /\ roomq' = Append(roomq, Request("offer", u, pcs + 1, 0))
  /\ UNCHANGED <<mediaVars, udsVars, signalVars, cur, phase, toClient, refused, cands,
                 faults>>

\* A local candidate of the client's PeerConnection (slotLocalCandidateReady).
ClientCandidate(u) ==
  /\ pc[u] # 0 /\ cands + Len(rtp) < MaxExtras
  /\ cands' = cands + 1
  /\ roomq' = Append(roomq, Request("candidate", u, pc[u], 0))
  /\ UNCHANGED <<mediaVars, udsVars, signalVars, clientVars, refused, faults>>

\* applyMediaAnswer: setRemoteDescription of the media session
ApplyMediaAnswer(u, m) ==
  /\ m.type = "answer" /\ pc[u] # 0
  /\ pcState' = [pcState EXCEPT ![u] = "stable"]
  /\ UNCHANGED <<roomq, phase>>

\* applyMediaOffer: the library answers at once, and the answer is sent
\* (slotLocalAnswerReady).
ApplyMediaOffer(u, m) ==
  /\ m.type = "offer" /\ pc[u] # 0
  /\ roomq' = Append(roomq, Request("answer", u, pc[u], m.inst))
  /\ UNCHANGED <<pcState, phase>>

\* applyMediaCandidate, and every frame for a client without a media session
ApplyMediaCandidate(u, m) ==
  /\ m.type = "candidate" \/ (m.type # "joined" /\ pc[u] = 0)
  /\ UNCHANGED <<roomq, pcState, phase>>

\* A frame for the client.
ClientReceive(u) ==
  /\ toClient[u] # <<>>
  /\ toClient' = [toClient EXCEPT ![u] = Tail(@)]
  /\ LET m == Head(toClient[u])
     IN  \/ /\ m.type = "joined" /\ phase' = [phase EXCEPT ![u] = "in"]
            /\ UNCHANGED <<roomq, pcState>>
         \/ ApplyMediaAnswer(u, m) \/ ApplyMediaOffer(u, m) \/ ApplyMediaCandidate(u, m)
  /\ UNCHANGED <<mediaVars, udsVars, signalVars, cur, pc, pcs, refused, cands, faults>>

\* requestStopAll when the user leaves the meeting.
LeaveMeeting(u) ==
  /\ phase[u] = "in" /\ faults < MaxFaults
  /\ faults' = faults + 1
  /\ phase' = [phase EXCEPT ![u] = "out"]
  /\ StopMediaSession(u)
  /\ roomq' = Append(roomq, Request("leave", u, 0, 0))
  /\ UNCHANGED <<mediaVars, udsVars, signalVars, cur, toClient, refused, pcs, cands>>

\* The user joins again on the same TCP session.
Rejoin(u) ==
  /\ phase[u] = "out"
  /\ phase' = [phase EXCEPT ![u] = "joining"]
  /\ roomq' = Append(roomq, Request("join", u, 0, 0))
  /\ UNCHANGED <<mediaVars, udsVars, signalVars, cur, pc, pcState, toClient,
                 pcs, refused, cands, faults>>

\* The TCP connection is lost: the client stops its media and resumes on a new
\* session, which the server may see before the end of the old one.
LoseConnection(u) ==
  /\ phase[u] = "in" /\ cur[u] < MaxSessions /\ faults < MaxFaults
  /\ faults' = faults + 1
  /\ cur' = [cur EXCEPT ![u] = @ + 1]
  /\ phase' = [phase EXCEPT ![u] = "joining"]
  /\ StopMediaSession(u)
  /\ toClient' = [toClient EXCEPT ![u] = <<>>]
  /\ LET lost == Request("lost", u, 0, 0)
         join == [lost EXCEPT !.t = "join", !.session = <<u, cur[u] + 1>>]
     IN  \/ roomq' = roomq \o <<lost, join>>
         \/ roomq' = roomq \o <<join, lost>>
  /\ UNCHANGED <<mediaVars, udsVars, signalVars, refused, pcs, cands>>

\* RealtimeServer restarts: signal ids and epochs start again, and every client
\* joins on a new connection.
RealtimeRestart ==
  /\ faults < MaxFaults /\ \A u \in Users : cur[u] < MaxSessions /\ phase[u] = "in"
  /\ faults' = faults + 1
  /\ epoch' = 0 /\ connected' = FALSE /\ active' = 0 /\ econn' = 0
  /\ mediaEpoch' = 0 /\ signals' = <<>> /\ nextSig' = 1
  /\ sig' = [s \in Sessions |-> 0] /\ bound' = [u \in Users |-> 0] /\ op' = <<>>
  /\ control' = <<>>
  /\ cur' = [u \in Users |-> cur[u] + 1]
  /\ phase' = [u \in Users |-> "joining"]
  /\ pc' = [u \in Users |-> 0] /\ pcState' = [u \in Users |-> "stable"]
  /\ toClient' = [u \in Users |-> <<>>]
  /\ LET join(u) == [t |-> "join", session |-> <<u, cur[u] + 1>>, tag |-> 0, re |-> 0]
         order == SetToSeq(Users)
     IN  roomq' = [i \in 1..Len(order) |-> join(order[i])]
  /\ IF econn = 0 THEN UNCHANGED wire
     ELSE \E q \in Cut(wire[econn]) : wire' = [wire EXCEPT ![econn] = q]
  /\ UNCHANGED <<serving, backlog, stopped, remembered, fifo, room, peers, video, audio,
                 born, rtp, nconn, refused, pcs, cands>>

(***************************************************************************)
(* The specification                                                       *)
(***************************************************************************)

realtimeVars == <<udsVars, signalVars, clientVars, roomq>>

\* A fault of the library, at most MaxFaults of all faults.
RoomEvent ==
  \E throws \in BOOLEAN :
    /\ throws => faults < MaxFaults
    /\ faults' = IF throws THEN faults + 1 ELSE faults
    /\ HandleRoomEvent(throws)
    /\ UNCHANGED <<realtimeVars, refused, cands>>

\* The client's end of a connection is closed once its epoch is over.
ServerStep ==
  /\ Accept \/ HandleRead
     \/ EndConnection(serving # econn /\ wire[serving] = <<>>)
  /\ UNCHANGED <<realtimeVars, refused, cands, faults>>

RtpStep ==
  /\ \/ cands + Len(rtp) < MaxExtras /\ \E i \in DOMAIN born : ForwardRtp(i)
     \/ \E u \in Users, i \in DOMAIN born : ForwardTo(<<u, i>>)
  /\ UNCHANGED <<realtimeVars, refused, cands, faults>>

ServerCandidate ==
  /\ cands + Len(rtp) < MaxExtras /\ cands' = cands + 1
  /\ \E u \in Users : LocalCandidate(u)
  /\ UNCHANGED <<realtimeVars, refused, faults>>

Restart ==
  /\ faults < MaxFaults /\ faults' = faults + 1
  /\ MediaRestart
  /\ UNCHANGED <<realtimeVars, refused, cands>>

Progress ==
  \/ RoomEvent \/ ServerStep \/ Connect \/ Disconnect \/ ControlStep
  \/ MediaOfferSend \/ RoomStep \/ \E u \in Users : ClientReceive(u)

Next ==
  \/ Progress \/ RtpStep \/ ServerCandidate \/ Restart \/ RealtimeRestart
  \/ \E u \in Users : OpenCamera(u) \/ ClientCandidate(u) \/ LeaveMeeting(u)
                      \/ Rejoin(u) \/ LoseConnection(u)

Spec == Init /\ [][Next]_vars

(***************************************************************************)
(* Properties                                                              *)
(***************************************************************************)

\* A description or candidate on its way to a client that has a PeerConnection
\* was made for that very PeerConnection: no answer of an earlier epoch, of an
\* earlier MediaServer session, or of a signal id used again after a restart of
\* RealtimeServer reaches it.
FramesAreForThisPc ==
  \A u \in Users : pc[u] # 0 =>
    \A i \in DOMAIN toClient[u] :
      toClient[u][i].type = "joined" \/ toClient[u][i].tag = pc[u]

Count(queue, P(_)) == Cardinality({i \in DOMAIN queue : P(queue[i])})

\* A media session has at most one offer outstanding, counted from the moment
\* it is made to the answer's return, over every queue of the path, and none
\* when it does not wait: so the library never meets a description in the wrong
\* signalling state.
OneOfferOutstanding ==
  \A u \in Users : peers[u] # NoPeer =>
    LET p == peers[u]
        offer(m)  == m.type = "offer" /\ m.tag = p.tag /\ m.inst = p.inst
        answer(m) == m.type = "answer" /\ m.tag = p.tag /\ m.re = p.inst
        n == Count(fifo, LAMBDA e : e.t = "local" /\ offer(e))
             + Count(control, LAMBDA e : e.t = "message" /\ offer(e.m))
             + Count(roomq, LAMBDA o : o.t = "response" /\ offer(o.m))
             + Count(toClient[u], LAMBDA m : m.type = "offer" /\ offer(m))
             + Count(roomq, LAMBDA o : o.t = "answer" /\ o.tag = p.tag /\ o.re = p.inst)
             + Count(wire[p.conn], answer)
             + Count(fifo, LAMBDA e : e.t = "signal" /\ answer(e))
    IN  n <= IF p.waiting THEN 1 ELSE 0

Quiet == /\ fifo = <<>> /\ control = <<>> /\ roomq = <<>> /\ op = <<>>
         /\ \A c \in Conns : wire[c] = <<>>
         /\ connected /\ serving = econn /\ econn \notin stopped

\* When nothing is left to do, MediaServer holds no session that RealtimeServer
\* does not know: every peer belongs to a bound session with that signal id, in
\* the current epoch.  A leave lost with its connection, a restart of either
\* server, and a session replaced by a resume all end this way.
NoOrphans ==
  Quiet =>
    \A u \in Users : peers[u] # NoPeer =>
      LET b == FindSignal(peers[u].sig)
      IN  /\ peers[u].conn = econn
          /\ b.epoch = mediaEpoch /\ b.session[1] = u
          /\ Bound(b.session) /\ sig[b.session] = peers[u].sig

\* An RTP packet is written only to tracks made for the media instance it came
\* from, even when its publisher has left and come back while it was on its way.
RtpKeepsIdentity ==
  \A k \in DOMAIN rtp : \A x \in rtp[k].wrote : x[2] = rtp[k].inst

\* u's media session is up and known on the whole path.
Live(u) ==
  /\ peers[u] # NoPeer /\ connected
  /\ peers[u].tag = pc[u] /\ peers[u].conn = econn
  /\ FindSignal(peers[u].sig).epoch = mediaEpoch
  /\ sig[Current(u)] = peers[u].sig

\* When nothing is left to do, a member whose media session is up has the tracks of
\* every other one open, whoever came first and however often they came back: no
\* renegotiation is forgotten while an offer or the first answer is outstanding, and
\* nothing but an answer of its own that RealtimeServer dropped (MediaRefused) keeps
\* a session waiting.
QuietMeansSubscribed ==
  (Quiet /\ \A u \in Users : toClient[u] = <<>>) =>
    \A u, v \in Users : (u # v /\ Live(u) /\ Live(v)) =>
      \/ <<v, peers[v].inst>> \in peers[u].out \cap peers[u].open
      \/ peers[u].waiting /\ <<pc[u], peers[u].inst>> \in refused

\* A renegotiation that MediaSession::RequestRenegotiation only recorded, since an
\* answer was awaited, is merged into the next round: when nothing is left to do,
\* no live session has one still pending.
PendingIsOffered ==
  (Quiet /\ \A u \in Users : toClient[u] = <<>>) =>
    \A u \in Users : Live(u) => ~peers[u].pending
=============================================================================
