------------------------------ MODULE Recovery ------------------------------
(***************************************************************************)
(* A client that loses its TCP connection and gets its meeting back: the   *)
(* client's TcpMgr, RecoveryController and MeetingController, and what     *)
(* RealtimeServer does for it (LoginHandler, joining, resuming, leaving,   *)
(* the end of a session and of the grace period).                          *)
(*                                                                         *)
(* One client and one meeting.  The other member is only its room state,   *)
(* which the client shows.  A connection ends by an error the client sees  *)
(* at once, or it goes silent and each end finds out by itself.  What one  *)
(* connection carries arrives before what a later one carries: between     *)
(* them lie the abort of the first and a retry delay of a second or more.  *)
(*                                                                         *)
(* The timers need no state of their own: the retry timer runs exactly in  *)
(* the state Waiting, the stage timer in Authenticating and Resuming, the  *)
(* connect timer while a socket connects, the 45 s budget in all of them.  *)
(***************************************************************************)
EXTENDS Naturals, Sequences, FiniteSets, SequencesExt

CONSTANTS MaxConns,     \* connections the client opens
          MaxJoins,     \* tickets handed out
          MaxEvents     \* breaks, silent links, storage errors, refused tokens,
                        \* what the user asks for and what the other member does

ASSUME RecoveryBounds == /\ MaxConns \in Nat \ {0} /\ MaxJoins \in Nat \ {0}
                         /\ MaxEvents \in Nat

VARIABLES cl,      \* the client
          net,     \* requests on their way, with the connection they came on
          down,    \* what the server sent on the client's connection
          silent,  \* the client's connection carries nothing any more
          sess,    \* the server's session of every connection
          srv,     \* the client's Membership, and the state of the meeting
          joins,   \* tickets handed out
          events   \* faults and steps of the users so far

recoveryVars == <<cl, net, down, silent, sess, srv, joins, events>>

Conns == 1..MaxConns

Spend == events < MaxEvents /\ events' = events + 1

\* The client has joined on its first connection, and the other member is there.
RecoveryInit ==
  /\ cl = [rec |-> "Ready", c |-> 1, sock |-> "up", meeting |-> TRUE, ticket |-> 1,
           gen |-> 1, leave |-> FALSE, join |-> FALSE, req |-> 0, peer |-> "active",
           left |-> FALSE, invalid |-> FALSE]
  /\ net = <<>> /\ down = <<>> /\ silent = FALSE
  /\ sess = [c \in Conns |-> [open |-> c = 1, user |-> c = 1, meeting |-> c = 1]]
  /\ srv = [in |-> TRUE, ticket |-> 1, gen |-> 1, last |-> 0, session |-> 1,
            deadline |-> "none", ended |-> FALSE, peer |-> "active"]
  /\ joins = 1 /\ events = 0

\* A request, and an answer or a notice.
Req(t, k) == [t |-> t, c |-> k.c, req |-> k.req, ticket |-> k.ticket, gen |-> k.gen, x |-> <<>>]

Ans(t, result) ==
  [t |-> t, result |-> result, req |-> 0, ticket |-> 0, gen |-> 0, peer |-> "absent",
   rows |-> <<>>, x |-> <<>>]

Cuts(queue) == {SubSeq(queue, 1, n) : n \in 0..Len(queue)}

(***************************************************************************)
(* The client                                                              *)
(***************************************************************************)

\* RecoveryController::recovering
Recovering(k) == k.rec \in {"Waiting", "Connecting", "Authenticating", "Resuming"}

\* MeetingController::abandonCurrentMeeting
AbandonCurrentMeeting(k) ==
  [k EXCEPT !.meeting = FALSE, !.ticket = 0, !.gen = 0, !.peer = "absent",
            !.leave = FALSE, !.join = FALSE]

\* connectionInterrupted that keeps a meeting whose leave is unanswered.
ConnectionInterrupted_Keeps(k) == [k EXCEPT !.join = FALSE, !.leave = FALSE]

\* MeetingController::connectionInterrupted: the wish to leave wins.
ConnectionInterrupted(k) ==
  IF k.leave THEN AbandonCurrentMeeting(k) ELSE [k EXCEPT !.join = FALSE]

\* RecoveryController::retry, with TcpMgr::closeConnection.
Retry(k) ==
  IF Recovering(k) THEN [k EXCEPT !.rec = "Waiting", !.sock = "none"] ELSE k

\* TcpMgr::connectionLost and RecoveryController::disconnected: a request id for
\* this outage, then the first retry.
Disconnected(k) ==
  LET cut == [k EXCEPT !.sock = "none"]
  IN  IF k.rec \in {"Idle", "Failed"} THEN cut
      ELSE IF k.rec = "Ready"
        THEN Retry(ConnectionInterrupted([cut EXCEPT !.rec = "Waiting", !.req = @ + 1]))
      ELSE Retry(cut)

\* RecoveryController::fail and stop
Fail(k, invalid) ==
  [AbandonCurrentMeeting(k) EXCEPT !.rec = "Failed", !.sock = "none",
                                   !.invalid = @ \/ invalid]

\* RecoveryController::finish
Finish(k) == [k EXCEPT !.rec = "Ready"]

\* TcpMgr::slot_send_data: business requests only when the controller is Ready,
\* login and resume in their own states.  A silent connection carries nothing.
SendData(k, m) ==
  IF k.sock = "up" /\ ~silent THEN net' = Append(net, m) ELSE UNCHANGED net

ServerVars == <<sess, srv>>

\* The connection is aborted by the client: what had not left is lost.  Its
\* requests are behind those of earlier connections.
Aborted(k) ==
  /\ cl' = k
  /\ \E n \in 0..Len(net) : /\ \A i \in (n + 1)..Len(net) : net[i].c = cl.c
                            /\ net' = SubSeq(net, 1, n)
  /\ down' = <<>> /\ silent' = FALSE

\* errorOccurred or disconnected: the connection breaks, or the server closed it.
SocketEnds ==
  /\ cl.sock = "up" /\ ~silent
  /\ \/ sess[cl.c].open /\ Spend
     \/ ~sess[cl.c].open /\ down = <<>> /\ UNCHANGED events
  /\ Aborted(Disconnected(cl))
  /\ UNCHANGED <<ServerVars, joins>>

\* The connect timer, or a refused connection.
ConnectFails ==
  /\ cl.sock = "connecting"
  /\ Aborted(Disconnected(cl))
  /\ UNCHANGED <<ServerVars, joins, events>>

\* TcpMgr::heartbeatTick: no probe of a silent connection is confirmed any more.
\* Heartbeats start with the login answer.
HeartbeatTick ==
  /\ cl.sock = "up" /\ silent /\ down = <<>> /\ cl.rec \in {"Ready", "Resuming"}
  /\ Aborted(Disconnected(cl))
  /\ UNCHANGED <<ServerVars, joins, events>>

\* The connection goes silent: the end of neither side shows.
GoesSilent ==
  /\ cl.sock = "up" /\ ~silent /\ Spend /\ silent' = TRUE
  /\ \E q \in Cuts(net) : net' = q
  /\ \E q \in Cuts(down) : down' = q
  /\ UNCHANGED <<cl, ServerVars, joins>>

\* The retry timer: connectNow and slot_tcp_connect.
ConnectNow ==
  /\ cl.rec = "Waiting"
  /\ cl' = [cl EXCEPT !.rec = "Connecting", !.sock = "connecting"]
  /\ UNCHANGED <<net, down, silent, ServerVars, joins, events>>

\* The socket is connected: signal_connect_success, and the login is sent.
Connected ==
  /\ cl.rec = "Connecting" /\ cl.sock = "connecting" /\ cl.c < MaxConns
  /\ LET k == [cl EXCEPT !.rec = "Authenticating", !.sock = "up", !.c = @ + 1]
     IN  /\ cl' = k
         /\ net' = Append(net, Req("login", k))
         /\ sess' = [sess EXCEPT ![k.c].open = TRUE]
  /\ UNCHANGED <<down, silent, srv, joins, events>>

\* The stage timer: no answer to the login or to the resume.
StageTimeout ==
  /\ cl.rec \in {"Authenticating", "Resuming"}
  /\ Aborted(Retry(cl))
  /\ UNCHANGED <<ServerVars, joins, events>>

\* The budget of 45 s is spent.
BudgetTimeout ==
  /\ Recovering(cl)
  /\ Aborted(Fail(cl, FALSE))
  /\ UNCHANGED <<ServerVars, joins, events>>

\* cancelMeeting that leaves the resume under way.
CancelMeeting_Nothing(k) == k

\* RecoveryController::cancelMeeting: a resume that may have taken effect is cut.
CancelMeeting(k) == IF k.rec = "Resuming" THEN Retry(k) ELSE k

\* requestLeaveMeeting: while recovering the meeting is given up on the spot.  The
\* page offers it until the meeting has ended; the user waits for the answer.
RequestLeave ==
  /\ cl.meeting /\ cl.ticket # 0 /\ ~cl.leave /\ Spend
  /\ IF Recovering(cl)
       THEN LET k == CancelMeeting([AbandonCurrentMeeting(cl) EXCEPT !.left = TRUE])
            IN  IF k.sock # cl.sock THEN Aborted(k)
                ELSE cl' = k /\ UNCHANGED <<net, down, silent>>
       ELSE /\ cl' = [cl EXCEPT !.leave = TRUE, !.left = TRUE]
            /\ SendData(cl, Req("leave", cl))
            /\ UNCHANGED <<down, silent>>
  /\ UNCHANGED <<ServerVars, joins>>

\* requestJoinMeeting
RequestJoin ==
  /\ cl.rec = "Ready" /\ ~cl.meeting /\ ~cl.join /\ Spend
  /\ cl' = [cl EXCEPT !.join = TRUE, !.left = FALSE]
  /\ SendData(cl, Req("join", cl))
  /\ UNCHANGED <<down, silent, ServerVars, joins>>

\* A login answer while authenticating: a storage error is retried, any other
\* one ends the recovery; then the meeting is resumed, if there is one.
ApplyLogin(k, m) ==
  IF k.rec # "Authenticating" THEN k
  ELSE IF m.result = "busy" THEN Retry(k)
  ELSE IF m.result # "ok" THEN Fail(k, FALSE)
  ELSE IF ~k.meeting THEN Finish(k)
  ELSE IF k.ticket = 0 THEN Finish(AbandonCurrentMeeting(k))
  ELSE [k EXCEPT !.rec = "Resuming"]

\* MeetingController::applyResumeMeetingResponse, its checks.
ValidSnapshot(k, m) == k.meeting /\ m.ticket = k.ticket /\ k.ticket # 0 /\ m.gen >= k.gen

\* A resume answer: only for the request of this outage.
ApplyResume(k, m) ==
  IF k.rec # "Resuming" \/ m.req # k.req THEN k
  ELSE IF m.result = "busy" THEN Retry(k)
  ELSE IF m.result # "ok" THEN Finish(AbandonCurrentMeeting(k))
  ELSE IF ValidSnapshot(k, m) THEN Finish([k EXCEPT !.gen = m.gen, !.peer = m.peer])
  ELSE Fail(k, TRUE)

\* applyJoinMeetingResponse
ApplyJoin(k, m) ==
  IF m.result # "ok" \/ ~k.join THEN [k EXCEPT !.join = FALSE]
  ELSE [k EXCEPT !.join = FALSE, !.meeting = TRUE, !.ticket = m.ticket, !.gen = m.gen,
                 !.peer = m.peer]

\* applyLeaveMeetingResponse
ApplyLeave(k, m) ==
  IF m.result # "ok" \/ ~k.leave THEN [k EXCEPT !.leave = FALSE, !.left = FALSE]
  ELSE [AbandonCurrentMeeting(k) EXCEPT !.left = TRUE]

\* The notices about the other member; each allows for a repeated notice and for
\* a member that is not listed.
ApplyMemberJoined(k) == [k EXCEPT !.peer = IF @ = "absent" THEN "active" ELSE @]

ApplyMemberLeft(k) == [k EXCEPT !.peer = "absent"]

ApplyMemberReconnecting(k) ==
  [k EXCEPT !.peer = IF @ = "absent" THEN @ ELSE "reconnecting"]

ApplyMemberReconnected(k) == [k EXCEPT !.peer = IF @ = "absent" THEN @ ELSE "active"]

\* applyMeetingEnded: the page stays, but there is nothing to resume.
ApplyMeetingEnded(k) == [k EXCEPT !.ticket = 0, !.gen = 0]

\* The handler that initHandlers registers for the message.
Dispatch(k, m) ==
  CASE m.t = "join"  -> ApplyJoin(k, m)
    [] m.t = "leave" -> ApplyLeave(k, m)
    [] m.t \in {"chat", "push", "history"} -> k
    [] OTHER ->
         IF ~k.meeting THEN k
         ELSE CASE m.t = "joined"       -> ApplyMemberJoined(k)
                [] m.t = "left"         -> ApplyMemberLeft(k)
                [] m.t = "reconnecting" -> ApplyMemberReconnecting(k)
                [] m.t = "reconnected"  -> ApplyMemberReconnected(k)
                [] m.t = "ended"        -> ApplyMeetingEnded(k)

\* RealtimeController::slot_message_recv and RecoveryController::handleMessage:
\* while recovering only the login and the resume answer get through.
Receive(k, m) ==
  IF m.t = "login" THEN ApplyLogin(k, m)
  ELSE IF m.t = "resume" THEN ApplyResume(k, m)
  ELSE IF Recovering(k) \/ k.rec = "Failed" THEN k
  ELSE Dispatch(k, m)

\* readIncoming: the next message, unless its effect closes the connection.  A
\* successful resume asks for the latest page of the chat.
ClientReceive ==
  /\ cl.sock = "up" /\ down # <<>>
  /\ LET m == Head(down)
         k == Receive(cl, m)
     IN  IF k.sock # "up" THEN Aborted(k)
         ELSE /\ cl' = k /\ down' = Tail(down) /\ UNCHANGED silent
              /\ IF k.rec = "Resuming" /\ cl.rec # "Resuming"
                   THEN SendData(k, Req("resume", k))
                 ELSE IF k.rec = "Ready" /\ cl.rec = "Resuming" /\ k.meeting
                   THEN SendData(k, [Req("history", k) EXCEPT !.x = <<"group", 0>>])
                 ELSE UNCHANGED net
  /\ UNCHANGED <<ServerVars, joins, events>>

(***************************************************************************)
(* The server                                                              *)
(***************************************************************************)

\* What a session sends reaches the client if it is the one the client has.
Out(c, answers) ==
  IF c = cl.c /\ cl.sock = "up" /\ ~silent /\ sess[c].open THEN answers ELSE <<>>

Deliver(c, answers) == down \o Out(c, answers)

\* A request of a session that is not closed; a storage error costs a fault.
Handling(t, result) ==
  /\ net # <<>> /\ Head(net).t = t
  /\ net' = Tail(net)
  /\ IF result = "ok" THEN UNCHANGED events ELSE Spend
  /\ UNCHANGED <<cl, silent>>

\* LoginHandler: the session is bound to its user once everything was found.
LoginHandler(result) ==
  /\ Handling("login", result)
  /\ LET c == Head(net).c
     IN  /\ sess' = [sess EXCEPT ![c].user = @ \/ (result = "ok" /\ sess[c].open)]
         /\ down' = Deliver(c, <<Ans("login", result)>>)
  /\ UNCHANGED <<srv, joins>>

\* The resume check that accepts the current generation only.
MayResume_Exact(m) ==
  /\ srv.in /\ ~srv.ended /\ srv.ticket = m.ticket /\ srv.deadline # "over"
  /\ m.gen = srv.gen

\* JoinMeeetingHandler: the ticket, the deadline, and the generation, where the
\* same request again may name an older one.
MayResume(m) ==
  /\ srv.in /\ ~srv.ended /\ srv.ticket = m.ticket /\ srv.deadline # "over"
  /\ m.gen = srv.gen \/ (m.gen < srv.gen /\ srv.last = m.req)

\* The session that takes the place of another one closes it.
Bind(c) ==
  sess' = [s \in Conns |->
             IF s = c THEN [sess[s] EXCEPT !.meeting = TRUE]
             ELSE IF s = srv.session THEN [sess[s] EXCEPT !.meeting = FALSE, !.open = FALSE]
             ELSE sess[s]]

\* JoinMeeetingHandler for ID_RESUME_MEETING_REQUEST.
ResumeHandler(result) ==
  /\ Handling("resume", result)
  /\ LET m == Head(net)
         c == m.c
         gen == IF srv.session = c THEN srv.gen ELSE srv.gen + 1
         ok == result = "ok" /\ sess[c].user /\ MayResume(m)
         answer == IF result # "ok" THEN [Ans("resume", "busy") EXCEPT !.req = m.req]
                   ELSE IF ok THEN [Ans("resume", "ok") EXCEPT !.req = m.req, !.peer = srv.peer,
                                          !.ticket = srv.ticket, !.gen = gen]
                   ELSE [Ans("resume", "refused") EXCEPT !.req = m.req]
     IN  /\ down' = Deliver(c, <<answer>>)
         /\ IF ok THEN /\ Bind(c)
                       /\ srv' = [srv EXCEPT !.gen = gen, !.session = c, !.deadline = "none",
                                             !.last = m.req]
                  ELSE UNCHANGED <<sess, srv>>
  /\ UNCHANGED joins

\* JoinMeeetingHandler for ID_JOIN_MEETING_REQUEST: not while the member has an
\* active session, and with a new ticket.
JoinHandler(result) ==
  /\ Handling("join", result)
  /\ LET c == Head(net).c
         ok == /\ result = "ok" /\ sess[c].user /\ ~srv.ended
               /\ srv.in => srv.deadline = "running"
     IN  IF ok /\ joins < MaxJoins
           THEN /\ Bind(c) /\ joins' = joins + 1
                /\ srv' = [srv EXCEPT !.in = TRUE, !.ticket = joins + 1, !.gen = 1,
                                      !.session = c, !.deadline = "none", !.last = 0]
                /\ down' = Deliver(c, <<[Ans("join", "ok") EXCEPT !.ticket = joins + 1,
                                              !.gen = 1, !.peer = srv.peer]>>)
           ELSE /\ down' = Deliver(c, <<Ans("join", "refused")>>)
                /\ UNCHANGED <<sess, srv, joins>>

\* LeaveMeetingHandler: a meeting that has ended was left by everyone.
LeaveHandler(result) ==
  /\ Handling("leave", result)
  /\ LET c == Head(net).c
         ok == result = "ok" /\ sess[c].meeting
         gone == result = "ok" /\ sess[c].user /\ srv.ended
     IN  /\ down' = Deliver(c, <<Ans("leave", IF ok \/ gone THEN "ok" ELSE "busy")>>)
         /\ IF ok THEN /\ sess' = [sess EXCEPT ![c].meeting = FALSE]
                       /\ srv' = [srv EXCEPT !.in = FALSE, !.session = 0, !.deadline = "none"]
                  ELSE UNCHANGED <<sess, srv>>
  /\ UNCHANGED joins

\* SessionDisconnectedHandler that does not ask whose session it is.
EndOf_AnySession(c) == [srv EXCEPT !.deadline = "running", !.session = 0]

\* SessionDisconnectedHandler: the end of the member's own session, not of one it
\* has left or that another one replaced, starts the grace period.
EndOf(c) ==
  IF sess[c].meeting /\ srv.in /\ srv.session = c THEN [srv EXCEPT !.deadline = "running", !.session = 0]
  ELSE srv

\* The server finds out that a connection has ended, once it has read what came
\* on it.
SessionDisconnected(c) ==
  /\ sess[c].user \/ sess[c].open
  /\ c # cl.c \/ cl.sock # "up" \/ silent
  /\ c <= cl.c
  /\ \A i \in DOMAIN net : net[i].c # c
  /\ sess' = [sess EXCEPT ![c] = [open |-> FALSE, user |-> FALSE, meeting |-> FALSE]]
  /\ srv' = EndOf(c)
  /\ UNCHANGED <<cl, net, down, silent, joins, events>>

\* The grace period passes, and the check that follows removes the member.
GracePasses ==
  /\ \/ srv.deadline = "running" /\ srv' = [srv EXCEPT !.deadline = "over"]
     \/ /\ srv.deadline = "over" /\ srv.in
        /\ srv' = [srv EXCEPT !.in = FALSE, !.deadline = "none", !.last = 0]
  /\ UNCHANGED <<cl, net, down, silent, sess, joins, events>>

\* The client's session is in room.sessions.
InRoom == srv.in /\ srv.session # 0 /\ sess[srv.session].meeting

Notify(t) == IF InRoom THEN Deliver(srv.session, <<Ans(t, "ok")>>) ELSE down

\* The other member joins, leaves, loses its connection, comes back.
PeerStep ==
  /\ Spend /\ ~srv.ended
  /\ \E step \in {<<"absent", "active", "joined">>, <<"active", "absent", "left">>,
                  <<"active", "reconnecting", "reconnecting">>,
                  <<"reconnecting", "active", "reconnected">>,
                  <<"reconnecting", "absent", "left">>} :
       /\ srv.peer = step[1]
       /\ srv' = [srv EXCEPT !.peer = step[2]]
       /\ down' = Notify(step[3])
  /\ UNCHANGED <<cl, net, silent, sess, joins>>

\* The host ends the meeting: everyone is told, and the room is emptied.
EndMeeting ==
  /\ ~srv.ended /\ Spend
  /\ down' = Notify("ended")
  /\ sess' = [c \in Conns |-> [sess[c] EXCEPT !.meeting = FALSE]]
  /\ srv' = [srv EXCEPT !.ended = TRUE, !.in = FALSE, !.session = 0, !.deadline = "none",
                        !.peer = "absent"]
  /\ UNCHANGED <<cl, net, silent, joins>>

(***************************************************************************)
(* Steps and properties                                                    *)
(***************************************************************************)

ClientTimers == ConnectNow \/ StageTimeout

RecoveryNext ==
  \/ SocketEnds \/ ConnectFails \/ HeartbeatTick \/ GoesSilent \/ Connected \/ ClientTimers \/ BudgetTimeout
  \/ RequestLeave \/ RequestJoin
  \/ \E result \in {"ok", "busy", "token"} : LoginHandler(result)
  \/ \E result \in {"ok", "busy"} :
       ResumeHandler(result) \/ JoinHandler(result) \/ LeaveHandler(result)
  \/ \E c \in Conns : SessionDisconnected(c)
  \/ GracePasses \/ PeerStep \/ EndMeeting

\* Nothing is on its way and both ends have the same connection.
Quiet == /\ cl.rec = "Ready" /\ cl.sock = "up" /\ ~silent /\ net = <<>> /\ down = <<>>
         /\ sess[cl.c].open

\* When things have come to rest, the client that shows a meeting is a member of
\* it on this very connection, with the ticket and the generation it holds, so
\* that its next outage can be resumed; and it shows the other member as the
\* server knows it, whatever notices were lost or dropped during an outage.
ReadyAgrees ==
  (Quiet /\ cl.meeting /\ ~srv.ended) =>
    /\ srv.in /\ srv.session = cl.c /\ srv.deadline = "none"
    /\ srv.ticket = cl.ticket /\ srv.gen = cl.gen /\ srv.peer = cl.peer

\* A resume is refused only when the member's grace is over, the member has left
\* or the meeting has ended: a resume whose answer was lost, sent again with the
\* generation the client still knows, is accepted.
RefusedOnlyWhenGone ==
  \A i \in DOMAIN down :
    (down[i].t = "resume" /\ down[i].result = "refused" /\ cl.rec = "Resuming"
     /\ down[i].req = cl.req)
    => (~srv.in \/ srv.deadline = "over" \/ srv.ended \/ srv.ticket # cl.ticket)

\* Once the user asked to leave, no recovery brings the meeting back: either the
\* leave is still unanswered on a live connection, or there is no meeting.
LeaveWins == cl.left => (~cl.meeting \/ (cl.leave /\ cl.rec = "Ready"))

\* The client never meets a resume snapshot it has to reject: the answer of an
\* earlier request or a cancelled resume cannot get that far.
SnapshotsAreValid == ~cl.invalid
=============================================================================
