---------------------------- MODULE Connections ----------------------------
(***************************************************************************)
(* RealtimeServer's TCP connections: CServer's epoll loop on its only I/O  *)
(* thread, the send queue of a Session that business threads fill, and the *)
(* IoWakeup through which they reach the I/O thread.                       *)
(*                                                                         *)
(* A business thread's Send or RequestClose is one step: it holds          *)
(* m_send_mutex, and IoWakeup's mutex inside it.  The I/O thread holds no  *)
(* lock across a system call, so between two of its locked sections, and   *)
(* between HasPendingWrite and the epoll_ctl that uses it, anything may    *)
(* happen.  A socket takes Room units until its client reads, so a send may *)
(* be whole, partial or refused.                                           *)
(***************************************************************************)
EXTENDS Naturals, Sequences, FiniteSets, SequencesExt

CONSTANTS MaxTokens,    \* connections in a behaviour
          MaxPending,   \* kMaxPendingFrames
          MaxBytes,     \* kMaxPendingBytes, in units
          MaxPayload,   \* the longest payload a frame header can state (65535), in units
          Batch,        \* tokens, connections or deadlines handled at a time (64)
          Room,         \* units a socket's send buffer takes
          Budget,       \* units one HandleWrite sends at most (kIoBudget)
          MaxSends,     \* frames business threads send
          MaxActs       \* closes, client frames, errors, deadlines and stops, together

ASSUME ConnectionBounds ==
  /\ MaxTokens \in Nat /\ MaxPending \in Nat \ {0} /\ MaxBytes \in Nat \ {0}
  /\ MaxPayload \in Nat \ {0} /\ Batch \in Nat \ {0}
  /\ Room \in Nat \ {0} /\ Budget \in Nat \ {0} /\ MaxSends \in Nat /\ MaxActs \in Nat

VARIABLES conn,     \* the Session of every token, with its epoll registration
          ready,    \* m_ready of IoWakeup
          noted,    \* m_pending of IoWakeup
          wakeFd,   \* the eventfd is readable
          stopping, \* m_stopping of IoWakeup
          backlog,  \* connections waiting for accept4
          next,     \* m_next_token, from 1
          timerFd,  \* the timerfd is readable
          scan,     \* the round of deadline checks
          io,       \* where the I/O thread is
          sends, acts

wakeVars == <<ready, noted, wakeFd, stopping>>
vars == <<conn, wakeVars, backlog, next, timerFd, scan, io, sends, acts>>

Tokens == 1..MaxTokens

\* A token that was never given out.  frames is m_pending_frames, space what the
\* socket still takes, got the frames the client has in full, asked the number of
\* frames that Send was asked for on an open connection and that a frame header can
\* carry (no code counts them), ends the calls of PostSessionDisconnected.
NoSession ==
  [st |-> "none", closed |-> FALSE, closeReq |-> FALSE, pending |-> <<>>,
   sendq |-> <<>>, offset |-> 0, frames |-> 0, bytes |-> 0, out |-> FALSE, space |-> Room,
   got |-> <<>>, asked |-> 0, inbox |-> <<>>, user |-> FALSE, hb |-> FALSE,
   seq |-> 0, late |-> FALSE, recheck |-> "unused", ends |-> 0]

\* The I/O thread is done with a session.
Back(from) ==
  [from EXCEPT !.at = from.back, !.s = 0, !.out = FALSE, !.want = FALSE, !.written = 0]

NoScan == [on |-> FALSE, after |-> 0, through |-> 0, recheck |-> FALSE]

\* The first client has logged in and has sent its first PING.
Init ==
  /\ conn = [s \in Tokens |-> IF s = 1 THEN [NoSession EXCEPT !.st = "open", !.user = TRUE,
                                                      !.hb = TRUE, !.seq = 1]
                               ELSE NoSession]
  /\ ready = <<>> /\ noted = {} /\ wakeFd = FALSE /\ stopping = FALSE
  /\ backlog = 0 /\ next = 2 /\ timerFd = FALSE /\ sends = 0 /\ acts = 0
  /\ scan = NoScan
  /\ io = [at |-> "wait", s |-> 0, events |-> {}, batch |-> <<>>, out |-> FALSE,
           back |-> "dispatch", want |-> FALSE, written |-> 0]

Open(s) == conn[s].st = "open"

(***************************************************************************)
(* IoWakeup and the locked sections of Session                             *)
(***************************************************************************)

\* IoWakeup::Notify: one entry per token until it is taken.
Notify(s) ==
  IF stopping \/ s \in noted THEN UNCHANGED wakeVars
  ELSE /\ noted' = noted \cup {s} /\ ready' = Append(ready, s) /\ wakeFd' = TRUE
       /\ UNCHANGED stopping

\* Session::IsClosed
IsClosed(s) == conn[s].closed \/ conn[s].closeReq

\* Session::HasPendingWrite
HasPendingWrite(c) == c.closeReq \/ c.frames # 0

\* The limits of Session::Send
Fits(c, len) == len <= MaxBytes - c.bytes /\ c.frames < MaxPending

Queue(c, len) ==
  [c EXCEPT !.pending = Append(@, [n |-> c.asked + 1, len |-> len]), !.asked = @ + 1,
            !.frames = @ + 1, !.bytes = @ + len, !.closeReq = stopping]

\* Session::Send, the new value of the session and whether the frame was taken.
\* A payload that is too long for a frame is dropped, and the connection goes on.
\* A frame that does not fit the queue asks for the close of the connection; so
\* does a stopping server, which keeps the frame it will never write.
Send(c, len) ==
  IF len > MaxPayload \/ c.closed \/ c.closeReq
    THEN [c |-> c, ok |-> FALSE, note |-> FALSE]
  ELSE IF ~Fits(c, len) THEN [c |-> [c EXCEPT !.closeReq = TRUE, !.asked = @ + 1], ok |-> FALSE,
                              note |-> TRUE]
  ELSE [c |-> Queue(c, len), ok |-> ~stopping, note |-> TRUE]

\* Session::RequestClose
RequestClose(s) ==
  /\ conn' = [conn EXCEPT ![s].closeReq = TRUE]
  /\ Notify(s)

(***************************************************************************)
(* Other threads, clients and clocks                                       *)
(***************************************************************************)

\* A business thread sends, whether or not the session is still open.
BusinessSend(s, len) ==
  /\ conn[s].st \in {"open", "gone"} /\ sends < MaxSends
  /\ sends' = sends + 1
  /\ LET r == Send(conn[s], len)
     IN  /\ conn' = [conn EXCEPT ![s] = r.c]
         /\ IF r.note THEN Notify(s) ELSE UNCHANGED wakeVars
  /\ UNCHANGED <<backlog, next, timerFd, scan, io, acts>>

\* A business thread gives up the connection (a replaced or refused session).
BusinessClose(s) ==
  /\ Open(s) /\ ~conn[s].closeReq /\ acts < MaxActs
  /\ acts' = acts + 1
  /\ RequestClose(s)
  /\ UNCHANGED <<backlog, next, timerFd, scan, io, sends>>

\* The login of a session (Session::SetUserId).
Login(s) ==
  /\ Open(s) /\ ~conn[s].user
  /\ conn' = [conn EXCEPT ![s].user = TRUE]
  /\ UNCHANGED <<wakeVars, backlog, next, timerFd, scan, io, sends, acts>>

\* CServer::Stop by another thread or by the signal the loop reads.
Stop ==
  /\ ~stopping /\ next > MaxTokens /\ acts < MaxActs
  /\ acts' = acts + 1
  /\ stopping' = TRUE /\ wakeFd' = TRUE
  /\ UNCHANGED <<conn, ready, noted, backlog, next, timerFd, scan, io, sends>>

\* A client connects.
Connect ==
  /\ backlog + next <= MaxTokens
  /\ backlog' = backlog + 1
  /\ UNCHANGED <<conn, wakeVars, next, timerFd, scan, io, sends, acts>>

\* What a client may send: a PING with its sequence number (0 for the
\* empty object of old clients), a frame that is refused, the end of the stream.
\* A request only goes on to LogicSystem and changes nothing here.
ClientFrames ==
  [t : {"ping"}, n : 0..2] \cup [t : {"bad", "eof"}, n : {0}]

ClientSend(s, f) ==
  /\ Open(s) /\ acts < MaxActs
  /\ \A i \in DOMAIN conn[s].inbox : conn[s].inbox[i].t # "eof"
  /\ acts' = acts + 1
  /\ conn' = [conn EXCEPT ![s].inbox = Append(@, f)]
  /\ UNCHANGED <<wakeVars, backlog, next, timerFd, scan, io, sends>>

\* The client reads what its socket holds.
ClientReads(s) ==
  /\ Open(s) /\ conn[s].space < Room
  /\ conn' = [conn EXCEPT ![s].space = Room]
  /\ UNCHANGED <<wakeVars, backlog, next, timerFd, scan, io, sends, acts>>

\* The session's deadline passes: 30 s without a login, or 20 s since the last
\* PING that counted.
DeadlinePasses(s) ==
  /\ Open(s) /\ ~conn[s].late /\ acts < MaxActs
  /\ acts' = acts + 1
  /\ conn' = [conn EXCEPT ![s].late = TRUE]
  /\ UNCHANGED <<wakeVars, backlog, next, timerFd, scan, io, sends>>

\* The 3 s of a recheck pass.
RecheckPasses(s) ==
  /\ Open(s) /\ conn[s].recheck = "used"
  /\ conn' = [conn EXCEPT ![s].recheck = "over"]
  /\ UNCHANGED <<wakeVars, backlog, next, timerFd, scan, io, sends, acts>>

\* The timerfd expires, every second.  Expiries whose round would find nothing
\* past its deadline are left out.
TimerExpires ==
  /\ ~timerFd /\ timerFd' = TRUE
  /\ \E s \in Tokens : Open(s) /\ conn[s].late /\ (~conn[s].user \/ conn[s].hb)
  /\ UNCHANGED <<conn, wakeVars, backlog, next, scan, io, sends, acts>>

Environment ==
  \/ Stop \/ Connect \/ TimerExpires
  \/ \E s \in Tokens :
       \/ \E len \in 1..(MaxPayload + 1) : BusinessSend(s, len)
       \/ BusinessClose(s) \/ Login(s) \/ ClientReads(s)
       \/ DeadlinePasses(s) \/ RecheckPasses(s)
       \/ \E f \in ClientFrames : ClientSend(s, f)

(***************************************************************************)
(* The I/O thread                                                          *)
(***************************************************************************)

\* What level-triggered epoll reports: a session is readable with input, and
\* writable when it asked to know and its socket has space.
Events ==
  {[t |-> "session", s |-> s, in |-> conn[s].inbox # <<>>,
    out |-> conn[s].out /\ conn[s].space > 0] :
      s \in {x \in Tokens : Open(x) /\ (conn[x].inbox # <<>>
                                        \/ (conn[x].out /\ conn[x].space > 0))}}
  \cup {[t |-> k, s |-> 0, in |-> TRUE, out |-> FALSE] :
          k \in (IF backlog > 0 THEN {"listen"} ELSE {})
                \cup (IF timerFd THEN {"timer"} ELSE {})
                \cup (IF wakeFd THEN {"wake"} ELSE {})}

\* RunOnce up to epoll_wait, which does not block while a scan is under way.
EpollWait ==
  /\ io.at = "wait" /\ ~stopping
  /\ Events # {} \/ scan.on
  /\ io' = [io EXCEPT !.at = "dispatch", !.events = Events]
  /\ UNCHANGED <<conn, wakeVars, backlog, next, timerFd, scan, sends, acts>>

\* AcceptClients: at most Batch, each of which the process may fail to register.
AcceptClients(failed) ==
  LET n == IF backlog < Batch THEN backlog ELSE Batch
  IN  /\ conn' = [s \in Tokens |->
                    IF s \in next..(next + n - 1)
                      THEN [NoSession EXCEPT !.st = IF failed THEN "refused" ELSE "open"]
                      ELSE conn[s]]
      /\ next' = next + n /\ backlog' = backlog - n
      /\ UNCHANGED <<wakeVars, timerFd, scan>>

\* HandleTimer: a round of deadline checks over the sessions of this moment; slow
\* when more than 5 s passed since the last timer.
HandleTimer(slow) ==
  LET open == {s \in Tokens : Open(s)}
  IN  /\ timerFd' = FALSE
      /\ scan' = IF scan.on \/ open = {} THEN scan
                 ELSE [on |-> TRUE, after |-> 0, recheck |-> slow,
                       through |-> CHOOSE s \in open : \A x \in open : x <= s]
      /\ UNCHANGED <<conn, wakeVars, backlog, next>>

\* Take that leaves the token among the noted ones.
Take_KeepsNoted(n) ==
  /\ ready' = SubSeq(ready, n + 1, Len(ready))
  /\ wakeFd' = (n < Len(ready))
  /\ UNCHANGED <<noted, stopping>>

\* IoWakeup::Take: the first n tokens, and the eventfd again for the others.
Take(n) ==
  /\ ready' = SubSeq(ready, n + 1, Len(ready))
  /\ noted' = noted \ ToSet(SubSeq(ready, 1, n))
  /\ wakeFd' = (n < Len(ready))
  /\ UNCHANGED stopping

\* Session::HandleHeartbeat: only a PING with a new number counts, and the answer
\* takes its place in the send queue.
HandleHeartbeat(s, n) ==
  LET c == conn[s]
      refused == ~c.user \/ (n = 0 /\ c.seq > 0)
      replay  == n # 0 /\ n <= c.seq
      r == Send([c EXCEPT !.seq = n, !.hb = TRUE, !.late = FALSE, !.recheck = "unused",
                          !.inbox = Tail(@)], 1)
      pop == [c EXCEPT !.inbox = Tail(@)]
  IN  IF refused THEN conn' = [conn EXCEPT ![s] = [pop EXCEPT !.closeReq = TRUE]] /\ Notify(s)
      ELSE IF replay THEN conn' = [conn EXCEPT ![s] = pop] /\ UNCHANGED wakeVars
      ELSE /\ conn' = [conn EXCEPT ![s] = [r.c EXCEPT !.closeReq = @ \/ ~r.ok]]
           /\ Notify(s)

\* HandleWrite that takes the new frames whatever is left of the old ones.
Refill_Always(c) == [c EXCEPT !.sendq = c.pending, !.pending = c.sendq]

\* The frames HandleWrite moves to the I/O thread's queue: none before the last
\* ones are written.
Refill(c) ==
  IF c.sendq = <<>> THEN [c EXCEPT !.sendq = c.pending, !.pending = <<>>] ELSE c

\* CloseClient and Session::Close: the queues are cleared and the end is posted to
\* LogicSystem, whatever the session was.  The other fields are not read again.
CloseClient(c) ==
  [NoSession EXCEPT !.st = "gone", !.closed = TRUE, !.ends = c.ends + 1]

\* The I/O thread turns to session s, from the place it will go back to.
\* Session::HandleWrite begins with its locked section.
HandleWrite(s, c, from) ==
  IF c.closed \/ c.closeReq
    THEN /\ conn' = [conn EXCEPT ![s] = CloseClient(@)]
         /\ io' = Back(from)
    ELSE /\ conn' = [conn EXCEPT ![s] = Refill(c)]
         /\ io' = [from EXCEPT !.at = "send", !.s = s]

\* UpdateClient reads HasPendingWrite under the lock; epoll_ctl comes later.
UpdateClient(s, c, from) ==
  /\ conn' = [conn EXCEPT ![s] = c]
  /\ io' = [from EXCEPT !.at = "ctl", !.s = s, !.want = HasPendingWrite(c)]

EpollCtl ==
  /\ io.at = "ctl"
  /\ conn' = [conn EXCEPT ![io.s].out = io.want]
  /\ io' = Back(io)
  /\ UNCHANGED <<wakeVars, backlog, next, timerFd, scan, sends, acts>>

\* HandleWakeup that does not look the token up.
HandleWakeup_NoLookup ==
  /\ io.at = "wakeup"
  /\ LET s == Head(io.batch)
         rest == [io EXCEPT !.batch = Tail(@), !.back = "wakeup"]
     IN  IF io.batch = <<>> \/ stopping
           THEN /\ io' = [io EXCEPT !.at = "dispatch", !.batch = <<>>, !.back = "dispatch"]
                /\ UNCHANGED conn
         ELSE HandleWrite(s, conn[s], rest)
  /\ UNCHANGED <<wakeVars, backlog, next, timerFd, scan, sends, acts>>

\* HandleWakeup: the tokens taken, one by one.
HandleWakeup ==
  /\ io.at = "wakeup"
  /\ LET s == Head(io.batch)
         rest == [io EXCEPT !.batch = Tail(@), !.back = "wakeup"]
     IN  IF io.batch = <<>> \/ stopping
           THEN /\ io' = [io EXCEPT !.at = "dispatch", !.batch = <<>>, !.back = "dispatch"]
                /\ UNCHANGED conn
         ELSE IF Open(s) THEN HandleWrite(s, conn[s], rest)
         ELSE io' = rest /\ UNCHANGED conn
  /\ UNCHANGED <<wakeVars, backlog, next, timerFd, scan, sends, acts>>

\* What ::send takes of the first frame: what the socket has room for.
Taken(c) ==
  LET left == Head(c.sendq).len - c.offset
  IN  IF c.space < left THEN c.space ELSE left

\* The session after it; a frame sent in full leaves the queue and its counters.
Sent(c) ==
  LET m == Head(c.sendq)
      whole == c.offset + Taken(c) = m.len
  IN  [c EXCEPT !.space = @ - Taken(c),
                !.offset = IF whole THEN 0 ELSE @ + Taken(c),
                !.sendq = IF whole THEN Tail(@) ELSE @,
                !.got = IF whole THEN Append(@, m.n) ELSE @,
                !.bytes = IF whole THEN @ - m.len ELSE @,
                !.frames = IF whole THEN @ - 1 ELSE @]

\* One ::send of HandleWrite, until nothing is left, the socket is full or the
\* budget is spent.
SendSome ==
  /\ io.at = "send"
  /\ LET c == conn[io.s]
     IN  IF c.sendq = <<>> \/ c.space = 0 \/ io.written >= Budget
           THEN UpdateClient(io.s, c, io)
         ELSE /\ conn' = [conn EXCEPT ![io.s] = Sent(c)]
              /\ io' = [io EXCEPT !.written = @ + Taken(c)]
  /\ UNCHANGED <<wakeVars, backlog, next, timerFd, scan, sends, acts>>

\* The peer has reset the connection: send or recv fails.
SocketError ==
  /\ io.at \in {"send", "read"} /\ acts < MaxActs
  /\ acts' = acts + 1
  /\ conn' = [conn EXCEPT ![io.s] = CloseClient(@)]
  /\ io' = Back(io)
  /\ UNCHANGED <<wakeVars, backlog, next, timerFd, scan, sends>>

\* Session::ConnectionExpired, before any recheck.
Overdue(c) == c.late /\ (~c.user \/ c.hb)

\* ConnectionExpired that grants the recheck every time it is asked.
Recheck_Again(c, allow) ==
  IF Overdue(c) /\ allow THEN [c EXCEPT !.recheck = "used"] ELSE c

\* ConnectionExpired: an expired session gets one recheck when allowed.
Recheck(c, allow) ==
  IF Overdue(c) /\ allow /\ c.recheck = "unused" THEN [c EXCEPT !.recheck = "used"] ELSE c

Expired(c) == Overdue(c) /\ c.recheck \in {"unused", "over"}

\* CheckHeartbeats, the verdict on a session past its deadline, once its input
\* is read.
Verdict(s) ==
  LET c == Recheck(conn[s], scan.recheck)
  IN  IF IsClosed(s) \/ Expired(c)
        THEN conn' = [conn EXCEPT ![s] = CloseClient(c)] /\ io' = Back(io)
        ELSE UpdateClient(s, c, io)

\* Session::HandleRead and ParseFrames, one frame at a time: to the end of the
\* input, or to a close at the end of the stream or once the session is closed.
HandleRead ==
  /\ io.at = "read"
  /\ LET s == io.s
         c == conn[s]
         f == Head(c.inbox)
     IN  \/ /\ c.inbox = <<>> /\ UNCHANGED wakeVars
            /\ IF io.back = "scan" THEN Verdict(s)
               ELSE IF io.out THEN HandleWrite(s, c, io)
               ELSE UpdateClient(s, c, io)
         \/ /\ c.inbox # <<>> /\ (IsClosed(s) \/ f.t = "eof") /\ UNCHANGED wakeVars
            /\ conn' = [conn EXCEPT ![s] = CloseClient(@)]
            /\ io' = Back(io)
         \/ /\ c.inbox # <<>> /\ ~IsClosed(s) /\ f.t = "ping"
            /\ HandleHeartbeat(s, f.n)
            /\ UNCHANGED io
         \/ /\ c.inbox # <<>> /\ ~IsClosed(s) /\ f.t = "bad"
            /\ conn' = [conn EXCEPT ![s].inbox = Tail(@), ![s].closeReq = TRUE]
            /\ Notify(s) /\ UNCHANGED io
  /\ UNCHANGED <<backlog, next, timerFd, scan, sends, acts>>

\* The events are done: CheckHeartbeats looks at the next session of the round.
\* io.batch holds the ones of this turn.
CheckHeartbeats ==
  /\ \/ io.at = "dispatch" /\ io.events = {}
     \/ io.at = "scan"
  /\ ~stopping
  /\ LET left == {s \in Tokens : Open(s) /\ s > scan.after /\ s <= scan.through}
         s == CHOOSE x \in left : \A y \in left : x <= y
         done == [io EXCEPT !.at = "wait", !.batch = <<>>, !.back = "dispatch"]
         turn == [io EXCEPT !.at = "scan", !.back = "scan", !.batch = Append(@, s)]
     IN  IF ~scan.on \/ Len(io.batch) = Batch THEN io' = done /\ UNCHANGED scan
         ELSE IF left = {} THEN io' = done /\ scan' = NoScan
         ELSE /\ scan' = [scan EXCEPT !.after = s]
              /\ io' = IF Expired(conn[s]) THEN [turn EXCEPT !.at = "read", !.s = s] ELSE turn
  /\ UNCHANGED <<conn, wakeVars, backlog, next, timerFd, sends, acts>>

\* One event of the round.  A session an earlier event closed is not found.
Dispatch ==
  /\ io.at = "dispatch" /\ ~stopping
  /\ UNCHANGED <<sends, acts>>
  /\ \E e \in io.events :
       LET rest == [io EXCEPT !.events = @ \ {e}]
           n == IF Len(ready) < Batch THEN Len(ready) ELSE Batch
       IN  \/ /\ e.t = "listen" /\ io' = rest
              /\ \E failed \in BOOLEAN : AcceptClients(failed)
           \/ /\ e.t = "timer" /\ io' = rest
              /\ \E slow \in BOOLEAN : HandleTimer(slow)
           \/ /\ e.t = "wake" /\ Take(n)
              /\ io' = [rest EXCEPT !.at = "wakeup", !.batch = SubSeq(ready, 1, n)]
              /\ UNCHANGED <<conn, backlog, next, timerFd, scan>>
           \/ /\ e.t = "session"
              /\ IF ~Open(e.s) THEN io' = rest /\ UNCHANGED conn
                 ELSE IF e.in
                   THEN /\ io' = [rest EXCEPT !.at = "read", !.s = e.s, !.out = e.out]
                        /\ UNCHANGED conn
                 ELSE HandleWrite(e.s, conn[e.s], rest)
              /\ UNCHANGED <<wakeVars, backlog, next, timerFd, scan, sends>>

\* Run leaves the loop, and Shutdown closes what is left, one by one; then the
\* eventfd is closed.
Shutdown ==
  /\ stopping /\ io.at \in {"wait", "dispatch", "scan"}
  /\ LET open == {s \in Tokens : Open(s)}
     IN  IF open = {} THEN /\ io' = [io EXCEPT !.at = "down"] /\ UNCHANGED conn
                           /\ ready' = <<>> /\ noted' = {} /\ wakeFd' = FALSE
         ELSE /\ conn' = [conn EXCEPT ![CHOOSE s \in open : \A x \in open : s <= x] =
                                        CloseClient(@)]
              /\ io' = [io EXCEPT !.at = "wait", !.events = {}]
              /\ UNCHANGED <<ready, noted, wakeFd>>
  /\ UNCHANGED <<stopping, backlog, next, timerFd, scan, sends, acts>>

IoStep ==
  \/ EpollWait \/ Dispatch \/ HandleWakeup \/ HandleRead \/ SendSome \/ EpollCtl
  \/ CheckHeartbeats \/ Shutdown

Next == Environment \/ SocketError \/ IoStep

\* The I/O thread runs, the clocks run, and clients read what they are sent.
Fairness ==
  /\ WF_vars(IoStep) /\ WF_vars(TimerExpires)
  /\ \A s \in Tokens : WF_vars(ClientReads(s)) /\ WF_vars(RecheckPasses(s))

Spec == Init /\ [][Next]_vars /\ Fairness

(***************************************************************************)
(* Properties                                                              *)
(***************************************************************************)

\* When the I/O thread is about to block, a session with frames to write or with
\* a requested close is either watched for EPOLLOUT or waits in the wakeup list
\* of a readable eventfd: a Send between Take and HandleWrite, or between
\* HasPendingWrite and epoll_ctl, is not forgotten.
NothingStranded ==
  (io.at = "wait" /\ ~stopping) =>
    \A s \in Tokens : (Open(s) /\ HasPendingWrite(conn[s])) =>
      conn[s].out \/ (wakeFd /\ \E i \in DOMAIN ready : ready[i] = s)

\* n is the length of the frames of the queue together, by their running totals.
TotalLength(queue, n) ==
  \E total \in [0..Len(queue) -> 0..n] :
    /\ total[0] = 0 /\ total[Len(queue)] = n
    /\ \A i \in DOMAIN queue : total[i] = total[i - 1] + queue[i].len

\* On a connection that lives, what the client has received, what the I/O thread
\* holds and what waits for it are, in this order, exactly the frames that were
\* sent to it and that a frame header can carry, and the counters that limit the
\* queue count the ones not yet received: of these frames none is dropped alone,
\* overtaken or torn by another, through a full queue, partial sends and the swap
\* of the two queues, and none is longer than its header says.  A payload over
\* MaxPayload is not among them: Send drops it alone and the connection lives on.
FramesInOrder ==
  \A s \in Tokens : (Open(s) /\ ~conn[s].closeReq) =>
    LET queue == conn[s].sendq \o conn[s].pending
    IN  /\ conn[s].got \o [i \in DOMAIN queue |-> queue[i].n] = [i \in 1..conn[s].asked |-> i]
        /\ conn[s].frames = Len(queue)
        /\ TotalLength(queue, conn[s].bytes)
        /\ \A i \in DOMAIN queue : queue[i].len <= MaxPayload

\* A session's end is posted to the business side at most once, and by the time
\* the server is down it was posted for every session that was ever accepted.
OneDisconnectEach ==
  \A s \in Tokens :
    /\ conn[s].ends <= 1
    /\ (io.at = "down" /\ conn[s].st \in {"open", "gone"}) => conn[s].ends = 1

\* A client that stopped sending PINGs is disconnected: one recheck after a long
\* pause of the I/O thread postpones it, but never again without a new PING.
SilentClientIsDropped ==
  \A s \in Tokens : (Open(s) /\ Overdue(conn[s])) ~> (~Open(s) \/ ~Overdue(conn[s]))
=============================================================================
