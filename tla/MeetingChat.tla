---------------------------- MODULE MeetingChat ----------------------------
(***************************************************************************)
(* Meeting chat over connections that break: the client's ChatController,  *)
(* which shows a message before the server has it, and RealtimeServer's    *)
(* message and history handlers over the table meeting_messages.  The      *)
(* connection, its loss and its recovery are those of Recovery.            *)
(*                                                                         *)
(* A message is known by the id its sender gave it (client_msg_id) and,    *)
(* once stored, by its place in the table (message_id); texts, names and   *)
(* times are left out.  The other member's messages reach the client only  *)
(* as pushes and history.                                                  *)
(***************************************************************************)
EXTENDS Recovery

CONSTANTS MaxChat,    \* messages sent in the meeting
          Page        \* messages of a page

ASSUME ChatBounds == MaxChat \in Nat /\ Page \in Nat \ {0}

VARIABLES rows,    \* ChatController::m_messages
          table,   \* meeting_messages
          sent,    \* messages sent, the source of client_msg_id
          silently,\* message ids stored with no push (a failed reload)
          unnamed, \* messages refused by an answer that does not name them
          fresh    \* the latest group page was merged since the last outage

chatVars == <<rows, table, sent, silently, unnamed, fresh>>
vars == <<recoveryVars, chatVars>>

ChatInit == /\ rows = <<>> /\ table = <<>> /\ sent = 0
            /\ silently = {} /\ unnamed = {} /\ fresh = FALSE

(***************************************************************************)
(* ChatController                                                          *)
(***************************************************************************)

\* The members of S as the relation R orders them.
InOrder(S, R) ==
  [k \in 1..Cardinality(S) |->
     CHOOSE x \in S : Cardinality({y \in S : <<y, x>> \in R}) = k - 1]

\* findMessage and findMessageByServerId
FindMessage(list, cid) == SelectInSeq(list, LAMBDA r : r.cid = cid)
FindByServerId(list, mid) == SelectInSeq(list, LAMBDA r : mid # 0 /\ r.mid = mid)

\* messageFromJson, of a message of the server, in the state "sent".
FromServer(m, mine) ==
  [cid |-> m.cid, mid |-> m.mid, kind |-> m.kind, state |-> "sent", mine |-> mine]

\* connectionInterrupted that takes an unanswered message for a failed one.
Interrupted_Failed(list) ==
  [i \in DOMAIN list |->
     IF list[i].state = "sending" THEN [list[i] EXCEPT !.state = "failed"] ELSE list[i]]

\* connectionInterrupted that leaves them as they are.
Interrupted_Nothing(list) == list

\* ChatController::connectionInterrupted
Interrupted(list) ==
  [i \in DOMAIN list |->
     IF list[i].state = "sending" THEN [list[i] EXCEPT !.state = "unknown"] ELSE list[i]]

\* ChatController::applySendMessageAck: an answer without a client_msg_id (0) is
\* not applied to any row.
ApplySendMessageAck(list, m) ==
  LET ack == Head(m.rows)
      row == FindMessage(list, ack.cid)
  IN  IF ack.cid = 0 \/ row = 0 THEN list
      ELSE IF m.result # "ok" THEN [list EXCEPT ![row].state = "failed"]
      ELSE [list EXCEPT ![row] = FromServer(ack, TRUE)]

\* ChatController::applyMessageReceived: a message the client has is its own.
ApplyMessageReceived(list, m) ==
  LET push == Head(m.rows)
      row == FindMessage(list, push.cid)
  IN  IF row # 0 THEN [list EXCEPT ![row] = FromServer(push, TRUE)]
      ELSE Append(list, FromServer(push, FALSE))

\* One step of mergeHistoryMessages.
MergeOne(list, m) ==
  LET known == FindMessage(list, m.cid)
      row == IF known # 0 THEN known ELSE FindByServerId(list, m.mid)
  IN  IF row # 0 THEN [list EXCEPT ![row] = FromServer(m, m.mine)]
      ELSE Append(list, FromServer(m, m.mine))

\* mergeHistoryMessages that only adds what is not shown.
MergeHistory_OnlyNew(list, messages) ==
  list \o [i \in 1..Len(SelectSeq(messages, LAMBDA m : FindMessage(list, m.cid) = 0)) |->
             LET m == SelectSeq(messages, LAMBDA h : FindMessage(list, h.cid) = 0)[i]
             IN  FromServer(m, m.mine)]

\* What std::stable_sort compares: stored messages first, in the table's order.
Precedes(a, b) == a.mid # 0 /\ (b.mid = 0 \/ a.mid < b.mid)

\* The places of the rows in that order, as pairs.
StableOrder(list) ==
  {p \in (DOMAIN list) \X (DOMAIN list) :
     \/ Precedes(list[p[1]], list[p[2]])
     \/ ~Precedes(list[p[2]], list[p[1]]) /\ p[1] < p[2]}

\* ChatController::mergeHistoryMessages
MergeHistory(list, messages) ==
  IF messages = <<>> THEN list
  ELSE LET merged == FoldLeft(MergeOne, list, messages)
       IN  [k \in DOMAIN merged |-> merged[InOrder(DOMAIN merged, StableOrder(merged))[k]]]

\* belongsToConversation, of every message of an answer.
AllOf(messages, kind) == \A i \in DOMAIN messages : messages[i].kind = kind

\* applyGroupHistoryResponse
ApplyGroupHistory(list, m) ==
  IF m.result = "ok" /\ AllOf(m.rows, "group") THEN MergeHistory(list, m.rows) ELSE list

\* applyPrivateHistoryResponse
ApplyPrivateHistory(list, m) ==
  IF m.result = "ok" /\ AllOf(m.rows, "private") THEN MergeHistory(list, m.rows) ELSE list

\* Leaving the meeting clears the list (setActiveMeetingId), an outage suspends
\* what is being sent, and any other step leaves it as it is.
RowsFollow ==
  /\ rows' = IF ~cl'.meeting THEN <<>>
             ELSE IF cl.rec = "Ready" /\ Recovering(cl') THEN Interrupted(rows)
             ELSE rows
  /\ fresh' = (fresh /\ cl'.meeting /\ cl'.rec = "Ready")

\* ChatController::sendMessage: the row is shown first.  slot_send_data rejects it
\* at once while the connection is being recovered.
SendMessage(kind) ==
  /\ cl.meeting /\ sent < MaxChat /\ Spend
  /\ LET cid == sent + 1
     IN  /\ sent' = cid
         /\ rows' = Append(rows,
              [cid |-> cid, mid |-> 0, kind |-> kind, mine |-> TRUE,
               state |-> IF cl.rec = "Ready" THEN "sending" ELSE "failed"])
         /\ IF cl.rec = "Ready"
              THEN SendData(cl, [Req("chat", cl) EXCEPT !.x = <<cid, kind>>])
              ELSE UNCHANGED net
  /\ UNCHANGED <<cl, down, silent, ServerVars, joins, table, silently, unnamed, fresh>>

\* earliestMessageId: of the first row of the conversation.
EarliestMessageId(kind) ==
  LET row == SelectInSeq(rows, LAMBDA r : r.kind = kind)
  IN  IF row = 0 THEN 0 ELSE rows[row].mid

\* requestHistory: a panel is opened (the latest page) or scrolled to its top.
RequestHistory(kind, older) ==
  /\ cl.meeting /\ cl.rec = "Ready" /\ Spend
  /\ older => EarliestMessageId(kind) # 0
  /\ SendData(cl, [Req("history", cl) EXCEPT
                     !.x = <<kind, IF older THEN EarliestMessageId(kind) ELSE 0>>])
  /\ UNCHANGED <<cl, down, silent, ServerVars, joins, chatVars>>

\* readIncoming, and the chat handlers of initHandlers.
ChatReceive ==
  /\ ClientReceive
  /\ LET m == Head(down)
     IN  IF m.t \notin {"chat", "push", "history"} \/ cl.rec # "Ready" \/ ~cl.meeting
           THEN RowsFollow
           ELSE /\ rows' = CASE m.t = "chat" -> ApplySendMessageAck(rows, m)
                             [] m.t = "push" -> ApplyMessageReceived(rows, m)
                             [] m.t = "history" -> IF m.x[1] = "group" THEN ApplyGroupHistory(rows, m)
                                                   ELSE ApplyPrivateHistory(rows, m)
                /\ fresh' = (fresh \/ (m.t = "history" /\ m.result = "ok"
                                       /\ m.x = <<"group", 0>>))
  /\ UNCHANGED <<table, sent, silently, unnamed>>

(***************************************************************************)
(* RealtimeServer                                                          *)
(***************************************************************************)

\* MysqlMgr::SaveMeetingMessage: a client_msg_id is stored once.
SaveMeetingMessage(m) ==
  IF FindMessage(table, m.cid) = 0 THEN Append(table, m) ELSE table

\* A stored message as the server sends it; message ids are places in the table.
Stored(messages, mid) ==
  [cid |-> messages[mid].cid, mid |-> mid, kind |-> messages[mid].kind,
   mine |-> messages[mid].mine]

\* The push of a message to the client's session, if that is in the room.
Push(messages, mid) ==
  IF InRoom
    THEN Out(srv.session, <<[Ans("push", "ok") EXCEPT !.rows = <<Stored(messages, mid)>>]>>)
    ELSE <<>>

\* The answer to a message: the row it names, with no client_msg_id if cid is 0.
ChatAnswer(result, cid, mid, kind) ==
  [Ans("chat", result) EXCEPT
     !.rows = <<[cid |-> cid, mid |-> mid, kind |-> kind, mine |-> TRUE]>>]

\* ReplyError of Route and Dispatch: the meeting's queue or the storage pool is
\* full, and the request is refused before its handler runs.  The answer says
\* what went wrong and nothing else.
ReplyError ==
  /\ Handling("chat", "busy")
  /\ LET m == Head(net)
     IN  /\ down' = Deliver(m.c, <<ChatAnswer("busy", 0, 0, m.x[2])>>)
         /\ unnamed' = unnamed \cup {m.x[1]}
  /\ UNCHANGED <<sess, srv, joins, rows, table, sent, silently, fresh>>

\* SendMeetingMessageHandler: the sender is in the room, and so is the target of a
\* private message; then the row is stored and read back, then pushed, and the
\* answer goes last.  "stored" is a row that could not be read back.
SendMeetingMessageHandler(result) ==
  /\ Handling("chat", result)
  /\ LET m == Head(net)
         c == m.c
         cid == m.x[1]
         kind == m.x[2]
         answer(r, mid) == <<ChatAnswer(r, cid, mid, kind)>>
         may == /\ sess[c].meeting /\ ~srv.ended
                /\ kind = "private" => srv.peer # "absent"
         saved == SaveMeetingMessage([cid |-> cid, kind |-> kind, mine |-> TRUE])
         mid == FindMessage(saved, cid)
     IN  IF ~may \/ result = "busy"
           THEN /\ down' = Deliver(c, answer("busy", 0))
                /\ UNCHANGED <<table, silently>>
         ELSE IF result = "stored"
           THEN /\ table' = saved /\ silently' = silently \cup {mid}
                /\ down' = Deliver(c, answer("busy", 0))
         ELSE /\ table' = saved /\ UNCHANGED silently
              /\ down' = down \o Push(saved, mid) \o Out(c, answer("ok", mid))
  /\ UNCHANGED <<sess, srv, joins, rows, sent, unnamed, fresh>>

\* The other member's message, to all or to the client.
PeerMessage(kind) ==
  /\ sent < MaxChat /\ Spend /\ srv.peer = "active" /\ ~srv.ended
  /\ kind = "private" => srv.in
  /\ sent' = sent + 1
  /\ table' = SaveMeetingMessage([cid |-> sent + 1, kind |-> kind, mine |-> FALSE])
  /\ \/ down' = down \o Push(table', Len(table')) /\ UNCHANGED silently
     \/ silently' = silently \cup {Len(table')} /\ UNCHANGED down
  /\ UNCHANGED <<cl, net, silent, ServerVars, joins, rows, unnamed, fresh>>

\* LIMIT and the reversal: the latest Page of the rows, oldest first.
LatestPage(ids) ==
  LET latest == {i \in ids : Cardinality({j \in ids : i < j}) < Page}
      oldest == InOrder(latest, {p \in latest \X latest : p[1] < p[2]})
  IN  [k \in DOMAIN oldest |-> Stored(table, oldest[k])]

\* MysqlMgr::GetMeetingGroupMessages
GetMeetingGroupMessages(before) ==
  LatestPage({i \in DOMAIN table : table[i].kind = "group" /\ (before = 0 \/ i < before)})

\* MysqlMgr::GetMeetingPrivateMessages: either of the two wrote to the other.
GetMeetingPrivateMessages(before) ==
  LatestPage({i \in DOMAIN table : table[i].kind = "private" /\ (before = 0 \/ i < before)})

\* The answer to a history request names the request.  "busy" is every answer that
\* brings no messages: an error of the handler, a refusal by ReplyError (which the
\* client takes for another meeting's) and a page too long for one frame.
HistoryAnswer(m, ok, messages) ==
  down' = Deliver(m.c, <<[Ans("history", IF ok THEN "ok" ELSE "busy") EXCEPT
                            !.x = m.x, !.rows = IF ok THEN messages ELSE <<>>]>>)

\* GetMeetingGroupMessagesHandler: for a member in the room.
GetMeetingGroupMessagesHandler(result) ==
  /\ Handling("history", result) /\ Head(net).x[1] = "group"
  /\ LET m == Head(net)
     IN  HistoryAnswer(m, result = "ok" /\ sess[m.c].meeting, GetMeetingGroupMessages(m.x[2]))
  /\ UNCHANGED <<sess, srv, joins, chatVars>>

\* GetMeetingPrivateMessagesHandler: both are in the room.
GetMeetingPrivateMessagesHandler(result) ==
  /\ Handling("history", result) /\ Head(net).x[1] = "private"
  /\ LET m == Head(net)
     IN  HistoryAnswer(m, result = "ok" /\ sess[m.c].meeting /\ srv.peer # "absent",
                       GetMeetingPrivateMessages(m.x[2]))
  /\ UNCHANGED <<sess, srv, joins, chatVars>>

(***************************************************************************)
(* The specification                                                       *)
(***************************************************************************)

Init == RecoveryInit /\ ChatInit

Kinds == {"group", "private"}

Next ==
  \/ RecoveryNext /\ RowsFollow /\ UNCHANGED <<table, sent, silently, unnamed>>
  \/ ChatReceive \/ ReplyError
  \/ \E kind \in Kinds : SendMessage(kind) \/ PeerMessage(kind)
  \/ \E kind \in Kinds, older \in BOOLEAN : RequestHistory(kind, older)
  \/ \E result \in {"ok", "busy", "stored"} : SendMeetingMessageHandler(result)
  \/ \E result \in {"ok", "busy"} : GetMeetingGroupMessagesHandler(result)
                                   \/ GetMeetingPrivateMessagesHandler(result)

Spec == Init /\ [][Next]_vars

(***************************************************************************)
(* Properties                                                              *)
(***************************************************************************)

\* A message shown as failed was seen by nobody: the client may say "failed" only
\* for what the server has not pushed.  An unanswered message of a broken
\* connection is "unknown", because it may well have been delivered.
FailedWasNotShown ==
  \A i \in DOMAIN rows : rows[i].state = "failed" =>
    \A mid \in DOMAIN table : table[mid].cid = rows[i].cid => mid \in silently

\* At rest a message is still "sending" only when the server refused it before
\* its handler ran, with an answer that does not name it; and then it was not
\* stored, so that nobody ever sees it.  Any other message has its answer, or the
\* outage that swallowed the answer made it "unknown".
OnlyUnnamedHang ==
  Quiet => \A i \in DOMAIN rows : rows[i].state = "sending" =>
    /\ rows[i].cid \in unnamed
    /\ \A mid \in DOMAIN table : table[mid].cid # rows[i].cid

\* At rest no message is still "sending" at all: one the server refused is marked as
\* failed, as the comment at the delivery state in MeetingRoomPage.qml has it.  The
\* code does not keep this: nothing on a live connection ends the wait for an answer
\* that came and does not name its message.
NothingHangs == Quiet => \A i \in DOMAIN rows : rows[i].state # "sending"

\* At rest after a recovery, once the latest page of the group chat was merged,
\* each message of that page is shown exactly once, as sent, by its own sender,
\* whether it came by answer, push or history and whatever was lost before.
PageIsShown ==
  (Quiet /\ fresh /\ cl.meeting) =>
    \A k \in DOMAIN GetMeetingGroupMessages(0) :
      LET m == GetMeetingGroupMessages(0)[k]
      IN  m.mid \in silently
          \/ /\ Cardinality({i \in DOMAIN rows : rows[i].cid = m.cid \/ rows[i].mid = m.mid}) = 1
             /\ rows[FindMessage(rows, m.cid)] = FromServer(m, m.mine)
=============================================================================
