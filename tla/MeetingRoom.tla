---------------------------- MODULE MeetingRoom ----------------------------
(***************************************************************************)
(* Who is in a meeting: the handlers of RealtimeServer/src/service/        *)
(* LogicSystem.cpp that join, resume, disconnect, expire, leave, start and *)
(* end, with the state they share: the Room objects of this process, the   *)
(* user index m_user_meetings, the Session objects, and the copy in Redis  *)
(* that survives the process.                                              *)
(*                                                                         *)
(* Commands of one meeting run one at a time (LogicDispatch), so a handler *)
(* is one action; join and resume are two, because between ReserveUser and *)
(* FinishJoin other meetings and other connections of the user go on.      *)
(*                                                                         *)
(* Every storage call may fail.  A write that is reported as failed was    *)
(* lost, or was carried out and its answer was lost; a read that fails     *)
(* looks like a missing value, as in RedisMgr.  MaxFaults bounds them.     *)
(*                                                                         *)
(* Deadlines are the time left to them: the local ones by the steady clock *)
(* (0 means passed), the ones in Redis by the wall clock, which may be set *)
(* (WallJump); they are kept down to -MaxJumps, below which no jump can    *)
(* bring them back.  presence:{uid} is only read by another server and is  *)
(* left out, but its writes may fail.  Message and media effects are left  *)
(* out, and so are ticket and generation: a resume presents the right ones *)
(* or changes nothing.                                                     *)
(***************************************************************************)
EXTENDS Integers, FiniteSets

CONSTANTS
    Users, Sessions, Meetings,
    Owner,            \* Owner[s]: the user logged in on session s
    Token,            \* Token[s]: the device login (auth_token) of session s
    Creator,          \* Creator[m]: creator_user_id
    MaxParticipants,  \* max_participants
    Grace,            \* kReconnectGraceSeconds, in ticks
    MaxFaults,        \* bound: storage calls that fail
    MaxJumps,         \* bound: corrections of the wall clock
    MaxTasks,         \* bound: expiry commands waiting per member
    None

ASSUME SetsAssumption == IsFiniteSet(Users) /\ IsFiniteSet(Sessions) /\ IsFiniteSet(Meetings)
ASSUME NoneAssumption == None \notin Users \cup Sessions \cup Meetings \cup Int
ASSUME FunctionsAssumption ==
    Owner \in [Sessions -> Users] /\ DOMAIN Token = Sessions /\ Creator \in [Meetings -> Users]
ASSUME BoundsAssumption ==
    /\ Grace \in Nat \ {0} /\ MaxParticipants \in Nat \ {0}
    /\ MaxFaults \in Nat /\ MaxJumps \in Nat /\ MaxTasks \in Nat \ {0}

VARIABLES
    conn,           \* conn[s]: the session is open, closed with its disconnect pending, or gone
    bound,          \* bound[s]: GetMeetingId, None for 0
    sessions,       \* sessions[m]: room.sessions
    members,        \* members[m][u]: room.members, None if absent
    running,        \* running[m]: the join or resume under way in the meeting's queue
    user_meetings,  \* m_user_meetings[u], None if absent
    expiries,       \* expiries[m][u]: ExpireMember commands waiting in the meeting's queue
    redis,          \* redis[m][u]: member set, member hash and deadline index
    status,         \* status[m]: meetings.status in MySQL
    faults, jumps   \* what is left of the bounds

localVars == <<conn, bound, sessions, members, running, user_meetings, expiries>>
vars == <<localVars, redis, status, faults, jumps>>

Membership == [session : Sessions \cup {None}, token : {Token[s] : s \in Sessions},
               deadline : {None} \cup 0 .. Grace]
WallDeadline == {None} \cup -MaxJumps .. Grace + MaxJumps
RedisMember == [in : BOOLEAN, room_state : {"", "active", "reconnecting"},
                deadline : WallDeadline, index : WallDeadline]
UserPresence == [meeting : Meetings, joining : 0 .. 1, joined : BOOLEAN]
JoinRequest == [session : Sessions, resuming : BOOLEAN]

ASSUME RecordsAssumption == None \notin Membership \cup UserPresence \cup JoinRequest

TypeOK ==
    /\ conn \in [Sessions -> {"open", "closed", "gone"}]
    /\ bound \in [Sessions -> Meetings \cup {None}]
    /\ sessions \in [Meetings -> SUBSET Sessions]
    /\ members \in [Meetings -> [Users -> Membership \cup {None}]]
    /\ running \in [Meetings -> JoinRequest \cup {None}]
    /\ user_meetings \in [Users -> UserPresence \cup {None}]
    /\ expiries \in [Meetings -> [Users -> 0 .. MaxTasks]]
    /\ redis \in [Meetings -> [Users -> RedisMember]]
    /\ status \in [Meetings -> {"scheduled", "in_progress", "ended"}]
    /\ faults \in 0 .. MaxFaults
    /\ jumps \in 0 .. MaxJumps

Absent == [in |-> FALSE, room_state |-> "", deadline |-> None, index |-> None]

Init ==
    /\ conn = [s \in Sessions |-> "gone"]
    /\ bound = [s \in Sessions |-> None]
    /\ sessions = [m \in Meetings |-> {}]
    /\ members = [m \in Meetings |-> [u \in Users |-> None]]
    /\ running = [m \in Meetings |-> None]
    /\ user_meetings = [u \in Users |-> None]
    /\ expiries = [m \in Meetings |-> [u \in Users |-> 0]]
    /\ redis = [m \in Meetings |-> [u \in Users |-> Absent]]
    /\ status = [m \in Meetings |-> "scheduled"]
    /\ faults = MaxFaults
    /\ jumps = MaxJumps

-----------------------------------------------------------------------------
(* Storage calls                                                           *)

(* A handler uses up n failures.                                           *)
Fail(n) == n <= faults /\ faults' = faults - n

Passed(d) == d # None /\ d <= 0

-----------------------------------------------------------------------------
(* Connections                                                             *)

Open(s) ==
    /\ conn[s] = "gone"
    /\ conn' = [conn EXCEPT ![s] = "open"]
    /\ UNCHANGED <<bound, sessions, members, running, user_meetings, expiries,
                   redis, status, faults, jumps>>

Close(s) ==
    /\ conn[s] = "open"
    /\ conn' = [conn EXCEPT ![s] = "closed"]
    /\ UNCHANGED <<bound, sessions, members, running, user_meetings, expiries,
                   redis, status, faults, jumps>>

(* The connection's own queue runs one command at a time.                  *)
ConnectionFree(s) == \A m \in Meetings : running[m] # None => running[m].session # s

(* The meeting's queue is free to start a command.                         *)
RoomFree(m) == running[m] = None

(* Dispatch refuses a command of a session that is not the member's.       *)
SpeaksForMember(s, m) ==
    members[m][Owner[s]] # None => members[m][Owner[s]].session = s

-----------------------------------------------------------------------------
(* Join and resume                                                         *)

(* Seeded fault: the meeting the user is already in is not compared.       *)
ReserveUser_AnyMeeting(u, m) ==
    user_meetings' = [user_meetings EXCEPT ![u] = [meeting |-> m, joining |-> 1, joined |-> FALSE]]

ReserveUser(u, m) ==
    /\ user_meetings[u] # None => user_meetings[u].meeting = m
    /\ user_meetings' = [user_meetings EXCEPT ![u] =
          [meeting |-> m, joining |-> IF @ = None THEN 1 ELSE @.joining + 1,
           joined |-> IF @ = None THEN FALSE ELSE @.joined]]

(* The join of u in m is over, with its session bound to the meeting b.    *)
FinishJoin(u, m, b) ==
    user_meetings' = [user_meetings EXCEPT ![u] =
        IF @ = None \/ @.meeting # m THEN @
        ELSE IF ~(@.joined \/ b = m) /\ @.joining = 1 THEN None
        ELSE [meeting |-> m, joining |-> @.joining - 1, joined |-> @.joined \/ b = m]]

ReleaseUser(u, m) ==
    user_meetings' = [user_meetings EXCEPT ![u] =
        IF @ # None /\ @.meeting = m THEN None ELSE @]

ReleaseRoomUsers(m) ==
    user_meetings' = [u \in Users |->
        IF user_meetings[u] # None /\ user_meetings[u].meeting = m THEN None ELSE user_meetings[u]]

(* Route and Dispatch up to the handler: a bound session joins nowhere and *)
(* resumes only where it is.                                               *)
BeginJoin(s, m, resuming) ==
    /\ conn[s] = "open"
    /\ ConnectionFree(s)
    /\ RoomFree(m)
    /\ bound[s] = None \/ (resuming /\ bound[s] = m)
    /\ ReserveUser(Owner[s], m)
    /\ running' = [running EXCEPT ![m] = [session |-> s, resuming |-> resuming]]
    /\ UNCHANGED <<conn, bound, sessions, members, expiries, redis, status, faults, jumps>>

ResumeAllowed(s, m) ==
    LET member == members[m][Owner[s]]
    IN  member # None /\ member.token = Token[s] /\ ~Passed(member.deadline)

Occupants(m) == {u \in Users : redis[m][u].in}

(* Seeded fault: the meeting's status is not checked.                      *)
Joinable_Always(m) == TRUE

Joinable(m) == status[m] # "ended"

(* The handler's checks, in the state its reads see.                       *)
JoinAdmitted(s, m, resuming) ==
    LET entry == redis[m][Owner[s]]
    IN  /\ Joinable(m)
        /\ resuming => ResumeAllowed(s, m) /\ entry.in
        /\ ~entry.in => Cardinality(Occupants(m)) < MaxParticipants
        /\ entry.in /\ ~resuming => /\ entry.room_state = "reconnecting"
                                    /\ entry.deadline # None
                                    /\ ~Passed(entry.deadline)

(* ActivateMember, one script.                                             *)
Activated(entry) == [entry EXCEPT !.room_state = "active", !.deadline = None, !.index = None]

Joined(entry) == IF entry.in THEN Activated(entry)
                 ELSE [entry EXCEPT !.in = TRUE, !.room_state = "active"]

(* Refused, by the checks or because a join came with a wrong password or  *)
(* from a user the private meeting does not know, or one of the reads      *)
(* failed: Redis is as before.                                             *)
JoinRefused(m) ==
    LET s == running[m].session
    IN  /\ \/ ~JoinAdmitted(s, m, running[m].resuming) /\ UNCHANGED faults
           \/ ~running[m].resuming /\ UNCHANGED faults
           \/ Fail(1)
        /\ FinishJoin(Owner[s], m, bound[s])
        /\ running' = [running EXCEPT ![m] = None]
        /\ UNCHANGED <<conn, bound, sessions, members, expiries, redis, status, jumps>>

(* A newcomer is taken out of the set again, except when SAdd itself or    *)
(* the last read failed.                                                   *)
Undoes(entry, call) == ~entry.in /\ call \in {"part", "presence", "state"}

(* What a join that failed in this call leaves; done tells whether the     *)
(* call took effect, undone whether the removal did.  "state" is HSet for  *)
(* a newcomer and ActivateMember for a member that was there before, who   *)
(* stays.                                                                  *)
AfterFailedJoin(entry, call, done, undone) ==
    LET activates == call = "members" \/ (call = "state" /\ done)
    IN  IF entry.in
        THEN IF activates THEN Activated(entry) ELSE entry
        ELSE [entry EXCEPT
                !.in = IF Undoes(entry, call) THEN ~undone ELSE call = "members" \/ done,
                !.room_state = IF activates THEN "active" ELSE @]

(* One of the calls after the checks failed; "part" may refuse without a   *)
(* failure.                                                                *)
JoinFailed(m) ==
    LET s == running[m].session
        u == Owner[s]
    IN  /\ JoinAdmitted(s, m, running[m].resuming)
        /\ \E call \in {"sadd", "part", "presence", "state", "members"}, done, undone \in BOOLEAN :
              /\ call = "part" => ~running[m].resuming
              /\ ~Undoes(redis[m][u], call) => undone
              /\ Fail((IF call = "part" /\ ~undone THEN 0 ELSE 1) + (IF undone THEN 0 ELSE 1))
              /\ redis' = [redis EXCEPT ![m][u] = AfterFailedJoin(@, call, done, undone)]
        /\ FinishJoin(u, m, bound[s])
        /\ running' = [running EXCEPT ![m] = None]
        /\ UNCHANGED <<conn, bound, sessions, members, expiries, status, jumps>>

(* All writes done: the previous session of the member is unbound and      *)
(* closed, and the new one is bound.                                       *)
Takeover(s, m) ==
    LET previous == IF members[m][Owner[s]] = None THEN None ELSE members[m][Owner[s]].session
    IN  /\ bound' = [x \in Sessions |-> IF x = s THEN m ELSE IF x = previous THEN None ELSE bound[x]]
        /\ conn' = [x \in Sessions |->
              IF x = previous /\ x # s /\ conn[x] = "open" THEN "closed" ELSE conn[x]]

JoinSucceeds(m) ==
    LET s == running[m].session
        u == Owner[s]
        resuming == running[m].resuming
        reconnected == redis[m][u].in
    IN  /\ JoinAdmitted(s, m, resuming)
        /\ redis' = [redis EXCEPT ![m][u] = Joined(@)]
        /\ Takeover(s, m)
        /\ members' = [members EXCEPT ![m][u] =
              [session |-> s, token |-> IF resuming THEN @.token ELSE Token[s], deadline |-> None]]
        /\ sessions' = [sessions EXCEPT ![m] =
              {x \in @ : ~(reconnected /\ Owner[x] = u)} \cup {s}]
        /\ FinishJoin(u, m, m)
        /\ running' = [running EXCEPT ![m] = None]
        /\ UNCHANGED <<expiries, status, faults, jumps>>

EndJoin(m) == running[m] # None /\ (JoinRefused(m) \/ JoinFailed(m) \/ JoinSucceeds(m))
-----------------------------------------------------------------------------
(* SessionDisconnectedHandler, the last command of a closed connection     *)

(* Seeded fault: a deadline before the local one.                          *)
Reconnecting_Early(entry) ==
    [entry EXCEPT !.room_state = "reconnecting", !.deadline = Grace - 1, !.index = Grace - 1]

(* The three reconnect facts, written in this order.                       *)
Reconnecting(entry) == [entry EXCEPT !.room_state = "reconnecting", !.deadline = Grace, !.index = Grace]

(* One of the writes failed (done tells whether it took effect) and the    *)
(* undo writes that are not in lost are carried out.                       *)
AfterFailedMark(entry, call, done, lost) ==
    LET wrote(c) == CASE c = call -> done
                      [] c = "room_state" -> TRUE
                      [] c = "deadline" -> call = "index"
                      [] OTHER -> FALSE
        value(c, old, new, cleared) == IF c \notin lost THEN cleared ELSE IF wrote(c) THEN new ELSE old
    IN  [entry EXCEPT !.room_state = value("room_state", @, "reconnecting", "active"),
                      !.deadline = value("deadline", @, Grace, None),
                      !.index = value("index", @, Grace, None)]

MarkReconnecting(m, u) ==
    \/ /\ redis' = [redis EXCEPT ![m][u] = Reconnecting(@)]
       /\ UNCHANGED faults
    \/ \E call \in {"room_state", "deadline", "index"}, done \in BOOLEAN,
          lost \in SUBSET {"room_state", "deadline", "index"} :
          /\ Fail(1 + Cardinality(lost))
          /\ redis' = [redis EXCEPT ![m][u] = AfterFailedMark(@, call, done, lost)]

(* SIsMember and HGet room_state; a failed SIsMember reads as "not in the  *)
(* set", a failed HGet as "not reconnecting".                              *)
UpdateRedisOnDisconnect(m, u) ==
    \/ /\ redis[m][u].in /\ redis[m][u].room_state # "reconnecting"
       /\ MarkReconnecting(m, u)
    \/ /\ ~redis[m][u].in \/ redis[m][u].room_state = "reconnecting"
       /\ UNCHANGED <<redis, faults>>
    \/ Fail(1) /\ UNCHANGED redis
    \/ /\ redis[m][u].in /\ redis[m][u].room_state = "reconnecting"
       /\ Fail(1)
       /\ redis' = [redis EXCEPT ![m][u] = Reconnecting(@)]

(* The weak_ptr of a session that is gone locks to nothing.                *)
Forget(s) ==
    /\ conn' = [conn EXCEPT ![s] = "gone"]
    /\ bound' = [bound EXCEPT ![s] = None]
    /\ sessions' = [m \in Meetings |-> sessions[m] \ {s}]

Unlinked(member, s) ==
    IF member # None /\ member.session = s THEN [member EXCEPT !.session = None] ELSE member

DisconnectUnbound(s) ==
    /\ conn[s] = "closed"
    /\ ConnectionFree(s)
    /\ bound[s] = None
    /\ Forget(s)
    /\ members' = [m \in Meetings |-> [u \in Users |-> Unlinked(members[m][u], s)]]
    /\ UNCHANGED <<running, user_meetings, expiries, redis, status, faults, jumps>>

(* The member keeps its place and gets a local deadline.                   *)
Disconnect(s) ==
    LET m == bound[s]
        u == Owner[s]
    IN  /\ conn[s] = "closed"
        /\ ConnectionFree(s)
        /\ m # None
        /\ RoomFree(m)
        /\ Forget(s)
        /\ members' = [members EXCEPT ![m][u] =
              IF sessions[m] # {} /\ @ # None /\ @.session = s
              THEN [Unlinked(@, s) EXCEPT !.deadline = Grace] ELSE Unlinked(@, s)]
        /\ IF s \in sessions[m] /\ ~\E x \in sessions[m] \ {s} : Owner[x] = u
           THEN UpdateRedisOnDisconnect(m, u)
           ELSE UNCHANGED <<redis, faults>>
        /\ UNCHANGED <<running, user_meetings, expiries, status, jumps>>

-----------------------------------------------------------------------------
(* The timer                                                               *)

(* ReconnectTimeoutCheckHandler: an expiry command for every member whose  *)
(* index entry has passed; a full queue refuses some of them.              *)
Scan(refused) ==
    LET taken(m, u) == m \notin refused /\ Passed(redis[m][u].index) /\ expiries[m][u] < MaxTasks
    IN  /\ \E m \in Meetings, u \in Users : taken(m, u)
        /\ expiries' = [m \in Meetings |-> [u \in Users |->
              IF taken(m, u) THEN expiries[m][u] + 1 ELSE expiries[m][u]]]
        /\ UNCHANGED <<conn, bound, sessions, members, running, user_meetings,
                       redis, status, faults, jumps>>

(* Seeded fault: only the deadline in Redis is looked at.                  *)
StillInGrace_Never(m, u) == FALSE

(* The local check of ExpireMemberHandler: the member's steady deadline    *)
(* has not passed.                                                         *)
StillInGrace(m, u) ==
    members[m][u] # None /\ members[m][u].deadline # None /\ members[m][u].deadline > 0

(* Seeded fault: the state of the member is not looked at.                 *)
IndexStale_WhenPassed(entry) == entry.deadline = None \/ Passed(entry.deadline)

(* The entry of the index has nothing behind it: no deadline, or the       *)
(* member is not reconnecting any more.                                    *)
IndexStale(entry) ==
    entry.deadline = None \/ (Passed(entry.deadline) /\ entry.room_state # "reconnecting")

(* ExpireMemberHandler removes nobody.  A stale index entry is dropped,    *)
(* and so is any entry when a read fails, which looks the same.            *)
ExpireNothing(m, u) ==
    LET entry == redis[m][u]
        dropIndex == redis' = [redis EXCEPT ![m][u].index = None]
    IN  /\ \/ StillInGrace(m, u) /\ UNCHANGED <<redis, faults>>
           \/ /\ ~StillInGrace(m, u)
              /\ \/ entry.deadline # None /\ ~Passed(entry.deadline) /\ UNCHANGED <<redis, faults>>
                 \/ IndexStale(entry) /\ dropIndex /\ UNCHANGED faults
                 \/ IndexStale(entry) /\ UNCHANGED redis /\ Fail(1)
                 \/ dropIndex /\ Fail(1)
        /\ UNCHANGED <<members, user_meetings>>

(* SRem or ZRem failed: the index entry that is left makes the next scan   *)
(* try again.                                                              *)
ExpireFailed(m, u) ==
    /\ Fail(1)
    /\ \/ redis' = [redis EXCEPT ![m][u].in = FALSE]
       \/ redis' = [redis EXCEPT ![m][u].in = FALSE, ![m][u].index = None]
       \/ UNCHANGED redis
    /\ UNCHANGED <<members, user_meetings>>

ExpireRemoves(m, u) ==
    /\ \/ redis' = [redis EXCEPT ![m][u] = Absent] /\ UNCHANGED faults
       \/ redis' = [redis EXCEPT ![m][u] = [@ EXCEPT !.in = FALSE, !.index = None]] /\ Fail(1)
    /\ members' = [members EXCEPT ![m][u] = None]
    /\ ReleaseUser(u, m)

ExpireMember(m, u) ==
    /\ expiries[m][u] > 0
    /\ RoomFree(m)
    /\ expiries' = [expiries EXCEPT ![m][u] = @ - 1]
    /\ \/ ExpireNothing(m, u)
       \/ /\ ~StillInGrace(m, u)
          /\ Passed(redis[m][u].deadline)
          /\ redis[m][u].room_state = "reconnecting"
          /\ ExpireFailed(m, u) \/ ExpireRemoves(m, u)
    /\ UNCHANGED <<conn, bound, sessions, running, status, jumps>>

-----------------------------------------------------------------------------
(* Leave, start, end                                                       *)

CanCommand(s, m) ==
    /\ conn[s] = "open"
    /\ ConnectionFree(s)
    /\ RoomFree(m)
    /\ bound[s] \in {None, m}
    /\ SpeaksForMember(s, m)

(* LeaveMeetingHandler by the bound session (any other changes nothing).   *)
(* A failed call leaves what was done in Redis and changes nothing here.   *)
LeaveFailed(s, m) ==
    LET u == Owner[s]
    IN  /\ CanCommand(s, m) /\ bound[s] = m
        /\ Fail(1)
        /\ \E done \in {"nothing", "srem", "del", "zrem"} :
              redis' = [redis EXCEPT ![m][u] =
                  [in |-> @.in /\ done = "nothing",
                   room_state |-> IF done \in {"del", "zrem"} THEN "" ELSE @.room_state,
                   deadline |-> IF done \in {"del", "zrem"} THEN None ELSE @.deadline,
                   index |-> IF done = "zrem" THEN None ELSE @.index]]
        /\ UNCHANGED <<localVars, status, jumps>>

Leave(s, m) ==
    LET u == Owner[s]
    IN  /\ CanCommand(s, m) /\ bound[s] = m
        /\ redis' = [redis EXCEPT ![m][u] = Absent]
        /\ sessions' = [sessions EXCEPT ![m] = @ \ {s}]
        /\ members' = [members EXCEPT ![m][u] = None]
        /\ ReleaseUser(u, m)
        /\ bound' = [bound EXCEPT ![s] = None]
        /\ UNCHANGED <<conn, running, expiries, status, faults, jumps>>

(* StartMeetingHandler by the creator, who need not be in the meeting; a   *)
(* reported failure may have been carried out.                             *)
Start(s, m) ==
    /\ CanCommand(s, m)
    /\ Owner[s] = Creator[m]
    /\ status[m] = "scheduled"
    /\ UNCHANGED faults \/ Fail(1)
    /\ status' = [status EXCEPT ![m] = "in_progress"]
    /\ UNCHANGED <<localVars, redis, jumps>>

CanEnd(s, m) == CanCommand(s, m) /\ Owner[s] = Creator[m] /\ status[m] = "in_progress"

(* EndMeeting was carried out but reported as failed.                      *)
EndFailed(s, m) ==
    /\ CanEnd(s, m)
    /\ Fail(1)
    /\ status' = [status EXCEPT ![m] = "ended"]
    /\ UNCHANGED <<localVars, redis, jumps>>

(* The cleanup in Redis goes on after a failure; the user whose Del (hash) *)
(* or ZRem was lost is kept, the set survives if SMembers or the last Del  *)
(* was lost.                                                               *)
CleanedRoom(m, hash, index, set) ==
    [u \in Users |->
        IF ~redis[m][u].in THEN redis[m][u]
        ELSE [in |-> set,
              room_state |-> IF u \in hash THEN redis[m][u].room_state ELSE "",
              deadline |-> IF u \in hash THEN redis[m][u].deadline ELSE None,
              index |-> IF u \in index THEN redis[m][u].index ELSE None]]

End(s, m) ==
    /\ CanEnd(s, m)
    /\ status' = [status EXCEPT ![m] = "ended"]
    /\ \/ redis' = redis /\ Fail(1)
       \/ \E hash, index \in SUBSET Occupants(m), set \in BOOLEAN :
             /\ Fail(Cardinality(hash) + Cardinality(index) + IF set THEN 1 ELSE 0)
             /\ redis' = [redis EXCEPT ![m] = CleanedRoom(m, hash, index, set)]
    /\ members' = [members EXCEPT ![m] = [u \in Users |-> None]]
    /\ ReleaseRoomUsers(m)
    /\ bound' = [x \in Sessions |-> IF x \in sessions[m] THEN None ELSE bound[x]]
    /\ sessions' = [sessions EXCEPT ![m] = {}]
    /\ UNCHANGED <<conn, running, expiries, jumps>>

-----------------------------------------------------------------------------
(* Clocks and restarts                                                     *)

Later(d, n, least) == IF d = None THEN None ELSE IF d - n < least THEN least ELSE d - n

WallLater(n) ==
    [m \in Meetings |-> [u \in Users |->
        [redis[m][u] EXCEPT !.deadline = Later(@, n, -MaxJumps), !.index = Later(@, n, -MaxJumps)]]]

(* One second for both clocks.                                             *)
Tick ==
    /\ members' = [m \in Meetings |-> [u \in Users |->
          IF members[m][u] = None THEN None
          ELSE [members[m][u] EXCEPT !.deadline = Later(@, 1, 0)]]]
    /\ redis' = WallLater(1)
    /\ UNCHANGED <<conn, bound, sessions, running, user_meetings, expiries, status, faults, jumps>>

(* The wall clock is set forward or back.                                  *)
WallJump ==
    /\ jumps > 0
    /\ jumps' = jumps - 1
    /\ \E n \in {-1, 1} : redis' = WallLater(n)
    /\ UNCHANGED <<localVars, status, faults>>

(* Shutdown closes every connection and drains the queues before it ends   *)
(* the process; the next process starts with Redis as it is.               *)
Restart ==
    /\ \A s \in Sessions : conn[s] = "gone"
    /\ \A m \in Meetings : RoomFree(m) /\ \A u \in Users : expiries[m][u] = 0
    /\ members' = [m \in Meetings |-> [u \in Users |-> None]]
    /\ user_meetings' = [u \in Users |-> None]
    /\ UNCHANGED <<conn, bound, sessions, running, expiries, redis, status, faults, jumps>>

Next ==
    \/ \E s \in Sessions : Open(s) \/ Close(s) \/ DisconnectUnbound(s) \/ Disconnect(s)
    \/ \E s \in Sessions, m \in Meetings :
          \/ \E resuming \in BOOLEAN : BeginJoin(s, m, resuming)
          \/ Leave(s, m) \/ LeaveFailed(s, m) \/ Start(s, m) \/ EndFailed(s, m) \/ End(s, m)
    \/ \E m \in Meetings : EndJoin(m)
    \/ \E m \in Meetings, u \in Users : ExpireMember(m, u)
    \/ \E refused \in SUBSET Meetings : Scan(refused)
    \/ Tick
    \/ WallJump
    \/ Restart

Spec == Init /\ [][Next]_vars

(* Time passes, the timer ticks every second and its commands are not      *)
(* refused for ever; a meeting's queue is first in, first out, so an       *)
(* expiry command gets its turn however many joins arrive; a join that has *)
(* started ends, and a closed connection's disconnect is handled.          *)
Fairness ==
    /\ WF_vars(Tick)
    /\ WF_vars(Scan({}))
    /\ \A m \in Meetings : WF_vars(EndJoin(m)) /\ \A u \in Users : SF_vars(ExpireMember(m, u))
    /\ \A s \in Sessions : SF_vars(Disconnect(s))

FairSpec == Spec /\ Fairness

-----------------------------------------------------------------------------
(* Properties                                                              *)

InGrace(m, u) == members[m][u] # None /\ members[m][u].deadline \in 1 .. Grace

Connected(m, u) == \E s \in Sessions : Owner[s] = u /\ bound[s] = m

(* A user is never in meetings through two connections, whichever join,    *)
(* take over and disconnect at the same time and whatever storage call     *)
(* fails: "the same user must not attend on a second device".              *)
OneSessionPerUser ==
    \A s, t \in Sessions : bound[s] # None /\ bound[t] # None /\ Owner[s] = Owner[t] => s = t

(* A session bound to a meeting is the session of its user's membership    *)
(* and receives the broadcasts, so a late disconnect or expiry of an older *)
(* connection has not taken its place away.                                *)
BoundSessionIsMember ==
    \A s \in Sessions : bound[s] # None =>
        LET member == members[bound[s]][Owner[s]]
        IN  /\ member # None
            /\ member.session = s /\ member.deadline = None
            /\ s \in sessions[bound[s]]

(* What the index says of a user agrees with the rooms.                   *)
UserIndexOf(u) ==
    /\ \A m \in Meetings : members[m][u] # None =>
          user_meetings[u] # None /\ user_meetings[u].meeting = m /\ user_meetings[u].joined
    /\ user_meetings[u] # None =>
          LET m == user_meetings[u].meeting
          IN  /\ user_meetings[u].joined <=> members[m][u] # None
              /\ user_meetings[u].joining = 1 <=> running[m] # None /\ Owner[running[m].session] = u
              /\ user_meetings[u].joined \/ user_meetings[u].joining = 1

(* m_user_meetings, kept under its own lock, agrees with the rooms: a user *)
(* is a member of at most one meeting, and is held back from joining       *)
(* elsewhere exactly while a member or joining.                            *)
UserIndexAgrees == \A u \in Users : UserIndexOf(u)

(* The three records of who is in a meeting - a session's own, the room's  *)
(* members and the index of users - agree in every state.                  *)
MembershipAgrees == TypeOK /\ OneSessionPerUser /\ BoundSessionIsMember /\ UserIndexAgrees

(* The whole grace period is kept: while a disconnected member's local     *)
(* deadline runs, nothing but the end of the meeting takes the member out  *)
(* of the meeting, be it a stale expiry command or a wall clock set ahead. *)
GraceKept ==
    [][\A m \in Meetings, u \in Users :
          /\ InGrace(m, u)
          /\ redis[m][u].in /\ ~redis'[m][u].in
          => status[m] = "in_progress" /\ status'[m] = "ended"]_vars

(* A meeting that has ended keeps nobody: no join that was under way, no   *)
(* reconnecting member and no session survives the end.                    *)
EndedRoomEmpty ==
    \A m \in Meetings : status[m] = "ended" =>
        /\ sessions[m] = {} /\ Occupants(m) = {}
        /\ \A u \in Users : members[m][u] = None
        /\ \A s \in Sessions : bound[s] # m

(* "The user can still join again within kReconnectGraceSeconds": JOIN     *)
(* from any device is admitted while the grace period runs.                *)
RejoinInGrace ==
    \A m \in Meetings, s \in Sessions : InGrace(m, Owner[s]) => JoinAdmitted(s, m, FALSE)

(* A member is not left reconnecting for ever: the timer's index still     *)
(* names it.                                                               *)
NotStuckReconnecting ==
    \A m \in Meetings : \A u \in Occupants(m) :
        ~Connected(m, u) /\ redis[m][u].room_state = "reconnecting" => redis[m][u].index # None

(* A member that lost its connection comes back or is taken out, also when *)
(* the process is restarted in between.                                    *)
OfflineOccupantResolved ==
    \A m \in Meetings, u \in Users :
        redis[m][u].in /\ ~Connected(m, u) ~> ~redis[m][u].in \/ Connected(m, u)
=============================================================================
