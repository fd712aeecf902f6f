------------------------- MODULE MeetingRoom_proofs -------------------------
(***************************************************************************)
(* Proofs about MeetingRoom, for any users, sessions, meetings and bounds: *)
(* whatever storage calls fail and however the wall clock is set, the      *)
(* records of who is in a meeting agree and the grace period is kept; with *)
(* storage that does not fail, an ended meeting is empty and a             *)
(* disconnected member can rejoin.                                         *)
(***************************************************************************)
EXTENDS MeetingRoom, FiniteSetTheorems, TLAPS

(* A join or resume under way holds its user's entry in m_user_meetings,   *)
(* and its session is not gone: its connection's queue is busy.            *)
JoinOwnsEntry ==
    \A m \in Meetings : running[m] # None =>
        /\ conn[running[m].session] # "gone"
        /\ user_meetings[Owner[running[m].session]] # None
        /\ user_meetings[Owner[running[m].session]].meeting = m

(* A session that is gone is in no meeting, so a restart forgets nobody.   *)
GoneUnbound == \A s \in Sessions : conn[s] = "gone" => bound[s] = None

(* While a session is bound, Redis does not take its user for reconnecting,*)
(* so no expiry command removes it.                                        *)
BoundNotReconnecting ==
    \A s \in Sessions : bound[s] # None => redis[bound[s]][Owner[s]].room_state # "reconnecting"

(* Corrections of the wall clock add at most what was used of MaxJumps.    *)
AtMost(d, j) == d # None => d <= Grace + (MaxJumps - j)

InWall(e, j) == AtMost(e.deadline, j) /\ AtMost(e.index, j)

WallBounded == \A m \in Meetings, u \in Users : InWall(redis[m][u], jumps)

RoomInv ==
    /\ TypeOK /\ BoundSessionIsMember /\ UserIndexAgrees
    /\ JoinOwnsEntry /\ GoneUnbound /\ BoundNotReconnecting /\ WallBounded

-----------------------------------------------------------------------------
(* A number of failed calls taken off the bound stays in it.               *)
LEMMA FailType ==
    ASSUME faults \in 0 .. MaxFaults, NEW n \in Nat, Fail(n)
    PROVE  faults' \in 0 .. MaxFaults
  BY BoundsAssumption DEF Fail

(* Sets of users are counted by natural numbers.                           *)
LEMMA UserCount == ASSUME NEW S \in SUBSET Users PROVE Cardinality(S) \in Nat
  BY SetsAssumption, FS_Subset, FS_CardinalityType

(* So are the writes of a reconnect mark that were lost.                   *)
LEMMA MarksCount ==
    ASSUME NEW lost \in SUBSET {"room_state", "deadline", "index"} PROVE Cardinality(lost) \in Nat
<1>1. IsFiniteSet({} \cup {"room_state"})
  BY FS_EmptySet, FS_AddElement
<1>2. IsFiniteSet(({} \cup {"room_state"}) \cup {"deadline"})
  BY <1>1, FS_AddElement
<1>3. IsFiniteSet((({} \cup {"room_state"}) \cup {"deadline"}) \cup {"index"})
  BY <1>2, FS_AddElement
<1>4. {"room_state", "deadline", "index"} = (({} \cup {"room_state"}) \cup {"deadline"}) \cup {"index"}
  OBVIOUS
<1>5. IsFiniteSet({"room_state", "deadline", "index"})
  BY <1>3, <1>4
<1>6. IsFiniteSet(lost)
  BY <1>5, FS_Subset
<1> QED
  BY <1>6, FS_CardinalityType

(* A user has one session: the member's, in the one meeting of the index.  *)
LEMMA OneSession ==
    ASSUME TypeOK, BoundSessionIsMember, UserIndexAgrees PROVE OneSessionPerUser
<1> SUFFICES ASSUME NEW s \in Sessions, NEW t \in Sessions,
                    bound[s] # None, bound[t] # None, Owner[s] = Owner[t]
             PROVE  s = t
  BY DEF OneSessionPerUser
<1>1. bound[s] \in Meetings /\ bound[t] \in Meetings /\ Owner[s] \in Users
  BY FunctionsAssumption DEF TypeOK
<1>2. members[bound[s]][Owner[s]] # None /\ members[bound[s]][Owner[s]].session = s
  BY DEF BoundSessionIsMember
<1>3. members[bound[t]][Owner[s]] # None /\ members[bound[t]][Owner[s]].session = t
  BY DEF BoundSessionIsMember
<1>4. bound[s] = bound[t]
  BY <1>1, <1>2, <1>3 DEF UserIndexAgrees, UserIndexOf
<1> QED
  BY <1>2, <1>3, <1>4

-----------------------------------------------------------------------------
(* Records of the right type.                                              *)

LEMMA NoneIsNot ==
    /\ None \notin Users /\ None \notin Sessions /\ None \notin Meetings /\ None \notin Int
    /\ None \notin Membership /\ None \notin UserPresence /\ None \notin JoinRequest
  BY NoneAssumption, RecordsAssumption

LEMMA PresenceFields ==
    ASSUME NEW e \in UserPresence
    PROVE  e.meeting \in Meetings /\ (e.joining = 0 \/ e.joining = 1) /\ e.joined \in BOOLEAN
  BY DEF UserPresence

LEMMA PresenceMade ==
    ASSUME NEW m \in Meetings, NEW j \in {0, 1}, NEW b \in BOOLEAN, NEW e,
           e = [meeting |-> m, joining |-> j, joined |-> b]
    PROVE  /\ e \in UserPresence /\ e # None
           /\ e.meeting = m /\ e.joining = j /\ e.joined = b
  BY NoneIsNot DEF UserPresence

LEMMA RequestFields ==
    ASSUME NEW r \in JoinRequest PROVE r.session \in Sessions /\ r.resuming \in BOOLEAN
  BY DEF JoinRequest

LEMMA RequestMade ==
    ASSUME NEW s \in Sessions, NEW b \in BOOLEAN, NEW r, r = [session |-> s, resuming |-> b]
    PROVE  r \in JoinRequest /\ r # None /\ r.session = s /\ r.resuming = b
  BY NoneIsNot DEF JoinRequest

LEMMA MemberFields ==
    ASSUME NEW e \in Membership
    PROVE  /\ e.session \in Sessions \cup {None} /\ \E x \in Sessions : e.token = Token[x]
           /\ e.deadline \in {None} \cup 0 .. Grace
  BY DEF Membership

LEMMA MemberMade ==
    ASSUME NEW s \in Sessions \cup {None}, NEW x \in Sessions, NEW d \in {None} \cup 0 .. Grace,
           NEW e, e = [session |-> s, token |-> Token[x], deadline |-> d]
    PROVE  /\ e \in Membership /\ e # None
           /\ e.session = s /\ e.token = Token[x] /\ e.deadline = d
  BY NoneIsNot DEF Membership

LEMMA MemberExcept ==
    ASSUME NEW e \in Membership, NEW s \in Sessions \cup {None}, NEW d \in {None} \cup 0 .. Grace
    PROVE  /\ [e EXCEPT !.session = s] \in Membership
           /\ [e EXCEPT !.session = s].session = s
           /\ [e EXCEPT !.session = s].deadline = e.deadline
           /\ [e EXCEPT !.deadline = d] \in Membership
           /\ [e EXCEPT !.deadline = d].session = e.session
           /\ [e EXCEPT !.deadline = d].deadline = d
  BY DEF Membership

(* Open, Close: only the state of the connection changes.                  *)
LEMMA OpenStep == ASSUME RoomInv, NEW s \in Sessions, Open(s) PROVE RoomInv'
<1>1. TypeOK'
  BY DEF RoomInv, TypeOK, Open
<1>2. BoundSessionIsMember' /\ UserIndexAgrees' /\ JoinOwnsEntry' /\ GoneUnbound'
  BY DEF RoomInv, TypeOK, Open, BoundSessionIsMember, UserIndexAgrees, UserIndexOf, JoinOwnsEntry,
     GoneUnbound, JoinRequest
<1>3. BoundNotReconnecting' /\ WallBounded'
  BY DEF RoomInv, Open, BoundNotReconnecting, WallBounded
<1> QED
  BY <1>1, <1>2, <1>3 DEF RoomInv

LEMMA CloseStep == ASSUME RoomInv, NEW s \in Sessions, Close(s) PROVE RoomInv'
<1>1. TypeOK'
  BY DEF RoomInv, TypeOK, Close
<1>2. BoundSessionIsMember' /\ UserIndexAgrees' /\ JoinOwnsEntry' /\ GoneUnbound'
  BY DEF RoomInv, TypeOK, Close, BoundSessionIsMember, UserIndexAgrees, UserIndexOf, JoinOwnsEntry,
     GoneUnbound, JoinRequest
<1>3. BoundNotReconnecting' /\ WallBounded'
  BY DEF RoomInv, Close, BoundNotReconnecting, WallBounded
<1> QED
  BY <1>1, <1>2, <1>3 DEF RoomInv

LEMMA BeginJoinStep ==
    ASSUME RoomInv, NEW s \in Sessions, NEW m \in Meetings, NEW resuming \in BOOLEAN,
           BeginJoin(s, m, resuming)
    PROVE  RoomInv'
<1> DEFINE u == Owner[s]
           entry == user_meetings'[u]
<1> USE NoneIsNot
<1>1. u \in Users /\ running[m] = None
      /\ running' = [running EXCEPT ![m] = [session |-> s, resuming |-> resuming]]
      /\ UNCHANGED <<conn, bound, sessions, members, expiries, redis, status, faults, jumps>>
  BY FunctionsAssumption DEF BeginJoin, RoomFree
<1>2. ASSUME user_meetings[u] # None
      PROVE  /\ user_meetings[u] \in UserPresence /\ user_meetings[u].meeting = m
             /\ user_meetings[u].joining = 0
  <2>1. user_meetings[u] \in UserPresence
    BY <1>1, <1>2 DEF RoomInv, TypeOK
  <2>2. user_meetings[u].meeting = m
    BY <1>2 DEF BeginJoin, ReserveUser
  <2>3. user_meetings[u].joining # 1
    BY <1>1, <1>2, <2>2 DEF RoomInv, UserIndexAgrees, UserIndexOf
  <2> QED
    BY <2>1, <2>2, <2>3, PresenceFields
<1> DEFINE b == IF user_meetings[u] = None THEN FALSE ELSE user_meetings[u].joined
<1>3. /\ b \in BOOLEAN
      /\ user_meetings' = [user_meetings EXCEPT ![u] = [meeting |-> m, joining |-> 1, joined |-> b]]
  <2>1. CASE user_meetings[u] = None
    BY <1>1, <2>1 DEF BeginJoin, ReserveUser
  <2>2. CASE user_meetings[u] # None
    <3>1. b \in BOOLEAN /\ b = user_meetings[u].joined
      BY <1>2, <2>2, PresenceFields
    <3>2. user_meetings[u].joining + 1 = 1
      BY <1>2, <2>2
    <3> QED
      BY <2>2, <3>1, <3>2 DEF BeginJoin, ReserveUser
  <2> QED
    BY <2>1, <2>2
<1> HIDE DEF b
<1>4. /\ entry \in UserPresence /\ entry # None /\ entry.meeting = m /\ entry.joining = 1
      /\ entry.joined = b
      /\ user_meetings' = [user_meetings EXCEPT ![u] = entry]
  <2>1. entry = [meeting |-> m, joining |-> 1, joined |-> b]
    BY <1>1, <1>3 DEF RoomInv, TypeOK
  <2> QED
    BY <2>1, <1>3, PresenceMade
<1>5. running'[m] \in JoinRequest /\ running'[m] # None /\ running'[m].session = s
  BY <1>1, RequestMade DEF RoomInv, TypeOK
<1> HIDE DEF entry
<1>6. TypeOK'
  BY <1>1, <1>4, <1>5 DEF RoomInv, TypeOK
<1>7. BoundSessionIsMember' /\ GoneUnbound'
  BY <1>1 DEF RoomInv, BoundSessionIsMember, GoneUnbound
<1>8. UserIndexAgrees'
  <2> SUFFICES ASSUME NEW v \in Users PROVE UserIndexOf(v)'
    BY DEF UserIndexAgrees
  <2>1. UserIndexOf(v)
    BY DEF RoomInv, UserIndexAgrees
  <2>2. CASE v = u
    BY <1>1, <1>2, <1>4, <1>5, <2>1, <2>2 DEF RoomInv, TypeOK, UserIndexOf, b
  <2>3. CASE v # u
    BY <1>1, <1>4, <1>5, <2>1, <2>3 DEF RoomInv, TypeOK, UserIndexOf
  <2> QED
    BY <2>2, <2>3
<1>9. JoinOwnsEntry'
  BY <1>1, <1>2, <1>4, <1>5, RequestFields, FunctionsAssumption
     DEF RoomInv, TypeOK, BeginJoin, JoinOwnsEntry, UserIndexAgrees, UserIndexOf
<1>10. BoundNotReconnecting' /\ WallBounded'
  BY <1>1 DEF RoomInv, BoundNotReconnecting, WallBounded
<1> QED
  BY <1>6, <1>7, <1>8, <1>9, <1>10 DEF RoomInv

-----------------------------------------------------------------------------
(* A step binds at most sessions of u to m, and then only to the entry e.  *)
BindsOnly(m, u, e) ==
    \A s \in Sessions :
        /\ bound'[s] = None \/ bound'[s] = bound[s] \/ (bound'[s] = m /\ Owner[s] = u)
        /\ bound'[s] = m /\ Owner[s] = u => e.room_state # "reconnecting"

(* What is known of Redis.                                                 *)
RedisAgrees ==
    redis \in [Meetings -> [Users -> RedisMember]] /\ BoundNotReconnecting /\ WallBounded

(* One entry of Redis changes: what the rooms know of Redis still holds.   *)
LEMMA RedisWrite ==
    ASSUME RoomInv, NEW m \in Meetings, NEW u \in Users, NEW e \in RedisMember,
           InWall(e, jumps), jumps' = jumps, BindsOnly(m, u, e),
           redis' = [redis EXCEPT ![m][u] = e]
    PROVE  RedisAgrees'
<1>1. /\ redis' \in [Meetings -> [Users -> RedisMember]]
      /\ redis'[m][u] = e
      /\ \A n \in Meetings, v \in Users : n # m \/ v # u => redis'[n][v] = redis[n][v]
  BY DEF RoomInv, TypeOK
<1>2. WallBounded'
  BY <1>1 DEF RoomInv, WallBounded
<1>3. BoundNotReconnecting'
  <2> SUFFICES ASSUME NEW s \in Sessions, bound'[s] # None
               PROVE  redis'[bound'[s]][Owner[s]].room_state # "reconnecting"
    BY DEF BoundNotReconnecting
  <2>1. CASE bound'[s] = m /\ Owner[s] = u
    BY <1>1, <2>1 DEF BindsOnly
  <2>2. CASE ~(bound'[s] = m /\ Owner[s] = u)
    <3>1. bound'[s] = bound[s] /\ bound[s] \in Meetings /\ Owner[s] \in Users
      BY <2>2, FunctionsAssumption DEF RoomInv, TypeOK, BindsOnly
    <3> QED
      BY <1>1, <2>2, <3>1 DEF RoomInv, BoundNotReconnecting
  <2> QED
    BY <2>1, <2>2
<1> QED
  BY <1>1, <1>2, <1>3 DEF RedisAgrees

(* What the end of the join of u in m leaves in m_user_meetings: u stays   *)
(* in the index if already a member or bound to the meeting.               *)
JoinOver(u, m, b) ==
    /\ user_meetings' \in [Users -> UserPresence \cup {None}]
    /\ \A v \in Users : v # u => user_meetings'[v] = user_meetings[v]
    /\ user_meetings[u] # None /\ user_meetings[u].meeting = m
    /\ (members[m][u] # None \/ b = m) =>
          /\ user_meetings'[u] # None /\ user_meetings'[u].meeting = m
          /\ user_meetings'[u].joining = 0 /\ user_meetings'[u].joined
    /\ ~(members[m][u] # None \/ b = m) => user_meetings'[u] = None

LEMMA FinishJoinFacts ==
    ASSUME RoomInv, NEW m \in Meetings, running[m] # None, NEW s, s = running[m].session,
           NEW u, u = Owner[s], NEW b, FinishJoin(u, m, b)
    PROVE  JoinOver(u, m, b)
<1> DEFINE old == user_meetings[u]
           new == user_meetings'[u]
           value == IF old = None \/ old.meeting # m THEN old
                    ELSE IF ~(old.joined \/ b = m) /\ old.joining = 1 THEN None
                    ELSE [meeting |-> m, joining |-> old.joining - 1, joined |-> old.joined \/ (b = m)]
<1>1. running[m] \in JoinRequest /\ s \in Sessions /\ u \in Users
  BY RequestFields, FunctionsAssumption DEF RoomInv, TypeOK
<1>2. old # None /\ old.meeting = m /\ old \in UserPresence
  BY <1>1 DEF RoomInv, JoinOwnsEntry, TypeOK
<1>3. old.joining = 1 /\ (old.joined <=> members[m][u] # None) /\ old.joined \in BOOLEAN
  BY <1>1, <1>2, PresenceFields DEF RoomInv, UserIndexAgrees, UserIndexOf
<1>4. user_meetings' = [user_meetings EXCEPT ![u] = value]
  BY DEF FinishJoin
<1>5. new = value /\ user_meetings' = [user_meetings EXCEPT ![u] = new]
      /\ \A v \in Users : v # u => user_meetings'[v] = user_meetings[v]
  BY <1>1, <1>4 DEF RoomInv, TypeOK
<1>6. ASSUME members[m][u] # None \/ b = m
      PROVE  /\ new \in UserPresence /\ new # None /\ new.meeting = m /\ new.joining = 0
             /\ new.joined = TRUE
  <2>0. old.joined \/ b = m
    BY <1>3, <1>6
  <2>1. value = [meeting |-> m, joining |-> old.joining - 1, joined |-> old.joined \/ (b = m)]
    BY <1>2, <2>0
  <2>2. old.joining - 1 = 0 /\ (old.joined \/ b = m) = TRUE
    BY <1>3, <2>0
  <2>3. new = [meeting |-> m, joining |-> 0, joined |-> TRUE]
    BY <1>5, <2>1, <2>2
  <2>4. new \in UserPresence /\ new.meeting = m /\ new.joining = 0 /\ new.joined = TRUE
    BY <2>3 DEF UserPresence
  <2> QED
    BY <2>4, NoneIsNot
<1>7. ASSUME ~(members[m][u] # None \/ b = m) PROVE new = None
  <2>1. ~(old.joined \/ b = m)
    BY <1>3, <1>7
  <2> QED
    BY <1>2, <1>3, <1>5, <2>1
<1>8. user_meetings' \in [Users -> UserPresence \cup {None}]
  BY <1>1, <1>5, <1>6, <1>7 DEF RoomInv, TypeOK
<1>9. ASSUME members[m][u] # None \/ b = m PROVE new.joined
  BY <1>6, <1>9
<1> QED
  BY <1>1, <1>2, <1>5, <1>6, <1>7, <1>8, <1>9 DEF JoinOver

(* The end of a join that changed nothing in the rooms.                    *)
LEMMA JoinGivesUp ==
    ASSUME RoomInv, NEW m \in Meetings, running[m] # None, NEW s, s = running[m].session,
           NEW u, u = Owner[s], FinishJoin(u, m, bound[s]),
           running' = [running EXCEPT ![m] = None],
           UNCHANGED <<conn, bound, sessions, members, expiries, status, jumps>>
    PROVE  /\ user_meetings' \in [Users -> UserPresence \cup {None}]
           /\ running' \in [Meetings -> JoinRequest \cup {None}]
           /\ BoundSessionIsMember' /\ UserIndexAgrees' /\ JoinOwnsEntry' /\ GoneUnbound'
<1>1. s \in Sessions /\ u \in Users
  BY RequestFields, FunctionsAssumption DEF RoomInv, TypeOK
<1>2. bound[s] = m => members[m][u] # None
  BY <1>1, NoneIsNot DEF RoomInv, BoundSessionIsMember
<1>3. JoinOver(u, m, bound[s])
  BY FinishJoinFacts
<1>4. /\ user_meetings' \in [Users -> UserPresence \cup {None}]
      /\ \A v \in Users : v # u => user_meetings'[v] = user_meetings[v]
      /\ user_meetings[u] # None /\ user_meetings[u].meeting = m
      /\ members[m][u] # None =>
            /\ user_meetings'[u] # None /\ user_meetings'[u].meeting = m
            /\ user_meetings'[u].joining = 0 /\ user_meetings'[u].joined
      /\ members[m][u] = None => user_meetings'[u] = None
  BY <1>2, <1>3 DEF JoinOver
<1>5. running' \in [Meetings -> JoinRequest \cup {None}] /\ running'[m] = None
  BY DEF RoomInv, TypeOK
<1>6. UserIndexAgrees'
  <2> SUFFICES ASSUME NEW v \in Users PROVE UserIndexOf(v)'
    BY DEF UserIndexAgrees
  <2>1. UserIndexOf(v)
    BY DEF RoomInv, UserIndexAgrees
  <2>2. CASE v = u
    <3>1. user_meetings[u].meeting = m
      BY <1>4
    <3>2. \A n \in Meetings : members[n][u] # None => n = m
      BY <2>1, <2>2, <3>1 DEF UserIndexOf
    <3>3. CASE members[m][u] # None
      <4>1. /\ user_meetings'[v] # None /\ user_meetings'[v].meeting = m
            /\ user_meetings'[v].joining # 1 /\ user_meetings'[v].joined
        BY <1>4, <2>2, <3>3
      <4> QED
        BY <1>5, <2>2, <3>2, <3>3, <4>1 DEF UserIndexOf
    <3>4. CASE members[m][u] = None
      BY <1>4, <1>5, <2>2, <3>2, <3>4 DEF UserIndexOf
    <3> QED
      BY <3>3, <3>4
  <2>3. CASE v # u
    <3>1. user_meetings'[v] = user_meetings[v]
      BY <1>4, <2>3 DEF RoomInv, TypeOK
    <3>2. user_meetings[v] # None => user_meetings[v].meeting \in Meetings
      BY PresenceFields DEF RoomInv, TypeOK
    <3> QED
      BY <1>5, <2>1, <2>3, <3>1, <3>2 DEF UserIndexOf, RoomInv, TypeOK
  <2> QED
    BY <2>2, <2>3
<1>7. JoinOwnsEntry'
  <2> SUFFICES ASSUME NEW n \in Meetings, running'[n] # None
               PROVE  /\ conn[running'[n].session] # "gone"
                      /\ user_meetings'[Owner[running'[n].session]] # None
                      /\ user_meetings'[Owner[running'[n].session]].meeting = n
    BY DEF JoinOwnsEntry
  <2>1. n # m /\ running'[n] = running[n] /\ running[n] # None
    BY <1>5 DEF RoomInv, TypeOK
  <2>2. Owner[running[n].session] \in Users /\ Owner[running[n].session] # u
    BY <1>4, <2>1, RequestFields, FunctionsAssumption DEF RoomInv, TypeOK, JoinOwnsEntry
  <2> QED
    BY <1>4, <2>1, <2>2 DEF RoomInv, TypeOK, JoinOwnsEntry
<1>8. BoundSessionIsMember' /\ GoneUnbound'
  BY DEF RoomInv, BoundSessionIsMember, GoneUnbound
<1> QED
  BY <1>4, <1>5, <1>6, <1>7, <1>8

LEMMA JoinRefusedStep ==
    ASSUME RoomInv, NEW m \in Meetings, running[m] # None, JoinRefused(m) PROVE RoomInv'
<1>1. /\ FinishJoin(Owner[running[m].session], m, bound[running[m].session])
      /\ running' = [running EXCEPT ![m] = None]
      /\ UNCHANGED <<conn, bound, sessions, members, expiries, redis, status, jumps>>
  BY DEF JoinRefused
<1>2. faults' \in 0 .. MaxFaults
  <2>1. faults' = faults \/ Fail(1)
    BY DEF JoinRefused
  <2> QED
    BY <2>1, FailType DEF RoomInv, TypeOK
<1>3. TypeOK'
  BY <1>1, <1>2, JoinGivesUp DEF RoomInv, TypeOK
<1>4. BoundSessionIsMember' /\ UserIndexAgrees' /\ JoinOwnsEntry' /\ GoneUnbound'
  BY <1>1, JoinGivesUp
<1>5. BoundNotReconnecting' /\ WallBounded'
  BY <1>1 DEF RoomInv, BoundNotReconnecting, WallBounded
<1> QED
  BY <1>3, <1>4, <1>5 DEF RoomInv

(* Redis entries.                                                          *)

LEMMA EntryFields ==
    ASSUME NEW e \in RedisMember
    PROVE  /\ e.in \in BOOLEAN /\ e.room_state \in {"", "active", "reconnecting"}
           /\ e.deadline \in WallDeadline /\ e.index \in WallDeadline
           /\ e = [in |-> e.in, room_state |-> e.room_state, deadline |-> e.deadline, index |-> e.index]
  BY DEF RedisMember

LEMMA WallDeadlines ==
    /\ None \in WallDeadline /\ Grace \in WallDeadline
    /\ \A j \in 0 .. MaxJumps : AtMost(None, j) /\ AtMost(Grace, j)
  BY BoundsAssumption DEF WallDeadline, AtMost

(* An entry of which only less is due.                                     *)
Fewer(e, f) ==
    /\ f \in RedisMember
    /\ f.deadline \in {None, e.deadline} /\ f.index \in {None, e.index}
    /\ f.room_state = "reconnecting" => e.room_state = "reconnecting"

LEMMA FewerInWall == ASSUME NEW e, NEW f, NEW j, InWall(e, j), Fewer(e, f) PROVE InWall(f, j)
  BY DEF InWall, AtMost, Fewer

LEMMA ActivatedFewer == ASSUME NEW e \in RedisMember
    PROVE Fewer(e, Activated(e)) /\ Activated(e).room_state = "active"
  BY WallDeadlines DEF RedisMember, Activated, Fewer

LEMMA AfterFailedJoinFewer ==
    ASSUME NEW e \in RedisMember, NEW call, NEW done \in BOOLEAN, NEW undone \in BOOLEAN
    PROVE  Fewer(e, AfterFailedJoin(e, call, done, undone))
<1> DEFINE f == AfterFailedJoin(e, call, done, undone)
<1>1. CASE e.in
  <2>1. f = e \/ f = Activated(e)
    BY <1>1 DEF AfterFailedJoin
  <2>2. Fewer(e, e)
    BY DEF Fewer
  <2> QED
    BY <2>1, <2>2, ActivatedFewer
<1>2. CASE ~e.in
  <2>1. \E i \in BOOLEAN, r \in {"active", e.room_state} :
            f = [e EXCEPT !.in = i, !.room_state = r]
    BY <1>2 DEF AfterFailedJoin
  <2> QED
    BY <2>1 DEF Fewer, RedisMember
<1> QED
  BY <1>1, <1>2

LEMMA JoinFailedStep ==
    ASSUME RoomInv, NEW m \in Meetings, running[m] # None, JoinFailed(m) PROVE RoomInv'
<1>0. PICK s : s = running[m].session
  OBVIOUS
<1>a. PICK u : u = Owner[s]
  OBVIOUS
<1>1. s \in Sessions /\ u \in Users
  BY <1>0, <1>a, RequestFields, FunctionsAssumption DEF RoomInv, TypeOK
<1>2. /\ FinishJoin(u, m, bound[s])
      /\ running' = [running EXCEPT ![m] = None]
      /\ UNCHANGED <<conn, bound, sessions, members, expiries, status, jumps>>
  BY <1>0, <1>a DEF JoinFailed
<1>3. PICK call \in {"sadd", "part", "presence", "state", "members"},
           done \in BOOLEAN, undone \in BOOLEAN :
        /\ Fail((IF call = "part" /\ ~undone THEN 0 ELSE 1) + (IF undone THEN 0 ELSE 1))
        /\ redis' = [redis EXCEPT ![m][u] = AfterFailedJoin(redis[m][u], call, done, undone)]
  BY <1>0, <1>a DEF JoinFailed
<1>4. faults' \in 0 .. MaxFaults
  <2>1. (IF call = "part" /\ ~undone THEN 0 ELSE 1) + (IF undone THEN 0 ELSE 1) \in Nat
    OBVIOUS
  <2> QED
    BY <1>3, <2>1, FailType DEF RoomInv, TypeOK
<1>5. redis[m][u] \in RedisMember /\ InWall(redis[m][u], jumps)
  BY <1>1 DEF RoomInv, TypeOK, WallBounded
<1>6. PICK e : e = AfterFailedJoin(redis[m][u], call, done, undone)
  OBVIOUS
<1>7. Fewer(redis[m][u], e) /\ InWall(e, jumps)
  BY <1>5, <1>6, AfterFailedJoinFewer, FewerInWall
<1>8. e \in RedisMember /\ BindsOnly(m, u, e)
  BY <1>2, <1>7, NoneIsNot DEF Fewer, RoomInv, BoundNotReconnecting, BindsOnly
<1>9. RedisAgrees'
  <2>1. redis' = [redis EXCEPT ![m][u] = e] /\ jumps' = jumps
    BY <1>2, <1>3, <1>6
  <2> QED
    BY <1>1, <1>7, <1>8, <2>1, RedisWrite
<1>10. /\ user_meetings' \in [Users -> UserPresence \cup {None}]
       /\ running' \in [Meetings -> JoinRequest \cup {None}]
       /\ BoundSessionIsMember' /\ UserIndexAgrees' /\ JoinOwnsEntry' /\ GoneUnbound'
  BY <1>0, <1>a, <1>2, JoinGivesUp
<1>11. TypeOK'
  BY <1>2, <1>4, <1>9, <1>10 DEF RoomInv, TypeOK, RedisAgrees
<1> QED
  BY <1>9, <1>10, <1>11 DEF RoomInv, RedisAgrees

LEMMA JoinedFewer == ASSUME NEW e \in RedisMember
    PROVE Fewer(e, Joined(e)) /\ Joined(e).room_state = "active"
<1>1. CASE e.in
  BY <1>1, ActivatedFewer DEF Joined
<1>2. CASE ~e.in
  <2>1. Joined(e) = [e EXCEPT !.in = TRUE, !.room_state = "active"]
    BY <1>2 DEF Joined
  <2> QED
    BY <2>1 DEF Fewer, RedisMember
<1> QED
  BY <1>1, <1>2

(* The session takes the member's place: no other one of its user is bound *)
(* to any meeting.                                                         *)
LEMMA JoinSucceedsStep ==
    ASSUME RoomInv, NEW m \in Meetings, running[m] # None, JoinSucceeds(m) PROVE RoomInv'
<1>0. PICK s : s = running[m].session
  OBVIOUS
<1>a. PICK u : u = Owner[s]
  OBVIOUS
<1>1. running[m] \in JoinRequest /\ s \in Sessions /\ u \in Users
  BY <1>0, <1>a, RequestFields, FunctionsAssumption DEF RoomInv, TypeOK
<1>2. /\ FinishJoin(u, m, m) /\ Takeover(s, m)
      /\ running' = [running EXCEPT ![m] = None]
      /\ UNCHANGED <<expiries, status, faults, jumps>>
  BY <1>0, <1>a DEF JoinSucceeds
<1>3. /\ user_meetings' \in [Users -> UserPresence \cup {None}]
      /\ \A v \in Users : v # u => user_meetings'[v] = user_meetings[v]
      /\ user_meetings[u] # None /\ user_meetings[u].meeting = m
      /\ user_meetings'[u] # None /\ user_meetings'[u].meeting = m
      /\ user_meetings'[u].joining = 0 /\ user_meetings'[u].joined
  <2>1. JoinOver(u, m, m)
    BY <1>0, <1>a, <1>2, FinishJoinFacts
  <2> QED
    BY <2>1 DEF JoinOver
<1>4. running' \in [Meetings -> JoinRequest \cup {None}] /\ running'[m] = None
      /\ \A n \in Meetings : n # m => running'[n] = running[n]
  BY <1>2 DEF RoomInv, TypeOK
<1>5. PICK e \in Membership :
         /\ e # None /\ e.session = s /\ e.deadline = None
         /\ members' = [members EXCEPT ![m][u] = e]
  <2>1. running[m].resuming => members[m][u] # None
    BY <1>0, <1>a DEF JoinSucceeds, JoinAdmitted, ResumeAllowed
  <2>2. PICK t \in Sessions : Token[t] = IF running[m].resuming THEN members[m][u].token ELSE Token[s]
    <3>1. CASE running[m].resuming
      <4>1. members[m][u] \in Membership
        BY <1>1, <2>1, <3>1 DEF RoomInv, TypeOK
      <4> QED
        BY <3>1, <4>1, MemberFields
    <3>2. CASE ~running[m].resuming
      BY <1>1, <3>2
    <3> QED
      BY <3>1, <3>2
  <2>3. members' = [members EXCEPT ![m][u] = [session |-> s, token |-> Token[t], deadline |-> None]]
    BY <1>0, <1>a, <2>2 DEF JoinSucceeds
  <2>4. PICK e : e = [session |-> s, token |-> Token[t], deadline |-> None]
    OBVIOUS
  <2>5. e \in Membership /\ e # None /\ e.session = s /\ e.deadline = None
    BY <1>1, <2>2, <2>4, MemberMade
  <2> QED
    BY <2>3, <2>4, <2>5
<1>6. /\ members' \in [Meetings -> [Users -> Membership \cup {None}]]
      /\ members'[m][u] = e
      /\ \A n \in Meetings, v \in Users : n # m \/ v # u => members'[n][v] = members[n][v]
  BY <1>1, <1>5 DEF RoomInv, TypeOK
<1>7. /\ sessions' \in [Meetings -> SUBSET Sessions] /\ s \in sessions'[m]
      /\ \A n \in Meetings : \A x \in sessions[n] : Owner[x] # u => x \in sessions'[n]
  <2>1. sessions' = [sessions EXCEPT ![m] = {x \in @ : ~(redis[m][u].in /\ Owner[x] = u)} \cup {s}]
    BY <1>0, <1>a DEF JoinSucceeds
  <2> QED
    BY <1>1, <2>1 DEF RoomInv, TypeOK
<1>8. /\ bound' \in [Sessions -> Meetings \cup {None}] /\ conn' \in [Sessions -> {"open", "closed", "gone"}]
      /\ bound'[s] = m
      /\ \A x \in Sessions : x # s => bound'[x] = None \/ bound'[x] = bound[x]
      /\ \A x \in Sessions : conn'[x] = "gone" => conn[x] = "gone"
      /\ \A x \in Sessions : conn[x] = "gone" => conn'[x] = "gone"
      /\ \A x \in Sessions : conn[x] # "gone" => conn'[x] # "gone"
  BY <1>1, <1>2 DEF RoomInv, TypeOK, Takeover
<1>9. \A x \in Sessions : x # s /\ bound'[x] # None => Owner[x] # u
  <2> SUFFICES ASSUME NEW x \in Sessions, x # s, bound'[x] # None, Owner[x] = u PROVE FALSE
    OBVIOUS
  <2>1. bound[x] # None /\ bound[x] \in Meetings
    BY <1>8 DEF RoomInv, TypeOK
  <2>2. members[bound[x]][u] # None /\ members[bound[x]][u].session = x
    BY <2>1 DEF RoomInv, BoundSessionIsMember
  <2>3. bound[x] = m
    BY <1>1, <1>3, <2>1, <2>2 DEF RoomInv, UserIndexAgrees, UserIndexOf
  <2> QED
    BY <1>a, <1>2, <2>2, <2>3 DEF Takeover
<1>10. BoundSessionIsMember'
  <2> SUFFICES ASSUME NEW x \in Sessions, bound'[x] # None
               PROVE  /\ members'[bound'[x]][Owner[x]] # None
                      /\ members'[bound'[x]][Owner[x]].session = x
                      /\ members'[bound'[x]][Owner[x]].deadline = None
                      /\ x \in sessions'[bound'[x]]
    BY DEF BoundSessionIsMember
  <2>1. CASE x = s
    BY <1>a, <1>5, <1>6, <1>7, <1>8, <2>1
  <2>2. CASE x # s
    <3>1. bound'[x] = bound[x] /\ bound[x] \in Meetings /\ Owner[x] \in Users /\ Owner[x] # u
      BY <1>8, <1>9, <2>2, FunctionsAssumption DEF RoomInv, TypeOK
    <3>2. members'[bound[x]][Owner[x]] = members[bound[x]][Owner[x]]
      BY <1>6, <3>1
    <3> QED
      BY <1>7, <3>1, <3>2 DEF RoomInv, BoundSessionIsMember
  <2> QED
    BY <2>1, <2>2
<1>11. UserIndexAgrees'
  <2> SUFFICES ASSUME NEW v \in Users PROVE UserIndexOf(v)'
    BY DEF UserIndexAgrees
  <2>1. UserIndexOf(v)
    BY DEF RoomInv, UserIndexAgrees
  <2>2. CASE v = u
    <3>1. \A n \in Meetings : n # m => members'[n][u] = None
      BY <1>1, <1>3, <1>6, <2>1, <2>2 DEF UserIndexOf
    <3> QED
      BY <1>3, <1>4, <1>5, <1>6, <2>2, <3>1 DEF UserIndexOf
  <2>3. CASE v # u
    <3>1. user_meetings'[v] = user_meetings[v] /\ \A n \in Meetings : members'[n][v] = members[n][v]
      BY <1>3, <1>6, <2>3
    <3>2. user_meetings[v] # None => user_meetings[v].meeting \in Meetings
      BY PresenceFields DEF RoomInv, TypeOK
    <3> QED
      BY <1>0, <1>a, <1>4, <2>1, <2>3, <3>1, <3>2 DEF UserIndexOf
  <2> QED
    BY <2>2, <2>3
<1>12. JoinOwnsEntry'
  <2> SUFFICES ASSUME NEW n \in Meetings, running'[n] # None
               PROVE  /\ conn'[running'[n].session] # "gone"
                      /\ user_meetings'[Owner[running'[n].session]] # None
                      /\ user_meetings'[Owner[running'[n].session]].meeting = n
    BY DEF JoinOwnsEntry
  <2>1. n # m /\ running'[n] = running[n] /\ running[n] # None /\ running[n].session \in Sessions
    BY <1>4, RequestFields DEF RoomInv, TypeOK
  <2>2. Owner[running[n].session] \in Users /\ Owner[running[n].session] # u
    BY <1>3, <2>1, FunctionsAssumption DEF RoomInv, JoinOwnsEntry
  <2> QED
    BY <1>3, <1>8, <2>1, <2>2 DEF RoomInv, JoinOwnsEntry
<1>13. GoneUnbound'
  <2>1. conn'[s] # "gone"
    BY <1>0, <1>1, <1>8 DEF RoomInv, JoinOwnsEntry
  <2> QED
    BY <1>8, <2>1 DEF RoomInv, GoneUnbound
<1>14. RedisAgrees'
  <2>1. redis[m][u] \in RedisMember /\ InWall(redis[m][u], jumps)
    BY <1>1 DEF RoomInv, TypeOK, WallBounded
  <2>2. PICK f : f = Joined(redis[m][u])
    OBVIOUS
  <2>3. Fewer(redis[m][u], f) /\ f.room_state = "active" /\ InWall(f, jumps)
    BY <2>1, <2>2, JoinedFewer, FewerInWall
  <2>4. f \in RedisMember /\ BindsOnly(m, u, f)
    BY <1>a, <1>8, <2>3 DEF Fewer, BindsOnly
  <2>5. redis' = [redis EXCEPT ![m][u] = f] /\ jumps' = jumps
    BY <1>0, <1>a, <2>2 DEF JoinSucceeds
  <2> QED
    BY <1>1, <2>3, <2>4, <2>5, RedisWrite
<1>15. TypeOK'
  BY <1>2, <1>3, <1>4, <1>6, <1>7, <1>8, <1>14 DEF RoomInv, TypeOK, RedisAgrees
<1> QED
  BY <1>10, <1>11, <1>12, <1>13, <1>14, <1>15 DEF RoomInv, RedisAgrees

-----------------------------------------------------------------------------
(* Disconnecting.                                                          *)

(* The same users are members of the same meetings.                        *)
SameMembers ==
    \A m \in Meetings, u \in Users : members'[m][u] = None <=> members[m][u] = None

LEMMA IndexKept ==
    ASSUME RoomInv, SameMembers, UNCHANGED <<user_meetings, running>> PROVE UserIndexAgrees'
<1> SUFFICES ASSUME NEW v \in Users PROVE UserIndexOf(v)'
  BY DEF UserIndexAgrees
<1>1. UserIndexOf(v)
  BY DEF RoomInv, UserIndexAgrees
<1>2. user_meetings[v] # None => user_meetings[v].meeting \in Meetings
  BY PresenceFields DEF RoomInv, TypeOK
<1> QED
  BY <1>1, <1>2 DEF SameMembers, UserIndexOf

LEMMA UnlinkedFacts ==
    ASSUME NEW e \in Membership \cup {None}, NEW s
    PROVE  /\ Unlinked(e, s) \in Membership \cup {None}
           /\ Unlinked(e, s) = None <=> e = None
           /\ e # None /\ e.session # s => Unlinked(e, s) = e
           /\ e # None /\ e.session = s => Unlinked(e, s).session = None
           /\ e # None => Unlinked(e, s).deadline = e.deadline
  BY NoneIsNot, MemberExcept DEF Unlinked

(* A session that is gone runs no join, and is bound to no meeting.        *)
LEMMA ForgetStep ==
    ASSUME RoomInv, NEW s \in Sessions, ConnectionFree(s), Forget(s), UNCHANGED <<user_meetings, running>>
    PROVE  /\ conn' \in [Sessions -> {"open", "closed", "gone"}]
           /\ bound' \in [Sessions -> Meetings \cup {None}]
           /\ sessions' \in [Meetings -> SUBSET Sessions]
           /\ bound'[s] = None /\ \A x \in Sessions : x # s => bound'[x] = bound[x]
           /\ \A m \in Meetings : sessions'[m] = sessions[m] \ {s}
           /\ JoinOwnsEntry' /\ GoneUnbound'
<1>1. /\ conn' \in [Sessions -> {"open", "closed", "gone"}]
      /\ bound' \in [Sessions -> Meetings \cup {None}]
      /\ sessions' \in [Meetings -> SUBSET Sessions]
      /\ bound'[s] = None /\ \A x \in Sessions : x # s => bound'[x] = bound[x] /\ conn'[x] = conn[x]
      /\ \A m \in Meetings : sessions'[m] = sessions[m] \ {s}
  BY DEF RoomInv, TypeOK, Forget
<1>2. GoneUnbound'
  BY <1>1 DEF RoomInv, GoneUnbound
<1>3. JoinOwnsEntry'
  BY <1>1, RequestFields DEF RoomInv, TypeOK, JoinOwnsEntry, ConnectionFree
<1> QED
  BY <1>1, <1>2, <1>3

LEMMA DisconnectUnboundStep ==
    ASSUME RoomInv, NEW s \in Sessions, DisconnectUnbound(s) PROVE RoomInv'
<1>1. /\ ConnectionFree(s) /\ bound[s] = None /\ Forget(s)
      /\ members' = [m \in Meetings |-> [u \in Users |-> Unlinked(members[m][u], s)]]
      /\ UNCHANGED <<running, user_meetings, expiries, redis, status, faults, jumps>>
  BY DEF DisconnectUnbound
<1>2. /\ conn' \in [Sessions -> {"open", "closed", "gone"}]
      /\ bound' \in [Sessions -> Meetings \cup {None}]
      /\ sessions' \in [Meetings -> SUBSET Sessions]
      /\ \A x \in Sessions : bound'[x] = bound[x]
      /\ \A m \in Meetings : sessions'[m] = sessions[m] \ {s}
      /\ JoinOwnsEntry' /\ GoneUnbound'
  BY <1>1, ForgetStep
<1>3. /\ members' \in [Meetings -> [Users -> Membership \cup {None}]] /\ SameMembers
      /\ \A m \in Meetings, u \in Users :
            members[m][u] # None /\ members[m][u].session # s => members'[m][u] = members[m][u]
  <2>1. \A m \in Meetings, u \in Users :
            members[m][u] \in Membership \cup {None} /\ members'[m][u] = Unlinked(members[m][u], s)
    BY <1>1 DEF RoomInv, TypeOK
  <2>2. \A m \in Meetings, u \in Users :
            /\ Unlinked(members[m][u], s) \in Membership \cup {None}
            /\ members'[m][u] = None <=> members[m][u] = None
            /\ members[m][u] # None /\ members[m][u].session # s => members'[m][u] = members[m][u]
    BY <2>1, UnlinkedFacts
  <2>3. members' \in [Meetings -> [Users -> Membership \cup {None}]]
    BY <1>1, <2>2
  <2> QED
    BY <2>2, <2>3 DEF SameMembers
<1>4. TypeOK'
  BY <1>1, <1>2, <1>3 DEF RoomInv, TypeOK
<1>5. BoundSessionIsMember'
  <2> SUFFICES ASSUME NEW x \in Sessions, bound'[x] # None
               PROVE  /\ members'[bound'[x]][Owner[x]] # None
                      /\ members'[bound'[x]][Owner[x]].session = x
                      /\ members'[bound'[x]][Owner[x]].deadline = None
                      /\ x \in sessions'[bound'[x]]
    BY DEF BoundSessionIsMember
  <2>1. x # s /\ bound'[x] = bound[x] /\ bound[x] \in Meetings /\ Owner[x] \in Users
    BY <1>1, <1>2, FunctionsAssumption DEF RoomInv, TypeOK
  <2>2. members[bound[x]][Owner[x]] # None /\ members[bound[x]][Owner[x]].session = x
    BY <2>1 DEF RoomInv, BoundSessionIsMember
  <2>3. members'[bound[x]][Owner[x]] = members[bound[x]][Owner[x]]
    BY <1>3, <2>1, <2>2
  <2> QED
    BY <1>2, <2>1, <2>3 DEF RoomInv, BoundSessionIsMember
<1>6. UserIndexAgrees'
  BY <1>1, <1>3, IndexKept
<1>7. BoundNotReconnecting' /\ WallBounded'
  BY <1>1, <1>2 DEF RoomInv, BoundNotReconnecting, WallBounded
<1> QED
  BY <1>2, <1>4, <1>5, <1>6, <1>7 DEF RoomInv

LEMMA ReconnectingEntry ==
    ASSUME NEW e \in RedisMember, NEW j \in 0 .. MaxJumps
    PROVE  Reconnecting(e) \in RedisMember /\ InWall(Reconnecting(e), j)
<1>1. Reconnecting(e) \in RedisMember
      /\ Reconnecting(e).deadline = Grace /\ Reconnecting(e).index = Grace
  BY WallDeadlines DEF Reconnecting, RedisMember
<1> QED
  BY <1>1, WallDeadlines DEF InWall

LEMMA AfterFailedMarkEntry ==
    ASSUME NEW e \in RedisMember, NEW j \in 0 .. MaxJumps, InWall(e, j),
           NEW call, NEW done \in BOOLEAN, NEW lost
    PROVE  AfterFailedMark(e, call, done, lost) \in RedisMember
           /\ InWall(AfterFailedMark(e, call, done, lost), j)
<1> DEFINE f == AfterFailedMark(e, call, done, lost)
<1>1. PICK r \in {"active", "reconnecting", e.room_state},
           d \in {None, Grace, e.deadline}, x \in {None, Grace, e.index} :
         f = [e EXCEPT !.room_state = r, !.deadline = d, !.index = x]
  BY DEF AfterFailedMark
<1>2. f \in RedisMember /\ f.deadline = d /\ f.index = x
  BY <1>1, WallDeadlines DEF RedisMember
<1>3. AtMost(d, j) /\ AtMost(x, j)
  BY WallDeadlines DEF InWall
<1> QED
  BY <1>2, <1>3 DEF InWall

(* Whatever the disconnect handler's writes leave is an entry with nothing *)
(* due later than the grace period.                                        *)
LEMMA UpdateRedisEntry ==
    ASSUME RoomInv, NEW m \in Meetings, NEW u \in Users, UpdateRedisOnDisconnect(m, u)
    PROVE  /\ faults' \in 0 .. MaxFaults
           /\ \E e \in RedisMember : InWall(e, jumps) /\ redis' = [redis EXCEPT ![m][u] = e]
<1>1. redis[m][u] \in RedisMember /\ InWall(redis[m][u], jumps) /\ jumps \in 0 .. MaxJumps
      /\ faults \in 0 .. MaxFaults
  BY DEF RoomInv, TypeOK, WallBounded
<1>2. ASSUME redis' = redis PROVE redis' = [redis EXCEPT ![m][u] = redis[m][u]]
  BY <1>2 DEF RoomInv, TypeOK
<1>3. ASSUME redis' = [redis EXCEPT ![m][u] = Reconnecting(redis[m][u])]
      PROVE \E e \in RedisMember : InWall(e, jumps) /\ redis' = [redis EXCEPT ![m][u] = e]
  BY <1>1, <1>3, ReconnectingEntry
<1>4. CASE MarkReconnecting(m, u)
  <2>1. CASE redis' = [redis EXCEPT ![m][u] = Reconnecting(redis[m][u])] /\ UNCHANGED faults
    BY <1>1, <1>3, <2>1
  <2>2. ASSUME NEW call, NEW done \in BOOLEAN, NEW lost \in SUBSET {"room_state", "deadline", "index"},
               Fail(1 + Cardinality(lost)),
               redis' = [redis EXCEPT ![m][u] = AfterFailedMark(redis[m][u], call, done, lost)]
        PROVE  /\ faults' \in 0 .. MaxFaults
               /\ \E e \in RedisMember : InWall(e, jumps) /\ redis' = [redis EXCEPT ![m][u] = e]
    <3>1. Cardinality(lost) \in Nat
      BY MarksCount
    <3>2. 1 + Cardinality(lost) \in Nat
      BY <3>1
    <3> QED
      BY <1>1, <2>2, <3>2, FailType, AfterFailedMarkEntry
  <2> QED
    BY <1>4, <2>1, <2>2 DEF MarkReconnecting
<1>5. CASE redis' = redis /\ (UNCHANGED faults \/ Fail(1))
  BY <1>1, <1>2, <1>5, FailType
<1>6. CASE Fail(1) /\ redis' = [redis EXCEPT ![m][u] = Reconnecting(redis[m][u])]
  BY <1>1, <1>3, <1>6, FailType
<1> QED
  BY <1>4, <1>5, <1>6 DEF UpdateRedisOnDisconnect

(* The member keeps its place without a session; nobody else of the user's *)
(* is bound to the meeting, whatever Redis says now.                       *)
LEMMA DisconnectStep == ASSUME RoomInv, NEW s \in Sessions, Disconnect(s) PROVE RoomInv'
<1>0. PICK m : m = bound[s]
  OBVIOUS
<1>a. PICK u : u = Owner[s]
  OBVIOUS
<1>1. m \in Meetings /\ u \in Users
  BY <1>0, <1>a, FunctionsAssumption DEF RoomInv, TypeOK, Disconnect
<1>2. /\ ConnectionFree(s) /\ Forget(s) /\ bound[s] # None
      /\ UNCHANGED <<running, user_meetings, expiries, status, jumps>>
  BY DEF Disconnect
<1>3. members[m][u] # None /\ members[m][u].session = s /\ members[m][u] \in Membership
      /\ s \in sessions[m]
  BY <1>0, <1>a, <1>1, <1>2 DEF RoomInv, TypeOK, BoundSessionIsMember
<1>4. /\ conn' \in [Sessions -> {"open", "closed", "gone"}]
      /\ bound' \in [Sessions -> Meetings \cup {None}]
      /\ sessions' \in [Meetings -> SUBSET Sessions]
      /\ bound'[s] = None /\ \A x \in Sessions : x # s => bound'[x] = bound[x]
      /\ \A n \in Meetings : sessions'[n] = sessions[n] \ {s}
      /\ JoinOwnsEntry' /\ GoneUnbound'
  BY <1>2, ForgetStep
<1>5. PICK e \in Membership : e # None /\ members' = [members EXCEPT ![m][u] = e]
  <2>1. members' = [members EXCEPT ![m][u] = [Unlinked(members[m][u], s) EXCEPT !.deadline = Grace]]
    BY <1>0, <1>a, <1>3 DEF Disconnect
  <2>2. Unlinked(members[m][u], s) \in Membership
    BY <1>3, UnlinkedFacts
  <2>3. [Unlinked(members[m][u], s) EXCEPT !.deadline = Grace] \in Membership
    BY <2>2, BoundsAssumption DEF Membership
  <2> QED
    BY <2>1, <2>3, NoneIsNot
<1>6. /\ members' \in [Meetings -> [Users -> Membership \cup {None}]]
      /\ members'[m][u] = e
      /\ \A n \in Meetings, v \in Users : n # m \/ v # u => members'[n][v] = members[n][v]
  BY <1>1, <1>5 DEF RoomInv, TypeOK
<1>7. SameMembers
  BY <1>3, <1>5, <1>6 DEF SameMembers
<1>8. UserIndexAgrees'
  BY <1>2, <1>7, IndexKept
<1>9. \A x \in Sessions : bound'[x] # None => bound'[x] = bound[x] /\ x # s /\ Owner[x] # u
  <2>1. OneSessionPerUser
    BY OneSession DEF RoomInv
  <2> QED
    BY <1>a, <1>2, <1>4, <2>1 DEF OneSessionPerUser
<1>10. BoundSessionIsMember'
  <2> SUFFICES ASSUME NEW x \in Sessions, bound'[x] # None
               PROVE  /\ members'[bound'[x]][Owner[x]] # None
                      /\ members'[bound'[x]][Owner[x]].session = x
                      /\ members'[bound'[x]][Owner[x]].deadline = None
                      /\ x \in sessions'[bound'[x]]
    BY DEF BoundSessionIsMember
  <2>1. x # s /\ bound'[x] = bound[x] /\ bound[x] \in Meetings /\ Owner[x] \in Users /\ Owner[x] # u
    BY <1>9, FunctionsAssumption DEF RoomInv, TypeOK
  <2>2. members'[bound[x]][Owner[x]] = members[bound[x]][Owner[x]]
    BY <1>6, <2>1
  <2> QED
    BY <1>4, <2>1, <2>2 DEF RoomInv, BoundSessionIsMember
<1>11. faults' \in 0 .. MaxFaults
       /\ \E f \in RedisMember : InWall(f, jumps) /\ redis' = [redis EXCEPT ![m][u] = f]
  <2>1. CASE UpdateRedisOnDisconnect(m, u)
    BY <1>1, <2>1, UpdateRedisEntry
  <2>2. CASE UNCHANGED <<redis, faults>>
    <3>1. redis' = [redis EXCEPT ![m][u] = redis[m][u]]
      BY <2>2 DEF RoomInv, TypeOK
    <3>2. redis[m][u] \in RedisMember /\ InWall(redis[m][u], jumps)
      BY <1>1 DEF RoomInv, TypeOK, WallBounded
    <3> QED
      BY <2>2, <3>1, <3>2 DEF RoomInv, TypeOK
  <2> QED
    BY <1>0, <1>a, <2>1, <2>2 DEF Disconnect
<1>12. RedisAgrees'
  <2>1. PICK f \in RedisMember : InWall(f, jumps) /\ redis' = [redis EXCEPT ![m][u] = f]
    BY <1>11
  <2>2. BindsOnly(m, u, f)
    BY <1>1, <1>4, <1>9, NoneIsNot DEF BindsOnly
  <2>3. jumps' = jumps
    BY <1>2
  <2> QED
    BY <1>1, <2>1, <2>2, <2>3, RedisWrite
<1>13. TypeOK'
  BY <1>2, <1>4, <1>6, <1>11, <1>12 DEF RoomInv, TypeOK, RedisAgrees
<1> QED
  BY <1>4, <1>8, <1>10, <1>12, <1>13 DEF RoomInv, RedisAgrees

-----------------------------------------------------------------------------
(* Expiry, leave and end.                                                  *)

LEMMA ScanStep == ASSUME RoomInv, NEW refused \in SUBSET Meetings, Scan(refused) PROVE RoomInv'
<1>1. UNCHANGED <<conn, bound, sessions, members, running, user_meetings, redis, status, faults, jumps>>
  BY DEF Scan
<1>2. expiries' \in [Meetings -> [Users -> 0 .. MaxTasks]]
  BY BoundsAssumption DEF Scan, RoomInv, TypeOK
<1>3. TypeOK'
  BY <1>1, <1>2 DEF RoomInv, TypeOK
<1>4. BoundSessionIsMember' /\ JoinOwnsEntry' /\ GoneUnbound'
  BY <1>1 DEF RoomInv, BoundSessionIsMember, JoinOwnsEntry, GoneUnbound
<1>5. UserIndexAgrees'
  BY <1>1, IndexKept DEF SameMembers
<1>6. BoundNotReconnecting' /\ WallBounded'
  BY <1>1 DEF RoomInv, BoundNotReconnecting, WallBounded
<1> QED
  BY <1>3, <1>4, <1>5, <1>6 DEF RoomInv

(* The users of R are no longer members of m, and nobody else is touched.  *)
Released(R, m) ==
    /\ user_meetings' = [v \in Users |->
          IF v \in R /\ user_meetings[v] # None /\ user_meetings[v].meeting = m
          THEN None ELSE user_meetings[v]]
    /\ members' = [n \in Meetings |-> [v \in Users |->
          IF n = m /\ v \in R THEN None ELSE members[n][v]]]

LEMMA ReleasedStep ==
    ASSUME RoomInv, NEW m \in Meetings, NEW R, RoomFree(m), Released(R, m), UNCHANGED <<conn, running>>
    PROVE  /\ user_meetings' \in [Users -> UserPresence \cup {None}]
           /\ members' \in [Meetings -> [Users -> Membership \cup {None}]]
           /\ UserIndexAgrees' /\ JoinOwnsEntry'
<1>1. /\ user_meetings' \in [Users -> UserPresence \cup {None}]
      /\ members' \in [Meetings -> [Users -> Membership \cup {None}]]
  BY DEF RoomInv, TypeOK, Released
<1>2. UserIndexAgrees'
  <2> SUFFICES ASSUME NEW v \in Users PROVE UserIndexOf(v)'
    BY DEF UserIndexAgrees
  <2>1. UserIndexOf(v)
    BY DEF RoomInv, UserIndexAgrees
  <2>2. user_meetings[v] # None => user_meetings[v].meeting \in Meetings
    BY PresenceFields DEF RoomInv, TypeOK
  <2>3. CASE v \notin R
    <3>1. user_meetings'[v] = user_meetings[v] /\ \A n \in Meetings : members'[n][v] = members[n][v]
      BY <2>3 DEF Released
    <3> QED
      BY <2>1, <2>2, <3>1 DEF UserIndexOf
  <2>4. CASE v \in R /\ user_meetings[v] # None /\ user_meetings[v].meeting = m
    <3>1. user_meetings'[v] = None /\ \A n \in Meetings : members'[n][v] = None
      BY <2>1, <2>4 DEF Released, UserIndexOf
    <3> QED
      BY <3>1 DEF UserIndexOf
  <2>5. CASE v \in R /\ ~(user_meetings[v] # None /\ user_meetings[v].meeting = m)
    <3>1. members[m][v] = None
      BY <2>1, <2>5 DEF UserIndexOf
    <3>2. user_meetings'[v] = user_meetings[v] /\ \A n \in Meetings : members'[n][v] = members[n][v]
      BY <2>5, <3>1 DEF Released
    <3> QED
      BY <2>1, <2>2, <3>2 DEF UserIndexOf
  <2> QED
    BY <2>3, <2>4, <2>5
<1>3. JoinOwnsEntry'
  <2> SUFFICES ASSUME NEW n \in Meetings, running[n] # None
               PROVE  /\ conn[running[n].session] # "gone"
                      /\ user_meetings'[Owner[running[n].session]] # None
                      /\ user_meetings'[Owner[running[n].session]].meeting = n
    BY DEF JoinOwnsEntry
  <2>1. n # m /\ Owner[running[n].session] \in Users
    BY RequestFields, FunctionsAssumption DEF RoomFree, RoomInv, TypeOK
  <2>2. user_meetings'[Owner[running[n].session]] = user_meetings[Owner[running[n].session]]
    BY <2>1 DEF RoomInv, JoinOwnsEntry, Released
  <2> QED
    BY <2>2 DEF RoomInv, JoinOwnsEntry
<1> QED
  BY <1>1, <1>2, <1>3

(* The sessions of users that stay members stay in the room.               *)
LEMMA ReleasedBound ==
    ASSUME RoomInv, NEW m \in Meetings, NEW R, Released(R, m),
           \A x \in Sessions : bound'[x] # None =>
               /\ bound'[x] = bound[x] /\ (bound[x] = m => Owner[x] \notin R)
               /\ x \in sessions'[bound[x]]
    PROVE  BoundSessionIsMember'
<1> SUFFICES ASSUME NEW x \in Sessions, bound'[x] # None
             PROVE  /\ members'[bound'[x]][Owner[x]] # None
                    /\ members'[bound'[x]][Owner[x]].session = x
                    /\ members'[bound'[x]][Owner[x]].deadline = None
                    /\ x \in sessions'[bound'[x]]
  BY DEF BoundSessionIsMember
<1>1. bound'[x] = bound[x] /\ bound[x] \in Meetings /\ Owner[x] \in Users
  BY FunctionsAssumption DEF RoomInv, TypeOK
<1>2. members'[bound[x]][Owner[x]] = members[bound[x]][Owner[x]]
  BY <1>1 DEF Released
<1> QED
  BY <1>1, <1>2 DEF RoomInv, BoundSessionIsMember

LEMMA LeaveStep == ASSUME RoomInv, NEW s \in Sessions, NEW m \in Meetings, Leave(s, m) PROVE RoomInv'
<1>0. PICK u : u = Owner[s]
  OBVIOUS
<1>1. u \in Users /\ RoomFree(m) /\ bound[s] = m /\ bound[s] # None
  BY <1>0, FunctionsAssumption, NoneIsNot DEF Leave, CanCommand
<1>2. UNCHANGED <<conn, running, expiries, status, faults, jumps>>
  BY DEF Leave
<1>3. Released({u}, m)
  <2>1. user_meetings' = [v \in Users |->
           IF v \in {u} /\ user_meetings[v] # None /\ user_meetings[v].meeting = m
           THEN None ELSE user_meetings[v]]
    BY <1>0, <1>1 DEF Leave, ReleaseUser, RoomInv, TypeOK
  <2>2. members' = [members EXCEPT ![m][u] = None]
    BY <1>0 DEF Leave
  <2>3. members' = [n \in Meetings |-> [v \in Users |->
           IF n = m /\ v \in {u} THEN None ELSE members[n][v]]]
    BY <1>1, <2>2 DEF RoomInv, TypeOK
  <2> QED
    BY <2>1, <2>3 DEF Released
<1>4. /\ user_meetings' \in [Users -> UserPresence \cup {None}]
      /\ members' \in [Meetings -> [Users -> Membership \cup {None}]]
      /\ UserIndexAgrees' /\ JoinOwnsEntry'
  BY <1>1, <1>2, <1>3, ReleasedStep
<1>5. /\ bound' \in [Sessions -> Meetings \cup {None}] /\ sessions' \in [Meetings -> SUBSET Sessions]
      /\ bound'[s] = None /\ \A x \in Sessions : x # s => bound'[x] = bound[x]
      /\ \A n \in Meetings : \A x \in sessions[n] : x # s => x \in sessions'[n]
  BY DEF Leave, RoomInv, TypeOK
<1>6. \A x \in Sessions : bound'[x] # None => bound'[x] = bound[x] /\ x # s /\ Owner[x] # u
  <2>1. OneSessionPerUser
    BY OneSession DEF RoomInv
  <2> QED
    BY <1>0, <1>1, <1>5, <2>1 DEF OneSessionPerUser
<1>7. BoundSessionIsMember'
  <2>1. \A x \in Sessions : bound'[x] # None =>
               /\ bound'[x] = bound[x] /\ (bound[x] = m => Owner[x] \notin {u})
               /\ x \in sessions'[bound[x]]
    BY <1>5, <1>6 DEF RoomInv, TypeOK, BoundSessionIsMember
  <2> QED
    BY <1>3, <2>1, ReleasedBound
<1>8. GoneUnbound'
  BY <1>2, <1>6 DEF RoomInv, GoneUnbound
<1>9. RedisAgrees'
  <2>1. Absent \in RedisMember /\ InWall(Absent, jumps) /\ Absent.room_state = ""
    BY WallDeadlines DEF Absent, RedisMember, InWall, RoomInv, TypeOK
  <2>2. BindsOnly(m, u, Absent)
    BY <1>6, <2>1 DEF BindsOnly
  <2>3. redis' = [redis EXCEPT ![m][u] = Absent] /\ jumps' = jumps
    BY <1>0 DEF Leave
  <2> QED
    BY <1>1, <2>1, <2>2, <2>3, RedisWrite
<1>10. TypeOK'
  BY <1>2, <1>4, <1>5, <1>9 DEF RoomInv, TypeOK, RedisAgrees
<1> QED
  BY <1>4, <1>7, <1>8, <1>9, <1>10 DEF RoomInv, RedisAgrees

(* Nothing is due later than before, and no session is newly bound.        *)
LEMMA RedisFewer ==
    ASSUME RoomInv, redis' \in [Meetings -> [Users -> RedisMember]], jumps' = jumps,
           \A n \in Meetings, v \in Users : Fewer(redis[n][v], redis'[n][v]),
           \A x \in Sessions : bound'[x] = None \/ bound'[x] = bound[x]
    PROVE  RedisAgrees'
<1>1. WallBounded'
  BY FewerInWall DEF RoomInv, WallBounded
<1>2. BoundNotReconnecting'
  <2> SUFFICES ASSUME NEW x \in Sessions, bound'[x] # None
               PROVE  redis'[bound'[x]][Owner[x]].room_state # "reconnecting"
    BY DEF BoundNotReconnecting
  <2>1. bound'[x] = bound[x] /\ bound[x] \in Meetings /\ Owner[x] \in Users
    BY FunctionsAssumption DEF RoomInv, TypeOK
  <2>2. redis[bound[x]][Owner[x]].room_state # "reconnecting"
    BY <2>1 DEF RoomInv, BoundNotReconnecting
  <2>3. Fewer(redis[bound[x]][Owner[x]], redis'[bound[x]][Owner[x]])
    BY <2>1
  <2> QED
    BY <2>1, <2>2, <2>3 DEF Fewer
<1> QED
  BY <1>1, <1>2 DEF RedisAgrees

LEMMA OneFewer ==
    ASSUME RoomInv, NEW m \in Meetings, NEW u \in Users, NEW e, Fewer(redis[m][u], e),
           redis' = [redis EXCEPT ![m][u] = e]
    PROVE  /\ redis' \in [Meetings -> [Users -> RedisMember]]
           /\ \A n \in Meetings, v \in Users : Fewer(redis[n][v], redis'[n][v])
<1>1. e \in RedisMember
  BY DEF Fewer
<1>2. redis' \in [Meetings -> [Users -> RedisMember]] /\ redis'[m][u] = e
      /\ \A n \in Meetings, v \in Users : n # m \/ v # u => redis'[n][v] = redis[n][v]
  BY <1>1 DEF RoomInv, TypeOK
<1>3. \A n \in Meetings, v \in Users : Fewer(redis[n][v], redis[n][v])
  BY DEF RoomInv, TypeOK, Fewer
<1> QED
  BY <1>2, <1>3

(* Only what is stored changes.                                            *)
LEMMA StorageStep ==
    ASSUME RoomInv, UNCHANGED localVars, RedisAgrees',
           status' \in [Meetings -> {"scheduled", "in_progress", "ended"}],
           faults' \in 0 .. MaxFaults, jumps' \in 0 .. MaxJumps
    PROVE  RoomInv'
<1>1. TypeOK'
  BY DEF RoomInv, TypeOK, localVars, RedisAgrees
<1>2. BoundSessionIsMember' /\ JoinOwnsEntry' /\ GoneUnbound'
  BY DEF RoomInv, BoundSessionIsMember, JoinOwnsEntry, GoneUnbound, localVars
<1>3. UserIndexAgrees'
  BY IndexKept DEF SameMembers, localVars
<1> QED
  BY <1>1, <1>2, <1>3 DEF RoomInv, RedisAgrees

LEMMA LeaveFailedStep ==
    ASSUME RoomInv, NEW s \in Sessions, NEW m \in Meetings, LeaveFailed(s, m) PROVE RoomInv'
<1>0. PICK u : u = Owner[s]
  OBVIOUS
<1>1. u \in Users /\ Fail(1) /\ UNCHANGED <<localVars, status, jumps>>
  BY <1>0, FunctionsAssumption DEF LeaveFailed
<1>8. PICK done \in {"nothing", "srem", "del", "zrem"} : redis' = [redis EXCEPT ![m][u] =
           [in |-> redis[m][u].in /\ done = "nothing",
            room_state |-> IF done \in {"del", "zrem"} THEN "" ELSE redis[m][u].room_state,
            deadline |-> IF done \in {"del", "zrem"} THEN None ELSE redis[m][u].deadline,
            index |-> IF done = "zrem" THEN None ELSE redis[m][u].index]]
  BY <1>0 DEF LeaveFailed
<1>9. PICK e : e =
           [in |-> redis[m][u].in /\ done = "nothing",
            room_state |-> IF done \in {"del", "zrem"} THEN "" ELSE redis[m][u].room_state,
            deadline |-> IF done \in {"del", "zrem"} THEN None ELSE redis[m][u].deadline,
            index |-> IF done = "zrem" THEN None ELSE redis[m][u].index]
  OBVIOUS
<1>2. redis' = [redis EXCEPT ![m][u] = e]
  BY <1>8, <1>9
<1>3. redis[m][u] \in RedisMember
  BY <1>1 DEF RoomInv, TypeOK
<1>4. Fewer(redis[m][u], e)
  BY <1>3, <1>9, WallDeadlines DEF Fewer, RedisMember
<1>5. redis' \in [Meetings -> [Users -> RedisMember]]
      /\ \A n \in Meetings, v \in Users : Fewer(redis[n][v], redis'[n][v])
  BY <1>1, <1>2, <1>4, OneFewer
<1>6. RedisAgrees'
  BY <1>1, <1>5, RedisFewer DEF localVars
<1>7. faults' \in 0 .. MaxFaults
  BY <1>1, FailType DEF RoomInv, TypeOK
<1> QED
  BY <1>1, <1>6, <1>7, StorageStep DEF RoomInv, TypeOK

LEMMA StartStep ==
    ASSUME RoomInv, NEW s \in Sessions, NEW m \in Meetings, Start(s, m) \/ EndFailed(s, m) PROVE RoomInv'
<1>1. UNCHANGED <<localVars, redis, jumps>> /\ (faults' = faults \/ Fail(1))
  BY DEF Start, EndFailed
<1>2. status' \in [Meetings -> {"scheduled", "in_progress", "ended"}]
  BY DEF Start, EndFailed, RoomInv, TypeOK
<1>3. faults' \in 0 .. MaxFaults
  BY <1>1, FailType DEF RoomInv, TypeOK
<1>4. RedisAgrees'
  BY <1>1 DEF RoomInv, TypeOK, RedisAgrees, BoundNotReconnecting, WallBounded, localVars
<1> QED
  BY <1>1, <1>2, <1>3, <1>4, StorageStep DEF RoomInv, TypeOK

LEMMA EndStep == ASSUME RoomInv, NEW s \in Sessions, NEW m \in Meetings, End(s, m) PROVE RoomInv'
<1>1. RoomFree(m) /\ UNCHANGED <<conn, running, expiries, jumps>>
      /\ status' = [status EXCEPT ![m] = "ended"]
  BY DEF End, CanEnd, CanCommand
<1>2. Released(Users, m)
  <2>1. user_meetings' = [v \in Users |->
           IF v \in Users /\ user_meetings[v] # None /\ user_meetings[v].meeting = m
           THEN None ELSE user_meetings[v]]
    BY DEF End, ReleaseRoomUsers
  <2>2. members' = [members EXCEPT ![m] = [v \in Users |-> None]]
    BY DEF End
  <2>3. members' = [n \in Meetings |-> [v \in Users |->
           IF n = m /\ v \in Users THEN None ELSE members[n][v]]]
    BY <2>2 DEF RoomInv, TypeOK
  <2> QED
    BY <2>1, <2>3 DEF Released
<1>3. /\ user_meetings' \in [Users -> UserPresence \cup {None}]
      /\ members' \in [Meetings -> [Users -> Membership \cup {None}]]
      /\ UserIndexAgrees' /\ JoinOwnsEntry'
  BY <1>1, <1>2, ReleasedStep
<1>4. /\ bound' \in [Sessions -> Meetings \cup {None}] /\ sessions' \in [Meetings -> SUBSET Sessions]
      /\ \A x \in Sessions : bound'[x] # None => bound'[x] = bound[x] /\ x \notin sessions[m]
      /\ \A n \in Meetings : n # m => sessions'[n] = sessions[n]
  BY DEF End, RoomInv, TypeOK
<1>5. BoundSessionIsMember'
  <2>1. \A x \in Sessions : bound'[x] # None =>
               /\ bound'[x] = bound[x] /\ (bound[x] = m => Owner[x] \notin Users)
               /\ x \in sessions'[bound[x]]
    BY <1>4 DEF RoomInv, TypeOK, BoundSessionIsMember
  <2> QED
    BY <1>2, <2>1, ReleasedBound
<1>6. GoneUnbound'
  BY <1>1, <1>4 DEF RoomInv, GoneUnbound
<1>7. /\ faults' \in 0 .. MaxFaults
      /\ redis' \in [Meetings -> [Users -> RedisMember]]
      /\ \A n \in Meetings, v \in Users : Fewer(redis[n][v], redis'[n][v])
  <2>1. \A n \in Meetings, v \in Users : redis[n][v] \in RedisMember /\ Fewer(redis[n][v], redis[n][v])
    BY DEF RoomInv, TypeOK, Fewer
  <2>2. CASE redis' = redis /\ Fail(1)
    BY <2>1, <2>2, FailType DEF RoomInv, TypeOK
  <2>3. ASSUME NEW hash \in SUBSET Occupants(m), NEW index \in SUBSET Occupants(m), NEW set \in BOOLEAN,
               Fail(Cardinality(hash) + Cardinality(index) + IF set THEN 1 ELSE 0),
               redis' = [redis EXCEPT ![m] = CleanedRoom(m, hash, index, set)]
        PROVE  /\ faults' \in 0 .. MaxFaults
               /\ redis' \in [Meetings -> [Users -> RedisMember]]
               /\ \A n \in Meetings, v \in Users : Fewer(redis[n][v], redis'[n][v])
    <3>1. Cardinality(hash) + Cardinality(index) + (IF set THEN 1 ELSE 0) \in Nat
      <4>1. Cardinality(hash) \in Nat /\ Cardinality(index) \in Nat
        BY UserCount DEF Occupants
      <4> QED
        BY <4>1
    <3>2. faults' \in 0 .. MaxFaults
      BY <2>3, <3>1, FailType DEF RoomInv, TypeOK
    <3>3. /\ DOMAIN redis' = Meetings /\ \A n \in Meetings : n # m => redis'[n] = redis[n]
          /\ redis'[m] = CleanedRoom(m, hash, index, set)
      BY <2>3 DEF RoomInv, TypeOK
    <3>4. \A u \in Users : Fewer(redis[m][u], redis'[m][u])
      <4> SUFFICES ASSUME NEW u \in Users PROVE Fewer(redis[m][u], redis'[m][u])
        OBVIOUS
      <4>1. CASE ~redis[m][u].in
        BY <2>1, <3>3, <4>1 DEF CleanedRoom
      <4>2. CASE redis[m][u].in
        <5>1. PICK r \in {"", redis[m][u].room_state}, d \in {None, redis[m][u].deadline},
                   x \in {None, redis[m][u].index} :
                 redis'[m][u] = [in |-> set, room_state |-> r, deadline |-> d, index |-> x]
          <6>1. PICK old : old = redis[m][u]
            OBVIOUS
          <6>2. PICK r : r = IF u \in hash THEN old.room_state ELSE ""
            OBVIOUS
          <6>3. PICK d : d = IF u \in hash THEN old.deadline ELSE None
            OBVIOUS
          <6>4. PICK x : x = IF u \in index THEN old.index ELSE None
            OBVIOUS
          <6>5. redis'[m][u] = [in |-> set, room_state |-> r, deadline |-> d, index |-> x]
            BY <3>3, <4>2, <6>1, <6>2, <6>3, <6>4 DEF CleanedRoom
          <6>6. /\ r \in {"", redis[m][u].room_state} /\ d \in {None, redis[m][u].deadline}
                /\ x \in {None, redis[m][u].index}
            BY <6>1, <6>2, <6>3, <6>4
          <6> QED
            BY <6>5, <6>6
        <5>2. /\ redis[m][u].room_state \in {"", "active", "reconnecting"}
              /\ redis[m][u].deadline \in WallDeadline /\ redis[m][u].index \in WallDeadline
          BY <2>1, EntryFields
        <5>3. r \in {"", "active", "reconnecting"} /\ d \in WallDeadline /\ x \in WallDeadline
          BY <5>2, WallDeadlines
        <5>4. redis'[m][u] \in RedisMember /\ redis'[m][u].room_state = r
              /\ redis'[m][u].deadline = d /\ redis'[m][u].index = x
          <6>1. PICK e : e = redis'[m][u]
            OBVIOUS
          <6>2. e = [in |-> set, room_state |-> r, deadline |-> d, index |-> x]
            BY <5>1, <6>1
          <6>3. e.room_state = r /\ e.deadline = d /\ e.index = x
            BY <6>2
          <6>4. e \in RedisMember
            BY <6>2, <5>3 DEF RedisMember
          <6> QED
            BY <6>1, <6>3, <6>4
        <5> QED
          BY <5>4 DEF Fewer
      <4> QED
        BY <4>1, <4>2
    <3>5. redis' \in [Meetings -> [Users -> RedisMember]]
      <4>1. \A u \in Users : redis'[m][u] \in RedisMember
        BY <3>4 DEF Fewer
      <4> QED
        BY <3>3, <4>1, <2>3 DEF RoomInv, TypeOK, CleanedRoom
    <3> QED
      BY <2>1, <3>2, <3>3, <3>4, <3>5
  <2> QED
    BY <2>2, <2>3 DEF End
<1>8. RedisAgrees'
  BY <1>1, <1>4, <1>7, RedisFewer
<1>9. TypeOK'
  BY <1>1, <1>3, <1>4, <1>7 DEF RoomInv, TypeOK
<1> QED
  BY <1>3, <1>5, <1>6, <1>8, <1>9 DEF RoomInv, RedisAgrees

(* What an expiry command writes to the member's entry.                    *)
ExpiryWrites(old) ==
    {old, [old EXCEPT !.index = None], [old EXCEPT !.in = FALSE],
     [old EXCEPT !.in = FALSE, !.index = None], Absent}

LEMMA ExpiryWritesFewer ==
    ASSUME NEW old \in RedisMember, NEW e \in ExpiryWrites(old)
    PROVE  Fewer(old, e) /\ (e.in => old.in)
<1>1. /\ Fewer(old, old) /\ Fewer(old, [old EXCEPT !.index = None])
      /\ Fewer(old, [old EXCEPT !.in = FALSE]) /\ Fewer(old, Absent)
      /\ Fewer(old, [old EXCEPT !.in = FALSE, !.index = None])
  BY WallDeadlines DEF Fewer, RedisMember, Absent
<1>2. /\ [old EXCEPT !.index = None].in = old.in
      /\ [old EXCEPT !.in = FALSE].in = FALSE /\ Absent.in = FALSE
      /\ [old EXCEPT !.in = FALSE, !.index = None].in = FALSE
  BY DEF RedisMember, Absent
<1> QED
  BY <1>1, <1>2 DEF ExpiryWrites

LEMMA ExpireEntry ==
    ASSUME RoomInv, NEW m \in Meetings, NEW u \in Users, ExpireMember(m, u)
    PROVE  /\ faults' = faults \/ Fail(1)
           /\ \E e \in ExpiryWrites(redis[m][u]) : redis' = [redis EXCEPT ![m][u] = e]
           /\ \/ UNCHANGED <<members, user_meetings>>
              \/ redis[m][u].room_state = "reconnecting" /\ ExpireRemoves(m, u)
<1> DEFINE old == redis[m][u]
<1> USE DEF ExpiryWrites
<1>1. redis = [redis EXCEPT ![m][u] = old]
  BY DEF RoomInv, TypeOK
<1>2. CASE ExpireNothing(m, u)
  <2>1. UNCHANGED <<members, user_meetings>> /\ (faults' = faults \/ Fail(1))
        /\ (redis' = redis \/ redis' = [redis EXCEPT ![m][u].index = None])
    BY <1>2 DEF ExpireNothing
  <2>2. [redis EXCEPT ![m][u].index = None] = [redis EXCEPT ![m][u] = [old EXCEPT !.index = None]]
    BY DEF RoomInv, TypeOK
  <2> QED
    BY <1>1, <2>1, <2>2
<1>3. CASE ExpireFailed(m, u)
  <2>1. UNCHANGED <<members, user_meetings>> /\ Fail(1)
        /\ \/ redis' = redis \/ redis' = [redis EXCEPT ![m][u].in = FALSE]
           \/ redis' = [redis EXCEPT ![m][u].in = FALSE, ![m][u].index = None]
    BY <1>3 DEF ExpireFailed
  <2>2. [redis EXCEPT ![m][u].in = FALSE] = [redis EXCEPT ![m][u] = [old EXCEPT !.in = FALSE]]
    BY DEF RoomInv, TypeOK
  <2>3. [redis EXCEPT ![m][u].in = FALSE, ![m][u].index = None]
        = [redis EXCEPT ![m][u] = [old EXCEPT !.in = FALSE, !.index = None]]
    BY DEF RoomInv, TypeOK
  <2> QED
    BY <1>1, <2>1, <2>2, <2>3
<1>4. CASE old.room_state = "reconnecting" /\ ExpireRemoves(m, u)
  <2>1. /\ faults' = faults \/ Fail(1)
        /\ \/ redis' = [redis EXCEPT ![m][u] = Absent]
           \/ redis' = [redis EXCEPT ![m][u] = [old EXCEPT !.in = FALSE, !.index = None]]
    BY <1>4 DEF ExpireRemoves
  <2> QED
    BY <1>4, <2>1
<1> QED
  BY <1>2, <1>3, <1>4 DEF ExpireMember

(* No expiry command removes a member with a bound session: its entry is   *)
(* not reconnecting.                                                       *)
LEMMA ExpireMemberStep ==
    ASSUME RoomInv, NEW m \in Meetings, NEW u \in Users, ExpireMember(m, u) PROVE RoomInv'
<1>1. RoomFree(m) /\ UNCHANGED <<conn, bound, sessions, running, status, jumps>>
      /\ expiries[m][u] > 0 /\ expiries' = [expiries EXCEPT ![m][u] = expiries[m][u] - 1]
  BY DEF ExpireMember
<1>2. expiries' \in [Meetings -> [Users -> 0 .. MaxTasks]]
  BY <1>1, BoundsAssumption DEF RoomInv, TypeOK
<1> DEFINE old == redis[m][u]
<1>3. old \in RedisMember
  BY DEF RoomInv, TypeOK
<1>4. /\ faults' = faults \/ Fail(1)
      /\ \E e : Fewer(old, e) /\ redis' = [redis EXCEPT ![m][u] = e]
      /\ \/ UNCHANGED <<members, user_meetings>>
         \/ old.room_state = "reconnecting" /\ ExpireRemoves(m, u)
  BY <1>3, ExpireEntry, ExpiryWritesFewer
<1>5. faults' \in 0 .. MaxFaults
  BY <1>4, FailType DEF RoomInv, TypeOK
<1>6. redis' \in [Meetings -> [Users -> RedisMember]] /\ RedisAgrees'
  <2>1. PICK e : Fewer(old, e) /\ redis' = [redis EXCEPT ![m][u] = e]
    BY <1>4
  <2>2. redis' \in [Meetings -> [Users -> RedisMember]]
        /\ \A n \in Meetings, v \in Users : Fewer(redis[n][v], redis'[n][v])
    BY <2>1, OneFewer
  <2>3. jumps' = jumps /\ \A x \in Sessions : bound'[x] = None \/ bound'[x] = bound[x]
    BY <1>1
  <2> QED
    BY <2>2, <2>3, RedisFewer
<1>7. GoneUnbound'
  BY <1>1 DEF RoomInv, GoneUnbound
<1>8. CASE UNCHANGED <<members, user_meetings>>
  <2>1. TypeOK'
    BY <1>1, <1>2, <1>5, <1>6, <1>8 DEF RoomInv, TypeOK
  <2>2. BoundSessionIsMember' /\ JoinOwnsEntry'
    BY <1>1, <1>8 DEF RoomInv, BoundSessionIsMember, JoinOwnsEntry
  <2>3. UserIndexAgrees'
    BY <1>1, <1>8, IndexKept DEF SameMembers
  <2> QED
    BY <1>6, <1>7, <2>1, <2>2, <2>3 DEF RoomInv, RedisAgrees
<1>9. CASE old.room_state = "reconnecting" /\ ExpireRemoves(m, u)
  <2>1. Released({u}, m)
    <3>1. user_meetings' = [v \in Users |->
             IF v \in {u} /\ user_meetings[v] # None /\ user_meetings[v].meeting = m
             THEN None ELSE user_meetings[v]]
      BY <1>9 DEF ExpireRemoves, ReleaseUser, RoomInv, TypeOK
    <3>2. members' = [members EXCEPT ![m][u] = None]
      BY <1>9 DEF ExpireRemoves
    <3>3. members' = [n \in Meetings |-> [v \in Users |->
             IF n = m /\ v \in {u} THEN None ELSE members[n][v]]]
      BY <3>2 DEF RoomInv, TypeOK
    <3> QED
      BY <3>1, <3>3 DEF Released
  <2>2. /\ user_meetings' \in [Users -> UserPresence \cup {None}]
        /\ members' \in [Meetings -> [Users -> Membership \cup {None}]]
        /\ UserIndexAgrees' /\ JoinOwnsEntry'
    BY <1>1, <2>1, ReleasedStep
  <2>3. BoundSessionIsMember'
    <3>1. \A x \in Sessions : bound'[x] # None =>
               /\ bound'[x] = bound[x] /\ (bound[x] = m => Owner[x] \notin {u})
               /\ x \in sessions'[bound[x]]
      BY <1>1, <1>9 DEF RoomInv, BoundSessionIsMember, BoundNotReconnecting
    <3> QED
      BY <2>1, <3>1, ReleasedBound
  <2>4. TypeOK'
    BY <1>1, <1>2, <1>5, <1>6, <2>2 DEF RoomInv, TypeOK
  <2> QED
    BY <1>6, <1>7, <2>2, <2>3, <2>4 DEF RoomInv, RedisAgrees
<1> QED
  BY <1>4, <1>8, <1>9

-----------------------------------------------------------------------------
(* Clocks and restarts.                                                    *)

(* A second taken off, or put on while a correction is left.               *)
LEMMA LaterWall ==
    ASSUME NEW d \in WallDeadline, NEW j \in 0 .. MaxJumps, AtMost(d, j), NEW k \in 0 .. MaxJumps,
           NEW n \in {-1, 1}, k <= j, n = -1 => k < j
    PROVE  Later(d, n, -MaxJumps) \in WallDeadline /\ AtMost(Later(d, n, -MaxJumps), k)
<1>1. CASE d = None
  BY <1>1 DEF Later, AtMost, WallDeadline
<1>2. CASE d # None
  <2>1. d \in -MaxJumps .. Grace + MaxJumps /\ d <= Grace + (MaxJumps - j)
    BY <1>2 DEF WallDeadline, AtMost
  <2>2. Later(d, n, -MaxJumps) = IF d - n < -MaxJumps THEN -MaxJumps ELSE d - n
    BY <1>2 DEF Later
  <2>3. /\ Later(d, n, -MaxJumps) \in -MaxJumps .. Grace + MaxJumps
        /\ Later(d, n, -MaxJumps) <= Grace + (MaxJumps - k)
    BY <2>1, <2>2, BoundsAssumption
  <2> QED
    BY <2>3 DEF WallDeadline, AtMost
<1> QED
  BY <1>1, <1>2

LEMMA WallLaterStep ==
    ASSUME RoomInv, NEW n \in {-1, 1}, redis' = WallLater(n), jumps' \in 0 .. MaxJumps,
           jumps' <= jumps, n = -1 => jumps' < jumps, UNCHANGED bound
    PROVE  RedisAgrees'
<1>1. \A m \in Meetings, u \in Users :
        /\ redis'[m][u] \in RedisMember /\ InWall(redis'[m][u], jumps')
        /\ redis'[m][u].room_state = redis[m][u].room_state
  <2> SUFFICES ASSUME NEW m \in Meetings, NEW u \in Users
               PROVE  /\ redis'[m][u] \in RedisMember /\ InWall(redis'[m][u], jumps')
                      /\ redis'[m][u].room_state = redis[m][u].room_state
    OBVIOUS
  <2>1. redis[m][u] \in RedisMember /\ InWall(redis[m][u], jumps) /\ jumps \in 0 .. MaxJumps
    BY DEF RoomInv, TypeOK, WallBounded
  <2>2. PICK d, x : d = Later(redis[m][u].deadline, n, -MaxJumps)
                    /\ x = Later(redis[m][u].index, n, -MaxJumps)
    OBVIOUS
  <2>3. redis'[m][u] = [redis[m][u] EXCEPT !.deadline = d, !.index = x]
    BY <2>2 DEF WallLater
  <2>4. /\ redis[m][u].deadline \in WallDeadline /\ redis[m][u].index \in WallDeadline
        /\ AtMost(redis[m][u].deadline, jumps) /\ AtMost(redis[m][u].index, jumps)
    BY <2>1, EntryFields DEF InWall
  <2>5. d \in WallDeadline /\ AtMost(d, jumps') /\ x \in WallDeadline /\ AtMost(x, jumps')
    BY <2>1, <2>2, <2>4, LaterWall
  <2>6. /\ redis'[m][u] \in RedisMember /\ redis'[m][u].deadline = d /\ redis'[m][u].index = x
        /\ redis'[m][u].room_state = redis[m][u].room_state
    BY <2>1, <2>3, <2>5 DEF RedisMember
  <2> QED
    BY <2>5, <2>6 DEF InWall
<1>2. redis' \in [Meetings -> [Users -> RedisMember]]
  BY <1>1 DEF WallLater
<1>3. BoundNotReconnecting'
  <2> SUFFICES ASSUME NEW x \in Sessions, bound[x] # None
               PROVE  redis'[bound[x]][Owner[x]].room_state # "reconnecting"
    BY DEF BoundNotReconnecting
  <2>1. bound[x] \in Meetings /\ Owner[x] \in Users
    BY FunctionsAssumption DEF RoomInv, TypeOK
  <2> QED
    BY <1>1, <2>1 DEF RoomInv, BoundNotReconnecting
<1> QED
  BY <1>1, <1>2, <1>3 DEF RedisAgrees, WallBounded

LEMMA WallJumpStep == ASSUME RoomInv, WallJump PROVE RoomInv'
<1>1. jumps' \in 0 .. MaxJumps /\ jumps' < jumps /\ UNCHANGED <<localVars, status, faults>>
  BY BoundsAssumption DEF WallJump, RoomInv, TypeOK
<1>2. RedisAgrees'
  <2>1. PICK n \in {-1, 1} : redis' = WallLater(n)
    BY DEF WallJump
  <2>2. jumps' <= jumps
    BY <1>1 DEF RoomInv, TypeOK
  <2> QED
    BY <1>1, <2>1, <2>2, WallLaterStep DEF localVars
<1> QED
  BY <1>1, <1>2, StorageStep DEF RoomInv, TypeOK

LEMMA TickStep == ASSUME RoomInv, Tick PROVE RoomInv'
<1>1. UNCHANGED <<conn, bound, sessions, running, user_meetings, expiries, status, faults, jumps>>
  BY DEF Tick
<1>2. RedisAgrees'
  <2>1. redis' = WallLater(1) /\ jumps' \in 0 .. MaxJumps /\ jumps' <= jumps /\ UNCHANGED bound
    BY <1>1 DEF Tick, RoomInv, TypeOK
  <2> QED
    BY <2>1, WallLaterStep
<1>3. \A m \in Meetings, u \in Users :
        /\ members'[m][u] \in Membership \cup {None}
        /\ members'[m][u] = None <=> members[m][u] = None
        /\ members[m][u] # None /\ members[m][u].deadline = None =>
              members'[m][u].session = members[m][u].session /\ members'[m][u].deadline = None
  <2> SUFFICES ASSUME NEW m \in Meetings, NEW u \in Users, members[m][u] # None
               PROVE  /\ members'[m][u] \in Membership
                      /\ members'[m][u].session = members[m][u].session
                      /\ members[m][u].deadline = None => members'[m][u].deadline = None
    BY NoneIsNot DEF Tick
  <2>1. members[m][u] \in Membership
    BY DEF RoomInv, TypeOK
  <2>2. PICK d : d = Later(members[m][u].deadline, 1, 0)
    OBVIOUS
  <2>3. d \in {None} \cup 0 .. Grace /\ (members[m][u].deadline = None => d = None)
    BY <2>1, <2>2, MemberFields, BoundsAssumption DEF Later
  <2>4. members'[m][u] = [members[m][u] EXCEPT !.deadline = d]
    BY <2>2 DEF Tick
  <2> QED
    BY <2>1, <2>3, <2>4 DEF Membership
<1>4. members' \in [Meetings -> [Users -> Membership \cup {None}]]
  BY <1>3 DEF Tick
<1>5. TypeOK'
  BY <1>1, <1>2, <1>4 DEF RoomInv, TypeOK, RedisAgrees
<1>6. UserIndexAgrees'
  BY <1>1, <1>3, IndexKept DEF SameMembers
<1>7. BoundSessionIsMember'
  <2> SUFFICES ASSUME NEW x \in Sessions, bound[x] # None
               PROVE  /\ members'[bound[x]][Owner[x]] # None
                      /\ members'[bound[x]][Owner[x]].session = x
                      /\ members'[bound[x]][Owner[x]].deadline = None
                      /\ x \in sessions[bound[x]]
    BY <1>1 DEF BoundSessionIsMember
  <2>1. bound[x] \in Meetings /\ Owner[x] \in Users
    BY FunctionsAssumption DEF RoomInv, TypeOK
  <2>2. /\ members[bound[x]][Owner[x]] # None /\ members[bound[x]][Owner[x]].session = x
        /\ members[bound[x]][Owner[x]].deadline = None /\ x \in sessions[bound[x]]
    BY DEF RoomInv, BoundSessionIsMember
  <2> QED
    BY <1>3, <2>1, <2>2
<1>8. JoinOwnsEntry' /\ GoneUnbound'
  BY <1>1 DEF RoomInv, JoinOwnsEntry, GoneUnbound
<1> QED
  BY <1>2, <1>5, <1>6, <1>7, <1>8 DEF RoomInv, RedisAgrees

(* Every session is gone, hence bound to nothing: the new process starts   *)
(* without members.                                                        *)
LEMMA RestartStep == ASSUME RoomInv, Restart PROVE RoomInv'
<1>1. /\ \A s \in Sessions : conn[s] = "gone"
      /\ \A m \in Meetings : running[m] = None
      /\ members' = [m \in Meetings |-> [u \in Users |-> None]]
      /\ user_meetings' = [u \in Users |-> None]
      /\ UNCHANGED <<conn, bound, sessions, running, expiries, redis, status, faults, jumps>>
  BY DEF Restart, RoomFree
<1>2. TypeOK'
  BY <1>1 DEF RoomInv, TypeOK
<1>3. BoundSessionIsMember' /\ GoneUnbound' /\ JoinOwnsEntry'
  BY <1>1 DEF RoomInv, GoneUnbound, BoundSessionIsMember, JoinOwnsEntry
<1>4. UserIndexAgrees'
  BY <1>1 DEF UserIndexAgrees, UserIndexOf
<1>5. BoundNotReconnecting' /\ WallBounded'
  BY <1>1 DEF RoomInv, BoundNotReconnecting, WallBounded
<1> QED
  BY <1>2, <1>3, <1>4, <1>5 DEF RoomInv

-----------------------------------------------------------------------------
LEMMA RoomInit == Init => RoomInv
<1> SUFFICES ASSUME Init PROVE RoomInv
  OBVIOUS
<1>1. Absent \in RedisMember /\ \A j \in 0 .. MaxJumps : InWall(Absent, j)
  BY WallDeadlines DEF Absent, RedisMember, InWall
<1>2. TypeOK
  BY <1>1, BoundsAssumption DEF Init, TypeOK
<1>3. BoundSessionIsMember /\ JoinOwnsEntry /\ GoneUnbound /\ BoundNotReconnecting
  BY DEF Init, BoundSessionIsMember, JoinOwnsEntry, GoneUnbound, BoundNotReconnecting
<1>4. UserIndexAgrees
  BY DEF Init, UserIndexAgrees, UserIndexOf
<1>5. WallBounded
  BY <1>1, BoundsAssumption DEF Init, WallBounded
<1> QED
  BY <1>2, <1>3, <1>4, <1>5 DEF RoomInv

LEMMA RoomStutter == ASSUME RoomInv, UNCHANGED vars PROVE RoomInv'
<1>1. UNCHANGED localVars /\ UNCHANGED <<redis, status, faults, jumps>>
  BY DEF vars
<1>2. RedisAgrees'
  BY <1>1 DEF RoomInv, TypeOK, RedisAgrees, BoundNotReconnecting, WallBounded, localVars
<1> QED
  BY <1>1, <1>2, StorageStep DEF RoomInv, TypeOK

LEMMA RoomNext == RoomInv /\ [Next]_vars => RoomInv'
<1> SUFFICES ASSUME RoomInv, [Next]_vars PROVE RoomInv'
  OBVIOUS
<1>1. ASSUME NEW s \in Sessions, Open(s) \/ Close(s) \/ DisconnectUnbound(s) \/ Disconnect(s)
      PROVE RoomInv'
  BY <1>1, OpenStep, CloseStep, DisconnectUnboundStep, DisconnectStep
<1>2. ASSUME NEW s \in Sessions, NEW m \in Meetings, NEW resuming \in BOOLEAN, BeginJoin(s, m, resuming)
      PROVE RoomInv'
  BY <1>2, BeginJoinStep
<1>3. ASSUME NEW s \in Sessions, NEW m \in Meetings,
             Leave(s, m) \/ LeaveFailed(s, m) \/ Start(s, m) \/ EndFailed(s, m) \/ End(s, m)
      PROVE RoomInv'
  BY <1>3, LeaveStep, LeaveFailedStep, StartStep, EndStep
<1>4. ASSUME NEW m \in Meetings, EndJoin(m) PROVE RoomInv'
  BY <1>4, JoinRefusedStep, JoinFailedStep, JoinSucceedsStep DEF EndJoin
<1>5. ASSUME NEW m \in Meetings, NEW u \in Users, ExpireMember(m, u) PROVE RoomInv'
  BY <1>5, ExpireMemberStep
<1>6. ASSUME NEW refused \in SUBSET Meetings, Scan(refused) PROVE RoomInv'
  BY <1>6, ScanStep
<1>7. CASE Tick \/ WallJump \/ Restart
  BY <1>7, TickStep, WallJumpStep, RestartStep
<1>8. CASE UNCHANGED vars
  BY <1>8, RoomStutter
<1> QED
  BY <1>1, <1>2, <1>3, <1>4, <1>5, <1>6, <1>7, <1>8 DEF Next

(* Every state of the meeting satisfies the inductive invariant, whatever  *)
(* calls, storage faults, clock jumps and restarts there are.              *)
THEOREM RoomInvariant == Spec => []RoomInv
  BY RoomInit, RoomNext, PTL DEF Spec

(* Whatever sessions join, resume, take over, disconnect, expire, leave    *)
(* and end, and whatever storage calls fail: a session's own meeting, the  *)
(* room's members and the index m_user_meetings agree, and a user attends  *)
(* through one session in one meeting.                                     *)
THEOREM MembershipCorrect == Spec => []MembershipAgrees
<1>1. RoomInv => MembershipAgrees
  BY OneSession DEF RoomInv, MembershipAgrees
<1> QED
  BY <1>1, RoomInvariant, PTL

-----------------------------------------------------------------------------
(* The grace period.                                                       *)

GraceStep ==
    \A m \in Meetings, u \in Users :
        /\ InGrace(m, u)
        /\ redis[m][u].in /\ ~redis'[m][u].in
        => status[m] = "in_progress" /\ status'[m] = "ended"

(* A member in grace has no bound session, so nobody speaks for it.        *)
LEMMA GraceUnbound ==
    ASSUME RoomInv, NEW s \in Sessions, bound[s] # None PROVE ~InGrace(bound[s], Owner[s])
  BY NoneIsNot, BoundsAssumption DEF RoomInv, BoundSessionIsMember, InGrace

(* One entry is written, and stays in the set or is not in grace.          *)
LEMMA GraceWrite ==
    ASSUME RoomInv, NEW m \in Meetings, NEW u \in Users, NEW e, redis' = [redis EXCEPT ![m][u] = e],
           (redis[m][u].in => e.in) \/ ~InGrace(m, u)
    PROVE  GraceStep
<1>1. redis'[m][u] = e /\ \A n \in Meetings, v \in Users : n # m \/ v # u => redis'[n][v] = redis[n][v]
  BY DEF RoomInv, TypeOK
<1> QED
  BY <1>1 DEF GraceStep

LEMMA GraceJoin == ASSUME RoomInv, NEW m \in Meetings, EndJoin(m) PROVE GraceStep
<1>0. PICK u : u = Owner[running[m].session]
  OBVIOUS
<1>1. u \in Users
  BY <1>0, RequestFields, FunctionsAssumption DEF RoomInv, TypeOK, EndJoin
<1>2. CASE JoinRefused(m)
  BY <1>2 DEF JoinRefused, GraceStep
<1>3. CASE JoinFailed(m)
  <2>1. PICK call, done, undone :
           redis' = [redis EXCEPT ![m][u] = AfterFailedJoin(redis[m][u], call, done, undone)]
    BY <1>0, <1>3 DEF JoinFailed
  <2>2. redis[m][u].in => AfterFailedJoin(redis[m][u], call, done, undone).in
    <3>1. redis[m][u] \in RedisMember
      BY <1>1 DEF RoomInv, TypeOK
    <3>2. ASSUME redis[m][u].in
          PROVE  AfterFailedJoin(redis[m][u], call, done, undone) \in {redis[m][u], Activated(redis[m][u])}
      BY <3>2 DEF AfterFailedJoin
    <3>3. Activated(redis[m][u]).in = redis[m][u].in
      BY <3>1 DEF Activated, RedisMember
    <3> QED
      BY <3>2, <3>3
  <2> QED
    BY <1>1, <2>1, <2>2, GraceWrite
<1>4. CASE JoinSucceeds(m)
  <2>1. redis' = [redis EXCEPT ![m][u] = Joined(redis[m][u])]
    BY <1>0, <1>4 DEF JoinSucceeds
  <2>2. redis[m][u].in => Joined(redis[m][u]).in
    <3>1. redis[m][u] \in RedisMember
      BY <1>1 DEF RoomInv, TypeOK
    <3>2. Activated(redis[m][u]).in = redis[m][u].in
      BY <3>1 DEF Activated, RedisMember
    <3> QED
      BY <3>2 DEF Joined
  <2> QED
    BY <1>1, <2>1, <2>2, GraceWrite
<1> QED
  BY <1>2, <1>3, <1>4 DEF EndJoin

LEMMA GraceDisconnect == ASSUME RoomInv, NEW s \in Sessions, Disconnect(s) PROVE GraceStep
<1>0. PICK m : m = bound[s]
  OBVIOUS
<1>a. PICK u : u = Owner[s]
  OBVIOUS
<1>1. m \in Meetings /\ u \in Users /\ ~InGrace(m, u)
  BY <1>0, <1>a, FunctionsAssumption, GraceUnbound DEF RoomInv, TypeOK, Disconnect
<1>2. CASE UpdateRedisOnDisconnect(m, u)
  BY <1>1, <1>2, UpdateRedisEntry, GraceWrite
<1>3. CASE UNCHANGED redis
  BY <1>3 DEF GraceStep
<1> QED
  BY <1>0, <1>a, <1>2, <1>3 DEF Disconnect

LEMMA GraceExpire ==
    ASSUME RoomInv, NEW m \in Meetings, NEW u \in Users, ExpireMember(m, u) PROVE GraceStep
<1>0. redis[m][u] \in RedisMember
  BY DEF RoomInv, TypeOK
<1>1. CASE ExpireNothing(m, u)
  <2>1. CASE redis' = redis
    BY <2>1 DEF GraceStep
  <2>2. CASE redis' = [redis EXCEPT ![m][u].index = None]
    <3>1. redis' = [redis EXCEPT ![m][u] = [redis[m][u] EXCEPT !.index = None]]
      BY <2>2 DEF RoomInv, TypeOK
    <3>2. [redis[m][u] EXCEPT !.index = None].in = redis[m][u].in
      BY <1>0 DEF RedisMember
    <3> QED
      BY <3>1, <3>2, GraceWrite
  <2> QED
    BY <1>1, <2>1, <2>2 DEF ExpireNothing
<1>2. CASE ~StillInGrace(m, u)
  <2>1. ~InGrace(m, u)
    BY <1>2, NoneIsNot, BoundsAssumption DEF StillInGrace, InGrace
  <2>2. \A n \in Meetings, v \in Users : n # m \/ v # u => redis'[n][v] = redis[n][v]
    BY DEF RoomInv, TypeOK, ExpireMember, ExpireNothing, ExpireFailed, ExpireRemoves
  <2> QED
    BY <2>1, <2>2 DEF GraceStep
<1> QED
  BY <1>1, <1>2 DEF ExpireMember

LEMMA GraceEnd == ASSUME RoomInv, NEW s \in Sessions, NEW m \in Meetings, End(s, m) PROVE GraceStep
<1>1. status[m] = "in_progress" /\ status'[m] = "ended"
  BY DEF End, CanEnd, RoomInv, TypeOK
<1>2. \A n \in Meetings : n # m => redis'[n] = redis[n]
  BY DEF End, RoomInv, TypeOK
<1> QED
  BY <1>1, <1>2 DEF GraceStep

LEMMA GraceWall == ASSUME RoomInv, NEW n, redis' = WallLater(n) PROVE GraceStep
<1>1. \A m \in Meetings, u \in Users : redis'[m][u].in = redis[m][u].in
  <2> SUFFICES ASSUME NEW m \in Meetings, NEW u \in Users PROVE redis'[m][u].in = redis[m][u].in
    OBVIOUS
  <2>1. redis[m][u] \in RedisMember
    BY DEF RoomInv, TypeOK
  <2>2. PICK d, x : redis'[m][u] = [redis[m][u] EXCEPT !.deadline = d, !.index = x]
    BY DEF WallLater
  <2> QED
    BY <2>1, <2>2 DEF RedisMember
<1> QED
  BY <1>1 DEF GraceStep

(* While a disconnected member's local deadline runs, only the end of the  *)
(* meeting takes the member out of the set in Redis: no expiry command,    *)
(* early or stale, no correction of the wall clock, no failed write of a   *)
(* join and no other device's leave does.                                  *)
THEOREM GraceIsKept == Spec => GraceKept
<1>1. RoomInv /\ [Next]_vars => [GraceStep]_vars
  <2> SUFFICES ASSUME RoomInv, Next PROVE GraceStep
    OBVIOUS
  <2>1. ASSUME UNCHANGED redis PROVE GraceStep
    BY <2>1 DEF GraceStep
  <2>2. ASSUME NEW s \in Sessions, Open(s) \/ Close(s) \/ DisconnectUnbound(s) \/ Disconnect(s)
        PROVE GraceStep
    BY <2>1, <2>2, GraceDisconnect DEF Open, Close, DisconnectUnbound
  <2>3. ASSUME NEW s \in Sessions, NEW m \in Meetings, NEW resuming \in BOOLEAN, BeginJoin(s, m, resuming)
        PROVE GraceStep
    BY <2>1, <2>3 DEF BeginJoin
  <2>4. ASSUME NEW s \in Sessions, NEW m \in Meetings, Leave(s, m) \/ LeaveFailed(s, m) PROVE GraceStep
    <3>1. Owner[s] \in Users /\ ~InGrace(m, Owner[s])
      BY <2>4, FunctionsAssumption, NoneIsNot, GraceUnbound DEF Leave, LeaveFailed
    <3>2. \E e : redis' = [redis EXCEPT ![m][Owner[s]] = e]
      BY <2>4 DEF Leave, LeaveFailed
    <3> QED
      BY <3>1, <3>2, GraceWrite
  <2>5. ASSUME NEW s \in Sessions, NEW m \in Meetings, Start(s, m) \/ EndFailed(s, m) \/ End(s, m)
        PROVE GraceStep
    BY <2>1, <2>5, GraceEnd DEF Start, EndFailed
  <2>6. ASSUME NEW m \in Meetings, EndJoin(m) PROVE GraceStep
    BY <2>6, GraceJoin
  <2>7. ASSUME NEW m \in Meetings, NEW u \in Users, ExpireMember(m, u) PROVE GraceStep
    BY <2>7, GraceExpire
  <2>8. ASSUME NEW refused \in SUBSET Meetings, Scan(refused) PROVE GraceStep
    BY <2>1, <2>8 DEF Scan
  <2>9. CASE Tick \/ WallJump \/ Restart
    BY <2>1, <2>9, GraceWall DEF Tick, WallJump, Restart
  <2> QED
    BY <2>2, <2>3, <2>4, <2>5, <2>6, <2>7, <2>8, <2>9 DEF Next
<1> QED
  BY <1>1, RoomInvariant, PTL DEF Spec, GraceKept, GraceStep

-----------------------------------------------------------------------------
(* When no storage call fails.                                             *)

LEMMA NoFailure ==
    ASSUME MaxFaults = 0, RoomInv, NEW n \in Nat, Fail(n) PROVE n = 0 /\ UNCHANGED faults
  BY DEF RoomInv, TypeOK, Fail

LEMMA NoJoinFailed == ASSUME MaxFaults = 0, RoomInv, NEW m, JoinFailed(m) PROVE FALSE
<1>1. PICK call \in {"sadd", "part", "presence", "state", "members"}, undone \in BOOLEAN :
        Fail((IF call = "part" /\ ~undone THEN 0 ELSE 1) + (IF undone THEN 0 ELSE 1))
  BY DEF JoinFailed
<1> QED
  BY <1>1, NoFailure

(* A meeting that has ended and is empty stays so.                         *)
EmptyMeeting(m) ==
    /\ sessions[m] = {} /\ \A u \in Users : ~redis[m][u].in
    /\ \A u \in Users : members[m][u] = None
    /\ \A s \in Sessions : bound[s] # m

LEMMA EndEmpties ==
    ASSUME MaxFaults = 0, RoomInv, NEW s \in Sessions, NEW m \in Meetings, End(s, m)
    PROVE  EmptyMeeting(m)'
<1>1. sessions'[m] = {} /\ \A u \in Users : members'[m][u] = None
  BY DEF End, RoomInv, TypeOK
<1>2. \A x \in Sessions : bound'[x] # m
  <2>1. \A x \in Sessions : bound'[x] = IF x \in sessions[m] THEN None ELSE bound[x]
    BY DEF End
  <2> QED
    BY <2>1, NoneIsNot DEF RoomInv, BoundSessionIsMember
<1>3. \A u \in Users : ~redis'[m][u].in
  <2>1. ~Fail(1)
    BY NoFailure
  <2>2. PICK hash \in SUBSET Occupants(m), index \in SUBSET Occupants(m), set \in BOOLEAN :
           /\ Fail(Cardinality(hash) + Cardinality(index) + IF set THEN 1 ELSE 0)
           /\ redis' = [redis EXCEPT ![m] = CleanedRoom(m, hash, index, set)]
    BY <2>1 DEF End
  <2>3. set = FALSE
    <3>1. Cardinality(hash) \in Nat /\ Cardinality(index) \in Nat
      BY UserCount DEF Occupants
    <3>2. Cardinality(hash) + Cardinality(index) + (IF set THEN 1 ELSE 0) \in Nat
      BY <3>1
    <3>3. Cardinality(hash) + Cardinality(index) + (IF set THEN 1 ELSE 0) = 0
      BY <2>2, <3>2, NoFailure
    <3> QED
      BY <3>1, <3>3
  <2>4. redis'[m] = CleanedRoom(m, hash, index, set)
    BY <2>2 DEF RoomInv, TypeOK
  <2>5. \A u \in Users : ~redis[m][u].in => redis'[m][u] = redis[m][u]
    BY <2>4 DEF CleanedRoom
  <2>6. \A u \in Users : redis[m][u].in => ~redis'[m][u].in
    <3> SUFFICES ASSUME NEW u \in Users, redis[m][u].in PROVE ~redis'[m][u].in
      OBVIOUS
    <3>1. PICK r \in {"", redis[m][u].room_state}, d \in {None, redis[m][u].deadline},
               x \in {None, redis[m][u].index} :
             redis'[m][u] = [in |-> set, room_state |-> r, deadline |-> d, index |-> x]
      BY <2>4 DEF CleanedRoom
    <3>2. PICK e : e = [in |-> FALSE, room_state |-> r, deadline |-> d, index |-> x]
      OBVIOUS
    <3>3. ~e.in
      BY <3>2
    <3>4. redis'[m][u] = e
      BY <2>3, <3>1, <3>2
    <3> QED
      BY <3>3, <3>4
  <2> QED
    BY <2>5, <2>6
<1> QED
  BY <1>1, <1>2, <1>3 DEF EmptyMeeting

LEMMA EmptyStays ==
    ASSUME MaxFaults = 0, RoomInv, RoomInv', Next, NEW m \in Meetings, status[m] = "ended", EmptyMeeting(m)
    PROVE  EmptyMeeting(m)'
<1>0. \A u \in Users : redis[m][u] \in RedisMember
  BY DEF RoomInv, TypeOK
<1>1. ASSUME UNCHANGED <<sessions, members, bound>>,
             \A u \in Users : redis'[m][u].in => redis[m][u].in
      PROVE  EmptyMeeting(m)'
  BY <1>1 DEF EmptyMeeting
<1>2. ASSUME NEW s \in Sessions, Open(s) \/ Close(s) PROVE EmptyMeeting(m)'
  BY <1>2 DEF Open, Close, EmptyMeeting
<1>3. ASSUME NEW s \in Sessions, DisconnectUnbound(s) PROVE EmptyMeeting(m)'
  BY <1>3, NoneIsNot DEF DisconnectUnbound, Forget, Unlinked, EmptyMeeting, RoomInv, TypeOK
<1>4. ASSUME NEW s \in Sessions, Disconnect(s) PROVE EmptyMeeting(m)'
  <2>1. bound[s] # m /\ bound[s] \in Meetings
    BY <1>4 DEF EmptyMeeting, Disconnect, RoomInv, TypeOK
  <2>2. \A u \in Users : redis'[m][u] = redis[m][u]
    <3>1. CASE UpdateRedisOnDisconnect(bound[s], Owner[s])
      <4>1. \E e : redis' = [redis EXCEPT ![bound[s]][Owner[s]] = e]
        BY <2>1, <3>1, FunctionsAssumption, UpdateRedisEntry
      <4> QED
        BY <2>1, <4>1 DEF RoomInv, TypeOK
    <3> QED
      BY <1>4, <3>1 DEF Disconnect
  <2>3. sessions'[m] = {} /\ \A u \in Users : members'[m][u] = None
    BY <1>4, <2>1 DEF Disconnect, Forget, EmptyMeeting, RoomInv, TypeOK
  <2>4. \A x \in Sessions : bound'[x] # m
    BY <1>4, NoneIsNot DEF Disconnect, Forget, EmptyMeeting, RoomInv, TypeOK
  <2> QED
    BY <2>2, <2>3, <2>4 DEF EmptyMeeting
<1>5. ASSUME NEW s \in Sessions, NEW n \in Meetings, NEW resuming \in BOOLEAN, BeginJoin(s, n, resuming)
      PROVE EmptyMeeting(m)'
  BY <1>5 DEF BeginJoin, EmptyMeeting
<1>6. ASSUME NEW s \in Sessions, NEW n \in Meetings, Leave(s, n) PROVE EmptyMeeting(m)'
  <2>1. n # m
    BY <1>6 DEF Leave, EmptyMeeting
  <2> QED
    BY <1>6, <2>1, NoneIsNot DEF Leave, EmptyMeeting, RoomInv, TypeOK
<1>7. ASSUME NEW s \in Sessions, NEW n \in Meetings, LeaveFailed(s, n) \/ EndFailed(s, n)
      PROVE EmptyMeeting(m)'
  <2>1. ~Fail(1)
    BY NoFailure
  <2> QED
    BY <1>7, <2>1 DEF LeaveFailed, EndFailed
<1>8. ASSUME NEW s \in Sessions, NEW n \in Meetings, Start(s, n) PROVE EmptyMeeting(m)'
  BY <1>8 DEF Start, EmptyMeeting, localVars
<1>9. ASSUME NEW s \in Sessions, NEW n \in Meetings, End(s, n) PROVE EmptyMeeting(m)'
  <2>1. n # m
    BY <1>9 DEF End, CanEnd
  <2>2. redis'[m] = redis[m] /\ sessions'[m] = sessions[m] /\ members'[m] = members[m]
        /\ \A x \in Sessions : bound'[x] # m
    BY <1>9, <2>1, NoneIsNot DEF End, EmptyMeeting, RoomInv, TypeOK
  <2> QED
    BY <2>2 DEF EmptyMeeting
<1>10. ASSUME NEW n \in Meetings, EndJoin(n) PROVE EmptyMeeting(m)'
  <2>1. CASE JoinRefused(n)
    BY <2>1 DEF JoinRefused, EmptyMeeting
  <2>2. CASE JoinSucceeds(n)
    <3>0. PICK s, u : s = running[n].session /\ u = Owner[s]
      OBVIOUS
    <3>1. n # m /\ s \in Sessions /\ u \in Users
      BY <1>10, <2>2, <3>0, RequestFields, FunctionsAssumption
         DEF JoinSucceeds, JoinAdmitted, Joinable, EndJoin, RoomInv, TypeOK
    <3>2. redis'[m] = redis[m] /\ sessions'[m] = sessions[m] /\ members'[m] = members[m]
      BY <2>2, <3>1 DEF JoinSucceeds, RoomInv, TypeOK
    <3>3. \A x \in Sessions : bound'[x] # m
      <4>1. Takeover(s, n)
        BY <2>2, <3>0 DEF JoinSucceeds
      <4> QED
        BY <3>1, <4>1, NoneIsNot DEF Takeover, EmptyMeeting
    <3> QED
      BY <3>2, <3>3 DEF EmptyMeeting
  <2> QED
    BY <1>10, <2>1, <2>2, NoJoinFailed DEF EndJoin
<1>11. ASSUME NEW n \in Meetings, NEW u \in Users, ExpireMember(n, u) PROVE EmptyMeeting(m)'
  <2>1. \A v \in Users : redis'[m][v].in => redis[m][v].in
    <3>1. PICK e \in ExpiryWrites(redis[n][u]) : redis' = [redis EXCEPT ![n][u] = e]
      BY <1>11, ExpireEntry
    <3>2. e.in => redis[n][u].in
      <4>1. redis[n][u] \in RedisMember
        BY DEF RoomInv, TypeOK
      <4> QED
        BY <3>1, <4>1, ExpiryWritesFewer
    <3>3. redis'[n][u] = e /\ \A v \in Users : n # m \/ v # u => redis'[m][v] = redis[m][v]
      BY <3>1 DEF RoomInv, TypeOK
    <3> QED
      BY <3>2, <3>3
  <2>2. \A v \in Users : members'[m][v] = members[m][v] \/ members'[m][v] = None
    <3>1. members' = members \/ members' = [members EXCEPT ![n][u] = None]
      BY <1>11 DEF ExpireMember, ExpireNothing, ExpireFailed, ExpireRemoves
    <3>2. members \in [Meetings -> [Users -> Membership \cup {None}]]
      BY DEF RoomInv, TypeOK
    <3> QED
      BY <3>1, <3>2
  <2>3. UNCHANGED <<sessions, bound>>
    BY <1>11 DEF ExpireMember
  <2> QED
    BY <2>1, <2>2, <2>3 DEF EmptyMeeting
<1>12. ASSUME NEW refused \in SUBSET Meetings, Scan(refused) PROVE EmptyMeeting(m)'
  BY <1>12 DEF Scan, EmptyMeeting
<1>13. ASSUME NEW n, redis' = WallLater(n) PROVE \A u \in Users : redis'[m][u].in => redis[m][u].in
  BY <1>0, <1>13 DEF WallLater, RedisMember
<1>14. CASE Tick
  <2>1. UNCHANGED <<sessions, bound>> /\ \A u \in Users : members'[m][u] = None
    BY <1>14 DEF Tick, EmptyMeeting
  <2> QED
    BY <1>13, <1>14, <2>1 DEF Tick, EmptyMeeting
<1>15. CASE WallJump
  BY <1>1, <1>13, <1>15 DEF WallJump, localVars
<1>16. CASE Restart
  BY <1>16 DEF Restart, EmptyMeeting
<1> QED
  BY <1>2, <1>3, <1>4, <1>5, <1>6, <1>7, <1>8, <1>9, <1>10, <1>11, <1>12, <1>14, <1>15, <1>16 DEF Next

EndedInv == \A m \in Meetings : status[m] = "ended" => EmptyMeeting(m)

LEMMA OnlyEndEnds ==
    ASSUME MaxFaults = 0, RoomInv, Next, NEW m \in Meetings, status[m] # "ended", status'[m] = "ended"
    PROVE  \E s \in Sessions : End(s, m)
<1>1. status' # status
  OBVIOUS
<1>2. ~\E s \in Sessions : Open(s) \/ Close(s) \/ DisconnectUnbound(s) \/ Disconnect(s)
  BY <1>1 DEF Open, Close, DisconnectUnbound, Disconnect
<1>3. ~\E s \in Sessions, n \in Meetings :
          \/ \E resuming \in BOOLEAN : BeginJoin(s, n, resuming)
          \/ Leave(s, n) \/ LeaveFailed(s, n)
  BY <1>1 DEF BeginJoin, Leave, LeaveFailed
<1>4. ~\E n \in Meetings : EndJoin(n)
  BY <1>1 DEF EndJoin, JoinRefused, JoinFailed, JoinSucceeds
<1>5. ~(\E n \in Meetings, u \in Users : ExpireMember(n, u))
      /\ ~\E refused \in SUBSET Meetings : Scan(refused)
  BY <1>1 DEF ExpireMember, Scan
<1>6. ~(Tick \/ WallJump \/ Restart)
  BY <1>1 DEF Tick, WallJump, Restart
<1>7. PICK s \in Sessions, n \in Meetings : Start(s, n) \/ EndFailed(s, n) \/ End(s, n)
  BY <1>2, <1>3, <1>4, <1>5, <1>6 DEF Next
<1>8. ~Fail(1)
  BY NoFailure
<1>9. ~Start(s, n)
  BY DEF Start, RoomInv, TypeOK
<1>10. End(s, n)
  BY <1>7, <1>8, <1>9 DEF EndFailed
<1>11. n = m
  BY <1>10 DEF End, RoomInv, TypeOK
<1> QED
  BY <1>10, <1>11

LEMMA EndedNext ==
    ASSUME MaxFaults = 0, RoomInv, RoomInv', EndedInv, [Next]_vars PROVE EndedInv'
<1> SUFFICES ASSUME NEW m \in Meetings, status'[m] = "ended" PROVE EmptyMeeting(m)'
  BY DEF EndedInv
<1>1. CASE UNCHANGED vars
  BY <1>1 DEF vars, localVars, EndedInv, EmptyMeeting
<1>2. CASE Next /\ status[m] = "ended"
  BY <1>2, EmptyStays DEF EndedInv
<1>3. CASE Next /\ status[m] # "ended"
  BY <1>3, OnlyEndEnds, EndEmpties
<1> QED
  BY <1>1, <1>2, <1>3

(* With storage that does not fail, an ended meeting is empty for good:    *)
(* no join, resume or expiry under way when it ended brings anyone back,   *)
(* and Redis, the room and the sessions have nobody left.                  *)
THEOREM EndedIsEmpty == ASSUME MaxFaults = 0 PROVE Spec => []EndedRoomEmpty
<1>1. Init => EndedInv
  BY DEF Init, EndedInv
<1>2. RoomInv /\ RoomInv' /\ EndedInv /\ [Next]_vars => EndedInv'
  BY EndedNext
<1>3. EndedInv => EndedRoomEmpty
  BY DEF EndedInv, EmptyMeeting, EndedRoomEmpty, Occupants
<1> QED
  BY <1>1, <1>2, <1>3, RoomInvariant, PTL DEF Spec

-----------------------------------------------------------------------------
(* When, moreover, the wall clock is not set: what Redis says of a member. *)

SessionsBound == \A m \in Meetings : \A x \in sessions[m] : bound[x] = m

(* A member has a bound session and is active, or has a deadline, is       *)
(* reconnecting, and both deadlines are the same until the local one has   *)
(* passed.                                                                 *)
LinkedTo(e, b, m, u) ==
    /\ e.session # None => e.deadline = None /\ b[e.session] = m /\ Owner[e.session] = u
    /\ e.session = None => e.deadline # None

StoredAs(e, r) ==
    /\ r.in
    /\ e.deadline = None => r.room_state = "active"
    /\ e.deadline # None => /\ r.room_state = "reconnecting" /\ r.deadline # None
                            /\ e.deadline > 0 => r.deadline = e.deadline

MembersStored ==
    \A m \in Meetings, u \in Users : members[m][u] # None =>
        LinkedTo(members[m][u], bound, m, u) /\ StoredAs(members[m][u], redis[m][u])

CalmInv == SessionsBound /\ MembersStored

LEMMA CalmSame ==
    ASSUME CalmInv, UNCHANGED <<bound, sessions, members, redis>> PROVE CalmInv'
  BY DEF CalmInv, SessionsBound, MembersStored, LinkedTo

(* A session linked to a member stays bound unless it is the member's own  *)
(* step that unbinds it.                                                   *)
LEMMA LinkKept ==
    ASSUME NEW e, NEW m, NEW u, LinkedTo(e, bound, m, u),
           e.session # None => bound'[e.session] = bound[e.session]
    PROVE  LinkedTo(e, bound', m, u)
  BY DEF LinkedTo

LEMMA CalmJoin ==
    ASSUME RoomInv, CalmInv, NEW m \in Meetings, running[m] # None, JoinSucceeds(m) PROVE CalmInv'
<1>0. PICK s : s = running[m].session
  OBVIOUS
<1>a. PICK u : u = Owner[s]
  OBVIOUS
<1>1. s \in Sessions /\ u \in Users
  BY <1>0, <1>a, RequestFields, FunctionsAssumption DEF RoomInv, TypeOK
<1>2. user_meetings[u] # None /\ user_meetings[u].meeting = m
  BY <1>0, <1>a DEF RoomInv, JoinOwnsEntry
<1>3. \A n \in Meetings : n # m => members[n][u] = None
  BY <1>1, <1>2 DEF RoomInv, UserIndexAgrees, UserIndexOf
<1>4. bound[s] = None \/ bound[s] = m
  BY <1>a, <1>1, <1>3 DEF RoomInv, TypeOK, BoundSessionIsMember
<1>5. PICK previous : previous = IF members[m][u] = None THEN None ELSE members[m][u].session
  OBVIOUS
<1>6. bound' = [x \in Sessions |-> IF x = s THEN m ELSE IF x = previous THEN None ELSE bound[x]]
  BY <1>0, <1>a, <1>5 DEF JoinSucceeds, Takeover
<1>7. previous # None => bound[previous] = m /\ Owner[previous] = u /\ redis[m][u].in
  BY <1>1, <1>5 DEF CalmInv, MembersStored, LinkedTo, StoredAs
<1>8. SessionsBound'
  <2>1. sessions' = [sessions EXCEPT ![m] = {x \in @ : ~(redis[m][u].in /\ Owner[x] = u)} \cup {s}]
    BY <1>0, <1>a DEF JoinSucceeds
  <2> SUFFICES ASSUME NEW n \in Meetings, NEW x \in sessions'[n] PROVE bound'[x] = n
    BY DEF SessionsBound
  <2>2. CASE x = s /\ n = m
    BY <1>1, <1>6, <2>2
  <2>3. CASE ~(x = s /\ n = m)
    <3>1. x \in sessions[n] /\ x \in Sessions /\ bound[x] = n
      BY <2>1, <2>3 DEF RoomInv, TypeOK, CalmInv, SessionsBound
    <3>2. x # s
      BY <1>4, <2>3, <3>1, NoneIsNot
    <3>3. x # previous
      BY <1>7, <2>1, <3>1, <3>2, NoneIsNot DEF RoomInv, TypeOK
    <3> QED
      BY <1>6, <3>1, <3>2, <3>3
  <2> QED
    BY <2>2, <2>3
<1>9. MembersStored'
  <2>1. PICK t : members' = [members EXCEPT ![m][u] = [session |-> s, token |-> t, deadline |-> None]]
    BY <1>0, <1>a DEF JoinSucceeds
  <2>2. PICK e : e = [session |-> s, token |-> t, deadline |-> None]
    OBVIOUS
  <2>3. e.session = s /\ e.deadline = None
    BY <2>2
  <2>4. members'[m][u] = e
        /\ \A n \in Meetings, v \in Users : n # m \/ v # u => members'[n][v] = members[n][v]
    BY <1>1, <2>1, <2>2 DEF RoomInv, TypeOK
  <2>5. redis' = [redis EXCEPT ![m][u] = Joined(redis[m][u])]
    BY <1>0, <1>a DEF JoinSucceeds
  <2>6. redis'[m][u] = Joined(redis[m][u])
        /\ \A n \in Meetings, v \in Users : n # m \/ v # u => redis'[n][v] = redis[n][v]
    BY <1>1, <2>5 DEF RoomInv, TypeOK
  <2>7. Joined(redis[m][u]).in /\ Joined(redis[m][u]).room_state = "active"
    <3>1. redis[m][u] \in RedisMember
      BY <1>1 DEF RoomInv, TypeOK
    <3>2. Joined(redis[m][u]).in
      BY <3>1 DEF Joined, Activated, RedisMember
    <3> QED
      BY <3>1, <3>2, JoinedFewer
  <2>8. LinkedTo(e, bound', m, u) /\ StoredAs(e, redis'[m][u])
    BY <1>a, <1>1, <1>6, <2>3, <2>6, <2>7, NoneIsNot DEF LinkedTo, StoredAs
  <2> SUFFICES ASSUME NEW n \in Meetings, NEW v \in Users, members'[n][v] # None
               PROVE  LinkedTo(members'[n][v], bound', n, v) /\ StoredAs(members'[n][v], redis'[n][v])
    BY DEF MembersStored
  <2>9. CASE n = m /\ v = u
    BY <2>4, <2>8, <2>9
  <2>10. CASE ~(n = m /\ v = u)
    <3>1. /\ members'[n][v] = members[n][v] /\ members[n][v] # None /\ redis'[n][v] = redis[n][v]
          /\ members[n][v] \in Membership
      BY <2>4, <2>6, <2>10 DEF RoomInv, TypeOK
    <3>2. LinkedTo(members[n][v], bound, n, v) /\ StoredAs(members[n][v], redis[n][v])
      BY <3>1 DEF CalmInv, MembersStored
    <3>3. v # u
      BY <1>3, <2>10, <3>1
    <3>4. ASSUME members[n][v].session # None
          PROVE  bound'[members[n][v].session] = bound[members[n][v].session]
      <4>1. members[n][v].session \in Sessions /\ Owner[members[n][v].session] = v
        BY <3>1, <3>2, <3>4, MemberFields DEF LinkedTo
      <4> QED
        BY <1>a, <1>6, <1>7, <3>3, <3>4, <4>1
    <3> QED
      BY <3>1, <3>2, <3>4, LinkKept
  <2> QED
    BY <2>9, <2>10
<1> QED
  BY <1>8, <1>9 DEF CalmInv

(* What holds of one member, and a step that keeps it.                     *)
MemberStored(m, u) ==
    members[m][u] # None =>
        LinkedTo(members[m][u], bound, m, u) /\ StoredAs(members[m][u], redis[m][u])

LEMMA MemberKept ==
    ASSUME CalmInv, RoomInv, NEW n \in Meetings, NEW v \in Users,
           members'[n][v] = members[n][v], redis'[n][v] = redis[n][v],
           \A x \in Sessions : bound[x] = n /\ Owner[x] = v => bound'[x] = bound[x]
    PROVE  MemberStored(n, v)'
<1> SUFFICES ASSUME members[n][v] # None
             PROVE  LinkedTo(members[n][v], bound', n, v) /\ StoredAs(members[n][v], redis[n][v])
  BY DEF MemberStored
<1>1. LinkedTo(members[n][v], bound, n, v) /\ StoredAs(members[n][v], redis[n][v])
      /\ members[n][v] \in Membership
  BY DEF CalmInv, MembersStored, RoomInv, TypeOK
<1>2. ASSUME members[n][v].session # None
      PROVE  bound'[members[n][v].session] = bound[members[n][v].session]
  <2>1. /\ members[n][v].session \in Sessions
        /\ bound[members[n][v].session] = n /\ Owner[members[n][v].session] = v
    BY <1>1, <1>2, MemberFields DEF LinkedTo
  <2> QED
    BY <2>1
<1> QED
  BY <1>1, <1>2, LinkKept

LEMMA AllStored ==
    ASSUME SessionsBound', \A n \in Meetings, v \in Users : MemberStored(n, v)' PROVE CalmInv'
  BY DEF CalmInv, MembersStored, MemberStored

LEMMA CalmDisconnectUnbound ==
    ASSUME RoomInv, CalmInv, NEW s \in Sessions, DisconnectUnbound(s) PROVE CalmInv'
<1>1. bound[s] = None /\ Forget(s) /\ redis' = redis
      /\ members' = [m \in Meetings |-> [u \in Users |-> Unlinked(members[m][u], s)]]
  BY DEF DisconnectUnbound
<1>2. \A x \in Sessions : bound'[x] = bound[x]
  BY <1>1 DEF Forget, RoomInv, TypeOK
<1>3. SessionsBound'
  BY <1>1, <1>2 DEF CalmInv, SessionsBound, Forget, RoomInv, TypeOK
<1>4. ASSUME NEW n \in Meetings, NEW v \in Users PROVE MemberStored(n, v)'
  <2>1. members[n][v] # None => members[n][v].session # s
    BY <1>1, NoneIsNot DEF CalmInv, MembersStored, LinkedTo
  <2>2. members'[n][v] = members[n][v]
    BY <1>1, <2>1 DEF Unlinked
  <2> QED
    BY <1>1, <1>2, <2>2, MemberKept
<1> QED
  BY <1>3, <1>4, AllStored

(* The disconnect handler marks the member in Redis with the deadline it   *)
(* has here, since the session in the room was its last one.               *)
LEMMA CalmDisconnect ==
    ASSUME MaxFaults = 0, RoomInv, CalmInv, NEW s \in Sessions, Disconnect(s) PROVE CalmInv'
<1>0. PICK m : m = bound[s]
  OBVIOUS
<1>a. PICK u : u = Owner[s]
  OBVIOUS
<1>1. m \in Meetings /\ u \in Users /\ bound[s] # None /\ Forget(s)
  BY <1>0, <1>a, FunctionsAssumption DEF RoomInv, TypeOK, Disconnect
<1>2. members[m][u] # None /\ members[m][u].session = s /\ members[m][u] \in Membership
      /\ members[m][u].deadline = None /\ s \in sessions[m]
  BY <1>0, <1>a, <1>1 DEF RoomInv, TypeOK, BoundSessionIsMember
<1>3. \A x \in Sessions : bound[x] # None /\ Owner[x] = u => x = s
  BY <1>a, <1>1, OneSession DEF OneSessionPerUser, RoomInv
<1>4. ~\E x \in sessions[m] \ {s} : Owner[x] = u
  BY <1>1, <1>3, NoneIsNot DEF CalmInv, SessionsBound, RoomInv, TypeOK
<1>5. UpdateRedisOnDisconnect(m, u)
  BY <1>0, <1>a, <1>2, <1>4 DEF Disconnect
<1>6. redis[m][u].in /\ redis[m][u].room_state = "active"
  BY <1>1, <1>2 DEF CalmInv, MembersStored, StoredAs
<1>7. redis' = [redis EXCEPT ![m][u] = Reconnecting(redis[m][u])]
  <2>1. ~Fail(1)
    BY NoFailure
  <2>2. MarkReconnecting(m, u)
    BY <1>5, <1>6, <2>1 DEF UpdateRedisOnDisconnect
  <2>3. ASSUME NEW lost \in SUBSET {"room_state", "deadline", "index"}, Fail(1 + Cardinality(lost))
        PROVE  FALSE
    <3>1. Cardinality(lost) \in Nat
      BY MarksCount
    <3> QED
      BY <2>3, <3>1, NoFailure
  <2> QED
    BY <2>2, <2>3 DEF MarkReconnecting
<1>8. PICK e : /\ e = [Unlinked(members[m][u], s) EXCEPT !.deadline = Grace]
               /\ members' = [members EXCEPT ![m][u] = e]
  BY <1>0, <1>a, <1>2 DEF Disconnect
<1>9. e.session = None /\ e.deadline = Grace
  <2>1. Unlinked(members[m][u], s) \in Membership /\ Unlinked(members[m][u], s).session = None
    BY <1>2, UnlinkedFacts
  <2> QED
    BY <1>8, <2>1 DEF Membership
<1>10. /\ members'[m][u] = e /\ redis'[m][u] = Reconnecting(redis[m][u])
       /\ \A n \in Meetings, v \in Users : n # m \/ v # u =>
             members'[n][v] = members[n][v] /\ redis'[n][v] = redis[n][v]
  BY <1>1, <1>7, <1>8 DEF RoomInv, TypeOK
<1>11. LinkedTo(e, bound', m, u) /\ StoredAs(e, redis'[m][u])
  <2>1. redis[m][u] \in RedisMember
    BY <1>1 DEF RoomInv, TypeOK
  <2>2. /\ Reconnecting(redis[m][u]).in = redis[m][u].in
        /\ Reconnecting(redis[m][u]).room_state = "reconnecting"
        /\ Reconnecting(redis[m][u]).deadline = Grace
    BY <2>1 DEF Reconnecting, RedisMember
  <2>3. Grace # None
    BY NoneIsNot, BoundsAssumption
  <2> QED
    BY <1>6, <1>9, <1>10, <2>2, <2>3 DEF LinkedTo, StoredAs
<1>12. \A x \in Sessions : x # s => bound'[x] = bound[x]
  BY <1>1 DEF Forget, RoomInv, TypeOK
<1>13. SessionsBound'
  BY <1>1, <1>12 DEF CalmInv, SessionsBound, Forget, RoomInv, TypeOK
<1>14. ASSUME NEW n \in Meetings, NEW v \in Users PROVE MemberStored(n, v)'
  <2>1. CASE n = m /\ v = u
    BY <1>10, <1>11, <2>1 DEF MemberStored
  <2>2. CASE ~(n = m /\ v = u)
    <3>1. \A x \in Sessions : bound[x] = n /\ Owner[x] = v => bound'[x] = bound[x]
      BY <1>0, <1>a, <1>12, <2>2
    <3> QED
      BY <1>10, <2>2, <3>1, MemberKept
  <2> QED
    BY <2>1, <2>2
<1> QED
  BY <1>13, <1>14, AllStored

LEMMA CalmLeave ==
    ASSUME RoomInv, CalmInv, NEW s \in Sessions, NEW m \in Meetings, Leave(s, m) PROVE CalmInv'
<1>0. PICK u : u = Owner[s]
  OBVIOUS
<1>1. u \in Users /\ bound[s] = m /\ members' = [members EXCEPT ![m][u] = None]
      /\ redis' = [redis EXCEPT ![m][u] = Absent] /\ bound' = [bound EXCEPT ![s] = None]
      /\ sessions' = [sessions EXCEPT ![m] = @ \ {s}]
  BY <1>0, FunctionsAssumption DEF Leave
<1>2. /\ members'[m][u] = None
      /\ \A n \in Meetings, v \in Users : n # m \/ v # u =>
             members'[n][v] = members[n][v] /\ redis'[n][v] = redis[n][v]
      /\ \A x \in Sessions : x # s => bound'[x] = bound[x]
  BY <1>1 DEF RoomInv, TypeOK
<1>3. SessionsBound'
  BY <1>1, <1>2 DEF CalmInv, SessionsBound, RoomInv, TypeOK
<1>4. ASSUME NEW n \in Meetings, NEW v \in Users PROVE MemberStored(n, v)'
  <2>1. CASE n = m /\ v = u
    BY <1>2, <2>1 DEF MemberStored
  <2>2. CASE ~(n = m /\ v = u)
    <3>1. \A x \in Sessions : bound[x] = n /\ Owner[x] = v => bound'[x] = bound[x]
      BY <1>0, <1>1, <1>2, <2>2
    <3> QED
      BY <1>2, <2>2, <3>1, MemberKept
  <2> QED
    BY <2>1, <2>2
<1> QED
  BY <1>3, <1>4, AllStored

LEMMA CalmEnd ==
    ASSUME RoomInv, CalmInv, NEW s \in Sessions, NEW m \in Meetings, End(s, m) PROVE CalmInv'
<1>1. /\ sessions'[m] = {} /\ \A u \in Users : members'[m][u] = None
      /\ \A n \in Meetings : n # m =>
            members'[n] = members[n] /\ redis'[n] = redis[n] /\ sessions'[n] = sessions[n]
      /\ \A x \in Sessions : bound'[x] = IF x \in sessions[m] THEN None ELSE bound[x]
  BY DEF End, RoomInv, TypeOK
<1>2. \A x \in Sessions : bound[x] # m => bound'[x] = bound[x]
  BY <1>1 DEF CalmInv, SessionsBound
<1>3. SessionsBound'
  BY <1>1, <1>2 DEF CalmInv, SessionsBound, RoomInv, TypeOK
<1>4. ASSUME NEW n \in Meetings, NEW v \in Users PROVE MemberStored(n, v)'
  <2>1. CASE n = m
    BY <1>1, <2>1 DEF MemberStored
  <2>2. CASE n # m
    <3>1. members'[n][v] = members[n][v] /\ redis'[n][v] = redis[n][v]
      BY <1>1, <2>2
    <3>2. \A x \in Sessions : bound[x] = n /\ Owner[x] = v => bound'[x] = bound[x]
      BY <1>2, <2>2
    <3> QED
      BY <3>1, <3>2, MemberKept
  <2> QED
    BY <2>1, <2>2
<1> QED
  BY <1>3, <1>4, AllStored

LEMMA CalmExpire ==
    ASSUME MaxFaults = 0, RoomInv, CalmInv, NEW m \in Meetings, NEW u \in Users, ExpireMember(m, u)
    PROVE  CalmInv'
<1>1. UNCHANGED <<bound, sessions>>
  BY DEF ExpireMember
<1>2. ~Fail(1)
  BY NoFailure
<1>3. SessionsBound'
  BY <1>1 DEF CalmInv, SessionsBound
<1>4. CASE ExpireNothing(m, u)
  <2>1. members' = members /\ (redis' = redis \/ redis' = [redis EXCEPT ![m][u].index = None])
    BY <1>4 DEF ExpireNothing
  <2>2. \A n \in Meetings, v \in Users :
          /\ redis'[n][v].in = redis[n][v].in /\ redis'[n][v].room_state = redis[n][v].room_state
          /\ redis'[n][v].deadline = redis[n][v].deadline
    <3>1. CASE redis' = redis
      BY <3>1
    <3>2. CASE redis' = [redis EXCEPT ![m][u].index = None]
      <4>1. redis' = [redis EXCEPT ![m][u] = [redis[m][u] EXCEPT !.index = None]]
        BY <3>2 DEF RoomInv, TypeOK
      <4>2. redis'[m][u] = [redis[m][u] EXCEPT !.index = None] /\ redis[m][u] \in RedisMember
            /\ \A n \in Meetings, v \in Users : n # m \/ v # u => redis'[n][v] = redis[n][v]
        BY <4>1 DEF RoomInv, TypeOK
      <4>3. /\ redis'[m][u].in = redis[m][u].in /\ redis'[m][u].room_state = redis[m][u].room_state
            /\ redis'[m][u].deadline = redis[m][u].deadline
        BY <4>2 DEF RedisMember
      <4> QED
        BY <4>2, <4>3
    <3> QED
      BY <2>1, <3>1, <3>2
  <2> QED
    BY <1>1, <1>3, <2>1, <2>2 DEF CalmInv, MembersStored, LinkedTo, StoredAs
<1>5. CASE ExpireRemoves(m, u)
  <2>1. redis' = [redis EXCEPT ![m][u] = Absent] /\ members' = [members EXCEPT ![m][u] = None]
    BY <1>2, <1>5 DEF ExpireRemoves
  <2>2. members'[m][u] = None /\ \A n \in Meetings, v \in Users : n # m \/ v # u =>
             members'[n][v] = members[n][v] /\ redis'[n][v] = redis[n][v]
    BY <2>1 DEF RoomInv, TypeOK
  <2>3. ASSUME NEW n \in Meetings, NEW v \in Users PROVE MemberStored(n, v)'
    <3>1. CASE n = m /\ v = u
      BY <2>2, <3>1 DEF MemberStored
    <3>2. CASE ~(n = m /\ v = u)
      BY <1>1, <2>2, <3>2, MemberKept
    <3> QED
      BY <3>1, <3>2
  <2> QED
    BY <1>3, <2>3, AllStored
<1> QED
  BY <1>2, <1>4, <1>5 DEF ExpireMember, ExpireFailed

(* The two deadlines run down together.                                    *)
LEMMA CalmTick == ASSUME RoomInv, CalmInv, Tick PROVE CalmInv'
<1>1. UNCHANGED <<bound, sessions>>
  BY DEF Tick
<1>2. SessionsBound'
  BY <1>1 DEF CalmInv, SessionsBound
<1>3. ASSUME NEW n \in Meetings, NEW v \in Users PROVE MemberStored(n, v)'
  <2> SUFFICES ASSUME members'[n][v] # None
               PROVE  LinkedTo(members'[n][v], bound', n, v) /\ StoredAs(members'[n][v], redis'[n][v])
    BY DEF MemberStored
  <2>1. members[n][v] # None /\ members[n][v] \in Membership /\ redis[n][v] \in RedisMember
    BY DEF Tick, RoomInv, TypeOK
  <2>2. LinkedTo(members[n][v], bound, n, v) /\ StoredAs(members[n][v], redis[n][v])
    BY <2>1 DEF CalmInv, MembersStored
  <2>3. PICK d, r, x : /\ d = Later(members[n][v].deadline, 1, 0)
                       /\ r = Later(redis[n][v].deadline, 1, -MaxJumps)
                       /\ x = Later(redis[n][v].index, 1, -MaxJumps)
    OBVIOUS
  <2>4. /\ members'[n][v] = [members[n][v] EXCEPT !.deadline = d]
        /\ redis'[n][v] = [redis[n][v] EXCEPT !.deadline = r, !.index = x]
    BY <2>1, <2>3 DEF Tick, WallLater
  <2>5. members'[n][v].session = members[n][v].session /\ members'[n][v].deadline = d
    BY <2>1, <2>4 DEF Membership
  <2>6. redis'[n][v].in = redis[n][v].in /\ redis'[n][v].room_state = redis[n][v].room_state
        /\ redis'[n][v].deadline = r
    BY <2>1, <2>4 DEF RedisMember
  <2>7. CASE members[n][v].deadline = None
    <3>1. d = None
      BY <2>3, <2>7 DEF Later
    <3> QED
      BY <1>1, <2>2, <2>5, <2>6, <2>7, <3>1 DEF LinkedTo, StoredAs
  <2>8. CASE members[n][v].deadline # None
    <3>1. members[n][v].deadline \in 0 .. Grace
      BY <2>1, <2>8, MemberFields
    <3>2. redis[n][v].deadline # None /\ redis[n][v].deadline \in Int
      <4>1. redis[n][v].deadline # None
        BY <2>2, <2>8 DEF StoredAs
      <4>2. redis[n][v].deadline \in WallDeadline
        BY <2>1, EntryFields
      <4> QED
        BY <4>1, <4>2, BoundsAssumption DEF WallDeadline
    <3>3. d \in Int /\ d # None /\ r \in Int /\ r # None
      BY <2>3, <2>8, <3>1, <3>2, NoneIsNot, BoundsAssumption DEF Later
    <3>4. d > 0 => members[n][v].deadline > 0 /\ d = members[n][v].deadline - 1
      BY <2>3, <2>8, <3>1, BoundsAssumption DEF Later
    <3>5. d > 0 => r = d
      <4> SUFFICES ASSUME d > 0 PROVE r = d
        OBVIOUS
      <4>1. redis[n][v].deadline = members[n][v].deadline
        BY <2>2, <2>8, <3>4 DEF StoredAs
      <4> QED
        BY <2>3, <3>1, <3>2, <3>3, <3>4, <4>1, BoundsAssumption DEF Later
    <3> QED
      BY <1>1, <2>2, <2>5, <2>6, <2>8, <3>3, <3>5 DEF LinkedTo, StoredAs
  <2> QED
    BY <2>7, <2>8
<1> QED
  BY <1>2, <1>3, AllStored

LEMMA CalmNext ==
    ASSUME MaxFaults = 0, MaxJumps = 0, RoomInv, CalmInv, [Next]_vars PROVE CalmInv'
<1>1. ASSUME NEW s \in Sessions, Open(s) \/ Close(s) \/ DisconnectUnbound(s) \/ Disconnect(s)
      PROVE CalmInv'
  BY <1>1, CalmSame, CalmDisconnectUnbound, CalmDisconnect DEF Open, Close
<1>2. ASSUME NEW s \in Sessions, NEW m \in Meetings, NEW resuming \in BOOLEAN, BeginJoin(s, m, resuming)
      PROVE CalmInv'
  BY <1>2, CalmSame DEF BeginJoin
<1>3. ~Fail(1)
  BY NoFailure
<1>4. ASSUME NEW s \in Sessions, NEW m \in Meetings,
             Leave(s, m) \/ LeaveFailed(s, m) \/ Start(s, m) \/ EndFailed(s, m) \/ End(s, m)
      PROVE CalmInv'
  BY <1>3, <1>4, CalmSame, CalmLeave, CalmEnd DEF LeaveFailed, Start, EndFailed, localVars
<1>5. ASSUME NEW m \in Meetings, EndJoin(m) PROVE CalmInv'
  BY <1>5, CalmSame, CalmJoin, NoJoinFailed DEF EndJoin, JoinRefused
<1>6. ASSUME NEW m \in Meetings, NEW u \in Users, ExpireMember(m, u) PROVE CalmInv'
  BY <1>6, CalmExpire
<1>7. ASSUME NEW refused \in SUBSET Meetings, Scan(refused) PROVE CalmInv'
  BY <1>7, CalmSame DEF Scan
<1>8. CASE Tick
  BY <1>8, CalmTick
<1>9. CASE WallJump
  BY <1>9 DEF WallJump, RoomInv, TypeOK
<1>10. CASE Restart
  BY <1>10 DEF Restart, CalmInv, SessionsBound, MembersStored
<1>11. CASE UNCHANGED vars
  BY <1>11, CalmSame DEF vars, localVars
<1> QED
  BY <1>1, <1>2, <1>4, <1>5, <1>6, <1>7, <1>8, <1>9, <1>10, <1>11 DEF Next

(* With storage that does not fail and a wall clock that is not set, JOIN  *)
(* from any device of a disconnected member passes every check of the      *)
(* handler as long as the local grace period runs.                         *)
THEOREM RejoinWorks == ASSUME MaxFaults = 0, MaxJumps = 0 PROVE Spec => []RejoinInGrace
<1>1. Init => CalmInv
  BY DEF Init, CalmInv, SessionsBound, MembersStored
<1>2. RoomInv /\ CalmInv /\ [Next]_vars => CalmInv'
  BY CalmNext
<1>3. RoomInv /\ CalmInv /\ EndedRoomEmpty => RejoinInGrace
  <2> SUFFICES ASSUME RoomInv, CalmInv, EndedRoomEmpty, NEW m \in Meetings, NEW s \in Sessions,
                      InGrace(m, Owner[s])
               PROVE  JoinAdmitted(s, m, FALSE)
    BY DEF RejoinInGrace
  <2>1. Owner[s] \in Users
    BY FunctionsAssumption
  <2>2. PICK e : e = members[m][Owner[s]]
    OBVIOUS
  <2>3. e # None /\ e.deadline \in 1 .. Grace /\ e.deadline # None
    BY <2>2, NoneIsNot, BoundsAssumption DEF InGrace
  <2>4. StoredAs(e, redis[m][Owner[s]])
    BY <2>1, <2>2, <2>3 DEF CalmInv, MembersStored
  <2>5. /\ redis[m][Owner[s]].in /\ redis[m][Owner[s]].room_state = "reconnecting"
        /\ redis[m][Owner[s]].deadline = e.deadline
    BY <2>3, <2>4, BoundsAssumption DEF StoredAs
  <2>6. redis[m][Owner[s]].deadline # None /\ ~Passed(redis[m][Owner[s]].deadline)
    BY <2>3, <2>5, BoundsAssumption DEF Passed
  <2>7. Joinable(m)
    BY <2>1, <2>2, <2>3 DEF EndedRoomEmpty, Joinable
  <2> QED
    BY <2>5, <2>6, <2>7 DEF JoinAdmitted
<1> QED
  BY <1>1, <1>2, <1>3, RoomInvariant, EndedIsEmpty, PTL DEF Spec
=============================================================================
