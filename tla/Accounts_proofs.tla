--------------------------- MODULE Accounts_proofs ---------------------------
(***************************************************************************)
(* Proofs about Accounts, for any two accounts, any passwords, any number  *)
(* of requests and of storage errors, timeouts and expiries.               *)
(*                                                                         *)
(* AccountsInv is the inductive invariant.  Requests come and go, so a     *)
(* step is described by After: every request but one is as it was, that    *)
(* one became d, and it is gone if it was answered and read.  A part of    *)
(* the invariant then needs to be looked at for d alone.                   *)
(***************************************************************************)
EXTENDS Accounts, Integers, FiniteSetTheorems, TLAPS

CallFields == {"op", "email", "code", "password", "token", "pc", "open", "x", "result"}

UiFields == {"page", "mode", "account", "remember", "pending", "connecting", "remembered",
             "token", "shown"}

IsSeq(q) == \E S : q \in Seq(S)

\* The steps of the handler of every request.
StepOf(op, pc) ==
  \/ op = "varify" /\ pc \in {"get", "set", "expire", "mail", "answered"}
  \/ op = "register" /\ pc \in {"code", "select", "insert", "id", "answered"}
  \/ op = "reset" /\ pc \in {"code", "update", "answered"}
  \/ op = "login" /\ pc \in {"pwd", "info", "save", "answered"}
  \/ op = "resume" /\ pc \in {"validate", "info", "save", "answered"}
  \/ op = "contacts" /\ pc \in {"validate", "list", "answered"}
  \/ op = "search" /\ pc \in {"validate", "info", "answered"}
  \/ op = "add" /\ pc \in {"validate", "add", "info", "answered"}
  \/ op = "delete" /\ pc \in {"validate", "delete", "answered"}

\* A session of the account.
SessionOf(ts, t, e) == t \in 1..Len(ts) /\ ts[t].email = e

\* A request by itself: where its handler is, and the session it is for.
CallOK(c, ts) ==
  /\ DOMAIN c = CallFields
  /\ StepOf(c.op, c.pc)
  /\ c.result # "none" => c.pc = "answered"
  /\ c.op \in {"register", "reset"} => c.email \in Emails /\ c.password # 0
  /\ (c.op = "login" /\ c.result = "ok") => SessionOf(ts, c.token, c.email)
  /\ c.op \in {"resume", "contacts", "search", "add", "delete"} => c.token \in 1..Len(ts)
  /\ (c.op \in {"contacts", "add", "delete"} /\ c.pc \in {"list", "add", "delete", "info"}) =>
       SessionOf(ts, c.token, c.email)

CallsOK(cs, ts) == \A i \in 1..Len(cs) : CallOK(cs[i], ts)

\* The client waits for a login.
LoginCall(c) == c.op \in {"login", "resume"} /\ c.open

\* What the controller knows of the login it waits for.
Awaited(c, u) ==
  /\ u.page = "login" /\ u.pending /\ ~u.connecting
  /\ c.op = "login" => u.mode = "password" /\ u.account = c.email
  /\ c.op = "resume" => u.mode = "remembered" /\ u.remembered # None /\ u.remembered.token = c.token

Logins(cs, u) ==
  /\ \A i, j \in 1..Len(cs) : LoginCall(cs[i]) /\ LoginCall(cs[j]) => i = j
  /\ \A i \in 1..Len(cs) : LoginCall(cs[i]) => Awaited(cs[i], u)

UiOK(u, ts) ==
  /\ DOMAIN u = UiFields /\ u.shown \in BOOLEAN
  /\ u.connecting => u.pending /\ u.page = "login" /\ u.token \in 1..Len(ts)
  /\ u.page = "shell" => u.token \in 1..Len(ts)
  /\ u.remembered # None => SessionOf(ts, u.remembered.token, u.remembered.account)

\* A registration that has inserted its row.
Winner(c, e) == c.op = "register" /\ c.email = e /\ (c.pc = "id" \/ c.result = "ok")

ResetDone(c, e) == c.op = "reset" /\ c.email = e /\ c.result \in {"ok", "password"}

\* The account e, which has the password p.
WinnersFor(cs, p, e) ==
  /\ \A i, j \in 1..Len(cs) : Winner(cs[i], e) /\ Winner(cs[j], e) => i = j
  /\ \A i \in 1..Len(cs) : Winner(cs[i], e) =>
       p # 0 /\ (p = cs[i].password \/ \E j \in 1..Len(cs) : ResetDone(cs[j], e))

Winners(cs, us) == \A e \in Emails : WinnersFor(cs, us[e], e)

\* A change of the contacts that the server has made, or refused.
Changed(c) == c.op \in {"add", "delete"} /\ c.pc \in {"info", "answered"}

ListedBy(c) == c.op = "contacts" /\ c.pc = "answered" /\ c.result = "ok"

\* The list of the server for the session the client uses.
OnList(u, ts, r) == r[ts[u.token].email] = "on"

Calm(cs, u, ts) ==
  /\ ~u.connecting
  /\ u.token = 0 => u.page # "shell" /\ \A i \in 1..Len(cs) : cs[i].op \notin ContactOps
  /\ u.token # 0 => u.token \in 1..Len(ts)
  /\ \A i \in 1..Len(cs) : cs[i].op \in ContactOps => cs[i].open /\ cs[i].token = u.token
  /\ \A i, j \in 1..Len(cs) : cs[i].op = "contacts" /\ cs[j].op = "contacts" => i = j

\* While nothing went wrong, what is shown, or what a query brings, is the list.
Follows(cs, u, ts, r) ==
  (u.token # 0 /\ \A i \in 1..Len(cs) : ~Changed(cs[i])) =>
    /\ (\A i \in 1..Len(cs) : cs[i].op # "contacts") => (u.shown <=> OnList(u, ts, r))
    /\ \A i \in 1..Len(cs) : ListedBy(cs[i]) => (cs[i].x = 1 <=> OnList(u, ts, r))

\* The list need not be the server's.
Doubtful == upset \/ crossed

Lists(cs, u, bad, ts, r) == ~bad => Calm(cs, u, ts) /\ Follows(cs, u, ts, r)

\* Contacts requests belong to a client that has been logged in.
Sessioned(cs, u, ts) == \A i \in 1..Len(cs) : cs[i].op \in ContactOps => u.token \in 1..Len(ts)

Storage(ts, us) == IsSeq(ts) /\ (\A t \in 1..Len(ts) : DOMAIN ts[t] = {"email", "live"})
                   /\ DOMAIN us = Emails

AccountsInv ==
  /\ IsSeq(calls) /\ Storage(tokens, users)
  /\ CallsOK(calls, tokens) /\ Logins(calls, ui) /\ UiOK(ui, tokens)
  /\ Winners(calls, users) /\ Lists(calls, ui, Doubtful, tokens, rel)
  /\ Sessioned(calls, ui, tokens)

-----------------------------------------------------------------------------
(* Sequences of requests                                                   *)

Replaced(q, p, i, d) ==
  /\ IsSeq(p) /\ Len(p) = Len(q) /\ p[i] = d
  /\ \A k \in 1..Len(q) : k # i => p[k] = q[k]

Grown(q, p, d) ==
  /\ IsSeq(p) /\ Len(q) \in Nat /\ Len(p) = Len(q) + 1 /\ p[Len(q) + 1] = d
  /\ \A k \in 1..Len(q) : p[k] = q[k]

Cut(q, p, i) ==
  /\ IsSeq(p) /\ Len(q) \in Nat /\ Len(p) = Len(q) - 1
  /\ \A k \in 1..Len(p) : p[k] = IF k < i THEN q[k] ELSE q[k + 1]

LEMMA SeqExcept ==
  ASSUME NEW q, IsSeq(q), NEW i \in 1..Len(q), NEW d
  PROVE  Replaced(q, [q EXCEPT ![i] = d], i, d)
<1>1. PICK S : q \in Seq(S)
  BY DEF IsSeq
<1>2. PICK T : T = S \cup {d}
  OBVIOUS
<1>3. q \in Seq(T) /\ d \in T
  BY <1>1, <1>2
<1>4. PICK p : p = [q EXCEPT ![i] = d]
  OBVIOUS
<1>5. p \in Seq(T) /\ Len(p) = Len(q)
  BY <1>3, <1>4
<1>6. p[i] = d /\ \A k \in 1..Len(q) : k # i => p[k] = q[k]
  BY <1>3, <1>4
<1> QED
  BY <1>4, <1>5, <1>6 DEF IsSeq, Replaced

LEMMA SeqAppend ==
  ASSUME NEW q, IsSeq(q), NEW d
  PROVE  Grown(q, Append(q, d), d)
<1>1. PICK S : q \in Seq(S)
  BY DEF IsSeq
<1>2. PICK T : T = S \cup {d}
  OBVIOUS
<1>3. q \in Seq(T) /\ d \in T
  BY <1>1, <1>2
<1>4. PICK p : p = Append(q, d)
  OBVIOUS
<1>5. p \in Seq(T) /\ Len(p) = Len(q) + 1 /\ Len(q) \in Nat
  BY <1>3, <1>4
<1>6. p[Len(q) + 1] = d /\ \A k \in 1..Len(q) : p[k] = q[k]
  BY <1>3, <1>4
<1> QED
  BY <1>4, <1>5, <1>6 DEF IsSeq, Grown

LEMMA ConcatAt ==
  ASSUME NEW S, NEW a \in Seq(S), NEW b \in Seq(S)
  PROVE  /\ a \o b \in Seq(S) /\ Len(a \o b) = Len(a) + Len(b)
         /\ \A k \in 1..(Len(a) + Len(b)) : (a \o b)[k] = IF k <= Len(a) THEN a[k] ELSE b[k - Len(a)]
  OBVIOUS

LEMMA SeqRemove ==
  ASSUME NEW q, IsSeq(q), NEW i \in 1..Len(q)
  PROVE  Cut(q, RemoveAt(q, i), i)
<1>1. PICK S : q \in Seq(S)
  BY DEF IsSeq
<1>2. PICK a, b, p : a = SubSeq(q, 1, i - 1) /\ b = SubSeq(q, i + 1, Len(q)) /\ p = a \o b
  OBVIOUS
<1>3. /\ a \in Seq(S) /\ Len(a) = i - 1 /\ \A k \in 1..(i - 1) : a[k] = q[k]
      /\ Len(q) \in Nat
  BY <1>1, <1>2
<1>4. /\ b \in Seq(S) /\ Len(b) = Len(q) - i
      /\ \A k \in 1..(Len(q) - i) : b[k] = q[k + i]
  BY <1>1, <1>2
<1>5. /\ p \in Seq(S) /\ Len(p) = Len(a) + Len(b)
      /\ \A k \in 1..(Len(a) + Len(b)) : p[k] = IF k <= Len(a) THEN a[k] ELSE b[k - Len(a)]
  <2>1. a \in Seq(S) /\ b \in Seq(S) /\ p = a \o b
    BY <1>2, <1>3, <1>4
  <2> QED
    BY ONLY <2>1, ConcatAt
<1>6. Len(p) = Len(q) - 1
  BY <1>3, <1>4, <1>5
<1>7. ASSUME NEW k \in 1..Len(p)
      PROVE  p[k] = IF k < i THEN q[k] ELSE q[k + 1]
  <2>1. CASE k < i
    <3>1. k \in 1..(Len(a) + Len(b)) /\ k <= Len(a) /\ k \in 1..(i - 1)
      BY <1>3, <1>5, <1>6, <2>1
    <3> QED
      BY <1>3, <1>5, <2>1, <3>1
  <2>2. CASE k >= i
    <3>1. k \in 1..(Len(a) + Len(b)) /\ ~(k <= Len(a))
      BY <1>3, <1>5, <1>6, <2>2
    <3>3. p[k] = b[k - (i - 1)]
      BY <1>3, <1>5, <3>1
    <3>2. k - (i - 1) \in 1..(Len(q) - i) /\ (k - (i - 1)) + i = k + 1
      BY <1>3, <1>6, <2>2
    <3> QED
      BY <1>4, <2>2, <3>2, <3>3
  <2> QED
    BY <1>3, <1>6, <2>1, <2>2
<1>8. Cut(q, p, i)
  BY <1>3, <1>5, <1>6, <1>7 DEF IsSeq, Cut
<1> QED
  BY <1>2, <1>8 DEF RemoveAt

\* A request that is kept after it became d.
Stays(d) == d.open \/ d.pc # "answered" \/ d.op \in {"register", "reset"}

\* The requests of new are those of old, where the i-th became d or is gone.
After(old, new, i, d, f) ==
  /\ IsSeq(new)
  /\ f \in [1..Len(new) -> 1..Len(old)]
  /\ \A j, k \in 1..Len(new) : f[j] = f[k] => j = k
  /\ \A k \in 1..Len(new) : new[k] = IF f[k] = i THEN d ELSE old[f[k]]
  /\ \A k \in 1..Len(new) : f[k] = i => Stays(d)
  /\ \A j \in 1..Len(old) : (j # i \/ Stays(d)) => \E k \in 1..Len(new) : f[k] = j

LEMMA ExceptAfter ==
  ASSUME NEW old, IsSeq(old), NEW i \in 1..Len(old), NEW d, Stays(d), NEW new,
         Replaced(old, new, i, d)
  PROVE  \E f : After(old, new, i, d, f)
<1>1. PICK f : f = [k \in 1..Len(new) |-> k]
  OBVIOUS
<1>2. After(old, new, i, d, f)
  BY <1>1 DEF After, Replaced
<1> QED
  BY <1>2

LEMMA RemoveAfter ==
  ASSUME NEW old, IsSeq(old), NEW i \in 1..Len(old), NEW d, ~Stays(d), NEW q, NEW new,
         Replaced(old, q, i, d), Cut(q, new, i)
  PROVE  \E f : After(old, new, i, d, f)
<1>1. Len(q) = Len(old) /\ \A k \in 1..Len(old) : k # i => q[k] = old[k]
  BY DEF Replaced
<1>2. /\ IsSeq(new) /\ Len(old) \in Nat /\ Len(new) = Len(old) - 1
      /\ \A k \in 1..Len(new) : new[k] = IF k < i THEN q[k] ELSE q[k + 1]
  BY <1>1 DEF Cut
<1>3. PICK n, m : n = Len(new) /\ m = Len(old)
  OBVIOUS
<1>4. n \in Nat /\ m = n + 1 /\ i \in 1..m
  BY <1>2, <1>3
<1>5. PICK f : f = [k \in 1..n |-> IF k < i THEN k ELSE k + 1]
  OBVIOUS
<1>6. ASSUME NEW k \in 1..n
      PROVE  f[k] \in 1..m /\ f[k] # i /\ new[k] = old[f[k]]
  <2>1. CASE k < i
    BY <1>1, <1>2, <1>3, <1>4, <1>5, <2>1
  <2>2. CASE k >= i
    <3>1. f[k] = k + 1 /\ k + 1 \in 1..m /\ k + 1 # i
      BY <1>4, <1>5, <2>2
    <3>2. new[k] = q[k + 1] /\ q[k + 1] = old[k + 1]
      BY <1>1, <1>2, <1>3, <1>4, <2>2, <3>1
    <3> QED
      BY <3>1, <3>2
  <2> QED
    BY <1>4, <2>1, <2>2
<1>7. f \in [1..n -> 1..m]
  BY <1>5, <1>6
<1>8. \A j, k \in 1..n : f[j] = f[k] => j = k
  BY <1>4, <1>5
<1>9. ASSUME NEW j \in 1..m, j # i
      PROVE  \E k \in 1..n : f[k] = j
  <2>1. CASE j < i
    <3>1. j \in 1..n /\ f[j] = j
      BY <1>4, <1>5, <2>1
    <3> QED
      BY <3>1
  <2>2. CASE j > i
    <3>1. j - 1 \in 1..n /\ f[j - 1] = j
      BY <1>4, <1>5, <2>2
    <3> QED
      BY <3>1
  <2> QED
    BY <1>4, <1>9, <2>1, <2>2
<1>10. After(old, new, i, d, f)
  BY <1>2, <1>3, <1>6, <1>7, <1>8, <1>9 DEF After
<1> QED
  BY <1>10

\* What a handler or a reply does to the i-th request.
Updates(i, d) ==
  \/ calls' = Settle([calls EXCEPT ![i] = d], i)
  \/ calls' = [calls EXCEPT ![i] = d] /\ Stays(d)

LEMMA SettleAfter ==
  ASSUME NEW old, IsSeq(old), NEW i \in 1..Len(old), NEW d
  PROVE  \E f : After(old, Settle([old EXCEPT ![i] = d], i), i, d, f)
<1>1. PICK q, new : q = [old EXCEPT ![i] = d] /\ new = Settle(q, i)
  OBVIOUS
<1>2. Replaced(old, q, i, d)
  BY <1>1, SeqExcept
<1>3. q[i] = d
  BY <1>2 DEF Replaced
<1>4. CASE Stays(d)
  <2>1. new = q
    BY <1>1, <1>3, <1>4 DEF Settle, Stays
  <2> QED
    BY <1>1, <1>2, <1>4, <2>1, ExceptAfter
<1>5. CASE ~Stays(d)
  <2>1. new = RemoveAt(q, i)
    BY <1>1, <1>3, <1>5 DEF Settle, Stays
  <2>2. IsSeq(q) /\ i \in 1..Len(q)
    BY <1>2 DEF Replaced
  <2>3. Cut(q, new, i)
    BY <2>1, <2>2, SeqRemove
  <2> QED
    BY <1>1, <1>2, <1>5, <2>3, RemoveAfter
<1> QED
  BY <1>4, <1>5

LEMMA UpdatesAfter ==
  ASSUME IsSeq(calls), NEW i \in 1..Len(calls), NEW d, Updates(i, d)
  PROVE  \E f : After(calls, calls', i, d, f)
<1>1. CASE calls' = Settle([calls EXCEPT ![i] = d], i)
  BY <1>1, SettleAfter
<1>2. CASE calls' = [calls EXCEPT ![i] = d] /\ Stays(d)
  <2>1. Replaced(calls, calls', i, d)
    BY <1>2, SeqExcept
  <2> QED
    BY <1>2, <2>1, ExceptAfter
<1> QED
  BY <1>1, <1>2 DEF Updates

-----------------------------------------------------------------------------
(* The parts of the invariant, when one request became d                   *)

\* Sessions are only added, and keep their account.
Extends(ts, us) ==
  /\ Len(ts) \in Nat /\ Len(us) \in Nat /\ Len(ts) <= Len(us)
  /\ \A t \in 1..Len(ts) : us[t].email = ts[t].email

LEMMA ExtendsSession ==
  ASSUME NEW ts, NEW us, Extends(ts, us)
  PROVE  /\ \A t, e : SessionOf(ts, t, e) => SessionOf(us, t, e)
         /\ \A t \in 1..Len(ts) : t \in 1..Len(us)
  BY DEF Extends, SessionOf

LEMMA ExtendsCall ==
  ASSUME NEW ts, NEW us, Extends(ts, us), NEW c, CallOK(c, ts)
  PROVE  CallOK(c, us)
  BY ExtendsSession DEF CallOK

LEMMA AfterCalls ==
  ASSUME NEW old, NEW new, NEW i \in 1..Len(old), NEW d, NEW f, After(old, new, i, d, f),
         NEW ts, NEW us, Extends(ts, us), CallsOK(old, ts), CallOK(d, us)
  PROVE  CallsOK(new, us)
<1> SUFFICES ASSUME NEW k \in 1..Len(new) PROVE CallOK(new[k], us)
  BY DEF CallsOK
<1>1. CASE f[k] = i
  BY <1>1 DEF After
<1>2. CASE f[k] # i
  <2>1. new[k] = old[f[k]] /\ f[k] \in 1..Len(old)
    BY <1>2 DEF After
  <2> QED
    BY <2>1, ExtendsCall DEF CallsOK
<1> QED
  BY <1>1, <1>2

\* The request waits as before, or no longer.
SameWait(c, d) ==
  LoginCall(d) => /\ LoginCall(c) /\ d.op = c.op
                  /\ c.op = "login" => d.email = c.email
                  /\ c.op = "resume" => d.token = c.token

LEMMA AfterLogins ==
  ASSUME NEW old, NEW new, NEW i \in 1..Len(old), NEW d, NEW f, After(old, new, i, d, f),
         NEW u, Logins(old, u), SameWait(old[i], d)
  PROVE  Logins(new, u)
<1>1. ASSUME NEW k \in 1..Len(new), LoginCall(new[k])
      PROVE  f[k] \in 1..Len(old) /\ LoginCall(old[f[k]]) /\ Awaited(new[k], u)
  <2>1. f[k] \in 1..Len(old)
    BY DEF After
  <2>2. CASE f[k] = i
    <3>1. new[k] = d
      BY <2>2 DEF After
    <3>2. LoginCall(old[i]) /\ Awaited(old[i], u)
      BY <1>1, <3>1 DEF SameWait, Logins
    <3>3. Awaited(d, u)
      BY <1>1, <3>1, <3>2 DEF SameWait, Awaited
    <3> QED
      BY <2>1, <2>2, <3>1, <3>2, <3>3
  <2>3. CASE f[k] # i
    <3>1. new[k] = old[f[k]]
      BY <2>3 DEF After
    <3> QED
      BY <1>1, <2>1, <3>1 DEF Logins
  <2> QED
    BY <2>2, <2>3
<1>2. ASSUME NEW j \in 1..Len(new), NEW k \in 1..Len(new), LoginCall(new[j]), LoginCall(new[k])
      PROVE  j = k
  <2>1. f[j] = f[k]
    BY <1>1, <1>2 DEF Logins
  <2> QED
    BY <2>1 DEF After
<1> QED
  BY <1>1, <1>2 DEF Logins

\* Once the login the client waits for is closed, it waits for none.
LEMMA AfterLoginClosed ==
  ASSUME NEW old, NEW new, NEW i \in 1..Len(old), NEW d, NEW f, After(old, new, i, d, f),
         NEW u, Logins(old, u), LoginCall(old[i]), ~LoginCall(d)
  PROVE  \A k \in 1..Len(new) : ~LoginCall(new[k])
<1> SUFFICES ASSUME NEW k \in 1..Len(new), LoginCall(new[k]) PROVE FALSE
  OBVIOUS
<1>1. f[k] # i /\ f[k] \in 1..Len(old) /\ new[k] = old[f[k]]
  BY DEF After
<1>2. f[k] = i
  BY <1>1 DEF Logins
<1> QED
  BY <1>1, <1>2

\* Nothing is said about the account.
SameAccountFor(c, d, e) ==
  /\ Winner(d, e) => Winner(c, e) /\ d.password = c.password
  /\ ResetDone(c, e) => ResetDone(d, e)

SameAccount(c, d) == \A e : SameAccountFor(c, d, e)

LEMMA AfterWinnersFor ==
  ASSUME NEW old, NEW new, NEW i \in 1..Len(old), NEW d, NEW f, After(old, new, i, d, f),
         NEW p, NEW e, WinnersFor(old, p, e), SameAccountFor(old[i], d, e)
  PROVE  WinnersFor(new, p, e)
<1>1. ASSUME NEW k \in 1..Len(new), Winner(new[k], e)
      PROVE  f[k] \in 1..Len(old) /\ Winner(old[f[k]], e) /\ new[k].password = old[f[k]].password
  BY <1>1 DEF After, SameAccountFor
<1>2. ASSUME NEW j \in 1..Len(old), ResetDone(old[j], e)
      PROVE  \E k \in 1..Len(new) : ResetDone(new[k], e)
  <2>1. CASE j # i
    <3>1. PICK k \in 1..Len(new) : f[k] = j
      BY <2>1 DEF After
    <3>2. new[k] = old[j]
      BY <2>1, <3>1 DEF After
    <3> QED
      BY <1>2, <3>2
  <2>2. CASE j = i
    <3>1. ResetDone(d, e)
      BY <1>2, <2>2 DEF SameAccountFor
    <3>2. Stays(d)
      BY <3>1 DEF ResetDone, Stays
    <3>3. PICK k \in 1..Len(new) : f[k] = i
      BY <3>2 DEF After
    <3>4. new[k] = d
      BY <3>3 DEF After
    <3> QED
      BY <3>1, <3>4
  <2> QED
    BY <2>1, <2>2
<1>3. \A j, k \in 1..Len(new) : Winner(new[j], e) /\ Winner(new[k], e) => j = k
  BY <1>1 DEF WinnersFor, After
<1>4. ASSUME NEW k \in 1..Len(new), Winner(new[k], e)
      PROVE  p # 0 /\ (p = new[k].password \/ \E j \in 1..Len(new) : ResetDone(new[j], e))
  <2>1. f[k] \in 1..Len(old) /\ Winner(old[f[k]], e) /\ new[k].password = old[f[k]].password
    BY <1>1, <1>4
  <2>2. p # 0 /\ (p = old[f[k]].password \/ \E j \in 1..Len(old) : ResetDone(old[j], e))
    BY <2>1 DEF WinnersFor
  <2> QED
    BY <1>2, <2>1, <2>2
<1> QED
  BY <1>3, <1>4 DEF WinnersFor

LEMMA AfterWinners ==
  ASSUME NEW old, NEW new, NEW i \in 1..Len(old), NEW d, NEW f, After(old, new, i, d, f),
         NEW us, Winners(old, us), SameAccount(old[i], d)
  PROVE  Winners(new, us)
  BY AfterWinnersFor DEF Winners, SameAccount

\* A step of a handler on a contacts request, and what it does to the rows.
ListStep(c, d, u, ts, r, rr) ==
  /\ d.op = c.op
  /\ c.op \in ContactOps => d.token = c.token /\ d.open = c.open
  /\ Changed(c) => Changed(d)
  /\ rr = r \/ Changed(d)
  /\ ListedBy(d) => \/ ListedBy(c) /\ d.x = c.x
                    \/ d.x = 1 <=> rr[ts[d.token].email] = "on"

LEMMA AfterLists ==
  ASSUME NEW old, NEW new, NEW i \in 1..Len(old), NEW d, NEW f, After(old, new, i, d, f),
         NEW ts, NEW us, Extends(ts, us), NEW u, NEW bad, NEW r, NEW rr,
         Lists(old, u, bad, ts, r), ListStep(old[i], d, u, us, r, rr)
  PROVE  Lists(new, u, bad, us, rr)
<1> SUFFICES ASSUME ~bad PROVE Calm(new, u, us) /\ Follows(new, u, us, rr)
  BY DEF Lists
<1>1. Calm(old, u, ts) /\ Follows(old, u, ts, r)
  BY DEF Lists
<1>2. \A k \in 1..Len(new) :
        /\ f[k] \in 1..Len(old) /\ new[k].op = old[f[k]].op
        /\ old[f[k]].op \in ContactOps => /\ new[k].token = old[f[k]].token
                                          /\ new[k].open = old[f[k]].open
  BY DEF After, ListStep
<1>3. Calm(new, u, us)
  <2>1. /\ ~u.connecting
        /\ u.token = 0 => u.page # "shell" /\ \A k \in 1..Len(new) : new[k].op \notin ContactOps
        /\ u.token # 0 => u.token \in 1..Len(us)
    BY <1>1, <1>2, ExtendsSession DEF Calm
  <2>2. ASSUME NEW k \in 1..Len(new), new[k].op \in ContactOps
        PROVE  new[k].open /\ new[k].token = u.token
    <3>1. PICK j \in 1..Len(old) : j = f[k]
      BY <1>2
    <3>2. /\ old[j].op \in ContactOps
          /\ new[k].open = old[j].open /\ new[k].token = old[j].token
      BY <1>2, <2>2, <3>1
    <3>3. old[j].open /\ old[j].token = u.token
      BY <1>1, <3>2 DEF Calm
    <3> QED
      BY <3>2, <3>3
  <2>3. \A j, k \in 1..Len(new) : new[j].op = "contacts" /\ new[k].op = "contacts" => j = k
    <3> SUFFICES ASSUME NEW j \in 1..Len(new), NEW k \in 1..Len(new),
                        new[j].op = "contacts", new[k].op = "contacts"
                 PROVE  j = k
      OBVIOUS
    <3>2. /\ f[j] \in 1..Len(old) /\ f[k] \in 1..Len(old)
          /\ old[f[j]].op = "contacts" /\ old[f[k]].op = "contacts"
      BY <1>2
    <3>1. f[j] = f[k]
      BY <1>1, <3>2 DEF Calm
    <3> QED
      BY <3>1 DEF After
  <2> QED
    BY <2>1, <2>2, <2>3 DEF Calm
<1>4. ASSUME u.token # 0, \A k \in 1..Len(new) : ~Changed(new[k])
      PROVE  /\ (\A k \in 1..Len(new) : new[k].op # "contacts") => (u.shown <=> OnList(u, us, rr))
             /\ \A k \in 1..Len(new) : ListedBy(new[k]) => (new[k].x = 1 <=> OnList(u, us, rr))
  <2>1. d.op \in ContactOps => Stays(d)
    BY <1>1 DEF Calm, ListStep, Stays
  <2>2. d.op \in ContactOps => \E k \in 1..Len(new) : new[k] = d
    BY <2>1 DEF After
  <2>3. ~Changed(d)
    BY <1>4, <2>2 DEF Changed, ContactOps
  <2>4. \A j \in 1..Len(old) : j # i => \E k \in 1..Len(new) : new[k] = old[j]
    BY DEF After
  <2>5. \A j \in 1..Len(old) : ~Changed(old[j])
    BY <1>4, <2>3, <2>4 DEF ListStep
  <2>6. rr = r /\ u.token \in 1..Len(ts)
    BY <1>1, <1>4, <2>3 DEF ListStep, Calm
  <2>7. OnList(u, us, rr) <=> OnList(u, ts, r)
    BY <2>6 DEF OnList, Extends
  <2>8. (\A k \in 1..Len(new) : new[k].op # "contacts") => \A j \in 1..Len(old) : old[j].op # "contacts"
    BY <2>2, <2>4 DEF ListStep, ContactOps
  <2>9. (\A k \in 1..Len(new) : new[k].op # "contacts") => (u.shown <=> OnList(u, us, rr))
    BY <1>1, <1>4, <2>5, <2>7, <2>8 DEF Follows
  <2>10. ASSUME NEW k \in 1..Len(new), ListedBy(new[k])
         PROVE  new[k].x = 1 <=> OnList(u, us, rr)
    <3>1. CASE f[k] # i
      <4>1. new[k] = old[f[k]] /\ f[k] \in 1..Len(old)
        BY <3>1 DEF After
      <4> QED
        BY <1>1, <1>4, <2>5, <2>7, <2>10, <4>1 DEF Follows
    <3>2. CASE f[k] = i
      <4>1. new[k] = d
        BY <3>2 DEF After
      <4>2. CASE ListedBy(old[i]) /\ d.x = old[i].x
        BY <1>1, <1>4, <2>5, <2>7, <4>1, <4>2 DEF Follows
      <4>3. CASE d.x = 1 <=> rr[us[d.token].email] = "on"
        <5>1. d.token = u.token
          BY <1>1, <2>10, <4>1 DEF ListedBy, ListStep, Calm, ContactOps
        <5> QED
          BY <4>1, <4>3, <5>1 DEF OnList
      <4> QED
        BY <2>10, <4>1, <4>2, <4>3 DEF ListStep
    <3> QED
      BY <3>1, <3>2
  <2> QED
    BY <2>9, <2>10
<1> QED
  BY <1>3, <1>4 DEF Follows

LEMMA AfterSessioned ==
  ASSUME NEW old, NEW new, NEW i \in 1..Len(old), NEW d, NEW f, After(old, new, i, d, f),
         d.op = old[i].op, NEW u, NEW v, NEW ts, NEW us, Extends(ts, us), Sessioned(old, u, ts),
         v.token = u.token \/ v.token \in 1..Len(us)
  PROVE  Sessioned(new, v, us)
<1> SUFFICES ASSUME NEW k \in 1..Len(new), new[k].op \in ContactOps PROVE v.token \in 1..Len(us)
  BY DEF Sessioned
<1>1. f[k] \in 1..Len(old) /\ old[f[k]].op \in ContactOps
  BY DEF After
<1>2. u.token \in 1..Len(us)
  BY <1>1, ExtendsSession DEF Sessioned
<1> QED
  BY <1>2

-----------------------------------------------------------------------------
(* Steps of the handlers                                                   *)

LEMMA HandlerStep ==
  ASSUME AccountsInv, NEW i \in 1..Len(calls), NEW c, c = calls[i], NEW d, Updates(i, d),
         ui' = ui, Doubtful' = Doubtful, Extends(tokens, tokens'), Storage(tokens', users'),
         CallOK(d, tokens'), SameWait(c, d), ListStep(c, d, ui, tokens', rel, rel'),
         Winners(calls', users')
  PROVE  AccountsInv'
<1>1. PICK f : After(calls, calls', i, d, f)
  BY UpdatesAfter DEF AccountsInv
<1>2. IsSeq(calls')
  BY <1>1 DEF After
<1>3. CallsOK(calls', tokens')
  BY <1>1, AfterCalls DEF AccountsInv
<1>4. Logins(calls', ui')
  BY <1>1, AfterLogins DEF AccountsInv
<1>5. Lists(calls', ui', Doubtful', tokens', rel')
  BY <1>1, AfterLists DEF AccountsInv
<1>6. UiOK(ui', tokens')
  BY ExtendsSession DEF AccountsInv, UiOK
<1>7. Sessioned(calls', ui', tokens')
  BY <1>1, AfterSessioned DEF AccountsInv, ListStep
<1> QED
  BY <1>2, <1>3, <1>4, <1>5, <1>6, <1>7 DEF AccountsInv

LEMMA WinnersKept ==
  ASSUME AccountsInv, NEW i \in 1..Len(calls), NEW d, Updates(i, d),
         SameAccount(calls[i], d), users' = users
  PROVE  Winners(calls', users')
<1>1. PICK f : After(calls, calls', i, d, f)
  BY UpdatesAfter DEF AccountsInv
<1> QED
  BY <1>1, AfterWinners DEF AccountsInv

LEMMA SameTokens ==
  ASSUME AccountsInv, tokens' = tokens
  PROVE  Extends(tokens, tokens')
<1>1. Len(tokens) \in Nat
  BY DEF AccountsInv, Storage, IsSeq
<1> QED
  BY <1>1 DEF Extends

LEMMA CallAt ==
  ASSUME AccountsInv, NEW i \in DOMAIN calls
  PROVE  i \in 1..Len(calls) /\ CallOK(calls[i], tokens)
<1>1. i \in 1..Len(calls)
  BY DEF AccountsInv, IsSeq
<1> QED
  BY <1>1 DEF AccountsInv, CallsOK

\* The handler goes on at p.
Goes(c, d, p) ==
  /\ DOMAIN d = CallFields /\ d.op = c.op /\ d.open = c.open /\ d.password = c.password
  /\ d.token = c.token /\ d.pc = p /\ d.result = c.result

\* The handler answers with r.
Ends(c, d, r) ==
  /\ DOMAIN d = CallFields /\ d.op = c.op /\ d.open = c.open /\ d.password = c.password
  /\ d.token = c.token /\ d.pc = "answered" /\ d.result = r /\ d.email = c.email

LEMMA GoesStep ==
  ASSUME AccountsInv, NEW i \in 1..Len(calls), NEW c, c = calls[i], NEW d, NEW p, Goes(c, d, p),
         calls' = [calls EXCEPT ![i] = d], UNCHANGED <<tokens, users, rel, ui, Doubtful>>,
         p \notin {"answered", "id"}, c.pc # "answered", ~Changed(c), StepOf(c.op, p),
         c.op \in {"login", "register", "reset"} => d.email = c.email,
         (c.op \in {"contacts", "add", "delete"} /\ p \in {"list", "add", "delete", "info"}) =>
            SessionOf(tokens, d.token, d.email)
  PROVE  AccountsInv'
<1>1. CallOK(c, tokens)
  BY DEF AccountsInv, CallsOK
<1>2. c.result = "none"
  BY <1>1 DEF CallOK
<1>3. Updates(i, d)
  BY DEF Updates, Stays, Goes
<1>4. CallOK(d, tokens')
  BY <1>1, <1>2 DEF CallOK, Goes
<1>5. SameWait(c, d)
  BY DEF SameWait, Goes, LoginCall
<1>6. ListStep(c, d, ui, tokens', rel, rel')
  BY DEF ListStep, Goes, ListedBy
<1>7. SameAccount(c, d)
  BY <1>2 DEF SameAccount, SameAccountFor, Goes, Winner, ResetDone
<1>8. Winners(calls', users')
  BY <1>3, <1>7, WinnersKept
<1>9. Extends(tokens, tokens') /\ Storage(tokens', users')
  BY SameTokens DEF AccountsInv
<1> QED
  BY <1>3, <1>4, <1>5, <1>6, <1>8, <1>9, HandlerStep

LEMMA EndsStep ==
  ASSUME AccountsInv, NEW i \in 1..Len(calls), NEW c, c = calls[i], NEW d, NEW r, Ends(c, d, r),
         calls' = Settle([calls EXCEPT ![i] = d], i), UNCHANGED <<users, rel, ui, Doubtful>>,
         Extends(tokens, tokens'), Storage(tokens', users'),
         r # "none", c.pc # "answered",
         r = "ok" => c.op \notin {"login", "contacts"} /\ (c.op = "register" => c.pc = "id")
  PROVE  AccountsInv'
<1>1. CallOK(c, tokens)
  BY DEF AccountsInv, CallsOK
<1>2. c.result = "none"
  BY <1>1 DEF CallOK
<1>3. Updates(i, d)
  BY DEF Updates
<1>4. StepOf(c.op, "answered")
  BY <1>1 DEF CallOK, StepOf
<1>5. CallOK(d, tokens')
  <2>1. CallOK(c, tokens')
    BY <1>1, ExtendsCall
  <2> QED
    BY <1>4, <2>1 DEF CallOK, Ends
<1>6. SameWait(c, d)
  BY DEF SameWait, Ends, LoginCall
<1>7. ListStep(c, d, ui, tokens', rel, rel')
  BY DEF ListStep, Ends, ListedBy, Changed
<1>8. SameAccount(c, d)
  BY <1>2 DEF SameAccount, SameAccountFor, Ends, Winner, ResetDone
<1>9. Winners(calls', users')
  BY <1>3, <1>8, WinnersKept
<1> QED
  BY <1>3, <1>5, <1>6, <1>7, <1>9, HandlerStep

LEMMA GoIs ==
  ASSUME AccountsInv, NEW i \in 1..Len(calls), NEW p, Go(i, p)
  PROVE  \E d : Goes(calls[i], d, p) /\ d.email = calls[i].email /\ calls' = [calls EXCEPT ![i] = d]
<1>1. PICK d : d = [calls[i] EXCEPT !.pc = p]
  OBVIOUS
<1>2. calls' = [calls EXCEPT ![i] = d]
  BY <1>1 DEF Go
<1>3. DOMAIN calls[i] = CallFields
  BY DEF AccountsInv, CallsOK, CallOK
<1>4. Goes(calls[i], d, p) /\ d.email = calls[i].email
  BY <1>1, <1>3 DEF Goes, CallFields
<1> QED
  BY <1>2, <1>4

LEMMA AnswerIs ==
  ASSUME AccountsInv, NEW i \in 1..Len(calls), NEW r, Answer(i, r)
  PROVE  \E d : Ends(calls[i], d, r) /\ calls' = Settle([calls EXCEPT ![i] = d], i)
<1>1. PICK d : d = [calls[i] EXCEPT !.pc = "answered", !.result = r]
  OBVIOUS
<1>2. DOMAIN calls[i] = CallFields
  BY DEF AccountsInv, CallsOK, CallOK
<1>3. DOMAIN calls = 1..Len(calls)
  BY DEF AccountsInv, IsSeq
<1>4. [calls EXCEPT ![i].pc = "answered", ![i].result = r] = [calls EXCEPT ![i] = d]
  BY <1>1, <1>2, <1>3 DEF CallFields
<1>5. calls' = Settle([calls EXCEPT ![i] = d], i)
  BY <1>4 DEF Answer
<1>6. Ends(calls[i], d, r)
  BY <1>1, <1>2 DEF Ends, CallFields
<1> QED
  BY <1>5, <1>6

\* The two, as the handlers use them.
LEMMA GoStep ==
  ASSUME AccountsInv, NEW i \in 1..Len(calls), NEW p, Go(i, p),
         UNCHANGED <<tokens, users, rel, ui, Doubtful>>,
         p \notin {"answered", "id"}, calls[i].pc # "answered", ~Changed(calls[i]),
         StepOf(calls[i].op, p), calls[i].op \notin {"contacts", "add", "delete"}
  PROVE  AccountsInv'
<1>1. PICK d : Goes(calls[i], d, p) /\ d.email = calls[i].email /\ calls' = [calls EXCEPT ![i] = d]
  BY GoIs
<1> QED
  BY <1>1, GoesStep

LEMMA AnswerStep ==
  ASSUME AccountsInv, NEW i \in 1..Len(calls), NEW r, Answer(i, r),
         UNCHANGED <<tokens, users, rel, ui, Doubtful>>, r # "none", calls[i].pc # "answered",
         r = "ok" => /\ calls[i].op \notin {"login", "contacts"}
                     /\ calls[i].op = "register" => calls[i].pc = "id"
  PROVE  AccountsInv'
<1>1. PICK d : Ends(calls[i], d, r) /\ calls' = Settle([calls EXCEPT ![i] = d], i)
  BY AnswerIs
<1>2. Extends(tokens, tokens') /\ Storage(tokens', users')
  BY SameTokens DEF AccountsInv
<1> QED
  BY <1>1, <1>2, EndsStep

\* VarifyServer's handler says nothing about accounts.
LEMMA VarifyStep ==
  ASSUME AccountsInv, NEW i \in DOMAIN calls,
         GetRedis(i) \/ SetCode(i) \/ ExpireCode(i) \/ SendMail(i)
  PROVE  AccountsInv'
<1>1. PICK c : c = calls[i]
  OBVIOUS
<1>2. i \in 1..Len(calls) /\ CallOK(c, tokens)
  BY <1>1, CallAt
<1>3. UNCHANGED <<tokens, users, rel, ui, Doubtful>>
  BY DEF GetRedis, SetCode, ExpireCode, SendMail, Handler, storage, Doubtful, doubts
<1>4. c.pc \in {"get", "set", "expire", "mail"}
  BY <1>1 DEF GetRedis, SetCode, ExpireCode, SendMail, At
<1>5. c.op = "varify"
  BY <1>2, <1>4 DEF CallOK, StepOf
<1>6. ~Changed(c) /\ c.pc # "answered"
  BY <1>4, <1>5 DEF Changed
<1>7. CASE Answer(i, "ok")
  BY <1>1, <1>2, <1>3, <1>5, <1>6, <1>7, AnswerStep
<1>8. CASE Go(i, "set") \/ Go(i, "mail")
  <2>1. StepOf(c.op, "set") /\ StepOf(c.op, "mail")
    BY <1>5 DEF StepOf
  <2> QED
    BY <1>1, <1>2, <1>3, <1>5, <1>6, <1>8, <2>1, GoStep
<1>9. ASSUME NEW p \in {"mail", "expire"}, NEW x,
             calls' = [calls EXCEPT ![i].pc = p, ![i].x = x]
      PROVE  AccountsInv'
  <2>1. PICK d : d = [c EXCEPT !.pc = p, !.x = x]
    OBVIOUS
  <2>2. DOMAIN calls = 1..Len(calls) /\ DOMAIN c = CallFields
    BY <1>2 DEF AccountsInv, IsSeq, CallOK
  <2>3. calls' = [calls EXCEPT ![i] = d]
    BY <1>1, <1>2, <1>9, <2>1, <2>2 DEF CallFields
  <2>4. Goes(c, d, p)
    BY <2>1, <2>2 DEF Goes, CallFields
  <2>5. StepOf(c.op, p) /\ p \notin {"answered", "id"}
    BY <1>5 DEF StepOf
  <2> QED
    BY <1>1, <1>2, <1>3, <1>5, <1>6, <2>3, <2>4, <2>5, GoesStep
<1>10. \/ Answer(i, "ok") \/ Go(i, "set") \/ Go(i, "mail")
       \/ \E p \in {"mail", "expire"} : \E x : calls' = [calls EXCEPT ![i].pc = p, ![i].x = x]
  BY DEF GetRedis, SetCode, ExpireCode, SendMail
<1> QED
  BY <1>7, <1>8, <1>9, <1>10

\* The INSERT of a registration, the only one for its email.
LEMMA InsertStep ==
  ASSUME AccountsInv, NEW i \in 1..Len(calls), At(i, "insert"), users[calls[i].email] = 0,
         users' = [users EXCEPT ![calls[i].email] = calls[i].password], Go(i, "id"),
         UNCHANGED <<tokens, rel, ui, Doubtful>>
  PROVE  AccountsInv'
<1>1. PICK c : c = calls[i]
  OBVIOUS
<1>2. PICK d : Goes(c, d, "id") /\ d.email = c.email /\ calls' = [calls EXCEPT ![i] = d]
  BY <1>1, GoIs
<1>3. CallOK(c, tokens) /\ c.pc = "insert"
  BY <1>1 DEF AccountsInv, CallsOK, At
<1>4. c.op = "register" /\ c.result = "none"
  BY <1>3 DEF CallOK, StepOf
<1>5. c.email \in Emails /\ c.password # 0
  BY <1>3, <1>4 DEF CallOK
<1>6. Updates(i, d)
  BY <1>2 DEF Updates, Stays, Goes
<1>7. CallOK(d, tokens')
  BY <1>2, <1>3, <1>4, <1>5 DEF CallOK, Goes, StepOf
<1>8. SameWait(c, d) /\ ListStep(c, d, ui, tokens', rel, rel')
  BY <1>2, <1>4 DEF SameWait, ListStep, Goes, LoginCall, ListedBy, Changed, ContactOps
<1>9. Extends(tokens, tokens')
  BY SameTokens
<1>10. DOMAIN users = Emails
  BY DEF AccountsInv, Storage
<1>11. Storage(tokens', users')
  BY <1>10 DEF AccountsInv, Storage
<1>12. users'[c.email] = c.password /\ \A e \in Emails : e # c.email => users'[e] = users[e]
  BY <1>1, <1>5, <1>10
<1>13. PICK f : After(calls, calls', i, d, f)
  BY <1>6, UpdatesAfter DEF AccountsInv
<1>14. Winners(calls', users')
  <2> SUFFICES ASSUME NEW e \in Emails PROVE WinnersFor(calls', users'[e], e)
    BY DEF Winners
  <2>1. CASE e = c.email
    <3>1. \A j \in 1..Len(calls) : ~Winner(calls[j], e)
      BY <1>1, <2>1 DEF AccountsInv, Winners, WinnersFor
    <3>2. \A k \in 1..Len(calls') : Winner(calls'[k], e) => f[k] = i /\ calls'[k] = d
      BY <1>13, <3>1 DEF After
    <3>3. \A j, k \in 1..Len(calls') : Winner(calls'[j], e) /\ Winner(calls'[k], e) => j = k
      BY <1>13, <3>2 DEF After
    <3> QED
      BY <1>2, <1>5, <1>12, <2>1, <3>2, <3>3 DEF Goes, WinnersFor
  <2>2. CASE e # c.email
    <3>1. ~Winner(d, e)
      BY <1>2, <2>2 DEF Winner
    <3>2. SameAccountFor(c, d, e)
      BY <1>4, <3>1 DEF SameAccountFor, ResetDone
    <3> QED
      BY <1>1, <1>12, <1>13, <2>2, <3>2, AfterWinnersFor DEF AccountsInv, Winners
  <2> QED
    BY <2>1, <2>2
<1> QED
  BY <1>1, <1>6, <1>7, <1>8, <1>9, <1>11, <1>14, HandlerStep

\* The look at the code, at the start of a registration or of a reset.
LEMMA CodeStep ==
  ASSUME AccountsInv, NEW i \in 1..Len(calls), NEW next, CheckCode(i, next), At(i, "code"),
         UNCHANGED <<tokens, users, rel, ui, Doubtful>>, next \in {"select", "update"},
         StepOf(calls[i].op, next)
  PROVE  AccountsInv'
<1>1. PICK c : c = calls[i]
  OBVIOUS
<1>2. CallOK(c, tokens) /\ c.pc = "code"
  BY <1>1 DEF AccountsInv, CallsOK, At
<1>3. c.op \in {"register", "reset"}
  BY <1>2 DEF CallOK, StepOf
<1>4. CASE Answer(i, "expired")
  BY <1>1, <1>2, <1>4, AnswerStep
<1>5. CASE Answer(i, "varifycode")
  BY <1>1, <1>2, <1>5, AnswerStep
<1>6. CASE Go(i, next)
  BY <1>1, <1>2, <1>3, <1>6, GoStep DEF Changed
<1> QED
  BY <1>4, <1>5, <1>6 DEF CheckCode

LEMMA RegisterStep ==
  ASSUME AccountsInv, NEW i \in DOMAIN calls,
         RegisterUserHandler(i) \/ SelectUser(i) \/ InsertUser(i) \/ LastInsertId(i)
  PROVE  AccountsInv'
<1>1. PICK c : c = calls[i]
  OBVIOUS
<1>2. i \in 1..Len(calls) /\ CallOK(c, tokens)
  BY <1>1, CallAt
<1>3. UNCHANGED <<tokens, rel, ui, Doubtful>>
  BY DEF RegisterUserHandler, SelectUser, InsertUser, LastInsertId, Handler, storage, Doubtful, doubts
<1>4. CASE RegisterUserHandler(i)
  <2>1. At(i, "code") /\ CheckCode(i, "select") /\ c.op = "register" /\ users' = users
    BY <1>1, <1>4 DEF RegisterUserHandler, storage
  <2>2. StepOf(c.op, "select")
    BY <2>1 DEF StepOf
  <2> QED
    BY <1>1, <1>2, <1>3, <2>1, <2>2, CodeStep
<1>5. CASE SelectUser(i)
  <2>1. c.pc = "select" /\ users' = users
    BY <1>1, <1>5 DEF SelectUser, storage, At
  <2>2. c.op = "register"
    BY <1>2, <2>1 DEF CallOK, StepOf
  <2>3. StepOf(c.op, "insert") /\ ~Changed(c)
    BY <2>2 DEF StepOf, Changed
  <2>4. CASE Answer(i, "exist")
    BY <1>1, <1>2, <1>3, <2>1, <2>4, AnswerStep
  <2>5. CASE Go(i, "insert")
    BY <1>1, <1>2, <1>3, <2>1, <2>2, <2>3, <2>5, GoStep
  <2> QED
    BY <1>5, <2>4, <2>5 DEF SelectUser
<1>6. CASE InsertUser(i)
  <2>1. CASE Answer(i, "exist") /\ users' = users
    <3>1. c.pc = "insert"
      BY <1>1, <1>6 DEF InsertUser, At
    <3> QED
      BY <1>1, <1>2, <1>3, <2>1, <3>1, AnswerStep
  <2>2. CASE /\ users[calls[i].email] = 0 /\ Go(i, "id")
             /\ users' = [users EXCEPT ![calls[i].email] = calls[i].password]
    <3>1. At(i, "insert")
      BY <1>6 DEF InsertUser
    <3> QED
      BY <1>2, <1>3, <2>2, <3>1, InsertStep
  <2> QED
    BY <1>6, <2>1, <2>2 DEF InsertUser
<1>7. CASE LastInsertId(i)
  <2>1. c.pc = "id" /\ Answer(i, "ok") /\ users' = users
    BY <1>1, <1>7 DEF LastInsertId, storage, At
  <2>2. c.op = "register"
    BY <1>2, <2>1 DEF CallOK, StepOf
  <2> QED
    BY <1>1, <1>2, <1>3, <2>1, <2>2, AnswerStep
<1> QED
  BY <1>4, <1>5, <1>6, <1>7

\* A reset changes the password of an account that exists, and says so.
LEMMA UpdateStep ==
  ASSUME AccountsInv, NEW i \in 1..Len(calls), At(i, "update"),
         UpdatePwd(calls[i].email, calls[i].password),
         NEW r \in {"ok", "password"}, Answer(i, r), UNCHANGED <<tokens, rel, ui, Doubtful>>
  PROVE  AccountsInv'
<1>1. PICK c : c = calls[i]
  OBVIOUS
<1>2. PICK d : Ends(c, d, r) /\ calls' = Settle([calls EXCEPT ![i] = d], i)
  BY <1>1, AnswerIs
<1>3. CallOK(c, tokens) /\ c.pc = "update"
  BY <1>1 DEF AccountsInv, CallsOK, At
<1>4. c.op = "reset" /\ c.result = "none"
  BY <1>3 DEF CallOK, StepOf
<1>5. c.email \in Emails /\ c.password # 0
  BY <1>3, <1>4 DEF CallOK
<1>6. Updates(i, d)
  BY <1>2 DEF Updates
<1>7. CallOK(d, tokens')
  BY <1>2, <1>3, <1>4, <1>5 DEF CallOK, Ends, StepOf
<1>8. SameWait(c, d) /\ ListStep(c, d, ui, tokens', rel, rel')
  BY <1>2, <1>4 DEF SameWait, ListStep, Ends, LoginCall, ListedBy, Changed, ContactOps
<1>9. Extends(tokens, tokens')
  BY SameTokens
<1>10. DOMAIN users = Emails
  BY DEF AccountsInv, Storage
<1>11. users' = [users EXCEPT ![c.email] = IF users[c.email] # 0 THEN c.password ELSE 0]
  BY <1>1 DEF UpdatePwd
<1>12. Storage(tokens', users')
  BY <1>10, <1>11 DEF AccountsInv, Storage
<1>13. /\ users[c.email] # 0 => users'[c.email] # 0
       /\ \A e \in Emails : e # c.email => users'[e] = users[e]
  BY <1>5, <1>10, <1>11
<1>14. PICK f : After(calls, calls', i, d, f)
  BY <1>6, UpdatesAfter DEF AccountsInv
<1>15. \A e : SameAccountFor(c, d, e)
  BY <1>2, <1>4 DEF SameAccountFor, Winner, ResetDone, Ends
<1>16. ASSUME NEW e \in Emails PROVE WinnersFor(calls', users'[e], e)
  <2>1. WinnersFor(calls, users[e], e)
    BY DEF AccountsInv, Winners
  <2>2. WinnersFor(calls', users[e], e)
    BY <1>1, <1>14, <1>15, <2>1, AfterWinnersFor
  <2>3. CASE e # c.email
    BY <1>13, <2>2, <2>3
  <2>4. CASE e = c.email
    <3>1. ResetDone(d, e) /\ Stays(d)
      BY <1>2, <1>4, <2>4 DEF ResetDone, Ends, Stays
    <3>2. \E k \in 1..Len(calls') : ResetDone(calls'[k], e)
      BY <1>14, <3>1 DEF After
    <3> QED
      BY <1>13, <2>2, <2>4, <3>2 DEF WinnersFor
  <2> QED
    BY <2>3, <2>4
<1>17. Winners(calls', users')
  BY <1>16 DEF Winners
<1> QED
  BY <1>1, <1>6, <1>7, <1>8, <1>9, <1>12, <1>17, HandlerStep

LEMMA ResetStep ==
  ASSUME AccountsInv, NEW i \in DOMAIN calls, ResetPwdHandler(i)
  PROVE  AccountsInv'
<1>1. i \in 1..Len(calls)
  BY CallAt
<1>2. UNCHANGED <<tokens, rel, ui, Doubtful>> /\ calls[i].op = "reset"
  BY DEF ResetPwdHandler, Handler, storage, Doubtful, doubts
<1>3. CASE At(i, "code") /\ CheckCode(i, "update") /\ UNCHANGED storage
  <2>1. StepOf(calls[i].op, "update") /\ users' = users
    BY <1>2, <1>3 DEF StepOf, storage
  <2> QED
    BY <1>1, <1>2, <1>3, <2>1, CodeStep
<1>4. CASE /\ At(i, "update") /\ UpdatePwd(calls[i].email, calls[i].password)
           /\ Answer(i, IF users[calls[i].email] # 0 THEN "ok" ELSE "password")
  <2>1. PICK r \in {"ok", "password"} : Answer(i, r)
    BY <1>4
  <2> QED
    BY <1>1, <1>2, <1>4, <2>1, UpdateStep
<1> QED
  BY <1>3, <1>4 DEF ResetPwdHandler

LEMMA SessionAdded ==
  ASSUME AccountsInv, NEW e, tokens' = Append(tokens, [email |-> e, live |-> TRUE]), users' = users
  PROVE  /\ Extends(tokens, tokens') /\ Storage(tokens', users')
         /\ SessionOf(tokens', Len(tokens) + 1, e)
<1>1. PICK s : s = [email |-> e, live |-> TRUE]
  OBVIOUS
<1>2. Grown(tokens, tokens', s)
  BY <1>1, SeqAppend DEF AccountsInv, Storage
<1>3. DOMAIN s = {"email", "live"} /\ s.email = e
  BY <1>1
<1>4. /\ IsSeq(tokens') /\ Len(tokens) \in Nat /\ Len(tokens') = Len(tokens) + 1
      /\ tokens'[Len(tokens) + 1] = s /\ \A k \in 1..Len(tokens) : tokens'[k] = tokens[k]
  BY <1>2 DEF Grown
<1>5. Extends(tokens, tokens')
  BY <1>4 DEF Extends
<1>6. ASSUME NEW t \in 1..Len(tokens') PROVE DOMAIN tokens'[t] = {"email", "live"}
  <2>1. t \in 1..Len(tokens) \/ t = Len(tokens) + 1
    BY <1>4
  <2> QED
    BY <1>3, <1>4, <2>1 DEF AccountsInv, Storage
<1>7. SessionOf(tokens', Len(tokens) + 1, e)
  BY <1>3, <1>4 DEF SessionOf
<1> QED
  BY <1>4, <1>5, <1>6, <1>7 DEF AccountsInv, Storage

LEMMA SessionTimed ==
  ASSUME AccountsInv, NEW t \in 1..Len(tokens), NEW v, tokens' = [tokens EXCEPT ![t].live = v],
         users' = users
  PROVE  Extends(tokens, tokens') /\ Storage(tokens', users')
<1>1. PICK s : s = [tokens[t] EXCEPT !.live = v]
  OBVIOUS
<1>2. tokens' = [tokens EXCEPT ![t] = s]
  BY <1>1
<1>3. Replaced(tokens, tokens', t, s)
  <2>1. IsSeq(tokens)
    BY DEF AccountsInv, Storage
  <2>2. Replaced(tokens, [tokens EXCEPT ![t] = s], t, s)
    BY <2>1, SeqExcept
  <2> QED
    BY <1>2, <2>2
<1>4. DOMAIN s = {"email", "live"} /\ s.email = tokens[t].email
  BY <1>1 DEF AccountsInv, Storage
<1>5. /\ IsSeq(tokens') /\ Len(tokens') = Len(tokens)
      /\ tokens'[t] = s /\ \A k \in 1..Len(tokens) : k # t => tokens'[k] = tokens[k]
  BY <1>3 DEF Replaced
<1>6. Len(tokens) \in Nat
  BY DEF AccountsInv, Storage, IsSeq
<1>7. Extends(tokens, tokens')
  BY <1>4, <1>5, <1>6 DEF Extends
<1>8. \A k \in 1..Len(tokens') : DOMAIN tokens'[k] = {"email", "live"}
  BY <1>4, <1>5 DEF AccountsInv, Storage
<1> QED
  BY <1>5, <1>7, <1>8 DEF AccountsInv, Storage

\* A session is validated, and gives the request its account.
LEMMA ValidateStep ==
  ASSUME AccountsInv, NEW i \in 1..Len(calls), NEW next, ValidateSession(i, next),
         UNCHANGED <<users, ui, Doubtful>>, next \in {"info", "list", "add", "delete"},
         StepOf(calls[i].op, next)
  PROVE  AccountsInv'
<1>1. PICK c : c = calls[i]
  OBVIOUS
<1>2. CallOK(c, tokens) /\ c.pc = "validate" /\ UNCHANGED <<tokens, rel>>
  BY <1>1 DEF AccountsInv, CallsOK, At, ValidateSession
<1>3. c.op \in {"resume", "contacts", "search", "add", "delete"}
  BY <1>2 DEF CallOK, StepOf
<1>4. CASE Answer(i, "invalid session")
  BY <1>1, <1>2, <1>4, AnswerStep
<1>5. CASE ~Answer(i, "invalid session")
  <2>1. PICK e : /\ e = IF c.op = "search" THEN c.email ELSE tokens[c.token].email
                 /\ calls' = [calls EXCEPT ![i].pc = next, ![i].email = e]
    BY <1>1, <1>5 DEF ValidateSession
  <2>2. PICK d : d = [c EXCEPT !.pc = next, !.email = e]
    OBVIOUS
  <2>3. DOMAIN calls = 1..Len(calls) /\ DOMAIN c = CallFields
    BY <1>2 DEF AccountsInv, IsSeq, CallOK
  <2>4. calls' = [calls EXCEPT ![i] = d]
    BY <1>1, <2>1, <2>2, <2>3 DEF CallFields
  <2>5. Goes(c, d, next) /\ d.email = e
    BY <2>2, <2>3 DEF Goes, CallFields
  <2>6. c.token \in 1..Len(tokens)
    BY <1>2, <1>3 DEF CallOK
  <2>7. c.op \in {"contacts", "add", "delete"} => SessionOf(tokens, d.token, d.email)
    BY <2>1, <2>5, <2>6 DEF SessionOf, Goes
  <2>8. ~Changed(c)
    BY <1>2 DEF Changed
  <2> QED
    BY <1>1, <1>2, <1>3, <2>4, <2>5, <2>7, <2>8, GoesStep
<1> QED
  BY <1>4, <1>5

LEMMA PasswordLoginStep ==
  ASSUME AccountsInv, NEW i \in DOMAIN calls, PasswordLogin(i)
  PROVE  AccountsInv'
<1>1. PICK c : c = calls[i]
  OBVIOUS
<1>2. i \in 1..Len(calls) /\ CallOK(c, tokens)
  BY <1>1, CallAt
<1>3. UNCHANGED <<users, rel, ui, Doubtful>> /\ c.op = "login"
  BY <1>1 DEF PasswordLogin, Handler, Doubtful, doubts
<1>4. StepOf(c.op, "info") /\ StepOf(c.op, "save") /\ ~Changed(c)
  BY <1>3 DEF StepOf, Changed
<1>5. CASE c.pc \in {"pwd", "info"}
  <2>1. UNCHANGED tokens /\ \/ Go(i, "info") \/ Go(i, "save")
                            \/ \E r \in {"mysql", "invalid password"} : Answer(i, r)
    BY <1>1, <1>5 DEF PasswordLogin, At, CheckPwd
  <2>2. CASE Go(i, "info")
    BY <1>1, <1>2, <1>3, <1>4, <1>5, <2>1, <2>2, GoStep
  <2>3. CASE Go(i, "save")
    BY <1>1, <1>2, <1>3, <1>4, <1>5, <2>1, <2>3, GoStep
  <2>4. ASSUME NEW r \in {"mysql", "invalid password"}, Answer(i, r) PROVE AccountsInv'
    BY <1>1, <1>2, <1>3, <1>5, <2>1, <2>4, AnswerStep
  <2> QED
    BY <2>1, <2>2, <2>3, <2>4
<1>6. CASE c.pc = "save"
  <2>1. /\ SaveSession(GenerateToken, c.email)
        /\ calls' = Settle([calls EXCEPT ![i].pc = "answered", ![i].result = "ok",
                                         ![i].token = GenerateToken], i)
    BY <1>1, <1>6 DEF PasswordLogin, At
  <2>2. PICK t : t = Len(tokens) + 1
    OBVIOUS
  <2>3. Len(tokens) \in Nat
    BY DEF AccountsInv, Storage, IsSeq
  <2>4. tokens' = Append(tokens, [email |-> c.email, live |-> TRUE])
    BY <2>1, <2>3 DEF SaveSession, GenerateToken
  <2>5. Extends(tokens, tokens') /\ Storage(tokens', users') /\ SessionOf(tokens', t, c.email)
    BY <1>3, <2>2, <2>4, SessionAdded
  <2>6. PICK d : d = [c EXCEPT !.pc = "answered", !.result = "ok", !.token = t]
    OBVIOUS
  <2>7. DOMAIN calls = 1..Len(calls) /\ DOMAIN c = CallFields
    BY <1>2 DEF AccountsInv, IsSeq, CallOK
  <2>8. [calls EXCEPT ![i].pc = "answered", ![i].result = "ok", ![i].token = t]
          = [calls EXCEPT ![i] = d]
    BY <1>1, <2>6, <2>7 DEF CallFields
  <2>9. Updates(i, d)
    BY <2>1, <2>2, <2>8 DEF Updates, GenerateToken
  <2>10. /\ DOMAIN d = CallFields /\ d.op = "login" /\ d.pc = "answered" /\ d.result = "ok"
         /\ d.token = t /\ d.email = c.email /\ d.open = c.open
    BY <1>3, <2>6, <2>7 DEF CallFields
  <2>11. CallOK(d, tokens')
    BY <2>5, <2>10 DEF CallOK, StepOf
  <2>12. SameWait(c, d) /\ ListStep(c, d, ui, tokens', rel, rel')
    BY <1>3, <2>10 DEF SameWait, ListStep, LoginCall, ListedBy, Changed, ContactOps
  <2>13. SameAccount(c, d)
    BY <1>3, <2>10 DEF SameAccount, SameAccountFor, Winner, ResetDone
  <2>14. Winners(calls', users')
    BY <1>1, <1>2, <1>3, <2>9, <2>13, WinnersKept
  <2> QED
    BY <1>1, <1>2, <1>3, <2>5, <2>9, <2>11, <2>12, <2>14, HandlerStep
<1> QED
  BY <1>1, <1>5, <1>6 DEF PasswordLogin, At

LEMMA ResumeLoginStep ==
  ASSUME AccountsInv, NEW i \in DOMAIN calls, ResumeLogin(i)
  PROVE  AccountsInv'
<1>1. PICK c : c = calls[i]
  OBVIOUS
<1>2. i \in 1..Len(calls) /\ CallOK(c, tokens)
  BY <1>1, CallAt
<1>3. UNCHANGED <<users, rel, ui, Doubtful>> /\ c.op = "resume"
  BY <1>1 DEF ResumeLogin, Handler, Doubtful, doubts
<1>4. StepOf(c.op, "info") /\ StepOf(c.op, "save") /\ ~Changed(c)
  BY <1>3 DEF StepOf, Changed
<1>5. CASE ValidateSession(i, "info")
  BY <1>1, <1>2, <1>3, <1>4, <1>5, ValidateStep
<1>6. CASE At(i, "info") /\ UNCHANGED tokens /\ (Go(i, "save") \/ Answer(i, "mysql"))
  <2>1. c.pc = "info"
    BY <1>1, <1>6 DEF At
  <2>2. CASE Go(i, "save")
    BY <1>1, <1>2, <1>3, <1>4, <1>6, <2>1, <2>2, GoStep
  <2>3. CASE Answer(i, "mysql")
    BY <1>1, <1>2, <1>3, <1>6, <2>1, <2>3, AnswerStep
  <2> QED
    BY <1>6, <2>2, <2>3
<1>7. CASE At(i, "save") /\ SaveSession(c.token, c.email) /\ Answer(i, "ok")
  <2>1. c.pc = "save"
    BY <1>1, <1>7 DEF At
  <2>2. c.token \in 1..Len(tokens) /\ Len(tokens) \in Nat
    BY <1>2, <1>3 DEF CallOK, AccountsInv, Storage, IsSeq
  <2>3. tokens' = [tokens EXCEPT ![c.token].live = TRUE]
    BY <1>7, <2>2 DEF SaveSession
  <2>4. Extends(tokens, tokens') /\ Storage(tokens', users')
    BY <1>3, <2>2, <2>3, SessionTimed
  <2>5. PICK d : Ends(c, d, "ok") /\ calls' = Settle([calls EXCEPT ![i] = d], i)
    BY <1>1, <1>2, <1>7, AnswerIs
  <2> QED
    BY <1>1, <1>2, <1>3, <2>1, <2>4, <2>5, EndsStep
<1> QED
  BY <1>1, <1>5, <1>6, <1>7 DEF ResumeLogin

LEMMA GetContactsStep ==
  ASSUME AccountsInv, NEW i \in DOMAIN calls, GetContacts(i)
  PROVE  AccountsInv'
<1>1. PICK c : c = calls[i]
  OBVIOUS
<1>2. i \in 1..Len(calls) /\ CallOK(c, tokens)
  BY <1>1, CallAt
<1>3. UNCHANGED <<users, tokens, ui, Doubtful>> /\ c.op = "contacts"
  BY <1>1 DEF GetContacts, Reads, Handler, Doubtful, doubts
<1>4. CASE ValidateSession(i, "list")
  <2>1. StepOf(c.op, "list")
    BY <1>3 DEF StepOf
  <2> QED
    BY <1>1, <1>2, <1>3, <1>4, <2>1, ValidateStep
<1>5. CASE /\ At(i, "list") /\ UNCHANGED rel
           /\ calls' = Settle([calls EXCEPT ![i].pc = "answered", ![i].result = "ok",
                              ![i].x = GetContactListByUid(calls[i].email)], i)
  <2>1. PICK x : x = GetContactListByUid(c.email)
    OBVIOUS
  <2>2. PICK d : d = [c EXCEPT !.pc = "answered", !.result = "ok", !.x = x]
    OBVIOUS
  <2>3. DOMAIN calls = 1..Len(calls) /\ DOMAIN c = CallFields /\ c.pc = "list"
    BY <1>1, <1>2, <1>5 DEF AccountsInv, IsSeq, CallOK, At
  <2>4. [calls EXCEPT ![i].pc = "answered", ![i].result = "ok", ![i].x = x]
          = [calls EXCEPT ![i] = d]
    BY <1>1, <2>2, <2>3 DEF CallFields
  <2>5. Updates(i, d)
    BY <1>1, <1>5, <2>1, <2>4 DEF Updates
  <2>6. /\ DOMAIN d = CallFields /\ d.op = "contacts" /\ d.pc = "answered" /\ d.result = "ok"
        /\ d.token = c.token /\ d.email = c.email /\ d.open = c.open /\ d.x = x
    BY <1>3, <2>2, <2>3 DEF CallFields
  <2>7. SessionOf(tokens, c.token, c.email) /\ c.token \in 1..Len(tokens)
    BY <1>2, <1>3, <2>3 DEF CallOK
  <2>8. CallOK(d, tokens')
    BY <1>3, <2>6, <2>7 DEF CallOK, StepOf
  <2>9. d.x = 1 <=> rel'[tokens'[d.token].email] = "on"
    BY <1>3, <1>5, <2>1, <2>6, <2>7 DEF SessionOf, GetContactListByUid
  <2>10. SameWait(c, d) /\ ListStep(c, d, ui, tokens', rel, rel')
    BY <1>3, <1>5, <2>6, <2>9 DEF SameWait, ListStep, LoginCall, Changed
  <2>11. SameAccount(c, d)
    BY <1>3, <2>6 DEF SameAccount, SameAccountFor, Winner, ResetDone
  <2>12. Winners(calls', users')
    BY <1>1, <1>2, <1>3, <2>5, <2>11, WinnersKept
  <2>13. Extends(tokens, tokens') /\ Storage(tokens', users')
    BY <1>3, SameTokens DEF AccountsInv
  <2> QED
    BY <1>1, <1>2, <1>3, <2>5, <2>8, <2>10, <2>12, <2>13, HandlerStep
<1> QED
  BY <1>4, <1>5 DEF GetContacts

LEMMA SearchContactsStep ==
  ASSUME AccountsInv, NEW i \in DOMAIN calls, SearchContacts(i)
  PROVE  AccountsInv'
<1>1. PICK c : c = calls[i]
  OBVIOUS
<1>2. i \in 1..Len(calls) /\ CallOK(c, tokens)
  BY <1>1, CallAt
<1>3. UNCHANGED <<users, tokens, ui, Doubtful>> /\ c.op = "search"
  BY <1>1 DEF SearchContacts, Reads, Handler, Doubtful, doubts
<1>4. CASE ValidateSession(i, "info")
  <2>1. StepOf(c.op, "info")
    BY <1>3 DEF StepOf
  <2> QED
    BY <1>1, <1>2, <1>3, <1>4, <2>1, ValidateStep
<1>5. ASSUME c.pc = "info", UNCHANGED rel, NEW r \in {"ok", "mysql"}, Answer(i, r)
      PROVE  AccountsInv'
  BY <1>1, <1>2, <1>3, <1>5, AnswerStep
<1> QED
  BY <1>1, <1>4, <1>5 DEF SearchContacts, At

\* A step that changes the rows of the contacts leaves its request changed.
LEMMA RowStep ==
  ASSUME AccountsInv, NEW i \in 1..Len(calls), NEW c, c = calls[i], NEW d, Updates(i, d),
         c.op \in {"add", "delete"}, d.op = c.op, d.open = c.open, d.token = c.token, Changed(d),
         CallOK(d, tokens), UNCHANGED <<tokens, users, ui, Doubtful>>
  PROVE  AccountsInv'
<1>1. SameWait(c, d) /\ ListStep(c, d, ui, tokens', rel, rel')
  BY DEF SameWait, ListStep, LoginCall, ListedBy
<1>2. SameAccount(c, d)
  BY DEF SameAccount, SameAccountFor, Winner, ResetDone
<1>3. Winners(calls', users')
  BY <1>2, WinnersKept
<1>4. Extends(tokens, tokens') /\ Storage(tokens', users')
  BY SameTokens DEF AccountsInv
<1> QED
  BY <1>1, <1>3, <1>4, HandlerStep

LEMMA AddContactStep ==
  ASSUME AccountsInv, NEW i \in DOMAIN calls, AddContact(i)
  PROVE  AccountsInv'
<1>1. PICK c : c = calls[i]
  OBVIOUS
<1>2. i \in 1..Len(calls) /\ CallOK(c, tokens)
  BY <1>1, CallAt
<1>3. UNCHANGED <<users, tokens, ui, Doubtful>> /\ c.op = "add"
  BY <1>1 DEF AddContact, Reads, Handler, Doubtful, doubts
<1>4. CASE ValidateSession(i, "add")
  <2>1. StepOf(c.op, "add")
    BY <1>3 DEF StepOf
  <2> QED
    BY <1>1, <1>2, <1>3, <1>4, <2>1, ValidateStep
<1>5. CASE At(i, "add") /\ Go(i, "info")
  <2>1. PICK d : Goes(c, d, "info") /\ d.email = c.email /\ calls' = [calls EXCEPT ![i] = d]
    BY <1>1, <1>2, <1>5, GoIs
  <2>2. c.pc = "add"
    BY <1>1, <1>5 DEF At
  <2>3. Updates(i, d) /\ Changed(d)
    BY <1>3, <2>1 DEF Updates, Goes, Stays, Changed
  <2>4. CallOK(d, tokens)
    BY <1>2, <1>3, <2>1, <2>2 DEF CallOK, StepOf, Goes
  <2>5. d.op = c.op /\ d.open = c.open /\ d.token = c.token
    BY <2>1 DEF Goes
  <2> QED
    BY <1>1, <1>2, <1>3, <2>3, <2>4, <2>5, RowStep
<1>6. ASSUME c.pc = "info", UNCHANGED rel, NEW r \in {"ok", "mysql"}, Answer(i, r)
      PROVE  AccountsInv'
  BY <1>1, <1>2, <1>3, <1>6, AnswerStep
<1> QED
  BY <1>1, <1>4, <1>5, <1>6 DEF AddContact, At

LEMMA DeleteContactStep ==
  ASSUME AccountsInv, NEW i \in DOMAIN calls, DeleteContact(i)
  PROVE  AccountsInv'
<1>1. PICK c : c = calls[i]
  OBVIOUS
<1>2. i \in 1..Len(calls) /\ CallOK(c, tokens)
  BY <1>1, CallAt
<1>3. UNCHANGED <<users, tokens, ui, Doubtful>> /\ c.op = "delete"
  BY <1>1 DEF DeleteContact, Reads, Handler, Doubtful, doubts
<1>4. CASE ValidateSession(i, "delete")
  <2>1. StepOf(c.op, "delete")
    BY <1>3 DEF StepOf
  <2> QED
    BY <1>1, <1>2, <1>3, <1>4, <2>1, ValidateStep
<1>5. ASSUME c.pc = "delete", NEW r \in {"ok", "mysql"}, Answer(i, r)
      PROVE  AccountsInv'
  <2>1. PICK d : Ends(c, d, r) /\ calls' = Settle([calls EXCEPT ![i] = d], i)
    BY <1>1, <1>2, <1>5, AnswerIs
  <2>2. Updates(i, d) /\ Changed(d)
    BY <1>3, <2>1 DEF Updates, Ends, Changed
  <2>3. SessionOf(tokens, c.token, c.email)
    BY <1>2, <1>3, <1>5 DEF CallOK
  <2>4. CallOK(d, tokens)
    BY <1>2, <1>3, <2>1, <2>3 DEF CallOK, StepOf, Ends
  <2>5. d.op = c.op /\ d.open = c.open /\ d.token = c.token
    BY <2>1 DEF Ends
  <2> QED
    BY <1>1, <1>2, <1>3, <2>2, <2>4, <2>5, RowStep
<1> QED
  BY <1>1, <1>4, <1>5 DEF DeleteContact, At

LEMMA ErrorsAre ==
  ASSUME NEW p \in DOMAIN ErrorOf, NEW r \in ErrorOf[p]
  PROVE  p # "answered" /\ r \notin {"ok", "none"}
<1>1. DOMAIN ErrorOf = {"set", "expire", "mail", "code", "select", "insert", "id", "update", "pwd",
                        "info", "save", "validate", "list", "add", "delete"}
  BY DEF ErrorOf
<1>2. p # "answered"
  BY <1>1
<1>3. /\ ErrorOf.set = {"redis"} /\ ErrorOf.expire = {"redis"} /\ ErrorOf.mail = {"exception"}
      /\ ErrorOf.code = {"expired"} /\ ErrorOf.select = {"mysql"} /\ ErrorOf.insert = {"mysql"}
      /\ ErrorOf.id = {"mysql"} /\ ErrorOf.update = {"password"} /\ ErrorOf.pwd = {"mysql"}
      /\ ErrorOf.info = {"mysql"} /\ ErrorOf.save = {"redis"} /\ ErrorOf.list = {"mysql"}
      /\ ErrorOf.validate = {"invalid session", "redis"} /\ ErrorOf.add = {"mysql"}
      /\ ErrorOf.delete = {"mysql"}
  BY DEF ErrorOf
<1>4. r \in {"redis", "exception", "expired", "mysql", "password", "invalid session"}
  <2>1. CASE p \in {"set", "expire", "save"}
    BY <1>3, <2>1
  <2>2. CASE p \in {"select", "insert", "id", "pwd"}
    BY <1>3, <2>2
  <2>3. CASE p \in {"info", "list", "add", "delete"}
    BY <1>3, <2>3
  <2>4. CASE p = "mail"
    BY <1>3, <2>4
  <2>6. CASE p = "code"
    BY <1>3, <2>6
  <2>7. CASE p = "update"
    BY <1>3, <2>7
  <2>5. CASE p = "validate"
    BY <1>3, <2>5
  <2> QED
    BY <1>1, <2>1, <2>2, <2>3, <2>4, <2>5, <2>6, <2>7
<1> QED
  BY <1>2, <1>4

LEMMA StorageFailsStep ==
  ASSUME AccountsInv, NEW i \in DOMAIN calls, StorageFails(i)
  PROVE  AccountsInv'
<1>1. i \in 1..Len(calls)
  BY CallAt
<1>2. UNCHANGED <<tokens, users, rel, ui, Doubtful>>
  BY DEF StorageFails, storage, Doubtful, doubts
<1>3. PICK r \in ErrorOf[calls[i].pc] : Answer(i, r) /\ calls[i].pc \in DOMAIN ErrorOf
  BY DEF StorageFails
<1>4. calls[i].pc # "answered" /\ r \notin {"ok", "none"}
  BY <1>3, ErrorsAre
<1> QED
  BY <1>1, <1>2, <1>3, <1>4, AnswerStep

\* Redis drops a session or a code.
LEMMA ExpiresStep ==
  ASSUME AccountsInv, Expires
  PROVE  AccountsInv'
<1>1. UNCHANGED <<calls, users, rel, ui, Doubtful>>
  BY DEF Doubtful, doubts, Expires
<1>2. Extends(tokens, tokens') /\ Storage(tokens', users')
  <2>1. CASE tokens' = tokens
    BY <1>1, <2>1, SameTokens DEF AccountsInv
  <2>2. ASSUME NEW t \in DOMAIN tokens, tokens' = [tokens EXCEPT ![t].live = FALSE]
        PROVE  Extends(tokens, tokens') /\ Storage(tokens', users')
    <3>1. t \in 1..Len(tokens)
      BY DEF AccountsInv, Storage, IsSeq
    <3> QED
      BY <1>1, <2>2, <3>1, SessionTimed
  <2> QED
    BY <2>1, <2>2 DEF Expires
<1>3. CallsOK(calls', tokens')
  BY <1>1, <1>2, ExtendsCall DEF AccountsInv, CallsOK
<1>4. UiOK(ui', tokens')
  BY <1>1, <1>2, ExtendsSession DEF AccountsInv, UiOK
<1>5. Lists(calls', ui', Doubtful', tokens', rel')
  <2> SUFFICES ASSUME ~Doubtful PROVE Calm(calls, ui, tokens') /\ Follows(calls, ui, tokens', rel)
    BY <1>1 DEF Lists
  <2>1. Calm(calls, ui, tokens) /\ Follows(calls, ui, tokens, rel)
    BY DEF AccountsInv, Lists
  <2>2. Calm(calls, ui, tokens')
    BY <1>2, <2>1, ExtendsSession DEF Calm
  <2>3. ui.token # 0 => (OnList(ui, tokens', rel) <=> OnList(ui, tokens, rel))
    BY <1>2, <2>1 DEF Calm, Extends, OnList
  <2> QED
    BY <2>1, <2>2, <2>3 DEF Follows
<1>6. Sessioned(calls', ui', tokens')
  BY <1>1, <1>2, ExtendsSession DEF AccountsInv, Sessioned
<1> QED
  BY <1>1, <1>2, <1>3, <1>4, <1>5, <1>6 DEF AccountsInv

-----------------------------------------------------------------------------
(* New requests                                                            *)

LEMMA GrownAt ==
  ASSUME NEW old, NEW new, NEW d, Grown(old, new, d), NEW k \in 1..Len(new)
  PROVE  (k \in 1..Len(old) /\ new[k] = old[k]) \/ (k = Len(old) + 1 /\ new[k] = d)
  BY DEF Grown

LEMMA GrownHas ==
  ASSUME NEW old, NEW new, NEW d, Grown(old, new, d)
  PROVE  /\ Len(old) + 1 \in 1..Len(new) /\ new[Len(old) + 1] = d /\ Len(old) + 1 \notin 1..Len(old)
         /\ \A k \in 1..Len(old) : k \in 1..Len(new) /\ new[k] = old[k]
  BY DEF Grown

LEMMA GrownCalls ==
  ASSUME NEW old, NEW new, NEW d, Grown(old, new, d), NEW ts, CallsOK(old, ts), CallOK(d, ts)
  PROVE  CallsOK(new, ts)
  BY GrownAt DEF CallsOK

\* No registration has won before it was asked for.
LEMMA GrownWinners ==
  ASSUME NEW old, NEW new, NEW d, Grown(old, new, d), NEW us, Winners(old, us),
         \A e : ~Winner(d, e)
  PROVE  Winners(new, us)
<1> SUFFICES ASSUME NEW e \in Emails PROVE WinnersFor(new, us[e], e)
  BY DEF Winners
<1>1. WinnersFor(old, us[e], e)
  BY DEF Winners
<1>2. ASSUME NEW k \in 1..Len(new), Winner(new[k], e) PROVE k \in 1..Len(old) /\ new[k] = old[k]
  BY <1>2, GrownAt
<1>3. \A j, k \in 1..Len(new) : Winner(new[j], e) /\ Winner(new[k], e) => j = k
  BY <1>1, <1>2 DEF WinnersFor
<1>4. \A k \in 1..Len(old) : k \in 1..Len(new) /\ new[k] = old[k]
  BY GrownHas
<1>5. ASSUME NEW k \in 1..Len(new), Winner(new[k], e)
      PROVE  us[e] # 0 /\ (us[e] = new[k].password \/ \E j \in 1..Len(new) : ResetDone(new[j], e))
  <2>1. k \in 1..Len(old) /\ new[k] = old[k]
    BY <1>2, <1>5
  <2>2. us[e] # 0 /\ (us[e] = old[k].password \/ \E j \in 1..Len(old) : ResetDone(old[j], e))
    BY <1>1, <1>5, <2>1 DEF WinnersFor
  <2> QED
    BY <1>4, <2>1, <2>2
<1> QED
  BY <1>3, <1>5 DEF WinnersFor

LEMMA GrownLogins ==
  ASSUME NEW old, NEW new, NEW d, Grown(old, new, d), NEW u, Logins(old, u), ~LoginCall(d)
  PROVE  Logins(new, u)
<1>1. ASSUME NEW k \in 1..Len(new), LoginCall(new[k])
      PROVE  k \in 1..Len(old) /\ new[k] = old[k]
  BY <1>1, GrownAt
<1>2. \A k \in 1..Len(new) : LoginCall(new[k]) => Awaited(new[k], u)
  BY <1>1 DEF Logins
<1>3. \A j, k \in 1..Len(new) : LoginCall(new[j]) /\ LoginCall(new[k]) => j = k
  BY <1>1 DEF Logins
<1> QED
  BY <1>2, <1>3 DEF Logins

\* The page lets a login through only when none is waited for.
LEMMA GrownLogin ==
  ASSUME NEW old, NEW new, NEW d, Grown(old, new, d), NEW u, Logins(old, u), ~u.pending,
         NEW v, Awaited(d, v)
  PROVE  Logins(new, v)
<1>1. \A k \in 1..Len(old) : ~LoginCall(old[k])
  BY DEF Logins, Awaited
<1>2. ASSUME NEW k \in 1..Len(new), LoginCall(new[k])
      PROVE  k = Len(old) + 1 /\ new[k] = d
  BY <1>1, <1>2, GrownAt
<1> QED
  BY <1>2 DEF Logins

LEMMA GrownSessioned ==
  ASSUME NEW old, NEW new, NEW d, Grown(old, new, d), NEW u, NEW ts, Sessioned(old, u, ts),
         d.op \in ContactOps => u.token \in 1..Len(ts)
  PROVE  Sessioned(new, u, ts)
  BY GrownAt DEF Sessioned

\* What the contacts page depends on is as it was.
SameShow(u, v) == /\ v.token = u.token /\ v.connecting = u.connecting /\ v.shown = u.shown
                  /\ v.page = "shell" => u.page = "shell"

LEMMA ShowLists ==
  ASSUME NEW cs, NEW u, NEW v, SameShow(u, v), NEW bad, NEW ts, NEW r, Lists(cs, u, bad, ts, r)
  PROVE  Lists(cs, v, bad, ts, r)
<1> SUFFICES ASSUME ~bad PROVE Calm(cs, v, ts) /\ Follows(cs, v, ts, r)
  BY DEF Lists
<1>1. Calm(cs, u, ts) /\ Follows(cs, u, ts, r)
  BY DEF Lists
<1>2. Calm(cs, v, ts)
  BY <1>1 DEF Calm, SameShow
<1>3. OnList(v, ts, r) <=> OnList(u, ts, r)
  BY DEF OnList, SameShow
<1> QED
  BY <1>1, <1>2, <1>3 DEF Follows, SameShow

\* A request that belongs to the session of the shell.
OfShell(d, u) == u.token # 0 /\ d.open /\ d.token = u.token /\ d.pc = "validate"

LEMMA GrownCalm ==
  ASSUME NEW old, NEW new, NEW d, Grown(old, new, d), NEW u, NEW ts, Calm(old, u, ts),
         d.op \in ContactOps => OfShell(d, u),
         d.op = "contacts" => \A k \in 1..Len(old) : old[k].op # "contacts"
  PROVE  Calm(new, u, ts)
<1>1. ~u.connecting /\ (u.token # 0 => u.token \in 1..Len(ts))
  BY DEF Calm
<1>2. u.token = 0 => u.page # "shell" /\ \A k \in 1..Len(new) : new[k].op \notin ContactOps
  BY GrownAt DEF Calm, OfShell
<1>3. \A k \in 1..Len(new) : new[k].op \in ContactOps => new[k].open /\ new[k].token = u.token
  BY GrownAt DEF Calm, OfShell
<1>4. ASSUME NEW j \in 1..Len(new), NEW k \in 1..Len(new), new[j].op = "contacts",
             new[k].op = "contacts"
      PROVE  j = k
  <2>1. (j \in 1..Len(old) /\ new[j] = old[j]) \/ (j = Len(old) + 1 /\ new[j] = d)
    BY GrownAt
  <2>2. (k \in 1..Len(old) /\ new[k] = old[k]) \/ (k = Len(old) + 1 /\ new[k] = d)
    BY GrownAt
  <2> QED
    BY <1>4, <2>1, <2>2 DEF Calm
<1> QED
  BY <1>1, <1>2, <1>3, <1>4 DEF Calm

\* A query that is not answered yet decides what will be shown.
LEMMA QueryFollows ==
  ASSUME NEW cs, NEW u, NEW ts, NEW r, Calm(cs, u, ts), NEW k \in 1..Len(cs),
         cs[k].op = "contacts", ~ListedBy(cs[k])
  PROVE  Follows(cs, u, ts, r)
<1>1. ASSUME NEW j \in 1..Len(cs), ListedBy(cs[j]) PROVE FALSE
  <2>1. j = k
    BY <1>1 DEF Calm, ListedBy
  <2> QED
    BY <1>1, <2>1
<1> QED
  BY <1>1 DEF Follows

LEMMA GrownLists ==
  ASSUME NEW old, NEW new, NEW d, Grown(old, new, d), NEW u, NEW bad, NEW worse, NEW ts, NEW r,
         Lists(old, u, bad, ts, r), bad => worse, d.op \in ContactOps => OfShell(d, u),
         (d.op = "contacts" /\ ~worse) => \A k \in 1..Len(old) : old[k].op # "contacts"
  PROVE  Lists(new, u, worse, ts, r)
<1> SUFFICES ASSUME ~worse PROVE Calm(new, u, ts) /\ Follows(new, u, ts, r)
  BY DEF Lists
<1>1. Calm(old, u, ts) /\ Follows(old, u, ts, r)
  BY DEF Lists
<1>2. Calm(new, u, ts)
  BY <1>1, GrownCalm
<1>3. CASE d.op = "contacts"
  <2>1. ~ListedBy(d)
    BY <1>3 DEF ListedBy, OfShell, ContactOps
  <2> QED
    BY <1>2, <1>3, <2>1, GrownHas, QueryFollows
<1>4. CASE d.op # "contacts"
  <2>1. \A k \in 1..Len(old) : k \in 1..Len(new) /\ new[k] = old[k]
    BY GrownHas
  <2>2. \A k \in 1..Len(new) : ListedBy(new[k]) => k \in 1..Len(old) /\ new[k] = old[k]
    BY <1>4, GrownAt DEF ListedBy
  <2> QED
    BY <1>1, <1>2, <2>1, <2>2 DEF Follows
<1> QED
  BY <1>3, <1>4

LEMMA AskStep ==
  ASSUME AccountsInv, NEW d, Post(d), UNCHANGED <<tokens, users, rel, ui>>,
         CallOK(d, tokens), d.result = "none", d.pc # "id", d.op \notin {"login", "resume"},
         d.op \in ContactOps => OfShell(d, ui) /\ ui.token \in 1..Len(tokens),
         \/ /\ Doubtful => Doubtful'
            /\ (d.op = "contacts" /\ ~Doubtful') => \A k \in 1..Len(calls) : calls[k].op # "contacts"
         \/ Lists(calls', ui, Doubtful', tokens, rel)
  PROVE  AccountsInv'
<1>1. Grown(calls, calls', d)
  BY SeqAppend DEF AccountsInv, Post
<1>2. \A e : ~Winner(d, e)
  BY DEF Winner
<1>3. ~LoginCall(d)
  BY DEF LoginCall
<1>4. CallsOK(calls', tokens')
  BY <1>1, GrownCalls DEF AccountsInv
<1>5. Winners(calls', users')
  BY <1>1, <1>2, GrownWinners DEF AccountsInv
<1>6. Logins(calls', ui')
  BY <1>1, <1>3, GrownLogins DEF AccountsInv
<1>7. Lists(calls', ui', Doubtful', tokens', rel')
  BY <1>1, GrownLists DEF AccountsInv
<1>8. IsSeq(calls')
  BY <1>1 DEF Grown
<1>9. Sessioned(calls', ui', tokens')
  BY <1>1, GrownSessioned DEF AccountsInv
<1> QED
  BY <1>4, <1>5, <1>6, <1>7, <1>8, <1>9 DEF AccountsInv

LEMMA SignInStep ==
  ASSUME AccountsInv, NEW d, Post(d), UNCHANGED <<tokens, users, rel, Doubtful>>,
         CallOK(d, tokens), d.op \in {"login", "resume"}, ~ui.pending, Awaited(d, ui'),
         SameShow(ui, ui'), UiOK(ui', tokens)
  PROVE  AccountsInv'
<1>1. Grown(calls, calls', d)
  BY SeqAppend DEF AccountsInv, Post
<1>2. \A e : ~Winner(d, e)
  BY DEF Winner
<1>3. CallsOK(calls', tokens')
  BY <1>1, GrownCalls DEF AccountsInv
<1>4. Winners(calls', users')
  BY <1>1, <1>2, GrownWinners DEF AccountsInv
<1>5. Logins(calls', ui')
  BY <1>1, GrownLogin DEF AccountsInv
<1>6. Lists(calls', ui, Doubtful', tokens', rel')
  BY <1>1, GrownLists DEF AccountsInv, ContactOps
<1>7. Lists(calls', ui', Doubtful', tokens', rel')
  BY <1>6, ShowLists
<1>8. IsSeq(calls')
  BY <1>1 DEF Grown
<1>9. Sessioned(calls', ui, tokens')
  BY <1>1, GrownSessioned DEF AccountsInv, ContactOps
<1>10. Sessioned(calls', ui', tokens')
  BY <1>9 DEF Sessioned, SameShow
<1> QED
  BY <1>3, <1>4, <1>5, <1>7, <1>8, <1>10 DEF AccountsInv

\* What HttpMgr posts.
LEMMA CallIs ==
  ASSUME NEW op, NEW email, NEW code, NEW password, NEW token, NEW pc, NEW d,
         d = Call(op, email, code, password, token, pc)
  PROVE  /\ DOMAIN d = CallFields /\ d.op = op /\ d.email = email /\ d.password = password
         /\ d.token = token /\ d.pc = pc /\ d.open /\ d.result = "none"
  BY DEF Call, CallFields

LEMMA CodePageStep ==
  ASSUME AccountsInv, AccountBounds, NEW e \in Emails, NEW code, NEW p \in Passwords,
         GetVarifyCodeAsync(e) \/ RegisterRequest(e, code, p) \/ ReSetPassword(e, code, p)
  PROVE  AccountsInv'
<1>1. UNCHANGED <<tokens, users, rel, ui, Doubtful>>
  BY DEF GetVarifyCodeAsync, RegisterRequest, ReSetPassword, Asks, storage, Doubtful, doubts
<1>2. PICK op, q, pc, d :
        /\ op \in {"varify", "register", "reset"}
        /\ d = Call(op, e, IF op = "varify" THEN 0 ELSE code, q, 0, pc) /\ Post(d)
        /\ StepOf(op, pc) /\ pc \notin {"id", "answered"} /\ (op # "varify" => q = p)
  <2>1. CASE GetVarifyCodeAsync(e)
    <3>1. Post(Call("varify", e, 0, 0, 0, "get")) /\ StepOf("varify", "get")
      BY <2>1 DEF GetVarifyCodeAsync, StepOf
    <3> QED
      BY <3>1
  <2>2. CASE RegisterRequest(e, code, p)
    <3>1. PICK op, q, pc, d :
            /\ op = "register" /\ q = p /\ pc = "code" /\ d = Call("register", e, code, p, 0, "code")
      OBVIOUS
    <3>2. /\ op \in {"varify", "register", "reset"} /\ Post(d) /\ StepOf(op, pc)
          /\ d = Call(op, e, IF op = "varify" THEN 0 ELSE code, q, 0, pc)
          /\ pc \notin {"id", "answered"} /\ (op # "varify" => q = p)
      BY <2>2, <3>1 DEF RegisterRequest, StepOf
    <3> QED
      BY <3>2
  <2>3. CASE ReSetPassword(e, code, p)
    <3>1. PICK op, q, pc, d :
            /\ op = "reset" /\ q = p /\ pc = "code" /\ d = Call("reset", e, code, p, 0, "code")
      OBVIOUS
    <3>2. /\ op \in {"varify", "register", "reset"} /\ Post(d) /\ StepOf(op, pc)
          /\ d = Call(op, e, IF op = "varify" THEN 0 ELSE code, q, 0, pc)
          /\ pc \notin {"id", "answered"} /\ (op # "varify" => q = p)
      BY <2>3, <3>1 DEF ReSetPassword, StepOf
    <3> QED
      BY <3>2
  <2> QED
    BY <2>1, <2>2, <2>3
<1>3. /\ DOMAIN d = CallFields /\ d.op = op /\ d.email = e /\ d.password = q
      /\ d.pc = pc /\ d.result = "none"
  BY <1>2, CallIs
<1>4. p # 0
  BY DEF AccountBounds
<1>5. CallOK(d, tokens)
  BY <1>2, <1>3, <1>4 DEF CallOK
<1> QED
  BY <1>1, <1>2, <1>3, <1>5, AskStep DEF ContactOps

LEMMA LoginRequestStep ==
  ASSUME AccountsInv, NEW e, NEW p, NEW remember, LoginRequest(e, p, remember)
  PROVE  AccountsInv'
<1>1. /\ UNCHANGED <<tokens, users, rel, Doubtful>> /\ ui.page = "login" /\ ~ui.pending
      /\ ui' = [ui EXCEPT !.mode = "password", !.account = e, !.remember = remember,
                          !.pending = TRUE]
  BY DEF LoginRequest, Asks, storage, Doubtful, doubts
<1>2. PICK d : d = Call("login", e, 0, p, 0, "pwd") /\ Post(d)
  BY DEF LoginRequest
<1>3. /\ DOMAIN d = CallFields /\ d.op = "login" /\ d.email = e /\ d.pc = "pwd"
      /\ d.result = "none"
  BY <1>2, CallIs
<1>4. CallOK(d, tokens)
  BY <1>3 DEF CallOK, StepOf
<1>5. UiOK(ui, tokens) /\ DOMAIN ui = UiFields
  BY DEF AccountsInv, UiOK
<1>6. /\ DOMAIN ui' = UiFields /\ ui'.page = ui.page /\ ui'.mode = "password" /\ ui'.account = e
      /\ ui'.pending = TRUE /\ ui'.connecting = ui.connecting /\ ui'.remembered = ui.remembered
      /\ ui'.token = ui.token /\ ui'.shown = ui.shown
  BY <1>1, <1>5 DEF UiFields
<1>7. UiOK(ui', tokens) /\ SameShow(ui, ui')
  BY <1>1, <1>5, <1>6 DEF UiOK, SameShow
<1>8. Awaited(d, ui')
  BY <1>1, <1>3, <1>5, <1>6 DEF Awaited, UiOK
<1> QED
  BY <1>1, <1>2, <1>3, <1>4, <1>7, <1>8, SignInStep

LEMMA ResumeLoginRequestStep ==
  ASSUME AccountsInv, ResumeLoginRequest
  PROVE  AccountsInv'
<1>1. /\ UNCHANGED <<tokens, users, rel, Doubtful>> /\ ui.page = "login" /\ ~ui.pending
      /\ ui.remembered # None
      /\ ui' = [ui EXCEPT !.mode = "remembered", !.remember = TRUE, !.pending = TRUE]
  BY DEF ResumeLoginRequest, Asks, storage, Doubtful, doubts
<1>2. PICK d : /\ d = Call("resume", ui.remembered.account, 0, 0, ui.remembered.token, "validate")
               /\ Post(d)
  BY DEF ResumeLoginRequest
<1>3. /\ DOMAIN d = CallFields /\ d.op = "resume" /\ d.pc = "validate"
      /\ d.token = ui.remembered.token /\ d.result = "none"
  BY <1>2, CallIs
<1>4. UiOK(ui, tokens) /\ DOMAIN ui = UiFields /\ d.token \in 1..Len(tokens)
  BY <1>1, <1>3 DEF AccountsInv, UiOK, SessionOf
<1>5. CallOK(d, tokens)
  BY <1>3, <1>4 DEF CallOK, StepOf
<1>6. /\ DOMAIN ui' = UiFields /\ ui'.page = ui.page /\ ui'.mode = "remembered"
      /\ ui'.pending = TRUE /\ ui'.connecting = ui.connecting /\ ui'.remembered = ui.remembered
      /\ ui'.token = ui.token /\ ui'.shown = ui.shown
  BY <1>1, <1>4 DEF UiFields
<1>7. UiOK(ui', tokens) /\ SameShow(ui, ui')
  BY <1>1, <1>4, <1>6 DEF UiOK, SameShow
<1>8. Awaited(d, ui')
  BY <1>1, <1>3, <1>4, <1>6 DEF Awaited, UiOK
<1> QED
  BY <1>1, <1>2, <1>3, <1>5, <1>7, <1>8, SignInStep

\* With no query under way and nothing gone wrong, there is none in calls at all.
LEMMA NoQuery ==
  ASSUME AccountsInv, ~Doubtful, ~Querying
  PROVE  \A k \in 1..Len(calls) : calls[k].op # "contacts"
<1>1. Calm(calls, ui, tokens) /\ DOMAIN calls = 1..Len(calls)
  BY DEF AccountsInv, Lists, IsSeq
<1> QED
  BY <1>1 DEF Querying, Calm, ContactOps

\* A query that is posted with no other contacts request under way is a fresh start.
LEMMA FreshLists ==
  ASSUME AccountsInv, ui.page = "shell", ~ContactsBusy, NEW d, d.op = "contacts", OfShell(d, ui),
         Grown(calls, calls', d), NEW bad
  PROVE  Lists(calls', ui, bad, tokens, rel)
<1>1. \A k \in 1..Len(calls) : calls[k].op \notin ContactOps
  BY DEF ContactsBusy, AccountsInv, IsSeq
<1>2. ~ui.connecting /\ ui.token \in 1..Len(tokens) /\ ui.token # 0
  BY DEF AccountsInv, UiOK, OfShell
<1>3. Calm(calls, ui, tokens)
  BY <1>1, <1>2 DEF Calm, ContactOps
<1>4. \A k \in 1..Len(calls) : calls[k].op # "contacts"
  BY <1>1 DEF ContactOps
<1>5. Calm(calls', ui, tokens)
  BY <1>3, <1>4, GrownCalm
<1>6. ~ListedBy(d)
  BY DEF ListedBy, OfShell
<1>7. Follows(calls', ui, tokens, rel)
  BY <1>5, <1>6, GrownHas, QueryFollows
<1> QED
  BY <1>5, <1>7 DEF Lists

LEMMA ShellStep ==
  ASSUME AccountsInv, NEW op \in ContactOps, NEW e, ui.page = "shell",
         Post(Call(op, e, 0, 0, ui.token, "validate")), UNCHANGED <<tokens, users, rel, ui>>,
         \/ (Doubtful => Doubtful') /\ ((op = "contacts" /\ Querying) => Doubtful')
         \/ op = "contacts" /\ ~ContactsBusy
  PROVE  AccountsInv'
<1>1. PICK d : d = Call(op, e, 0, 0, ui.token, "validate")
  OBVIOUS
<1>2. /\ DOMAIN d = CallFields /\ d.op = op /\ d.pc = "validate" /\ d.open
      /\ d.token = ui.token /\ d.result = "none"
  BY <1>1, CallIs
<1>3. ui.token \in 1..Len(tokens)
  BY DEF AccountsInv, UiOK
<1>4. CallOK(d, tokens)
  BY <1>2, <1>3 DEF CallOK, StepOf, ContactOps
<1>5. OfShell(d, ui)
  BY <1>2, <1>3 DEF OfShell
<1>6. \/ /\ Doubtful => Doubtful'
         /\ (d.op = "contacts" /\ ~Doubtful') => \A k \in 1..Len(calls) : calls[k].op # "contacts"
      \/ Lists(calls', ui, Doubtful', tokens, rel)
  <2>1. CASE (Doubtful => Doubtful') /\ ((op = "contacts" /\ Querying) => Doubtful')
    BY <1>2, <2>1, NoQuery
  <2>2. CASE op = "contacts" /\ ~ContactsBusy
    <3>1. Grown(calls, calls', d)
      BY <1>1, SeqAppend DEF AccountsInv, Post
    <3> QED
      BY <1>2, <1>5, <2>2, <3>1, FreshLists
  <2> QED
    BY <2>1, <2>2
<1>7. d.op \notin {"login", "resume"} /\ d.pc # "id"
  BY <1>2 DEF ContactOps
<1> QED
  BY <1>1, <1>2, <1>3, <1>4, <1>5, <1>6, <1>7, AskStep

LEMMA ContactRequestStep ==
  ASSUME AccountsInv,
         RequestContacts \/ SearchContactsRequest \/ AddContactRequest \/ DeleteContactRequest
  PROVE  AccountsInv'
<1>1. CASE RequestContacts
  <2>1. /\ ui.page = "shell" /\ Post(Call("contacts", "", 0, 0, ui.token, "validate"))
        /\ UNCHANGED <<tokens, users, rel, ui>>
    BY <1>1 DEF RequestContacts, ListQuery, Asks, storage
  <2>2. ContactsBusy => (Doubtful => Doubtful') /\ (Querying => Doubtful')
    BY <1>1 DEF RequestContacts, Doubtful
  <2> QED
    BY <2>1, <2>2, ShellStep DEF ContactOps
<1>2. ASSUME NEW op \in {"search", "add", "delete"}, NEW e, ContactCall(op, e) PROVE AccountsInv'
  <2>1. /\ ui.page = "shell" /\ Post(Call(op, e, 0, 0, ui.token, "validate"))
        /\ UNCHANGED <<tokens, users, rel, ui>> /\ Doubtful' = Doubtful
    BY <1>2 DEF ContactCall, Asks, storage, Doubtful, doubts
  <2> QED
    BY <2>1, ShellStep DEF ContactOps
<1> QED
  BY <1>1, <1>2 DEF SearchContactsRequest, AddContactRequest, DeleteContactRequest

-----------------------------------------------------------------------------
(* The client's own steps, and the replies it reads or gives up            *)

LEMMA UiStep ==
  ASSUME AccountsInv, UNCHANGED <<calls, tokens, users, rel, Doubtful>>, UiOK(ui', tokens),
         \A k \in 1..Len(calls) : ~LoginCall(calls[k]), Doubtful \/ SameShow(ui, ui'),
         ui'.token = ui.token
  PROVE  AccountsInv'
<1>1. Logins(calls', ui')
  BY DEF Logins
<1>2. Lists(calls', ui', Doubtful', tokens', rel')
  <2>1. CASE Doubtful
    BY <2>1 DEF Lists
  <2>2. CASE SameShow(ui, ui')
    <3>1. Lists(calls, ui', Doubtful, tokens, rel)
      BY <2>2, ShowLists DEF AccountsInv
    <3> QED
      BY <3>1
  <2> QED
    BY <2>1, <2>2
<1>3. Sessioned(calls', ui', tokens')
  BY DEF AccountsInv, Sessioned
<1> QED
  BY <1>1, <1>2, <1>3 DEF AccountsInv

LEMMA OwnStep ==
  ASSUME AccountsInv, ForgetRememberedSession \/ RealtimeLogin \/ ReloginRequested
  PROVE  AccountsInv'
<1>1. UNCHANGED <<calls, tokens, users, rel, Doubtful>>
  BY DEF ForgetRememberedSession, RealtimeLogin, ReloginRequested, Asks, storage, Doubtful, doubts
<1>2. UiOK(ui, tokens) /\ DOMAIN ui = UiFields
  BY DEF AccountsInv, UiOK
<1>3. CASE ForgetRememberedSession
  <2>1. ~ui.pending /\ ui' = [ui EXCEPT !.remembered = None]
    BY <1>3 DEF ForgetRememberedSession
  <2>2. /\ DOMAIN ui' = UiFields /\ ui'.page = ui.page /\ ui'.pending = ui.pending
        /\ ui'.connecting = ui.connecting /\ ui'.remembered = None /\ ui'.token = ui.token
        /\ ui'.shown = ui.shown
    BY <1>2, <2>1 DEF UiFields
  <2>3. UiOK(ui', tokens) /\ SameShow(ui, ui')
    BY <1>2, <2>2 DEF UiOK, SameShow
  <2>4. \A k \in 1..Len(calls) : ~LoginCall(calls[k])
    BY <2>1 DEF AccountsInv, Logins, Awaited
  <2> QED
    BY <1>1, <2>2, <2>3, <2>4, UiStep
<1>4. CASE RealtimeLogin
  <2>1. /\ ui.connecting
        /\ \/ ui' = [ui EXCEPT !.connecting = FALSE, !.pending = FALSE, !.page = "shell"]
           \/ ui' = [ui EXCEPT !.connecting = FALSE, !.pending = FALSE]
    BY <1>4 DEF RealtimeLogin
  <2>2. /\ DOMAIN ui' = UiFields /\ ui'.connecting = FALSE /\ ui'.remembered = ui.remembered
        /\ ui'.token = ui.token /\ ui'.shown = ui.shown
    BY <1>2, <2>1 DEF UiFields
  <2>3. UiOK(ui', tokens)
    BY <1>2, <2>1, <2>2 DEF UiOK
  <2>4. \A k \in 1..Len(calls) : ~LoginCall(calls[k])
    BY <2>1 DEF AccountsInv, Logins, Awaited
  <2>5. Doubtful
    BY <2>1 DEF AccountsInv, Lists, Calm
  <2> QED
    BY <1>1, <2>2, <2>3, <2>4, <2>5, UiStep
<1>5. CASE ReloginRequested
  <2>1. ui.page = "shell" /\ ui' = [ui EXCEPT !.page = "login", !.pending = FALSE]
    BY <1>5 DEF ReloginRequested
  <2>2. /\ DOMAIN ui' = UiFields /\ ui'.page = "login"
        /\ ui'.connecting = ui.connecting /\ ui'.remembered = ui.remembered /\ ui'.token = ui.token
        /\ ui'.shown = ui.shown
    BY <1>2, <2>1 DEF UiFields
  <2>3. UiOK(ui', tokens) /\ SameShow(ui, ui')
    BY <1>2, <2>1, <2>2 DEF UiOK, SameShow
  <2>4. \A k \in 1..Len(calls) : ~LoginCall(calls[k])
    BY <2>1 DEF AccountsInv, Logins, Awaited
  <2> QED
    BY <1>1, <2>2, <2>3, <2>4, UiStep
<1> QED
  BY <1>3, <1>4, <1>5

\* The reply is read or given up.
Shut(c, d) ==
  /\ DOMAIN d = CallFields /\ d.op = c.op /\ d.email = c.email /\ d.password = c.password
  /\ d.token = c.token /\ d.pc = c.pc /\ d.x = c.x /\ d.result = c.result /\ ~d.open

LEMMA ClosedIs ==
  ASSUME AccountsInv, NEW i \in 1..Len(calls)
  PROVE  \E d, f : Shut(calls[i], d) /\ After(calls, Closed(i), i, d, f)
<1>1. PICK d : d = [calls[i] EXCEPT !.open = FALSE]
  OBVIOUS
<1>2. DOMAIN calls[i] = CallFields
  BY DEF AccountsInv, CallsOK, CallOK
<1>3. Shut(calls[i], d)
  BY <1>1, <1>2 DEF Shut, CallFields
<1>4. Closed(i) = Settle([calls EXCEPT ![i] = d], i)
  BY <1>1 DEF Closed
<1>5. PICK f : After(calls, Settle([calls EXCEPT ![i] = d], i), i, d, f)
  BY SettleAfter DEF AccountsInv
<1> QED
  BY <1>3, <1>4, <1>5

\* The parts of the invariant that do not depend on the controller.
LEMMA ShutKeeps ==
  ASSUME AccountsInv, NEW i \in 1..Len(calls), NEW d, NEW f, NEW new, Shut(calls[i], d),
         After(calls, new, i, d, f)
  PROVE  /\ IsSeq(new) /\ CallsOK(new, tokens) /\ Winners(new, users)
         /\ ~LoginCall(calls[i]) => Logins(new, ui)
         /\ LoginCall(calls[i]) => \A k \in 1..Len(new) : ~LoginCall(new[k])
         /\ \A v : (v.token = ui.token \/ v.token \in 1..Len(tokens)) => Sessioned(new, v, tokens)
<1>1. IsSeq(new)
  BY DEF After
<1>2. CallOK(calls[i], tokens)
  BY DEF AccountsInv, CallsOK
<1>3. CallOK(d, tokens)
  BY <1>2 DEF CallOK, Shut
<1>4. Len(tokens) \in Nat
  BY DEF AccountsInv, Storage, IsSeq
<1>5. Extends(tokens, tokens)
  BY <1>4 DEF Extends
<1>6. CallsOK(new, tokens)
  BY <1>3, <1>5, AfterCalls DEF AccountsInv
<1>7. SameAccount(calls[i], d)
  BY DEF SameAccount, SameAccountFor, Shut, Winner, ResetDone
<1>8. Winners(new, users)
  BY <1>7, AfterWinners DEF AccountsInv
<1>9. ~LoginCall(d) /\ SameWait(calls[i], d)
  BY DEF SameWait, LoginCall, Shut
<1>10. Logins(new, ui)
  BY <1>9, AfterLogins DEF AccountsInv
<1>11. LoginCall(calls[i]) => \A k \in 1..Len(new) : ~LoginCall(new[k])
  BY <1>9, AfterLoginClosed DEF AccountsInv
<1>12. ASSUME NEW v, v.token = ui.token \/ v.token \in 1..Len(tokens)
       PROVE  Sessioned(new, v, tokens)
  <2>1. d.op = calls[i].op
    BY DEF Shut
  <2> QED
    BY <1>5, <1>12, <2>1, AfterSessioned DEF AccountsInv
<1> QED
  BY <1>1, <1>6, <1>8, <1>10, <1>11, <1>12

\* A reply that is not about contacts leaves the list as it is.
LEMMA ShutLists ==
  ASSUME AccountsInv, NEW i \in 1..Len(calls), NEW d, NEW f, NEW new, Shut(calls[i], d),
         After(calls, new, i, d, f), calls[i].op \notin ContactOps
  PROVE  Lists(new, ui, Doubtful, tokens, rel)
<1>1. ListStep(calls[i], d, ui, tokens, rel, rel)
  BY DEF ListStep, Shut, Changed, ListedBy, ContactOps
<1>2. Len(tokens) \in Nat
  BY DEF AccountsInv, Storage, IsSeq
<1>3. Extends(tokens, tokens)
  BY <1>2 DEF Extends
<1> QED
  BY <1>1, <1>3, AfterLists DEF AccountsInv

\* A contacts request that is read is gone.
LEMMA GoneCalm ==
  ASSUME NEW old, NEW new, NEW i \in 1..Len(old), NEW d, NEW f, After(old, new, i, d, f), ~Stays(d),
         NEW u, NEW ts, Calm(old, u, ts)
  PROVE  /\ Calm(new, u, ts)
         /\ \A k \in 1..Len(new) : f[k] \in 1..Len(old) /\ f[k] # i /\ new[k] = old[f[k]]
         /\ \A j \in 1..Len(old) : j # i => \E k \in 1..Len(new) : new[k] = old[j]
<1>1. ASSUME NEW k \in 1..Len(new)
      PROVE  f[k] \in 1..Len(old) /\ f[k] # i /\ new[k] = old[f[k]]
  BY DEF After
<1>2. \A j \in 1..Len(old) : j # i => \E k \in 1..Len(new) : new[k] = old[j]
  BY DEF After
<1>3. ASSUME NEW j \in 1..Len(new), NEW k \in 1..Len(new), new[j].op = "contacts",
             new[k].op = "contacts"
      PROVE  j = k
  <2>1. PICK a, b : a = f[j] /\ b = f[k]
    OBVIOUS
  <2>2. /\ a \in 1..Len(old) /\ old[a].op = "contacts"
        /\ b \in 1..Len(old) /\ old[b].op = "contacts"
    BY <1>1, <1>3, <2>1
  <2>3. a = b
    BY <2>2 DEF Calm
  <2> QED
    BY <2>1, <2>3 DEF After
<1>4. \A k \in 1..Len(new) : new[k].op \in ContactOps => new[k].open /\ new[k].token = u.token
  BY <1>1 DEF Calm
<1>5. u.token = 0 => u.page # "shell" /\ \A k \in 1..Len(new) : new[k].op \notin ContactOps
  BY <1>1 DEF Calm
<1>6. Calm(new, u, ts)
  BY <1>3, <1>4, <1>5 DEF Calm
<1> QED
  BY <1>1, <1>2, <1>6

\* What a login that is waited for depends on is as it was.
SameLogin(u, v) ==
  /\ v.page = u.page /\ (v.pending <=> u.pending) /\ v.connecting = u.connecting
  /\ v.mode = u.mode /\ v.account = u.account /\ v.remembered = u.remembered

LEMMA KeptLogins ==
  ASSUME NEW cs, NEW u, NEW v, SameLogin(u, v), Logins(cs, u)
  PROVE  Logins(cs, v)
<1>1. ASSUME NEW k \in 1..Len(cs), LoginCall(cs[k]) PROVE Awaited(cs[k], v)
  <2>1. Awaited(cs[k], u)
    BY <1>1 DEF Logins
  <2> QED
    BY <2>1 DEF Awaited, SameLogin
<1> QED
  BY <1>1 DEF Logins

LEMMA HttpTimeoutStep ==
  ASSUME AccountsInv, NEW i \in DOMAIN calls, HttpTimeout(i)
  PROVE  AccountsInv'
<1>1. i \in 1..Len(calls)
  BY CallAt
<1>2. PICK c : c = calls[i]
  OBVIOUS
<1>3. /\ c.open /\ calls' = Closed(i) /\ Doubtful' = (Doubtful \/ c.op \in ContactOps)
      /\ ui' = [ui EXCEPT !.pending = ui.pending /\ c.op \notin {"login", "resume"}]
      /\ UNCHANGED <<tokens, users, rel>>
  BY <1>2 DEF HttpTimeout, LoginNetworkError, ContactsNetworkError, storage, Doubtful, doubts
<1>4. PICK d, f : Shut(c, d) /\ After(calls, calls', i, d, f)
  BY <1>1, <1>2, <1>3, ClosedIs
<1>5. /\ IsSeq(calls') /\ CallsOK(calls', tokens) /\ Winners(calls', users)
      /\ ~LoginCall(c) => Logins(calls', ui)
      /\ LoginCall(c) => \A k \in 1..Len(calls') : ~LoginCall(calls'[k])
      /\ \A v : (v.token = ui.token \/ v.token \in 1..Len(tokens)) => Sessioned(calls', v, tokens)
  BY <1>1, <1>2, <1>4, ShutKeeps
<1>6. DOMAIN ui = UiFields /\ UiOK(ui, tokens)
  BY DEF AccountsInv, UiOK
<1>7. /\ DOMAIN ui' = UiFields /\ ui'.page = ui.page /\ ui'.mode = ui.mode /\ ui'.account = ui.account
      /\ ui'.connecting = ui.connecting /\ ui'.remembered = ui.remembered /\ ui'.token = ui.token
      /\ ui'.shown = ui.shown
      /\ ui'.pending <=> (ui.pending /\ c.op \notin {"login", "resume"})
  BY <1>3, <1>6 DEF UiFields
<1>8. LoginCall(c) => ~ui.connecting
  BY <1>1, <1>2 DEF AccountsInv, Logins, Awaited
<1>9. UiOK(ui', tokens)
  BY <1>3, <1>6, <1>7, <1>8 DEF UiOK, LoginCall
<1>10. Logins(calls', ui')
  <2>1. CASE LoginCall(c)
    BY <1>5, <2>1 DEF Logins
  <2>2. CASE ~LoginCall(c)
    <3>1. SameLogin(ui, ui')
      BY <1>3, <1>7, <2>2 DEF SameLogin, LoginCall
    <3> QED
      BY <1>5, <2>2, <3>1, KeptLogins
  <2> QED
    BY <2>1, <2>2
<1>11. Lists(calls', ui', Doubtful', tokens, rel)
  <2>1. CASE c.op \in ContactOps
    BY <1>3, <2>1 DEF Lists
  <2>2. CASE c.op \notin ContactOps
    <3>1. Lists(calls', ui, Doubtful, tokens, rel)
      BY <1>1, <1>2, <1>4, <2>2, ShutLists
    <3>2. SameShow(ui, ui')
      BY <1>7 DEF SameShow
    <3>3. Lists(calls', ui', Doubtful, tokens, rel)
      BY <3>1, <3>2, ShowLists
    <3> QED
      BY <1>3, <2>2, <3>3 DEF Lists
  <2> QED
    BY <2>1, <2>2
<1>12. Sessioned(calls', ui', tokens)
  BY <1>5, <1>7
<1> QED
  BY <1>3, <1>5, <1>9, <1>10, <1>11, <1>12 DEF AccountsInv

\* A reply that changes nothing else but the list of requests.
LEMMA ShownStep ==
  ASSUME AccountsInv, NEW i \in 1..Len(calls), calls[i].op \notin {"login", "resume"},
         calls[i].pc = "answered", calls' = Closed(i), UNCHANGED <<tokens, users, rel, ui>>,
         Doubtful' \/ (Doubtful' = Doubtful /\ calls[i].op \notin {"contacts", "add", "delete"})
  PROVE  AccountsInv'
<1>1. PICK c : c = calls[i]
  OBVIOUS
<1>2. PICK d, f : Shut(c, d) /\ After(calls, calls', i, d, f)
  BY <1>1, ClosedIs
<1>3. /\ IsSeq(calls') /\ CallsOK(calls', tokens) /\ Winners(calls', users)
      /\ ~LoginCall(c) => Logins(calls', ui)
      /\ \A v : (v.token = ui.token \/ v.token \in 1..Len(tokens)) => Sessioned(calls', v, tokens)
  BY <1>1, <1>2, ShutKeeps
<1>4. ~LoginCall(c)
  BY <1>1 DEF LoginCall
<1>5. Lists(calls', ui', Doubtful', tokens, rel)
  <2>1. CASE Doubtful'
    BY <2>1 DEF Lists
  <2>2. CASE Doubtful' = Doubtful /\ c.op \notin ContactOps
    BY <1>1, <1>2, <2>2, ShutLists
  <2>3. CASE ~Doubtful' /\ Doubtful' = Doubtful /\ c.op = "search"
    <3>1. Calm(calls, ui, tokens) /\ Follows(calls, ui, tokens, rel)
      BY <2>3 DEF AccountsInv, Lists
    <3>2. ~Stays(d)
      BY <1>1, <1>2, <2>3 DEF Shut, Stays
    <3>3. /\ Calm(calls', ui, tokens)
          /\ \A k \in 1..Len(calls') : f[k] \in 1..Len(calls) /\ f[k] # i /\ calls'[k] = calls[f[k]]
          /\ \A j \in 1..Len(calls) : j # i => \E k \in 1..Len(calls') : calls'[k] = calls[j]
      BY <1>2, <3>1, <3>2, GoneCalm
    <3>4. ~Changed(calls[i]) /\ calls[i].op # "contacts"
      BY <1>1, <2>3 DEF Changed
    <3>5. (\A k \in 1..Len(calls') : ~Changed(calls'[k])) => \A j \in 1..Len(calls) : ~Changed(calls[j])
      BY <3>3, <3>4
    <3>6. (\A k \in 1..Len(calls') : calls'[k].op # "contacts")
             => \A j \in 1..Len(calls) : calls[j].op # "contacts"
      BY <3>3, <3>4
    <3>7. Follows(calls', ui, tokens, rel)
      <4> SUFFICES ASSUME ui.token # 0, \A k \in 1..Len(calls') : ~Changed(calls'[k])
                   PROVE  /\ (\A k \in 1..Len(calls') : calls'[k].op # "contacts")
                               => (ui.shown <=> OnList(ui, tokens, rel))
                          /\ \A k \in 1..Len(calls') : ListedBy(calls'[k]) =>
                               (calls'[k].x = 1 <=> OnList(ui, tokens, rel))
        BY DEF Follows
      <4>1. /\ (\A j \in 1..Len(calls) : calls[j].op # "contacts")
                 => (ui.shown <=> OnList(ui, tokens, rel))
            /\ \A j \in 1..Len(calls) : ListedBy(calls[j]) =>
                 (calls[j].x = 1 <=> OnList(ui, tokens, rel))
        BY <3>1, <3>5 DEF Follows
      <4> QED
        BY <3>3, <3>6, <4>1
    <3> QED
      BY <3>3, <3>7 DEF Lists
  <2> QED
    BY <1>1, <2>1, <2>2, <2>3 DEF ContactOps
<1>6. Sessioned(calls', ui', tokens)
  BY <1>3
<1> QED
  BY <1>3, <1>4, <1>5, <1>6 DEF AccountsInv

\* The list is shown.
LEMMA ContactsListedStep ==
  ASSUME AccountsInv, NEW i \in 1..Len(calls), calls[i].pc = "answered", ContactsListed(i),
         UNCHANGED <<tokens, users, rel>>
  PROVE  AccountsInv'
<1>1. PICK c : c = calls[i]
  OBVIOUS
<1>2. /\ c.op = "contacts" /\ calls' = Closed(i) /\ Doubtful' = (Doubtful \/ c.result # "ok")
      /\ ui' = [ui EXCEPT !.shown = IF c.result = "ok" THEN c.x = 1 ELSE ui.shown]
  BY <1>1 DEF ContactsListed, Doubtful
<1>3. PICK d, f : Shut(c, d) /\ After(calls, calls', i, d, f)
  BY <1>1, <1>2, ClosedIs
<1>4. /\ IsSeq(calls') /\ CallsOK(calls', tokens) /\ Winners(calls', users)
      /\ ~LoginCall(c) => Logins(calls', ui)
      /\ \A v : (v.token = ui.token \/ v.token \in 1..Len(tokens)) => Sessioned(calls', v, tokens)
  BY <1>1, <1>3, ShutKeeps
<1>5. ~LoginCall(c)
  BY <1>2 DEF LoginCall
<1>6. DOMAIN ui = UiFields /\ UiOK(ui, tokens)
  BY DEF AccountsInv, UiOK
<1>7. ui'.shown \in BOOLEAN
  <2>1. ui'.shown = IF c.result = "ok" THEN c.x = 1 ELSE ui.shown
    BY <1>2, <1>6 DEF UiFields
  <2> QED
    BY <1>6, <2>1 DEF UiOK
<1>8. /\ DOMAIN ui' = UiFields /\ ui'.page = ui.page /\ ui'.mode = ui.mode /\ ui'.account = ui.account
      /\ ui'.connecting = ui.connecting /\ ui'.remembered = ui.remembered /\ ui'.token = ui.token
      /\ ui'.pending = ui.pending /\ (c.result = "ok" => (ui'.shown <=> c.x = 1))
  BY <1>2, <1>6 DEF UiFields
<1>9. UiOK(ui', tokens) /\ SameLogin(ui, ui')
  BY <1>6, <1>8, <1>7 DEF UiOK, SameLogin
<1>10. Logins(calls', ui')
  BY <1>4, <1>5, <1>9, KeptLogins
<1>11. ASSUME ~Doubtful' PROVE Calm(calls', ui', tokens) /\ Follows(calls', ui', tokens, rel)
  <2>1. ~Doubtful /\ c.result = "ok"
    BY <1>2, <1>11
  <2>2. Calm(calls, ui, tokens) /\ Follows(calls, ui, tokens, rel)
    BY <2>1 DEF AccountsInv, Lists
  <2>3. ~Stays(d)
    BY <1>1, <1>2, <1>3 DEF Shut, Stays
  <2>4. /\ Calm(calls', ui, tokens)
        /\ \A k \in 1..Len(calls') : f[k] \in 1..Len(calls) /\ f[k] # i /\ calls'[k] = calls[f[k]]
        /\ \A j \in 1..Len(calls) : j # i => \E k \in 1..Len(calls') : calls'[k] = calls[j]
    BY <1>3, <2>2, <2>3, GoneCalm
  <2>5. \A k \in 1..Len(calls') : calls'[k].op # "contacts"
    BY <1>1, <1>2, <2>2, <2>4 DEF Calm
  <2>6. Calm(calls', ui', tokens)
    BY <1>8, <2>4 DEF Calm
  <2>7. OnList(ui', tokens, rel) <=> OnList(ui, tokens, rel)
    BY <1>8 DEF OnList
  <2>8. ASSUME ui'.token # 0, \A k \in 1..Len(calls') : ~Changed(calls'[k])
        PROVE  ui'.shown <=> OnList(ui', tokens, rel)
    <3>1. ~Changed(calls[i])
      BY <1>1, <1>2 DEF Changed
    <3>2. \A j \in 1..Len(calls) : ~Changed(calls[j])
      BY <2>4, <2>8, <3>1
    <3>3. ListedBy(calls[i])
      BY <1>1, <1>2, <2>1 DEF ListedBy
    <3>4. calls[i].x = 1 <=> OnList(ui, tokens, rel)
      BY <1>8, <2>2, <2>8, <3>2, <3>3 DEF Follows
    <3> QED
      BY <1>1, <1>8, <2>1, <2>7, <3>4
  <2>9. \A k \in 1..Len(calls') : ~ListedBy(calls'[k])
    BY <2>5 DEF ListedBy
  <2> QED
    BY <2>6, <2>8, <2>9 DEF Follows
<1>12. Lists(calls', ui', Doubtful', tokens, rel)
  BY <1>11 DEF Lists
<1>13. Sessioned(calls', ui', tokens)
  BY <1>4, <1>8
<1> QED
  BY <1>4, <1>9, <1>10, <1>12, <1>13 DEF AccountsInv

\* The answer to a login: the session it brings belongs to the account it was for,
\* since the controller waits for no other login.
LEMMA LoginUi ==
  ASSUME AccountsInv, NEW i \in 1..Len(calls), LoginCall(calls[i]), NEW saves \in BOOLEAN, NEW v,
         v = LoginFinished(calls[i], saves)
  PROVE  /\ UiOK(v, tokens) /\ (calls[i].result # "ok" => SameShow(ui, v))
         /\ v.token = ui.token \/ v.token \in 1..Len(tokens)
<1>1. PICK c : c = calls[i]
  OBVIOUS
<1>2. DOMAIN ui = UiFields /\ UiOK(ui, tokens)
  BY DEF AccountsInv, UiOK
<1>3. CallOK(c, tokens) /\ Awaited(c, ui)
  BY <1>1 DEF AccountsInv, CallsOK, Logins
<1>4. CASE c.result # "ok"
  <2>1. PICK m : /\ m \in {ui.remembered, None}
                 /\ v = [ui EXCEPT !.pending = FALSE, !.remembered = m]
    BY <1>1, <1>4 DEF LoginFinished
  <2>2. /\ DOMAIN v = UiFields /\ v.page = ui.page /\ v.connecting = ui.connecting
        /\ v.remembered = m /\ v.token = ui.token /\ v.shown = ui.shown
    BY <1>2, <2>1 DEF UiFields
  <2>3. ~ui.connecting
    BY <1>3 DEF Awaited
  <2>4. UiOK(v, tokens)
    BY <1>2, <2>1, <2>2, <2>3 DEF UiOK
  <2> QED
    BY <1>1, <1>4, <2>2, <2>4 DEF SameShow
<1>5. CASE c.result = "ok"
  <2>1. PICK w : w = [ui EXCEPT !.token = c.token, !.connecting = TRUE]
    OBVIOUS
  <2>2. /\ DOMAIN w = UiFields /\ w.page = ui.page /\ w.pending = ui.pending /\ w.mode = ui.mode
        /\ w.account = ui.account /\ w.remembered = ui.remembered /\ w.token = c.token
        /\ w.connecting = TRUE /\ w.remember = ui.remember /\ w.shown = ui.shown
    BY <1>2, <2>1 DEF UiFields
  <2>3. PICK m : /\ m = IF w.mode = "password" /\ ~w.remember THEN None
                        ELSE SaveRememberedSession(w, saves)
                 /\ v = [w EXCEPT !.remembered = m]
    BY <1>1, <1>5, <2>1 DEF LoginFinished
  <2>4. /\ DOMAIN v = UiFields /\ v.page = ui.page /\ v.pending = ui.pending
        /\ v.token = c.token /\ v.remembered = m /\ v.connecting = TRUE /\ v.shown = ui.shown
    BY <2>2, <2>3 DEF UiFields
  <2>5. c.op = "login" \/ c.op = "resume"
    BY <1>1 DEF LoginCall
  <2>6. c.token \in 1..Len(tokens)
    BY <1>3, <1>5, <2>5 DEF CallOK, SessionOf
  <2>7. m \in {None, ui.remembered} \/ (m.token = c.token /\ SessionOf(tokens, m.token, m.account))
    <3>1. \/ m \in {None, ui.remembered}
          \/ m = [token |-> c.token,
                  account |-> IF ui.mode = "password" THEN ui.account ELSE ui.remembered.account]
      BY <2>2, <2>3 DEF SaveRememberedSession
    <3>2. SessionOf(tokens, c.token, IF ui.mode = "password" THEN ui.account ELSE ui.remembered.account)
      <4>1. CASE c.op = "login"
        BY <1>3, <1>5, <4>1 DEF CallOK, Awaited
      <4>2. CASE c.op = "resume"
        BY <1>2, <1>3, <4>2 DEF UiOK, Awaited
      <4> QED
        BY <2>5, <4>1, <4>2
    <3> QED
      BY <3>1, <3>2
  <2>8. ui.page = "login" /\ ui.pending
    BY <1>3 DEF Awaited
  <2>9. m # None => SessionOf(tokens, m.token, m.account)
    BY <1>2, <2>7 DEF UiOK
  <2>10. UiOK(v, tokens)
    BY <1>2, <2>4, <2>6, <2>8, <2>9 DEF UiOK
  <2> QED
    BY <1>1, <1>5, <2>4, <2>6, <2>10
<1> QED
  BY <1>4, <1>5

LEMMA LoginReplyStep ==
  ASSUME AccountsInv, NEW i \in 1..Len(calls), calls[i].open, LoginReply(i),
         UNCHANGED <<tokens, users, rel>>
  PROVE  AccountsInv'
<1>1. PICK c : c = calls[i]
  OBVIOUS
<1>2. /\ c.op \in {"login", "resume"} /\ calls' = Closed(i)
      /\ Doubtful' = (Doubtful \/ c.result = "ok")
  BY <1>1 DEF LoginReply, Doubtful
<1>3. LoginCall(c)
  BY <1>1, <1>2 DEF LoginCall
<1>4. PICK saves \in BOOLEAN : ui' = LoginFinished(calls[i], saves)
  BY DEF LoginReply
<1>5. /\ UiOK(ui', tokens) /\ (c.result # "ok" => SameShow(ui, ui'))
      /\ ui'.token = ui.token \/ ui'.token \in 1..Len(tokens)
  BY <1>1, <1>3, <1>4, LoginUi
<1>6. PICK d, f : Shut(c, d) /\ After(calls, calls', i, d, f)
  BY <1>1, <1>2, ClosedIs
<1>7. /\ IsSeq(calls') /\ CallsOK(calls', tokens) /\ Winners(calls', users)
      /\ LoginCall(c) => \A k \in 1..Len(calls') : ~LoginCall(calls'[k])
      /\ \A v : (v.token = ui.token \/ v.token \in 1..Len(tokens)) => Sessioned(calls', v, tokens)
  BY <1>1, <1>6, ShutKeeps
<1>8. Logins(calls', ui')
  BY <1>3, <1>7 DEF Logins
<1>9. Lists(calls', ui', Doubtful', tokens, rel)
  <2>1. CASE c.result = "ok"
    BY <1>2, <2>1 DEF Lists
  <2>2. CASE c.result # "ok"
    <3>1. c.op \notin ContactOps
      BY <1>2 DEF ContactOps
    <3>2. Lists(calls', ui, Doubtful, tokens, rel)
      BY <1>1, <1>6, <3>1, ShutLists
    <3>3. Lists(calls', ui', Doubtful, tokens, rel)
      BY <1>5, <2>2, <3>2, ShowLists
    <3> QED
      BY <1>2, <2>2, <3>3 DEF Lists
  <2> QED
    BY <2>1, <2>2
<1>10. Sessioned(calls', ui', tokens)
  BY <1>5, <1>7
<1> QED
  BY <1>5, <1>7, <1>8, <1>9, <1>10 DEF AccountsInv

\* A change of the contacts is followed by a query, which is the only one.
LEMMA ContactChangedStep ==
  ASSUME AccountsInv, NEW i \in 1..Len(calls), calls[i].op \in {"add", "delete"},
         calls[i].pc = "answered", ContactChanged(i), UNCHANGED <<tokens, users, rel, ui>>
  PROVE  AccountsInv'
<1>1. PICK c, mid : c = calls[i] /\ mid = Closed(i)
  OBVIOUS
<1>2. PICK d, f : Shut(c, d) /\ After(calls, mid, i, d, f)
  BY <1>1, ClosedIs
<1>3. /\ IsSeq(mid) /\ CallsOK(mid, tokens) /\ Winners(mid, users)
      /\ ~LoginCall(c) => Logins(mid, ui)
      /\ \A v : (v.token = ui.token \/ v.token \in 1..Len(tokens)) => Sessioned(mid, v, tokens)
  BY <1>1, <1>2, ShutKeeps
<1>4. ~LoginCall(c) /\ ~Stays(d)
  BY <1>1, <1>2 DEF LoginCall, Stays, Shut
<1>5. PICK n : n = Call("contacts", "", 0, 0, ui.token, "validate")
  OBVIOUS
<1>6. calls' = Append(mid, n) /\ Doubtful' = (Doubtful \/ Querying)
  BY <1>1, <1>5 DEF ContactChanged, ListQuery, Doubtful
<1>7. Grown(mid, calls', n)
  BY <1>3, <1>6, SeqAppend
<1>8. /\ DOMAIN n = CallFields /\ n.op = "contacts" /\ n.pc = "validate" /\ n.open
      /\ n.token = ui.token /\ n.result = "none"
  <2>1. DOMAIN Call("contacts", "", 0, 0, ui.token, "validate") = CallFields
    BY DEF Call, CallFields
  <2> QED
    BY <1>5, <2>1 DEF Call
<1>9. ~LoginCall(n) /\ ~ListedBy(n) /\ \A e : ~Winner(n, e)
  BY <1>8 DEF LoginCall, ListedBy, Winner
<1>10. IsSeq(calls') /\ Winners(calls', users) /\ Logins(calls', ui)
  BY <1>3, <1>4, <1>7, <1>9, GrownWinners, GrownLogins DEF Grown
<1>11. ui.token \in 1..Len(tokens)
  BY DEF AccountsInv, Sessioned, ContactOps
<1>12. ASSUME ~Doubtful' PROVE Calm(calls', ui, tokens) /\ Follows(calls', ui, tokens, rel)
  <2>1. ~Doubtful /\ ~Querying
    BY <1>6, <1>12
  <2>2. Calm(calls, ui, tokens)
    BY <2>1 DEF AccountsInv, Lists
  <2>3. \A k \in 1..Len(calls) : calls[k].op # "contacts"
    BY <2>1, NoQuery
  <2>4. /\ Calm(mid, ui, tokens)
        /\ \A k \in 1..Len(mid) : f[k] \in 1..Len(calls) /\ f[k] # i /\ mid[k] = calls[f[k]]
    BY <1>2, <1>4, <2>2, GoneCalm
  <2>5. \A k \in 1..Len(mid) : mid[k].op # "contacts"
    BY <2>3, <2>4
  <2>6. Calm(calls', ui, tokens)
    <3>1. OfShell(n, ui)
      BY <1>8, <1>11 DEF OfShell
    <3> QED
      BY <1>7, <1>8, <2>4, <2>5, <3>1, GrownCalm
  <2> QED
    BY <1>7, <1>8, <1>9, <2>6, GrownHas, QueryFollows
<1>13. Lists(calls', ui', Doubtful', tokens, rel)
  BY <1>12 DEF Lists
<1>14. CallOK(n, tokens)
  BY <1>8, <1>11 DEF CallOK, StepOf
<1>15. CallsOK(calls', tokens)
  BY <1>3, <1>7, <1>14, GrownCalls
<1>16. Sessioned(calls', ui, tokens)
  BY <1>3, <1>7, <1>11, GrownSessioned
<1> QED
  BY <1>10, <1>13, <1>15, <1>16 DEF AccountsInv

LEMMA HttpFinishedStep ==
  ASSUME AccountsInv, NEW i \in DOMAIN calls, HttpFinished(i)
  PROVE  AccountsInv'
<1>1. /\ i \in 1..Len(calls) /\ calls[i].pc = "answered" /\ calls[i].open
      /\ UNCHANGED <<tokens, users, rel>>
  BY CallAt DEF HttpFinished, At, storage
<1>2. CASE RegisterFinished(i) \/ ResetFinished(i) \/ SearchFinished(i)
  <2>1. /\ calls[i].op \in {"varify", "register", "reset", "search"}
        /\ calls' = Closed(i) /\ ui' = ui /\ Doubtful' = Doubtful
    BY <1>2 DEF RegisterFinished, ResetFinished, SearchFinished, Shown, Doubtful, doubts
  <2> QED
    BY <1>1, <2>1, ShownStep
<1>3. CASE LoginReply(i)
  BY <1>1, <1>3, LoginReplyStep
<1>4. CASE ContactsListed(i)
  BY <1>1, <1>4, ContactsListedStep
<1>5. CASE AddFinished(i) \/ DeleteFinished(i)
  <2>1. calls[i].op \in {"add", "delete"} /\ ui' = ui
    BY <1>5 DEF AddFinished, DeleteFinished
  <2>2. CASE ContactFailed(i)
    <3>1. calls' = Closed(i) /\ Doubtful'
      BY <2>2 DEF ContactFailed, Doubtful
    <3> QED
      BY <1>1, <2>1, <3>1, ShownStep
  <2>3. CASE ContactChanged(i)
    BY <1>1, <2>1, <2>3, ContactChangedStep
  <2> QED
    BY <1>5, <2>2, <2>3 DEF AddFinished, DeleteFinished
<1> QED
  BY <1>2, <1>3, <1>4, <1>5 DEF HttpFinished

-----------------------------------------------------------------------------
(* The theorems                                                            *)

LEMMA MeIsThere ==
  ASSUME AccountBounds
  PROVE  Me \in Emails
<1>1. Emails # {}
  BY FS_EmptySet DEF AccountBounds
<1> QED
  BY <1>1 DEF Me

LEMMA AccountsInit ==
  ASSUME AccountBounds, Init
  PROVE  AccountsInv
<1>1. PICK shell \in BOOLEAN, listed \in BOOLEAN :
        /\ listed => shell
        /\ calls = <<>>
        /\ users = [e \in Emails |-> IF e = Me \/ shell THEN CHOOSE p \in Passwords : TRUE ELSE 0]
        /\ tokens = <<[email |-> Me, live |-> TRUE]>>
        /\ rel = [e \in Emails |-> IF listed THEN "on" ELSE "none"]
        /\ ui = [page |-> IF shell THEN "shell" ELSE "login", mode |-> "password",
                 account |-> Me, remember |-> TRUE, pending |-> FALSE, connecting |-> FALSE,
                 remembered |-> [account |-> Me, token |-> 1],
                 token |-> IF shell THEN 1 ELSE 0, shown |-> listed]
  BY DEF Init
<1>2. calls \in Seq({}) /\ Len(calls) = 0
  BY <1>1
<1>3. IsSeq(calls) /\ 1..Len(calls) = {}
  BY <1>2 DEF IsSeq
<1>4. PICK s : s = [email |-> Me, live |-> TRUE]
  OBVIOUS
<1>5. tokens \in Seq({s}) /\ Len(tokens) = 1 /\ tokens[1] = s
  BY <1>1, <1>4
<1>6. DOMAIN s = {"email", "live"} /\ s.email = Me
  BY <1>4
<1>7. Storage(tokens, users)
  <2>1. IsSeq(tokens)
    BY <1>5 DEF IsSeq
  <2>2. \A t \in 1..Len(tokens) : DOMAIN tokens[t] = {"email", "live"}
    BY <1>5, <1>6
  <2>3. DOMAIN users = Emails
    BY <1>1
  <2> QED
    BY <2>1, <2>2, <2>3 DEF Storage
<1>8. CallsOK(calls, tokens) /\ Logins(calls, ui) /\ Winners(calls, users)
  BY <1>3 DEF CallsOK, Logins, Winners, WinnersFor
<1>9. /\ DOMAIN ui = UiFields /\ ui.connecting = FALSE /\ ui.page = (IF shell THEN "shell" ELSE "login")
      /\ ui.remembered = [account |-> Me, token |-> 1] /\ ui.token = (IF shell THEN 1 ELSE 0)
      /\ ui.shown = listed
  BY <1>1 DEF UiFields
<1>10. ui.remembered.account = Me /\ ui.remembered.token = 1
  BY <1>9
<1>11. UiOK(ui, tokens)
  BY <1>5, <1>6, <1>9, <1>10 DEF UiOK, SessionOf
<1>12. Calm(calls, ui, tokens)
  BY <1>3, <1>5, <1>9 DEF Calm
<1>13. rel[Me] = "on" <=> listed
  BY <1>1, MeIsThere
<1>14. ui.token # 0 => (ui.shown <=> OnList(ui, tokens, rel))
  BY <1>5, <1>6, <1>9, <1>13 DEF OnList
<1>15. Follows(calls, ui, tokens, rel)
  BY <1>3, <1>14 DEF Follows
<1>16. Sessioned(calls, ui, tokens)
  BY <1>3 DEF Sessioned
<1> QED
  BY <1>3, <1>7, <1>8, <1>11, <1>12, <1>15, <1>16 DEF AccountsInv, Lists

LEMMA AccountsNext ==
  ASSUME AccountBounds, AccountsInv, [Next]_vars
  PROVE  AccountsInv'
<1>1. CASE UNCHANGED vars
  BY <1>1 DEF vars, AccountsInv, Doubtful
<1>2. ASSUME NEW i \in DOMAIN calls,
             \/ GetRedis(i) \/ SetCode(i) \/ ExpireCode(i) \/ SendMail(i)
             \/ RegisterUserHandler(i) \/ SelectUser(i) \/ InsertUser(i) \/ LastInsertId(i)
             \/ ResetPwdHandler(i) \/ PasswordLogin(i) \/ ResumeLogin(i)
      PROVE  AccountsInv'
  BY <1>2, VarifyStep, RegisterStep, ResetStep, PasswordLoginStep, ResumeLoginStep
<1>3. ASSUME NEW i \in DOMAIN calls,
             \/ GetContacts(i) \/ SearchContacts(i) \/ AddContact(i) \/ DeleteContact(i)
             \/ StorageFails(i) \/ HttpTimeout(i) \/ HttpFinished(i)
      PROVE  AccountsInv'
  BY <1>3, GetContactsStep, SearchContactsStep, AddContactStep, DeleteContactStep,
     StorageFailsStep, HttpTimeoutStep, HttpFinishedStep
<1>4. ASSUME NEW e \in Emails, GetVarifyCodeAsync(e) PROVE AccountsInv'
  <2>1. UNCHANGED <<tokens, users, rel, ui, Doubtful>>
    BY <1>4 DEF GetVarifyCodeAsync, Asks, storage, Doubtful, doubts
  <2>2. PICK d : d = Call("varify", e, 0, 0, 0, "get") /\ Post(d)
    BY <1>4 DEF GetVarifyCodeAsync
  <2>3. DOMAIN d = CallFields /\ d.op = "varify" /\ d.pc = "get" /\ d.result = "none"
    BY <2>2, CallIs
  <2>4. CallOK(d, tokens)
    BY <2>3 DEF CallOK, StepOf
  <2> QED
    BY <2>1, <2>2, <2>3, <2>4, AskStep DEF ContactOps
<1>5. ASSUME NEW e \in Emails, NEW p \in Passwords, NEW code,
             RegisterRequest(e, code, p) \/ ReSetPassword(e, code, p)
      PROVE  AccountsInv'
  BY <1>5, CodePageStep
<1>6. ASSUME NEW e, NEW p, NEW remember, LoginRequest(e, p, remember) PROVE AccountsInv'
  BY <1>6, LoginRequestStep
<1>7. CASE ResumeLoginRequest
  BY <1>7, ResumeLoginRequestStep
<1>8. CASE ForgetRememberedSession \/ RealtimeLogin \/ ReloginRequested
  BY <1>8, OwnStep
<1>9. CASE RequestContacts \/ SearchContactsRequest \/ AddContactRequest \/ DeleteContactRequest
  BY <1>9, ContactRequestStep
<1>10. CASE Expires
  BY <1>10, ExpiresStep
<1> QED
  BY <1>1, <1>2, <1>3, <1>4, <1>5, <1>6, <1>7, <1>8, <1>9, <1>10 DEF Next

\* AccountsInv holds in every state: every request is at a step of its handler and
\* carries a session of the account it acts for, the client waits for at most one
\* login, of which it knows the account, one registration of an email at most has
\* its row, and while no contacts request went wrong the list that is shown, or that
\* a query brings, is the server's.
THEOREM AccountsInvariant == Spec => []AccountsInv
<1>1. Init => AccountsInv
  BY AccountBounds, AccountsInit
<1>2. AccountsInv /\ [Next]_vars => AccountsInv'
  BY AccountBounds, AccountsNext
<1> QED
  BY <1>1, <1>2, PTL DEF Spec

\* The remembered account and token belong together, whatever answers of
\* LoginController's requests come late or never.
THEOREM RememberedSession == Spec => []RememberedAgrees
<1>1. AccountsInv => RememberedAgrees
  BY DEF AccountsInv, UiOK, SessionOf, RememberedAgrees
<1> QED
  BY <1>1, AccountsInvariant, PTL

\* Of all registrations of an email that pass the SELECT of MysqlMgr::RegisterUser
\* at most one succeeds, and its password is the account's until a reset.
THEOREM OneRegistrationWins == Spec => []OneAccountPerEmail
<1>1. ASSUME AccountsInv, NEW e \in Emails
      PROVE  /\ Cardinality(Registered(e)) <= 1
             /\ \A i \in Registered(e) :
                  \/ users[e] = calls[i].password
                  \/ \E j \in DOMAIN calls : calls[j].op = "reset" /\ calls[j].email = e
                                             /\ calls[j].result \in {"ok", "password"}
  <2>1. DOMAIN calls = 1..Len(calls) /\ WinnersFor(calls, users[e], e)
    BY <1>1 DEF AccountsInv, IsSeq, Winners
  <2>2. \A i \in Registered(e) : i \in 1..Len(calls) /\ Winner(calls[i], e)
    BY <2>1 DEF Registered, Winner
  <2>3. \A i, j \in Registered(e) : i = j
    BY <2>1, <2>2 DEF WinnersFor
  <2>4. Cardinality(Registered(e)) <= 1
    <3>1. CASE Registered(e) = {}
      BY <3>1, FS_EmptySet
    <3>2. ASSUME NEW i \in Registered(e) PROVE Cardinality(Registered(e)) <= 1
      <4>1. Registered(e) = {i}
        BY <2>3
      <4> QED
        BY <4>1, FS_Singleton
    <3> QED
      BY <3>1, <3>2
  <2>5. ASSUME NEW i \in Registered(e)
        PROVE  \/ users[e] = calls[i].password
               \/ \E j \in DOMAIN calls : calls[j].op = "reset" /\ calls[j].email = e
                                          /\ calls[j].result \in {"ok", "password"}
    BY <2>1, <2>2 DEF WinnersFor, ResetDone
  <2> QED
    BY <2>4, <2>5
<1>2. AccountsInv => OneAccountPerEmail
  BY <1>1 DEF OneAccountPerEmail
<1> QED
  BY <1>2, AccountsInvariant, PTL

\* Once ContactsController has asked for the list after the last login and every
\* contacts request is done, the list shown is the one of user_contacts for the
\* account that is logged in; a request that failed or two queries that overlapped
\* excuse it only until the page is entered anew with no contacts request under way.
THEOREM ListFollowsServer == Spec => []ListFollows
<1>1. ASSUME AccountsInv, ui.token # 0, ~upset, ~crossed, ~ContactsBusy
      PROVE  ui.shown = (rel[tokens[ui.token].email] = "on")
  <2>1. /\ DOMAIN calls = 1..Len(calls)
        /\ Calm(calls, ui, tokens) /\ Follows(calls, ui, tokens, rel)
    BY <1>1 DEF AccountsInv, IsSeq, Lists, Doubtful
  <2>2. \A i \in 1..Len(calls) : calls[i].op \notin ContactOps
    BY <1>1, <2>1 DEF ContactsBusy
  <2>3. \A i \in 1..Len(calls) : ~Changed(calls[i]) /\ calls[i].op # "contacts"
    BY <2>2 DEF Changed, ContactOps
  <2>4. ui.shown <=> rel[tokens[ui.token].email] = "on"
    BY <1>1, <2>1, <2>3 DEF Follows, OnList
  <2>5. ui.shown \in BOOLEAN
    BY <1>1 DEF AccountsInv, UiOK
  <2> QED
    BY <2>4, <2>5
<1>2. AccountsInv => ListFollows
  BY <1>1 DEF ListFollows, ListIsCurrent
<1> QED
  BY <1>2, AccountsInvariant, PTL
=============================================================================
