------------------------------ MODULE Accounts ------------------------------
(***************************************************************************)
(* Accounts and contacts: GateServer's HTTP handlers over MySQL and Redis, *)
(* VarifyServer's verification codes, and the client's login, register,    *)
(* password reset and contacts controllers over HttpMgr.                   *)
(*                                                                         *)
(* Every request is a call whose handler is a sequence of storage steps;   *)
(* the handlers of different calls interleave, since GateServer runs them  *)
(* on a pool of threads and VarifyServer awaits each Redis command.  The   *)
(* client aborts a request after five seconds, while its handler goes on.  *)
(* An email stands for the account and its uid; codes and tokens are       *)
(* numbered in the order they are made.                                    *)
(***************************************************************************)
EXTENDS Naturals, Sequences, FiniteSets, SequencesExt

CONSTANTS Emails,     \* accounts, registered or not
          Passwords,  \* positive numbers
          MaxCalls,   \* HTTP requests
          MaxFails    \* storage errors, timeouts and expiries

ASSUME AccountBounds == /\ Cardinality(Emails) = 2 /\ Passwords \subseteq Nat \ {0}
                        /\ MaxCalls \in Nat \ {0} /\ MaxFails \in Nat

VARIABLES calls,   \* the requests, with the state of the handler and of the reply
          sent,    \* requests made so far
          codes,   \* Redis: the code of an email and whether it will expire
          made,    \* codes made so far
          mailed,  \* the codes the users know
          users,   \* MySQL: the password of an account, 0 for none
          tokens,  \* Redis: sessions
          rel,     \* MySQL: what user_contacts says of the other account
          ui,      \* the client's controllers
          upset,   \* a contacts request failed, or a login succeeded, since the page
                   \* was last entered with no contacts request under way
          crossed, \* two list queries overlapped since then
          fails

vars == <<calls, sent, codes, made, mailed, users, tokens, rel, ui, upset, crossed, fails>>
storage == <<codes, made, mailed, users, tokens, rel>>
doubts == <<upset, crossed>>

None == [account |-> "", token |-> 0]

ContactOps == {"contacts", "search", "add", "delete"}

\* The account the client remembers, and the other one.
Me == CHOOSE e \in Emails : TRUE

Other == CHOOSE e \in Emails : e # Me

\* The client is on the login page and remembers a session of its account, or it is
\* in the shell with its contacts shown and the other account exists; a code has
\* been sent to it.
Init ==
  \E shell, listed \in BOOLEAN :
    /\ listed => shell
    /\ calls = <<>> /\ sent = 0 /\ made = 1 /\ fails = 0 /\ upset = FALSE /\ crossed = FALSE
    /\ users = [e \in Emails |-> IF e = Me \/ shell THEN CHOOSE p \in Passwords : TRUE ELSE 0]
    /\ codes = [e \in Emails |-> IF e = Other THEN [code |-> 1, ttl |-> TRUE]
                                 ELSE [code |-> 0, ttl |-> FALSE]]
    /\ mailed = {<<Other, 1>>}
    /\ tokens = <<[email |-> Me, live |-> TRUE]>>
    /\ rel = [e \in Emails |-> IF listed THEN "on" ELSE "none"]
    /\ ui = [page |-> IF shell THEN "shell" ELSE "login", mode |-> "password",
             account |-> Me, remember |-> TRUE, pending |-> FALSE, connecting |-> FALSE,
             remembered |-> [account |-> Me, token |-> 1],
             token |-> IF shell THEN 1 ELSE 0, shown |-> listed]

Fault == fails < MaxFails /\ fails' = fails + 1

(***************************************************************************)
(* Handlers: the call i is at the step pc                                  *)
(***************************************************************************)

At(i, pc) == calls[i].pc = pc

Go(i, pc) == calls' = [calls EXCEPT ![i].pc = pc]

\* A request that is answered and read, or answered after its client gave up, is
\* over; those that change accounts stay, for the properties.
Settle(cs, i) ==
  IF cs[i].open \/ cs[i].pc # "answered" \/ cs[i].op \in {"register", "reset"}
    THEN cs ELSE RemoveAt(cs, i)

Answer(i, result) ==
  calls' = Settle([calls EXCEPT ![i].pc = "answered", ![i].result = result], i)

Closed(i) == Settle([calls EXCEPT ![i].open = FALSE], i)

Handler == UNCHANGED <<ui, doubts, fails, sent>>

\* VarifyServer GetRedis: an error looks like a code that is not there.
GetRedis(i) ==
  /\ At(i, "get")
  /\ LET code == codes[calls[i].email].code
     IN  \/ /\ code # 0 /\ UNCHANGED fails
            /\ calls' = [calls EXCEPT ![i].pc = "mail", ![i].x = code]
         \/ code = 0 /\ Go(i, "set") /\ UNCHANGED fails
         \/ code # 0 /\ Go(i, "set") /\ Fault
  /\ UNCHANGED <<storage, ui, doubts, sent>>

\* SetRedisExpire: the code first, its expiry with a second command.
SetCode(i) ==
  /\ At(i, "set") /\ made' = made + 1
  /\ codes' = [codes EXCEPT ![calls[i].email] = [code |-> made + 1, ttl |-> FALSE]]
  /\ calls' = [calls EXCEPT ![i].pc = "expire", ![i].x = made + 1]
  /\ UNCHANGED <<mailed, users, tokens, rel>> /\ Handler

ExpireCode(i) ==
  /\ At(i, "expire") /\ Go(i, "mail")
  /\ codes' = [codes EXCEPT ![calls[i].email].ttl = @ \/ codes[calls[i].email].code # 0]
  /\ UNCHANGED <<made, mailed, users, tokens, rel>> /\ Handler

\* SendMail, and the answer of GetVarifyCode.
SendMail(i) ==
  /\ At(i, "mail") /\ Answer(i, "ok")
  /\ mailed' = mailed \cup {<<calls[i].email, calls[i].x>>}
  /\ UNCHANGED <<codes, made, users, tokens, rel>> /\ Handler

\* RedisMgr::Get of the code, for /register_user and /reset_pwd
CheckCode(i, next) ==
  LET code == codes[calls[i].email].code
  IN  IF code = 0 THEN Answer(i, "expired")
      ELSE IF code # calls[i].code THEN Answer(i, "varifycode")
      ELSE Go(i, next)

\* /register_user: the code, then MysqlMgr::RegisterUser, whose result is the answer.
RegisterUserHandler(i) ==
  /\ At(i, "code") /\ calls[i].op = "register" /\ CheckCode(i, "select")
  /\ UNCHANGED storage /\ Handler

\* MysqlMgr::RegisterUser: a SELECT,
SelectUser(i) ==
  /\ At(i, "select")
  /\ IF users[calls[i].email] # 0 THEN Answer(i, "exist") ELSE Go(i, "insert")
  /\ UNCHANGED storage /\ Handler

\* an INSERT that takes the place of a row that is there,
InsertUser_Upserts(i) ==
  /\ At(i, "insert") /\ Go(i, "id")
  /\ users' = [users EXCEPT ![calls[i].email] = calls[i].password]
  /\ UNCHANGED <<codes, made, mailed, tokens, rel>> /\ Handler

\* an INSERT, which the unique keys on the email and on the name reject (error 1062),
InsertUser(i) ==
  /\ At(i, "insert")
  /\ \/ /\ \E e \in Emails : users[e] # 0
        /\ Answer(i, "exist") /\ UNCHANGED users
     \/ /\ users[calls[i].email] = 0
        /\ users' = [users EXCEPT ![calls[i].email] = calls[i].password]
        /\ Go(i, "id")
  /\ UNCHANGED <<codes, made, mailed, tokens, rel>> /\ Handler

\* and the id of the new row.
LastInsertId(i) == At(i, "id") /\ Answer(i, "ok") /\ UNCHANGED storage /\ Handler

\* MysqlMgr::UpdatePwd: one row or none.
UpdatePwd(e, p) == users' = [users EXCEPT ![e] = IF @ # 0 THEN p ELSE 0]

\* /reset_pwd: the code, then the new password.
ResetPwdHandler(i) ==
  /\ calls[i].op = "reset" /\ Handler
  /\ \/ At(i, "code") /\ CheckCode(i, "update") /\ UNCHANGED storage
     \/ /\ At(i, "update") /\ UpdatePwd(calls[i].email, calls[i].password)
        /\ Answer(i, IF users[calls[i].email] # 0 THEN "ok" ELSE "password")
        /\ UNCHANGED <<codes, made, mailed, tokens, rel>>

\* MysqlMgr::CheckPwd and VerifyPassword
CheckPwd(e, p) == IF users[e] = 0 THEN "mysql" ELSE IF users[e] # p THEN "invalid password"
                  ELSE "ok"

\* MysqlMgr::GetUserInfo, by email or by uid
GetUserInfo(e) == users[e] # 0

\* LogicSystem::SaveSession under a new token, or under one whose time starts again
SaveSession(t, e) == tokens' = IF t > Len(tokens) THEN Append(tokens, [email |-> e, live |-> TRUE])
                               ELSE [tokens EXCEPT ![t].live = TRUE]

\* LogicSystem::GenerateToken
GenerateToken == Len(tokens) + 1

\* /login_user with a password
PasswordLogin(i) ==
  LET c == calls[i]
  IN  /\ c.op = "login" /\ UNCHANGED <<codes, made, mailed, users, rel>> /\ Handler
      /\ \/ /\ At(i, "pwd") /\ UNCHANGED tokens
            /\ IF CheckPwd(c.email, c.password) = "ok" THEN Go(i, "info")
               ELSE Answer(i, CheckPwd(c.email, c.password))
         \/ /\ At(i, "info") /\ UNCHANGED tokens
            /\ IF GetUserInfo(c.email) THEN Go(i, "save") ELSE Answer(i, "mysql")
         \/ /\ At(i, "save") /\ SaveSession(GenerateToken, c.email)
            /\ calls' = Settle([calls EXCEPT ![i].pc = "answered", ![i].result = "ok",
                                             ![i].token = GenerateToken], i)

\* LogicSystem::ValidateSession: the account that the rest of the handler is for.
ValidateSession(i, next) ==
  /\ At(i, "validate")
  /\ LET session == tokens[calls[i].token]
     IN  IF ~session.live THEN Answer(i, "invalid session")
         ELSE calls' = [calls EXCEPT ![i].pc = next,
                          ![i].email = IF calls[i].op = "search" THEN @ ELSE session.email]
  /\ UNCHANGED <<tokens, rel>>

\* /login_user with a session token, whose time starts again
ResumeLogin(i) ==
  LET c == calls[i]
  IN  /\ c.op = "resume" /\ UNCHANGED <<codes, made, mailed, users, rel>> /\ Handler
      /\ \/ ValidateSession(i, "info")
         \/ /\ At(i, "info") /\ UNCHANGED tokens
            /\ IF GetUserInfo(c.email) THEN Go(i, "save") ELSE Answer(i, "mysql")
         \/ At(i, "save") /\ SaveSession(c.token, c.email) /\ Answer(i, "ok")

\* MysqlMgr::GetContactListByUid: 1 when the other account is on the list.
GetContactListByUid(e) == IF rel[e] = "on" THEN 1 ELSE 0

Reads == UNCHANGED <<codes, made, mailed, users, tokens>> /\ Handler

\* /get_contacts
GetContacts(i) ==
  /\ calls[i].op = "contacts" /\ Reads
  /\ \/ ValidateSession(i, "list")
     \/ /\ At(i, "list") /\ UNCHANGED rel
        /\ calls' = Settle([calls EXCEPT ![i].pc = "answered", ![i].result = "ok",
                              ![i].x = GetContactListByUid(calls[i].email)], i)

\* /search_contacts
SearchContacts(i) ==
  /\ calls[i].op = "search" /\ Reads
  /\ \/ ValidateSession(i, "info")
     \/ /\ At(i, "info") /\ UNCHANGED rel
        /\ Answer(i, IF GetUserInfo(calls[i].email) THEN "ok" ELSE "mysql")

\* MysqlMgr::AddContact, again after a deletion too
AddContactRow(e) == rel' = [rel EXCEPT ![e] = "on"]

\* /add_contact: the row, then the profile of the contact.
AddContact(i) ==
  /\ calls[i].op = "add" /\ Reads
  /\ \/ ValidateSession(i, "add")
     \/ At(i, "add") /\ AddContactRow(calls[i].email) /\ Go(i, "info")
     \/ /\ At(i, "info") /\ UNCHANGED rel
        /\ Answer(i, IF GetUserInfo(Other) THEN "ok" ELSE "mysql")

\* MysqlMgr::DeleteContact
DeleteContactRow(e) == rel' = [rel EXCEPT ![e] = IF @ = "on" THEN "off" ELSE @]

\* /delete_contact: no row changed is an error.
DeleteContact(i) ==
  /\ calls[i].op = "delete" /\ Reads
  /\ \/ ValidateSession(i, "delete")
     \/ /\ At(i, "delete") /\ DeleteContactRow(calls[i].email)
        /\ Answer(i, IF rel[calls[i].email] = "on" THEN "ok" ELSE "mysql")

\* What the handler answers when a step's storage call fails.  ValidateSession
\* cannot tell an error from a missing key unless the connection is gone too, and
\* the lookup of a code never can.
ErrorOf == [set |-> {"redis"}, expire |-> {"redis"}, mail |-> {"exception"},
            code |-> {"expired"}, select |-> {"mysql"}, insert |-> {"mysql"},
            id |-> {"mysql"}, update |-> {"password"}, pwd |-> {"mysql"},
            info |-> {"mysql"}, save |-> {"redis"},
            validate |-> {"invalid session", "redis"}, list |-> {"mysql"},
            add |-> {"mysql"}, delete |-> {"mysql"}]

StorageFails(i) ==
  /\ calls[i].pc \in DOMAIN ErrorOf /\ Fault
  /\ \E error \in ErrorOf[calls[i].pc] : Answer(i, error)
  /\ UNCHANGED <<storage, ui, doubts, sent>>

\* Redis drops a session or a code whose time is over.
Expires ==
  /\ Fault
  /\ \/ \E t \in DOMAIN tokens : /\ tokens[t].live
                                 /\ tokens' = [tokens EXCEPT ![t].live = FALSE]
                                 /\ UNCHANGED codes
     \/ \E e \in Emails : /\ codes[e].ttl
                          /\ codes' = [codes EXCEPT ![e] = [code |-> 0, ttl |-> FALSE]]
                          /\ UNCHANGED tokens
  /\ UNCHANGED <<calls, sent, made, mailed, users, rel, ui, doubts>>

(***************************************************************************)
(* The client                                                              *)
(***************************************************************************)

\* HttpMgr::PostHttpRequest: the reply stays open until it is read or aborted.
Call(op, email, code, password, token, pc) ==
  [op |-> op, email |-> email, code |-> code, password |-> password, token |-> token,
   pc |-> pc, open |-> TRUE, x |-> 0, result |-> "none"]

Post(c) == sent < MaxCalls /\ sent' = sent + 1 /\ calls' = Append(calls, c)

Asks == UNCHANGED <<storage, fails>>

\* GetVarifyCodeAsync of the register and of the reset page, which lie over the
\* login page.
GetVarifyCodeAsync(e) ==
  ui.page = "login" /\ Post(Call("varify", e, 0, 0, 0, "get")) /\ UNCHANGED <<ui, doubts>> /\ Asks

\* RegisterController::RegisterRequest, of this or of another client
RegisterRequest(e, code, p) ==
  ui.page = "login" /\ Post(Call("register", e, code, p, 0, "code")) /\ UNCHANGED <<ui, doubts>> /\ Asks

\* PasswordResetController::ReSetPassword, to a password that is new
ReSetPassword(e, code, p) ==
  /\ ui.page = "login" /\ p # users[e]
  /\ Post(Call("reset", e, code, p, 0, "code"))
  /\ UNCHANGED <<ui, doubts>> /\ Asks

\* LoginController::LoginRequest; the page lets one login at a time through.
LoginRequest(e, p, remember) ==
  /\ ui.page = "login" /\ ~ui.pending /\ Post(Call("login", e, 0, p, 0, "pwd"))
  /\ ui' = [ui EXCEPT !.mode = "password", !.account = e, !.remember = remember,
                      !.pending = TRUE]
  /\ UNCHANGED doubts /\ Asks

\* LoginController::ResumeLoginRequest
ResumeLoginRequest ==
  /\ ui.page = "login" /\ ~ui.pending /\ ui.remembered # None
  /\ Post(Call("resume", ui.remembered.account, 0, 0, ui.remembered.token, "validate"))
  /\ ui' = [ui EXCEPT !.mode = "remembered", !.remember = TRUE, !.pending = TRUE]
  /\ UNCHANGED doubts /\ Asks

\* LoginController::ForgetRememberedSession
ForgetRememberedSession ==
  /\ ui.page = "login" /\ ~ui.pending /\ ui.remembered # None
  /\ ui' = [ui EXCEPT !.remembered = None]
  /\ UNCHANGED <<calls, sent, doubts>> /\ Asks

\* A list query is under way, for the client or only at the server.
Querying == \E i \in DOMAIN calls : calls[i].op = "contacts"
                                    /\ (calls[i].open \/ calls[i].pc # "answered")

\* Some contacts request is: those that are over are gone.
ContactsBusy == \E i \in DOMAIN calls : calls[i].op \in ContactOps

ListQuery == Call("contacts", "", 0, 0, ui.token, "validate")

\* ContactsController::requestContacts, when the page is entered; with nothing else
\* under way the list is asked for anew.
RequestContacts ==
  /\ ui.page = "shell" /\ Post(ListQuery)
  /\ upset' = (ContactsBusy /\ upset)
  /\ crossed' = (ContactsBusy /\ (crossed \/ Querying))
  /\ UNCHANGED ui /\ Asks

ContactCall(op, e) ==
  /\ ui.page = "shell" /\ Post(Call(op, e, 0, 0, ui.token, "validate"))
  /\ UNCHANGED <<ui, doubts>> /\ Asks

\* ContactsController::searchContacts, addContact and deleteContact
SearchContactsRequest == ContactCall("search", Other)

AddContactRequest == ContactCall("add", "")

DeleteContactRequest == ContactCall("delete", "")

\* The timer that reports a failed request but lets its reply through.
HttpTimeout_LetsReplyThrough(i) ==
  /\ calls[i].open /\ Fault
  /\ ui' = [ui EXCEPT !.pending = @ /\ calls[i].op \notin {"login", "resume"}]
  /\ upset' = (upset \/ calls[i].op \in ContactOps)
  /\ UNCHANGED <<calls, sent, storage, crossed>>

\* slot_login_mod_finish with a network error
LoginNetworkError(i) ==
  ui' = [ui EXCEPT !.pending = @ /\ calls[i].op \notin {"login", "resume"}]

\* slot_contacts_mod_finish with a network error
ContactsNetworkError(i) == upset' = (upset \/ calls[i].op \in ContactOps)

\* The five-second timer of HttpMgr aborts the reply: the controller hears of a
\* network error, and never of what the handler still does.
HttpTimeout(i) ==
  /\ calls[i].open /\ Fault
  /\ calls' = Closed(i) /\ LoginNetworkError(i) /\ ContactsNetworkError(i)
  /\ UNCHANGED <<sent, storage, crossed>>

\* saveRememberedSession, which the credential store may refuse
SaveRememberedSession(u, saves) ==
  IF ~saves THEN u.remembered
  ELSE [token |-> u.token,
        account |-> IF u.mode = "password" THEN u.account ELSE u.remembered.account]

\* LoginController's answer to /login_user; a success goes on to RealtimeServer.
LoginFinished(c, saves) ==
  IF c.result # "ok"
    THEN [ui EXCEPT !.pending = FALSE,
            !.remembered = IF ui.mode = "remembered" /\ c.result = "invalid session"
                             THEN None ELSE @]
    ELSE LET u == [ui EXCEPT !.token = c.token, !.connecting = TRUE]
         IN  [u EXCEPT !.remembered = IF u.mode = "password" /\ ~u.remember THEN None
                                      ELSE SaveRememberedSession(u, saves)]

\* slot_connect_success, slot_login_failed and the login answer of RealtimeServer
RealtimeLogin ==
  /\ ui.connecting
  /\ \/ /\ UNCHANGED fails
        /\ ui' = [ui EXCEPT !.connecting = FALSE, !.pending = FALSE, !.page = "shell"]
     \/ Fault /\ ui' = [ui EXCEPT !.connecting = FALSE, !.pending = FALSE]
  /\ UNCHANGED <<calls, sent, storage, doubts>>

\* The shell asks for a new login once the recovery of its connection has failed.
ReloginRequested ==
  /\ ui.page = "shell" /\ Fault
  /\ ui' = [ui EXCEPT !.page = "login", !.pending = FALSE]
  /\ UNCHANGED <<calls, sent, storage, doubts>>

\* A contact change that is not followed by a new query.
ContactChanged_NoQuery(i) == calls' = Closed(i) /\ UNCHANGED <<doubts, sent>>

\* After a contact was added or deleted the list is asked for again.
ContactChanged(i) ==
  /\ sent < MaxCalls /\ sent' = sent + 1
  /\ calls' = Append(Closed(i), ListQuery)
  /\ crossed' = (crossed \/ Querying) /\ UNCHANGED upset

\* The finished reply of slot_http_finish, for the controller it is for: the register
\* page, the reset page and a search only show the result;
Shown(i) == calls' = Closed(i) /\ UNCHANGED <<ui, doubts, fails, sent>>

RegisterFinished(i) == calls[i].op \in {"varify", "register"} /\ Shown(i)

ResetFinished(i) == calls[i].op = "reset" /\ Shown(i)

SearchFinished(i) == calls[i].op = "search" /\ Shown(i)

\* a login leaves the contacts of the account before it where they are;
LoginReply(i) ==
  /\ calls[i].op \in {"login", "resume"}
  /\ calls' = Closed(i) /\ UNCHANGED <<sent, crossed>>
  /\ upset' = (upset \/ calls[i].result = "ok")
  /\ \/ ui' = LoginFinished(calls[i], TRUE) /\ UNCHANGED fails
     \/ ui' = LoginFinished(calls[i], FALSE) /\ Fault

\* a list is shown;
ContactsListed(i) ==
  /\ calls[i].op = "contacts"
  /\ calls' = Closed(i) /\ upset' = (upset \/ calls[i].result # "ok")
  /\ ui' = [ui EXCEPT !.shown = IF calls[i].result = "ok" THEN calls[i].x = 1 ELSE @]
  /\ UNCHANGED <<fails, sent, crossed>>

\* a change is followed by a new list, an error is only reported.
ContactFailed(i) ==
  calls[i].result # "ok" /\ calls' = Closed(i) /\ upset' = TRUE /\ UNCHANGED <<sent, crossed>>

AddFinished(i) ==
  /\ calls[i].op = "add" /\ UNCHANGED <<ui, fails>>
  /\ ContactFailed(i) \/ (calls[i].result = "ok" /\ ContactChanged(i))

DeleteFinished(i) ==
  /\ calls[i].op = "delete" /\ UNCHANGED <<ui, fails>>
  /\ ContactFailed(i) \/ (calls[i].result = "ok" /\ ContactChanged(i))

HttpFinished(i) ==
  /\ At(i, "answered") /\ calls[i].open /\ UNCHANGED storage
  /\ \/ RegisterFinished(i) \/ ResetFinished(i) \/ SearchFinished(i) \/ LoginReply(i)
     \/ ContactsListed(i) \/ AddFinished(i) \/ DeleteFinished(i)

(***************************************************************************)
(* The specification                                                       *)
(***************************************************************************)

Known(e) == {p[2] : p \in {m \in mailed : m[1] = e}}

Next ==
  \/ \E i \in DOMAIN calls :
       \/ GetRedis(i) \/ SetCode(i) \/ ExpireCode(i) \/ SendMail(i)
       \/ RegisterUserHandler(i) \/ SelectUser(i) \/ InsertUser(i) \/ LastInsertId(i)
       \/ ResetPwdHandler(i) \/ PasswordLogin(i) \/ ResumeLogin(i)
       \/ GetContacts(i) \/ SearchContacts(i) \/ AddContact(i) \/ DeleteContact(i)
       \/ StorageFails(i) \/ HttpTimeout(i) \/ HttpFinished(i)
  \/ \E e \in Emails : GetVarifyCodeAsync(e)
  \/ \E e \in Emails, p \in Passwords :
       \/ \E code \in Known(e) : RegisterRequest(e, code, p) \/ ReSetPassword(e, code, p)
       \/ \E remember \in BOOLEAN : LoginRequest(e, p, remember)
  \/ ResumeLoginRequest \/ ForgetRememberedSession \/ RealtimeLogin
  \/ ReloginRequested \/ RequestContacts
  \/ SearchContactsRequest \/ AddContactRequest \/ DeleteContactRequest
  \/ Expires

Spec == Init /\ [][Next]_vars

(***************************************************************************)
(* Properties                                                              *)
(***************************************************************************)

Registered(e) == {i \in DOMAIN calls : calls[i].op = "register" /\ calls[i].email = e
                                       /\ calls[i].result = "ok"}

\* Two registrations of one email that both passed the SELECT cannot both
\* succeed, and the account has the password of the one that did, unless it was
\* reset since.
OneAccountPerEmail ==
  \A e \in Emails :
    /\ Cardinality(Registered(e)) <= 1
    /\ \A i \in Registered(e) :
         \/ users[e] = calls[i].password
         \/ \E j \in DOMAIN calls : calls[j].op = "reset" /\ calls[j].email = e
                                    /\ calls[j].result \in {"ok", "password"}

\* The account and the token the client remembers belong together, although the
\* token comes with an answer and the account with the request: an answer that
\* comes after the client gave up on its login is never taken for another one's.
RememberedAgrees ==
  ui.remembered # None => tokens[ui.remembered.token].email = ui.remembered.account

\* The list shown is the one of user_contacts for the account that is logged in.
ListIsCurrent == ui.shown = (rel[tokens[ui.token].email] = "on")

\* Once the contacts page was entered after the last login and no contacts request is
\* under way, the list shows what the server has for this account, through changes of
\* its own and whatever account was shown before.  Excused until the page is entered
\* anew, with no contacts request under way: a contacts request that failed, two list
\* queries that overlapped (ChangesAreShown), and a login, after which the code keeps
\* the contacts of the account before.
ListFollows == (ui.token # 0 /\ ~upset /\ ~crossed /\ ~ContactsBusy) => ListIsCurrent

\* The same with overlapping queries: a change is followed by a query, so that the
\* page shows the contacts as they were saved.
ChangesAreShown == (ui.token # 0 /\ ~upset /\ ~ContactsBusy) => ListIsCurrent
=============================================================================
