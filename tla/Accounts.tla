------------------------------ MODULE Accounts ------------------------------
(***************************************************************************)
(* Accounts and sessions: handle_create_account(), handle_login() and the  *)
(* authentication of a websocket by its cookie.  Every request is a        *)
(* coroutine that sends one operation at a time to MySQL or Redis and      *)
(* waits for it.  The operation is carried out at one moment; the handler  *)
(* looks at the result at a later one, or never: the connection may fail,  *)
(* and a handler of the HTTP API is cancelled after 30 seconds.  What it   *)
(* has sent may then have been carried out, or still be, with nobody there *)
(* to see it.                                                              *)
(*                                                                         *)
(* Names and e-mails stand for what the collation of table users equates;  *)
(* a password stands for its hash, too: verify_password() tells whether    *)
(* they belong together.                                                   *)
(***************************************************************************)
EXTENDS Integers, Sequences

CONSTANTS
  MaxRequests,               \* bound: the requests that are made
  Names, Emails, Passwords,
  SessionIds,                \* what generate_identifier() may return
  Inputs                     \* what clients send

Requests == 1..MaxRequests   \* numbered as they are received
NoCookie == "no cookie"

Request == [kind : {"create", "login", "auth"}, valid : BOOLEAN, name : Names,
            email : Emails, password : Passwords,
            cookie : SessionIds \cup {NoCookie}]

ASSUME AccountsAssumption ==
  /\ MaxRequests \in Nat
  /\ Inputs \subseteq Request
  /\ NoCookie \notin SessionIds

VARIABLES
  users,   \* table users: its rows in the order of their ids
  keys,    \* the session keys in Redis: the user id of each, or NoUser
  req,     \* what each request asks
  known,   \* how many accounts there were when it was received
  op,      \* the operation it sent last
  done,    \* has that operation been carried out?
  res,     \* with this result
  user,    \* the user id its handler holds
  sid,     \* the session id its handler generated last
  answer   \* the response

dbVars == <<users, keys>>
handlerVars == <<req, known, op, user, sid, answer>>
vars == <<users, keys, req, known, op, done, res, user, sid, answer>>
-----------------------------------------------------------------------------
NoUser == 0
NoRequest == [kind |-> "none"]
NoResult == [what |-> "none", id |-> NoUser]

Row == [name : Names, email : Emails, password : Passwords]
Ops == {"none", "insert", "byEmail", "set", "get", "byId"}
Result == [what : {"none", "ok", "not_found", "username_exists",
                   "email_exists", "already_exists"},
           id : Nat]
Answers == {"none", "cookie", "authenticated", "bad_request", "login_failed",
            "username_exists", "email_exists", "requires_auth", "error"}

TypeOK ==
  /\ users \in Seq(Row)
  /\ keys \in [SessionIds -> Nat]
  /\ req \in [Requests -> Request \cup {NoRequest}]
  /\ known \in [Requests -> Nat]
  /\ op \in [Requests -> Ops]
  /\ done \in [Requests -> BOOLEAN]
  /\ res \in [Requests -> Result]
  /\ user \in [Requests -> Nat]
  /\ sid \in [Requests -> SessionIds \cup {NoCookie}]
  /\ answer \in [Requests -> Answers]

Init ==
  /\ users = << >>
  /\ keys = [id \in SessionIds |-> NoUser]
  /\ req = [r \in Requests |-> NoRequest]
  /\ known = [r \in Requests |-> 0]
  /\ op = [r \in Requests |-> "none"]
  /\ done = [r \in Requests |-> FALSE]
  /\ res = [r \in Requests |-> NoResult]
  /\ user = [r \in Requests |-> NoUser]
  /\ sid = [r \in Requests |-> NoCookie]
  /\ answer = [r \in Requests |-> "none"]

RowsWith(field, value) == {i \in DOMAIN users : users[i][field] = value}
-----------------------------------------------------------------------------
(* The databases carry out what was sent to them, at any later time. *)

Sent(r, what) == op[r] = what /\ ~done[r]

CarriedOut(r, what, id) ==
  /\ done' = [done EXCEPT ![r] = TRUE]
  /\ res' = [res EXCEPT ![r] = [what |-> what, id |-> id]]

\* The INSERT of create_user(), and the two unique keys of the table.
MySQLInserts(r) ==
  /\ Sent(r, "insert")
  /\ \/ /\ RowsWith("name", req[r].name) # {}
        /\ CarriedOut(r, "username_exists", NoUser)
        /\ UNCHANGED users
     \/ /\ RowsWith("name", req[r].name) = {}
        /\ RowsWith("email", req[r].email) # {}
        /\ CarriedOut(r, "email_exists", NoUser)
        /\ UNCHANGED users
     \/ /\ RowsWith("name", req[r].name) = {}
        /\ RowsWith("email", req[r].email) = {}
        /\ users' = Append(users, [name |-> req[r].name, email |-> req[r].email,
                                   password |-> req[r].password])
        /\ CarriedOut(r, "ok", Len(users) + 1)
  /\ UNCHANGED <<keys, handlerVars>>

\* The SELECT of get_user_by_email().
MySQLFindsByEmail(r) ==
  /\ Sent(r, "byEmail")
  /\ \/ \E i \in RowsWith("email", req[r].email) : CarriedOut(r, "ok", i)
     \/ /\ RowsWith("email", req[r].email) = {}
        /\ CarriedOut(r, "not_found", NoUser)
  /\ UNCHANGED <<dbVars, handlerVars>>

\* Mutant: SET without NX.
RedisOverwrites(r) ==
  /\ Sent(r, "set")
  /\ keys' = [keys EXCEPT ![sid[r]] = user[r]]
  /\ CarriedOut(r, "ok", NoUser)
  /\ UNCHANGED <<users, handlerVars>>

\* SET key user NX EX ttl.
RedisSets(r) ==
  /\ Sent(r, "set")
  /\ \/ /\ keys[sid[r]] = NoUser
        /\ keys' = [keys EXCEPT ![sid[r]] = user[r]]
        /\ CarriedOut(r, "ok", NoUser)
     \/ /\ keys[sid[r]] # NoUser
        /\ CarriedOut(r, "already_exists", NoUser)
        /\ UNCHANGED keys
  /\ UNCHANGED <<users, handlerVars>>

\* GET key.
RedisGets(r) ==
  /\ Sent(r, "get")
  /\ LET u == keys[req[r].cookie]
     IN  CarriedOut(r, IF u = NoUser THEN "not_found" ELSE "ok", u)
  /\ UNCHANGED <<dbVars, handlerVars>>

\* The SELECT of get_user_by_id().
MySQLFindsById(r) ==
  /\ Sent(r, "byId")
  /\ CarriedOut(r, IF user[r] \in DOMAIN users THEN "ok" ELSE "not_found", user[r])
  /\ UNCHANGED <<dbVars, handlerVars>>

\* The seven days of a session are over.
KeyExpires(id) ==
  /\ keys[id] # NoUser
  /\ keys' = [keys EXCEPT ![id] = NoUser]
  /\ UNCHANGED <<users, handlerVars, done, res>>
-----------------------------------------------------------------------------
(* The handlers: what they do from one co_await to the next. *)

Send(r, what) ==
  /\ op' = [op EXCEPT ![r] = what]
  /\ done' = [done EXCEPT ![r] = FALSE]
  /\ res' = [res EXCEPT ![r] = NoResult]
  /\ UNCHANGED answer

Respond(r, what) ==
  /\ answer' = [answer EXCEPT ![r] = what]
  /\ UNCHANGED <<op, done, res>>

\* A request is there: parse and validate it, and send the first operation.
Receive(r, q) ==
  /\ req[r] = NoRequest
  /\ \A earlier \in 1..(r - 1) : req[earlier] # NoRequest
  /\ req' = [req EXCEPT ![r] = q]
  /\ known' = [known EXCEPT ![r] = Len(users)]
  /\ \/ q.kind = "create" /\ q.valid /\ Send(r, "insert")
     \/ q.kind = "login" /\ q.valid /\ Send(r, "byEmail")
     \/ q.kind # "auth" /\ ~q.valid /\ Respond(r, "bad_request")
     \/ q.kind = "auth" /\ q.cookie # NoCookie /\ Send(r, "get")
     \/ q.kind = "auth" /\ q.cookie = NoCookie /\ Respond(r, "requires_auth")
  /\ UNCHANGED <<dbVars, user, sid>>

\* The handler is still there, and has the result of its operation.
Resumed(r, what) == op[r] = what /\ done[r] /\ answer[r] = "none"

\* generate_session_id(): an identifier, any, and the SET that claims it.
GenerateSessionId(r) ==
  /\ \E id \in SessionIds : sid' = [sid EXCEPT ![r] = id]
  /\ Send(r, "set")

\* The rest of handle_create_account().
Created(r) ==
  /\ Resumed(r, "insert")
  /\ \/ /\ res[r].what = "ok"
        /\ user' = [user EXCEPT ![r] = res[r].id]
        /\ GenerateSessionId(r)
     \/ /\ res[r].what # "ok"
        /\ Respond(r, res[r].what)
        /\ UNCHANGED <<user, sid>>
  /\ UNCHANGED <<dbVars, req, known>>

\* Mutant: the password is not verified.
LoggedInUnverified(r) ==
  /\ Resumed(r, "byEmail")
  /\ \/ /\ res[r].what = "ok"
        /\ user' = [user EXCEPT ![r] = res[r].id]
        /\ GenerateSessionId(r)
     \/ /\ res[r].what # "ok"
        /\ Respond(r, "login_failed")
        /\ UNCHANGED <<user, sid>>
  /\ UNCHANGED <<dbVars, req, known>>

\* The rest of handle_login(): one answer for both ways to fail.
LoggedIn(r) ==
  /\ Resumed(r, "byEmail")
  /\ LET verified == res[r].what = "ok"
                     /\ users[res[r].id].password = req[r].password
     IN  \/ /\ verified
            /\ user' = [user EXCEPT ![r] = res[r].id]
            /\ GenerateSessionId(r)
         \/ /\ ~verified
            /\ Respond(r, "login_failed")
            /\ UNCHANGED <<user, sid>>
  /\ UNCHANGED <<dbVars, req, known>>

\* Mutant: an id that is taken is used all the same.
SessionStoredUnchecked(r) ==
  /\ Resumed(r, "set")
  /\ Respond(r, "cookie")
  /\ UNCHANGED <<dbVars, req, known, user, sid>>

\* The loop of generate_session_id(): an id that is taken is replaced.
SessionStored(r) ==
  /\ Resumed(r, "set")
  /\ \/ /\ res[r].what = "already_exists"
        /\ GenerateSessionId(r)
     \/ /\ res[r].what = "ok"
        /\ Respond(r, "cookie")
        /\ UNCHANGED sid
  /\ UNCHANGED <<dbVars, req, known, user>>

\* user_id_from_cookie(): a session that is not there requires authentication.
SessionLookedUp(r) ==
  /\ Resumed(r, "get")
  /\ \/ /\ res[r].what = "ok"
        /\ user' = [user EXCEPT ![r] = res[r].id]
        /\ Send(r, "byId")
     \/ /\ res[r].what = "not_found"
        /\ Respond(r, "requires_auth")
        /\ UNCHANGED user
  /\ UNCHANGED <<dbVars, req, known, sid>>

\* user_from_cookie(): a session of a user that is not there is an error.
Authenticated(r) ==
  /\ Resumed(r, "byId")
  /\ Respond(r, IF res[r].what = "ok" THEN "authenticated" ELSE "error")
  /\ UNCHANGED <<dbVars, req, known, user, sid>>

Waiting(r) == op[r] # "none" /\ answer[r] = "none"

GivesUp(r) ==
  /\ Respond(r, "error")
  /\ UNCHANGED <<dbVars, req, known, user, sid>>

\* Mutant: an error of the look-up is taken for an e-mail that is not there.
FailsAsNotFound(r) ==
  /\ Waiting(r)
  /\ Respond(r, IF op[r] = "byEmail" THEN "login_failed" ELSE "error")
  /\ UNCHANGED <<dbVars, req, known, user, sid>>

\* The operation fails, or its connection does before the result is back.
\* (generate_identifier() may throw, to the same effect.)
Fails(r) == Waiting(r) /\ GivesUp(r)

\* cancel_after(30s), around the handlers of the HTTP API only.
TimesOut(r) == Waiting(r) /\ req[r].kind # "auth" /\ GivesUp(r)

\* Every request has its response, and there is nothing left to happen.
Over ==
  /\ \A r \in Requests : answer[r] # "none" /\ (op[r] = "none" \/ done[r])
  /\ \A id \in SessionIds : keys[id] = NoUser
  /\ UNCHANGED vars

Step(r) ==
  \/ MySQLInserts(r) \/ MySQLFindsByEmail(r) \/ MySQLFindsById(r)
  \/ RedisSets(r) \/ RedisGets(r)
  \/ \E q \in Inputs : Receive(r, q)
  \/ Created(r) \/ LoggedIn(r) \/ SessionStored(r)
  \/ SessionLookedUp(r) \/ Authenticated(r)
  \/ Fails(r) \/ TimesOut(r)

Next ==
  \/ \E r \in Requests : Step(r)
  \/ \E id \in SessionIds : KeyExpires(id)
  \/ Over

Spec == Init /\ [][Next]_vars
-----------------------------------------------------------------------------
\* The request gave the e-mail and the password of account i.
Presented(r, i) ==
  /\ i \in DOMAIN users
  /\ users[i].email = req[r].email
  /\ users[i].password = req[r].password

\* Session id was set for user u, at the request of somebody who presented
\* the e-mail and the password of that account.
Earned(id, u) ==
  \E r \in Requests :
    /\ op[r] = "set" /\ done[r] /\ res[r].what = "ok"
    /\ sid[r] = id /\ user[r] = u
    /\ Presented(r, u)

\* Nobody is somebody else: a session, and a websocket that was authenticated
\* by one, belongs to an account whose e-mail and password were presented for
\* this very session id -- whatever was lost, timed out, retried or expired.
NoImpersonation ==
  /\ \A id \in SessionIds : keys[id] # NoUser => Earned(id, keys[id])
  /\ \A r \in Requests :
       answer[r] = "authenticated" => Earned(req[r].cookie, user[r])

\* A log-in fails only if the account was not there when it was received: also
\* one whose creation was answered with an error, or not at all, can be used.
LoginFailsOnlyWithoutAccount ==
  \A r \in Requests : answer[r] = "login_failed" =>
    \A i \in 1..known[r] : ~Presented(r, i)

\* A cookie names a session that Redis has stored for the account of the
\* request: not one that was taken, nor one that may not have been stored.
CookieIsOwners ==
  \A r \in Requests : answer[r] = "cookie" =>
    /\ res[r].what = "ok"
    /\ Presented(r, user[r])

\* The user of a session never changes while the session lasts.
SessionKeepsUser ==
  [][\A id \in SessionIds :
       keys[id] # NoUser /\ keys'[id] # NoUser => keys'[id] = keys[id]]_vars

AccountsUnique ==
  \A i, j \in DOMAIN users :
    users[i].name = users[j].name \/ users[i].email = users[j].email => i = j

\* What holds of a request at each of its awaits.
RequestInv(r) ==
  /\ known[r] <= Len(users)
  /\ op[r] # "none" => req[r] \in Request
  /\ req[r] = NoRequest => answer[r] = "none"
  /\ ~done[r] => res[r] = NoResult
  /\ op[r] = "insert" /\ done[r] =>
       res[r].what \in {"ok", "username_exists", "email_exists"}
  /\ op[r] = "insert" /\ res[r].what = "ok" => Presented(r, res[r].id)
  /\ op[r] = "byEmail" /\ res[r].what = "ok" =>
       res[r].id \in DOMAIN users /\ users[res[r].id].email = req[r].email
  /\ op[r] = "byEmail" /\ done[r] /\ res[r].what # "ok" =>
       \A i \in 1..known[r] : users[i].email # req[r].email
  /\ op[r] = "set" => sid[r] \in SessionIds /\ Presented(r, user[r])
  /\ op[r] = "get" => req[r].cookie \in SessionIds
  /\ op[r] = "get" /\ res[r].what = "ok" => Earned(req[r].cookie, res[r].id)
  /\ op[r] = "byId" => Earned(req[r].cookie, user[r])
  /\ answer[r] = "cookie" => op[r] = "set" /\ res[r].what = "ok"
  /\ answer[r] = "authenticated" => op[r] = "byId"

IInv ==
  /\ TypeOK
  /\ AccountsUnique
  /\ \A r \in Requests : RequestInv(r)
  /\ NoImpersonation
  /\ LoginFailsOnlyWithoutAccount
=============================================================================
