--------------------------- MODULE AccountsProofs ---------------------------
(***************************************************************************)
(* Proofs about Accounts, for any number of requests, any inputs and any   *)
(* session ids: nobody is authenticated as somebody else, a session keeps  *)
(* its user, and a log-in fails only if there was no such account.         *)
(***************************************************************************)
EXTENDS Accounts, TLAPS

\* No row of the table is changed or deleted: an INSERT may add one.
Grows == users' = users \/ \E row \in Row : users' = Append(users, row)

\* The step is one of request r.
Others(r) ==
  \A w \in Requests \ {r} :
    /\ req'[w] = req[w]
    /\ known'[w] = known[w]
    /\ op'[w] = op[w]
    /\ done'[w] = done[w]
    /\ res'[w] = res[w]
    /\ user'[w] = user[w]
    /\ sid'[w] = sid[w]
    /\ answer'[w] = answer[w]

\* Request w has set a session key, and it shows.
HasSet(w) == op[w] = "set" /\ done[w] /\ res[w].what = "ok"

KeepsKey(w) ==
  HasSet(w) => /\ HasSet(w)'
               /\ sid'[w] = sid[w] /\ user'[w] = user[w] /\ req'[w] = req[w]

\* What has not been received is no request.
LEMMA NoRequestIsNone == NoRequest \notin Request
<1>1. \A q \in Request : q.kind # "none"
  BY DEF Request
<1>2. NoRequest.kind = "none"
  BY DEF NoRequest
<1>3. QED
  BY <1>1, <1>2

\* The rows stay where they are when the table grows.
LEMMA RowsStay ==
  ASSUME TypeOK, Grows
  PROVE  /\ Len(users) \in Nat /\ Len(users') \in Nat
         /\ Len(users) <= Len(users')
         /\ DOMAIN users = 1..Len(users) /\ DOMAIN users' = 1..Len(users')
         /\ \A i \in 1..Len(users) : users'[i] = users[i]
<1>1. users \in Seq(Row)
  BY DEF TypeOK
<1>2. CASE users' = users
  BY <1>1, <1>2
<1>3. CASE \E row \in Row : users' = Append(users, row)
  BY <1>1, <1>3
<1>4. QED
  BY <1>2, <1>3 DEF Grows

\* Who presented the credentials of an account has done so for ever.
LEMMA PresentedStays ==
  ASSUME TypeOK, Grows, NEW w \in Requests, req'[w] = req[w], NEW i,
         Presented(w, i)
  PROVE  Presented(w, i)'
BY RowsStay DEF Presented

\* A session id that was earned stays earned.
LEMMA EarnedStays ==
  ASSUME TypeOK, Grows, NEW r \in Requests, Others(r), KeepsKey(r)
  PROVE  \A id, u : Earned(id, u) => Earned(id, u)'
<1> SUFFICES ASSUME NEW id, NEW u, Earned(id, u)
             PROVE  Earned(id, u)'
  OBVIOUS
<1>1. PICK w \in Requests : HasSet(w) /\ sid[w] = id /\ user[w] = u /\ Presented(w, u)
  BY DEF Earned, HasSet
<1>2. HasSet(w)' /\ sid'[w] = sid[w] /\ user'[w] = user[w] /\ req'[w] = req[w]
  <2>1. CASE w = r
    BY <1>1, <2>1 DEF KeepsKey
  <2>2. CASE w # r
    BY <1>1, <2>2 DEF Others, HasSet
  <2>3. QED
    BY <2>1, <2>2
<1>3. Presented(w, u)'
  BY <1>1, <1>2, PresentedStays
<1>4. QED
  BY <1>1, <1>2, <1>3 DEF Earned, HasSet

\* The other requests keep their part of the invariant.
LEMMA OthersKeepInv ==
  ASSUME TypeOK, Grows, NEW r \in Requests, Others(r), KeepsKey(r),
         NEW w \in Requests \ {r}, RequestInv(w)
  PROVE  RequestInv(w)'
<1>1. /\ req'[w] = req[w] /\ known'[w] = known[w] /\ op'[w] = op[w]
      /\ done'[w] = done[w] /\ res'[w] = res[w] /\ user'[w] = user[w]
      /\ sid'[w] = sid[w] /\ answer'[w] = answer[w]
  BY DEF Others
<1>2. known[w] \in Nat
  BY DEF TypeOK
<1>3. \A id, u : Earned(id, u) => Earned(id, u)'
  BY EarnedStays
<1>4. \A i : Presented(w, i) => Presented(w, i)'
  BY <1>1, PresentedStays
<1>5. known'[w] <= Len(users')
  BY <1>1, <1>2, RowsStay DEF RequestInv
<1>6. op[w] = "byEmail" /\ res[w].what = "ok" =>
        res[w].id \in DOMAIN users' /\ users'[res[w].id].email = req[w].email
  BY RowsStay DEF RequestInv
<1>7. op[w] = "byEmail" /\ done[w] /\ res[w].what # "ok" =>
        \A i \in 1..known[w] : users'[i].email # req[w].email
  BY <1>2, RowsStay DEF RequestInv
<1>8. QED
  BY <1>1, <1>3, <1>4, <1>5, <1>6, <1>7 DEF RequestInv

\* What a step of request r has to show of itself.
OwnPart(r) ==
  /\ TypeOK'
  /\ AccountsUnique'
  /\ RequestInv(r)'
  /\ (\A id \in SessionIds : keys[id] # NoUser => Earned(id, keys[id]))'
  /\ (answer[r] = "login_failed" => \A i \in 1..known[r] : ~Presented(r, i))'

\* The rest of the invariant holds because the tables only grow.
LEMMA StepKeepsInv ==
  ASSUME IInv, Grows, NEW r \in Requests, Others(r), KeepsKey(r), OwnPart(r)
  PROVE  IInv'
<1>1. \A w \in Requests : RequestInv(w)'
  BY OthersKeepInv DEF IInv, OwnPart
<1>2. NoImpersonation'
  BY <1>1 DEF OwnPart, NoImpersonation, RequestInv
<1>3. LoginFailsOnlyWithoutAccount'
  <2> SUFFICES ASSUME NEW w \in Requests, answer'[w] = "login_failed",
                      NEW i \in 1..known'[w]
               PROVE  ~Presented(w, i)'
    BY DEF LoginFailsOnlyWithoutAccount
  <2>1. CASE w = r
    BY <2>1 DEF OwnPart
  <2>2. CASE w # r
    <3>1. /\ req'[w] = req[w] /\ known'[w] = known[w] /\ answer'[w] = answer[w]
      BY <2>2 DEF Others
    <3>2. ~Presented(w, i) /\ known[w] <= Len(users) /\ known[w] \in Nat
      BY <3>1 DEF IInv, LoginFailsOnlyWithoutAccount, RequestInv, TypeOK
    <3>3. i \in 1..Len(users) /\ users'[i] = users[i]
      BY <3>1, <3>2, RowsStay DEF IInv
    <3>4. QED
      BY <3>1, <3>2, <3>3, RowsStay DEF Presented, IInv
  <2>3. QED
    BY <2>1, <2>2
<1>4. QED
  BY <1>1, <1>2, <1>3 DEF IInv, OwnPart

\* The keys are untouched.
LEMMA KeysStay ==
  ASSUME IInv, Grows, NEW r \in Requests, Others(r), KeepsKey(r), keys' = keys
  PROVE  (\A id \in SessionIds : keys[id] # NoUser => Earned(id, keys[id]))'
<1>1. \A id, u : Earned(id, u) => Earned(id, u)'
  BY EarnedStays DEF IInv
<1>2. QED
  BY <1>1 DEF IInv, NoImpersonation

\* The unique keys hold as long as no row is added.
LEMMA UniqueStays ==
  ASSUME IInv, users' = users
  PROVE  AccountsUnique'
BY DEF IInv, AccountsUnique

\* An operation is carried out: its request gets a result, nothing else.
LEMMA CarriedOutFacts ==
  ASSUME TypeOK, NEW r \in Requests, ~done[r], UNCHANGED handlerVars,
         NEW what \in {"ok", "not_found", "username_exists", "email_exists",
                      "already_exists"},
         NEW id \in Nat, CarriedOut(r, what, id)
  PROVE  /\ done' \in [Requests -> BOOLEAN] /\ res' \in [Requests -> Result]
         /\ done'[r] /\ res'[r].what = what /\ res'[r].id = id
         /\ Others(r) /\ KeepsKey(r)
<1>1. [what |-> what, id |-> id] \in Result
  BY DEF Result
<1>2. done' \in [Requests -> BOOLEAN] /\ res' \in [Requests -> Result]
  BY <1>1 DEF CarriedOut, TypeOK
<1>3. done'[r] /\ res'[r] = [what |-> what, id |-> id]
  BY DEF CarriedOut, TypeOK
<1>4. Others(r)
  BY DEF CarriedOut, TypeOK, Others, handlerVars
<1>5. KeepsKey(r)
  BY DEF KeepsKey, HasSet
<1>6. QED
  BY <1>2, <1>3, <1>4, <1>5

\* MySQL carries out an INSERT: the unique keys keep the table unique.
LEMMA MySQLInsertsInv ==
  ASSUME IInv, NEW r \in Requests, MySQLInserts(r)
  PROVE  IInv'
<1>1. TypeOK /\ RequestInv(r) /\ AccountsUnique
  BY DEF IInv
<1>2. /\ op[r] = "insert" /\ ~done[r] /\ req[r] \in Request
      /\ keys' = keys /\ req' = req /\ known' = known /\ op' = op
      /\ user' = user /\ sid' = sid /\ answer' = answer
  BY <1>1 DEF MySQLInserts, Sent, RequestInv, handlerVars
<1> DEFINE row == [name |-> req[r].name, email |-> req[r].email,
                   password |-> req[r].password]
           added == /\ RowsWith("name", req[r].name) = {}
                    /\ RowsWith("email", req[r].email) = {}
                    /\ users' = Append(users, row)
                    /\ CarriedOut(r, "ok", Len(users) + 1)
           refused == /\ \/ CarriedOut(r, "username_exists", NoUser)
                         \/ CarriedOut(r, "email_exists", NoUser)
                      /\ users' = users
<1>3. added \/ refused
  BY DEF MySQLInserts
<1>4. row \in Row
  BY <1>2 DEF Request, Row
<1>5. Grows
  BY <1>3, <1>4 DEF Grows
<1>6. Len(users) \in Nat /\ users \in Seq(Row)
  BY <1>1 DEF TypeOK
<1>7. /\ done' \in [Requests -> BOOLEAN] /\ res' \in [Requests -> Result]
      /\ Others(r) /\ KeepsKey(r)
      /\ done'[r]
      /\ \/ added /\ res'[r].what = "ok" /\ res'[r].id = Len(users) + 1
         \/ refused /\ res'[r].what \in {"username_exists", "email_exists"}
  <2>1. UNCHANGED handlerVars
    BY <1>2 DEF handlerVars
  <2>2. CASE added
    <3>1. Len(users) + 1 \in Nat
      BY <1>6
    <3>2. QED
      BY <1>1, <1>2, <2>1, <2>2, <3>1, CarriedOutFacts
  <2>3. CASE refused
    BY <1>1, <1>2, <2>1, <2>3, CarriedOutFacts DEF NoUser
  <2>4. QED
    BY <1>3, <2>2, <2>3
<1>9. TypeOK'
  <2>1. users' \in Seq(Row)
    BY <1>3, <1>4, <1>6
  <2>2. QED
    BY <1>1, <1>2, <1>7, <2>1 DEF TypeOK
<1>10. AccountsUnique'
  <2>1. CASE refused
    BY <2>1, UniqueStays
  <2>2. CASE added
    <3>1. \A i \in 1..Len(users) : /\ users'[i] = users[i]
                                  /\ users[i].name # row.name
                                  /\ users[i].email # row.email
      BY <1>6, <2>2 DEF RowsWith
    <3>2. DOMAIN users' = 1..(Len(users) + 1) /\ users'[Len(users) + 1] = row
      BY <1>4, <1>6, <2>2
    <3>3. \A i, j \in 1..Len(users) :
            users[i].name = users[j].name \/ users[i].email = users[j].email
              => i = j
      BY <1>1, <1>6 DEF AccountsUnique
    <3> HIDE DEF row
    <3>4. QED
      BY <1>6, <3>1, <3>2, <3>3 DEF AccountsUnique
  <2>3. QED
    BY <1>3, <2>1, <2>2
<1>11. RequestInv(r)'
  <2>1. known'[r] <= Len(users')
    BY <1>1, <1>2, <1>5, <1>6, RowsStay DEF RequestInv, TypeOK
  <2>3. res'[r].what = "ok" => Presented(r, res[r].id)'
    <3> SUFFICES ASSUME res'[r].what = "ok" PROVE Presented(r, res[r].id)'
      OBVIOUS
    <3>1. added /\ res'[r].id = Len(users) + 1
      BY <1>7
    <3>3. DOMAIN users' = 1..(Len(users) + 1) /\ users'[Len(users) + 1] = row
      BY <1>4, <1>6, <3>1
    <3>4. QED
      BY <1>2, <1>6, <3>1, <3>3 DEF Presented
  <2>4. QED
    BY <1>1, <1>2, <1>7, <2>1, <2>3 DEF RequestInv
<1>12. (answer[r] = "login_failed" =>
          \A i \in 1..known[r] : ~Presented(r, i))'
  <2> SUFFICES ASSUME answer[r] = "login_failed", NEW i \in 1..known[r]
               PROVE  ~Presented(r, i)'
    BY <1>2
  <2>1. ~Presented(r, i) /\ i \in 1..Len(users)
    BY <1>1, <1>6 DEF IInv, LoginFailsOnlyWithoutAccount, RequestInv, TypeOK
  <2>2. QED
    BY <1>1, <1>2, <1>5, <2>1, RowsStay DEF Presented
<1>13. QED
  BY <1>1, <1>2, <1>5, <1>7, <1>9, <1>10, <1>11, <1>12, KeysStay, StepKeepsInv
     DEF OwnPart

\* What an operation that leaves table users alone does to the invariant.
LEMMA LookUpFacts ==
  ASSUME IInv, NEW r \in Requests, ~done[r], UNCHANGED <<users, handlerVars>>,
         keys' \in [SessionIds -> Nat],
         NEW what \in {"ok", "not_found", "username_exists", "email_exists",
                      "already_exists"},
         NEW id \in Nat, CarriedOut(r, what, id)
  PROVE  /\ TypeOK' /\ AccountsUnique' /\ Grows /\ Others(r) /\ KeepsKey(r)
         /\ done'[r] /\ res'[r].what = what /\ res'[r].id = id
         /\ (answer[r] = "login_failed" =>
               \A i \in 1..known[r] : ~Presented(r, i))'
<1>1. TypeOK /\ LoginFailsOnlyWithoutAccount
  BY DEF IInv
<1>2. /\ done' \in [Requests -> BOOLEAN] /\ res' \in [Requests -> Result]
      /\ done'[r] /\ res'[r].what = what /\ res'[r].id = id
      /\ Others(r) /\ KeepsKey(r)
  BY <1>1, CarriedOutFacts
<1>3. TypeOK'
  BY <1>1, <1>2 DEF TypeOK, handlerVars
<1>4. (answer[r] = "login_failed" =>
         \A i \in 1..known[r] : ~Presented(r, i))'
  BY <1>1 DEF LoginFailsOnlyWithoutAccount, Presented, handlerVars
<1>5. QED
  BY <1>2, <1>3, <1>4, UniqueStays DEF Grows

\* MySQL finds a row by its e-mail, or there is none.
LEMMA MySQLFindsByEmailInv ==
  ASSUME IInv, NEW r \in Requests, MySQLFindsByEmail(r)
  PROVE  IInv'
<1>1. TypeOK /\ RequestInv(r)
  BY DEF IInv
<1>2. /\ op[r] = "byEmail" /\ ~done[r] /\ req[r] \in Request
      /\ users' = users /\ keys' = keys /\ UNCHANGED handlerVars
      /\ req' = req /\ known' = known /\ op' = op /\ answer' = answer
      /\ known[r] \in Nat /\ known[r] <= Len(users) /\ users \in Seq(Row)
  BY <1>1 DEF MySQLFindsByEmail, Sent, RequestInv, dbVars, handlerVars, TypeOK
<1>3. PICK what \in {"ok", "not_found"}, id \in Nat :
        /\ CarriedOut(r, what, id)
        /\ what = "ok" => id \in RowsWith("email", req[r].email)
        /\ what = "not_found" => RowsWith("email", req[r].email) = {}
  <2>1. RowsWith("email", req[r].email) \subseteq Nat
    BY <1>2 DEF RowsWith
  <2>2. QED
    BY <2>1 DEF MySQLFindsByEmail, NoUser
<1>4. /\ TypeOK' /\ AccountsUnique' /\ Grows /\ Others(r) /\ KeepsKey(r)
      /\ done'[r] /\ res'[r].what = what /\ res'[r].id = id
      /\ (answer[r] = "login_failed" =>
            \A i \in 1..known[r] : ~Presented(r, i))'
  <2>1. keys' \in [SessionIds -> Nat]
    BY <1>1, <1>2 DEF TypeOK
  <2>2. QED
    BY <1>2, <1>3, <2>1, LookUpFacts
<1>5. RequestInv(r)'
  <2>1. what = "ok" => id \in DOMAIN users /\ users[id].email = req[r].email
    BY <1>3 DEF RowsWith
  <2>2. what = "not_found" => \A i \in 1..known[r] : users[i].email # req[r].email
    BY <1>2, <1>3 DEF RowsWith
  <2>3. QED
    BY <1>1, <1>2, <1>4, <2>1, <2>2 DEF RequestInv
<1>6. QED
  BY <1>2, <1>4, <1>5, KeysStay, StepKeepsInv DEF OwnPart

\* Redis carries out a SET: the key is that of a request that has earned it.
LEMMA RedisSetsInv ==
  ASSUME IInv, NEW r \in Requests, RedisSets(r)
  PROVE  IInv'
<1>1. TypeOK /\ RequestInv(r)
  BY DEF IInv
<1>2. /\ op[r] = "set" /\ ~done[r] /\ req[r] \in Request
      /\ users' = users /\ UNCHANGED handlerVars
      /\ req' = req /\ known' = known /\ op' = op /\ answer' = answer
      /\ sid' = sid /\ user' = user
      /\ sid[r] \in SessionIds /\ Presented(r, user[r]) /\ user[r] \in Nat
  BY <1>1 DEF RedisSets, Sent, RequestInv, handlerVars, TypeOK
<1>3. PICK what \in {"ok", "already_exists"} :
        /\ CarriedOut(r, what, NoUser)
        /\ what = "ok" => keys' = [keys EXCEPT ![sid[r]] = user[r]]
        /\ what = "already_exists" => keys' = keys
  BY DEF RedisSets
<1>4. keys' \in [SessionIds -> Nat] /\ NoUser \in Nat
  BY <1>1, <1>2, <1>3 DEF TypeOK, NoUser
<1>5. /\ TypeOK' /\ AccountsUnique' /\ Grows /\ Others(r) /\ KeepsKey(r)
      /\ done'[r] /\ res'[r].what = what
      /\ (answer[r] = "login_failed" =>
            \A i \in 1..known[r] : ~Presented(r, i))'
  BY <1>2, <1>3, <1>4, LookUpFacts
<1>6. Presented(r, user[r])'
  BY <1>2 DEF Presented
<1>7. RequestInv(r)'
  <2>1. answer[r] # "cookie"
    BY <1>1, <1>2 DEF RequestInv, NoResult
  <2>2. req'[r] # NoRequest
    BY <1>2, NoRequestIsNone
  <2>3. known'[r] <= Len(users')
    BY <1>1, <1>2 DEF RequestInv
  <2>4. answer'[r] # "authenticated"
    BY <1>1, <1>2 DEF RequestInv
  <2>5. QED
    BY <1>2, <1>5, <1>6, <2>1, <2>2, <2>3, <2>4 DEF RequestInv
<1>8. (\A id \in SessionIds : keys[id] # NoUser => Earned(id, keys[id]))'
  <2>1. CASE what = "already_exists"
    BY <1>3, <1>5, <2>1, KeysStay
  <2>2. CASE what = "ok"
    <3>1. Earned(sid[r], user[r])'
      BY <1>2, <1>5, <1>6, <2>2 DEF Earned
    <3>2. \A id, u : Earned(id, u) => Earned(id, u)'
      BY <1>1, <1>5, EarnedStays
    <3> SUFFICES ASSUME NEW id \in SessionIds, keys'[id] # NoUser
                 PROVE  Earned(id, keys[id])'
      OBVIOUS
    <3>3. CASE id = sid[r]
      BY <1>1, <1>2, <1>3, <2>2, <3>1, <3>3 DEF TypeOK
    <3>4. CASE id # sid[r]
      <4>1. keys'[id] = keys[id]
        BY <1>1, <1>3, <2>2, <3>4 DEF TypeOK
      <4>2. Earned(id, keys[id])
        BY <4>1 DEF IInv, NoImpersonation
      <4>3. QED
        BY <3>2, <4>1, <4>2
    <3>5. QED
      BY <3>3, <3>4
  <2>3. QED
    BY <2>1, <2>2
<1>9. QED
  BY <1>5, <1>7, <1>8, StepKeepsInv DEF OwnPart

\* Redis carries out a GET: what it finds was earned, and stays earned.
LEMMA RedisGetsInv ==
  ASSUME IInv, NEW r \in Requests, RedisGets(r)
  PROVE  IInv'
<1>1. TypeOK /\ RequestInv(r)
  BY DEF IInv
<1>2. /\ op[r] = "get" /\ ~done[r] /\ req[r] \in Request
      /\ users' = users /\ keys' = keys /\ UNCHANGED handlerVars
      /\ req' = req /\ known' = known /\ op' = op /\ answer' = answer
      /\ req[r].cookie \in SessionIds
  BY <1>1 DEF RedisGets, Sent, RequestInv, dbVars, handlerVars
<1>3. PICK u \in Nat, what \in {"ok", "not_found"} :
        /\ CarriedOut(r, what, u)
        /\ what = "ok" => Earned(req[r].cookie, u)
  <2>1. keys[req[r].cookie] \in Nat
    BY <1>1, <1>2 DEF TypeOK
  <2>2. CASE keys[req[r].cookie] = NoUser
    BY <2>1, <2>2 DEF RedisGets
  <2>3. CASE keys[req[r].cookie] # NoUser
    <3>1. CarriedOut(r, "ok", keys[req[r].cookie])
      BY <2>3 DEF RedisGets
    <3>2. Earned(req[r].cookie, keys[req[r].cookie])
      BY <1>2, <2>3 DEF IInv, NoImpersonation
    <3>3. QED
      BY <2>1, <3>1, <3>2
  <2>4. QED
    BY <2>2, <2>3
<1>4. keys' \in [SessionIds -> Nat]
  BY <1>1, <1>2 DEF TypeOK
<1>5. /\ TypeOK' /\ AccountsUnique' /\ Grows /\ Others(r) /\ KeepsKey(r)
      /\ done'[r] /\ res'[r].what = what /\ res'[r].id = u
      /\ (answer[r] = "login_failed" =>
            \A i \in 1..known[r] : ~Presented(r, i))'
  BY <1>2, <1>3, <1>4, LookUpFacts
<1>6. \A id, v : Earned(id, v) => Earned(id, v)'
  BY <1>1, <1>5, EarnedStays
<1>7. what = "ok" => Earned(req[r].cookie, res[r].id)'
  BY <1>2, <1>3, <1>5, <1>6 DEF Earned
<1>8. RequestInv(r)'
  <2>1. answer'[r] # "cookie" /\ answer'[r] # "authenticated"
    BY <1>1, <1>2 DEF RequestInv
  <2>2. req'[r] # NoRequest
    BY <1>2, NoRequestIsNone
  <2>3. known'[r] <= Len(users')
    BY <1>1, <1>2 DEF RequestInv
  <2>4. QED
    BY <1>2, <1>5, <1>7, <2>1, <2>2, <2>3 DEF RequestInv
<1>9. QED
  BY <1>2, <1>5, <1>8, KeysStay, StepKeepsInv DEF OwnPart

\* MySQL finds a row by its id: the session of the cookie is still earned.
LEMMA MySQLFindsByIdInv ==
  ASSUME IInv, NEW r \in Requests, MySQLFindsById(r)
  PROVE  IInv'
<1>1. TypeOK /\ RequestInv(r)
  BY DEF IInv
<1>2. /\ op[r] = "byId" /\ ~done[r] /\ req[r] \in Request
      /\ users' = users /\ keys' = keys /\ UNCHANGED handlerVars
      /\ req' = req /\ known' = known /\ op' = op /\ answer' = answer
      /\ user' = user /\ keys' \in [SessionIds -> Nat]
      /\ Earned(req[r].cookie, user[r])
  BY <1>1 DEF MySQLFindsById, Sent, RequestInv, dbVars, handlerVars, TypeOK
<1>3. PICK what \in {"ok", "not_found"} : CarriedOut(r, what, user[r])
  BY DEF MySQLFindsById
<1>4. user[r] \in Nat
  BY <1>1 DEF TypeOK
<1>5. /\ TypeOK' /\ AccountsUnique' /\ Grows /\ Others(r) /\ KeepsKey(r)
      /\ done'[r] /\ res'[r].what = what
      /\ (answer[r] = "login_failed" =>
            \A i \in 1..known[r] : ~Presented(r, i))'
  BY <1>2, <1>3, <1>4, LookUpFacts
<1>6. Earned(req[r].cookie, user[r])'
  BY <1>1, <1>2, <1>5, EarnedStays
<1>7. RequestInv(r)'
  BY <1>1, <1>2, <1>5, <1>6 DEF RequestInv
<1>8. QED
  BY <1>2, <1>5, <1>7, KeysStay, StepKeepsInv DEF OwnPart

\* A step of a handler touches neither table users nor the keys.
LEMMA HandlerKeepsInv ==
  ASSUME IInv, NEW r \in Requests, UNCHANGED dbVars, Others(r), KeepsKey(r),
         TypeOK', RequestInv(r)',
         (answer[r] = "login_failed" => \A i \in 1..known[r] : ~Presented(r, i))'
  PROVE  IInv'
BY KeysStay, UniqueStays, StepKeepsInv DEF OwnPart, Grows, dbVars

\* A handler sends an operation.
LEMMA SendFacts ==
  ASSUME TypeOK, NEW r \in Requests, NEW what \in Ops, Send(r, what)
  PROVE  /\ op' \in [Requests -> Ops] /\ done' \in [Requests -> BOOLEAN]
         /\ res' \in [Requests -> Result]
         /\ op'[r] = what /\ ~done'[r] /\ res'[r] = NoResult
         /\ res'[r].what = "none"
         /\ answer' = answer
         /\ \A w \in Requests \ {r} :
              op'[w] = op[w] /\ done'[w] = done[w] /\ res'[w] = res[w]
<1>1. NoResult \in Result /\ NoResult.what = "none"
  BY DEF NoResult, Result, NoUser
<1>2. op' \in [Requests -> Ops] /\ done' \in [Requests -> BOOLEAN]
  BY DEF Send, TypeOK
<1>3. res' \in [Requests -> Result] /\ res'[r] = NoResult
  BY <1>1 DEF Send, TypeOK
<1>4. op'[r] = what /\ ~done'[r] /\ answer' = answer
  BY DEF Send, TypeOK
<1>5. \A w \in Requests \ {r} :
        op'[w] = op[w] /\ done'[w] = done[w] /\ res'[w] = res[w]
  BY DEF Send, TypeOK
<1>6. QED
  BY <1>1, <1>2, <1>3, <1>4, <1>5

\* A handler answers.
LEMMA RespondFacts ==
  ASSUME TypeOK, NEW r \in Requests, NEW what \in Answers, Respond(r, what)
  PROVE  /\ answer' \in [Requests -> Answers] /\ answer'[r] = what
         /\ op' = op /\ done' = done /\ res' = res
         /\ \A w \in Requests \ {r} : answer'[w] = answer[w]
BY DEF Respond, TypeOK

\* A handler generates a session id, and sends the SET.
LEMMA GenerateFacts ==
  ASSUME TypeOK, NEW r \in Requests, GenerateSessionId(r)
  PROVE  /\ sid' \in [Requests -> SessionIds \cup {NoCookie}]
         /\ sid'[r] \in SessionIds
         /\ \A w \in Requests \ {r} : sid'[w] = sid[w]
         /\ Send(r, "set")
BY DEF GenerateSessionId, TypeOK

\* A handler that knows its user claims a session id for it.
LEMMA ClaimInv ==
  ASSUME IInv, NEW r \in Requests, ~HasSet(r), answer[r] = "none",
         req[r] \in Request, NEW i \in Nat, Presented(r, i),
         user' = [user EXCEPT ![r] = i], GenerateSessionId(r),
         UNCHANGED <<dbVars, req, known>>
  PROVE  IInv'
<1>1. TypeOK /\ RequestInv(r)
  BY DEF IInv
<1>2. /\ sid' \in [Requests -> SessionIds \cup {NoCookie}]
      /\ sid'[r] \in SessionIds
      /\ \A w \in Requests \ {r} : sid'[w] = sid[w]
      /\ Send(r, "set")
  BY <1>1, GenerateFacts
<1>3. /\ op' \in [Requests -> Ops] /\ done' \in [Requests -> BOOLEAN]
      /\ res' \in [Requests -> Result]
      /\ op'[r] = "set" /\ ~done'[r] /\ res'[r] = NoResult
      /\ res'[r].what = "none" /\ answer' = answer
      /\ \A w \in Requests \ {r} :
           op'[w] = op[w] /\ done'[w] = done[w] /\ res'[w] = res[w]
  <2>1. "set" \in Ops
    BY DEF Ops
  <2>2. QED
    BY <1>1, <1>2, <2>1, SendFacts
<1>4. /\ user' \in [Requests -> Nat] /\ user'[r] = i
      /\ \A w \in Requests \ {r} : user'[w] = user[w]
  BY <1>1 DEF TypeOK
<1>5. TypeOK'
  BY <1>1, <1>2, <1>3, <1>4 DEF TypeOK, dbVars
<1>6. Others(r) /\ KeepsKey(r)
  BY <1>2, <1>3, <1>4 DEF Others, KeepsKey
<1>7. RequestInv(r)'
  <2>1. Presented(r, user[r])'
    BY <1>4 DEF Presented, dbVars
  <2>2. req'[r] # NoRequest
    BY NoRequestIsNone
  <2>3. known'[r] <= Len(users')
    BY <1>1 DEF RequestInv, dbVars
  <2>4. answer'[r] = "none"
    BY <1>3
  <2>5. QED
    BY <1>2, <1>3, <2>1, <2>2, <2>3, <2>4 DEF RequestInv
<1>8. QED
  BY <1>3, <1>5, <1>6, <1>7, HandlerKeepsInv

\* A handler answers what its last result allows.
LEMMA AnswerInv ==
  ASSUME IInv, NEW r \in Requests, op[r] # "none",
         NEW what \in Answers, Respond(r, what),
         UNCHANGED <<dbVars, req, known, user, sid>>,
         what = "cookie" => op[r] = "set" /\ res[r].what = "ok",
         what = "authenticated" => op[r] = "byId",
         what = "login_failed" => \A i \in 1..known[r] : ~Presented(r, i)
  PROVE  IInv'
<1>1. TypeOK /\ RequestInv(r)
  BY DEF IInv
<1>2. /\ answer' \in [Requests -> Answers] /\ answer'[r] = what
      /\ op' = op /\ done' = done /\ res' = res
      /\ \A w \in Requests \ {r} : answer'[w] = answer[w]
  BY <1>1, RespondFacts
<1>3. TypeOK'
  BY <1>1, <1>2 DEF TypeOK, dbVars
<1>4. Others(r) /\ KeepsKey(r)
  BY <1>2 DEF Others, KeepsKey, HasSet
<1>5. \A id, u : Earned(id, u) => Earned(id, u)'
  BY <1>1, <1>4, EarnedStays DEF Grows, dbVars
<1>6. RequestInv(r)'
  <2>1. \A i : Presented(r, i)' <=> Presented(r, i)
    BY DEF Presented, dbVars
  <2>2. req'[r] # NoRequest
    BY <1>1, NoRequestIsNone DEF RequestInv
  <2>3. QED
    BY <1>1, <1>2, <1>5, <2>1, <2>2 DEF RequestInv, dbVars
<1>7. (answer[r] = "login_failed" => \A i \in 1..known[r] : ~Presented(r, i))'
  BY <1>2 DEF Presented, dbVars
<1>8. QED
  BY <1>3, <1>4, <1>6, <1>7, HandlerKeepsInv

\* A request is received: it has done nothing yet.
LEMMA ReceiveInv ==
  ASSUME IInv, NEW r \in Requests, NEW q \in Inputs, Receive(r, q)
  PROVE  IInv'
<1>1. TypeOK /\ RequestInv(r)
  BY DEF IInv
<1>2. /\ q \in Request /\ users' = users /\ keys' = keys
      /\ user' = user /\ sid' = sid
  BY AccountsAssumption DEF Receive, dbVars
<1>3. req[r] = NoRequest /\ op[r] = "none" /\ answer[r] = "none"
  BY <1>1, NoRequestIsNone DEF Receive, RequestInv
<1>4. /\ req' \in [Requests -> Request \cup {NoRequest}] /\ req'[r] = q
      /\ known' \in [Requests -> Nat] /\ known'[r] = Len(users)
      /\ \A w \in Requests \ {r} : req'[w] = req[w] /\ known'[w] = known[w]
  <2>1. Len(users) \in Nat
    BY <1>1 DEF TypeOK
  <2>2. QED
    BY <1>1, <1>2, <2>1 DEF Receive, TypeOK
<1>5. PICK what \in {"none", "insert", "byEmail", "get"} :
        /\ \/ what # "none" /\ Send(r, what)
           \/ what = "none" /\ \E a \in {"bad_request", "requires_auth"} : Respond(r, a)
        /\ what = "get" => q.cookie \in SessionIds
  BY <1>2 DEF Receive, Request
<1>6. /\ op' \in [Requests -> Ops] /\ done' \in [Requests -> BOOLEAN]
      /\ res' \in [Requests -> Result] /\ answer' \in [Requests -> Answers]
      /\ op'[r] = what /\ (~done'[r] => res'[r] = NoResult)
      /\ (what # "none" => ~done'[r] /\ res'[r].what = "none")
      /\ answer'[r] \in {"none", "bad_request", "requires_auth"}
      /\ \A w \in Requests \ {r} :
           /\ op'[w] = op[w] /\ done'[w] = done[w] /\ res'[w] = res[w]
           /\ answer'[w] = answer[w]
  <2>1. CASE what # "none" /\ Send(r, what)
    <3>1. what \in Ops
      BY DEF Ops
    <3>2. answer' = answer /\ answer \in [Requests -> Answers]
      BY <1>1, <2>1 DEF Send, TypeOK
    <3>3. QED
      BY <1>1, <1>3, <2>1, <3>1, <3>2, SendFacts
  <2>2. CASE what = "none" /\ \E a \in {"bad_request", "requires_auth"} : Respond(r, a)
    <3>1. PICK a \in {"bad_request", "requires_auth"} : Respond(r, a)
      BY <2>2
    <3>2. a \in Answers
      BY DEF Answers
    <3>3. /\ answer' \in [Requests -> Answers] /\ answer'[r] = a
          /\ op' = op /\ done' = done /\ res' = res
          /\ \A w \in Requests \ {r} : answer'[w] = answer[w]
      BY <1>1, <3>1, <3>2, RespondFacts
    <3>4. QED
      BY <1>1, <1>3, <2>2, <3>3 DEF TypeOK, RequestInv
  <2>3. QED
    BY <1>5, <2>1, <2>2
<1>7. TypeOK'
  BY <1>1, <1>2, <1>4, <1>6 DEF TypeOK
<1>8. Others(r) /\ KeepsKey(r)
  BY <1>2, <1>3, <1>4, <1>6 DEF Others, KeepsKey, HasSet
<1>9. RequestInv(r)'
  <2>1. req'[r] # NoRequest /\ req'[r] \in Request
    BY <1>2, <1>4, NoRequestIsNone
  <2>2. known'[r] <= Len(users')
    BY <1>1, <1>2, <1>4 DEF TypeOK
  <2>3. op'[r] = "get" => req'[r].cookie \in SessionIds
    BY <1>4, <1>5, <1>6
  <2>4. QED
    BY <1>5, <1>6, <2>1, <2>2, <2>3 DEF RequestInv
<1>10. QED
  BY <1>2, <1>6, <1>7, <1>8, <1>9, HandlerKeepsInv DEF dbVars

\* handle_create_account() goes on after the INSERT.
LEMMA CreatedInv ==
  ASSUME IInv, NEW r \in Requests, Created(r)
  PROVE  IInv'
<1>1. TypeOK /\ RequestInv(r)
  BY DEF IInv
<1>2. /\ op[r] = "insert" /\ done[r] /\ answer[r] = "none" /\ ~HasSet(r)
      /\ req[r] \in Request /\ UNCHANGED <<dbVars, req, known>>
      /\ res[r].what \in {"ok", "username_exists", "email_exists"}
      /\ res[r].id \in Nat
  BY <1>1 DEF Created, Resumed, RequestInv, HasSet, TypeOK, Result
<1>3. CASE res[r].what = "ok"
  <2>1. Presented(r, res[r].id)
    BY <1>1, <1>2, <1>3 DEF RequestInv
  <2>2. user' = [user EXCEPT ![r] = res[r].id] /\ GenerateSessionId(r)
    BY <1>3 DEF Created
  <2>3. QED
    BY <1>2, <2>1, <2>2, ClaimInv
<1>4. CASE res[r].what # "ok"
  <2>1. res[r].what \in Answers
    BY <1>2, <1>4 DEF Answers
  <2>2. Respond(r, res[r].what) /\ UNCHANGED <<user, sid>>
    BY <1>4 DEF Created
  <2>3. QED
    BY <1>2, <2>1, <2>2, AnswerInv
<1>5. QED
  BY <1>3, <1>4

\* handle_login() goes on after the SELECT: the e-mail is that of one account.
LEMMA LoggedInInv ==
  ASSUME IInv, NEW r \in Requests, LoggedIn(r)
  PROVE  IInv'
<1>1. TypeOK /\ RequestInv(r) /\ AccountsUnique
  BY DEF IInv
<1>2. /\ op[r] = "byEmail" /\ done[r] /\ answer[r] = "none" /\ ~HasSet(r)
      /\ req[r] \in Request /\ UNCHANGED <<dbVars, req, known>>
      /\ res[r].id \in Nat
  BY <1>1 DEF LoggedIn, Resumed, RequestInv, HasSet, TypeOK, Result
<1> DEFINE verified == res[r].what = "ok"
                       /\ users[res[r].id].password = req[r].password
<1>3. CASE verified
  <2>1. Presented(r, res[r].id)
    BY <1>1, <1>2, <1>3 DEF RequestInv, Presented
  <2>2. user' = [user EXCEPT ![r] = res[r].id] /\ GenerateSessionId(r)
    BY <1>3 DEF LoggedIn
  <2>3. QED
    BY <1>2, <2>1, <2>2, ClaimInv
<1>4. CASE ~verified
  <2>1. "login_failed" \in Answers
    BY DEF Answers
  <2>2. Respond(r, "login_failed") /\ UNCHANGED <<user, sid>>
    BY <1>4 DEF LoggedIn
  <2>3. \A i \in 1..known[r] : ~Presented(r, i)
    <3>1. CASE res[r].what # "ok"
      BY <1>1, <1>2, <3>1 DEF RequestInv, Presented
    <3>2. CASE res[r].what = "ok"
      <4>1. /\ res[r].id \in DOMAIN users
            /\ users[res[r].id].email = req[r].email
            /\ users[res[r].id].password # req[r].password
        BY <1>1, <1>2, <1>4, <3>2 DEF RequestInv
      <4>2. QED
        BY <1>1, <4>1 DEF AccountsUnique, Presented
    <3>3. QED
      BY <3>1, <3>2
  <2>4. QED
    BY <1>2, <2>1, <2>2, <2>3, AnswerInv
<1>5. QED
  BY <1>3, <1>4

\* generate_session_id() goes on after the SET.
LEMMA SessionStoredInv ==
  ASSUME IInv, NEW r \in Requests, SessionStored(r)
  PROVE  IInv'
<1>1. TypeOK /\ RequestInv(r)
  BY DEF IInv
<1>2. /\ op[r] = "set" /\ answer[r] = "none" /\ req[r] \in Request
      /\ UNCHANGED <<dbVars, req, known, user>>
      /\ Presented(r, user[r]) /\ user[r] \in Nat
  BY <1>1 DEF SessionStored, Resumed, RequestInv, TypeOK
<1>3. CASE res[r].what = "already_exists" /\ GenerateSessionId(r)
  <2>1. user' = [user EXCEPT ![r] = user[r]] /\ ~HasSet(r)
    BY <1>1, <1>2, <1>3 DEF TypeOK, HasSet
  <2>2. QED
    BY <1>2, <1>3, <2>1, ClaimInv
<1>4. CASE res[r].what = "ok" /\ Respond(r, "cookie") /\ sid' = sid
  <2>1. "cookie" \in Answers
    BY DEF Answers
  <2>2. QED
    BY <1>2, <1>4, <2>1, AnswerInv
<1>5. QED
  BY <1>3, <1>4 DEF SessionStored

\* user_id_from_cookie() goes on after the GET.
LEMMA SessionLookedUpInv ==
  ASSUME IInv, NEW r \in Requests, SessionLookedUp(r)
  PROVE  IInv'
<1>1. TypeOK /\ RequestInv(r)
  BY DEF IInv
<1>2. /\ op[r] = "get" /\ answer[r] = "none" /\ req[r] \in Request
      /\ UNCHANGED <<dbVars, req, known, sid>> /\ res[r].id \in Nat
  BY <1>1 DEF SessionLookedUp, Resumed, RequestInv, TypeOK, Result
<1>3. CASE /\ res[r].what = "ok"
           /\ user' = [user EXCEPT ![r] = res[r].id] /\ Send(r, "byId")
  <2>1. /\ op' \in [Requests -> Ops] /\ done' \in [Requests -> BOOLEAN]
        /\ res' \in [Requests -> Result]
        /\ op'[r] = "byId" /\ ~done'[r] /\ res'[r] = NoResult
        /\ res'[r].what = "none" /\ answer' = answer
        /\ \A w \in Requests \ {r} :
             op'[w] = op[w] /\ done'[w] = done[w] /\ res'[w] = res[w]
    <3>1. "byId" \in Ops
      BY DEF Ops
    <3>2. QED
      BY <1>1, <1>3, <3>1, SendFacts
  <2>2. /\ user' \in [Requests -> Nat] /\ user'[r] = res[r].id
        /\ \A w \in Requests \ {r} : user'[w] = user[w]
    BY <1>1, <1>2, <1>3 DEF TypeOK
  <2>3. TypeOK'
    BY <1>1, <1>2, <2>1, <2>2 DEF TypeOK, dbVars
  <2>4. Others(r) /\ KeepsKey(r)
    BY <1>2, <2>1, <2>2 DEF Others, KeepsKey, HasSet
  <2>5. \A id, u : Earned(id, u) => Earned(id, u)'
    BY <1>1, <1>2, <2>4, EarnedStays DEF Grows, dbVars
  <2>6. Earned(req[r].cookie, res[r].id)
    BY <1>1, <1>2, <1>3 DEF RequestInv
  <2>7. Earned(req[r].cookie, user[r])'
    BY <1>2, <2>2, <2>5, <2>6 DEF Earned
  <2>8. RequestInv(r)'
    <3>1. req'[r] # NoRequest /\ req'[r] \in Request
      BY <1>2, NoRequestIsNone
    <3>2. known'[r] <= Len(users')
      BY <1>1, <1>2 DEF RequestInv, dbVars
    <3>3. answer'[r] = "none"
      BY <1>2, <2>1
    <3>4. QED
      BY <2>1, <2>7, <3>1, <3>2, <3>3 DEF RequestInv
  <2>9. QED
    BY <1>2, <2>1, <2>3, <2>4, <2>8, HandlerKeepsInv
<1>4. CASE Respond(r, "requires_auth") /\ user' = user
  <2>1. "requires_auth" \in Answers
    BY DEF Answers
  <2>2. QED
    BY <1>2, <1>4, <2>1, AnswerInv
<1>5. QED
  BY <1>3, <1>4 DEF SessionLookedUp

\* user_from_cookie() goes on after the SELECT.
LEMMA AuthenticatedInv ==
  ASSUME IInv, NEW r \in Requests, Authenticated(r)
  PROVE  IInv'
<1>1. PICK what \in {"authenticated", "error"} : Respond(r, what)
  BY DEF Authenticated
<1>2. what \in Answers
  BY DEF Answers
<1>3. op[r] = "byId" /\ UNCHANGED <<dbVars, req, known, user, sid>>
  BY DEF Authenticated, Resumed
<1>4. QED
  BY <1>1, <1>2, <1>3, AnswerInv

\* A handler gives up: an error, or the time limit.
LEMMA GivesUpInv ==
  ASSUME IInv, NEW r \in Requests, Waiting(r), GivesUp(r)
  PROVE  IInv'
<1>1. "error" \in Answers
  BY DEF Answers
<1>2. QED
  BY <1>1, AnswerInv DEF GivesUp, Waiting

\* A session expires: who has earned it has earned it.
LEMMA KeyExpiresInv ==
  ASSUME IInv, NEW id \in SessionIds, KeyExpires(id)
  PROVE  IInv'
<1>1. TypeOK
  BY DEF IInv
<1>2. /\ users' = users /\ req' = req /\ known' = known /\ op' = op
      /\ done' = done /\ res' = res /\ user' = user /\ sid' = sid
      /\ answer' = answer /\ keys' = [keys EXCEPT ![id] = NoUser]
  BY DEF KeyExpires, handlerVars
<1>3. TypeOK'
  BY <1>1, <1>2 DEF TypeOK, NoUser
<1>4. \A i, u : Earned(i, u)' <=> Earned(i, u)
  BY <1>2 DEF Earned, Presented
<1>5. \A w \in Requests : RequestInv(w)'
  BY <1>2, <1>4 DEF IInv, RequestInv, Presented
<1>6. AccountsUnique' /\ LoginFailsOnlyWithoutAccount'
  BY <1>2, UniqueStays DEF IInv, LoginFailsOnlyWithoutAccount, Presented
<1>7. NoImpersonation'
  <2>1. \A i \in SessionIds : keys'[i] # NoUser => keys'[i] = keys[i]
    BY <1>1, <1>2 DEF TypeOK
  <2>2. (\A i \in SessionIds : keys[i] # NoUser => Earned(i, keys[i]))'
    <3>1. \A i \in SessionIds : keys[i] # NoUser => Earned(i, keys[i])
      BY DEF IInv, NoImpersonation
    <3>2. QED
      BY <1>2, <2>1, <3>1 DEF Earned, Presented
  <2>3. \A w \in Requests : answer'[w] = "authenticated" =>
          Earned(req[w].cookie, user[w])'
    BY <1>2, <1>5 DEF RequestInv
  <2>4. QED
    BY <2>2, <2>3 DEF NoImpersonation
<1>8. QED
  BY <1>3, <1>5, <1>6, <1>7 DEF IInv

\* A stuttering step changes nothing.
LEMMA UnchangedInv ==
  ASSUME IInv, UNCHANGED vars
  PROVE  IInv'
BY DEF IInv, TypeOK, AccountsUnique, RequestInv, NoImpersonation, Earned,
       Presented, LoginFailsOnlyWithoutAccount, vars

\* At the beginning there is no account, no session and no request.
LEMMA InitInv == Init => IInv
<1> SUFFICES ASSUME Init PROVE IInv
  OBVIOUS
<1>1. TypeOK
  BY DEF Init, TypeOK, Row, Ops, Result, Answers, NoResult, NoUser, NoRequest
<1>2. AccountsUnique
  BY DEF Init, AccountsUnique
<1>3. \A r \in Requests : RequestInv(r)
  BY DEF Init, RequestInv, NoResult
<1>4. NoImpersonation
  BY DEF Init, NoImpersonation
<1>5. LoginFailsOnlyWithoutAccount
  BY DEF Init, LoginFailsOnlyWithoutAccount
<1>6. QED
  BY <1>1, <1>2, <1>3, <1>4, <1>5 DEF IInv

\* Every step keeps the invariant.
LEMMA NextInv == IInv /\ [Next]_vars => IInv'
<1> SUFFICES ASSUME IInv, [Next]_vars PROVE IInv'
  OBVIOUS
<1>1. ASSUME NEW r \in Requests, Step(r) PROVE IInv'
  <2>1. CASE MySQLInserts(r)
    BY <2>1, MySQLInsertsInv
  <2>2. CASE MySQLFindsByEmail(r)
    BY <2>2, MySQLFindsByEmailInv
  <2>3. CASE MySQLFindsById(r)
    BY <2>3, MySQLFindsByIdInv
  <2>4. CASE RedisSets(r)
    BY <2>4, RedisSetsInv
  <2>5. CASE RedisGets(r)
    BY <2>5, RedisGetsInv
  <2>6. CASE \E q \in Inputs : Receive(r, q)
    BY <2>6, ReceiveInv
  <2>7. CASE Created(r)
    BY <2>7, CreatedInv
  <2>8. CASE LoggedIn(r)
    BY <2>8, LoggedInInv
  <2>9. CASE SessionStored(r)
    BY <2>9, SessionStoredInv
  <2>10. CASE SessionLookedUp(r)
    BY <2>10, SessionLookedUpInv
  <2>11. CASE Authenticated(r)
    BY <2>11, AuthenticatedInv
  <2>12. CASE Fails(r) \/ TimesOut(r)
    BY <2>12, GivesUpInv DEF Fails, TimesOut
  <2>13. QED
    BY <1>1, <2>1, <2>2, <2>3, <2>4, <2>5, <2>6, <2>7, <2>8, <2>9, <2>10,
       <2>11, <2>12 DEF Step
<1>2. ASSUME NEW id \in SessionIds, KeyExpires(id) PROVE IInv'
  BY <1>2, KeyExpiresInv
<1>3. CASE Over \/ UNCHANGED vars
  BY <1>3, UnchangedInv DEF Over
<1>4. QED
  BY <1>1, <1>2, <1>3 DEF Next

\* What holds of every request at each of its awaits holds always.
THEOREM AccountsInvariant == Spec => []IInv
BY InitInv, NextInv, PTL DEF Spec

\* Nobody is authenticated as somebody else.
THEOREM NobodyIsImpersonated == Spec => []NoImpersonation
<1>1. IInv => NoImpersonation
  BY DEF IInv
<1>2. QED
  BY <1>1, AccountsInvariant, PTL

\* An account that is there can be logged in to, whatever its creator was told.
THEOREM LoginsFailForAReason == Spec => []LoginFailsOnlyWithoutAccount
<1>1. IInv => LoginFailsOnlyWithoutAccount
  BY DEF IInv
<1>2. QED
  BY <1>1, AccountsInvariant, PTL

\* A cookie is given for a session that is stored, to who presented the
\* credentials of its account.
THEOREM CookiesAreOwners == Spec => []CookieIsOwners
<1>1. IInv => CookieIsOwners
  BY DEF IInv, RequestInv, CookieIsOwners
<1>2. QED
  BY <1>1, AccountsInvariant, PTL

\* The user of a session never changes while the session lasts.
THEOREM SessionsKeepUser == Spec => SessionKeepsUser
<1>1. IInv /\ [Next]_vars =>
        [\A id \in SessionIds :
           keys[id] # NoUser /\ keys'[id] # NoUser => keys'[id] = keys[id]]_vars
  <2> SUFFICES ASSUME IInv, Next, NEW id \in SessionIds,
                      keys[id] # NoUser, keys'[id] # NoUser
               PROVE  keys'[id] = keys[id]
    OBVIOUS
  <2>1. keys \in [SessionIds -> Nat]
    BY DEF IInv, TypeOK
  <2>2. ASSUME NEW r \in Requests, RedisSets(r) PROVE keys'[id] = keys[id]
    BY <2>1, <2>2 DEF RedisSets
  <2>3. ASSUME NEW r \in Requests, Step(r), ~RedisSets(r) PROVE keys' = keys
    BY <2>3 DEF Step, MySQLInserts, MySQLFindsByEmail, MySQLFindsById, RedisGets,
       Receive, Created, LoggedIn, SessionStored, SessionLookedUp, Authenticated,
       Fails, TimesOut, GivesUp, dbVars
  <2>4. ASSUME NEW i \in SessionIds, KeyExpires(i) PROVE keys'[id] = keys[id]
    BY <2>1, <2>4 DEF KeyExpires
  <2>5. CASE Over
    BY <2>5 DEF Over, vars
  <2>6. QED
    BY <2>2, <2>3, <2>4, <2>5 DEF Next
<1>2. QED
  BY <1>1, AccountsInvariant, PTL DEF Spec, SessionKeepsUser
=============================================================================
