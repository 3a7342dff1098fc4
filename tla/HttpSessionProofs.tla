-------------------------- MODULE HttpSessionProofs --------------------------
(***************************************************************************)
(* Proofs about HttpSession, for any connections, any requests and any     *)
(* length of the timers: requests are answered in order, none that was     *)
(* sent is lost, and nothing is read behind the last one.                  *)
(***************************************************************************)
EXTENDS HttpSession, TLAPS

\* What the invariant says of one connection.
Own(c) ==
  /\ Len(out[c]) <= Len(got[c])
  /\ pc[c] = "reading" => Len(out[c]) = Len(got[c])
  /\ pc[c] \in Busy => Len(got[c]) <= Len(out[c]) + 1
  /\ \A i \in 1..Len(out[c]) :
       /\ ~got[c][i].upgrade
       /\ out[c][i].status \in Responses(got[c][i])
       /\ out[c][i].keep_alive = got[c][i].keep_alive
  /\ pc[c] \in Busy => got[c] \o (buff[c] \o wire[c]) = sent[c]
  /\ \A i \in 1..Len(got[c]) :
       i < Len(got[c]) => got[c][i].keep_alive /\ ~got[c][i].upgrade
  /\ SessionInv(c)

\* The types of what belongs to one connection.
ConnType(c) ==
  /\ pc[c] \in States
  /\ sent[c] \in Seq(Request) /\ wire[c] \in Seq(Request)
  /\ buff[c] \in Seq(Request) /\ got[c] \in Seq(Request)
  /\ out[c] \in Seq([status : Statuses, keep_alive : BOOLEAN])
  /\ status[c] \in Statuses

\* The step is one of connection c.
Others(c) ==
  \A d \in Conns \ {c} :
    /\ pc'[d] = pc[d] /\ sent'[d] = sent[d] /\ wire'[d] = wire[d]
    /\ buff'[d] = buff[d] /\ got'[d] = got[d] /\ out'[d] = out[d]
    /\ status'[d] = status[d]

\* Connection c keeps what the invariant speaks of.
Same(c) ==
  /\ sent'[c] = sent[c] /\ wire'[c] = wire[c] /\ buff'[c] = buff[c]
  /\ got'[c] = got[c] /\ out'[c] = out[c] /\ status'[c] = status[c]

\* The invariant is what it says of each connection.
LEMMA OwnIsIInv == IInv <=> TypeOK /\ \A c \in Conns : Own(c)
BY DEF IInv, Own, AnsweredInOrder, NothingIsDropped, ClosesWhenAsked

\* The types of one connection follow from those of all.
LEMMA ConnTypes ==
  ASSUME TypeOK, NEW c \in Conns
  PROVE  ConnType(c)
BY DEF TypeOK, ConnType

\* A connection that a step leaves alone keeps its part of the invariant.
LEMMA SameKeepsOwn ==
  ASSUME NEW c \in Conns, Own(c), pc'[c] = pc[c], Same(c)
  PROVE  Own(c)'
BY DEF Own, SessionInv, Same

\* The invariant holds after a step if its part of each connection does.
LEMMA IInvIsOwn ==
  ASSUME TypeOK', \A c \in Conns : Own(c)'
  PROVE  IInv'
<1>1. (TypeOK /\ \A c \in Conns : Own(c))'
  OBVIOUS
<1>2. QED
  BY <1>1 DEF IInv, Own, AnsweredInOrder, NothingIsDropped, ClosesWhenAsked

\* So a step has to show what it does to its own connection only.
LEMMA OwnKeepsInv ==
  ASSUME IInv, TypeOK', NEW c \in Conns, Others(c), Own(c)'
  PROVE  IInv'
<1>1. ASSUME NEW d \in Conns PROVE Own(d)'
  <2>1. CASE d = c
    BY <2>1
  <2>2. CASE d # c
    <3>1. Own(d) /\ pc'[d] = pc[d] /\ Same(d)
      BY <2>2, OwnIsIInv DEF Others, Same
    <3>2. QED
      BY <3>1, SameKeepsOwn
  <2>3. QED
    BY <2>1, <2>2
<1>2. QED
  BY <1>1, IInvIsOwn

\* Moving an element from the head of one sequence to the end of another one
\* leaves what the two make together.
LEMMA HeadMoves ==
  ASSUME NEW S, NEW s \in Seq(S), NEW t \in Seq(S), t # << >>
  PROVE  Append(s, Head(t)) \o Tail(t) = s \o t
<1> DEFINE l == Append(s, Head(t)) \o Tail(t)
           m == s \o t
<1>1. Head(t) \in S /\ Tail(t) \in Seq(S) /\ Len(Tail(t)) = Len(t) - 1
  OBVIOUS
<1>2. l \in Seq(S) /\ m \in Seq(S) /\ Len(l) = Len(m)
  BY <1>1
<1>3. ASSUME NEW i \in 1..Len(m) PROVE l[i] = m[i]
  BY <1>1
<1> HIDE DEF l, m
<1>4. l = m
  BY <1>2, <1>3
<1>5. QED
  BY <1>4 DEF l, m

\* Reading a request off the buffer leaves what was sent in its order.
LEMMA ReadMoves ==
  ASSUME NEW s \in Seq(Request), NEW t \in Seq(Request), NEW u \in Seq(Request),
         t # << >>
  PROVE  Append(s, Head(t)) \o (Tail(t) \o u) = s \o (t \o u)
<1>1. Head(t) \in Request /\ Tail(t) \in Seq(Request)
  OBVIOUS
<1>2. Append(s, Head(t)) \o (Tail(t) \o u) = (Append(s, Head(t)) \o Tail(t)) \o u
  BY <1>1
<1>3. Append(s, Head(t)) \o Tail(t) = s \o t
  BY HeadMoves
<1>4. (s \o t) \o u = s \o (t \o u)
  OBVIOUS
<1>5. QED
  BY <1>2, <1>3, <1>4

\* What is appended to the last of three sequences is appended to the whole.
LEMMA LastGrows ==
  ASSUME NEW s \in Seq(Request), NEW t \in Seq(Request), NEW u \in Seq(Request),
         NEW e \in Request
  PROVE  s \o (t \o Append(u, e)) = Append(s \o (t \o u), e)
<1>1. ASSUME NEW S, NEW a \in Seq(S), NEW b \in Seq(S), NEW d \in S
      PROVE  a \o Append(b, d) = Append(a \o b, d)
  OBVIOUS
<1>2. t \o Append(u, e) = Append(t \o u, e)
  BY <1>1
<1>3. t \o u \in Seq(Request)
  OBVIOUS
<1>4. s \o Append(t \o u, e) = Append(s \o (t \o u), e)
  BY <1>1, <1>3
<1>5. QED
  BY <1>2, <1>4

\* A client connects, sends or closes.
LEMMA ClientInv ==
  ASSUME IInv, NEW c \in Conns, ClientStep(c)
  PROVE  IInv'
<1>1. TypeOK /\ Own(c) /\ ConnType(c)
  BY OwnIsIInv, ConnTypes
<1>2. CASE Arrives(c)
  <2>1. /\ TypeOK' /\ Others(c) /\ Same(c)
        /\ pc[c] = "away" /\ pc'[c] = "arrived"
    BY <1>1, <1>2 DEF Arrives, Goto, TypeOK, States, connVars, Others, Same
  <2>2. Own(c)'
    BY <1>1, <2>1 DEF Own, SessionInv, Same, Busy
  <2>3. QED
    BY <2>1, <2>2, OwnKeepsInv
<1>3. CASE \E q \in Inputs[c] : ClientSends(c, q)
  <2>1. PICK q \in Request : ClientSends(c, q)
    BY <1>3, HttpAssumption
  <2>2. /\ pc' = pc /\ pc[c] \in Busy /\ buff' = buff /\ got' = got
        /\ out' = out /\ status' = status /\ running' = running /\ fin' = fin
        /\ deadline' = deadline /\ limit' = limit /\ awaits' = awaits
        /\ sent' \in [Conns -> Seq(Request)] /\ wire' \in [Conns -> Seq(Request)]
        /\ sent'[c] = Append(sent[c], q) /\ wire'[c] = Append(wire[c], q)
        /\ \A d \in Conns \ {c} : sent'[d] = sent[d] /\ wire'[d] = wire[d]
    BY <1>1, <2>1 DEF ClientSends, TypeOK
  <2>3. TypeOK' /\ Others(c)
    BY <1>1, <2>2 DEF TypeOK, Others
  <2>4. got[c] \o (buff[c] \o wire'[c]) = sent'[c]
    <3>1. got[c] \o (buff[c] \o Append(wire[c], q))
            = Append(got[c] \o (buff[c] \o wire[c]), q)
      <4>1. /\ got[c] \in Seq(Request) /\ buff[c] \in Seq(Request)
            /\ wire[c] \in Seq(Request)
        BY <1>1 DEF ConnType
      <4>2. QED
        BY <4>1, LastGrows, Zenon
    <3>2. got[c] \o (buff[c] \o wire[c]) = sent[c]
      BY <1>1, <2>2 DEF Own
    <3>3. QED
      BY <2>2, <3>1, <3>2
  <2>5. Own(c)'
    BY <1>1, <2>2, <2>4 DEF Own, SessionInv, Busy
  <2>6. QED
    BY <2>3, <2>5, OwnKeepsInv
<1>4. CASE ClientCloses(c)
  <2>1. TypeOK' /\ Others(c) /\ Same(c) /\ pc'[c] = pc[c]
    BY <1>1, <1>4 DEF ClientCloses, TypeOK, Others, Same
  <2>2. QED
    BY <1>1, <2>1, SameKeepsOwn, OwnKeepsInv
<1>5. QED
  BY <1>2, <1>3, <1>4 DEF ClientStep

\* Starting to read, with all requests answered.
LEMMA AcceptsInv ==
  ASSUME IInv, NEW c \in Conns, Accepts(c)
  PROVE  IInv'
<1>1. TypeOK /\ Own(c) /\ ConnType(c)
  BY OwnIsIInv, ConnTypes
<1>2. /\ Others(c) /\ Same(c)
      /\ pc[c] = "arrived" /\ pc'[c] = "reading"
  BY <1>1 DEF Accepts, StartRead, Goto, TypeOK, Others, Same
<1>3. TypeOK'
  <2>1. pc' \in [Conns -> States]
    BY <1>1 DEF Accepts, StartRead, Goto, TypeOK, States, Busy
  <2>2. Seconds \in 0..Seconds
    BY HttpAssumption
  <2>3. deadline' \in [Conns -> 0..Seconds]
    BY <1>1, <2>2 DEF Accepts, StartRead, TypeOK
  <2>4. QED
    BY <1>1, <2>1, <2>3 DEF Accepts, TypeOK
<1>4. got[c] = << >> /\ out[c] = << >> /\ sent[c] = << >>
      /\ buff[c] = << >> /\ wire[c] = << >>
  BY <1>1, <1>2 DEF Own, SessionInv
<1>5. Own(c)'
  BY <1>1, <1>2, <1>4 DEF Own, SessionInv, Same, Busy
<1>6. QED
  BY <1>2, <1>3, <1>5, OwnKeepsInv

\* Bytes reach the buffer: nothing overtakes.
LEMMA ReadsAheadInv ==
  ASSUME IInv, NEW c \in Conns, ReadsAhead(c)
  PROVE  IInv'
<1>1. TypeOK /\ Own(c) /\ ConnType(c)
  BY OwnIsIInv, ConnTypes
<1>2. /\ pc' = pc /\ pc[c] = "reading" /\ sent' = sent /\ got' = got
      /\ out' = out /\ status' = status
      /\ buff'[c] = Append(buff[c], Head(wire[c])) /\ wire'[c] = Tail(wire[c])
      /\ wire[c] # << >>
      /\ \A d \in Conns \ {c} : buff'[d] = buff[d] /\ wire'[d] = wire[d]
  BY <1>1 DEF ReadsAhead, TypeOK
<1>3. Head(wire[c]) \in Request /\ Tail(wire[c]) \in Seq(Request)
  BY <1>1, <1>2 DEF ConnType
<1>4. TypeOK'
  <2>1. Append(buff[c], Head(wire[c])) \in Seq(Request)
    BY <1>1, <1>3 DEF ConnType
  <2>2. buff' \in [Conns -> Seq(Request)]
    BY <1>1, <2>1 DEF ReadsAhead, TypeOK
  <2>3. wire' \in [Conns -> Seq(Request)]
    BY <1>1, <1>3 DEF ReadsAhead, TypeOK
  <2>4. QED
    BY <1>1, <2>2, <2>3 DEF ReadsAhead, TypeOK
<1>5. Others(c)
  BY <1>2 DEF Others
<1>6. buff'[c] \o wire'[c] = buff[c] \o wire[c]
  BY <1>1, <1>2, HeadMoves DEF ConnType
<1>7. Own(c)'
  BY <1>1, <1>2, <1>6 DEF Own, SessionInv, Busy
<1>8. QED
  BY <1>4, <1>5, <1>7, OwnKeepsInv

\* A session ends: what it has read and written stays.
LEMMA CloseInv ==
  ASSUME IInv, NEW c \in Conns, pc[c] \in Busy \cup {"websocket"}, Close(c)
  PROVE  IInv'
<1>1. TypeOK /\ Own(c) /\ ConnType(c)
  BY OwnIsIInv, ConnTypes
<1>2. /\ pc'[c] = "closed" /\ sent' = sent /\ got' = got /\ out' = out
      /\ \A d \in Conns \ {c} :
           /\ pc'[d] = pc[d] /\ wire'[d] = wire[d] /\ buff'[d] = buff[d]
           /\ status'[d] = status[d]
  BY <1>1 DEF Close, Ends, Goto, TypeOK
<1>3. TypeOK'
  BY <1>1, HttpAssumption DEF Close, Ends, Goto, TypeOK, States, Statuses, None
<1>4. Others(c)
  BY <1>2 DEF Others
<1>5. Own(c)'
  BY <1>1, <1>2 DEF Own, SessionInv, Busy
<1>6. QED
  BY <1>3, <1>4, <1>5, OwnKeepsInv

\* A websocket is accepted.
LEMMA UpgradeInv ==
  ASSUME IInv, NEW c \in Conns, UpgradeAccepted(c)
  PROVE  IInv'
<1>1. TypeOK /\ Own(c) /\ ConnType(c)
  BY OwnIsIInv, ConnTypes
<1>2. TypeOK' /\ Others(c) /\ Same(c) /\ pc'[c] = "websocket"
  BY <1>1 DEF UpgradeAccepted, Goto, TypeOK, States, connVars, Others, Same
<1>3. Own(c)'
  BY <1>1, <1>2 DEF Own, SessionInv, Same, Busy
<1>4. QED
  BY <1>2, <1>3, OwnKeepsInv

\* A handler goes on, or time does.
LEMMA QuietInv ==
  ASSUME IInv, NEW c \in Conns, HandlerAwaits(c) \/ Tick(c)
  PROVE  IInv'
<1>1. TypeOK /\ Own(c)
  BY OwnIsIInv
<1>2. Others(c) /\ Same(c) /\ pc'[c] = pc[c]
  BY DEF HandlerAwaits, Tick, Others, Same
<1>3. CASE HandlerAwaits(c)
  <2>1. awaits[c] \in {0, 1}
    BY <1>1 DEF TypeOK
  <2>2. TypeOK'
    <3>1. 1 - awaits[c] \in {0, 1}
      BY <2>1
    <3>2. awaits' \in [Conns -> {0, 1}]
      BY <1>1, <1>3, <3>1 DEF HandlerAwaits, TypeOK
    <3>3. QED
      BY <1>1, <1>3, <3>2 DEF HandlerAwaits, TypeOK
  <2>3. QED
    BY <1>1, <1>2, <2>2, SameKeepsOwn, OwnKeepsInv
<1>4. CASE Tick(c)
  <2>1. TypeOK'
    <3>1. \A t \in 0..Seconds : (IF t > 0 THEN t - 1 ELSE 0) \in 0..Seconds
      BY HttpAssumption
    <3>2. deadline[c] \in 0..Seconds /\ limit[c] \in 0..Seconds
      BY <1>1 DEF TypeOK
    <3>3. deadline' \in [Conns -> 0..Seconds]
      BY <1>1, <1>4, <3>1, <3>2 DEF Tick, TypeOK
    <3>4. limit' \in [Conns -> 0..Seconds]
      BY <1>1, <1>4, <3>1, <3>2 DEF Tick, TypeOK
    <3>5. QED
      BY <1>1, <1>4, <3>3, <3>4 DEF Tick, TypeOK
  <2>2. QED
    BY <1>1, <1>2, <2>1, SameKeepsOwn, OwnKeepsInv
<1>5. QED
  BY <1>3, <1>4

\* A request is read: it is the next of those that were sent, and all before it
\* have their answers.
LEMMA ReadsInv ==
  ASSUME IInv, NEW c \in Conns, Reads(c)
  PROVE  IInv'
<1>1. TypeOK /\ Own(c) /\ ConnType(c)
  BY OwnIsIInv, ConnTypes
<1> DEFINE q == Head(buff[c])
<1>2. /\ pc[c] = "reading" /\ buff[c] # << >>
      /\ sent' = sent /\ wire' = wire /\ out' = out
      /\ got'[c] = Append(got[c], q) /\ buff'[c] = Tail(buff[c])
      /\ \A d \in Conns \ {c} : got'[d] = got[d] /\ buff'[d] = buff[d]
  BY <1>1 DEF Reads, TypeOK
<1>3. q \in Request /\ Tail(buff[c]) \in Seq(Request)
  BY <1>1, <1>2 DEF ConnType
<1>4. PICK where \in {"accepting", "handling", "writing"}, s \in Statuses :
        /\ Goto(c, where)
        /\ where # "accepting" => ~q.upgrade
        /\ where = "handling" => HasHandler(q)
        /\ where = "writing" => s \in Responses(q) /\ status' = [status EXCEPT ![c] = s]
        /\ where # "writing" => status' = status
  <2>1. Responses(q) \subseteq Statuses
    BY <1>3 DEF Responses, Statuses, Request, Targets
  <2>2. None \in Statuses
    BY DEF Statuses
  <2>3. QED
    BY <2>1, <2>2 DEF Reads
<1>5. /\ pc' \in [Conns -> States] /\ status' \in [Conns -> Statuses]
      /\ pc'[c] = where /\ (where = "writing" => status'[c] = s)
      /\ \A d \in Conns \ {c} : pc'[d] = pc[d] /\ status'[d] = status[d]
  BY <1>1, <1>4 DEF Goto, TypeOK, States, Busy
<1>6. TypeOK'
  <2>1. Append(got[c], q) \in Seq(Request)
    BY <1>1, <1>3 DEF ConnType
  <2>2. got' \in [Conns -> Seq(Request)] /\ buff' \in [Conns -> Seq(Request)]
    BY <1>1, <1>3, <2>1 DEF Reads, TypeOK
  <2>3. Seconds \in 0..Seconds
    BY HttpAssumption
  <2>4. deadline' \in [Conns -> 0..Seconds] /\ limit' \in [Conns -> 0..Seconds]
    BY <1>1, <2>3 DEF Reads, TypeOK
  <2>5. QED
    BY <1>1, <1>5, <2>2, <2>4 DEF Reads, TypeOK
<1>7. Others(c)
  BY <1>2, <1>5 DEF Others
<1>8. Own(c)'
  <2>1. /\ Len(got'[c]) = Len(got[c]) + 1 /\ got'[c][Len(got[c]) + 1] = q
        /\ \A i \in 1..Len(got[c]) : got'[c][i] = got[c][i]
        /\ Len(got[c]) \in Nat /\ Len(out[c]) = Len(got[c])
    BY <1>1, <1>2, <1>3 DEF ConnType, Own
  <2>2. got'[c] \o (buff'[c] \o wire'[c]) = sent'[c]
    <3>1. Append(got[c], q) \o (Tail(buff[c]) \o wire[c])
            = got[c] \o (buff[c] \o wire[c])
      <4>1. /\ got[c] \in Seq(Request) /\ buff[c] \in Seq(Request)
            /\ wire[c] \in Seq(Request) /\ buff[c] # << >>
        BY <1>1, <1>2 DEF ConnType
      <4>2. QED
        BY <4>1, ReadMoves, Zenon
    <3>2. got[c] \o (buff[c] \o wire[c]) = sent[c]
      BY <1>1, <1>2 DEF Own, Busy
    <3>3. QED
      BY <1>2, <3>1, <3>2
  <2>3. /\ ~q.upgrade \/ where = "accepting"
        /\ where = "handling" => HasHandler(q)
        /\ where = "writing" => status'[c] \in Responses(q)
    BY <1>4, <1>5
  <2> HIDE DEF q
  <2>4. \A i \in 1..Len(out[c]) :
          /\ ~got'[c][i].upgrade
          /\ out[c][i].status \in Responses(got'[c][i])
          /\ out[c][i].keep_alive = got'[c][i].keep_alive
    BY <1>1, <2>1 DEF Own
  <2>5. \A i \in 1..Len(got'[c]) :
          i < Len(got'[c]) => got'[c][i].keep_alive /\ ~got'[c][i].upgrade
    <3>1. \A i \in 1..Len(got[c]) : got[c][i].keep_alive /\ ~got[c][i].upgrade
      BY <1>1, <1>2 DEF Own, SessionInv
    <3>2. QED
      BY <2>1, <3>1
  <2>6. SessionInv(c)'
    BY <1>2, <1>5, <2>1, <2>3 DEF SessionInv
  <2>7. /\ Len(out'[c]) <= Len(got'[c]) /\ Len(got'[c]) <= Len(out'[c]) + 1
        /\ pc'[c] # "reading"
    BY <1>2, <1>5, <2>1
  <2>8. QED
    BY <1>2, <2>2, <2>4, <2>5, <2>6, <2>7 DEF Own
<1>9. QED
  BY <1>6, <1>7, <1>8, OwnKeepsInv

\* A handler answers, or its limit does.
LEMMA RespondInv ==
  ASSUME IInv, NEW c \in Conns, pc[c] = "handling",
         NEW s \in {204, 400, 500}, Respond(c, s)
  PROVE  IInv'
<1>1. TypeOK /\ Own(c) /\ ConnType(c)
  BY OwnIsIInv, ConnTypes
<1>2. /\ sent' = sent /\ wire' = wire /\ buff' = buff /\ got' = got /\ out' = out
      /\ pc'[c] = "writing" /\ status'[c] = s
      /\ \A d \in Conns \ {c} : pc'[d] = pc[d] /\ status'[d] = status[d]
  BY <1>1 DEF Respond, Goto, TypeOK
<1>3. TypeOK'
  <2>1. 0 \in 0..Seconds
    BY HttpAssumption
  <2>2. limit' \in [Conns -> 0..Seconds]
    BY <1>1, <2>1 DEF Respond, TypeOK
  <2>3. pc' \in [Conns -> States] /\ status' \in [Conns -> Statuses]
    BY <1>1 DEF Respond, Goto, TypeOK, States, Busy, Statuses
  <2>4. awaits' \in [Conns -> {0, 1}]
    BY <1>1 DEF Respond, TypeOK
  <2>5. QED
    BY <1>1, <2>2, <2>3, <2>4 DEF Respond, TypeOK
<1>4. Others(c)
  BY <1>2 DEF Others
<1>5. s \in Responses(got[c][Len(got[c])])
  BY <1>1 DEF Own, SessionInv, Responses, HasHandler
<1>6. Own(c)'
  <2>1. SessionInv(c)'
    BY <1>1, <1>2, <1>5 DEF Own, SessionInv
  <2>2. pc[c] \in Busy /\ pc'[c] # "reading"
    BY <1>2 DEF Busy
  <2>3. /\ Len(out'[c]) <= Len(got'[c]) /\ Len(got'[c]) <= Len(out'[c]) + 1
        /\ got'[c] \o (buff'[c] \o wire'[c]) = sent'[c]
    BY <1>1, <1>2, <2>2 DEF Own
  <2>4. \A i \in 1..Len(out'[c]) :
          /\ ~got'[c][i].upgrade
          /\ out'[c][i].status \in Responses(got'[c][i])
          /\ out'[c][i].keep_alive = got'[c][i].keep_alive
    BY <1>1, <1>2 DEF Own
  <2>5. \A i \in 1..Len(got'[c]) :
          i < Len(got'[c]) => got'[c][i].keep_alive /\ ~got'[c][i].upgrade
    BY <1>1, <1>2 DEF Own
  <2>6. QED
    BY <2>1, <2>2, <2>3, <2>4, <2>5 DEF Own
<1>7. QED
  BY <1>3, <1>4, <1>6, OwnKeepsInv

\* A response is written, and the next request read, or the connection closed.
LEMMA WritesInv ==
  ASSUME IInv, NEW c \in Conns, Writes(c)
  PROVE  IInv'
<1>1. TypeOK /\ Own(c) /\ ConnType(c)
  BY OwnIsIInv, ConnTypes
<1> DEFINE q == got[c][Len(got[c])]
           answer == [status |-> status[c], keep_alive |-> q.keep_alive]
<1>2. /\ pc[c] = "writing" /\ Len(got[c]) = Len(out[c]) + 1
      /\ Len(out[c]) \in Nat /\ ~q.upgrade /\ status[c] \in Responses(q)
  BY <1>1 DEF Writes, Own, SessionInv, ConnType
<1>3. q \in Request
  BY <1>1, <1>2 DEF ConnType
<1>4. answer \in [status : Statuses, keep_alive : BOOLEAN]
  BY <1>1, <1>3 DEF ConnType, Request
<1>5. /\ sent' = sent /\ got' = got
      /\ out' = [out EXCEPT ![c] = Append(out[c], answer)]
      /\ (q.keep_alive /\ ReadsOn(c)) \/ (~q.keep_alive /\ Ends(c))
  BY DEF Writes
<1>6. /\ \/ q.keep_alive /\ pc'[c] = "reading" /\ buff' = buff /\ wire' = wire
         \/ ~q.keep_alive /\ pc'[c] = "closed"
      /\ \A d \in Conns \ {c} :
           /\ pc'[d] = pc[d] /\ buff'[d] = buff[d] /\ wire'[d] = wire[d]
           /\ status'[d] = status[d]
  BY <1>1, <1>5 DEF ReadsOn, StartRead, Ends, Goto, TypeOK
<1>7. TypeOK'
  <2>1. Append(out[c], answer) \in Seq([status : Statuses, keep_alive : BOOLEAN])
    BY <1>1, <1>4 DEF ConnType
  <2> HIDE DEF answer, q
  <2>2. out' \in [Conns -> Seq([status : Statuses, keep_alive : BOOLEAN])]
    BY <1>1, <1>5, <2>1 DEF TypeOK
  <2>3. Seconds \in 0..Seconds /\ 0 \in 0..Seconds
    BY HttpAssumption
  <2>4. CASE ReadsOn(c)
    <3>1. deadline' \in [Conns -> 0..Seconds]
      BY <1>1, <2>3, <2>4 DEF ReadsOn, StartRead, TypeOK
    <3>2. pc' \in [Conns -> States]
      BY <1>1, <2>4 DEF ReadsOn, StartRead, Goto, TypeOK, States, Busy
    <3>3. status' \in [Conns -> Statuses]
      BY <1>1, <2>4 DEF ReadsOn, TypeOK, Statuses, None
    <3>4. QED
      BY <1>1, <2>2, <2>4, <3>1, <3>2, <3>3 DEF Writes, ReadsOn, TypeOK
  <2>5. CASE Ends(c)
    <3>1. deadline' \in [Conns -> 0..Seconds] /\ limit' \in [Conns -> 0..Seconds]
      BY <1>1, <2>3, <2>5 DEF Ends, TypeOK
    <3>2. pc' \in [Conns -> States]
      BY <1>1, <2>5 DEF Ends, Goto, TypeOK, States, Busy
    <3>3. status' \in [Conns -> Statuses]
      BY <1>1, <2>5 DEF Ends, TypeOK, Statuses, None
    <3>4. << >> \in Seq(Request)
      OBVIOUS
    <3>5. buff' \in [Conns -> Seq(Request)] /\ wire' \in [Conns -> Seq(Request)]
      BY <1>1, <2>5, <3>4 DEF Ends, TypeOK
    <3>6. QED
      BY <1>1, <2>2, <3>1, <3>2, <3>3, <3>5 DEF Writes, TypeOK
  <2>6. QED
    BY <1>5, <2>4, <2>5
<1>8. /\ Len(out'[c]) = Len(out[c]) + 1 /\ out'[c][Len(out[c]) + 1] = answer
      /\ \A i \in 1..Len(out[c]) : out'[c][i] = out[c][i]
      /\ \A d \in Conns \ {c} : out'[d] = out[d]
  <2>1. out'[c] = Append(out[c], answer)
    BY <1>1, <1>5 DEF TypeOK
  <2>2. \A d \in Conns \ {c} : out'[d] = out[d]
    BY <1>1, <1>5 DEF TypeOK
  <2>3. QED
    BY <1>1, <1>4, <2>1, <2>2 DEF ConnType
<1>9. Others(c)
  BY <1>5, <1>6, <1>8 DEF Others
<1>10. Own(c)'
  <2>1. answer.status = status[c] /\ answer.keep_alive = q.keep_alive
    OBVIOUS
  <2> HIDE DEF answer
  <2>2. \A i \in 1..Len(out'[c]) :
          /\ ~got'[c][i].upgrade
          /\ out'[c][i].status \in Responses(got'[c][i])
          /\ out'[c][i].keep_alive = got'[c][i].keep_alive
    <3>1. SUFFICES ASSUME NEW i \in 1..Len(out'[c])
                   PROVE  /\ ~got[c][i].upgrade
                          /\ out'[c][i].status \in Responses(got[c][i])
                          /\ out'[c][i].keep_alive = got[c][i].keep_alive
      BY <1>5
    <3>2. CASE i \in 1..Len(out[c])
      BY <1>1, <1>8, <3>2 DEF Own
    <3>3. CASE i = Len(out[c]) + 1
      <4>1. got[c][i] = q /\ out'[c][i] = answer
        BY <1>2, <1>8, <3>3
      <4> HIDE DEF q
      <4>2. QED
        BY <1>2, <2>1, <4>1
    <3>4. QED
      BY <1>2, <1>8, <3>2, <3>3
  <2>3. q.keep_alive => \A i \in 1..Len(got[c]) :
          got[c][i].keep_alive /\ ~got[c][i].upgrade
    BY <1>1, <1>2 DEF Own
  <2>4. got[c] \o (buff[c] \o wire[c]) = sent[c]
    BY <1>1, <1>2 DEF Own, Busy
  <2>5. SessionInv(c)'
    <3>1. CASE q.keep_alive
      <4>1. \A i \in 1..Len(got'[c]) : got'[c][i].keep_alive /\ ~got'[c][i].upgrade
        BY <1>5, <2>3, <3>1
      <4>2. QED
        BY <1>6, <3>1, <4>1 DEF SessionInv
    <3>2. CASE ~q.keep_alive
      BY <1>6, <3>2 DEF SessionInv
    <3>3. QED
      BY <3>1, <3>2
  <2>6. pc'[c] \in Busy => got'[c] \o (buff'[c] \o wire'[c]) = sent'[c]
    BY <1>5, <1>6, <2>4 DEF Busy
  <2>7. /\ Len(out'[c]) <= Len(got'[c]) /\ Len(out'[c]) = Len(got'[c])
        /\ Len(got'[c]) <= Len(out'[c]) + 1
    BY <1>2, <1>5, <1>8
  <2>8. \A i \in 1..Len(got'[c]) :
          i < Len(got'[c]) => got'[c][i].keep_alive /\ ~got'[c][i].upgrade
    BY <1>1, <1>5 DEF Own
  <2> HIDE DEF q
  <2>9. QED
    BY <2>2, <2>5, <2>6, <2>7, <2>8 DEF Own
<1>11. QED
  BY <1>7, <1>9, <1>10, OwnKeepsInv

\* Every step keeps the invariant.
LEMMA NextInv ==
  ASSUME IInv, [Next]_vars
  PROVE  IInv'
<1>1. CASE UNCHANGED vars
  <2>1. TypeOK'
    BY <1>1 DEF vars, connVars, IInv, TypeOK
  <2>2. \A c \in Conns : Own(c) /\ pc'[c] = pc[c] /\ Same(c)
    BY <1>1, OwnIsIInv DEF vars, connVars, Same
  <2>3. \A c \in Conns : Own(c)'
    BY <2>2, SameKeepsOwn
  <2>4. QED
    BY <2>1, <2>3, IInvIsOwn
<1>2. ASSUME NEW c \in Conns, ClientStep(c) PROVE IInv'
  BY <1>2, ClientInv
<1>3. ASSUME NEW c \in Conns, SessionStep(c) PROVE IInv'
  <2>1. CASE Accepts(c)
    BY <2>1, AcceptsInv
  <2>2. CASE ReadsAhead(c)
    BY <2>2, ReadsAheadInv
  <2>3. CASE Reads(c)
    BY <2>3, ReadsInv
  <2>4. CASE ReadFails(c) \/ ReadsEndOfStream(c) \/ StreamTimesOut(c) \/ SessionFails(c)
    <3>1. pc[c] \in Busy \cup {"websocket"} /\ Close(c)
      BY <2>4 DEF ReadFails, ReadsEndOfStream, StreamTimesOut, SessionFails, Busy
    <3>2. QED
      BY <3>1, CloseInv
  <2>5. CASE UpgradeAccepted(c)
    BY <2>5, UpgradeInv
  <2>6. CASE HandlerAwaits(c) \/ Tick(c)
    BY <2>6, QuietInv
  <2>7. CASE HandlerReturns(c) \/ LimitReached(c)
    <3>1. pc[c] = "handling" /\ \E s \in {204, 400, 500} : Respond(c, s)
      BY <2>7 DEF HandlerReturns, LimitReached
    <3>2. QED
      BY <3>1, RespondInv
  <2>8. CASE Writes(c)
    BY <2>8, WritesInv
  <2>9. QED
    BY <1>3, <2>1, <2>2, <2>3, <2>4, <2>5, <2>6, <2>7, <2>8 DEF SessionStep
<1>4. CASE Stops
  <2>1. TypeOK' /\ UNCHANGED <<pc, connVars>>
    BY <1>4 DEF Stops, IInv, TypeOK, connVars
  <2>2. \A c \in Conns : Own(c) /\ pc'[c] = pc[c] /\ Same(c)
    BY <2>1, OwnIsIInv DEF connVars, Same
  <2>3. \A c \in Conns : Own(c)'
    BY <2>2, SameKeepsOwn
  <2>4. QED
    BY <2>1, <2>3, IInvIsOwn
<1>5. CASE Over
  BY <1>1, <1>5 DEF Over
<1>6. QED
  BY <1>1, <1>2, <1>3, <1>4, <1>5 DEF Next

\* It holds before the first client connects.
LEMMA InitInv == Init => IInv
<1>1. SUFFICES ASSUME Init PROVE IInv
  OBVIOUS
<1>2. TypeOK
  BY <1>1, HttpAssumption DEF Init, TypeOK, States, Statuses, None
<1>3. ASSUME NEW c \in Conns PROVE Own(c)
  BY <1>1 DEF Init, Own, SessionInv, Busy
<1>4. QED
  BY <1>2, <1>3, OwnIsIInv

\* The inductive invariant: where each session is, what it has read and what it
\* has written fit together, however the connections interleave.
THEOREM HttpInvariant == Spec => []IInv
BY InitInv, NextInv, PTL DEF Spec

\* run_http_session() answers the requests of a connection in their order, each
\* with a status that fits it.
THEOREM RequestsAnsweredInOrder == Spec => []AnsweredInOrder
<1>1. IInv => AnsweredInOrder
  BY DEF IInv
<1>2. QED
  BY <1>1, HttpInvariant, PTL

\* The buffer outlives the parser of a request: what was sent behind it is kept.
THEOREM PipelineIsKept == Spec => []NothingIsDropped
<1>1. IInv => NothingIsDropped
  BY DEF IInv
<1>2. QED
  BY <1>1, HttpInvariant, PTL

\* No request is read behind one that ends the HTTP session.
THEOREM ClosedWhenAsked == Spec => []ClosesWhenAsked
<1>1. IInv => ClosesWhenAsked
  BY DEF IInv
<1>2. QED
  BY <1>1, HttpInvariant, PTL
=============================================================================
