----------------------------- MODULE HttpSession -----------------------------
(***************************************************************************)
(* The HTTP side of the server: the accept loop of run_server(), one       *)
(* run_http_session() for each connection, and the end of the process.     *)
(* A session reads a request, answers it and reads the next one on the     *)
(* same connection, until one of the two sides is done; a request may      *)
(* instead turn the connection into a websocket.                           *)
(*                                                                         *)
(* Two timers run: the deadline of the stream, set before each request is  *)
(* read and still there when its answer is written, and the limit of the   *)
(* handlers that use the databases.                                        *)
(***************************************************************************)
EXTENDS Integers, Sequences

CONSTANTS
  Conns,         \* the connections clients make
  Inputs,        \* the requests the client of each may send
  MaxRequests,   \* bound: requests sent on one connection
  Seconds        \* 30 s, in ticks

Targets == {"invalid", "endpoint", "unknown", "file", "no_file", "dots"}

Request == [ok : BOOLEAN,         \* does Beast accept it?
            upgrade : BOOLEAN, keep_alive : BOOLEAN,
            target : Targets, method : {"POST", "GET", "HEAD"}]

ASSUME HttpAssumption ==
  /\ Inputs \in [Conns -> SUBSET Request]
  /\ MaxRequests \in Nat
  /\ Seconds \in Nat

VARIABLES
  running,       \* the io_context runs
  pc,            \* where the session of a connection is
  sent,          \* what its client has sent
  wire,          \* what of this is on its way
  buff,          \* what of this has been read ahead of the parser
  got,           \* the requests the session has read
  out,           \* the responses it has written
  fin,           \* has the client closed its side?
  status,        \* the response that is being written
  deadline,      \* the timer of the stream
  limit,         \* the timer of cancel_after()
  awaits         \* the await of the handler (which one: odd or even)

connVars == <<sent, wire, buff, got, out, fin, status, deadline, limit, awaits>>
vars == <<running, pc, connVars>>
-----------------------------------------------------------------------------
None == 0                    \* no status yet
Statuses == {None, 200, 204, 400, 404, 405, 500}
Busy == {"reading", "handling", "writing", "accepting"}
States == Busy \cup {"away", "arrived", "websocket", "closed"}

TypeOK ==
  /\ running \in BOOLEAN
  /\ pc \in [Conns -> States]
  /\ sent \in [Conns -> Seq(Request)]
  /\ wire \in [Conns -> Seq(Request)]
  /\ buff \in [Conns -> Seq(Request)]
  /\ got \in [Conns -> Seq(Request)]
  /\ out \in [Conns -> Seq([status : Statuses, keep_alive : BOOLEAN])]
  /\ fin \in [Conns -> BOOLEAN]
  /\ status \in [Conns -> Statuses]
  /\ deadline \in [Conns -> 0..Seconds]
  /\ limit \in [Conns -> 0..Seconds]
  /\ awaits \in [Conns -> {0, 1}]

Init ==
  /\ running = TRUE
  /\ pc = [c \in Conns |-> "away"]
  /\ sent = [c \in Conns |-> << >>]
  /\ wire = [c \in Conns |-> << >>]
  /\ buff = [c \in Conns |-> << >>]
  /\ got = [c \in Conns |-> << >>]
  /\ out = [c \in Conns |-> << >>]
  /\ fin = [c \in Conns |-> FALSE]
  /\ status = [c \in Conns |-> None]
  /\ deadline = [c \in Conns |-> 0]
  /\ limit = [c \in Conns |-> 0]
  /\ awaits = [c \in Conns |-> 0]

Goto(c, where) == pc' = [pc EXCEPT ![c] = where]
-----------------------------------------------------------------------------
(* The clients. *)

Arrives(c) ==
  /\ pc[c] = "away"
  /\ Goto(c, "arrived")
  /\ UNCHANGED <<running, connVars>>

ClientSends(c, q) ==
  /\ pc[c] \in Busy /\ ~fin[c] /\ Len(sent[c]) < MaxRequests
  /\ sent' = [sent EXCEPT ![c] = Append(@, q)]
  /\ wire' = [wire EXCEPT ![c] = Append(@, q)]
  /\ UNCHANGED <<running, pc, buff, got, out, fin, status, deadline, limit, awaits>>

ClientCloses(c) ==
  /\ pc[c] \in Busy /\ ~fin[c]
  /\ fin' = [fin EXCEPT ![c] = TRUE]
  /\ UNCHANGED <<running, pc, sent, wire, buff, got, out, status, deadline, limit, awaits>>
-----------------------------------------------------------------------------
(* Routing: handle_http_request_impl() and handle_static_file(). *)

HasHandler(q) == q.target = "endpoint" /\ q.method = "POST"

\* The statuses of the responses a request may have.
Responses(q) ==
  CASE q.target = "invalid" -> {400}
    [] q.target = "unknown" -> {404}
    [] q.target = "endpoint" ->
         IF HasHandler(q) THEN {204, 400, 500} ELSE {405}
    [] OTHER ->
         IF q.method \notin {"GET", "HEAD"} THEN {405}
         ELSE CASE q.target = "dots" -> {400}
                [] q.target = "no_file" -> {404, 500}
                [] q.target = "file" -> {200, 500}
-----------------------------------------------------------------------------
(* run_http_session() *)

\* A new parser, a new deadline; the buffer is that of the connection.
StartRead(c) ==
  /\ Goto(c, "reading")
  /\ deadline' = [deadline EXCEPT ![c] = Seconds]

\* Mutant: a connection is served to its end before the next is accepted.
AcceptsOneByOne(c) ==
  /\ running /\ pc[c] = "arrived"
  /\ \A d \in Conns : pc[d] \notin Busy \cup {"websocket"}
  /\ StartRead(c)
  /\ UNCHANGED <<running, sent, wire, buff, got, out, fin, status, limit, awaits>>

\* run_server() accepts a connection and spawns its session.
Accepts(c) ==
  /\ running /\ pc[c] = "arrived"
  /\ StartRead(c)
  /\ UNCHANGED <<running, sent, wire, buff, got, out, fin, status, limit, awaits>>

\* Bytes reach the buffer, those of later requests, too.
ReadsAhead(c) ==
  /\ running /\ pc[c] = "reading" /\ wire[c] # << >>
  /\ buff' = [buff EXCEPT ![c] = Append(@, Head(wire[c]))]
  /\ wire' = [wire EXCEPT ![c] = Tail(@)]
  /\ UNCHANGED <<running, pc, sent, got, out, fin, status, deadline, limit, awaits>>

\* A request is complete: it is a websocket, or it is routed, and answered at
\* once or by a handler.
Reads(c) ==
  /\ running /\ pc[c] = "reading" /\ buff[c] # << >>
  /\ LET q == Head(buff[c])
     IN  /\ q.ok
         /\ got' = [got EXCEPT ![c] = Append(@, q)]
         /\ buff' = [buff EXCEPT ![c] = Tail(@)]
         /\ \/ /\ q.upgrade
               /\ Goto(c, "accepting")
               /\ deadline' = [deadline EXCEPT ![c] = Seconds]
               /\ UNCHANGED <<status, limit>>
            \/ /\ ~q.upgrade /\ HasHandler(q)
               /\ Goto(c, "handling")
               /\ limit' = [limit EXCEPT ![c] = Seconds]
               /\ UNCHANGED <<status, deadline>>
            \/ /\ ~q.upgrade /\ ~HasHandler(q)
               /\ \E s \in Responses(q) : status' = [status EXCEPT ![c] = s]
               /\ Goto(c, "writing")
               /\ UNCHANGED <<deadline, limit>>
  /\ UNCHANGED <<running, sent, wire, out, fin, awaits>>

\* The session is over, and its timers, its buffer and its socket with it.
Ends(c) ==
  /\ Goto(c, "closed")
  /\ wire' = [wire EXCEPT ![c] = << >>]
  /\ buff' = [buff EXCEPT ![c] = << >>]
  /\ status' = [status EXCEPT ![c] = None]
  /\ deadline' = [deadline EXCEPT ![c] = 0]
  /\ limit' = [limit EXCEPT ![c] = 0]

Close(c) == Ends(c) /\ UNCHANGED <<running, sent, got, out, fin, awaits>>

\* What is no request is not answered: the session ends.
ReadFails(c) ==
  /\ running /\ pc[c] = "reading"
  /\ buff[c] # << >> /\ ~Head(buff[c]).ok
  /\ Close(c)

ReadsEndOfStream(c) ==
  /\ running /\ pc[c] = "reading"
  /\ fin[c] /\ wire[c] = << >> /\ buff[c] = << >>
  /\ Close(c)

\* The deadline of the stream, or of the websocket handshake.
StreamTimesOut(c) ==
  /\ running /\ pc[c] \in {"reading", "writing", "accepting"}
  /\ deadline[c] = 0
  /\ Close(c)

\* The connection breaks, or is done with, or the session throws: nobody else
\* is affected.  A handler does not look at the connection.
SessionFails(c) ==
  /\ running /\ pc[c] \in (Busy \ {"handling"}) \cup {"websocket"}
  /\ Close(c)

UpgradeAccepted(c) ==
  /\ running /\ pc[c] = "accepting"
  /\ Goto(c, "websocket")
  /\ UNCHANGED <<running, connVars>>

\* Mutant: the limit is one of each operation.
HandlerAwaitsAnew(c) ==
  /\ running /\ pc[c] = "handling"
  /\ awaits' = [awaits EXCEPT ![c] = 1 - @]
  /\ limit' = [limit EXCEPT ![c] = Seconds]
  /\ UNCHANGED <<running, pc, sent, wire, buff, got, out, fin, status, deadline>>

\* The handler goes on to its next operation.
HandlerAwaits(c) ==
  /\ running /\ pc[c] = "handling"
  /\ awaits' = [awaits EXCEPT ![c] = 1 - @]
  /\ UNCHANGED <<running, pc, sent, wire, buff, got, out, fin, status, deadline, limit>>

Respond(c, s) ==
  /\ Goto(c, "writing")
  /\ status' = [status EXCEPT ![c] = s]
  /\ limit' = [limit EXCEPT ![c] = 0]
  /\ awaits' = [awaits EXCEPT ![c] = 0]
  /\ UNCHANGED <<running, sent, wire, buff, got, out, fin, deadline>>

\* The handler returns; an exception is a response, too.
HandlerReturns(c) ==
  /\ running /\ pc[c] = "handling"
  /\ \E s \in {204, 400, 500} : Respond(c, s)

\* Mutant: the exception is caught and not answered.
LimitReachedUnanswered(c) ==
  /\ running /\ pc[c] = "handling" /\ limit[c] = 0
  /\ StartRead(c)
  /\ UNCHANGED <<running, sent, wire, buff, got, out, fin, status, limit, awaits>>

\* cancel_after(30s): the operation fails or its await throws, whichever it is.
LimitReached(c) ==
  /\ running /\ pc[c] = "handling" /\ limit[c] = 0
  /\ Respond(c, 500)

ReadsOn(c) ==
  /\ StartRead(c)
  /\ status' = [status EXCEPT ![c] = None]
  /\ UNCHANGED <<wire, buff, limit>>

\* Mutant: the connection is kept whatever the client asked for.
WritesAndKeeps(c) ==
  /\ running /\ pc[c] = "writing"
  /\ LET q == got[c][Len(got[c])]
     IN  out' = [out EXCEPT ![c] =
                   Append(@, [status |-> status[c], keep_alive |-> q.keep_alive])]
  /\ ReadsOn(c)
  /\ UNCHANGED <<running, sent, got, fin, awaits>>

\* Mutant: the next request is read with a new buffer.
WritesAndForgets(c) ==
  /\ running /\ pc[c] = "writing"
  /\ LET q == got[c][Len(got[c])]
     IN  /\ out' = [out EXCEPT ![c] =
                      Append(@, [status |-> status[c], keep_alive |-> q.keep_alive])]
         /\ \/ /\ q.keep_alive
               /\ StartRead(c)
               /\ status' = [status EXCEPT ![c] = None]
               /\ buff' = [buff EXCEPT ![c] = << >>]
               /\ UNCHANGED <<wire, limit>>
            \/ ~q.keep_alive /\ Ends(c)
  /\ UNCHANGED <<running, sent, got, fin, awaits>>

\* The response is written; it says whether the connection is kept.
Writes(c) ==
  /\ running /\ pc[c] = "writing"
  /\ LET q == got[c][Len(got[c])]
     IN  /\ out' = [out EXCEPT ![c] =
                      Append(@, [status |-> status[c], keep_alive |-> q.keep_alive])]
         /\ \/ q.keep_alive /\ ReadsOn(c)
            \/ ~q.keep_alive /\ Ends(c)
  /\ UNCHANGED <<running, sent, got, fin, awaits>>

\* A second goes by for connection c.
Tick(c) ==
  /\ running /\ pc[c] \in Busy
  /\ deadline[c] > 0 \/ limit[c] > 0
  /\ deadline' = [deadline EXCEPT ![c] = IF @ > 0 THEN @ - 1 ELSE 0]
  /\ limit' = [limit EXCEPT ![c] = IF @ > 0 THEN @ - 1 ELSE 0]
  /\ UNCHANGED <<running, pc, sent, wire, buff, got, out, fin, status, awaits>>

\* SIGINT or SIGTERM, or async_accept() throws: nothing runs any more.
Stops == running /\ running' = FALSE /\ UNCHANGED <<pc, connVars>>

\* The process has ended, or every connection has.
Over ==
  /\ ~running \/ \A c \in Conns : pc[c] = "closed"
  /\ UNCHANGED vars

ClientStep(c) ==
  Arrives(c) \/ (\E q \in Inputs[c] : ClientSends(c, q)) \/ ClientCloses(c)

SessionStep(c) ==
  \/ Accepts(c) \/ ReadsAhead(c) \/ Reads(c) \/ ReadFails(c)
  \/ ReadsEndOfStream(c) \/ StreamTimesOut(c) \/ SessionFails(c)
  \/ UpgradeAccepted(c) \/ HandlerAwaits(c) \/ HandlerReturns(c)
  \/ LimitReached(c) \/ Writes(c) \/ Tick(c)

Next ==
  \/ \E c \in Conns : ClientStep(c) \/ SessionStep(c)
  \/ Stops
  \/ Over

Spec == Init /\ [][Next]_vars

\* Time goes by, timers are served, and connections accepted.  Nothing is
\* assumed of clients, databases and the network.
Fairness ==
  \A c \in Conns :
    /\ WF_vars(Tick(c))
    /\ WF_vars(StreamTimesOut(c))
    /\ WF_vars(LimitReached(c))
    /\ WF_vars(Accepts(c))

FairSpec == Spec /\ Fairness
-----------------------------------------------------------------------------
\* The responses are those of the requests, one each and in their order, with
\* a status that fits; only the last request may still be without one.
AnsweredInOrder ==
  \A c \in Conns :
    /\ Len(out[c]) <= Len(got[c])
    /\ pc[c] = "reading" => Len(out[c]) = Len(got[c])
    /\ pc[c] \in Busy => Len(got[c]) <= Len(out[c]) + 1
    /\ \A i \in 1..Len(out[c]) :
         /\ ~got[c][i].upgrade
         /\ out[c][i].status \in Responses(got[c][i])
         /\ out[c][i].keep_alive = got[c][i].keep_alive

\* A request that was sent behind another one is not lost between the two.
NothingIsDropped ==
  \A c \in Conns :
    pc[c] \in Busy => got[c] \o (buff[c] \o wire[c]) = sent[c]

\* Nothing is read behind a request that asks to close the connection, nor
\* behind one that makes it a websocket.
ClosesWhenAsked ==
  \A c \in Conns : \A i \in 1..Len(got[c]) :
    i < Len(got[c]) => got[c][i].keep_alive /\ ~got[c][i].upgrade

\* A connection is not kept for a client that is silent, does not read, or
\* asks for what the databases never answer.
EveryConnectionEnds ==
  \A c \in Conns : pc[c] \in Busy ~> pc[c] \in {"closed", "websocket"} \/ ~running

\* Every client is accepted, however long the others stay.
EveryArrivalAccepted ==
  \A c \in Conns : pc[c] = "arrived" ~> pc[c] # "arrived" \/ ~running

\* Where the session is, and what it has read and written.
SessionInv(c) ==
  /\ pc[c] \in {"away", "arrived"} =>
       sent[c] = << >> /\ wire[c] = << >> /\ buff[c] = << >>
       /\ got[c] = << >> /\ out[c] = << >>
  /\ pc[c] \in {"handling", "writing", "accepting"} =>
       Len(got[c]) = Len(out[c]) + 1
  /\ pc[c] \in {"handling", "writing"} => ~got[c][Len(got[c])].upgrade
  /\ pc[c] = "handling" => HasHandler(got[c][Len(got[c])])
  /\ pc[c] = "writing" => status[c] \in Responses(got[c][Len(got[c])])
  /\ pc[c] = "reading" => \A i \in 1..Len(got[c]) :
       got[c][i].keep_alive /\ ~got[c][i].upgrade

IInv ==
  /\ TypeOK
  /\ AnsweredInOrder
  /\ NothingIsDropped
  /\ ClosesWhenAsked
  /\ \A c \in Conns : SessionInv(c)
=============================================================================
