----------------------------- MODULE HttpServer -----------------------------
(***************************************************************************)
(* The HTTP server: the poll loop of the embedded web server (mongoose.c),  *)
(* its handler of HTTP connections, Mgr (Mongoose.hpp) that hands requests  *)
(* to RestServ::httpRequest (RestServ.cpp), and the response written        *)
(* straight into the connection's send buffer (Stream.cpp).                 *)
(*                                                                          *)
(* One thread polls: it asks which sockets are ready, reads and writes each *)
(* of them once, then closes the connections that were flagged.  Clients    *)
(* send, wait, hang up between any two of these steps.                      *)
(*                                                                          *)
(* A request is a head and possibly a body, each of which the network may   *)
(* deliver on its own; a response is two pieces, each of which may be       *)
(* written on its own.  What the engine does with a request is reduced to   *)
(* whether it is refused.                                                   *)
(***************************************************************************)
EXTENDS Naturals, Sequences

CONSTANTS
  Conns,       \* the connections that clients open
  Patient,     \* those whose client waits for the answer before it sends again
  Listener,    \* the listening socket
  Kinds,       \* the kinds of requests that clients send
  MaxRequests  \* bound on the requests of one connection

\* "get":   a request of the API that has no body and changes nothing
\* "order": one that changes the engine, its body announced by Content-Length
\* "open":  the same without Content-Length: the body ends with the connection
\* "page":  a request outside /api, which the web server answers itself
\* "junk":  bytes that are no HTTP request
ASSUME HttpAssumption ==
  /\ Patient \subseteq Conns
  /\ Listener \notin Conns
  /\ Kinds \subseteq {"get", "order", "open", "page", "junk"}
  /\ MaxRequests \in Nat

VARIABLES
  \* the clients and the network
  kind,      \* kind[c][n]: the kind of the n-th request of c
  due,       \* due[c]: the body of the last of them is still to be sent
  fin,       \* fin[c]: the client has "no"t finished, sent all, or hung up
  net,       \* net[c]: sent and not yet read by the server
  got,       \* got[c]: pieces of responses that c received
  \* mg_connection
  phase,     \* "new", "backlog" until accepted, "open", "closed"
  recv,      \* recv_mbuf
  send,      \* send_mbuf
  flags,     \* MG_F_CLOSE_IMMEDIATELY and MG_F_SEND_AND_CLOSE
  userData,  \* user_data points to a living RestServ
  \* mg_mgr_poll
  stage,     \* "select", "handle", "close"
  ready,     \* ready[c]: what select reported
  todo,      \* the sockets not yet handled in this poll
  \* history
  served     \* served[c]: the requests handed to RestServ, with their results

clientVars == <<kind, due, fin>>
connVars == <<phase, recv, flags, userData>>
pollVars == <<stage, ready, todo>>
vars == <<clientVars, net, got, connVars, send, pollVars, served>>

Head_(n) == [req |-> n, part |-> "head"]
Body(n) == [req |-> n, part |-> "body"]
HasBody(k) == k \in {"order", "open"}

Results == {"page", "done", "refused"}
Chunks == [req : 1..MaxRequests, part : {"head", "body"}]
Pieces == [req : 1..MaxRequests, last : BOOLEAN, result : Results]

TypeOK ==
  /\ kind \in [Conns -> Seq(Kinds)]
  /\ due \in [Conns -> BOOLEAN]
  /\ fin \in [Conns -> {"no", "sent", "gone"}]
  /\ net \in [Conns -> Seq(Chunks)]
  /\ got \in [Conns -> Seq(Pieces)]
  /\ phase \in [Conns -> {"new", "backlog", "open", "closed"}]
  /\ recv \in [Conns -> Seq(Chunks)]
  /\ send \in [Conns -> Seq(Pieces)]
  /\ flags \in [Conns -> SUBSET {"CloseImmediately", "SendAndClose"}]
  /\ userData \in [Conns \cup {Listener} -> BOOLEAN]
  /\ stage \in {"select", "handle", "close"}
  /\ ready \in [Conns -> SUBSET {"read", "write"}]
  /\ todo \subseteq Conns \cup {Listener}
  /\ served \in [Conns -> Seq([req : 1..MaxRequests, result : Results, known : BOOLEAN])]

Init ==
  /\ kind = [c \in Conns |-> <<>>]
  /\ due = [c \in Conns |-> FALSE]
  /\ fin = [c \in Conns |-> "no"]
  /\ net = [c \in Conns |-> <<>>]
  /\ got = [c \in Conns |-> <<>>]
  /\ phase = [c \in Conns |-> "new"]
  /\ recv = [c \in Conns |-> <<>>]
  /\ send = [c \in Conns |-> <<>>]
  /\ flags = [c \in Conns |-> {}]
  /\ userData = [c \in Conns \cup {Listener} |-> c = Listener]
  /\ stage = "select"
  /\ ready = [c \in Conns |-> {}]
  /\ todo = {}
  /\ served = [c \in Conns |-> <<>>]

----------------------------------------------------------------------------
(* Clients.                                                                *)

\* The client has the whole response to each request it has sent.
Answered(c) == Len(got[c]) = 2 * Len(kind[c])

Connect(c) ==
  /\ phase[c] = "new"
  /\ phase' = [phase EXCEPT ![c] = "backlog"]
  /\ UNCHANGED <<clientVars, net, got, recv, flags, userData, send, pollVars, served>>

CanSend(c) == phase[c] \in {"backlog", "open"} /\ fin[c] = "no"

SendHead(c, k) ==
  /\ CanSend(c) /\ ~due[c]
  /\ Len(kind[c]) < MaxRequests
  /\ c \in Patient => Answered(c)
  /\ kind' = [kind EXCEPT ![c] = Append(@, k)]
  /\ due' = [due EXCEPT ![c] = HasBody(k)]
  /\ net' = [net EXCEPT ![c] = Append(@, Head_(Len(kind[c]) + 1))]
  /\ UNCHANGED <<fin, got, connVars, send, pollVars, served>>

SendBody(c) ==
  /\ CanSend(c) /\ due[c]
  /\ due' = [due EXCEPT ![c] = FALSE]
  /\ net' = [net EXCEPT ![c] = Append(@, Body(Len(kind[c])))]
  /\ UNCHANGED <<kind, fin, got, connVars, send, pollVars, served>>

\* The client closes its side of the connection, or all of it, at any time:
\* in the middle of a request, or before the response has come.
Finish(c) ==
  /\ phase[c] \in {"backlog", "open"}
  /\ \/ fin[c] = "no" /\ fin' = [fin EXCEPT ![c] = "sent"]
     \/ fin[c] # "gone" /\ fin' = [fin EXCEPT ![c] = "gone"]
  /\ UNCHANGED <<kind, due, net, got, connVars, send, pollVars, served>>

----------------------------------------------------------------------------
(* Requests.                                                               *)

\* mg_parse_http with the length of the message it finds at the start of the
\* buffer: 0 while there is none, as long as the buffer is when the length is
\* only known at the close.
Waiting == 0

\* A plausible slip: one piece more is waited for.
MutMessageLen(c, buf) ==
  CASE kind[c][buf[1].req] \in {"get", "page"} -> 1
    [] kind[c][buf[1].req] = "order" /\ Len(buf) > 2 -> 2
    [] OTHER -> Waiting

MessageLen(c, buf) ==
  CASE kind[c][buf[1].req] \in {"get", "page"} -> 1
    [] kind[c][buf[1].req] = "order" /\ Len(buf) >= 2 -> 2
    [] OTHER -> Waiting

Invalid(c, buf) == buf # <<>> /\ kind[c][buf[1].req] = "junk"

\* A plausible slip: a body that stops early is taken for a whole one.
MutResult(c, n, body) ==
  CASE kind[c][n] = "page" -> "page"
    [] kind[c][n] = "get" /\ body = <<>> -> "done"
    [] HasBody(kind[c][n]) /\ body \in {<<>>, <<Body(n)>>} -> "done"
    [] OTHER -> "refused"

\* What becomes of request n when the handler is given this body: "done" when
\* it takes effect.  A body that is incomplete, or that runs on into the next
\* request, is refused by the parser.  Without its body the request is invalid,
\* or one of the few that need no field of it (RestServ.cpp:340, 537, 581): it
\* is answered with 200 then and changes nothing, which is no effect either.
Result(c, n, body) ==
  CASE kind[c][n] = "page" -> "page"
    [] kind[c][n] = "get" /\ body = <<>> -> "done"
    [] HasBody(kind[c][n]) /\ body = <<Body(n)>> -> "done"
    [] OTHER -> "refused"

\* A plausible slip: the response is taken for the next request's.
MutResponse(n, result) ==
  << [req |-> n + 1, last |-> FALSE, result |-> result],
     [req |-> n + 1, last |-> TRUE, result |-> result] >>

Response(n, result) ==
  << [req |-> n, last |-> FALSE, result |-> result],
     [req |-> n, last |-> TRUE, result |-> result] >>

\* What the handler leaves in a send buffer that it has or gets (see Throw):
\* OStream::reset empties it before the response of the API is written, the web
\* server appends its own.
Written(buf, n, result) ==
  IF result = "page" THEN buf \o Response(n, result) ELSE Response(n, result)

Dispatched(c, n, body) ==
  Append(served[c], [req |-> n, result |-> Result(c, n, body), known |-> userData[c]])

----------------------------------------------------------------------------
(* The poll loop.                                                          *)

Open == {c \in Conns : phase[c] = "open"}
Backlog == {c \in Conns : phase[c] = "backlog"}

Closable(c) ==
  /\ c \in Open
  /\ \/ "CloseImmediately" \in flags[c]
     \/ "SendAndClose" \in flags[c] /\ send[c] = <<>>

\* The end of the stream is something to read.
Readable(c) == net[c] # <<>> \/ fin[c] # "no"

\* select: a socket with something to read, or closed by its peer, is reported
\* at once; one that is waiting to be written to whenever its peer makes room.
\* A poll that has nothing to handle and nothing to close is no step; a poll
\* that was left by an exception leaves connections to close to the next.
Select ==
  /\ stage = "select"
  /\ \E writable \in SUBSET {c \in Open : send[c] # <<>>} :
       /\ ready' = [c \in Conns |->
                      {x \in {"read", "write"} :
                         /\ c \in Open
                         /\ x = "read" => Readable(c)
                         /\ x = "write" => c \in writable}]
       /\ todo' = {c \in Open : ready'[c] # {}} \cup (IF Backlog # {} THEN {Listener} ELSE {})
  /\ IF todo' # {} THEN stage' = "handle"
     ELSE (\E c \in Conns : Closable(c)) /\ stage' = "close"
  /\ UNCHANGED <<clientVars, net, got, connVars, send, served>>

\* The next stage once c has been handled.
Proceed(c) ==
  /\ todo' = todo \ {c}
  /\ stage' = IF todo' = {} THEN "close" ELSE "handle"
  /\ UNCHANGED ready

\* A plausible slip: the new connection does not inherit the user data.
MutAccept(c) ==
  /\ stage = "handle" /\ Listener \in todo
  /\ phase[c] = "backlog"
  /\ phase' = [phase EXCEPT ![c] = "open"]
  /\ Proceed(Listener)
  /\ UNCHANGED <<clientVars, net, got, recv, flags, userData, send, served>>

\* mg_accept_conn: one connection at a time, with the handler and user data of
\* the listener.
Accept(c) ==
  /\ stage = "handle" /\ Listener \in todo
  /\ phase[c] = "backlog"
  /\ phase' = [phase EXCEPT ![c] = "open"]
  /\ userData' = [userData EXCEPT ![c] = userData[Listener]]
  /\ Proceed(Listener)
  /\ UNCHANGED <<clientVars, net, got, recv, flags, send, served>>

\* A plausible slip: the handled message stays in the buffer.
MutReceive(c, buf) ==
  /\ recv' = [recv EXCEPT ![c] = buf]
  /\ IF buf # <<>> /\ MessageLen(c, buf) > 0
     THEN LET body == SubSeq(buf, 2, MessageLen(c, buf))
              n == buf[1].req
          IN /\ served' = [served EXCEPT ![c] = Dispatched(c, n, body)]
             /\ send' = [send EXCEPT ![c] = Written(@, n, Result(c, n, body))]
     ELSE UNCHANGED <<served, send>>

\* mg_http_handler on MG_EV_RECV: the first message of the buffer is handled
\* when it is whole.  The rest waits for the next time something is received.
Receive(c, buf) ==
  IF buf # <<>> /\ MessageLen(c, buf) > 0
  THEN LET len == MessageLen(c, buf)
           body == SubSeq(buf, 2, len)
           n == buf[1].req
       IN /\ served' = [served EXCEPT ![c] = Dispatched(c, n, body)]
          /\ send' = [send EXCEPT ![c] = Written(@, n, Result(c, n, body))]
          /\ recv' = [recv EXCEPT ![c] = SubSeq(buf, len + 1, Len(buf))]
  ELSE /\ recv' = [recv EXCEPT ![c] = buf]
       /\ UNCHANGED <<served, send>>

\* mg_read_from_socket: what the socket has is read up to the size of the
\* read buffer; an invalid request flags the connection.
Read(c) ==
  /\ stage = "handle" /\ c \in todo
  /\ "read" \in ready[c] /\ net[c] # <<>>
  /\ \E k \in 1..Len(net[c]) :
       LET buf == recv[c] \o SubSeq(net[c], 1, k) IN
       /\ net' = [net EXCEPT ![c] = SubSeq(@, k + 1, Len(@))]
       /\ Receive(c, buf)
       /\ \/ /\ Invalid(c, buf)
             /\ flags' = [flags EXCEPT ![c] = @ \cup {"CloseImmediately"}]
             /\ Proceed(c)
             /\ UNCHANGED ready
          \/ /\ ~Invalid(c, buf)
             \* A page may end the connection once it is written.
             /\ flags' \in {flags} \cup
                  (IF kind[c][buf[1].req] = "page"
                   THEN {[flags EXCEPT ![c] = @ \cup {"SendAndClose"}]} ELSE {})
             /\ IF "write" \in ready[c]
                THEN /\ ready' = [ready EXCEPT ![c] = {"write"}]
                     /\ UNCHANGED <<stage, todo>>
                ELSE Proceed(c)
  /\ UNCHANGED <<clientVars, got, phase, userData>>

\* The end of the stream: the connection is flagged and nothing more is
\* written to it.
ReadEnd(c) ==
  /\ stage = "handle" /\ c \in todo
  /\ "read" \in ready[c] /\ net[c] = <<>>
  /\ flags' = [flags EXCEPT ![c] = @ \cup {"CloseImmediately"}]
  /\ Proceed(c)
  /\ UNCHANGED <<clientVars, net, got, phase, recv, userData, send, served>>

\* A plausible slip: the last piece that was written stays in the buffer.
MutWrite(c) ==
  /\ stage = "handle" /\ c \in todo
  /\ ready[c] = {"write"} /\ send[c] # <<>>
  /\ \E n \in 1..Len(send[c]) :
       /\ send' = [send EXCEPT ![c] = SubSeq(@, n, Len(@))]
       /\ got' = [got EXCEPT ![c] = @ \o SubSeq(send[c], 1, n)]
  /\ UNCHANGED flags
  /\ Proceed(c)
  /\ UNCHANGED <<clientVars, net, phase, recv, userData, served>>

\* mg_write_to_socket: the socket takes some of the buffer.  When the client is
\* gone the bytes are lost, or the socket reports the error.
Write(c) ==
  /\ stage = "handle" /\ c \in todo
  /\ ready[c] = {"write"} /\ send[c] # <<>>
  /\ \/ /\ \E n \in 1..Len(send[c]) :
             /\ send' = [send EXCEPT ![c] = SubSeq(@, n + 1, Len(@))]
             /\ got' = IF fin[c] = "gone" THEN got
                       ELSE [got EXCEPT ![c] = @ \o SubSeq(send[c], 1, n)]
        /\ UNCHANGED flags
     \/ /\ fin[c] = "gone"
        /\ flags' = [flags EXCEPT ![c] = @ \cup {"CloseImmediately"}]
        /\ UNCHANGED <<send, got>>
  /\ Proceed(c)
  /\ UNCHANGED <<clientVars, net, phase, recv, userData, served>>

\* mg_close_conn: when the receive buffer begins with the head of a request it
\* is handed on once more, its body running to the end of the buffer.  Then
\* the user's handler hears of the close and forgets its data, and the
\* connection is freed with all that waits in its buffers.
CloseConn(c) ==
  /\ LET buf == recv[c] IN
     IF buf # <<>> /\ ~Invalid(c, buf)
     THEN served' = [served EXCEPT ![c] = Dispatched(c, buf[1].req, Tail(buf))]
     ELSE UNCHANGED served
  /\ userData' = [userData EXCEPT ![c] = FALSE]
  /\ phase' = [phase EXCEPT ![c] = "closed"]
  /\ recv' = [recv EXCEPT ![c] = <<>>]
  /\ send' = [send EXCEPT ![c] = <<>>]
  /\ UNCHANGED <<clientVars, net, got, flags, pollVars>>

Close(c) == stage = "close" /\ Closable(c) /\ CloseConn(c)

\* StreamBuf's constructor: the send buffer is allocated for the first answer of
\* a connection and kept.
Unbuffered(c, n) == served[c] = <<>> /\ kind[c][n] # "page"

ThrowRead(c) ==
  /\ "read" \in ready[c]
  /\ \E k \in 1..Len(net[c]) :
       LET buf == recv[c] \o SubSeq(net[c], 1, k) IN
       /\ MessageLen(c, buf) > 0 /\ Unbuffered(c, buf[1].req)
       /\ net' = [net EXCEPT ![c] = SubSeq(@, k + 1, Len(@))]
       /\ recv' = [recv EXCEPT ![c] = buf]

ThrowClose(c) ==
  /\ recv[c] # <<>> /\ ~Invalid(c, recv[c]) /\ Unbuffered(c, recv[c][1].req)
  /\ UNCHANGED <<net, recv>>

\* When there is no memory for it, bad_alloc leaves httpRequest before its try,
\* and the poll with it: nothing is performed and nothing answered, the request
\* stays in the receive buffer, and what was ready is not handled.
Throw ==
  /\ \/ stage = "handle" /\ \E c \in todo \cap Conns : ThrowRead(c)
     \/ stage = "close" /\ \E c \in Conns : Closable(c) /\ ThrowClose(c)
  /\ stage' = "select"
  /\ ready' = [c \in Conns |-> {}]
  /\ todo' = {}
  /\ UNCHANGED <<clientVars, got, flags, send, served>>

\* Who polled may poll again, as the destructor of Mgr does.
PollThrows == Throw /\ UNCHANGED <<phase, userData>>

\* No flagged connection is left: the poll returns and the next one begins.
PollEnd ==
  /\ stage = "close"
  /\ \A c \in Conns : ~Closable(c)
  /\ stage' = "select"
  /\ ready' = [c \in Conns |-> {}]
  /\ UNCHANGED <<clientVars, net, got, connVars, send, todo, served>>

Client(c) == Connect(c) \/ (\E k \in Kinds : SendHead(c, k)) \/ SendBody(c) \/ Finish(c)

Handle(c) == Accept(c) \/ Read(c) \/ ReadEnd(c) \/ Write(c)

Server == Select \/ (\E c \in Conns : Handle(c) \/ Close(c)) \/ PollEnd

Next == Server \/ PollThrows \/ \E c \in Conns : Client(c)

Spec == Init /\ [][Next]_vars

\* The daemon polls for ever, and a client that has not hung up makes room for
\* its response again and again.  No client has to send, nor to hang up.
Fairness ==
  /\ WF_vars(Server)
  /\ \A c \in Conns : SF_vars(Select /\ "write" \in ready'[c])

FairSpec == Spec /\ Fairness

----------------------------------------------------------------------------
(* Properties.                                                             *)

\* Whatever way the bytes arrive, the requests of a connection are handed to
\* RestServ in the order in which they were sent, each of them at most once and
\* none passed over, the one that is taken up at the close included.
ServedOnceInOrder ==
  \A c \in Conns : \A i \in 1..Len(served[c]) : served[c][i].req = i

\* A client that waits for its answers receives the responses to its requests
\* in order, whole and unmixed, although each response empties the send buffer
\* that the one before it was written to.
AnswersInOrder ==
  \A c \in Patient : \A j \in 1..Len(got[c]) :
    LET n == (j + 1) \div 2 IN
    /\ n <= Len(served[c])
    /\ got[c][j] = [req |-> n, last |-> j % 2 = 0, result |-> served[c][n].result]

\* A request takes effect only when its client has sent all of it: one cut off
\* by the end of the connection, or followed by bytes of another in its body,
\* is handed on but refused.
OnlyWholeRequestsTakeEffect ==
  \A c \in Conns : \A i \in 1..Len(served[c]) :
    served[c][i].result = "done" /\ HasBody(kind[c][i]) =>
      i < Len(kind[c]) \/ ~due[c]

\* A client that waits, and stays, is answered or sees its connection closed,
\* unless its request has no end.
WaitingClientIsAnswered ==
  \A c \in Patient :
    (phase[c] # "new" /\ kind[c] # <<>> /\ kind[c][Len(kind[c])] # "open" /\ ~due[c])
      ~> (Answered(c) \/ phase[c] = "closed" \/ fin[c] # "no")

\* To a client that waits, the daemon performs each request at most once, before
\* it answers, and only its last request is ever in doubt.
Replies == INSTANCE RequestReply WITH
  Clients <- Patient,
  asked <- [c \in Patient |-> Len(kind[c])],
  performed <- [c \in Patient |-> Len(served[c])],
  answered <- [c \in Patient |-> Len(got[c]) \div 2],
  connected <- [c \in Patient |-> phase[c] # "closed"]

ImplementsRequestReply == Replies!Spec

=============================================================================
