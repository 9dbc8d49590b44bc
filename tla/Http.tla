-------------------------------- MODULE Http --------------------------------
(***************************************************************************)
(* The client, then client and server together.                            *)
(*                                                                         *)
(* httplib::ClientImpl.  Threads call Post() on a client, one call each;   *)
(* clients may be shared, and may keep their connection (set_keep_alive).  *)
(* stop() may be called by another thread; the clients are destroyed when  *)
(* all calls have returned.  The replicated register uses a client of its  *)
(* own for every call, without keep-alive.  Sections under socket_mutex_   *)
(* are single steps.                                                       *)
(***************************************************************************)
EXTENDS HttpServer, FiniteSets

CONSTANTS Posters,     \* the threads that call Post()
          Writers,     \* those of them whose requests have a body
          HttpClients, \* the objects of ClientImpl
          MaxBacklog   \* CPPHTTPLIB_LISTEN_BACKLOG

ASSUME PostersAssumption ==
    IsFiniteSet(HttpClients) /\ Writers \subseteq Posters /\ 0 \notin Posters

VARIABLES uses,        \* uses[t]: the client that thread t calls
          keepAlive,   \* keep_alive_ of each client
          sock,        \* socket_.sock, 0 for INVALID_SOCKET
          descriptors, \* the connection behind every descriptor, 0 when it is free
          inFlight,    \* socket_requests_in_flight_
          closeWhenDone,  \* socket_should_be_closed_when_request_is_done_
          requestMutex,   \* request_mutex_ is held
          post,        \* where each call of Post() stands
          destroyed    \* the clients that are gone

clientVars == <<uses, keepAlive, sock, descriptors, inFlight, closeWhenDone,
                requestMutex, post, destroyed>>

Numbers == 1..Cardinality(HttpClients)

NoAnswer == [of |-> 0, status |-> 0]

ClientInit ==
    /\ uses \in [Posters -> HttpClients]
    /\ keepAlive \in [HttpClients -> BOOLEAN]
    /\ \A c \in HttpClients : keepAlive[c] => \E t \in Posters : uses[t] = c
    /\ sock = [c \in HttpClients |-> 0]
    /\ descriptors = [n \in Numbers |-> 0]
    /\ inFlight = [c \in HttpClients |-> 0]
    /\ closeWhenDone = [c \in HttpClients |-> FALSE]
    /\ requestMutex = [c \in HttpClients |-> FALSE]
    /\ post = [t \in Posters |-> [pc |-> "idle", number |-> 0, conn |-> 0,
                                 ret |-> FALSE, got |-> NoAnswer]]
    /\ destroyed = {}

In(t, pc) == post[t].pc = pc
Call(t, to) == post' = [post EXCEPT ![t] = to]

ClientStays == UNCHANGED <<uses, keepAlive, requestMutex, destroyed>>
SocketStays == UNCHANGED <<sock, descriptors, inFlight, closeWhenDone>>

\* shutdown_socket() and close_socket() of client c.
HangUp(c) ==
    IF sock[c] = 0 THEN UNCHANGED <<wire, sock, descriptors>>
    ELSE /\ \E kept \in BOOLEAN : wire' = ClientCloses(descriptors[sock[c]], kept)
         /\ descriptors' = [descriptors EXCEPT ![sock[c]] = 0]
         /\ sock' = [sock EXCEPT ![c] = 0]

-----------------------------------------------------------------------------
Post(t) ==
    /\ In(t, "idle")
    /\ Call(t, [post[t] EXCEPT !.pc = "lock"])
    /\ UNCHANGED wire /\ SocketStays /\ ClientStays

\* send(): request_mutex_
LockRequests(t) ==
    /\ In(t, "lock")
    /\ ~requestMutex[uses[t]]
    /\ requestMutex' = [requestMutex EXCEPT ![uses[t]] = TRUE]
    /\ Call(t, [post[t] EXCEPT !.pc = "connect"])
    /\ UNCHANGED <<wire, uses, keepAlive, destroyed>> /\ SocketStays

HasLiveSocket(c) == sock[c] # 0 /\ ClientAlive(descriptors[sock[c]])

\* send() goes on with the connection that it finds alive.
Reuse(t) ==
    LET c == uses[t] IN
    /\ In(t, "connect")
    /\ HasLiveSocket(c)
    /\ inFlight' = [inFlight EXCEPT ![c] = @ + 1]
    /\ closeWhenDone' = [closeWhenDone EXCEPT ![c] = FALSE]
    /\ Call(t, [post[t] EXCEPT !.pc = "write_head"])
    /\ UNCHANGED <<wire, sock, descriptors>> /\ ClientStays

\* The lowest free number, as socket() gives it; closed is the connection
\* that send() has found dead, and closes first.
Lowest(n, free) == n \in free /\ \A m \in free : n <= m

Closed(c) == IF sock[c] = 0 THEN wire ELSE ClientCloses(descriptors[sock[c]], TRUE)

\* create_and_connect_socket(): the server has room in its backlog.
Connect(t, listens) ==
    LET c == uses[t]
        freed == IF sock[c] = 0 THEN descriptors ELSE [descriptors EXCEPT ![sock[c]] = 0]
    IN
    /\ In(t, "connect")
    /\ ~HasLiveSocket(c)
    /\ listens /\ Cardinality({k \in Established : wire[k].ss = "backlog"}) < MaxBacklog
    /\ wire' = Append(Closed(c), NewConnection)
    /\ \E n \in Numbers :
         /\ Lowest(n, {m \in Numbers : freed[m] = 0})
         /\ descriptors' = [freed EXCEPT ![n] = Len(wire) + 1]
         /\ sock' = [sock EXCEPT ![c] = n]
    /\ inFlight' = [inFlight EXCEPT ![c] = @ + 1]
    /\ closeWhenDone' = [closeWhenDone EXCEPT ![c] = FALSE]
    /\ Call(t, [post[t] EXCEPT !.pc = "write_head"])
    /\ ClientStays

\* The server is not there, or the connection is not made in time: send()
\* returns false at once.
ConnectFails(t) ==
    LET c == uses[t] IN
    /\ In(t, "connect")
    /\ ~HasLiveSocket(c)
    /\ Call(t, [post[t] EXCEPT !.pc = "done"])
    /\ closeWhenDone' = [closeWhenDone EXCEPT ![c] = FALSE]
    /\ requestMutex' = [requestMutex EXCEPT ![c] = FALSE]
    /\ HangUp(c)
    /\ UNCHANGED <<inFlight, uses, keepAlive, destroyed>>

-----------------------------------------------------------------------------
(* process_request(): from here on the thread works with the number of the *)
(* descriptor that process_socket() has copied.                            *)

Stream(t) == descriptors[post[t].number]

Fails(t) == [post[t] EXCEPT !.pc = "finish", !.ret = FALSE]

\* is_writable()
CanWrite(k) == k # 0 /\ wire[k].cs = "open" /\ ClientAlive(k)

Segment(t, part) ==
    [part |-> part, of |-> t, more |-> t \in Writers, close |-> ~keepAlive[uses[t]]]

\* process_socket() and write_request(): the request line and the headers.
SendHead(t) ==
    LET n == sock[uses[t]]
        k == IF n = 0 THEN 0 ELSE descriptors[n]
        at == [post[t] EXCEPT !.number = n, !.conn = k]
    IN
    /\ In(t, "write_head")
    /\ IF CanWrite(k)
       THEN /\ Call(t, [at EXCEPT !.pc = IF t \in Writers THEN "write_body" ELSE "read_head"])
            /\ wire' = ClientSends(k, Segment(t, "head"))
       ELSE /\ Call(t, [at EXCEPT !.pc = "finish", !.ret = FALSE])
            /\ UNCHANGED wire
    /\ SocketStays /\ ClientStays

SendBody(t) ==
    /\ In(t, "write_body")
    /\ IF CanWrite(Stream(t))
       THEN /\ Call(t, [post[t] EXCEPT !.pc = "read_head"])
            /\ wire' = ClientSends(Stream(t), Segment(t, "body"))
       ELSE Call(t, Fails(t)) /\ UNCHANGED wire
    /\ SocketStays /\ ClientStays

\* The whole answer is there; a server that closes the connection says so.
Received(t, answer) ==
    [post[t] EXCEPT !.pc = IF answer.close THEN "hang_up" ELSE "finish", !.ret = TRUE,
                    !.got = [of |-> answer.of, status |-> answer.status]]

\* read_response_line() and read_headers()
ReadHead(t) ==
    LET k == Stream(t) IN
    /\ In(t, "read_head")
    /\ wire[k].down # <<>>
    /\ LET answer == Head(wire[k].down) IN
       Call(t, IF answer.more
               THEN [post[t] EXCEPT !.pc = "read_body", !.got.of = answer.of]
               ELSE Received(t, answer))
    /\ wire' = [wire EXCEPT ![k].down = Tail(@)]
    /\ SocketStays /\ ClientStays

\* read_content_with_length(); of is 0 when the body is not that of the head.
ReadBody(t) ==
    LET k == Stream(t) IN
    /\ In(t, "read_body")
    /\ wire[k].down # <<>>
    /\ LET answer == Head(wire[k].down) IN
       Call(t, Received(t, [answer EXCEPT !.of = IF post[t].got.of = @ THEN @ ELSE 0]))
    /\ wire' = [wire EXCEPT ![k].down = Tail(@)]
    /\ SocketStays /\ ClientStays

\* Nothing comes in time, or the stream has ended.
ReadFails(t) ==
    /\ In(t, "read_head") \/ In(t, "read_body")
    /\ wire[Stream(t)].down = <<>>
    /\ Call(t, Fails(t))
    /\ UNCHANGED wire /\ SocketStays /\ ClientStays

\* The end of process_request(), under socket_mutex_.
HangUpOnAnswer(t) ==
    /\ In(t, "hang_up")
    /\ Call(t, [post[t] EXCEPT !.pc = "finish"])
    /\ HangUp(uses[t])
    /\ UNCHANGED <<inFlight, closeWhenDone>> /\ ClientStays

\* A client that keeps a connection on which a call has failed.
FinishSendKeeping(t) ==
    LET c == uses[t] IN
    /\ In(t, "finish")
    /\ Call(t, [post[t] EXCEPT !.pc = "done", !.number = 0])
    /\ inFlight' = [inFlight EXCEPT ![c] = @ - 1]
    /\ IF closeWhenDone[c] \/ ~keepAlive[c]
       THEN HangUp(c) ELSE UNCHANGED <<wire, sock, descriptors>>
    /\ requestMutex' = [requestMutex EXCEPT ![c] = FALSE]
    /\ UNCHANGED <<closeWhenDone, uses, keepAlive, destroyed>>

\* The end of send().
FinishSend(t) ==
    LET c == uses[t] IN
    /\ In(t, "finish")
    /\ Call(t, [post[t] EXCEPT !.pc = "done", !.number = 0])
    /\ inFlight' = [inFlight EXCEPT ![c] = @ - 1]
    /\ IF closeWhenDone[c] \/ ~keepAlive[c] \/ ~post[t].ret
       THEN HangUp(c) ELSE UNCHANGED <<wire, sock, descriptors>>
    /\ requestMutex' = [requestMutex EXCEPT ![c] = FALSE]
    /\ UNCHANGED <<closeWhenDone, uses, keepAlive, destroyed>>

\* A stop() that closes the socket under a call in flight.
StopClientAtOnce(c) ==
    /\ c \notin destroyed
    /\ HangUp(c)
    /\ UNCHANGED <<uses, keepAlive, inFlight, closeWhenDone, requestMutex, post, destroyed>>

-----------------------------------------------------------------------------
\* stop() shuts the socket of a call in flight down and leaves the closing
\* to the call.
StopClient(c) ==
    /\ c \notin destroyed
    /\ IF inFlight[c] > 0
       THEN /\ wire' = IF sock[c] = 0 THEN wire ELSE ClientShuts(descriptors[sock[c]])
            /\ closeWhenDone' = [closeWhenDone EXCEPT ![c] = TRUE]
            /\ UNCHANGED <<sock, descriptors>>
       ELSE HangUp(c) /\ UNCHANGED closeWhenDone
    /\ UNCHANGED <<uses, keepAlive, inFlight, requestMutex, post, destroyed>>

\* ~ClientImpl(), when nobody calls a client any more.
DestroyClient(c) ==
    /\ c \notin destroyed
    /\ \A t \in Posters : post[t].pc = "done"
    /\ destroyed' = destroyed \cup {c}
    /\ HangUp(c)
    /\ UNCHANGED <<uses, keepAlive, inFlight, closeWhenDone, requestMutex, post>>

PosterStep(t, listens) ==
    \/ LockRequests(t) \/ Reuse(t) \/ Connect(t, listens) \/ ConnectFails(t)
    \/ SendHead(t) \/ SendBody(t) \/ ReadHead(t) \/ ReadBody(t) \/ ReadFails(t)
    \/ HangUpOnAnswer(t) \/ FinishSend(t)

ClientNext(listens) ==
    \/ \E t \in Posters : PosterStep(t, listens) \/ Post(t)
    \/ \E c \in HttpClients : DestroyClient(c)

-----------------------------------------------------------------------------
(***************************************************************************)
(* Clients and a server of httplib on either side of their connections.    *)
(***************************************************************************)

VARIABLE trouble   \* what happens once, at any time, in this behaviour

httpVars == <<wire, serverVars, clientVars, trouble>>

HttpInit ==
    /\ wire = <<>> /\ ServerInit /\ ClientInit
    /\ trouble \in {"none", "stop", "stop_client", "accept_fails"}

\* Another thread calls stop() of the server or of a client, or the system
\* refuses accept().
Trouble ==
    /\ \/ trouble = "stop" /\ Stop /\ UNCHANGED clientVars
       \/ trouble = "accept_fails" /\ AcceptFails /\ UNCHANGED clientVars
       \/ trouble = "stop_client" /\ (\E c \in HttpClients : StopClient(c)) /\ UNCHANGED serverVars
    /\ trouble' = "none"

HttpDone ==
    /\ destroyed = HttpClients
    /\ UNCHANGED httpVars

HttpNext ==
    \/ ServerNext /\ UNCHANGED <<clientVars, trouble>>
    \/ ClientNext(listening) /\ UNCHANGED <<serverVars, trouble>>
    \/ Trouble
    \/ HttpDone

HttpSpec == HttpInit /\ [][HttpNext]_httpVars

-----------------------------------------------------------------------------
\* Between connecting and the end of send() the number that the call has
\* copied denotes the connection it began with: nobody closes it under the
\* call (ClientImpl::stop, close_socket).
CallsKeepSockets ==
    \A t \in Posters :
        post[t].pc \in {"write_body", "read_head", "read_body", "hang_up"}
            => post[t].number # 0 /\ Stream(t) = post[t].conn

\* A call that returns an answer returns the answer to its own request, at
\* any rate where a client closes its connection after every call or no body
\* has been late; the handler has then been called for it (ClientImpl::send).
AnswersBelong ==
    \A t \in Posters :
        post[t].pc = "done" /\ post[t].ret /\ (keepAlive[uses[t]] => ~wire[post[t].conn].late)
            => /\ post[t].got.of = t
               /\ post[t].got.status = 200 => BagIn(t, handled)

\* No request is handled twice.
HandledOnce == \A t \in Posters : BagIn(t, handled) => handled[t] = 1

\* A connection that the server has accepted and not closed is queued or has
\* one thread; when listen() has returned it is closed (listen_internal,
\* process_and_close_socket).
ConnectionsServed ==
    \A k \in Established : wire[k].ss = "open"
        => /\ listener # "returned"
           /\ Cardinality({i \in DOMAIN jobs : jobs[i] = k})
                + Cardinality({w \in ServerThreads : serving[w].conn = k}) = 1

\* Nobody leaves a socket behind: a client that is gone has closed all of its
\* connections.
SocketsReturned ==
    destroyed = HttpClients => \A k \in Established : wire[k].cs = "closed"

\* Together: what clients and server may rely on.
HttpExchangesSafe ==
    CallsKeepSockets /\ AnswersBelong /\ HandledOnce /\ ConnectionsServed /\ SocketsReturned

\* Whoever falls silent, nobody waits for ever: a thread of the server or of
\* a client can go on, unless it waits for a call that can (keep_alive(),
\* the timeouts of both sides, ~ThreadPool).
NobodyStuck ==
    /\ \A t \in Posters : post[t].pc \notin {"idle", "done", "lock"} => ENABLED PosterStep(t, listening)
    /\ \A t \in Posters : In(t, "lock") =>
           ENABLED LockRequests(t) \/ \E u \in Posters : uses[u] = uses[t] /\ post[u].pc \notin {"idle", "done", "lock"}
    /\ \A w \in ServerThreads : serving[w].pc \notin {"pool", "exit"} => ENABLED ServerThread(w)
    /\ ~listening /\ listener # "returned" =>
           ENABLED Listener \/ \E w \in ServerThreads : ENABLED ServerThread(w)

=============================================================================
