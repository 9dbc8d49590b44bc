----------------------------- MODULE HttpServer ------------------------------
(***************************************************************************)
(* httplib::Server as the replicated register uses it: listen() accepts    *)
(* connections and queues them for a pool of threads; a thread serves the  *)
(* requests of one connection one after the other (keep-alive), then       *)
(* closes it.  stop() may be called by another thread.  Requests are POSTs *)
(* with or without a body; a handler may throw.  Timeouts may strike       *)
(* whenever there is nothing to read.                                      *)
(***************************************************************************)
EXTENDS Sockets, Bags

CONSTANTS ServerThreads,  \* the threads of the pool
          KeepAliveMax    \* keep_alive_max_count_

ASSUME PoolAssumption == ServerThreads # {} /\ KeepAliveMax \in Nat \ {0}

VARIABLES svrSock,    \* svr_sock_ # INVALID_SOCKET
          listening,  \* the listening socket is open
          isRunning,  \* is_running_
          listener,   \* where the thread in listen() stands
          jobs,       \* task_queue: jobs_
          shutdown,   \* task_queue: shutdown_
          serving,    \* what each thread of the pool does
          handled     \* how often the handler has been called for each request

serverVars == <<svrSock, listening, isRunning, listener, jobs, shutdown, serving, handled>>

Unoccupied == [pc |-> "pool", conn |-> 0, count |-> 0, of |-> 0, closed |-> FALSE,
         status |-> 0, content |-> FALSE]

\* bind_to_port() has created the socket, and listen_internal() the pool.
ServerInit ==
    /\ svrSock = TRUE /\ listening = TRUE /\ isRunning = TRUE
    /\ listener = "accept" /\ jobs = <<>> /\ shutdown = FALSE
    /\ serving = [w \in ServerThreads |-> Unoccupied]
    /\ handled = EmptyBag

Backlog == {k \in Established : wire[k].ss = "backlog"}

-----------------------------------------------------------------------------
(* listen() and stop()                                                     *)

\* accept() gives the connection that waits longest; it is queued for the pool.
Accept ==
    /\ listener = "accept" /\ listening
    /\ \E k \in Backlog :
         /\ \A j \in Backlog : k <= j
         /\ wire' = [wire EXCEPT ![k].ss = "open"]
         /\ jobs' = Append(jobs, k)
    /\ UNCHANGED <<svrSock, listening, isRunning, listener, shutdown, serving, handled>>

\* Connections nobody has accepted are reset with the listening socket.
ResetBacklog(w) ==
    [k \in DOMAIN w |-> IF w[k].ss = "backlog"
                        THEN [w[k] EXCEPT !.ss = "closed", !.up = <<>>] ELSE w[k]]

\* The loop ends, or accept() fails, because stop() has closed the socket.
AcceptAfterStop ==
    /\ listener = "accept" /\ ~listening
    /\ listener' = "shutdown"
    /\ UNCHANGED <<wire, svrSock, listening, isRunning, jobs, shutdown, serving, handled>>

\* accept() fails for another reason: the socket is closed, but svr_sock_
\* keeps its number.  (With EMFILE the loop tries again, which changes nothing.)
AcceptFails ==
    /\ listener = "accept" /\ listening
    /\ listener' = "shutdown"
    /\ listening' = FALSE
    /\ wire' = ResetBacklog(wire)
    /\ UNCHANGED <<svrSock, isRunning, jobs, shutdown, serving, handled>>

\* task_queue->shutdown() tells the threads of the pool ...
ShutdownPool ==
    /\ listener = "shutdown"
    /\ shutdown' = TRUE /\ listener' = "join"
    /\ UNCHANGED <<wire, svrSock, listening, isRunning, jobs, serving, handled>>

\* ... and joins them; listen() returns.
ListenReturns ==
    /\ listener = "join"
    /\ \A w \in ServerThreads : serving[w].pc = "exit"
    /\ isRunning' = FALSE /\ listener' = "returned"
    /\ UNCHANGED <<wire, svrSock, listening, jobs, shutdown, serving, handled>>

\* stop(), called once at most: the caller that calls it again while the
\* server winds down fails the assertion on svr_sock_.
Stop ==
    /\ isRunning /\ svrSock
    /\ svrSock' = FALSE /\ listening' = FALSE
    /\ wire' = ResetBacklog(wire)
    /\ UNCHANGED <<isRunning, listener, jobs, shutdown, serving, handled>>

-----------------------------------------------------------------------------
(* A thread of the pool                                                    *)

Stands(w, pc) == serving[w].pc = pc
Serve(w, next) == serving' = [serving EXCEPT ![w] = next]

ListenerStays == UNCHANGED <<svrSock, listening, isRunning, listener, shutdown>>

\* worker::operator(): takes the next connection ...
TakeJob(w) ==
    /\ Stands(w, "pool")
    /\ jobs # <<>>
    /\ Serve(w, [Unoccupied EXCEPT !.pc = "loop", !.conn = Head(jobs), !.count = KeepAliveMax])
    /\ jobs' = Tail(jobs)
    /\ UNCHANGED <<wire, handled>> /\ ListenerStays

\* A thread that leaves although connections are queued.
LeavePoolEarly(w) ==
    /\ Stands(w, "pool")
    /\ shutdown
    /\ Serve(w, [Unoccupied EXCEPT !.pc = "exit"])
    /\ UNCHANGED <<wire, jobs, handled>> /\ ListenerStays

\* ... or leaves when it is told to, but not before the queue is empty.
LeavePool(w) ==
    /\ Stands(w, "pool")
    /\ shutdown /\ jobs = <<>>
    /\ Serve(w, [Unoccupied EXCEPT !.pc = "exit"])
    /\ UNCHANGED <<wire, jobs, handled>> /\ ListenerStays

\* The condition of the loop in process_server_socket_core().
KeepServing(w) ==
    /\ Stands(w, "loop")
    /\ Serve(w, [serving[w] EXCEPT
                   !.pc = IF svrSock /\ serving[w].count > 0 THEN "wait" ELSE "close"])
    /\ UNCHANGED <<wire, jobs, handled>> /\ ListenerStays

\* keep_alive() without its timeout.
AwaitRequestForever(w) ==
    /\ Stands(w, "wait")
    /\ ServerReadable(serving[w].conn)
    /\ Serve(w, [serving[w] EXCEPT !.pc = "head"])
    /\ UNCHANGED <<wire, jobs, handled>> /\ ListenerStays

\* keep_alive(): something to read comes in time, or it does not.
AwaitRequest(w) ==
    LET k == serving[w].conn IN
    /\ Stands(w, "wait")
    /\ \/ /\ ServerReadable(k)
          /\ Serve(w, [serving[w] EXCEPT !.pc = "head"])
       \/ /\ ~ServerReadable(k)
          /\ Serve(w, [serving[w] EXCEPT !.pc = "close"])
    /\ UNCHANGED <<wire, jobs, handled>> /\ ListenerStays

\* process_request(): the request line and the headers; at the end of the
\* stream getline() fails.
ReadRequestHead(w) ==
    LET k == serving[w].conn IN
    /\ Stands(w, "head")
    /\ \/ /\ wire[k].up = <<>>
          /\ Serve(w, [serving[w] EXCEPT !.pc = "close"])
          /\ UNCHANGED wire
       \/ /\ wire[k].up # <<>> /\ Head(wire[k].up).part = "head"
          /\ LET head == Head(wire[k].up) IN
             Serve(w, [serving[w] EXCEPT !.pc = IF head.more THEN "body" ELSE "handler",
                         !.of = head.of, !.closed = head.close])
          /\ wire' = [wire EXCEPT ![k].up = Tail(@)]
    /\ UNCHANGED <<jobs, handled>> /\ ListenerStays

\* Once the server has given a body up, what it reads may begin anywhere in
\* a request.  Such a line does not parse: it is answered with 400, what has
\* been read ahead is lost, or nothing more comes and getline() fails.
ReadStray(w) ==
    LET k == serving[w].conn IN
    /\ Stands(w, "head")
    /\ wire[k].late /\ wire[k].up # <<>>
    /\ \E pc \in {"reply", "close"} :
         Serve(w, [serving[w] EXCEPT !.pc = pc, !.of = 0, !.status = 400, !.content = FALSE])
    /\ \E n \in 0..Len(wire[k].up) :
         wire' = [wire EXCEPT ![k].up = SubSeq(@, n + 1, Len(@))]
    /\ UNCHANGED <<jobs, handled>> /\ ListenerStays

\* read_content(): the body, or a timeout or the end of the stream, which
\* routing() answers with 400; the connection is kept, and the body may still come.
ReadRequestBody(w) ==
    LET k == serving[w].conn IN
    /\ Stands(w, "body")
    /\ \/ /\ wire[k].up # <<>>
          /\ Serve(w, [serving[w] EXCEPT !.pc = "handler"])
          /\ wire' = [wire EXCEPT ![k].up = Tail(@)]
       \/ /\ wire[k].up = <<>>
          /\ Serve(w, [serving[w] EXCEPT !.pc = "reply", !.status = 400, !.content = FALSE])
          /\ wire' = [wire EXCEPT ![k].late = TRUE]
    /\ UNCHANGED <<jobs, handled>> /\ ListenerStays

\* routing() calls the handler, which sets a status and a content, or throws:
\* process_request() answers with 500 and no content.
CallHandler(w) ==
    /\ Stands(w, "handler")
    /\ \/ Serve(w, [serving[w] EXCEPT !.pc = "reply", !.status = 200, !.content = TRUE])
       \/ Serve(w, [serving[w] EXCEPT !.pc = "reply", !.status = 500, !.content = FALSE])
    /\ handled' = handled (+) SetToBag({serving[w].of})
    /\ UNCHANGED <<wire, jobs>> /\ ListenerStays

\* The answer that a request gets; the last one on a connection says so.
Answer(w, part) ==
    [part |-> part, of |-> serving[w].of, status |-> serving[w].status,
     more |-> serving[w].content, close |-> serving[w].count = 1 \/ serving[w].closed]

\* The end of a turn of the loop: ret tells whether the answer was written.
EndOfTurn(w, ret) ==
    [Unoccupied EXCEPT !.pc = IF ~ret \/ serving[w].closed THEN "close" ELSE "loop",
                 !.conn = serving[w].conn, !.count = serving[w].count - 1]

\* write_response_core(): whether the head could be written is not looked at.
WriteHead(w) ==
    LET k == serving[w].conn IN
    /\ Stands(w, "reply")
    /\ Serve(w, IF serving[w].content
                THEN [serving[w] EXCEPT !.pc = "content"] ELSE EndOfTurn(w, TRUE))
    /\ wire' = IF ServerAlive(k) THEN ServerSends(k, Answer(w, "head")) ELSE wire
    /\ UNCHANGED <<jobs, handled>> /\ ListenerStays

WriteContent(w) ==
    LET k == serving[w].conn IN
    /\ Stands(w, "content")
    /\ Serve(w, EndOfTurn(w, ServerAlive(k)))
    /\ wire' = IF ServerAlive(k) THEN ServerSends(k, Answer(w, "body")) ELSE wire
    /\ UNCHANGED <<jobs, handled>> /\ ListenerStays

\* process_and_close_socket()
CloseConnection(w) ==
    /\ Stands(w, "close")
    /\ \E kept \in BOOLEAN : wire' = ServerCloses(serving[w].conn, kept)
    /\ Serve(w, Unoccupied)
    /\ UNCHANGED <<jobs, handled>> /\ ListenerStays

ServerThread(w) ==
    \/ TakeJob(w) \/ LeavePool(w) \/ KeepServing(w) \/ AwaitRequest(w)
    \/ ReadRequestHead(w) \/ ReadStray(w) \/ ReadRequestBody(w) \/ CallHandler(w)
    \/ WriteHead(w) \/ WriteContent(w) \/ CloseConnection(w)

Listener == Accept \/ AcceptAfterStop \/ ShutdownPool \/ ListenReturns

ServerNext == Listener \/ \E w \in ServerThreads : ServerThread(w)

=============================================================================
