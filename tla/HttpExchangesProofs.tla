------------------------- MODULE HttpExchangesProofs -------------------------
(***************************************************************************)
(* What clients and server of httplib may rely on, for any number of       *)
(* clients, calls and threads: HttpExchangesSafe.  The inductive invariant *)
(* is HttpInv, at the end.  Its parts: the calls of a client take turns    *)
(* (CallsInv); a connection has one client while that has not closed it,   *)
(* and one place in the server (SocketsInv, ServedInv); the head of a      *)
(* request is sent once and read once (HandledInv); an answer of 200 is    *)
(* that of a handled request (AnswersInv); what is under way on a          *)
(* connection, and the thread that serves it, fit the call that holds it   *)
(* (ExchangesInv).                                                         *)
(*                                                                         *)
(* The steps are proved in two halves.  An action is first shown to be one *)
(* of a few relations between a connection, and a turn of the server or a  *)
(* call, before and after it (Serving, Talks, HangsUp, ...); the invariant *)
(* is then proved about these relations, over plain values.                *)
(***************************************************************************)
EXTENDS Http, Integers, SequenceTheorems, FiniteSetTheorems, TLAPS

(***************************************************************************)
(* The types of what clients, server and connections are made of.          *)
(***************************************************************************)
Parts == {"head", "body"}
Owners == Posters \cup {0}
Statuses == {0, 200, 400, 500}
ClientEnds == {"open", "shut", "closed"}
ServerEnds == {"backlog", "open", "closed"}
Turning == {"loop", "wait", "head", "body", "handler", "reply", "content", "close"}
ThreadPlaces == Turning \cup {"pool", "exit"}
CallPlaces == {"idle", "lock", "connect", "write_head", "write_body", "read_head", "read_body",
               "hang_up", "finish", "done"}

Segments == [part : Parts, of : Posters, more : BOOLEAN, close : BOOLEAN]
Replies == [part : Parts, of : Owners, status : Statuses, more : BOOLEAN, close : BOOLEAN]
Conns == [up : Seq(Segments), down : Seq(Replies), cs : ClientEnds, ss : ServerEnds,
          late : BOOLEAN]
Turns == [pc : ThreadPlaces, conn : Nat, count : Int, of : Owners, closed : BOOLEAN,
          status : Statuses, content : BOOLEAN]
Answers == [of : Owners, status : Statuses]
Posts == [pc : CallPlaces, number : Nat, conn : Nat, ret : BOOLEAN, got : Answers]

ServerTypeOK ==
    /\ svrSock \in BOOLEAN /\ listening \in BOOLEAN /\ isRunning \in BOOLEAN
    /\ shutdown \in BOOLEAN
    /\ listener \in {"accept", "shutdown", "join", "returned"}
    /\ jobs \in Seq(Nat)
    /\ serving \in [ServerThreads -> Turns]

ClientTypeOK ==
    /\ uses \in [Posters -> HttpClients] /\ keepAlive \in [HttpClients -> BOOLEAN]
    /\ sock \in [HttpClients -> Numbers \cup {0}] /\ descriptors \in [Numbers -> Nat]
    /\ inFlight \in [HttpClients -> Nat] /\ closeWhenDone \in [HttpClients -> BOOLEAN]
    /\ requestMutex \in [HttpClients -> BOOLEAN]
    /\ post \in [Posters -> Posts] /\ destroyed \subseteq HttpClients

HttpTypeOK == wire \in Seq(Conns) /\ ServerTypeOK /\ ClientTypeOK

(* What a step of a thread of the pool does to its connection, n, and to its *)
(* turn, s: n2 and s2 are those after it.                                    *)

\* m segments have been read from what the client has sent.
Reads(n, n2, m) ==
    /\ n2.down = n.down /\ n2.cs = n.cs /\ n2.ss = n.ss /\ n2.late = n.late
    /\ m \in 0..Len(n.up) /\ Len(n2.up) = Len(n.up) - m
    /\ \A i \in 1..Len(n2.up) : n2.up[i] = n.up[i + m]

\* The answer a has been sent, unless the client has left.
Sends(n, n2, a) ==
    /\ n2.up = n.up /\ n2.cs = n.cs /\ n2.ss = n.ss /\ n2.late = n.late
    /\ n2.down = IF n.cs = "open" THEN Append(n.down, a) ELSE n.down
    
Between(n, s, n2, s2) ==
    /\ n2 = n
    /\ s.pc \in {"loop", "wait", "head"} /\ s2.pc \in {"loop", "wait", "head", "close"}
ReadsHead(n, s, n2, s2) ==
    /\ Reads(n, n2, 1) /\ s.pc = "head" /\ n.up[1].part = "head"
    /\ s2.pc = (IF n.up[1].more THEN "body" ELSE "handler") /\ s2.of = n.up[1].of
ReadsStray(n, s, n2, s2) ==
    /\ n.late /\ s.pc = "head" /\ \E m \in 0..Len(n.up) : Reads(n, n2, m)
    /\ s2.pc \in {"reply", "close"} /\ s2.of = 0 /\ s2.status = 400 /\ s2.content = FALSE
ReadsBody(n, s, n2, s2) ==
    /\ Reads(n, n2, 1) /\ s.pc = "body" /\ s2.pc = "handler" /\ s2.of = s.of
GivesUp(n, s, n2, s2) ==
    /\ n2.up = n.up /\ n2.down = n.down /\ n2.cs = n.cs /\ n2.ss = n.ss /\ n2.late = TRUE
    /\ s.pc = "body" /\ n.up = <<>>
    /\ s2.pc = "reply" /\ s2.of = s.of /\ s2.status = 400 /\ s2.content = FALSE
Handles(n, s, n2, s2) ==
    /\ n2 = n /\ s.pc = "handler"
    /\ s2.pc = "reply" /\ s2.of = s.of /\ s2.status \in {200, 500}
WritesHead(n, s, n2, s2) ==
    /\ s.pc = "reply"
    /\ \E a \in Replies : a.of = s.of /\ a.status = s.status /\ a.more = s.content /\ Sends(n, n2, a)
    /\ s.content => s2.pc = "content" /\ s2.of = s.of /\ s2.status = s.status
    /\ ~s.content => s2.pc \in {"loop", "close"}
WritesBody(n, s, n2, s2) ==
    /\ s.pc = "content"
    /\ \E a \in Replies : a.of = s.of /\ a.status = s.status /\ Sends(n, n2, a)
    /\ s2.pc \in {"loop", "close"}
Closes(n, s, n2, s2) ==
    /\ n2.ss = "closed" /\ n2.up = <<>> /\ n2.down \in {n.down, <<>>}
    /\ n2.cs = n.cs /\ n2.late = n.late
    /\ s.pc = "close" /\ s2.pc = "pool"

\* One turn of the loop in process_server_socket_core().
Serving(n, s, n2, s2) ==
    \/ Between(n, s, n2, s2) \/ ReadsHead(n, s, n2, s2) \/ ReadsStray(n, s, n2, s2)
    \/ ReadsBody(n, s, n2, s2) \/ GivesUp(n, s, n2, s2) \/ Handles(n, s, n2, s2)
    \/ WritesHead(n, s, n2, s2) \/ WritesBody(n, s, n2, s2)

\* Of the connections only k changes; of the threads only w moves.
WireStep(k) ==
    /\ wire' \in Seq(Conns) /\ Len(wire') = Len(wire)
    /\ \A j \in Established : j # k => wire'[j] = wire[j]
ServingStep(w) ==
    /\ serving' \in [ServerThreads -> Turns]
    /\ \A v \in ServerThreads : v # w => serving'[v] = serving[v]

\* A connection that the server has accepted and not closed is queued, once,
\* or served by one thread.
QueuesInv ==
    /\ \A i, j \in 1..Len(jobs) : jobs[i] = jobs[j] => i = j
    /\ \A w, v \in ServerThreads :
          serving[w].conn # 0 /\ serving[w].conn = serving[v].conn => w = v
    /\ \A w \in ServerThreads : serving[w].conn = 0 <=> serving[w].pc \in {"pool", "exit"}
    /\ \A i \in 1..Len(jobs), w \in ServerThreads : jobs[i] # serving[w].conn
    /\ \A i \in 1..Len(jobs) : jobs[i] \in Established /\ wire[jobs[i]].ss = "open"
    /\ \A w \in ServerThreads : serving[w].conn # 0 =>
          serving[w].conn \in Established /\ wire[serving[w].conn].ss = "open"
    /\ \A k \in Established : wire[k].ss = "open" =>
          \/ \E i \in 1..Len(jobs) : jobs[i] = k
          \/ \E w \in ServerThreads : serving[w].conn = k

\* The pool shuts down before its threads leave, and they before listen() returns.
PoolInv ==
    /\ shutdown => listener \in {"join", "returned"}
    /\ \A w \in ServerThreads : serving[w].pc = "exit" => shutdown /\ jobs = <<>>
    /\ listener = "returned" => \A w \in ServerThreads : serving[w].pc = "exit"

ServedInv == QueuesInv /\ PoolInv

-----------------------------------------------------------------------------
\* The values of the fields.
LEMMA Places ==
    /\ \A pc \in Turning : pc \in ThreadPlaces /\ pc \notin {"pool", "exit"}
    /\ \A pc \in {"loop", "wait", "head", "body", "handler", "reply", "content", "close"} : pc \in Turning
    /\ {"pool", "exit"} \subseteq ThreadPlaces
    /\ {0, 200, 400, 500} \subseteq Statuses /\ Posters \subseteq Owners /\ 0 \in Owners
    /\ {"head", "body"} \subseteq Parts
  BY DEF Turning, ThreadPlaces, Statuses, Owners, Parts

\* A turn in which a request has been read.
Reading(s, pc, of, closed) == [s EXCEPT !.pc = pc, !.of = of, !.closed = closed]
\* A turn that has an answer to a request, or to nobody's.
Replying(s, pc, status, content) == [s EXCEPT !.pc = pc, !.status = status, !.content = content]
Straying(s, pc, of, status, content) ==
    [s EXCEPT !.pc = pc, !.of = of, !.status = status, !.content = content]

\* A turn with some of its fields changed.
LEMMA TurnRead ==
    ASSUME NEW s \in Turns, NEW pc \in ThreadPlaces, NEW of \in Owners, NEW closed \in BOOLEAN
    PROVE  /\ Reading(s, pc, of, closed) \in Turns /\ Reading(s, pc, of, closed).conn = s.conn
           /\ Reading(s, pc, of, closed).pc = pc /\ Reading(s, pc, of, closed).of = of
  BY DEF Turns, Reading

\* A turn that has an answer.
LEMMA TurnReply ==
    ASSUME NEW s \in Turns, NEW pc \in ThreadPlaces, NEW status \in Statuses,
           NEW content \in BOOLEAN
    PROVE  LET u == Replying(s, pc, status, content)
           IN  /\ u \in Turns /\ u.conn = s.conn /\ u.pc = pc /\ u.of = s.of
               /\ u.status = status /\ u.content = content
  BY DEF Turns, Replying

\* A turn that answers nobody's request.
LEMMA TurnStray ==
    ASSUME NEW s \in Turns, NEW pc \in ThreadPlaces, NEW of \in Owners, NEW status \in Statuses,
           NEW content \in BOOLEAN
    PROVE  LET u == Straying(s, pc, of, status, content)
           IN  /\ u \in Turns /\ u.conn = s.conn /\ u.pc = pc /\ u.of = of
               /\ u.status = status /\ u.content = content
  BY DEF Turns, Straying

\* A thread that goes on.
LEMMA ServeEffect ==
    ASSUME serving \in [ServerThreads -> Turns], NEW w \in ServerThreads, NEW s \in Turns,
           Serve(w, s)
    PROVE  ServingStep(w) /\ serving'[w] = s
  BY DEF Serve, ServingStep

\* A connection that changes.
LEMMA WireEffect ==
    ASSUME wire \in Seq(Conns), NEW k \in Established, NEW n \in Conns,
           wire' = [wire EXCEPT ![k] = n]
    PROVE  WireStep(k) /\ wire'[k] = n
<1>1. wire' \in Seq(Conns) /\ Len(wire') = Len(wire)
    BY ExceptSeq DEF Established
<1> QED
    BY <1>1 DEF WireStep, Established

\* Nothing changes.
LEMMA WireStays ==
    ASSUME wire \in Seq(Conns), NEW k, UNCHANGED wire PROVE WireStep(k) /\ wire'[k] = wire[k]
  BY DEF WireStep

\* A thread that serves a connection.
LEMMA Serves ==
    ASSUME HttpTypeOK, ServedInv, NEW w \in ServerThreads, serving[w].pc \notin {"pool", "exit"}
    PROVE  /\ serving[w].conn \in Established /\ serving[w] \in Turns
           /\ wire[serving[w].conn] \in Conns /\ serving[w].conn # 0
<1>1. serving[w].conn # 0
    BY DEF ServedInv, QueuesInv
<1>2. serving[w].conn \in Established
    BY <1>1 DEF ServedInv, QueuesInv
<1> QED
    BY <1>1, <1>2, ElementOfSeq DEF HttpTypeOK, ServerTypeOK, Established

Turn(w) ==
    LET k == serving[w].conn IN
    /\ serving[w].pc \notin {"pool", "exit"}
    /\ WireStep(k) /\ ServingStep(w) /\ serving'[w].conn = k
    /\ serving'[w].pc \notin {"pool", "exit"}
    /\ Serving(wire[k], serving[w], wire'[k], serving'[w])
    /\ UNCHANGED jobs /\ ListenerStays

\* keep_alive() and the condition of the loop.
LEMMA WaitingTurn ==
    ASSUME HttpTypeOK, ServedInv, NEW w \in ServerThreads, KeepServing(w) \/ AwaitRequest(w)
    PROVE  Turn(w)
<1> DEFINE k == serving[w].conn
<1>1. serving[w].pc \in {"loop", "wait"} /\ UNCHANGED <<wire, jobs>> /\ ListenerStays
    BY DEF KeepServing, AwaitRequest, Stands
<1>2. k \in Established /\ serving[w] \in Turns /\ wire[k] \in Conns /\ k # 0
    BY <1>1, Serves
<1>3. PICK pc \in {"wait", "close", "head"} : Serve(w, [serving[w] EXCEPT !.pc = pc])
    BY DEF KeepServing, AwaitRequest
<1>4. [serving[w] EXCEPT !.pc = pc] \in Turns
    BY <1>2, Places DEF Turns
<1>5. ServingStep(w) /\ serving'[w] = [serving[w] EXCEPT !.pc = pc]
    BY <1>3, <1>4, ServeEffect DEF HttpTypeOK, ServerTypeOK
<1>6. serving'[w].pc = pc /\ serving'[w].conn = k
    BY <1>2, <1>5 DEF Turns
<1>7. WireStep(k) /\ wire'[k] = wire[k]
    BY <1>1, WireStays DEF HttpTypeOK
<1>8. Between(wire[k], serving[w], wire'[k], serving'[w])
    BY <1>1, <1>6, <1>7 DEF Between
<1> QED
    BY <1>1, <1>5, <1>6, <1>7, <1>8 DEF Turn, Serving

\* What is read from a sequence.
LEMMA TailReads ==
    ASSUME NEW n \in Conns, n.up # <<>>
    PROVE  [n EXCEPT !.up = Tail(@)] \in Conns /\ Reads(n, [n EXCEPT !.up = Tail(@)], 1)
           /\ Head(n.up) = n.up[1] /\ Len(n.up) > 0 /\ n.up[1] \in Segments
<1>1. n.up \in Seq(Segments) /\ Len(n.up) \in Nat /\ Len(n.up) # 0
    BY LenProperties, EmptySeq DEF Conns
<1>2. /\ Tail(n.up) \in Seq(Segments) /\ Len(Tail(n.up)) = Len(n.up) - 1
      /\ \A i \in 1..Len(Tail(n.up)) : Tail(n.up)[i] = n.up[i + 1]
      /\ Head(n.up) = n.up[1]
    BY <1>1, HeadTailProperties, EmptySeq
<1>3. [n EXCEPT !.up = Tail(@)] \in Conns
    BY <1>2 DEF Conns
<1>4. Reads(n, [n EXCEPT !.up = Tail(@)], 1)
    BY <1>1, <1>2 DEF Conns, Reads
<1>5. n.up[1] \in Segments
    BY <1>1, ElementOfSeq
<1> QED
    BY <1>1, <1>2, <1>3, <1>4, <1>5

\* A turn put together: what has happened to the connection and to the thread.
LEMMA TurnMade ==
    ASSUME HttpTypeOK, ServedInv, NEW w \in ServerThreads, serving[w].pc \notin {"pool", "exit"},
           NEW n \in Conns, wire' = [wire EXCEPT ![serving[w].conn] = n],
           NEW s \in Turns, Serve(w, s),
           s.conn = serving[w].conn, s.pc \notin {"pool", "exit"},
           Serving(wire[serving[w].conn], serving[w], n, s),
           UNCHANGED jobs, ListenerStays
    PROVE  Turn(w) /\ serving'[w] = s
<1>1. serving[w].conn \in Established
    BY Serves
<1>2. ServingStep(w) /\ serving'[w] = s
    BY ServeEffect DEF HttpTypeOK, ServerTypeOK
<1>3. WireStep(serving[w].conn) /\ wire'[serving[w].conn] = n
    BY <1>1, WireEffect DEF HttpTypeOK
<1> QED
    BY <1>2, <1>3 DEF Turn

\* process_request() reads the request line and the headers.
LEMMA ReadRequestHeadTurn ==
    ASSUME HttpTypeOK, ServedInv, NEW w \in ServerThreads, ReadRequestHead(w)
    PROVE  Turn(w)
<1> DEFINE k == serving[w].conn
           n == wire[k]
           seg == Head(n.up)
<1>1. serving[w].pc = "head" /\ UNCHANGED jobs /\ ListenerStays
    BY DEF ReadRequestHead, Stands
<1>2. k \in Established /\ serving[w] \in Turns /\ n \in Conns /\ k # 0
    BY <1>1, Serves
<1>3. CASE UNCHANGED wire /\ Serve(w, [serving[w] EXCEPT !.pc = "close"])
  <2> DEFINE s == [serving[w] EXCEPT !.pc = "close"]
  <2>1. s \in Turns /\ s.conn = k /\ s.pc = "close"
      BY <1>2, Places DEF Turns
  <2>2. wire' = [wire EXCEPT ![k] = n]
      BY <1>3, <1>2 DEF HttpTypeOK
  <2>3. Between(n, serving[w], n, s)
      BY <1>1, <2>1 DEF Between
  <2> HIDE DEF s
  <2>4. Serving(n, serving[w], n, s)
      BY <2>3 DEF Serving
  <2>5. Serve(w, s)
      BY <1>3 DEF s
  <2> QED
      BY <1>1, <1>2, <2>1, <2>2, <2>4, <2>5, TurnMade
<1>4. CASE /\ n.up # <<>> /\ seg.part = "head"
           /\ Serve(w, [serving[w] EXCEPT !.pc = IF seg.more THEN "body" ELSE "handler",
                         !.of = seg.of, !.closed = seg.close])
           /\ wire' = [wire EXCEPT ![k].up = Tail(@)]
  <2> DEFINE n2 == [n EXCEPT !.up = Tail(@)]
             s == [serving[w] EXCEPT !.pc = IF seg.more THEN "body" ELSE "handler",
                         !.of = seg.of, !.closed = seg.close]
  <2>1. n2 \in Conns /\ Reads(n, n2, 1) /\ seg = n.up[1] /\ seg \in Segments
      BY <1>2, <1>4, TailReads
  <2>2. seg.of \in Posters /\ seg.close \in BOOLEAN /\ seg.more \in BOOLEAN
      BY <2>1, Places DEF Segments
  <2> DEFINE pc == IF seg.more THEN "body" ELSE "handler"
             of == seg.of
             closed == seg.close
  <2>9. pc \in ThreadPlaces /\ of \in Owners /\ closed \in BOOLEAN
      BY <2>2, Places
  <2>0. s = Reading(serving[w], pc, of, closed)
      BY DEF Reading
  <2> HIDE DEF pc, of, closed, s
  <2>10. s \in Turns /\ s.conn = k /\ s.pc = pc /\ s.of = of
      BY <1>2, <2>0, <2>9, TurnRead
  <2>3. s \in Turns /\ s.conn = k /\ s.pc = (IF seg.more THEN "body" ELSE "handler")
        /\ s.of = seg.of
      BY <2>10 DEF pc, of
  <2> USE DEF s
  <2>4. wire' = [wire EXCEPT ![k] = n2]
      BY <1>4
  <2>5. Serve(w, s)
      BY <1>4
  <2> HIDE DEF n2, s
  <2>6. ReadsHead(n, serving[w], n2, s)
      BY <1>1, <1>4, <2>1, <2>3 DEF ReadsHead
  <2>7. Serving(n, serving[w], n2, s)
      BY <2>6 DEF Serving
  <2>8. s.pc \notin {"pool", "exit"}
      BY <2>3
  <2> QED
      BY <1>1, <2>1, <2>3, <2>4, <2>5, <2>7, <2>8, TurnMade
<1> QED
    BY <1>3, <1>4 DEF ReadRequestHead

\* What is read ahead and lost.
LEMMA StrayReads ==
    ASSUME NEW n \in Conns, NEW m \in 0..Len(n.up)
    PROVE  /\ [n EXCEPT !.up = SubSeq(@, m + 1, Len(@))] \in Conns
           /\ Reads(n, [n EXCEPT !.up = SubSeq(@, m + 1, Len(@))], m)
<1>1. n.up \in Seq(Segments) /\ Len(n.up) \in Nat /\ m \in Nat /\ m <= Len(n.up)
    BY LenProperties DEF Conns
<1> DEFINE rest == SubSeq(n.up, m + 1, Len(n.up))
<1>2. \A i \in m + 1..Len(n.up) : n.up[i] \in Segments
    BY <1>1, ElementOfSeq
<1>3. /\ rest \in Seq(Segments)
      /\ Len(rest) = (IF m + 1 <= Len(n.up) THEN Len(n.up) - (m + 1) + 1 ELSE 0)
      /\ \A i \in 1..Len(n.up) - (m + 1) + 1 : rest[i] = n.up[m + 1 + i - 1]
    BY <1>1, <1>2, SubSeqProperties
<1>4. Len(rest) = Len(n.up) - m
    BY <1>1, <1>3
<1>5. \A i \in 1..Len(rest) : rest[i] = n.up[i + m]
    BY <1>1, <1>3, <1>4
<1>6. [n EXCEPT !.up = rest] \in Conns
    BY <1>3 DEF Conns
<1> QED
    BY <1>4, <1>5, <1>6 DEF Conns, Reads

\* A line that does not parse.
LEMMA ReadStrayTurn ==
    ASSUME HttpTypeOK, ServedInv, NEW w \in ServerThreads, ReadStray(w)
    PROVE  Turn(w)
<1> DEFINE k == serving[w].conn
           n == wire[k]
<1>1. serving[w].pc = "head" /\ n.late /\ UNCHANGED jobs /\ ListenerStays
    BY DEF ReadStray, Stands
<1>2. k \in Established /\ serving[w] \in Turns /\ n \in Conns /\ k # 0
    BY <1>1, Serves
<1>3. PICK m \in 0..Len(n.up) : wire' = [wire EXCEPT ![k].up = SubSeq(@, m + 1, Len(@))]
    BY DEF ReadStray
<1>4. PICK pc \in {"reply", "close"} :
         Serve(w, [serving[w] EXCEPT !.pc = pc, !.of = 0, !.status = 400, !.content = FALSE])
    BY DEF ReadStray
<1> DEFINE n2 == [n EXCEPT !.up = SubSeq(@, m + 1, Len(@))]
           s == [serving[w] EXCEPT !.pc = pc, !.of = 0, !.status = 400, !.content = FALSE]
           of == 0
           status == 400
           content == FALSE
<1>5. n2 \in Conns /\ Reads(n, n2, m)
    BY <1>2, StrayReads
<1>10. pc \in ThreadPlaces /\ of \in Owners /\ status \in Statuses /\ content \in BOOLEAN
    BY Places
<1>0. s = Straying(serving[w], pc, of, status, content)
    BY DEF Straying
<1> HIDE DEF s, of, status, content
<1>11. /\ s \in Turns /\ s.conn = k /\ s.pc = pc /\ s.of = of
       /\ s.status = status /\ s.content = content
    BY <1>0, <1>2, <1>10, TurnStray
<1>6. s \in Turns /\ s.conn = k /\ s.pc = pc /\ s.of = 0 /\ s.status = 400 /\ s.content = FALSE
    BY <1>11 DEF of, status, content
<1> USE DEF s
<1>7. wire' = [wire EXCEPT ![k] = n2] /\ Serve(w, s)
    BY <1>3, <1>4
<1> HIDE DEF n2, s
<1>8. ReadsStray(n, serving[w], n2, s)
    BY <1>1, <1>5, <1>6 DEF ReadsStray
<1>9. Serving(n, serving[w], n2, s) /\ s.pc \notin {"pool", "exit"}
    BY <1>6, <1>8 DEF Serving
<1> QED
    BY <1>1, <1>5, <1>6, <1>7, <1>9, TurnMade

\* read_content()
LEMMA ReadRequestBodyTurn ==
    ASSUME HttpTypeOK, ServedInv, NEW w \in ServerThreads, ReadRequestBody(w)
    PROVE  Turn(w)
<1> DEFINE k == serving[w].conn
           n == wire[k]
<1>1. serving[w].pc = "body" /\ UNCHANGED jobs /\ ListenerStays
    BY DEF ReadRequestBody, Stands
<1>2. k \in Established /\ serving[w] \in Turns /\ n \in Conns /\ k # 0
    BY <1>1, Serves
<1>3. CASE n.up # <<>> /\ Serve(w, [serving[w] EXCEPT !.pc = "handler"])
           /\ wire' = [wire EXCEPT ![k].up = Tail(@)]
  <2> DEFINE n2 == [n EXCEPT !.up = Tail(@)]
             s == [serving[w] EXCEPT !.pc = "handler"]
  <2>1. n2 \in Conns /\ Reads(n, n2, 1)
      BY <1>2, <1>3, TailReads
  <2>2. s \in Turns /\ s.conn = k /\ s.pc = "handler" /\ s.of = serving[w].of
      BY <1>2, Places DEF Turns
  <2>3. wire' = [wire EXCEPT ![k] = n2] /\ Serve(w, s)
      BY <1>3
  <2> HIDE DEF n2, s
  <2>4. ReadsBody(n, serving[w], n2, s)
      BY <1>1, <2>1, <2>2 DEF ReadsBody
  <2>5. Serving(n, serving[w], n2, s) /\ s.pc \notin {"pool", "exit"}
      BY <2>2, <2>4 DEF Serving
  <2> QED
      BY <1>1, <2>1, <2>2, <2>3, <2>5, TurnMade
<1>4. CASE /\ n.up = <<>>
           /\ Serve(w, [serving[w] EXCEPT !.pc = "reply", !.status = 400, !.content = FALSE])
           /\ wire' = [wire EXCEPT ![k].late = TRUE]
  <2> DEFINE n2 == [n EXCEPT !.late = TRUE]
             s == [serving[w] EXCEPT !.pc = "reply", !.status = 400, !.content = FALSE]
  <2>1. n2 \in Conns /\ n2.up = n.up /\ n2.down = n.down /\ n2.cs = n.cs /\ n2.ss = n.ss
        /\ n2.late = TRUE
      BY <1>2 DEF Conns
  <2> DEFINE status == 400
             content == FALSE
  <2>9. "reply" \in ThreadPlaces /\ status \in Statuses /\ content \in BOOLEAN
      BY Places
  <2>0. s = Replying(serving[w], "reply", status, content)
      BY DEF Replying
  <2> HIDE DEF s, status, content
  <2>8. /\ s \in Turns /\ s.conn = k /\ s.pc = "reply" /\ s.of = serving[w].of
        /\ s.status = status /\ s.content = content
      BY <1>2, <2>0, <2>9, TurnReply
  <2>2. /\ s \in Turns /\ s.conn = k /\ s.pc = "reply" /\ s.of = serving[w].of /\ s.status = 400
        /\ s.content = FALSE
      BY <2>8 DEF status, content
  <2> USE DEF s
  <2>3. wire' = [wire EXCEPT ![k] = n2] /\ Serve(w, s)
      BY <1>4
  <2> HIDE DEF n2, s
  <2>4. GivesUp(n, serving[w], n2, s)
      BY <1>1, <1>4, <2>1, <2>2 DEF GivesUp
  <2>5. Serving(n, serving[w], n2, s) /\ s.pc \notin {"pool", "exit"}
      BY <2>2, <2>4 DEF Serving
  <2> QED
      BY <1>1, <2>1, <2>2, <2>3, <2>5, TurnMade
<1> QED
    BY <1>3, <1>4 DEF ReadRequestBody

\* routing() calls the handler.
LEMMA CallHandlerTurn ==
    ASSUME HttpTypeOK, ServedInv, NEW w \in ServerThreads, CallHandler(w)
    PROVE  Turn(w)
<1> DEFINE k == serving[w].conn
           n == wire[k]
<1>1. serving[w].pc = "handler" /\ UNCHANGED <<wire, jobs>> /\ ListenerStays
    BY DEF CallHandler, Stands
<1>2. k \in Established /\ serving[w] \in Turns /\ n \in Conns /\ k # 0
    BY <1>1, Serves
<1>3. PICK status \in {200, 500}, content \in BOOLEAN :
         Serve(w, [serving[w] EXCEPT !.pc = "reply", !.status = status, !.content = content])
    BY DEF CallHandler
<1> DEFINE s == [serving[w] EXCEPT !.pc = "reply", !.status = status, !.content = content]
<1>0. s = Replying(serving[w], "reply", status, content)
    BY DEF Replying
<1> HIDE DEF s
<1>10. "reply" \in ThreadPlaces /\ status \in Statuses
    BY Places
<1>4. s \in Turns /\ s.conn = k /\ s.pc = "reply" /\ s.of = serving[w].of /\ s.status = status
    BY <1>0, <1>2, <1>10, TurnReply
<1> USE DEF s
<1>5. wire' = [wire EXCEPT ![k] = n] /\ Serve(w, s)
    BY <1>1, <1>3 DEF HttpTypeOK
<1> HIDE DEF s
<1>6. Handles(n, serving[w], n, s)
    BY <1>1, <1>4 DEF Handles
<1>7. Serving(n, serving[w], n, s) /\ s.pc \notin {"pool", "exit"}
    BY <1>4, <1>6 DEF Serving
<1> QED
    BY <1>1, <1>2, <1>4, <1>5, <1>7, TurnMade

\* What an answer says.
AnswerMade(s, a) ==
    a \in Replies /\ a.of = s.of /\ a.status = s.status /\ a.more = s.content

\* The answer to a request is a reply.
LEMMA AnswerTyped ==
    ASSUME HttpTypeOK, NEW w \in ServerThreads, NEW part \in Parts
    PROVE  AnswerMade(serving[w], Answer(w, part))
<1>1. serving[w] \in Turns
    BY DEF HttpTypeOK, ServerTypeOK
<1>2. serving[w].of \in Owners /\ serving[w].status \in Statuses /\ serving[w].content \in BOOLEAN
    BY <1>1 DEF Turns
<1> QED
    BY <1>2 DEF AnswerMade, Answer, Replies

\* What is sent to a client that is there reaches it.
LEMMA SendsAnswer ==
    ASSUME HttpTypeOK, NEW k \in Established, NEW a \in Replies,
           wire' = IF ServerAlive(k) THEN ServerSends(k, a) ELSE wire
    PROVE  \E n2 \in Conns : Sends(wire[k], n2, a) /\ wire' = [wire EXCEPT ![k] = n2]
<1> DEFINE n == wire[k]
           n2 == [n EXCEPT !.down = Append(@, a)]
<1>1. n \in Conns
    BY ElementOfSeq DEF HttpTypeOK, Established
<1>2. CASE n.cs = "open"
  <2>1. wire' = [wire EXCEPT ![k] = n2]
      BY <1>2 DEF ServerAlive, ServerReadable, ServerSends
  <2>2. Append(n.down, a) \in Seq(Replies)
      BY <1>1, AppendProperties DEF Conns
  <2>3. n2 \in Conns /\ Sends(n, n2, a)
      BY <1>1, <1>2, <2>2 DEF Conns, Sends
  <2> QED
      BY <2>1, <2>3
<1>3. CASE n.cs # "open"
  <2>3. [n EXCEPT !.down = n.down] = n
      BY <1>1 DEF Conns
  <2>4. wire = [wire EXCEPT ![k] = n]
      BY DEF HttpTypeOK
  <2>5. wire' = wire \/ wire' = [wire EXCEPT ![k] = [n EXCEPT !.down = n.down]]
      BY <1>3 DEF ServerAlive, ServerReadable, ServerSends
  <2>1. wire' = [wire EXCEPT ![k] = n]
      BY <2>3, <2>4, <2>5
  <2>2. Sends(n, n, a)
      BY <1>3 DEF Sends
  <2> QED
      BY <1>1, <2>1, <2>2
<1> QED
    BY <1>2, <1>3

\* A thread that begins a turn.
Beginning(pc, conn, count) == [Unoccupied EXCEPT !.pc = pc, !.conn = conn, !.count = count]

\* A thread that serves no connection.
LEMMA NoTurn == Unoccupied \in Turns /\ Unoccupied.conn = 0 /\ Unoccupied.pc = "pool"
<1> DEFINE of == 0
           status == 0
           content == FALSE
           closed == FALSE
           idle == "pool"
           none == 0
<1>1. /\ of \in Owners /\ status \in Statuses /\ content \in BOOLEAN /\ closed \in BOOLEAN
      /\ idle \in ThreadPlaces /\ none \in Nat /\ none \in Int
    BY Places
<1>2. Unoccupied = [pc |-> idle, conn |-> none, count |-> none, of |-> of, closed |-> closed,
                    status |-> status, content |-> content]
    BY DEF Unoccupied
<1> HIDE DEF of, status, content, closed, idle, none
<1>3. Unoccupied \in Turns
    BY <1>1, <1>2 DEF Turns
<1> QED
    BY <1>3 DEF Unoccupied

\* A turn that begins has no request.
LEMMA TurnBegins ==
    ASSUME NEW pc \in ThreadPlaces, NEW conn \in Nat, NEW count \in Int
    PROVE  /\ Beginning(pc, conn, count) \in Turns /\ Beginning(pc, conn, count).conn = conn
           /\ Beginning(pc, conn, count).pc = pc
<1>1. Unoccupied \in Turns
    BY NoTurn
<1> QED
    BY <1>1 DEF Turns, Beginning

\* The end of a turn.
LEMMA TurnEnds ==
    ASSUME HttpTypeOK, NEW w \in ServerThreads, NEW ret \in BOOLEAN
    PROVE  /\ EndOfTurn(w, ret) \in Turns /\ EndOfTurn(w, ret).conn = serving[w].conn
           /\ EndOfTurn(w, ret).pc \in {"loop", "close"}
<1>1. serving[w] \in Turns
    BY DEF HttpTypeOK, ServerTypeOK
<1>2. serving[w].conn \in Nat /\ serving[w].count \in Int
    BY <1>1 DEF Turns
<1> DEFINE pc == IF ~ret \/ serving[w].closed THEN "close" ELSE "loop"
           conn == serving[w].conn
           count == serving[w].count - 1
<1>3. pc \in ThreadPlaces /\ conn \in Nat /\ count \in Int
    BY <1>2, Places
<1>4. EndOfTurn(w, ret) = Beginning(pc, conn, count)
    BY DEF EndOfTurn, Beginning
<1> HIDE DEF pc, conn, count
<1>5. EndOfTurn(w, ret) \in Turns /\ EndOfTurn(w, ret).conn = conn /\ EndOfTurn(w, ret).pc = pc
    BY <1>3, <1>4, TurnBegins
<1> QED
    BY <1>5 DEF pc, conn

\* write_response_core(), the head.
LEMMA WriteHeadTurn ==
    ASSUME HttpTypeOK, ServedInv, NEW w \in ServerThreads, WriteHead(w)
    PROVE  Turn(w)
<1> DEFINE k == serving[w].conn
           n == wire[k]
           a == Answer(w, "head")
<1>1. serving[w].pc = "reply" /\ UNCHANGED jobs /\ ListenerStays
    BY DEF WriteHead, Stands
<1>2. k \in Established /\ serving[w] \in Turns /\ n \in Conns /\ k # 0
    BY <1>1, Serves
<1>3. AnswerMade(serving[w], a)
    BY AnswerTyped DEF Parts
<1>4. wire' = IF ServerAlive(k) THEN ServerSends(k, a) ELSE wire
    BY DEF WriteHead
<1> HIDE DEF a
<1>5. PICK n2 \in Conns : Sends(n, n2, a) /\ wire' = [wire EXCEPT ![k] = n2]
    BY <1>2, <1>3, <1>4, SendsAnswer DEF AnswerMade
<1>6. CASE serving[w].content
  <2> DEFINE s == [serving[w] EXCEPT !.pc = "content"]
  <2>1. /\ s \in Turns /\ s.conn = k /\ s.pc = "content" /\ s.of = serving[w].of
        /\ s.status = serving[w].status
      BY <1>2, Places DEF Turns
  <2>2. Serve(w, s)
      BY <1>6 DEF WriteHead
  <2> HIDE DEF s
  <2>3. WritesHead(n, serving[w], n2, s)
      BY <1>1, <1>3, <1>5, <1>6, <2>1 DEF WritesHead, AnswerMade
  <2>4. Serving(n, serving[w], n2, s) /\ s.pc \notin {"pool", "exit"}
      BY <2>1, <2>3 DEF Serving
  <2> QED
      BY <1>1, <1>5, <2>1, <2>2, <2>4, TurnMade
<1>7. CASE ~serving[w].content
  <2> DEFINE s == EndOfTurn(w, TRUE)
  <2>1. s \in Turns /\ s.conn = k /\ s.pc \in {"loop", "close"}
      BY TurnEnds
  <2>2. Serve(w, s)
      BY <1>7 DEF WriteHead
  <2> HIDE DEF s
  <2>3. WritesHead(n, serving[w], n2, s)
      BY <1>1, <1>3, <1>5, <1>7, <2>1 DEF WritesHead, AnswerMade
  <2>4. Serving(n, serving[w], n2, s) /\ s.pc \notin {"pool", "exit"}
      BY <2>1, <2>3 DEF Serving
  <2> QED
      BY <1>1, <1>5, <2>1, <2>2, <2>4, TurnMade
<1> QED
    BY <1>6, <1>7

\* write_response_core(), the body.
LEMMA WriteContentTurn ==
    ASSUME HttpTypeOK, ServedInv, NEW w \in ServerThreads, WriteContent(w)
    PROVE  Turn(w)
<1> DEFINE k == serving[w].conn
           n == wire[k]
           a == Answer(w, "body")
           ret == ServerAlive(k)
           s == EndOfTurn(w, ret)
<1>1. serving[w].pc = "content" /\ UNCHANGED jobs /\ ListenerStays
    BY DEF WriteContent, Stands
<1>2. k \in Established /\ serving[w] \in Turns /\ n \in Conns /\ k # 0
    BY <1>1, Serves
<1>3. AnswerMade(serving[w], a)
    BY AnswerTyped DEF Parts
<1>4. wire' = (IF ServerAlive(k) THEN ServerSends(k, a) ELSE wire) /\ Serve(w, s)
    BY DEF WriteContent
<1>5. ret \in BOOLEAN
    BY DEF ServerAlive
<1> HIDE DEF a, ret
<1>6. PICK n2 \in Conns : Sends(n, n2, a) /\ wire' = [wire EXCEPT ![k] = n2]
    BY <1>2, <1>3, <1>4, SendsAnswer DEF AnswerMade
<1>7. s \in Turns /\ s.conn = k /\ s.pc \in {"loop", "close"}
    BY <1>5, TurnEnds
<1> HIDE DEF s
<1>8. WritesBody(n, serving[w], n2, s)
    BY <1>1, <1>3, <1>6, <1>7 DEF WritesBody, AnswerMade
<1>9. Serving(n, serving[w], n2, s) /\ s.pc \notin {"pool", "exit"}
    BY <1>7, <1>8 DEF Serving
<1> QED
    BY <1>1, <1>4, <1>6, <1>7, <1>9, TurnMade

\* Nothing of the connections is new or gone.
SameConns == wire' \in Seq(Conns) /\ Len(wire') = Len(wire)

\* A connection of the listening socket that is closed.
Reset(n, n2) ==
    /\ n2.cs = n.cs /\ n2.late = n.late /\ n2.down = n.down
    /\ n.ss = "backlog" => n2.ss = "closed" /\ n2.up = <<>>
    /\ n.ss # "backlog" => n2.ss = n.ss /\ n2.up = n.up

\* stop() and a failed accept() close the connections nobody has accepted.
LEMMA ResetEffect ==
    ASSUME wire \in Seq(Conns), wire' = ResetBacklog(wire)
    PROVE  SameConns /\ \A k \in Established : Reset(wire[k], wire'[k])
<1> DEFINE reset(n) == IF n.ss = "backlog" THEN [n EXCEPT !.ss = "closed", !.up = <<>>] ELSE n
<1>1. \A n \in Conns : reset(n) \in Conns /\ Reset(n, reset(n))
  <2> SUFFICES ASSUME NEW n \in Conns PROVE reset(n) \in Conns /\ Reset(n, reset(n))
      OBVIOUS
  <2>1. <<>> \in Seq(Segments) /\ "closed" \in ServerEnds
      BY EmptySeq DEF ServerEnds
  <2>2. CASE n.ss = "backlog"
    <3> DEFINE n2 == [n EXCEPT !.ss = "closed", !.up = <<>>]
    <3>1. n2 \in Conns
        BY <2>1 DEF Conns
    <3>2. Reset(n, n2)
        BY <2>1, <2>2 DEF Conns, Reset
    <3> QED
        BY <3>1, <3>2, <2>2
  <2>3. CASE n.ss # "backlog"
      BY <2>3 DEF Reset
  <2> QED
      BY <2>2, <2>3
<1>2. Len(wire) \in Nat /\ DOMAIN wire = 1..Len(wire) /\ \A k \in 1..Len(wire) : wire[k] \in Conns
    BY LenProperties, ElementOfSeq
<1>3. wire' = [k \in 1..Len(wire) |-> reset(wire[k])]
    BY <1>2 DEF ResetBacklog
<1> HIDE DEF reset
<1>4. wire' \in Seq(Conns) /\ Len(wire') = Len(wire)
    BY <1>1, <1>2, <1>3, IsASeq, LenProperties
<1>5. \A k \in 1..Len(wire) : wire'[k] = reset(wire[k])
    BY <1>3
<1> QED
    BY <1>1, <1>2, <1>4, <1>5 DEF SameConns, Established

\* process_and_close_socket()
LEMMA CloseEffect ==
    ASSUME HttpTypeOK, ServedInv, NEW w \in ServerThreads, CloseConnection(w)
    PROVE  LET k == serving[w].conn IN
           /\ WireStep(k) /\ ServingStep(w) /\ serving'[w].conn = 0 /\ serving'[w].pc = "pool"
           /\ k \in Established /\ k # 0 /\ Closes(wire[k], serving[w], wire'[k], serving'[w])
           /\ UNCHANGED <<jobs, handled>> /\ ListenerStays
<1> DEFINE k == serving[w].conn
           n == wire[k]
<1>1. serving[w].pc = "close" /\ Serve(w, Unoccupied) /\ UNCHANGED <<jobs, handled>> /\ ListenerStays
    BY DEF CloseConnection, Stands
<1>2. k \in Established /\ serving[w] \in Turns /\ n \in Conns /\ k # 0
    BY <1>1, Serves
<1>3. PICK kept \in BOOLEAN : wire' = ServerCloses(k, kept)
    BY DEF CloseConnection
<1> DEFINE down == IF n.cs = "closed" \/ (n.up # <<>> /\ ~kept) THEN <<>> ELSE n.down
           n2 == [n EXCEPT !.ss = "closed", !.up = <<>>, !.down = down]
<1>4. wire' = [wire EXCEPT ![k] = n2]
    BY <1>3 DEF ServerCloses
<1>5. <<>> \in Seq(Segments) /\ <<>> \in Seq(Replies) /\ "closed" \in ServerEnds
    BY EmptySeq DEF ServerEnds
<1>6. down \in Seq(Replies) /\ down \in {n.down, <<>>}
    BY <1>2, <1>5 DEF Conns
<1> HIDE DEF down
<1>7. /\ n2 \in Conns /\ n2.ss = "closed" /\ n2.up = <<>> /\ n2.down = down
      /\ n2.cs = n.cs /\ n2.late = n.late
    BY <1>2, <1>5, <1>6 DEF Conns
<1> HIDE DEF n2
<1>8. WireStep(k) /\ wire'[k] = n2
    BY <1>2, <1>4, <1>7, WireEffect DEF HttpTypeOK
<1>9. Unoccupied \in Turns /\ Unoccupied.conn = 0 /\ Unoccupied.pc = "pool"
    BY NoTurn
<1>10. ServingStep(w) /\ serving'[w] = Unoccupied
    BY <1>1, <1>9, ServeEffect DEF HttpTypeOK, ServerTypeOK
<1>11. Closes(n, serving[w], wire'[k], serving'[w])
    BY <1>1, <1>6, <1>7, <1>8, <1>9, <1>10 DEF Closes
<1> QED
    BY <1>1, <1>2, <1>8, <1>9, <1>10, <1>11

\* worker::operator() takes the connection that has waited longest.
LEMMA TakeJobEffect ==
    ASSUME HttpTypeOK, ServedInv, NEW w \in ServerThreads, TakeJob(w)
    PROVE  /\ ServingStep(w) /\ serving[w].pc = "pool"
           /\ serving'[w].conn = jobs[1] /\ serving'[w].pc = "loop"
           /\ jobs' \in Seq(Nat) /\ Len(jobs) \in Nat \ {0} /\ Len(jobs') = Len(jobs) - 1
           /\ \A i \in 1..Len(jobs') : jobs'[i] = jobs[i + 1] /\ i + 1 \in 1..Len(jobs)
           /\ \A i \in 1..Len(jobs) : i # 1 => i - 1 \in 1..Len(jobs') /\ jobs'[i - 1] = jobs[i]
           /\ UNCHANGED <<wire, handled>> /\ ListenerStays
<1>1. /\ serving[w].pc = "pool" /\ jobs # <<>> /\ jobs' = Tail(jobs)
      /\ UNCHANGED <<wire, handled>> /\ ListenerStays
    BY DEF TakeJob, Stands
<1>2. jobs \in Seq(Nat) /\ Len(jobs) \in Nat \ {0}
    BY <1>1, LenProperties, EmptySeq DEF HttpTypeOK, ServerTypeOK
<1>3. /\ Head(jobs) = jobs[1] /\ jobs' \in Seq(Nat) /\ Len(jobs') = Len(jobs) - 1
      /\ \A i \in 1..Len(jobs') : jobs'[i] = jobs[i + 1]
    BY <1>1, <1>2, HeadTailProperties
<1>4. jobs[1] \in Nat
    BY <1>2, ElementOfSeq
<1> DEFINE pc == "loop"
           conn == Head(jobs)
           count == KeepAliveMax
<1>5. pc \in ThreadPlaces /\ conn \in Nat /\ count \in Int
    BY <1>3, <1>4, Places, PoolAssumption
<1>6. Serve(w, Beginning(pc, conn, count))
    BY DEF TakeJob, Beginning
<1> HIDE DEF pc, conn, count
<1>7. /\ Beginning(pc, conn, count) \in Turns /\ Beginning(pc, conn, count).conn = conn
      /\ Beginning(pc, conn, count).pc = pc
    BY <1>5, TurnBegins
<1>8. ServingStep(w) /\ serving'[w] = Beginning(pc, conn, count)
    BY <1>6, <1>7, ServeEffect DEF HttpTypeOK, ServerTypeOK
<1>9. serving'[w].conn = jobs[1] /\ serving'[w].pc = "loop"
    BY <1>3, <1>7, <1>8 DEF pc, conn
<1>10. \A i \in 1..Len(jobs') : i + 1 \in 1..Len(jobs)
    BY <1>2, <1>3
<1>11. \A i \in 1..Len(jobs) : i # 1 => i - 1 \in 1..Len(jobs') /\ jobs'[i - 1] = jobs[(i - 1) + 1]
    BY <1>2, <1>3
<1>12. \A i \in 1..Len(jobs) : i # 1 => i - 1 \in 1..Len(jobs') /\ jobs'[i - 1] = jobs[i]
    BY <1>2, <1>11
<1> QED
    BY <1>1, <1>2, <1>3, <1>8, <1>9, <1>10, <1>12

\* A thread leaves the pool.
LEMMA LeavePoolEffect ==
    ASSUME HttpTypeOK, NEW w \in ServerThreads, LeavePool(w)
    PROVE  /\ ServingStep(w) /\ serving[w].pc = "pool"
           /\ serving'[w].conn = 0 /\ serving'[w].pc = "exit" /\ shutdown /\ jobs = <<>>
           /\ UNCHANGED <<wire, jobs, handled>> /\ ListenerStays
<1>1. /\ serving[w].pc = "pool" /\ shutdown /\ jobs = <<>>
      /\ UNCHANGED <<wire, jobs, handled>> /\ ListenerStays
    BY DEF LeavePool, Stands
<1> DEFINE pc == "exit"
           s == [Unoccupied EXCEPT !.pc = pc]
<1>2. pc \in ThreadPlaces /\ Unoccupied \in Turns /\ Unoccupied.conn = 0
    BY Places, NoTurn
<1>3. Serve(w, s)
    BY DEF LeavePool
<1> HIDE DEF pc
<1>4. s \in Turns /\ s.conn = 0 /\ s.pc = pc
    BY <1>2 DEF Turns
<1> HIDE DEF s
<1>5. ServingStep(w) /\ serving'[w] = s
    BY <1>3, <1>4, ServeEffect DEF HttpTypeOK, ServerTypeOK
<1> QED
    BY <1>1, <1>4, <1>5 DEF pc

\* accept() takes a connection of the backlog, and listen() queues it.
LEMMA AcceptEffect ==
    ASSUME HttpTypeOK, Accept
    PROVE  /\ \E k \in Established :
                /\ wire[k].ss = "backlog" /\ WireStep(k) /\ wire'[k].ss = "open"
                /\ wire'[k].up = wire[k].up /\ wire'[k].down = wire[k].down
                /\ wire'[k].cs = wire[k].cs /\ wire'[k].late = wire[k].late
                /\ jobs' \in Seq(Nat) /\ Len(jobs) \in Nat /\ Len(jobs') = Len(jobs) + 1
                /\ \A i \in 1..Len(jobs) : jobs'[i] = jobs[i]
                /\ jobs'[Len(jobs) + 1] = k
                /\ \A i \in 1..Len(jobs') : i # Len(jobs) + 1 => i \in 1..Len(jobs)
           /\ UNCHANGED <<svrSock, listening, isRunning, listener, shutdown, serving, handled>>
           /\ listener = "accept"
<1>1. PICK k \in Backlog : wire' = [wire EXCEPT ![k].ss = "open"] /\ jobs' = Append(jobs, k)
    BY DEF Accept
<1>2. k \in Established /\ wire[k].ss = "backlog" /\ k \in Nat
    BY DEF Backlog, Established
<1> DEFINE n == wire[k]
           n2 == [n EXCEPT !.ss = "open"]
<1>3. n \in Conns
    BY <1>2, ElementOfSeq DEF HttpTypeOK, Established
<1>4. /\ n2 \in Conns /\ n2.ss = "open" /\ n2.up = n.up /\ n2.down = n.down /\ n2.cs = n.cs
      /\ n2.late = n.late
    BY <1>3 DEF Conns, ServerEnds
<1>5. wire' = [wire EXCEPT ![k] = n2]
    BY <1>1
<1> HIDE DEF n2
<1>6. WireStep(k) /\ wire'[k] = n2
    BY <1>2, <1>4, <1>5, WireEffect DEF HttpTypeOK
<1>7. jobs \in Seq(Nat) /\ Len(jobs) \in Nat
    BY LenProperties DEF HttpTypeOK, ServerTypeOK
<1>8. /\ jobs' \in Seq(Nat) /\ Len(jobs') = Len(jobs) + 1
      /\ \A i \in 1..Len(jobs) : jobs'[i] = jobs[i]
      /\ jobs'[Len(jobs) + 1] = k
    BY <1>1, <1>2, <1>7, AppendProperties
<1>9. \A i \in 1..Len(jobs') : i # Len(jobs) + 1 => i \in 1..Len(jobs)
    BY <1>7, <1>8
<1>10. /\ UNCHANGED <<svrSock, listening, isRunning, listener, shutdown, serving, handled>>
       /\ listener = "accept"
    BY DEF Accept
<1> QED
    BY <1>2, <1>4, <1>6, <1>7, <1>8, <1>9, <1>10

\* Whoever serves a connection leaves the ends alone.
EndsKept(n, n2) == n2.cs = n.cs /\ n2.ss = n.ss /\ (n.late => n2.late)

\* A turn keeps the ends of the connection.
LEMMA ServingKeepsEnds ==
    ASSUME NEW n, NEW s, NEW n2, NEW s2, Serving(n, s, n2, s2) PROVE EndsKept(n, n2)
<1>1. CASE Between(n, s, n2, s2)
    BY <1>1 DEF Between, EndsKept
<1>2. CASE ReadsHead(n, s, n2, s2)
    BY <1>2 DEF ReadsHead, Reads, EndsKept
<1>3. CASE ReadsStray(n, s, n2, s2)
    BY <1>3 DEF ReadsStray, Reads, EndsKept
<1>4. CASE ReadsBody(n, s, n2, s2)
    BY <1>4 DEF ReadsBody, Reads, EndsKept
<1>5. CASE GivesUp(n, s, n2, s2)
    BY <1>5 DEF GivesUp, EndsKept
<1>6. CASE Handles(n, s, n2, s2)
    BY <1>6 DEF Handles, EndsKept
<1>7. CASE WritesHead(n, s, n2, s2)
    BY <1>7 DEF WritesHead, Sends, EndsKept
<1>8. CASE WritesBody(n, s, n2, s2)
    BY <1>8 DEF WritesBody, Sends, EndsKept
<1> QED
    BY <1>1, <1>2, <1>3, <1>4, <1>5, <1>6, <1>7, <1>8 DEF Serving

\* The turns are typed, and nobody loses a connection by them.
LEMMA TurnServed ==
    ASSUME HttpTypeOK, ServedInv, NEW w \in ServerThreads, Turn(w)
    PROVE  wire' \in Seq(Conns) /\ ServerTypeOK' /\ ServedInv'
<1> DEFINE k == serving[w].conn
<1>1. /\ serving[w].pc \notin {"pool", "exit"} /\ WireStep(k) /\ ServingStep(w)
      /\ serving'[w].conn = k /\ serving'[w].pc \notin {"pool", "exit"}
      /\ Serving(wire[k], serving[w], wire'[k], serving'[w])
      /\ UNCHANGED jobs /\ ListenerStays
    BY DEF Turn
<1>2. EndsKept(wire[k], wire'[k])
    BY <1>1, ServingKeepsEnds
<1>3. Established' = Established /\ \A j \in Established : wire'[j].ss = wire[j].ss
    BY <1>1, <1>2 DEF WireStep, EndsKept, Established
<1>4. \A v \in ServerThreads :
         serving'[v].conn = serving[v].conn
         /\ (serving'[v].pc \in {"pool", "exit"} <=> serving[v].pc \in {"pool", "exit"})
         /\ (serving'[v].pc = "exit" <=> serving[v].pc = "exit")
    BY <1>1 DEF ServingStep
<1>5. wire' \in Seq(Conns) /\ ServerTypeOK'
    BY <1>1 DEF WireStep, ServingStep, ListenerStays, HttpTypeOK, ServerTypeOK
<1>6. QueuesInv'
    BY <1>1, <1>3, <1>4 DEF ServedInv, QueuesInv
<1>7. PoolInv'
    BY <1>1, <1>4 DEF ServedInv, PoolInv, ListenerStays
<1> QED
    BY <1>5, <1>6, <1>7 DEF ServedInv

\* A thread that closes its connection.
LEMMA CloseServed ==
    ASSUME HttpTypeOK, ServedInv, NEW w \in ServerThreads, CloseConnection(w)
    PROVE  wire' \in Seq(Conns) /\ ServerTypeOK' /\ ServedInv'
<1> DEFINE k == serving[w].conn
<1>1. /\ WireStep(k) /\ ServingStep(w) /\ serving'[w].conn = 0 /\ serving'[w].pc = "pool"
      /\ k \in Established /\ k # 0 /\ Closes(wire[k], serving[w], wire'[k], serving'[w])
      /\ UNCHANGED <<jobs, handled>> /\ ListenerStays
    BY CloseEffect
<1>2. wire' \in Seq(Conns) /\ ServerTypeOK'
    BY <1>1 DEF WireStep, ServingStep, ListenerStays, HttpTypeOK, ServerTypeOK
<1>3. /\ Established' = Established /\ \A j \in Established : j # k => wire'[j].ss = wire[j].ss
      /\ wire'[k].ss = "closed"
    BY <1>1 DEF WireStep, Established, Closes
<1>4. \A v \in ServerThreads : v # w => serving'[v] = serving[v] /\ serving[v].conn # k
    BY <1>1 DEF ServingStep, ServedInv, QueuesInv
<1>5. \A v \in ServerThreads : serving'[v].conn # 0 => v # w /\ serving'[v].conn = serving[v].conn
    BY <1>1, <1>4
<1>6. \A i \in 1..Len(jobs) : jobs[i] # k /\ jobs[i] # 0
    BY DEF ServedInv, QueuesInv, Established
<1>7. \A j \in Established : j # 0
    BY DEF Established
<1>8. \A j \in Established : wire'[j].ss = "open" => j # k /\ wire[j].ss = "open"
    BY <1>3
<1>9. \A j \in Established : wire'[j].ss = "open" =>
          \/ \E i \in 1..Len(jobs) : jobs[i] = j
          \/ \E v \in ServerThreads : serving'[v].conn = j
  <2> SUFFICES ASSUME NEW j \in Established, wire'[j].ss = "open",
                      ~\E i \in 1..Len(jobs) : jobs[i] = j
               PROVE  \E v \in ServerThreads : serving'[v].conn = j
      OBVIOUS
  <2>1. PICK v \in ServerThreads : serving[v].conn = j
      BY <1>8 DEF ServedInv, QueuesInv
  <2> QED
      BY <1>4, <1>8, <2>1
<1>10. /\ \A v, u \in ServerThreads : serving'[v].conn # 0 /\ serving'[v].conn = serving'[u].conn => v = u
       /\ \A v \in ServerThreads : serving'[v].conn = 0 <=> serving'[v].pc \in {"pool", "exit"}
       /\ \A v \in ServerThreads : serving'[v].conn # 0 =>
             serving'[v].conn \in Established /\ wire'[serving'[v].conn].ss = "open"
  <2>1. \A v \in ServerThreads : serving'[v].conn = 0 <=> serving'[v].pc \in {"pool", "exit"}
      BY <1>1, <1>4 DEF ServedInv, QueuesInv
  <2>2. \A v, u \in ServerThreads : serving'[v].conn # 0 /\ serving'[v].conn = serving'[u].conn => v = u
      BY <1>1, <1>5 DEF ServedInv, QueuesInv
  <2>3. \A v \in ServerThreads : serving'[v].conn # 0 =>
             serving'[v].conn \in Established /\ wire[serving'[v].conn].ss = "open" /\ serving'[v].conn # k
      BY <1>4, <1>5 DEF ServedInv, QueuesInv
  <2> QED
      BY <1>3, <2>1, <2>2, <2>3
<1>11. \A i \in 1..Len(jobs) : /\ jobs[i] \in Established /\ wire'[jobs[i]].ss = "open"
                               /\ \A v \in ServerThreads : jobs[i] # serving'[v].conn
  <2>1. \A i \in 1..Len(jobs) : /\ jobs[i] \in Established /\ wire[jobs[i]].ss = "open"
                                /\ \A v \in ServerThreads : jobs[i] # serving[v].conn
      BY DEF ServedInv, QueuesInv
  <2> QED
      BY <1>1, <1>3, <1>4, <1>6, <2>1
<1>12. \A i, j \in 1..Len(jobs) : jobs[i] = jobs[j] => i = j
    BY DEF ServedInv, QueuesInv
<1>13. QueuesInv'
    BY <1>1, <1>3, <1>9, <1>10, <1>11, <1>12 DEF QueuesInv
<1>14. PoolInv'
  <2>1. serving[w].pc = "close"
      BY <1>1 DEF Closes
  <2>2. listener # "returned"
      BY <2>1 DEF ServedInv, PoolInv
  <2>3. \A v \in ServerThreads : serving'[v].pc = "exit" => serving[v].pc = "exit"
      BY <1>1, <1>4
  <2>4. \A v \in ServerThreads : serving[v].pc = "exit" => shutdown /\ jobs = <<>>
      BY DEF ServedInv, PoolInv
  <2>5. shutdown => listener \in {"join", "returned"}
      BY DEF ServedInv, PoolInv
  <2> QED
      BY <1>1, <2>5, <2>4, <2>3, <2>2 DEF PoolInv, ListenerStays
<1> QED
    BY <1>2, <1>13, <1>14 DEF ServedInv

\* A thread that takes a connection from the queue.
LEMMA TakeJobServed ==
    ASSUME HttpTypeOK, ServedInv, NEW w \in ServerThreads, TakeJob(w)
    PROVE  wire' \in Seq(Conns) /\ ServerTypeOK' /\ ServedInv'
<1>1. /\ ServingStep(w) /\ serving[w].pc = "pool"
      /\ serving'[w].conn = jobs[1] /\ serving'[w].pc = "loop"
      /\ jobs' \in Seq(Nat) /\ Len(jobs) \in Nat \ {0} /\ Len(jobs') = Len(jobs) - 1
      /\ UNCHANGED <<wire, handled>> /\ ListenerStays
    BY TakeJobEffect
<1>2. /\ \A i \in 1..Len(jobs') : jobs'[i] = jobs[i + 1] /\ i + 1 \in 1..Len(jobs)
      /\ \A i \in 1..Len(jobs) : i # 1 => i - 1 \in 1..Len(jobs') /\ jobs'[i - 1] = jobs[i]
    BY TakeJobEffect
<1>3. wire' \in Seq(Conns) /\ ServerTypeOK'
    BY <1>1 DEF ServingStep, ListenerStays, HttpTypeOK, ServerTypeOK
<1>4. Established' = Established /\ 1 \in 1..Len(jobs)
    BY <1>1 DEF Established
<1>5. jobs[1] \in Established /\ wire[jobs[1]].ss = "open" /\ jobs[1] # 0
      /\ \A v \in ServerThreads : serving[v].conn # jobs[1]
    BY <1>4 DEF ServedInv, QueuesInv, Established
<1>6. \A v \in ServerThreads : v # w => serving'[v] = serving[v]
    BY <1>1 DEF ServingStep
<1>7. /\ \A i, j \in 1..Len(jobs') : jobs'[i] = jobs'[j] => i = j
      /\ \A i \in 1..Len(jobs') : jobs'[i] # jobs[1]
  <2>1. \A i \in 1..Len(jobs') : i \in Nat /\ i + 1 # 1
      BY <1>1
  <2>2. \A i, j \in 1..Len(jobs') : i + 1 = j + 1 => i = j
      BY <2>1
  <2>3. \A i \in 1..Len(jobs') : jobs[i + 1] # jobs[1]
      BY <1>2, <1>4, <2>1 DEF ServedInv, QueuesInv
  <2>4. \A i, j \in 1..Len(jobs') : jobs[i + 1] = jobs[j + 1] => i + 1 = j + 1
      BY <1>2 DEF ServedInv, QueuesInv
  <2> QED
      BY <1>2, <2>2, <2>3, <2>4
<1>8. \A i \in 1..Len(jobs') : /\ jobs'[i] \in Established /\ wire[jobs'[i]].ss = "open"
                               /\ \A v \in ServerThreads : jobs'[i] # serving[v].conn
    BY <1>2 DEF ServedInv, QueuesInv
<1>9. \A k \in Established : wire[k].ss = "open" =>
          \/ \E i \in 1..Len(jobs') : jobs'[i] = k
          \/ \E v \in ServerThreads : serving'[v].conn = k
  <2> SUFFICES ASSUME NEW k \in Established, wire[k].ss = "open",
                      ~\E v \in ServerThreads : serving'[v].conn = k
               PROVE  \E i \in 1..Len(jobs') : jobs'[i] = k
      OBVIOUS
  <2>1. k # jobs[1] /\ k # 0
      BY <1>1 DEF Established
  <2>2. serving[w].conn = 0
      BY <1>1 DEF ServedInv, QueuesInv
  <2>3. ~\E v \in ServerThreads : serving[v].conn = k
      BY <1>6, <2>1, <2>2
  <2>4. PICK i \in 1..Len(jobs) : jobs[i] = k
      BY <2>3 DEF ServedInv, QueuesInv
  <2> QED
      BY <1>2, <2>1, <2>4
<1>10. QueuesInv'
  <2>1. /\ \A v, u \in ServerThreads : serving'[v].conn # 0 /\ serving'[v].conn = serving'[u].conn => v = u
        /\ \A v \in ServerThreads : serving'[v].conn = 0 <=> serving'[v].pc \in {"pool", "exit"}
        /\ \A v \in ServerThreads : serving'[v].conn # 0 =>
              serving'[v].conn \in Established /\ wire[serving'[v].conn].ss = "open"
      BY <1>1, <1>5, <1>6 DEF ServedInv, QueuesInv
  <2>2. \A i \in 1..Len(jobs'), v \in ServerThreads : jobs'[i] # serving'[v].conn
      BY <1>1, <1>6, <1>7, <1>8
  <2> QED
      BY <1>1, <1>4, <1>7, <1>8, <1>9, <2>1, <2>2 DEF QueuesInv
<1>11. PoolInv'
  <2>1. jobs # <<>>
      BY DEF TakeJob
  <2>2. \A v \in ServerThreads : serving[v].pc # "exit"
      BY <2>1 DEF ServedInv, PoolInv
  <2>3. \A v \in ServerThreads : serving'[v].pc # "exit"
      BY <1>1, <1>6, <2>2
  <2>4. listener # "returned"
      BY <2>2 DEF ServedInv, PoolInv
  <2> QED
      BY <1>1, <2>3, <2>4 DEF ServedInv, PoolInv, ListenerStays
<1> QED
    BY <1>3, <1>10, <1>11 DEF ServedInv

\* A thread that leaves the pool.
LEMMA LeavePoolServed ==
    ASSUME HttpTypeOK, ServedInv, NEW w \in ServerThreads, LeavePool(w)
    PROVE  wire' \in Seq(Conns) /\ ServerTypeOK' /\ ServedInv'
<1>1. /\ ServingStep(w) /\ serving[w].pc = "pool"
      /\ serving'[w].conn = 0 /\ serving'[w].pc = "exit" /\ shutdown /\ jobs = <<>>
      /\ UNCHANGED <<wire, jobs, handled>> /\ ListenerStays
    BY LeavePoolEffect
<1>2. wire' \in Seq(Conns) /\ ServerTypeOK'
    BY <1>1 DEF ServingStep, ListenerStays, HttpTypeOK, ServerTypeOK
<1>3. Established' = Established
    BY <1>1 DEF Established
<1>4. \A v \in ServerThreads : v # w => serving'[v] = serving[v]
    BY <1>1 DEF ServingStep
<1>5. serving[w].conn = 0
    BY <1>1 DEF ServedInv, QueuesInv
<1>6. QueuesInv'
    BY <1>1, <1>3, <1>4, <1>5 DEF ServedInv, QueuesInv, Established
<1>7. PoolInv'
    BY <1>1, <1>4 DEF ServedInv, PoolInv, ListenerStays
<1> QED
    BY <1>2, <1>6, <1>7 DEF ServedInv

\* A connection that the server accepts.
LEMMA AcceptServed ==
    ASSUME HttpTypeOK, ServedInv, Accept
    PROVE  wire' \in Seq(Conns) /\ ServerTypeOK' /\ ServedInv'
<1>1. PICK k \in Established :
         /\ wire[k].ss = "backlog" /\ WireStep(k) /\ wire'[k].ss = "open"
         /\ jobs' \in Seq(Nat) /\ Len(jobs) \in Nat /\ Len(jobs') = Len(jobs) + 1
         /\ \A i \in 1..Len(jobs) : jobs'[i] = jobs[i]
         /\ jobs'[Len(jobs) + 1] = k
         /\ \A i \in 1..Len(jobs') : i # Len(jobs) + 1 => i \in 1..Len(jobs)
    BY AcceptEffect
<1>2. /\ UNCHANGED <<svrSock, listening, isRunning, listener, shutdown, serving, handled>>
      /\ listener = "accept"
    BY AcceptEffect
<1>3. wire' \in Seq(Conns) /\ ServerTypeOK'
    BY <1>1, <1>2 DEF WireStep, HttpTypeOK, ServerTypeOK
<1>4. Established' = Established /\ \A j \in Established : j # k => wire'[j] = wire[j]
    BY <1>1 DEF WireStep, Established
<1>5. /\ \A i \in 1..Len(jobs) : jobs[i] # k
      /\ \A w \in ServerThreads : serving[w].conn # 0 => serving[w].conn # k
      /\ k # 0
    BY <1>1 DEF ServedInv, QueuesInv, Established
<1>6. Len(jobs) + 1 \in 1..Len(jobs') /\ \A i \in 1..Len(jobs) : i \in 1..Len(jobs')
    BY <1>1
<1>7. \A i \in 1..Len(jobs') : \/ i = Len(jobs) + 1 /\ jobs'[i] = k
                               \/ i \in 1..Len(jobs) /\ jobs'[i] = jobs[i] /\ jobs'[i] # k
    BY <1>1, <1>5
<1>8. \A i, j \in 1..Len(jobs') : jobs'[i] = jobs'[j] => i = j
    BY <1>7 DEF ServedInv, QueuesInv
<1>9. \A w \in ServerThreads : serving[w].conn # k
    BY <1>5
<1>10. \A i \in 1..Len(jobs') : /\ jobs'[i] \in Established /\ wire'[jobs'[i]].ss = "open"
                                /\ \A w \in ServerThreads : jobs'[i] # serving[w].conn
    BY <1>1, <1>4, <1>7, <1>9 DEF ServedInv, QueuesInv
<1>11. \A j \in Established : wire'[j].ss = "open" =>
          \/ \E i \in 1..Len(jobs') : jobs'[i] = j
          \/ \E w \in ServerThreads : serving[w].conn = j
    BY <1>1, <1>4, <1>6 DEF ServedInv, QueuesInv
<1>12. \A w \in ServerThreads : serving[w].conn # 0 =>
          serving[w].conn \in Established /\ wire'[serving[w].conn].ss = "open"
    BY <1>4, <1>5 DEF ServedInv, QueuesInv
<1>13. QueuesInv'
    BY <1>2, <1>4, <1>8, <1>10, <1>11, <1>12 DEF ServedInv, QueuesInv
<1>14. PoolInv'
    BY <1>2 DEF ServedInv, PoolInv
<1> QED
    BY <1>3, <1>13, <1>14 DEF ServedInv

\* The backlog is closed: nobody serves what is in it.
LEMMA ResetServed ==
    ASSUME HttpTypeOK, ServedInv, wire' = ResetBacklog(wire), UNCHANGED <<jobs, serving, shutdown>>,
           listener' = listener \/ (listener = "accept" /\ listener' = "shutdown")
    PROVE  wire' \in Seq(Conns) /\ ServedInv'
<1>1. SameConns /\ \A k \in Established : Reset(wire[k], wire'[k])
    BY ResetEffect DEF HttpTypeOK
<1>2. Established' = Established
    BY <1>1 DEF SameConns, Established
<1>3. \A k \in Established : wire'[k].ss = "open" <=> wire[k].ss = "open"
    BY <1>1 DEF Reset
<1>4. QueuesInv'
    BY <1>2, <1>3 DEF ServedInv, QueuesInv
<1>5. PoolInv'
    BY DEF ServedInv, PoolInv
<1> QED
    BY <1>1, <1>4, <1>5 DEF ServedInv, SameConns

\* stop(), and an accept() that fails.
LEMMA StopServed ==
    ASSUME HttpTypeOK, ServedInv, Stop \/ AcceptFails
    PROVE  wire' \in Seq(Conns) /\ ServerTypeOK' /\ ServedInv'
<1>1. /\ wire' = ResetBacklog(wire) /\ UNCHANGED <<jobs, serving, shutdown, isRunning>>
      /\ listener' = listener \/ (listener = "accept" /\ listener' = "shutdown")
      /\ svrSock' \in {svrSock, FALSE} /\ listening' = FALSE
    BY DEF Stop, AcceptFails
<1>2. ServerTypeOK'
    BY <1>1 DEF HttpTypeOK, ServerTypeOK
<1> QED
    BY <1>1, <1>2, ResetServed

\* The steps of listen() after its loop.
LEMMA ListenerServed ==
    ASSUME HttpTypeOK, ServedInv, AcceptAfterStop \/ ShutdownPool \/ ListenReturns
    PROVE  wire' \in Seq(Conns) /\ ServerTypeOK' /\ ServedInv'
<1>1. UNCHANGED <<wire, jobs, serving, svrSock, listening, handled>>
    BY DEF AcceptAfterStop, ShutdownPool, ListenReturns
<1>2. QueuesInv'
    BY <1>1 DEF ServedInv, QueuesInv, Established
<1>3. /\ isRunning' \in {isRunning, FALSE} /\ shutdown' \in {shutdown, TRUE}
      /\ listener' \in {"shutdown", "join", "returned"}
    BY DEF AcceptAfterStop, ShutdownPool, ListenReturns
<1>4. ServerTypeOK'
    BY <1>1, <1>3 DEF HttpTypeOK, ServerTypeOK
<1>5. /\ shutdown' => listener' \in {"join", "returned"}
      /\ shutdown => shutdown'
      /\ listener' = "returned" => \A w \in ServerThreads : serving[w].pc = "exit"
    BY DEF AcceptAfterStop, ShutdownPool, ListenReturns, ServedInv, PoolInv
<1>6. \A w \in ServerThreads : serving[w].pc = "exit" => shutdown /\ jobs = <<>>
    BY DEF ServedInv, PoolInv
<1>7. PoolInv'
    BY <1>1, <1>5, <1>6 DEF PoolInv
<1> QED
    BY <1>1, <1>2, <1>4, <1>7 DEF ServedInv, HttpTypeOK

\* Which of its steps a thread of the pool makes.
LEMMA ThreadSteps ==
    ASSUME HttpTypeOK, ServedInv, NEW w \in ServerThreads, ServerThread(w)
    PROVE  TakeJob(w) \/ LeavePool(w) \/ CloseConnection(w) \/ Turn(w)
  BY WaitingTurn, ReadRequestHeadTurn, ReadStrayTurn, ReadRequestBodyTurn, CallHandlerTurn,
     WriteHeadTurn, WriteContentTurn DEF ServerThread

\* What the server does keeps its invariants.
LEMMA ServerServed ==
    ASSUME HttpTypeOK, ServedInv, ServerNext \/ Stop \/ AcceptFails
    PROVE  wire' \in Seq(Conns) /\ ServerTypeOK' /\ ServedInv'
<1>1. CASE Stop \/ AcceptFails
    BY <1>1, StopServed
<1>2. CASE Accept
    BY <1>2, AcceptServed
<1>3. CASE AcceptAfterStop \/ ShutdownPool \/ ListenReturns
    BY <1>3, ListenerServed
<1>4. ASSUME NEW w \in ServerThreads, ServerThread(w)
      PROVE  wire' \in Seq(Conns) /\ ServerTypeOK' /\ ServedInv'
    BY <1>4, ThreadSteps, TakeJobServed, LeavePoolServed, CloseServed, TurnServed
<1> QED
    BY <1>1, <1>2, <1>3, <1>4 DEF ServerNext, Listener

\* The server leaves the ends of the clients alone, and gives no body back
\* that it has given up.
LEMMA ServerKeepsEnds ==
    ASSUME HttpTypeOK, ServedInv, ServerNext \/ Stop \/ AcceptFails
    PROVE  /\ Established' = Established
           /\ \A k \in Established : wire'[k].cs = wire[k].cs /\ (wire[k].late => wire'[k].late)
<1>1. CASE Stop \/ AcceptFails
  <2>1. SameConns /\ \A k \in Established : Reset(wire[k], wire'[k])
      BY <1>1, ResetEffect DEF HttpTypeOK, Stop, AcceptFails
  <2> QED
      BY <2>1 DEF SameConns, Reset, Established
<1>2. CASE Accept
  <2>1. PICK k \in Established :
         /\ WireStep(k) /\ wire'[k].cs = wire[k].cs /\ wire'[k].late = wire[k].late
      BY <1>2, AcceptEffect
  <2> QED
      BY <2>1 DEF WireStep, Established
<1>3. CASE AcceptAfterStop \/ ShutdownPool \/ ListenReturns
    BY <1>3 DEF AcceptAfterStop, ShutdownPool, ListenReturns, Established
<1>4. ASSUME NEW w \in ServerThreads, ServerThread(w)
      PROVE  /\ Established' = Established
             /\ \A k \in Established : wire'[k].cs = wire[k].cs /\ (wire[k].late => wire'[k].late)
  <2>1. CASE TakeJob(w)
      BY <2>1, TakeJobEffect DEF Established
  <2>2. CASE LeavePool(w)
      BY <2>2, LeavePoolEffect DEF Established
  <2>3. CASE CloseConnection(w)
    <3> DEFINE k == serving[w].conn
    <3>1. WireStep(k) /\ wire'[k].cs = wire[k].cs /\ wire'[k].late = wire[k].late
        BY <2>3, CloseEffect DEF Closes
    <3> QED
        BY <3>1 DEF WireStep, Established
  <2>4. CASE Turn(w)
    <3> DEFINE k == serving[w].conn
    <3>1. WireStep(k) /\ EndsKept(wire[k], wire'[k])
        BY <2>4, ServingKeepsEnds DEF Turn
    <3> QED
        BY <3>1 DEF WireStep, Established, EndsKept
  <2> QED
      BY <1>4, ThreadSteps, <2>1, <2>2, <2>3, <2>4
<1> QED
    BY <1>1, <1>2, <1>3, <1>4 DEF ServerNext, Listener

(***************************************************************************)
(* The clients: the calls, the sockets, and what a step of a client does.  *)
(***************************************************************************)
FlyingPlaces == {"write_head", "write_body", "read_head", "read_body", "hang_up", "finish"}
Flying(t) == post[t].pc \in FlyingPlaces
Busy(t) == Flying(t) \/ post[t].pc = "connect"
\* Nobody's request is under way on the client.
Idle(c) == \A t \in Posters : uses[t] = c => ~Flying(t)

\* One call at a time holds request_mutex_ of a client, and it alone counts
\* as a request in flight.
CallsInv ==
    /\ \A t \in Posters : Busy(t) => requestMutex[uses[t]]
    /\ \A t, u \in Posters : Busy(t) /\ Busy(u) /\ uses[t] = uses[u] => t = u
    /\ \A t \in Posters : Flying(t) => inFlight[uses[t]] = 1
    /\ \A c \in HttpClients : Idle(c) => inFlight[c] = 0

\* The connection of a client that has a socket.
ConnOf(c) == descriptors[sock[c]]

\* What clients have not closed is theirs, each connection one client's.
OwnedInv ==
    /\ \A c \in HttpClients : sock[c] # 0 =>
          ConnOf(c) \in Established /\ wire[ConnOf(c)].cs # "closed"
    /\ \A c, d \in HttpClients : sock[c] # 0 /\ sock[d] # 0 /\ ConnOf(c) = ConnOf(d) => c = d
    /\ \A k \in Established : wire[k].cs # "closed" =>
          \E c \in HttpClients : sock[c] # 0 /\ ConnOf(c) = k

\* A socket that has been shut down is closed by the call in flight; without
\* one, only a client that keeps its connection has one.
ShutInv ==
    \A c \in HttpClients : sock[c] # 0 =>
        /\ wire[ConnOf(c)].cs = "shut" => closeWhenDone[c]
        /\ Idle(c) => wire[ConnOf(c)].cs = "open" /\ keepAlive[c]

\* A call works on the connection of its client.
CallsOnSockets ==
    \A t \in Posters :
        /\ post[t].pc \notin {"hang_up", "finish", "done"} => ~post[t].ret
        /\ post[t].pc = "write_head" => sock[uses[t]] # 0
        /\ post[t].pc \in {"write_body", "read_head", "read_body", "hang_up"} =>
              sock[uses[t]] # 0 /\ post[t].number = sock[uses[t]] /\ post[t].conn = ConnOf(uses[t])
        /\ post[t].pc \in {"finish", "done"} /\ post[t].ret => post[t].conn \in Established

\* Clients that are gone have no socket, and nobody calls them.
GoneInv ==
    \A c \in destroyed : sock[c] = 0 /\ \A t \in Posters : post[t].pc = "done"

SocketsInv == OwnedInv /\ ShutInv /\ CallsOnSockets /\ GoneInv

-----------------------------------------------------------------------------
(* What a step of a client does to its connection.                         *)

Uploads(n, n2, seg) ==
    /\ n2.down = n.down /\ n2.cs = n.cs /\ n2.ss = n.ss /\ n2.late = n.late
    /\ n2.up = IF n.ss = "closed" THEN n.up ELSE Append(n.up, seg)
Downloads(n, n2) ==
    /\ n2.up = n.up /\ n2.cs = n.cs /\ n2.ss = n.ss /\ n2.late = n.late
    /\ Len(n.down) \in Nat \ {0} /\ Len(n2.down) = Len(n.down) - 1
    /\ \A i \in 1..Len(n2.down) : n2.down[i] = n.down[i + 1]
HangsUp(n, n2) ==
    /\ n2.cs = "closed" /\ n2.down = <<>> /\ n2.up \in {n.up, <<>>}
    /\ n2.ss = n.ss /\ n2.late = n.late
Shuts(n, n2) ==
    /\ n2.up = n.up /\ n2.down = n.down /\ n2.ss = n.ss /\ n2.late = n.late
    /\ n2.cs = IF n.cs = "open" THEN "shut" ELSE n.cs

\* A step of client c touches only the connection of c.
WireOf(c) ==
    /\ wire' \in Seq(Conns) /\ Len(wire') \in {Len(wire), Len(wire) + 1}
    /\ \A k \in Established :
          /\ wire'[k] = wire[k] \/ (sock[c] # 0 /\ k = ConnOf(c))
          /\ wire'[k].ss = wire[k].ss /\ wire'[k].late = wire[k].late
          /\ wire'[k].cs = "closed" \/ wire[k].cs # "closed"

\* The sockets of other clients stay.
SocketsOf(c) ==
    /\ sock' \in [HttpClients -> Numbers \cup {0}] /\ descriptors' \in [Numbers -> Nat]
    /\ \A d \in HttpClients : d # c => /\ sock'[d] = sock[d]
                                       /\ sock[d] # 0 => descriptors'[sock[d]] = ConnOf(d)

\* The client keeps its socket, or closes it, or opens one.
Keeps(c) ==
    /\ Len(wire') = Len(wire) /\ sock' = sock /\ descriptors' = descriptors
    /\ sock[c] # 0 => wire'[ConnOf(c)].cs \in {wire[ConnOf(c)].cs, "shut"}
HasHungUp(c) ==
    /\ Len(wire') = Len(wire) /\ sock'[c] = 0
    /\ sock[c] # 0 => HangsUp(wire[ConnOf(c)], wire'[ConnOf(c)])
HasConnected(c) ==
    /\ Len(wire') = Len(wire) + 1 /\ sock'[c] # 0 /\ descriptors'[sock'[c]] = Len(wire) + 1
    /\ wire'[Len(wire) + 1] = NewConnection
    /\ sock[c] # 0 => HangsUp(wire[ConnOf(c)], wire'[ConnOf(c)])

ClientMove(c) == WireOf(c) /\ SocketsOf(c) /\ (Keeps(c) \/ HasHungUp(c) \/ HasConnected(c))

-----------------------------------------------------------------------------
\* A step of the client at its connection, which keeps its socket.
LEMMA MoveOnConn ==
    ASSUME HttpTypeOK, OwnedInv, NEW c \in HttpClients, sock[c] # 0, NEW n \in Conns,
           wire' = [wire EXCEPT ![ConnOf(c)] = n], UNCHANGED <<sock, descriptors>>,
           n.ss = wire[ConnOf(c)].ss, n.late = wire[ConnOf(c)].late,
           n.cs \in {wire[ConnOf(c)].cs, "shut"}
    PROVE  ClientMove(c) /\ Keeps(c) /\ wire'[ConnOf(c)] = n
<1>1. ConnOf(c) \in Established /\ wire[ConnOf(c)].cs # "closed"
    BY DEF OwnedInv
<1>2. WireStep(ConnOf(c)) /\ wire'[ConnOf(c)] = n
    BY <1>1, WireEffect DEF HttpTypeOK
<1>3. WireOf(c)
    BY <1>1, <1>2 DEF WireStep, WireOf
<1>4. SocketsOf(c) /\ Keeps(c)
    BY <1>2 DEF SocketsOf, Keeps, ConnOf, WireStep, HttpTypeOK, ClientTypeOK
<1> QED
    BY <1>2, <1>3, <1>4 DEF ClientMove

\* A step that touches no connection.
LEMMA MoveNowhere ==
    ASSUME HttpTypeOK, NEW c \in HttpClients, UNCHANGED <<wire, sock, descriptors>>
    PROVE  ClientMove(c) /\ Keeps(c)
<1>1. WireOf(c) /\ SocketsOf(c) /\ Keeps(c)
    BY DEF WireOf, SocketsOf, Keeps, ConnOf, HttpTypeOK, ClientTypeOK
<1> QED
    BY <1>1 DEF ClientMove

\* close_socket() of a client.
LEMMA ClosesConn ==
    ASSUME NEW n \in Conns, NEW kept \in BOOLEAN,
           NEW n2, n2 = [n EXCEPT !.cs = "closed", !.down = <<>>,
                           !.up = IF n.ss = "closed" \/ (n.down # <<>> /\ ~kept) THEN <<>> ELSE @]
    PROVE  n2 \in Conns /\ HangsUp(n, n2)
<1> DEFINE up == IF n.ss = "closed" \/ (n.down # <<>> /\ ~kept) THEN <<>> ELSE n.up
<1>1. <<>> \in Seq(Segments) /\ <<>> \in Seq(Replies) /\ "closed" \in ClientEnds
    BY EmptySeq DEF ClientEnds
<1>2. up \in Seq(Segments) /\ up \in {n.up, <<>>}
    BY <1>1 DEF Conns
<1>3. n2 = [n EXCEPT !.cs = "closed", !.down = <<>>, !.up = up]
    OBVIOUS
<1> HIDE DEF up
<1> QED
    BY <1>1, <1>2, <1>3 DEF Conns, HangsUp

\* HangUp closes the connection of the client, if it has one.
LEMMA HangUpMove ==
    ASSUME HttpTypeOK, OwnedInv, NEW c \in HttpClients, HangUp(c)
    PROVE  ClientMove(c) /\ HasHungUp(c)
<1>1. CASE sock[c] = 0
  <2>1. UNCHANGED <<wire, sock, descriptors>>
      BY <1>1 DEF HangUp
  <2>2. ClientMove(c)
      BY <2>1, MoveNowhere
  <2> QED
      BY <1>1, <2>1, <2>2 DEF HasHungUp
<1>2. CASE sock[c] # 0
  <2> DEFINE k == ConnOf(c)
             n == wire[k]
  <2>1. k \in Established /\ n.cs # "closed"
      BY <1>2 DEF OwnedInv
  <2>2. n \in Conns
      BY <2>1, ElementOfSeq DEF HttpTypeOK, Established
  <2>3. PICK kept \in BOOLEAN : wire' = ClientCloses(k, kept)
      BY <1>2 DEF HangUp, ConnOf
  <2> DEFINE n2 == [n EXCEPT !.cs = "closed", !.down = <<>>,
                       !.up = IF n.ss = "closed" \/ (n.down # <<>> /\ ~kept) THEN <<>> ELSE @]
  <2>4. wire' = [wire EXCEPT ![k] = n2]
      BY <2>3 DEF ClientCloses
  <2>5. n2 \in Conns /\ HangsUp(n, n2)
      BY <2>2, ClosesConn
  <2> HIDE DEF n2
  <2>6. WireStep(k) /\ wire'[k] = n2
      BY <2>1, <2>4, <2>5, WireEffect DEF HttpTypeOK
  <2>7. WireOf(c)
      BY <1>2, <2>1, <2>5, <2>6 DEF WireStep, WireOf, HangsUp
  <2>8. descriptors' = [descriptors EXCEPT ![sock[c]] = 0] /\ sock' = [sock EXCEPT ![c] = 0]
      BY <1>2 DEF HangUp
  <2>9. sock[c] \in Numbers
      BY <1>2 DEF HttpTypeOK, ClientTypeOK
  <2>10. sock' \in [HttpClients -> Numbers \cup {0}] /\ sock'[c] = 0
         /\ \A d \in HttpClients : d # c => sock'[d] = sock[d]
      BY <2>8 DEF HttpTypeOK, ClientTypeOK
  <2>11. descriptors' \in [Numbers -> Nat]
         /\ \A m \in Numbers : m # sock[c] => descriptors'[m] = descriptors[m]
      BY <2>8, <2>9 DEF HttpTypeOK, ClientTypeOK
  <2>12. \A d \in HttpClients : d # c /\ sock[d] # 0 => sock[d] \in Numbers /\ sock[d] # sock[c]
      BY <1>2 DEF HttpTypeOK, ClientTypeOK, OwnedInv, ConnOf
  <2>13. SocketsOf(c)
      BY <2>10, <2>11, <2>12 DEF SocketsOf, ConnOf
  <2>14. HasHungUp(c)
      BY <2>5, <2>6, <2>10 DEF HasHungUp, WireStep
  <2> QED
      BY <2>7, <2>13, <2>14 DEF ClientMove
<1> QED
    BY <1>1, <1>2

\* The numbers of the descriptors are numbers.
LEMMA NumbersTyped == Numbers \subseteq Nat /\ 0 \notin Numbers
<1>1. Cardinality(HttpClients) \in Nat
    BY PostersAssumption, FS_CardinalityType
<1> QED
    BY <1>1 DEF Numbers

\* A connection that is new.
LEMMA NewTyped ==
    /\ NewConnection \in Conns /\ NewConnection.up = <<>> /\ NewConnection.down = <<>>
    /\ NewConnection.cs = "open" /\ NewConnection.ss = "backlog" /\ NewConnection.late = FALSE
<1>1. <<>> \in Seq(Segments) /\ <<>> \in Seq(Replies)
    BY EmptySeq
<1>2. "open" \in ClientEnds /\ "backlog" \in ServerEnds
    BY DEF ClientEnds, ServerEnds
<1> QED
    BY <1>1, <1>2 DEF NewConnection, Conns

\* create_and_connect_socket() after close_socket() of a socket found dead.
LEMMA ConnectMove ==
    ASSUME HttpTypeOK, OwnedInv, NEW t \in Posters, NEW listens, Connect(t, listens)
    PROVE  ClientMove(uses[t]) /\ HasConnected(uses[t])
<1> DEFINE c == uses[t]
           k == ConnOf(c)
           freed == IF sock[c] = 0 THEN descriptors ELSE [descriptors EXCEPT ![sock[c]] = 0]
<1>1. c \in HttpClients
    BY DEF HttpTypeOK, ClientTypeOK
<1>2. /\ wire' = Append(Closed(c), NewConnection)
      /\ \E m \in Numbers :
           /\ Lowest(m, {x \in Numbers : freed[x] = 0})
           /\ descriptors' = [freed EXCEPT ![m] = Len(wire) + 1]
           /\ sock' = [sock EXCEPT ![c] = m]
    BY DEF Connect
<1>3. PICK m \in Numbers :
           /\ Lowest(m, {x \in Numbers : freed[x] = 0})
           /\ descriptors' = [freed EXCEPT ![m] = Len(wire) + 1]
           /\ sock' = [sock EXCEPT ![c] = m]
    BY <1>2
<1>4. Len(wire) \in Nat /\ Established = 1..Len(wire)
    BY LenProperties DEF HttpTypeOK, Established
<1>5. /\ Closed(c) \in Seq(Conns) /\ Len(Closed(c)) = Len(wire)
      /\ \A j \in Established : Closed(c)[j] = wire[j] \/ (sock[c] # 0 /\ j = k)
      /\ sock[c] # 0 => k \in Established /\ HangsUp(wire[k], Closed(c)[k])
  <2>1. CASE sock[c] = 0
      BY <2>1 DEF Closed, HttpTypeOK
  <2>2. CASE sock[c] # 0
    <3> DEFINE n == wire[k]
               kept == TRUE
               n2 == [n EXCEPT !.cs = "closed", !.down = <<>>,
                        !.up = IF n.ss = "closed" \/ (n.down # <<>> /\ ~kept) THEN <<>> ELSE @]
    <3>1. k \in Established
        BY <1>1, <2>2 DEF OwnedInv
    <3>2. n \in Conns
        BY <3>1, ElementOfSeq DEF HttpTypeOK, Established
    <3>3. Closed(c) = [wire EXCEPT ![k] = n2]
        BY <2>2 DEF Closed, ClientCloses, ConnOf
    <3>4. n2 \in Conns /\ HangsUp(n, n2)
        BY <3>2, ClosesConn
    <3> HIDE DEF n2
    <3>5. /\ Closed(c) \in Seq(Conns) /\ Len(Closed(c)) = Len(wire)
          /\ \A j \in 1..Len(wire) : Closed(c)[j] = IF j = k THEN n2 ELSE wire[j]
        BY <3>1, <3>3, <3>4, ExceptSeq DEF HttpTypeOK, Established
    <3> QED
        BY <1>4, <2>2, <3>1, <3>4, <3>5
  <2> QED
      BY <2>1, <2>2
<1>6. /\ wire' \in Seq(Conns) /\ Len(wire') = Len(wire) + 1
      /\ \A j \in Established : wire'[j] = Closed(c)[j]
      /\ wire'[Len(wire) + 1] = NewConnection
    BY <1>2, <1>4, <1>5, NewTyped, AppendProperties
<1>7. WireOf(c)
    BY <1>5, <1>6 DEF WireOf, HangsUp
<1>8. freed \in [Numbers -> Nat] /\ \A x \in Numbers : x # sock[c] => freed[x] = descriptors[x]
    BY DEF HttpTypeOK, ClientTypeOK
<1> HIDE DEF freed
<1>9. freed[m] = 0 /\ m # 0
    BY <1>3, NumbersTyped DEF Lowest
<1>10. /\ descriptors' \in [Numbers -> Nat] /\ descriptors'[m] = Len(wire) + 1
       /\ \A x \in Numbers : x # m => descriptors'[x] = freed[x]
    BY <1>3, <1>4, <1>8
<1>11. /\ sock' \in [HttpClients -> Numbers \cup {0}] /\ sock'[c] = m
       /\ \A d \in HttpClients : d # c => sock'[d] = sock[d]
    BY <1>1, <1>3 DEF HttpTypeOK, ClientTypeOK
<1>12. \A d \in HttpClients : d # c /\ sock[d] # 0 =>
          sock[d] \in Numbers /\ sock[d] # sock[c] /\ descriptors[sock[d]] # 0
  <2>1. \A d \in HttpClients : sock[d] # 0 => sock[d] \in Numbers /\ ConnOf(d) # 0
      BY <1>4 DEF HttpTypeOK, ClientTypeOK, OwnedInv
  <2>2. \A d \in HttpClients : d # c /\ sock[d] # 0 => sock[d] # sock[c]
      BY <1>1 DEF OwnedInv, ConnOf
  <2> QED
      BY <2>1, <2>2 DEF ConnOf
<1>13. \A d \in HttpClients : d # c /\ sock[d] # 0 => sock[d] # m
    BY <1>8, <1>9, <1>12
<1>14. SocketsOf(c)
    BY <1>8, <1>10, <1>11, <1>12, <1>13 DEF SocketsOf, ConnOf
<1>15. HasConnected(c)
    BY <1>5, <1>6, <1>9, <1>10, <1>11 DEF HasConnected
<1> QED
    BY <1>7, <1>14, <1>15 DEF ClientMove

\* Each connection stays one client's.
LEMMA MoveOwned ==
    ASSUME HttpTypeOK, OwnedInv, NEW c \in HttpClients, ClientMove(c)
    PROVE  OwnedInv'
<1>1. Len(wire) \in Nat /\ Established = 1..Len(wire) /\ Established' = 1..Len(wire')
    BY LenProperties DEF HttpTypeOK, Established
<1>2. \A k \in Established : k \in Established' /\ k # Len(wire) + 1
    BY <1>1 DEF ClientMove, WireOf
<1>3. ConnOf(c)' = descriptors'[sock'[c]] /\ \A d \in HttpClients : ConnOf(d)' = descriptors'[sock'[d]]
    BY DEF ConnOf
<1>4. \A d \in HttpClients : d # c /\ sock'[d] # 0 =>
         /\ sock[d] # 0 /\ ConnOf(d)' = ConnOf(d) /\ ConnOf(d) \in Established
         /\ wire[ConnOf(d)].cs # "closed" /\ wire'[ConnOf(d)] = wire[ConnOf(d)]
         /\ sock[c] # 0 => ConnOf(d) # ConnOf(c)
  <2> SUFFICES ASSUME NEW d \in HttpClients, d # c, sock'[d] # 0
               PROVE  /\ sock[d] # 0 /\ ConnOf(d)' = ConnOf(d) /\ ConnOf(d) \in Established
                      /\ wire[ConnOf(d)].cs # "closed" /\ wire'[ConnOf(d)] = wire[ConnOf(d)]
                      /\ sock[c] # 0 => ConnOf(d) # ConnOf(c)
      OBVIOUS
  <2>1. sock[d] # 0 /\ ConnOf(d)' = ConnOf(d)
      BY <1>3 DEF ClientMove, SocketsOf
  <2>2. ConnOf(d) \in Established /\ wire[ConnOf(d)].cs # "closed"
        /\ (sock[c] # 0 => ConnOf(d) # ConnOf(c))
      BY <2>1 DEF OwnedInv
  <2>3. wire'[ConnOf(d)] = wire[ConnOf(d)]
      BY <2>2 DEF ClientMove, WireOf
  <2> QED
      BY <2>1, <2>2, <2>3
<1>5. CASE Keeps(c)
  <2>1. Established' = Established /\ sock'[c] = sock[c] /\ (sock[c] # 0 => ConnOf(c)' = ConnOf(c))
      BY <1>1, <1>3, <1>5 DEF Keeps, ConnOf
  <2>2. sock[c] # 0 => ConnOf(c) \in Established /\ wire'[ConnOf(c)].cs # "closed"
      BY <1>5 DEF Keeps, OwnedInv
  <2>3. \A d \in HttpClients : sock'[d] # 0 =>
            ConnOf(d)' \in Established /\ wire'[ConnOf(d)'].cs # "closed"
      BY <1>4, <2>1, <2>2
  <2>4. \A d, e \in HttpClients : sock'[d] # 0 /\ sock'[e] # 0 /\ ConnOf(d)' = ConnOf(e)' => d = e
      BY <1>4, <2>1 DEF OwnedInv
  <2>5. \A k \in Established : wire'[k].cs # "closed" =>
            \E d \in HttpClients : sock'[d] # 0 /\ ConnOf(d)' = k
    <3> SUFFICES ASSUME NEW k \in Established, wire'[k].cs # "closed"
                 PROVE  \E d \in HttpClients : sock'[d] # 0 /\ ConnOf(d)' = k
        OBVIOUS
    <3>1. PICK d \in HttpClients : sock[d] # 0 /\ ConnOf(d) = k
        BY DEF ClientMove, WireOf, OwnedInv
    <3>2. sock'[d] = sock[d] /\ ConnOf(d)' = ConnOf(d)
        BY <1>3, <1>5, <3>1 DEF Keeps, ConnOf
    <3> QED
        BY <3>1, <3>2
  <2> QED
      BY <2>1, <2>3, <2>4, <2>5 DEF OwnedInv
<1>6. CASE HasHungUp(c)
  <2>1. Established' = Established /\ sock'[c] = 0
      BY <1>1, <1>6 DEF HasHungUp
  <2>2. \A d \in HttpClients : sock'[d] # 0 =>
            ConnOf(d)' \in Established /\ wire'[ConnOf(d)'].cs # "closed"
      BY <1>4, <2>1
  <2>3. \A d, e \in HttpClients : sock'[d] # 0 /\ sock'[e] # 0 /\ ConnOf(d)' = ConnOf(e)' => d = e
      BY <1>4, <2>1 DEF OwnedInv
  <2>4. \A k \in Established : wire'[k].cs # "closed" =>
            \E d \in HttpClients : sock'[d] # 0 /\ ConnOf(d)' = k
    <3> SUFFICES ASSUME NEW k \in Established, wire'[k].cs # "closed"
                 PROVE  \E d \in HttpClients : sock'[d] # 0 /\ ConnOf(d)' = k
        OBVIOUS
    <3>1. PICK d \in HttpClients : sock[d] # 0 /\ ConnOf(d) = k
        BY DEF ClientMove, WireOf, OwnedInv
    <3>2. d # c
        BY <1>6, <3>1 DEF HasHungUp, HangsUp
    <3>3. sock'[d] = sock[d] /\ ConnOf(d)' = ConnOf(d)
        BY <1>3, <3>1, <3>2 DEF ClientMove, SocketsOf
    <3> QED
        BY <3>1, <3>3
  <2> QED
      BY <2>1, <2>2, <2>3, <2>4 DEF OwnedInv
<1>7. CASE HasConnected(c)
  <2> DEFINE new == Len(wire) + 1
  <2>1. /\ new \in Established' /\ new \notin Established /\ sock'[c] # 0 /\ ConnOf(c)' = new
        /\ wire'[new].cs = "open"
        /\ \A k \in Established' : k \in Established \/ k = new
      BY <1>1, <1>3, <1>7, NewTyped DEF HasConnected
  <2>2. \A d \in HttpClients : sock'[d] # 0 =>
            ConnOf(d)' \in Established' /\ wire'[ConnOf(d)'].cs # "closed"
      BY <1>2, <1>4, <2>1
  <2>3. \A d, e \in HttpClients : sock'[d] # 0 /\ sock'[e] # 0 /\ ConnOf(d)' = ConnOf(e)' => d = e
    <3> SUFFICES ASSUME NEW d \in HttpClients, NEW e \in HttpClients,
                        sock'[d] # 0, sock'[e] # 0, ConnOf(d)' = ConnOf(e)'
                 PROVE  d = e
        OBVIOUS
    <3>1. CASE d # c /\ e # c
        BY <1>4, <3>1 DEF OwnedInv
    <3>2. CASE d = c \/ e = c
        BY <1>4, <2>1, <3>2
    <3> QED
        BY <3>1, <3>2
  <2>4. \A k \in Established' : wire'[k].cs # "closed" =>
            \E d \in HttpClients : sock'[d] # 0 /\ ConnOf(d)' = k
    <3> SUFFICES ASSUME NEW k \in Established', wire'[k].cs # "closed", k # new
                 PROVE  \E d \in HttpClients : sock'[d] # 0 /\ ConnOf(d)' = k
        BY <2>1
    <3>1. PICK d \in HttpClients : sock[d] # 0 /\ ConnOf(d) = k
        BY <2>1 DEF ClientMove, WireOf, OwnedInv
    <3>2. d # c
        BY <1>7, <3>1 DEF HasConnected, HangsUp
    <3>3. sock'[d] = sock[d] /\ ConnOf(d)' = ConnOf(d)
        BY <1>3, <3>1, <3>2 DEF ClientMove, SocketsOf
    <3> QED
        BY <3>1, <3>3
  <2> QED
      BY <2>2, <2>3, <2>4 DEF OwnedInv
<1> QED
    BY <1>5, <1>6, <1>7 DEF ClientMove

\* A call with some of its fields changed.
ToPlace(p, pc) == [p EXCEPT !.pc = pc]
OnSocket(p, number, conn, pc) == [p EXCEPT !.number = number, !.conn = conn, !.pc = pc]
Failing(p, ret) == [p EXCEPT !.pc = "finish", !.ret = ret]
FailingOn(p, number, conn, ret) ==
    [p EXCEPT !.number = number, !.conn = conn, !.pc = "finish", !.ret = ret]
Expecting(p, of) == [p EXCEPT !.pc = "read_body", !.got.of = of]
Having(p, pc, ret, got) == [p EXCEPT !.pc = pc, !.ret = ret, !.got = got]
Ending(p, none) == [p EXCEPT !.pc = "done", !.number = none]

\* A call in another place of the code.
LEMMA PostMoved ==
    ASSUME NEW p \in Posts, NEW pc \in CallPlaces
    PROVE  LET q == ToPlace(p, pc)
           IN  /\ q \in Posts /\ q.pc = pc /\ q.ret = p.ret /\ q.number = p.number
               /\ q.conn = p.conn /\ q.got = p.got
  BY DEF Posts, ToPlace

\* A call that has copied its socket.
LEMMA PostOnSocket ==
    ASSUME NEW p \in Posts, NEW number \in Nat, NEW conn \in Nat, NEW pc \in CallPlaces
    PROVE  LET q == OnSocket(p, number, conn, pc)
           IN  q \in Posts /\ q.pc = pc /\ q.number = number /\ q.conn = conn /\ q.got = p.got
  BY DEF Posts, OnSocket

\* A call that has failed.
LEMMA PostFailing ==
    ASSUME NEW p \in Posts, NEW ret \in BOOLEAN
    PROVE  LET q == Failing(p, ret) IN q \in Posts /\ q.pc = "finish" /\ q.ret = ret
<1>1. "finish" \in CallPlaces
    BY DEF CallPlaces
<1> QED
    BY <1>1 DEF Posts, Failing

\* A call that has found its socket unusable.
LEMMA PostFailingOn ==
    ASSUME NEW p \in Posts, NEW number \in Nat, NEW conn \in Nat, NEW ret \in BOOLEAN
    PROVE  LET q == FailingOn(p, number, conn, ret)
           IN  q \in Posts /\ q.pc = "finish" /\ q.ret = ret
<1>1. "finish" \in CallPlaces
    BY DEF CallPlaces
<1> QED
    BY <1>1 DEF Posts, FailingOn

\* A call that has read the head of an answer.
LEMMA PostExpecting ==
    ASSUME NEW p \in Posts, NEW of \in Owners
    PROVE  LET q == Expecting(p, of)
           IN  /\ q \in Posts /\ q.pc = "read_body" /\ q.number = p.number /\ q.conn = p.conn
               /\ q.got.of = of
<1>1. "read_body" \in CallPlaces
    BY DEF CallPlaces
<1>2. p.got \in Answers
    BY DEF Posts
<1>3. [p.got EXCEPT !.of = of] \in Answers /\ [p.got EXCEPT !.of = of].of = of
    BY <1>2 DEF Answers
<1>4. Expecting(p, of) = [p EXCEPT !.pc = "read_body", !.got = [p.got EXCEPT !.of = of]]
    BY DEF Expecting
<1> DEFINE got == [p.got EXCEPT !.of = of]
<1> HIDE DEF got
<1>5. Expecting(p, of) = [p EXCEPT !.pc = "read_body", !.got = got]
    BY <1>4 DEF got
<1>6. got \in Answers /\ got.of = of
    BY <1>3 DEF got
<1> QED
    BY <1>1, <1>5, <1>6 DEF Posts

\* A call that has its answer.
LEMMA PostHaving ==
    ASSUME NEW p \in Posts, NEW pc \in CallPlaces, NEW ret \in BOOLEAN, NEW got \in Answers
    PROVE  LET q == Having(p, pc, ret, got)
           IN  /\ q \in Posts /\ q.pc = pc /\ q.ret = ret /\ q.got = got /\ q.number = p.number
               /\ q.conn = p.conn
  BY DEF Posts, Having

\* A call that returns.
LEMMA PostEnding ==
    ASSUME NEW p \in Posts, NEW none \in Nat
    PROVE  LET q == Ending(p, none)
           IN  q \in Posts /\ q.pc = "done" /\ q.ret = p.ret /\ q.conn = p.conn /\ q.got = p.got
<1>1. "done" \in CallPlaces
    BY DEF CallPlaces
<1> QED
    BY <1>1 DEF Posts, Ending

-----------------------------------------------------------------------------
\* Of the calls only that of t moves.
CallOf(t) ==
    /\ post' \in [Posters -> Posts]
    /\ \A u \in Posters : u # t => post'[u] = post[u]

\* A call that goes on.
LEMMA CallEffect ==
    ASSUME HttpTypeOK, NEW t \in Posters, NEW p \in Posts, Call(t, p)
    PROVE  CallOf(t) /\ post'[t] = p
  BY DEF Call, CallOf, HttpTypeOK, ClientTypeOK

\* The call and its client are of their types.
LEMMA CallTyped ==
    ASSUME HttpTypeOK, NEW t \in Posters
    PROVE  /\ post[t] \in Posts /\ uses[t] \in HttpClients /\ keepAlive[uses[t]] \in BOOLEAN
           /\ inFlight[uses[t]] \in Nat /\ sock[uses[t]] \in Numbers \cup {0}
  BY DEF HttpTypeOK, ClientTypeOK

\* What a call works on is the connection of its client.
LEMMA OnConn ==
    ASSUME HttpTypeOK, OwnedInv, CallsOnSockets, NEW t \in Posters,
           post[t].pc \in {"write_body", "read_head", "read_body", "hang_up"}
    PROVE  /\ sock[uses[t]] # 0 /\ Stream(t) = ConnOf(uses[t]) /\ ConnOf(uses[t]) \in Established
           /\ wire[ConnOf(uses[t])] \in Conns /\ wire[ConnOf(uses[t])].cs # "closed"
           /\ post[t].conn = ConnOf(uses[t])
<1>1. /\ sock[uses[t]] # 0 /\ post[t].number = sock[uses[t]]
      /\ post[t].conn = ConnOf(uses[t])
    BY DEF CallsOnSockets
<1>2. ConnOf(uses[t]) \in Established /\ wire[ConnOf(uses[t])].cs # "closed"
    BY <1>1, CallTyped DEF OwnedInv
<1>3. wire[ConnOf(uses[t])] \in Conns
    BY <1>2, ElementOfSeq DEF HttpTypeOK, Established
<1> QED
    BY <1>1, <1>2, <1>3 DEF Stream, ConnOf

\* What write_data() of a client sends.
LEMMA SegmentTyped ==
    ASSUME HttpTypeOK, NEW t \in Posters, NEW part \in Parts
    PROVE  /\ Segment(t, part) \in Segments /\ Segment(t, part).part = part
           /\ Segment(t, part).of = t /\ Segment(t, part).more = (t \in Writers)
<1>1. keepAlive[uses[t]] \in BOOLEAN
    BY CallTyped
<1>2. (~keepAlive[uses[t]]) \in BOOLEAN /\ (t \in Writers) \in BOOLEAN
    BY <1>1
<1> QED
    BY <1>2 DEF Segment, Segments

\* A client sends on its connection.
LEMMA UploadMove ==
    ASSUME HttpTypeOK, OwnedInv, NEW c \in HttpClients, sock[c] # 0, NEW seg \in Segments,
           wire' = ClientSends(ConnOf(c), seg), UNCHANGED <<sock, descriptors>>
    PROVE  ClientMove(c) /\ Keeps(c) /\ Uploads(wire[ConnOf(c)], wire'[ConnOf(c)], seg)
<1> DEFINE k == ConnOf(c)
           n == wire[k]
           up == IF n.ss = "closed" THEN n.up ELSE Append(n.up, seg)
           n2 == [n EXCEPT !.up = up]
<1>1. k \in Established /\ n \in Conns
    BY ElementOfSeq DEF OwnedInv, HttpTypeOK, Established
<1>2. n.up \in Seq(Segments)
    BY <1>1 DEF Conns
<1>3. up \in Seq(Segments)
    BY <1>2, AppendProperties
<1>4. wire' = [wire EXCEPT ![k] = n2]
    BY DEF ClientSends
<1> HIDE DEF up
<1>5. n2 \in Conns /\ n2.up = up /\ n2.down = n.down /\ n2.cs = n.cs /\ n2.ss = n.ss /\ n2.late = n.late
    BY <1>1, <1>3 DEF Conns
<1> HIDE DEF n2
<1>6. ClientMove(c) /\ Keeps(c) /\ wire'[k] = n2
    BY <1>4, <1>5, MoveOnConn
<1> QED
    BY <1>5, <1>6 DEF Uploads, up

\* A client reads from its connection.
LEMMA DownloadMove ==
    ASSUME HttpTypeOK, OwnedInv, NEW c \in HttpClients, sock[c] # 0,
           wire[ConnOf(c)].down # <<>>,
           wire' = [wire EXCEPT ![ConnOf(c)].down = Tail(@)], UNCHANGED <<sock, descriptors>>
    PROVE  /\ ClientMove(c) /\ Keeps(c) /\ Downloads(wire[ConnOf(c)], wire'[ConnOf(c)])
           /\ Head(wire[ConnOf(c)].down) = wire[ConnOf(c)].down[1]
           /\ wire[ConnOf(c)].down[1] \in Replies
<1> DEFINE k == ConnOf(c)
           n == wire[k]
           n2 == [n EXCEPT !.down = Tail(@)]
<1>1. k \in Established /\ n \in Conns
    BY ElementOfSeq DEF OwnedInv, HttpTypeOK, Established
<1>2. n.down \in Seq(Replies) /\ Len(n.down) \in Nat \ {0}
    BY <1>1, EmptySeq DEF Conns
<1>3. /\ Tail(n.down) \in Seq(Replies) /\ Len(Tail(n.down)) = Len(n.down) - 1
      /\ \A i \in 1..Len(Tail(n.down)) : Tail(n.down)[i] = n.down[i + 1]
      /\ Head(n.down) = n.down[1]
    BY <1>2, HeadTailProperties
<1>4. n.down[1] \in Replies
    BY <1>2, ElementOfSeq
<1>5. wire' = [wire EXCEPT ![k] = n2]
    OBVIOUS
<1>6. /\ n2 \in Conns /\ n2.up = n.up /\ n2.down = Tail(n.down) /\ n2.cs = n.cs /\ n2.ss = n.ss
      /\ n2.late = n.late
    BY <1>1, <1>3 DEF Conns
<1> HIDE DEF n2
<1>7. ClientMove(c) /\ Keeps(c) /\ wire'[k] = n2
    BY <1>5, <1>6, MoveOnConn
<1> QED
    BY <1>2, <1>3, <1>4, <1>6, <1>7 DEF Downloads

(* What a step of a call does to its connection, n, and to itself, p.      *)
Asks(t, n, p, n2, p2) ==
    /\ p.pc = "write_head" /\ n.cs = "open"
    /\ \E seg \in Segments : /\ seg.part = "head" /\ seg.of = t /\ seg.more = (t \in Writers)
                             /\ Uploads(n, n2, seg)
    /\ p2.pc = (IF t \in Writers THEN "write_body" ELSE "read_head") /\ p2.ret = FALSE
AsksMore(t, n, p, n2, p2) ==
    /\ p.pc = "write_body"
    /\ \E seg \in Segments : seg.part = "body" /\ Uploads(n, n2, seg)
    /\ p2.pc = "read_head" /\ p2.ret = FALSE
Hears(n, p, n2, p2) ==
    /\ Downloads(n, n2) /\ p.pc = "read_head" /\ n.down[1] \in Replies
    /\ n.down[1].more => p2.pc = "read_body" /\ p2.got.of = n.down[1].of /\ p2.ret = FALSE
    /\ ~n.down[1].more => /\ p2.pc \in {"hang_up", "finish"} /\ p2.ret = TRUE
                          /\ p2.got.of = n.down[1].of /\ p2.got.status = n.down[1].status
HearsMore(n, p, n2, p2) ==
    /\ Downloads(n, n2) /\ p.pc = "read_body" /\ n.down[1] \in Replies
    /\ p2.pc \in {"hang_up", "finish"} /\ p2.ret = TRUE
    /\ p2.got.of = (IF p.got.of = n.down[1].of THEN n.down[1].of ELSE 0)
    /\ p2.got.status = n.down[1].status
GivesUpCall(n, p, n2, p2) ==
    /\ p.pc \in {"write_head", "write_body", "read_head", "read_body"} /\ n2 = n
    /\ p2.pc = "finish" /\ p2.ret = FALSE

Talks(t, n, p, n2, p2) ==
    Asks(t, n, p, n2, p2) \/ AsksMore(t, n, p, n2, p2) \/ Hears(n, p, n2, p2)
    \/ HearsMore(n, p, n2, p2) \/ GivesUpCall(n, p, n2, p2)

\* A step of process_request() on the socket of the client.
TalkStep(t) ==
    LET c == uses[t] IN
    /\ sock[c] # 0 /\ ClientMove(c) /\ Keeps(c) /\ CallOf(t)
    /\ Talks(t, wire[ConnOf(c)], post[t], wire'[ConnOf(c)], post'[t])
    /\ post'[t].pc \in {"write_body", "read_head", "read_body", "hang_up"} =>
          post'[t].number = sock[c] /\ post'[t].conn = ConnOf(c)
    /\ post'[t].ret => post'[t].conn = ConnOf(c)
    /\ UNCHANGED <<inFlight, closeWhenDone>> /\ ClientStays

\* The socket of a call that is to send its head.
LEMMA SocketTyped ==
    ASSUME HttpTypeOK, OwnedInv, NEW c \in HttpClients, sock[c] # 0
    PROVE  /\ ConnOf(c) \in Established /\ wire[ConnOf(c)] \in Conns /\ ConnOf(c) # 0
           /\ sock[c] \in Nat /\ ConnOf(c) \in Nat
<1>1. ConnOf(c) \in Established
    BY DEF OwnedInv
<1>2. wire[ConnOf(c)] \in Conns /\ ConnOf(c) # 0 /\ ConnOf(c) \in Nat
    BY <1>1, ElementOfSeq DEF HttpTypeOK, Established
<1>3. sock[c] \in Nat
    BY NumbersTyped DEF HttpTypeOK, ClientTypeOK
<1> QED
    BY <1>1, <1>2, <1>3

\* process_socket() and write_request()
LEMMA SendHeadStep ==
    ASSUME HttpTypeOK, OwnedInv, CallsOnSockets, NEW t \in Posters, SendHead(t)
    PROVE  TalkStep(t)
<1> DEFINE c == uses[t]
           k == ConnOf(c)
           n == wire[k]
           p == post[t]
<1>1. p.pc = "write_head" /\ SocketStays /\ ClientStays
    BY DEF SendHead, In
<1>2. p \in Posts /\ c \in HttpClients
    BY CallTyped
<1>3. sock[c] # 0
    BY <1>1 DEF CallsOnSockets
<1>4. k \in Established /\ n \in Conns /\ k # 0 /\ sock[c] \in Nat /\ k \in Nat
    BY <1>2, <1>3, SocketTyped
<1> DEFINE number == sock[c]
           conn == k
<1>5. CASE CanWrite(k)
  <2> DEFINE pc == IF t \in Writers THEN "write_body" ELSE "read_head"
             q == OnSocket(p, number, conn, pc)
             seg == Segment(t, "head")
  <2>1. number \in Nat /\ conn \in Nat /\ pc \in CallPlaces
      BY <1>4 DEF CallPlaces
  <2>2. Call(t, q) /\ wire' = ClientSends(k, seg)
      BY <1>3, <1>5 DEF SendHead, ConnOf, OnSocket
  <2>3. seg \in Segments /\ seg.part = "head" /\ seg.of = t /\ seg.more = (t \in Writers)
      BY SegmentTyped DEF Parts
  <2> HIDE DEF number, conn, pc, seg
  <2>4. q \in Posts /\ q.pc = pc /\ q.number = number /\ q.conn = conn
      BY <1>2, <2>1, PostOnSocket
  <2>9. q.ret = p.ret
      BY <1>2 DEF OnSocket, Posts
  <2> HIDE DEF q
  <2>5. CallOf(t) /\ post'[t] = q
      BY <2>2, <2>4, CallEffect
  <2>6. ClientMove(c) /\ Keeps(c) /\ Uploads(n, wire'[k], seg)
      BY <1>1, <1>2, <1>3, <2>2, <2>3, UploadMove DEF SocketStays
  <2>7. n.cs = "open"
      BY <1>5 DEF CanWrite
  <2>10. p.ret = FALSE
      BY <1>1, <1>2 DEF CallsOnSockets, Posts
  <2>8. Asks(t, n, p, wire'[k], post'[t])
      BY <1>1, <2>3, <2>4, <2>5, <2>6, <2>7, <2>9, <2>10 DEF Asks, pc
  <2> QED
      BY <1>1, <1>3, <2>4, <2>5, <2>6, <2>8 DEF TalkStep, Talks, SocketStays, number, conn
<1>6. CASE ~CanWrite(k)
  <2> DEFINE ret == FALSE
             q == FailingOn(p, number, conn, ret)
  <2>1. number \in Nat /\ conn \in Nat /\ ret \in BOOLEAN
      BY <1>4
  <2>2. Call(t, q) /\ UNCHANGED wire
      BY <1>3, <1>6 DEF SendHead, ConnOf, FailingOn
  <2> HIDE DEF number, conn, ret
  <2>3. q \in Posts /\ q.pc = "finish" /\ q.ret = ret
      BY <1>2, <2>1, PostFailingOn
  <2> HIDE DEF q
  <2>4. CallOf(t) /\ post'[t] = q
      BY <2>2, <2>3, CallEffect
  <2>5. ClientMove(c) /\ Keeps(c)
      BY <1>1, <1>2, <2>2, MoveNowhere DEF SocketStays
  <2>6. GivesUpCall(n, p, wire'[k], post'[t])
      BY <1>1, <2>2, <2>3, <2>4 DEF GivesUpCall, ret
  <2> QED
      BY <1>1, <1>3, <2>3, <2>4, <2>5, <2>6 DEF TalkStep, Talks, SocketStays, ret
<1> QED
    BY <1>5, <1>6

\* A call that gives up on its socket.
LEMMA FailsStep ==
    ASSUME HttpTypeOK, OwnedInv, CallsOnSockets, NEW t \in Posters, Call(t, Fails(t)), UNCHANGED wire,
           SocketStays, ClientStays, post[t].pc \in {"write_body", "read_head", "read_body"}
    PROVE  TalkStep(t)
<1> DEFINE c == uses[t]
           k == ConnOf(c)
           p == post[t]
           ret == FALSE
           q == Failing(p, ret)
<1>1. p \in Posts /\ c \in HttpClients /\ ret \in BOOLEAN
    BY CallTyped
<1>2. Call(t, q)
    BY DEF Fails, Failing
<1> HIDE DEF ret
<1>3. q \in Posts /\ q.pc = "finish" /\ q.ret = ret
    BY <1>1, PostFailing
<1> HIDE DEF q
<1>4. CallOf(t) /\ post'[t] = q
    BY <1>2, <1>3, CallEffect
<1>5. ClientMove(c) /\ Keeps(c)
    BY <1>1, MoveNowhere DEF SocketStays
<1>6. GivesUpCall(wire[k], p, wire'[k], post'[t])
    BY <1>3, <1>4 DEF GivesUpCall, ret
<1>7. sock[c] # 0
    BY OnConn
<1> QED
    BY <1>3, <1>4, <1>5, <1>6, <1>7 DEF TalkStep, Talks, SocketStays, ret

\* write_request(), the body.
LEMMA SendBodyStep ==
    ASSUME HttpTypeOK, OwnedInv, CallsOnSockets, NEW t \in Posters, SendBody(t)
    PROVE  TalkStep(t)
<1> DEFINE c == uses[t]
           k == ConnOf(c)
           n == wire[k]
           p == post[t]
<1>1. p.pc = "write_body" /\ SocketStays /\ ClientStays
    BY DEF SendBody, In
<1>2. p \in Posts /\ c \in HttpClients
    BY CallTyped
<1>3. sock[c] # 0 /\ Stream(t) = k /\ k \in Established /\ n \in Conns /\ p.conn = k
      /\ p.number = sock[c]
    BY <1>1, OnConn DEF CallsOnSockets
<1>4. CASE CanWrite(Stream(t))
  <2> DEFINE pc == "read_head"
             q == ToPlace(p, pc)
             seg == Segment(t, "body")
  <2>1. Call(t, q) /\ wire' = ClientSends(k, seg)
      BY <1>3, <1>4 DEF SendBody, ToPlace
  <2>2. seg \in Segments /\ seg.part = "body"
      BY SegmentTyped DEF Parts
  <2>3. pc \in CallPlaces
      BY DEF CallPlaces
  <2> HIDE DEF seg, pc
  <2>4. q \in Posts /\ q.pc = pc /\ q.ret = p.ret /\ q.number = p.number /\ q.conn = p.conn
      BY <1>2, <2>3, PostMoved
  <2> HIDE DEF q
  <2>5. CallOf(t) /\ post'[t] = q
      BY <2>1, <2>4, CallEffect
  <2>6. ClientMove(c) /\ Keeps(c) /\ Uploads(n, wire'[k], seg)
      BY <1>1, <1>2, <1>3, <2>1, <2>2, UploadMove DEF SocketStays
  <2>7. p.ret = FALSE
      BY <1>1, <1>2 DEF CallsOnSockets, Posts
  <2>8. AsksMore(t, n, p, wire'[k], post'[t])
      BY <1>1, <2>2, <2>4, <2>5, <2>6, <2>7 DEF AsksMore, pc
  <2> QED
      BY <1>1, <1>3, <2>4, <2>5, <2>6, <2>8 DEF TalkStep, Talks, SocketStays
<1>5. CASE ~CanWrite(Stream(t))
  <2>1. Call(t, Fails(t)) /\ UNCHANGED wire
      BY <1>5 DEF SendBody
  <2> QED
      BY <1>1, <2>1, FailsStep
<1> QED
    BY <1>4, <1>5

\* Nothing comes.
LEMMA ReadFailsStep ==
    ASSUME HttpTypeOK, OwnedInv, CallsOnSockets, NEW t \in Posters, ReadFails(t)
    PROVE  TalkStep(t)
<1>1. /\ Call(t, Fails(t)) /\ UNCHANGED wire /\ SocketStays /\ ClientStays
      /\ post[t].pc \in {"write_body", "read_head", "read_body"}
    BY DEF ReadFails, In
<1> QED
    BY <1>1, FailsStep

\* What a reply holds.
LEMMA ReplyTyped ==
    ASSUME NEW a \in Replies
    PROVE  /\ a.of \in Owners /\ a.status \in Statuses /\ a.more \in BOOLEAN /\ a.close \in BOOLEAN
           /\ \A of \in Owners : [of |-> of, status |-> a.status] \in Answers
  BY DEF Replies, Answers

\* A whole answer has been read.
LEMMA ReceivedTyped ==
    ASSUME HttpTypeOK, NEW t \in Posters, NEW a, a.of \in Owners, a.status \in Statuses,
           a.close \in BOOLEAN
    PROVE  LET q == Received(t, a)
           IN  /\ q \in Posts /\ q.pc \in {"hang_up", "finish"} /\ q.ret = TRUE /\ q.got.of = a.of
               /\ q.got.status = a.status /\ q.number = post[t].number /\ q.conn = post[t].conn
<1> DEFINE pc == IF a.close THEN "hang_up" ELSE "finish"
           ret == TRUE
           got == [of |-> a.of, status |-> a.status]
<1>1. pc \in CallPlaces /\ pc \in {"hang_up", "finish"} /\ ret \in BOOLEAN
    BY DEF CallPlaces
<1>2. got \in Answers /\ got.of = a.of /\ got.status = a.status
    BY DEF Answers
<1>3. Received(t, a) = Having(post[t], pc, ret, got)
    BY DEF Received, Having
<1>4. post[t] \in Posts
    BY CallTyped
<1> HIDE DEF pc, ret, got
<1>5. /\ Received(t, a) \in Posts /\ Received(t, a).pc = pc /\ Received(t, a).ret = ret
      /\ Received(t, a).got = got /\ Received(t, a).number = post[t].number
      /\ Received(t, a).conn = post[t].conn
    BY <1>1, <1>2, <1>3, <1>4, PostHaving
<1> QED
    BY <1>1, <1>2, <1>5 DEF ret

\* read_response_line() and read_headers()
LEMMA ReadHeadStep ==
    ASSUME HttpTypeOK, OwnedInv, CallsOnSockets, NEW t \in Posters, ReadHead(t)
    PROVE  TalkStep(t)
<1> DEFINE c == uses[t]
           k == ConnOf(c)
           n == wire[k]
           p == post[t]
           a == n.down[1]
<1>1. p.pc = "read_head" /\ SocketStays /\ ClientStays
    BY DEF ReadHead, In
<1>2. p \in Posts /\ c \in HttpClients
    BY CallTyped
<1>3. sock[c] # 0 /\ Stream(t) = k /\ k \in Established /\ n \in Conns /\ p.conn = k
      /\ p.number = sock[c]
    BY <1>1, OnConn DEF CallsOnSockets
<1>4. n.down # <<>> /\ wire' = [wire EXCEPT ![k].down = Tail(@)]
    BY <1>3 DEF ReadHead
<1>5. /\ ClientMove(c) /\ Keeps(c) /\ Downloads(n, wire'[k]) /\ Head(n.down) = a /\ a \in Replies
    BY <1>1, <1>2, <1>3, <1>4, DownloadMove DEF SocketStays
<1>6. a.of \in Owners /\ a.status \in Statuses /\ a.close \in BOOLEAN
    BY <1>5, ReplyTyped
<1>7. Call(t, IF a.more THEN [p EXCEPT !.pc = "read_body", !.got.of = a.of] ELSE Received(t, a))
    BY <1>3, <1>5 DEF ReadHead
<1>8. CASE a.more
  <2> DEFINE of == a.of
             q == Expecting(p, of)
  <2>1. Call(t, q)
      BY <1>7, <1>8 DEF Expecting
  <2> HIDE DEF of
  <2>2. of \in Owners
      BY <1>6 DEF of
  <2>3. q \in Posts /\ q.pc = "read_body" /\ q.number = p.number /\ q.conn = p.conn /\ q.got.of = of
      BY <1>2, <2>2, PostExpecting
  <2>4. q.ret = p.ret
      BY <1>2 DEF Expecting, Posts
  <2>5. p.ret = FALSE
      BY <1>1, <1>2 DEF CallsOnSockets, Posts
  <2> HIDE DEF q
  <2>6. CallOf(t) /\ post'[t] = q
      BY <2>1, <2>3, CallEffect
  <2>7. Hears(n, p, wire'[k], post'[t])
      BY <1>1, <1>5, <1>8, <2>3, <2>4, <2>5, <2>6 DEF Hears, of
  <2> QED
      BY <1>1, <1>3, <1>5, <2>3, <2>4, <2>5, <2>6, <2>7 DEF TalkStep, Talks, SocketStays
<1>9. CASE ~a.more
  <2> DEFINE q == Received(t, a)
  <2>1. Call(t, q)
      BY <1>7, <1>9
  <2>2. /\ q \in Posts /\ q.pc \in {"hang_up", "finish"} /\ q.ret = TRUE /\ q.got.of = a.of
        /\ q.got.status = a.status /\ q.number = p.number /\ q.conn = p.conn
      BY <1>6, ReceivedTyped
  <2> HIDE DEF q
  <2>3. CallOf(t) /\ post'[t] = q
      BY <2>1, <2>2, CallEffect
  <2>4. Hears(n, p, wire'[k], post'[t])
      BY <1>1, <1>5, <1>9, <2>2, <2>3 DEF Hears
  <2> QED
      BY <1>1, <1>3, <1>5, <2>2, <2>3, <2>4 DEF TalkStep, Talks, SocketStays
<1> QED
    BY <1>8, <1>9

\* read_content_with_length()
LEMMA ReadBodyStep ==
    ASSUME HttpTypeOK, OwnedInv, CallsOnSockets, NEW t \in Posters, ReadBody(t)
    PROVE  TalkStep(t)
<1> DEFINE c == uses[t]
           k == ConnOf(c)
           n == wire[k]
           p == post[t]
           a == n.down[1]
           of == IF p.got.of = a.of THEN a.of ELSE 0
           b == [a EXCEPT !.of = of]
<1>1. p.pc = "read_body" /\ SocketStays /\ ClientStays
    BY DEF ReadBody, In
<1>2. p \in Posts /\ c \in HttpClients
    BY CallTyped
<1>3. sock[c] # 0 /\ Stream(t) = k /\ k \in Established /\ n \in Conns /\ p.conn = k
      /\ p.number = sock[c]
    BY <1>1, OnConn DEF CallsOnSockets
<1>4. n.down # <<>> /\ wire' = [wire EXCEPT ![k].down = Tail(@)]
    BY <1>3 DEF ReadBody
<1>5. /\ ClientMove(c) /\ Keeps(c) /\ Downloads(n, wire'[k]) /\ Head(n.down) = a /\ a \in Replies
    BY <1>1, <1>2, <1>3, <1>4, DownloadMove DEF SocketStays
<1>6. a.of \in Owners /\ a.status \in Statuses /\ a.close \in BOOLEAN
    BY <1>5, ReplyTyped
<1>7. Call(t, Received(t, b))
    BY <1>3, <1>5 DEF ReadBody
<1>8. of \in Owners
    BY <1>6, Places
<1> HIDE DEF of
<1>9. b.of = of /\ b.status = a.status /\ b.close = a.close
    BY <1>5 DEF Replies
<1> DEFINE q == Received(t, b)
<1> HIDE DEF b
<1>10. /\ q \in Posts /\ q.pc \in {"hang_up", "finish"} /\ q.ret = TRUE /\ q.got.of = b.of
       /\ q.got.status = b.status /\ q.number = p.number /\ q.conn = p.conn
    BY <1>6, <1>8, <1>9, ReceivedTyped
<1> HIDE DEF q
<1>11. CallOf(t) /\ post'[t] = q
    BY <1>7, <1>10, CallEffect DEF q
<1>12. HearsMore(n, p, wire'[k], post'[t])
    BY <1>1, <1>5, <1>9, <1>10, <1>11 DEF HearsMore, of
<1> QED
    BY <1>1, <1>3, <1>5, <1>10, <1>11, <1>12 DEF TalkStep, Talks, SocketStays

\* A step of a call by which nothing but its place changes.
Moves(t, pc) ==
    /\ CallOf(t) /\ post'[t].pc = pc /\ post'[t].ret = post[t].ret
    /\ post'[t].conn = post[t].conn /\ post'[t].got = post[t].got
    /\ post'[t].number = post[t].number

\* A call that goes to another place.
LEMMA MovesTo ==
    ASSUME HttpTypeOK, NEW t \in Posters, NEW pc \in CallPlaces,
           Call(t, [post[t] EXCEPT !.pc = pc])
    PROVE  Moves(t, pc)
<1>1. post[t] \in Posts
    BY CallTyped
<1> DEFINE q == ToPlace(post[t], pc)
<1>2. /\ q \in Posts /\ q.pc = pc /\ q.ret = post[t].ret /\ q.number = post[t].number
      /\ q.conn = post[t].conn /\ q.got = post[t].got
    BY <1>1, PostMoved
<1>3. Call(t, q)
    BY DEF ToPlace
<1> HIDE DEF q
<1>4. CallOf(t) /\ post'[t] = q
    BY <1>2, <1>3, CallEffect
<1> QED
    BY <1>2, <1>4 DEF Moves

\* The places a call can go to.
LEMMA PlacesOfCalls ==
    {"lock", "connect", "write_head", "finish", "done"} \subseteq CallPlaces
  BY DEF CallPlaces

\* A step of a call that is no part of process_request().
PostStep(t) ==
    /\ post[t].pc = "idle" /\ Moves(t, "lock")
    /\ UNCHANGED wire /\ SocketStays /\ ClientStays
LockStep(t) ==
    /\ post[t].pc = "lock" /\ Moves(t, "connect") /\ ~requestMutex[uses[t]]
    /\ requestMutex' = [requestMutex EXCEPT ![uses[t]] = TRUE]
    /\ UNCHANGED <<wire, uses, keepAlive, destroyed>> /\ SocketStays
ConnectStep(t) ==
    LET c == uses[t] IN
    /\ post[t].pc = "connect" /\ Moves(t, "write_head")
    /\ inFlight' = [inFlight EXCEPT ![c] = @ + 1]
    /\ closeWhenDone' = [closeWhenDone EXCEPT ![c] = FALSE]
    /\ ClientStays
    /\ \/ UNCHANGED <<wire, sock, descriptors>> /\ sock[c] # 0
       \/ ClientMove(c) /\ HasConnected(c)
NoConnectStep(t) ==
    LET c == uses[t] IN
    /\ post[t].pc = "connect" /\ Moves(t, "done")
    /\ closeWhenDone' = [closeWhenDone EXCEPT ![c] = FALSE]
    /\ requestMutex' = [requestMutex EXCEPT ![c] = FALSE]
    /\ ClientMove(c) /\ HasHungUp(c)
    /\ UNCHANGED <<inFlight, uses, keepAlive, destroyed>>
HangUpStep(t) ==
    LET c == uses[t] IN
    /\ post[t].pc = "hang_up" /\ Moves(t, "finish")
    /\ ClientMove(c) /\ HasHungUp(c)
    /\ UNCHANGED <<inFlight, closeWhenDone>> /\ ClientStays
FinishStep(t) ==
    LET c == uses[t] IN
    /\ post[t].pc = "finish" /\ CallOf(t) /\ post'[t].pc = "done" /\ post'[t].ret = post[t].ret
    /\ post'[t].conn = post[t].conn /\ post'[t].got = post[t].got
    /\ inFlight' = [inFlight EXCEPT ![c] = @ - 1]
    /\ requestMutex' = [requestMutex EXCEPT ![c] = FALSE]
    /\ ClientMove(c)
    /\ \/ HasHungUp(c)
       \/ /\ UNCHANGED <<wire, sock, descriptors>>
          /\ ~closeWhenDone[c] /\ keepAlive[c] /\ post[t].ret
    /\ UNCHANGED <<closeWhenDone, uses, keepAlive, destroyed>>

\* What the steps outside process_request() do.
LEMMA CallSteps ==
    ASSUME HttpTypeOK, OwnedInv, NEW t \in Posters
    PROVE  /\ Post(t) => PostStep(t)
           /\ LockRequests(t) => LockStep(t)
           /\ Reuse(t) => ConnectStep(t)
           /\ \A listens : Connect(t, listens) => ConnectStep(t)
           /\ ConnectFails(t) => NoConnectStep(t)
           /\ HangUpOnAnswer(t) => HangUpStep(t)
           /\ FinishSend(t) => FinishStep(t)
<1>1. uses[t] \in HttpClients
    BY CallTyped
<1>2. \A pc \in {"lock", "connect", "write_head", "finish", "done"} :
         Call(t, [post[t] EXCEPT !.pc = pc]) => Moves(t, pc)
    BY MovesTo, PlacesOfCalls
<1>3. Post(t) => PostStep(t)
    BY <1>2 DEF Post, PostStep, In
<1>4. LockRequests(t) => LockStep(t)
    BY <1>2 DEF LockRequests, LockStep, In
<1>5. Reuse(t) => ConnectStep(t)
    BY <1>2 DEF Reuse, ConnectStep, In, HasLiveSocket
<1>6. ASSUME NEW listens, Connect(t, listens) PROVE ConnectStep(t)
  <2>1. ClientMove(uses[t]) /\ HasConnected(uses[t])
      BY <1>6, ConnectMove
  <2>2. /\ post[t].pc = "connect" /\ Call(t, [post[t] EXCEPT !.pc = "write_head"])
        /\ inFlight' = [inFlight EXCEPT ![uses[t]] = @ + 1]
        /\ closeWhenDone' = [closeWhenDone EXCEPT ![uses[t]] = FALSE] /\ ClientStays
      BY <1>6 DEF Connect, In
  <2> QED
      BY <1>2, <2>1, <2>2 DEF ConnectStep
<1>7. ConnectFails(t) => NoConnectStep(t)
    BY <1>1, <1>2, HangUpMove DEF ConnectFails, NoConnectStep, In
<1>8. HangUpOnAnswer(t) => HangUpStep(t)
    BY <1>1, <1>2, HangUpMove DEF HangUpOnAnswer, HangUpStep, In
<1>9. ASSUME FinishSend(t) PROVE FinishStep(t)
  <2> DEFINE none == 0
             q == Ending(post[t], none)
  <2>1. none \in Nat /\ post[t] \in Posts
      BY CallTyped
  <2>2. Call(t, q)
      BY <1>9 DEF FinishSend, Ending
  <2> HIDE DEF none
  <2>3. q \in Posts /\ q.pc = "done" /\ q.ret = post[t].ret /\ q.conn = post[t].conn
        /\ q.got = post[t].got
      BY <2>1, PostEnding
  <2> HIDE DEF q
  <2>4. CallOf(t) /\ post'[t] = q
      BY <2>2, <2>3, CallEffect
  <2>5. ClientMove(uses[t])
        /\ \/ HasHungUp(uses[t])
           \/ /\ UNCHANGED <<wire, sock, descriptors>>
              /\ ~closeWhenDone[uses[t]] /\ keepAlive[uses[t]] /\ post[t].ret
      BY <1>1, <1>9, HangUpMove, MoveNowhere DEF FinishSend
  <2>6. /\ post[t].pc = "finish"
        /\ inFlight' = [inFlight EXCEPT ![uses[t]] = @ - 1]
        /\ requestMutex' = [requestMutex EXCEPT ![uses[t]] = FALSE]
        /\ UNCHANGED <<closeWhenDone, uses, keepAlive, destroyed>>
      BY <1>9 DEF FinishSend, In
  <2> QED
      BY <2>3, <2>4, <2>5, <2>6 DEF FinishStep
<1> QED
    BY <1>3, <1>4, <1>5, <1>6, <1>7, <1>8, <1>9

\* stop() of a client, and its end.
StopStep(c) ==
    /\ c \notin destroyed /\ ClientMove(c)
    /\ \/ /\ inFlight[c] > 0 /\ Keeps(c) /\ closeWhenDone' = [closeWhenDone EXCEPT ![c] = TRUE]
          /\ sock[c] # 0 => Shuts(wire[ConnOf(c)], wire'[ConnOf(c)])
       \/ inFlight[c] = 0 /\ HasHungUp(c) /\ UNCHANGED closeWhenDone
    /\ UNCHANGED <<uses, keepAlive, inFlight, requestMutex, post, destroyed>>
GoneStep(c) ==
    /\ ClientMove(c) /\ HasHungUp(c) /\ \A t \in Posters : post[t].pc = "done"
    /\ destroyed' = destroyed \cup {c}
    /\ UNCHANGED <<uses, keepAlive, inFlight, closeWhenDone, requestMutex, post>>

\* What stop() and the destructor do.
LEMMA ClientSteps ==
    ASSUME HttpTypeOK, OwnedInv, NEW c \in HttpClients
    PROVE  (StopClient(c) => StopStep(c)) /\ (DestroyClient(c) => GoneStep(c))
<1>1. DestroyClient(c) => GoneStep(c)
    BY HangUpMove DEF DestroyClient, GoneStep
<1>2. ASSUME StopClient(c) PROVE StopStep(c)
  <2>1. c \notin destroyed /\ UNCHANGED <<uses, keepAlive, inFlight, requestMutex, post, destroyed>>
      BY <1>2 DEF StopClient
  <2>2. inFlight[c] \in Nat
      BY DEF HttpTypeOK, ClientTypeOK
  <2>3. CASE inFlight[c] > 0
    <3>1. /\ wire' = (IF sock[c] = 0 THEN wire ELSE ClientShuts(descriptors[sock[c]]))
          /\ closeWhenDone' = [closeWhenDone EXCEPT ![c] = TRUE] /\ UNCHANGED <<sock, descriptors>>
        BY <1>2, <2>3 DEF StopClient
    <3>2. CASE sock[c] = 0
      <4>1. UNCHANGED <<wire, sock, descriptors>>
          BY <3>1, <3>2
      <4>2. ClientMove(c) /\ Keeps(c)
          BY <4>1, MoveNowhere
      <4> QED
          BY <2>1, <2>3, <3>1, <3>2, <4>2 DEF StopStep
    <3>3. CASE sock[c] # 0
      <4> DEFINE n == wire[ConnOf(c)]
                 cs == IF n.cs = "open" THEN "shut" ELSE n.cs
                 n2 == [n EXCEPT !.cs = cs]
      <4>1. n \in Conns
          BY <3>3, SocketTyped
      <4>2. cs \in ClientEnds /\ cs \in {n.cs, "shut"}
          BY <4>1 DEF Conns, ClientEnds
      <4>3. wire' = [wire EXCEPT ![ConnOf(c)] = n2]
          BY <3>1, <3>3 DEF ClientShuts, ConnOf
      <4> HIDE DEF cs
      <4>4. n2 \in Conns /\ n2.cs = cs /\ n2.up = n.up /\ n2.down = n.down /\ n2.ss = n.ss
            /\ n2.late = n.late
          BY <4>1, <4>2 DEF Conns
      <4> HIDE DEF n2
      <4>5. ClientMove(c) /\ Keeps(c) /\ wire'[ConnOf(c)] = n2
          BY <3>1, <3>3, <4>2, <4>3, <4>4, MoveOnConn
      <4>6. Shuts(n, n2)
          BY <4>4 DEF Shuts, cs
      <4> QED
          BY <2>1, <2>3, <3>1, <4>5, <4>6 DEF StopStep
    <3> QED
        BY <3>2, <3>3
  <2>4. CASE ~(inFlight[c] > 0)
    <3>1. HangUp(c) /\ UNCHANGED closeWhenDone
        BY <1>2, <2>4 DEF StopClient
    <3>2. ClientMove(c) /\ HasHungUp(c)
        BY <3>1, HangUpMove
    <3>3. inFlight[c] = 0
        BY <2>2, <2>4
    <3> QED
        BY <2>1, <3>1, <3>2, <3>3 DEF StopStep
  <2> QED
      BY <2>3, <2>4
<1> QED
    BY <1>1, <1>2

\* The steps of a call.
CallStep(t) ==
    PostStep(t) \/ LockStep(t) \/ ConnectStep(t) \/ NoConnectStep(t) \/ TalkStep(t)
    \/ HangUpStep(t) \/ FinishStep(t)

\* Every step of a client is one of these.
LEMMA StepsOfClients ==
    ASSUME HttpTypeOK, OwnedInv, CallsOnSockets, NEW listens, ClientNext(listens)
    PROVE  (\E t \in Posters : CallStep(t)) \/ (\E c \in HttpClients : GoneStep(c))
<1>1. ASSUME NEW t \in Posters, PosterStep(t, listens) \/ Post(t) PROVE CallStep(t)
  <2>1. SendHead(t) \/ SendBody(t) \/ ReadHead(t) \/ ReadBody(t) \/ ReadFails(t) => TalkStep(t)
      BY SendHeadStep, SendBodyStep, ReadHeadStep, ReadBodyStep, ReadFailsStep
  <2>2. Connect(t, listens) => ConnectStep(t)
      BY CallSteps
  <2> QED
      BY <1>1, <2>1, <2>2, CallSteps DEF PosterStep, CallStep
<1> QED
    BY <1>1, ClientSteps DEF ClientNext

-----------------------------------------------------------------------------
\* Where the calls of process_request() are before and after.
LEMMA TalkPlaces ==
    ASSUME NEW t \in Posters, TalkStep(t)
    PROVE  /\ post[t].pc \in {"write_head", "write_body", "read_head", "read_body"}
           /\ post'[t].pc \in {"write_body", "read_head", "read_body", "hang_up", "finish"}
           /\ post'[t].pc \notin {"hang_up", "finish"} => post'[t].ret = FALSE
<1> DEFINE c == uses[t]
           n == wire[ConnOf(c)]
           n2 == wire'[ConnOf(c)]
           p == post[t]
           q == post'[t]
<1>1. Talks(t, n, p, n2, q)
    BY DEF TalkStep
<1> HIDE DEF n, n2, p, q
<1>2. CASE Asks(t, n, p, n2, q)
  <2>1. p.pc = "write_head" /\ q.pc \in {"write_body", "read_head"} /\ q.ret = FALSE
      BY <1>2 DEF Asks
  <2> QED
      BY <2>1 DEF p, q
<1>3. CASE AsksMore(t, n, p, n2, q)
    BY <1>3 DEF AsksMore, p, q
<1>4. CASE Hears(n, p, n2, q)
  <2>1. p.pc = "read_head" /\ (n.down[1].more => q.pc = "read_body" /\ q.ret = FALSE)
        /\ (~n.down[1].more => q.pc \in {"hang_up", "finish"})
      BY <1>4 DEF Hears
  <2> QED
      BY <2>1 DEF p, q
<1>5. CASE HearsMore(n, p, n2, q)
  <2>1. p.pc = "read_body" /\ q.pc \in {"hang_up", "finish"}
      BY <1>5 DEF HearsMore
  <2> QED
      BY <2>1 DEF p, q
<1>6. CASE GivesUpCall(n, p, n2, q)
    BY <1>6 DEF GivesUpCall, p, q
<1> QED
    BY <1>1, <1>2, <1>3, <1>4, <1>5, <1>6 DEF Talks

\* One call at a time: the steps of a call, by the places it leaves and reaches.
LEMMA CallsKept ==
    ASSUME HttpTypeOK, CallsInv, NEW t \in Posters, CallStep(t)
    PROVE  inFlight' \in [HttpClients -> Nat] /\ CallsInv'
<1> DEFINE c == uses[t]
<1>1. c \in HttpClients /\ uses \in [Posters -> HttpClients] /\ requestMutex \in [HttpClients -> BOOLEAN]
      /\ inFlight \in [HttpClients -> Nat]
    BY DEF HttpTypeOK, ClientTypeOK
<1>2. uses' = uses /\ \A u \in Posters : u # t => post'[u] = post[u]
    BY DEF CallStep, PostStep, LockStep, ConnectStep, NoConnectStep, TalkStep, HangUpStep, FinishStep,
           Moves, CallOf, ClientStays
<1>3. \A u \in Posters : u # t => (Busy(u)' <=> Busy(u)) /\ (Flying(u)' <=> Flying(u))
    BY <1>2 DEF Busy, Flying
<1>4. \A d \in HttpClients : d # c => (Idle(d)' <=> Idle(d))
    BY <1>2, <1>3 DEF Idle
<1>5. Busy(t) => requestMutex[c] /\ \A u \in Posters : Busy(u) /\ uses[u] = c => u = t
    BY DEF CallsInv
<1>6. \A u \in Posters : Flying(u) => Busy(u)
    BY DEF Busy
<1>7. CASE UNCHANGED <<requestMutex, inFlight>> /\ (Busy(t)' <=> Busy(t)) /\ (Flying(t)' <=> Flying(t))
  <2>1. \A u \in Posters : (Busy(u)' <=> Busy(u)) /\ (Flying(u)' <=> Flying(u))
      BY <1>3, <1>7
  <2>2. \A d \in HttpClients : Idle(d)' <=> Idle(d)
      BY <1>2, <2>1 DEF Idle
  <2> QED
      BY <1>1, <1>2, <1>7, <2>1, <2>2 DEF CallsInv
<1>8. CASE LockStep(t)
  <2>1. /\ post[t].pc = "lock" /\ post'[t].pc = "connect" /\ ~requestMutex[c] /\ inFlight' = inFlight
        /\ requestMutex' = [requestMutex EXCEPT ![c] = TRUE]
      BY <1>8 DEF LockStep, Moves, SocketStays
  <2>2. ~Flying(t) /\ ~Flying(t)' /\ Busy(t)'
      BY <2>1 DEF Flying, FlyingPlaces, Busy
  <2>3. \A u \in Posters : Busy(u) => uses[u] # c
      BY <2>1 DEF CallsInv
  <2>4. \A u \in Posters : Flying(u)' <=> Flying(u)
      BY <1>3, <2>2
  <2>5. \A d \in HttpClients : Idle(d)' <=> Idle(d)
      BY <1>2, <2>4 DEF Idle
  <2>6. \A u \in Posters : Busy(u)' => requestMutex'[uses[u]]
    <3>1. requestMutex'[c] /\ \A d \in HttpClients : d # c => requestMutex'[d] = requestMutex[d]
        BY <1>1, <2>1
    <3> QED
        BY <1>1, <1>3, <3>1 DEF CallsInv
  <2>7. \A u, v \in Posters : Busy(u)' /\ Busy(v)' /\ uses[u] = uses[v] => u = v
      BY <1>3, <2>3 DEF CallsInv
  <2> QED
      BY <1>1, <1>2, <2>1, <2>4, <2>5, <2>6, <2>7 DEF CallsInv
<1>9. CASE ConnectStep(t)
  <2>1. /\ post[t].pc = "connect" /\ post'[t].pc = "write_head" /\ requestMutex' = requestMutex
        /\ inFlight' = [inFlight EXCEPT ![c] = @ + 1]
      BY <1>9 DEF ConnectStep, Moves, ClientStays
  <2>2. ~Flying(t) /\ Flying(t)' /\ Busy(t) /\ Busy(t)'
      BY <2>1 DEF Flying, FlyingPlaces, Busy
  <2>3. Idle(c) /\ inFlight[c] = 0
      BY <1>1, <1>2, <1>5, <1>6, <2>2 DEF Idle, CallsInv
  <2>4. inFlight'[c] = 1 /\ inFlight' \in [HttpClients -> Nat]
        /\ \A d \in HttpClients : d # c => inFlight'[d] = inFlight[d]
      BY <1>1, <2>1, <2>3
  <2>5. \A u \in Posters : Busy(u)' <=> Busy(u)
      BY <1>3, <2>2
  <2>6. \A u \in Posters : Flying(u)' => inFlight'[uses[u]] = 1
      BY <1>1, <1>3, <2>4 DEF CallsInv
  <2>7. \A d \in HttpClients : Idle(d)' => inFlight'[d] = 0
    <3>1. \A d \in HttpClients : d = c => ~Idle(d)'
        BY <1>2, <2>2 DEF Idle
    <3> QED
        BY <1>4, <2>4, <3>1 DEF CallsInv
  <2> QED
      BY <1>2, <2>1, <2>4, <2>5, <2>6, <2>7 DEF CallsInv
<1>10. CASE NoConnectStep(t)
  <2>1. /\ post[t].pc = "connect" /\ post'[t].pc = "done" /\ inFlight' = inFlight
        /\ requestMutex' = [requestMutex EXCEPT ![c] = FALSE]
      BY <1>10 DEF NoConnectStep, Moves
  <2>2. ~Flying(t) /\ ~Flying(t)' /\ Busy(t) /\ ~Busy(t)'
      BY <2>1 DEF Flying, FlyingPlaces, Busy
  <2>3. \A u \in Posters : Busy(u)' => u # t /\ Busy(u) /\ uses[u] # c
      BY <1>3, <1>5, <2>2
  <2>4. \A u \in Posters : Flying(u)' <=> Flying(u)
      BY <1>3, <2>2
  <2>5. \A d \in HttpClients : Idle(d)' <=> Idle(d)
      BY <1>2, <2>4 DEF Idle
  <2>6. \A u \in Posters : Busy(u)' => requestMutex'[uses[u]]
      BY <1>1, <2>1, <2>3 DEF CallsInv
  <2>7. \A u, v \in Posters : Busy(u)' /\ Busy(v)' /\ uses[u] = uses[v] => u = v
      BY <2>3 DEF CallsInv
  <2> QED
      BY <1>1, <1>2, <2>1, <2>4, <2>5, <2>6, <2>7 DEF CallsInv
<1>11. CASE FinishStep(t)
  <2>1. /\ post[t].pc = "finish" /\ post'[t].pc = "done"
        /\ inFlight' = [inFlight EXCEPT ![c] = @ - 1]
        /\ requestMutex' = [requestMutex EXCEPT ![c] = FALSE]
      BY <1>11 DEF FinishStep
  <2>2. Flying(t) /\ ~Flying(t)' /\ Busy(t) /\ ~Busy(t)'
      BY <2>1 DEF Flying, FlyingPlaces, Busy
  <2>3. \A u \in Posters : Busy(u)' => u # t /\ Busy(u) /\ uses[u] # c
      BY <1>3, <1>5, <2>2
  <2>4. inFlight[c] = 1
      BY <2>2 DEF CallsInv
  <2>5. inFlight'[c] = 0 /\ inFlight' \in [HttpClients -> Nat]
        /\ \A d \in HttpClients : d # c => inFlight'[d] = inFlight[d]
      BY <1>1, <2>1, <2>4
  <2>6. \A u \in Posters : Busy(u)' => requestMutex'[uses[u]]
      BY <1>1, <2>1, <2>3 DEF CallsInv
  <2>7. \A u, v \in Posters : Busy(u)' /\ Busy(v)' /\ uses[u] = uses[v] => u = v
      BY <2>3 DEF CallsInv
  <2>8. \A u \in Posters : Flying(u)' => u # t /\ Flying(u) /\ uses[u] # c
      BY <1>3, <1>5, <1>6, <2>2
  <2>9. \A u \in Posters : Flying(u)' => inFlight'[uses[u]] = 1
      BY <1>1, <2>5, <2>8 DEF CallsInv
  <2>10. \A d \in HttpClients : Idle(d)' => inFlight'[d] = 0
      BY <1>4, <2>5 DEF CallsInv
  <2> QED
      BY <1>2, <2>5, <2>6, <2>7, <2>9, <2>10 DEF CallsInv
<1>12. CASE PostStep(t)
  <2>1. post[t].pc = "idle" /\ post'[t].pc = "lock" /\ UNCHANGED <<requestMutex, inFlight>>
      BY <1>12 DEF PostStep, Moves, SocketStays, ClientStays
  <2> QED
      BY <1>7, <2>1 DEF Busy, Flying, FlyingPlaces
<1>13. CASE HangUpStep(t)
  <2>1. post[t].pc = "hang_up" /\ post'[t].pc = "finish" /\ UNCHANGED <<requestMutex, inFlight>>
      BY <1>13 DEF HangUpStep, Moves, ClientStays
  <2> QED
      BY <1>7, <2>1 DEF Busy, Flying, FlyingPlaces
<1>14. CASE TalkStep(t)
  <2>1. /\ post[t].pc \in {"write_head", "write_body", "read_head", "read_body"}
        /\ post'[t].pc \in {"write_body", "read_head", "read_body", "hang_up", "finish"}
        /\ UNCHANGED <<requestMutex, inFlight>>
      BY <1>14, TalkPlaces DEF TalkStep, ClientStays
  <2>2. Flying(t) /\ Flying(t)'
      BY <2>1 DEF Flying, FlyingPlaces
  <2> QED
      BY <1>7, <2>1, <2>2 DEF Busy
<1> QED
    BY <1>8, <1>9, <1>10, <1>11, <1>12, <1>13, <1>14 DEF CallStep

\* The clients keep their types.
LEMMA CallTypes ==
    ASSUME HttpTypeOK, CallsInv, NEW t \in Posters, CallStep(t)
    PROVE  wire' \in Seq(Conns) /\ ClientTypeOK' /\ CallOf(t) /\ uses' = uses
<1>1. uses[t] \in HttpClients
    BY CallTyped
<1>2. CallOf(t) /\ uses' = uses /\ keepAlive' = keepAlive /\ destroyed' = destroyed
    BY DEF CallStep, PostStep, LockStep, ConnectStep, NoConnectStep, TalkStep, HangUpStep, FinishStep,
           Moves, ClientStays
<1>3. \/ UNCHANGED <<wire, sock, descriptors>>
      \/ ClientMove(uses[t])
    BY DEF CallStep, PostStep, LockStep, ConnectStep, NoConnectStep, TalkStep, HangUpStep, FinishStep,
           SocketStays
<1>4. wire' \in Seq(Conns) /\ sock' \in [HttpClients -> Numbers \cup {0}]
      /\ descriptors' \in [Numbers -> Nat]
    BY <1>3 DEF HttpTypeOK, ClientTypeOK, ClientMove, WireOf, SocketsOf
<1>5. closeWhenDone' \in [HttpClients -> BOOLEAN]
  <2>1. closeWhenDone' = closeWhenDone \/ closeWhenDone' = [closeWhenDone EXCEPT ![uses[t]] = FALSE]
      BY DEF CallStep, PostStep, LockStep, ConnectStep, NoConnectStep, TalkStep, HangUpStep, FinishStep,
             SocketStays
  <2> QED
      BY <2>1 DEF HttpTypeOK, ClientTypeOK
<1>6. requestMutex' \in [HttpClients -> BOOLEAN]
  <2>1. \/ requestMutex' = requestMutex \/ requestMutex' = [requestMutex EXCEPT ![uses[t]] = FALSE]
        \/ requestMutex' = [requestMutex EXCEPT ![uses[t]] = TRUE]
      BY DEF CallStep, PostStep, LockStep, ConnectStep, NoConnectStep, TalkStep, HangUpStep, FinishStep,
             ClientStays
  <2> QED
      BY <2>1 DEF HttpTypeOK, ClientTypeOK
<1>7. inFlight' \in [HttpClients -> Nat]
    BY CallsKept
<1> QED
    BY <1>2, <1>4, <1>5, <1>6, <1>7 DEF HttpTypeOK, ClientTypeOK, CallOf

\* What another client has stays as it is.
LEMMA OtherClients ==
    ASSUME HttpTypeOK, OwnedInv, NEW c \in HttpClients, ClientMove(c),
           NEW d \in HttpClients, d # c
    PROVE  /\ sock'[d] = sock[d]
           /\ sock[d] # 0 => /\ ConnOf(d)' = ConnOf(d) /\ ConnOf(d) \in Established
                             /\ wire'[ConnOf(d)] = wire[ConnOf(d)]
                             /\ sock[c] # 0 => ConnOf(d) # ConnOf(c)
<1>1. sock'[d] = sock[d] /\ (sock[d] # 0 => ConnOf(d)' = ConnOf(d))
    BY DEF ClientMove, SocketsOf, ConnOf
<1>2. sock[d] # 0 => ConnOf(d) \in Established /\ (sock[c] # 0 => ConnOf(d) # ConnOf(c))
    BY DEF OwnedInv
<1>3. sock[d] # 0 => wire'[ConnOf(d)] = wire[ConnOf(d)]
    BY <1>2 DEF ClientMove, WireOf
<1> QED
    BY <1>1, <1>2, <1>3

\* No connection is lost, and a new one waits in the backlog.
LEMMA MoveConns ==
    ASSUME HttpTypeOK, NEW c \in HttpClients, ClientMove(c)
    PROVE  /\ \A k \in Established : k \in Established' /\ wire'[k].ss = wire[k].ss
                                     /\ wire'[k].late = wire[k].late
           /\ \A k \in Established' : k \notin Established => wire'[k] = NewConnection
<1>1. Len(wire) \in Nat /\ Established = 1..Len(wire) /\ Established' = 1..Len(wire')
    BY LenProperties DEF HttpTypeOK, Established
<1>2. \A k \in Established : k \in Established'
    BY <1>1 DEF ClientMove, WireOf
<1>3. CASE Keeps(c) \/ HasHungUp(c)
  <2>1. Established' = Established
      BY <1>1, <1>3 DEF Keeps, HasHungUp
  <2> QED
      BY <1>2, <2>1 DEF ClientMove, WireOf
<1>4. CASE HasConnected(c)
  <2>1. \A k \in Established' : k \notin Established => k = Len(wire) + 1
      BY <1>1, <1>4 DEF HasConnected
  <2>2. wire'[Len(wire) + 1] = NewConnection
      BY <1>4 DEF HasConnected
  <2> QED
      BY <1>2, <2>1, <2>2 DEF ClientMove, WireOf
<1> QED
    BY <1>3, <1>4 DEF ClientMove

\* What clients do disturbs nobody who serves.
LEMMA MoveServed ==
    ASSUME HttpTypeOK, ServedInv, NEW c \in HttpClients, ClientMove(c), UNCHANGED serverVars
    PROVE  wire' \in Seq(Conns) /\ ServerTypeOK' /\ ServedInv'
<1>1. /\ \A k \in Established : k \in Established' /\ wire'[k].ss = wire[k].ss
      /\ \A k \in Established' : wire'[k].ss = "open" => k \in Established
    BY MoveConns, NewTyped
<1>2. UNCHANGED <<svrSock, listening, isRunning, listener, jobs, shutdown, serving>>
    BY DEF serverVars
<1>3. wire' \in Seq(Conns) /\ ServerTypeOK'
    BY <1>2 DEF ClientMove, WireOf, HttpTypeOK, ServerTypeOK
<1>4. \A i \in 1..Len(jobs) : jobs[i] \in Established' /\ wire'[jobs[i]].ss = "open"
    BY <1>1 DEF ServedInv, QueuesInv
<1>5. \A w \in ServerThreads : serving[w].conn # 0 =>
         serving[w].conn \in Established' /\ wire'[serving[w].conn].ss = "open"
    BY <1>1 DEF ServedInv, QueuesInv
<1>6. \A k \in Established' : wire'[k].ss = "open" =>
          \/ \E i \in 1..Len(jobs) : jobs[i] = k
          \/ \E w \in ServerThreads : serving[w].conn = k
    BY <1>1 DEF ServedInv, QueuesInv
<1>7. /\ \A i, j \in 1..Len(jobs) : jobs[i] = jobs[j] => i = j
      /\ \A w, v \in ServerThreads :
            serving[w].conn # 0 /\ serving[w].conn = serving[v].conn => w = v
      /\ \A w \in ServerThreads : serving[w].conn = 0 <=> serving[w].pc \in {"pool", "exit"}
      /\ \A i \in 1..Len(jobs), w \in ServerThreads : jobs[i] # serving[w].conn
    BY DEF ServedInv, QueuesInv
<1>8. QueuesInv'
    BY <1>2, <1>4, <1>5, <1>6, <1>7 DEF QueuesInv
<1>9. PoolInv'
    BY <1>2 DEF ServedInv, PoolInv
<1> QED
    BY <1>3, <1>8, <1>9 DEF ServedInv

\* The move of a step of a call.
LEMMA CallMove ==
    ASSUME HttpTypeOK, NEW t \in Posters, CallStep(t)
    PROVE  /\ ClientMove(uses[t]) /\ CallOf(t) /\ post[t].pc # "done"
           /\ UNCHANGED <<uses, keepAlive, destroyed>>
           /\ \A d \in HttpClients : d # uses[t] => closeWhenDone'[d] = closeWhenDone[d]
<1>1. uses[t] \in HttpClients /\ closeWhenDone \in [HttpClients -> BOOLEAN]
    BY DEF HttpTypeOK, ClientTypeOK
<1>2. CallOf(t) /\ UNCHANGED <<uses, keepAlive, destroyed>>
    BY DEF CallStep, PostStep, LockStep, ConnectStep, NoConnectStep, TalkStep, HangUpStep, FinishStep,
           Moves, ClientStays
<1>3. \/ UNCHANGED <<wire, sock, descriptors>>
      \/ ClientMove(uses[t])
    BY DEF CallStep, PostStep, LockStep, ConnectStep, NoConnectStep, TalkStep, HangUpStep, FinishStep,
           SocketStays
<1>4. closeWhenDone' = closeWhenDone \/ closeWhenDone' = [closeWhenDone EXCEPT ![uses[t]] = FALSE]
    BY DEF CallStep, PostStep, LockStep, ConnectStep, NoConnectStep, TalkStep, HangUpStep, FinishStep,
           SocketStays
<1>5. TalkStep(t) => post[t].pc # "done"
    BY TalkPlaces
<1>6. post[t].pc # "done"
    BY <1>5 DEF CallStep, PostStep, LockStep, ConnectStep, NoConnectStep, HangUpStep, FinishStep
<1>7. ClientMove(uses[t])
    BY <1>1, <1>3, MoveNowhere
<1> QED
    BY <1>1, <1>2, <1>4, <1>6, <1>7

\* A call that talks leaves the ends of its connection alone.
LEMMA TalkKeepsEnds ==
    ASSUME NEW t, NEW n, NEW p, NEW n2, NEW p2, Talks(t, n, p, n2, p2)
    PROVE  n2.cs = n.cs /\ n2.ss = n.ss /\ n2.late = n.late
<1>1. CASE Asks(t, n, p, n2, p2)
    BY <1>1 DEF Asks, Uploads
<1>2. CASE AsksMore(t, n, p, n2, p2)
    BY <1>2 DEF AsksMore, Uploads
<1>3. CASE Hears(n, p, n2, p2)
    BY <1>3 DEF Hears, Downloads
<1>4. CASE HearsMore(n, p, n2, p2)
    BY <1>4 DEF HearsMore, Downloads
<1>5. CASE GivesUpCall(n, p, n2, p2)
    BY <1>5 DEF GivesUpCall
<1> QED
    BY <1>1, <1>2, <1>3, <1>4, <1>5 DEF Talks

\* Where the sockets of a client stand after a step: it may have none, or
\* one that is open and not the server's yet, or the one it had.
ShutOf(c) ==
    sock[c] # 0 =>
        /\ wire[ConnOf(c)].cs = "shut" => closeWhenDone[c]
        /\ Idle(c) => wire[ConnOf(c)].cs = "open" /\ keepAlive[c]

\* A call keeps in order what is shut and what is kept.
LEMMA CallShut ==
    ASSUME HttpTypeOK, CallsInv, SocketsInv, NEW t \in Posters, CallStep(t)
    PROVE  ShutInv'
<1> DEFINE c == uses[t]
<1>1. c \in HttpClients /\ ClientMove(c) /\ CallOf(t) /\ UNCHANGED <<uses, keepAlive, destroyed>>
      /\ \A d \in HttpClients : d # c => closeWhenDone'[d] = closeWhenDone[d]
    BY CallMove, CallTyped
<1>2. OwnedInv /\ ShutInv /\ CallsOnSockets
    BY DEF SocketsInv
<1>3. closeWhenDone \in [HttpClients -> BOOLEAN]
    BY DEF HttpTypeOK, ClientTypeOK
<1>4. ASSUME NEW d \in HttpClients, d # c PROVE ShutOf(d)'
  <2>1. /\ sock'[d] = sock[d]
        /\ sock[d] # 0 => ConnOf(d)' = ConnOf(d) /\ wire'[ConnOf(d)] = wire[ConnOf(d)]
      BY <1>1, <1>2, <1>4, OtherClients
  <2>2. Idle(d)' <=> Idle(d)
      BY <1>1, <1>4 DEF Idle, Flying, CallOf
  <2>3. ShutOf(d)
      BY <1>2 DEF ShutInv, ShutOf
  <2> QED
      BY <1>1, <1>4, <2>1, <2>2, <2>3 DEF ShutOf
<1>5. ASSUME NEW d \in HttpClients, d = c PROVE ShutOf(d)'
  <2>1. Flying(t)' => ~Idle(d)'
      BY <1>1, <1>5 DEF Idle
  <2>2. ShutOf(d) /\ (sock[d] # 0 => wire[ConnOf(d)].cs # "closed")
      BY <1>2 DEF ShutInv, ShutOf, OwnedInv
  <2>3. HasHungUp(d) => ShutOf(d)'
      BY DEF HasHungUp, ShutOf
  <2>4. CASE PostStep(t) \/ LockStep(t)
    <3>1. UNCHANGED <<wire, sock, descriptors, closeWhenDone>> /\ ~Flying(t) /\ ~Flying(t)'
        BY <2>4 DEF PostStep, LockStep, Moves, SocketStays, Flying, FlyingPlaces
    <3>2. Idle(d)' <=> Idle(d)
        BY <1>1, <3>1 DEF Idle, Flying, CallOf
    <3> QED
        BY <1>1, <2>2, <3>1, <3>2 DEF ShutOf, ConnOf
  <2>5. CASE ConnectStep(t)
    <3>1. Flying(t)' /\ post[t].pc = "connect"
        BY <2>5 DEF ConnectStep, Moves, Flying, FlyingPlaces
    <3>2. CASE UNCHANGED <<wire, sock, descriptors>> /\ sock[c] # 0
      <4>1. Idle(d)
          BY <1>5, <3>1 DEF CallsInv, Busy, Idle, Flying, FlyingPlaces
      <4>2. wire[ConnOf(d)].cs = "open"
          BY <1>5, <2>2, <3>2, <4>1 DEF ShutOf
      <4> QED
          BY <2>1, <3>1, <3>2, <4>2 DEF ShutOf, ConnOf
    <3>3. CASE HasConnected(c)
      <4>1. wire'[ConnOf(d)'].cs = "open"
          BY <1>5, <3>3, NewTyped DEF HasConnected, ConnOf
      <4> QED
          BY <2>1, <3>1, <4>1 DEF ShutOf
    <3> QED
        BY <2>5, <3>2, <3>3 DEF ConnectStep
  <2>6. CASE NoConnectStep(t) \/ HangUpStep(t)
      BY <1>5, <2>3, <2>6 DEF NoConnectStep, HangUpStep
  <2>7. CASE TalkStep(t)
    <3>1. Flying(t)'
        BY <2>7, TalkPlaces DEF Flying, FlyingPlaces
    <3>2. wire'[ConnOf(d)].cs = wire[ConnOf(d)].cs
        BY <1>5, <2>7, TalkKeepsEnds DEF TalkStep
    <3>3. sock' = sock /\ ConnOf(d)' = ConnOf(d) /\ closeWhenDone' = closeWhenDone
        BY <1>5, <2>7 DEF TalkStep, Keeps, ConnOf
    <3> QED
        BY <2>1, <2>2, <3>1, <3>2, <3>3 DEF ShutOf
  <2>8. CASE FinishStep(t)
    <3>1. CASE HasHungUp(c)
        BY <1>5, <2>3, <3>1
    <3>2. CASE UNCHANGED <<wire, sock, descriptors>> /\ ~closeWhenDone[c] /\ keepAlive[c]
      <4>1. sock[d] # 0 => wire[ConnOf(d)] \in Conns
          BY <1>2, SocketTyped
      <4>2. sock[d] # 0 => wire[ConnOf(d)].cs = "open"
          BY <1>5, <2>2, <3>2, <4>1 DEF ShutOf, Conns, ClientEnds
      <4> QED
          BY <1>1, <1>5, <3>2, <4>2 DEF ShutOf, ConnOf
    <3> QED
        BY <2>8, <3>1, <3>2 DEF FinishStep
  <2> QED
      BY <2>4, <2>5, <2>6, <2>7, <2>8 DEF CallStep
<1> QED
    BY <1>4, <1>5 DEF ShutInv, ShutOf

\* Where call t works.
OnSocket1(t) ==
    /\ post[t].pc \notin {"hang_up", "finish", "done"} => ~post[t].ret
    /\ post[t].pc = "write_head" => sock[uses[t]] # 0
    /\ post[t].pc \in {"write_body", "read_head", "read_body", "hang_up"} =>
          sock[uses[t]] # 0 /\ post[t].number = sock[uses[t]] /\ post[t].conn = ConnOf(uses[t])
    /\ post[t].pc \in {"finish", "done"} /\ post[t].ret => post[t].conn \in Established

\* What a call that stands still needs: its client leaves the socket alone.
LEMMA CallStands ==
    ASSUME NEW u \in Posters, OnSocket1(u), post'[u] = post[u], uses' = uses,
           Flying(u) => /\ sock'[uses[u]] = sock[uses[u]]
                        /\ sock[uses[u]] # 0 => ConnOf(uses[u])' = ConnOf(uses[u]),
           \A k \in Established : k \in Established'
    PROVE  OnSocket1(u)'
<1>1. /\ post[u].pc \notin {"hang_up", "finish", "done"} => ~post[u].ret
      /\ post[u].pc \in {"finish", "done"} /\ post[u].ret => post[u].conn \in Established'
    BY DEF OnSocket1
<1>2. post[u].pc = "write_head" => sock'[uses[u]] # 0
  <2>1. post[u].pc = "write_head" => Flying(u) /\ sock[uses[u]] # 0
      BY DEF OnSocket1, Flying, FlyingPlaces
  <2> QED
      BY <2>1
<1>3. post[u].pc \in {"write_body", "read_head", "read_body", "hang_up"} =>
          sock'[uses[u]] # 0 /\ post[u].number = sock'[uses[u]] /\ post[u].conn = ConnOf(uses[u])'
  <2>1. post[u].pc \in {"write_body", "read_head", "read_body", "hang_up"} =>
            Flying(u) /\ sock[uses[u]] # 0
            /\ post[u].number = sock[uses[u]] /\ post[u].conn = ConnOf(uses[u])
      BY DEF OnSocket1, Flying, FlyingPlaces
  <2> QED
      BY <2>1
<1> QED
    BY <1>1, <1>2, <1>3 DEF OnSocket1, ConnOf

\* A call works on the connection of its client, whatever another call does.
LEMMA CallSockets ==
    ASSUME HttpTypeOK, CallsInv, SocketsInv, NEW t \in Posters, CallStep(t)
    PROVE  CallsOnSockets' /\ GoneInv'
<1> DEFINE c == uses[t]
<1>1. /\ c \in HttpClients /\ ClientMove(c) /\ CallOf(t) /\ post[t].pc # "done"
      /\ UNCHANGED <<uses, keepAlive, destroyed>>
    BY CallMove, CallTyped
<1>2. OwnedInv /\ CallsOnSockets /\ \A u \in Posters : OnSocket1(u) /\ uses[u] \in HttpClients
    BY CallTyped DEF SocketsInv, CallsOnSockets, OnSocket1
<1>3. \A k \in Established : k \in Established'
    BY <1>1, MoveConns
<1>4. \/ Busy(t) \/ UNCHANGED <<wire, sock, descriptors>>
  <2>1. TalkStep(t) => Busy(t)
      BY TalkPlaces DEF Busy, Flying, FlyingPlaces
  <2> QED
      BY <2>1 DEF CallStep, PostStep, LockStep, ConnectStep, NoConnectStep, HangUpStep, FinishStep,
             SocketStays, Busy, Flying, FlyingPlaces
<1>5. ASSUME NEW u \in Posters, u # t PROVE OnSocket1(u)'
  <2>1. post'[u] = post[u]
      BY <1>1, <1>5 DEF CallOf
  <2>2. ASSUME Flying(u)
        PROVE  /\ sock'[uses[u]] = sock[uses[u]]
               /\ sock[uses[u]] # 0 => ConnOf(uses[u])' = ConnOf(uses[u])
    <3>1. CASE uses[u] = c
      <4>1. ~Busy(t)
          BY <1>5, <2>2, <3>1 DEF CallsInv, Busy
      <4> QED
          BY <1>1, <1>4, <4>1 DEF ConnOf
    <3>2. CASE uses[u] # c
      <4>1. ConnOf(uses[u])' = descriptors'[sock'[uses[u]]]
          BY <1>1 DEF ConnOf
      <4> QED
          BY <1>1, <1>2, <3>2, <4>1, OtherClients DEF ConnOf
    <3> QED
        BY <3>1, <3>2
  <2> QED
      BY <1>1, <1>2, <1>3, <2>1, <2>2, CallStands
<1>6. OnSocket1(t)'
  <2>1. OnSocket1(t)
      BY <1>2
  <2>2. CASE PostStep(t) \/ LockStep(t)
      BY <2>1, <2>2 DEF PostStep, LockStep, Moves, OnSocket1
  <2>3. CASE ConnectStep(t)
    <3>1. post'[t].pc = "write_head" /\ ~post'[t].ret /\ sock'[uses'[t]] # 0
        BY <1>1, <2>1, <2>3 DEF ConnectStep, Moves, OnSocket1, HasConnected
    <3> QED
        BY <3>1 DEF OnSocket1
  <2>4. CASE NoConnectStep(t)
    <3>1. post'[t].pc = "done" /\ ~post'[t].ret
        BY <2>1, <2>4 DEF NoConnectStep, Moves, OnSocket1
    <3> QED
        BY <3>1 DEF OnSocket1
  <2>5. CASE TalkStep(t)
    <3>1. sock[c] # 0 /\ sock' = sock /\ ConnOf(c)' = ConnOf(c) /\ ConnOf(c) \in Established'
        BY <1>1, <1>2, <1>3, <2>5 DEF TalkStep, Keeps, ConnOf, OwnedInv
    <3>2. /\ post'[t].pc \in {"write_body", "read_head", "read_body", "hang_up", "finish"}
          /\ post'[t].pc \notin {"hang_up", "finish"} => ~post'[t].ret
        BY <2>5, TalkPlaces
    <3>3. /\ post'[t].pc \in {"write_body", "read_head", "read_body", "hang_up"} =>
                post'[t].number = sock[c] /\ post'[t].conn = ConnOf(c)
          /\ post'[t].ret => post'[t].conn = ConnOf(c)
        BY <2>5 DEF TalkStep
    <3>4. ConnOf(uses[t])' = ConnOf(c)'
        BY <1>1 DEF ConnOf
    <3> QED
        BY <1>1, <3>1, <3>2, <3>3, <3>4 DEF OnSocket1, ConnOf
  <2>6. CASE HangUpStep(t)
    <3>1. /\ post[t].pc = "hang_up" /\ post'[t].pc = "finish" /\ post'[t].conn = post[t].conn
          /\ sock[c] # 0
        BY <2>1, <2>6 DEF HangUpStep, Moves, OnSocket1
    <3>2. post[t].conn = ConnOf(c)
        BY <2>1, <3>1 DEF OnSocket1
    <3>3. post'[t].conn \in Established'
        BY <1>1, <1>2, <1>3, <3>1, <3>2 DEF OwnedInv
    <3> QED
        BY <3>1, <3>3 DEF OnSocket1
  <2>7. CASE FinishStep(t)
    <3>1. /\ post[t].pc = "finish" /\ post'[t].pc = "done" /\ post'[t].conn = post[t].conn
          /\ post'[t].ret = post[t].ret
        BY <2>7 DEF FinishStep
    <3> QED
        BY <1>3, <2>1, <3>1 DEF OnSocket1
  <2> QED
      BY <2>2, <2>3, <2>4, <2>5, <2>6, <2>7 DEF CallStep
<1>7. CallsOnSockets'
    BY <1>5, <1>6 DEF CallsOnSockets, OnSocket1
<1>8. destroyed = {}
    BY <1>1 DEF SocketsInv, GoneInv
<1> QED
    BY <1>1, <1>7, <1>8 DEF GoneInv

\* stop() of a client, or its end, comes between the steps of the calls.
LEMMA StopKeeps ==
    ASSUME HttpTypeOK, CallsInv, SocketsInv, NEW c \in HttpClients, StopStep(c) \/ GoneStep(c)
    PROVE  /\ wire' \in Seq(Conns) /\ ClientTypeOK' /\ CallsInv' /\ SocketsInv'
           /\ ClientMove(c) /\ UNCHANGED <<uses, keepAlive, post>>
           /\ \A t \in Posters : uses[t] = c /\ Flying(t) => Keeps(c)
<1>1. ClientMove(c) /\ UNCHANGED <<uses, keepAlive, post, inFlight, requestMutex>>
    BY DEF StopStep, GoneStep
<1>2. OwnedInv /\ CallsOnSockets /\ \A u \in Posters : OnSocket1(u) /\ uses[u] \in HttpClients
    BY CallTyped DEF SocketsInv, CallsOnSockets, OnSocket1
<1>3. \A k \in Established : k \in Established'
    BY <1>1, MoveConns
<1>4. \/ HasHungUp(c) /\ Idle(c) /\ UNCHANGED closeWhenDone
      \/ /\ Keeps(c) /\ ~Idle(c) /\ closeWhenDone' = [closeWhenDone EXCEPT ![c] = TRUE]
         /\ destroyed' = destroyed
         /\ sock[c] # 0 => Shuts(wire[ConnOf(c)], wire'[ConnOf(c)])
  <2>1. CASE GoneStep(c)
      BY <2>1 DEF GoneStep, Idle, Flying, FlyingPlaces
  <2>2. CASE StopStep(c)
    <3>1. inFlight[c] > 0 => ~Idle(c)
        BY DEF CallsInv
    <3>2. inFlight[c] = 0 => Idle(c)
        BY DEF CallsInv, Idle
    <3> QED
        BY <2>2, <3>1, <3>2 DEF StopStep
  <2> QED
      BY <2>1, <2>2
<1>5. \A u \in Posters : (Flying(u)' <=> Flying(u)) /\ (Busy(u)' <=> Busy(u))
    BY <1>1 DEF Flying, Busy
<1>6. \A d \in HttpClients : Idle(d)' <=> Idle(d)
    BY <1>1, <1>5 DEF Idle
<1>7. CallsInv'
    BY <1>1, <1>5, <1>6 DEF CallsInv
<1>8. wire' \in Seq(Conns) /\ sock' \in [HttpClients -> Numbers \cup {0}]
      /\ descriptors' \in [Numbers -> Nat]
    BY <1>1 DEF ClientMove, WireOf, SocketsOf
<1>9. destroyed' = destroyed \/ destroyed' = destroyed \cup {c}
    BY DEF StopStep, GoneStep
<1>10. closeWhenDone' \in [HttpClients -> BOOLEAN]
    BY <1>4 DEF HttpTypeOK, ClientTypeOK
<1>11. ClientTypeOK'
    BY <1>1, <1>8, <1>9, <1>10 DEF HttpTypeOK, ClientTypeOK
<1>12. OwnedInv'
    BY <1>1, <1>2, MoveOwned
<1>13. ASSUME NEW d \in HttpClients PROVE ShutOf(d)'
  <2>1. ShutOf(d) /\ (sock[d] # 0 => wire[ConnOf(d)].cs # "closed")
      BY <1>2 DEF SocketsInv, ShutInv, ShutOf, OwnedInv
  <2>2. CASE d # c
    <3>1. /\ sock'[d] = sock[d]
          /\ sock[d] # 0 => ConnOf(d)' = ConnOf(d) /\ wire'[ConnOf(d)] = wire[ConnOf(d)]
        BY <1>1, <1>2, <2>2, OtherClients
    <3>2. closeWhenDone'[d] = closeWhenDone[d]
        BY <1>4, <2>2 DEF HttpTypeOK, ClientTypeOK
    <3> QED
        BY <1>1, <1>6, <2>1, <3>1, <3>2 DEF ShutOf
  <2>3. CASE d = c /\ HasHungUp(c)
      BY <2>3 DEF HasHungUp, ShutOf
  <2>4. CASE d = c /\ ~Idle(c) /\ closeWhenDone' = [closeWhenDone EXCEPT ![c] = TRUE]
    <3>1. closeWhenDone'[d] /\ ~Idle(d)'
        BY <1>6, <2>4 DEF HttpTypeOK, ClientTypeOK
    <3> QED
        BY <3>1 DEF ShutOf
  <2> QED
      BY <1>4, <2>2, <2>3, <2>4
<1>14. ShutInv'
    BY <1>13 DEF ShutInv, ShutOf
<1>15. \A t \in Posters : uses[t] = c /\ Flying(t) => Keeps(c)
    BY <1>4 DEF Idle
<1>16. ASSUME NEW u \in Posters PROVE OnSocket1(u)'
  <2>1. ASSUME Flying(u)
        PROVE  /\ sock'[uses[u]] = sock[uses[u]]
               /\ sock[uses[u]] # 0 => ConnOf(uses[u])' = ConnOf(uses[u])
    <3>1. CASE uses[u] = c
        BY <1>1, <1>15, <2>1, <3>1 DEF Keeps, ConnOf
    <3>2. CASE uses[u] # c
      <4>1. ConnOf(uses[u])' = descriptors'[sock'[uses[u]]]
          BY <1>1 DEF ConnOf
      <4> QED
          BY <1>1, <1>2, <3>2, <4>1, OtherClients DEF ConnOf
    <3> QED
        BY <3>1, <3>2
  <2> QED
      BY <1>1, <1>2, <1>3, <2>1, CallStands
<1>17. CallsOnSockets'
    BY <1>16 DEF CallsOnSockets, OnSocket1
<1>18. GoneInv'
  <2>1. GoneInv
      BY DEF SocketsInv
  <2>2. ASSUME NEW d \in destroyed PROVE sock'[d] = 0 /\ \A t \in Posters : post[t].pc = "done"
    <3>1. d \in HttpClients /\ sock[d] = 0 /\ \A t \in Posters : post[t].pc = "done"
        BY <2>1 DEF GoneInv, HttpTypeOK, ClientTypeOK
    <3>2. Idle(c)
        BY <3>1 DEF Idle, Flying, FlyingPlaces
    <3>3. sock'[d] = 0
        BY <1>1, <1>2, <1>4, <3>1, <3>2, OtherClients DEF HasHungUp
    <3> QED
        BY <3>1, <3>3
  <2>3. GoneStep(c) => sock'[c] = 0 /\ \A t \in Posters : post[t].pc = "done"
      BY DEF GoneStep, HasHungUp
  <2>4. GoneStep(c) \/ destroyed' = destroyed
      BY DEF StopStep
  <2>5. \A d \in destroyed' : d \in destroyed \/ (d = c /\ GoneStep(c))
      BY <1>9, <2>4
  <2> QED
      BY <1>1, <2>2, <2>3, <2>5 DEF GoneInv
<1> QED
    BY <1>1, <1>7, <1>8, <1>11, <1>12, <1>14, <1>15, <1>17, <1>18 DEF SocketsInv

\* What the server does leaves what belongs to the clients in order.
LEMMA ServerKeepsClients ==
    ASSUME HttpTypeOK, ServedInv, CallsInv, SocketsInv, ServerNext \/ Stop \/ AcceptFails,
           UNCHANGED clientVars
    PROVE  ClientTypeOK' /\ CallsInv' /\ SocketsInv'
<1>1. /\ Established' = Established
      /\ \A k \in Established : wire'[k].cs = wire[k].cs
    BY ServerKeepsEnds
<1>2. UNCHANGED <<uses, keepAlive, sock, descriptors, inFlight, closeWhenDone, requestMutex, post,
                  destroyed>>
    BY DEF clientVars
<1>3. ClientTypeOK' /\ CallsInv'
    BY <1>2 DEF HttpTypeOK, ClientTypeOK, CallsInv, Busy, Flying, Idle
<1>4. \A c \in HttpClients : ConnOf(c)' = ConnOf(c) /\ (Idle(c)' <=> Idle(c))
    BY <1>2 DEF ConnOf, Idle, Flying
<1>5. OwnedInv'
    BY <1>1, <1>2, <1>4 DEF SocketsInv, OwnedInv
<1>6. ShutInv'
    BY <1>1, <1>2, <1>4 DEF SocketsInv, OwnedInv, ShutInv
<1>7. CallsOnSockets' /\ GoneInv'
    BY <1>1, <1>2 DEF SocketsInv, CallsOnSockets, GoneInv, ConnOf
<1> QED
    BY <1>3, <1>5, <1>6, <1>7 DEF SocketsInv

(***************************************************************************)
(* A request is handled once: where the head of the request of t can be.   *)
(***************************************************************************)
\* A call that has not sent its request.
Early == {"idle", "lock", "connect", "write_head"}
\* The head of a request of t that has not been read.
HeadIn(t, n, i) == i \in 1..Len(n.up) /\ n.up[i].part = "head" /\ n.up[i].of = t
HeadOf(t, k, i) == k \in Established /\ HeadIn(t, wire[k], i)
\* A thread that has read the head of a request and not called the handler.
Handles1(t, s) == s.pc \in {"body", "handler"} /\ s.of = t
Handling(w, t) == Handles1(t, serving[w])

\* The request of a call is in one place: not sent, on its way, with a
\* thread, or handled.
HandledOf(t) ==
    /\ post[t].pc \in Early =>
          /\ \A k, i : ~HeadOf(t, k, i)
          /\ \A w \in ServerThreads : ~Handling(w, t)
          /\ ~BagIn(t, handled)
    /\ \A k, l, i, j : HeadOf(t, k, i) /\ HeadOf(t, l, j) => k = l /\ i = j
    /\ \A k, i : HeadOf(t, k, i) =>
          ~BagIn(t, handled) /\ \A w \in ServerThreads : ~Handling(w, t)
    /\ \A w, v \in ServerThreads : Handling(w, t) /\ Handling(v, t) => w = v
    /\ \A w \in ServerThreads : Handling(w, t) => ~BagIn(t, handled)
    /\ BagIn(t, handled) => handled[t] = 1
HandledInv == \A t \in Posters : HandledOf(t)

\* The heads of t in n2 were in n, in the same order.
Fewer(t, n, n2) ==
    \E m \in Nat : \A i \in Nat : HeadIn(t, n2, i) => HeadIn(t, n, i + m)
\* No connection has another head of t.
HeadsKept(t) ==
    \A k \in Established' :
        \/ k \in Established /\ Fewer(t, wire[k], wire'[k])
        \/ Len(wire'[k].up) = 0

-----------------------------------------------------------------------------
\* Without a new head the request of a call stays where it is, or is gone.
LEMMA HandledStays ==
    ASSUME NEW t \in Posters, HandledOf(t), HeadsKept(t),
           \A w \in ServerThreads : Handling(w, t)' => Handling(w, t),
           BagIn(t, handled') <=> BagIn(t, handled),
           BagIn(t, handled) => handled'[t] = 1,
           post'[t].pc \in Early => post[t].pc \in Early
    PROVE  HandledOf(t)'
<1>1. ASSUME NEW k, NEW i, HeadOf(t, k, i)'
      PROVE  i \in Nat /\ k \in Established' /\ k \in Established /\ Fewer(t, wire[k], wire'[k])
             /\ HeadIn(t, wire'[k], i)
  <2>1. k \in Established' /\ HeadIn(t, wire'[k], i) /\ i \in 1..Len(wire'[k].up)
      BY <1>1 DEF HeadOf, HeadIn
  <2>2. Len(wire'[k].up) # 0
      BY <2>1
  <2> QED
      BY <2>1, <2>2 DEF HeadsKept
<1>2. ASSUME NEW k, NEW i, HeadOf(t, k, i)'
      PROVE  \E m \in Nat : HeadOf(t, k, i + m)
  <2>1. i \in Nat /\ k \in Established /\ Fewer(t, wire[k], wire'[k]) /\ HeadIn(t, wire'[k], i)
      BY <1>1, <1>2
  <2> QED
      BY <2>1 DEF Fewer, HeadOf
<1>3. ASSUME NEW k, NEW l, NEW i, NEW j, HeadOf(t, k, i)', HeadOf(t, l, j)'
      PROVE  k = l /\ i = j
  <2>1. k = l
      BY <1>2, <1>3 DEF HandledOf
  <2>2. /\ i \in Nat /\ k \in Established /\ Fewer(t, wire[k], wire'[k])
        /\ HeadIn(t, wire'[k], i)
      BY <1>1, <1>3
  <2>3. j \in Nat /\ HeadIn(t, wire'[k], j)
      BY <1>1, <1>3, <2>1
  <2>4. PICK m \in Nat : HeadIn(t, wire[k], i + m) /\ HeadIn(t, wire[k], j + m)
      BY <2>2, <2>3 DEF Fewer
  <2>5. i + m = j + m
      BY <2>2, <2>4 DEF HandledOf, HeadOf
  <2> QED
      BY <2>1, <2>2, <2>3, <2>5
<1>4. \A k, i : HeadOf(t, k, i)' => ~BagIn(t, handled') /\ \A w \in ServerThreads : ~Handling(w, t)'
    BY <1>2 DEF HandledOf
<1>5. \A w, v \in ServerThreads : Handling(w, t)' /\ Handling(v, t)' => w = v
    BY DEF HandledOf
<1>6. \A w \in ServerThreads : Handling(w, t)' => ~BagIn(t, handled')
    BY DEF HandledOf
<1>7. post'[t].pc \in Early =>
          /\ \A k, i : ~HeadOf(t, k, i)'
          /\ \A w \in ServerThreads : ~Handling(w, t)'
          /\ ~BagIn(t, handled')
    BY <1>2 DEF HandledOf
<1> QED
    BY <1>3, <1>4, <1>5, <1>6, <1>7 DEF HandledOf

\* What shortens or keeps a sequence.
LEMMA FewerHeads ==
    ASSUME NEW t, NEW n \in Conns, NEW n2
    PROVE  /\ n2.up = n.up => Fewer(t, n, n2)
           /\ n2.up = <<>> => Fewer(t, n, n2)
           /\ \A m : Reads(n, n2, m) => Fewer(t, n, n2)
           /\ \A seg : Uploads(n, n2, seg) /\ ~(seg.part = "head" /\ seg.of = t) => Fewer(t, n, n2)
<1>1. n.up \in Seq(Segments) /\ Len(n.up) \in Nat
    BY LenProperties DEF Conns
<1>2. n2.up = n.up => Fewer(t, n, n2)
  <2>1. n2.up = n.up => \A i \in Nat : HeadIn(t, n2, i) => HeadIn(t, n, i + 0)
      BY DEF HeadIn
  <2> QED
      BY <2>1 DEF Fewer
<1>3. n2.up = <<>> => Fewer(t, n, n2)
  <2>1. n2.up = <<>> => \A i \in Nat : HeadIn(t, n2, i) => HeadIn(t, n, i + 0)
    <3>1. n2.up = <<>> => Len(n2.up) = 0
        BY EmptySeq
    <3> QED
        BY <3>1 DEF HeadIn
  <2> QED
      BY <2>1 DEF Fewer
<1>4. ASSUME NEW m, Reads(n, n2, m) PROVE Fewer(t, n, n2)
  <2>1. m \in Nat /\ Len(n2.up) = Len(n.up) - m /\ \A i \in 1..Len(n2.up) : n2.up[i] = n.up[i + m]
      BY <1>1, <1>4 DEF Reads
  <2>2. \A i \in Nat : HeadIn(t, n2, i) => HeadIn(t, n, i + m)
      BY <1>1, <2>1 DEF HeadIn
  <2> QED
      BY <2>1, <2>2 DEF Fewer
<1>5. ASSUME NEW seg, Uploads(n, n2, seg), ~(seg.part = "head" /\ seg.of = t)
      PROVE  Fewer(t, n, n2)
  <2>1. CASE n.ss = "closed"
      BY <1>2, <1>5, <2>1 DEF Uploads
  <2>2. CASE n.ss # "closed"
    <3>1. n2.up = Append(n.up, seg)
        BY <1>5, <2>2 DEF Uploads
    <3>2. /\ Len(n2.up) = Len(n.up) + 1 /\ n2.up[Len(n.up) + 1] = seg
          /\ \A i \in 1..Len(n.up) : n2.up[i] = n.up[i]
        BY <1>1, <3>1
    <3>3. \A i \in Nat : HeadIn(t, n2, i) => HeadIn(t, n, i + 0)
        BY <1>1, <1>5, <3>2 DEF HeadIn
    <3> QED
        BY <3>3 DEF Fewer
  <2> QED
      BY <2>1, <2>2
<1> QED
    BY <1>2, <1>3, <1>4, <1>5

\* One more handling.
Counted(B, of) == B (+) SetToBag({of})

\* What it changes.
LEMMA OneMore ==
    ASSUME NEW B, NEW of, NEW B2, B2 = Counted(B, of), NEW t
    PROVE  /\ t # of => (BagIn(t, B2) <=> BagIn(t, B))
           /\ t # of /\ BagIn(t, B) /\ B[t] = 1 => B2[t] = 1
           /\ t = of => BagIn(t, B2)
           /\ t = of /\ ~BagIn(t, B) => B2[t] = 1
           /\ BagIn(t, B) => BagIn(t, B2)
  BY DEF Counted, BagIn, BagToSet, SetToBag, (+)

\* When the handler is called.
LEMMA HandledStep ==
    ASSUME NEW w \in ServerThreads, ServerThread(w)
    PROVE  \/ serving[w].pc = "handler" /\ handled' = Counted(handled, serving[w].of)
           \/ serving[w].pc # "handler" /\ handled' = handled
<1>1. CASE CallHandler(w)
    BY <1>1 DEF CallHandler, Stands, Counted
<1>2. CASE ~CallHandler(w)
    BY <1>2 DEF ServerThread, TakeJob, LeavePool, KeepServing, AwaitRequest, ReadRequestHead, ReadStray,
         ReadRequestBody, WriteHead, WriteContent, CloseConnection, Stands
<1> QED
    BY <1>1, <1>2

\* A head that is there was there.
LEMMA HeadsBefore ==
    ASSUME NEW t, HeadsKept(t), NEW k, NEW i, HeadOf(t, k, i)'
    PROVE  \E j : HeadOf(t, k, j)
<1>1. k \in Established' /\ HeadIn(t, wire'[k], i) /\ i \in 1..Len(wire'[k].up)
    BY DEF HeadOf, HeadIn
<1>2. Len(wire'[k].up) # 0 /\ i \in Nat
    BY <1>1
<1>3. k \in Established /\ Fewer(t, wire[k], wire'[k])
    BY <1>1, <1>2 DEF HeadsKept
<1> QED
    BY <1>1, <1>2, <1>3 DEF Fewer, HeadOf

\* A step of the server at one connection.
LEMMA WireHeads ==
    ASSUME HttpTypeOK, NEW t, NEW k \in Established, WireStep(k), Fewer(t, wire[k], wire'[k])
    PROVE  HeadsKept(t) /\ Established' = Established
<1>1. Established' = Established
    BY DEF WireStep, Established
<1>2. ASSUME NEW j \in Established, j # k PROVE Fewer(t, wire[j], wire'[j])
  <2>1. wire[j] \in Conns
      BY ElementOfSeq DEF HttpTypeOK, Established
  <2> QED
      BY <1>2, <2>1, FewerHeads DEF WireStep
<1> QED
    BY <1>1, <1>2 DEF HeadsKept

\* What a turn does to the request it is about.
LEMMA ServingHeads ==
    ASSUME NEW n \in Conns, NEW s, NEW n2, NEW s2, Serving(n, s, n2, s2)
    PROVE  \/ ReadsHead(n, s, n2, s2)
           \/ /\ \A t : Fewer(t, n, n2) /\ (Handles1(t, s2) => Handles1(t, s))
              /\ s.pc = "handler" => s2.pc = "reply"
<1>1. CASE Between(n, s, n2, s2)
    BY <1>1, FewerHeads DEF Between, Handles1
<1>2. CASE ReadsStray(n, s, n2, s2)
    BY <1>2, FewerHeads DEF ReadsStray, Handles1
<1>3. CASE ReadsBody(n, s, n2, s2)
    BY <1>3, FewerHeads DEF ReadsBody, Handles1
<1>4. CASE GivesUp(n, s, n2, s2)
    BY <1>4, FewerHeads DEF GivesUp, Handles1
<1>5. CASE Handles(n, s, n2, s2)
    BY <1>5, FewerHeads DEF Handles, Handles1
<1>6. CASE WritesHead(n, s, n2, s2)
  <2>1. n2.up = n.up /\ s.pc = "reply" /\ s2.pc \in {"content", "loop", "close"}
      BY <1>6 DEF WritesHead, Sends
  <2> QED
      BY <2>1, FewerHeads DEF Handles1
<1>7. CASE WritesBody(n, s, n2, s2)
  <2>1. n2.up = n.up /\ s.pc = "content" /\ s2.pc \in {"loop", "close"}
      BY <1>7 DEF WritesBody, Sends
  <2> QED
      BY <2>1, FewerHeads DEF Handles1
<1> QED
    BY <1>1, <1>2, <1>3, <1>4, <1>5, <1>6, <1>7 DEF Serving

\* A thread that reads the head of a request.
LEMMA ReadsHeadHandled ==
    ASSUME HttpTypeOK, NEW t \in Posters, HandledOf(t), NEW w \in ServerThreads,
           NEW k \in Established, wire[k] \in Conns, WireStep(k), ServingStep(w), post' = post, handled' = handled,
           ReadsHead(wire[k], serving[w], wire'[k], serving'[w])
    PROVE  HandledOf(t)'
<1> DEFINE n == wire[k]
           of == n.up[1].of
<1>1. /\ Reads(n, wire'[k], 1) /\ serving[w].pc = "head" /\ n.up[1].part = "head"
      /\ serving'[w].of = of
    BY DEF ReadsHead
<1>2. Fewer(t, n, wire'[k])
    BY <1>1, FewerHeads
<1>3. HeadsKept(t) /\ Established' = Established
    BY <1>2, WireHeads
<1>4. CASE t # of
  <2>1. \A v \in ServerThreads : Handling(v, t)' => Handling(v, t)
      BY <1>1, <1>4 DEF ServingStep, Handling, Handles1
  <2> QED
      BY <1>3, <2>1, HandledStays DEF HandledOf
<1>5. CASE t = of
  <2>1. n.up \in Seq(Segments) /\ Len(n.up) \in Nat
      BY LenProperties DEF Conns
  <2>2. Len(n.up) > 0 /\ Len(wire'[k].up) = Len(n.up) - 1
        /\ \A i \in 1..Len(wire'[k].up) : wire'[k].up[i] = n.up[i + 1]
      BY <1>1, <2>1 DEF Reads
  <2>3. HeadOf(t, k, 1)
      BY <1>1, <1>5, <2>1, <2>2 DEF HeadOf, HeadIn
  <2>4. /\ ~BagIn(t, handled) /\ post[t].pc \notin Early
        /\ \A v \in ServerThreads : ~Handling(v, t)
      BY <2>3 DEF HandledOf
  <2>5. ASSUME NEW l, NEW i, HeadOf(t, l, i)' PROVE FALSE
    <3>1. l = k
        BY <1>3, <2>3, <2>5, HeadsBefore DEF HandledOf
    <3>2. i \in 1..Len(wire'[k].up) /\ wire'[k].up[i].part = "head" /\ wire'[k].up[i].of = t
        BY <2>5, <3>1 DEF HeadOf, HeadIn
    <3>3. i \in Nat /\ i >= 1 /\ HeadOf(t, k, i + 1)
        BY <2>1, <2>2, <3>2 DEF HeadOf, HeadIn
    <3>4. i + 1 = 1
        BY <2>3, <3>3 DEF HandledOf
    <3> QED
        BY <3>3, <3>4
  <2>6. \A v \in ServerThreads : Handling(v, t)' => v = w
      BY <2>4 DEF ServingStep, Handling
  <2> QED
      BY <2>4, <2>5, <2>6 DEF HandledOf
<1> QED
    BY <1>4, <1>5

\* A turn of the loop handles a request at most once.
LEMMA TurnHandled ==
    ASSUME HttpTypeOK, ServedInv, HandledInv, NEW w \in ServerThreads, ServerThread(w), Turn(w),
           post' = post
    PROVE  HandledInv'
<1> DEFINE k == serving[w].conn
<1>1. k \in Established /\ wire[k] \in Conns
    BY Serves DEF Turn
<1>2. WireStep(k) /\ ServingStep(w) /\ Serving(wire[k], serving[w], wire'[k], serving'[w])
    BY DEF Turn
<1>3. ASSUME NEW t \in Posters PROVE HandledOf(t)'
  <2>1. HandledOf(t)
      BY DEF HandledInv
  <2>2. CASE ReadsHead(wire[k], serving[w], wire'[k], serving'[w])
    <3>1. handled' = handled
        BY <2>2, HandledStep DEF ReadsHead
    <3> QED
        BY <1>1, <1>2, <2>1, <2>2, <3>1, ReadsHeadHandled
  <2>3. CASE ~ReadsHead(wire[k], serving[w], wire'[k], serving'[w])
    <3>1. /\ Fewer(t, wire[k], wire'[k])
          /\ Handles1(t, serving'[w]) => Handles1(t, serving[w])
          /\ serving[w].pc = "handler" => serving'[w].pc = "reply"
        BY <1>1, <1>2, <2>3, ServingHeads
    <3>2. HeadsKept(t) /\ Established' = Established
        BY <1>1, <1>2, <3>1, WireHeads
    <3>3. \A v \in ServerThreads : Handling(v, t)' => Handling(v, t)
        BY <1>2, <3>1 DEF ServingStep, Handling
    <3>4. CASE handled' = handled
        BY <2>1, <3>2, <3>3, <3>4, HandledStays DEF HandledOf
    <3>5. CASE serving[w].pc = "handler" /\ handled' = Counted(handled, serving[w].of)
      <4> DEFINE of == serving[w].of
      <4>1. CASE t # of
        <5>1. (BagIn(t, handled') <=> BagIn(t, handled))
              /\ (BagIn(t, handled) => handled'[t] = 1)
          <6>1. BagIn(t, handled) => handled[t] = 1
              BY <2>1 DEF HandledOf
          <6> QED
              BY <3>5, <4>1, <6>1, OneMore
        <5> QED
            BY <2>1, <3>2, <3>3, <5>1, HandledStays
      <4>2. CASE t = of
        <5>1. Handling(w, t)
            BY <3>5, <4>2 DEF Handling, Handles1
        <5>2. /\ post[t].pc \notin Early /\ ~BagIn(t, handled)
              /\ \A v \in ServerThreads : Handling(v, t) => v = w
              /\ \A l, i : ~HeadOf(t, l, i)
            BY <2>1, <5>1 DEF HandledOf
        <5>3. \A l, i : ~HeadOf(t, l, i)'
            BY <3>2, <5>2, HeadsBefore
        <5>4. \A v \in ServerThreads : ~Handling(v, t)'
            BY <3>1, <3>3, <3>5, <5>2 DEF Handling, Handles1
        <5>5. BagIn(t, handled') /\ handled'[t] = 1
            BY <3>5, <4>2, <5>2, OneMore
        <5> QED
            BY <5>2, <5>3, <5>4, <5>5 DEF HandledOf
      <4> QED
          BY <4>1, <4>2
    <3> QED
        BY <3>4, <3>5, HandledStep
  <2> QED
      BY <2>2, <2>3
<1> QED
    BY <1>3 DEF HandledInv

\* A step of the server that reads nothing and calls nobody.
LEMMA QuietHandled ==
    ASSUME HandledInv, handled' = handled, post' = post,
           \A t \in Posters : HeadsKept(t),
           \A w \in ServerThreads : serving'[w] = serving[w] \/ serving'[w].pc \notin {"body", "handler"}
    PROVE  HandledInv'
<1>1. ASSUME NEW t \in Posters PROVE HandledOf(t)'
  <2>1. HandledOf(t)
      BY DEF HandledInv
  <2>2. \A w \in ServerThreads : Handling(w, t)' => Handling(w, t)
      BY DEF Handling, Handles1
  <2> QED
      BY <2>1, <2>2, HandledStays DEF HandledOf
<1> QED
    BY <1>1 DEF HandledInv

\* Connections that keep or lose what has been sent on them.
LEMMA SameHeads ==
    ASSUME HttpTypeOK, NEW t, Established' = Established,
           \A k \in Established : wire'[k].up = wire[k].up \/ wire'[k].up = <<>>
    PROVE  HeadsKept(t)
<1>1. \A k \in Established : wire[k] \in Conns
    BY ElementOfSeq DEF HttpTypeOK, Established
<1>2. \A k \in Established : Fewer(t, wire[k], wire'[k])
    BY <1>1, FewerHeads
<1> QED
    BY <1>2 DEF HeadsKept

\* The steps of the server.
LEMMA ServerHandled ==
    ASSUME HttpTypeOK, ServedInv, HandledInv, ServerNext \/ Stop \/ AcceptFails,
           UNCHANGED clientVars
    PROVE  HandledInv'
<1>1. post' = post
    BY DEF clientVars
<1>2. CASE Stop \/ AcceptFails
  <2>1. SameConns /\ (\A k \in Established : Reset(wire[k], wire'[k])) /\ UNCHANGED <<serving, handled>>
      BY <1>2, ResetEffect DEF HttpTypeOK, Stop, AcceptFails
  <2>2. Established' = Established
      BY <2>1 DEF SameConns, Established
  <2>3. \A k \in Established : wire'[k].up = wire[k].up \/ wire'[k].up = <<>>
      BY <2>1 DEF Reset
  <2>4. \A t \in Posters : HeadsKept(t)
      BY <2>2, <2>3, SameHeads
  <2> QED
      BY <1>1, <2>1, <2>4, QuietHandled
<1>3. CASE Accept
  <2>1. PICK k \in Established : WireStep(k) /\ wire'[k].up = wire[k].up
      BY <1>3, AcceptEffect
  <2>2. UNCHANGED <<serving, handled>>
      BY <1>3 DEF Accept
  <2>3. Established' = Established /\ \A j \in Established : wire'[j].up = wire[j].up
      BY <2>1 DEF WireStep, Established
  <2>4. \A t \in Posters : HeadsKept(t)
      BY <2>3, SameHeads
  <2> QED
      BY <1>1, <2>2, <2>4, QuietHandled
<1>4. CASE AcceptAfterStop \/ ShutdownPool \/ ListenReturns
  <2>1. UNCHANGED <<wire, serving, handled>>
      BY <1>4 DEF AcceptAfterStop, ShutdownPool, ListenReturns
  <2>2. \A t \in Posters : HeadsKept(t)
      BY <2>1, SameHeads DEF Established
  <2> QED
      BY <1>1, <2>1, <2>2, QuietHandled
<1>5. ASSUME NEW w \in ServerThreads, ServerThread(w) PROVE HandledInv'
  <2>1. CASE TakeJob(w)
    <3>1. ServingStep(w) /\ serving'[w].pc = "loop" /\ UNCHANGED <<wire, handled>>
        BY <2>1, TakeJobEffect
    <3>2. \A t \in Posters : HeadsKept(t)
        BY <3>1, SameHeads DEF Established
    <3> QED
        BY <1>1, <3>1, <3>2, QuietHandled DEF ServingStep
  <2>2. CASE LeavePool(w)
    <3>1. ServingStep(w) /\ serving'[w].pc = "exit" /\ UNCHANGED <<wire, handled>>
        BY <2>2, LeavePoolEffect
    <3>2. \A t \in Posters : HeadsKept(t)
        BY <3>1, SameHeads DEF Established
    <3> QED
        BY <1>1, <3>1, <3>2, QuietHandled DEF ServingStep
  <2>3. CASE CloseConnection(w)
    <3> DEFINE k == serving[w].conn
    <3>1. WireStep(k) /\ wire'[k].up = <<>> /\ ServingStep(w) /\ serving'[w].pc = "pool"
          /\ handled' = handled
        BY <2>3, CloseEffect DEF Closes
    <3>2. Established' = Established
          /\ \A j \in Established : wire'[j].up = wire[j].up \/ wire'[j].up = <<>>
        BY <3>1 DEF WireStep, Established
    <3>3. \A t \in Posters : HeadsKept(t)
        BY <3>2, SameHeads
    <3> QED
        BY <1>1, <3>1, <3>3, QuietHandled DEF ServingStep
  <2>4. CASE Turn(w)
      BY <1>1, <1>5, <2>4, TurnHandled
  <2> QED
      BY <1>5, ThreadSteps, <2>1, <2>2, <2>3, <2>4
<1> QED
    BY <1>2, <1>3, <1>4, <1>5 DEF ServerNext, Listener

-----------------------------------------------------------------------------
\* A step of a client that sends no head of t.
LEMMA MoveHeads ==
    ASSUME HttpTypeOK, OwnedInv, NEW c \in HttpClients, ClientMove(c), NEW t,
           sock[c] # 0 => Fewer(t, wire[ConnOf(c)], wire'[ConnOf(c)])
    PROVE  HeadsKept(t)
<1>1. /\ \A k \in Established : k \in Established'
      /\ \A k \in Established' : k \notin Established => wire'[k] = NewConnection
    BY MoveConns
<1>2. ASSUME NEW k \in Established PROVE Fewer(t, wire[k], wire'[k])
  <2>1. wire[k] \in Conns
      BY ElementOfSeq DEF HttpTypeOK, Established
  <2>2. wire'[k] = wire[k] \/ (sock[c] # 0 /\ k = ConnOf(c))
      BY DEF ClientMove, WireOf
  <2> QED
      BY <2>1, <2>2, FewerHeads
<1>3. Len(NewConnection.up) = 0
    BY NewTyped, EmptySeq
<1> QED
    BY <1>1, <1>2, <1>3 DEF HeadsKept

\* Steps of clients that send nothing.
LEMMA HangUpHeads ==
    ASSUME HttpTypeOK, OwnedInv, NEW c \in HttpClients, ClientMove(c), NEW t,
           \/ HasHungUp(c) \/ HasConnected(c)
           \/ sock[c] # 0 => wire'[ConnOf(c)].up = wire[ConnOf(c)].up
    PROVE  HeadsKept(t)
<1>1. sock[c] # 0 => wire[ConnOf(c)] \in Conns
    BY SocketTyped
<1>2. sock[c] # 0 => \/ wire'[ConnOf(c)].up = wire[ConnOf(c)].up
                     \/ wire'[ConnOf(c)].up = <<>>
    BY DEF HasHungUp, HasConnected, HangsUp
<1> QED
    BY <1>1, <1>2, FewerHeads, MoveHeads

\* What a call sends, apart from its own head.
LEMMA TalksHeads ==
    ASSUME NEW t, NEW n \in Conns, NEW p, NEW n2, NEW p2, Talks(t, n, p, n2, p2), NEW u,
           u # t \/ ~Asks(t, n, p, n2, p2)
    PROVE  Fewer(u, n, n2)
<1>1. CASE Asks(t, n, p, n2, p2)
  <2>1. PICK seg \in Segments : seg.of = t /\ Uploads(n, n2, seg)
      BY <1>1 DEF Asks
  <2> QED
      BY <1>1, <2>1, FewerHeads
<1>2. CASE AsksMore(t, n, p, n2, p2)
  <2>1. PICK seg \in Segments : seg.part = "body" /\ Uploads(n, n2, seg)
      BY <1>2 DEF AsksMore
  <2>2. "body" # "head"
      OBVIOUS
  <2> QED
      BY <2>1, <2>2, FewerHeads
<1>3. CASE Hears(n, p, n2, p2) \/ HearsMore(n, p, n2, p2) \/ GivesUpCall(n, p, n2, p2)
  <2>1. n2.up = n.up
      BY <1>3 DEF Hears, HearsMore, GivesUpCall, Downloads
  <2> QED
      BY <2>1, FewerHeads
<1> QED
    BY <1>1, <1>2, <1>3 DEF Talks

\* A call sends its head.
LEMMA AsksHandled ==
    ASSUME HttpTypeOK, OwnedInv, NEW t \in Posters, HandledOf(t), TalkStep(t),
           Asks(t, wire[ConnOf(uses[t])], post[t], wire'[ConnOf(uses[t])], post'[t]),
           UNCHANGED <<serving, handled>>
    PROVE  HandledOf(t)'
<1> DEFINE c == uses[t]
           k == ConnOf(c)
           n == wire[k]
<1>1. c \in HttpClients /\ sock[c] # 0 /\ ClientMove(c)
    BY CallTyped DEF TalkStep
<1>2. k \in Established /\ n \in Conns
    BY <1>1, SocketTyped
<1>3. PICK seg \in Segments : Uploads(n, wire'[k], seg)
    BY DEF Asks
<1>4. post[t].pc \in Early /\ post'[t].pc \notin Early
    BY DEF Asks, Early
<1>5. /\ \A l, i : ~HeadOf(t, l, i)
      /\ \A w \in ServerThreads : ~Handling(w, t)
      /\ ~BagIn(t, handled)
    BY <1>4 DEF HandledOf
<1>6. n.up \in Seq(Segments) /\ Len(n.up) \in Nat
    BY <1>2, LenProperties DEF Conns
<1>7. ASSUME NEW l, NEW i, HeadOf(t, l, i)' PROVE l = k /\ i = Len(n.up) + 1
  <2>1. l \in Established' /\ i \in 1..Len(wire'[l].up) /\ wire'[l].up[i].part = "head"
        /\ wire'[l].up[i].of = t
      BY <1>7 DEF HeadOf, HeadIn
  <2>2. l \in Established
    <3>1. l \notin Established => wire'[l] = NewConnection
        BY <1>1, <2>1, MoveConns
    <3>2. Len(NewConnection.up) = 0
        BY NewTyped, EmptySeq
    <3> QED
        BY <2>1, <3>1, <3>2
  <2>3. l = k
    <3>1. wire'[l] = wire[l] \/ l = k
        BY <1>1, <2>2 DEF ClientMove, WireOf
    <3>2. wire'[l] = wire[l] => HeadOf(t, l, i)
        BY <2>1, <2>2 DEF HeadOf, HeadIn
    <3> QED
        BY <1>5, <3>1, <3>2
  <2>4. wire'[k].up # n.up
    <3>1. wire'[k].up = n.up => HeadOf(t, k, i)
        BY <1>2, <2>1, <2>3 DEF HeadOf, HeadIn
    <3> QED
        BY <1>5, <3>1
  <2>5. wire'[k].up = Append(n.up, seg)
      BY <1>3, <2>4 DEF Uploads
  <2>6. /\ Len(wire'[k].up) = Len(n.up) + 1
        /\ \A j \in 1..Len(n.up) : wire'[k].up[j] = n.up[j]
      BY <1>6, <2>5
  <2>7. i \notin 1..Len(n.up)
    <3>1. i \in 1..Len(n.up) => HeadOf(t, k, i)
        BY <1>2, <2>1, <2>3, <2>6 DEF HeadOf, HeadIn
    <3> QED
        BY <1>5, <3>1
  <2> QED
      BY <1>6, <2>1, <2>3, <2>6, <2>7
<1>8. \A w \in ServerThreads : ~Handling(w, t)'
    BY <1>5 DEF Handling
<1> QED
    BY <1>4, <1>5, <1>7, <1>8 DEF HandledOf

\* The steps of a call.
LEMMA CallHandled ==
    ASSUME HttpTypeOK, OwnedInv, HandledInv, NEW t \in Posters, CallStep(t),
           UNCHANGED serverVars
    PROVE  HandledInv'
<1> DEFINE c == uses[t]
<1>1. c \in HttpClients /\ ClientMove(c) /\ CallOf(t) /\ UNCHANGED <<serving, handled>>
    BY CallMove, CallTyped DEF serverVars
<1>2. ASSUME NEW u \in Posters PROVE HandledOf(u)'
  <2>1. HandledOf(u)
      BY DEF HandledInv
  <2>2. \A w \in ServerThreads : Handling(w, u)' => Handling(w, u)
      BY <1>1 DEF Handling
  <2>3. u # t => post'[u] = post[u]
      BY <1>1 DEF CallOf
  <2>4. CASE TalkStep(t)
    <3> DEFINE k == ConnOf(c)
    <3>1. sock[c] # 0 /\ Talks(t, wire[k], post[t], wire'[k], post'[t]) /\ wire[k] \in Conns
        BY <1>1, <2>4, SocketTyped DEF TalkStep
    <3>2. CASE u = t /\ Asks(t, wire[k], post[t], wire'[k], post'[t])
        BY <1>1, <2>1, <2>4, <3>2, AsksHandled
    <3>3. CASE ~(u = t /\ Asks(t, wire[k], post[t], wire'[k], post'[t]))
      <4>1. Fewer(u, wire[k], wire'[k])
          BY <3>1, <3>3, TalksHeads
      <4>2. HeadsKept(u)
          BY <1>1, <4>1, MoveHeads
      <4>3. post'[u].pc \in Early => post[u].pc \in Early
          BY <2>3, <2>4, TalkPlaces DEF Early
      <4> QED
          BY <1>1, <2>1, <2>2, <4>2, <4>3, HandledStays DEF HandledOf
    <3> QED
        BY <3>2, <3>3
  <2>5. CASE ~TalkStep(t)
    <3>1. \/ HasHungUp(c) \/ HasConnected(c)
          \/ sock[c] # 0 => wire'[ConnOf(c)].up = wire[ConnOf(c)].up
        BY <2>5 DEF CallStep, PostStep, LockStep, ConnectStep, NoConnectStep, HangUpStep, FinishStep
    <3>2. HeadsKept(u)
        BY <1>1, <3>1, HangUpHeads
    <3>3. post'[t].pc \in Early => post[t].pc \in Early
        BY <2>5 DEF CallStep, PostStep, LockStep, ConnectStep, NoConnectStep, HangUpStep, FinishStep,
           Moves, Early
    <3>4. post'[u].pc \in Early => post[u].pc \in Early
        BY <2>3, <3>3
    <3> QED
        BY <1>1, <2>1, <2>2, <3>2, <3>4, HandledStays DEF HandledOf
  <2> QED
      BY <2>4, <2>5
<1> QED
    BY <1>2 DEF HandledInv

\* stop() and the end of a client.
LEMMA StopHandled ==
    ASSUME HttpTypeOK, OwnedInv, HandledInv, NEW c \in HttpClients, StopStep(c) \/ GoneStep(c),
           UNCHANGED serverVars
    PROVE  HandledInv'
<1>1. ClientMove(c) /\ post' = post /\ UNCHANGED <<serving, handled>>
    BY DEF StopStep, GoneStep, serverVars
<1>2. HasHungUp(c) \/ (sock[c] # 0 => wire'[ConnOf(c)].up = wire[ConnOf(c)].up)
    BY DEF StopStep, GoneStep, Shuts
<1>3. \A t \in Posters : HeadsKept(t)
    BY <1>1, <1>2, HangUpHeads
<1> QED
    BY <1>1, <1>3, QuietHandled

(***************************************************************************)
(* An answer of 200 is that of a request that has been handled.            *)
(***************************************************************************)
\* An answer of 200 tells that the handler has been called: B counts its calls.
Given(B, n) ==
    \A i \in 1..Len(n.down) : n.down[i].status = 200 => BagIn(n.down[i].of, B)
Owed(B, s) == s.pc \in {"reply", "content"} /\ s.status = 200 => BagIn(s.of, B)

AnswersInv ==
    /\ \A w \in ServerThreads : Owed(handled, serving[w])
    /\ \A k \in Established : Given(handled, wire[k])

-----------------------------------------------------------------------------
\* Answers that are sent, read or lost.
LEMMA GivenStays ==
    ASSUME NEW n, NEW n2, NEW B, NEW B2, \A t : BagIn(t, B) => BagIn(t, B2), Given(B, n),
           n2.down = n.down \/ Downloads(n, n2)
    PROVE  Given(B2, n2)
<1>1. CASE n2.down = n.down
    BY <1>1 DEF Given
<1>2. CASE Downloads(n, n2)
  <2>1. /\ Len(n.down) \in Nat /\ Len(n2.down) = Len(n.down) - 1
        /\ \A i \in 1..Len(n2.down) : n2.down[i] = n.down[i + 1]
      BY <1>2 DEF Downloads
  <2>2. \A i \in 1..Len(n2.down) : i + 1 \in 1..Len(n.down)
      BY <2>1
  <2> QED
      BY <2>1, <2>2 DEF Given
<1> QED
    BY <1>1, <1>2

\* Nothing is given where nothing is on its way.
LEMMA NothingGiven == ASSUME NEW n, NEW B, n.down = <<>> PROVE Given(B, n)
<1>1. Len(n.down) = 0
    BY EmptySeq
<1> QED
    BY <1>1 DEF Given

\* A thread of the pool sends what it owes.
LEMMA SendsGiven ==
    ASSUME NEW n \in Conns, NEW n2, NEW a \in Replies, NEW B, Sends(n, n2, a), Given(B, n),
           a.status = 200 => BagIn(a.of, B)
    PROVE  Given(B, n2)
<1>1. CASE n.cs # "open"
    BY <1>1, GivenStays DEF Sends
<1>2. CASE n.cs = "open"
  <2>1. n2.down = Append(n.down, a) /\ n.down \in Seq(Replies) /\ Len(n.down) \in Nat
      BY <1>2, LenProperties DEF Sends, Conns
  <2>2. /\ Len(n2.down) = Len(n.down) + 1 /\ n2.down[Len(n.down) + 1] = a
        /\ \A i \in 1..Len(n.down) : n2.down[i] = n.down[i]
      BY <2>1, AppendProperties
  <2>3. \A i \in 1..Len(n2.down) : i \in 1..Len(n.down) \/ i = Len(n.down) + 1
      BY <2>1, <2>2
  <2> QED
      BY <2>2, <2>3 DEF Given
<1> QED
    BY <1>1, <1>2

\* The answers of a turn.
LEMMA ServingAnswers ==
    ASSUME NEW n \in Conns, NEW s, NEW n2, NEW s2, NEW B, NEW B2, Serving(n, s, n2, s2),
           \A t : BagIn(t, B) => BagIn(t, B2), s.pc = "handler" => BagIn(s.of, B2),
           Given(B, n), Owed(B, s)
    PROVE  Given(B2, n2) /\ Owed(B2, s2)
<1>1. CASE Between(n, s, n2, s2)
    BY <1>1, GivenStays DEF Between, Owed
<1>2. CASE ReadsHead(n, s, n2, s2)
  <2>1. n2.down = n.down /\ s2.pc \in {"body", "handler"}
      BY <1>2 DEF ReadsHead, Reads
  <2> QED
      BY <2>1, GivenStays DEF Owed
<1>3. CASE ReadsStray(n, s, n2, s2)
  <2>1. n2.down = n.down /\ s2.status = 400
      BY <1>3 DEF ReadsStray, Reads
  <2> QED
      BY <2>1, GivenStays DEF Owed
<1>4. CASE ReadsBody(n, s, n2, s2)
  <2>1. n2.down = n.down /\ s2.pc = "handler"
      BY <1>4 DEF ReadsBody, Reads
  <2> QED
      BY <2>1, GivenStays DEF Owed
<1>5. CASE GivesUp(n, s, n2, s2)
  <2>1. n2.down = n.down /\ s2.status = 400
      BY <1>5 DEF GivesUp
  <2> QED
      BY <2>1, GivenStays DEF Owed
<1>6. CASE Handles(n, s, n2, s2)
  <2>1. n2 = n /\ s.pc = "handler" /\ s2.of = s.of
      BY <1>6 DEF Handles
  <2> QED
      BY <2>1, GivenStays DEF Owed
<1>7. CASE WritesHead(n, s, n2, s2)
  <2>1. PICK a \in Replies : a.of = s.of /\ a.status = s.status /\ Sends(n, n2, a)
      BY <1>7 DEF WritesHead
  <2>2. s.pc = "reply" /\ (s2.pc \in {"loop", "close"} \/ (s2.of = s.of /\ s2.status = s.status))
      BY <1>7 DEF WritesHead
  <2>3. Given(B2, n)
      BY GivenStays
  <2>4. a.status = 200 => BagIn(a.of, B2)
      BY <2>1, <2>2 DEF Owed
  <2>5. Given(B2, n2)
      BY <2>1, <2>3, <2>4, SendsGiven
  <2> QED
      BY <2>2, <2>5 DEF Owed
<1>8. CASE WritesBody(n, s, n2, s2)
  <2>1. PICK a \in Replies : a.of = s.of /\ a.status = s.status /\ Sends(n, n2, a)
      BY <1>8 DEF WritesBody
  <2>2. s.pc = "content" /\ s2.pc \in {"loop", "close"}
      BY <1>8 DEF WritesBody
  <2>3. Given(B2, n)
      BY GivenStays
  <2>4. a.status = 200 => BagIn(a.of, B2)
      BY <2>1, <2>2 DEF Owed
  <2>5. Given(B2, n2)
      BY <2>1, <2>3, <2>4, SendsGiven
  <2> QED
      BY <2>2, <2>5 DEF Owed
<1> QED
    BY <1>1, <1>2, <1>3, <1>4, <1>5, <1>6, <1>7, <1>8 DEF Serving

\* A step that answers nobody.
LEMMA AnswersStay ==
    ASSUME AnswersInv, handled' = handled,
           \A w \in ServerThreads : serving'[w] = serving[w] \/ serving'[w].pc \notin {"reply", "content"},
           \A k \in Established' :
               \/ wire'[k].down = <<>>
               \/ k \in Established /\ wire'[k].down = wire[k].down
               \/ k \in Established /\ Downloads(wire[k], wire'[k])
    PROVE  AnswersInv'
<1>1. \A w \in ServerThreads : Owed(handled, serving'[w])
    BY DEF AnswersInv, Owed
<1>2. \A k \in Established' : Given(handled, wire'[k])
    BY GivenStays, NothingGiven DEF AnswersInv
<1> QED
    BY <1>1, <1>2 DEF AnswersInv

\* The handler is called only once more.
LEMMA HandledGrows ==
    ASSUME NEW w \in ServerThreads, ServerThread(w)
    PROVE  /\ \A t : BagIn(t, handled) => BagIn(t, handled')
           /\ serving[w].pc = "handler" => BagIn(serving[w].of, handled')
  BY HandledStep, OneMore

\* The steps of the server.
LEMMA ServerAnswers ==
    ASSUME HttpTypeOK, ServedInv, AnswersInv, ServerNext \/ Stop \/ AcceptFails
    PROVE  AnswersInv' /\ \A t : BagIn(t, handled) => BagIn(t, handled')
<1>2. CASE Stop \/ AcceptFails
  <2>1. SameConns /\ (\A k \in Established : Reset(wire[k], wire'[k])) /\ UNCHANGED <<serving, handled>>
      BY <1>2, ResetEffect DEF HttpTypeOK, Stop, AcceptFails
  <2>2. Established' = Established /\ \A k \in Established : wire'[k].down = wire[k].down
      BY <2>1 DEF SameConns, Established, Reset
  <2> QED
      BY <2>1, <2>2, AnswersStay
<1>3. CASE Accept
  <2>1. PICK k \in Established : WireStep(k) /\ wire'[k].down = wire[k].down
      BY <1>3, AcceptEffect
  <2>2. UNCHANGED <<serving, handled>>
      BY <1>3 DEF Accept
  <2>3. Established' = Established /\ \A j \in Established : wire'[j].down = wire[j].down
      BY <2>1 DEF WireStep, Established
  <2> QED
      BY <2>2, <2>3, AnswersStay
<1>4. CASE AcceptAfterStop \/ ShutdownPool \/ ListenReturns
  <2>1. UNCHANGED <<wire, serving, handled>>
      BY <1>4 DEF AcceptAfterStop, ShutdownPool, ListenReturns
  <2> QED
      BY <2>1, AnswersStay DEF Established
<1>5. ASSUME NEW w \in ServerThreads, ServerThread(w)
      PROVE  AnswersInv' /\ \A t : BagIn(t, handled) => BagIn(t, handled')
  <2>1. CASE TakeJob(w)
    <3>1. ServingStep(w) /\ serving'[w].pc = "loop" /\ UNCHANGED <<wire, handled>>
        BY <2>1, TakeJobEffect
    <3> QED
        BY <3>1, AnswersStay DEF ServingStep, Established
  <2>2. CASE LeavePool(w)
    <3>1. ServingStep(w) /\ serving'[w].pc = "exit" /\ UNCHANGED <<wire, handled>>
        BY <2>2, LeavePoolEffect
    <3> QED
        BY <3>1, AnswersStay DEF ServingStep, Established
  <2>3. CASE CloseConnection(w)
    <3> DEFINE k == serving[w].conn
    <3>1. WireStep(k) /\ wire'[k].down \in {wire[k].down, <<>>} /\ ServingStep(w)
          /\ serving'[w].pc = "pool" /\ handled' = handled
        BY <2>3, CloseEffect DEF Closes
    <3>2. Established' = Established
          /\ \A j \in Established : wire'[j].down = wire[j].down \/ wire'[j].down = <<>>
        BY <3>1 DEF WireStep, Established
    <3> QED
        BY <3>1, <3>2, AnswersStay DEF ServingStep
  <2>4. CASE Turn(w)
    <3> DEFINE k == serving[w].conn
    <3>1. k \in Established /\ wire[k] \in Conns
        BY <2>4, Serves DEF Turn
    <3>2. WireStep(k) /\ ServingStep(w) /\ Serving(wire[k], serving[w], wire'[k], serving'[w])
        BY <2>4 DEF Turn
    <3>3. /\ \A t : BagIn(t, handled) => BagIn(t, handled')
          /\ serving[w].pc = "handler" => BagIn(serving[w].of, handled')
        BY <1>5, HandledGrows
    <3>4. Given(handled', wire'[k]) /\ Owed(handled', serving'[w])
        BY <3>1, <3>2, <3>3, ServingAnswers DEF AnswersInv
    <3>5. \A v \in ServerThreads : v # w => Owed(handled', serving'[v])
        BY <3>2, <3>3 DEF ServingStep, AnswersInv, Owed
    <3>6. Established' = Established
          /\ \A j \in Established : j # k => Given(handled', wire'[j])
        BY <3>2, <3>3 DEF WireStep, Established, AnswersInv, Given
    <3> QED
        BY <3>3, <3>4, <3>5, <3>6 DEF AnswersInv
  <2> QED
      BY <1>5, ThreadSteps, <2>1, <2>2, <2>3, <2>4
<1> QED
    BY <1>2, <1>3, <1>4, <1>5 DEF ServerNext, Listener

\* What a client does to the answers on its way.
LEMMA MoveAnswers ==
    ASSUME HttpTypeOK, OwnedInv, AnswersInv, NEW c \in HttpClients, ClientMove(c),
           UNCHANGED <<serving, handled>>,
           \/ HasHungUp(c) \/ HasConnected(c)
           \/ sock[c] # 0 => \/ wire'[ConnOf(c)].down = wire[ConnOf(c)].down
                             \/ Downloads(wire[ConnOf(c)], wire'[ConnOf(c)])
    PROVE  AnswersInv'
<1>1. \A k \in Established' : k \notin Established => wire'[k] = NewConnection
    BY MoveConns
<1>2. \A k \in Established : wire'[k] = wire[k] \/ (sock[c] # 0 /\ k = ConnOf(c))
    BY DEF ClientMove, WireOf
<1>3. sock[c] # 0 => \/ wire'[ConnOf(c)].down = wire[ConnOf(c)].down
                     \/ Downloads(wire[ConnOf(c)], wire'[ConnOf(c)])
                     \/ wire'[ConnOf(c)].down = <<>>
    BY DEF HasHungUp, HasConnected, HangsUp
<1> QED
    BY <1>1, <1>2, <1>3, NewTyped, AnswersStay

\* The steps of a call.
LEMMA CallAnswers ==
    ASSUME HttpTypeOK, OwnedInv, AnswersInv, NEW t \in Posters, CallStep(t), UNCHANGED serverVars
    PROVE  AnswersInv'
<1> DEFINE c == uses[t]
<1>1. c \in HttpClients /\ ClientMove(c) /\ UNCHANGED <<serving, handled>>
    BY CallMove, CallTyped DEF serverVars
<1>2. CASE TalkStep(t)
  <2> DEFINE n == wire[ConnOf(c)]
             n2 == wire'[ConnOf(c)]
  <2>1. Talks(t, n, post[t], n2, post'[t])
      BY <1>2 DEF TalkStep
  <2>2. n2.down = n.down \/ Downloads(n, n2)
    <3>1. Asks(t, n, post[t], n2, post'[t]) => n2.down = n.down
        BY DEF Asks, Uploads
    <3>2. AsksMore(t, n, post[t], n2, post'[t]) => n2.down = n.down
        BY DEF AsksMore, Uploads
    <3> QED
        BY <2>1, <3>1, <3>2 DEF Talks, Hears, HearsMore, GivesUpCall
  <2> QED
      BY <1>1, <2>2, MoveAnswers
<1>3. CASE ~TalkStep(t)
  <2>1. \/ HasHungUp(c) \/ HasConnected(c)
        \/ sock[c] # 0 => wire'[ConnOf(c)].down = wire[ConnOf(c)].down
      BY <1>3 DEF CallStep, PostStep, LockStep, ConnectStep, NoConnectStep, HangUpStep, FinishStep
  <2> QED
      BY <1>1, <2>1, MoveAnswers
<1> QED
    BY <1>2, <1>3

\* stop() and the end of a client.
LEMMA StopAnswers ==
    ASSUME HttpTypeOK, OwnedInv, AnswersInv, NEW c \in HttpClients, StopStep(c) \/ GoneStep(c),
           UNCHANGED serverVars
    PROVE  AnswersInv'
<1>1. ClientMove(c) /\ UNCHANGED <<serving, handled>>
    BY DEF StopStep, GoneStep, serverVars
<1>2. HasHungUp(c) \/ (sock[c] # 0 => wire'[ConnOf(c)].down = wire[ConnOf(c)].down)
    BY DEF StopStep, GoneStep, Shuts
<1> QED
    BY <1>1, <1>2, MoveAnswers

(* How far the exchange of a call, p, of thread t has come on its           *)
(* connection, n, with the turn, s, of the thread that serves it.           *)

\* The server has not finished with the connection.
Engaged(n, s) == n.ss # "closed" /\ s.pc # "close"
\* Nothing is being answered.
Waiting(s) == s.pc \in {"loop", "wait", "head"}
\* No request is on its way, and no answer.
Quiet(n, s) ==
    ~n.late /\ Len(n.down) = 0 /\ (Engaged(n, s) => Waiting(s) /\ Len(n.up) = 0)

\* What there is to read belongs to the call, at its beginning at least.
BodyFits(t, n, p) ==
    /\ p.got.of = t
    /\ Len(n.down) > 0 => n.down[1].of = t
    /\ n.cs = "open" => ~n.late /\ Len(n.down) <= 1
HeadFits(t, n, p) ==
    Len(n.down) > 0 =>
        /\ n.down[1].of = t
        /\ n.down[1].more /\ Len(n.down) > 1 => n.down[2].of = t
        /\ n.cs = "open" /\ n.late => ~n.down[1].more
        /\ n.cs = "open" /\ ~n.late =>
              p.pc = "read_head" /\ Len(n.down) <= (IF n.down[1].more THEN 2 ELSE 1)
DownFits(t, n, p) == IF p.pc = "read_body" THEN BodyFits(t, n, p) ELSE HeadFits(t, n, p)

\* The request is on its way; it has been read; the head of the answer has
\* been sent, and all of it; the server has not waited for the body.
Sent(t, n, s, p) ==
    /\ Len(n.down) = 0 /\ ~n.late /\ Waiting(s)
    /\ p.pc # "read_body" /\ (p.pc = "write_body" => t \in Writers)
    /\ Len(n.up) = (IF p.pc = "read_head" /\ t \in Writers THEN 2 ELSE 1)
    /\ n.up[1].of = t /\ n.up[1].more = (t \in Writers)
Taken(t, n, s, p) ==
    /\ Len(n.down) = 0 /\ p.pc # "read_body" /\ s.of = t
    /\ \/ s.pc = "body" /\ ~n.late /\ Len(n.up) = (IF p.pc = "read_head" THEN 1 ELSE 0)
       \/ s.pc \in {"handler", "reply"} /\ ~n.late /\ Len(n.up) = 0 /\ p.pc = "read_head"
       \/ s.pc = "reply" /\ n.late /\ ~s.content
Begun(t, n, s, p) ==
    /\ ~n.late /\ Len(n.up) = 0 /\ s.of = t /\ s.pc = "content"
    /\ \/ p.pc = "read_body" /\ Len(n.down) = 0
       \/ p.pc = "read_head" /\ Len(n.down) = 1 /\ n.down[1].more
Complete(n, s, p) ==
    /\ ~n.late /\ Len(n.up) = 0 /\ Waiting(s) /\ Len(n.down) > 0 /\ p.pc # "write_body"
    /\ p.pc = "read_head" /\ n.down[1].more => Len(n.down) = 2
Late(n) == n.late /\ Len(n.down) > 0

Stage(t, n, s, p) ==
    Sent(t, n, s, p) \/ Taken(t, n, s, p) \/ Begun(t, n, s, p) \/ Complete(n, s, p) \/ Late(n)
Talking(t, n, s, p) ==
    DownFits(t, n, p) /\ (n.cs = "open" /\ Engaged(n, s) => Stage(t, n, s, p))

\* A client that keeps its connection may rely on it until a body is late.
ExchangeAt(t, n, s, p, keeps) ==
    ~(keeps /\ n.late) =>
        /\ p.pc = "write_head" => Quiet(n, s)
        /\ p.pc \in {"write_body", "read_head", "read_body"} => Talking(t, n, s, p)
        /\ p.pc = "finish" /\ p.ret /\ keeps /\ n.cs = "open" => Quiet(n, s)
RestAt(n, s) == ~n.late => Quiet(n, s)

\* The turn that serves connection k; a connection that waits for a thread
\* is as one at the beginning of its loop.
Resting == [Unoccupied EXCEPT !.pc = "loop"]
TurnOf(f, k) ==
    IF \E w \in ServerThreads : f[w].conn = k
    THEN f[CHOOSE w \in ServerThreads : f[w].conn = k]
    ELSE Resting
TurnAt(k) == TurnOf(serving, k)

ClientExchange(c) ==
    sock[c] # 0 =>
        /\ \A t \in Posters : uses[t] = c /\ Flying(t) =>
              ExchangeAt(t, wire[ConnOf(c)], TurnAt(ConnOf(c)), post[t], keepAlive[c])
        /\ Idle(c) => RestAt(wire[ConnOf(c)], TurnAt(ConnOf(c)))
\* An answer that a call has read is the answer to its request.
Outcome(t) ==
    post[t].pc \in {"hang_up", "finish", "done"} /\ post[t].ret
    /\ (keepAlive[uses[t]] => ~wire[post[t].conn].late) =>
        post[t].got.of = t /\ (post[t].got.status = 200 => BagIn(t, handled))
ExchangesInv == (\A c \in HttpClients : ClientExchange(c)) /\ (\A t \in Posters : Outcome(t))

\* Nothing is read or sent; a thread may take the connection.
Stays(n, s, n2, s2) ==
    /\ n2.up = n.up /\ n2.down = n.down /\ n2.cs = n.cs /\ n2.late = n.late
    /\ n2.ss = "closed" <=> n.ss = "closed"
    /\ s2 = s \/ (s.pc = "loop" /\ s2.pc = "loop")
\* The server has closed the connection.
Ended(n, n2) ==
    n2.ss = "closed" /\ n2.cs = n.cs /\ n2.late = n.late /\ n2.down \in {n.down, <<>>}
\* What the server does at a connection.
ServerMoves(n, s, n2, s2) ==
    \/ Stays(n, s, n2, s2) \/ Ended(n, n2)
    \/ n.ss = "open" /\ Serving(n, s, n2, s2)

\* The lengths of what is on its way.
LEMMA ConnLens ==
    ASSUME NEW n \in Conns
    PROVE  /\ Len(n.up) \in Nat /\ Len(n.down) \in Nat /\ n.late \in BOOLEAN /\ Len(<<>>) = 0
           /\ \A i \in 1..Len(n.down) : n.down[i].more \in BOOLEAN
           /\ \A i \in 1..Len(n.up) : n.up[i].more \in BOOLEAN
           /\ n.cs \in ClientEnds /\ n.ss \in ServerEnds
<1>1. n.up \in Seq(Segments) /\ n.down \in Seq(Replies)
    BY DEF Conns
<1>2. \A i \in 1..Len(n.down) : n.down[i] \in Replies
    BY <1>1, ElementOfSeq
<1>3. \A i \in 1..Len(n.up) : n.up[i] \in Segments
    BY <1>1, ElementOfSeq
<1> QED
    BY <1>1, <1>2, <1>3, LenProperties, EmptySeq DEF Conns, Replies, Segments

\* What Sends does to the answers on their way.
LEMMA SendsMore ==
    ASSUME NEW n \in Conns, NEW n2, NEW a \in Replies, Sends(n, n2, a)
    PROVE  /\ n2.up = n.up /\ n2.cs = n.cs /\ n2.ss = n.ss /\ n2.late = n.late
           /\ n.cs # "open" => n2.down = n.down
           /\ n.cs = "open" => /\ Len(n2.down) = Len(n.down) + 1
                               /\ n2.down[Len(n.down) + 1] = a
                               /\ \A i \in 1..Len(n.down) : n2.down[i] = n.down[i]
<1>1. n.down \in Seq(Replies)
    BY DEF Conns
<1>2. n.cs = "open" => n2.down = Append(n.down, a)
    BY DEF Sends
<1> QED
    BY <1>1, <1>2, AppendProperties DEF Sends

\* A connection at rest stays so, whatever the server does.
LEMMA QuietServed ==
    ASSUME NEW n \in Conns, NEW s, NEW n2 \in Conns, NEW s2, ServerMoves(n, s, n2, s2), Quiet(n, s)
    PROVE  Quiet(n2, s2)
<1>1. /\ Len(n.up) \in Nat /\ Len(n.down) \in Nat /\ Len(<<>>) = 0
      /\ ~n.late /\ Len(n.down) = 0 /\ (Engaged(n, s) => Waiting(s) /\ Len(n.up) = 0)
    BY ConnLens DEF Quiet
<1>2. CASE Stays(n, s, n2, s2)
  <2>1. Engaged(n2, s2) => Engaged(n, s) /\ Len(n2.up) = 0 /\ Waiting(s2)
      BY <1>1, <1>2 DEF Stays, Engaged, Waiting
  <2> QED
      BY <1>1, <1>2, <2>1 DEF Stays, Quiet
<1>3. CASE Ended(n, n2)
    BY <1>1, <1>3 DEF Ended, Engaged, Quiet
<1>4. CASE n.ss = "open" /\ Serving(n, s, n2, s2)
  <2>1. s.pc # "close"
      BY <1>4 DEF Serving, Between, ReadsHead, ReadsStray, ReadsBody, GivesUp, Handles, WritesHead,
         WritesBody
  <2>2. Waiting(s) /\ Len(n.up) = 0
      BY <1>1, <1>4, <2>1 DEF Engaged
  <2>3. ~ReadsHead(n, s, n2, s2)
      BY <2>2 DEF ReadsHead, Reads
  <2>4. ~ReadsStray(n, s, n2, s2)
      BY <1>1 DEF ReadsStray
  <2>5. Between(n, s, n2, s2)
      BY <1>4, <2>2, <2>3, <2>4 DEF Serving, ReadsBody, GivesUp, Handles, WritesHead, WritesBody,
         Waiting
  <2>6. n2 = n /\ s2.pc \in {"loop", "wait", "head", "close"}
      BY <2>5 DEF Between
  <2> QED
      BY <1>1, <2>2, <2>6 DEF Quiet, Engaged, Waiting
<1> QED
    BY <1>2, <1>3, <1>4 DEF ServerMoves

-----------------------------------------------------------------------------
\* What there is to read fits as long as nothing is sent and no body is late.
LEMMA FitsStays ==
    ASSUME NEW t, NEW n, NEW n2, NEW p, DownFits(t, n, p), n2.cs = n.cs, n2.down = n.down,
           n2.late = n.late
    PROVE  DownFits(t, n2, p)
  BY DEF DownFits, BodyFits, HeadFits

\* The server takes the connection, or has nothing to do.
LEMMA TalkingStays ==
    ASSUME NEW t, NEW n \in Conns, NEW s, NEW n2 \in Conns, NEW s2, NEW p,
           Stays(n, s, n2, s2), Talking(t, n, s, p)
    PROVE  Talking(t, n2, s2, p)
<1>1. DownFits(t, n2, p)
    BY FitsStays DEF Stays, Talking
<1>2. ASSUME n2.cs = "open" /\ Engaged(n2, s2) PROVE Stage(t, n2, s2, p)
  <2>1. n.cs = "open" /\ Engaged(n, s)
      BY <1>2 DEF Stays, Engaged
  <2>2. Stage(t, n, s, p)
      BY <2>1 DEF Talking
  <2>3. CASE s2 = s
      BY <2>2, <2>3 DEF Stays, Stage, Sent, Taken, Begun, Complete, Late
  <2>4. CASE s.pc = "loop" /\ s2.pc = "loop"
      BY <2>2, <2>4 DEF Stays, Stage, Sent, Taken, Begun, Complete, Late, Waiting
  <2> QED
      BY <2>3, <2>4 DEF Stays
<1> QED
    BY <1>1, <1>2 DEF Talking

\* The server closes the connection.
LEMMA TalkingEnds ==
    ASSUME NEW t, NEW n \in Conns, NEW s, NEW n2 \in Conns, NEW s2, NEW p,
           Ended(n, n2), Talking(t, n, s, p)
    PROVE  Talking(t, n2, s2, p)
<1>1. ~Engaged(n2, s2)
    BY DEF Ended, Engaged
<1>2. CASE n2.down = n.down
    BY <1>1, <1>2, FitsStays DEF Ended, Talking
<1>3. CASE n2.down = <<>>
  <2>1. Len(n2.down) = 0
      BY <1>3, ConnLens
  <2>2. DownFits(t, n2, p)
      BY <2>1 DEF Ended, Talking, DownFits, BodyFits, HeadFits
  <2> QED
      BY <1>1, <2>2 DEF Talking
<1> QED
    BY <1>2, <1>3 DEF Ended

\* The stage of a connection that is served and whose client is there.
LEMMA AtStage ==
    ASSUME NEW t, NEW n, NEW s, NEW p, Talking(t, n, s, p), n.ss = "open", s.pc # "close",
           n.cs = "open"
    PROVE  Stage(t, n, s, p)
  BY DEF Talking, Engaged

\* The steps of a turn that leave the answers alone.
LEMMA TalkingReads ==
    ASSUME NEW t, NEW n \in Conns, NEW s, NEW n2 \in Conns, NEW s2, NEW p, n.ss = "open",
           Talking(t, n, s, p), p.pc \in {"write_body", "read_head", "read_body"},
           \/ Between(n, s, n2, s2) \/ ReadsHead(n, s, n2, s2) \/ ReadsStray(n, s, n2, s2)
           \/ ReadsBody(n, s, n2, s2) \/ Handles(n, s, n2, s2)
    PROVE  Talking(t, n2, s2, p)
<1>1. n2.down = n.down /\ n2.cs = n.cs /\ n2.ss = n.ss /\ n2.late = n.late
    BY DEF Between, ReadsHead, ReadsStray, ReadsBody, Handles, Reads
<1>2. DownFits(t, n2, p)
    BY <1>1, FitsStays DEF Talking
<1>3. Len(n.up) \in Nat /\ Len(n.down) \in Nat /\ n.late \in BOOLEAN
      /\ \A i \in 1..Len(n.up) : n.up[i].more \in BOOLEAN
    BY ConnLens
<1>4. ASSUME n2.cs = "open" /\ Engaged(n2, s2) PROVE Stage(t, n2, s2, p)
  <2>1. n.cs = "open" /\ s2.pc # "close"
      BY <1>1, <1>4 DEF Engaged
  <2>2. s.pc # "close"
      BY DEF Between, ReadsHead, ReadsStray, ReadsBody, Handles
  <2>3. Stage(t, n, s, p)
      BY <2>1, <2>2, AtStage
  <2>4. Late(n) => Late(n2)
      BY <1>1 DEF Late
  <2>5. CASE Between(n, s, n2, s2)
    <3>1. n2 = n /\ s.pc \in {"loop", "wait", "head"} /\ Waiting(s2)
        BY <2>1, <2>5 DEF Between, Waiting
    <3> QED
        BY <2>3, <3>1 DEF Stage, Sent, Taken, Begun, Complete, Late
  <2>6. CASE ReadsHead(n, s, n2, s2)
    <3>1. s.pc = "head" /\ Len(n.up) >= 1 /\ Len(n2.up) = Len(n.up) - 1 /\ s2.of = n.up[1].of
          /\ s2.pc = (IF n.up[1].more THEN "body" ELSE "handler")
        BY <1>3, <2>6 DEF ReadsHead, Reads
    <3>2. Sent(t, n, s, p) \/ Late(n)
        BY <2>3, <3>1 DEF Stage, Taken, Begun, Complete
    <3>3. ASSUME Sent(t, n, s, p) PROVE Taken(t, n2, s2, p)
      <4>1. /\ Len(n2.down) = 0 /\ ~n2.late /\ p.pc # "read_body" /\ s2.of = t
            /\ p.pc = "write_body" => t \in Writers
            /\ Len(n.up) = (IF p.pc = "read_head" /\ t \in Writers THEN 2 ELSE 1)
            /\ s2.pc = (IF t \in Writers THEN "body" ELSE "handler")
          BY <1>1, <3>1, <3>3 DEF Sent
      <4>2. CASE t \in Writers
        <5>1. Len(n2.up) = (IF p.pc = "read_head" THEN 1 ELSE 0)
            BY <3>1, <4>1, <4>2
        <5> QED
            BY <4>1, <4>2, <5>1 DEF Taken
      <4>3. CASE t \notin Writers
        <5>1. Len(n2.up) = 0 /\ p.pc = "read_head"
            BY <3>1, <4>1, <4>3
        <5> QED
            BY <4>1, <4>3, <5>1 DEF Taken
      <4> QED
          BY <4>2, <4>3
    <3> QED
        BY <2>4, <3>2, <3>3 DEF Stage
  <2>7. CASE ReadsStray(n, s, n2, s2)
    <3>1. n.late /\ s.pc = "head"
        BY <2>7 DEF ReadsStray
    <3>2. Late(n)
        BY <2>3, <3>1 DEF Stage, Sent, Taken, Begun, Complete
    <3> QED
        BY <2>4, <3>2 DEF Stage
  <2>8. CASE ReadsBody(n, s, n2, s2)
    <3>1. s.pc = "body" /\ s2.pc = "handler" /\ s2.of = s.of
          /\ Len(n.up) >= 1 /\ Len(n2.up) = Len(n.up) - 1
        BY <1>3, <2>8 DEF ReadsBody, Reads
    <3>2. Taken(t, n, s, p) \/ Late(n)
        BY <2>3, <3>1 DEF Stage, Sent, Begun, Complete, Waiting
    <3>3. ASSUME Taken(t, n, s, p) PROVE Taken(t, n2, s2, p)
      <4>1. /\ Len(n2.down) = 0 /\ ~n2.late /\ p.pc # "read_body" /\ s2.of = t
            /\ Len(n.up) = (IF p.pc = "read_head" THEN 1 ELSE 0)
          BY <1>1, <3>1, <3>3 DEF Taken
      <4>2. Len(n2.up) = 0 /\ p.pc = "read_head"
          BY <3>1, <4>1
      <4> QED
          BY <3>1, <4>1, <4>2 DEF Taken
    <3> QED
        BY <2>4, <3>2, <3>3 DEF Stage
  <2>9. CASE Handles(n, s, n2, s2)
    <3>1. n2 = n /\ s.pc = "handler" /\ s2.pc = "reply" /\ s2.of = s.of
        BY <2>9 DEF Handles
    <3>2. Taken(t, n, s, p) \/ Late(n)
        BY <2>3, <3>1 DEF Stage, Sent, Begun, Complete, Waiting
    <3>3. Taken(t, n, s, p) => Taken(t, n2, s2, p)
        BY <3>1 DEF Taken
    <3> QED
        BY <2>4, <3>2, <3>3 DEF Stage
  <2> QED
      BY <2>5, <2>6, <2>7, <2>8, <2>9
<1> QED
    BY <1>2, <1>4 DEF Talking

\* The server gives the body up.
LEMMA TalkingLate ==
    ASSUME NEW t, NEW n \in Conns, NEW s, NEW n2 \in Conns, NEW s2, NEW p, n.ss = "open",
           Talking(t, n, s, p), GivesUp(n, s, n2, s2)
    PROVE  Talking(t, n2, s2, p)
<1>1. /\ n2.down = n.down /\ n2.cs = n.cs /\ n2.ss = n.ss /\ n2.late = TRUE /\ s.pc = "body"
      /\ s2.pc = "reply" /\ s2.of = s.of /\ s2.content = FALSE
    BY DEF GivesUp
<1>2. CASE n.cs # "open"
    BY <1>1, <1>2 DEF Talking, DownFits, BodyFits, HeadFits
<1>3. CASE n.cs = "open"
  <2>1. Stage(t, n, s, p)
      BY <1>1, <1>3, AtStage
  <2>2. Taken(t, n, s, p) \/ Late(n)
      BY <1>1, <2>1 DEF Stage, Sent, Begun, Complete, Waiting
  <2>3. CASE Late(n)
    <3>1. n.late = TRUE
        BY <2>3, ConnLens DEF Late
    <3>2. DownFits(t, n2, p)
        BY <1>1, <3>1, FitsStays DEF Talking
    <3>3. Late(n2)
        BY <1>1, <2>3 DEF Late
    <3> QED
        BY <3>2, <3>3 DEF Talking, Stage
  <2>4. CASE Taken(t, n, s, p)
    <3>1. Len(n.down) = 0 /\ p.pc # "read_body" /\ s.of = t
        BY <2>4 DEF Taken
    <3>2. DownFits(t, n2, p)
        BY <1>1, <3>1 DEF DownFits, HeadFits
    <3>3. Taken(t, n2, s2, p)
        BY <1>1, <3>1 DEF Taken
    <3> QED
        BY <3>2, <3>3 DEF Talking, Stage
  <2> QED
      BY <2>2, <2>3, <2>4
<1> QED
    BY <1>2, <1>3

\* An answer that nobody reads any more changes nothing.
LEMMA TalkingAlone ==
    ASSUME NEW t, NEW n, NEW s, NEW n2, NEW s2, NEW p, Talking(t, n, s, p), n.cs # "open",
           n2.cs = n.cs, n2.down = n.down, n2.late = n.late
    PROVE  Talking(t, n2, s2, p)
  BY FitsStays DEF Talking

\* The head of the answer is sent.
LEMMA TalkingHead ==
    ASSUME NEW t, NEW n \in Conns, NEW s, NEW n2 \in Conns, NEW s2, NEW p, n.ss = "open",
           Talking(t, n, s, p), p.pc \in {"write_body", "read_head", "read_body"},
           WritesHead(n, s, n2, s2)
    PROVE  Talking(t, n2, s2, p)
<1>1. PICK a \in Replies : a.of = s.of /\ a.more = s.content /\ Sends(n, n2, a)
    BY DEF WritesHead
<1>2. s.pc = "reply" /\ (s.content => s2.pc = "content" /\ s2.of = s.of)
      /\ (~s.content => s2.pc \in {"loop", "close"})
    BY DEF WritesHead
<1>3. /\ n2.up = n.up /\ n2.cs = n.cs /\ n2.ss = n.ss /\ n2.late = n.late
      /\ n.cs # "open" => n2.down = n.down
      /\ n.cs = "open" => /\ Len(n2.down) = Len(n.down) + 1
                          /\ n2.down[Len(n.down) + 1] = a
                          /\ \A i \in 1..Len(n.down) : n2.down[i] = n.down[i]
    BY <1>1, SendsMore
<1>4. Len(n.up) \in Nat /\ Len(n.down) \in Nat /\ n.late \in BOOLEAN /\ a.more \in BOOLEAN
    BY ConnLens DEF Replies
<1>5. CASE n.cs # "open"
    BY <1>3, <1>5, TalkingAlone
<1>6. CASE n.cs = "open"
  <2>1. Stage(t, n, s, p)
      BY <1>2, <1>6, AtStage
  <2>2. Taken(t, n, s, p) \/ Late(n)
      BY <1>2, <2>1 DEF Stage, Sent, Begun, Complete, Waiting
  <2>3. CASE Late(n)
    <3>1. n.late /\ Len(n.down) >= 1 /\ n2.down[1] = n.down[1] /\ Len(n2.down) > 0 /\ n2.late
        BY <1>3, <1>4, <1>6, <2>3 DEF Late
    <3>2. p.pc # "read_body"
        BY <1>6, <3>1 DEF Talking, DownFits, BodyFits
    <3>3. n.down[1].of = t /\ ~n.down[1].more
        BY <1>6, <3>1, <3>2 DEF Talking, DownFits, HeadFits
    <3>4. HeadFits(t, n2, p)
        BY <3>1, <3>3 DEF HeadFits
    <3>5. Late(n2)
        BY <3>1 DEF Late
    <3> QED
        BY <3>2, <3>4, <3>5 DEF Talking, DownFits, Stage
  <2>4. CASE Taken(t, n, s, p)
    <3>1. /\ Len(n2.down) = 1 /\ n2.down[1] = a /\ a.of = t /\ s.of = t /\ p.pc # "read_body"
          /\ \/ ~n2.late /\ Len(n2.up) = 0 /\ p.pc = "read_head"
             \/ n2.late /\ ~a.more
        BY <1>1, <1>2, <1>3, <1>4, <1>6, <2>4 DEF Taken
    <3>2. HeadFits(t, n2, p)
        BY <3>1 DEF HeadFits
    <3>3. ASSUME Engaged(n2, s2) PROVE Stage(t, n2, s2, p)
      <4>1. CASE n2.late
          BY <3>1, <4>1 DEF Stage, Late
      <4>2. CASE ~n2.late /\ a.more
        <5>1. s2.pc = "content" /\ s2.of = t
            BY <1>1, <1>2, <3>1, <4>2
        <5> QED
            BY <3>1, <4>2, <5>1 DEF Stage, Begun
      <4>3. CASE ~n2.late /\ ~a.more
        <5>1. s2.pc = "loop"
            BY <1>1, <1>2, <3>3, <4>3 DEF Engaged
        <5> QED
            BY <3>1, <4>3, <5>1 DEF Stage, Complete, Waiting
      <4> QED
          BY <4>1, <4>2, <4>3
    <3> QED
        BY <3>1, <3>2, <3>3 DEF Talking, DownFits
  <2> QED
      BY <2>2, <2>3, <2>4
<1> QED
    BY <1>5, <1>6

\* The rest of the answer is sent.
LEMMA TalkingContent ==
    ASSUME NEW t, NEW n \in Conns, NEW s, NEW n2 \in Conns, NEW s2, NEW p, n.ss = "open",
           Talking(t, n, s, p), p.pc \in {"write_body", "read_head", "read_body"},
           WritesBody(n, s, n2, s2)
    PROVE  Talking(t, n2, s2, p)
<1>1. PICK a \in Replies : a.of = s.of /\ Sends(n, n2, a)
    BY DEF WritesBody
<1>2. s.pc = "content" /\ s2.pc \in {"loop", "close"}
    BY DEF WritesBody
<1>3. /\ n2.up = n.up /\ n2.cs = n.cs /\ n2.ss = n.ss /\ n2.late = n.late
      /\ n.cs # "open" => n2.down = n.down
      /\ n.cs = "open" => /\ Len(n2.down) = Len(n.down) + 1
                          /\ n2.down[Len(n.down) + 1] = a
                          /\ \A i \in 1..Len(n.down) : n2.down[i] = n.down[i]
    BY <1>1, SendsMore
<1>4. Len(n.up) \in Nat /\ Len(n.down) \in Nat /\ n.late \in BOOLEAN
    BY ConnLens
<1>5. CASE n.cs # "open"
    BY <1>3, <1>5, TalkingAlone
<1>6. CASE n.cs = "open"
  <2>1. Stage(t, n, s, p)
      BY <1>2, <1>6, AtStage
  <2>2. Begun(t, n, s, p) \/ Late(n)
      BY <1>2, <2>1 DEF Stage, Sent, Taken, Complete, Waiting
  <2>3. CASE Late(n)
    <3>1. n.late /\ Len(n.down) >= 1 /\ n2.down[1] = n.down[1] /\ Len(n2.down) > 0 /\ n2.late
        BY <1>3, <1>4, <1>6, <2>3 DEF Late
    <3>2. p.pc # "read_body"
        BY <1>6, <3>1 DEF Talking, DownFits, BodyFits
    <3>3. n.down[1].of = t /\ ~n.down[1].more
        BY <1>6, <3>1, <3>2 DEF Talking, DownFits, HeadFits
    <3>4. HeadFits(t, n2, p)
        BY <3>1, <3>3 DEF HeadFits
    <3>5. Late(n2)
        BY <3>1 DEF Late
    <3> QED
        BY <3>2, <3>4, <3>5 DEF Talking, DownFits, Stage
  <2>4. CASE Begun(t, n, s, p) /\ p.pc = "read_body"
    <3>1. /\ Len(n2.down) = 1 /\ n2.down[1] = a /\ a.of = t /\ ~n2.late /\ Len(n2.up) = 0
          /\ p.got.of = t
      <4>1. ~n.late /\ Len(n.up) = 0 /\ s.of = t /\ Len(n.down) = 0
          BY <2>4 DEF Begun
      <4>2. p.got.of = t
          BY <2>4 DEF Talking, DownFits, BodyFits
      <4> QED
          BY <1>1, <1>3, <1>6, <4>1, <4>2
    <3>2. BodyFits(t, n2, p)
        BY <3>1 DEF BodyFits
    <3>3. ASSUME Engaged(n2, s2) PROVE Complete(n2, s2, p)
      <4>1. Waiting(s2)
          BY <1>2, <3>3 DEF Engaged, Waiting
      <4> QED
          BY <2>4, <3>1, <4>1 DEF Complete
    <3> QED
        BY <2>4, <3>2, <3>3 DEF Talking, DownFits, Stage
  <2>5. CASE Begun(t, n, s, p) /\ p.pc = "read_head"
    <3>1. /\ Len(n.down) = 1 /\ n.down[1].more /\ n.down[1].of = t
        BY <2>5 DEF Begun, Talking, DownFits, HeadFits
    <3>2. /\ Len(n2.down) = 2 /\ n2.down[2] = a /\ a.of = t /\ n2.down[1] = n.down[1]
          /\ ~n2.late /\ Len(n2.up) = 0
        BY <1>1, <1>3, <1>6, <2>5, <3>1 DEF Begun
    <3>3. HeadFits(t, n2, p)
        BY <2>5, <3>1, <3>2 DEF HeadFits
    <3>4. ASSUME Engaged(n2, s2) PROVE Complete(n2, s2, p)
      <4>1. Waiting(s2)
          BY <1>2, <3>4 DEF Engaged, Waiting
      <4> QED
          BY <2>5, <3>2, <4>1 DEF Complete
    <3> QED
        BY <2>5, <3>3, <3>4 DEF Talking, DownFits, Stage
  <2> QED
      BY <2>5, <2>4, <2>3, <2>2 DEF Begun
<1> QED
    BY <1>5, <1>6

\* The exchange of a call goes on, whatever the server does.
LEMMA TalkingServed ==
    ASSUME NEW t, NEW n \in Conns, NEW s, NEW n2 \in Conns, NEW s2, NEW p,
           Talking(t, n, s, p), p.pc \in {"write_body", "read_head", "read_body"},
           ServerMoves(n, s, n2, s2)
    PROVE  Talking(t, n2, s2, p)
<1>1. CASE Stays(n, s, n2, s2)
    BY <1>1, TalkingStays
<1>2. CASE Ended(n, n2)
    BY <1>2, TalkingEnds
<1>3. CASE n.ss = "open" /\ Serving(n, s, n2, s2)
    BY <1>3, TalkingReads, TalkingLate, TalkingHead, TalkingContent DEF Serving
<1> QED
    BY <1>1, <1>2, <1>3 DEF ServerMoves

\* What the server does never undoes a late body, and leaves the client its end.
LEMMA MovesKeepEnds ==
    ASSUME NEW n, NEW s, NEW n2, NEW s2, ServerMoves(n, s, n2, s2)
    PROVE  n2.cs = n.cs /\ (n.late => n2.late)
<1>1. CASE Stays(n, s, n2, s2) \/ Ended(n, n2)
    BY <1>1 DEF Stays, Ended
<1>2. CASE Serving(n, s, n2, s2)
    BY <1>2, ServingKeepsEnds DEF EndsKept
<1> QED
    BY <1>1, <1>2 DEF ServerMoves

\* So does every call, and every client at rest.
LEMMA ExchangeServed ==
    ASSUME NEW t, NEW n \in Conns, NEW s, NEW n2 \in Conns, NEW s2, NEW p, NEW keeps,
           ServerMoves(n, s, n2, s2)
    PROVE  /\ ExchangeAt(t, n, s, p, keeps) => ExchangeAt(t, n2, s2, p, keeps)
           /\ RestAt(n, s) => RestAt(n2, s2)
<1>1. n2.cs = n.cs /\ (n.late => n2.late)
    BY MovesKeepEnds
<1>2. Quiet(n, s) => Quiet(n2, s2)
    BY QuietServed
<1>3. p.pc \in {"write_body", "read_head", "read_body"} /\ Talking(t, n, s, p)
        => Talking(t, n2, s2, p)
    BY TalkingServed
<1> QED
    BY <1>1, <1>2, <1>3 DEF ExchangeAt, RestAt

\* The turn at a connection that one thread serves, or none.
LEMMA TurnOfServing ==
    ASSUME NEW f, NEW k, NEW w \in ServerThreads, f[w].conn = k,
           \A v \in ServerThreads : f[v].conn = k => v = w
    PROVE  TurnOf(f, k) = f[w]
<1>1. (CHOOSE v \in ServerThreads : f[v].conn = k) = w
    OBVIOUS
<1> QED
    BY <1>1 DEF TurnOf

\* The turn at a connection that waits for a thread.
LEMMA TurnOfNobody ==
    ASSUME NEW f, NEW k, \A v \in ServerThreads : f[v].conn # k
    PROVE  TurnOf(f, k).pc = "loop"
  BY DEF TurnOf, Resting, Unoccupied

\* One thread serves a connection.
LEMMA ServedOnce ==
    ASSUME QueuesInv, NEW k \in Established, NEW w \in ServerThreads, serving[w].conn = k
    PROVE  TurnAt(k) = serving[w] /\ wire[k].ss = "open"
<1>1. k # 0
    BY DEF Established
<1>2. \A v \in ServerThreads : serving[v].conn = k => v = w
    BY <1>1 DEF QueuesInv
<1> QED
    BY <1>1, <1>2, TurnOfServing DEF TurnAt, QueuesInv

\* A connection to whose thread nothing happens.
LEMMA TurnSame ==
    ASSUME QueuesInv, NEW k \in Established,
           \A v \in ServerThreads :
               serving'[v] = serving[v] \/ (serving[v].conn # k /\ serving'[v].conn # k)
    PROVE  TurnAt(k)' = TurnAt(k) \/ (TurnAt(k).pc = "loop" /\ TurnAt(k)'.pc = "loop")
<1>1. k # 0
    BY DEF Established
<1>2. CASE \E w \in ServerThreads : serving[w].conn = k
  <2>1. PICK w \in ServerThreads : serving[w].conn = k
      BY <1>2
  <2>2. \A v \in ServerThreads : serving[v].conn = k => v = w
      BY <1>1, <2>1 DEF QueuesInv
  <2>3. serving'[w] = serving[w] /\ \A v \in ServerThreads : serving'[v].conn = k => v = w
      BY <2>1, <2>2
  <2>4. TurnOf(serving, k) = serving[w]
      BY <2>1, <2>2, TurnOfServing
  <2>5. TurnOf(serving', k) = serving'[w]
      BY <2>1, <2>3, TurnOfServing
  <2> QED
      BY <2>3, <2>4, <2>5 DEF TurnAt
<1>3. CASE \A w \in ServerThreads : serving[w].conn # k
  <2>1. \A w \in ServerThreads : serving'[w].conn # k
      BY <1>3
  <2>2. TurnOf(serving, k).pc = "loop" /\ TurnOf(serving', k).pc = "loop"
      BY <1>3, <2>1, TurnOfNobody
  <2> QED
      BY <2>2 DEF TurnAt
<1> QED
    BY <1>2, <1>3

\* Connection k as a step of the server leaves it.
Moved(k) == ServerMoves(wire[k], TurnAt(k), wire'[k], TurnAt(k)')

\* A connection that a step of the server does not touch.
LEMMA Untouched ==
    ASSUME QueuesInv, NEW k \in Established, wire'[k] = wire[k],
           \A v \in ServerThreads :
               serving'[v] = serving[v] \/ (serving[v].conn # k /\ serving'[v].conn # k)
    PROVE  Moved(k)
  BY TurnSame DEF Moved, ServerMoves, Stays

\* A thread takes a connection from the queue.
LEMMA TakeJobMoves ==
    ASSUME HttpTypeOK, ServedInv, NEW w \in ServerThreads, TakeJob(w), NEW k \in Established
    PROVE  Moved(k)
<1>1. /\ ServingStep(w) /\ serving[w].pc = "pool" /\ wire' = wire
      /\ serving'[w].conn = jobs[1] /\ serving'[w].pc = "loop" /\ Len(jobs) \in Nat \ {0}
    BY TakeJobEffect
<1>2. QueuesInv /\ k # 0 /\ 1 \in 1..Len(jobs)
    BY <1>1 DEF ServedInv, Established
<1>3. serving[w].conn = 0
    BY <1>1, <1>2 DEF QueuesInv
<1>4. CASE k # jobs[1]
    BY <1>1, <1>2, <1>3, <1>4, Untouched DEF ServingStep
<1>5. CASE k = jobs[1]
  <2>1. \A v \in ServerThreads : serving[v].conn # k
      BY <1>2, <1>5 DEF QueuesInv
  <2>2. TurnOf(serving, k).pc = "loop"
      BY <2>1, TurnOfNobody
  <2>3. \A v \in ServerThreads : serving'[v].conn = k => v = w
      BY <1>1, <2>1 DEF ServingStep
  <2>4. TurnOf(serving', k) = serving'[w]
      BY <1>1, <1>5, <2>3, TurnOfServing
  <2> QED
      BY <1>1, <2>2, <2>4 DEF Moved, ServerMoves, Stays, TurnAt
<1> QED
    BY <1>4, <1>5

\* A turn of the loop.
LEMMA TurnMoves ==
    ASSUME HttpTypeOK, ServedInv, NEW w \in ServerThreads, Turn(w), NEW k \in Established
    PROVE  Moved(k)
<1> DEFINE j == serving[w].conn
<1>1. WireStep(j) /\ ServingStep(w) /\ serving'[w].conn = j /\ j \in Established
      /\ Serving(wire[j], serving[w], wire'[j], serving'[w])
    BY Serves DEF Turn
<1>2. QueuesInv /\ k # 0
    BY DEF ServedInv, Established
<1>3. CASE k # j
    BY <1>1, <1>2, <1>3, Untouched DEF WireStep, ServingStep
<1>4. CASE k = j
  <2>1. TurnAt(k) = serving[w] /\ wire[k].ss = "open"
      BY <1>2, <1>4, ServedOnce
  <2>2. \A v \in ServerThreads : serving'[v].conn = k => v = w
      BY <1>1, <1>2, <1>4 DEF ServingStep, QueuesInv
  <2>3. TurnOf(serving', k) = serving'[w]
      BY <1>1, <1>4, <2>2, TurnOfServing
  <2> QED
      BY <1>1, <1>4, <2>1, <2>3 DEF Moved, ServerMoves, TurnAt
<1> QED
    BY <1>3, <1>4

\* Every step of the server.
LEMMA ServerConnMoves ==
    ASSUME HttpTypeOK, ServedInv, ServerNext \/ Stop \/ AcceptFails, NEW k \in Established
    PROVE  Moved(k)
<1>1. QueuesInv /\ k # 0 /\ wire[k] \in Conns
    BY ElementOfSeq DEF ServedInv, Established, HttpTypeOK
<1>2. CASE Stop \/ AcceptFails
  <2>1. Reset(wire[k], wire'[k]) /\ serving' = serving
      BY <1>2, ResetEffect DEF HttpTypeOK, Stop, AcceptFails
  <2>2. wire[k].ss = "backlog" => Ended(wire[k], wire'[k])
      BY <2>1 DEF Reset, Ended
  <2>3. wire[k].ss # "backlog" => Stays(wire[k], TurnAt(k), wire'[k], TurnAt(k)')
      BY <2>1 DEF Reset, Stays, TurnAt
  <2> QED
      BY <2>2, <2>3 DEF Moved, ServerMoves
<1>3. CASE Accept
  <2>1. PICK j \in Established :
          /\ wire[j].ss = "backlog" /\ WireStep(j) /\ wire'[j].ss = "open"
          /\ wire'[j].up = wire[j].up /\ wire'[j].down = wire[j].down
          /\ wire'[j].cs = wire[j].cs /\ wire'[j].late = wire[j].late
      BY <1>3, AcceptEffect
  <2>2. serving' = serving
      BY <1>3 DEF Accept
  <2>3. CASE k # j
      BY <1>1, <2>1, <2>2, <2>3, Untouched DEF WireStep
  <2>4. CASE k = j
      BY <2>1, <2>2, <2>4 DEF Moved, ServerMoves, Stays, TurnAt
  <2> QED
      BY <2>3, <2>4
<1>4. CASE AcceptAfterStop \/ ShutdownPool \/ ListenReturns
  <2>1. UNCHANGED <<wire, serving>>
      BY <1>4 DEF AcceptAfterStop, ShutdownPool, ListenReturns
  <2> QED
      BY <1>1, <2>1, Untouched
<1>5. ASSUME NEW w \in ServerThreads, ServerThread(w) PROVE Moved(k)
  <2>1. CASE TakeJob(w)
      BY <2>1, TakeJobMoves
  <2>2. CASE LeavePool(w)
    <3>1. ServingStep(w) /\ serving[w].pc = "pool" /\ serving'[w].conn = 0 /\ wire' = wire
        BY <2>2, LeavePoolEffect
    <3>2. serving[w].conn = 0
        BY <1>1, <3>1 DEF QueuesInv
    <3> QED
        BY <1>1, <3>1, <3>2, Untouched DEF ServingStep
  <2>3. CASE CloseConnection(w)
    <3> DEFINE j == serving[w].conn
    <3>1. WireStep(j) /\ ServingStep(w) /\ serving'[w].conn = 0
          /\ Closes(wire[j], serving[w], wire'[j], serving'[w])
        BY <2>3, CloseEffect
    <3>2. CASE k # j
        BY <1>1, <3>1, <3>2, Untouched DEF WireStep, ServingStep
    <3>3. CASE k = j
        BY <3>1, <3>3 DEF Closes, Ended, Moved, ServerMoves
    <3> QED
        BY <3>2, <3>3
  <2>4. CASE Turn(w)
      BY <2>4, TurnMoves
  <2> QED
      BY <1>5, ThreadSteps, <2>1, <2>2, <2>3, <2>4
<1> QED
    BY <1>2, <1>3, <1>4, <1>5 DEF ServerNext, Listener

\* Clients may go on with their exchanges after every step of the server.
LEMMA ServerExchanges ==
    ASSUME HttpTypeOK, ServedInv, SocketsInv, AnswersInv, ExchangesInv,
           ServerNext \/ Stop \/ AcceptFails, UNCHANGED clientVars
    PROVE  ExchangesInv'
<1>1. /\ Established' = Established
      /\ \A k \in Established : wire[k].late => wire'[k].late
    BY ServerKeepsEnds
<1>2. wire' \in Seq(Conns)
    BY ServerServed
<1>3. \A t : BagIn(t, handled) => BagIn(t, handled')
    BY ServerAnswers
<1>4. UNCHANGED <<uses, keepAlive, sock, descriptors, post>>
    BY DEF clientVars
<1>5. ASSUME NEW c \in HttpClients PROVE ClientExchange(c)'
  <2>1. ConnOf(c)' = ConnOf(c) /\ (Idle(c)' <=> Idle(c))
        /\ \A t \in Posters : Flying(t)' <=> Flying(t)
      BY <1>4 DEF ConnOf, Idle, Flying
  <2>2. CASE sock[c] # 0
    <3>1. PICK k \in Established : k = ConnOf(c) /\ wire[k] \in Conns
        BY <2>2, SocketTyped DEF SocketsInv
    <3>2. wire'[k] \in Conns
        BY <1>1, <1>2, ElementOfSeq DEF Established
    <3>3. ServerMoves(wire[k], TurnAt(k), wire'[k], TurnAt(k)')
        BY ServerConnMoves DEF Moved
    <3>4. \A t, keeps : ExchangeAt(t, wire[k], TurnAt(k), post[t], keeps)
                          => ExchangeAt(t, wire'[k], TurnAt(k)', post[t], keeps)
        BY <3>1, <3>2, <3>3, ExchangeServed
    <3>5. RestAt(wire[k], TurnAt(k)) => RestAt(wire'[k], TurnAt(k)')
        BY <3>1, <3>2, <3>3, ExchangeServed
    <3>6. TurnAt(ConnOf(c))' = TurnAt(k)'
        BY <2>1, <3>1 DEF TurnAt
    <3>7. ClientExchange(c)
        BY DEF ExchangesInv
    <3> QED
        BY <1>4, <2>1, <2>2, <3>1, <3>4, <3>5, <3>6, <3>7 DEF ClientExchange
  <2>3. CASE sock[c] = 0
      BY <1>4, <2>3 DEF ClientExchange
  <2> QED
      BY <2>2, <2>3
<1>6. ASSUME NEW t \in Posters PROVE Outcome(t)'
  <2>1. Outcome(t)
      BY DEF ExchangesInv
  <2>2. post[t].pc \in {"hang_up", "finish", "done"} /\ post[t].ret => post[t].conn \in Established
      BY CallTyped DEF SocketsInv, CallsOnSockets, OwnedInv
  <2> QED
      BY <1>1, <1>3, <1>4, <2>1, <2>2 DEF Outcome
<1> QED
    BY <1>5, <1>6 DEF ExchangesInv

\* What Uploads does to the requests on their way.
LEMMA UploadsMore ==
    ASSUME NEW n \in Conns, NEW n2, NEW seg \in Segments, Uploads(n, n2, seg), n.ss # "closed"
    PROVE  /\ Len(n2.up) = Len(n.up) + 1 /\ n2.up[Len(n.up) + 1] = seg
           /\ \A i \in 1..Len(n.up) : n2.up[i] = n.up[i]
<1>1. n.up \in Seq(Segments) /\ n2.up = Append(n.up, seg)
    BY DEF Conns, Uploads
<1> QED
    BY <1>1, AppendProperties

\* A call that sends its head begins an exchange.
LEMMA AsksExchange ==
    ASSUME NEW t, NEW n \in Conns, NEW n2 \in Conns, NEW s, NEW p, NEW p2,
           Asks(t, n, p, n2, p2), Quiet(n, s)
    PROVE  Talking(t, n2, s, p2)
<1>1. /\ n2.down = n.down /\ n2.cs = n.cs /\ n2.ss = n.ss /\ n2.late = n.late
      /\ p2.pc = (IF t \in Writers THEN "write_body" ELSE "read_head")
    BY DEF Asks, Uploads
<1>2. Len(n.up) \in Nat /\ Len(n.down) = 0 /\ ~n.late
    BY ConnLens DEF Quiet
<1>3. DownFits(t, n2, p2)
    BY <1>1, <1>2 DEF DownFits, HeadFits
<1>4. ASSUME Engaged(n2, s) PROVE Sent(t, n2, s, p2)
  <2>1. n.ss # "closed" /\ Waiting(s) /\ Len(n.up) = 0
      BY <1>1, <1>4 DEF Engaged, Quiet
  <2>2. PICK seg \in Segments : seg.of = t /\ seg.more = (t \in Writers) /\ Uploads(n, n2, seg)
      BY DEF Asks
  <2>3. Len(n2.up) = Len(n.up) + 1 /\ n2.up[Len(n.up) + 1] = seg
      BY <2>1, <2>2, UploadsMore
  <2> QED
      BY <1>1, <1>2, <2>1, <2>2, <2>3 DEF Sent
<1> QED
    BY <1>3, <1>4 DEF Talking, Stage

\* A call that sends its body.
LEMMA AsksMoreExchange ==
    ASSUME NEW t, NEW n \in Conns, NEW n2 \in Conns, NEW s, NEW p, NEW p2,
           AsksMore(t, n, p, n2, p2), Talking(t, n, s, p)
    PROVE  Talking(t, n2, s, p2)
<1>1. /\ n2.down = n.down /\ n2.cs = n.cs /\ n2.ss = n.ss /\ n2.late = n.late
      /\ p.pc = "write_body" /\ p2.pc = "read_head"
    BY DEF AsksMore, Uploads
<1>2. Len(n.up) \in Nat
    BY ConnLens
<1>3. DownFits(t, n2, p2)
    BY <1>1 DEF Talking, DownFits, HeadFits
<1>4. ASSUME n2.cs = "open" /\ Engaged(n2, s) PROVE Stage(t, n2, s, p2)
  <2>1. n.ss # "closed" /\ Stage(t, n, s, p)
      BY <1>1, <1>4 DEF Engaged, Talking
  <2>2. PICK seg \in Segments : Uploads(n, n2, seg)
      BY DEF AsksMore
  <2>3. Len(n2.up) = Len(n.up) + 1 /\ \A i \in 1..Len(n.up) : n2.up[i] = n.up[i]
      BY <2>1, <2>2, UploadsMore
  <2>4. CASE Sent(t, n, s, p)
    <3>1. Len(n.up) = 1 /\ t \in Writers
        BY <1>1, <2>4 DEF Sent
    <3>2. Len(n2.up) = 2 /\ n2.up[1] = n.up[1]
        BY <2>3, <3>1
    <3>3. Sent(t, n2, s, p2)
        BY <1>1, <2>4, <3>1, <3>2 DEF Sent
    <3> QED
        BY <3>3 DEF Stage
  <2>5. CASE Taken(t, n, s, p)
    <3>1. Taken(t, n2, s, p2)
        BY <1>1, <1>2, <2>3, <2>5 DEF Taken
    <3> QED
        BY <3>1 DEF Stage
  <2>6. CASE Late(n)
      BY <1>1, <2>6 DEF Late, Stage
  <2> QED
      BY <1>1, <2>1, <2>4, <2>5, <2>6 DEF Stage, Begun, Complete
<1> QED
    BY <1>3, <1>4 DEF Talking

\* A call that reads the head of an answer with a body.
LEMMA HearsExchange ==
    ASSUME NEW t, NEW n \in Conns, NEW n2 \in Conns, NEW s, NEW p, NEW p2,
           Hears(n, p, n2, p2), Talking(t, n, s, p), n.down[1].more
    PROVE  Talking(t, n2, s, p2)
<1>1. /\ n2.up = n.up /\ n2.cs = n.cs /\ n2.ss = n.ss /\ n2.late = n.late
      /\ Len(n.down) \in Nat \ {0} /\ Len(n2.down) = Len(n.down) - 1
      /\ \A i \in 1..Len(n2.down) : n2.down[i] = n.down[i + 1]
      /\ p.pc = "read_head" /\ p2.pc = "read_body" /\ p2.got.of = n.down[1].of
    BY DEF Hears, Downloads
<1>2. HeadFits(t, n, p)
    BY <1>1 DEF Talking, DownFits
<1>3. Len(n2.down) > 0 => n2.down[1] = n.down[2] /\ Len(n.down) > 1
    BY <1>1
<1>4. BodyFits(t, n2, p2)
    BY <1>1, <1>2, <1>3 DEF HeadFits, BodyFits
<1>5. ASSUME n2.cs = "open" /\ Engaged(n2, s) PROVE Stage(t, n2, s, p2)
  <2>1. Stage(t, n, s, p)
      BY <1>1, <1>5 DEF Engaged, Talking
  <2>2. Begun(t, n, s, p) \/ Complete(n, s, p)
      BY <1>1, <1>2, <1>5, <2>1 DEF Stage, Sent, Taken, Late, HeadFits
  <2>3. Begun(t, n, s, p) => Begun(t, n2, s, p2)
      BY <1>1 DEF Begun
  <2>4. ASSUME Complete(n, s, p) PROVE Complete(n2, s, p2)
    <3>1. ~n.late /\ Len(n.up) = 0 /\ Waiting(s) /\ Len(n.down) = 2
        BY <1>1, <2>4 DEF Complete
    <3>2. ~n2.late /\ Len(n2.up) = 0 /\ Len(n2.down) = 1
        BY <1>1, <3>1
    <3> QED
        BY <1>1, <3>1, <3>2 DEF Complete
  <2> QED
      BY <2>2, <2>3, <2>4 DEF Stage
<1> QED
    BY <1>1, <1>4, <1>5 DEF Talking, DownFits

\* A call that has read the whole answer leaves the connection at rest.
LEMMA HeardExchange ==
    ASSUME NEW t, NEW n \in Conns, NEW n2 \in Conns, NEW s, NEW p, NEW p2,
           \/ Hears(n, p, n2, p2) /\ ~n.down[1].more
           \/ HearsMore(n, p, n2, p2),
           Talking(t, n, s, p), n.cs = "open", ~n.late
    PROVE  Quiet(n2, s)
<1>1. /\ n2.up = n.up /\ n2.cs = n.cs /\ n2.ss = n.ss /\ n2.late = n.late
      /\ Len(n.down) \in Nat \ {0} /\ Len(n2.down) = Len(n.down) - 1
    BY DEF Hears, HearsMore, Downloads
<1>2. \/ p.pc = "read_head" /\ ~n.down[1].more /\ HeadFits(t, n, p)
      \/ p.pc = "read_body" /\ BodyFits(t, n, p)
    BY DEF Hears, HearsMore, Talking, DownFits
<1>3. Len(n.down) <= 1
    BY <1>1, <1>2 DEF HeadFits, BodyFits
<1>4. Engaged(n, s) => Complete(n, s, p)
  <2>1. Engaged(n, s) => Stage(t, n, s, p)
      BY DEF Talking
  <2> QED
      BY <1>1, <1>2, <2>1 DEF Stage, Sent, Taken, Begun, Late
<1>5. Engaged(n2, s) => Waiting(s) /\ Len(n2.up) = 0
    BY <1>1, <1>4 DEF Engaged, Complete
<1>6. Len(n2.down) = 0
  <2>1. \A a \in Nat \ {0} : a <= 1 => a = 1
      OBVIOUS
  <2>2. Len(n.down) \in Nat \ {0} /\ Len(n2.down) = Len(n.down) - 1
      BY <1>1, Zenon
  <2>3. Len(n.down) = 1
      BY <1>3, <2>1, <2>2, Zenon
  <2> QED
      BY <2>2, <2>3
<1>7. ~n2.late
  <2>1. ~n.late
      OBVIOUS
  <2> QED
      BY <1>1, <2>1
<1> QED
    BY <1>5, <1>6, <1>7 DEF Quiet

\* The answer that a call has read is the answer to its request.
LEMMA HeardIsOwn ==
    ASSUME NEW t, NEW n \in Conns, NEW n2 \in Conns, NEW s, NEW p, NEW p2, NEW B,
           Talks(t, n, p, n2, p2), p2.ret, Talking(t, n, s, p), Given(B, n)
    PROVE  p2.got.of = t /\ (p2.got.status = 200 => BagIn(t, B))
<1>1. CASE Hears(n, p, n2, p2)
  <2>1. /\ Len(n.down) \in Nat \ {0} /\ p.pc = "read_head"
        /\ p2.got.of = n.down[1].of /\ p2.got.status = n.down[1].status
      BY <1>1 DEF Hears, Downloads
  <2>2. n.down[1].of = t
      BY <2>1 DEF Talking, DownFits, HeadFits
  <2>3. 1 \in 1..Len(n.down)
      BY <2>1
  <2> QED
      BY <2>1, <2>2, <2>3 DEF Given
<1>2. CASE HearsMore(n, p, n2, p2)
  <2>1. /\ Len(n.down) \in Nat \ {0} /\ p.pc = "read_body"
        /\ p2.got.of = (IF p.got.of = n.down[1].of THEN n.down[1].of ELSE 0)
        /\ p2.got.status = n.down[1].status
      BY <1>2 DEF HearsMore, Downloads
  <2>2. n.down[1].of = t /\ p.got.of = t
      BY <2>1 DEF Talking, DownFits, BodyFits
  <2>3. 1 \in 1..Len(n.down)
      BY <2>1
  <2> QED
      BY <2>1, <2>2, <2>3 DEF Given
<1>3. CASE Asks(t, n, p, n2, p2) \/ AsksMore(t, n, p, n2, p2) \/ GivesUpCall(n, p, n2, p2)
    BY <1>3 DEF Asks, AsksMore, GivesUpCall
<1> QED
    BY <1>1, <1>2, <1>3 DEF Talks

\* The exchange of a call goes on as the call does.
LEMMA TalkExchange ==
    ASSUME NEW t, NEW n \in Conns, NEW n2 \in Conns, NEW s, NEW p, NEW p2, NEW keeps,
           Talks(t, n, p, n2, p2), ExchangeAt(t, n, s, p, keeps)
    PROVE  ExchangeAt(t, n2, s, p2, keeps)
<1>1. n2.cs = n.cs /\ n2.ss = n.ss /\ n2.late = n.late
    BY TalkKeepsEnds
<1>2. CASE keeps /\ n.late
    BY <1>1, <1>2 DEF ExchangeAt
<1>3. CASE ~(keeps /\ n.late)
  <2>1. CASE Asks(t, n, p, n2, p2)
    <3>1. p.pc = "write_head" /\ p2.pc \in {"write_body", "read_head"}
        BY <2>1 DEF Asks
    <3>2. Quiet(n, s)
        BY <1>3, <3>1 DEF ExchangeAt
    <3>3. Talking(t, n2, s, p2)
        BY <2>1, <3>2, AsksExchange
    <3> QED
        BY <3>1, <3>3 DEF ExchangeAt
  <2>2. CASE AsksMore(t, n, p, n2, p2)
    <3>1. p.pc = "write_body" /\ p2.pc = "read_head"
        BY <2>2 DEF AsksMore
    <3>2. Talking(t, n, s, p)
        BY <1>3, <3>1 DEF ExchangeAt
    <3>3. Talking(t, n2, s, p2)
        BY <2>2, <3>2, AsksMoreExchange
    <3> QED
        BY <3>1, <3>3 DEF ExchangeAt
  <2>3. CASE Hears(n, p, n2, p2) /\ n.down[1].more
    <3>1. p.pc = "read_head" /\ p2.pc = "read_body"
        BY <2>3 DEF Hears
    <3>2. Talking(t, n, s, p)
        BY <1>3, <3>1 DEF ExchangeAt
    <3>3. Talking(t, n2, s, p2)
        BY <2>3, <3>2, HearsExchange
    <3> QED
        BY <3>1, <3>3 DEF ExchangeAt
  <2>4. CASE (Hears(n, p, n2, p2) /\ ~n.down[1].more) \/ HearsMore(n, p, n2, p2)
    <3>1. p.pc \in {"read_head", "read_body"} /\ p2.pc \in {"hang_up", "finish"}
        BY <2>4 DEF Hears, HearsMore
    <3>2. Talking(t, n, s, p)
        BY <1>3, <3>1 DEF ExchangeAt
    <3>3. keeps /\ n.cs = "open" => Quiet(n2, s)
        BY <1>3, <2>4, <3>2, HeardExchange
    <3> QED
        BY <1>1, <3>1, <3>3 DEF ExchangeAt
  <2>5. CASE GivesUpCall(n, p, n2, p2)
      BY <2>5 DEF GivesUpCall, ExchangeAt
  <2> QED
      BY <2>5, <2>4, <2>3, <2>2, <2>1 DEF Talks
<1> QED
    BY <1>2, <1>3

\* stop() of the client ends the exchange.
LEMMA ShutExchange ==
    ASSUME NEW t, NEW n \in Conns, NEW n2 \in Conns, NEW s, NEW p, NEW keeps, Shuts(n, n2),
           ExchangeAt(t, n, s, p, keeps)
    PROVE  ExchangeAt(t, n2, s, p, keeps)
<1>1. n2.up = n.up /\ n2.down = n.down /\ n2.ss = n.ss /\ n2.late = n.late /\ n2.cs # "open"
    BY DEF Shuts
<1>2. Quiet(n, s) => Quiet(n2, s)
    BY <1>1 DEF Quiet, Engaged
<1>3. Talking(t, n, s, p) => Talking(t, n2, s, p)
    BY <1>1 DEF Talking, DownFits, BodyFits, HeadFits
<1> QED
    BY <1>1, <1>2, <1>3 DEF ExchangeAt

(***************************************************************************)
(* The exchanges while the clients go on.                                  *)
(***************************************************************************)
\* A move of one client leaves the exchanges of the others as they are.
LEMMA OtherExchanges ==
    ASSUME HttpTypeOK, OwnedInv, NEW c \in HttpClients, ClientMove(c),
           NEW d \in HttpClients, d # c, ClientExchange(d), UNCHANGED <<uses, keepAlive, serving>>,
           \A u \in Posters : uses[u] = d => post'[u] = post[u]
    PROVE  ClientExchange(d)'
<1>1. /\ sock'[d] = sock[d]
      /\ sock[d] # 0 => ConnOf(d)' = ConnOf(d) /\ wire'[ConnOf(d)] = wire[ConnOf(d)]
            /\ ConnOf(d) \in Established
    BY OtherClients
<1>2. Idle(d)' <=> Idle(d)
    BY DEF Idle, Flying
<1>3. CASE sock[d] # 0
  <2>1. PICK k \in Established : k = ConnOf(d)
      BY <1>1, <1>3
  <2>2. TurnAt(k)' = TurnAt(k)
      BY DEF TurnAt
  <2>3. TurnAt(ConnOf(d))' = TurnAt(k)' /\ TurnAt(ConnOf(d)) = TurnAt(k)
      BY <1>1, <1>3, <2>1 DEF TurnAt
  <2> QED
      BY <1>1, <1>2, <1>3, <2>1, <2>2, <2>3 DEF ClientExchange, Flying
<1>4. CASE sock[d] = 0
    BY <1>1, <1>4 DEF ClientExchange
<1> QED
    BY <1>3, <1>4

\* What the exchange of a client is on the connection that it holds.
LEMMA ExchangeOn ==
    ASSUME NEW c \in HttpClients, NEW k, sock'[c] # 0, ConnOf(c)' = k,
           UNCHANGED <<uses, keepAlive, serving>>,
           \A u \in Posters : uses[u] = c /\ post'[u].pc \in FlyingPlaces =>
               ExchangeAt(u, wire'[k], TurnAt(k), post'[u], keepAlive[c]),
           (\A u \in Posters : uses[u] = c => post'[u].pc \notin FlyingPlaces)
               => RestAt(wire'[k], TurnAt(k))
    PROVE  ClientExchange(c)'
<1>1. TurnAt(ConnOf(c))' = TurnAt(k)
    BY DEF TurnAt
<1> QED
    BY <1>1 DEF ClientExchange, Idle, Flying

\* Without a socket there is no exchange.
LEMMA NoExchange ==
    ASSUME NEW c \in HttpClients, sock'[c] = 0 PROVE ClientExchange(c)'
BY DEF ClientExchange

\* A call that begins finds the connection that its client has kept at rest.
LEMMA ReuseExchange ==
    ASSUME HttpTypeOK, CallsInv, SocketsInv, NEW t \in Posters, ConnectStep(t),
           ClientExchange(uses[t]), UNCHANGED serving,
           UNCHANGED <<wire, sock, descriptors>>, sock[uses[t]] # 0
    PROVE  ClientExchange(uses[t])'
<1> DEFINE c == uses[t]
<1>1. c \in HttpClients /\ CallOf(t) /\ post'[t].pc = "write_head" /\ post[t].pc = "connect"
      /\ UNCHANGED <<uses, keepAlive>>
    BY CallTyped DEF ConnectStep, Moves, ClientStays
<1>2. \A u \in Posters : uses[u] = c /\ u # t => ~Flying(u)
    BY <1>1 DEF CallsInv, Busy
<1>3. Idle(c)
    BY <1>1, <1>2 DEF Idle, Flying, FlyingPlaces
<1>4. PICK k : k = ConnOf(c)
    OBVIOUS
<1>5. ConnOf(c)' = k /\ sock'[c] = sock[c]
    BY <1>1, <1>4 DEF ConnOf
<1>6. keepAlive[c] /\ RestAt(wire[k], TurnAt(k))
    BY <1>1, <1>3, <1>4 DEF SocketsInv, ShutInv, ClientExchange
<1>7. ExchangeAt(t, wire[k], TurnAt(k), post'[t], keepAlive[c])
    BY <1>1, <1>6 DEF ExchangeAt, RestAt
<1>8. \A u \in Posters : uses[u] = c /\ post'[u].pc \in FlyingPlaces => u = t
    BY <1>1, <1>2 DEF CallOf, Flying
<1>9. post'[t].pc \in FlyingPlaces
    BY <1>1 DEF FlyingPlaces
<1> QED
    BY <1>1, <1>5, <1>7, <1>8, <1>9, ExchangeOn

\* On a new connection nothing has been said.
LEMMA ConnectExchange ==
    ASSUME HttpTypeOK, ServedInv, CallsInv, NEW t \in Posters, ConnectStep(t), UNCHANGED serving,
           HasConnected(uses[t])
    PROVE  ClientExchange(uses[t])'
<1> DEFINE c == uses[t]
<1>1. c \in HttpClients /\ CallOf(t) /\ post'[t].pc = "write_head" /\ post[t].pc = "connect"
      /\ UNCHANGED <<uses, keepAlive>>
    BY CallTyped DEF ConnectStep, Moves, ClientStays
<1>2. \A u \in Posters : uses[u] = c /\ post'[u].pc \in FlyingPlaces => u = t
    BY <1>1 DEF CallsInv, Busy, CallOf, Flying
<1>3. PICK k : k = Len(wire) + 1
    OBVIOUS
<1>4. sock'[c] # 0 /\ ConnOf(c)' = k /\ wire'[k] = NewConnection
    BY <1>1, <1>3 DEF HasConnected, ConnOf
<1>5. k # 0 /\ k \notin Established
  <2>1. Len(wire) \in Nat /\ Established = 1..Len(wire)
      BY DEF HttpTypeOK, Established
  <2> QED
      BY <1>3, <2>1
<1>6. \A v \in ServerThreads : serving[v].conn # k
    BY <1>5 DEF ServedInv, QueuesInv
<1>7. TurnAt(k).pc = "loop"
    BY <1>6, TurnOfNobody DEF TurnAt
<1>8. Quiet(wire'[k], TurnAt(k))
  <2>1. wire'[k].late = FALSE /\ wire'[k].up = <<>> /\ wire'[k].down = <<>>
      BY <1>4, NewTyped
  <2>2. Len(<<>>) = 0
      OBVIOUS
  <2> QED
      BY <1>7, <2>1, <2>2 DEF Quiet, Waiting
<1>9. ExchangeAt(t, wire'[k], TurnAt(k), post'[t], keepAlive[c])
    BY <1>1, <1>8 DEF ExchangeAt
<1>10. post'[t].pc \in FlyingPlaces
    BY <1>1 DEF FlyingPlaces
<1> QED
    BY <1>1, <1>2, <1>4, <1>9, <1>10, ExchangeOn

\* A call that ends and keeps the connection leaves it at rest.
LEMMA FinishExchange ==
    ASSUME HttpTypeOK, CallsInv, SocketsInv, NEW t \in Posters, FinishStep(t),
           ClientExchange(uses[t]), UNCHANGED serving, sock[uses[t]] # 0,
           UNCHANGED <<wire, sock, descriptors>>,
           ~closeWhenDone[uses[t]], keepAlive[uses[t]], post[t].ret
    PROVE  ClientExchange(uses[t])'
<1> DEFINE c == uses[t]
<1>1. c \in HttpClients /\ CallOf(t) /\ post'[t].pc = "done" /\ post[t].pc = "finish"
      /\ UNCHANGED <<uses, keepAlive>>
    BY CallTyped DEF FinishStep
<1>2. Flying(t) /\ post'[t].pc \notin FlyingPlaces
    BY <1>1 DEF Flying, FlyingPlaces
<1>3. \A u \in Posters : uses[u] = c => post'[u].pc \notin FlyingPlaces
    BY <1>1, <1>2 DEF CallsInv, Busy, CallOf, Flying
<1>4. PICK k \in Established : k = ConnOf(c) /\ wire[k] \in Conns
    BY <1>1, SocketTyped DEF SocketsInv
<1>5. ConnOf(c)' = k /\ sock'[c] = sock[c]
    BY <1>1, <1>4 DEF ConnOf
<1>6. wire[k].cs = "open"
  <2>1. wire[k].cs # "shut" /\ wire[k].cs # "closed"
      BY <1>1, <1>4 DEF SocketsInv, ShutInv, OwnedInv
  <2> QED
      BY <1>4, <2>1, ConnLens DEF ClientEnds
<1>7. ExchangeAt(t, wire[k], TurnAt(k), post[t], keepAlive[c])
    BY <1>1, <1>2, <1>4 DEF ClientExchange
<1>8. RestAt(wire[k], TurnAt(k))
    BY <1>1, <1>6, <1>7 DEF ExchangeAt, RestAt
<1> QED
    BY <1>1, <1>3, <1>5, <1>8, ExchangeOn

\* A call that talks goes on with its exchange.
LEMMA TalksExchange ==
    ASSUME HttpTypeOK, CallsInv, SocketsInv, NEW t \in Posters, TalkStep(t),
           ClientExchange(uses[t]), UNCHANGED serving, wire' \in Seq(Conns)
    PROVE  ClientExchange(uses[t])'
<1> DEFINE c == uses[t]
<1>1. c \in HttpClients /\ CallOf(t) /\ UNCHANGED <<uses, keepAlive>> /\ sock[c] # 0
      /\ Keeps(c) /\ Len(wire') = Len(wire)
    BY CallTyped DEF TalkStep, ClientStays, Keeps
<1>2. Flying(t) /\ post'[t].pc \in FlyingPlaces
    BY TalkPlaces DEF Flying, FlyingPlaces
<1>3. \A u \in Posters : uses[u] = c /\ post'[u].pc \in FlyingPlaces => u = t
    BY <1>1, <1>2 DEF CallsInv, Busy, CallOf, Flying
<1>4. PICK k \in Established : k = ConnOf(c) /\ wire[k] \in Conns
    BY <1>1, SocketTyped DEF SocketsInv
<1>5. wire'[k] \in Conns
    BY <1>1, <1>4, ElementOfSeq DEF Established
<1>6. ConnOf(c)' = k /\ sock'[c] = sock[c]
    BY <1>1, <1>4 DEF ConnOf, Keeps
<1>7. Talks(t, wire[k], post[t], wire'[k], post'[t])
    BY <1>4 DEF TalkStep
<1>8. ExchangeAt(t, wire[k], TurnAt(k), post[t], keepAlive[c])
    BY <1>1, <1>2, <1>4 DEF ClientExchange
<1>9. ExchangeAt(t, wire'[k], TurnAt(k), post'[t], keepAlive[c])
    BY <1>4, <1>5, <1>7, <1>8, TalkExchange
<1> QED
    BY <1>1, <1>2, <1>3, <1>6, <1>9, ExchangeOn

\* Every step of a call keeps the exchange of its client.
LEMMA CallExchange ==
    ASSUME HttpTypeOK, ServedInv, CallsInv, SocketsInv, NEW t \in Posters, CallStep(t),
           ClientExchange(uses[t]), UNCHANGED serving
    PROVE  ClientExchange(uses[t])'
<1> DEFINE c == uses[t]
<1>1. c \in HttpClients /\ CallOf(t) /\ UNCHANGED <<uses, keepAlive>>
    BY CallMove, CallTyped
<1>2. HasHungUp(c) => ClientExchange(c)'
    BY <1>1, NoExchange DEF HasHungUp
<1>3. CASE PostStep(t) \/ LockStep(t)
  <2>1. UNCHANGED <<wire, sock, descriptors>> /\ ~Flying(t) /\ post'[t].pc \notin FlyingPlaces
      BY <1>3 DEF PostStep, LockStep, Moves, SocketStays, Flying, FlyingPlaces
  <2>2. CASE sock[c] = 0
      BY <1>1, <2>1, <2>2, NoExchange
  <2>3. CASE sock[c] # 0
    <3>1. PICK k : k = ConnOf(c)
        OBVIOUS
    <3>2. ConnOf(c)' = k /\ sock'[c] = sock[c]
        BY <1>1, <2>1, <3>1 DEF ConnOf
    <3>3. \A u \in Posters : uses[u] = c /\ post'[u].pc \in FlyingPlaces =>
              ExchangeAt(u, wire'[k], TurnAt(k), post'[u], keepAlive[c])
        BY <1>1, <2>1, <2>3, <3>1 DEF ClientExchange, CallOf, Flying
    <3>4. (\A u \in Posters : uses[u] = c => post'[u].pc \notin FlyingPlaces)
              => RestAt(wire'[k], TurnAt(k))
        BY <1>1, <2>1, <2>3, <3>1 DEF ClientExchange, CallOf, Flying, Idle
    <3> QED
        BY <1>1, <2>3, <3>2, <3>3, <3>4, ExchangeOn
  <2> QED
      BY <2>2, <2>3
<1>4. CASE ConnectStep(t)
    BY <1>4, ReuseExchange, ConnectExchange DEF ConnectStep
<1>5. CASE NoConnectStep(t) \/ HangUpStep(t)
    BY <1>2, <1>5 DEF NoConnectStep, HangUpStep
<1>6. CASE TalkStep(t)
    BY <1>6, CallTypes, TalksExchange
<1>7. CASE FinishStep(t)
  <2>1. CASE sock[c] = 0 /\ UNCHANGED <<wire, sock, descriptors>>
      BY <1>1, <2>1, NoExchange
  <2> QED
      BY <1>2, <1>7, <2>1, FinishExchange DEF FinishStep
<1> QED
    BY <1>3, <1>4, <1>5, <1>6, <1>7 DEF CallStep

\* What a call returns stays its own answer; a call that has just read it has
\* read its own.
LEMMA CallOutcome ==
    ASSUME HttpTypeOK, CallsInv, SocketsInv, AnswersInv, NEW t \in Posters, CallStep(t),
           ClientExchange(uses[t]), Outcome(t), UNCHANGED <<serving, handled>>
    PROVE  Outcome(t)'
<1> DEFINE c == uses[t]
<1>1. c \in HttpClients /\ CallOf(t) /\ UNCHANGED <<uses, keepAlive>> /\ ClientMove(c)
    BY CallMove, CallTyped
<1>2. CASE PostStep(t) \/ LockStep(t) \/ ConnectStep(t)
    BY <1>2 DEF PostStep, LockStep, ConnectStep, Moves, Outcome
<1>3. CASE NoConnectStep(t)
  <2>1. ~post[t].ret /\ post'[t].ret = post[t].ret
      BY <1>3 DEF NoConnectStep, Moves, SocketsInv, CallsOnSockets
  <2> QED
      BY <2>1 DEF Outcome
<1>4. CASE HangUpStep(t) \/ FinishStep(t)
  <2>1. /\ post[t].pc \in {"hang_up", "finish"}
        /\ post'[t].ret = post[t].ret /\ post'[t].conn = post[t].conn /\ post'[t].got = post[t].got
      BY <1>4 DEF HangUpStep, FinishStep, Moves
  <2>2. post[t].ret => post[t].conn \in Established
    <3>1. CASE post[t].pc = "finish"
        BY <3>1 DEF SocketsInv, CallsOnSockets
    <3>2. CASE post[t].pc = "hang_up"
        BY <3>2, OnConn DEF SocketsInv
    <3> QED
        BY <2>1, <3>1, <3>2
  <2>3. post[t].ret => wire'[post[t].conn].late = wire[post[t].conn].late
      BY <1>1, <2>2, MoveConns
  <2> QED
      BY <1>1, <2>1, <2>3 DEF Outcome
<1>5. CASE TalkStep(t)
  <2>1. sock[c] # 0 /\ (post'[t].ret => post'[t].conn = ConnOf(c)) /\ Len(wire') = Len(wire)
      BY <1>5 DEF TalkStep, Keeps
  <2>2. PICK k \in Established : k = ConnOf(c) /\ wire[k] \in Conns
      BY <1>1, <2>1, SocketTyped DEF SocketsInv
  <2>3. wire'[k] \in Conns
    <3>1. wire' \in Seq(Conns)
        BY CallTypes
    <3> QED
        BY <2>1, <2>2, <3>1, ElementOfSeq DEF Established
  <2>4. Talks(t, wire[k], post[t], wire'[k], post'[t])
      BY <1>5, <2>2 DEF TalkStep
  <2>5. wire'[k].late = wire[k].late
      BY <2>4, TalkKeepsEnds
  <2>6. ExchangeAt(t, wire[k], TurnAt(k), post[t], keepAlive[c])
    <3>1. Flying(t)
        BY <1>5, TalkPlaces DEF Flying, FlyingPlaces
    <3> QED
        BY <1>1, <2>1, <2>2, <3>1 DEF ClientExchange
  <2>7. ASSUME post'[t].ret, keepAlive[c] => ~wire'[post'[t].conn].late
        PROVE  post'[t].got.of = t /\ (post'[t].got.status = 200 => BagIn(t, handled))
    <3>1. post[t].pc \in {"read_head", "read_body"}
        BY <2>4, <2>7 DEF Talks, Asks, AsksMore, Hears, HearsMore, GivesUpCall
    <3>2. ~(keepAlive[c] /\ wire[k].late)
        BY <2>1, <2>2, <2>5, <2>7
    <3>3. Talking(t, wire[k], TurnAt(k), post[t])
        BY <2>6, <3>1, <3>2 DEF ExchangeAt
    <3>4. Given(handled, wire[k])
        BY <2>2 DEF AnswersInv
    <3> QED
        BY <2>2, <2>3, <2>4, <2>7, <3>3, <3>4, HeardIsOwn
  <2> QED
      BY <1>1, <2>7 DEF Outcome
<1> QED
    BY <1>2, <1>3, <1>4, <1>5 DEF CallStep

\* A call that has its answer keeps it, whatever another call does.
LEMMA OutcomeStays ==
    ASSUME HttpTypeOK, SocketsInv, NEW c \in HttpClients, ClientMove(c), NEW u \in Posters,
           post'[u] = post[u], UNCHANGED <<uses, keepAlive, handled>>, Outcome(u)
    PROVE  Outcome(u)'
<1>1. ASSUME post[u].ret, post[u].pc \in {"hang_up", "finish", "done"}
      PROVE  post[u].conn \in Established
  <2>1. CASE post[u].pc = "hang_up"
      BY <2>1, OnConn DEF SocketsInv
  <2>2. CASE post[u].pc \in {"finish", "done"}
      BY <1>1, <2>2 DEF SocketsInv, CallsOnSockets
  <2> QED
      BY <1>1, <2>1, <2>2
<1>2. post[u].conn \in Established => wire'[post[u].conn].late = wire[post[u].conn].late
    BY MoveConns
<1> QED
    BY <1>1, <1>2 DEF Outcome

\* Every step of a call keeps the exchanges and their outcomes.
LEMMA CallExchanges ==
    ASSUME HttpTypeOK, ServedInv, CallsInv, SocketsInv, AnswersInv, ExchangesInv,
           NEW t \in Posters, CallStep(t), UNCHANGED serverVars
    PROVE  ExchangesInv'
<1>1. /\ uses[t] \in HttpClients /\ CallOf(t) /\ ClientMove(uses[t])
      /\ UNCHANGED <<uses, keepAlive, serving, handled>> /\ OwnedInv
    BY CallMove, CallTyped DEF serverVars, SocketsInv
<1>2. ASSUME NEW d \in HttpClients PROVE ClientExchange(d)'
  <2>1. ClientExchange(d)
      BY DEF ExchangesInv
  <2>2. CASE d = uses[t]
      BY <1>1, <2>1, <2>2, CallExchange
  <2>3. CASE d # uses[t]
    <3>1. \A u \in Posters : uses[u] = d => post'[u] = post[u]
        BY <1>1, <2>3 DEF CallOf
    <3> QED
        BY <1>1, <2>1, <2>3, <3>1, OtherExchanges
  <2> QED
      BY <2>2, <2>3
<1>3. ASSUME NEW u \in Posters PROVE Outcome(u)'
  <2>1. Outcome(u) /\ ClientExchange(uses[t])
      BY <1>1 DEF ExchangesInv
  <2>2. CASE u = t
      BY <1>1, <2>1, <2>2, CallOutcome
  <2>3. CASE u # t
    <3>1. post'[u] = post[u]
        BY <1>1, <2>3 DEF CallOf
    <3> QED
        BY <1>1, <2>1, <3>1, OutcomeStays
  <2> QED
      BY <2>2, <2>3
<1> QED
    BY <1>2, <1>3 DEF ExchangesInv

\* stop() and the destruction of a client keep the exchanges.
LEMMA StopExchanges ==
    ASSUME HttpTypeOK, CallsInv, SocketsInv, ExchangesInv, NEW c \in HttpClients,
           StopStep(c) \/ GoneStep(c), UNCHANGED serverVars
    PROVE  ExchangesInv'
<1>1. /\ wire' \in Seq(Conns) /\ ClientMove(c) /\ UNCHANGED <<uses, keepAlive, post>> /\ OwnedInv
      /\ UNCHANGED <<serving, handled>>
    BY StopKeeps DEF serverVars, SocketsInv
<1>2. ASSUME NEW d \in HttpClients PROVE ClientExchange(d)'
  <2>1. ClientExchange(d)
      BY DEF ExchangesInv
  <2>2. CASE d # c
      BY <1>1, <2>1, <2>2, OtherExchanges
  <2>3. CASE d = c /\ HasHungUp(c)
      BY <2>3, NoExchange DEF HasHungUp
  <2>4. CASE d = c /\ sock'[c] # 0 /\ ~HasHungUp(c)
    <3>1. inFlight[c] > 0 /\ Keeps(c) /\ (sock[c] # 0 => Shuts(wire[ConnOf(c)], wire'[ConnOf(c)]))
        BY <2>4 DEF StopStep, GoneStep
    <3>2. sock' = sock /\ descriptors' = descriptors /\ Len(wire') = Len(wire)
        BY <3>1 DEF Keeps
    <3>3. PICK k \in Established : k = ConnOf(c) /\ wire[k] \in Conns
        BY <1>1, <2>4, <3>2, SocketTyped
    <3>4. ConnOf(c)' = k
        BY <3>2, <3>3 DEF ConnOf
    <3>5. wire'[k] \in Conns
        BY <1>1, <3>2, <3>3, ElementOfSeq DEF Established
    <3>6. Shuts(wire[k], wire'[k])
        BY <2>4, <3>1, <3>2, <3>3
    <3>7. \A u \in Posters : uses[u] = c /\ post'[u].pc \in FlyingPlaces =>
              ExchangeAt(u, wire'[k], TurnAt(k), post'[u], keepAlive[c])
      <4>1. \A u \in Posters : uses[u] = c /\ post[u].pc \in FlyingPlaces =>
                ExchangeAt(u, wire[k], TurnAt(k), post[u], keepAlive[c])
          BY <2>1, <2>4, <3>2, <3>3 DEF ClientExchange, Flying
      <4> QED
          BY <1>1, <3>3, <3>5, <3>6, <4>1, ShutExchange
    <3>8. ~Idle(c)
        BY <3>1 DEF CallsInv
    <3>9. ~(\A u \in Posters : uses[u] = c => post'[u].pc \notin FlyingPlaces)
        BY <1>1, <3>8 DEF Idle, Flying
    <3> QED
        BY <1>1, <2>4, <3>4, <3>7, <3>9, ExchangeOn
  <2>5. CASE d = c /\ sock'[c] = 0
      BY <2>5, NoExchange
  <2> QED
      BY <2>5, <2>4, <2>3, <2>2
<1>3. ASSUME NEW u \in Posters PROVE Outcome(u)'
    BY <1>1, OutcomeStays DEF ExchangesInv
<1> QED
    BY <1>2, <1>3 DEF ExchangesInv

(***************************************************************************)
(* The inductive invariant, and what follows from it.                      *)
(***************************************************************************)
\* The inductive invariant.
HttpInv ==
    /\ HttpTypeOK /\ CallsInv /\ SocketsInv /\ ServedInv /\ HandledInv /\ AnswersInv
    /\ ExchangesInv

\* At the beginning every part is typed.
LEMMA InitTypes == ASSUME HttpInit PROVE HttpTypeOK
<1>1. wire \in Seq(Conns)
    BY DEF HttpInit
<1>2. ServerTypeOK
  <2>1. serving \in [ServerThreads -> Turns]
    <3>1. serving = [w \in ServerThreads |-> Unoccupied]
        BY DEF HttpInit, ServerInit
    <3> QED
        BY <3>1, NoTurn
  <2>2. jobs \in Seq(Nat)
      BY DEF HttpInit, ServerInit
  <2> QED
      BY <2>1, <2>2 DEF HttpInit, ServerInit, ServerTypeOK
<1>3. ClientTypeOK
  <2>1. NoAnswer \in Answers /\ "idle" \in CallPlaces
      BY DEF NoAnswer, Answers, Owners, Statuses, CallPlaces
  <2>2. [pc |-> "idle", number |-> 0, conn |-> 0, ret |-> FALSE, got |-> NoAnswer] \in Posts
      BY <2>1 DEF Posts
  <2>3. post \in [Posters -> Posts]
      BY <2>2 DEF HttpInit, ClientInit
  <2> HIDE DEF Posts
  <2> QED
      BY <2>3 DEF HttpInit, ClientInit, ClientTypeOK
<1> QED
    BY <1>1, <1>2, <1>3 DEF HttpTypeOK

\* The invariant holds at the beginning.
LEMMA InitHttpInv == ASSUME HttpInit PROVE HttpInv
<1>1. HttpTypeOK
    BY InitTypes
<1>2. /\ Established = {} /\ jobs = <<>> /\ Len(jobs) = 0
      /\ \A w \in ServerThreads : serving[w] = Unoccupied
      /\ \A t \in Posters : post[t].pc = "idle" /\ ~post[t].ret
      /\ \A c \in HttpClients : sock[c] = 0 /\ inFlight[c] = 0
      /\ destroyed = {} /\ ~shutdown /\ listener = "accept" /\ handled = EmptyBag
    BY DEF HttpInit, ServerInit, ClientInit, Established
<1>3. \A t \in Posters : ~Flying(t) /\ ~Busy(t)
    BY <1>2 DEF Flying, FlyingPlaces, Busy
<1>4. CallsInv
    BY <1>2, <1>3 DEF CallsInv
<1>5. SocketsInv
    BY <1>2 DEF SocketsInv, OwnedInv, ShutInv, CallsOnSockets, GoneInv
<1>6. ServedInv
  <2>1. \A w \in ServerThreads : serving[w].conn = 0 /\ serving[w].pc = "pool"
      BY <1>2, NoTurn
  <2>2. 1..Len(jobs) = {}
      BY <1>2
  <2> QED
      BY <1>2, <2>1, <2>2 DEF ServedInv, QueuesInv, PoolInv
<1>7. HandledInv
  <2>1. \A t : ~BagIn(t, handled)
      BY <1>2 DEF BagIn, BagToSet, EmptyBag, SetToBag
  <2>2. \A t, k, i : ~HeadOf(t, k, i)
      BY <1>2 DEF HeadOf
  <2>3. \A t, w : w \in ServerThreads => ~Handling(w, t)
      BY <1>2, NoTurn DEF Handling, Handles1
  <2> QED
      BY <2>1, <2>2, <2>3 DEF HandledInv, HandledOf
<1>8. AnswersInv
    BY <1>2, NoTurn DEF AnswersInv, Owed
<1>9. ExchangesInv
    BY <1>2 DEF ExchangesInv, ClientExchange, Outcome
<1> QED
    BY <1>1, <1>4, <1>5, <1>6, <1>7, <1>8, <1>9 DEF HttpInv

\* Steps of the server keep the invariant.
LEMMA ServerKeeps ==
    ASSUME HttpInv, ServerNext \/ Stop \/ AcceptFails, UNCHANGED clientVars PROVE HttpInv'
<1>1. HttpTypeOK /\ ServedInv /\ CallsInv /\ SocketsInv /\ HandledInv /\ AnswersInv /\ ExchangesInv
    BY DEF HttpInv
<1>2. wire' \in Seq(Conns) /\ ServerTypeOK' /\ ServedInv'
    BY <1>1, ServerServed
<1>3. ClientTypeOK' /\ CallsInv' /\ SocketsInv'
    BY <1>1, ServerKeepsClients
<1>4. HandledInv' /\ AnswersInv' /\ ExchangesInv'
    BY <1>1, ServerHandled, ServerAnswers, ServerExchanges
<1> QED
    BY <1>2, <1>3, <1>4 DEF HttpInv, HttpTypeOK

\* Steps of the calls keep the invariant.
LEMMA CallKeeps ==
    ASSUME HttpInv, NEW t \in Posters, CallStep(t), UNCHANGED serverVars PROVE HttpInv'
<1>1. HttpTypeOK /\ ServedInv /\ CallsInv /\ SocketsInv /\ HandledInv /\ AnswersInv /\ ExchangesInv
      /\ OwnedInv
    BY DEF HttpInv, SocketsInv
<1>2. uses[t] \in HttpClients /\ ClientMove(uses[t])
    BY <1>1, CallMove, CallTyped
<1>3. wire' \in Seq(Conns) /\ ServerTypeOK' /\ ServedInv'
    BY <1>1, <1>2, MoveServed
<1>4. ClientTypeOK' /\ CallsInv'
    BY <1>1, CallTypes, CallsKept
<1>5. SocketsInv'
  <2>1. OwnedInv'
      BY <1>1, <1>2, MoveOwned
  <2>2. ShutInv' /\ CallsOnSockets' /\ GoneInv'
      BY <1>1, CallShut, CallSockets
  <2> QED
      BY <2>1, <2>2 DEF SocketsInv
<1>6. HandledInv' /\ AnswersInv' /\ ExchangesInv'
    BY <1>1, CallHandled, CallAnswers, CallExchanges
<1> QED
    BY <1>3, <1>4, <1>5, <1>6 DEF HttpInv, HttpTypeOK

\* stop() and the destruction of a client keep the invariant.
LEMMA StopKeepsInv ==
    ASSUME HttpInv, NEW c \in HttpClients, StopStep(c) \/ GoneStep(c), UNCHANGED serverVars
    PROVE  HttpInv'
<1>1. HttpTypeOK /\ ServedInv /\ CallsInv /\ SocketsInv /\ HandledInv /\ AnswersInv /\ ExchangesInv
      /\ OwnedInv
    BY DEF HttpInv, SocketsInv
<1>2. wire' \in Seq(Conns) /\ ClientTypeOK' /\ CallsInv' /\ SocketsInv' /\ ClientMove(c)
    BY <1>1, StopKeeps
<1>3. ServerTypeOK' /\ ServedInv'
    BY <1>1, <1>2, MoveServed
<1>4. HandledInv' /\ AnswersInv' /\ ExchangesInv'
    BY <1>1, StopHandled, StopAnswers, StopExchanges
<1> QED
    BY <1>2, <1>3, <1>4 DEF HttpInv, HttpTypeOK

\* Nothing but the variables of the model is in the invariant.
LEMMA StutterKeeps == ASSUME HttpInv, UNCHANGED httpVars PROVE HttpInv'
<1>1. UNCHANGED <<wire, serverVars, clientVars>>
    BY DEF httpVars
<1>2. /\ UNCHANGED <<wire, svrSock, listening, isRunning, listener, jobs, shutdown, serving, handled>>
      /\ UNCHANGED <<uses, keepAlive, sock, descriptors, inFlight, closeWhenDone, requestMutex,
                     post, destroyed>>
    BY <1>1 DEF serverVars, clientVars
<1>3. HttpTypeOK'
    BY <1>2 DEF HttpInv, HttpTypeOK, ServerTypeOK, ClientTypeOK
<1>4. ServedInv'
    BY <1>2 DEF HttpInv, ServedInv, QueuesInv, PoolInv, Established
<1>5. CallsInv' /\ SocketsInv'
    BY <1>2 DEF HttpInv, CallsInv, Busy, Flying, Idle, SocketsInv, OwnedInv, ShutInv, CallsOnSockets,
       GoneInv, ConnOf, Established
<1>6. HandledInv'
  <2>1. \A t, k, i : HeadOf(t, k, i)' <=> HeadOf(t, k, i)
      BY <1>2 DEF HeadOf, Established
  <2>2. \A w, t : Handling(w, t)' <=> Handling(w, t)
      BY <1>2 DEF Handling
  <2>3. ASSUME NEW t \in Posters PROVE HandledOf(t)'
    <3>1. HandledOf(t)
        BY DEF HttpInv, HandledInv
    <3> QED
        BY <1>2, <2>1, <2>2, <3>1 DEF HandledOf
  <2> QED
      BY <2>3 DEF HandledInv
<1>7. AnswersInv'
    BY <1>2 DEF HttpInv, AnswersInv, Established
<1>8. ExchangesInv'
    BY <1>2 DEF HttpInv, ExchangesInv, ClientExchange, Outcome, TurnAt, ConnOf, Idle, Flying
<1> QED
    BY <1>3, <1>4, <1>5, <1>6, <1>7, <1>8 DEF HttpInv

\* The invariant is inductive.
LEMMA NextHttpInv == ASSUME HttpInv, [HttpNext]_httpVars PROVE HttpInv'
<1>1. HttpTypeOK /\ OwnedInv /\ CallsOnSockets
    BY DEF HttpInv, SocketsInv
<1>2. CASE ServerNext /\ UNCHANGED <<clientVars, trouble>>
    BY <1>2, ServerKeeps
<1>3. CASE ClientNext(listening) /\ UNCHANGED <<serverVars, trouble>>
  <2>1. (\E t \in Posters : CallStep(t)) \/ (\E c \in HttpClients : GoneStep(c))
      BY <1>1, <1>3, StepsOfClients
  <2> QED
      BY <1>3, <2>1, CallKeeps, StopKeepsInv
<1>4. CASE Trouble
  <2>1. CASE (Stop \/ AcceptFails) /\ UNCHANGED clientVars
      BY <2>1, ServerKeeps
  <2>2. ASSUME NEW c \in HttpClients, StopClient(c), UNCHANGED serverVars PROVE HttpInv'
      BY <1>1, <2>2, ClientSteps, StopKeepsInv
  <2> QED
      BY <1>4, <2>1, <2>2 DEF Trouble
<1>5. CASE HttpDone \/ UNCHANGED httpVars
    BY <1>5, StutterKeeps DEF HttpDone
<1> QED
    BY <1>2, <1>3, <1>4, <1>5 DEF HttpNext

\* The sockets of the calls: from the invariant.
LEMMA InvSockets == ASSUME HttpInv PROVE CallsKeepSockets
<1>1. CallsOnSockets /\ HttpTypeOK /\ OwnedInv
    BY DEF HttpInv, SocketsInv
<1>2. ASSUME NEW t \in Posters, post[t].pc \in {"write_body", "read_head", "read_body", "hang_up"}
      PROVE  post[t].number # 0 /\ Stream(t) = post[t].conn
  <2>1. post[t].number = sock[uses[t]] /\ sock[uses[t]] # 0
      BY <1>1, <1>2 DEF CallsOnSockets
  <2>2. Stream(t) = ConnOf(uses[t]) /\ post[t].conn = ConnOf(uses[t])
      BY <1>1, <1>2, OnConn
  <2> QED
      BY <2>1, <2>2
<1> QED
    BY <1>2 DEF CallsKeepSockets

\* A set whose members are all the same has one member, when it has any.
LEMMA OneMember ==
    ASSUME NEW S, NEW x \in S, \A y \in S : y = x PROVE Cardinality(S) = 1
<1>1. S = {x}
    OBVIOUS
<1> QED
    BY <1>1, FS_Singleton

\* A connection that is accepted and open is in one place.
LEMMA InvServed == ASSUME HttpInv PROVE ConnectionsServed
<1>1. QueuesInv /\ PoolInv /\ HttpTypeOK
    BY DEF HttpInv, ServedInv
<1>2. jobs \in Seq(Nat) /\ DOMAIN jobs = 1..Len(jobs) /\ Len(jobs) \in Nat
    BY <1>1 DEF HttpTypeOK, ServerTypeOK
<1>3. ASSUME NEW k \in Established, wire[k].ss = "open"
      PROVE  /\ listener # "returned"
             /\ Cardinality({i \in DOMAIN jobs : jobs[i] = k})
                  + Cardinality({w \in ServerThreads : serving[w].conn = k}) = 1
  <2> DEFINE Q == {i \in DOMAIN jobs : jobs[i] = k}
             S == {w \in ServerThreads : serving[w].conn = k}
  <2>1. k # 0
      BY <1>1 DEF HttpTypeOK, Established
  <2>2. \/ \E i \in 1..Len(jobs) : jobs[i] = k
        \/ \E w \in ServerThreads : serving[w].conn = k
      BY <1>1, <1>3 DEF QueuesInv
  <2>3. listener # "returned"
    <3>1. SUFFICES ASSUME listener = "returned" PROVE FALSE
        OBVIOUS
    <3>2. \A w \in ServerThreads : serving[w].pc = "exit" /\ serving[w].conn = 0 /\ jobs = <<>>
        BY <1>1, <3>1 DEF PoolInv, QueuesInv
    <3>3. Len(jobs) = 0
        BY <3>2, PoolAssumption
    <3>4. ~ \E i \in 1..Len(jobs) : jobs[i] = k
        BY <3>3
    <3> QED
        BY <2>1, <2>2, <3>2, <3>4
  <2>4. CASE \E i \in 1..Len(jobs) : jobs[i] = k
    <3>1. PICK i \in 1..Len(jobs) : jobs[i] = k
        BY <2>4
    <3>2. i \in Q /\ \A j \in Q : j = i
        BY <1>1, <1>2, <3>1 DEF QueuesInv
    <3>3. S = {}
        BY <1>1, <3>1 DEF QueuesInv
    <3>4. Cardinality(Q) = 1 /\ Cardinality(S) = 0
        BY <3>2, <3>3, OneMember, FS_EmptySet
    <3> HIDE DEF Q, S
    <3>5. Cardinality(Q) + Cardinality(S) = 1
        BY <3>4
    <3> QED
        BY <2>3, <3>5 DEF Q, S
  <2>5. CASE ~ \E i \in 1..Len(jobs) : jobs[i] = k
    <3>1. PICK w \in ServerThreads : serving[w].conn = k
        BY <2>2, <2>5
    <3>2. w \in S /\ \A v \in S : v = w
        BY <1>1, <2>1, <3>1 DEF QueuesInv
    <3>3. Q = {}
        BY <1>2, <2>5
    <3>4. Cardinality(S) = 1 /\ Cardinality(Q) = 0
        BY <3>2, <3>3, OneMember, FS_EmptySet
    <3> HIDE DEF Q, S
    <3>5. Cardinality(Q) + Cardinality(S) = 1
        BY <3>4
    <3> QED
        BY <2>3, <3>5 DEF Q, S
  <2> QED
      BY <2>4, <2>5
<1> QED
    BY <1>3 DEF ConnectionsServed

\* What clients and server may rely on follows from the invariant.
LEMMA InvExchanges == ASSUME HttpInv PROVE HttpExchangesSafe
<1>1. AnswersBelong
    BY DEF HttpInv, ExchangesInv, Outcome, AnswersBelong
<1>2. HandledOnce
    BY DEF HttpInv, HandledInv, HandledOf, HandledOnce
<1>3. SocketsReturned
    BY DEF HttpInv, SocketsInv, OwnedInv, GoneInv, SocketsReturned
<1> QED
    BY <1>1, <1>2, <1>3, InvSockets, InvServed DEF HttpExchangesSafe

\* The invariant holds in every state: the calls of a client take turns, every
\* connection has one owner on either side, and what is said on it belongs to
\* the call that holds it (ClientImpl::send, Server::process_request).
THEOREM HttpInvariant == HttpSpec => []HttpInv
<1>1. HttpInit => HttpInv
    BY InitHttpInv
<1>2. HttpInv /\ [HttpNext]_httpVars => HttpInv'
    BY NextHttpInv
<1> QED
    BY <1>1, <1>2, PTL DEF HttpSpec

\* No call loses its socket, every answer is that of the request it answers, no
\* request is handled twice, every accepted connection is served by one thread,
\* and clients that are gone have closed theirs (httplib).
THEOREM ExchangesSafe == HttpSpec => []HttpExchangesSafe
<1>1. HttpInv => HttpExchangesSafe
    BY InvExchanges
<1> QED
    BY <1>1, HttpInvariant, PTL

=============================================================================
