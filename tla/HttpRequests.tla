---------------------------- MODULE HttpRequests -----------------------------
(***************************************************************************)
(* One call of an HTTP client with all of its redirections, over           *)
(* connections that are kept alive: which requests it writes, what follows *)
(* them on the connection, which of it the server reads before it calls a  *)
(* handler, and whose answer the client takes.                             *)
(***************************************************************************)
EXTENDS Naturals, Sequences

CONSTANTS RedirectMax,   \* CPPHTTPLIB_REDIRECT_MAX_COUNT
          Handled        \* what a handler may do with a request

ASSUME RequestsAssumption == RedirectMax \in Nat

Hosts == {"here", "there"}   \* the client's own server, and another one
Paths == {"a", "b"}          \* a leads to b, and b to itself

VARIABLES call,       \* the request of the caller
          site,       \* how the servers are set up
          follow,     \* follow_location_
          request,    \* the request that the client is busy with, and its host
          sent,       \* how many requests it has written
          conn,       \* per host: what the server has not read yet
          replies,    \* per host: answers that the client has not read yet
          handled,    \* calls of handlers: the method and the body they got
          outcome     \* "", an error, or the answer that the call returned

requestVars == <<call, site, follow, request, sent, conn, replies, handled, outcome>>

-----------------------------------------------------------------------------
(* The client's verbs: the requests that their overloads make.             *)

Bare(method, headers) ==
    [method |-> method, path |-> "a", body |-> "", provider |-> "none", headers |-> headers,
     left |-> RedirectMax, host |-> "here"]

\* Texts, parameters and forms are bodies; a provider has a length or not.
send_with_content_provider(method, gives, headers) ==
    CASE gives = "length" -> [Bare(method, headers) EXCEPT !.provider = "length"]
      [] gives = "chunked" -> [Bare(method, headers \cup {"Transfer-Encoding"}) EXCEPT !.provider = "chunked"]
      [] gives = "form" -> [Bare(method, headers \cup {"multipart"}) EXCEPT !.body = "text"]
      [] gives = "text" -> [Bare(method, headers) EXCEPT !.body = "text"]
      [] gives = "nothing" -> Bare(method, headers)

VerbGet(headers) == {Bare("GET", headers)}
VerbHead(headers) == {Bare("HEAD", headers)}
VerbOptions(headers) == {Bare("OPTIONS", headers)}
VerbDelete(headers) == {send_with_content_provider("DELETE", g, headers) : g \in {"nothing", "text"}}
VerbPatch(headers) ==
    {send_with_content_provider("PATCH", g, headers) : g \in {"nothing", "text", "length", "chunked"}}
VerbPost(headers) ==
    {send_with_content_provider("POST", g, headers) : g \in {"nothing", "text", "form", "length", "chunked"}}
VerbPut(headers) ==
    {send_with_content_provider("PUT", g, headers) : g \in {"nothing", "text", "form", "length", "chunked"}}

Calls ==
    UNION {VerbGet(h) \cup VerbHead(h) \cup VerbOptions(h) \cup VerbDelete(h) \cup VerbPatch(h)
             \cup VerbPost(h) \cup VerbPut(h) : h \in {{}, {"bad range"}, {"expect"}, {"no boundary"}}}

NothingSent == [h \in Hosts |-> <<>>]

\* The handlers that are registered for each path, and the ones before them.
Sites == [pre : BOOLEAN, file : BOOLEAN, expect : {100, 417, 403}, catches : BOOLEAN,
          reader : {"none", "reads", "ignores"}, a : Handled, b : {"ok", "307"}]

\* The call is made; not every choice of handlers matters to every call.
RequestsInit ==
    /\ call \in {r \in Calls : "no boundary" \in r.headers => "multipart" \in r.headers}
    /\ site \in Sites
    /\ "expect" \notin call.headers => site.expect = 100
    /\ site.pre => ~site.file /\ site.a = "ok"
    /\ site.file => site.a = "ok" /\ site.reader = "none"
    /\ site.catches => site.a = "throws"
    /\ follow \in BOOLEAN
    /\ request = call /\ sent = 0 /\ conn = NothingSent /\ replies = NothingSent
    /\ handled = <<>> /\ outcome = [kind |-> ""]

-----------------------------------------------------------------------------
(* The client.                                                             *)

\* write_request() adds the headers that frame the body.
Announced(r) ==
    IF "Transfer-Encoding" \in r.headers THEN "chunked"
    ELSE IF \/ r.body # "" \/ r.provider = "length"
            \/ r.provider = "none" /\ r.method \in {"POST", "PUT", "PATCH"}
    THEN "length" ELSE "none"

Carries(r) == IF r.body # "" THEN "text" ELSE r.provider

Bytes == [kind |-> "bytes"]

write_request ==
    LET head == [kind |-> "head", request |-> request, announces |-> Announced(request), of |-> sent + 1] IN
    /\ outcome.kind = "" /\ request.host # "nowhere"
    /\ conn' = [conn EXCEPT ![request.host] =
                  @ \o <<head>> \o (IF Carries(request) = "none" THEN <<>> ELSE <<Bytes>>)]
    /\ sent' = sent + 1 /\ outcome' = [kind |-> "wait"]
    /\ UNCHANGED <<call, site, follow, request, replies, handled>>

\* A defect: the body goes with the request that is not to have one.
redirect_with_body(r, status, host) ==
    LET next == [r EXCEPT !.left = @ - 1, !.host = host, !.path = "b"] IN
    IF status = 303 /\ r.method \notin {"GET", "HEAD"}
    THEN [next EXCEPT !.method = "GET", !.headers = {}] ELSE next

\* detail::redirect(): after a 303 without body and headers; a content
\* provider stays.
redirect(r, status, host) ==
    LET next == [r EXCEPT !.left = @ - 1, !.host = host, !.path = "b"] IN
    IF status = 303 /\ r.method \notin {"GET", "HEAD"}
    THEN [next EXCEPT !.method = "GET", !.body = "", !.headers = {}] ELSE next

IsRedirect(status) == 300 < status /\ status < 400

\* read_response_line() passes over 100; handle_request() follows the location,
\* on another connection if it leads to another host.  Without SSL there is
\* no client for https.
ReadReply ==
    LET reply == Head(replies[request.host]) IN
    /\ outcome.kind = "wait" /\ replies[request.host] # <<>>
    /\ replies' = [replies EXCEPT ![request.host] = Tail(@)]
    /\ IF reply.status = 100 THEN UNCHANGED <<request, outcome>>
       ELSE IF ~(IsRedirect(reply.status) /\ follow)
       THEN outcome' = [kind |-> "answer", of |-> reply.of, status |-> reply.status] /\ UNCHANGED request
       ELSE IF request.left = 0
       THEN outcome' = [kind |-> "ExceedRedirectCount"] /\ UNCHANGED request
       ELSE IF reply.to = "https"
       THEN outcome' = [kind |-> "Unknown"] /\ UNCHANGED request
       ELSE /\ outcome' = [kind |-> ""]
            /\ request' = redirect(request, reply.status, IF reply.to = "there" THEN "there" ELSE request.host)
    /\ UNCHANGED <<call, site, follow, sent, conn, handled>>

-----------------------------------------------------------------------------
(* The server.                                                             *)

expect_content(method) == method \in {"POST", "PUT", "PATCH", "DELETE"}

\* read_content_core() and read_content(): the whole of the body, if it is framed.
ReadsBody(m) ==
    /\ ~("multipart" \in m.request.headers /\ "no boundary" \in m.request.headers)
    /\ ~(m.request.method = "DELETE" /\ m.announces # "length")
    /\ m.announces # "none"

\* dispatch_request(): what the handler of the path answers.
HandlerAnswers(m, does) ==
    [of |-> m.of, to |-> CASE does = "307 there" -> "there" [] does = "303 https" -> "https" [] OTHER -> "here",
     status |-> CASE does = "ok" -> 200 [] does = "none" -> 404
                  [] does = "throws" -> IF site.catches THEN 200 ELSE 500
                  [] does \in {"303", "303 https"} -> 303 [] OTHER -> 307]

Plainly(m, status) == [of |-> m.of, to |-> "here", status |-> status]
Called(m, got) == <<[method |-> m.request.method, got |-> got]>>

\* Server::routing(): the answer, whether the body was read, and the call.
Routed(m) ==
    LET does == IF m.request.path = "a" THEN site.a ELSE site.b
        reading == expect_content(m.request.method)
        reader == IF reading /\ m.request.path = "a" THEN site.reader ELSE "none"
        got == IF reading /\ ReadsBody(m) THEN Carries(m.request) ELSE "none"
        Result(reply, read, calls) == [reply |-> reply, read |-> read, calls |-> calls]
    IN IF site.pre \/ (site.file /\ m.request.method \in {"GET", "HEAD"})
       THEN Result(Plainly(m, 200), FALSE, <<>>)
       ELSE IF reader = "ignores"
       THEN Result(HandlerAnswers(m, "ok"), FALSE, Called(m, "none"))
       ELSE IF reader = "reads"
       THEN Result(HandlerAnswers(m, "ok"), ReadsBody(m), Called(m, got))
       ELSE IF reading /\ "multipart" \in m.request.headers /\ ~ReadsBody(m)
       THEN Result(Plainly(m, 400), FALSE, <<>>)
       ELSE Result(HandlerAnswers(m, does), reading /\ ReadsBody(m),
                   IF does = "none" THEN <<>> ELSE Called(m, got))

\* What goes to the client, and what became of the request: without routing,
\* by routing alone, or by routing after the answer to an expectation.
Refused(m, status) == [answers |-> <<Plainly(m, status)>>, rest |-> [read |-> FALSE, calls |-> <<>>]]
Served(m) == [answers |-> <<Routed(m).reply>>, rest |-> Routed(m)]
Continued(m, status) == [answers |-> <<Plainly(m, status), Routed(m).reply>>, rest |-> Routed(m)]

\* A refused range and a refused expectation are answered before the body is
\* read; after 417 the request is handled all the same.
process_request(m) ==
    IF "bad range" \in m.request.headers THEN Refused(m, 416)
    ELSE IF "expect" \notin m.request.headers THEN Served(m)
    ELSE IF site.expect = 403 THEN Refused(m, 403)
    ELSE Continued(m, site.expect)

\* The thread of a connection takes the next request.
ServeRequest(h) ==
    LET m == Head(conn[h])
        done == process_request(m)
        body == Len(conn[h]) > 1 /\ conn[h][2] = Bytes
    IN
    /\ conn[h] # <<>> /\ m # Bytes
    /\ conn' = [conn EXCEPT ![h] = IF body /\ done.rest.read THEN Tail(Tail(@)) ELSE Tail(@)]
    /\ replies' = [replies EXCEPT ![h] = @ \o done.answers]
    /\ handled' = handled \o done.rest.calls
    /\ UNCHANGED <<call, site, follow, request, sent, outcome>>

\* A body that nobody has read is no request.
ServeBytes(h) ==
    /\ conn[h] # <<>> /\ Head(conn[h]) = Bytes
    /\ conn' = [conn EXCEPT ![h] = Tail(@)]
    /\ replies' = [replies EXCEPT ![h] = Append(@, [of |-> 0, to |-> "here", status |-> 400])]
    /\ UNCHANGED <<call, site, follow, request, sent, handled, outcome>>

RequestsNext == write_request \/ ReadReply \/ \E h \in Hosts : ServeRequest(h) \/ ServeBytes(h)

RequestsSpec == RequestsInit /\ [][RequestsNext]_requestVars

-----------------------------------------------------------------------------
Gives(r) == Carries(r) # "none"

\* The cases in which the server answers without the body being read.
LeftUnread ==
    \/ Gives(call) /\ \/ site.pre
                      \/ call.headers \cap {"bad range", "no boundary"} # {}
                      \/ "expect" \in call.headers /\ site.expect = 403
                      \/ site.reader = "ignores" /\ expect_content(call.method)
    \/ call.provider # "none" /\ follow /\ site.a = "303"

AnsweredTwice == "expect" \in call.headers /\ site.expect = 417

\* Client and server agree on where a request ends: the call returns the
\* answer to its last request, no answer is left over and no part of a body
\* is taken for a request.  It is not so where the server answers without
\* reading the body and keeps the connection: a handler before the routing,
\* a content reader that does not read, a range, form or expectation that
\* is refused, and the GET that follows a 303 with the old content provider;
\* and where 417 is followed by a second answer (process_request, routing,
\* redirect).
InStep ==
    \/ LeftUnread \/ AnsweredTwice
    \/ /\ \A h \in Hosts : conn[h] # <<>> => Head(conn[h]) # Bytes
       /\ outcome.kind \notin {"", "wait"} => replies = NothingSent /\ conn = NothingSent
       /\ outcome.kind = "answer" => outcome.of = sent

\* A handler that is called with a method that has a body gets the one that the
\* caller gave, however many redirections there were; the method changes only
\* to GET.
BodiesFollow ==
    InStep /\ ~LeftUnread => \A i \in DOMAIN handled :
        /\ handled[i].method \in {call.method, "GET"}
        /\ handled[i].method = call.method /\ expect_content(call.method) => handled[i].got = Carries(call)

\* Redirections end: a call writes one request and RedirectMax more at most.
RedirectsEnd == sent <= RedirectMax + 1 /\ (outcome.kind = "ExceedRedirectCount" => sent = RedirectMax + 1)

\* What a caller may rely on, together.
RequestsInStep == InStep /\ BodiesFollow /\ RedirectsEnd

=============================================================================
