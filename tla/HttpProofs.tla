------------------------------ MODULE HttpProofs -----------------------------
(***************************************************************************)
(* The requests of an HTTP client and their redirections, for any number   *)
(* of redirections and any handlers.                                       *)
(*                                                                         *)
(* The client and the servers take turns: a request is on its way, or its  *)
(* answers, or neither, and only to or from the host that the client is    *)
(* busy with.  A redirection keeps the request as the caller made it, or   *)
(* empties it, and what is kept is read by the server unless the call is   *)
(* one of those that LeftUnread lists.                                     *)
(*                                                                         *)
(* The second half is about the body of one message, for contents of any   *)
(* size, written in pieces of any size.  All that the writer sends is one  *)
(* sequence of tokens, and the reader is somewhere in it: what it does     *)
(* next is decided by the tokens at that place.                            *)
(***************************************************************************)
EXTENDS HttpRequests, HttpContent, SequenceTheorems, TLAPS

Methods == {"GET", "HEAD", "OPTIONS", "DELETE", "PATCH", "POST", "PUT"}
Requests == [method : Methods, path : Paths, body : {"", "text"}, provider : {"none", "length", "chunked"},
             headers : SUBSET {"bad range", "expect", "no boundary", "multipart", "Transfer-Encoding"},
             left : Nat, host : Hosts]

\* What all calls of the client have in common.
WellMade(r) ==
    /\ r \in Requests
    /\ r.path = "a" /\ r.left = RedirectMax /\ r.host = "here"
    /\ Gives(r) => expect_content(r.method)
    /\ r.provider = "chunked" <=> "Transfer-Encoding" \in r.headers
    /\ r.method = "DELETE" => r.provider = "none"

\* Every overload of a verb makes such a request.
LEMMA CallsWellMade == \A r \in Calls : WellMade(r)
<1>1. ASSUME NEW m \in Methods, NEW h \in {{}, {"bad range"}, {"expect"}, {"no boundary"}}
      PROVE  /\ WellMade(Bare(m, h))
             /\ WellMade(send_with_content_provider(m, "nothing", h))
             /\ expect_content(m) => WellMade(send_with_content_provider(m, "text", h))
             /\ expect_content(m) => WellMade(send_with_content_provider(m, "form", h))
             /\ expect_content(m) /\ m # "DELETE" => WellMade(send_with_content_provider(m, "length", h))
             /\ expect_content(m) /\ m # "DELETE" => WellMade(send_with_content_provider(m, "chunked", h))
  <2>1. PICK r : r = Bare(m, h)
      OBVIOUS
  <2>2. /\ r \in Requests /\ r.method = m /\ r.path = "a" /\ r.left = RedirectMax /\ r.host = "here"
        /\ r.body = "" /\ r.provider = "none" /\ r.headers = h /\ "Transfer-Encoding" \notin h
      BY <2>1, RequestsAssumption DEF Bare, Requests, Paths, Hosts
  <2>3. WellMade(r)
      BY <2>2 DEF WellMade, Gives, Carries
  <2>4. send_with_content_provider(m, "nothing", h) = r
      BY <2>1 DEF send_with_content_provider
  <2>5. ASSUME expect_content(m) PROVE WellMade(send_with_content_provider(m, "text", h))
    <3>1. PICK q : q = [r EXCEPT !.body = "text"]
        OBVIOUS
    <3>2. send_with_content_provider(m, "text", h) = q
        BY <2>1, <3>1 DEF send_with_content_provider
    <3>3. /\ q \in Requests /\ q.method = m /\ q.path = "a" /\ q.left = RedirectMax /\ q.host = "here"
          /\ q.provider = "none" /\ q.headers = h
        BY <2>2, <3>1 DEF Requests
    <3> QED BY <2>2, <2>5, <3>2, <3>3 DEF WellMade
  <2>6. ASSUME expect_content(m) PROVE WellMade(send_with_content_provider(m, "form", h))
    <3>1. PICK p : p = Bare(m, h \cup {"multipart"})
        OBVIOUS
    <3>2. PICK q : q = [p EXCEPT !.body = "text"]
        OBVIOUS
    <3>3. send_with_content_provider(m, "form", h) = q
        BY <3>1, <3>2 DEF send_with_content_provider
    <3>4. /\ p \in Requests /\ p.method = m /\ p.path = "a" /\ p.left = RedirectMax /\ p.host = "here"
          /\ p.provider = "none" /\ p.headers = h \cup {"multipart"} /\ "Transfer-Encoding" \notin p.headers
        BY <3>1, RequestsAssumption DEF Bare, Requests, Paths, Hosts
    <3>5. /\ q \in Requests /\ q.method = m /\ q.path = "a" /\ q.left = RedirectMax /\ q.host = "here"
          /\ q.provider = "none" /\ q.headers = p.headers
        BY <3>2, <3>4 DEF Requests
    <3> QED BY <2>6, <3>3, <3>4, <3>5 DEF WellMade
  <2>7. ASSUME expect_content(m), m # "DELETE" PROVE WellMade(send_with_content_provider(m, "length", h))
    <3>1. PICK q : q = [r EXCEPT !.provider = "length"]
        OBVIOUS
    <3>2. send_with_content_provider(m, "length", h) = q
        BY <2>1, <3>1 DEF send_with_content_provider
    <3>3. /\ q \in Requests /\ q.method = m /\ q.path = "a" /\ q.left = RedirectMax /\ q.host = "here"
          /\ q.provider = "length" /\ q.headers = h
        BY <2>2, <3>1 DEF Requests
    <3> QED BY <2>2, <2>7, <3>2, <3>3 DEF WellMade
  <2>8. ASSUME expect_content(m), m # "DELETE" PROVE WellMade(send_with_content_provider(m, "chunked", h))
    <3>1. PICK p : p = Bare(m, h \cup {"Transfer-Encoding"})
        OBVIOUS
    <3>2. PICK q : q = [p EXCEPT !.provider = "chunked"]
        OBVIOUS
    <3>3. send_with_content_provider(m, "chunked", h) = q
        BY <3>1, <3>2 DEF send_with_content_provider
    <3>4. /\ p \in Requests /\ p.method = m /\ p.path = "a" /\ p.left = RedirectMax /\ p.host = "here"
          /\ p.headers = h \cup {"Transfer-Encoding"}
        BY <3>1, RequestsAssumption DEF Bare, Requests, Paths, Hosts
    <3>5. /\ q \in Requests /\ q.method = m /\ q.path = "a" /\ q.left = RedirectMax /\ q.host = "here"
          /\ q.provider = "chunked" /\ q.headers = p.headers
        BY <3>2, <3>4 DEF Requests
    <3> QED BY <2>8, <3>3, <3>4, <3>5 DEF WellMade
  <2> QED BY <2>1, <2>3, <2>4, <2>5, <2>6, <2>7, <2>8
<1>2. ASSUME NEW h \in {{}, {"bad range"}, {"expect"}, {"no boundary"}}
      PROVE  \A r \in VerbGet(h) \cup VerbHead(h) \cup VerbOptions(h) \cup VerbDelete(h) \cup VerbPatch(h)
                      \cup VerbPost(h) \cup VerbPut(h) : WellMade(r)
  <2>1. \A r \in VerbGet(h) \cup VerbHead(h) \cup VerbOptions(h) : WellMade(r)
      BY <1>1 DEF VerbGet, VerbHead, VerbOptions, Methods
  <2>2. \A r \in VerbDelete(h) : WellMade(r)
      BY <1>1 DEF VerbDelete, Methods, expect_content
  <2>3. \A r \in VerbPatch(h) : WellMade(r)
      BY <1>1 DEF VerbPatch, Methods, expect_content
  <2>4. \A r \in VerbPost(h) : WellMade(r)
      BY <1>1 DEF VerbPost, Methods, expect_content
  <2>5. \A r \in VerbPut(h) : WellMade(r)
      BY <1>1 DEF VerbPut, Methods, expect_content
  <2> QED BY <2>4, <2>1, <2>2, <2>3, <2>5
<1> QED
    BY <1>2 DEF Calls

-----------------------------------------------------------------------------
\* The request is the caller's, or what a 303 has left of it.
Kept(r) ==
    r.method = call.method /\ r.body = call.body /\ r.provider = call.provider /\ r.headers = call.headers
Emptied(r) == r.method = "GET" /\ r.body = "" /\ r.headers = {} /\ r.provider = "none"

\* What never changes.
Settled ==
    /\ WellMade(call) /\ site.b \in {"ok", "307"} /\ site.expect \in {100, 417, 403}
    /\ "expect" \notin call.headers => site.expect = 100

At(h, q) == [g \in Hosts |-> IF g = h THEN q ELSE <<>>]

Msg(r, n) == [kind |-> "head", request |-> r, announces |-> Announced(r), of |-> n]
Message == <<Msg(request, sent)>> \o (IF Carries(request) = "none" THEN <<>> ELSE <<Bytes>>)

\* The last answer to a request, and one that an expectation brings before it.
Final(a) ==
    a.of = sent /\ a.status # 100 /\ (a.status = 303 => a.to = "https" \/ site.a = "303")
Leading(c) == c.status = 100 \/ (c.of = sent /\ c.status = 417 /\ AnsweredTwice)
Answers(p) == \E a : Final(a) /\ (p = <<a>> \/ \E c : Leading(c) /\ p = <<c, a>>)

GoodCalls ==
    {c \in [method : Methods, got : {"none", "text", "length", "chunked"}] :
        /\ c.method \in {call.method, "GET"}
        /\ c.method = call.method /\ expect_content(call.method) => c.got = Carries(call)}

Ready == outcome.kind = "" /\ conn = NothingSent /\ replies = NothingSent
Written == outcome.kind = "wait" /\ replies = NothingSent /\ conn = At(request.host, Message)
Answered == /\ outcome.kind = "wait" /\ conn = NothingSent
            /\ \E p : Answers(p) /\ replies = At(request.host, p)
Over == /\ outcome.kind \notin {"", "wait"} /\ conn = NothingSent
        /\ AnsweredTwice \/ replies = NothingSent
        /\ outcome.kind = "answer" => outcome.of = sent

TakingTurns ==
    /\ Kept(request) \/ Emptied(request)
    /\ handled \in Seq(GoodCalls)
    /\ Ready \/ Written \/ Answered \/ Over

\* How often the client may still be redirected.
Counting ==
    /\ request \in Requests /\ sent \in Nat
    /\ outcome.kind = "" => sent + request.left = RedirectMax
    /\ outcome.kind # "" => sent + request.left = RedirectMax + 1
    /\ outcome.kind = "ExceedRedirectCount" => request.left = 0

RequestsInv == Settled /\ Counting /\ (~LeftUnread => TakingTurns)

\* The request of the caller is kept, and nothing has been written.
LEMMA RequestsInitInv ==
    ASSUME RequestsInit PROVE RequestsInv
<1>1. Settled
    BY CallsWellMade DEF RequestsInit, Settled, Sites
<1>2. WellMade(call) /\ request = call /\ sent = 0 /\ outcome.kind = ""
    BY <1>1 DEF Settled, RequestsInit
<1>3. Counting
  <2>1. request \in Requests /\ request.left = RedirectMax
      BY <1>2 DEF WellMade
  <2>2. 0 \in Nat /\ 0 + RedirectMax = RedirectMax
      BY RequestsAssumption
  <2> QED BY <1>2, <2>1, <2>2 DEF Counting
<1>4. TakingTurns
  <2>1. Kept(request) /\ Ready
      BY <1>2 DEF Kept, Ready, RequestsInit
  <2>2. handled = <<>>
      BY DEF RequestsInit
  <2>3. <<>> \in Seq(GoodCalls)
      BY EmptySeq
  <2> QED BY <2>1, <2>2, <2>3 DEF TakingTurns
<1> QED
    BY <1>1, <1>3, <1>4 DEF RequestsInv

\* What the prefix of a step does not touch.
LEMMA SameCall ==
    ASSUME call' = call, site' = site, follow' = follow
    PROVE  /\ Settled => Settled'
           /\ LeftUnread' = LeftUnread /\ AnsweredTwice' = AnsweredTwice /\ GoodCalls' = GoodCalls
    BY DEF Settled, LeftUnread, AnsweredTwice, GoodCalls

\* Nothing on any connection.
LEMMA NothingIs == \A h \in Hosts : At(h, <<>>) = NothingSent /\ NothingSent[h] = <<>>
    BY DEF At, NothingSent

\* write_request() is called when both directions are empty.
LEMMA WritingKeepsInv ==
    ASSUME RequestsInv, write_request PROVE RequestsInv'
<1>1. /\ Settled /\ Counting /\ (~LeftUnread => TakingTurns)
      /\ outcome.kind = "" /\ sent' = sent + 1 /\ outcome' = [kind |-> "wait"]
      /\ call' = call /\ site' = site /\ follow' = follow
      /\ request' = request /\ replies' = replies /\ handled' = handled
    BY DEF RequestsInv, write_request
<1>2. Settled' /\ LeftUnread' = LeftUnread /\ GoodCalls' = GoodCalls
    BY <1>1, SameCall
<1>3. Counting'
  <2>1. request \in Requests /\ sent \in Nat /\ sent + request.left = RedirectMax
      BY <1>1 DEF Counting
  <2>2. outcome'.kind = "wait"
      BY <1>1
  <2>3. PICK n \in Nat : n = request.left
      BY <2>1 DEF Requests
  <2>4. sent + n = RedirectMax /\ sent' = sent + 1
      BY <1>1, <2>1, <2>3
  <2>5. sent' \in Nat /\ sent' + n = RedirectMax + 1
      BY <2>1, <2>4, RequestsAssumption
  <2> QED BY <1>1, <2>1, <2>2, <2>3, <2>5 DEF Counting
<1>4. ASSUME ~LeftUnread PROVE TakingTurns'
  <2>1. TakingTurns /\ outcome'.kind = "wait" /\ request.host \in Hosts
      BY <1>1, <1>4 DEF Counting, Requests
  <2>2. conn = NothingSent /\ replies = NothingSent
      BY <1>1, <2>1 DEF TakingTurns, Ready, Written, Answered, Over
  <2>3. PICK bytes : bytes = IF Carries(request) = "none" THEN <<>> ELSE <<Bytes>>
      OBVIOUS
  <2>4. PICK head : head = Msg(request, sent + 1)
      OBVIOUS
  <2>5. conn' = [conn EXCEPT ![request.host] = @ \o <<head>> \o bytes]
      BY <2>3, <2>4 DEF write_request, Msg
  <2>6. bytes \in Seq({Bytes}) /\ <<head>> \in Seq({head}) /\ <<>> \o <<head>> = <<head>>
      BY <2>3
  <2>7. conn' = At(request.host, <<head>> \o bytes)
      BY <2>1, <2>2, <2>5, <2>6 DEF At, NothingSent
  <2>8. Message' = <<head>> \o bytes
      BY <1>1, <2>3, <2>4 DEF Message, Msg, Announced, Carries
  <2>9. Written'
      BY <1>1, <2>1, <2>2, <2>7, <2>8 DEF Written, At, NothingSent
  <2> QED BY <1>1, <1>2, <2>1, <2>9 DEF TakingTurns, Kept, Emptied
<1> QED
    BY <1>2, <1>3, <1>4 DEF RequestsInv

-----------------------------------------------------------------------------
\* The server reads a body that is there, and answers the request.
Serves(d, r) ==
    /\ Carries(r) # "none" => d.rest.read
    /\ Answers(d.answers)
    /\ d.rest.calls \in Seq(GoodCalls)

\* What routing() answers, apart from the answers that come before.
Routes(d, r) ==
    /\ Carries(r) # "none" => d.read
    /\ Final(d.reply)
    /\ d.calls \in Seq(GoodCalls)

\* The request as the server sees it.
Handles(r) == r \in Requests /\ (Kept(r) \/ Emptied(r)) /\ Settled /\ ~LeftUnread

\* Nothing keeps the server from reading the body.
Unhindered(r, m) ==
    /\ ReadsBody(m) /\ expect_content(r.method) /\ Kept(r)
    /\ ~site.pre /\ "bad range" \notin r.headers /\ site.reader # "ignores"
    /\ ~("expect" \in r.headers /\ site.expect = 403)

\* A body that is sent is one that the server reads.
LEMMA BodiesAreRead ==
    ASSUME NEW r, Handles(r), Gives(r), NEW m, m = Msg(r, sent)
    PROVE  Unhindered(r, m)
<1>1. Kept(r)
    BY DEF Handles, Emptied, Gives, Carries
<1>2. WellMade(call) /\ ~LeftUnread
    BY DEF Handles, Settled
<1>3. Gives(call) /\ expect_content(r.method)
    BY <1>1, <1>2 DEF Kept, Gives, Carries, WellMade
<1>4. /\ ~site.pre /\ "bad range" \notin r.headers /\ "no boundary" \notin r.headers
      /\ ~("expect" \in r.headers /\ site.expect = 403) /\ site.reader # "ignores"
    BY <1>1, <1>2, <1>3 DEF LeftUnread, Kept
<1>5. m.request = r /\ m.announces = Announced(r)
    BY DEF Msg
<1>6. /\ r.body \in {"", "text"} /\ r.provider \in {"none", "length", "chunked"}
      /\ (r.body # "" \/ r.provider # "none")
    BY DEF Handles, Requests, Gives, Carries
<1>7. /\ r.provider = "chunked" <=> "Transfer-Encoding" \in r.headers
      /\ r.method = "DELETE" => r.provider = "none"
    BY <1>1, <1>2 DEF Kept, WellMade
<1>8. Announced(r) # "none"
    BY <1>6, <1>7 DEF Announced
<1>9. r.method = "DELETE" => Announced(r) = "length"
    BY <1>6, <1>7 DEF Announced
<1> QED
    BY <1>1, <1>3, <1>4, <1>5, <1>8, <1>9 DEF ReadsBody, Unhindered

\* A handler that is called gets the body that the caller gave.
LEMMA CalledIsGood ==
    ASSUME NEW r, Handles(r), NEW m, m = Msg(r, sent),
           NEW got, got = (IF expect_content(r.method) /\ ReadsBody(m) THEN Carries(r) ELSE "none")
    PROVE  Called(m, got) \in Seq(GoodCalls)
<1>1. m.request = r
    BY DEF Msg
<1>2. PICK c : c = [method |-> r.method, got |-> got]
    OBVIOUS
<1>3. Carries(r) \in {"none", "text", "length", "chunked"} /\ r.method \in Methods
    BY DEF Handles, Requests, Carries
<1>4. got \in {"none", "text", "length", "chunked"}
    BY <1>3
<1>5. r.method \in {call.method, "GET"}
    BY DEF Handles, Kept, Emptied
<1>6. ASSUME r.method = call.method, expect_content(call.method) PROVE got = Carries(call)
  <2>1. Kept(r)
      BY <1>6 DEF Handles, Emptied, expect_content
  <2>2. Carries(r) = Carries(call)
      BY <2>1 DEF Kept, Carries
  <2>3. CASE Gives(r)
    <3>1. Unhindered(r, m)
        BY <2>3, BodiesAreRead
    <3> QED BY <1>6, <2>2, <3>1 DEF Unhindered
  <2>4. CASE ~Gives(r)
      BY <2>2, <2>4 DEF Gives
  <2> QED BY <2>3, <2>4
<1>7. /\ c \in [method : Methods, got : {"none", "text", "length", "chunked"}]
      /\ c.method = r.method /\ c.got = got
    BY <1>2, <1>3, <1>4
<1>8. c \in GoodCalls
    BY <1>5, <1>6, <1>7 DEF GoodCalls
<1>9. Called(m, got) = <<c>>
    BY <1>1, <1>2 DEF Called
<1>10. <<c>> \in Seq(GoodCalls)
    BY <1>8
<1> QED
    BY <1>9, <1>10

\* The status of a handler is no 100, and 303 only where the handler of the
\* caller's path gives it.
LEMMA AnswersAreFinal ==
    ASSUME Settled, NEW r, NEW m, m = Msg(r, sent)
    PROVE  /\ \A does \in {site.a, site.b, "ok"} : Final(HandlerAnswers(m, does))
           /\ \A status : status \notin {100, 303} => Final(Plainly(m, status))
           /\ Leading(Plainly(m, 100))
           /\ AnsweredTwice => Leading(Plainly(m, 417))
<1>1. m.of = sent
    BY DEF Msg
<1>2. ASSUME NEW does \in {site.a, site.b, "ok"} PROVE Final(HandlerAnswers(m, does))
  <2>1. PICK a : a = HandlerAnswers(m, does)
      OBVIOUS
  <2>2. a.of = sent
      BY <1>1, <2>1 DEF HandlerAnswers
  <2>3. a.status # 100 /\ (a.status = 303 => does \in {"303", "303 https"})
    <3>1. does = "ok" => a.status = 200
        BY <2>1 DEF HandlerAnswers
    <3>2. does = "none" => a.status = 404
        BY <2>1 DEF HandlerAnswers
    <3>3. does = "throws" => a.status \in {200, 500}
        BY <2>1 DEF HandlerAnswers
    <3>4. does \in {"303", "303 https"} => a.status = 303
        BY <2>1 DEF HandlerAnswers
    <3>5. does \notin {"ok", "none", "throws", "303", "303 https"} => a.status = 307
        BY <2>1 DEF HandlerAnswers
    <3>6. does \notin {"303", "303 https"} => a.status \in {200, 404, 500, 307}
        BY <3>1, <3>2, <3>3, <3>5
    <3>7. does \in {"303", "303 https"} => a.status \in {303}
        BY <3>4
    <3>8. a.status \in {200, 404, 500, 307} => a.status # 100 /\ a.status # 303
        OBVIOUS
    <3>9. a.status \in {303} => a.status # 100
        OBVIOUS
    <3>10. CASE does \in {"303", "303 https"}
        BY <3>7, <3>9, <3>10
    <3>11. CASE does \notin {"303", "303 https"}
        BY <3>6, <3>8, <3>11
    <3> QED BY <3>10, <3>11
  <2>4. ASSUME a.status = 303 PROVE a.to = "https" \/ site.a = "303"
    <3>1. does \in {"303", "303 https"}
        BY <2>3, <2>4
    <3>2. does = "303 https" => a.to = "https"
        BY <2>1 DEF HandlerAnswers
    <3>3. does = "303" => does = site.a
        BY DEF Settled
    <3> QED BY <3>1, <3>2, <3>3
  <2> QED BY <2>4, <2>1, <2>2, <2>3 DEF Final
<1>3. \A status : status \notin {100, 303} => Final(Plainly(m, status))
    BY <1>1 DEF Final, Plainly
<1>4. Leading(Plainly(m, 100)) /\ (AnsweredTwice => Leading(Plainly(m, 417)))
    BY <1>1 DEF Leading, Plainly
<1> QED
    BY <1>2, <1>3, <1>4

\* Server::routing(), branch by branch.
LEMMA RoutingServes ==
    ASSUME NEW r, Handles(r), NEW m, m = Msg(r, sent)
    PROVE  Routes(Routed(m), r)
<1>1. m.request = r
    BY DEF Msg
<1>2. PICK does \in {site.a, site.b} : does = IF r.path = "a" THEN site.a ELSE site.b
    OBVIOUS
<1>3. PICK reading : reading = expect_content(r.method)
    OBVIOUS
<1>4. PICK consumer : consumer = IF reading /\ r.path = "a" THEN site.reader ELSE "none"
    OBVIOUS
<1>5. PICK got : got = IF reading /\ ReadsBody(m) THEN Carries(r) ELSE "none"
    OBVIOUS
<1>6. Called(m, got) \in Seq(GoodCalls)
    BY <1>3, <1>5, CalledIsGood
<1>7. <<>> \in Seq(GoodCalls)
    BY EmptySeq
<1>8. /\ Final(HandlerAnswers(m, does)) /\ Final(HandlerAnswers(m, "ok"))
      /\ Final(Plainly(m, 200)) /\ Final(Plainly(m, 400))
    BY <1>2, AnswersAreFinal DEF Handles
<1>9. ASSUME Gives(r)
      PROVE  reading /\ ReadsBody(m) /\ ~site.pre /\ consumer # "ignores" /\ r.method \notin {"GET", "HEAD"}
  <2>1. Unhindered(r, m)
      BY <1>9, BodiesAreRead
  <2> QED BY <1>3, <1>4, <2>1 DEF Unhindered, expect_content
<1>10. PICK d : d = Routed(m)
    OBVIOUS
<1>11. \A reply, read, calls : d = [reply |-> reply, read |-> read, calls |-> calls]
           => d.reply = reply /\ d.read = read /\ d.calls = calls
    OBVIOUS
<1>12. CASE site.pre \/ (site.file /\ r.method \in {"GET", "HEAD"})
  <2>1. d = [reply |-> Plainly(m, 200), read |-> FALSE, calls |-> <<>>]
      BY <1>1, <1>10, <1>12 DEF Routed
  <2>2. ~Gives(r)
      BY <1>9, <1>12
  <2> QED BY <1>7, <1>8, <1>10, <2>1, <2>2 DEF Routes, Gives
<1>13. CASE /\ ~(site.pre \/ (site.file /\ r.method \in {"GET", "HEAD"}))
            /\ consumer = "ignores"
  <2>1. d = [reply |-> HandlerAnswers(m, "ok"), read |-> FALSE, calls |-> Called(m, "none")]
      BY <1>1, <1>3, <1>4, <1>10, <1>13 DEF Routed
  <2>2. ~Gives(r)
      BY <1>9, <1>13
  <2>3. got = "none"
      BY <1>5, <2>2 DEF Gives
  <2> QED BY <1>6, <1>8, <1>10, <2>1, <2>2, <2>3 DEF Routes, Gives
<1>14. CASE /\ ~(site.pre \/ (site.file /\ r.method \in {"GET", "HEAD"}))
            /\ consumer # "ignores" /\ consumer = "reads"
  <2>1. d = [reply |-> HandlerAnswers(m, "ok"), read |-> ReadsBody(m), calls |-> Called(m, got)]
      BY <1>1, <1>3, <1>4, <1>5, <1>10, <1>14 DEF Routed
  <2> QED BY <1>6, <1>8, <1>9, <1>10, <2>1 DEF Routes, Gives
<1>15. CASE /\ ~(site.pre \/ (site.file /\ r.method \in {"GET", "HEAD"}))
            /\ consumer # "ignores" /\ consumer # "reads"
            /\ reading /\ "multipart" \in r.headers /\ ~ReadsBody(m)
  <2>1. d = [reply |-> Plainly(m, 400), read |-> FALSE, calls |-> <<>>]
      BY <1>1, <1>3, <1>4, <1>10, <1>15 DEF Routed
  <2>2. ~Gives(r)
      BY <1>9, <1>15
  <2> QED BY <1>7, <1>8, <1>10, <2>1, <2>2 DEF Routes, Gives
<1>16. CASE /\ ~(site.pre \/ (site.file /\ r.method \in {"GET", "HEAD"}))
            /\ consumer # "ignores" /\ consumer # "reads"
            /\ ~(reading /\ "multipart" \in r.headers /\ ~ReadsBody(m))
  <2>1. d = [reply |-> HandlerAnswers(m, does), read |-> reading /\ ReadsBody(m),
             calls |-> IF does = "none" THEN <<>> ELSE Called(m, got)]
      BY <1>1, <1>2, <1>3, <1>4, <1>5, <1>10, <1>16 DEF Routed
  <2>2. (IF does = "none" THEN <<>> ELSE Called(m, got)) \in Seq(GoodCalls)
      BY <1>6, <1>7
  <2>3. d.reply = HandlerAnswers(m, does) /\ d.read = (reading /\ ReadsBody(m)) /\ d.calls \in Seq(GoodCalls)
      BY <2>1, <2>2
  <2>4. Gives(r) => d.read
      BY <1>9, <2>3
  <2>5. Final(d.reply)
      BY <1>8, <2>3
  <2> QED BY <1>10, <2>3, <2>4, <2>5 DEF Routes, Gives
<1> QED
    BY <1>12, <1>13, <1>14, <1>15, <1>16

\* process_request(), branch by branch.
LEMMA ProcessingServes ==
    ASSUME NEW r, Handles(r), NEW m, m = Msg(r, sent)
    PROVE  Serves(process_request(m), r)
<1>1. m.request = r
    BY DEF Msg
<1>2. Routes(Routed(m), r)
    BY RoutingServes
<1>3. Final(Plainly(m, 416)) /\ Final(Plainly(m, 403))
    BY AnswersAreFinal DEF Handles
<1>4. \A a : Final(a) => Answers(<<a>>)
    BY DEF Answers
<1>5. \A c, a : Leading(c) /\ Final(a) => Answers(<<c, a>>)
    BY DEF Answers
<1>6. ASSUME Gives(r) PROVE "bad range" \notin r.headers /\ ~("expect" \in r.headers /\ site.expect = 403)
  <2>1. Unhindered(r, m)
      BY <1>6, BodiesAreRead
  <2> QED BY <2>1 DEF Unhindered
<1>7. ASSUME NEW status, Final(Plainly(m, status)), ~Gives(r) PROVE Serves(Refused(m, status), r)
  <2>1. PICK d : d = Refused(m, status)
      OBVIOUS
  <2>2. d.answers = <<Plainly(m, status)>> /\ d.rest.calls = <<>>
      BY <2>1 DEF Refused
  <2>3. <<>> \in Seq(GoodCalls)
      BY EmptySeq
  <2>4. Answers(d.answers) /\ d.rest.calls \in Seq(GoodCalls)
      BY <1>4, <1>7, <2>2, <2>3
  <2> QED BY <1>7, <2>1, <2>4 DEF Serves, Gives
<1>8. PICK routed : routed = Routed(m)
    OBVIOUS
<1>9. Final(routed.reply) /\ routed.calls \in Seq(GoodCalls) /\ (Gives(r) => routed.read)
    BY <1>2, <1>8 DEF Routes, Gives
<1>10. Serves(Served(m), r)
  <2>1. PICK d : d = Served(m)
      OBVIOUS
  <2>2. d.answers = <<routed.reply>> /\ d.rest = routed
      BY <1>8, <2>1 DEF Served
  <2>3. Answers(d.answers)
      BY <1>4, <1>9, <2>2
  <2> QED BY <1>9, <2>1, <2>2, <2>3 DEF Serves, Gives
<1>11. ASSUME NEW status, Leading(Plainly(m, status)) PROVE Serves(Continued(m, status), r)
  <2>1. PICK d : d = Continued(m, status)
      OBVIOUS
  <2>2. d.answers = <<Plainly(m, status), routed.reply>> /\ d.rest = routed
      BY <1>8, <2>1 DEF Continued
  <2>3. Answers(d.answers)
      BY <1>5, <1>9, <1>11, <2>2
  <2> QED BY <1>9, <2>1, <2>2, <2>3 DEF Serves, Gives
<1>12. CASE "bad range" \in r.headers
  <2>1. process_request(m) = Refused(m, 416)
      BY <1>1, <1>12 DEF process_request
  <2>2. ~Gives(r)
      BY <1>6, <1>12
  <2> QED BY <1>3, <1>7, <2>1, <2>2
<1>13. CASE "bad range" \notin r.headers /\ "expect" \notin r.headers
  <2>1. process_request(m) = Served(m)
      BY <1>1, <1>13 DEF process_request
  <2> QED BY <1>10, <2>1
<1>14. CASE "bad range" \notin r.headers /\ "expect" \in r.headers /\ site.expect = 403
  <2>1. process_request(m) = Refused(m, 403)
    <3>1. PICK one : one = Refused(m, 403)
        OBVIOUS
    <3>2. PICK two : two = Continued(m, site.expect)
        OBVIOUS
    <3>3. "bad range" \notin r.headers /\ "expect" \in r.headers
        BY <1>14
    <3>4. process_request(m) = IF site.expect = 403 THEN one ELSE two
        BY <1>1, <3>1, <3>2, <3>3, ZenonT(40) DEF process_request
    <3> QED BY <1>14, <3>1, <3>4
  <2>2. ~Gives(r)
      BY <1>6, <1>14
  <2> QED BY <1>3, <1>7, <2>1, <2>2
<1>15. CASE "bad range" \notin r.headers /\ "expect" \in r.headers /\ site.expect # 403
  <2>1. process_request(m) = Continued(m, site.expect)
      BY <1>1, <1>15 DEF process_request
  <2>2. site.expect \in {100, 417} /\ "expect" \in call.headers
      BY <1>15, ZenonT(40) DEF Handles, Settled, Kept, Emptied
  <2>3. site.expect = 417 => AnsweredTwice
      BY <2>2 DEF AnsweredTwice
  <2>4. Leading(Plainly(m, site.expect))
      BY <2>2, <2>3, AnswersAreFinal DEF Handles
  <2> QED BY <1>11, <2>1, <2>4
<1> QED
    BY <1>12, <1>13, <1>14, <1>15

-----------------------------------------------------------------------------
\* What counts as an answer depends on the call and the request only.
LEMMA SameAnswers ==
    ASSUME call' = call, site' = site, sent' = sent
    PROVE  \A p : Answers(p) => Answers(p)'
    BY DEF Answers, Final, Leading, AnsweredTwice

\* A request on its way is one message, and its body if it has one.
LEMMA MessageIs ==
    /\ Message # <<>> /\ Head(Message) = Msg(request, sent) /\ Head(Message) # Bytes
    /\ ~Gives(request) => Tail(Message) = <<>>
    /\ Gives(request) => Len(Message) > 1 /\ Message[2] = Bytes /\ Tail(Tail(Message)) = <<>>
<1>1. PICK m : m = Msg(request, sent)
    OBVIOUS
<1>2. m # Bytes
    BY <1>1 DEF Msg, Bytes
<1>3. ASSUME ~Gives(request) PROVE Message = <<m>>
  <2>1. Message = <<m>> \o <<>>
      BY <1>1, <1>3 DEF Message, Gives
  <2>2. <<m>> \o <<>> = <<m>>
      OBVIOUS
  <2> QED BY <2>1, <2>2
<1>4. ASSUME Gives(request) PROVE Message = <<m, Bytes>>
  <2>1. Message = <<m>> \o <<Bytes>>
      BY <1>1, <1>4 DEF Message, Gives
  <2>2. PICK b : b = Bytes
      OBVIOUS
  <2>3. <<m>> \o <<b>> = <<m, b>>
    <3>1. PICK p : p = <<m>> \o <<b>>
        OBVIOUS
    <3>2. PICK q : q = <<m, b>>
        OBVIOUS
    <3>3. PICK S : S = {m, b}
        OBVIOUS
    <3>4. p \in Seq(S) /\ Len(p) = 2 /\ p[1] = m /\ p[2] = b
        BY <3>1, <3>3
    <3>5. q \in Seq(S) /\ Len(q) = 2 /\ q[1] = m /\ q[2] = b
        BY <3>2, <3>3
    <3>6. Len(p) = Len(q) /\ \A i \in 1..Len(p) : p[i] = q[i]
        BY <3>4, <3>5
    <3>7. p = q
        BY <3>4, <3>5, <3>6, SeqEqual
    <3> QED BY <3>1, <3>2, <3>7
  <2> QED BY <2>1, <2>2, <2>3
<1>5. PICK q : q = Message
    OBVIOUS
<1>6. CASE q = <<m>>
  <2>1. q # <<>> /\ Head(q) = m /\ Tail(q) = <<>>
      BY <1>6
  <2>2. ~Gives(request)
    <3>1. <<m>> # <<m, Bytes>>
        OBVIOUS
    <3> QED BY <1>4, <1>5, <1>6, <3>1
  <2> QED BY <1>1, <1>2, <1>5, <2>1, <2>2
<1>7. CASE q = <<m, Bytes>>
  <2>1. PICK b : b = Bytes
      OBVIOUS
  <2>2. q = <<m, b>>
      BY <1>7, <2>1
  <2>3. q # <<>> /\ Head(q) = m /\ Len(q) > 1 /\ q[2] = b /\ Tail(Tail(q)) = <<>>
      BY <2>2
  <2>4. Gives(request)
    <3>1. <<m>> # <<m, Bytes>>
        OBVIOUS
    <3> QED BY <1>3, <1>5, <1>7, <3>1
  <2> QED BY <1>1, <1>2, <1>5, <2>1, <2>3, <2>4
<1> QED
    BY <1>3, <1>4, <1>5, <1>6, <1>7

\* Whatever a server does, the client has as many redirections left.
LEMMA ServersKeepCounting ==
    ASSUME Counting, request' = request, sent' = sent, outcome' = outcome
    PROVE  Counting'
    BY DEF Counting

\* A server reads what the client has written, and nothing else.
LEMMA OnlyWritten ==
    ASSUME TakingTurns, NEW h \in Hosts, conn[h] # <<>>
    PROVE  Written /\ h = request.host /\ conn[h] = Message
<1>1. conn # NothingSent
    BY DEF NothingSent
<1>2. Written
    BY <1>1 DEF TakingTurns, Ready, Answered, Over
<1>3. conn = At(request.host, Message)
    BY <1>2 DEF Written
<1>4. PICK q : q = Message
    OBVIOUS
<1>5. conn[h] = IF h = request.host THEN q ELSE <<>>
    BY <1>3, <1>4 DEF At
<1>6. h = request.host
    BY <1>5
<1> QED
    BY <1>2, <1>4, <1>5, <1>6

\* One or two answers, behind an empty sequence.
LEMMA AnswersJoin == \A p : Answers(p) => <<>> \o p = p /\ p # <<>>
<1>1. \A a : <<>> \o <<a>> = <<a>> /\ <<a>> # <<>>
    OBVIOUS
<1>2. \A c, a : <<>> \o <<c, a>> = <<c, a>> /\ <<c, a>> # <<>>
    OBVIOUS
<1> QED
    BY <1>1, <1>2 DEF Answers

\* A server takes the request, its body included, and answers.
LEMMA ServingKeepsInv ==
    ASSUME RequestsInv, NEW h \in Hosts, ServeRequest(h) PROVE RequestsInv'
<1>1. /\ Settled /\ Counting /\ (~LeftUnread => TakingTurns) /\ conn[h] # <<>>
      /\ call' = call /\ site' = site /\ follow' = follow
      /\ request' = request /\ sent' = sent /\ outcome' = outcome
    BY DEF RequestsInv, ServeRequest
<1>2. Settled' /\ LeftUnread' = LeftUnread /\ GoodCalls' = GoodCalls
    BY <1>1, SameCall
<1>3. Counting'
    BY <1>1, ServersKeepCounting
<1>4. ASSUME ~LeftUnread PROVE TakingTurns'
  <2>1. Written /\ h = request.host /\ conn[h] = Message /\ TakingTurns
      BY <1>1, <1>4, OnlyWritten
  <2>2. PICK m : m = Msg(request, sent)
      OBVIOUS
  <2>3. Head(conn[h]) = m
      BY <2>1, <2>2, MessageIs
  <2>4. PICK done : done = process_request(m)
      OBVIOUS
  <2>5. Handles(request)
      BY <1>1, <1>4, <2>1 DEF Handles, Counting, TakingTurns
  <2>6. Serves(done, request)
      BY <2>2, <2>4, <2>5, ProcessingServes
  <2>7. PICK body \in BOOLEAN : body = (Len(conn[h]) > 1 /\ conn[h][2] = Bytes)
      OBVIOUS
  <2>8. /\ conn' = [conn EXCEPT ![h] = IF body /\ done.rest.read THEN Tail(Tail(@)) ELSE Tail(@)]
        /\ replies' = [replies EXCEPT ![h] = @ \o done.answers]
        /\ handled' = handled \o done.rest.calls
      BY <2>3, <2>4, <2>7 DEF ServeRequest
  <2>9. (IF body /\ done.rest.read THEN Tail(Tail(conn[h])) ELSE Tail(conn[h])) = <<>>
    <3>1. CASE Gives(request)
      <4>1. body /\ done.rest.read
          BY <2>1, <2>6, <2>7, <3>1, MessageIs DEF Serves, Gives
      <4>2. Tail(Tail(conn[h])) = <<>>
          BY <2>1, <3>1, MessageIs
      <4> QED BY <4>1, <4>2
    <3>2. CASE ~Gives(request)
      <4>1. Tail(Message) = <<>>
          BY <3>2, MessageIs
      <4>2. ~body
        <5>1. Message = <<Msg(request, sent)>> \o <<>>
            BY <3>2 DEF Message, Gives
        <5>2. \A x : Len(<<x>> \o <<>>) = 1
            OBVIOUS
        <5>3. Len(conn[h]) = 1
            BY <2>1, <5>1, <5>2
        <5>4. ~(Len(conn[h]) > 1)
            BY <5>3
        <5> QED BY <2>7, <5>4
      <4> QED BY <2>1, <4>1, <4>2
    <3> QED BY <3>1, <3>2
  <2>10. conn = At(h, Message) /\ replies = NothingSent /\ outcome.kind = "wait"
      BY <2>1 DEF Written
  <2>11. conn' = NothingSent
    <3>1. PICK q : q = Message
        OBVIOUS
    <3>2. conn = At(h, q)
        BY <2>10, <3>1
    <3>3. PICK rest : rest = IF body /\ done.rest.read THEN Tail(Tail(conn[h])) ELSE Tail(conn[h])
        OBVIOUS
    <3>4. conn' = [conn EXCEPT ![h] = rest]
        BY <2>8, <3>3
    <3>5. rest = <<>>
        BY <2>9, <3>3
    <3> QED BY <3>2, <3>4, <3>5 DEF At, NothingSent
  <2>12. PICK p : p = done.answers
      OBVIOUS
  <2>13. Answers(p) /\ Answers(p)' /\ <<>> \o p = p
      BY <1>1, <2>6, <2>12, SameAnswers, AnswersJoin DEF Serves
  <2>14. replies' = At(h, p)
      BY <2>8, <2>10, <2>12, <2>13 DEF At, NothingSent
  <2>15. replies' = At(request.host, p)'
      BY <1>1, <2>1, <2>14 DEF At
  <2>16. Answered'
    <3>1. outcome'.kind = "wait"
        BY <1>1, <2>10
    <3> QED BY <2>11, <2>13, <2>15, <3>1 DEF Answered, NothingSent
  <2>17. handled' \in Seq(GoodCalls)
    <3>1. PICK G : G = GoodCalls
        OBVIOUS
    <3>2. handled \in Seq(G) /\ done.rest.calls \in Seq(G)
        BY <2>1, <2>6, <3>1 DEF TakingTurns, Serves
    <3>3. handled \o done.rest.calls \in Seq(G)
        BY <3>2
    <3> QED BY <2>8, <3>1, <3>3
  <2>18. Kept(request)' \/ Emptied(request)'
      BY <1>1, <2>1 DEF TakingTurns, Kept, Emptied
  <2> QED BY <1>2, <2>16, <2>17, <2>18 DEF TakingTurns
<1> QED
    BY <1>2, <1>3, <1>4 DEF RequestsInv

\* No server takes a body for a request.
LEMMA ServingBytesKeepsInv ==
    ASSUME RequestsInv, NEW h \in Hosts, ServeBytes(h) PROVE RequestsInv'
<1>1. /\ Settled /\ Counting /\ (~LeftUnread => TakingTurns) /\ conn[h] # <<>> /\ Head(conn[h]) = Bytes
      /\ call' = call /\ site' = site /\ follow' = follow
      /\ request' = request /\ sent' = sent /\ outcome' = outcome
    BY DEF RequestsInv, ServeBytes
<1>2. Settled' /\ LeftUnread' = LeftUnread
    BY <1>1, SameCall
<1>3. Counting'
    BY <1>1, ServersKeepCounting
<1>4. LeftUnread
    BY <1>1, OnlyWritten, MessageIs
<1> QED
    BY <1>2, <1>3, <1>4 DEF RequestsInv

-----------------------------------------------------------------------------
\* What detail::redirect() makes of a request.
LEMMA RedirectMakes ==
    ASSUME NEW r, r \in Requests, r.left # 0, NEW status, NEW h \in Hosts, NEW q, q = redirect(r, status, h)
    PROVE  /\ q \in Requests /\ q.left = r.left - 1
           /\ Kept(r) /\ ~(status = 303 /\ r.method \notin {"GET", "HEAD"}) => Kept(q)
           /\ Emptied(r) => Emptied(q)
           /\ Kept(r) /\ (status = 303 => call.provider = "none") => Kept(q) \/ Emptied(q)
<1>1. PICK next : next = [r EXCEPT !.left = @ - 1, !.host = h, !.path = "b"]
    OBVIOUS
<1>2. /\ next \in Requests /\ next.left = r.left - 1
      /\ next.method = r.method /\ next.body = r.body
      /\ next.provider = r.provider /\ next.headers = r.headers
  <2>1. PICK n \in Nat : n = r.left
      BY DEF Requests
  <2>2. PICK k \in Nat : k = n - 1
      BY <2>1
  <2>3. next = [r EXCEPT !.left = k, !.host = h, !.path = "b"]
      BY <1>1, <2>1, <2>2
  <2>4. next \in Requests
      BY <2>3 DEF Requests, Paths
  <2>5. next.left = k
      BY <2>3 DEF Requests
  <2>6. next.method = r.method /\ next.body = r.body /\ next.provider = r.provider /\ next.headers = r.headers
      BY <2>3 DEF Requests
  <2> QED BY <2>1, <2>2, <2>4, <2>5, <2>6
<1>3. CASE status = 303 /\ r.method \notin {"GET", "HEAD"}
  <2>1. q = [next EXCEPT !.method = "GET", !.body = "", !.headers = {}]
      BY <1>1, <1>3 DEF redirect
  <2>2. /\ q \in Requests /\ q.left = next.left
        /\ q.method = "GET" /\ q.body = "" /\ q.provider = next.provider /\ q.headers = {}
    <3>1. q \in Requests
        BY <1>2, <2>1 DEF Requests, Methods
    <3>2. q.left = next.left /\ q.provider = next.provider
        BY <1>2, <2>1 DEF Requests
    <3>3. q.method = "GET" /\ q.body = "" /\ q.headers = {}
        BY <1>2, <2>1 DEF Requests
    <3> QED BY <3>1, <3>2, <3>3
  <2>3. r.provider = "none" => Emptied(q)
      BY <1>2, <2>2 DEF Emptied
  <2>4. Kept(r) /\ call.provider = "none" => r.provider = "none"
      BY DEF Kept
  <2>5. Emptied(r) => r.provider = "none"
      BY DEF Emptied
  <2> QED BY <1>2, <1>3, <2>2, <2>3, <2>4, <2>5, ZenonT(40)
<1>4. CASE ~(status = 303 /\ r.method \notin {"GET", "HEAD"})
  <2>1. q = next
      BY <1>1, <1>4 DEF redirect
  <2> QED BY <1>2, <2>1 DEF Kept, Emptied
<1> QED
    BY <1>3, <1>4

\* What becomes of an answer that is not passed over.
Ends(reply) ==
    /\ ~(IsRedirect(reply.status) /\ follow)
    /\ outcome' = [kind |-> "answer", of |-> reply.of, status |-> reply.status] /\ request' = request
Exceeds == request.left = 0 /\ outcome' = [kind |-> "ExceedRedirectCount"] /\ request' = request
Unknowns == outcome' = [kind |-> "Unknown"] /\ request' = request
Follows(reply) ==
    /\ follow /\ request.left # 0 /\ reply.to # "https" /\ outcome' = [kind |-> ""]
    /\ \E h \in Hosts : request' = redirect(request, reply.status, h)

\* handle_request() after an answer: the five ways on.
LEMMA ReadingDoes ==
    ASSUME ReadReply, request.host \in Hosts, NEW reply, reply = Head(replies[request.host])
    PROVE  \/ reply.status = 100 /\ request' = request /\ outcome' = outcome
           \/ reply.status # 100 /\ (Ends(reply) \/ Exceeds \/ Unknowns \/ Follows(reply))
<1>1. CASE reply.status = 100
    BY <1>1 DEF ReadReply
<1>2. CASE reply.status # 100 /\ ~(IsRedirect(reply.status) /\ follow)
    BY <1>2 DEF ReadReply, Ends
<1>3. CASE reply.status # 100 /\ IsRedirect(reply.status) /\ follow
  <2>1. CASE request.left = 0
      BY <1>3, <2>1 DEF ReadReply, Exceeds
  <2>2. CASE request.left # 0 /\ reply.to = "https"
      BY <1>3, <2>2 DEF ReadReply, Unknowns
  <2>3. CASE request.left # 0 /\ reply.to # "https"
    <3>1. PICK h : h = IF reply.to = "there" THEN "there" ELSE request.host
        OBVIOUS
    <3>2. h \in Hosts
        BY <3>1 DEF Hosts
    <3>3. outcome' = [kind |-> ""] /\ request' = redirect(request, reply.status, h)
        BY <1>3, <2>3, <3>1 DEF ReadReply
    <3>4. Follows(reply)
        BY <1>3, <2>3, <3>2, <3>3 DEF Follows
    <3> QED BY <1>3, <3>4
  <2> QED BY <2>1, <2>2, <2>3
<1> QED
    BY <1>1, <1>2, <1>3

\* Every redirection costs one of those that are left.
LEMMA ReadingKeepsCounting ==
    ASSUME Counting, ReadReply PROVE Counting'
<1>1. /\ request \in Requests /\ sent \in Nat /\ sent' = sent /\ outcome.kind = "wait"
      /\ sent + request.left = RedirectMax + 1 /\ request.host \in Hosts
    BY DEF Counting, ReadReply, Requests
<1>2. PICK reply : reply = Head(replies[request.host])
    OBVIOUS
<1>3. CASE request' = request /\ outcome' = outcome
    BY <1>1, <1>3 DEF Counting
<1>4. CASE Ends(reply)
  <2>1. outcome'.kind = "answer" /\ request' = request
      BY <1>4 DEF Ends
  <2> QED BY <1>1, <2>1 DEF Counting
<1>5. CASE Exceeds
  <2>1. outcome'.kind = "ExceedRedirectCount" /\ request' = request /\ request.left = 0
      BY <1>5 DEF Exceeds
  <2> QED BY <1>1, <2>1 DEF Counting
<1>6. CASE Unknowns
  <2>1. outcome'.kind = "Unknown" /\ request' = request
      BY <1>6 DEF Unknowns
  <2> QED BY <1>1, <2>1 DEF Counting
<1>7. CASE Follows(reply)
  <2>1. PICK h \in Hosts : request' = redirect(request, reply.status, h)
      BY <1>7 DEF Follows
  <2>2. request.left # 0 /\ outcome'.kind = ""
      BY <1>7 DEF Follows
  <2>3. request' \in Requests /\ request'.left = request.left - 1
      BY <1>1, <2>1, <2>2, RedirectMakes
  <2>4. PICK n \in Nat : n = request.left
      BY <1>1 DEF Requests
  <2>5. sent + (n - 1) = RedirectMax
      BY <1>1, <2>4, RequestsAssumption
  <2>6. sent' + request'.left = RedirectMax
      BY <1>1, <2>3, <2>4, <2>5
  <2> QED BY <1>1, <2>2, <2>3, <2>6 DEF Counting
<1> QED
    BY <1>1, <1>2, <1>3, <1>4, <1>5, <1>6, <1>7, ReadingDoes

\* The client reads the last answer, or one that comes before it.
LEMMA RepliesAre ==
    ASSUME TakingTurns, ReadReply, request.host \in Hosts, NEW reply, reply = Head(replies[request.host])
    PROVE  /\ conn = NothingSent /\ outcome.kind = "wait"
           /\ \/ Final(reply) /\ replies' = NothingSent
              \/ Leading(reply) /\ \E a : Final(a) /\ replies' = At(request.host, <<a>>)
<1>1. /\ outcome.kind = "wait" /\ replies[request.host] # <<>>
      /\ replies' = [replies EXCEPT ![request.host] = Tail(@)]
    BY DEF ReadReply
<1>2. replies # NothingSent
    BY <1>1 DEF NothingSent
<1>3. Answered
    BY <1>1, <1>2 DEF TakingTurns, Ready, Written, Over
<1>4. PICK p : Answers(p) /\ replies = At(request.host, p)
    BY <1>3 DEF Answered
<1>5. PICK h \in Hosts : h = request.host
    OBVIOUS
<1>6. replies[h] = p /\ reply = Head(p) /\ replies' = At(h, Tail(p))
  <2>1. replies = At(h, p) /\ replies' = [replies EXCEPT ![h] = Tail(replies[h])]
      BY <1>1, <1>4, <1>5
  <2>2. replies[h] = p
      BY <2>1 DEF At
  <2>3. PICK rest : rest = Tail(p)
      OBVIOUS
  <2>4. replies' = At(h, rest)
      BY <2>1, <2>2, <2>3 DEF At
  <2> QED BY <1>5, <2>2, <2>3, <2>4
<1>7. conn = NothingSent
    BY <1>3 DEF Answered
<1>8. PICK a : Final(a) /\ (p = <<a>> \/ \E c : Leading(c) /\ p = <<c, a>>)
    BY <1>4 DEF Answers
<1>9. CASE p = <<a>>
  <2>1. Head(p) = a /\ Tail(p) = <<>>
      BY <1>9
  <2>2. replies' = NothingSent
      BY <1>6, <2>1, NothingIs
  <2> QED BY <1>1, <1>6, <1>7, <1>8, <2>1, <2>2
<1>10. CASE \E c : Leading(c) /\ p = <<c, a>>
  <2>1. PICK c : Leading(c) /\ p = <<c, a>>
      BY <1>10
  <2>2. Head(p) = c /\ Tail(p) = <<a>>
      BY <2>1
  <2>3. replies' = At(request.host, <<a>>)
      BY <1>5, <1>6, <2>2
  <2> QED BY <1>1, <1>6, <1>7, <1>8, <2>1, <2>2, <2>3
<1> QED
    BY <1>8, <1>9, <1>10

\* The client reads an answer, and ends or is ready to write again.
LEMMA ReadingKeepsInv ==
    ASSUME RequestsInv, ReadReply PROVE RequestsInv'
<1>1. /\ Settled /\ Counting /\ (~LeftUnread => TakingTurns)
      /\ call' = call /\ site' = site /\ follow' = follow
      /\ sent' = sent /\ conn' = conn /\ handled' = handled
    BY DEF RequestsInv, ReadReply
<1>2. Settled' /\ LeftUnread' = LeftUnread /\ GoodCalls' = GoodCalls /\ AnsweredTwice' = AnsweredTwice
    BY <1>1, SameCall
<1>3. Counting'
    BY <1>1, ReadingKeepsCounting
<1>4. request.host \in Hosts /\ request \in Requests
    BY <1>1 DEF Counting, Requests
<1>5. ASSUME ~LeftUnread PROVE TakingTurns'
  <2>1. TakingTurns
      BY <1>1, <1>5
  <2>2. PICK reply : reply = Head(replies[request.host])
      OBVIOUS
  <2>3. /\ conn = NothingSent /\ outcome.kind = "wait"
        /\ \/ Final(reply) /\ replies' = NothingSent
           \/ Leading(reply) /\ \E a : Final(a) /\ replies' = At(request.host, <<a>>)
      BY <1>4, <2>1, <2>2, RepliesAre
  <2>4. handled' \in Seq(GoodCalls) /\ (Kept(request) \/ Emptied(request))
      BY <1>1, <2>1 DEF TakingTurns
  <2>5. \/ reply.status = 100 /\ request' = request /\ outcome' = outcome
        \/ reply.status # 100 /\ (Ends(reply) \/ Exceeds \/ Unknowns \/ Follows(reply))
      BY <1>4, <2>2, ReadingDoes
  <2>6. request' = request => Kept(request)' \/ Emptied(request)'
      BY <1>1, <2>4 DEF Kept, Emptied
  <2>7. CASE reply.status = 100
    <3>1. request' = request /\ outcome' = outcome
        BY <2>5, <2>7
    <3>2. PICK a : Final(a) /\ replies' = At(request.host, <<a>>)
        BY <2>3, <2>7 DEF Final
    <3>3. Answers(<<a>>)
        BY <3>2 DEF Answers
    <3>4. PICK p : p = <<a>>
        OBVIOUS
    <3>5. Answers(p)'
        BY <1>1, <3>3, <3>4, SameAnswers
    <3>6. replies' = At(request.host, p)'
        BY <3>1, <3>2, <3>4 DEF At
    <3>7. outcome'.kind = "wait" /\ conn' = NothingSent
        BY <1>1, <2>3, <3>1
    <3>8. Answered'
        BY <3>5, <3>6, <3>7 DEF Answered, NothingSent
    <3> QED BY <1>2, <2>4, <2>6, <3>1, <3>8 DEF TakingTurns
  <2>8. CASE reply.status # 100 /\ Leading(reply)
    <3>1. reply.of = sent /\ reply.status = 417 /\ AnsweredTwice
        BY <2>8 DEF Leading
    <3>2. ~IsRedirect(reply.status)
        BY <3>1 DEF IsRedirect
    <3>3. Ends(reply)
      <4>1. ReadReply /\ reply = Head(replies[request.host])
          BY <2>2
      <4>2. outcome' = [kind |-> "answer", of |-> reply.of, status |-> reply.status] /\ request' = request
          BY <2>8, <3>2, <4>1 DEF ReadReply
      <4> QED BY <3>2, <4>2 DEF Ends
    <3>4. outcome'.kind = "answer" /\ outcome'.of = sent /\ request' = request
        BY <3>1, <3>3 DEF Ends
    <3>5. Over'
        BY <1>1, <1>2, <2>3, <3>1, <3>4 DEF Over, NothingSent
    <3> QED BY <1>2, <2>4, <2>6, <3>4, <3>5 DEF TakingTurns
  <2>9. CASE reply.status # 100 /\ Final(reply) /\ replies' = NothingSent
    <3>1. /\ conn' = NothingSent /\ reply.of = sent
          /\ (reply.status = 303 => reply.to = "https" \/ site.a = "303")
        BY <1>1, <2>3, <2>9 DEF Final
    <3>2. CASE Ends(reply)
      <4>1. outcome'.kind = "answer" /\ outcome'.of = sent /\ request' = request
          BY <3>1, <3>2 DEF Ends
      <4>2. Over'
          BY <1>1, <2>9, <3>1, <4>1 DEF Over, NothingSent
      <4> QED BY <1>2, <2>4, <2>6, <4>1, <4>2 DEF TakingTurns
    <3>3. CASE Exceeds \/ Unknowns
      <4>1. outcome'.kind \in {"ExceedRedirectCount", "Unknown"} /\ request' = request
          BY <3>3 DEF Exceeds, Unknowns
      <4>2. Over'
          BY <2>9, <3>1, <4>1 DEF Over, NothingSent
      <4> QED BY <1>2, <2>4, <2>6, <4>1, <4>2 DEF TakingTurns
    <3>4. CASE Follows(reply)
      <4>1. PICK h \in Hosts : request' = redirect(request, reply.status, h)
          BY <3>4 DEF Follows
      <4>2. follow /\ request.left # 0 /\ reply.to # "https" /\ outcome'.kind = ""
          BY <3>4 DEF Follows
      <4>3. reply.status = 303 => call.provider = "none"
          BY <1>5, <3>1, <4>2 DEF LeftUnread
      <4>4. PICK q : q = redirect(request, reply.status, h)
          OBVIOUS
      <4>5. Kept(q) \/ Emptied(q)
        <5>1. PICK r : r = request
            OBVIOUS
        <5>2. PICK status : status = reply.status
            OBVIOUS
        <5>3. r \in Requests /\ r.left # 0 /\ q = redirect(r, status, h) /\ (Kept(r) \/ Emptied(r))
            BY <1>4, <2>4, <4>2, <4>4, <5>1, <5>2
        <5>4. status = 303 => call.provider = "none"
            BY <4>3, <5>2
        <5> QED BY <5>3, <5>4, RedirectMakes
      <4>6. request' = q
          BY <4>1, <4>4
      <4>7. Kept(request)' \/ Emptied(request)'
          BY <1>1, <4>5, <4>6 DEF Kept, Emptied
      <4>8. Ready'
          BY <2>9, <3>1, <4>2 DEF Ready, NothingSent
      <4> QED BY <1>2, <2>4, <4>7, <4>8 DEF TakingTurns
    <3> QED BY <2>5, <2>9, <3>2, <3>3, <3>4
  <2> QED BY <2>3, <2>7, <2>8, <2>9
<1>6. ~LeftUnread' => TakingTurns'
    BY <1>2, <1>5
<1> QED
    BY <1>2, <1>3, <1>6 DEF RequestsInv

\* Every step keeps the invariant.
LEMMA RequestsNextInv == RequestsInv /\ [RequestsNext]_requestVars => RequestsInv'
<1>1. ASSUME RequestsInv, RequestsNext PROVE RequestsInv'
    BY <1>1, WritingKeepsInv, ReadingKeepsInv, ServingKeepsInv, ServingBytesKeepsInv DEF RequestsNext
<1>2. ASSUME RequestsInv, UNCHANGED requestVars PROVE RequestsInv'
  <2>1. /\ call' = call /\ site' = site /\ follow' = follow /\ request' = request /\ sent' = sent
        /\ conn' = conn /\ replies' = replies /\ handled' = handled /\ outcome' = outcome
      BY <1>2 DEF requestVars
  <2>2. Settled /\ Counting /\ (~LeftUnread => TakingTurns)
      BY <1>2 DEF RequestsInv
  <2>3. Settled' /\ LeftUnread' = LeftUnread /\ GoodCalls' = GoodCalls /\ AnsweredTwice' = AnsweredTwice
      BY <2>1, <2>2, SameCall
  <2>4. Counting'
      BY <2>1, <2>2, ServersKeepCounting
  <2>5. ASSUME TakingTurns PROVE TakingTurns'
    <3>1. (Kept(request) \/ Emptied(request))' /\ handled' \in Seq(GoodCalls')
        BY <2>1, <2>3, <2>5 DEF TakingTurns, Kept, Emptied
    <3>2. CASE Ready
        BY <2>1, <3>1, <3>2 DEF TakingTurns, Ready, NothingSent
    <3>3. CASE Written
      <4>1. Message' = Message
          BY <2>1 DEF Message, Msg, Announced, Carries
      <4>2. Written'
          BY <2>1, <3>3, <4>1 DEF Written, NothingSent, At
      <4> QED BY <3>1, <4>2 DEF TakingTurns
    <3>4. CASE Answered
      <4>1. PICK p : Answers(p) /\ replies = At(request.host, p)
          BY <3>4 DEF Answered
      <4>2. Answers(p)' /\ replies' = At(request.host, p)'
          BY <2>1, <4>1, SameAnswers DEF At
      <4>3. Answered'
          BY <2>1, <3>4, <4>2 DEF Answered, NothingSent
      <4> QED BY <3>1, <4>3 DEF TakingTurns
    <3>5. CASE Over
      <4>1. Over'
          BY <2>1, <2>3, <3>5 DEF Over, NothingSent
      <4> QED BY <3>1, <4>1 DEF TakingTurns
    <3> QED BY <2>5, <3>2, <3>3, <3>4, <3>5 DEF TakingTurns
  <2>6. ~LeftUnread' => TakingTurns'
      BY <2>2, <2>3, <2>5
  <2> QED BY <2>3, <2>4, <2>6 DEF RequestsInv
<1> QED
    BY <1>1, <1>2

-----------------------------------------------------------------------------
\* While they take turns, client and server agree.
LEMMA TurnsKeepInStep ==
    ASSUME TakingTurns PROVE InStep
<1>1. ASSUME NEW h \in Hosts, conn[h] # <<>> PROVE Head(conn[h]) # Bytes
    BY <1>1, OnlyWritten, MessageIs
<1>2. ASSUME outcome.kind \notin {"", "wait"}, ~AnsweredTwice
      PROVE  replies = NothingSent /\ conn = NothingSent
    BY <1>2 DEF TakingTurns, Ready, Written, Answered, Over
<1>3. outcome.kind = "answer" => outcome.of = sent
    BY DEF TakingTurns, Ready, Written, Answered, Over
<1> QED
    BY <1>1, <1>2, <1>3 DEF InStep

\* The invariant is strong enough.
LEMMA RequestsInvInStep ==
    ASSUME RequestsInv PROVE RequestsInStep
<1>1. InStep
    BY TurnsKeepInStep DEF RequestsInv, InStep
<1>2. BodiesFollow
  <2>1. ASSUME ~LeftUnread, NEW i \in DOMAIN handled
        PROVE  /\ handled[i].method \in {call.method, "GET"}
               /\ handled[i].method = call.method /\ expect_content(call.method) => handled[i].got = Carries(call)
    <3>1. handled \in Seq(GoodCalls)
        BY <2>1 DEF RequestsInv, TakingTurns
    <3>2. PICK G : G = GoodCalls
        OBVIOUS
    <3>3. handled[i] \in G
        BY <2>1, <3>1, <3>2
    <3> QED BY <3>2, <3>3 DEF GoodCalls
  <2> QED BY <2>1 DEF BodiesFollow
<1>3. RedirectsEnd
  <2>1. Counting
      BY DEF RequestsInv
  <2>2. PICK n \in Nat : n = request.left
      BY <2>1 DEF Counting, Requests
  <2>3. sent \in Nat /\ (sent + n = RedirectMax \/ sent + n = RedirectMax + 1)
      BY <2>1, <2>2 DEF Counting
  <2>4. sent <= RedirectMax + 1
      BY <2>3, RequestsAssumption
  <2>5. ASSUME outcome.kind = "ExceedRedirectCount" PROVE sent = RedirectMax + 1
    <3>1. n = 0 /\ sent + n = RedirectMax + 1
        BY <2>1, <2>2, <2>5 DEF Counting
    <3> QED BY <2>3, <3>1, RequestsAssumption
  <2> QED BY <2>4, <2>5 DEF RedirectsEnd
<1> QED
    BY <1>1, <1>2, <1>3 DEF RequestsInStep

\* Client and server agree on where each request ends, its body goes with every
\* redirection that keeps the method, and redirections end after as many as the
\* client allows: for any number that it allows and any handlers, whatever the
\* order in which the servers and the client get to act (handle_request,
\* redirect and read_response_line of the client; process_request, routing and
\* read_content of the server).
THEOREM RequestsKeepInStep == RequestsSpec => []RequestsInStep
<1>1. RequestsInit => RequestsInv
    BY RequestsInitInv
<1>2. RequestsInv /\ [RequestsNext]_requestVars => RequestsInv'
    BY RequestsNextInv
<1>3. RequestsInv => RequestsInStep
    BY RequestsInvInStep
<1> QED
    BY <1>1, <1>2, <1>3, PTL DEF RequestsSpec

-----------------------------------------------------------------------------
(***************************************************************************)
(* The body of a message, for contents, writes and a limit of any size.    *)
(*                                                                         *)
(* All that is ever sent of it is one sequence of tokens; the reader has   *)
(* taken the beginning, what is on its way comes next, and a broken        *)
(* connection has lost the rest.  In a body with chunks the reader is at   *)
(* one of the places where a chunk begins, inside of a chunk, or behind    *)
(* one, and each of these places is as many bytes into the content as the  *)
(* receiver was given.                                                     *)
(***************************************************************************)

Tokens == {"byte", "size", "cr", "lf", "next"} \X Nat

\* All that was sent are the tokens T[1], T[2] and so on up to T[end]; the
\* reader has taken the first at of them, and what is on its way follows.
Stream(T, at, end) ==
    /\ T \in [Nat -> Tokens] /\ at \in Nat /\ end \in Nat
    /\ inFlight \in Seq(Tokens)
    /\ at + Len(inFlight) <= end
    /\ broken \/ at + Len(inFlight) = end
    /\ \A i \in 1 .. Len(inFlight) : inFlight[i] = T[at + i]

\* What is sent of a body that has no chunks.
PlainBody(n) ==
    [k \in Nat |-> CASE k <= n -> Byte(k) [] k = n + 1 -> NextMessage[1] [] k = n + 2 -> Cr [] OTHER -> Lf]

\* A body with a length of which the reader has taken at bytes; next is 3 if
\* the next message was sent, otherwise 0.
LengthAt(at, next) ==
    /\ Stream(PlainBody(content), at, offset + next)
    /\ next \in {0, 3} /\ (next = 3 => offset = content)
    /\ at \in 0 .. content /\ remaining = content - at /\ offset \in 0 .. content
    /\ writer \in {"writing", "finished", "stopped", "failed"}
    /\ writer = "finished" => offset = content
    /\ reader \in {"data", "skip", "ok", "too large", "failed"}
    /\ reader \in {"data", "skip"} => at < content
    /\ reader = "data" => received = BytesUpTo(at)
    /\ reader = "ok" => at = content /\ received = BytesUpTo(at)
    /\ reader = "too large" => broken \/ at = content
    /\ reader = "failed" => broken

LengthInv == \E at, next \in Nat : LengthAt(at, next)

\* A body that ends with the connection, at bytes of which were received.
RestAt(at) ==
    /\ Stream(PlainBody(content), at, offset) /\ at \in Nat /\ offset \in 0 .. content
    /\ writer \in {"writing", "finished", "stopped", "failed"}
    /\ writer = "finished" => broken
    /\ received = BytesUpTo(at)
    /\ reader \in {"rest", "ok", "failed"}
    /\ reader = "ok" => inFlight = <<>> /\ broken
    /\ reader = "failed" => broken

RestInv == \E at \in Nat : RestAt(at)

\* The writer of chunks is not going to send more of this body.
ChunksOver == broken \/ writer # "writing"

\* A chunk of bytes begins behind the token p and the byte b; C are the places
\* where one begins or where the body ends.
ChunkAt(T, C, p, b) ==
    \E n \in Nat \ {0} :
        /\ T[p + 1] = SizeDigits(n) /\ T[p + 2] = Cr /\ T[p + 3] = Lf
        /\ \A j \in 1 .. n : T[p + 3 + j] = Byte(b + j)
        /\ T[p + 3 + n + 1] = Cr /\ T[p + 3 + n + 2] = Lf
        /\ <<p + 3 + n + 2, b + n>> \in C

\* The chunk without bytes that ends the body.
LastAt(T, end, p, b) ==
    /\ T[p + 1] = SizeDigits(0) /\ T[p + 2] = Cr /\ T[p + 3] = Lf
    /\ T[p + 4] = Cr /\ T[p + 5] = Lf
    /\ end = p + 5 /\ b = content /\ ChunksOver

\* The stream ends here: more is to come, or the connection has broken, or the
\* provider ended the body with an empty write.
EndAt(end, p, b) ==
    /\ p = end
    /\ broken \/ writer \in {"writing", "emptied"}
    /\ ~ChunksOver => b = offset

\* Where the reader is, as long as there is something for it to read.
ReaderPlaced(T, C, at, end) ==
    LET r == Len(received) IN
    /\ reader = "size" => <<at, r>> \in C
    /\ reader = "data" =>
          /\ remaining > 0
          /\ \A j \in 1 .. remaining : T[at + j] = Byte(r + j)
          /\ T[at + remaining + 1] = Cr /\ T[at + remaining + 2] = Lf
          /\ <<at + remaining + 2, r + remaining>> \in C
    /\ reader = "end" =>
          /\ T[at + 1] = Cr /\ T[at + 2] = Lf
          /\ <<at + 2, r>> \in C
    /\ reader = "last" =>
          /\ T[at + 1] = Cr /\ T[at + 2] = Lf
          /\ end = at + 2 /\ r = content /\ ChunksOver

Chunks(T, C, at, end, next) ==
    /\ Stream(T, at, end + next)
    /\ next = 3 => ChunksOver /\ T[end + 1] = NextMessage[1] /\ T[end + 2] = Cr /\ T[end + 3] = Lf
    /\ C \in SUBSET (Nat \X Nat)
    /\ \A p \in Nat, b \in Nat : <<p, b>> \in C =>
          p <= end /\ b <= content /\ (ChunkAt(T, C, p, b) \/ LastAt(T, end, p, b) \/ EndAt(end, p, b))
    /\ ~ChunksOver => <<end, offset>> \in C
    /\ inFlight # <<>> \/ ~broken => ReaderPlaced(T, C, at, end)

\* What there is to say of a body in chunks without its places.
ChunkedEnds ==
    /\ offset \in 0 .. content /\ remaining \in Nat
    /\ received = BytesUpTo(Len(received)) /\ Len(received) \in 0 .. content
    /\ writer \in {"writing", "finished", "emptied", "stopped", "failed"}
    /\ reader \in {"size", "data", "end", "last", "ok", "failed", "torn"}
    /\ reader = "ok" => /\ Len(received) = content /\ ChunksOver
                        /\ inFlight # <<>> => inFlight[1] = NextMessage[1]
    /\ reader = "failed" => broken \/ writer = "emptied"
    /\ reader = "torn" => broken

\* A body in chunks.
ChunkedInv ==
    /\ \E T, C : \E at \in Nat, end \in Nat, next \in {0, 3} : Chunks(T, C, at, end, next)
    /\ ChunkedEnds

BodyInv ==
    /\ content \in Nat /\ broken \in BOOLEAN
    /\ \/ framing = "length" /\ LengthInv
       \/ framing = "none" /\ RestInv
       \/ framing = "chunked" /\ ChunkedInv

-----------------------------------------------------------------------------
(* What is sent.                                                           *)

\* The marks of a message cannot be mistaken for each other.
LEMMA TokensDiffer ==
    /\ Cr # Lf /\ NextMessage[1] # Lf /\ NextMessage[1] # Cr /\ NextMessage[1][1] # "size"
    /\ \A k : Byte(k) # Lf /\ Byte(k) # NextMessage[1]
    /\ \A k : SizeDigits(k) # Lf /\ SizeDigits(k)[1] = "size" /\ SizeDigits(k)[2] = k
BY DEF Cr, Lf, NextMessage, Byte, SizeDigits

\* They are tokens.
LEMMA TokensSent ==
    /\ Cr \in Tokens /\ Lf \in Tokens /\ NextMessage[1] \in Tokens
    /\ \A k \in Nat : Byte(k) \in Tokens /\ SizeDigits(k) \in Tokens
    /\ Crlf = <<Cr, Lf>>
    /\ NextMessage \in Seq(Tokens) /\ Len(NextMessage) = 3
    /\ NextMessage[2] = Cr /\ NextMessage[3] = Lf
BY DEF Cr, Lf, NextMessage, Byte, SizeDigits, Tokens, Crlf

\* The bytes of a content are a sequence.
LEMMA BytesAre ==
    ASSUME NEW n \in Nat
    PROVE  /\ BytesUpTo(n) \in Seq(Tokens) /\ Len(BytesUpTo(n)) = n
           /\ \A k \in 1 .. n : BytesUpTo(n)[k] = Byte(k)
BY TokensSent DEF BytesUpTo

\* One more byte.
LEMMA BytesGrow ==
    ASSUME NEW n \in Nat
    PROVE  Append(BytesUpTo(n), Byte(n + 1)) = BytesUpTo(n + 1)
<1>1. Byte(n + 1) \in Tokens
    BY TokensSent
<1>2. PICK s : s = Append(BytesUpTo(n), Byte(n + 1))
    OBVIOUS
<1>3. s \in Seq(Tokens) /\ Len(s) = n + 1 /\ s[n + 1] = Byte(n + 1) /\ \A k \in 1 .. n : s[k] = Byte(k)
    BY <1>1, <1>2, BytesAre, AppendProperties
<1>4. /\ BytesUpTo(n + 1) \in Seq(Tokens) /\ Len(BytesUpTo(n + 1)) = n + 1
      /\ \A k \in 1 .. n + 1 : BytesUpTo(n + 1)[k] = Byte(k)
    BY BytesAre
<1>5. \A k \in 1 .. Len(s) : s[k] = BytesUpTo(n + 1)[k]
    BY <1>3, <1>4
<1>6. s = BytesUpTo(n + 1)
    BY <1>3, <1>4, <1>5, SeqEqual
<1> QED
    BY <1>2, <1>6

\* What has been received in order is the beginning of the content.
LEMMA BytesBegin ==
    ASSUME NEW m \in Nat, NEW n \in Nat, m <= n
    PROVE  IsPrefix(BytesUpTo(m), BytesUpTo(n))
<1>1. /\ BytesUpTo(m) \in Seq(Tokens) /\ Len(BytesUpTo(m)) = m /\ \A k \in 1 .. m : BytesUpTo(m)[k] = Byte(k)
      /\ BytesUpTo(n) \in Seq(Tokens) /\ Len(BytesUpTo(n)) = n /\ \A k \in 1 .. n : BytesUpTo(n)[k] = Byte(k)
    BY BytesAre
<1>2. PICK s : s = SubSeq(BytesUpTo(m), 1, m)
    OBVIOUS
<1>3. PICK t : t = SubSeq(BytesUpTo(n), 1, m)
    OBVIOUS
<1>4. s \in Seq(Tokens) /\ Len(s) = m /\ \A k \in 1 .. m : s[k] = Byte(k)
    BY <1>1, <1>2
<1>5. t \in Seq(Tokens) /\ Len(t) = m /\ \A k \in 1 .. m : t[k] = Byte(k)
    BY <1>1, <1>3
<1>6. s = t
    BY <1>4, <1>5, SeqEqual
<1> QED
    BY <1>1, <1>2, <1>3, <1>6 DEF IsPrefix

\* What the provider gives the sink: n bytes, behind the m it has given before.
Given(total, m, n) == SubSeq(BytesUpTo(total), m + 1, m + n)

LEMMA BytesGiven ==
    ASSUME NEW total \in Nat, NEW m \in Nat, NEW n \in Nat, m + n <= total
    PROVE  /\ Given(total, m, n) \in Seq(Tokens)
           /\ Len(Given(total, m, n)) = n
           /\ \A j \in 1 .. n : Given(total, m, n)[j] = Byte(m + j)
<1>1. /\ BytesUpTo(total) \in Seq(Tokens) /\ Len(BytesUpTo(total)) = total
      /\ \A k \in 1 .. total : BytesUpTo(total)[k] = Byte(k)
    BY BytesAre
<1>2. PICK bytes : bytes = SubSeq(BytesUpTo(total), m + 1, m + n)
    OBVIOUS
<1>3. bytes \in Seq(Tokens) /\ Len(bytes) = n /\ \A j \in 1 .. n : bytes[j] = BytesUpTo(total)[m + j]
    BY <1>1, <1>2
<1>4. \A j \in 1 .. n : m + j \in 1 .. total
    OBVIOUS
<1>5. \A j \in 1 .. n : bytes[j] = Byte(m + j)
    BY <1>1, <1>3, <1>4
<1> QED
    BY <1>2, <1>3, <1>5 DEF Given

\* One sequence behind the other.
LEMMA Joined ==
    ASSUME NEW s \in Seq(Tokens), NEW t \in Seq(Tokens), NEW m \in Nat, NEW n \in Nat, Len(s) = m, Len(t) = n,
           NEW u, u = s \o t
    PROVE  /\ u \in Seq(Tokens) /\ Len(u) = m + n
           /\ \A i \in 1 .. m : u[i] = s[i]
           /\ \A i \in 1 .. n : u[m + i] = t[i]
<1>1. /\ u \in Seq(Tokens) /\ Len(u) = m + n
      /\ \A i \in 1 .. m + n : u[i] = IF i <= m THEN s[i] ELSE t[i - m]
    BY ConcatProperties
<1>2. ASSUME NEW i \in 1 .. m PROVE i \in 1 .. m + n /\ i <= m
    OBVIOUS
<1>3. ASSUME NEW i \in 1 .. n PROVE m + i \in 1 .. m + n /\ ~(m + i <= m) /\ (m + i) - m = i
    OBVIOUS
<1> QED
    BY <1>1, <1>2, <1>3

\* A chunk on the connection.
LEMMA ChunkIs ==
    ASSUME NEW n \in Nat, NEW bytes \in Seq(Tokens), Len(bytes) = n
    PROVE  /\ Chunk(bytes) \in Seq(Tokens) /\ Len(Chunk(bytes)) = n + 5
           /\ Chunk(bytes)[1] = SizeDigits(n) /\ Chunk(bytes)[2] = Cr /\ Chunk(bytes)[3] = Lf
           /\ \A j \in 1 .. n : Chunk(bytes)[3 + j] = bytes[j]
           /\ Chunk(bytes)[n + 4] = Cr /\ Chunk(bytes)[n + 5] = Lf
<1>1. SizeDigits(n) \in Tokens /\ Cr \in Tokens /\ Lf \in Tokens
    BY TokensSent
<1>2. PICK front : front = <<SizeDigits(n)>> \o Crlf
    OBVIOUS
<1>3. /\ front \in Seq(Tokens) /\ Len(front) = 3
      /\ front[1] = SizeDigits(n) /\ front[2] = Cr /\ front[3] = Lf
    BY <1>1, <1>2, TokensSent
<1>4. PICK opened : opened = front \o bytes
    OBVIOUS
<1>5. /\ opened \in Seq(Tokens) /\ Len(opened) = 3 + n
      /\ \A j \in 1 .. 3 : opened[j] = front[j]
      /\ \A j \in 1 .. n : opened[3 + j] = bytes[j]
  <2>1. PICK m \in Nat : m = 3
      OBVIOUS
  <2>2. /\ opened \in Seq(Tokens) /\ Len(opened) = m + n
        /\ \A j \in 1 .. m : opened[j] = front[j]
        /\ \A j \in 1 .. n : opened[m + j] = bytes[j]
    <3>1. front \in Seq(Tokens) /\ Len(front) = m
        BY <1>3, <2>1
    <3>2. opened \in Seq(Tokens) /\ Len(opened) = m + n
        BY <1>4, <3>1, ConcatProperties
    <3>3. \A j \in 1 .. m : opened[j] = front[j]
        BY <1>4, <3>1, Joined
    <3>4. \A j \in 1 .. n : opened[m + j] = bytes[j]
        BY <1>4, <3>1, Joined
    <3> QED
        BY <3>2, <3>3, <3>4
  <2> QED
      BY <2>1, <2>2
<1>6. PICK after : after = Crlf
    OBVIOUS
<1>7. after \in Seq(Tokens) /\ Len(after) = 2 /\ after[1] = Cr /\ after[2] = Lf
    BY <1>1, <1>6, TokensSent
<1>8. PICK whole : whole = opened \o after
    OBVIOUS
<1>9. /\ whole \in Seq(Tokens) /\ Len(whole) = (3 + n) + 2
      /\ \A j \in 1 .. 3 + n : whole[j] = opened[j]
      /\ \A j \in 1 .. 2 : whole[(3 + n) + j] = after[j]
  <2>1. PICK d \in Nat : d = 2
      OBVIOUS
  <2>2. PICK k \in Nat : k = 3 + n
      OBVIOUS
  <2>3. /\ whole \in Seq(Tokens) /\ Len(whole) = k + d
        /\ \A j \in 1 .. k : whole[j] = opened[j]
        /\ \A j \in 1 .. d : whole[k + j] = after[j]
    <3>1. opened \in Seq(Tokens) /\ Len(opened) = k /\ after \in Seq(Tokens) /\ Len(after) = d
        BY <1>5, <1>7, <2>1, <2>2
    <3>2. whole \in Seq(Tokens) /\ Len(whole) = k + d
        BY <1>8, <3>1, ConcatProperties
    <3>3. \A j \in 1 .. k : whole[j] = opened[j]
        BY <1>8, <3>1, Joined
    <3>4. \A j \in 1 .. d : whole[k + j] = after[j]
        BY <1>8, <3>1, Joined, SMTT(30)
    <3> QED
        BY <3>2, <3>3, <3>4
  <2> QED
      BY <2>1, <2>2, <2>3
<1>10. /\ (3 + n) + 1 = n + 4 /\ (3 + n) + 2 = n + 5
       /\ \A j \in 1 .. 3 : j \in 1 .. 3 + n
       /\ \A j \in 1 .. n : 3 + j \in 1 .. 3 + n
    OBVIOUS
<1>11. /\ Len(whole) = n + 5 /\ whole[n + 4] = Cr /\ whole[n + 5] = Lf
    BY <1>7, <1>9, <1>10
<1>12. /\ \A j \in 1 .. 3 : whole[j] = front[j]
       /\ \A j \in 1 .. n : whole[3 + j] = bytes[j]
    BY <1>5, <1>9, <1>10
<1>13. Chunk(bytes) = whole
    BY <1>2, <1>4, <1>6, <1>8 DEF Chunk
<1> QED
    BY <1>3, <1>9, <1>11, <1>12, <1>13

\* The chunk without bytes.
LEMMA LastIs ==
    /\ <<SizeDigits(0)>> \o Crlf \o Crlf \in Seq(Tokens)
    /\ Len(<<SizeDigits(0)>> \o Crlf \o Crlf) = 5
    /\ (<<SizeDigits(0)>> \o Crlf \o Crlf)[1] = SizeDigits(0)
    /\ (<<SizeDigits(0)>> \o Crlf \o Crlf)[2] = Cr /\ (<<SizeDigits(0)>> \o Crlf \o Crlf)[3] = Lf
    /\ (<<SizeDigits(0)>> \o Crlf \o Crlf)[4] = Cr /\ (<<SizeDigits(0)>> \o Crlf \o Crlf)[5] = Lf
<1>1. SizeDigits(0) \in Tokens /\ Cr \in Tokens /\ Lf \in Tokens
    BY TokensSent
<1> QED
    BY <1>1, TokensSent

-----------------------------------------------------------------------------
(* What is on its way.                                                     *)

\* The new tokens follow the old ones.
LEMMA SentBehind ==
    ASSUME NEW bytes \in Seq(Tokens), inFlight \in Seq(Tokens), ~broken, Sends(bytes),
           NEW m \in Nat, NEW n \in Nat, Len(inFlight) = m, Len(bytes) = n
    PROVE  /\ inFlight' \in Seq(Tokens) /\ Len(inFlight') = m + n
           /\ \A i \in 1 .. m : inFlight'[i] = inFlight[i]
           /\ \A i \in 1 .. n : inFlight'[m + i] = bytes[i]
<1>1. inFlight' = inFlight \o bytes
    BY DEF Sends
<1>2. inFlight' \in Seq(Tokens) /\ Len(inFlight') = m + n
    BY <1>1, ConcatProperties
<1>3. \A i \in 1 .. m : inFlight'[i] = inFlight[i]
    BY <1>1, Joined
<1>4. \A i \in 1 .. n : inFlight'[m + i] = bytes[i]
    BY <1>1, Joined
<1> QED
    BY <1>2, <1>3, <1>4

\* More is sent.
LEMMA StreamSends ==
    ASSUME NEW T, NEW U \in [Nat -> Tokens], NEW at \in Nat, NEW end \in Nat, NEW n \in Nat,
           Stream(T, at, end), ~broken,
           NEW bytes \in Seq(Tokens), Len(bytes) = n, Sends(bytes),
           \A k \in 1 .. end : U[k] = T[k],
           \A j \in 1 .. n : U[end + j] = bytes[j]
    PROVE  Stream(U, at, end + n)'
<1>1. PICK m \in Nat : m = Len(inFlight)
    BY LenProperties DEF Stream
<1>2. /\ inFlight \in Seq(Tokens) /\ at + m = end
      /\ \A i \in 1 .. m : inFlight[i] = T[at + i]
    BY <1>1 DEF Stream
<1>4. /\ inFlight' \in Seq(Tokens) /\ Len(inFlight') = m + n
      /\ \A i \in 1 .. m : inFlight'[i] = inFlight[i]
      /\ \A i \in 1 .. n : inFlight'[m + i] = bytes[i]
    BY <1>1, <1>2, SentBehind, ZenonT(40)
<1>5. ASSUME NEW i \in 1 .. m + n PROVE inFlight'[i] = U[at + i]
  <2>1. CASE i <= m
    <3>1. i \in 1 .. m /\ at + i \in 1 .. end
        BY <1>2, <2>1
    <3> QED
        BY <1>2, <1>4, <3>1
  <2>2. CASE i > m
    <3>1. i - m \in 1 .. n /\ i = m + (i - m) /\ at + i = end + (i - m)
        BY <1>2, <2>2, SMTT(30)
    <3> QED
        BY <1>4, <3>1, SMTT(30)
  <2> QED
      BY <2>1, <2>2
<1>6. end + n \in Nat /\ at + (m + n) = end + n /\ at + (m + n) <= end + n
    BY <1>2
<1> QED
    BY <1>4, <1>5, <1>6 DEF Stream

\* The reader takes something.
LEMMA StreamReads ==
    ASSUME NEW T, NEW at, NEW end, Stream(T, at, end), NEW d \in 0 .. Len(inFlight),
           inFlight' = SubSeq(inFlight, d + 1, Len(inFlight)), broken' = broken
    PROVE  Stream(T, at + d, end)' /\ Len(inFlight') = Len(inFlight) - d
<1>1. /\ at \in Nat /\ end \in Nat /\ inFlight \in Seq(Tokens) /\ at + Len(inFlight) <= end
      /\ broken \/ at + Len(inFlight) = end
      /\ \A i \in 1 .. Len(inFlight) : inFlight[i] = T[at + i]
    BY DEF Stream
<1>2. /\ inFlight' \in Seq(Tokens) /\ Len(inFlight') = Len(inFlight) - d
      /\ \A i \in 1 .. Len(inFlight) - d : inFlight'[i] = inFlight[d + i]
    BY <1>1
<1>3. ASSUME NEW i \in 1 .. Len(inFlight') PROVE inFlight'[i] = T[(at + d) + i]
  <2>1. d + i \in 1 .. Len(inFlight) /\ at + (d + i) = (at + d) + i
    <3>1. PICK m \in Nat : m = Len(inFlight)
        BY <1>1, LenProperties
    <3>2. i \in 1 .. m - d
        BY <1>2, <3>1
    <3>3. d + i \in 1 .. m /\ at + (d + i) = (at + d) + i
      <4>1. at \in Nat /\ d \in 0 .. m
          BY <1>1, <3>1
      <4> QED
          BY <3>1, <3>2, <4>1
    <3> QED
        BY <3>1, <3>3
  <2> QED
      BY <1>1, <1>2, <2>1
<1>4. /\ at + d \in Nat /\ (at + d) + Len(inFlight') <= end
      /\ broken' \/ (at + d) + Len(inFlight') = end
    BY <1>1, <1>2, SMTT(30)
<1> QED
    BY <1>1, <1>2, <1>3, <1>4 DEF Stream

\* What is on its way is lost from some byte on.
LEMMA StreamBreaks ==
    ASSUME NEW T, NEW at, NEW end, Stream(T, at, end), NEW n \in 0 .. Len(inFlight),
           inFlight' = SubSeq(inFlight, 1, n), broken'
    PROVE  Stream(T, at, end)' /\ Len(inFlight') = n /\ (n > 0 => inFlight'[1] = inFlight[1])
<1>1. /\ at \in Nat /\ end \in Nat /\ inFlight \in Seq(Tokens) /\ at + Len(inFlight) <= end
      /\ \A i \in 1 .. Len(inFlight) : inFlight[i] = T[at + i]
    BY DEF Stream
<1>2. /\ inFlight' \in Seq(Tokens) /\ Len(inFlight') = n
      /\ \A i \in 1 .. n : inFlight'[i] = inFlight[i]
    BY <1>1
<1>3. at + Len(inFlight') <= end /\ \A i \in 1 .. Len(inFlight') : inFlight'[i] = T[at + i]
    BY <1>1, <1>2
<1> QED
    BY <1>1, <1>2, <1>3 DEF Stream

\* Nothing is sent: the end of what was sent may go on growing for the writer
\* once the connection has broken.
LEMMA StreamStays ==
    ASSUME NEW T, NEW at, NEW end, Stream(T, at, end), inFlight' = inFlight,
           NEW farther \in Nat, end <= farther,
           broken' \/ (farther = end /\ ~broken)
    PROVE  Stream(T, at, farther)'
BY DEF Stream

-----------------------------------------------------------------------------
(* Lines.                                                                  *)

\* A line ends at the first line feed.
LEMMA LineIs ==
    ASSUME inFlight \in Seq(Tokens), NEW k \in 1 .. Len(inFlight), inFlight[k] = Lf,
           \A j \in 1 .. k - 1 : inFlight[j] # Lf
    PROVE  LineEnds # {} /\ LineLength = k
<1>1. k \in LineEnds /\ LineEnds \subseteq 1 .. Len(inFlight)
    BY DEF LineEnds
<1>2. ASSUME NEW y \in LineEnds PROVE k <= y
  <2>1. y \in 1 .. Len(inFlight) /\ inFlight[y] = Lf
      BY DEF LineEnds
  <2>2. ~(y \in 1 .. k - 1)
      BY <2>1
  <2> QED
      BY <2>1, <2>2
<1>3. \A x \in LineEnds : (\A y \in LineEnds : x <= y) => x = k
  <2>1. ASSUME NEW x \in LineEnds, x <= k PROVE x = k
    <3>1. k <= x /\ x \in 1 .. Len(inFlight)
        BY <1>1, <1>2
    <3> QED
        BY <2>1, <3>1
  <2> QED
      BY <1>1, <2>1
<1>4. Min(LineEnds) = k
    BY <1>1, <1>2, <1>3, Zenon DEF Min
<1>5. LineEnds # {}
    BY <1>1
<1> QED
    BY <1>4, <1>5 DEF LineLength

\* Without a line feed it is all there is.
LEMMA NoLine ==
    ASSUME inFlight \in Seq(Tokens), \A j \in 1 .. Len(inFlight) : inFlight[j] # Lf
    PROVE  LineEnds = {} /\ LineLength = Len(inFlight)
BY DEF LineEnds, LineLength

\* getline() where the next line feed is the kth token: it takes that many, or
\* all there are, if the connection has broken before that.
LEMMA LineRead ==
    ASSUME NEW step, ReadsLine(step), NEW T, NEW at \in Nat, NEW end \in Nat, Stream(T, at, end),
           NEW k \in Nat \ {0}, T[at + k] = Lf, \A j \in 1 .. k - 1 : T[at + j] # Lf
    PROVE  \E m \in 0 .. k : /\ m <= Len(inFlight) /\ (m = k \/ (broken /\ m = Len(inFlight)))
                             /\ TheLine \in Seq(Tokens) /\ Len(TheLine) = m
                             /\ \A i \in 1 .. m : TheLine[i] = T[at + i]
                             /\ Stream(T, at + m, end)' /\ Len(inFlight') = Len(inFlight) - m
<1>1. PICK n \in Nat : n = Len(inFlight)
    BY LenProperties DEF Stream
<1>2. inFlight \in Seq(Tokens) /\ \A i \in 1 .. n : inFlight[i] = T[at + i]
    BY <1>1 DEF Stream
<1>3. broken' = broken
    BY DEF ReadsLine, WriterWaits
<1>4. \E m \in 0 .. k : m = LineLength /\ m <= n /\ (m = k \/ (broken /\ m = n))
  <2>1. CASE k <= n
    <3>1. k \in 1 .. n /\ inFlight[k] = Lf
        BY <1>2, <2>1
    <3>2. \A j \in 1 .. k - 1 : inFlight[j] # Lf
      <4>1. \A j \in 1 .. k - 1 : j \in 1 .. n
          BY <2>1
      <4> QED
          BY <1>2, <4>1
    <3>3. LineLength = k
        BY <1>1, <1>2, <3>1, <3>2, LineIs
    <3> WITNESS k \in 0 .. k
    <3> QED
        BY <2>1, <3>3
  <2>2. CASE ~(k <= n)
    <3>1. \A j \in 1 .. n : inFlight[j] # Lf
      <4>1. \A j \in 1 .. n : j \in 1 .. k - 1
          BY <2>2
      <4> QED
          BY <1>2, <4>1
    <3>2. LineEnds = {} /\ LineLength = n
        BY <1>1, <1>2, <3>1, NoLine
    <3>3. broken
        BY <3>2 DEF ReadsLine, LineThere
    <3> QED
        BY <2>2, <3>2, <3>3
  <2> QED
      BY <2>1, <2>2
<1>5. PICK m \in 0 .. k : m = LineLength /\ m <= n /\ (m = k \/ (broken /\ m = n))
    BY <1>4
<1>6. inFlight' = SubSeq(inFlight, m + 1, Len(inFlight))
    BY <1>5 DEF ReadsLine
<1>7. m \in 0 .. Len(inFlight)
    BY <1>1, <1>5
<1>8. Stream(T, at + m, end)' /\ Len(inFlight') = Len(inFlight) - m
    BY <1>3, <1>6, <1>7, StreamReads
<1>9. TheLine = SubSeq(inFlight, 1, m)
    BY <1>5 DEF TheLine
<1>10. TheLine \in Seq(Tokens) /\ Len(TheLine) = m /\ \A i \in 1 .. m : TheLine[i] = inFlight[i]
    BY <1>1, <1>2, <1>7, <1>9
<1>11. \A i \in 1 .. m : TheLine[i] = T[at + i]
  <2>1. \A i \in 1 .. m : i \in 1 .. n
      BY <1>1, <1>7
  <2> QED
      BY <1>2, <1>10, <2>1
<1> QED
    BY <1>1, <1>5, <1>8, <1>10, <1>11

\* An empty line behind a chunk, or a part of it, or nothing.
LEMMA EndLine ==
    ASSUME NEW m \in 0 .. 2, TheLine \in Seq(Tokens), Len(TheLine) = m,
           m > 0 => TheLine[1] = Cr, m > 1 => TheLine[2] = Lf
    PROVE  TheLine = Crlf <=> m = 2
<1>1. Crlf \in Seq(Tokens) /\ Len(Crlf) = 2 /\ Crlf[1] = Cr /\ Crlf[2] = Lf
    BY TokensSent
<1>2. ASSUME m = 2 PROVE TheLine = Crlf
  <2>1. \A i \in 1 .. 2 : TheLine[i] = Crlf[i]
      BY <1>1, <1>2
  <2> QED
      BY <1>1, <1>2, <2>1, SeqEqual
<1> QED
    BY <1>1, <1>2

-----------------------------------------------------------------------------
(* Bodies without chunks.                                                  *)

\* The tokens of such a body.
LEMMA PlainTokens ==
    ASSUME NEW n \in Nat, NEW B, B = PlainBody(n)
    PROVE  /\ B \in [Nat -> Tokens]
           /\ \A k \in Nat : k <= n => B[k] = Byte(k)
           /\ B[n + 1] = NextMessage[1] /\ B[n + 2] = Cr /\ B[n + 3] = Lf
<1>1. \A k \in Nat : PlainBody(n)[k] = CASE k <= n -> Byte(k) [] k = n + 1 -> NextMessage[1]
                                          [] k = n + 2 -> Cr [] OTHER -> Lf
    BY DEF PlainBody
<1>2. B \in [Nat -> Tokens]
    BY <1>1, TokensSent DEF PlainBody
<1>3. /\ n + 1 \in Nat /\ n + 2 \in Nat /\ n + 3 \in Nat
      /\ ~(n + 1 <= n) /\ ~(n + 2 <= n) /\ ~(n + 3 <= n)
      /\ n + 2 # n + 1 /\ n + 3 # n + 1 /\ n + 3 # n + 2
    OBVIOUS
<1>4. B[n + 1] = NextMessage[1] /\ B[n + 2] = Cr /\ B[n + 3] = Lf
    BY <1>1, <1>3
<1>5. \A k \in Nat : k <= n => B[k] = Byte(k)
    BY <1>1
<1> QED
    BY <1>2, <1>4, <1>5

\* The writer gives the sink more of such a body.
LEMMA PlainWrites ==
    ASSUME content \in Nat, NEW o \in Nat, o = offset, NEW at \in Nat, NEW next \in {0, 3},
           NEW B, B = PlainBody(content), Stream(B, at, o + next), next = 3 => o = content,
           NEW n \in Nat \ {0}, ProviderWrites(n), framing # "chunked"
    PROVE  Stream(B, at, o + n)' /\ next = 0 /\ offset' = o + n /\ o + n <= content
<1>1. o + n <= content /\ offset' = o + n
    BY DEF ProviderWrites
<1>2. next = 0
    BY <1>1
<1>3. broken' = broken
    BY DEF ProviderWrites
<1>4. CASE broken
  <2>1. inFlight' = inFlight
      BY <1>4 DEF ProviderWrites, Sends
  <2>2. o + n \in Nat /\ o <= o + n /\ Stream(B, at, o)
      BY <1>2
  <2>3. Stream(B, at, o + n)'
      BY <1>3, <1>4, <2>1, <2>2, StreamStays
  <2> QED
      BY <1>1, <1>2, <2>3
<1>5. CASE ~broken
  <2>1. PICK total \in Nat : total = content
      OBVIOUS
  <2>2. PICK bytes \in Seq(Tokens) :
            /\ bytes = SubSeq(BytesUpTo(total), o + 1, o + n)
            /\ Len(bytes) = n /\ \A j \in 1 .. n : bytes[j] = Byte(o + j)
    <3>1. o \in Nat /\ n \in Nat /\ o + n <= total
        BY <1>1, <2>1
    <3>2. PICK bytes : bytes = Given(total, o, n)
        OBVIOUS
    <3>3. bytes \in Seq(Tokens) /\ Len(bytes) = n /\ \A j \in 1 .. n : bytes[j] = Byte(o + j)
        BY <3>1, <3>2, BytesGiven
    <3> QED
        BY <3>2, <3>3 DEF Given
  <2>3. Sends(bytes)
      BY <2>1, <2>2 DEF ProviderWrites
  <2>4. B \in [Nat -> Tokens] /\ \A k \in Nat : k <= content => B[k] = Byte(k)
      BY PlainTokens, ZenonT(40)
  <2>5. \A j \in 1 .. n : B[o + j] = bytes[j]
    <3>1. ASSUME NEW j \in 1 .. n PROVE o + j \in Nat /\ o + j <= content
        BY <1>1
    <3> QED
        BY <2>2, <2>4, <3>1
  <2>6. Stream(B, at, o)
      BY <1>2
  <2>7. Stream(B, at, o + n)'
      BY <1>5, <2>2, <2>3, <2>4, <2>5, <2>6, StreamSends, ZenonT(40)
  <2> QED
      BY <1>1, <1>2, <2>7
<1> QED
    BY <1>4, <1>5

\* The reader has the next byte.
LEMMA ByteTaken ==
    ASSUME NEW T, NEW at \in Nat, NEW end \in Nat, Stream(T, at, end), inFlight # <<>>,
           inFlight' = Tail(inFlight), broken' = broken
    PROVE  /\ Stream(T, at + 1, end)' /\ at + 1 <= end /\ Head(inFlight) = T[at + 1]
<1>1. PICK n \in Nat : n = Len(inFlight)
    BY LenProperties DEF Stream
<1>2. /\ inFlight \in Seq(Tokens) /\ at + n <= end
      /\ \A i \in 1 .. n : inFlight[i] = T[at + i]
    BY <1>1 DEF Stream
<1>3. n > 0
    BY <1>1, <1>2, EmptySeq
<1>4. inFlight' = SubSeq(inFlight, 1 + 1, Len(inFlight)) /\ Head(inFlight) = inFlight[1]
    BY <1>2, TailIsSubSeq
<1>5. 1 \in 0 .. Len(inFlight)
    BY <1>1, <1>3
<1>6. Stream(T, at + 1, end)'
    BY <1>4, <1>5, StreamReads
<1>7. Head(inFlight) = T[at + 1] /\ at + 1 <= end
    BY <1>2, <1>3, <1>4
<1> QED
    BY <1>6, <1>7

\* Steps of the writer and the network leave the rest of the state alone.
LEMMA ReaderLeft ==
    ASSUME \/ \E n \in 1 .. MaxWrite : ProviderWrites(n)
           \/ ProviderWritesNothing \/ ProviderDone
           \/ \E how \in {"stopped", "failed"} : WriterGivesUp(how)
           \/ NextFollows
           \/ \E n \in 0 .. Len(inFlight) : ConnectionBreaks(n)
    PROVE  UNCHANGED <<reader, remaining, received, framing, content>>
BY DEF ProviderWrites, ProviderWritesNothing, ProviderDone, WriterGivesUp, NextFollows, ConnectionBreaks, ReaderWaits

\* The next message follows: it has not been sent before, and its tokens are
\* the next ones.
LEMMA NextSent ==
    ASSUME NEW T, NEW U \in [Nat -> Tokens], NEW at \in Nat, NEW end \in Nat, at <= end,
           NEW next \in {0, 3}, Stream(T, at, end + next),
           next = 3 => T[end + 1] = NextMessage[1], \A k \in 1 .. end : U[k] = T[k],
           U[end + 1] = NextMessage[1], U[end + 2] = Cr, U[end + 3] = Lf, NextFollows
    PROVE  Stream(U, at, end + 3)' /\ next = 0 /\ ~broken'
<1>1. /\ ~broken /\ broken' = broken /\ NextMessage[1] \notin ToSet(inFlight) /\ Sends(NextMessage)
    BY DEF NextFollows
<1>2. PICK n \in Nat : n = Len(inFlight)
    BY LenProperties DEF Stream
<1>3. /\ inFlight \in Seq(Tokens) /\ at + n = end + next
      /\ \A i \in 1 .. n : inFlight[i] = T[at + i]
    BY <1>1, <1>2 DEF Stream
<1>4. next = 0
  <2>1. ASSUME next = 3 PROVE FALSE
    <3>1. PICK i \in Nat : i = (end + 1) - at
        OBVIOUS
    <3>2. i \in 1 .. n /\ at + i = end + 1
        BY <1>3, <2>1, <3>1
    <3>3. inFlight[i] = NextMessage[1]
        BY <1>3, <2>1, <3>2
    <3>4. i \in DOMAIN inFlight
        BY <1>2, <1>3, <3>2
    <3> QED
        BY <1>1, <3>3, <3>4 DEF ToSet
  <2> QED
      BY <2>1
<1>5. Stream(T, at, end)
    BY <1>4
<1>6. \A j \in 1 .. 3 : U[end + j] = NextMessage[j]
    BY TokensSent
<1>7. PICK bytes : bytes = NextMessage
    OBVIOUS
<1>8. PICK m \in Nat : m = 3
    OBVIOUS
<1>9. bytes \in Seq(Tokens) /\ Len(bytes) = m /\ Sends(bytes) /\ \A j \in 1 .. m : U[end + j] = bytes[j]
    BY <1>1, <1>6, <1>7, <1>8, TokensSent
<1>10. Stream(U, at, end + m)'
    BY <1>1, <1>5, <1>9, StreamSends
<1> QED
    BY <1>1, <1>4, <1>8, <1>10

\* A body with a length keeps its invariant.
LEMMA LengthNext ==
    ASSUME content \in Nat, broken \in BOOLEAN, framing = "length", LengthInv, BodyNext
    PROVE  LengthInv' /\ content' \in Nat /\ broken' \in BOOLEAN /\ framing' = "length"
<1>1. PICK a \in Nat, next \in Nat : LengthAt(a, next)
    BY DEF LengthInv
<1>2. PICK c \in Nat : c = content
    OBVIOUS
<1>3. PICK o \in 0 .. c : o = offset
  <2>1. offset \in 0 .. c
      BY <1>1, <1>2, Zenon DEF LengthAt
  <2> QED
      BY <2>1
<1>4. PICK B : B = PlainBody(c)
    OBVIOUS
<1>5. Stream(B, a, o + next) /\ next \in {0, 3} /\ (next = 3 => o = c) /\ a \in 0 .. c /\ remaining = c - a
    BY <1>1, <1>2, <1>3, <1>4, Zenon DEF LengthAt
<1>6. /\ B \in [Nat -> Tokens] /\ \A k \in Nat : k <= c => B[k] = Byte(k)
      /\ B[c + 1] = NextMessage[1] /\ B[c + 2] = Cr /\ B[c + 3] = Lf
    BY <1>4, PlainTokens
\* Where the reader does not take part.
<1>7. ASSUME UNCHANGED <<reader, remaining, received, framing, content>>, broken' \in BOOLEAN, broken => broken',
             NEW p \in Nat, p = offset', p <= c, NEW m \in {0, 3}, m = 3 => p = c, Stream(B, a, p + m)',
             writer' \in {"writing", "finished", "stopped", "failed"}, writer' = "finished" => p = c
      PROVE  LengthInv' /\ content' \in Nat /\ broken' \in BOOLEAN /\ framing' = "length"
  <2>1. Stream(PlainBody(content), a, offset + m)'
      BY <1>2, <1>4, <1>7
  <2>2. LengthAt(a, m)'
    <3>1. /\ m \in {0, 3} /\ (m = 3 => offset' = content') /\ a \in 0 .. content' /\ remaining' = content' - a
          /\ offset' \in 0 .. content' /\ (writer' = "finished" => offset' = content')
        BY <1>2, <1>5, <1>7
    <3>2. /\ reader' \in {"data", "skip", "ok", "too large", "failed"}
          /\ reader' \in {"data", "skip"} => a < content'
          /\ reader' = "data" => received' = BytesUpTo(a)
          /\ reader' = "ok" => a = content' /\ received' = BytesUpTo(a)
          /\ reader' = "too large" => broken' \/ a = content'
          /\ reader' = "failed" => broken'
        BY <1>1, <1>7, Zenon DEF LengthAt
    <3> QED
        BY <1>7, <2>1, <3>1, <3>2, Zenon DEF LengthAt
  <2> QED
      BY <1>7, <2>2 DEF LengthInv
<1>8. ASSUME NEW n \in 1 .. MaxWrite, ProviderWrites(n)
      PROVE  LengthInv' /\ content' \in Nat /\ broken' \in BOOLEAN /\ framing' = "length"
  <2>1. UNCHANGED <<reader, remaining, received, framing, content>> /\ broken' = broken
      BY <1>8 DEF ProviderWrites, ReaderWaits
  <2>2. n \in Nat \ {0}
      BY BodyAssumption
  <2>3. Stream(B, a, o + n)' /\ next = 0 /\ offset' = o + n /\ o + n <= c
      BY <1>2, <1>3, <1>4, <1>5, <1>8, <2>2, PlainWrites
  <2>4. PICK p \in Nat : p = o + n
      BY <2>2
  <2>5. Stream(B, a, p + 0)' /\ p = offset' /\ p <= c
      BY <2>3, <2>4
  <2>6. writer' \in {"writing", "finished", "stopped", "failed"} /\ (writer' = "finished" => p = c)
    <3>1. writer = "writing" /\ offset + n = p
        BY <1>3, <1>8, <2>4 DEF ProviderWrites
    <3> QED
        BY <1>2, <1>8, <3>1 DEF ProviderWrites
  <2> QED
      BY <1>7, <2>1, <2>5, <2>6
<1>9. ASSUME NEW how \in {"stopped", "failed"}, WriterGivesUp(how)
      PROVE  LengthInv' /\ content' \in Nat /\ broken' \in BOOLEAN /\ framing' = "length"
  <2>1. /\ UNCHANGED <<reader, remaining, received, framing, content>>
        /\ UNCHANGED <<offset, inFlight>> /\ broken' = TRUE /\ writer' = how
      BY <1>9 DEF WriterGivesUp, ReaderWaits
  <2>2. Stream(B, a, o + next)'
      BY <1>5, <2>1, StreamStays
  <2>3. o = offset'
      BY <1>3, <2>1
  <2> QED
      BY <1>5, <1>7, <2>1, <2>2, <2>3
<1>10. ASSUME NextFollows
       PROVE  LengthInv' /\ content' \in Nat /\ broken' \in BOOLEAN /\ framing' = "length"
  <2>1. /\ UNCHANGED <<reader, remaining, received, framing, content, offset, writer>>
        /\ broken' = broken /\ ~broken
        /\ reader \notin {"ok", "failed", "torn", "too large"} /\ writer \in {"finished", "emptied"}
      BY <1>10 DEF NextFollows, ReaderWaits
  <2>2. a <= c /\ o = c /\ writer = "finished"
    <3>1. writer \in {"writing", "finished", "stopped", "failed"} /\ (writer = "finished" => o = c)
        BY <1>1, <1>2, <1>3, Zenon DEF LengthAt
    <3>2. writer \in {"finished", "emptied"}
        BY <2>1, Zenon
    <3> QED
        BY <1>5, <3>1, <3>2
  <2>3. Stream(B, a, c + next)
      BY <1>5, <2>2
  <2>4. Stream(B, a, c + 3)'
      BY <1>5, <1>6, <1>10, <2>2, <2>3, NextSent
  <2>5. c = offset'
      BY <1>3, <2>1, <2>2
  <2>6. writer' = "finished" /\ broken' \in BOOLEAN
      BY <2>1, <2>2
  <2>7. PICK m \in {0, 3} : m = 3
      OBVIOUS
  <2>8. Stream(B, a, c + m)' /\ c <= c
      BY <2>4, <2>7
  <2>9. m = 3 => c = c
      OBVIOUS
  <2> QED
      BY <1>7, <2>1, <2>5, <2>6, <2>8, <2>9, Zenon
<1>11. ASSUME NEW n \in 0 .. Len(inFlight), ConnectionBreaks(n)
       PROVE  LengthInv' /\ content' \in Nat /\ broken' \in BOOLEAN /\ framing' = "length"
  <2>1. /\ UNCHANGED <<reader, remaining, received, framing, content, offset, writer>> /\ broken' = TRUE
        /\ inFlight' = SubSeq(inFlight, 1, n)
      BY <1>11 DEF ConnectionBreaks, ReaderWaits
  <2>2. Stream(B, a, o + next)'
      BY <1>5, <2>1, StreamBreaks
  <2>3. o = offset' /\ writer' \in {"writing", "finished", "stopped", "failed"} /\ (writer' = "finished" => o = c)
      BY <1>1, <1>2, <1>3, <2>1 DEF LengthAt
  <2> QED
      BY <1>5, <1>7, <2>1, <2>2, <2>3
<1>12. ASSUME ReadByte
       PROVE  LengthInv' /\ content' \in Nat /\ broken' \in BOOLEAN /\ framing' = "length"
  <2>1. /\ UNCHANGED <<framing, content, offset, writer, broken>>
        /\ reader \in {"data", "skip"} /\ inFlight # <<>> /\ inFlight' = Tail(inFlight)
        /\ remaining' = remaining - 1
        /\ reader = "data" => received' = Append(received, Head(inFlight))
      BY <1>12 DEF ReadByte, WriterWaits
  <2>2. a < c
      BY <1>1, <1>2, <2>1, Zenon DEF LengthAt
  <2>3. remaining = c - a
      BY <1>5
  <2>4. /\ a + 1 \in 0 .. c /\ remaining' = c - (a + 1)
        /\ (remaining > 1 <=> a + 1 < c) /\ (~(remaining > 1) <=> a + 1 = c)
    <3>1. remaining' = remaining - 1
        BY <2>1
    <3> QED
        BY <2>2, <2>3, <3>1
  <2>5. Stream(B, a + 1, o + next)' /\ Head(inFlight) = B[a + 1]
    <3>1. o + next \in Nat /\ broken' = broken
        BY <1>5, <2>1
    <3> QED
        BY <1>5, <2>1, <3>1, ByteTaken
  <2>6. reader = "data" => received' = BytesUpTo(a + 1)
    <3>1. B[a + 1] = Byte(a + 1)
        BY <1>6, <2>2
    <3>2. reader = "data" => received = BytesUpTo(a)
        BY <1>1 DEF LengthAt
    <3> QED
        BY <2>1, <2>5, <3>1, <3>2, BytesGrow
  <2>7. /\ reader' \in {"data", "skip"} => a + 1 < c /\ reader' = reader
        /\ reader' = "ok" => a + 1 = c /\ reader = "data"
        /\ reader' = "too large" => a + 1 = c
        /\ reader' \in {"data", "skip", "ok", "too large"}
    <3>1. /\ remaining > 1 => reader' = reader
          /\ ~(remaining > 1) => reader' = IF reader = "skip" THEN "too large" ELSE "ok"
        BY <1>12, Zenon DEF ReadByte
    <3>2. reader \in {"data", "skip"}
        BY <2>1, Zenon
    <3> QED
        BY <2>4, <3>1, <3>2
  <2>8. Stream(PlainBody(content), a + 1, offset + next)' /\ content' = c
      BY <1>2, <1>3, <1>4, <2>1, <2>5
  <2>9. /\ reader' = "data" => received' = BytesUpTo(a + 1)
        /\ reader' = "ok" => received' = BytesUpTo(a + 1)
      BY <2>6, <2>7
  <2>10. next \in {0, 3} /\ (next = 3 => offset' = content')
      BY <1>2, <1>3, <1>5, <2>1
  <2>11. /\ offset' \in 0 .. content'
         /\ writer' \in {"writing", "finished", "stopped", "failed"} /\ (writer' = "finished" => offset' = content')
      BY <1>1, <2>1 DEF LengthAt
  <2>12. LengthAt(a + 1, next)'
    <3>1. a + 1 \in 0 .. content' /\ remaining' = content' - (a + 1)
        BY <2>4, <2>8
    <3> QED
        BY <2>7, <2>8, <2>9, <2>10, <2>11, <3>1 DEF LengthAt
  <2> QED
      BY <1>2, <2>1, <2>12 DEF LengthInv
<1>13. ASSUME ReadFails
       PROVE  LengthInv' /\ content' \in Nat /\ broken' \in BOOLEAN /\ framing' = "length"
  <2>1. /\ UNCHANGED <<framing, content, offset, writer, inFlight, remaining, received>>
        /\ broken' = TRUE /\ reader' \in {"too large", "failed"}
      BY <1>13 DEF ReadFails
  <2>2. Stream(B, a, o + next)'
    <3>1. o + next \in Nat
        BY <1>5
    <3>2. inFlight' = inFlight /\ broken'
        BY <2>1, Zenon
    <3> QED
        BY <1>5, <3>1, <3>2, StreamStays
  <2>3. Stream(PlainBody(content), a, offset + next)'
      BY <1>2, <1>3, <1>4, <2>1, <2>2
  <2>4. LengthAt(a, next)'
      BY <1>1, <2>1, <2>3 DEF LengthAt
  <2> QED
      BY <1>2, <2>1, <2>4 DEF LengthInv
<1>14. ~ProviderWritesNothing /\ ~ProviderDone
    BY DEF ProviderWritesNothing, ProviderDone
<1>15. ~ReadSize /\ ~ReadChunkEnd /\ ~ReadLast /\ ~ReadRest
    BY <1>1 DEF LengthAt, ReadSize, ReadChunkEnd, ReadLast, ReadRest, ReadsLine
<1> QED
    BY <1>8, <1>9, <1>10, <1>11, <1>12, <1>13, <1>14, <1>15 DEF BodyNext

\* A body that ends with the connection keeps its invariant.
LEMMA RestNext ==
    ASSUME content \in Nat, broken \in BOOLEAN, framing = "none", RestInv, BodyNext
    PROVE  RestInv' /\ content' \in Nat /\ broken' \in BOOLEAN /\ framing' = "none"
<1>1. PICK a \in Nat : RestAt(a)
    BY DEF RestInv
<1>2. PICK c \in Nat : c = content
    OBVIOUS
<1>3. PICK o \in 0 .. c : o = offset
  <2>1. offset \in 0 .. c
      BY <1>1, <1>2, Zenon DEF RestAt
  <2> QED
      BY <2>1
<1>4. PICK B : B = PlainBody(c)
    OBVIOUS
<1>5. Stream(B, a, o) /\ received = BytesUpTo(a)
    BY <1>1, <1>2, <1>3, <1>4, Zenon DEF RestAt
<1>6. /\ writer \in {"writing", "finished", "stopped", "failed"} /\ reader \in {"rest", "ok", "failed"}
      /\ (writer = "finished" => broken) /\ (reader = "ok" => inFlight = <<>> /\ broken) /\ (reader = "failed" => broken)
    BY <1>1, Zenon DEF RestAt
<1>7. B \in [Nat -> Tokens] /\ \A k \in Nat : k <= c => B[k] = Byte(k)
    BY <1>4, PlainTokens
<1>8. ASSUME UNCHANGED <<received, framing, content>>, broken' \in BOOLEAN, broken => broken',
             NEW p \in 0 .. c, p = offset', Stream(B, a, p)',
             writer' \in {"writing", "finished", "stopped", "failed"}, writer' = "finished" => broken',
             reader' \in {"rest", "ok", "failed"}, reader' = "ok" => inFlight' = <<>> /\ broken', reader' = "failed" => broken'
      PROVE  RestInv' /\ content' \in Nat /\ broken' \in BOOLEAN /\ framing' = "none"
  <2>1. Stream(PlainBody(content), a, offset)' /\ received' = BytesUpTo(a) /\ offset' \in 0 .. content'
      BY <1>2, <1>4, <1>5, <1>8, Zenon
  <2>2. RestAt(a)'
      BY <1>8, <2>1, Zenon DEF RestAt
  <2> QED
      BY <1>8, <2>2, Zenon DEF RestInv
<1>9. ASSUME NEW n \in 1 .. MaxWrite, ProviderWrites(n)
      PROVE  RestInv' /\ content' \in Nat /\ broken' \in BOOLEAN /\ framing' = "none"
  <2>1. UNCHANGED <<reader, remaining, received, framing, content>> /\ broken' = broken
      BY <1>9, Zenon DEF ProviderWrites, ReaderWaits
  <2>2. n \in Nat \ {0}
      BY BodyAssumption
  <2>3. PICK next \in {0, 3} : next = 0
      OBVIOUS
  <2>4. Stream(B, a, o + next) /\ (next = 3 => o = c)
      BY <1>5, <2>3
  <2>5. Stream(B, a, o + n)' /\ offset' = o + n /\ o + n <= c
      BY <1>2, <1>3, <1>4, <1>9, <2>2, <2>4, PlainWrites
  <2>6. PICK p \in 0 .. c : p = o + n
      BY <2>2, <2>5
  <2>7. Stream(B, a, p)' /\ p = offset'
      BY <2>5, <2>6
  <2>8. writer = "writing" /\ writer' = writer
      BY <1>9 DEF ProviderWrites
  <2>9. inFlight = <<>> /\ broken => inFlight' = <<>>
      BY <1>9, Zenon DEF ProviderWrites, Sends
  <2> QED
      BY <1>6, <1>8, <2>1, <2>7, <2>8, <2>9, Zenon
<1>10. ASSUME ProviderDone \/ \E how \in {"stopped", "failed"} : WriterGivesUp(how)
       PROVE  RestInv' /\ content' \in Nat /\ broken' \in BOOLEAN /\ framing' = "none"
  <2>1. /\ UNCHANGED <<reader, remaining, received, framing, content, offset>> /\ broken'
        /\ writer' \in {"finished", "stopped", "failed"}
        /\ inFlight' = inFlight \/ inFlight' = inFlight \o <<>>
      BY <1>10 DEF ProviderDone, WriterGivesUp, ReaderWaits, Sends
  <2>2. inFlight' = inFlight
    <3>1. inFlight \in Seq(Tokens)
        BY <1>5 DEF Stream
    <3> QED
        BY <2>1, <3>1, ConcatEmptySeq
  <2>3. Stream(B, a, o)'
      BY <1>5, <2>1, <2>2, StreamStays
  <2>4. o = offset' /\ writer' \in {"writing", "finished", "stopped", "failed"}
      BY <1>3, <2>1
  <2>5. broken' \in BOOLEAN
      BY <1>10 DEF ProviderDone, WriterGivesUp
  <2> QED
      BY <1>6, <1>8, <2>5, <2>4, <2>1, <2>2, <2>3, Zenon
<1>11. ASSUME NEW n \in 0 .. Len(inFlight), ConnectionBreaks(n)
       PROVE  RestInv' /\ content' \in Nat /\ broken' \in BOOLEAN /\ framing' = "none"
  <2>1. /\ UNCHANGED <<reader, remaining, received, framing, content, offset, writer>> /\ broken' = TRUE /\ ~broken
        /\ inFlight' = SubSeq(inFlight, 1, n)
      BY <1>11 DEF ConnectionBreaks, ReaderWaits
  <2>2. Stream(B, a, o)'
      BY <1>5, <2>1, StreamBreaks
  <2>3. o = offset'
      BY <1>3, <2>1
  <2> QED
      BY <1>6, <1>8, <2>1, <2>2, <2>3, Zenon
<1>12. ASSUME ReadRest
       PROVE  RestInv' /\ content' \in Nat /\ broken' \in BOOLEAN /\ framing' = "none"
  <2>1. UNCHANGED <<framing, content, offset, writer, broken>> /\ reader = "rest"
      BY <1>12, Zenon DEF ReadRest, WriterWaits
  <2>2. CASE inFlight = <<>>
    <3>1. broken /\ reader' = "ok" /\ UNCHANGED <<inFlight, received>>
        BY <1>12, <2>2 DEF ReadRest
    <3>2. Stream(B, a, o)'
        BY <1>5, <2>1, <3>1, StreamStays
    <3>3. o = offset'
        BY <1>3, <2>1
    <3> QED
        BY <1>6, <1>8, <2>1, <2>2, <3>1, <3>2, <3>3, Zenon
  <2>3. CASE inFlight # <<>>
    <3>1. inFlight' = Tail(inFlight) /\ received' = Append(received, Head(inFlight)) /\ reader' = "rest"
        BY <1>12, <2>1, <2>3 DEF ReadRest
    <3>2. Stream(B, a + 1, o)' /\ a + 1 <= o /\ Head(inFlight) = B[a + 1]
      <4>1. o \in Nat
          OBVIOUS
      <4>2. broken' = broken
          BY <2>1, Zenon
      <4> QED
          BY <1>5, <2>3, <3>1, <4>1, <4>2, ByteTaken
    <3>3. received' = BytesUpTo(a + 1)
      <4>1. a + 1 \in Nat /\ a + 1 <= c
          BY <3>2
      <4>2. B[a + 1] = Byte(a + 1)
          BY <1>7, <4>1
      <4> QED
          BY <1>5, <3>1, <3>2, <4>2, BytesGrow
    <3>4. Stream(PlainBody(content), a + 1, offset)' /\ offset' \in 0 .. content'
        BY <1>2, <1>3, <1>4, <2>1, <3>2, Zenon
    <3>5. RestAt(a + 1)'
      <4>1. a + 1 \in Nat
          OBVIOUS
      <4>2. /\ writer' \in {"writing", "finished", "stopped", "failed"} /\ (writer' = "finished" => broken')
            /\ reader' \in {"rest", "ok", "failed"} /\ reader' # "ok" /\ reader' # "failed"
          BY <1>6, <2>1, <3>1, Zenon
      <4> QED
          BY <3>3, <3>4, <4>1, <4>2, Zenon DEF RestAt
    <3>6. a + 1 \in Nat
        OBVIOUS
    <3> QED
        BY <2>1, <3>5, <3>6, Zenon DEF RestInv
  <2> QED
      BY <2>2, <2>3
<1>13. ASSUME ReadFails
       PROVE  RestInv' /\ content' \in Nat /\ broken' \in BOOLEAN /\ framing' = "none"
  <2>1. /\ UNCHANGED <<framing, content, offset, writer, inFlight, remaining, received>>
        /\ broken' = TRUE /\ reader' = "failed"
      BY <1>6, <1>13, Zenon DEF ReadFails
  <2>2. Stream(B, a, o)'
      BY <1>5, <2>1, StreamStays
  <2>3. o = offset'
      BY <1>3, <2>1
  <2> QED
      BY <1>6, <1>8, <2>1, <2>2, <2>3, Zenon
<1>14. ~ProviderWritesNothing /\ ~NextFollows
  <2>1. ~ProviderWritesNothing
      BY DEF ProviderWritesNothing
  <2>2. ~NextFollows
      BY <1>6, Zenon DEF NextFollows
  <2> QED
      BY <2>1, <2>2
<1>15. ~ReadSize /\ ~ReadChunkEnd /\ ~ReadLast /\ ~ReadByte
  <2>1. reader \notin {"size", "end", "last", "data", "skip"}
      BY <1>6, Zenon
  <2> QED
      BY <2>1 DEF ReadSize, ReadChunkEnd, ReadLast, ReadByte, ReadsLine
<1> QED
    BY <1>9, <1>10, <1>11, <1>12, <1>13, <1>14, <1>15 DEF BodyNext

-----------------------------------------------------------------------------
(* Bodies in chunks.                                                       *)

\* What has been sent and received of the body does not change where it is
\* kept: a chunk before the end stays where it is when more is sent.
LEMMA PlaceStays ==
    ASSUME content \in Nat, NEW T, NEW U, NEW C \in SUBSET (Nat \X Nat), NEW D \in SUBSET (Nat \X Nat), C \subseteq D,
           NEW end \in Nat, NEW at \in Nat, NEW p \in Nat, NEW b \in Nat,
           \A q \in Nat, k \in Nat : <<q, k>> \in C => q <= end,
           \A k \in Nat \ {0} : k <= end => U[k] = T[k],
           ChunkAt(T, C, p, b)
    PROVE  ChunkAt(U, D, p, b)
<1>1. PICK n \in Nat \ {0} :
          /\ T[p + 1] = SizeDigits(n) /\ T[p + 2] = Cr /\ T[p + 3] = Lf
          /\ \A j \in 1 .. n : T[p + 3 + j] = Byte(b + j)
          /\ T[p + 3 + n + 1] = Cr /\ T[p + 3 + n + 2] = Lf
          /\ <<p + 3 + n + 2, b + n>> \in C
    BY DEF ChunkAt
<1>2. p + 3 + n + 2 \in Nat /\ b + n \in Nat
    OBVIOUS
<1>3. p + 3 + n + 2 <= end
    BY <1>1, <1>2
<1>4. \A k \in 1 .. 3 + n + 2 : p + k \in Nat \ {0} /\ p + k <= end
    BY <1>3
<1>5. \A k \in 1 .. 3 + n + 2 : U[p + k] = T[p + k]
    BY <1>4
<1>6. /\ 1 \in 1 .. 3 + n + 2 /\ 2 \in 1 .. 3 + n + 2 /\ 3 \in 1 .. 3 + n + 2
      /\ 3 + n + 1 \in 1 .. 3 + n + 2 /\ 3 + n + 2 \in 1 .. 3 + n + 2
      /\ p + (3 + n + 1) = p + 3 + n + 1 /\ p + (3 + n + 2) = p + 3 + n + 2
    OBVIOUS
<1>7. U[p + 1] = SizeDigits(n) /\ U[p + 2] = Cr /\ U[p + 3] = Lf
    BY <1>1, <1>5, <1>6
<1>8. U[p + 3 + n + 1] = Cr /\ U[p + 3 + n + 2] = Lf
    BY <1>1, <1>5, <1>6
<1>9. \A j \in 1 .. n : U[p + 3 + j] = Byte(b + j)
  <2>1. \A j \in 1 .. n : 3 + j \in 1 .. 3 + n + 2 /\ p + (3 + j) = p + 3 + j
      OBVIOUS
  <2> QED
      BY <1>1, <1>5, <2>1
<1>10. <<p + 3 + n + 2, b + n>> \in D
    BY <1>1
<1> QED
    BY <1>7, <1>8, <1>9, <1>10 DEF ChunkAt

\* The reader stays where it is when more is sent.
LEMMA PlacedStays ==
    ASSUME content \in Nat, UNCHANGED <<content, reader, remaining, received>>,
           NEW T, NEW U, NEW C \in SUBSET (Nat \X Nat), NEW D \in SUBSET (Nat \X Nat), C \subseteq D,
           NEW end \in Nat, NEW later \in Nat, NEW at \in Nat,
           Len(received) \in Nat, remaining \in Nat,
           \A q \in Nat, k \in Nat : <<q, k>> \in C => q <= end,
           \A k \in Nat \ {0} : k <= end => U[k] = T[k],
           later = end \/ ~ChunksOver, ChunksOver => ChunksOver',
           ReaderPlaced(T, C, at, end)
    PROVE  ReaderPlaced(U, D, at, later)'
<1>1. PICK r \in Nat, m \in Nat : r = Len(received) /\ m = remaining
    OBVIOUS
<1>2. /\ reader = "size" => <<at, r>> \in C
      /\ reader = "data" => /\ m > 0
                            /\ \A j \in 1 .. m : T[at + j] = Byte(r + j)
                            /\ T[at + m + 1] = Cr /\ T[at + m + 2] = Lf
                            /\ <<at + m + 2, r + m>> \in C
      /\ reader = "end" => T[at + 1] = Cr /\ T[at + 2] = Lf /\ <<at + 2, r>> \in C
      /\ reader = "last" => T[at + 1] = Cr /\ T[at + 2] = Lf /\ end = at + 2 /\ r = content /\ ChunksOver
    BY <1>1, Zenon DEF ReaderPlaced
<1>3. /\ reader' = reader /\ remaining' = m /\ Len(received') = r /\ content' = content
    BY <1>1
<1>4. reader' = "size" => <<at, r>> \in D
    BY <1>2, <1>3
<1>5. reader' = "data" => /\ m > 0
                          /\ \A j \in 1 .. m : U[at + j] = Byte(r + j)
                          /\ U[at + m + 1] = Cr /\ U[at + m + 2] = Lf
                          /\ <<at + m + 2, r + m>> \in D
  <2>1. SUFFICES ASSUME reader = "data" PROVE /\ \A j \in 1 .. m : U[at + j] = Byte(r + j)
                                              /\ U[at + m + 1] = Cr /\ U[at + m + 2] = Lf
      BY <1>2, <1>3
  <2>2. <<at + m + 2, r + m>> \in C
      BY <1>2, <2>1
  <2>3. at + m + 2 \in Nat /\ r + m \in Nat
      OBVIOUS
  <2>4. at + m + 2 <= end
      BY <2>2, <2>3
  <2>5. /\ \A j \in 1 .. m : at + j \in Nat \ {0} /\ at + j <= end
        /\ at + m + 1 \in Nat \ {0} /\ at + m + 1 <= end
        /\ at + m + 2 \in Nat \ {0}
      BY <2>4
  <2> QED
      BY <1>2, <2>1, <2>4, <2>5
<1>6. reader' = "end" => U[at + 1] = Cr /\ U[at + 2] = Lf /\ <<at + 2, r>> \in D
  <2>1. SUFFICES ASSUME reader = "end" PROVE U[at + 1] = Cr /\ U[at + 2] = Lf
      BY <1>2, <1>3
  <2>2. <<at + 2, r>> \in C /\ at + 2 \in Nat
      BY <1>2, <2>1
  <2>3. at + 2 <= end
      BY <2>2
  <2>4. at + 1 \in Nat \ {0} /\ at + 1 <= end /\ at + 2 \in Nat \ {0}
      BY <2>3
  <2> QED
      BY <1>2, <2>1, <2>3, <2>4
<1>7. reader' = "last" => U[at + 1] = Cr /\ U[at + 2] = Lf /\ later = at + 2 /\ r = content' /\ ChunksOver'
  <2>1. SUFFICES ASSUME reader = "last" PROVE U[at + 1] = Cr /\ U[at + 2] = Lf /\ later = at + 2 /\ r = content /\ ChunksOver'
      BY <1>3
  <2>2. T[at + 1] = Cr /\ T[at + 2] = Lf /\ end = at + 2 /\ r = content /\ ChunksOver
      BY <1>2, <2>1
  <2>3. later = end /\ ChunksOver'
      BY <2>2
  <2>4. at + 1 \in Nat \ {0} /\ at + 1 <= end /\ at + 2 \in Nat \ {0} /\ at + 2 <= end
      BY <2>2
  <2> QED
      BY <2>2, <2>3, <2>4
<1> QED
    BY <1>3, <1>4, <1>5, <1>6, <1>7, Zenon DEF ReaderPlaced

\* What a step leaves of the places that sends nothing.
LEMMA ChunksKept ==
    ASSUME content' = content, NEW T, NEW C, NEW at \in Nat, NEW end \in Nat, NEW next \in {0, 3},
           Chunks(T, C, at, end, next), NEW farther \in Nat, Stream(T, farther, end + next)',
           \/ broken'
           \/ offset' = offset /\ broken' = broken /\ writer' \in {writer, "emptied"},
           inFlight' # <<>> \/ ~broken' => ReaderPlaced(T, C, farther, end)'
    PROVE  Chunks(T, C, farther, end, next)'
<1>1. ChunksOver => ChunksOver'
    BY DEF ChunksOver
<1>2. ~ChunksOver' => ~ChunksOver /\ offset' = offset
    BY DEF ChunksOver
<1>3. ASSUME NEW p, NEW b, LastAt(T, end, p, b) PROVE LastAt(T, end, p, b)'
    BY <1>1, <1>3 DEF LastAt
<1>4. ASSUME NEW p, NEW b, EndAt(end, p, b) PROVE EndAt(end, p, b)'
    BY <1>2, <1>4 DEF EndAt
<1>5. ASSUME NEW p \in Nat, NEW b \in Nat, <<p, b>> \in C
      PROVE  /\ p <= end /\ b <= content'
             /\ ChunkAt(T, C, p, b) \/ LastAt(T, end, p, b)' \/ EndAt(end, p, b)'
  <2>1. p <= end /\ b <= content /\ (ChunkAt(T, C, p, b) \/ LastAt(T, end, p, b) \/ EndAt(end, p, b))
      BY <1>5, Zenon DEF Chunks
  <2> QED
      BY <1>3, <1>4, <2>1, Zenon
<1>6. \A p, b : ChunkAt(T, C, p, b)' <=> ChunkAt(T, C, p, b)
    BY DEF ChunkAt
<1>7. C \in SUBSET (Nat \X Nat) /\ (next = 3 => ChunksOver /\ T[end + 1] = NextMessage[1] /\ T[end + 2] = Cr /\ T[end + 3] = Lf)
    BY Zenon DEF Chunks
<1>8. ~ChunksOver' => <<end, offset'>> \in C
    BY <1>2, Zenon DEF Chunks
<1> QED
    BY <1>1, <1>5, <1>6, <1>7, <1>8, Zenon DEF Chunks

\* A body that goes on: a chunk is written, or the last one, where it ended.
LEMMA ChunksGrow ==
    ASSUME content \in Nat, content' = content, NEW T, NEW U \in [Nat -> Tokens],
           NEW C, NEW D \in SUBSET (Nat \X Nat), C \subseteq D,
           NEW at \in Nat, NEW end \in Nat, NEW later \in Nat, end <= later, later # end,
           Chunks(T, C, at, end, 0), ~ChunksOver, ~broken, Stream(U, at, later)',
           \A k \in Nat \ {0} : k <= end => U[k] = T[k],
           UNCHANGED <<reader, remaining, received>>, Len(received) \in Nat, remaining \in Nat,
           NEW o, o = offset, ChunkAt(U, D, end, o) \/ LastAt(U, later, end, o)',
           \A q \in Nat, k \in Nat : <<q, k>> \in D =>
               <<q, k>> \in C \/ (q = later /\ k = offset' /\ EndAt(later, q, k)'),
           offset' <= content, ~ChunksOver' => <<later, offset'>> \in D
    PROVE  Chunks(U, D, at, later, 0)'
<1>1. /\ C \in SUBSET (Nat \X Nat) /\ ReaderPlaced(T, C, at, end)
      /\ \A p \in Nat, b \in Nat : <<p, b>> \in C =>
             p <= end /\ b <= content /\ (ChunkAt(T, C, p, b) \/ LastAt(T, end, p, b) \/ EndAt(end, p, b))
    BY Zenon DEF Chunks
<1>2. \A p \in Nat, b \in Nat : <<p, b>> \in C => p <= end
    BY <1>1
<1>3. ReaderPlaced(U, D, at, later)'
  <2>1. ChunksOver => ChunksOver'
      OBVIOUS
  <2>2. UNCHANGED <<content, reader, remaining, received>>
      OBVIOUS
  <2> QED
      BY <1>1, <1>2, <2>1, <2>2, PlacedStays
<1>4. ASSUME NEW p \in Nat, NEW b \in Nat, <<p, b>> \in C
      PROVE  p <= later /\ b <= content' /\ (ChunkAt(U, D, p, b) \/ LastAt(U, later, p, b)' \/ EndAt(later, p, b)')
  <2>1. p <= end /\ b <= content /\ (ChunkAt(T, C, p, b) \/ LastAt(T, end, p, b) \/ EndAt(end, p, b))
      BY <1>1, <1>4
  <2>2. CASE ChunkAt(T, C, p, b)
    <3>1. ChunkAt(U, D, p, b)
        BY <1>1, <1>2, <2>2, PlaceStays
    <3> QED
        BY <2>1, <3>1
  <2>3. ~LastAt(T, end, p, b)
      BY DEF LastAt
  <2>4. CASE EndAt(end, p, b)
    <3>1. p = end /\ b = o
        BY <2>4 DEF EndAt
    <3> QED
        BY <2>1, <3>1
  <2> QED
      BY <2>1, <2>2, <2>3, <2>4
<1>5. ASSUME NEW p \in Nat, NEW b \in Nat, <<p, b>> \in D
      PROVE  p <= later /\ b <= content' /\ (ChunkAt(U, D, p, b) \/ LastAt(U, later, p, b)' \/ EndAt(later, p, b)')
    BY <1>4, <1>5
<1>6. \A p, b : ChunkAt(U, D, p, b)' <=> ChunkAt(U, D, p, b)
    BY DEF ChunkAt
<1>7. Stream(U, at, later + 0)'
    OBVIOUS
<1>8. 0 # 3
    OBVIOUS
<1> QED
    BY <1>3, <1>5, <1>6, <1>7, <1>8, Zenon DEF Chunks

\* The tokens of a stream with new ones behind its end.
Extended(T, end, bytes) ==
    [k \in Nat |-> IF end < k /\ k <= end + Len(bytes) THEN bytes[k - end] ELSE T[k]]

\* They are the old ones up to the end, and the new ones behind it.
LEMMA ExtendedIs ==
    ASSUME NEW T \in [Nat -> Tokens], NEW end \in Nat, NEW bytes \in Seq(Tokens)
    PROVE  \E U \in [Nat -> Tokens] : /\ \A k \in Nat : k <= end => U[k] = T[k]
                                      /\ \A j \in 1 .. Len(bytes) : U[end + j] = bytes[j]
<1> DEFINE n == Len(bytes)
<1>0. PICK U : U = Extended(T, end, bytes)
    OBVIOUS
<1>1. \A k \in Nat : U[k] = IF end < k /\ k <= end + n THEN bytes[k - end] ELSE T[k]
    BY <1>0 DEF Extended
<1>2. ASSUME NEW k \in Nat PROVE U[k] \in Tokens
  <2>1. CASE end < k /\ k <= end + n
    <3>1. k - end \in 1 .. n
        BY <2>1
    <3> QED
        BY <1>1, <2>1, <3>1, ElementOfSeq
  <2>2. CASE ~(end < k /\ k <= end + n)
      BY <1>1, <2>2
  <2> QED
      BY <2>1, <2>2
<1>3. U \in [Nat -> Tokens]
    BY <1>0, <1>2 DEF Extended
<1>4. \A k \in Nat : k <= end => U[k] = T[k]
    BY <1>1
<1>5. ASSUME NEW j \in 1 .. n PROVE U[end + j] = bytes[j]
  <2>1. end + j \in Nat /\ end < end + j /\ end + j <= end + n /\ (end + j) - end = j
      OBVIOUS
  <2> QED
      BY <1>1, <2>1
<1> QED
    BY <1>3, <1>4, <1>5

\* Nothing is sent and the reader waits.
LEMMA ChunksRest ==
    ASSUME content \in Nat, UNCHANGED <<content, reader, remaining, received>>,
           NEW T, NEW C, NEW at \in Nat, NEW end \in Nat, NEW next \in {0, 3},
           Chunks(T, C, at, end, next), Stream(T, at, end + next)', Len(received) \in Nat, remaining \in Nat,
           \/ broken'
           \/ offset' = offset /\ broken' = broken /\ writer' \in {writer, "emptied"},
           inFlight' # <<>> \/ ~broken' => inFlight # <<>> \/ ~broken
    PROVE  Chunks(T, C, at, end, next)'
<1>1. ChunksOver => ChunksOver'
    BY DEF ChunksOver
<1>2. C \in SUBSET (Nat \X Nat) /\ \A q \in Nat, k \in Nat : <<q, k>> \in C => q <= end
    BY Zenon DEF Chunks
<1>3. ASSUME inFlight' # <<>> \/ ~broken' PROVE ReaderPlaced(T, C, at, end)'
  <2>1. ReaderPlaced(T, C, at, end)
      BY <1>3, Zenon DEF Chunks
  <2>2. UNCHANGED <<content, reader, remaining, received>>
      OBVIOUS
  <2> QED
      BY <1>1, <1>2, <2>1, <2>2, PlacedStays
<1>4. content' = content
    OBVIOUS
<1> QED
    BY <1>3, <1>4, ChunksKept

\* The rest of what there is to say of such a body when the reader waits.
LEMMA EndsKept ==
    ASSUME ChunkedEnds, UNCHANGED <<content, reader, remaining, received>>, offset' \in 0 .. content,
           writer' \in {"writing", "finished", "emptied", "stopped", "failed"},
           ChunksOver => ChunksOver', broken => broken', writer = "emptied" => writer' = "emptied" \/ broken',
           reader = "ok" /\ inFlight' # <<>> => inFlight # <<>> /\ inFlight'[1] = inFlight[1]
    PROVE  ChunkedEnds'
<1>1. /\ reader' = reader /\ remaining' = remaining /\ received' = received /\ content' = content
    BY Zenon
<1>2. /\ remaining \in Nat /\ received = BytesUpTo(Len(received)) /\ Len(received) \in 0 .. content
      /\ reader \in {"size", "data", "end", "last", "ok", "failed", "torn"}
      /\ reader = "ok" => Len(received) = content /\ ChunksOver /\ (inFlight # <<>> => inFlight[1] = NextMessage[1])
      /\ reader = "failed" => broken \/ writer = "emptied"
      /\ reader = "torn" => broken
    BY Zenon DEF ChunkedEnds
<1> QED
    BY <1>1, <1>2, Zenon DEF ChunkedEnds

\* Steps of the writer and of the network in a body in chunks.
LEMMA ChunkedWrites ==
    ASSUME content \in Nat, broken \in BOOLEAN, framing = "chunked", ChunkedInv,
           \/ \E n \in 1 .. MaxWrite : ProviderWrites(n)
           \/ ProviderWritesNothing \/ ProviderDone
           \/ \E how \in {"stopped", "failed"} : WriterGivesUp(how)
           \/ NextFollows
           \/ \E n \in 0 .. Len(inFlight) : ConnectionBreaks(n)
    PROVE  ChunkedInv'
<1>1. PICK T, C : \E at \in Nat, end \in Nat, next \in {0, 3} : Chunks(T, C, at, end, next)
    BY DEF ChunkedInv
<1>2. PICK at \in Nat, end \in Nat, next \in {0, 3} : Chunks(T, C, at, end, next)
    BY <1>1
<1>3. ChunkedEnds
    BY DEF ChunkedInv
<1>4. /\ offset \in 0 .. content /\ remaining \in Nat /\ Len(received) \in 0 .. content
      /\ writer \in {"writing", "finished", "emptied", "stopped", "failed"}
      /\ reader = "ok" => ChunksOver
    BY <1>3, Zenon DEF ChunkedEnds
<1>5. PICK o \in Nat : o = offset
    BY <1>4
<1>6. UNCHANGED <<content, reader, remaining, received>>
    BY ReaderLeft
<1>7. Stream(T, at, end + next) /\ end + next \in Nat
    BY <1>2 DEF Chunks
<1>8. ASSUME NEW U, NEW D, NEW later \in Nat, NEW m \in {0, 3}, Chunks(U, D, at, later, m)', ChunkedEnds' PROVE ChunkedInv'
    BY <1>8, Zenon DEF ChunkedInv
<1>9. C \in SUBSET (Nat \X Nat) /\ T \in [Nat -> Tokens] /\ (~ChunksOver => <<end, o>> \in C)
  <2>1. C \in SUBSET (Nat \X Nat) /\ (~ChunksOver => <<end, o>> \in C)
      BY <1>2, <1>5, Zenon DEF Chunks
  <2>2. T \in [Nat -> Tokens]
      BY <1>7 DEF Stream
  <2> QED
      BY <2>1, <2>2
<1>10. next = 3 => ChunksOver /\ T[end + 1] = NextMessage[1] /\ T[end + 2] = Cr /\ T[end + 3] = Lf
    BY <1>2, Zenon DEF Chunks
\* Nothing is sent, because the connection has broken.
<1>11. ASSUME broken', inFlight' = inFlight, offset' \in 0 .. content,
              writer' \in {"writing", "finished", "emptied", "stopped", "failed"}
       PROVE  ChunkedInv'
  <2>1. Stream(T, at, end + next)'
      BY <1>7, <1>11, StreamStays
  <2>2. inFlight' # <<>> \/ ~broken' => inFlight # <<>> \/ ~broken
      BY <1>11, Zenon
  <2>3. Chunks(T, C, at, end, next)'
      BY <1>2, <1>4, <1>6, <1>11, <2>1, <2>2, ChunksRest
  <2>4. ChunkedEnds'
    <3>1. ChunksOver'
        BY <1>11, Zenon DEF ChunksOver
    <3> QED
        BY <1>3, <1>6, <1>11, <3>1, EndsKept, Zenon
  <2> QED
      BY <1>8, <2>3, <2>4
<1>12. ASSUME NEW n \in 1 .. MaxWrite, ProviderWrites(n) PROVE ChunkedInv'
  <2>1. writer = "writing" /\ writer' = writer /\ broken' = broken /\ offset' = offset + n /\ offset + n <= content
      BY <1>12 DEF ProviderWrites
  <2>2. n \in Nat \ {0} /\ offset' \in 0 .. content /\ offset' = o + n /\ o + n <= content
      BY <1>4, <1>5, <2>1, BodyAssumption
  <2>3. CASE broken
    <3>1. inFlight' = inFlight
        BY <1>12, <2>3, Zenon DEF ProviderWrites, Sends
    <3>2. broken' /\ writer' \in {"writing", "finished", "emptied", "stopped", "failed"}
        BY <2>1, <2>3, Zenon
    <3> QED
        BY <1>11, <2>2, <3>1, <3>2
  <2>4. CASE ~broken
    <3>1. ~ChunksOver /\ next = 0 /\ ~broken'
        BY <1>10, <2>1, <2>4 DEF ChunksOver
    <3>2. PICK bytes \in Seq(Tokens) :
              /\ bytes = SubSeq(BytesUpTo(content), o + 1, o + n)
              /\ Len(bytes) = n /\ \A j \in 1 .. n : bytes[j] = Byte(o + j)
      <4>1. PICK total \in Nat : total = content
          OBVIOUS
      <4>2. o \in Nat /\ n \in Nat /\ o + n <= total
          BY <2>2, <4>1
      <4>3. PICK given : given = Given(total, o, n)
          OBVIOUS
      <4>4. given \in Seq(Tokens) /\ Len(given) = n /\ \A j \in 1 .. n : given[j] = Byte(o + j)
          BY <4>2, <4>3, BytesGiven
      <4> QED
          BY <4>1, <4>3, <4>4 DEF Given
    <3>3. PICK all : all = Chunk(bytes)
        OBVIOUS
    <3>4. Sends(all)
        BY <1>5, <1>12, <3>2, <3>3 DEF ProviderWrites
    <3>5. /\ all \in Seq(Tokens) /\ Len(all) = n + 5
          /\ all[1] = SizeDigits(n) /\ all[2] = Cr /\ all[3] = Lf
          /\ \A j \in 1 .. n : all[3 + j] = Byte(o + j)
          /\ all[n + 4] = Cr /\ all[n + 5] = Lf
      <4>1. n \in Nat
          BY <2>2
      <4> QED
          BY <3>2, <3>3, <4>1, ChunkIs
    <3>6. PICK m \in Nat : m = n + 5
        BY <2>2
    <3>7. T \in [Nat -> Tokens] /\ all \in Seq(Tokens) /\ Len(all) = m
        BY <1>9, <3>5, <3>6
    <3>8. PICK U \in [Nat -> Tokens] : /\ \A k \in Nat : k <= end => U[k] = T[k]
                                      /\ \A j \in 1 .. m : U[end + j] = all[j]
      <4>1. \E U \in [Nat -> Tokens] : /\ \A k \in Nat : k <= end => U[k] = T[k]
                                      /\ \A j \in 1 .. Len(all) : U[end + j] = all[j]
          BY <3>7, ExtendedIs, ZenonT(40)
      <4> QED
          BY <3>7, <4>1
    <3>9. Stream(U, at, end + m)'
      <4>1. Stream(T, at, end)
          BY <1>7, <3>1
      <4>2. \A k \in 1 .. end : U[k] = T[k]
          BY <3>8
      <4> QED
          BY <2>4, <3>4, <3>5, <3>7, <3>8, <4>1, <4>2, StreamSends, ZenonT(40)
    <3>10. PICK later \in Nat : later = end + m
        BY <3>6
    <3>11. PICK D : D = C \cup {<<later, o + n>>}
        OBVIOUS
    <3>12. D \in SUBSET (Nat \X Nat) /\ C \subseteq D
        BY <1>9, <2>2, <3>11
    <3>13. ChunkAt(U, D, end, o)
      <4>1. \A j \in 1 .. m : U[end + j] = all[j]
          BY <3>8
      <4>2. /\ 1 \in 1 .. m /\ 2 \in 1 .. m /\ 3 \in 1 .. m /\ n + 4 \in 1 .. m /\ n + 5 \in 1 .. m
            /\ end + (n + 4) = end + 3 + n + 1 /\ end + (n + 5) = end + 3 + n + 2
            /\ later = end + 3 + n + 2
          BY <2>2, <3>6, <3>10
      <4>3. U[end + 1] = SizeDigits(n) /\ U[end + 2] = Cr /\ U[end + 3] = Lf
          BY <3>5, <4>1, <4>2
      <4>4. U[end + 3 + n + 1] = Cr /\ U[end + 3 + n + 2] = Lf
          BY <3>5, <4>1, <4>2
      <4>5. \A j \in 1 .. n : U[end + 3 + j] = Byte(o + j)
        <5>1. \A j \in 1 .. n : 3 + j \in 1 .. m /\ end + (3 + j) = end + 3 + j
            BY <2>2, <3>6
        <5> QED
            BY <3>5, <4>1, <5>1
      <4>6. <<end + 3 + n + 2, o + n>> \in D
          BY <3>11, <4>2
      <4> QED
          BY <2>2, <4>3, <4>4, <4>5, <4>6 DEF ChunkAt
    <3>14. EndAt(later, later, o + n)' /\ <<later, offset'>> \in D
        BY <2>1, <2>2, <3>11 DEF EndAt, ChunksOver
    <3>15. \A q \in Nat, k \in Nat : <<q, k>> \in D =>
               <<q, k>> \in C \/ (q = later /\ k = offset' /\ EndAt(later, q, k)')
        BY <2>2, <3>11, <3>14
    <3>16. Chunks(U, D, at, later, 0)'
      <4>1. /\ Chunks(T, C, at, end, 0) /\ Stream(U, at, later)' /\ end <= later /\ later # end
            /\ \A k \in Nat \ {0} : k <= end => U[k] = T[k]
          BY <1>2, <3>1, <3>6, <3>8, <3>9, <3>10
      <4>2. offset' <= content /\ content' = content /\ Len(received) \in Nat /\ remaining \in Nat
            /\ UNCHANGED <<reader, remaining, received>> /\ (~ChunksOver' => <<later, offset'>> \in D)
          BY <1>4, <1>6, <2>2, <3>14
      <4> QED
          BY <1>5, <2>4, <3>1, <3>8, <3>12, <3>13, <3>15, <4>1, <4>2, ChunksGrow
    <3>17. ChunkedEnds'
      <4>1. reader # "ok"
          BY <1>4, <3>1
      <4>2. writer' = "writing" /\ (ChunksOver => ChunksOver') /\ writer # "emptied"
          BY <2>1, <3>1
      <4> QED
          BY <1>3, <1>6, <2>2, <2>4, <4>1, <4>2, EndsKept, Zenon
    <3> QED
        BY <1>8, <3>16, <3>17
  <2> QED
      BY <2>3, <2>4
<1>13. ASSUME ProviderWritesNothing PROVE ChunkedInv'
  <2>1. /\ UNCHANGED <<offset, inFlight, broken>> /\ writer = "writing" /\ writer' = "emptied"
      BY <1>13 DEF ProviderWritesNothing
  <2>2. Stream(T, at, end + next)'
    <3>1. inFlight' = inFlight /\ (broken => broken') /\ (~broken => ~broken')
        BY <2>1, Zenon
    <3>2. CASE broken
        BY <1>7, <3>1, <3>2, StreamStays
    <3>3. CASE ~broken
        BY <1>7, <3>1, <3>3, StreamStays
    <3> QED
        BY <3>2, <3>3
  <2>3. /\ inFlight' # <<>> \/ ~broken' => inFlight # <<>> \/ ~broken
        /\ offset' = offset /\ broken' = broken /\ writer' \in {writer, "emptied"}
      BY <2>1, Zenon
  <2>4. Chunks(T, C, at, end, next)'
      BY <1>2, <1>4, <1>6, <2>2, <2>3, ChunksRest
  <2>5. ChunkedEnds'
    <3>1. (ChunksOver => ChunksOver') /\ writer # "emptied"
        BY <2>1 DEF ChunksOver
    <3>2. /\ offset' \in 0 .. content /\ writer' \in {"writing", "finished", "emptied", "stopped", "failed"}
          /\ (broken => broken') /\ inFlight' = inFlight
        BY <1>4, <2>1, Zenon
    <3> QED
        BY <1>3, <1>6, <3>1, <3>2, EndsKept, Zenon
  <2> QED
      BY <1>8, <2>4, <2>5
<1>14. ASSUME NEW how \in {"stopped", "failed"}, WriterGivesUp(how) PROVE ChunkedInv'
  <2>1. broken' /\ inFlight' = inFlight /\ offset' = offset /\ writer' = how
      BY <1>14 DEF WriterGivesUp
  <2>2. writer' \in {"writing", "finished", "emptied", "stopped", "failed"} /\ offset' \in 0 .. content
      BY <1>4, <2>1
  <2> QED
      BY <1>11, <2>1, <2>2
<1>15. ASSUME NEW n \in 0 .. Len(inFlight), ConnectionBreaks(n) PROVE ChunkedInv'
  <2>1. broken' = TRUE /\ ~broken /\ inFlight' = SubSeq(inFlight, 1, n) /\ offset' = offset /\ writer' = writer
      BY <1>15 DEF ConnectionBreaks
  <2>2. Stream(T, at, end + next)' /\ Len(inFlight') = n /\ (n > 0 => inFlight'[1] = inFlight[1])
      BY <1>7, <2>1, StreamBreaks
  <2>3. inFlight' # <<>> => inFlight # <<>> /\ inFlight'[1] = inFlight[1]
    <3>1. inFlight \in Seq(Tokens) /\ inFlight' \in Seq(Tokens)
        BY <1>7, <2>2 DEF Stream
    <3>2. ASSUME inFlight' # <<>> PROVE n > 0 /\ inFlight # <<>>
        BY <2>2, <3>1, <3>2, EmptySeq
    <3> QED
        BY <2>2, <3>2
  <2>4. Chunks(T, C, at, end, next)'
    <3>1. broken' /\ (inFlight' # <<>> \/ ~broken' => inFlight # <<>> \/ ~broken)
        BY <2>1, <2>3, Zenon
    <3> QED
        BY <1>2, <1>4, <1>6, <2>2, <3>1, ChunksRest
  <2>5. ChunkedEnds'
    <3>1. ChunksOver' /\ broken'
        BY <2>1, Zenon DEF ChunksOver
    <3>2. offset' \in 0 .. content /\ writer' \in {"writing", "finished", "emptied", "stopped", "failed"}
        BY <1>4, <2>1, Zenon
    <3> QED
        BY <1>3, <1>6, <2>3, <3>1, <3>2, EndsKept, Zenon
  <2> QED
      BY <1>8, <2>4, <2>5

<1>16. ASSUME ProviderDone PROVE ChunkedInv'
  <2>1. /\ writer = "writing" /\ writer' = "finished" /\ offset' = offset /\ offset = content
        /\ Sends(<<SizeDigits(0)>> \o Crlf \o Crlf)
      BY <1>16 DEF ProviderDone
  <2>2. (broken => broken') /\ (~broken => ~broken')
      BY <1>16, Zenon DEF ProviderDone
  <2>3. offset' \in 0 .. content
      BY <1>4, <2>1
  <2>4. CASE broken
    <3>1. inFlight' = inFlight
        BY <2>1, <2>4, Zenon DEF Sends
    <3>2. broken' /\ writer' \in {"writing", "finished", "emptied", "stopped", "failed"}
        BY <2>1, <2>2, <2>4, Zenon
    <3> QED
        BY <1>11, <2>3, <3>1, <3>2
  <2>5. CASE ~broken
    <3>1. ~ChunksOver /\ next = 0 /\ ChunksOver'
        BY <1>10, <2>1, <2>5 DEF ChunksOver
    <3>2. PICK all : all = <<SizeDigits(0)>> \o Crlf \o Crlf
        OBVIOUS
    <3>3. PICK m \in Nat : m = 5
        OBVIOUS
    <3>4. /\ all \in Seq(Tokens) /\ Len(all) = m
          /\ all[1] = SizeDigits(0) /\ all[2] = Cr /\ all[3] = Lf /\ all[4] = Cr /\ all[5] = Lf
        BY <3>2, <3>3, LastIs
    <3>5. T \in [Nat -> Tokens] /\ all \in Seq(Tokens) /\ Len(all) = m
        BY <1>9, <3>4
    <3>6. PICK U \in [Nat -> Tokens] : /\ \A k \in Nat : k <= end => U[k] = T[k]
                                      /\ \A j \in 1 .. m : U[end + j] = all[j]
      <4>1. \E U \in [Nat -> Tokens] : /\ \A k \in Nat : k <= end => U[k] = T[k]
                                      /\ \A j \in 1 .. Len(all) : U[end + j] = all[j]
          BY <3>5, ExtendedIs, ZenonT(40)
      <4> QED
          BY <3>5, <4>1
    <3>7. Stream(U, at, end + m)'
      <4>1. Stream(T, at, end)
          BY <1>7, <3>1
      <4>2. \A k \in 1 .. end : U[k] = T[k]
          BY <3>6
      <4>3. Sends(all)
          BY <2>1, <3>2
      <4> QED
          BY <2>5, <3>4, <3>6, <4>1, <4>2, <4>3, StreamSends
    <3>8. PICK later \in Nat : later = end + m
        BY <3>3
    <3>9. LastAt(U, later, end, o)'
      <4>1. U[end + 1] = SizeDigits(0) /\ U[end + 2] = Cr /\ U[end + 3] = Lf /\ U[end + 4] = Cr /\ U[end + 5] = Lf
          BY <3>3, <3>4, <3>6
      <4>2. later = end + 5 /\ o = content'
          BY <1>5, <1>6, <2>1, <3>3, <3>8
      <4> QED
          BY <3>1, <4>1, <4>2, Zenon DEF LastAt
    <3>10. Chunks(U, C, at, later, 0)'
      <4>1. /\ Chunks(T, C, at, end, 0) /\ Stream(U, at, later)' /\ end <= later /\ later # end
            /\ \A k \in Nat \ {0} : k <= end => U[k] = T[k]
          BY <1>2, <3>1, <3>3, <3>6, <3>7, <3>8, SMTT(30)
      <4>2. offset' <= content /\ content' = content /\ Len(received) \in Nat /\ remaining \in Nat
            /\ UNCHANGED <<reader, remaining, received>> /\ (~ChunksOver' => <<later, offset'>> \in C)
          BY <1>4, <1>6, <2>3, <3>1
      <4>3. C \subseteq C /\ \A q \in Nat, k \in Nat : <<q, k>> \in C =>
               <<q, k>> \in C \/ (q = later /\ k = offset' /\ EndAt(later, q, k)')
          OBVIOUS
      <4> QED
          BY <1>5, <1>9, <2>5, <3>1, <3>6, <3>9, <4>1, <4>2, <4>3, ChunksGrow
    <3>11. ChunkedEnds'
      <4>1. reader # "ok"
          BY <1>4, <3>1
      <4>2. writer # "emptied" /\ writer' \in {"writing", "finished", "emptied", "stopped", "failed"}
          BY <2>1
      <4> QED
          BY <1>3, <1>6, <2>3, <2>5, <3>1, <4>1, <4>2, EndsKept, Zenon
    <3> QED
        BY <1>8, <3>10, <3>11
  <2> QED
      BY <2>4, <2>5
<1>17. ASSUME NextFollows PROVE ChunkedInv'
  <2>1. /\ writer \in {"finished", "emptied"} /\ ~broken
        /\ reader \notin {"ok", "failed", "torn", "too large"}
        /\ writer' = writer /\ offset' = offset /\ broken' = broken
      BY <1>17, Zenon DEF NextFollows
  <2>2. ChunksOver /\ ChunksOver'
      BY <2>1 DEF ChunksOver
  <2>3. ReaderPlaced(T, C, at, end)
      BY <1>2, <2>1, Zenon DEF Chunks
  <2>4. \A q \in Nat, k \in Nat : <<q, k>> \in C => q <= end
      BY <1>2, Zenon DEF Chunks
  <2>5. at <= end
    <3>1. reader \in {"size", "data", "end", "last"}
        BY <1>3, <2>1, Zenon DEF ChunkedEnds
    <3>2. PICK r \in Nat, m \in Nat : r = Len(received) /\ m = remaining
        BY <1>4
    <3>3. /\ reader = "size" => <<at, r>> \in C
          /\ reader = "data" => <<at + m + 2, r + m>> \in C
          /\ reader = "end" => <<at + 2, r>> \in C
          /\ reader = "last" => end = at + 2
        BY <2>3, <3>2, Zenon DEF ReaderPlaced
    <3>4. at + m + 2 \in Nat /\ r + m \in Nat /\ at + 2 \in Nat
        BY <3>2
    <3> QED
        BY <2>4, <3>1, <3>2, <3>3, <3>4
  <2>6. PICK all : all = NextMessage
      OBVIOUS
  <2>7. PICK m \in Nat : m = 3
      OBVIOUS
  <2>8. all \in Seq(Tokens) /\ Len(all) = m /\ all[1] = NextMessage[1] /\ all[2] = Cr /\ all[3] = Lf
      BY <2>6, <2>7, TokensSent
  <2>9. T \in [Nat -> Tokens] /\ all \in Seq(Tokens) /\ Len(all) = m
      BY <1>9, <2>8
  <2>10. PICK U \in [Nat -> Tokens] : /\ \A k \in Nat : k <= end => U[k] = T[k]
                                     /\ \A j \in 1 .. m : U[end + j] = all[j]
    <3>1. \E U \in [Nat -> Tokens] : /\ \A k \in Nat : k <= end => U[k] = T[k]
                                    /\ \A j \in 1 .. Len(all) : U[end + j] = all[j]
        BY <2>9, ExtendedIs
    <3> QED
        BY <2>9, <3>1
  <2>11. U[end + 1] = NextMessage[1] /\ U[end + 2] = Cr /\ U[end + 3] = Lf
      BY <2>7, <2>8, <2>10
  <2>12. Stream(U, at, end + 3)'
    <3>1. \A k \in 1 .. end : U[k] = T[k]
        BY <2>10
    <3>2. next = 3 => T[end + 1] = NextMessage[1]
        BY <1>10
    <3> QED
        BY <1>7, <1>17, <2>5, <2>11, <3>1, <3>2, NextSent, ZenonT(40)
  <2>13. \A k \in Nat \ {0} : k <= end => U[k] = T[k]
      BY <2>10
  <2>14. ReaderPlaced(U, C, at, end)'
    <3>1. Len(received) \in Nat
        BY <1>4
    <3> QED
        BY <1>4, <1>6, <1>9, <2>2, <2>3, <2>4, <2>13, <3>1, PlacedStays
  <2>15. ASSUME NEW p \in Nat, NEW b \in Nat, <<p, b>> \in C
         PROVE  p <= end /\ b <= content' /\ (ChunkAt(U, C, p, b) \/ LastAt(U, end, p, b)' \/ EndAt(end, p, b)')
    <3>1. p <= end /\ b <= content /\ (ChunkAt(T, C, p, b) \/ LastAt(T, end, p, b) \/ EndAt(end, p, b))
        BY <1>2, <2>15, Zenon DEF Chunks
    <3>2. CASE ChunkAt(T, C, p, b)
      <4>1. ChunkAt(U, C, p, b)
          BY <1>9, <2>4, <2>13, <3>2, PlaceStays
      <4> QED
          BY <1>6, <3>1, <4>1
    <3>3. CASE LastAt(T, end, p, b)
      <4>1. /\ T[p + 1] = SizeDigits(0) /\ T[p + 2] = Cr /\ T[p + 3] = Lf /\ T[p + 4] = Cr /\ T[p + 5] = Lf
            /\ end = p + 5 /\ b = content
          BY <3>3, Zenon DEF LastAt
      <4>2. /\ U[p + 1] = SizeDigits(0) /\ U[p + 2] = Cr /\ U[p + 3] = Lf /\ U[p + 4] = Cr /\ U[p + 5] = Lf
            /\ b = content'
        <5>1. \A j \in 1 .. 5 : p + j \in Nat /\ p + j <= end
            BY <4>1
        <5>2. \A j \in 1 .. 5 : U[p + j] = T[p + j]
            BY <2>10, <5>1
        <5> QED
            BY <1>6, <4>1, <5>2
      <4>3. LastAt(U, end, p, b)'
          BY <2>2, <4>1, <4>2, Zenon DEF LastAt
      <4> QED
          BY <1>6, <3>1, <4>3
    <3>4. CASE EndAt(end, p, b)
      <4>1. EndAt(end, p, b)'
          BY <2>1, <2>2, <3>4, Zenon DEF EndAt
      <4> QED
          BY <1>6, <3>1, <4>1
    <3> QED
        BY <3>1, <3>2, <3>3, <3>4
  <2>16. \A p, b : ChunkAt(U, C, p, b)' <=> ChunkAt(U, C, p, b)
      BY DEF ChunkAt
  <2>17. Chunks(U, C, at, end, 3)'
      BY <1>9, <2>2, <2>11, <2>12, <2>14, <2>15, <2>16, Zenon DEF Chunks
  <2>18. ChunkedEnds'
    <3>1. /\ reader # "ok" /\ (ChunksOver => ChunksOver') /\ (broken => broken') /\ (writer = "emptied" => writer' = "emptied")
          /\ offset' \in 0 .. content /\ writer' \in {"writing", "finished", "emptied", "stopped", "failed"}
        BY <1>4, <2>1, <2>2, Zenon
    <3> QED
        BY <1>3, <1>6, <3>1, EndsKept, Zenon
  <2>19. 3 \in {0, 3}
      OBVIOUS
  <2> QED
      BY <1>8, <2>17, <2>18, <2>19, Zenon
<1> QED
    BY <1>12, <1>13, <1>14, <1>15, <1>16, <1>17

\* A line of which the end is known: it is taken, or what there is of it
\* before the connection broke.
LEMMA LineTaken ==
    ASSUME NEW step, ReadsLine(step), NEW T, NEW at \in Nat, NEW end \in Nat, Stream(T, at, end),
           NEW k \in Nat \ {0}, T[at + k] = Lf, \A j \in 1 .. k - 1 : T[at + j] # Lf
    PROVE  \E m \in 0 .. k : /\ m = k \/ (m # k /\ broken /\ inFlight' = <<>>)
                             /\ m = 0 => inFlight = <<>> /\ broken
                             /\ TheLine \in Seq(Tokens) /\ Len(TheLine) = m
                             /\ \A i \in 1 .. m : TheLine[i] = T[at + i]
                             /\ Stream(T, at + m, end)'
<1>1. PICK m \in 0 .. k : /\ m <= Len(inFlight) /\ (m = k \/ (broken /\ m = Len(inFlight)))
                          /\ TheLine \in Seq(Tokens) /\ Len(TheLine) = m
                          /\ \A i \in 1 .. m : TheLine[i] = T[at + i]
                          /\ Stream(T, at + m, end)' /\ Len(inFlight') = Len(inFlight) - m
    BY LineRead
<1>2. inFlight \in Seq(Tokens) /\ inFlight' \in Seq(Tokens)
    BY <1>1 DEF Stream
<1>3. ASSUME m # k PROVE broken /\ m = Len(inFlight)
    BY <1>1, <1>3, Zenon
<1>4. ASSUME m # k PROVE inFlight' = <<>>
  <2>1. Len(inFlight) \in Nat
      BY <1>2, LenProperties
  <2>2. Len(inFlight') = 0
      BY <1>1, <1>3, <1>4, <2>1
  <2> QED
      BY <1>2, <2>2, EmptySeq
<1>5. ASSUME m = 0 PROVE inFlight = <<>> /\ broken
  <2>1. m # k
      BY <1>5
  <2>2. broken /\ Len(inFlight) = 0
      BY <1>3, <1>5, <2>1
  <2> QED
      BY <1>2, <2>2, EmptySeq
<1>6. m = k \/ (m # k /\ broken /\ inFlight' = <<>>)
    BY <1>3, <1>4, Zenon
<1> QED
    BY <1>1, <1>5, <1>6

\* There is nothing to read any more.
LEMMA LineLost ==
    ASSUME NEW step, ReadsLine(step), NEW T, NEW at \in Nat, NEW end \in Nat, Stream(T, at, end),
           inFlight = <<>>
    PROVE  broken /\ TheLine = <<>> /\ Stream(T, at, end)' /\ inFlight' = <<>>
<1>1. inFlight \in Seq(Tokens) /\ Len(inFlight) = 0
    BY DEF Stream
<1>2. LineEnds = {} /\ LineLength = 0
    BY <1>1, NoLine
<1>3. TheLine = <<>>
    BY <1>2 DEF TheLine
<1>4. inFlight' = <<>>
    BY <1>1, <1>2 DEF ReadsLine
<1>5. broken /\ broken' = broken
    BY <1>2, Zenon DEF ReadsLine, LineThere, WriterWaits
<1>6. broken' \/ (end = end /\ ~broken)
    BY <1>5, Zenon
<1>7. Stream(T, at, end)'
    BY <1>4, <1>6, StreamStays
<1> QED
    BY <1>3, <1>4, <1>5, <1>7

\* What the steps of the reader leave alone.
LEMMA WriterLeft ==
    ASSUME ReadSize \/ ReadChunkEnd \/ ReadLast \/ ReadByte \/ ReadRest \/ ReadFails
    PROVE  UNCHANGED <<framing, content, offset, writer>> /\ (broken' = TRUE \/ broken' = broken)
<1>1. CASE ReadSize
    BY <1>1, Zenon DEF ReadSize, ReadsLine, WriterWaits
<1>2. CASE ReadChunkEnd
    BY <1>2, Zenon DEF ReadChunkEnd, ReadsLine, WriterWaits
<1>3. CASE ReadLast
    BY <1>3, Zenon DEF ReadLast, ReadsLine, WriterWaits
<1>4. CASE ReadByte
    BY <1>4, Zenon DEF ReadByte, WriterWaits
<1>5. CASE ReadRest
    BY <1>5, Zenon DEF ReadRest, WriterWaits
<1>6. CASE ReadFails
    BY <1>6 DEF ReadFails
<1> QED
    BY <1>1, <1>2, <1>3, <1>4, <1>5, <1>6

\* A reader that has come to an end need not be anywhere.
LEMMA NotPlaced ==
    ASSUME NEW T, NEW C, NEW at, NEW end, reader \notin {"size", "data", "end", "last"}
    PROVE  ReaderPlaced(T, C, at, end)
BY DEF ReaderPlaced

\* Steps of the reader in a body in chunks.
LEMMA ChunkedReads ==
    ASSUME content \in Nat, broken \in BOOLEAN, framing = "chunked", ChunkedInv,
           ReadSize \/ ReadChunkEnd \/ ReadLast \/ ReadByte \/ ReadRest \/ ReadFails
    PROVE  ChunkedInv'
<1>1. PICK T, C : \E at \in Nat, end \in Nat, next \in {0, 3} : Chunks(T, C, at, end, next)
    BY DEF ChunkedInv
<1>2. PICK at \in Nat, end \in Nat, next \in {0, 3} : Chunks(T, C, at, end, next)
    BY <1>1
<1>3. /\ offset \in 0 .. content /\ remaining \in Nat
      /\ received = BytesUpTo(Len(received)) /\ Len(received) \in 0 .. content
      /\ writer \in {"writing", "finished", "emptied", "stopped", "failed"}
      /\ reader \in {"size", "data", "end", "last", "ok", "failed", "torn"}
    BY Zenon DEF ChunkedInv, ChunkedEnds
<1>4. PICK r \in 0 .. content, left \in Nat : r = Len(received) /\ left = remaining
    BY <1>3
<1>5. PICK all \in Nat : all = end + next
    OBVIOUS
<1>6. Stream(T, at, all) /\ inFlight \in Seq(Tokens)
  <2>1. Stream(T, at, end + next)
      BY <1>2, Zenon DEF Chunks
  <2> QED
      BY <1>5, <2>1 DEF Stream
<1>7. UNCHANGED <<framing, content, offset, writer>> /\ (broken' = TRUE \/ broken' = broken) /\ (broken => broken')
  <2>1. UNCHANGED <<framing, content, offset, writer>> /\ (broken' = TRUE \/ broken' = broken)
      BY WriterLeft
  <2> QED
      BY <2>1, Zenon
<1>8. ChunksOver => ChunksOver'
    BY <1>7 DEF ChunksOver
<1>9. /\ next = 3 => ChunksOver /\ T[end + 1] = NextMessage[1] /\ T[end + 2] = Cr /\ T[end + 3] = Lf
      /\ C \in SUBSET (Nat \X Nat)
    BY <1>2, Zenon DEF Chunks
<1>10. ASSUME NEW p \in Nat, NEW b \in Nat, <<p, b>> \in C
       PROVE  p <= end /\ b <= content /\ (ChunkAt(T, C, p, b) \/ LastAt(T, end, p, b) \/ EndAt(end, p, b))
    BY <1>2, <1>10, Zenon DEF Chunks
\* Where the reader goes, and what it has then.
<1>11. ASSUME NEW farther \in Nat, Stream(T, farther, all)',
              inFlight' # <<>> \/ ~broken' => ReaderPlaced(T, C, farther, end)', ChunkedEnds'
       PROVE  ChunkedInv'
  <2>1. Stream(T, farther, end + next)'
      BY <1>5, <1>11
  <2>2. \/ broken'
        \/ offset' = offset /\ broken' = broken /\ writer' \in {writer, "emptied"}
      BY <1>7, Zenon
  <2>3. content' = content
      BY <1>7
  <2>4. Chunks(T, C, farther, end, next)'
      BY <1>2, <1>11, <2>1, <2>2, <2>3, ChunksKept
  <2> QED
      BY <1>11, <2>4, Zenon DEF ChunkedInv
<1>12. ASSUME NEW k \in 0 .. content, received' = BytesUpTo(k), remaining' \in Nat,
              reader' \in {"size", "data", "end", "last", "failed", "torn"},
              reader' = "failed" => broken' \/ writer = "emptied", reader' = "torn" => broken'
       PROVE  ChunkedEnds'
  <2>1. Len(received') = k
      BY <1>12, BytesAre
  <2>2. /\ offset' \in 0 .. content' /\ received' = BytesUpTo(Len(received')) /\ Len(received') \in 0 .. content'
      BY <1>3, <1>7, <1>12, <2>1
  <2>3. writer' = writer /\ reader' # "ok"
      BY <1>7, <1>12
  <2> QED
      BY <1>3, <1>12, <2>2, <2>3, Zenon DEF ChunkedEnds
<1>13. received = BytesUpTo(r)
    BY <1>3, <1>4
<1>14. ASSUME NEW farther \in Nat, Stream(T, farther, all)', received' = received, remaining' \in Nat,
              reader' \in {"failed", "torn"},
              reader' = "failed" => broken' \/ writer = "emptied", reader' = "torn" => broken'
       PROVE  ChunkedInv'
  <2>1. ChunkedEnds'
    <3>1. received' = BytesUpTo(r)
        BY <1>13, <1>14
    <3>2. reader' \in {"size", "data", "end", "last", "failed", "torn"}
        BY <1>14
    <3> QED
        BY <1>12, <1>14, <3>1, <3>2
  <2>2. ReaderPlaced(T, C, farther, end)'
    <3>1. reader' \notin {"size", "data", "end", "last"}
        BY <1>14
    <3> QED
        BY <3>1 DEF ReaderPlaced
  <2> QED
      BY <1>11, <1>14, <2>1, <2>2
<1>15. ASSUME inFlight # <<>> \/ ~broken
       PROVE  /\ reader = "size" => <<at, r>> \in C
              /\ reader = "data" => /\ left > 0
                                    /\ \A j \in 1 .. left : T[at + j] = Byte(r + j)
                                    /\ T[at + left + 1] = Cr /\ T[at + left + 2] = Lf
                                    /\ <<at + left + 2, r + left>> \in C
              /\ reader = "end" => T[at + 1] = Cr /\ T[at + 2] = Lf /\ <<at + 2, r>> \in C
              /\ reader = "last" => T[at + 1] = Cr /\ T[at + 2] = Lf /\ end = at + 2 /\ r = content /\ ChunksOver
  <2>1. ReaderPlaced(T, C, at, end)
      BY <1>2, <1>15, Zenon DEF Chunks
  <2> QED
      BY <1>4, <2>1, Zenon DEF ReaderPlaced
\* A line is read where nothing is left.
<1>16. ASSUME NEW step, ReadsLine(step), inFlight = <<>>,
              TheLine = <<>> => reader' = "failed" /\ remaining' = remaining
       PROVE  ChunkedInv'
  <2>1. broken /\ TheLine = <<>> /\ Stream(T, at, all)'
      BY <1>6, <1>16, LineLost
  <2>2. received' = received
      BY <1>16 DEF ReadsLine
  <2>3. reader' = "failed" /\ remaining' \in Nat
      BY <1>3, <1>16, <2>1
  <2>4. broken'
      BY <1>7, <2>1
  <2> QED
      BY <1>14, <2>1, <2>2, <2>3, <2>4
<1>17. ASSUME ReadSize PROVE ChunkedInv'
  <2>1. /\ reader = "size" /\ ReadsLine("size")
        /\ (TheLine = <<>> \/ TheLine[1][1] # "size" => reader' = "failed" /\ remaining' = remaining)
        /\ ~(TheLine = <<>> \/ TheLine[1][1] # "size") =>
              /\ TheLine[1][2] = 0 => reader' = "last"
              /\ TheLine[1][2] # 0 => reader' = "data"
              /\ remaining' = TheLine[1][2]
      BY <1>17 DEF ReadSize, ReadsLine
  <2>2. received' = received
      BY <2>1 DEF ReadsLine
  <2>3. CASE inFlight = <<>>
      BY <1>16, <2>1, <2>3
  <2>4. SUFFICES ASSUME inFlight # <<>> PROVE ChunkedInv'
      BY <2>3
  <2>5. <<at, r>> \in C
      BY <1>15, <2>1, <2>4
  <2>6. at <= end /\ (ChunkAt(T, C, at, r) \/ LastAt(T, end, at, r) \/ EndAt(end, at, r))
      BY <1>10, <2>5
  \* Three tokens are there, unless the connection breaks within them.
  <2>7. ASSUME T[at + 2] = Cr, T[at + 3] = Lf, T[at + 1] # Lf
        PROVE  \E m \in 1 .. 3, a \in Nat :
                   /\ m = 3 \/ (broken /\ inFlight' = <<>>)
                   /\ TheLine # <<>> /\ TheLine[1] = T[at + 1]
                   /\ a = at + m /\ Stream(T, a, all)'
    <3>1. \A j \in 1 .. 3 - 1 : T[at + j] # Lf
      <4>1. \A j \in 1 .. 3 - 1 : j = 1 \/ j = 2
          OBVIOUS
      <4> QED
          BY <2>7, <4>1, TokensDiffer
    <3>2. PICK k \in Nat \ {0} : k = 3
        OBVIOUS
    <3>3. T[at + k] = Lf /\ \A j \in 1 .. k - 1 : T[at + j] # Lf
        BY <2>7, <3>1, <3>2
    <3>4. PICK m \in 0 .. k : /\ m = k \/ (m # k /\ broken /\ inFlight' = <<>>)
                              /\ m = 0 => inFlight = <<>> /\ broken
                              /\ TheLine \in Seq(Tokens) /\ Len(TheLine) = m
                              /\ \A i \in 1 .. m : TheLine[i] = T[at + i]
                              /\ Stream(T, at + m, all)'
        BY <1>6, <2>1, <3>3, LineTaken
    <3>5. m \in 1 .. 3
        BY <2>4, <3>2, <3>4
    <3>6. TheLine # <<>> /\ TheLine[1] = T[at + 1]
        BY <3>4, <3>5, EmptySeq
    <3>7. m = 3 \/ (broken /\ inFlight' = <<>>)
        BY <3>2, <3>4
    <3>8. at + m \in Nat
        BY <3>5
    <3> QED
        BY <3>4, <3>5, <3>6, <3>7, <3>8
  <2>8. CASE ChunkAt(T, C, at, r)
    <3>1. PICK n \in Nat \ {0} :
              /\ T[at + 1] = SizeDigits(n) /\ T[at + 2] = Cr /\ T[at + 3] = Lf
              /\ \A j \in 1 .. n : T[at + 3 + j] = Byte(r + j)
              /\ T[at + 3 + n + 1] = Cr /\ T[at + 3 + n + 2] = Lf
              /\ <<at + 3 + n + 2, r + n>> \in C
        BY <2>8 DEF ChunkAt
    <3>2. T[at + 1] # Lf /\ T[at + 1][1] = "size" /\ T[at + 1][2] = n
        BY <3>1, TokensDiffer
    <3>3. PICK m \in 1 .. 3, a \in Nat :
                   /\ m = 3 \/ (broken /\ inFlight' = <<>>)
                   /\ TheLine # <<>> /\ TheLine[1] = T[at + 1]
                   /\ a = at + m /\ Stream(T, a, all)'
        BY <2>7, <3>1, <3>2
    <3>4. reader' = "data" /\ remaining' = n
      <4>1. ~(TheLine = <<>> \/ TheLine[1][1] # "size") /\ TheLine[1][2] = n
          BY <3>2, <3>3
      <4> QED
          BY <2>1, <3>1, <4>1
    <3>5. ChunkedEnds'
      <4>1. received' = BytesUpTo(r)
          BY <1>13, <2>2
      <4> QED
          BY <1>12, <3>4, <4>1
    <3>6. ASSUME inFlight' # <<>> \/ ~broken' PROVE ReaderPlaced(T, C, a, end)'
      <4>1. a = at + 3
        <5>1. ~(broken /\ inFlight' = <<>>)
            BY <1>7, <3>6, Zenon
        <5> QED
            BY <3>3, <5>1
      <4>2. Len(received') = r
          BY <1>4, <2>2
      <4>3. /\ n > 0
            /\ \A j \in 1 .. n : T[a + j] = Byte(r + j)
            /\ T[a + n + 1] = Cr /\ T[a + n + 2] = Lf
            /\ <<a + n + 2, r + n>> \in C
          BY <3>1, <4>1
      <4> QED
          BY <3>4, <4>2, <4>3, Zenon DEF ReaderPlaced
    <3> QED
        BY <1>11, <3>3, <3>5, <3>6
  <2>9. CASE LastAt(T, end, at, r)
    <3>1. /\ T[at + 1] = SizeDigits(0) /\ T[at + 2] = Cr /\ T[at + 3] = Lf
          /\ T[at + 4] = Cr /\ T[at + 5] = Lf
          /\ end = at + 5 /\ r = content /\ ChunksOver
        BY <2>9, Zenon DEF LastAt
    <3>2. T[at + 1] # Lf /\ T[at + 1][1] = "size" /\ T[at + 1][2] = 0
        BY <3>1, TokensDiffer
    <3>3. PICK m \in 1 .. 3, a \in Nat :
                   /\ m = 3 \/ (broken /\ inFlight' = <<>>)
                   /\ TheLine # <<>> /\ TheLine[1] = T[at + 1]
                   /\ a = at + m /\ Stream(T, a, all)'
        BY <2>7, <3>1, <3>2
    <3>4. reader' = "last" /\ remaining' = 0
      <4>1. ~(TheLine = <<>> \/ TheLine[1][1] # "size") /\ TheLine[1][2] = 0
          BY <3>2, <3>3
      <4> QED
          BY <2>1, <4>1
    <3>5. ChunkedEnds'
      <4>1. received' = BytesUpTo(r)
          BY <1>13, <2>2
      <4> QED
          BY <1>12, <3>4, <4>1
    <3>6. ASSUME inFlight' # <<>> \/ ~broken' PROVE ReaderPlaced(T, C, a, end)'
      <4>1. a = at + 3
        <5>1. ~(broken /\ inFlight' = <<>>)
            BY <1>7, <3>6, Zenon
        <5> QED
            BY <3>3, <5>1
      <4>2. Len(received') = r /\ r = content'
          BY <1>4, <1>7, <2>2, <3>1
      <4>3. T[a + 1] = Cr /\ T[a + 2] = Lf /\ end = a + 2 /\ ChunksOver'
          BY <1>8, <3>1, <4>1
      <4> QED
          BY <3>4, <4>2, <4>3, Zenon DEF ReaderPlaced
    <3> QED
        BY <1>11, <3>3, <3>5, <3>6
  <2>10. CASE EndAt(end, at, r)
    <3>1. at = end /\ (broken \/ writer \in {"writing", "emptied"})
        BY <2>10, Zenon DEF EndAt
    <3>2. next = 3
      <4>1. Len(inFlight) > 0
          BY <1>6, <2>4, EmptySeq
      <4>2. at + Len(inFlight) <= all
          BY <1>6 DEF Stream
      <4> QED
          BY <1>5, <1>6, <3>1, <4>1, <4>2
    <3>3. ChunksOver /\ T[at + 1] = NextMessage[1] /\ T[at + 2] = Cr /\ T[at + 3] = Lf
        BY <1>9, <3>1, <3>2
    <3>4. PICK m \in 1 .. 3, a \in Nat :
                   /\ m = 3 \/ (broken /\ inFlight' = <<>>)
                   /\ TheLine # <<>> /\ TheLine[1] = T[at + 1]
                   /\ a = at + m /\ Stream(T, a, all)'
        BY <2>7, <3>3, TokensDiffer
    <3>5. reader' = "failed" /\ remaining' = remaining
        BY <2>1, <3>3, <3>4, TokensDiffer
    <3>6. broken' \/ writer = "emptied"
        BY <1>7, <3>1, <3>3, Zenon DEF ChunksOver
    <3> QED
        BY <1>3, <1>14, <2>2, <3>4, <3>5, <3>6
  <2> QED
      BY <2>6, <2>8, <2>9, <2>10
\* The line that ends a chunk or the body.
<1>18. ASSUME NEW step, ReadsLine(step), inFlight # <<>>, T[at + 1] = Cr, T[at + 2] = Lf
       PROVE  \E m \in 0 .. 2, a \in Nat :
                   /\ m = 2 \/ (broken /\ inFlight' = <<>>)
                   /\ TheLine = Crlf <=> m = 2
                   /\ TheLine \in Seq(Tokens)
                   /\ a = at + m /\ Stream(T, a, all)'
  <2>1. PICK k \in Nat \ {0} : k = 2
      OBVIOUS
  <2>2. T[at + k] = Lf /\ \A j \in 1 .. k - 1 : T[at + j] # Lf
    <3>1. \A j \in 1 .. 2 - 1 : j = 1
        OBVIOUS
    <3> QED
        BY <1>18, <2>1, <3>1, TokensDiffer
  <2>3. PICK m \in 0 .. k : /\ m = k \/ (m # k /\ broken /\ inFlight' = <<>>)
                            /\ m = 0 => inFlight = <<>> /\ broken
                            /\ TheLine \in Seq(Tokens) /\ Len(TheLine) = m
                            /\ \A i \in 1 .. m : TheLine[i] = T[at + i]
                            /\ Stream(T, at + m, all)'
      BY <1>6, <1>18, <2>2, LineTaken
  <2>4. m \in 0 .. 2 /\ at + m \in Nat
      BY <2>1, <2>3
  <2>5. (m > 0 => TheLine[1] = Cr) /\ (m > 1 => TheLine[2] = Lf)
      BY <1>18, <2>3, <2>4
  <2>6. TheLine = Crlf <=> m = 2
      BY <2>3, <2>4, <2>5, EndLine
  <2>7. m = 2 \/ (broken /\ inFlight' = <<>>)
      BY <2>1, <2>3
  <2> QED
      BY <2>3, <2>4, <2>6, <2>7
<1>19. ASSUME ReadChunkEnd PROVE ChunkedInv'
  <2>1. /\ reader = "end" /\ ReadsLine("end") /\ remaining' = remaining /\ received' = received
        /\ reader' = IF TheLine = Crlf THEN "size" ELSE IF TheLine = <<>> THEN "failed" ELSE "torn"
      BY <1>19 DEF ReadChunkEnd, ReadsLine
  <2>2. CASE inFlight = <<>>
    <3>1. <<>> # Crlf
        BY DEF Crlf
    <3>2. TheLine = <<>> => reader' = "failed"
        BY <2>1, <3>1
    <3> QED
        BY <1>16, <2>1, <2>2, <3>2
  <2>3. SUFFICES ASSUME inFlight # <<>> PROVE ChunkedInv'
      BY <2>2
  <2>4. T[at + 1] = Cr /\ T[at + 2] = Lf /\ <<at + 2, r>> \in C
      BY <1>15, <2>1, <2>3
  <2>5. PICK m \in 0 .. 2, a \in Nat :
                   /\ m = 2 \/ (broken /\ inFlight' = <<>>)
                   /\ TheLine = Crlf <=> m = 2
                   /\ TheLine \in Seq(Tokens)
                   /\ a = at + m /\ Stream(T, a, all)'
      BY <1>18, <2>1, <2>3, <2>4
  <2>6. CASE m = 2
    <3>1. reader' = "size" /\ a = at + 2 /\ Len(received') = r /\ remaining' \in Nat
        BY <1>3, <1>4, <2>1, <2>5, <2>6
    <3>2. ReaderPlaced(T, C, a, end)'
        BY <2>4, <3>1, Zenon DEF ReaderPlaced
    <3>3. ChunkedEnds'
      <4>1. received' = BytesUpTo(r)
          BY <1>13, <2>1
      <4> QED
          BY <1>12, <3>1, <4>1
    <3> QED
        BY <1>11, <2>5, <3>2, <3>3
  <2>7. CASE m # 2
    <3>1. reader' \in {"failed", "torn"} /\ remaining' \in Nat
        BY <1>3, <2>1, <2>5, <2>7
    <3>2. broken'
        BY <1>7, <2>5, <2>7, Zenon
    <3> QED
        BY <1>14, <2>1, <2>5, <3>1, <3>2
  <2> QED
      BY <2>6, <2>7
<1>20. ASSUME ReadLast PROVE ChunkedInv'
  <2>1. /\ reader = "last" /\ ReadsLine("last") /\ remaining' = remaining /\ received' = received
        /\ reader' = IF TheLine = Crlf THEN "ok" ELSE "failed"
      BY <1>20 DEF ReadLast, ReadsLine
  <2>2. CASE inFlight = <<>>
    <3>1. <<>> # Crlf
        BY DEF Crlf
    <3>2. TheLine = <<>> => reader' = "failed"
        BY <2>1, <3>1
    <3> QED
        BY <1>16, <2>1, <2>2, <3>2
  <2>3. SUFFICES ASSUME inFlight # <<>> PROVE ChunkedInv'
      BY <2>2
  <2>4. T[at + 1] = Cr /\ T[at + 2] = Lf /\ end = at + 2 /\ r = content /\ ChunksOver
      BY <1>15, <2>1, <2>3
  <2>5. PICK m \in 0 .. 2, a \in Nat :
                   /\ m = 2 \/ (broken /\ inFlight' = <<>>)
                   /\ TheLine = Crlf <=> m = 2
                   /\ TheLine \in Seq(Tokens)
                   /\ a = at + m /\ Stream(T, a, all)'
      BY <1>18, <2>1, <2>3, <2>4
  <2>6. CASE m = 2
    <3>1. reader' = "ok" /\ a = end /\ Len(received') = r /\ remaining' \in Nat
        BY <1>3, <1>4, <2>1, <2>4, <2>5, <2>6
    <3>2. ReaderPlaced(T, C, a, end)'
        BY <3>1, Zenon DEF ReaderPlaced
    <3>3. ASSUME inFlight' # <<>> PROVE inFlight'[1] = NextMessage[1]
      <4>1. PICK n \in Nat : n = Len(inFlight')
          BY <2>5, LenProperties DEF Stream
      <4>2. inFlight' \in Seq(Tokens) /\ a + n <= all /\ \A i \in 1 .. n : inFlight'[i] = T[a + i]
          BY <2>5, <4>1 DEF Stream
      <4>3. n > 0
          BY <3>3, <4>1, <4>2, EmptySeq
      <4>4. next = 3
          BY <1>5, <3>1, <4>2, <4>3
      <4> QED
          BY <1>9, <3>1, <4>2, <4>3, <4>4
    <3>4. ChunkedEnds'
      <4>1. /\ offset' \in 0 .. content' /\ received' = BytesUpTo(Len(received')) /\ Len(received') \in 0 .. content'
            /\ Len(received') = content'
          BY <1>3, <1>4, <1>7, <1>13, <2>1, <2>4, <3>1
      <4>2. writer' = writer /\ ChunksOver'
          BY <1>7, <1>8, <2>4
      <4> QED
          BY <1>3, <3>1, <3>3, <4>1, <4>2, Zenon DEF ChunkedEnds
    <3> QED
        BY <1>11, <2>5, <3>2, <3>4
  <2>7. CASE m # 2
    <3>1. reader' = "failed" /\ remaining' \in Nat
        BY <1>3, <2>1, <2>5, <2>7
    <3>2. broken'
        BY <1>7, <2>5, <2>7, Zenon
    <3> QED
        BY <1>14, <2>1, <2>5, <3>1, <3>2
  <2> QED
      BY <2>6, <2>7
<1>21. ASSUME ReadByte PROVE ChunkedInv'
  <2>1. /\ reader = "data" /\ inFlight # <<>> /\ inFlight' = Tail(inFlight) /\ remaining' = left - 1
        /\ received' = Append(received, Head(inFlight))
        /\ reader' = IF left > 1 THEN "data" ELSE "end"
      BY <1>3, <1>4, <1>21 DEF ReadByte
  <2>2. broken' = broken
      BY <1>21 DEF ReadByte, WriterWaits
  <2>3. /\ left > 0
        /\ \A j \in 1 .. left : T[at + j] = Byte(r + j)
        /\ T[at + left + 1] = Cr /\ T[at + left + 2] = Lf
        /\ <<at + left + 2, r + left>> \in C
      BY <1>15, <2>1
  <2>4. PICK a \in Nat, b \in Nat, m \in Nat : a = at + 1 /\ b = r + 1 /\ m = left - 1
      BY <2>3
  <2>5. Stream(T, a, all)' /\ Head(inFlight) = T[at + 1]
      BY <1>6, <2>1, <2>2, <2>4, ByteTaken
  <2>6. T[at + 1] = Byte(b)
      BY <2>3, <2>4
  <2>7. b \in 0 .. content
    <3>1. at + left + 2 \in Nat /\ r + left \in Nat
        OBVIOUS
    <3>2. r + left <= content
        BY <1>10, <2>3, <3>1
    <3> QED
        BY <2>3, <2>4, <3>2
  <2>8. received' = BytesUpTo(b)
    <3>1. received' = Append(BytesUpTo(r), Byte(r + 1)) /\ r \in Nat
        BY <1>13, <2>1, <2>4, <2>5, <2>6
    <3>2. Append(BytesUpTo(r), Byte(r + 1)) = BytesUpTo(r + 1)
        BY <3>1, BytesGrow
    <3> QED
        BY <2>4, <3>1, <3>2
  <2>9. Len(received') = b
      BY <2>8, BytesAre
  <2>10. ChunkedEnds'
    <3>1. remaining' \in Nat /\ reader' \in {"data", "end"}
        BY <2>1, <2>3
    <3> QED
        BY <1>12, <2>7, <2>8, <3>1
  <2>11. ReaderPlaced(T, C, a, end)'
    <3>1. a + m + 2 = at + left + 2 /\ a + m + 1 = at + left + 1 /\ b + m = r + left
        BY <2>4
    <3>2. CASE left > 1
      <4>1. \A j \in 1 .. m : T[a + j] = Byte(b + j)
        <5>1. \A j \in 1 .. m : 1 + j \in 1 .. left /\ at + (1 + j) = a + j /\ r + (1 + j) = b + j
            BY <2>4
        <5> QED
            BY <2>3, <5>1
      <4>2. reader' = "data" /\ remaining' = m /\ m > 0
          BY <2>1, <2>4, <3>2
      <4>3. T[a + m + 1] = Cr /\ T[a + m + 2] = Lf /\ <<a + m + 2, b + m>> \in C
          BY <2>3, <3>1
      <4> QED
          BY <2>9, <4>1, <4>2, <4>3, Zenon DEF ReaderPlaced
    <3>3. CASE ~(left > 1)
      <4>1. reader' = "end" /\ m = 0
          BY <2>1, <2>3, <2>4, <3>3
      <4>2. a + 1 = at + left + 1 /\ a + 2 = at + left + 2 /\ b = r + left
          BY <3>1, <4>1
      <4>3. T[a + 1] = Cr /\ T[a + 2] = Lf /\ <<a + 2, b>> \in C
          BY <2>3, <4>2
      <4> QED
          BY <2>9, <4>1, <4>3, Zenon DEF ReaderPlaced
    <3> QED
        BY <3>2, <3>3
  <2> QED
      BY <1>11, <2>5, <2>10, <2>11
<1>22. ~ReadRest
    BY <1>3 DEF ReadRest
<1>23. ASSUME ReadFails PROVE ChunkedInv'
  <2>1. /\ broken' = TRUE /\ UNCHANGED <<inFlight, remaining, received>>
        /\ reader' = "failed"
      BY <1>3, <1>23 DEF ReadFails
  <2>2. Stream(T, at, all)'
    <3>1. inFlight' = inFlight /\ broken' /\ all <= all
        BY <2>1
    <3> QED
        BY <1>6, <3>1, StreamStays
  <2>3. received' = received /\ remaining' \in Nat /\ broken'
      BY <1>3, <2>1
  <2> QED
      BY <1>14, <2>1, <2>2, <2>3
<1> QED
    BY <1>17, <1>19, <1>20, <1>21, <1>22, <1>23

-----------------------------------------------------------------------------
(* The body as a whole.                                                    *)

\* It begins so.
LEMMA BodyBegins == BodyInit => BodyInv
<1> SUFFICES ASSUME BodyInit PROVE BodyInv
    OBVIOUS
<1>1. /\ framing \in {"length", "chunked", "none"} /\ content \in 0 .. MaxContent
      /\ offset = 0 /\ inFlight = <<>> /\ received = <<>>
      /\ writer = IF framing = "length" /\ content = 0 THEN "finished" ELSE "writing"
      /\ reader = FirstStep
      /\ remaining = IF framing = "length" THEN content ELSE 0
    BY DEF BodyInit
<1>2. ~broken /\ broken \in BOOLEAN
    BY Zenon DEF BodyInit
<1>3. content \in Nat /\ 0 \in 0 .. content
    BY <1>1, BodyAssumption
<1>4. received = BytesUpTo(0) /\ Len(received) = 0
    BY <1>1 DEF BytesUpTo
<1>5. ASSUME NEW T \in [Nat -> Tokens] PROVE Stream(T, 0, 0)
    BY <1>1 DEF Stream
<1>6. CASE framing = "length"
  <2>1. Stream(PlainBody(content), 0, offset + 0)
    <3>1. PICK B : B = PlainBody(content)
        OBVIOUS
    <3>2. B \in [Nat -> Tokens]
        BY <1>3, <3>1, PlainTokens
    <3>3. Stream(B, 0, 0)
        BY <1>5, <3>2
    <3> QED
        BY <1>1, <3>1, <3>3
  <2>2. /\ reader \in {"data", "skip", "ok"} /\ (reader \in {"data", "skip"} => 0 < content)
        /\ (reader = "ok" => content = 0) /\ remaining = content - 0
    <3>1. reader = IF content > MaxPayload THEN "skip" ELSE IF content > 0 THEN "data" ELSE "ok"
        BY <1>1, <1>6 DEF FirstStep
    <3>2. remaining = content
        BY <1>1, <1>6
    <3> QED
        BY <1>3, <3>1, <3>2, BodyAssumption
  <2>3. LengthAt(0, 0)
    <3>1. /\ 0 \in {0, 3} /\ 0 # 3 /\ 0 \in 0 .. content /\ offset \in 0 .. content
          /\ writer \in {"writing", "finished", "stopped", "failed"}
          /\ writer = "finished" => offset = content
        BY <1>1, <1>3
    <3>2. /\ reader \in {"data", "skip", "ok", "too large", "failed"}
          /\ reader # "too large" /\ reader # "failed"
          /\ reader = "ok" => 0 = content
        BY <1>3, <2>2
    <3> QED
        BY <1>4, <2>1, <2>2, <3>1, <3>2, Zenon DEF LengthAt
  <2> QED
      BY <1>2, <1>3, <1>6, <2>3 DEF BodyInv, LengthInv
<1>7. CASE framing = "none"
  <2>1. Stream(PlainBody(content), 0, offset)
    <3>1. PICK B : B = PlainBody(content)
        OBVIOUS
    <3>2. B \in [Nat -> Tokens]
        BY <1>3, <3>1, PlainTokens
    <3>3. Stream(B, 0, 0)
        BY <1>5, <3>2
    <3> QED
        BY <1>1, <3>1, <3>3
  <2>2. reader = "rest" /\ writer = "writing"
      BY <1>1, <1>7 DEF FirstStep
  <2>3. RestAt(0)
      BY <1>1, <1>3, <1>4, <2>1, <2>2 DEF RestAt
  <2> QED
      BY <1>2, <1>3, <1>7, <2>3 DEF BodyInv, RestInv
<1>8. CASE framing = "chunked"
  <2>1. reader = "size" /\ writer = "writing" /\ remaining = 0
      BY <1>1, <1>8 DEF FirstStep
  <2>2. PICK T \in [Nat -> Tokens] : T = [k \in Nat |-> Lf]
      BY TokensSent
  <2>3. PICK C \in SUBSET (Nat \X Nat) : C = {<<0, 0>>}
    <3>1. {<<0, 0>>} \in SUBSET (Nat \X Nat)
        OBVIOUS
    <3> QED
        BY <3>1
  <2>4. Stream(T, 0, 0 + 0)
      BY <1>5
  <2>5. ReaderPlaced(T, C, 0, 0)
      BY <1>4, <2>1, <2>3 DEF ReaderPlaced
  <2>6. ASSUME NEW p \in Nat, NEW b \in Nat, <<p, b>> \in C
        PROVE  p <= 0 /\ b <= content /\ EndAt(0, p, b)
      BY <1>1, <1>3, <2>1, <2>3, <2>6 DEF EndAt
  <2>7. <<0, offset>> \in C /\ 0 # 3
      BY <1>1, <2>3
  <2>8. Chunks(T, C, 0, 0, 0)
      BY <2>4, <2>5, <2>6, <2>7, Zenon DEF Chunks
  <2>9. ChunkedEnds
      BY <1>1, <1>3, <1>4, <2>1 DEF ChunkedEnds
  <2>10. 0 \in Nat /\ 0 \in {0, 3}
      OBVIOUS
  <2>11. ChunkedInv
      BY <2>8, <2>9, <2>10, Zenon DEF ChunkedInv
  <2> QED
      BY <1>2, <1>3, <1>8, <2>11 DEF BodyInv
<1> QED
    BY <1>1, <1>6, <1>7, <1>8

\* Every step keeps it.
LEMMA BodyKept == BodyInv /\ [BodyNext]_bodyVars => BodyInv'
<1> SUFFICES ASSUME BodyInv, [BodyNext]_bodyVars PROVE BodyInv'
    OBVIOUS
<1>1. content \in Nat /\ broken \in BOOLEAN
    BY Zenon DEF BodyInv
<1>2. CASE UNCHANGED bodyVars
  <2>1. /\ framing' = framing /\ content' = content /\ offset' = offset /\ writer' = writer /\ inFlight' = inFlight
        /\ broken' = broken /\ reader' = reader /\ remaining' = remaining /\ received' = received
      BY <1>2 DEF bodyVars
  <2>2. \A T, a, e : Stream(T, a, e)' <=> Stream(T, a, e)
      BY <2>1, Zenon DEF Stream
  <2>3. LengthInv => LengthInv'
    <3>1. ASSUME NEW a \in Nat, NEW next \in Nat, LengthAt(a, next) PROVE LengthInv'
      <4>1. Stream(PlainBody(content), a, offset + next)'
          BY <2>1, <3>1, Zenon DEF LengthAt, Stream
      <4>2. LengthAt(a, next)'
          BY <2>1, <3>1, <4>1, Zenon DEF LengthAt
      <4> QED
          BY <4>2, Zenon DEF LengthInv
    <3> QED
        BY <3>1, Zenon DEF LengthInv
  <2>4. RestInv => RestInv'
    <3>1. ASSUME NEW a \in Nat, RestAt(a) PROVE RestInv'
      <4>1. Stream(PlainBody(content), a, offset)'
          BY <2>1, <3>1, Zenon DEF RestAt, Stream
      <4>2. RestAt(a)'
          BY <2>1, <3>1, <4>1, Zenon DEF RestAt
      <4> QED
          BY <4>2, Zenon DEF RestInv
    <3> QED
        BY <3>1, Zenon DEF RestInv
  <2>5. ChunkedInv => ChunkedInv'
    <3>1. ChunkedEnds => ChunkedEnds'
        BY <2>1, Zenon DEF ChunkedEnds, ChunksOver
    <3>2. \A T, C, p, b : ChunkAt(T, C, p, b)' <=> ChunkAt(T, C, p, b)
        BY DEF ChunkAt
    <3>3. ChunksOver' <=> ChunksOver
        BY <2>1, Zenon DEF ChunksOver
    <3>4. \A T, e, p, b : LastAt(T, e, p, b)' <=> LastAt(T, e, p, b)
        BY <2>1, <3>3, ZenonT(40) DEF LastAt
    <3>5. \A e, p, b : EndAt(e, p, b)' <=> EndAt(e, p, b)
        BY <2>1, <3>3, Zenon DEF EndAt
    <3>6. ASSUME NEW T, NEW C, NEW a, NEW e, ReaderPlaced(T, C, a, e) PROVE ReaderPlaced(T, C, a, e)'
      <4>1. PICK r, left : r = Len(received) /\ left = remaining
          OBVIOUS
      <4>2. Len(received') = r /\ remaining' = left
          BY <2>1, <4>1
      <4>3. /\ reader = "size" => <<a, r>> \in C
            /\ reader = "data" => /\ left > 0
                                  /\ \A j \in 1 .. left : T[a + j] = Byte(r + j)
                                  /\ T[a + left + 1] = Cr /\ T[a + left + 2] = Lf
                                  /\ <<a + left + 2, r + left>> \in C
            /\ reader = "end" => T[a + 1] = Cr /\ T[a + 2] = Lf /\ <<a + 2, r>> \in C
            /\ reader = "last" => T[a + 1] = Cr /\ T[a + 2] = Lf /\ e = a + 2 /\ r = content /\ ChunksOver
          BY <3>6, <4>1, Zenon DEF ReaderPlaced
      <4> QED
          BY <2>1, <3>3, <4>2, <4>3, Zenon DEF ReaderPlaced
    <3>7. ASSUME NEW T, NEW C, NEW a, NEW e, NEW next, Chunks(T, C, a, e, next) PROVE Chunks(T, C, a, e, next)'
      <4>1. Stream(T, a, e + next)'
          BY <2>2, <3>7, Zenon DEF Chunks
      <4> QED
          BY <2>1, <3>2, <3>3, <3>4, <3>5, <3>6, <3>7, <4>1, Zenon DEF Chunks
    <3> QED
        BY <3>1, <3>7, ZenonT(40) DEF ChunkedInv
  <2> QED
      BY <2>1, <2>3, <2>4, <2>5, Zenon DEF BodyInv
<1>3. CASE BodyNext
  <2>1. CASE framing = "length" /\ LengthInv
    <3>1. LengthInv' /\ content' \in Nat /\ broken' \in BOOLEAN /\ framing' = "length"
        BY <1>1, <1>3, <2>1, LengthNext, Zenon
    <3> QED
        BY <3>1, Zenon DEF BodyInv
  <2>2. CASE framing = "none" /\ RestInv
    <3>1. RestInv' /\ content' \in Nat /\ broken' \in BOOLEAN /\ framing' = "none"
        BY <1>1, <1>3, <2>2, RestNext, Zenon
    <3> QED
        BY <3>1, Zenon DEF BodyInv
  <2>3. CASE framing = "chunked" /\ ChunkedInv
    <3>1. CASE \/ \E n \in 1 .. MaxWrite : ProviderWrites(n)
               \/ ProviderWritesNothing \/ ProviderDone
               \/ \E how \in {"stopped", "failed"} : WriterGivesUp(how)
               \/ NextFollows
               \/ \E n \in 0 .. Len(inFlight) : ConnectionBreaks(n)
      <4>1. ChunkedInv'
          BY <1>1, <2>3, <3>1, ChunkedWrites, Zenon
      <4>2. UNCHANGED <<reader, remaining, received, framing, content>>
          BY <3>1, ReaderLeft, Zenon
      <4>3. broken' \in BOOLEAN
        <5>1. ASSUME ProviderDone PROVE broken' \in BOOLEAN
            BY <1>1, <2>3, <5>1, Zenon DEF ProviderDone
        <5>2. ASSUME \E n \in 1 .. MaxWrite : ProviderWrites(n) PROVE broken' \in BOOLEAN
            BY <1>1, <5>2, Zenon DEF ProviderWrites
        <5>3. ASSUME ProviderWritesNothing \/ NextFollows PROVE broken' \in BOOLEAN
            BY <1>1, <5>3, Zenon DEF ProviderWritesNothing, NextFollows
        <5>4. ASSUME \E how \in {"stopped", "failed"} : WriterGivesUp(how) PROVE broken' \in BOOLEAN
            BY <5>4 DEF WriterGivesUp
        <5>5. ASSUME \E n \in 0 .. Len(inFlight) : ConnectionBreaks(n) PROVE broken' \in BOOLEAN
            BY <5>5 DEF ConnectionBreaks
        <5> QED
            BY <3>1, <5>1, <5>2, <5>3, <5>4, <5>5, Zenon
      <4>4. framing' = "chunked" /\ content' \in Nat
          BY <1>1, <2>3, <4>2
      <4> QED
          BY <4>1, <4>3, <4>4, Zenon DEF BodyInv
    <3>2. CASE ReadSize \/ ReadChunkEnd \/ ReadLast \/ ReadByte \/ ReadRest \/ ReadFails
      <4>1. ChunkedInv'
          BY <1>1, <2>3, <3>2, ChunkedReads, Zenon
      <4>2. UNCHANGED <<framing, content, offset, writer>> /\ (broken' = TRUE \/ broken' = broken)
          BY <3>2, WriterLeft, Zenon
      <4>3. broken' \in BOOLEAN
          BY <1>1, <4>2
      <4>4. framing' = "chunked" /\ content' \in Nat
          BY <1>1, <2>3, <4>2
      <4> QED
          BY <4>1, <4>3, <4>4, Zenon DEF BodyInv
    <3> QED
        BY <1>3, <3>1, <3>2, Zenon DEF BodyNext
  <2> QED
      BY <2>1, <2>2, <2>3, Zenon DEF BodyInv
<1> QED
    BY <1>2, <1>3

\* What is on its way behind a body without chunks is the next message.
LEMMA NextBehind ==
    ASSUME content \in Nat, NEW next \in {0, 3}, NEW o \in 0 .. content,
           Stream(PlainBody(content), content, o + next), inFlight # <<>>
    PROVE  inFlight[1] = NextMessage[1]
<1>1. PICK B : B = PlainBody(content)
    OBVIOUS
<1>2. PICK c \in Nat, n \in Nat : c = content /\ n = Len(inFlight)
    BY LenProperties DEF Stream
<1>3. inFlight \in Seq(Tokens) /\ c + n <= o + next /\ \A i \in 1 .. n : inFlight[i] = B[c + i]
    BY <1>1, <1>2 DEF Stream
<1>4. n > 0
    BY <1>2, <1>3, EmptySeq
<1>5. B[c + 1] = NextMessage[1]
    BY <1>1, <1>2, PlainTokens
<1> QED
    BY <1>3, <1>4, <1>5

\* It is enough.
LEMMA BodyEnough == BodyInv => BodiesArrive
<1> SUFFICES ASSUME BodyInv PROVE BodiesArrive
    OBVIOUS
<1>1. content \in Nat /\ broken \in BOOLEAN
    BY Zenon DEF BodyInv
<1>2. CASE framing = "length" /\ LengthInv
  <2>1. PICK a \in Nat, next \in Nat : LengthAt(a, next)
      BY <1>2 DEF LengthInv
  <2>2. /\ Stream(PlainBody(content), a, offset + next)
        /\ next \in {0, 3} /\ offset \in 0 .. content
        /\ reader \in {"data", "skip", "ok", "too large", "failed"}
        /\ reader = "ok" => a = content /\ received = BytesUpTo(a)
        /\ reader = "too large" => broken \/ a = content
        /\ reader = "failed" => broken
      BY <2>1, Zenon DEF LengthAt
  <2>3. ASSUME a = content, inFlight # <<>> PROVE inFlight[1] = NextMessage[1]
      BY <1>1, <2>2, <2>3, NextBehind
  <2>4. reader # "torn"
      BY <2>2
  <2> QED
      BY <1>2, <2>2, <2>3, <2>4, Zenon DEF BodiesArrive
<1>3. CASE framing = "none" /\ RestInv
  <2>1. PICK a \in Nat : RestAt(a)
      BY <1>3 DEF RestInv
  <2>2. /\ Stream(PlainBody(content), a, offset) /\ offset \in 0 .. content
        /\ received = BytesUpTo(a)
        /\ reader \in {"rest", "ok", "failed"}
        /\ reader = "ok" => inFlight = <<>> /\ broken
        /\ reader = "failed" => broken
      BY <2>1, Zenon DEF RestAt
  <2>3. a <= content
    <3>1. PICK e : e = offset
        OBVIOUS
    <3>2. inFlight \in Seq(Tokens) /\ a + Len(inFlight) <= e
        BY <2>2, <3>1 DEF Stream
    <3>3. Len(inFlight) \in Nat
        BY <3>2, LenProperties
    <3> QED
        BY <1>1, <2>2, <3>1, <3>2, <3>3
  <2>4. IsPrefix(received, BytesUpTo(content))
      BY <1>1, <2>2, <2>3, BytesBegin
  <2>5. reader # "torn" /\ reader # "too large"
      BY <2>2
  <2> QED
      BY <1>3, <2>2, <2>4, <2>5, Zenon DEF BodiesArrive
<1>4. CASE framing = "chunked" /\ ChunkedInv
  <2>1. /\ received = BytesUpTo(Len(received)) /\ Len(received) \in 0 .. content
        /\ reader \in {"size", "data", "end", "last", "ok", "failed", "torn"}
        /\ reader = "ok" => /\ Len(received) = content
                            /\ inFlight # <<>> => inFlight[1] = NextMessage[1]
        /\ reader = "failed" => broken \/ writer = "emptied"
        /\ reader = "torn" => broken
      BY <1>4, Zenon DEF ChunkedInv, ChunkedEnds
  <2>2. IsPrefix(received, BytesUpTo(content))
    <3>1. PICK r \in Nat : r = Len(received)
        BY <2>1
    <3>2. r <= content /\ received = BytesUpTo(r)
        BY <2>1, <3>1
    <3> QED
        BY <1>1, <3>2, BytesBegin
  <2>3. framing # "none" /\ reader # "too large"
      BY <1>4, <2>1
  <2>4. reader = "ok" => received = BytesUpTo(content)
      BY <2>1
  <2> QED
      BY <1>4, <2>1, <2>2, <2>3, <2>4, Zenon DEF BodiesArrive
<1> QED
    BY <1>2, <1>3, <1>4, Zenon DEF BodyInv

\* A body with a frame is received whole or not at all, whichever byte the
\* connection ends at, and the next message is left alone; read_content()
\* fails only after a failure, or behind a chunked body that its provider
\* ended with an empty write (write_content, write_content_chunked,
\* read_content): for contents and writes of any size and a limit of any size.
THEOREM BodiesKeepWhole == BodySpec => []BodiesArrive
<1>1. BodyInit => BodyInv
    BY BodyBegins
<1>2. BodyInv /\ [BodyNext]_bodyVars => BodyInv'
    BY BodyKept
<1>3. BodyInv => BodiesArrive
    BY BodyEnough
<1> QED
    BY <1>1, <1>2, <1>3, PTL DEF BodySpec
===============================================================================
