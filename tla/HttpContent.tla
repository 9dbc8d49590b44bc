---------------------------- MODULE HttpContent -----------------------------
(***************************************************************************)
(* Bodies of HTTP messages, then requests for ranges of them.              *)
(*                                                                         *)
(* The body of an HTTP message on its way from a content provider          *)
(* (write_content, write_content_without_length, write_content_chunked) to *)
(* a content receiver (read_content): framed by its length, in chunks, or  *)
(* by the end of the connection, which may break at any byte.              *)
(***************************************************************************)
EXTENDS Sequences, SequencesExt, Integers

CONSTANTS MaxContent,   \* bound: bytes of a body
          MaxPayload,   \* payload_max_length_
          MaxWrite      \* bound: bytes that a provider gives at a time

ASSUME BodyAssumption == MaxContent \in Nat /\ MaxPayload \in Nat /\ MaxWrite \in Nat

VARIABLES framing,    \* "length", "chunked", "none"
          content,    \* how many bytes the provider has; the bytes are 1 .. content
          offset,     \* bytes given to the sink
          writer,     \* "writing", "finished", "emptied", "stopped", "failed"
          inFlight,       \* bytes sent and not read
          broken,     \* no more bytes will come
          reader,     \* where read_content() is, or what it has returned
          remaining,  \* bytes of the chunk or of the body still to read
          received    \* what the receiver was given

bodyVars == <<framing, content, offset, writer, inFlight, broken, reader, remaining, received>>

Byte(k) == <<"byte", k>>
SizeDigits(n) == <<"size", n>>   \* a number in hexadecimal
Cr == <<"cr", 0>>
Lf == <<"lf", 0>>
Crlf == <<Cr, Lf>>
NextMessage == <<<<"next", 0>>, Cr, Lf>>   \* what follows on a kept connection

BytesUpTo(n) == [k \in 1 .. n |-> Byte(k)]

\* read_content() tells from the headers how the body is framed; skip is for
\* one that is longer than allowed.
FirstStep ==
    CASE framing = "chunked" -> "size"
      [] framing = "none" -> "rest"
      [] OTHER -> IF content > MaxPayload THEN "skip" ELSE IF content > 0 THEN "data" ELSE "ok"

BodyInit ==
    /\ framing \in {"length", "chunked", "none"} /\ content \in 0 .. MaxContent
    /\ offset = 0 /\ inFlight = <<>> /\ broken = FALSE /\ received = <<>>
    /\ writer = IF framing = "length" /\ content = 0 THEN "finished" ELSE "writing"
    /\ reader = FirstStep
    /\ remaining = IF framing = "length" THEN content ELSE 0

-----------------------------------------------------------------------------
(* The writer.                                                             *)

Sends(bytes) == inFlight' = IF broken THEN inFlight ELSE inFlight \o bytes

ReaderWaits == UNCHANGED <<reader, remaining, received, framing, content>>

\* A defect: the chunk is not ended.
ChunkOpen(bytes) == <<SizeDigits(Len(bytes))>> \o Crlf \o bytes

Chunk(bytes) == <<SizeDigits(Len(bytes))>> \o Crlf \o bytes \o Crlf

\* The provider gives the sink its next n bytes.  The loop of write_content()
\* ends when all are there.
ProviderWrites(n) ==
    LET bytes == SubSeq(BytesUpTo(content), offset + 1, offset + n) IN
    /\ writer = "writing" /\ offset + n <= content
    /\ Sends(IF framing = "chunked" THEN Chunk(bytes) ELSE bytes)
    /\ offset' = offset + n
    /\ writer' = IF framing = "length" /\ offset + n = content THEN "finished" ELSE writer
    /\ UNCHANGED broken /\ ReaderWaits

\* An empty write ends the loop as well, but not the body.
ProviderWritesNothing ==
    /\ writer = "writing" /\ framing = "chunked"
    /\ writer' = "emptied" /\ UNCHANGED <<offset, inFlight, broken>> /\ ReaderWaits

\* done(); without a length the connection is closed then.
ProviderDone ==
    /\ writer = "writing" /\ framing # "length" /\ offset = content
    /\ writer' = "finished"
    /\ Sends(IF framing = "chunked" THEN <<SizeDigits(0)>> \o Crlf \o Crlf ELSE <<>>)
    /\ broken' = (broken \/ framing = "none")
    /\ UNCHANGED offset /\ ReaderWaits

\* The provider returns false, a write fails, or the server is shut down; only
\* in the last case the writer reports success.  The connection is closed.
WriterGivesUp(how) ==
    /\ writer = "writing" /\ writer' = how /\ broken' = TRUE
    /\ UNCHANGED <<offset, inFlight>> /\ ReaderWaits

\* A kept connection carries the next message.
NextFollows ==
    /\ writer \in {"finished", "emptied"} /\ ~broken /\ NextMessage[1] \notin ToSet(inFlight)
    /\ reader \notin {"ok", "failed", "torn", "too large"}
    /\ Sends(NextMessage) /\ UNCHANGED <<offset, writer, broken>> /\ ReaderWaits

\* The network loses what is on its way from some byte on.
ConnectionBreaks(n) ==
    /\ ~broken /\ broken' = TRUE
    /\ inFlight' = SubSeq(inFlight, 1, n)
    /\ UNCHANGED <<offset, writer>> /\ ReaderWaits

-----------------------------------------------------------------------------
(* The reader.                                                             *)

WriterWaits == UNCHANGED <<framing, content, offset, writer, broken>>

LineEnds == {i \in DOMAIN inFlight : inFlight[i] = Lf}

\* getline(): up to a line feed, or what is there when the connection ends.
LineLength == IF LineEnds = {} THEN Len(inFlight) ELSE Min(LineEnds)
TheLine == SubSeq(inFlight, 1, LineLength)
LineThere == LineEnds # {} \/ broken

ReadsLine(step) ==
    /\ reader = step /\ LineThere
    /\ inFlight' = SubSeq(inFlight, LineLength + 1, Len(inFlight))
    /\ UNCHANGED received /\ WriterWaits

\* strtoul() of the size line.
ReadSize ==
    LET number == TheLine[1][2] IN
    /\ ReadsLine("size")
    /\ IF TheLine = <<>> \/ TheLine[1][1] # "size" THEN reader' = "failed" /\ UNCHANGED remaining
       ELSE /\ reader' = (IF number = 0 THEN "last" ELSE "data")
            /\ remaining' = number

\* A line after the chunk that is not empty ends the loop, and the result is true.
ReadChunkEnd ==
    /\ ReadsLine("end") /\ UNCHANGED remaining
    /\ reader' = IF TheLine = Crlf THEN "size" ELSE IF TheLine = <<>> THEN "failed" ELSE "torn"

ReadLast ==
    /\ ReadsLine("last") /\ UNCHANGED remaining
    /\ reader' = IF TheLine = Crlf THEN "ok" ELSE "failed"

\* read_content_with_length() and skip_content_with_length().
ReadByte ==
    /\ reader \in {"data", "skip"} /\ inFlight # <<>>
    /\ inFlight' = Tail(inFlight) /\ remaining' = remaining - 1
    /\ received' = IF reader = "data" THEN Append(received, Head(inFlight)) ELSE received
    /\ reader' = IF remaining > 1 THEN reader
                 ELSE IF reader = "skip" THEN "too large"
                 ELSE IF framing = "chunked" THEN "end" ELSE "ok"
    /\ WriterWaits

\* read_content_without_length(): the end of the connection is the end.
ReadRest ==
    /\ reader = "rest"
    /\ IF inFlight # <<>> THEN /\ inFlight' = Tail(inFlight) /\ received' = Append(received, Head(inFlight))
                           /\ UNCHANGED reader
       ELSE broken /\ reader' = "ok" /\ UNCHANGED <<inFlight, received>>
    /\ UNCHANGED remaining /\ WriterWaits

\* read() returns 0 inside the data, or -1 after a timeout; the receiver says no.
ReadFails ==
    /\ \/ reader \in {"data", "skip"} /\ inFlight = <<>> /\ broken
       \/ reader \notin {"ok", "failed", "torn", "too large"} /\ inFlight = <<>> /\ ~broken
    /\ reader' = IF reader = "skip" THEN "too large" ELSE "failed"
    /\ broken' = TRUE
    /\ UNCHANGED <<framing, content, offset, writer, inFlight, remaining, received>>

BodyNext ==
    \/ \E n \in 1 .. MaxWrite : ProviderWrites(n)
    \/ ProviderWritesNothing \/ ProviderDone
    \/ \E how \in {"stopped", "failed"} : WriterGivesUp(how)
    \/ NextFollows
    \/ \E n \in 0 .. Len(inFlight) : ConnectionBreaks(n)
    \/ ReadSize \/ ReadChunkEnd \/ ReadLast \/ ReadByte \/ ReadRest \/ ReadFails

BodySpec == BodyInit /\ [][BodyNext]_bodyVars

-----------------------------------------------------------------------------
\* A body with a frame is received whole or not at all, whichever byte the
\* connection ends at, and the next message is left alone; read_content()
\* fails only after a failure, or if the provider ended a chunked body with
\* an empty write.  Two exceptions: without a frame nobody can tell, and a
\* chunked body that breaks off between the two characters after a chunk
\* passes for a complete one (read_content_chunked).
BodiesArrive ==
    /\ reader = "ok" => /\ framing # "none" => received = BytesUpTo(content)
                        /\ framing = "none" => IsPrefix(received, BytesUpTo(content))
                        /\ inFlight # <<>> => inFlight[1] = NextMessage[1]
    /\ reader = "torn" => broken /\ framing = "chunked" /\ IsPrefix(received, BytesUpTo(content))
    /\ reader = "failed" => broken \/ writer = "emptied"
    /\ reader = "too large" /\ ~broken => inFlight = <<>> \/ inFlight[1] = NextMessage[1]

-----------------------------------------------------------------------------
(***************************************************************************)
(* Ranges of a content: the client writes them into a header, the server   *)
(* reads them there and answers with these parts of a body or of what a    *)
(* content provider has.  Sizes and offsets are numbers of Width bits.     *)
(***************************************************************************)

CONSTANTS Width,       \* bits of size_t
          RangeEnds,   \* what a range may begin or end with; -1 stands for nothing
          MaxRanges,   \* bound: ranges of a request
          MaxBytes     \* bound: bytes of the content

VARIABLES asked,    \* the ranges, pairs <<first, last>>
          source,   \* "body" or "provider"
          size,     \* bytes of the content; they are 1 .. size
          response     \* the response

rangeVars == <<asked, source, size, response>>

Unsigned(n) == n % 2^Width
None == -1

NoResponse == [status |-> 0, parts |-> <<>>, told |-> <<>>]
NotSatisfiable == [NoResponse EXCEPT !.status = 416]

RangesInit ==
    /\ asked \in BoundedSeq(RangeEnds \X RangeEnds, MaxRanges)
    /\ source \in {"body", "provider"} /\ size \in 1 .. MaxBytes
    /\ response = NoResponse

-----------------------------------------------------------------------------
\* The header, a sequence of texts: numbers, or no digits at all.
Digits(n) == IF n = None THEN "" ELSE ToString(n)
make_range_header(ranges) == [i \in DOMAIN ranges |-> <<Digits(ranges[i][1]), Digits(ranges[i][2])>>]

\* The ranges that the server finds in it, if all of them are sound.
Number(text) == CHOOSE n \in RangeEnds : Digits(n) = text
Sound(ranges) == \A i \in DOMAIN ranges : None \in {ranges[i][1], ranges[i][2]} \/ ranges[i][1] <= ranges[i][2]
parse_range_header(texts) == [i \in DOMAIN texts |-> <<Number(texts[i][1]), Number(texts[i][2])>>]

Greater(m, n) == IF m >= n THEN m ELSE n

\* A defect: one byte too few.
offset_and_length_short(r, total) ==
    LET first == IF r[1] = None THEN Greater(0, total - r[2]) ELSE r[1]
        last == IF r[1] = None \/ r[2] = None THEN total - 1 ELSE r[2]
    IN IF r = <<None, None>> THEN <<0, total>> ELSE <<first, Unsigned(last - first)>>

get_range_offset_and_length(r, total) ==
    LET first == IF r[1] = None THEN Greater(0, total - r[2]) ELSE r[1]
        last == IF r[1] = None \/ r[2] = None THEN total - 1 ELSE r[2]
    IN IF r = <<None, None>> THEN <<0, total>> ELSE <<first, Unsigned(Unsigned(last - first) + 1)>>

\* substr(), which stops at the end of the body, and what a provider is asked for.
FromBody(first, length) == [first |-> first, bytes |-> IF length > size - first THEN size - first ELSE length]
FromProvider(first, length) == [first |-> first, bytes |-> length]

\* Several ranges in one answer: both passes over them, the one that adds up
\* the length and the one that writes, take the size from res.body, which is
\* empty when there is a provider.
process_multipart_ranges_data(ranges) ==
    [i \in DOMAIN ranges |->
        get_range_offset_and_length(ranges[i], IF source = "body" THEN size ELSE 0)]

make_content_range_header_field(place) == <<place[1], Unsigned(place[1] + place[2] - 1)>>

\* apply_ranges(), and for a provider write_content_with_provider().
RangesOf(ranges) ==
    IF Len(ranges) > 1 THEN process_multipart_ranges_data(ranges)
    ELSE [i \in DOMAIN ranges |-> get_range_offset_and_length(ranges[i], size)]

apply_ranges(ranges) ==
    LET places == RangesOf(ranges)
        missed == source = "body" /\ \E i \in DOMAIN places : places[i][1] >= size
        parts == [i \in DOMAIN places |-> IF source = "body" THEN FromBody(places[i][1], places[i][2])
                                          ELSE FromProvider(places[i][1], places[i][2])]
    IN CASE ranges = <<>> -> [status |-> 200, parts |-> <<[first |-> 0, bytes |-> size]>>, told |-> <<>>]
         [] missed -> NotSatisfiable
         [] OTHER -> [status |-> 206, parts |-> parts,
                      told |-> [i \in DOMAIN places |-> make_content_range_header_field(places[i])]]

\* Server::process_request() around the handler.
AnswerRanges ==
    LET ranges == parse_range_header(make_range_header(asked)) IN
    /\ response = NoResponse
    /\ response' = IF Sound(ranges) THEN apply_ranges(ranges) ELSE NotSatisfiable
    /\ UNCHANGED <<asked, source, size>>

RangesNext == AnswerRanges

-----------------------------------------------------------------------------
\* What RFC 7233 calls the bytes of a range.
Requested(r) ==
    {k \in 0 .. size - 1 : CASE r = <<None, None>> -> TRUE
                             [] r[1] = None /\ r[2] # None -> k >= size - r[2]
                             [] r[1] # None /\ r[2] = None -> k >= r[1]
                             [] OTHER -> r[1] <= k /\ k <= r[2]}

BytesOf(part) == part.first .. part.first + part.bytes - 1

Closed(r) == None \notin {r[1], r[2]} /\ r[2] < size
Inside(r) == r[1] < size /\ IF r[1] = None THEN r[2] <= size ELSE r[2] < size

\* What was asked for can be answered with the right bytes.
Answerable ==
    \/ source = "body"
    \/ Len(asked) = 1 /\ Inside(asked[1])
    \/ \A i \in DOMAIN asked : Closed(asked[i])

\* The client gets the bytes that it has asked for or the status 416: from a
\* body for every range, from a provider for ranges that end within the
\* content, and for several of them only if both ends of each are given.
\* Content-Range tells which bytes these are as long as the range does not
\* end behind the content (apply_ranges, write_content_with_provider).
RangesAnswered ==
    response.status = 206 /\ Answerable =>
        \A i \in DOMAIN asked :
            /\ BytesOf(response.parts[i]) = Requested(asked[i])
            /\ Inside(asked[i]) /\ Requested(asked[i]) # {} =>
                   response.told[i][1] .. response.told[i][2] = Requested(asked[i])

=============================================================================
