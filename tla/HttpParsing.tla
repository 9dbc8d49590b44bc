---------------------------- MODULE HttpParsing -----------------------------
(***************************************************************************)
(* The text of HTTP messages, then multipart forms.                        *)
(*                                                                         *)
(* Paths, parameters and header values between client and server: what the *)
(* client escapes and what the server takes for an escape.                 *)
(***************************************************************************)
EXTENDS Naturals, Sequences, SequencesExt

CONSTANTS ParamKeys,    \* keys of parameters, sequences of characters
          MaxText       \* bound: characters of a path or of a value

VARIABLES text,      \* what the client gives, with its kind
          arrived    \* what the server has of it, as soon as it has

textVars == <<text, arrived>>

Plain == {"a", "2", "B", "u"}
Special == {" ", "+", "%", "&", "="}
HexDigits == {"0", "2", "3", "5", "6", "a", "B", "D"}

Hex(c) == CASE c = " " -> <<"2", "0">> [] c = "+" -> <<"2", "B">> [] c = "%" -> <<"2", "5">>
            [] c = "&" -> <<"2", "6">> [] c = "=" -> <<"3", "D">>
Escaped(c) == <<"%">> \o Hex(c)

Texts(n) == BoundedSeq(Plain \cup Special, n)

TextInit ==
    /\ \/ \E s \in Texts(MaxText), kind \in {"path", "header"} :
              text = [kind |-> kind, value |-> s]
       \/ \E params \in BoundedSeq(ParamKeys \X Texts(MaxText), 1) \cup BoundedSeq(ParamKeys \X Texts(1), 2),
             kind \in {"query", "form"} :
              text = [kind |-> kind, value |-> params]
    /\ arrived = <<>>

-----------------------------------------------------------------------------
\* Letter by letter; what is not escaped stays.
Escape(s, letters) == FoldLeft(LAMBDA t, c : t \o (IF c \in letters THEN Escaped(c) ELSE <<c>>), <<>>, s)

encode_query_param(value) == Escape(value, Special)
encode_url(s) == Escape(s, {" ", "+"})

is_space_or_tab(c) == c = " "

from_hex_to_i(s, i, count) == i + count - 1 <= Len(s) /\ \A j \in i .. i + count - 1 : s[j] \in HexDigits

\* The character of a code; the ones that no escape stands for are not told apart.
Character(pair) == IF \E c \in Special : Hex(c) = pair THEN CHOOSE c \in Special : Hex(c) = pair ELSE "other"

RECURSIVE decode_url(_, _)
decode_url(s, plus) ==
    LET After(n) == decode_url(SubSeq(s, n + 1, Len(s)), plus) IN
    CASE s = <<>> -> <<>>
      [] s[1] = "%" /\ Len(s) > 1 /\ s[2] = "u" /\ from_hex_to_i(s, 3, 4) -> <<"other">> \o After(6)
      [] s[1] = "%" /\ from_hex_to_i(s, 2, 2) -> <<Character(SubSeq(s, 2, 3))>> \o After(3)
      [] plus /\ s[1] = "+" -> <<" ">> \o After(1)
      [] OTHER -> <<s[1]>> \o After(1)

Trimmed(s) ==
    LET solid == {i \in DOMAIN s : ~is_space_or_tab(s[i])}
    IN IF solid = {} THEN <<>> ELSE SubSeq(s, Min(solid), Max(solid))

\* The pieces that are not empty, without the blanks around them.
split(s, d) ==
    LET cuts == SetToSortSeq({0, Len(s) + 1} \cup {i \in DOMAIN s : s[i] = d}, <)
        pieces == [i \in 1 .. Len(cuts) - 1 |-> Trimmed(SubSeq(s, cuts[i] + 1, cuts[i + 1] - 1))]
    IN SelectSeq(pieces, LAMBDA p : p # <<>>)

params_to_query_str(params) ==
    LET Pair(p) == p[1] \o <<"=">> \o encode_query_param(p[2])
    IN IF params = <<>> THEN <<>>
       ELSE FoldLeft(LAMBDA query, p : query \o <<"&">> \o Pair(p), Pair(params[1]), Tail(params))

\* Of several equal parameters the first one counts.
FirstOfEqual(kvs) == SelectSeq([i \in DOMAIN kvs |-> <<i, kvs[i]>>],
                               LAMBDA x : \A j \in 1 .. x[1] - 1 : kvs[j] # x[2])

parse_query_text(s) ==
    LET kvs == FirstOfEqual(split(s, "&"))
        Key(kv) == Head(kv)
        Val(kv) == IF Len(kv) > 1 THEN Last(kv) ELSE <<>>
        Param(kv) == <<decode_url(Key(kv), TRUE), decode_url(Val(kv), TRUE)>>
        ParamOf(x) == Param(split(x[2], "="))
    IN [i \in DOMAIN SelectSeq(kvs, LAMBDA x : split(x[2], "=") # <<>>) |->
            ParamOf(SelectSeq(kvs, LAMBDA x : split(x[2], "=") # <<>>)[i])]

\* The value of a header; parse_header() ignores one without a value.
parse_header(value) == decode_url(Trimmed(value), FALSE)

\* A defect: blanks are escaped once more on their way out.
CarryTwice(t) ==
    CASE t.kind = "path" -> decode_url(encode_url(t.value), FALSE)
      [] t.kind = "query" -> parse_query_text(Escape(params_to_query_str(t.value), {" ", "+", "%"}))
      [] t.kind = "form" -> parse_query_text(params_to_query_str(t.value))
      [] t.kind = "header" -> parse_header(t.value)

\* write_request() and parse_request_line(), read_headers(), read_content().
\* A query is escaped twice, once as parameters and once with the path.
Carry(t) ==
    CASE t.kind = "path" -> decode_url(encode_url(t.value), FALSE)
      [] t.kind = "query" -> parse_query_text(encode_url(params_to_query_str(t.value)))
      [] t.kind = "form" -> parse_query_text(params_to_query_str(t.value))
      [] t.kind = "header" -> parse_header(t.value)

TextNext ==
    /\ arrived = <<>>
    /\ arrived' = <<Carry(text)>> /\ UNCHANGED text

-----------------------------------------------------------------------------
LooksEscaped(s) ==
    \E i \in DOMAIN s :
        /\ s[i] = "%"
        /\ \/ from_hex_to_i(s, i + 1, 2)
           \/ i < Len(s) /\ s[i + 1] = "u" /\ from_hex_to_i(s, i + 2, 4)

WithoutDoubles(params) == [i \in DOMAIN FirstOfEqual(params) |-> FirstOfEqual(params)[i][2]]

\* What the client gives arrives: a path, and the value of a header without
\* blanks around it, unless they contain what looks like an escape; parameters
\* with whatever values, in a query or in a form, each of them once, provided
\* that their keys have nothing to escape (params_to_query_str, encode_url,
\* decode_url, parse_query_text, parse_header).
TextArrives ==
    arrived # <<>> =>
        CASE text.kind = "path" -> ~LooksEscaped(text.value) => arrived[1] = text.value
          [] text.kind = "header" ->
                 ~LooksEscaped(text.value) /\ Trimmed(text.value) = text.value => arrived[1] = text.value
          [] OTHER -> (\A i \in DOMAIN text.value : ToSet(text.value[i][1]) \subseteq Plain)
                         => arrived[1] = WithoutDoubles(text.value)

-----------------------------------------------------------------------------
(***************************************************************************)
(* A form on its way to the server: serialize_multipart_formdata() makes   *)
(* one body of its items, the connection hands it over in pieces, and      *)
(* MultipartFormDataParser takes it apart while they come.  A header line  *)
(* is one symbol here, and never longer than the parser admits; everything *)
(* that the parser searches for is spelled.                                *)
(***************************************************************************)

CONSTANTS FormContents,  \* contents of an item, none with a boundary line in it
          Boundaries,    \* boundaries, as sequences of characters
          MaxItems,      \* bound: items of a form
          MaxFiles       \* CPPHTTPLIB_MULTIPART_FORM_DATA_FILE_MAX_COUNT

VARIABLES form,      \* the items that the client has posted
          boundary,
          unread,    \* what the server has not read of the body
          parser,    \* MultipartFormDataParser
          torn       \* a piece ended inside of the first boundary line

formVars == <<form, boundary, unread, parser, torn>>

FormNames == {"n1", "n2"}
FormTypes == {"t"}
Items == [name : FormNames, type : FormTypes \cup {""}, content : FormContents]

Dashes == <<"-", "-">>
NewLine == <<"\r", "\n">>
Disposition(item) == <<item.name>>
ContentTypeLine(item) == IF item.type = "" THEN <<>> ELSE <<item.type>> \o NewLine

-----------------------------------------------------------------------------
(* The client.                                                             *)

\* Letters and digits, of which the boundaries here have two, "-" and "_".
is_multipart_boundary_chars_valid(b) == ToSet(b) \subseteq {"b", "x", "-", "_"}

serialize_multipart_formdata(items, b) ==
    LET Part(item) == Dashes \o b \o NewLine \o Disposition(item) \o NewLine
                        \o ContentTypeLine(item) \o NewLine \o item.content \o NewLine
    IN FoldLeft(LAMBDA body, item : body \o Part(item), <<>>, items)
         \o Dashes \o b \o Dashes \o NewLine

NewParser == [state |-> 0, buffer |-> <<>>, valid |-> FALSE, failed |-> FALSE,
              name |-> "", type |-> "", files |-> <<>>]

FormInit ==
    /\ form \in BoundedSeq(Items, MaxItems)
    /\ \A i \in DOMAIN form : form[i].name = (IF i = 1 THEN "n1" ELSE "n2") /\ (i > 1 => form[i].type = "")
    /\ boundary \in {b \in Boundaries : is_multipart_boundary_chars_valid(b)}
    /\ unread = serialize_multipart_formdata(form, boundary)
    /\ parser = NewParser /\ torn = FALSE

-----------------------------------------------------------------------------
(* The server.                                                             *)

\* How many characters come before s in the buffer; all of them if s is not there.
buf_find(buffer, s) ==
    LET found == {i \in 0 .. Len(buffer) - Len(s) : SubSeq(buffer, i + 1, i + Len(s)) = s}
    IN IF found = {} THEN Len(buffer) ELSE CHOOSE i \in found : \A j \in found : i <= j

Erased(buffer, n) == SubSeq(buffer, n + 1, Len(buffer))

\* What the turn makes of the parser, and whether parse() goes on.
Goes(p) == [parser |-> p, over |-> FALSE]
Returns(p) == [parser |-> p, over |-> TRUE]

\* State 0: whatever comes before the first boundary line is dropped.
InitialBoundary(p) ==
    LET line == Dashes \o boundary \o NewLine
        from == Erased(p.buffer, buf_find(p.buffer, line))
    IN IF Len(line) > Len(from) THEN Returns([p EXCEPT !.buffer = from])
       ELSE Goes([p EXCEPT !.buffer = Erased(from, Len(line)), !.state = 1])

\* State 1.
NewEntry(p) == Goes([p EXCEPT !.name = "", !.type = "", !.state = 2])

\* State 2, a line at a time.  The callback of Server::read_content() refuses
\* an item too many.
HeaderLine(p) ==
    LET pos == buf_find(p.buffer, NewLine)
        rest == Erased(p.buffer, pos + Len(NewLine))
    IN CASE pos = Len(p.buffer) -> Returns(p)
         [] pos = 0 /\ Len(p.files) = MaxFiles -> Returns([p EXCEPT !.valid = FALSE, !.failed = TRUE])
         [] pos = 0 -> Goes([p EXCEPT !.buffer = rest, !.state = 3,
                               !.files = Append(@, [name |-> p.name, type |-> p.type, content |-> <<>>])])
         [] p.buffer[1] \in FormTypes -> Goes([p EXCEPT !.type = p.buffer[1], !.buffer = rest])
         [] p.buffer[1] \in FormNames -> Goes([p EXCEPT !.name = p.buffer[1], !.buffer = rest])
         [] OTHER -> Goes([p EXCEPT !.buffer = rest])

AppendContent(p, n) ==
    [p EXCEPT !.files[Len(p.files)].content = @ \o SubSeq(p.buffer, 1, n)]

\* A defect: nothing is kept back for a boundary that has come in part.
PartBodyHasty(p) ==
    LET delimiter == NewLine \o Dashes \o boundary
        pos == buf_find(p.buffer, delimiter)
    IN IF pos < Len(p.buffer)
       THEN Goes([AppendContent(p, pos) EXCEPT !.buffer = Erased(@, pos + Len(delimiter)), !.state = 4])
       ELSE Returns([AppendContent(p, Len(p.buffer)) EXCEPT !.buffer = <<>>])

\* State 3: as many characters as a boundary has stay in the buffer.
PartBody(p) ==
    LET delimiter == NewLine \o Dashes \o boundary
        pos == buf_find(p.buffer, delimiter)
        len == Len(p.buffer) - Len(delimiter)
    IN CASE Len(delimiter) > Len(p.buffer) -> Returns(p)
         [] pos < Len(p.buffer) ->
              Goes([AppendContent(p, pos) EXCEPT !.buffer = Erased(@, pos + Len(delimiter)), !.state = 4])
         [] OTHER -> Returns([AppendContent(p, len) EXCEPT !.buffer = Erased(@, len)])

\* State 4: another part, or the end.
AfterBoundary(p) ==
    LET end == Dashes \o NewLine IN
    CASE Len(p.buffer) < Len(NewLine) -> Returns(p)
      [] IsPrefix(NewLine, p.buffer) -> Goes([p EXCEPT !.buffer = Erased(@, Len(NewLine)), !.state = 1])
      [] Len(p.buffer) >= Len(end) /\ IsPrefix(end, p.buffer) ->
             Goes([p EXCEPT !.valid = TRUE, !.buffer = <<>>])
      [] OTHER -> Returns(p)

RECURSIVE ParseBuffer(_)
ParseBuffer(p) ==
    LET turn == CASE p.state = 0 -> InitialBoundary(p)
                  [] p.state = 1 -> NewEntry(p)
                  [] p.state = 2 -> HeaderLine(p)
                  [] p.state = 3 -> PartBody(p)
                  [] p.state = 4 -> AfterBoundary(p)
    IN IF p.buffer = <<>> THEN p
       ELSE IF turn.over THEN turn.parser ELSE ParseBuffer(turn.parser)

\* read_content() hands the parser what one read() of the socket has given.
ReadPiece(n) ==
    /\ unread # <<>> /\ ~parser.failed
    /\ parser' = ParseBuffer([parser EXCEPT !.buffer = @ \o SubSeq(unread, 1, n)])
    /\ unread' = Erased(unread, n)
    /\ torn' = (torn \/ (parser'.state = 0 /\ unread' # <<>>))
    /\ UNCHANGED <<form, boundary>>

FormNext == \E n \in {1, 2, 5, Len(unread)} : n <= Len(unread) /\ ReadPiece(n)

-----------------------------------------------------------------------------
\* However the body comes in pieces, the server finds in it the items that
\* the client has put there, each with its type and all of its content
\* (MultipartFormDataParser::parse).  Three cases are apart: a form without
\* items is refused, and so is one with too many; and while a piece ends inside
\* of the first boundary line it looks for, the parser drops what it has of
\* the line and with it the item: the form is accepted without that item,
\* and refused only if no item is left.
FormsArrive ==
    unread = <<>> \/ parser.failed =>
        CASE form = <<>> -> ~parser.valid
          [] torn -> /\ IsSuffix(parser.files, form) /\ parser.files # form
                     /\ parser.valid <=> parser.files # <<>>
          [] Len(form) > MaxFiles -> ~parser.valid
          [] OTHER -> parser.valid /\ parser.files = form

=============================================================================
