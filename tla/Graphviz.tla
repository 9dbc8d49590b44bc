---- MODULE Graphviz ----
(* read_graphviz (read_graphviz.hpp) with the recursive descent of          *)
(* graphviz_syntax_analyzer.  A token has a type and a text; the name of a  *)
(* node is the sequence of its words, which '_' joins in the source.        *)
EXTENDS DirectedGraph

CONSTANTS NodeNames,
          MaxTokens   \* bound: tokens between the braces

Token(type, text) == [type |-> type, text |-> <<text>>]
Identifier(name) == [type |-> "identifier", text |-> name]
Punctuator(c) == Token("punctuator", c)
Direct == Token("operator", "->")
Undirect == Token("operator", "--")
EqualsSign == Token("operator", "=")
EndOfText == [type |-> "eof", text |-> <<>>]

Connections == {Direct, Undirect}

VARIABLES tokens,   \* the tokens of the text that was read
          tight,    \* they are written without blanks, except between words
          result    \* what read_graphviz() did with it

graphvizVars == <<tokens, tight, result>>

-----------------------------------------------------------------------------
\* Texts are sequences of characters; for the lexer a keyword or a word of a
\* name is one letter.
Letters == {"digraph", "graph", "g"} \cup UNION {ToSet(n) : n \in NodeNames}
Digits == {"1"}

Spelling(t) ==
    CASE t.type = "identifier" ->
            [i \in 1 .. 2 * Len(t.text) - 1 |-> IF i % 2 = 0 THEN "_" ELSE t.text[(i + 1) \div 2]]
      [] t = Direct -> <<"-", ">">>
      [] t = Undirect -> <<"-", "-">>
      [] OTHER -> t.text

Worded(t) == t.type \in {"identifier", "keyword", "literal"}
Written(ts, narrow) ==
    FlattenSeq([i \in DOMAIN ts |->
        IF narrow /\ ~(i < Len(ts) /\ Worded(ts[i]) /\ Worded(ts[i + 1])) THEN Spelling(ts[i])
        ELSE Spelling(ts[i]) \o <<" ">>])

\* The length of the longest beginning of cs with characters from set.
Run(cs, set) == CHOOSE n \in 0 .. Len(cs) : /\ \A i \in 1 .. n : cs[i] \in set
                                            /\ n = Len(cs) \/ cs[n + 1] \notin set

RECURSIVE Lex(_)

\* get_next_token(), again and again.  A word takes every '-' that follows
\* it; a character that begins no token ends the text.
Lex(cs) ==
    LET c == cs[1]
        word == Run(cs, Letters \cup Digits \cup {"_", "-"})
        text == SubSeq(cs, 1, word)
        digits == Run(cs, Digits \cup {"."})
        rest(n) == Lex(SubSeq(cs, n + 1, Len(cs)))
    IN  CASE cs = <<>> -> <<>>
          [] c = " " -> rest(1)
          [] c \in Letters -> <<IF text \in {<<"digraph">>, <<"graph">>} THEN Token("keyword", text[1])
                               ELSE Identifier(SelectSeq(text, LAMBDA x : x # "_"))>> \o rest(word)
          [] c \in Digits -> <<[type |-> "literal", text |-> SubSeq(cs, 1, digits)]>> \o rest(digits)
          [] c \in {";", "{", "}", "[", "]"} -> <<Punctuator(c)>> \o rest(1)
          [] c = "-" /\ Len(cs) > 1 /\ cs[2] \in {"-", ">"} ->
                <<IF cs[2] = ">" THEN Direct ELSE Undirect>> \o rest(2)
          [] c = "=" -> <<EqualsSign>> \o rest(1)
          [] OTHER -> <<>>

-----------------------------------------------------------------------------
\* Every rule returns the tokens it leaves and what it has built; Nothing is
\* the null pointer, and Refuse stands for the exception unexpected_syntax.
Nothing == [kind |-> "nothing"]
Built(ast, rest) == [ok |-> TRUE, ast |-> ast, rest |-> rest]
Refuse == [ok |-> FALSE, ast |-> Nothing, rest |-> <<>>]

At(ts, i) == IF i <= Len(ts) THEN ts[i] ELSE EndOfText
From(ts, i) == SubSeq(ts, i, Len(ts))

RECURSIVE attributes(_), statement(_), statement_list(_), IsStatement(_, _), IsBody(_, _), Process(_, _)

\* attribute(), again and again; what it builds is never looked at.
attributes(ts) ==
    IF At(ts, 1).type # "identifier" THEN Built(Nothing, ts)
    ELSE IF At(ts, 2) = EqualsSign /\ At(ts, 3).type \in {"identifier", "literal"}
    THEN attributes(From(ts, 4)) ELSE Refuse

attributes_list(ts) ==
    LET inner == attributes(From(ts, 2)) IN
    IF At(ts, 1) # Punctuator("[") THEN Built(Nothing, ts)
    ELSE IF inner.ok /\ At(inner.rest, 1) = Punctuator("]") THEN Built(Nothing, From(inner.rest, 2))
    ELSE Refuse

node_statement(ts) ==
    LET list == attributes_list(From(ts, 2)) IN
    IF At(ts, 1).type # "identifier" THEN Built(Nothing, ts)
    ELSE IF list.ok THEN Built([kind |-> "node", name |-> ts[1].text], list.rest) ELSE Refuse

\* A defect: the rest of a chain hangs at the wrong end.
statement_flat(ts) ==
    LET left == node_statement(ts)
        right == node_statement(From(left.rest, 2))
    IN  IF ~left.ok \/ At(left.rest, 1).type # "operator" THEN left
        ELSE IF ~right.ok \/ At(left.rest, 1) \notin Connections THEN Refuse
        ELSE Built([kind |-> "edge", operator |-> At(left.rest, 1), left |-> left.ast, right |-> right.ast],
                   right.rest)

\* Either end of an edge may be Nothing.
statement(ts) ==
    LET left == node_statement(ts)
        right == statement(From(left.rest, 2))
    IN  IF ~left.ok \/ At(left.rest, 1).type # "operator" THEN left
        ELSE IF At(left.rest, 1) \notin Connections \/ ~right.ok THEN Refuse
        ELSE Built([kind |-> "edge", operator |-> At(left.rest, 1), left |-> left.ast, right |-> right.ast],
                   right.rest)

statement_list(ts) ==
    LET first == statement(ts)
        more == statement_list(From(first.rest, 2))
    IN  IF ~first.ok THEN Refuse
        ELSE IF first.ast = Nothing THEN Built(<<>>, ts)
        ELSE IF At(first.rest, 1) # Punctuator(";") \/ ~more.ok THEN Refuse
        ELSE Built(<<first.ast>> \o more.ast, more.rest)

\* graph(): keyword, name, and the statements between braces.
parse(ts) ==
    LET list == statement_list(From(ts, 4)) IN
    IF /\ At(ts, 1) \in {Token("keyword", "digraph"), Token("keyword", "graph")}
       /\ At(ts, 2).type = "identifier" /\ At(ts, 3) = Punctuator("{")
       /\ list.ok /\ At(list.rest, 1) = Punctuator("}")
    THEN list ELSE Refuse

-----------------------------------------------------------------------------
Stopped(r, how) == [r EXCEPT !.outcome = how]

\* process_statement on an edge: the right end first; a null pointer or an
\* undirected edge there is dereferenced as a node, and so is a null pointer
\* on the left.
Process(r, edge) ==
    LET nested == edge.right.kind = "edge" /\ edge.right.operator = Direct
        inner == IF nested THEN Process(r, edge.right) ELSE r
        to == IF nested THEN edge.right.left ELSE edge.right
        g == insert_node(insert_node(inner.graph, edge.left.name), to.name)
    IN  IF inner.outcome # "ok" THEN inner
        ELSE IF edge.left.kind # "node" \/ to.kind # "node" THEN Stopped(inner, "crash")
        ELSE IF edge.left.name = to.name THEN Stopped(inner, "loop")
        ELSE [inner EXCEPT !.graph = insert_direct_edge(g, edge.left.name, to.name, edge.left.name \o to.name)]

\* Statements other than directed edges are passed over; an undirected graph
\* has no statements for read_graphviz, which dereferences a null pointer.
read_graphviz(ts) ==
    LET tree == parse(ts)
        begin == [outcome |-> "ok", graph |-> NoNodes]
        step(r, s) == IF r.outcome = "ok" /\ s.kind = "edge" /\ s.operator = Direct THEN Process(r, s) ELSE r
    IN  IF ~tree.ok THEN Stopped(begin, "syntax")
        ELSE IF At(ts, 1) = Token("keyword", "graph") THEN Stopped(begin, "crash")
        ELSE FoldLeft(step, begin, tree.ast)

-----------------------------------------------------------------------------
Alphabet == {Identifier(n) : n \in NodeNames} \cup Connections
            \cup {EqualsSign, Punctuator(";"), Punctuator("["), Punctuator("]")}
Chain(s) == FoldLeft(LAMBDA ts, n : ts \o <<Direct, Identifier(n)>>, <<Identifier(s[1])>>, Tail(s))
            \o <<Punctuator(";")>>
Chains == {Chain(s) : s \in UNION {[1 .. n -> NodeNames] : n \in 1 .. 3}}
Marked == <<Identifier(CHOOSE n \in NodeNames : TRUE), Punctuator("["),
            Identifier(CHOOSE n \in NodeNames : TRUE), EqualsSign, Token("literal", "1"), Punctuator("]")>>

\* Every short body, two chains in a row, and an attribute list before each.
Bodies == UNION {[1 .. n -> Alphabet] : n \in 0 .. MaxTokens} \cup {c \o d : c, d \in Chains}
          \cup {Marked \o c : c \in Chains} \cup {Marked \o <<Direct>> \o c : c \in Chains}

GraphvizInit == tokens = <<>> /\ tight = FALSE /\ result = [outcome |-> "none", graph |-> NoNodes]

Read == /\ tokens = <<>>
        /\ \E body \in Bodies, keyword \in {"digraph", "graph"} :
              tokens' = <<Token("keyword", keyword), Identifier(<<"g">>), Punctuator("{")>>
                        \o body \o <<Punctuator("}")>>
        /\ tight' \in BOOLEAN
        /\ result' = read_graphviz(Lex(Written(tokens', tight')))

\* The grammar of the README beside the parser, for what stands between the
\* braces; lax allows for nodes that are left out on either side of an operator.
IsAttribute(s) == s[1].type = "identifier" /\ s[2] = EqualsSign /\ s[3].type \in {"identifier", "literal"}
IsAttrList(s) ==
    /\ Len(s) >= 2 /\ s[1] = Punctuator("[") /\ Last(s) = Punctuator("]") /\ Len(s) % 3 = 2
    /\ \A i \in 0 .. (Len(s) - 2) \div 3 - 1 : IsAttribute(SubSeq(s, 3 * i + 2, 3 * i + 4))
IsNode(s) == s # <<>> /\ s[1].type = "identifier" /\ (Len(s) = 1 \/ IsAttrList(Tail(s)))

IsStatement(s, lax) ==
    \/ IsNode(s)
    \/ \E i \in DOMAIN s :
          LET before == SubSeq(s, 1, i - 1)  after == From(s, i + 1) IN
          /\ s[i] \in Connections
          /\ IsNode(before) \/ (lax /\ before = <<>>)
          /\ IsStatement(after, lax) \/ (lax /\ after = <<>>)

IsBody(s, lax) ==
    \/ s = <<>>
    \/ \E i \in DOMAIN s : /\ s[i] = Punctuator(";") /\ IsStatement(SubSeq(s, 1, i - 1), lax)
                           /\ IsBody(From(s, i + 1), lax)

Between == SubSeq(tokens, 4, Len(tokens) - 1)

\* The names on both sides of a directed edge in the text, attribute lists aside.
Arrows ==
    LET plain == SelectSeq(tokens, LAMBDA t : t.type # "literal")
        ends(i) == CHOOSE j \in 1 .. i - 1 : /\ plain[j].type = "identifier"
                                             /\ \A k \in j + 1 .. i - 1 : plain[k] # Punctuator(";")
                                             /\ j = 1 \/ plain[j - 1] # EqualsSign
                                             /\ \/ j = i - 1
                                                \/ plain[j + 1] = Punctuator("[") /\ plain[i - 1] = Punctuator("]")
    IN  {<<plain[ends(i)].text, plain[i + 1].text>> : i \in {i \in DOMAIN plain : plain[i] = Direct}}

Linked == {<<n, m>> \in result.graph.nodes \X result.graph.nodes : m \in ToSet(result.graph.out[n])}

\* A name is written right before a connection.
Glued == tight /\ \E i \in 1 .. Len(tokens) - 1 : tokens[i].type = "identifier" /\ tokens[i + 1] \in Connections

\* The parser accepts the language of the grammar, and texts that leave out
\* nodes; blanks matter only between words and before a connection, whose
\* '-' a name would take.  Of a text in the language, a graph is built with
\* an edge for every arrow, except that of arrows whose names, joined by '_',
\* look the same one gets an edge; read_graphviz dereferences a null pointer
\* only for a text with undirected edges or without some node (get_next_token,
\* parse, process_statement).
GraphvizReadsArrows ==
    (tokens # <<>> /\ ~Glued) =>
        /\ result.outcome = "syntax" <=> ~IsBody(Between, TRUE)
        /\ result.outcome = "ok" /\ Undirect \notin ToSet(tokens) =>
              /\ Linked \subseteq Arrows
              /\ \A w \in Arrows : \E l \in Linked : l[1] \o l[2] = w[1] \o w[2]
        /\ result.outcome = "crash" =>
              \/ tokens[1].text = <<"graph">> \/ Undirect \in ToSet(tokens)
              \/ ~IsBody(Between, FALSE)

====
