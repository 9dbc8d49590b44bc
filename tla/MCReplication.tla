---- MODULE MCReplication ----
(* TLC instance of the replicated register and of the messages of HTTP that *)
(* its replicas exchange: bodies, forms, ranges, texts, and whole calls     *)
(* with their redirections.  They share no state: a behaviour exercises the *)
(* part named by chosen and leaves the others alone.                        *)
EXTENDS MCRegister, HttpContent, HttpParsing, HttpRequests

\* A content that looks like the beginning of a boundary; boundaries that are
\* a part of their own delimiter or end with a blank.
ContentsOfItems == {<<>>, <<"x">>, <<"\r", "\n", "-">>}
BoundariesOfForms == {<<"b">>, <<"-", "b">>, <<"-">>, <<"b", " ">>}

EndsOfRanges == -1 .. 3
KeysOfParams == {<<"a">>, <<"2", "u">>, <<"+">>}

VARIABLE chosen  \* the part that this behaviour exercises

\* A site whose one handler answers, and nothing else.
PlainSite == [pre |-> FALSE, file |-> FALSE, expect |-> 100, catches |-> FALSE,
              reader |-> "none", a |-> "ok", b |-> "ok"]

\* What the parts that are not exercised start with.
AtRest ==
    /\ chosen # "register" => scenario = CHOOSE s \in Scenarios : TRUE
    /\ chosen # "body" => framing = "none" /\ content = 0
    /\ chosen # "form" => form = <<>> /\ boundary = <<"b">>
    /\ chosen # "ranges" => asked = <<>> /\ source = "body" /\ size = 1
    /\ chosen # "text" => text = [kind |-> "path", value |-> <<>>]
    /\ chosen # "requests" => call = Bare("GET", {}) /\ site = PlainSite /\ follow = FALSE

ReplicationInit ==
    /\ chosen \in {"register", "body", "form", "ranges", "text", "requests"}
    /\ AtRest
    /\ Init /\ BodyInit /\ FormInit /\ RangesInit /\ TextInit /\ RequestsInit

\* A step of one part; the variables of every other part stay.
Exercise(part, step) ==
    /\ chosen = part /\ step /\ UNCHANGED chosen
    /\ part # "register" => UNCHANGED vars
    /\ part # "body" => UNCHANGED bodyVars
    /\ part # "form" => UNCHANGED formVars
    /\ part # "ranges" => UNCHANGED rangeVars
    /\ part # "text" => UNCHANGED textVars
    /\ part # "requests" => UNCHANGED requestVars

\* A message has come to its end; a call of a client has returned.
Finished ==
    /\ chosen # "register"
    /\ chosen = "body" => reader \in {"ok", "failed", "torn", "too large"}
    /\ chosen = "requests" => outcome.kind \notin {"", "wait"}
    /\ UNCHANGED <<vars, bodyVars, formVars, rangeVars, textVars, requestVars, chosen>>

ReplicationNext ==
    \/ Exercise("register", Next)
    \/ Exercise("body", BodyNext)
    \/ Exercise("form", FormNext)
    \/ Exercise("ranges", RangesNext)
    \/ Exercise("text", TextNext)
    \/ Exercise("requests", RequestsNext)
    \/ Finished

-----------------------------------------------------------------------------
\* What is to hold of a part when it is exercised; otherwise it does not change.
Of(part, property) == chosen = part => property

\* What one side puts into a message the other side takes out of it, whichever
\* pieces it comes in: forms, ranges and texts (httplib.hpp).
MessagesArrive ==
    /\ Of("form", FormsArrive) /\ Of("ranges", RangesAnswered) /\ Of("text", TextArrives)

====
