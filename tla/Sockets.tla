------------------------------- MODULE Sockets -------------------------------
(***************************************************************************)
(* The TCP connections below httplib, as its socket functions see them.    *)
(* What one call of write_data() sends is a segment: the head of a message *)
(* or its body.  A connection keeps the segments that have not been read   *)
(* in either direction, and how far each end has got.                      *)
(***************************************************************************)
EXTENDS Naturals, Sequences

VARIABLE wire   \* the connections ever made, in the order of their making

\* up: client to server; down: server to client; cs, ss: the two ends;
\* late: the server has given up waiting for the body of a request.
NewConnection == [up |-> <<>>, down |-> <<>>, cs |-> "open", ss |-> "backlog", late |-> FALSE]

Established == 1..Len(wire)

\* select_read() finds something: data, or the end of the stream.
ClientReadable(k) == wire[k].down # <<>> \/ wire[k].ss = "closed" \/ wire[k].cs # "open"
ServerReadable(k) == wire[k].up # <<>> \/ wire[k].cs # "open"

\* is_socket_alive(): nothing to read, or a byte to peek at.
ClientAlive(k) == ClientReadable(k) => wire[k].down # <<>>
ServerAlive(k) == ServerReadable(k) => wire[k].up # <<>>

\* send_socket(): what is sent to an end that has gone is lost.
ClientSends(k, segment) ==
    [wire EXCEPT ![k].up = IF wire[k].ss = "closed" THEN @ ELSE Append(@, segment)]
ServerSends(k, segment) ==
    [wire EXCEPT ![k].down = IF wire[k].cs = "open" THEN Append(@, segment) ELSE @]

\* shutdown_socket() of the client: both directions end.
ClientShuts(k) == [wire EXCEPT ![k].cs = IF @ = "open" THEN "shut" ELSE @]

\* close_socket().  An end that closes before it has read everything resets
\* the connection, and the peer may lose what it has not read: kept tells.
ClientCloses(k, kept) ==
    [wire EXCEPT ![k].cs = "closed", ![k].down = <<>>,
                 ![k].up = IF wire[k].ss = "closed" \/ (wire[k].down # <<>> /\ ~kept)
                           THEN <<>> ELSE @]
ServerCloses(k, kept) ==
    [wire EXCEPT ![k].ss = "closed", ![k].up = <<>>,
                 ![k].down = IF wire[k].cs = "closed" \/ (wire[k].up # <<>> /\ ~kept)
                             THEN <<>> ELSE @]

=============================================================================
