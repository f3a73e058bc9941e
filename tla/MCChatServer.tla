---------------------------- MODULE MCChatServer ----------------------------
(* ChatServer for TLC: the packets that clients send. *)
EXTENDS ChatServer

CONSTANTS a1, k1

Packet(op, a, x, y, room) ==
  [op |-> op, account |-> a, key |-> k1, x |-> x, y |-> y, long |-> FALSE, room |-> room]

Plain(op, a) == Packet(op, a, 0, 0, "key")

\* Moves to two corners, which are not neighbours, to a neighbour of both, and outside.
Moves == {Packet("move", a1, p[1], p[2], "key") :
            p \in {<<0, 0>>, <<1, 1>>, <<MaxX - 1, MaxY - 1>>, <<MaxX, 0>>}}

\* Packets that fill their buffer so far that some field cannot be read.
Full == {Packet("login", a1, 0, 0, "number"), Packet("move", a1, 0, 0, "word"),
         Packet("chat", a1, 0, 0, "none")}
Odd  == {Plain("login", NoAccount), Plain("chat", NoAccount),
         Plain("heartbeat", NoAccount), Plain("unknown", NoAccount)}

Long == {[Plain("chat", a1) EXCEPT !.long = TRUE]}

AllPackets == Moves \cup Full \cup Odd \cup Long \cup {Plain("login", a1), Plain("chat", a1)}
=============================================================================
