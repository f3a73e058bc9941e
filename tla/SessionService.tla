--------------------------- MODULE SessionService ---------------------------
(***************************************************************************)
(* What the session layer (CNetServer, CLanServer) promises to the content *)
(* built on it, whatever its threads do. A call of the content takes time, *)
(* so it has a beginning and an end. A client id is announced by one       *)
(* OnClientJoin and ended by one OnClientLeave; its packets come between   *)
(* them, one OnRecv at a time and one OnSend at a time; while              *)
(* OnClientLeave runs no other call about the client is under way, and two *)
(* clients alive at the same time never share a session slot.              *)
(***************************************************************************)
CONSTANTS Ids,          \* client ids: pairs <<slot of _aSession, serial number>>
          Callers       \* the threads that call the content

VARIABLES alive,        \* ids whose OnClientJoin returned, and that were not told to leave
          ended,        \* ids whose OnClientLeave returned
          calls         \* the calls under way: <<caller, kind, id>>

svars == <<alive, ended, calls>>

Init == alive = {} /\ ended = {} /\ calls = {}

\* A new id, on a slot nobody else is using.
MayJoin(i) ==
  /\ i \notin alive \cup ended
  /\ \A j \in alive \cup {c[3] : c \in calls} : j[1] # i[1]

\* A client that is alive is told to leave, when no other call is about it.
MayLeave(i) == i \in alive /\ \A c \in calls : c[3] # i

\* OnRecv and OnSend: each is called for one packet, or one completion, at a time.
MayHear(k, i) == i \in alive /\ \A c \in calls : c[3] = i => c[2] \notin {k, "leave"}

Enter(t, k, i) ==
  /\ \A c \in calls : c[1] # t
  /\ \/ k = "join" /\ MayJoin(i)
     \/ k = "leave" /\ MayLeave(i)
     \/ k \in {"recv", "sent"} /\ MayHear(k, i)
  /\ calls' = calls \cup {<<t, k, i>>}
  /\ UNCHANGED <<alive, ended>>

Return(t, k, i) ==
  /\ <<t, k, i>> \in calls
  /\ calls' = calls \ {<<t, k, i>>}
  /\ alive' = (IF k = "join" THEN alive \cup {i} ELSE alive) \
              (IF k = "leave" THEN {i} ELSE {})
  /\ ended' = ended \cup (IF k = "leave" THEN {i} ELSE {})

Next ==
  \E t \in Callers, k \in {"join", "recv", "sent", "leave"}, i \in Ids :
    Enter(t, k, i) \/ Return(t, k, i)

Spec == Init /\ [][Next]_svars
=============================================================================
