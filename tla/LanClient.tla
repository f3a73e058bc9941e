------------------------------ MODULE LanClient ------------------------------
(***************************************************************************)
(* CLanClient (mylibrary/LanClient.cpp; ServerAgent keeps a copy): one     *)
(* object that is connected to another server. There is no session lock:   *)
(* SendPacket may be called at any time. In the agent the main thread      *)
(* calls Connect and then SendPacket once a second, whatever Connect said, *)
(* so a lost connection is made again. The game server calls Connect once, *)
(* while its other threads send whenever _bConnected says so. OnRecv may   *)
(* send in both.                                                           *)
(* A step is one access to what threads share, or several of which only    *)
(* one can be told from outside. A definition marked Mutant stands for a   *)
(* plausible mistake in the one that follows it.                           *)
(***************************************************************************)
EXTENDS Integers, Sequences, FiniteSets

CONSTANTS
  Main,                   \* the thread that calls Connect
  Apps,                   \* threads of the game server that send
  Workers,                \* WorkerThread
  Batch,                  \* packets of one WSASend (200)
  MaxLinks, MaxQueue,     \* bounds: connections made (and early calls), packets waiting
  MaxMissed               \* bound: early calls of the agent's workers

Threads == {Main} \cup Apps \cup Workers

ASSUME ConstantsOK ==
  /\ IsFiniteSet(Threads) /\ Main \notin Apps \cup Workers /\ Apps \cap Workers = {}
  /\ Batch \in Nat \ {0} /\ MaxLinks \in Nat /\ MaxQueue \in Nat /\ MaxMissed \in Nat

VARIABLES
  agent,                  \* whether the program is the agent
  port, missed,           \* _hIOCP is there; calls made before it was
  sock,                   \* _ClientSock: INVALID_SOCKET, not connected, open, shut down
  connected,              \* _bConnected
  ioCount, releaseFlag,   \* _IOCompare
  sending, sendCount,     \* _bSending, _iSendCount
  sendQ,                  \* _SendQ: of which connection a packet speaks
  io,                     \* requests pending: "recv", "send"
  pc, cont, held,         \* of each thread: next step, where SendPost returns to, its units of IOCount
  links, inside, heard    \* connections made; ghosts: the content was told that it is
                          \* connected, a packet got through on this connection

build   == <<agent, port, missed>>
link    == <<build, sock, connected>>
count   == <<ioCount, releaseFlag>>
queue   == <<sending, sendCount, sendQ>>
threads == <<pc, cont, held>>
ghosts  == <<links, inside, heard>>
vars    == <<link, count, queue, io, threads, ghosts>>

Labels == {"idle", "cinc", "cflag", "enter", "recvio", "report", "post", "size", "unsend", "resize",
           "sinc", "sendio", "proc", "rinc", "sdone", "sreset", "drop", "release", "drain", "close", "unset"}

TypeOK ==
  /\ agent \in BOOLEAN /\ port \in BOOLEAN /\ missed \in 0..MaxMissed
  /\ sock \in {"invalid", "fresh", "open", "shut"} /\ connected \in BOOLEAN
  /\ ioCount \in Int /\ releaseFlag \in {0, 1}
  /\ sending \in BOOLEAN /\ sendCount \in 0..Batch /\ sendQ \in Seq(0..MaxLinks)
  /\ io \subseteq {"recv", "send"}
  /\ pc \in [Threads -> Labels] /\ cont \in [Threads -> Labels] /\ held \in [Threads -> 0..2]
  /\ links \in 0..MaxLinks /\ inside \in BOOLEAN /\ heard \in BOOLEAN

Init ==
  /\ agent \in BOOLEAN /\ port = ~agent /\ missed = 0
  /\ sock = "invalid" /\ connected = FALSE /\ ioCount = 0 /\ releaseFlag = 0
  /\ sending = FALSE /\ sendCount = 0 /\ sendQ = <<>> /\ io = {}
  /\ pc = [t \in Threads |-> "idle"] /\ cont = [t \in Threads |-> "idle"] /\ held = [t \in Threads |-> 0]
  /\ links = 0 /\ inside = FALSE /\ heard = FALSE

At(t, l) == pc[t] = l
Goto(t, l) == pc' = [pc EXCEPT ![t] = l]
Hold(t, d) == ioCount' = ioCount + d /\ held' = [held EXCEPT ![t] = @ + d]

\* SendPost and the calls in it return.
Return(t) == Goto(t, cont[t]) /\ cont' = [cont EXCEPT ![t] = "idle"]

\* SendPacket: the packet is queued; then SendPost.
Enqueue(t, then) ==
  /\ sendQ' = IF Len(sendQ) < MaxQueue THEN Append(sendQ, links) ELSE sendQ
  /\ Goto(t, "post") /\ cont' = [cont EXCEPT ![t] = then]

\* Disconnect: shutdown
Shut == sock' = IF sock = "open" THEN "shut" ELSE sock

-----------------------------------------------------------------------------
(* The constructor. The agent's starts the workers, and then makes the completion port. *)

MakePort ==
  /\ ~port /\ port' = TRUE
  /\ UNCHANGED <<agent, missed, sock, connected, count, queue, io, threads, ghosts>>

\* GetQueuedCompletionStatus fails without a request, and the worker goes on to the decrement
\* of IOCount, as if it had a unit. From then on the count is too low.
EarlyCall(t) ==
  /\ ~port /\ At(t, "idle") /\ missed < MaxMissed /\ missed' = missed + 1
  /\ held' = [held EXCEPT ![t] = 1] /\ Goto(t, "drop")
  /\ UNCHANGED <<agent, port, sock, connected, count, queue, io, cont, ghosts>>

-----------------------------------------------------------------------------
(* Connect *)

\* Connected already, or connect fails: the socket is kept for the next time.
NotNow ==
  /\ At(Main, "idle") /\ agent /\ port /\ Goto(Main, "report")
  /\ sock' = IF ~connected /\ sock = "invalid" THEN "fresh" ELSE sock
  /\ UNCHANGED <<build, connected, count, queue, io, cont, held, ghosts>>

\* connect succeeds, _bConnected = true.
Connect ==
  /\ At(Main, "idle") /\ port /\ (agent \/ links = 0) /\ ~connected /\ sock \in {"invalid", "fresh"}
  /\ links + missed < MaxLinks
  /\ sock' = "open" /\ connected' = TRUE /\ links' = links + 1 /\ heard' = FALSE
  /\ Goto(Main, "cinc")
  /\ UNCHANGED <<build, count, queue, io, cont, held, inside>>

ConnectInc ==
  /\ At(Main, "cinc") /\ Hold(Main, 1) /\ Goto(Main, "cflag")
  /\ UNCHANGED <<link, releaseFlag, queue, io, cont, ghosts>>

ConnectFlag ==
  /\ At(Main, "cflag") /\ releaseFlag' = 0 /\ Goto(Main, "enter")
  /\ UNCHANGED <<link, ioCount, queue, io, cont, held, ghosts>>

\* OnEnterJoinServer: the login packet is sent; then RecvPost(FALSE).
Enter ==
  /\ At(Main, "enter") /\ inside' = TRUE /\ Enqueue(Main, "recvio")
  /\ UNCHANGED <<link, count, sending, sendCount, io, held, links, heard>>

\* UpdatePdh of the agent sends what it has measured.
Report ==
  /\ At(Main, "report")
  /\ IF agent THEN Enqueue(Main, "idle") ELSE Goto(Main, "idle") /\ UNCHANGED <<sendQ, cont>>
  /\ UNCHANGED <<link, count, sending, sendCount, io, held, ghosts>>

\* MonitorThread_update, DatabaseWriteThread_update
AppSend(t) ==
  /\ At(t, "idle") /\ ~agent /\ connected /\ Enqueue(t, "idle")
  /\ UNCHANGED <<link, count, sending, sendCount, io, held, ghosts>>

-----------------------------------------------------------------------------
(* SendPost *)

Post(t) ==
  /\ At(t, "post") /\ sending' = TRUE
  /\ IF sending THEN Return(t) ELSE Goto(t, "size") /\ UNCHANGED cont
  /\ UNCHANGED <<link, count, sendCount, sendQ, io, held, ghosts>>

Size(t) ==
  /\ At(t, "size") /\ Goto(t, IF sendQ = <<>> THEN "unsend" ELSE "sinc")
  /\ UNCHANGED <<link, count, queue, io, cont, held, ghosts>>

Unsend(t) ==
  /\ At(t, "unsend") /\ sending' = FALSE /\ Goto(t, "resize")
  /\ UNCHANGED <<link, count, sendCount, sendQ, io, cont, held, ghosts>>

Resize(t) ==
  /\ At(t, "resize")
  /\ IF sendQ = <<>> THEN Return(t) ELSE Goto(t, "post") /\ UNCHANGED cont
  /\ UNCHANGED <<link, count, queue, io, held, ghosts>>

SendInc(t) ==
  /\ At(t, "sinc") /\ Hold(t, 1) /\ Goto(t, "sendio")
  /\ UNCHANGED <<link, releaseFlag, queue, io, cont, ghosts>>

\* WSASend of what can be peeked; the request takes the unit over. It may fail at once.
SendIO(t) ==
  /\ At(t, "sendio") /\ sendCount' = IF Len(sendQ) < Batch THEN Len(sendQ) ELSE Batch
  /\ \/ sock = "open" /\ io' = io \cup {"send"} /\ held' = [held EXCEPT ![t] = @ - 1]
          /\ Return(t) /\ UNCHANGED sock
     \/ Shut /\ Goto(t, "drop") /\ UNCHANGED <<io, held, cont>>
  /\ UNCHANGED <<build, connected, count, sending, sendQ, ghosts>>

-----------------------------------------------------------------------------
(* RecvPost, and the worker threads *)

RecvInc(t) ==
  /\ At(t, "rinc") /\ Hold(t, 1) /\ Goto(t, "recvio")
  /\ UNCHANGED <<link, releaseFlag, queue, io, cont, ghosts>>

\* After RecvPost: Connect returns, and a worker gives its completion back.
AfterRecv(t) == IF t = Main THEN "report" ELSE "drop"

RecvIO(t) ==
  /\ At(t, "recvio")
  /\ \/ sock = "open" /\ io' = io \cup {"recv"} /\ held' = [held EXCEPT ![t] = @ - 1]
          /\ Goto(t, AfterRecv(t)) /\ UNCHANGED <<sock, cont>>
     \/ Shut /\ Goto(t, "drop") /\ cont' = [cont EXCEPT ![t] = AfterRecv(t)] /\ UNCHANGED <<io, held>>
  /\ UNCHANGED <<build, connected, count, queue, ghosts>>

\* GetQueuedCompletionStatus. No bytes: the connection is at its end, Disconnect. A request may
\* have been done before that.
Complete(t, k) ==
  /\ At(t, "idle") /\ k \in io /\ io' = io \ {k} /\ held' = [held EXCEPT ![t] = 1]
  /\ \/ Goto(t, "drop") /\ Shut
     \/ k = "recv" /\ Goto(t, "proc") /\ UNCHANGED sock
     \/ k = "send" /\ Goto(t, "sdone") /\ UNCHANGED sock
  /\ UNCHANGED <<build, connected, count, queue, cont, ghosts>>

\* PacketProc: nothing whole was received, or OnRecv, which may answer.
Proc(t) ==
  /\ At(t, "proc")
  /\ \/ Goto(t, "rinc") /\ UNCHANGED <<sendQ, cont>>
     \/ Enqueue(t, "rinc")
  /\ UNCHANGED <<link, count, sending, sendCount, io, held, ghosts>>

\* What was sent leaves the queue.
SendDone(t) ==
  /\ At(t, "sdone") /\ sendQ' = SubSeq(sendQ, sendCount + 1, Len(sendQ)) /\ heard' = TRUE /\ Goto(t, "sreset")
  /\ UNCHANGED <<link, count, sending, sendCount, io, cont, held, links, inside>>

SendReset(t) ==
  /\ At(t, "sreset") /\ sending' = FALSE /\ Goto(t, "post") /\ cont' = [cont EXCEPT ![t] = "drop"]
  /\ UNCHANGED <<link, count, sendCount, sendQ, io, held, ghosts>>

\* The peer ends the connection.
PeerCloses ==
  /\ sock = "open" /\ Shut
  /\ UNCHANGED <<build, connected, count, queue, io, threads, ghosts>>

-----------------------------------------------------------------------------
(* SessionRelease *)

\* Mutant: whoever sees the count at 0 leaves it to the others.
DropOnly(t) ==
  /\ At(t, "drop") /\ Hold(t, -1) /\ Return(t)
  /\ UNCHANGED <<link, releaseFlag, queue, io, ghosts>>

Drop(t) ==
  /\ At(t, "drop") /\ Hold(t, -1)
  /\ IF ioCount = 1 THEN Goto(t, "release") /\ UNCHANGED cont ELSE Return(t)
  /\ UNCHANGED <<link, releaseFlag, queue, io, ghosts>>

\* Mutant: the flag is not part of the compare.
ReleaseByCount(t) ==
  /\ At(t, "release")
  /\ IF ioCount = 0 THEN releaseFlag' = 1 /\ Goto(t, "drain") /\ UNCHANGED cont
     ELSE Return(t) /\ UNCHANGED releaseFlag
  /\ UNCHANGED <<link, ioCount, queue, io, held, ghosts>>

\* The compare-and-swap of count and flag
Release(t) ==
  /\ At(t, "release")
  /\ IF ioCount = 0 /\ releaseFlag = 0 THEN releaseFlag' = 1 /\ Goto(t, "drain") /\ UNCHANGED cont
     ELSE Return(t) /\ UNCHANGED releaseFlag
  /\ UNCHANGED <<link, ioCount, queue, io, held, ghosts>>

Drain(t) ==
  /\ At(t, "drain") /\ sendQ' = <<>> /\ Goto(t, "close")
  /\ UNCHANGED <<link, count, sending, sendCount, io, cont, held, ghosts>>

\* Mutant: OnLeaveServer is not called.
CloseUntold(t) ==
  /\ At(t, "close") /\ sock' = "invalid" /\ Goto(t, "unset")
  /\ UNCHANGED <<build, connected, count, queue, io, cont, held, ghosts>>

\* closesocket, OnLeaveServer, _ClientSock = INVALID_SOCKET
Close(t) ==
  /\ At(t, "close") /\ sock' = "invalid" /\ inside' = FALSE /\ Goto(t, "unset")
  /\ UNCHANGED <<build, connected, count, queue, io, cont, held, links, heard>>

Unset(t) ==
  /\ At(t, "unset") /\ connected' = FALSE /\ Return(t)
  /\ UNCHANGED <<build, sock, count, queue, io, held, ghosts>>

-----------------------------------------------------------------------------
Inside(t) ==
  \/ Post(t) \/ Size(t) \/ Unsend(t) \/ Resize(t) \/ SendInc(t) \/ SendIO(t)
  \/ RecvInc(t) \/ RecvIO(t) \/ Proc(t) \/ SendDone(t) \/ SendReset(t)
  \/ Drop(t) \/ Release(t) \/ Drain(t) \/ Close(t) \/ Unset(t)

ConnectGoesOn == ConnectInc \/ ConnectFlag \/ Enter \/ Report

Next ==
  \/ NotNow \/ Connect \/ ConnectGoesOn \/ PeerCloses
  \/ \E t \in Apps : AppSend(t)
  \/ MakePort \/ \E t \in Workers : EarlyCall(t)
  \/ \E t \in Workers, k \in {"recv", "send"} : Complete(t, k)
  \/ \E t \in Threads : Inside(t)

Spec == Init /\ [][Next]_vars

\* Threads are scheduled, the main thread goes round, and requests complete: sends always,
\* receives when the connection has ended.
FairSpec ==
  /\ Spec /\ WF_vars(MakePort) /\ WF_vars(ConnectGoesOn) /\ WF_vars(NotNow \/ Connect)
  /\ \A t \in Threads : WF_vars(Inside(t))
  /\ SF_vars(\E t \in Workers : Complete(t, "send"))
  /\ SF_vars(sock # "open" /\ \E t \in Workers : Complete(t, "recv"))

-----------------------------------------------------------------------------
(* Properties *)

\* All three are about a program whose workers found the port: after an early call IOCount is
\* too low, and they fail.

\* IOCount is the number of pending requests and of units threads hold. So in the agent a
\* connection is torn down by one thread, with no request of it pending: no buffer is cleared
\* under a request, and no socket of the next connection is closed. (In the game server
\* Connect sets _bConnected before it has its unit of IOCount, and a thread that sends in
\* between tears down what Connect is setting up.)
Tearing(t) == pc[t] \in {"drain", "close", "unset"}
QuietRelease == missed = 0 =>
  /\ ioCount = Cardinality(io) + Cardinality(UNION {{t} \X (1..held[t]) : t \in Threads})
  /\ agent => \A t \in Threads : Tearing(t) => io = {} /\ \A u \in Threads : Tearing(u) => u = t

\* The content is told of a connection only after it was told of the end of the last one.
EnterOnce == [][missed = 0 /\ Enter => ~inside]_vars

\* A connection that has ended is released, and the way is free for the next.
ShutReleases == sock = "shut" /\ missed = 0 ~> sock # "shut"

\* ServerAgent/CommonProtocol.h:826: a server sends what it monitors once a second. While
\* a connection lasts, something gets through.
Reports == sock = "open" ~> (heard \/ sock # "open")
=============================================================================
