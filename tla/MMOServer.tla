------------------------------ MODULE MMOServer ------------------------------
(***************************************************************************)
(* The sessions of CMMOServer (MMOServerModule/MMOServerModule:            *)
(* MMOServer.cpp, Session.cpp). A session has a mode; the auth thread owns *)
(* it from MODE_AUTH on, hands it to the game thread, and either thread    *)
(* lets it go once _bLogout is set and nothing is being sent; the game     *)
(* thread releases every session. One send thread posts the packets of all *)
(* sessions, the workers handle the completions. _IOCount, unlike that of  *)
(* NetSession, is not checked at the release: it only sets _bLogout.       *)
(*                                                                         *)
(* A step is one access to memory that other threads use. Two races leave  *)
(* a thread, or a request, inside a session that is released or taken      *)
(* over, and the next client of the session inherits it (heirs). A         *)
(* behaviour is followed through them until the process ends (down).       *)
(* A definition marked Mutant stands for a plausible mistake in the one    *)
(* that follows it.                                                        *)
(***************************************************************************)
EXTENDS Integers, Sequences, FiniteSets

CONSTANTS
  Slots, NoSlot,    \* indices of _pSessionArray; iBlankIndex = -1
  Conns, NoConn,    \* connections, numbered as accepted: the id its session gets
  Workers,
  MaxIn, MaxOut     \* bounds: packets that wait in _completeRecvQ, in _sendQ

ASSUME ConstantsOK ==
  /\ IsFiniteSet(Slots) /\ NoSlot \notin Slots
  /\ IsFiniteSet(Conns) /\ Conns \subseteq Nat /\ NoConn \notin Conns
  /\ IsFiniteSet(Workers)
  /\ MaxIn \in Nat \ {0} /\ MaxOut \in Nat \ {0}

VARIABLES
  \* connections
  sock,             \* the socket of each
  queue,            \* _clientInfoQueue
  \* CSession, per slot
  mode, info, logout, toGame, inbox, sendQ, sending, sendCount, ioCount,
  io, left,         \* requests the kernel holds: of its client; of clients it had before
  \* CMMOServer
  free, authCount, gameCount, total,
  \* the auth thread: step, session, iBlankIndex; the game thread; the send thread, its
  \* iPacketCount; the workers: step and session
  auth, authAt, blank, game, gameAt, send, sendAt, toSend, work, workAt,
  down,             \* the process has ended
  \* ghosts: what the content was told of a connection; sends that failed; connections
  \* that got a session in use; the number of sessions taken over
  told, stuck, heirs, taken

conns == <<sock, queue>>
flow  == <<mode, info, toGame, inbox, free, authCount, gameCount, total, told>>
lines == <<sendQ, sending, sendCount, ioCount, io, left, logout, stuck>>
authT == <<auth, authAt, blank>>
gameT == <<game, gameAt>>
sendT == <<send, sendAt, toSend>>
workT == <<work, workAt>>
got   == <<heirs, taken>>
vars  == <<conns, flow, lines, authT, gameT, sendT, workT, got, down>>

Modes == {"NONE", "AUTH", "AUTH_TO_GAME", "GAME", "LOGOUT_IN_AUTH", "LOGOUT_IN_GAME", "WAIT_LOGOUT"}
Events == {"auth join", "game join", "game leave", "release"}
Kinds == {"recv", "send"}
NoIO == [k \in Kinds |-> 0]

TypeOK ==
  /\ sock \in [Conns -> {"none", "open", "reset", "shut", "closed"}] /\ queue \in Seq(Conns)
  /\ mode \in [Slots -> Modes] /\ info \in [Slots -> Conns \cup {NoConn}]
  /\ logout \in [Slots -> BOOLEAN] /\ toGame \in [Slots -> BOOLEAN]
  /\ inbox \in [Slots -> 0..MaxIn] /\ sendQ \in [Slots -> Seq(Conns)]
  /\ sending \in [Slots -> BOOLEAN] /\ sendCount \in [Slots -> 0..MaxOut]
  /\ ioCount \in [Slots -> Nat] /\ {io, left} \subseteq [Slots -> [Kinds -> Nat]]
  /\ free \in Seq(Slots) /\ authCount \in Nat /\ gameCount \in Nat /\ total \in Nat
  /\ auth \in {"idle", "count", "join", "more", "out", "beat"}
  /\ game \in {"idle", "out", "push"}
  /\ send \in {"idle", "mode", "size", "inc", "peek", "post", "fail", "log", "unsend"}
  /\ toSend \in 0..MaxOut
  /\ work \in [Workers -> {"idle", "recv", "unsend", "dec", "log"}]
  /\ {authAt, blank, gameAt, sendAt} \subseteq Slots \cup {NoSlot}
  /\ workAt \in [Workers -> Slots \cup {NoSlot}]
  /\ told \in [Conns -> SUBSET Events] /\ stuck \subseteq Slots
  /\ heirs \subseteq Conns /\ taken \in Nat /\ down \in BOOLEAN

\* Session_Init and Player_Init; the order of the indices does not matter.
Init ==
  /\ sock = [c \in Conns |-> "none"] /\ queue = <<>>
  /\ mode = [s \in Slots |-> "NONE"] /\ info = [s \in Slots |-> NoConn]
  /\ logout = [s \in Slots |-> FALSE] /\ toGame = [s \in Slots |-> FALSE]
  /\ inbox = [s \in Slots |-> 0] /\ sendQ = [s \in Slots |-> <<>>]
  /\ sending = [s \in Slots |-> FALSE] /\ sendCount = [s \in Slots |-> 0]
  /\ ioCount = [s \in Slots |-> 0] /\ io = [s \in Slots |-> NoIO] /\ left = io
  /\ free \in {q \in [1..Cardinality(Slots) -> Slots] : \A i, j \in DOMAIN q : q[i] = q[j] => i = j}
  /\ authCount = 0 /\ gameCount = 0 /\ total = 0
  /\ auth = "idle" /\ authAt = NoSlot /\ blank = NoSlot
  /\ game = "idle" /\ gameAt = NoSlot
  /\ send = "idle" /\ sendAt = NoSlot /\ toSend = 0
  /\ work = [w \in Workers |-> "idle"] /\ workAt = [w \in Workers |-> NoSlot]
  /\ told = [c \in Conns |-> {}] /\ stuck = {}
  /\ heirs = {} /\ taken = 0 /\ down = FALSE

-----------------------------------------------------------------------------
(* Sessions *)

Tell(c, e) == told' = [told EXCEPT ![c] = @ \cup {e}]

SetMode(s, m) == mode' = [mode EXCEPT ![s] = m]

\* Disconnect: shutdown of the socket.
Shut(s) == sock' = [sock EXCEPT ![info[s]] = IF @ \in {"open", "reset"} THEN "shut" ELSE @]

\* What WSARecv and WSASend may answer at once, when _connectInfo is not NULL.
Accepted(s) == info[s] # NoConn /\ sock[info[s]] \in {"open", "reset"}
Refused(s)  == info[s] # NoConn /\ sock[info[s]] # "open"

\* A second request of a kind uses the OVERLAPPED of the first again: each completes once.
Post(s, k) == io' = [io EXCEPT ![s][k] = @ + 1]

\* The session lets its requests go on.
Leave(s) ==
  /\ left' = [left EXCEPT ![s] = [k \in Kinds |-> @[k] + io[s][k]]]
  /\ io' = [io EXCEPT ![s] = NoIO]

IncIO(s) == ioCount' = [ioCount EXCEPT ![s] = @ + 1]
DecIO(s) == ioCount' = [ioCount EXCEPT ![s] = @ - 1]

\* CSession::SendPacket (bound: MaxOut packets wait)
SendPacket(s) == sendQ' = [sendQ EXCEPT ![s] = IF Len(@) < MaxOut THEN Append(@, info[s]) ELSE @]

\* The process ends: Crash(), or Disconnect, WSASend or WSARecv with _connectInfo NULL, of
\* a session that was released.
Crash == down' = TRUE /\ UNCHANGED <<conns, flow, lines, authT, gameT, sendT, workT, got>>

-----------------------------------------------------------------------------
(* Clients and the accept thread *)

AcceptThread_update(c) ==
  /\ sock[c] = "none" /\ \A b \in Conns : b < c => sock[b] # "none"
  /\ sock' = [sock EXCEPT ![c] = "open"]
  /\ queue' = Append(queue, c)
  /\ UNCHANGED <<flow, lines, authT, gameT, sendT, workT, got, down>>

\* The client closes or resets the connection.
ClientCloses(c) ==
  /\ sock[c] = "open" /\ sock' = [sock EXCEPT ![c] = "reset"]
  /\ UNCHANGED <<queue, flow, lines, authT, gameT, sendT, workT, got, down>>

-----------------------------------------------------------------------------
(* The auth thread *)

Auth(l, s) == auth' = l /\ authAt' = s

\* The send thread past the check of the mode, a worker, the heartbeat check.
Inside(s) ==
  \/ sendAt = s /\ send \in {"size", "inc", "peek", "post", "fail", "log"}
  \/ \E w \in Workers : workAt[w] = s
  \/ authAt = s /\ auth = "beat"

\* Somebody, or _bLogout, is still there for another client: it is not reset.
InUse(s) == logout[s] \/ Inside(s) \/ io[s] # NoIO \/ left[s] # NoIO

\* Pop fails on an empty stack and leaves iBlankIndex as it was: NoSlot for the first
\* connection of an update, or the index given to the one before.
TakeIndex(c, s, rest) ==
  /\ SetMode(s, "AUTH") /\ Leave(s)
  /\ info' = [info EXCEPT ![s] = c] /\ sendCount' = [sendCount EXCEPT ![s] = 0]
  /\ blank' = s /\ free' = rest
  /\ heirs' = IF InUse(s) THEN heirs \cup {c} ELSE heirs
  /\ taken' = IF mode[s] = "NONE" THEN taken ELSE taken + 1
  /\ Auth("count", s) /\ UNCHANGED sock

AuthAccept ==
  /\ auth \in {"idle", "more"} /\ queue # <<>>
  /\ LET c == Head(queue) IN
       IF free # <<>> THEN TakeIndex(c, Head(free), Tail(free))
       ELSE IF blank # NoSlot THEN TakeIndex(c, blank, free)
       ELSE /\ sock' = [sock EXCEPT ![c] = "closed"] /\ Auth("more", NoSlot)
            /\ UNCHANGED <<mode, info, sendCount, io, left, blank, free, got>>
  /\ queue' = Tail(queue)
  /\ UNCHANGED <<logout, toGame, inbox, sendQ, sending, ioCount, authCount, gameCount, total,
                 told, stuck, gameT, sendT, workT, down>>

AuthCount ==
  /\ auth = "count" /\ IncIO(authAt) /\ Auth("join", authAt)
  /\ UNCHANGED <<conns, flow, sendQ, sending, sendCount, io, left, logout, stuck, blank, gameT, sendT, workT,
                 got, down>>

\* OnAuth_ClientJoin, RecvPost(false) and the counters
AuthJoin ==
  /\ auth = "join" /\ Tell(info[authAt], "auth join")
  /\ \/ Accepted(authAt) /\ Post(authAt, "recv") /\ UNCHANGED <<sock, ioCount, logout>>
     \/ /\ Refused(authAt) /\ Shut(authAt) /\ DecIO(authAt)
        /\ logout' = [logout EXCEPT ![authAt] = @ \/ ioCount[authAt] = 1] /\ UNCHANGED io
  /\ authCount' = authCount + 1 /\ total' = total + 1
  /\ Auth("more", NoSlot)
  /\ UNCHANGED <<queue, mode, info, toGame, inbox, free, gameCount, sendQ, sending, sendCount, left,
                 stuck, blank, gameT, sendT, workT, got, down>>

\* The queue is empty: the rest of the update, in which iBlankIndex is not used.
AuthGoesOn ==
  /\ auth = "more" /\ queue = <<>> /\ Auth("idle", NoSlot) /\ blank' = NoSlot
  /\ UNCHANGED <<conns, flow, lines, gameT, sendT, workT, got, down>>

MayLeave(s) == logout[s] /\ ~sending[s]

\* OnAuth_PacketProc: one packet, a login, the choice of a character, or of another type,
\* which ends the process. Then the check.
AuthPacket(s) ==
  /\ auth = "idle" /\ mode[s] = "AUTH" /\ inbox[s] > 0
  /\ \/ /\ inbox' = [inbox EXCEPT ![s] = @ - 1] /\ SendPacket(s)
        /\ \E chosen \in BOOLEAN : toGame' = [toGame EXCEPT ![s] = @ \/ chosen]
        /\ UNCHANGED <<conns, mode, info, free, authCount, gameCount, total, told, sending, sendCount,
                       ioCount, io, left, logout, stuck, authT, gameT, sendT, workT, got, down>>
     \/ Crash

AuthCheck(s) ==
  /\ auth = "idle" /\ mode[s] = "AUTH" /\ MayLeave(s) /\ Auth("out", s)
  /\ UNCHANGED <<conns, flow, lines, blank, gameT, sendT, workT, got, down>>

AuthOut ==
  /\ auth = "out" /\ SetMode(authAt, "LOGOUT_IN_AUTH") /\ Auth("idle", NoSlot)
  /\ UNCHANGED <<conns, info, toGame, inbox, free, authCount, gameCount, total, told, lines, blank,
                 gameT, sendT, workT, got, down>>

\* OnAuth_ClientLeave, which does nothing, and the counter, which only this thread writes
AuthLets(s, m) ==
  /\ auth = "idle" /\ SetMode(s, m) /\ authCount' = authCount - 1
  /\ UNCHANGED <<conns, info, toGame, inbox, free, gameCount, total, told, lines, authT, gameT, sendT,
                 workT, got, down>>

\* Mutant: the auth thread lets go of whoever is logged out.
AuthLeaveAnyone(s) == logout[s] /\ mode[s] # "NONE" /\ AuthLets(s, "WAIT_LOGOUT")

AuthLeave(s) == mode[s] = "LOGOUT_IN_AUTH" /\ AuthLets(s, "WAIT_LOGOUT")

\* Mutant: the mode is not looked at.
AuthToGameAgain(s) == mode[s] # "NONE" /\ toGame[s] /\ AuthLets(s, "AUTH_TO_GAME")

AuthToGame(s) == mode[s] = "AUTH" /\ toGame[s] /\ AuthLets(s, "AUTH_TO_GAME")

\* Schedule_Client: no heartbeat for long. The mode is read, then Disconnect is called
\* (a second Disconnect changes nothing: not followed).
AuthBeat(s) ==
  /\ auth = "idle" /\ mode[s] \in {"AUTH", "GAME"} /\ Accepted(s) /\ Auth("beat", s)
  /\ UNCHANGED <<conns, flow, lines, blank, gameT, sendT, workT, got, down>>

AuthShut ==
  /\ auth = "beat" /\ info[authAt] # NoConn /\ Shut(authAt) /\ Auth("idle", NoSlot)
  /\ UNCHANGED <<queue, flow, lines, blank, gameT, sendT, workT, got, down>>

AuthNull == auth = "beat" /\ info[authAt] = NoConn /\ Crash

-----------------------------------------------------------------------------
(* The game thread *)

Game(l, s) == game' = l /\ gameAt' = s

GameJoin(s) ==
  /\ game = "idle" /\ mode[s] = "AUTH_TO_GAME"
  /\ Tell(info[s], "game join") /\ SendPacket(s) /\ SetMode(s, "GAME") /\ gameCount' = gameCount + 1
  /\ UNCHANGED <<conns, info, toGame, inbox, free, authCount, total, sending, sendCount, ioCount, io,
                 left, logout, stuck, authT, gameT, sendT, workT, got, down>>

\* OnGame_PacketProc; a packet of an unknown type ends the process.
GamePacket(s) ==
  /\ game = "idle" /\ mode[s] = "GAME" /\ inbox[s] > 0
  /\ \/ /\ inbox' = [inbox EXCEPT ![s] = @ - 1]
        /\ UNCHANGED <<conns, mode, info, toGame, free, authCount, gameCount, total, told, lines,
                       authT, gameT, sendT, workT, got, down>>
     \/ Crash

\* The packets that a packet, or OnGame_Update, of any player causes: for whoever is on
\* the field, those included that have not left it yet.
GameTells(s) ==
  /\ game = "idle" /\ mode[s] \in {"GAME", "LOGOUT_IN_GAME"} /\ SendPacket(s)
  /\ UNCHANGED <<conns, flow, sending, sendCount, ioCount, io, left, logout, stuck, authT, gameT, sendT,
                 workT, got, down>>

GameCheck(s) ==
  /\ game = "idle" /\ mode[s] = "GAME" /\ MayLeave(s) /\ Game("out", s)
  /\ UNCHANGED <<conns, flow, lines, authT, sendT, workT, got, down>>

GameOut ==
  /\ game = "out" /\ SetMode(gameAt, "LOGOUT_IN_GAME") /\ Game("idle", NoSlot)
  /\ UNCHANGED <<conns, info, toGame, inbox, free, authCount, gameCount, total, told, lines, authT, sendT, workT, got, down>>

GameLeave(s) ==
  /\ game = "idle" /\ mode[s] = "LOGOUT_IN_GAME"
  /\ SetMode(s, "WAIT_LOGOUT") /\ gameCount' = gameCount - 1 /\ Tell(info[s], "game leave")
  /\ UNCHANGED <<conns, info, toGame, inbox, free, authCount, total, lines, authT, gameT, sendT, workT, got, down>>

\* Mutant: what was not sent is not dropped.
ClearKeepsSendQ(s) ==
  /\ inbox' = [inbox EXCEPT ![s] = 0] /\ UNCHANGED sendQ
  /\ info' = [info EXCEPT ![s] = NoConn] /\ sendCount' = [sendCount EXCEPT ![s] = 0]
  /\ toGame' = [toGame EXCEPT ![s] = FALSE] /\ logout' = [logout EXCEPT ![s] = FALSE]

\* OnGame_ClientRelease
Clear(s) ==
  /\ inbox' = [inbox EXCEPT ![s] = 0] /\ sendQ' = [sendQ EXCEPT ![s] = <<>>]
  /\ info' = [info EXCEPT ![s] = NoConn] /\ sendCount' = [sendCount EXCEPT ![s] = 0]
  /\ toGame' = [toGame EXCEPT ![s] = FALSE] /\ logout' = [logout EXCEPT ![s] = FALSE]

\* Mutant: the session keeps its mode, and is released again.
GameReleaseAgain(s) ==
  /\ game = "idle" /\ mode[s] = "WAIT_LOGOUT" /\ info[s] # NoConn
  /\ sock' = [sock EXCEPT ![info[s]] = "closed"] /\ Tell(info[s], "release")
  /\ Game("push", s)
  /\ UNCHANGED <<queue, mode, info, toGame, inbox, free, authCount, gameCount, total, lines, authT, sendT, workT, got, down>>

GameRelease(s) ==
  /\ game = "idle" /\ mode[s] = "WAIT_LOGOUT"
  /\ sock' = [sock EXCEPT ![info[s]] = "closed"] /\ Tell(info[s], "release")
  /\ Clear(s) /\ Leave(s) /\ SetMode(s, "NONE") /\ Game("push", s)
  /\ UNCHANGED <<queue, free, authCount, gameCount, total, sending, ioCount, stuck, authT, sendT, workT, got, down>>

GamePush ==
  /\ game = "push" /\ free' = <<gameAt>> \o free /\ total' = total - 1 /\ Game("idle", NoSlot)
  /\ UNCHANGED <<conns, mode, info, toGame, inbox, authCount, gameCount, told, lines, authT, sendT, workT, got, down>>

-----------------------------------------------------------------------------
(* The send thread: SendPost of every session in turn *)

Send(l, s) == send' = l /\ sendAt' = s

\* A step that changes nothing but where the send thread is.
SendGoes(l, k) ==
  /\ send = l /\ Send(k, sendAt)
  /\ UNCHANGED <<conns, flow, lines, toSend, authT, gameT, workT, got, down>>

SendStart(s) ==
  /\ send = "idle" /\ ~sending[s] /\ sending' = [sending EXCEPT ![s] = TRUE] /\ Send("mode", s)
  /\ UNCHANGED <<conns, flow, sendQ, sendCount, ioCount, io, left, logout, stuck, toSend, authT, gameT,
                 workT, got, down>>

SendMode == SendGoes("mode", IF mode[sendAt] \in {"AUTH", "GAME"} THEN "size" ELSE "unsend")
SendSize == SendGoes("size", IF sendQ[sendAt] = <<>> THEN "unsend" ELSE "inc")

SendInc ==
  /\ send = "inc" /\ IncIO(sendAt) /\ toSend' = Len(sendQ[sendAt]) /\ Send("peek", sendAt)
  /\ UNCHANGED <<conns, flow, sendQ, sending, sendCount, io, left, logout, stuck, authT, gameT, workT,
                 got, down>>

\* The packets are looked up, and a missing one is SendMiss.
SendPeek ==
  /\ send = "peek" /\ toSend <= Len(sendQ[sendAt])
  /\ sendCount' = [sendCount EXCEPT ![sendAt] = toSend] /\ Send("post", sendAt)
  /\ UNCHANGED <<conns, flow, sendQ, sending, ioCount, io, left, logout, stuck, toSend, authT, gameT,
                 workT, got, down>>

SendMiss == send = "peek" /\ toSend > Len(sendQ[sendAt]) /\ Crash

\* WSASend; when it fails, as it does with no packet, Disconnect.
SendPost ==
  /\ send = "post"
  /\ \/ /\ Accepted(sendAt) /\ toSend > 0 /\ Post(sendAt, "send")
        /\ Send("idle", NoSlot) /\ UNCHANGED sock
     \/ /\ info[sendAt] # NoConn /\ (Refused(sendAt) \/ toSend = 0) /\ Shut(sendAt)
        /\ Send("fail", sendAt) /\ UNCHANGED io
  /\ toSend' = 0
  /\ UNCHANGED <<queue, flow, sendQ, sending, sendCount, ioCount, left, logout, stuck, authT, gameT,
                 workT, got, down>>

SendNull == send = "post" /\ info[sendAt] = NoConn /\ Crash

\* Mutant: _iSending is not cleared when something else is pending.
SendFailHeld ==
  /\ send = "fail" /\ DecIO(sendAt)
  /\ IF ioCount[sendAt] = 1 THEN Send("log", sendAt) ELSE Send("idle", NoSlot)
  /\ UNCHANGED <<conns, flow, sendQ, sending, sendCount, io, left, logout, stuck, toSend, authT, gameT,
                 workT, got, down>>

SendFail ==
  /\ send = "fail" /\ DecIO(sendAt) /\ Send(IF ioCount[sendAt] = 1 THEN "log" ELSE "unsend", sendAt)
  /\ UNCHANGED <<conns, flow, sendQ, sending, sendCount, io, left, logout, stuck, toSend, authT, gameT,
                 workT, got, down>>

SendLog ==
  /\ send = "log" /\ logout' = [logout EXCEPT ![sendAt] = TRUE] /\ Send("unsend", sendAt)
  /\ UNCHANGED <<conns, flow, sendQ, sending, sendCount, ioCount, io, left, stuck, toSend, authT, gameT,
                 workT, got, down>>

SendUnsend ==
  /\ send = "unsend" /\ sending' = [sending EXCEPT ![sendAt] = FALSE] /\ Send("idle", NoSlot)
  /\ UNCHANGED <<conns, flow, sendQ, sendCount, ioCount, io, left, logout, stuck, toSend, authT, gameT,
                 workT, got, down>>

SendStep == \/ SendMode \/ SendSize \/ SendInc \/ SendPeek \/ SendMiss
            \/ SendPost \/ SendNull \/ SendFail \/ SendLog \/ SendUnsend

-----------------------------------------------------------------------------
(* The workers *)

Work(w, l, s) == work' = [work EXCEPT ![w] = l] /\ workAt' = [workAt EXCEPT ![w] = s]

\* A completion: of the client's request, when ok, or of one left by a client before.
Completes(s, k, ok) ==
  \/ io[s][k] > 0 /\ ok /\ io' = [io EXCEPT ![s][k] = @ - 1] /\ UNCHANGED left
  \/ left[s][k] > 0 /\ left' = [left EXCEPT ![s][k] = @ - 1] /\ UNCHANGED io

\* Packets were received, whatever became of the socket since (bound: MaxIn wait; a request
\* on a full inbox is not looked at). The worker holds a unit, so that nobody can tell when
\* RecvPost(true) adds its own.
RecvDone(w, s) ==
  /\ work[w] = "idle" /\ inbox[s] < MaxIn /\ Completes(s, "recv", TRUE)
  /\ inbox' = [inbox EXCEPT ![s] = @ + 1] /\ IncIO(s) /\ Work(w, "recv", s)
  /\ UNCHANGED <<conns, mode, info, toGame, free, authCount, gameCount, total, told, sendQ, sending,
                 sendCount, logout, stuck, authT, gameT, sendT, got, down>>

\* Nothing was transferred: Disconnect, and nothing else; a send keeps _iSending.
Failed(w, s, k) ==
  /\ work[w] = "idle" /\ info[s] # NoConn /\ Completes(s, k, Refused(s))
  /\ Shut(s) /\ Work(w, "dec", s)
  /\ stuck' = IF k = "send" THEN stuck \cup {s} ELSE stuck
  /\ UNCHANGED <<queue, flow, sendQ, sending, sendCount, ioCount, logout, authT, gameT, sendT, got, down>>

\* CompleteSend: the packets that were sent, then _iSending.
SendDone(w, s) ==
  /\ work[w] = "idle" /\ Completes(s, "send", TRUE)
  /\ sendQ' = [sendQ EXCEPT ![s] = SubSeq(@, sendCount[s] + 1, Len(@))] /\ Work(w, "unsend", s)
  /\ UNCHANGED <<conns, flow, sending, sendCount, ioCount, logout, stuck, authT, gameT, sendT, got, down>>

WorkUnsend(w) ==
  /\ work[w] = "unsend" /\ sending' = [sending EXCEPT ![workAt[w]] = FALSE] /\ Work(w, "dec", workAt[w])
  /\ UNCHANGED <<conns, flow, sendQ, sendCount, ioCount, io, left, logout, stuck, authT, gameT, sendT, got, down>>

\* The rest of RecvPost(true): WSARecv
WorkRecv(w) ==
  LET s == workAt[w] IN
  /\ work[w] = "recv" /\ Work(w, "dec", s)
  /\ \/ Accepted(s) /\ Post(s, "recv") /\ UNCHANGED <<sock, ioCount>>
     \/ Refused(s) /\ Shut(s) /\ DecIO(s) /\ UNCHANGED io
  /\ UNCHANGED <<queue, flow, sendQ, sending, sendCount, left, logout, stuck, authT, gameT, sendT, got, down>>

\* Mutant: one request is left.
WorkDecEarly(w) ==
  LET s == workAt[w] IN
  /\ work[w] = "dec" /\ DecIO(s)
  /\ IF ioCount[s] <= 2 THEN Work(w, "log", s) ELSE Work(w, "idle", NoSlot)
  /\ UNCHANGED <<conns, flow, sendQ, sending, sendCount, io, left, logout, stuck, authT, gameT, sendT, got, down>>

WorkDec(w) ==
  LET s == workAt[w] IN
  /\ work[w] = "dec" /\ DecIO(s)
  /\ IF ioCount[s] = 1 THEN Work(w, "log", s) ELSE Work(w, "idle", NoSlot)
  /\ UNCHANGED <<conns, flow, sendQ, sending, sendCount, io, left, logout, stuck, authT, gameT, sendT, got, down>>

WorkLog(w) ==
  /\ work[w] = "log" /\ logout' = [logout EXCEPT ![workAt[w]] = TRUE] /\ Work(w, "idle", NoSlot)
  /\ UNCHANGED <<conns, flow, sendQ, sending, sendCount, ioCount, io, left, stuck, authT, gameT, sendT, got, down>>

SendEnds(w, s) == SendDone(w, s) \/ Failed(w, s, "send")

\* Also the Disconnect of a completion that a client before has left.
WorkNull(w) ==
  /\ \/ work[w] = "recv" /\ info[workAt[w]] = NoConn
     \/ work[w] = "idle" /\ \E s \in Slots : info[s] = NoConn /\ left[s] # NoIO
  /\ Crash

WorkStep(w) == \/ WorkUnsend(w) \/ WorkRecv(w) \/ WorkDec(w) \/ WorkLog(w) \/ WorkNull(w)
               \/ \E s \in Slots : SendEnds(w, s) \/ Failed(w, s, "recv")

-----------------------------------------------------------------------------
AuthStep == \/ AuthAccept \/ AuthCount \/ AuthJoin \/ AuthGoesOn \/ AuthOut
            \/ AuthShut \/ AuthNull
            \/ \E s \in Slots : AuthLeave(s) \/ AuthToGame(s)
GameStep == GameOut \/ GamePush \/ \E s \in Slots : GameJoin(s) \/ GameLeave(s) \/ GameRelease(s)

Next ==
  /\ ~down
  /\ \/ \E c \in Conns : AcceptThread_update(c) \/ ClientCloses(c)
     \/ AuthStep \/ GameStep \/ SendStep
     \/ \E s \in Slots : \/ AuthPacket(s) \/ AuthCheck(s) \/ AuthBeat(s)
                       \/ GamePacket(s) \/ GameTells(s) \/ GameCheck(s) \/ SendStart(s)
     \/ \E w \in Workers : WorkStep(w) \/ \E s \in Slots : RecvDone(w, s)

Spec == Init /\ [][Next]_vars

\* The loops of the four kinds of threads go on while the process does; a loop looks at
\* every session, and not each time while the send thread is at it. The completion port
\* hands out a send that is complete, however many receives there are.
FairSpec ==
  /\ Spec
  /\ WF_vars(~down /\ AuthStep) /\ WF_vars(~down /\ GameStep) /\ WF_vars(~down /\ SendStep)
  /\ \A w \in Workers : WF_vars(~down /\ WorkStep(w))
  /\ \A s \in Slots : /\ SF_vars(~down /\ AuthCheck(s)) /\ SF_vars(~down /\ GameCheck(s))
                     /\ SF_vars(~down /\ \E w \in Workers : SendEnds(w, s))

-----------------------------------------------------------------------------
(* Properties *)

\* _IOCount is the number of requests pending or being handled (WorkerThread_update,
\* SendPost, RecvPost), of whichever clients the session had.
IOCountExact ==
  \A s \in Slots : ioCount[s] =
    io[s]["recv"] + io[s]["send"] + left[s]["recv"] + left[s]["send"]
      + Cardinality({w \in Workers : workAt[w] = s /\ work[w] # "log"})
      + Cardinality({w \in Workers : workAt[w] = s /\ work[w] = "recv"})
      + (IF sendAt = s /\ send \in {"peek", "post", "fail"} THEN 1 ELSE 0)
      + (IF authAt = s /\ auth = "join" THEN 1 ELSE 0)

\* The three counters say how many sessions the threads have, whoever changes the mode,
\* and one more for each session that was taken over, for ever.
ModesExact ==
  LET In(ms)   == Cardinality({s \in Slots : mode[s] \in ms})
      One(b)   == IF b THEN 1 ELSE 0
      starting == One(auth \in {"count", "join"})
  IN  /\ authCount = In({"AUTH", "LOGOUT_IN_AUTH"}) - starting + taken
      /\ gameCount = In({"GAME", "LOGOUT_IN_GAME"})
      /\ total = In(Modes \ {"NONE"}) - starting + One(game = "push") + taken

\* What is counted of a session, by whichever thread, is what there is.
CountersExact == IOCountExact /\ ModesExact

\* An index is on _sessionIndexStack once, while its session is in no mode, or nowhere:
\* also after a session was taken over, or released under a thread.
IndexExact ==
  /\ {free[i] : i \in DOMAIN free} = {s \in Slots : mode[s] = "NONE"} \ {gameAt}
  /\ \A i, j \in DOMAIN free : free[i] = free[j] => i = j

\* What waits in _sendQ is for the client of the session: SendPacket to a session that is
\* coming down leaves nothing for the next one.
OwnPackets == \A s \in Slots : \A i \in DOMAIN sendQ[s] : sendQ[s][i] = info[s]

\* A player that came into the game leaves it before its session is released, and one
\* that did not come in does not leave: OnGame_ClientLeave takes it off its tile.
GameLeft ==
  \A c \in Conns : "release" \in told[c] => ("game join" \in told[c] <=> "game leave" \in told[c])

\* The game thread closes the socket of a client that got a session out of use, and clears
\* the session, only when the kernel holds no buffer of it and no worker handles a
\* completion, but for its late _bLogout = true, of which the next client is the heir.
QuietRelease ==
  [][\A s \in Slots : mode[s] = "WAIT_LOGOUT" /\ mode'[s] = "NONE" /\ info[s] \notin heirs =>
       /\ io[s] = NoIO /\ left[s] = NoIO
       /\ \A w \in Workers : workAt[w] = s => work[w] = "log"]_vars

\* A session that is logged out is released: both threads look for _bLogout, whatever is
\* in flight. But for one with a send that transferred nothing (_iSending stays), and
\* for the end of the process.
LogoutReleases ==
  \A s \in Slots : logout[s] /\ mode[s] # "NONE" ~> (mode[s] = "NONE" \/ s \in stuck \/ down)
=============================================================================
