----------------------------- MODULE NetSession -----------------------------
(***************************************************************************)
(* The session layer of CNetServer (NetServer/NetServer/NetServer.cpp; the *)
(* same protocol is compiled into mylibrary/NetServer.cpp and              *)
(* mylibrary/LanServer.cpp).                                               *)
(*                                                                         *)
(* A slot of _aSession is shared, without a lock, by the accept thread,    *)
(* the IOCP worker threads and any content thread that calls SendPacket or *)
(* ClientDisconnect with a client id, which may have been released since.  *)
(* IOCount counts the references to a slot (pending I/O and threads inside *)
(* AcquireSessionLock / ReleaseSessionLock); whoever brings it to 0 tries  *)
(* to release the session with one 128-bit compare-and-swap of             *)
(* (IOCount, ReleaseFlag) from (0,0) to (0,1).                             *)
(*                                                                         *)
(* One step of a thread is one access to memory that other threads use: an *)
(* interlocked instruction, a read that decides a branch, an operation of  *)
(* the lock-free queue or stack (atomic here), a socket call.              *)
(*                                                                         *)
(* A definition marked Mutant stands for a plausible mistake in the one    *)
(* that follows it. No specification uses it; TLC finds a property         *)
(* violated when it takes the place of the real one.                       *)
(***************************************************************************)
EXTENDS Integers, Sequences, FiniteSets

CONSTANTS
  Slots,        \* indices of _aSession
  Acceptor,     \* the thread running AcceptThreadFunc
  Workers,      \* the threads running WorkerThreadFunc
  Apps,         \* content threads that call SendPacket / ClientDisconnect
  NoSlot, NoId, \* "no session in hand", uninitialised ClientId
  SendBatch,    \* packets one WSASend takes (200 in SendPost)
  MaxClients,   \* bound: connections accepted in a behaviour
  MaxQueue      \* bound: a content thread does not start a send beyond it

ASSUME ConstantsOK ==
  /\ IsFiniteSet(Slots) /\ NoSlot \notin Slots
  /\ NoId \notin Slots \X Nat
  /\ IsFiniteSet(Workers) /\ IsFiniteSet(Apps)
  /\ Acceptor \notin Workers \cup Apps
  /\ Workers \cap Apps = {}
  /\ SendBatch \in Nat \ {0}
  /\ MaxClients \in Nat
  /\ MaxQueue \in Nat

Threads   == {Acceptor} \cup Workers \cup Apps
ClientIds == Slots \X Nat               \* MAKECLIENTID(index, _iClientID)

VARIABLES
  \* SESSION, per slot
  clientId, ioCount, releaseFlag, sock, sendQ, sending, sendCount,
  io,           \* I/O requests the kernel holds for the slot
  \* CNetServer
  free,         \* _indexStack; which index comes first does not matter here
  nextId,       \* _iClientID
  clientCount,  \* _iClientCount
  \* what the content has been told
  joined, left,
  \* per thread: program counter, pSession, the clientId argument, what to do
  \* with the session once locked, where the call returns to, and how many
  \* units of IOCount the thread owns
  pc, slot, id, op, cont, held

sesVars == <<clientId, ioCount, releaseFlag, sock, sendQ, sending, sendCount, io>>
srvVars == <<free, nextId, clientCount, joined, left>>
thVars  == <<pc, slot, id, op, cont, held>>
vars    == <<sesVars, srvVars, thVars>>

Labels == {"idle", "aset", "ainc", "aflag", "ajoin", "acount",
           "check", "inc", "flag", "recheck", "enqueue", "shutdown",
           "post", "size", "unsend", "resize", "sinc", "sendio",
           "proc", "rinc", "recvio", "sdone", "sreset",
           "drop", "release", "leave", "drain", "push"}
Returns == {"idle", "rinc", "sdone", "acount"}

TypeSession ==
  /\ clientId \in [Slots -> ClientIds \cup {NoId}]
  /\ ioCount \in [Slots -> Nat]
  /\ releaseFlag \in [Slots -> {0, 1}]
  /\ sock \in [Slots -> {"open", "shut", "closed"}]
  /\ sendQ \in [Slots -> Seq(ClientIds)]
  /\ sending \in [Slots -> BOOLEAN]
  /\ sendCount \in [Slots -> Nat]
  /\ io \in [Slots -> SUBSET {"recv", "send"}]

TypeServer ==
  /\ free \subseteq Slots
  /\ nextId \in Nat /\ clientCount \in Int
  /\ joined \subseteq ClientIds /\ left \subseteq ClientIds

TypeThread ==
  /\ pc \in [Threads -> Labels]
  /\ slot \in [Threads -> Slots \cup {NoSlot}]
  /\ id \in [Threads -> ClientIds \cup {NoId}]
  /\ op \in [Threads -> {"send", "disc"}]
  /\ cont \in [Threads -> Returns]
  /\ held \in [Threads -> Nat]

\* Every variable has the type its C++ declaration gives it.
TypeOK == TypeSession /\ TypeServer /\ TypeThread

\* Init_Session: every slot free, IOCount = ReleaseFlag = 0.
Init ==
  /\ clientId = [s \in Slots |-> NoId]
  /\ ioCount = [s \in Slots |-> 0]
  /\ releaseFlag = [s \in Slots |-> 0]
  /\ sock = [s \in Slots |-> "closed"]
  /\ sendQ = [s \in Slots |-> <<>>]
  /\ sending = [s \in Slots |-> FALSE]
  /\ sendCount = [s \in Slots |-> 0]
  /\ io = [s \in Slots |-> {}]
  /\ free = Slots /\ nextId = 0 /\ clientCount = 0
  /\ joined = {} /\ left = {}
  /\ pc = [t \in Threads |-> "idle"]
  /\ slot = [t \in Threads |-> NoSlot]
  /\ id = [t \in Threads |-> NoId]
  /\ op = [t \in Threads |-> "disc"]
  /\ cont = [t \in Threads |-> "idle"]
  /\ held = [t \in Threads |-> 0]

-----------------------------------------------------------------------------
(* Control flow of a thread *)

At(t, l) == pc[t] = l
Goto(t, l) == pc' = [pc EXCEPT ![t] = l]

\* The units of IOCount a thread still owns when a nested call returns: inside
\* the worker loop the completion being handled owns one.
Keep(t) == IF cont[t] \in {"rinc", "sdone"} THEN 1 ELSE 0

\* A call made with h units left: give the surplus back, or return.
Resume(t, h) ==
  /\ held' = [held EXCEPT ![t] = h]
  /\ IF h > Keep(t)
       THEN Goto(t, "drop") /\ UNCHANGED <<slot, id, op, cont>>
       ELSE /\ Goto(t, cont[t])
            /\ cont' = [cont EXCEPT ![t] = "idle"]
            /\ slot' = [slot EXCEPT ![t] = IF Keep(t) = 1 THEN @ ELSE NoSlot]
            /\ id' = [id EXCEPT ![t] = NoId]
            /\ op' = [op EXCEPT ![t] = "disc"]

\* Call SendPacket (o = "send") or ClientDisconnect (o = "disc") on client i,
\* to return to c.
Call(t, i, o, c) ==
  /\ Goto(t, "check")
  /\ id' = [id EXCEPT ![t] = i]
  /\ op' = [op EXCEPT ![t] = o]
  /\ cont' = [cont EXCEPT ![t] = c]

IncIO(s) == ioCount' = [ioCount EXCEPT ![s] = @ + 1]
\* Mutant: one call path decrements twice.
DecIOTwice(s) == ioCount' = [ioCount EXCEPT ![s] = @ - 2]
DecIO(s) == ioCount' = [ioCount EXCEPT ![s] = @ - 1]

-----------------------------------------------------------------------------
(* AcceptThreadFunc: one accepted connection                               *)

\* _indexStack.Pop; with no free index the connection is closed and nothing
\* else happens.
AcceptPop(t) ==
  /\ At(t, "idle") /\ nextId < MaxClients
  /\ \E s \in free :
       /\ free' = free \ {s}
       /\ slot' = [slot EXCEPT ![t] = s]
  /\ Goto(t, "aset")
  /\ UNCHANGED <<sesVars, nextId, clientCount, joined, left, id, op, cont, held>>

\* The session fields are overwritten. When the socket cannot be registered
\* with the completion port it is closed, and the code goes on.
AcceptSet(t) ==
  LET s == slot[t] IN
  /\ At(t, "aset")
  /\ clientId' = [clientId EXCEPT ![s] = <<s, nextId>>]
  /\ sending' = [sending EXCEPT ![s] = FALSE]
  /\ sendCount' = [sendCount EXCEPT ![s] = 0]
  /\ \E k \in {"open", "closed"} : sock' = [sock EXCEPT ![s] = k]
  /\ Goto(t, "ainc")
  /\ UNCHANGED <<ioCount, releaseFlag, sendQ, io, srvVars, slot, id, op, cont, held>>

\* IOCount first ...
AcceptInc(t) ==
  /\ At(t, "ainc")
  /\ IncIO(slot[t])
  /\ held' = [held EXCEPT ![t] = @ + 1]
  /\ Goto(t, "aflag")
  /\ UNCHANGED <<clientId, releaseFlag, sock, sendQ, sending, sendCount, io,
                 srvVars, slot, id, op, cont>>

\* ... then ReleaseFlag: the slot is open for AcquireSessionLock from here.
AcceptFlag(t) ==
  /\ At(t, "aflag")
  /\ releaseFlag' = [releaseFlag EXCEPT ![slot[t]] = 0]
  /\ Goto(t, "ajoin")
  /\ UNCHANGED <<clientId, ioCount, sock, sendQ, sending, sendCount, io,
                 srvVars, slot, id, op, cont, held>>

\* OnClientJoin, then RecvPost(pSession, FALSE).
AcceptJoin(t) ==
  /\ At(t, "ajoin")
  /\ joined' = joined \cup {clientId[slot[t]]}
  /\ Goto(t, "recvio")
  /\ cont' = [cont EXCEPT ![t] = "acount"]
  /\ UNCHANGED <<sesVars, free, nextId, clientCount, left, slot, id, op, held>>

AcceptCount(t) ==
  /\ At(t, "acount")
  /\ nextId' = nextId + 1
  /\ clientCount' = clientCount + 1
  /\ Goto(t, "idle")
  /\ UNCHANGED <<sesVars, free, joined, left, slot, id, op, cont, held>>

-----------------------------------------------------------------------------
(* AcquireSessionLock                                                      *)

\* clientId == pSession->ClientId
Check(t) ==
  /\ At(t, "check")
  /\ IF clientId[slot[t]] = id[t]
       THEN Goto(t, "inc") /\ UNCHANGED <<slot, id, op, cont, held>>
       ELSE Resume(t, held[t])
  /\ UNCHANGED <<sesVars, srvVars>>

\* InterlockedIncrement(IOCount); the first reference is no reference.
Inc(t) ==
  /\ At(t, "inc")
  /\ IncIO(slot[t])
  /\ held' = [held EXCEPT ![t] = @ + 1]
  /\ Goto(t, IF ioCount[slot[t]] = 0 THEN "drop" ELSE "flag")
  /\ UNCHANGED <<clientId, releaseFlag, sock, sendQ, sending, sendCount, io,
                 srvVars, slot, id, op, cont>>

\* Mutant: ReleaseFlag is not looked at.
FlagIgnored(t) ==
  /\ At(t, "flag")
  /\ Goto(t, "recheck")
  /\ UNCHANGED <<sesVars, srvVars, slot, id, op, cont, held>>

\* A released slot is given back.
Flag(t) ==
  /\ At(t, "flag")
  /\ Goto(t, IF releaseFlag[slot[t]] = 1 THEN "drop" ELSE "recheck")
  /\ UNCHANGED <<sesVars, srvVars, slot, id, op, cont, held>>

\* Mutant: the id is compared only before the increment.
RecheckSkipped(t) ==
  /\ At(t, "recheck")
  /\ Goto(t, IF op[t] = "send" THEN "enqueue" ELSE "shutdown")
  /\ UNCHANGED <<sesVars, srvVars, slot, id, op, cont, held>>

\* The slot may hold another client by now.
Recheck(t) ==
  /\ At(t, "recheck")
  /\ Goto(t, IF clientId[slot[t]] # id[t] THEN "drop"
             ELSE IF op[t] = "send" THEN "enqueue" ELSE "shutdown")
  /\ UNCHANGED <<sesVars, srvVars, slot, id, op, cont, held>>

-----------------------------------------------------------------------------
(* What the lock was taken for                                             *)

\* SendPacket: the packet, tagged with the id it was addressed to, is queued.
Enqueue(t) ==
  /\ At(t, "enqueue")
  /\ sendQ' = [sendQ EXCEPT ![slot[t]] = Append(@, id[t])]
  /\ Goto(t, "post")
  /\ UNCHANGED <<clientId, ioCount, releaseFlag, sock, sending, sendCount, io,
                 srvVars, slot, id, op, cont, held>>

\* ClientDisconnect: shutdown(SD_BOTH), then ReleaseSessionLock.
ShutSock(t) ==
  LET s == slot[t] IN
  /\ At(t, "shutdown")
  /\ sock' = [sock EXCEPT ![s] = IF @ = "open" THEN "shut" ELSE @]
  /\ Goto(t, "drop")
  /\ UNCHANGED <<clientId, ioCount, releaseFlag, sendQ, sending, sendCount, io,
                 srvVars, slot, id, op, cont, held>>

-----------------------------------------------------------------------------
(* SendPost                                                                *)

\* Mutant: Sending is set without a compare.
PostAlways(t) ==
  /\ At(t, "post")
  /\ sending' = [sending EXCEPT ![slot[t]] = TRUE]
  /\ Goto(t, "size")
  /\ UNCHANGED <<clientId, ioCount, releaseFlag, sock, sendQ, sendCount, io,
                 srvVars, slot, id, op, cont, held>>

\* InterlockedCompareExchange(Sending, TRUE, FALSE)
Post(t) ==
  LET s == slot[t] IN
  /\ At(t, "post")
  /\ sending' = [sending EXCEPT ![s] = TRUE]
  /\ IF sending[s] THEN Resume(t, held[t])
                   ELSE Goto(t, "size") /\ UNCHANGED <<slot, id, op, cont, held>>
  /\ UNCHANGED <<clientId, ioCount, releaseFlag, sock, sendQ, sendCount, io, srvVars>>

Size(t) ==
  /\ At(t, "size")
  /\ Goto(t, IF sendQ[slot[t]] = <<>> THEN "unsend" ELSE "sinc")
  /\ UNCHANGED <<sesVars, srvVars, slot, id, op, cont, held>>

\* Nothing to send: Sending = FALSE, then look again.
Unsend(t) ==
  /\ At(t, "unsend")
  /\ sending' = [sending EXCEPT ![slot[t]] = FALSE]
  /\ Goto(t, "resize")
  /\ UNCHANGED <<clientId, ioCount, releaseFlag, sock, sendQ, sendCount, io,
                 srvVars, slot, id, op, cont, held>>

\* Mutant: nobody looks at the queue again.
ResizeSkipped(t) ==
  /\ At(t, "resize")
  /\ Resume(t, held[t])
  /\ UNCHANGED <<sesVars, srvVars>>

Resize(t) ==
  /\ At(t, "resize")
  /\ IF sendQ[slot[t]] = <<>> THEN Resume(t, held[t])
                             ELSE Goto(t, "post") /\ UNCHANGED <<slot, id, op, cont, held>>
  /\ UNCHANGED <<sesVars, srvVars>>

SendInc(t) ==
  /\ At(t, "sinc")
  /\ IncIO(slot[t])
  /\ held' = [held EXCEPT ![t] = @ + 1]
  /\ Goto(t, "sendio")
  /\ UNCHANGED <<clientId, releaseFlag, sock, sendQ, sending, sendCount, io,
                 srvVars, slot, id, op, cont>>

\* Peek up to SendBatch packets and WSASend them. The pending request takes the
\* unit of IOCount over; a failed one disconnects the client.
SendIO(t) ==
  LET s == slot[t] IN
  /\ At(t, "sendio")
  /\ sendCount' = [sendCount EXCEPT ![s] =
                     IF Len(sendQ[s]) < SendBatch THEN Len(sendQ[s]) ELSE SendBatch]
  /\ \/ /\ sock[s] = "open"
        /\ io' = [io EXCEPT ![s] = @ \cup {"send"}]
        /\ Resume(t, held[t] - 1)
     \/ /\ Call(t, clientId[s], "disc", cont[t])
        /\ UNCHANGED <<io, slot, held>>
  /\ UNCHANGED <<clientId, ioCount, releaseFlag, sock, sendQ, sending, srvVars>>

-----------------------------------------------------------------------------
(* RecvPost                                                                *)

\* RecvPost(pSession, TRUE) of the worker counts itself.
RecvInc(t) ==
  /\ At(t, "rinc")
  /\ IncIO(slot[t])
  /\ held' = [held EXCEPT ![t] = @ + 1]
  /\ Goto(t, "recvio")
  /\ UNCHANGED <<clientId, releaseFlag, sock, sendQ, sending, sendCount, io,
                 srvVars, slot, id, op, cont>>

\* Mutant: a failed WSARecv returns without giving its unit back.
RecvIOLeaks(t) ==
  LET s == slot[t] IN
  /\ At(t, "recvio")
  /\ Resume(t, held[t] - 1)
  /\ \/ sock[s] = "open" /\ io' = [io EXCEPT ![s] = @ \cup {"recv"}]
     \/ UNCHANGED io
  /\ UNCHANGED <<clientId, ioCount, releaseFlag, sock, sendQ, sending, sendCount, srvVars>>

RecvIO(t) ==
  LET s == slot[t] IN
  /\ At(t, "recvio")
  /\ \/ /\ sock[s] = "open"
        /\ io' = [io EXCEPT ![s] = @ \cup {"recv"}]
        /\ Resume(t, held[t] - 1)
     \/ /\ Call(t, clientId[s], "disc", cont[t])
        /\ UNCHANGED <<io, slot, held>>
  /\ UNCHANGED <<clientId, ioCount, releaseFlag, sock, sendQ, sending, sendCount, srvVars>>

-----------------------------------------------------------------------------
(* WorkerThreadFunc                                                        *)

\* GetQueuedCompletionStatus hands the completion of request k to a worker,
\* with the unit of IOCount of the request; 0 bytes means the peer or shutdown
\* ended the connection.
Complete(t, s, k) ==
  /\ At(t, "idle")
  /\ k \in io[s]
  /\ io' = [io EXCEPT ![s] = @ \ {k}]
  /\ slot' = [slot EXCEPT ![t] = s]
  /\ held' = [held EXCEPT ![t] = 1]
  /\ \/ Call(t, clientId[s], "disc", "idle")
     \/ /\ Goto(t, IF k = "recv" THEN "proc" ELSE "sdone")
        /\ UNCHANGED <<id, op, cont>>
     \/ /\ k = "send"                    \* OnSend disconnects (CLoginServer)
        /\ Call(t, clientId[s], "disc", "sdone")
  /\ UNCHANGED <<clientId, ioCount, releaseFlag, sock, sendQ, sending, sendCount, srvVars>>

\* PacketProc and the OnRecv of each packet: nothing to do, a broken packet
\* (disconnect) or a content that answers; then RecvPost.
Proc(t) ==
  LET s == slot[t] IN
  /\ At(t, "proc")
  /\ \/ Goto(t, "rinc") /\ UNCHANGED <<id, op, cont>>
     \/ Call(t, clientId[s], "disc", "rinc")
     \/ Len(sendQ[s]) < MaxQueue /\ Call(t, clientId[s], "send", "rinc")
  /\ UNCHANGED <<sesVars, srvVars, slot, held>>

\* The packets of a completed WSASend leave SendQ.
SendDone(t) ==
  LET s == slot[t] IN
  /\ At(t, "sdone")
  /\ sendQ' = [sendQ EXCEPT ![s] = SubSeq(@, sendCount[s] + 1, Len(@))]
  /\ Goto(t, "sreset")
  /\ UNCHANGED <<clientId, ioCount, releaseFlag, sock, sending, sendCount, io,
                 srvVars, slot, id, op, cont, held>>

\* Mutant: Sending stays set when a send has completed.
SendResetForgotten(t) ==
  /\ At(t, "sreset")
  /\ Goto(t, "post")
  /\ UNCHANGED <<sesVars, srvVars, slot, id, op, cont, held>>

SendReset(t) ==
  /\ At(t, "sreset")
  /\ sending' = [sending EXCEPT ![slot[t]] = FALSE]
  /\ Goto(t, "post")
  /\ UNCHANGED <<clientId, ioCount, releaseFlag, sock, sendQ, sendCount, io,
                 srvVars, slot, id, op, cont, held>>

-----------------------------------------------------------------------------
(* ReleaseSessionLock, and every other decrement of IOCount                *)

\* Mutant: the decrement that reaches 0 does not call ClientRelease.
DropOnly(t) ==
  /\ At(t, "drop")
  /\ DecIO(slot[t])
  /\ Resume(t, held[t] - 1)
  /\ UNCHANGED <<clientId, releaseFlag, sock, sendQ, sending, sendCount, io, srvVars>>

Drop(t) ==
  LET s == slot[t] IN
  /\ At(t, "drop")
  /\ DecIO(s)
  /\ IF ioCount[s] = 1
       THEN /\ Goto(t, "release")
            /\ held' = [held EXCEPT ![t] = @ - 1]
            /\ UNCHANGED <<slot, id, op, cont>>
       ELSE Resume(t, held[t] - 1)
  /\ UNCHANGED <<clientId, releaseFlag, sock, sendQ, sending, sendCount, io, srvVars>>

\* Mutant: half of the 128-bit compare, the count alone.
ReleaseByCount(t) ==
  /\ At(t, "release")
  /\ IF ioCount[slot[t]] = 0
       THEN /\ releaseFlag' = [releaseFlag EXCEPT ![slot[t]] = 1]
            /\ Goto(t, "leave")
            /\ UNCHANGED <<slot, id, op, cont, held>>
       ELSE Resume(t, held[t]) /\ UNCHANGED releaseFlag
  /\ UNCHANGED <<clientId, ioCount, sock, sendQ, sending, sendCount, io, srvVars>>

\* ClientRelease: InterlockedCompareExchange128 (0,0) -> (0,1)
Release(t) ==
  LET s == slot[t] IN
  /\ At(t, "release")
  /\ IF ioCount[s] = 0 /\ releaseFlag[s] = 0
       THEN /\ releaseFlag' = [releaseFlag EXCEPT ![s] = 1]
            /\ Goto(t, "leave")
            /\ UNCHANGED <<slot, id, op, cont, held>>
       ELSE Resume(t, held[t]) /\ UNCHANGED releaseFlag
  /\ UNCHANGED <<clientId, ioCount, sock, sendQ, sending, sendCount, io, srvVars>>

\* OnClientLeave
LeaveEvent(t) ==
  /\ At(t, "leave")
  /\ left' = left \cup {clientId[slot[t]]}
  /\ Goto(t, "drain")
  /\ UNCHANGED <<sesVars, free, nextId, clientCount, joined, slot, id, op, cont, held>>

\* Free what is left in SendQ, closesocket.
Drain(t) ==
  LET s == slot[t] IN
  /\ At(t, "drain")
  /\ sendQ' = [sendQ EXCEPT ![s] = <<>>]
  /\ sock' = [sock EXCEPT ![s] = "closed"]
  /\ Goto(t, "push")
  /\ UNCHANGED <<clientId, ioCount, releaseFlag, sending, sendCount, io,
                 srvVars, slot, id, op, cont, held>>

\* Mutant: the client is not taken off the count.
PushUncounted(t) ==
  /\ At(t, "push")
  /\ free' = free \cup {slot[t]}
  /\ Resume(t, held[t])
  /\ UNCHANGED <<sesVars, nextId, clientCount, joined, left>>

\* _indexStack.Push, --_iClientCount
Push(t) ==
  /\ At(t, "push")
  /\ free' = free \cup {slot[t]}
  /\ clientCount' = clientCount - 1
  /\ Resume(t, held[t])
  /\ UNCHANGED <<sesVars, nextId, joined, left>>

-----------------------------------------------------------------------------
\* A content thread calls with any id it was ever told about.
AppCall(t) ==
  /\ At(t, "idle")
  /\ \E i \in joined, o \in {"send", "disc"} :
       /\ o = "send" => Len(sendQ[i[1]]) < MaxQueue
       /\ slot' = [slot EXCEPT ![t] = i[1]]
       /\ Call(t, i, o, "idle")
  /\ UNCHANGED <<sesVars, srvVars, held>>

\* Steps that finish what a thread has begun.
Inside(t) ==
  \/ AcceptSet(t) \/ AcceptInc(t) \/ AcceptFlag(t) \/ AcceptJoin(t) \/ AcceptCount(t)
  \/ Check(t) \/ Inc(t) \/ Flag(t) \/ Recheck(t) \/ Enqueue(t) \/ ShutSock(t)
  \/ Post(t) \/ Size(t) \/ Unsend(t) \/ Resize(t) \/ SendInc(t) \/ SendIO(t)
  \/ RecvInc(t) \/ RecvIO(t) \/ Proc(t) \/ SendDone(t) \/ SendReset(t)
  \/ Drop(t) \/ Release(t) \/ LeaveEvent(t) \/ Drain(t) \/ Push(t)

Next ==
  \/ AcceptPop(Acceptor)
  \/ \E t \in Workers, s \in Slots, k \in {"recv", "send"} : Complete(t, s, k)
  \/ \E t \in Apps : AppCall(t)
  \/ \E t \in Threads : Inside(t)

Spec == Init /\ [][Next]_vars

\* Threads are scheduled; the requests on a socket that was shut down complete,
\* and the port hands completions out in order, so each gets its worker.
Fairness ==
  /\ \A t \in Threads : WF_vars(Inside(t))
  /\ \A s \in Slots, k \in {"recv", "send"} :
       SF_vars(sock[s] # "open" /\ \E t \in Workers : Complete(t, s, k))

FairSpec == Spec /\ Fairness

-----------------------------------------------------------------------------
(* Properties                                                              *)

\* The holders of a unit of IOCount of slot s: threads, and pending requests.
Refs(s) ==
  (UNION {{t} \X (1..held[t]) : t \in {u \in Threads : slot[u] = s}})
    \cup (io[s] \X {0})

\* The thread that alone may write the slot: the acceptor while it sets a
\* session up, or the thread whose compare-and-swap released it.
Owns(t, s) ==
  slot[t] = s /\ pc[t] \in {"aset", "ainc", "aflag", "leave", "drain", "push"}

\* A session content can talk to.
Live(s) == s \notin free /\ \A t \in Threads : ~Owns(t, s)

\* Threads that rely on the session staying theirs.
Locked(t) ==
  \/ pc[t] \in {"ajoin", "recvio", "proc", "rinc", "sdone", "sreset",
                "enqueue", "shutdown", "post", "size", "unsend", "resize",
                "sinc", "sendio"}
  \/ cont[t] \in {"rinc", "sdone"}

\* IOCount is the number of references (InterlockedIncrement/Decrement of
\* NetServer.cpp pair up on every path): a leak never releases the session, one
\* decrement too many releases it under somebody's feet.
IOCountExact == \A s \in Slots : ioCount[s] = Cardinality(Refs(s))

\* A slot has one owner at a time and is on the free stack only with none: it is
\* released once per client and never handed to two connections.
OneOwner ==
  \A s \in Slots, t \in Threads :
    Owns(t, s) => s \notin free /\ \A u \in Threads : Owns(u, s) => u = t

\* A thread past AcquireSessionLock, or handling a completion, works on a session
\* that nobody is releasing or setting up, and on the client it was called for.
LockProtects ==
  \A t \in Threads : Locked(t) =>
    /\ Live(slot[t])
    /\ pc[t] \in {"enqueue", "shutdown"} => clientId[slot[t]] = id[t]

\* A packet is only ever queued for the client it was addressed to: the queue of
\* a reused slot holds nothing of the client before.
OwnPackets ==
  \A s \in Slots : \A n \in 1..Len(sendQ[s]) : sendQ[s][n] = clientId[s]

\* No packet is left behind: while packets are queued, a send is pending, a thread
\* is about to call or is inside SendPost, or the session is coming down.
NoLostSend ==
  \A s \in Slots : sendQ[s] # <<>> =>
    \/ "send" \in io[s] \/ sock[s] # "open" \/ ~Live(s)
    \/ \E t \in Threads : slot[t] = s /\
         (\/ pc[t] \in {"post", "size", "unsend", "resize", "sinc", "sendio",
                        "sdone", "sreset"}
          \/ op[t] = "disc" /\ id[t] = clientId[s]
               /\ pc[t] \in {"check", "inc", "flag", "recheck", "shutdown"})

\* Content hears of a client between its OnClientJoin and its OnClientLeave only,
\* and hears OnClientLeave once.
EventOrder ==
  \A t \in Threads : pc[t] \in {"proc", "sdone", "leave"} =>
    clientId[slot[t]] \in joined \ left

\* The one thread that handles what a session received, or is about to ask for more.
Receiving(t) == pc[t] \in {"ajoin", "recvio", "proc", "rinc"} \/ cont[t] = "rinc"

\* The one thread that has Sending and may touch SendCount and SendOverlap.
Sender(t) ==
  \/ pc[t] \in {"size", "unsend", "sinc", "sendio", "sdone", "sreset"}
  \/ cont[t] = "sdone"

\* RecvQ, SendCount and the two OVERLAPPED of a session are used without a lock:
\* a receive (a send) is pending at most once, and while it is pending, or is
\* being handled by one thread, no other thread handles or posts one.
OneRequest ==
  \A s \in Slots :
    /\ \A t \in Threads : slot[t] = s /\ Receiving(t) =>
         /\ "recv" \notin io[s]
         /\ \A u \in Threads : slot[u] = s /\ Receiving(u) => u = t
    /\ \A t \in Threads : slot[t] = s /\ Sender(t) =>
         /\ "send" \notin io[s] /\ sending[s]
         /\ \A u \in Threads : slot[u] = s /\ Sender(u) => u = t
    /\ "send" \in io[s] => sending[s]

\* _iClientCount is the number of slots in use, less the connection that the
\* acceptor has not counted yet.
ClientCountExact ==
  clientCount = Cardinality(Slots \ free) - (IF At(Acceptor, "idle") THEN 0 ELSE 1)

\* The call of the content a thread is in. OnSend is taken to last until the packets
\* it is about leave SendQ.
CallOf(t) ==
  IF pc[t] = "ajoin" THEN "join"
  ELSE IF pc[t] = "proc" \/ cont[t] = "rinc" THEN "recv"
  ELSE IF pc[t] = "sdone" \/ cont[t] = "sdone" THEN "sent"
  ELSE IF pc[t] = "leave" THEN "leave" ELSE "none"

Calling == {t \in Threads : CallOf(t) # "none"}
Calls   == {<<t, CallOf(t), clientId[slot[t]]>> : t \in Calling}

\* The session layer as its content sees it: a client joins once and leaves once, its
\* packets come one at a time between the two, and nothing else runs for it while it
\* is told to leave.
Service == INSTANCE SessionService WITH
             Ids <- Slots \X (0..MaxClients), Callers <- Threads,
             alive <- joined \ left, ended <- left, calls <- Calls
ServiceSpec == Service!Spec

\* A session that was disconnected is released, whatever is in flight on it.
DisconnectReleases == \A s \in Slots : sock[s] = "shut" ~> sock[s] # "shut"

\* Queued packets are handed to the socket, or dropped with the session.
QueuedIsSent ==
  \A s \in Slots : sendQ[s] # <<>> ~> sendQ[s] = <<>> \/ "send" \in io[s]
=============================================================================
