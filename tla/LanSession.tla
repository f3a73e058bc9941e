----------------------------- MODULE LanSession -----------------------------
(***************************************************************************)
(* CLanServer (mylibrary/LanServer.cpp): sessions between servers. The     *)
(* protocol is NetSession's, step for step, but for ClientRelease, which   *)
(* releases the slot without calling OnClientLeave.                        *)
(***************************************************************************)
EXTENDS NetSession

\* Mutant: any thread that finds IOCount at 0 releases the slot.
ReleaseAnyTime(t) ==
  /\ At(t, "release")
  /\ IF ioCount[slot[t]] = 0
       THEN /\ releaseFlag' = [releaseFlag EXCEPT ![slot[t]] = 1]
            /\ left' = left \cup {clientId[slot[t]]}
            /\ Goto(t, "drain")
            /\ UNCHANGED <<slot, id, op, cont, held>>
       ELSE Resume(t, held[t]) /\ UNCHANGED <<releaseFlag, left>>
  /\ UNCHANGED <<clientId, ioCount, sock, sendQ, sending, sendCount, io,
                 free, nextId, clientCount, joined>>

\* ClientRelease: the compare-and-swap, and straight to the send queue. Nobody is
\* told; left is here only the history of the clients whose session ended.
ReleaseSilently(t) ==
  LET s == slot[t] IN
  /\ At(t, "release")
  /\ IF ioCount[s] = 0 /\ releaseFlag[s] = 0
       THEN /\ releaseFlag' = [releaseFlag EXCEPT ![s] = 1]
            /\ left' = left \cup {clientId[s]}
            /\ Goto(t, "drain")
            /\ UNCHANGED <<slot, id, op, cont, held>>
       ELSE Resume(t, held[t]) /\ UNCHANGED <<releaseFlag, left>>
  /\ UNCHANGED <<clientId, ioCount, sock, sendQ, sending, sendCount, io,
                 free, nextId, clientCount, joined>>

\* SendPost, RecvPost, SendPacket, AcquireSessionLock, ReleaseSessionLock,
\* ClientDisconnect.
LanInside(t) == ReleaseSilently(t) \/ (~At(t, "release") /\ Inside(t))

\* AcceptThreadFunc and WorkerThreadFunc drive them.
LanNext ==
  \/ AcceptPop(Acceptor)
  \/ \E t \in Workers, s \in Slots, k \in {"recv", "send"} : Complete(t, s, k)
  \/ \E t \in Apps : AppCall(t)
  \/ \E t \in Threads : LanInside(t)

LanSpec == Init /\ [][LanNext]_vars

\* Threads and completions are scheduled as NetSession's are.
LanFairSpec ==
  /\ LanSpec
  /\ \A t \in Threads : WF_vars(LanInside(t))
  /\ \A s \in Slots, k \in {"recv", "send"} :
       SF_vars(sock[s] # "open" /\ \E t \in Workers : Complete(t, s, k))
=============================================================================
