-------------------------- MODULE LanClient_proofs --------------------------
(***************************************************************************)
(* Proofs about LanClient, for any number of threads, connections and      *)
(* packets: IOCount is what threads and requests hold, the agent tears a   *)
(* connection down with one thread and no request pending, and the content *)
(* is told of the end of a connection before it is told of the next.       *)
(*                                                                         *)
(* The argument. Requests are counted once each because at most one thread *)
(* may send (OneSend) and at most one may receive (OneRecv). As long as    *)
(* the socket is open somebody receives, and so IOCount is not 0, except   *)
(* while Connect has not taken its unit yet. In the agent the flag is then *)
(* still 1 from the last teardown, or no other thread has ever run         *)
(* (Untouched): so the teardown cannot begin, and what is torn down is not *)
(* open. The main thread cannot connect again before it is over, for       *)
(* _bConnected is cleared last (AgentInv). All of it is lost when a worker *)
(* of the agent called before the completion port was made (missed).       *)
(***************************************************************************)
EXTENDS LanClient, FiniteSetTheorems, SequenceTheorems, TLAPS

USE DEF build

\* Units of IOCount a thread has when it returns to a label.
Base(l) == IF l \in {"idle", "report"} THEN 0 ELSE 1

\* What a program counter says about the rest of the thread's state.
Fits(t, p, c, h) ==
  /\ c \in {"idle", "report", "recvio", "rinc", "drop"}
  /\ p \in {"idle", "cinc", "cflag", "enter", "report", "proc", "rinc", "sdone", "sreset", "recvio"}
       => c = "idle"
  /\ p \in {"idle", "cinc", "report"} => h = 0
  /\ p \in {"cflag", "enter", "proc", "rinc", "sdone", "sreset"} => h = 1
  /\ p = "recvio" => (t = Main /\ h = 1) \/ (t \in Workers /\ h = 2)
  /\ p \in {"post", "size", "unsend", "resize", "sinc", "release", "drain", "close", "unset"} => h = Base(c)
  /\ p \in {"sendio", "drop"} => h = Base(c) + 1
  /\ c \in {"recvio", "report"} \/ p \in {"cinc", "cflag", "enter", "report"} => t = Main
  /\ c \in {"rinc", "drop"} \/ p \in {"proc", "rinc", "sdone", "sreset"} => t \in Workers

ThreadInv == \A t \in Threads : Fits(t, pc[t], cont[t], held[t])

Units(h) == UNION {{t} \X (1..h[t]) : t \in Threads}
Count    == ioCount = Cardinality(io) + Cardinality(Units(held))

\* A thread that may post the next send, or that has to finish the last one.
Sends(t) == pc[t] \in {"size", "unsend", "sinc", "sendio", "sdone", "sreset"}

OneSend ==
  /\ \A t \in Threads : Sends(t) => sending /\ "send" \notin io /\ \A u \in Threads : Sends(u) => u = t
  /\ "send" \in io => sending

\* A thread that will post the next receive, unless the socket is shut down.
Receives(t) == pc[t] \in {"cinc", "cflag", "enter", "recvio", "proc", "rinc"} \/ cont[t] \in {"recvio", "rinc"}

OneRecv ==
  /\ \A t \in Threads : Receives(t) => "recv" \notin io /\ \A u \in Threads : Receives(u) => u = t
  /\ (\E t \in Threads : Receives(t)) \/ "recv" \in io => links > 0 /\ (agent => connected)
  /\ sock = "open" => (\E t \in Threads : Receives(t)) \/ "recv" \in io

\* Connect sets the connection up, and the content has not been told of it.
Setting == pc[Main] \in {"cinc", "cflag", "enter"}

EnterInv == (inside => links > 0) /\ (Setting => ~inside)

Untouched == io = {} /\ \A t \in Threads \ {Main} : pc[t] = "idle"

AgentInv ==
  /\ \A t \in Threads : Tearing(t) =>
       /\ releaseFlag = 1 /\ io = {} /\ sock # "open" /\ (t = Main \/ connected)
       /\ \A u \in Threads : ~Receives(u) /\ (Tearing(u) => u = t)
  /\ releaseFlag = 0 /\ (~connected \/ sock \in {"invalid", "fresh"} \/ pc[Main] = "cinc") => Untouched
  /\ Setting => sock \in {"open", "shut"} /\ connected
  /\ inside => sock \in {"open", "shut"}
  /\ sock = "open" => connected
  /\ \A t \in Apps : pc[t] = "idle"

\* A connection whose workers found the port.
Whole ==
  TypeOK /\ ThreadInv /\ Count /\ OneSend /\ OneRecv /\ EnterInv /\ (agent => AgentInv)

\* After a call made before there was a port IOCount is too low, and only the types are left.
IInv == TypeOK /\ ThreadInv /\ (missed = 0 => Whole)

-----------------------------------------------------------------------------
(* Units of IOCount *)

LEMMA ThreadsAre ==
  ASSUME ConstantsOK
  PROVE  /\ Main \in Threads /\ Apps \subseteq Threads /\ Workers \subseteq Threads
         /\ Main \notin Apps /\ Main \notin Workers /\ IsFiniteSet(Threads)
         /\ \A t \in Apps : t \notin Workers
BY DEF ConstantsOK, Threads

LEMMA FitsHeld ==
  ASSUME NEW t, NEW p \in Labels, NEW c, NEW h, Fits(t, p, c, h)
  PROVE  h \in 0..2
BY DEF Fits, Labels, Base

\* One thread's units, and all of them.
LEMMA UnitsOfOne ==
  ASSUME NEW t, NEW n \in 0..2
  PROVE  IsFiniteSet({t} \X (1..n)) /\ Cardinality({t} \X (1..n)) = n
<1>1. IsFiniteSet({t}) /\ Cardinality({t}) = 1
  BY FS_Singleton
<1>2. IsFiniteSet(1..n) /\ Cardinality(1..n) = n
  <2>1. 1 \in Int /\ n \in Int
    OBVIOUS
  <2>2. IsFiniteSet(1..n) /\ Cardinality(1..n) = IF 1 > n THEN 0 ELSE n - 1 + 1
    BY <2>1, FS_Interval
  <2> QED BY <2>2
<1>3. /\ IsFiniteSet({t} \X (1..n))
      /\ Cardinality({t} \X (1..n)) = Cardinality({t}) * Cardinality(1..n)
  BY <1>1, <1>2, FS_Product
<1> QED BY <1>1, <1>2, <1>3

LEMMA UnitsFinite ==
  ASSUME ConstantsOK, NEW h \in [Threads -> 0..2]
  PROVE  IsFiniteSet(Units(h))
<1>1. IsFiniteSet(1..2)
  <2>1. 1 \in Int /\ 2 \in Int
    OBVIOUS
  <2> QED BY <2>1, FS_Interval
<1>2. IsFiniteSet(Threads \X (1..2))
  BY <1>1, ThreadsAre, FS_Product
<1>3. Units(h) \subseteq Threads \X (1..2)
  <2> SUFFICES ASSUME NEW t \in Threads, NEW i \in 1..h[t] PROVE <<t, i>> \in Threads \X (1..2)
    BY DEF Units
  <2>1. h[t] \in 0..2
    OBVIOUS
  <2> QED BY <2>1
<1> QED BY <1>2, <1>3, FS_Subset

LEMMA UnitsStep ==
  ASSUME ConstantsOK, NEW h \in [Threads -> 0..2], NEW t \in Threads, NEW n \in 0..2, NEW g,
         g = [h EXCEPT ![t] = n]
  PROVE  Cardinality(Units(g)) = Cardinality(Units(h)) + n - h[t] /\ Cardinality(Units(h)) \in Nat
<1> DEFINE rest == UNION {{u} \X (1..h[u]) : u \in Threads \ {t}}
           old == {t} \X (1..h[t])
           new == {t} \X (1..n)
<1>1. g \in [Threads -> 0..2] /\ g[t] = n /\ \A u \in Threads \ {t} : g[u] = h[u]
  OBVIOUS
<1>2. Units(h) = rest \cup old
  <2> SUFFICES ASSUME NEW x PROVE x \in Units(h) <=> x \in rest \cup old
    OBVIOUS
  <2>1. x \in Units(h) <=> \E u \in Threads : x \in {u} \X (1..h[u])
    BY DEF Units
  <2>2. x \in rest <=> \E u \in Threads \ {t} : x \in {u} \X (1..h[u])
    OBVIOUS
  <2> HIDE DEF rest
  <2> QED BY <2>1, <2>2, Zenon
<1>3. Units(g) = rest \cup new
  <2> SUFFICES ASSUME NEW x PROVE x \in Units(g) <=> x \in rest \cup new
    OBVIOUS
  <2>1. x \in Units(g) <=> \E u \in Threads : x \in {u} \X (1..g[u])
    BY DEF Units
  <2>2. x \in rest <=> \E u \in Threads \ {t} : x \in {u} \X (1..h[u])
    OBVIOUS
  <2> HIDE DEF rest
  <2> QED BY <1>1, <2>1, <2>2, Zenon
<1>4. rest \cap old = {} /\ rest \cap new = {}
  OBVIOUS
<1>5. IsFiniteSet(rest)
  <2>1. IsFiniteSet(Units(h))
    BY UnitsFinite
  <2> QED BY <1>2, <2>1, FS_Subset
<1>6. IsFiniteSet(old) /\ Cardinality(old) = h[t] /\ IsFiniteSet(new) /\ Cardinality(new) = n
  BY UnitsOfOne
<1> HIDE DEF rest, old, new
<1>7. Cardinality(rest) \in Nat /\ Cardinality(rest \cap old) = 0 /\ Cardinality(rest \cap new) = 0
  BY <1>4, <1>5, FS_CardinalityType, FS_EmptySet
<1>8. Cardinality(rest \cup old) = Cardinality(rest) + Cardinality(old) - Cardinality(rest \cap old)
  BY <1>5, <1>6, FS_Union
<1>9. Cardinality(rest \cup new) = Cardinality(rest) + Cardinality(new) - Cardinality(rest \cap new)
  BY <1>5, <1>6, FS_Union
<1>10. h[t] \in Nat /\ n \in Nat
  OBVIOUS
<1>11. Cardinality(rest \cup old) = Cardinality(rest) + h[t]
  BY <1>6, <1>7, <1>8, <1>10
<1>12. Cardinality(rest \cup new) = Cardinality(rest) + n
  BY <1>6, <1>7, <1>9, <1>10
<1>13. Cardinality(Units(h)) = Cardinality(rest) + h[t] /\ Cardinality(Units(g)) = Cardinality(rest) + n
  BY <1>2, <1>3, <1>11, <1>12
<1> QED BY <1>7, <1>10, <1>13

LEMMA Requests ==
  ASSUME NEW r, r \subseteq {"recv", "send"}
  PROVE  /\ IsFiniteSet(r) /\ Cardinality(r) \in Nat
         /\ \A k \in {"recv", "send"} : k \notin r => Cardinality(r \cup {k}) = Cardinality(r) + 1
         /\ \A k \in r : Cardinality(r \ {k}) = Cardinality(r) - 1
<1>1. IsFiniteSet({"recv", "send"})
  <2>1. IsFiniteSet({"recv"})
    BY FS_Singleton
  <2>2. IsFiniteSet({"recv"} \cup {"send"})
    BY <2>1, FS_AddElement
  <2>3. {"recv"} \cup {"send"} = {"recv", "send"}
    OBVIOUS
  <2> QED BY <2>2, <2>3
<1>2. IsFiniteSet(r) /\ Cardinality(r) \in Nat
  BY <1>1, FS_Subset, FS_CardinalityType
<1>3. \A k \in {"recv", "send"} : k \notin r => Cardinality(r \cup {k}) = Cardinality(r) + 1
  BY <1>2, FS_AddElement
<1>4. \A k \in r : Cardinality(r \ {k}) = Cardinality(r) - 1
  BY <1>2, FS_RemoveElement
<1> QED BY <1>2, <1>3, <1>4

\* The ways a step of t changes the count: it takes or gives a unit; it hands a unit to a
\* request or takes one over; or it does nothing of the kind.
LEMMA CountHold ==
  ASSUME ConstantsOK, TypeOK, Count, NEW t \in Threads, NEW d \in {-1, 1}, held[t] + d \in 0..2, Hold(t, d),
         UNCHANGED io
  PROVE  Count'
<1>1. held \in [Threads -> 0..2] /\ held' = [held EXCEPT ![t] = held[t] + d] /\ ioCount' = ioCount + d
  BY DEF Hold, TypeOK
<1>2. Cardinality(Units(held')) = Cardinality(Units(held)) + (held[t] + d) - held[t] /\ Cardinality(Units(held)) \in Nat
  BY <1>1, UnitsStep
<1>3. Cardinality(io) \in Nat /\ held[t] \in Nat
  <2>1. io \subseteq {"recv", "send"}
    BY DEF TypeOK
  <2>2. Cardinality(io) \in Nat
    BY <2>1, Requests
  <2> QED BY <1>1, <2>2
<1>4. Cardinality(Units(held')) = Cardinality(Units(held)) + d
  BY <1>2, <1>3
<1>5. ioCount = Cardinality(io) + Cardinality(Units(held))
  BY DEF Count
<1>6. ioCount' = Cardinality(io) + Cardinality(Units(held'))
  BY <1>1, <1>2, <1>3, <1>4, <1>5
<1>7. Units(held)' = Units(held')
  BY DEF Units, Threads
<1> QED BY <1>6, <1>7 DEF Count

LEMMA CountMoves ==
  ASSUME ConstantsOK, TypeOK, Count, NEW t \in Threads, NEW k \in {"recv", "send"}, UNCHANGED ioCount,
         \/ k \notin io /\ io' = io \cup {k} /\ held[t] - 1 \in 0..2 /\ held' = [held EXCEPT ![t] = @ - 1]
         \/ k \in io /\ io' = io \ {k} /\ held[t] = 0 /\ held' = [held EXCEPT ![t] = 1]
  PROVE  Count'
<1>1. held \in [Threads -> 0..2] /\ io \subseteq {"recv", "send"}
  BY DEF TypeOK
<1>2. ioCount = Cardinality(io) + Cardinality(Units(held))
  BY DEF Count
<1>3. Cardinality(io) \in Nat /\ held[t] \in Nat
  <2>1. Cardinality(io) \in Nat
    BY <1>1, Requests
  <2> QED BY <1>1, <2>1
<1>4. Units(held)' = Units(held')
  BY DEF Units, Threads
<1>5. CASE k \notin io /\ io' = io \cup {k} /\ held[t] - 1 \in 0..2 /\ held' = [held EXCEPT ![t] = @ - 1]
  <2>1. Cardinality(io') = Cardinality(io) + 1
    BY <1>1, <1>5, Requests
  <2>2. /\ Cardinality(Units(held')) = Cardinality(Units(held)) + (held[t] - 1) - held[t]
        /\ Cardinality(Units(held)) \in Nat
    BY <1>1, <1>5, UnitsStep
  <2> QED BY <1>2, <1>3, <1>4, <2>1, <2>2 DEF Count
<1>6. CASE k \in io /\ io' = io \ {k} /\ held[t] = 0 /\ held' = [held EXCEPT ![t] = 1]
  <2>1. Cardinality(io') = Cardinality(io) - 1
    BY <1>1, <1>6, Requests
  <2>2. /\ Cardinality(Units(held')) = Cardinality(Units(held)) + 1 - held[t]
        /\ Cardinality(Units(held)) \in Nat
    <3>1. 1 \in 0..2 /\ held' = [held EXCEPT ![t] = 1]
      BY <1>6
    <3> QED BY <1>1, <3>1, UnitsStep
  <2> QED BY <1>2, <1>3, <1>4, <1>6, <2>1, <2>2 DEF Count
<1> QED BY <1>5, <1>6

LEMMA CountSame ==
  ASSUME Count, UNCHANGED <<ioCount, io, held>>
  PROVE  Count'
BY DEF Count, Units, Threads

\* When IOCount is 0 nobody holds a unit and nothing is pending.
LEMMA CountZero ==
  ASSUME ConstantsOK, TypeOK, Count, ioCount = 0
  PROVE  io = {} /\ \A t \in Threads : held[t] = 0
<1>1. held \in [Threads -> 0..2] /\ io \subseteq {"recv", "send"}
  BY DEF TypeOK
<1>2. IsFiniteSet(io) /\ Cardinality(io) \in Nat
  BY <1>1, Requests
<1>3. IsFiniteSet(Units(held)) /\ Cardinality(Units(held)) \in Nat
  BY <1>1, UnitsFinite, FS_CardinalityType
<1>4. Cardinality(io) = 0 /\ Cardinality(Units(held)) = 0
  BY <1>2, <1>3 DEF Count
<1>5. io = {} /\ Units(held) = {}
  BY <1>2, <1>3, <1>4, FS_EmptySet
<1>6. ASSUME NEW t \in Threads PROVE held[t] = 0
  <2>1. \A i \in 1..held[t] : <<t, i>> \in Units(held)
    BY DEF Units
  <2>2. held[t] \in 0..2 /\ (held[t] # 0 => 1 \in 1..held[t])
    BY <1>1
  <2> QED BY <1>5, <2>1, <2>2
<1> QED BY <1>5, <1>6

LEMMA CountType ==
  ASSUME ConstantsOK, NEW h \in [Threads -> 0..2], NEW r, r \subseteq {"recv", "send"}
  PROVE  Cardinality(r) + Cardinality(Units(h)) \in Nat
<1>1. Cardinality(r) \in Nat
  BY Requests
<1>2. Cardinality(Units(h)) \in Nat
  BY UnitsFinite, FS_CardinalityType
<1> QED BY <1>1, <1>2

\* A step of one thread leaves the others as they are.
LEMMA ThreadsFit ==
  ASSUME ThreadInv, NEW t \in Threads, Fits(t, pc'[t], cont'[t], held'[t]),
         \A u \in Threads \ {t} : pc'[u] = pc[u] /\ cont'[u] = cont[u] /\ held'[u] = held[u]
  PROVE  ThreadInv'
<1>1. ASSUME NEW u \in Threads PROVE Fits(u, pc'[u], cont'[u], held'[u])
  <2>1. CASE u = t
    BY <2>1
  <2>2. CASE u # t
    BY <2>2 DEF ThreadInv
  <2> QED BY <2>1, <2>2
<1> QED BY <1>1 DEF ThreadInv, Fits, Threads

LEMMA EnqueueType ==
  ASSUME TypeOK, sendQ' = IF Len(sendQ) < MaxQueue THEN Append(sendQ, links) ELSE sendQ
  PROVE  sendQ' \in Seq(0..MaxLinks)
<1>1. sendQ \in Seq(0..MaxLinks) /\ links \in 0..MaxLinks
  BY DEF TypeOK
<1>2. Append(sendQ, links) \in Seq(0..MaxLinks)
  BY <1>1, AppendProperties
<1> QED BY <1>1, <1>2

-----------------------------------------------------------------------------
(* The steps: types and program counters *)

\* The types, and what the program counters say.

LEMMA PostTyped ==
  ASSUME ConstantsOK, TypeOK, ThreadInv, NEW t \in Threads, Post(t)
  PROVE  TypeOK' /\ ThreadInv' /\ UNCHANGED missed
<1>1. TypeOK /\ ThreadInv
  OBVIOUS
<1>2. t \in Threads /\ Fits(t, pc[t], cont[t], held[t])
  BY <1>1, ThreadsAre DEF ThreadInv
<1>3. /\ pc \in [Threads -> Labels] /\ cont \in [Threads -> Labels] /\ held \in [Threads -> 0..2]
      /\ held[t] \in 0..2
  BY <1>1, <1>2 DEF TypeOK
<1>4. \A u \in Threads \ {t} : pc'[u] = pc[u] /\ cont'[u] = cont[u] /\ held'[u] = held[u]
  BY <1>3 DEF Post, At, Goto, Return, link, count, ghosts
<1>5. Fits(t, pc'[t], cont'[t], held'[t])
  BY <1>2, <1>3, ThreadsAre DEF Post, At, Goto, Return, link, count, ghosts, Fits, Base
<1>6. ThreadInv'
  BY <1>1, <1>2, <1>4, <1>5, ThreadsFit
<1>7. TypeOK'
  <2>1. pc' \in [Threads -> Labels] /\ cont' \in [Threads -> Labels]
    BY <1>3 DEF Post, At, Goto, Return, link, count, ghosts, Labels
  <2>2. held' \in [Threads -> 0..2] /\ ioCount' \in Int
    BY <1>1, <1>2, <1>3, ConstantsOK DEF Post, At, Goto, Return, link, count, ghosts, Fits, Base,
       ConstantsOK, TypeOK
  <2>3. sendQ' \in Seq(0..MaxLinks) /\ sendCount' \in 0..Batch /\ links' \in 0..MaxLinks
    BY <1>1, ConstantsOK DEF Post, At, Goto, Return, link, count, ghosts, ConstantsOK, TypeOK
  <2>4. sock' \in {"invalid", "fresh", "open", "shut"} /\ io' \subseteq {"recv", "send"} /\ releaseFlag' \in {0, 1}
    BY <1>1 DEF Post, At, Goto, Return, link, count, ghosts, TypeOK
  <2>5. /\ agent' \in BOOLEAN /\ port' \in BOOLEAN /\ missed' \in 0..MaxMissed /\ connected' \in BOOLEAN
        /\ sending' \in BOOLEAN /\ inside' \in BOOLEAN /\ heard' \in BOOLEAN
    BY <1>1, Zenon DEF Post, At, Goto, Return, link, count, ghosts, TypeOK
  <2> QED BY <2>1, <2>2, <2>3, <2>4, <2>5 DEF TypeOK, Threads, Labels
<1>8. UNCHANGED missed
  BY DEF Post, At, Goto, Return, link, count, ghosts
<1> QED BY <1>6, <1>7, <1>8

LEMMA SizeTyped ==
  ASSUME ConstantsOK, TypeOK, ThreadInv, NEW t \in Threads, Size(t)
  PROVE  TypeOK' /\ ThreadInv' /\ UNCHANGED missed
<1>1. TypeOK /\ ThreadInv
  OBVIOUS
<1>2. t \in Threads /\ Fits(t, pc[t], cont[t], held[t])
  BY <1>1, ThreadsAre DEF ThreadInv
<1>3. /\ pc \in [Threads -> Labels] /\ cont \in [Threads -> Labels] /\ held \in [Threads -> 0..2]
      /\ held[t] \in 0..2
  BY <1>1, <1>2 DEF TypeOK
<1>4. \A u \in Threads \ {t} : pc'[u] = pc[u] /\ cont'[u] = cont[u] /\ held'[u] = held[u]
  BY <1>3 DEF Size, At, Goto, link, count, queue, ghosts
<1>5. Fits(t, pc'[t], cont'[t], held'[t])
  BY <1>2, <1>3, ThreadsAre DEF Size, At, Goto, link, count, queue, ghosts, Fits, Base
<1>6. ThreadInv'
  BY <1>1, <1>2, <1>4, <1>5, ThreadsFit
<1>7. TypeOK'
  <2>1. pc' \in [Threads -> Labels] /\ cont' \in [Threads -> Labels]
    BY <1>3 DEF Size, At, Goto, link, count, queue, ghosts, Labels
  <2>2. held' \in [Threads -> 0..2] /\ ioCount' \in Int
    BY <1>1, <1>2, <1>3, ConstantsOK DEF Size, At, Goto, link, count, queue, ghosts, Fits, Base,
       ConstantsOK, TypeOK
  <2>3. sendQ' \in Seq(0..MaxLinks) /\ sendCount' \in 0..Batch /\ links' \in 0..MaxLinks
    BY <1>1, ConstantsOK DEF Size, At, Goto, link, count, queue, ghosts, ConstantsOK, TypeOK
  <2>4. sock' \in {"invalid", "fresh", "open", "shut"} /\ io' \subseteq {"recv", "send"} /\ releaseFlag' \in {0, 1}
    BY <1>1 DEF Size, At, Goto, link, count, queue, ghosts, TypeOK
  <2>5. /\ agent' \in BOOLEAN /\ port' \in BOOLEAN /\ missed' \in 0..MaxMissed /\ connected' \in BOOLEAN
        /\ sending' \in BOOLEAN /\ inside' \in BOOLEAN /\ heard' \in BOOLEAN
    BY <1>1, Zenon DEF Size, At, Goto, link, count, queue, ghosts, TypeOK
  <2> QED BY <2>1, <2>2, <2>3, <2>4, <2>5 DEF TypeOK, Threads, Labels
<1>8. UNCHANGED missed
  BY DEF Size, At, Goto, link, count, queue, ghosts
<1> QED BY <1>6, <1>7, <1>8

LEMMA UnsendTyped ==
  ASSUME ConstantsOK, TypeOK, ThreadInv, NEW t \in Threads, Unsend(t)
  PROVE  TypeOK' /\ ThreadInv' /\ UNCHANGED missed
<1>1. TypeOK /\ ThreadInv
  OBVIOUS
<1>2. t \in Threads /\ Fits(t, pc[t], cont[t], held[t])
  BY <1>1, ThreadsAre DEF ThreadInv
<1>3. /\ pc \in [Threads -> Labels] /\ cont \in [Threads -> Labels] /\ held \in [Threads -> 0..2]
      /\ held[t] \in 0..2
  BY <1>1, <1>2 DEF TypeOK
<1>4. \A u \in Threads \ {t} : pc'[u] = pc[u] /\ cont'[u] = cont[u] /\ held'[u] = held[u]
  BY <1>3 DEF Unsend, At, Goto, link, count, ghosts
<1>5. Fits(t, pc'[t], cont'[t], held'[t])
  BY <1>2, <1>3, ThreadsAre DEF Unsend, At, Goto, link, count, ghosts, Fits, Base
<1>6. ThreadInv'
  BY <1>1, <1>2, <1>4, <1>5, ThreadsFit
<1>7. TypeOK'
  <2>1. pc' \in [Threads -> Labels] /\ cont' \in [Threads -> Labels]
    BY <1>3 DEF Unsend, At, Goto, link, count, ghosts, Labels
  <2>2. held' \in [Threads -> 0..2] /\ ioCount' \in Int
    BY <1>1, <1>2, <1>3, ConstantsOK DEF Unsend, At, Goto, link, count, ghosts, Fits, Base, ConstantsOK,
       TypeOK
  <2>3. sendQ' \in Seq(0..MaxLinks) /\ sendCount' \in 0..Batch /\ links' \in 0..MaxLinks
    BY <1>1, ConstantsOK DEF Unsend, At, Goto, link, count, ghosts, ConstantsOK, TypeOK
  <2>4. sock' \in {"invalid", "fresh", "open", "shut"} /\ io' \subseteq {"recv", "send"} /\ releaseFlag' \in {0, 1}
    BY <1>1 DEF Unsend, At, Goto, link, count, ghosts, TypeOK
  <2>5. /\ agent' \in BOOLEAN /\ port' \in BOOLEAN /\ missed' \in 0..MaxMissed /\ connected' \in BOOLEAN
        /\ sending' \in BOOLEAN /\ inside' \in BOOLEAN /\ heard' \in BOOLEAN
    BY <1>1, Zenon DEF Unsend, At, Goto, link, count, ghosts, TypeOK
  <2> QED BY <2>1, <2>2, <2>3, <2>4, <2>5 DEF TypeOK, Threads, Labels
<1>8. UNCHANGED missed
  BY DEF Unsend, At, Goto, link, count, ghosts
<1> QED BY <1>6, <1>7, <1>8

LEMMA ResizeTyped ==
  ASSUME ConstantsOK, TypeOK, ThreadInv, NEW t \in Threads, Resize(t)
  PROVE  TypeOK' /\ ThreadInv' /\ UNCHANGED missed
<1>1. TypeOK /\ ThreadInv
  OBVIOUS
<1>2. t \in Threads /\ Fits(t, pc[t], cont[t], held[t])
  BY <1>1, ThreadsAre DEF ThreadInv
<1>3. /\ pc \in [Threads -> Labels] /\ cont \in [Threads -> Labels] /\ held \in [Threads -> 0..2]
      /\ held[t] \in 0..2
  BY <1>1, <1>2 DEF TypeOK
<1>4. \A u \in Threads \ {t} : pc'[u] = pc[u] /\ cont'[u] = cont[u] /\ held'[u] = held[u]
  BY <1>3 DEF Resize, At, Goto, Return, link, count, queue, ghosts
<1>5. Fits(t, pc'[t], cont'[t], held'[t])
  BY <1>2, <1>3, ThreadsAre DEF Resize, At, Goto, Return, link, count, queue, ghosts, Fits, Base
<1>6. ThreadInv'
  BY <1>1, <1>2, <1>4, <1>5, ThreadsFit
<1>7. TypeOK'
  <2>1. pc' \in [Threads -> Labels] /\ cont' \in [Threads -> Labels]
    BY <1>3 DEF Resize, At, Goto, Return, link, count, queue, ghosts, Labels
  <2>2. held' \in [Threads -> 0..2] /\ ioCount' \in Int
    BY <1>1, <1>2, <1>3, ConstantsOK DEF Resize, At, Goto, Return, link, count, queue, ghosts, Fits, Base,
       ConstantsOK, TypeOK
  <2>3. sendQ' \in Seq(0..MaxLinks) /\ sendCount' \in 0..Batch /\ links' \in 0..MaxLinks
    BY <1>1, ConstantsOK DEF Resize, At, Goto, Return, link, count, queue, ghosts, ConstantsOK, TypeOK
  <2>4. sock' \in {"invalid", "fresh", "open", "shut"} /\ io' \subseteq {"recv", "send"} /\ releaseFlag' \in {0, 1}
    BY <1>1 DEF Resize, At, Goto, Return, link, count, queue, ghosts, TypeOK
  <2>5. /\ agent' \in BOOLEAN /\ port' \in BOOLEAN /\ missed' \in 0..MaxMissed /\ connected' \in BOOLEAN
        /\ sending' \in BOOLEAN /\ inside' \in BOOLEAN /\ heard' \in BOOLEAN
    BY <1>1, Zenon DEF Resize, At, Goto, Return, link, count, queue, ghosts, TypeOK
  <2> QED BY <2>1, <2>2, <2>3, <2>4, <2>5 DEF TypeOK, Threads, Labels
<1>8. UNCHANGED missed
  BY DEF Resize, At, Goto, Return, link, count, queue, ghosts
<1> QED BY <1>6, <1>7, <1>8

LEMMA SendIncTyped ==
  ASSUME ConstantsOK, TypeOK, ThreadInv, NEW t \in Threads, SendInc(t)
  PROVE  TypeOK' /\ ThreadInv' /\ UNCHANGED missed
<1>1. TypeOK /\ ThreadInv
  OBVIOUS
<1>2. t \in Threads /\ Fits(t, pc[t], cont[t], held[t])
  BY <1>1, ThreadsAre DEF ThreadInv
<1>3. /\ pc \in [Threads -> Labels] /\ cont \in [Threads -> Labels] /\ held \in [Threads -> 0..2]
      /\ held[t] \in 0..2
  BY <1>1, <1>2 DEF TypeOK
<1>4. \A u \in Threads \ {t} : pc'[u] = pc[u] /\ cont'[u] = cont[u] /\ held'[u] = held[u]
  BY <1>3 DEF SendInc, At, Goto, Hold, link, queue, ghosts
<1>5. Fits(t, pc'[t], cont'[t], held'[t])
  BY <1>2, <1>3, ThreadsAre DEF SendInc, At, Goto, Hold, link, queue, ghosts, Fits, Base
<1>6. ThreadInv'
  BY <1>1, <1>2, <1>4, <1>5, ThreadsFit
<1>7. TypeOK'
  <2>1. pc' \in [Threads -> Labels] /\ cont' \in [Threads -> Labels]
    BY <1>3 DEF SendInc, At, Goto, Hold, link, queue, ghosts, Labels
  <2>2. held' \in [Threads -> 0..2] /\ ioCount' \in Int
    BY <1>1, <1>2, <1>3, ConstantsOK DEF SendInc, At, Goto, Hold, link, queue, ghosts, Fits, Base,
       ConstantsOK, TypeOK
  <2>3. sendQ' \in Seq(0..MaxLinks) /\ sendCount' \in 0..Batch /\ links' \in 0..MaxLinks
    BY <1>1, ConstantsOK DEF SendInc, At, Goto, Hold, link, queue, ghosts, ConstantsOK, TypeOK
  <2>4. sock' \in {"invalid", "fresh", "open", "shut"} /\ io' \subseteq {"recv", "send"} /\ releaseFlag' \in {0, 1}
    BY <1>1 DEF SendInc, At, Goto, Hold, link, queue, ghosts, TypeOK
  <2>5. /\ agent' \in BOOLEAN /\ port' \in BOOLEAN /\ missed' \in 0..MaxMissed /\ connected' \in BOOLEAN
        /\ sending' \in BOOLEAN /\ inside' \in BOOLEAN /\ heard' \in BOOLEAN
    BY <1>1, Zenon DEF SendInc, At, Goto, Hold, link, queue, ghosts, TypeOK
  <2> QED BY <2>1, <2>2, <2>3, <2>4, <2>5 DEF TypeOK, Threads, Labels
<1>8. UNCHANGED missed
  BY DEF SendInc, At, Goto, Hold, link, queue, ghosts
<1> QED BY <1>6, <1>7, <1>8

LEMMA SendIOTyped ==
  ASSUME ConstantsOK, TypeOK, ThreadInv, NEW t \in Threads, SendIO(t)
  PROVE  TypeOK' /\ ThreadInv' /\ UNCHANGED missed
<1>1. TypeOK /\ ThreadInv
  OBVIOUS
<1>2. t \in Threads /\ Fits(t, pc[t], cont[t], held[t])
  BY <1>1, ThreadsAre DEF ThreadInv
<1>3. /\ pc \in [Threads -> Labels] /\ cont \in [Threads -> Labels] /\ held \in [Threads -> 0..2]
      /\ held[t] \in 0..2
  BY <1>1, <1>2 DEF TypeOK
<1>4. \A u \in Threads \ {t} : pc'[u] = pc[u] /\ cont'[u] = cont[u] /\ held'[u] = held[u]
  BY <1>3 DEF SendIO, At, Goto, Return, Shut, count, ghosts
<1>5. Fits(t, pc'[t], cont'[t], held'[t])
  BY <1>2, <1>3, ThreadsAre DEF SendIO, At, Goto, Return, Shut, count, ghosts, Fits, Base
<1>6. ThreadInv'
  BY <1>1, <1>2, <1>4, <1>5, ThreadsFit
<1>7. TypeOK'
  <2>1. pc' \in [Threads -> Labels] /\ cont' \in [Threads -> Labels]
    BY <1>3 DEF SendIO, At, Goto, Return, Shut, count, ghosts, Labels
  <2>2. held' \in [Threads -> 0..2] /\ ioCount' \in Int
    BY <1>1, <1>2, <1>3, ConstantsOK DEF SendIO, At, Goto, Return, Shut, count, ghosts, Fits, Base,
       ConstantsOK, TypeOK
  <2>3. sendQ' \in Seq(0..MaxLinks) /\ sendCount' \in 0..Batch /\ links' \in 0..MaxLinks
    BY <1>1, ConstantsOK DEF SendIO, At, Goto, Return, Shut, count, ghosts, ConstantsOK, TypeOK
  <2>4. sock' \in {"invalid", "fresh", "open", "shut"} /\ io' \subseteq {"recv", "send"} /\ releaseFlag' \in {0, 1}
    BY <1>1 DEF SendIO, At, Goto, Return, Shut, count, ghosts, TypeOK
  <2>5. /\ agent' \in BOOLEAN /\ port' \in BOOLEAN /\ missed' \in 0..MaxMissed /\ connected' \in BOOLEAN
        /\ sending' \in BOOLEAN /\ inside' \in BOOLEAN /\ heard' \in BOOLEAN
    BY <1>1, Zenon DEF SendIO, At, Goto, Return, Shut, count, ghosts, TypeOK
  <2> QED BY <2>1, <2>2, <2>3, <2>4, <2>5 DEF TypeOK, Threads, Labels
<1>8. UNCHANGED missed
  BY DEF SendIO, At, Goto, Return, Shut, count, ghosts
<1> QED BY <1>6, <1>7, <1>8

LEMMA RecvIncTyped ==
  ASSUME ConstantsOK, TypeOK, ThreadInv, NEW t \in Threads, RecvInc(t)
  PROVE  TypeOK' /\ ThreadInv' /\ UNCHANGED missed
<1>1. TypeOK /\ ThreadInv
  OBVIOUS
<1>2. t \in Threads /\ Fits(t, pc[t], cont[t], held[t])
  BY <1>1, ThreadsAre DEF ThreadInv
<1>3. /\ pc \in [Threads -> Labels] /\ cont \in [Threads -> Labels] /\ held \in [Threads -> 0..2]
      /\ held[t] \in 0..2
  BY <1>1, <1>2 DEF TypeOK
<1>4. \A u \in Threads \ {t} : pc'[u] = pc[u] /\ cont'[u] = cont[u] /\ held'[u] = held[u]
  BY <1>3 DEF RecvInc, At, Goto, Hold, link, queue, ghosts
<1>5. Fits(t, pc'[t], cont'[t], held'[t])
  BY <1>2, <1>3, ThreadsAre DEF RecvInc, At, Goto, Hold, link, queue, ghosts, Fits, Base
<1>6. ThreadInv'
  BY <1>1, <1>2, <1>4, <1>5, ThreadsFit
<1>7. TypeOK'
  <2>1. pc' \in [Threads -> Labels] /\ cont' \in [Threads -> Labels]
    BY <1>3 DEF RecvInc, At, Goto, Hold, link, queue, ghosts, Labels
  <2>2. held' \in [Threads -> 0..2] /\ ioCount' \in Int
    BY <1>1, <1>2, <1>3, ConstantsOK DEF RecvInc, At, Goto, Hold, link, queue, ghosts, Fits, Base,
       ConstantsOK, TypeOK
  <2>3. sendQ' \in Seq(0..MaxLinks) /\ sendCount' \in 0..Batch /\ links' \in 0..MaxLinks
    BY <1>1, ConstantsOK DEF RecvInc, At, Goto, Hold, link, queue, ghosts, ConstantsOK, TypeOK
  <2>4. sock' \in {"invalid", "fresh", "open", "shut"} /\ io' \subseteq {"recv", "send"} /\ releaseFlag' \in {0, 1}
    BY <1>1 DEF RecvInc, At, Goto, Hold, link, queue, ghosts, TypeOK
  <2>5. /\ agent' \in BOOLEAN /\ port' \in BOOLEAN /\ missed' \in 0..MaxMissed /\ connected' \in BOOLEAN
        /\ sending' \in BOOLEAN /\ inside' \in BOOLEAN /\ heard' \in BOOLEAN
    BY <1>1, Zenon DEF RecvInc, At, Goto, Hold, link, queue, ghosts, TypeOK
  <2> QED BY <2>1, <2>2, <2>3, <2>4, <2>5 DEF TypeOK, Threads, Labels
<1>8. UNCHANGED missed
  BY DEF RecvInc, At, Goto, Hold, link, queue, ghosts
<1> QED BY <1>6, <1>7, <1>8

LEMMA RecvIOTyped ==
  ASSUME ConstantsOK, TypeOK, ThreadInv, NEW t \in Threads, RecvIO(t)
  PROVE  TypeOK' /\ ThreadInv' /\ UNCHANGED missed
<1>1. TypeOK /\ ThreadInv
  OBVIOUS
<1>2. t \in Threads /\ Fits(t, pc[t], cont[t], held[t])
  BY <1>1, ThreadsAre DEF ThreadInv
<1>3. /\ pc \in [Threads -> Labels] /\ cont \in [Threads -> Labels] /\ held \in [Threads -> 0..2]
      /\ held[t] \in 0..2
  BY <1>1, <1>2 DEF TypeOK
<1>4. \A u \in Threads \ {t} : pc'[u] = pc[u] /\ cont'[u] = cont[u] /\ held'[u] = held[u]
  BY <1>3 DEF RecvIO, At, Goto, Shut, AfterRecv, count, queue, ghosts
<1>5. Fits(t, pc'[t], cont'[t], held'[t])
  BY <1>2, <1>3, ThreadsAre DEF RecvIO, At, Goto, Shut, AfterRecv, count, queue, ghosts, Fits, Base
<1>6. ThreadInv'
  BY <1>1, <1>2, <1>4, <1>5, ThreadsFit
<1>7. TypeOK'
  <2>1. pc' \in [Threads -> Labels] /\ cont' \in [Threads -> Labels]
    BY <1>3 DEF RecvIO, At, Goto, Shut, AfterRecv, count, queue, ghosts, Labels
  <2>2. held' \in [Threads -> 0..2] /\ ioCount' \in Int
    BY <1>1, <1>2, <1>3, ConstantsOK DEF RecvIO, At, Goto, Shut, AfterRecv, count, queue, ghosts, Fits,
       Base, ConstantsOK, TypeOK
  <2>3. sendQ' \in Seq(0..MaxLinks) /\ sendCount' \in 0..Batch /\ links' \in 0..MaxLinks
    BY <1>1, ConstantsOK DEF RecvIO, At, Goto, Shut, AfterRecv, count, queue, ghosts, ConstantsOK, TypeOK
  <2>4. sock' \in {"invalid", "fresh", "open", "shut"} /\ io' \subseteq {"recv", "send"} /\ releaseFlag' \in {0, 1}
    BY <1>1 DEF RecvIO, At, Goto, Shut, AfterRecv, count, queue, ghosts, TypeOK
  <2>5. /\ agent' \in BOOLEAN /\ port' \in BOOLEAN /\ missed' \in 0..MaxMissed /\ connected' \in BOOLEAN
        /\ sending' \in BOOLEAN /\ inside' \in BOOLEAN /\ heard' \in BOOLEAN
    BY <1>1, Zenon DEF RecvIO, At, Goto, Shut, AfterRecv, count, queue, ghosts, TypeOK
  <2> QED BY <2>1, <2>2, <2>3, <2>4, <2>5 DEF TypeOK, Threads, Labels
<1>8. UNCHANGED missed
  BY DEF RecvIO, At, Goto, Shut, AfterRecv, count, queue, ghosts
<1> QED BY <1>6, <1>7, <1>8

LEMMA ProcTyped ==
  ASSUME ConstantsOK, TypeOK, ThreadInv, NEW t \in Threads, Proc(t)
  PROVE  TypeOK' /\ ThreadInv' /\ UNCHANGED missed
<1>1. TypeOK /\ ThreadInv
  OBVIOUS
<1>2. t \in Threads /\ Fits(t, pc[t], cont[t], held[t])
  BY <1>1, ThreadsAre DEF ThreadInv
<1>3. /\ pc \in [Threads -> Labels] /\ cont \in [Threads -> Labels] /\ held \in [Threads -> 0..2]
      /\ held[t] \in 0..2
  BY <1>1, <1>2 DEF TypeOK
<1>4. \A u \in Threads \ {t} : pc'[u] = pc[u] /\ cont'[u] = cont[u] /\ held'[u] = held[u]
  BY <1>3 DEF Proc, At, Goto, Enqueue, link, count, ghosts
<1>5. Fits(t, pc'[t], cont'[t], held'[t])
  BY <1>2, <1>3, ThreadsAre DEF Proc, At, Goto, Enqueue, link, count, ghosts, Fits, Base
<1>6. ThreadInv'
  BY <1>1, <1>2, <1>4, <1>5, ThreadsFit
<1>7. TypeOK'
  <2>1. pc' \in [Threads -> Labels] /\ cont' \in [Threads -> Labels]
    BY <1>3 DEF Proc, At, Goto, Enqueue, link, count, ghosts, Labels
  <2>2. held' \in [Threads -> 0..2] /\ ioCount' \in Int
    BY <1>1, <1>2, <1>3, ConstantsOK DEF Proc, At, Goto, Enqueue, link, count, ghosts, Fits, Base,
       ConstantsOK, TypeOK
  <2>3. sendQ' \in Seq(0..MaxLinks) /\ sendCount' \in 0..Batch /\ links' \in 0..MaxLinks
    BY <1>1, EnqueueType DEF Proc, At, Goto, Enqueue, link, count, ghosts, TypeOK
  <2>4. sock' \in {"invalid", "fresh", "open", "shut"} /\ io' \subseteq {"recv", "send"} /\ releaseFlag' \in {0, 1}
    BY <1>1 DEF Proc, At, Goto, Enqueue, link, count, ghosts, TypeOK
  <2>5. /\ agent' \in BOOLEAN /\ port' \in BOOLEAN /\ missed' \in 0..MaxMissed /\ connected' \in BOOLEAN
        /\ sending' \in BOOLEAN /\ inside' \in BOOLEAN /\ heard' \in BOOLEAN
    BY <1>1, Zenon DEF Proc, At, Goto, Enqueue, link, count, ghosts, TypeOK
  <2> QED BY <2>1, <2>2, <2>3, <2>4, <2>5 DEF TypeOK, Threads, Labels
<1>8. UNCHANGED missed
  BY DEF Proc, At, Goto, Enqueue, link, count, ghosts
<1> QED BY <1>6, <1>7, <1>8

LEMMA SendDoneTyped ==
  ASSUME ConstantsOK, TypeOK, ThreadInv, NEW t \in Threads, SendDone(t)
  PROVE  TypeOK' /\ ThreadInv' /\ UNCHANGED missed
<1>1. TypeOK /\ ThreadInv
  OBVIOUS
<1>2. t \in Threads /\ Fits(t, pc[t], cont[t], held[t])
  BY <1>1, ThreadsAre DEF ThreadInv
<1>3. /\ pc \in [Threads -> Labels] /\ cont \in [Threads -> Labels] /\ held \in [Threads -> 0..2]
      /\ held[t] \in 0..2
  BY <1>1, <1>2 DEF TypeOK
<1>4. \A u \in Threads \ {t} : pc'[u] = pc[u] /\ cont'[u] = cont[u] /\ held'[u] = held[u]
  BY <1>3 DEF SendDone, At, Goto, link, count
<1>5. Fits(t, pc'[t], cont'[t], held'[t])
  BY <1>2, <1>3, ThreadsAre DEF SendDone, At, Goto, link, count, Fits, Base
<1>6. ThreadInv'
  BY <1>1, <1>2, <1>4, <1>5, ThreadsFit
<1>7. TypeOK'
  <2>1. pc' \in [Threads -> Labels] /\ cont' \in [Threads -> Labels]
    BY <1>3 DEF SendDone, At, Goto, link, count, Labels
  <2>2. held' \in [Threads -> 0..2] /\ ioCount' \in Int
    BY <1>1, <1>2, <1>3, ConstantsOK DEF SendDone, At, Goto, link, count, Fits, Base, ConstantsOK, TypeOK
  <2>3. sendQ' \in Seq(0..MaxLinks) /\ sendCount' \in 0..Batch /\ links' \in 0..MaxLinks
    BY <1>1, ConstantsOK DEF SendDone, At, Goto, link, count, ConstantsOK, TypeOK
  <2>4. sock' \in {"invalid", "fresh", "open", "shut"} /\ io' \subseteq {"recv", "send"} /\ releaseFlag' \in {0, 1}
    BY <1>1 DEF SendDone, At, Goto, link, count, TypeOK
  <2>5. /\ agent' \in BOOLEAN /\ port' \in BOOLEAN /\ missed' \in 0..MaxMissed /\ connected' \in BOOLEAN
        /\ sending' \in BOOLEAN /\ inside' \in BOOLEAN /\ heard' \in BOOLEAN
    BY <1>1, Zenon DEF SendDone, At, Goto, link, count, TypeOK
  <2> QED BY <2>1, <2>2, <2>3, <2>4, <2>5 DEF TypeOK, Threads, Labels
<1>8. UNCHANGED missed
  BY DEF SendDone, At, Goto, link, count
<1> QED BY <1>6, <1>7, <1>8

LEMMA SendResetTyped ==
  ASSUME ConstantsOK, TypeOK, ThreadInv, NEW t \in Threads, SendReset(t)
  PROVE  TypeOK' /\ ThreadInv' /\ UNCHANGED missed
<1>1. TypeOK /\ ThreadInv
  OBVIOUS
<1>2. t \in Threads /\ Fits(t, pc[t], cont[t], held[t])
  BY <1>1, ThreadsAre DEF ThreadInv
<1>3. /\ pc \in [Threads -> Labels] /\ cont \in [Threads -> Labels] /\ held \in [Threads -> 0..2]
      /\ held[t] \in 0..2
  BY <1>1, <1>2 DEF TypeOK
<1>4. \A u \in Threads \ {t} : pc'[u] = pc[u] /\ cont'[u] = cont[u] /\ held'[u] = held[u]
  BY <1>3 DEF SendReset, At, Goto, link, count, ghosts
<1>5. Fits(t, pc'[t], cont'[t], held'[t])
  BY <1>2, <1>3, ThreadsAre DEF SendReset, At, Goto, link, count, ghosts, Fits, Base
<1>6. ThreadInv'
  BY <1>1, <1>2, <1>4, <1>5, ThreadsFit
<1>7. TypeOK'
  <2>1. pc' \in [Threads -> Labels] /\ cont' \in [Threads -> Labels]
    BY <1>3 DEF SendReset, At, Goto, link, count, ghosts, Labels
  <2>2. held' \in [Threads -> 0..2] /\ ioCount' \in Int
    BY <1>1, <1>2, <1>3, ConstantsOK DEF SendReset, At, Goto, link, count, ghosts, Fits, Base, ConstantsOK,
       TypeOK
  <2>3. sendQ' \in Seq(0..MaxLinks) /\ sendCount' \in 0..Batch /\ links' \in 0..MaxLinks
    BY <1>1, ConstantsOK DEF SendReset, At, Goto, link, count, ghosts, ConstantsOK, TypeOK
  <2>4. sock' \in {"invalid", "fresh", "open", "shut"} /\ io' \subseteq {"recv", "send"} /\ releaseFlag' \in {0, 1}
    BY <1>1 DEF SendReset, At, Goto, link, count, ghosts, TypeOK
  <2>5. /\ agent' \in BOOLEAN /\ port' \in BOOLEAN /\ missed' \in 0..MaxMissed /\ connected' \in BOOLEAN
        /\ sending' \in BOOLEAN /\ inside' \in BOOLEAN /\ heard' \in BOOLEAN
    BY <1>1, Zenon DEF SendReset, At, Goto, link, count, ghosts, TypeOK
  <2> QED BY <2>1, <2>2, <2>3, <2>4, <2>5 DEF TypeOK, Threads, Labels
<1>8. UNCHANGED missed
  BY DEF SendReset, At, Goto, link, count, ghosts
<1> QED BY <1>6, <1>7, <1>8

LEMMA DropTyped ==
  ASSUME ConstantsOK, TypeOK, ThreadInv, NEW t \in Threads, Drop(t)
  PROVE  TypeOK' /\ ThreadInv' /\ UNCHANGED missed
<1>1. TypeOK /\ ThreadInv
  OBVIOUS
<1>2. t \in Threads /\ Fits(t, pc[t], cont[t], held[t])
  BY <1>1, ThreadsAre DEF ThreadInv
<1>3. /\ pc \in [Threads -> Labels] /\ cont \in [Threads -> Labels] /\ held \in [Threads -> 0..2]
      /\ held[t] \in 0..2
  BY <1>1, <1>2 DEF TypeOK
<1>4. \A u \in Threads \ {t} : pc'[u] = pc[u] /\ cont'[u] = cont[u] /\ held'[u] = held[u]
  BY <1>3 DEF Drop, At, Goto, Return, Hold, link, queue, ghosts
<1>5. Fits(t, pc'[t], cont'[t], held'[t])
  BY <1>2, <1>3, ThreadsAre DEF Drop, At, Goto, Return, Hold, link, queue, ghosts, Fits, Base
<1>6. ThreadInv'
  BY <1>1, <1>2, <1>4, <1>5, ThreadsFit
<1>7. TypeOK'
  <2>1. pc' \in [Threads -> Labels] /\ cont' \in [Threads -> Labels]
    BY <1>3 DEF Drop, At, Goto, Return, Hold, link, queue, ghosts, Labels
  <2>2. held' \in [Threads -> 0..2] /\ ioCount' \in Int
    <3>1. held' \in [Threads -> 0..2]
      BY <1>2, <1>3 DEF Drop, At, Goto, Return, Hold, link, queue, ghosts, Fits, Base
    <3>2. ioCount' = ioCount + (-1) /\ ioCount \in Int
      BY <1>1 DEF Drop, Hold, TypeOK
    <3> QED BY <3>1, <3>2
  <2>3. sendQ' \in Seq(0..MaxLinks) /\ sendCount' \in 0..Batch /\ links' \in 0..MaxLinks
    BY <1>1, ConstantsOK DEF Drop, At, Goto, Return, Hold, link, queue, ghosts, ConstantsOK, TypeOK
  <2>4. sock' \in {"invalid", "fresh", "open", "shut"} /\ io' \subseteq {"recv", "send"} /\ releaseFlag' \in {0, 1}
    BY <1>1 DEF Drop, At, Goto, Return, Hold, link, queue, ghosts, TypeOK
  <2>5. /\ agent' \in BOOLEAN /\ port' \in BOOLEAN /\ missed' \in 0..MaxMissed /\ connected' \in BOOLEAN
        /\ sending' \in BOOLEAN /\ inside' \in BOOLEAN /\ heard' \in BOOLEAN
    BY <1>1, Zenon DEF Drop, At, Goto, Return, Hold, link, queue, ghosts, TypeOK
  <2> QED BY <2>1, <2>2, <2>3, <2>4, <2>5 DEF TypeOK, Threads, Labels
<1>8. UNCHANGED missed
  BY DEF Drop, At, Goto, Return, Hold, link, queue, ghosts
<1> QED BY <1>6, <1>7, <1>8

LEMMA ReleaseTyped ==
  ASSUME ConstantsOK, TypeOK, ThreadInv, NEW t \in Threads, Release(t)
  PROVE  TypeOK' /\ ThreadInv' /\ UNCHANGED missed
<1>1. TypeOK /\ ThreadInv
  OBVIOUS
<1>2. t \in Threads /\ Fits(t, pc[t], cont[t], held[t])
  BY <1>1, ThreadsAre DEF ThreadInv
<1>3. /\ pc \in [Threads -> Labels] /\ cont \in [Threads -> Labels] /\ held \in [Threads -> 0..2]
      /\ held[t] \in 0..2
  BY <1>1, <1>2 DEF TypeOK
<1>4. \A u \in Threads \ {t} : pc'[u] = pc[u] /\ cont'[u] = cont[u] /\ held'[u] = held[u]
  BY <1>3 DEF Release, At, Goto, Return, link, queue, ghosts
<1>5. Fits(t, pc'[t], cont'[t], held'[t])
  BY <1>2, <1>3, ThreadsAre DEF Release, At, Goto, Return, link, queue, ghosts, Fits, Base
<1>6. ThreadInv'
  BY <1>1, <1>2, <1>4, <1>5, ThreadsFit
<1>7. TypeOK'
  <2>1. pc' \in [Threads -> Labels] /\ cont' \in [Threads -> Labels]
    BY <1>3 DEF Release, At, Goto, Return, link, queue, ghosts, Labels
  <2>2. held' \in [Threads -> 0..2] /\ ioCount' \in Int
    BY <1>1, <1>2, <1>3, ConstantsOK DEF Release, At, Goto, Return, link, queue, ghosts, Fits, Base,
       ConstantsOK, TypeOK
  <2>3. sendQ' \in Seq(0..MaxLinks) /\ sendCount' \in 0..Batch /\ links' \in 0..MaxLinks
    BY <1>1, ConstantsOK DEF Release, At, Goto, Return, link, queue, ghosts, ConstantsOK, TypeOK
  <2>4. sock' \in {"invalid", "fresh", "open", "shut"} /\ io' \subseteq {"recv", "send"} /\ releaseFlag' \in {0, 1}
    BY <1>1 DEF Release, At, Goto, Return, link, queue, ghosts, TypeOK
  <2>5. /\ agent' \in BOOLEAN /\ port' \in BOOLEAN /\ missed' \in 0..MaxMissed /\ connected' \in BOOLEAN
        /\ sending' \in BOOLEAN /\ inside' \in BOOLEAN /\ heard' \in BOOLEAN
    BY <1>1, Zenon DEF Release, At, Goto, Return, link, queue, ghosts, TypeOK
  <2> QED BY <2>1, <2>2, <2>3, <2>4, <2>5 DEF TypeOK, Threads, Labels
<1>8. UNCHANGED missed
  BY DEF Release, At, Goto, Return, link, queue, ghosts
<1> QED BY <1>6, <1>7, <1>8

LEMMA DrainTyped ==
  ASSUME ConstantsOK, TypeOK, ThreadInv, NEW t \in Threads, Drain(t)
  PROVE  TypeOK' /\ ThreadInv' /\ UNCHANGED missed
<1>1. TypeOK /\ ThreadInv
  OBVIOUS
<1>2. t \in Threads /\ Fits(t, pc[t], cont[t], held[t])
  BY <1>1, ThreadsAre DEF ThreadInv
<1>3. /\ pc \in [Threads -> Labels] /\ cont \in [Threads -> Labels] /\ held \in [Threads -> 0..2]
      /\ held[t] \in 0..2
  BY <1>1, <1>2 DEF TypeOK
<1>4. \A u \in Threads \ {t} : pc'[u] = pc[u] /\ cont'[u] = cont[u] /\ held'[u] = held[u]
  BY <1>3 DEF Drain, At, Goto, link, count, ghosts
<1>5. Fits(t, pc'[t], cont'[t], held'[t])
  BY <1>2, <1>3, ThreadsAre DEF Drain, At, Goto, link, count, ghosts, Fits, Base
<1>6. ThreadInv'
  BY <1>1, <1>2, <1>4, <1>5, ThreadsFit
<1>7. TypeOK'
  <2>1. pc' \in [Threads -> Labels] /\ cont' \in [Threads -> Labels]
    BY <1>3 DEF Drain, At, Goto, link, count, ghosts, Labels
  <2>2. held' \in [Threads -> 0..2] /\ ioCount' \in Int
    BY <1>1, <1>2, <1>3, ConstantsOK DEF Drain, At, Goto, link, count, ghosts, Fits, Base, ConstantsOK, TypeOK
  <2>3. sendQ' \in Seq(0..MaxLinks) /\ sendCount' \in 0..Batch /\ links' \in 0..MaxLinks
    BY <1>1, ConstantsOK DEF Drain, At, Goto, link, count, ghosts, ConstantsOK, TypeOK
  <2>4. sock' \in {"invalid", "fresh", "open", "shut"} /\ io' \subseteq {"recv", "send"} /\ releaseFlag' \in {0, 1}
    BY <1>1 DEF Drain, At, Goto, link, count, ghosts, TypeOK
  <2>5. /\ agent' \in BOOLEAN /\ port' \in BOOLEAN /\ missed' \in 0..MaxMissed /\ connected' \in BOOLEAN
        /\ sending' \in BOOLEAN /\ inside' \in BOOLEAN /\ heard' \in BOOLEAN
    BY <1>1, Zenon DEF Drain, At, Goto, link, count, ghosts, TypeOK
  <2> QED BY <2>1, <2>2, <2>3, <2>4, <2>5 DEF TypeOK, Threads, Labels
<1>8. UNCHANGED missed
  BY DEF Drain, At, Goto, link, count, ghosts
<1> QED BY <1>6, <1>7, <1>8

LEMMA CloseTyped ==
  ASSUME ConstantsOK, TypeOK, ThreadInv, NEW t \in Threads, Close(t)
  PROVE  TypeOK' /\ ThreadInv' /\ UNCHANGED missed
<1>1. TypeOK /\ ThreadInv
  OBVIOUS
<1>2. t \in Threads /\ Fits(t, pc[t], cont[t], held[t])
  BY <1>1, ThreadsAre DEF ThreadInv
<1>3. /\ pc \in [Threads -> Labels] /\ cont \in [Threads -> Labels] /\ held \in [Threads -> 0..2]
      /\ held[t] \in 0..2
  BY <1>1, <1>2 DEF TypeOK
<1>4. \A u \in Threads \ {t} : pc'[u] = pc[u] /\ cont'[u] = cont[u] /\ held'[u] = held[u]
  BY <1>3 DEF Close, At, Goto, count, queue
<1>5. Fits(t, pc'[t], cont'[t], held'[t])
  BY <1>2, <1>3, ThreadsAre DEF Close, At, Goto, count, queue, Fits, Base
<1>6. ThreadInv'
  BY <1>1, <1>2, <1>4, <1>5, ThreadsFit
<1>7. TypeOK'
  <2>1. pc' \in [Threads -> Labels] /\ cont' \in [Threads -> Labels]
    BY <1>3 DEF Close, At, Goto, count, queue, Labels
  <2>2. held' \in [Threads -> 0..2] /\ ioCount' \in Int
    BY <1>1, <1>2, <1>3, ConstantsOK DEF Close, At, Goto, count, queue, Fits, Base, ConstantsOK, TypeOK
  <2>3. sendQ' \in Seq(0..MaxLinks) /\ sendCount' \in 0..Batch /\ links' \in 0..MaxLinks
    BY <1>1, ConstantsOK DEF Close, At, Goto, count, queue, ConstantsOK, TypeOK
  <2>4. sock' \in {"invalid", "fresh", "open", "shut"} /\ io' \subseteq {"recv", "send"} /\ releaseFlag' \in {0, 1}
    BY <1>1 DEF Close, At, Goto, count, queue, TypeOK
  <2>5. /\ agent' \in BOOLEAN /\ port' \in BOOLEAN /\ missed' \in 0..MaxMissed /\ connected' \in BOOLEAN
        /\ sending' \in BOOLEAN /\ inside' \in BOOLEAN /\ heard' \in BOOLEAN
    BY <1>1, Zenon DEF Close, At, Goto, count, queue, TypeOK
  <2> QED BY <2>1, <2>2, <2>3, <2>4, <2>5 DEF TypeOK, Threads, Labels
<1>8. UNCHANGED missed
  BY DEF Close, At, Goto, count, queue
<1> QED BY <1>6, <1>7, <1>8

LEMMA UnsetTyped ==
  ASSUME ConstantsOK, TypeOK, ThreadInv, NEW t \in Threads, Unset(t)
  PROVE  TypeOK' /\ ThreadInv' /\ UNCHANGED missed
<1>1. TypeOK /\ ThreadInv
  OBVIOUS
<1>2. t \in Threads /\ Fits(t, pc[t], cont[t], held[t])
  BY <1>1, ThreadsAre DEF ThreadInv
<1>3. /\ pc \in [Threads -> Labels] /\ cont \in [Threads -> Labels] /\ held \in [Threads -> 0..2]
      /\ held[t] \in 0..2
  BY <1>1, <1>2 DEF TypeOK
<1>4. \A u \in Threads \ {t} : pc'[u] = pc[u] /\ cont'[u] = cont[u] /\ held'[u] = held[u]
  BY <1>3 DEF Unset, At, Goto, Return, count, queue, ghosts
<1>5. Fits(t, pc'[t], cont'[t], held'[t])
  BY <1>2, <1>3, ThreadsAre DEF Unset, At, Goto, Return, count, queue, ghosts, Fits, Base
<1>6. ThreadInv'
  BY <1>1, <1>2, <1>4, <1>5, ThreadsFit
<1>7. TypeOK'
  <2>1. pc' \in [Threads -> Labels] /\ cont' \in [Threads -> Labels]
    BY <1>3 DEF Unset, At, Goto, Return, count, queue, ghosts, Labels
  <2>2. held' \in [Threads -> 0..2] /\ ioCount' \in Int
    BY <1>1, <1>2, <1>3, ConstantsOK DEF Unset, At, Goto, Return, count, queue, ghosts, Fits, Base,
       ConstantsOK, TypeOK
  <2>3. sendQ' \in Seq(0..MaxLinks) /\ sendCount' \in 0..Batch /\ links' \in 0..MaxLinks
    BY <1>1, ConstantsOK DEF Unset, At, Goto, Return, count, queue, ghosts, ConstantsOK, TypeOK
  <2>4. sock' \in {"invalid", "fresh", "open", "shut"} /\ io' \subseteq {"recv", "send"} /\ releaseFlag' \in {0, 1}
    BY <1>1 DEF Unset, At, Goto, Return, count, queue, ghosts, TypeOK
  <2>5. /\ agent' \in BOOLEAN /\ port' \in BOOLEAN /\ missed' \in 0..MaxMissed /\ connected' \in BOOLEAN
        /\ sending' \in BOOLEAN /\ inside' \in BOOLEAN /\ heard' \in BOOLEAN
    BY <1>1, Zenon DEF Unset, At, Goto, Return, count, queue, ghosts, TypeOK
  <2> QED BY <2>1, <2>2, <2>3, <2>4, <2>5 DEF TypeOK, Threads, Labels
<1>8. UNCHANGED missed
  BY DEF Unset, At, Goto, Return, count, queue, ghosts
<1> QED BY <1>6, <1>7, <1>8

LEMMA AppSendTyped ==
  ASSUME ConstantsOK, TypeOK, ThreadInv, NEW t \in Apps, AppSend(t)
  PROVE  TypeOK' /\ ThreadInv' /\ UNCHANGED missed
<1>1. TypeOK /\ ThreadInv
  OBVIOUS
<1>2. t \in Threads /\ Fits(t, pc[t], cont[t], held[t])
  BY <1>1, ThreadsAre DEF ThreadInv
<1>3. /\ pc \in [Threads -> Labels] /\ cont \in [Threads -> Labels] /\ held \in [Threads -> 0..2]
      /\ held[t] \in 0..2
  BY <1>1, <1>2 DEF TypeOK
<1>4. \A u \in Threads \ {t} : pc'[u] = pc[u] /\ cont'[u] = cont[u] /\ held'[u] = held[u]
  BY <1>3 DEF AppSend, At, Goto, Enqueue, link, count, ghosts
<1>5. Fits(t, pc'[t], cont'[t], held'[t])
  BY <1>2, <1>3, ThreadsAre DEF AppSend, At, Goto, Enqueue, link, count, ghosts, Fits, Base
<1>6. ThreadInv'
  BY <1>1, <1>2, <1>4, <1>5, ThreadsFit
<1>7. TypeOK'
  <2>1. pc' \in [Threads -> Labels] /\ cont' \in [Threads -> Labels]
    BY <1>3 DEF AppSend, At, Goto, Enqueue, link, count, ghosts, Labels
  <2>2. held' \in [Threads -> 0..2] /\ ioCount' \in Int
    BY <1>1, <1>2, <1>3, ConstantsOK DEF AppSend, At, Goto, Enqueue, link, count, ghosts, Fits, Base,
       ConstantsOK, TypeOK
  <2>3. sendQ' \in Seq(0..MaxLinks) /\ sendCount' \in 0..Batch /\ links' \in 0..MaxLinks
    BY <1>1, EnqueueType DEF AppSend, At, Goto, Enqueue, link, count, ghosts, TypeOK
  <2>4. sock' \in {"invalid", "fresh", "open", "shut"} /\ io' \subseteq {"recv", "send"} /\ releaseFlag' \in {0, 1}
    BY <1>1 DEF AppSend, At, Goto, Enqueue, link, count, ghosts, TypeOK
  <2>5. /\ agent' \in BOOLEAN /\ port' \in BOOLEAN /\ missed' \in 0..MaxMissed /\ connected' \in BOOLEAN
        /\ sending' \in BOOLEAN /\ inside' \in BOOLEAN /\ heard' \in BOOLEAN
    BY <1>1, Zenon DEF AppSend, At, Goto, Enqueue, link, count, ghosts, TypeOK
  <2> QED BY <2>1, <2>2, <2>3, <2>4, <2>5 DEF TypeOK, Threads, Labels
<1>8. UNCHANGED missed
  BY DEF AppSend, At, Goto, Enqueue, link, count, ghosts
<1> QED BY <1>6, <1>7, <1>8

LEMMA NotNowTyped ==
  ASSUME ConstantsOK, TypeOK, ThreadInv, NotNow
  PROVE  TypeOK' /\ ThreadInv' /\ UNCHANGED missed
<1>1. TypeOK /\ ThreadInv
  OBVIOUS
<1>2. Main \in Threads /\ Fits(Main, pc[Main], cont[Main], held[Main])
  BY <1>1, ThreadsAre DEF ThreadInv
<1>3. /\ pc \in [Threads -> Labels] /\ cont \in [Threads -> Labels] /\ held \in [Threads -> 0..2]
      /\ held[Main] \in 0..2
  BY <1>1, <1>2 DEF TypeOK
<1>4. \A u \in Threads \ {Main} : pc'[u] = pc[u] /\ cont'[u] = cont[u] /\ held'[u] = held[u]
  BY <1>3 DEF NotNow, At, Goto, count, queue, ghosts
<1>5. Fits(Main, pc'[Main], cont'[Main], held'[Main])
  BY <1>2, <1>3, ThreadsAre DEF NotNow, At, Goto, count, queue, ghosts, Fits, Base
<1>6. ThreadInv'
  BY <1>1, <1>2, <1>4, <1>5, ThreadsFit
<1>7. TypeOK'
  <2>1. pc' \in [Threads -> Labels] /\ cont' \in [Threads -> Labels]
    BY <1>3 DEF NotNow, At, Goto, count, queue, ghosts, Labels
  <2>2. held' \in [Threads -> 0..2] /\ ioCount' \in Int
    BY <1>1, <1>2, <1>3, ConstantsOK DEF NotNow, At, Goto, count, queue, ghosts, Fits, Base, ConstantsOK,
       TypeOK
  <2>3. sendQ' \in Seq(0..MaxLinks) /\ sendCount' \in 0..Batch /\ links' \in 0..MaxLinks
    BY <1>1, ConstantsOK DEF NotNow, At, Goto, count, queue, ghosts, ConstantsOK, TypeOK
  <2>4. sock' \in {"invalid", "fresh", "open", "shut"} /\ io' \subseteq {"recv", "send"} /\ releaseFlag' \in {0, 1}
    BY <1>1 DEF NotNow, At, Goto, count, queue, ghosts, TypeOK
  <2>5. /\ agent' \in BOOLEAN /\ port' \in BOOLEAN /\ missed' \in 0..MaxMissed /\ connected' \in BOOLEAN
        /\ sending' \in BOOLEAN /\ inside' \in BOOLEAN /\ heard' \in BOOLEAN
    BY <1>1, Zenon DEF NotNow, At, Goto, count, queue, ghosts, TypeOK
  <2> QED BY <2>1, <2>2, <2>3, <2>4, <2>5 DEF TypeOK, Threads, Labels
<1>8. UNCHANGED missed
  BY DEF NotNow, At, Goto, count, queue, ghosts
<1> QED BY <1>6, <1>7, <1>8

LEMMA ConnectTyped ==
  ASSUME ConstantsOK, TypeOK, ThreadInv, Connect
  PROVE  TypeOK' /\ ThreadInv' /\ UNCHANGED missed
<1>1. TypeOK /\ ThreadInv
  OBVIOUS
<1>2. Main \in Threads /\ Fits(Main, pc[Main], cont[Main], held[Main])
  BY <1>1, ThreadsAre DEF ThreadInv
<1>3. /\ pc \in [Threads -> Labels] /\ cont \in [Threads -> Labels] /\ held \in [Threads -> 0..2]
      /\ held[Main] \in 0..2
  BY <1>1, <1>2 DEF TypeOK
<1>4. \A u \in Threads \ {Main} : pc'[u] = pc[u] /\ cont'[u] = cont[u] /\ held'[u] = held[u]
  BY <1>3 DEF Connect, At, Goto, count, queue
<1>5. Fits(Main, pc'[Main], cont'[Main], held'[Main])
  BY <1>2, <1>3, ThreadsAre DEF Connect, At, Goto, count, queue, Fits, Base
<1>6. ThreadInv'
  BY <1>1, <1>2, <1>4, <1>5, ThreadsFit
<1>7. TypeOK'
  <2>1. pc' \in [Threads -> Labels] /\ cont' \in [Threads -> Labels]
    BY <1>3 DEF Connect, At, Goto, count, queue, Labels
  <2>2. held' \in [Threads -> 0..2] /\ ioCount' \in Int
    BY <1>1, <1>2, <1>3, ConstantsOK DEF Connect, At, Goto, count, queue, Fits, Base, ConstantsOK, TypeOK
  <2>3. sendQ' \in Seq(0..MaxLinks) /\ sendCount' \in 0..Batch /\ links' \in 0..MaxLinks
    BY <1>1, ConstantsOK DEF Connect, At, Goto, count, queue, ConstantsOK, TypeOK
  <2>4. sock' \in {"invalid", "fresh", "open", "shut"} /\ io' \subseteq {"recv", "send"} /\ releaseFlag' \in {0, 1}
    BY <1>1 DEF Connect, At, Goto, count, queue, TypeOK
  <2>5. /\ agent' \in BOOLEAN /\ port' \in BOOLEAN /\ missed' \in 0..MaxMissed /\ connected' \in BOOLEAN
        /\ sending' \in BOOLEAN /\ inside' \in BOOLEAN /\ heard' \in BOOLEAN
    BY <1>1, Zenon DEF Connect, At, Goto, count, queue, TypeOK
  <2> QED BY <2>1, <2>2, <2>3, <2>4, <2>5 DEF TypeOK, Threads, Labels
<1>8. UNCHANGED missed
  BY DEF Connect, At, Goto, count, queue
<1> QED BY <1>6, <1>7, <1>8

LEMMA ConnectIncTyped ==
  ASSUME ConstantsOK, TypeOK, ThreadInv, ConnectInc
  PROVE  TypeOK' /\ ThreadInv' /\ UNCHANGED missed
<1>1. TypeOK /\ ThreadInv
  OBVIOUS
<1>2. Main \in Threads /\ Fits(Main, pc[Main], cont[Main], held[Main])
  BY <1>1, ThreadsAre DEF ThreadInv
<1>3. /\ pc \in [Threads -> Labels] /\ cont \in [Threads -> Labels] /\ held \in [Threads -> 0..2]
      /\ held[Main] \in 0..2
  BY <1>1, <1>2 DEF TypeOK
<1>4. \A u \in Threads \ {Main} : pc'[u] = pc[u] /\ cont'[u] = cont[u] /\ held'[u] = held[u]
  BY <1>3 DEF ConnectInc, At, Goto, Hold, link, queue, ghosts
<1>5. Fits(Main, pc'[Main], cont'[Main], held'[Main])
  BY <1>2, <1>3, ThreadsAre DEF ConnectInc, At, Goto, Hold, link, queue, ghosts, Fits, Base
<1>6. ThreadInv'
  BY <1>1, <1>2, <1>4, <1>5, ThreadsFit
<1>7. TypeOK'
  <2>1. pc' \in [Threads -> Labels] /\ cont' \in [Threads -> Labels]
    BY <1>3 DEF ConnectInc, At, Goto, Hold, link, queue, ghosts, Labels
  <2>2. held' \in [Threads -> 0..2] /\ ioCount' \in Int
    BY <1>1, <1>2, <1>3, ConstantsOK DEF ConnectInc, At, Goto, Hold, link, queue, ghosts, Fits, Base,
       ConstantsOK, TypeOK
  <2>3. sendQ' \in Seq(0..MaxLinks) /\ sendCount' \in 0..Batch /\ links' \in 0..MaxLinks
    BY <1>1, ConstantsOK DEF ConnectInc, At, Goto, Hold, link, queue, ghosts, ConstantsOK, TypeOK
  <2>4. sock' \in {"invalid", "fresh", "open", "shut"} /\ io' \subseteq {"recv", "send"} /\ releaseFlag' \in {0, 1}
    BY <1>1 DEF ConnectInc, At, Goto, Hold, link, queue, ghosts, TypeOK
  <2>5. /\ agent' \in BOOLEAN /\ port' \in BOOLEAN /\ missed' \in 0..MaxMissed /\ connected' \in BOOLEAN
        /\ sending' \in BOOLEAN /\ inside' \in BOOLEAN /\ heard' \in BOOLEAN
    BY <1>1, Zenon DEF ConnectInc, At, Goto, Hold, link, queue, ghosts, TypeOK
  <2> QED BY <2>1, <2>2, <2>3, <2>4, <2>5 DEF TypeOK, Threads, Labels
<1>8. UNCHANGED missed
  BY DEF ConnectInc, At, Goto, Hold, link, queue, ghosts
<1> QED BY <1>6, <1>7, <1>8

LEMMA ConnectFlagTyped ==
  ASSUME ConstantsOK, TypeOK, ThreadInv, ConnectFlag
  PROVE  TypeOK' /\ ThreadInv' /\ UNCHANGED missed
<1>1. TypeOK /\ ThreadInv
  OBVIOUS
<1>2. Main \in Threads /\ Fits(Main, pc[Main], cont[Main], held[Main])
  BY <1>1, ThreadsAre DEF ThreadInv
<1>3. /\ pc \in [Threads -> Labels] /\ cont \in [Threads -> Labels] /\ held \in [Threads -> 0..2]
      /\ held[Main] \in 0..2
  BY <1>1, <1>2 DEF TypeOK
<1>4. \A u \in Threads \ {Main} : pc'[u] = pc[u] /\ cont'[u] = cont[u] /\ held'[u] = held[u]
  BY <1>3 DEF ConnectFlag, At, Goto, link, queue, ghosts
<1>5. Fits(Main, pc'[Main], cont'[Main], held'[Main])
  BY <1>2, <1>3, ThreadsAre DEF ConnectFlag, At, Goto, link, queue, ghosts, Fits, Base
<1>6. ThreadInv'
  BY <1>1, <1>2, <1>4, <1>5, ThreadsFit
<1>7. TypeOK'
  <2>1. pc' \in [Threads -> Labels] /\ cont' \in [Threads -> Labels]
    BY <1>3 DEF ConnectFlag, At, Goto, link, queue, ghosts, Labels
  <2>2. held' \in [Threads -> 0..2] /\ ioCount' \in Int
    BY <1>1, <1>2, <1>3, ConstantsOK DEF ConnectFlag, At, Goto, link, queue, ghosts, Fits, Base,
       ConstantsOK, TypeOK
  <2>3. sendQ' \in Seq(0..MaxLinks) /\ sendCount' \in 0..Batch /\ links' \in 0..MaxLinks
    BY <1>1, ConstantsOK DEF ConnectFlag, At, Goto, link, queue, ghosts, ConstantsOK, TypeOK
  <2>4. sock' \in {"invalid", "fresh", "open", "shut"} /\ io' \subseteq {"recv", "send"} /\ releaseFlag' \in {0, 1}
    BY <1>1 DEF ConnectFlag, At, Goto, link, queue, ghosts, TypeOK
  <2>5. /\ agent' \in BOOLEAN /\ port' \in BOOLEAN /\ missed' \in 0..MaxMissed /\ connected' \in BOOLEAN
        /\ sending' \in BOOLEAN /\ inside' \in BOOLEAN /\ heard' \in BOOLEAN
    BY <1>1, Zenon DEF ConnectFlag, At, Goto, link, queue, ghosts, TypeOK
  <2> QED BY <2>1, <2>2, <2>3, <2>4, <2>5 DEF TypeOK, Threads, Labels
<1>8. UNCHANGED missed
  BY DEF ConnectFlag, At, Goto, link, queue, ghosts
<1> QED BY <1>6, <1>7, <1>8

LEMMA EnterTyped ==
  ASSUME ConstantsOK, TypeOK, ThreadInv, Enter
  PROVE  TypeOK' /\ ThreadInv' /\ UNCHANGED missed
<1>1. TypeOK /\ ThreadInv
  OBVIOUS
<1>2. Main \in Threads /\ Fits(Main, pc[Main], cont[Main], held[Main])
  BY <1>1, ThreadsAre DEF ThreadInv
<1>3. /\ pc \in [Threads -> Labels] /\ cont \in [Threads -> Labels] /\ held \in [Threads -> 0..2]
      /\ held[Main] \in 0..2
  BY <1>1, <1>2 DEF TypeOK
<1>4. \A u \in Threads \ {Main} : pc'[u] = pc[u] /\ cont'[u] = cont[u] /\ held'[u] = held[u]
  BY <1>3 DEF Enter, At, Goto, Enqueue, link, count
<1>5. Fits(Main, pc'[Main], cont'[Main], held'[Main])
  BY <1>2, <1>3, ThreadsAre DEF Enter, At, Goto, Enqueue, link, count, Fits, Base
<1>6. ThreadInv'
  BY <1>1, <1>2, <1>4, <1>5, ThreadsFit
<1>7. TypeOK'
  <2>1. pc' \in [Threads -> Labels] /\ cont' \in [Threads -> Labels]
    BY <1>3 DEF Enter, At, Goto, Enqueue, link, count, Labels
  <2>2. held' \in [Threads -> 0..2] /\ ioCount' \in Int
    BY <1>1, <1>2, <1>3, ConstantsOK DEF Enter, At, Goto, Enqueue, link, count, Fits, Base, ConstantsOK,
       TypeOK
  <2>3. sendQ' \in Seq(0..MaxLinks) /\ sendCount' \in 0..Batch /\ links' \in 0..MaxLinks
    BY <1>1, EnqueueType DEF Enter, At, Goto, Enqueue, link, count, TypeOK
  <2>4. sock' \in {"invalid", "fresh", "open", "shut"} /\ io' \subseteq {"recv", "send"} /\ releaseFlag' \in {0, 1}
    BY <1>1 DEF Enter, At, Goto, Enqueue, link, count, TypeOK
  <2>5. /\ agent' \in BOOLEAN /\ port' \in BOOLEAN /\ missed' \in 0..MaxMissed /\ connected' \in BOOLEAN
        /\ sending' \in BOOLEAN /\ inside' \in BOOLEAN /\ heard' \in BOOLEAN
    BY <1>1, Zenon DEF Enter, At, Goto, Enqueue, link, count, TypeOK
  <2> QED BY <2>1, <2>2, <2>3, <2>4, <2>5 DEF TypeOK, Threads, Labels
<1>8. UNCHANGED missed
  BY DEF Enter, At, Goto, Enqueue, link, count
<1> QED BY <1>6, <1>7, <1>8

LEMMA ReportTyped ==
  ASSUME ConstantsOK, TypeOK, ThreadInv, Report
  PROVE  TypeOK' /\ ThreadInv' /\ UNCHANGED missed
<1>1. TypeOK /\ ThreadInv
  OBVIOUS
<1>2. Main \in Threads /\ Fits(Main, pc[Main], cont[Main], held[Main])
  BY <1>1, ThreadsAre DEF ThreadInv
<1>3. /\ pc \in [Threads -> Labels] /\ cont \in [Threads -> Labels] /\ held \in [Threads -> 0..2]
      /\ held[Main] \in 0..2
  BY <1>1, <1>2 DEF TypeOK
<1>4. \A u \in Threads \ {Main} : pc'[u] = pc[u] /\ cont'[u] = cont[u] /\ held'[u] = held[u]
  BY <1>3 DEF Report, At, Goto, Enqueue, link, count, ghosts
<1>5. Fits(Main, pc'[Main], cont'[Main], held'[Main])
  BY <1>2, <1>3, ThreadsAre DEF Report, At, Goto, Enqueue, link, count, ghosts, Fits, Base
<1>6. ThreadInv'
  BY <1>1, <1>2, <1>4, <1>5, ThreadsFit
<1>7. TypeOK'
  <2>1. pc' \in [Threads -> Labels] /\ cont' \in [Threads -> Labels]
    BY <1>3 DEF Report, At, Goto, Enqueue, link, count, ghosts, Labels
  <2>2. held' \in [Threads -> 0..2] /\ ioCount' \in Int
    BY <1>1, <1>2, <1>3, ConstantsOK DEF Report, At, Goto, Enqueue, link, count, ghosts, Fits, Base,
       ConstantsOK, TypeOK
  <2>3. sendQ' \in Seq(0..MaxLinks) /\ sendCount' \in 0..Batch /\ links' \in 0..MaxLinks
    BY <1>1, EnqueueType DEF Report, At, Goto, Enqueue, link, count, ghosts, TypeOK
  <2>4. sock' \in {"invalid", "fresh", "open", "shut"} /\ io' \subseteq {"recv", "send"} /\ releaseFlag' \in {0, 1}
    BY <1>1 DEF Report, At, Goto, Enqueue, link, count, ghosts, TypeOK
  <2>5. /\ agent' \in BOOLEAN /\ port' \in BOOLEAN /\ missed' \in 0..MaxMissed /\ connected' \in BOOLEAN
        /\ sending' \in BOOLEAN /\ inside' \in BOOLEAN /\ heard' \in BOOLEAN
    BY <1>1, Zenon DEF Report, At, Goto, Enqueue, link, count, ghosts, TypeOK
  <2> QED BY <2>1, <2>2, <2>3, <2>4, <2>5 DEF TypeOK, Threads, Labels
<1>8. UNCHANGED missed
  BY DEF Report, At, Goto, Enqueue, link, count, ghosts
<1> QED BY <1>6, <1>7, <1>8

LEMMA PeerClosesTyped ==
  ASSUME ConstantsOK, TypeOK, ThreadInv, PeerCloses
  PROVE  TypeOK' /\ ThreadInv' /\ UNCHANGED missed
<1>1. TypeOK /\ ThreadInv
  OBVIOUS
<1>2. Main \in Threads /\ Fits(Main, pc[Main], cont[Main], held[Main])
  BY <1>1, ThreadsAre DEF ThreadInv
<1>3. /\ pc \in [Threads -> Labels] /\ cont \in [Threads -> Labels] /\ held \in [Threads -> 0..2]
      /\ held[Main] \in 0..2
  BY <1>1, <1>2 DEF TypeOK
<1>4. \A u \in Threads \ {Main} : pc'[u] = pc[u] /\ cont'[u] = cont[u] /\ held'[u] = held[u]
  BY <1>3 DEF PeerCloses, Shut, count, queue, threads, ghosts
<1>5. Fits(Main, pc'[Main], cont'[Main], held'[Main])
  BY <1>2, <1>3, ThreadsAre DEF PeerCloses, Shut, count, queue, threads, ghosts, Fits, Base
<1>6. ThreadInv'
  BY <1>1, <1>2, <1>4, <1>5, ThreadsFit
<1>7. TypeOK'
  <2>1. pc' \in [Threads -> Labels] /\ cont' \in [Threads -> Labels]
    BY <1>3 DEF PeerCloses, Shut, count, queue, threads, ghosts, Labels
  <2>2. held' \in [Threads -> 0..2] /\ ioCount' \in Int
    BY <1>1, <1>2, <1>3, ConstantsOK DEF PeerCloses, Shut, count, queue, threads, ghosts, Fits, Base,
       ConstantsOK, TypeOK
  <2>3. sendQ' \in Seq(0..MaxLinks) /\ sendCount' \in 0..Batch /\ links' \in 0..MaxLinks
    BY <1>1, ConstantsOK DEF PeerCloses, Shut, count, queue, threads, ghosts, ConstantsOK, TypeOK
  <2>4. sock' \in {"invalid", "fresh", "open", "shut"} /\ io' \subseteq {"recv", "send"} /\ releaseFlag' \in {0, 1}
    BY <1>1 DEF PeerCloses, Shut, count, queue, threads, ghosts, TypeOK
  <2>5. /\ agent' \in BOOLEAN /\ port' \in BOOLEAN /\ missed' \in 0..MaxMissed /\ connected' \in BOOLEAN
        /\ sending' \in BOOLEAN /\ inside' \in BOOLEAN /\ heard' \in BOOLEAN
    BY <1>1, Zenon DEF PeerCloses, Shut, count, queue, threads, ghosts, TypeOK
  <2> QED BY <2>1, <2>2, <2>3, <2>4, <2>5 DEF TypeOK, Threads, Labels
<1>8. UNCHANGED missed
  BY DEF PeerCloses, Shut, count, queue, threads, ghosts
<1> QED BY <1>6, <1>7, <1>8

LEMMA CompleteTyped ==
  ASSUME ConstantsOK, TypeOK, ThreadInv, NEW t \in Workers, NEW k \in {"recv", "send"}, Complete(t, k)
  PROVE  TypeOK' /\ ThreadInv' /\ UNCHANGED missed
<1>1. TypeOK /\ ThreadInv
  OBVIOUS
<1>2. t \in Threads /\ Fits(t, pc[t], cont[t], held[t])
  BY <1>1, ThreadsAre DEF ThreadInv
<1>3. /\ pc \in [Threads -> Labels] /\ cont \in [Threads -> Labels] /\ held \in [Threads -> 0..2]
      /\ held[t] \in 0..2
  BY <1>1, <1>2 DEF TypeOK
<1>4. \A u \in Threads \ {t} : pc'[u] = pc[u] /\ cont'[u] = cont[u] /\ held'[u] = held[u]
  BY <1>3 DEF Complete, At, Goto, Shut, count, queue, ghosts
<1>5. Fits(t, pc'[t], cont'[t], held'[t])
  BY <1>2, <1>3, ThreadsAre DEF Complete, At, Goto, Shut, count, queue, ghosts, Fits, Base
<1>6. ThreadInv'
  BY <1>1, <1>2, <1>4, <1>5, ThreadsFit
<1>7. TypeOK'
  <2>1. pc' \in [Threads -> Labels] /\ cont' \in [Threads -> Labels]
    BY <1>3 DEF Complete, At, Goto, Shut, count, queue, ghosts, Labels
  <2>2. held' \in [Threads -> 0..2] /\ ioCount' \in Int
    BY <1>1, <1>2, <1>3, ConstantsOK DEF Complete, At, Goto, Shut, count, queue, ghosts, Fits, Base,
       ConstantsOK, TypeOK
  <2>3. sendQ' \in Seq(0..MaxLinks) /\ sendCount' \in 0..Batch /\ links' \in 0..MaxLinks
    BY <1>1, ConstantsOK DEF Complete, At, Goto, Shut, count, queue, ghosts, ConstantsOK, TypeOK
  <2>4. sock' \in {"invalid", "fresh", "open", "shut"} /\ io' \subseteq {"recv", "send"} /\ releaseFlag' \in {0, 1}
    BY <1>1 DEF Complete, At, Goto, Shut, count, queue, ghosts, TypeOK
  <2>5. /\ agent' \in BOOLEAN /\ port' \in BOOLEAN /\ missed' \in 0..MaxMissed /\ connected' \in BOOLEAN
        /\ sending' \in BOOLEAN /\ inside' \in BOOLEAN /\ heard' \in BOOLEAN
    BY <1>1, Zenon DEF Complete, At, Goto, Shut, count, queue, ghosts, TypeOK
  <2> QED BY <2>1, <2>2, <2>3, <2>4, <2>5 DEF TypeOK, Threads, Labels
<1>8. UNCHANGED missed
  BY DEF Complete, At, Goto, Shut, count, queue, ghosts
<1> QED BY <1>6, <1>7, <1>8

-----------------------------------------------------------------------------
(* The steps of a connection whose workers found the port *)

\* _bSending is set by the thread that will send: nobody else gets past it.
LEMMA PostStep ==
  ASSUME ConstantsOK, Whole, NEW t \in Threads, Post(t)
  PROVE  Whole'
<1>1. TypeOK /\ ThreadInv /\ Count /\ OneSend /\ OneRecv /\ EnterInv /\ (agent => AgentInv)
  BY DEF Whole
<1>2. t \in Threads /\ Fits(t, pc[t], cont[t], held[t])
  BY <1>1, ThreadsAre DEF ThreadInv
<1>3. /\ pc \in [Threads -> Labels] /\ cont \in [Threads -> Labels] /\ held \in [Threads -> 0..2]
      /\ held[t] \in 0..2
  BY <1>1, <1>2 DEF TypeOK
<1>4. \A u \in Threads \ {t} : pc'[u] = pc[u] /\ cont'[u] = cont[u] /\ held'[u] = held[u]
  BY <1>3 DEF Post, At, Goto, Return, link, count, ghosts
<1>6. TypeOK' /\ ThreadInv'
  BY <1>1, PostTyped
<1>8. Count'
  BY <1>1, CountSame DEF Post, At, Goto, Return, link, count, ghosts
<1>9. OneSend'
  <2>1. ASSUME NEW u \in Threads, Sends(u)' PROVE sending' /\ "send" \notin io' /\ \A v \in Threads : Sends(v)' => v = u
    BY <1>1, <1>2, <1>3, <1>4, <2>1 DEF Post, At, Goto, Return, link, count, ghosts, OneSend, Sends, Fits
  <2>2. "send" \in io' => sending'
    BY <1>1, <1>2, <1>3 DEF Post, At, Goto, Return, link, count, ghosts, OneSend, Sends
  <2> QED BY <2>1, <2>2 DEF OneSend, Sends, Threads
<1>10. OneRecv'
  <2>1. ASSUME NEW u \in Threads, Receives(u)' PROVE "recv" \notin io' /\ \A v \in Threads : Receives(v)' => v = u
    BY <1>1, <1>2, <1>3, <1>4, <2>1 DEF Post, At, Goto, Return, link, count, ghosts, OneRecv, Receives, Fits
  <2>2. (\E u \in Threads : Receives(u)') \/ "recv" \in io' => links' > 0 /\ (agent' => connected')
    BY <1>1, <1>2, <1>3, <1>4, ConstantsOK DEF Post, At, Goto, Return, link, count, ghosts, OneRecv,
       Receives, Fits, TypeOK, ConstantsOK
  <2>3. sock' = "open" => (\E u \in Threads : Receives(u)') \/ "recv" \in io'
    BY <1>1, <1>2, <1>3, <1>4 DEF Post, At, Goto, Return, link, count, ghosts, OneRecv, Receives, Fits
  <2> QED BY <2>1, <2>2, <2>3 DEF OneRecv, Receives, Threads
<1>11. EnterInv'
  BY <1>1, <1>2, <1>3, <1>4, ThreadsAre DEF Post, At, Goto, Return, link, count, ghosts, EnterInv, Setting,
     Fits, TypeOK
<1>12. ASSUME agent' PROVE AgentInv'
  <2>0. agent /\ AgentInv
    BY <1>1, <1>12 DEF Post, At, Goto, Return, link, count, ghosts
  <2>1. ASSUME NEW u \in Threads, Tearing(u)'
        PROVE  /\ releaseFlag' = 1 /\ io' = {} /\ sock' # "open" /\ (u = Main \/ connected')
               /\ \A v \in Threads : ~Receives(v)' /\ (Tearing(v)' => v = u)
    BY <1>1, <1>2, <1>3, <1>4, <2>0, <2>1 DEF Post, At, Goto, Return, link, count, ghosts, AgentInv,
       Tearing, Receives, Fits
  <2>2. ASSUME releaseFlag' = 0, ~connected' \/ sock' \in {"invalid", "fresh"} \/ pc'[Main] = "cinc"
        PROVE  io' = {} /\ \A u \in Threads \ {Main} : pc'[u] = "idle"
    BY <1>1, <1>2, <1>3, <1>4, <2>0, <2>2, ThreadsAre DEF Post, At, Goto, Return, link, count, ghosts,
       AgentInv, Untouched, Fits
  <2>3. /\ Setting' => sock' \in {"open", "shut"} /\ connected'
        /\ inside' => sock' \in {"open", "shut"}
        /\ sock' = "open" => connected'
        /\ \A u \in Apps : pc'[u] = "idle"
    BY <1>1, <1>2, <1>3, <1>4, <2>0, ThreadsAre DEF Post, At, Goto, Return, link, count, ghosts, AgentInv,
       Setting, Fits, Tearing
  <2> QED BY <2>1, <2>2, <2>3 DEF AgentInv, Tearing, Receives, Setting, Untouched, Threads
<1> QED BY <1>6, <1>8, <1>9, <1>10, <1>11, <1>12 DEF Whole

LEMMA SizeStep ==
  ASSUME ConstantsOK, Whole, NEW t \in Threads, Size(t)
  PROVE  Whole'
<1>1. TypeOK /\ ThreadInv /\ Count /\ OneSend /\ OneRecv /\ EnterInv /\ (agent => AgentInv)
  BY DEF Whole
<1>2. t \in Threads /\ Fits(t, pc[t], cont[t], held[t])
  BY <1>1, ThreadsAre DEF ThreadInv
<1>3. /\ pc \in [Threads -> Labels] /\ cont \in [Threads -> Labels] /\ held \in [Threads -> 0..2]
      /\ held[t] \in 0..2
  BY <1>1, <1>2 DEF TypeOK
<1>4. \A u \in Threads \ {t} : pc'[u] = pc[u] /\ cont'[u] = cont[u] /\ held'[u] = held[u]
  BY <1>3 DEF Size, At, Goto, link, count, queue, ghosts
<1>6. TypeOK' /\ ThreadInv'
  BY <1>1, SizeTyped
<1>8. Count'
  BY <1>1, CountSame DEF Size, At, Goto, link, count, queue, ghosts
<1>9. OneSend'
  <2>1. ASSUME NEW u \in Threads, Sends(u)' PROVE sending' /\ "send" \notin io' /\ \A v \in Threads : Sends(v)' => v = u
    BY <1>1, <1>2, <1>3, <1>4, <2>1 DEF Size, At, Goto, link, count, queue, ghosts, OneSend, Sends, Fits
  <2>2. "send" \in io' => sending'
    BY <1>1, <1>2, <1>3 DEF Size, At, Goto, link, count, queue, ghosts, OneSend, Sends
  <2> QED BY <2>1, <2>2 DEF OneSend, Sends, Threads
<1>10. OneRecv'
  <2>1. ASSUME NEW u \in Threads, Receives(u)' PROVE "recv" \notin io' /\ \A v \in Threads : Receives(v)' => v = u
    BY <1>1, <1>2, <1>3, <1>4, <2>1 DEF Size, At, Goto, link, count, queue, ghosts, OneRecv, Receives, Fits
  <2>2. (\E u \in Threads : Receives(u)') \/ "recv" \in io' => links' > 0 /\ (agent' => connected')
    BY <1>1, <1>2, <1>3, <1>4, ConstantsOK DEF Size, At, Goto, link, count, queue, ghosts, OneRecv,
       Receives, Fits, TypeOK, ConstantsOK
  <2>3. sock' = "open" => (\E u \in Threads : Receives(u)') \/ "recv" \in io'
    BY <1>1, <1>2, <1>3, <1>4 DEF Size, At, Goto, link, count, queue, ghosts, OneRecv, Receives, Fits
  <2> QED BY <2>1, <2>2, <2>3 DEF OneRecv, Receives, Threads
<1>11. EnterInv'
  BY <1>1, <1>2, <1>3, <1>4, ThreadsAre DEF Size, At, Goto, link, count, queue, ghosts, EnterInv, Setting,
     Fits, TypeOK
<1>12. ASSUME agent' PROVE AgentInv'
  <2>0. agent /\ AgentInv
    BY <1>1, <1>12 DEF Size, At, Goto, link, count, queue, ghosts
  <2>1. ASSUME NEW u \in Threads, Tearing(u)'
        PROVE  /\ releaseFlag' = 1 /\ io' = {} /\ sock' # "open" /\ (u = Main \/ connected')
               /\ \A v \in Threads : ~Receives(v)' /\ (Tearing(v)' => v = u)
    BY <1>1, <1>2, <1>3, <1>4, <2>0, <2>1 DEF Size, At, Goto, link, count, queue, ghosts, AgentInv,
       Tearing, Receives, Fits
  <2>2. ASSUME releaseFlag' = 0, ~connected' \/ sock' \in {"invalid", "fresh"} \/ pc'[Main] = "cinc"
        PROVE  io' = {} /\ \A u \in Threads \ {Main} : pc'[u] = "idle"
    BY <1>1, <1>2, <1>3, <1>4, <2>0, <2>2, ThreadsAre DEF Size, At, Goto, link, count, queue, ghosts,
       AgentInv, Untouched, Fits
  <2>3. /\ Setting' => sock' \in {"open", "shut"} /\ connected'
        /\ inside' => sock' \in {"open", "shut"}
        /\ sock' = "open" => connected'
        /\ \A u \in Apps : pc'[u] = "idle"
    BY <1>1, <1>2, <1>3, <1>4, <2>0, ThreadsAre DEF Size, At, Goto, link, count, queue, ghosts, AgentInv,
       Setting, Fits, Tearing
  <2> QED BY <2>1, <2>2, <2>3 DEF AgentInv, Tearing, Receives, Setting, Untouched, Threads
<1> QED BY <1>6, <1>8, <1>9, <1>10, <1>11, <1>12 DEF Whole

LEMMA UnsendStep ==
  ASSUME ConstantsOK, Whole, NEW t \in Threads, Unsend(t)
  PROVE  Whole'
<1>1. TypeOK /\ ThreadInv /\ Count /\ OneSend /\ OneRecv /\ EnterInv /\ (agent => AgentInv)
  BY DEF Whole
<1>2. t \in Threads /\ Fits(t, pc[t], cont[t], held[t])
  BY <1>1, ThreadsAre DEF ThreadInv
<1>3. /\ pc \in [Threads -> Labels] /\ cont \in [Threads -> Labels] /\ held \in [Threads -> 0..2]
      /\ held[t] \in 0..2
  BY <1>1, <1>2 DEF TypeOK
<1>4. \A u \in Threads \ {t} : pc'[u] = pc[u] /\ cont'[u] = cont[u] /\ held'[u] = held[u]
  BY <1>3 DEF Unsend, At, Goto, link, count, ghosts
<1>6. TypeOK' /\ ThreadInv'
  BY <1>1, UnsendTyped
<1>8. Count'
  BY <1>1, CountSame DEF Unsend, At, Goto, link, count, ghosts
<1>9. OneSend'
  <2>1. ASSUME NEW u \in Threads, Sends(u)' PROVE sending' /\ "send" \notin io' /\ \A v \in Threads : Sends(v)' => v = u
    BY <1>1, <1>2, <1>3, <1>4, <2>1 DEF Unsend, At, Goto, link, count, ghosts, OneSend, Sends, Fits
  <2>2. "send" \in io' => sending'
    BY <1>1, <1>2, <1>3 DEF Unsend, At, Goto, link, count, ghosts, OneSend, Sends
  <2> QED BY <2>1, <2>2 DEF OneSend, Sends, Threads
<1>10. OneRecv'
  <2>1. ASSUME NEW u \in Threads, Receives(u)' PROVE "recv" \notin io' /\ \A v \in Threads : Receives(v)' => v = u
    BY <1>1, <1>2, <1>3, <1>4, <2>1 DEF Unsend, At, Goto, link, count, ghosts, OneRecv, Receives, Fits
  <2>2. (\E u \in Threads : Receives(u)') \/ "recv" \in io' => links' > 0 /\ (agent' => connected')
    BY <1>1, <1>2, <1>3, <1>4, ConstantsOK DEF Unsend, At, Goto, link, count, ghosts, OneRecv, Receives,
       Fits, TypeOK, ConstantsOK
  <2>3. sock' = "open" => (\E u \in Threads : Receives(u)') \/ "recv" \in io'
    BY <1>1, <1>2, <1>3, <1>4 DEF Unsend, At, Goto, link, count, ghosts, OneRecv, Receives, Fits
  <2> QED BY <2>1, <2>2, <2>3 DEF OneRecv, Receives, Threads
<1>11. EnterInv'
  BY <1>1, <1>2, <1>3, <1>4, ThreadsAre DEF Unsend, At, Goto, link, count, ghosts, EnterInv, Setting, Fits,
     TypeOK
<1>12. ASSUME agent' PROVE AgentInv'
  <2>0. agent /\ AgentInv
    BY <1>1, <1>12 DEF Unsend, At, Goto, link, count, ghosts
  <2>1. ASSUME NEW u \in Threads, Tearing(u)'
        PROVE  /\ releaseFlag' = 1 /\ io' = {} /\ sock' # "open" /\ (u = Main \/ connected')
               /\ \A v \in Threads : ~Receives(v)' /\ (Tearing(v)' => v = u)
    BY <1>1, <1>2, <1>3, <1>4, <2>0, <2>1 DEF Unsend, At, Goto, link, count, ghosts, AgentInv, Tearing,
       Receives, Fits
  <2>2. ASSUME releaseFlag' = 0, ~connected' \/ sock' \in {"invalid", "fresh"} \/ pc'[Main] = "cinc"
        PROVE  io' = {} /\ \A u \in Threads \ {Main} : pc'[u] = "idle"
    BY <1>1, <1>2, <1>3, <1>4, <2>0, <2>2, ThreadsAre DEF Unsend, At, Goto, link, count, ghosts, AgentInv,
       Untouched, Fits
  <2>3. /\ Setting' => sock' \in {"open", "shut"} /\ connected'
        /\ inside' => sock' \in {"open", "shut"}
        /\ sock' = "open" => connected'
        /\ \A u \in Apps : pc'[u] = "idle"
    BY <1>1, <1>2, <1>3, <1>4, <2>0, ThreadsAre DEF Unsend, At, Goto, link, count, ghosts, AgentInv,
       Setting, Fits, Tearing
  <2> QED BY <2>1, <2>2, <2>3 DEF AgentInv, Tearing, Receives, Setting, Untouched, Threads
<1> QED BY <1>6, <1>8, <1>9, <1>10, <1>11, <1>12 DEF Whole

LEMMA ResizeStep ==
  ASSUME ConstantsOK, Whole, NEW t \in Threads, Resize(t)
  PROVE  Whole'
<1>1. TypeOK /\ ThreadInv /\ Count /\ OneSend /\ OneRecv /\ EnterInv /\ (agent => AgentInv)
  BY DEF Whole
<1>2. t \in Threads /\ Fits(t, pc[t], cont[t], held[t])
  BY <1>1, ThreadsAre DEF ThreadInv
<1>3. /\ pc \in [Threads -> Labels] /\ cont \in [Threads -> Labels] /\ held \in [Threads -> 0..2]
      /\ held[t] \in 0..2
  BY <1>1, <1>2 DEF TypeOK
<1>4. \A u \in Threads \ {t} : pc'[u] = pc[u] /\ cont'[u] = cont[u] /\ held'[u] = held[u]
  BY <1>3 DEF Resize, At, Goto, Return, link, count, queue, ghosts
<1>6. TypeOK' /\ ThreadInv'
  BY <1>1, ResizeTyped
<1>8. Count'
  BY <1>1, CountSame DEF Resize, At, Goto, Return, link, count, queue, ghosts
<1>9. OneSend'
  <2>1. ASSUME NEW u \in Threads, Sends(u)' PROVE sending' /\ "send" \notin io' /\ \A v \in Threads : Sends(v)' => v = u
    BY <1>1, <1>2, <1>3, <1>4, <2>1 DEF Resize, At, Goto, Return, link, count, queue, ghosts, OneSend,
       Sends, Fits
  <2>2. "send" \in io' => sending'
    BY <1>1, <1>2, <1>3 DEF Resize, At, Goto, Return, link, count, queue, ghosts, OneSend, Sends
  <2> QED BY <2>1, <2>2 DEF OneSend, Sends, Threads
<1>10. OneRecv'
  <2>1. ASSUME NEW u \in Threads, Receives(u)' PROVE "recv" \notin io' /\ \A v \in Threads : Receives(v)' => v = u
    BY <1>1, <1>2, <1>3, <1>4, <2>1 DEF Resize, At, Goto, Return, link, count, queue, ghosts, OneRecv,
       Receives, Fits
  <2>2. (\E u \in Threads : Receives(u)') \/ "recv" \in io' => links' > 0 /\ (agent' => connected')
    BY <1>1, <1>2, <1>3, <1>4, ConstantsOK DEF Resize, At, Goto, Return, link, count, queue, ghosts,
       OneRecv, Receives, Fits, TypeOK, ConstantsOK
  <2>3. sock' = "open" => (\E u \in Threads : Receives(u)') \/ "recv" \in io'
    BY <1>1, <1>2, <1>3, <1>4 DEF Resize, At, Goto, Return, link, count, queue, ghosts, OneRecv, Receives,
       Fits
  <2> QED BY <2>1, <2>2, <2>3 DEF OneRecv, Receives, Threads
<1>11. EnterInv'
  BY <1>1, <1>2, <1>3, <1>4, ThreadsAre DEF Resize, At, Goto, Return, link, count, queue, ghosts, EnterInv,
     Setting, Fits, TypeOK
<1>12. ASSUME agent' PROVE AgentInv'
  <2>0. agent /\ AgentInv
    BY <1>1, <1>12 DEF Resize, At, Goto, Return, link, count, queue, ghosts
  <2>1. ASSUME NEW u \in Threads, Tearing(u)'
        PROVE  /\ releaseFlag' = 1 /\ io' = {} /\ sock' # "open" /\ (u = Main \/ connected')
               /\ \A v \in Threads : ~Receives(v)' /\ (Tearing(v)' => v = u)
    BY <1>1, <1>2, <1>3, <1>4, <2>0, <2>1 DEF Resize, At, Goto, Return, link, count, queue, ghosts,
       AgentInv, Tearing, Receives, Fits
  <2>2. ASSUME releaseFlag' = 0, ~connected' \/ sock' \in {"invalid", "fresh"} \/ pc'[Main] = "cinc"
        PROVE  io' = {} /\ \A u \in Threads \ {Main} : pc'[u] = "idle"
    BY <1>1, <1>2, <1>3, <1>4, <2>0, <2>2, ThreadsAre DEF Resize, At, Goto, Return, link, count, queue,
       ghosts, AgentInv, Untouched, Fits
  <2>3. /\ Setting' => sock' \in {"open", "shut"} /\ connected'
        /\ inside' => sock' \in {"open", "shut"}
        /\ sock' = "open" => connected'
        /\ \A u \in Apps : pc'[u] = "idle"
    BY <1>1, <1>2, <1>3, <1>4, <2>0, ThreadsAre DEF Resize, At, Goto, Return, link, count, queue, ghosts,
       AgentInv, Setting, Fits, Tearing
  <2> QED BY <2>1, <2>2, <2>3 DEF AgentInv, Tearing, Receives, Setting, Untouched, Threads
<1> QED BY <1>6, <1>8, <1>9, <1>10, <1>11, <1>12 DEF Whole

LEMMA SendIncStep ==
  ASSUME ConstantsOK, Whole, NEW t \in Threads, SendInc(t)
  PROVE  Whole'
<1>1. TypeOK /\ ThreadInv /\ Count /\ OneSend /\ OneRecv /\ EnterInv /\ (agent => AgentInv)
  BY DEF Whole
<1>2. t \in Threads /\ Fits(t, pc[t], cont[t], held[t])
  BY <1>1, ThreadsAre DEF ThreadInv
<1>3. /\ pc \in [Threads -> Labels] /\ cont \in [Threads -> Labels] /\ held \in [Threads -> 0..2]
      /\ held[t] \in 0..2
  BY <1>1, <1>2 DEF TypeOK
<1>4. \A u \in Threads \ {t} : pc'[u] = pc[u] /\ cont'[u] = cont[u] /\ held'[u] = held[u]
  BY <1>3 DEF SendInc, At, Goto, Hold, link, queue, ghosts
<1>6. TypeOK' /\ ThreadInv'
  BY <1>1, SendIncTyped
<1>8. Count'
  <2>1. held[t] + (1) \in 0..2 /\ Hold(t, 1) /\ UNCHANGED io
    BY <1>2, <1>3 DEF SendInc, At, Goto, Hold, link, queue, ghosts, Fits, Base
  <2> QED BY <1>1, <1>2, <2>1, CountHold
<1>9. OneSend'
  <2>1. ASSUME NEW u \in Threads, Sends(u)' PROVE sending' /\ "send" \notin io' /\ \A v \in Threads : Sends(v)' => v = u
    BY <1>1, <1>2, <1>3, <1>4, <2>1 DEF SendInc, At, Goto, Hold, link, queue, ghosts, OneSend, Sends, Fits
  <2>2. "send" \in io' => sending'
    BY <1>1, <1>2, <1>3 DEF SendInc, At, Goto, Hold, link, queue, ghosts, OneSend, Sends
  <2> QED BY <2>1, <2>2 DEF OneSend, Sends, Threads
<1>10. OneRecv'
  <2>1. ASSUME NEW u \in Threads, Receives(u)' PROVE "recv" \notin io' /\ \A v \in Threads : Receives(v)' => v = u
    BY <1>1, <1>2, <1>3, <1>4, <2>1 DEF SendInc, At, Goto, Hold, link, queue, ghosts, OneRecv, Receives, Fits
  <2>2. (\E u \in Threads : Receives(u)') \/ "recv" \in io' => links' > 0 /\ (agent' => connected')
    BY <1>1, <1>2, <1>3, <1>4, ConstantsOK DEF SendInc, At, Goto, Hold, link, queue, ghosts, OneRecv,
       Receives, Fits, TypeOK, ConstantsOK
  <2>3. sock' = "open" => (\E u \in Threads : Receives(u)') \/ "recv" \in io'
    BY <1>1, <1>2, <1>3, <1>4 DEF SendInc, At, Goto, Hold, link, queue, ghosts, OneRecv, Receives, Fits
  <2> QED BY <2>1, <2>2, <2>3 DEF OneRecv, Receives, Threads
<1>11. EnterInv'
  BY <1>1, <1>2, <1>3, <1>4, ThreadsAre DEF SendInc, At, Goto, Hold, link, queue, ghosts, EnterInv,
     Setting, Fits, TypeOK
<1>12. ASSUME agent' PROVE AgentInv'
  <2>0. agent /\ AgentInv
    BY <1>1, <1>12 DEF SendInc, At, Goto, Hold, link, queue, ghosts
  <2>1. ASSUME NEW u \in Threads, Tearing(u)'
        PROVE  /\ releaseFlag' = 1 /\ io' = {} /\ sock' # "open" /\ (u = Main \/ connected')
               /\ \A v \in Threads : ~Receives(v)' /\ (Tearing(v)' => v = u)
    BY <1>1, <1>2, <1>3, <1>4, <2>0, <2>1 DEF SendInc, At, Goto, Hold, link, queue, ghosts, AgentInv,
       Tearing, Receives, Fits
  <2>2. ASSUME releaseFlag' = 0, ~connected' \/ sock' \in {"invalid", "fresh"} \/ pc'[Main] = "cinc"
        PROVE  io' = {} /\ \A u \in Threads \ {Main} : pc'[u] = "idle"
    BY <1>1, <1>2, <1>3, <1>4, <2>0, <2>2, ThreadsAre DEF SendInc, At, Goto, Hold, link, queue, ghosts,
       AgentInv, Untouched, Fits
  <2>3. /\ Setting' => sock' \in {"open", "shut"} /\ connected'
        /\ inside' => sock' \in {"open", "shut"}
        /\ sock' = "open" => connected'
        /\ \A u \in Apps : pc'[u] = "idle"
    BY <1>1, <1>2, <1>3, <1>4, <2>0, ThreadsAre DEF SendInc, At, Goto, Hold, link, queue, ghosts, AgentInv,
       Setting, Fits, Tearing
  <2> QED BY <2>1, <2>2, <2>3 DEF AgentInv, Tearing, Receives, Setting, Untouched, Threads
<1> QED BY <1>6, <1>8, <1>9, <1>10, <1>11, <1>12 DEF Whole

\* The request takes over the unit and the right to send; when WSASend fails the thread keeps both.
LEMMA SendIOStep ==
  ASSUME ConstantsOK, Whole, NEW t \in Threads, SendIO(t)
  PROVE  Whole'
<1>1. TypeOK /\ ThreadInv /\ Count /\ OneSend /\ OneRecv /\ EnterInv /\ (agent => AgentInv)
  BY DEF Whole
<1>2. t \in Threads /\ Fits(t, pc[t], cont[t], held[t])
  BY <1>1, ThreadsAre DEF ThreadInv
<1>3. /\ pc \in [Threads -> Labels] /\ cont \in [Threads -> Labels] /\ held \in [Threads -> 0..2]
      /\ held[t] \in 0..2
  BY <1>1, <1>2 DEF TypeOK
<1>4. \A u \in Threads \ {t} : pc'[u] = pc[u] /\ cont'[u] = cont[u] /\ held'[u] = held[u]
  BY <1>3 DEF SendIO, At, Goto, Return, Shut, count, ghosts
<1>6. TypeOK' /\ ThreadInv'
  BY <1>1, SendIOTyped
<1>8. Count'
  BY <1>1, <1>2, <1>3, CountSame, CountMoves DEF SendIO, At, Goto, Return, Shut, count, ghosts, Fits, Base,
     OneSend, OneRecv, Sends, Receives
<1>9. OneSend'
  <2>1. ASSUME NEW u \in Threads, Sends(u)' PROVE sending' /\ "send" \notin io' /\ \A v \in Threads : Sends(v)' => v = u
    BY <1>1, <1>2, <1>3, <1>4, <2>1 DEF SendIO, At, Goto, Return, Shut, count, ghosts, OneSend, Sends, Fits
  <2>2. "send" \in io' => sending'
    BY <1>1, <1>2, <1>3 DEF SendIO, At, Goto, Return, Shut, count, ghosts, OneSend, Sends
  <2> QED BY <2>1, <2>2 DEF OneSend, Sends, Threads
<1>10. OneRecv'
  <2>1. ASSUME NEW u \in Threads, Receives(u)' PROVE "recv" \notin io' /\ \A v \in Threads : Receives(v)' => v = u
    BY <1>1, <1>2, <1>3, <1>4, <2>1 DEF SendIO, At, Goto, Return, Shut, count, ghosts, OneRecv, Receives, Fits
  <2>2. (\E u \in Threads : Receives(u)') \/ "recv" \in io' => links' > 0 /\ (agent' => connected')
    BY <1>1, <1>2, <1>3, <1>4, ConstantsOK DEF SendIO, At, Goto, Return, Shut, count, ghosts, OneRecv,
       Receives, Fits, TypeOK, ConstantsOK
  <2>3. sock' = "open" => (\E u \in Threads : Receives(u)') \/ "recv" \in io'
    BY <1>1, <1>2, <1>3, <1>4 DEF SendIO, At, Goto, Return, Shut, count, ghosts, OneRecv, Receives, Fits
  <2> QED BY <2>1, <2>2, <2>3 DEF OneRecv, Receives, Threads
<1>11. EnterInv'
  BY <1>1, <1>2, <1>3, <1>4, ThreadsAre DEF SendIO, At, Goto, Return, Shut, count, ghosts, EnterInv,
     Setting, Fits, TypeOK
<1>12. ASSUME agent' PROVE AgentInv'
  <2>0. agent /\ AgentInv
    BY <1>1, <1>12 DEF SendIO, At, Goto, Return, Shut, count, ghosts
  <2>1. ASSUME NEW u \in Threads, Tearing(u)'
        PROVE  /\ releaseFlag' = 1 /\ io' = {} /\ sock' # "open" /\ (u = Main \/ connected')
               /\ \A v \in Threads : ~Receives(v)' /\ (Tearing(v)' => v = u)
    BY <1>1, <1>2, <1>3, <1>4, <2>0, <2>1 DEF SendIO, At, Goto, Return, Shut, count, ghosts, AgentInv,
       Tearing, Receives, Fits
  <2>2. ASSUME releaseFlag' = 0, ~connected' \/ sock' \in {"invalid", "fresh"} \/ pc'[Main] = "cinc"
        PROVE  io' = {} /\ \A u \in Threads \ {Main} : pc'[u] = "idle"
    BY <1>1, <1>2, <1>3, <1>4, <2>0, <2>2, ThreadsAre DEF SendIO, At, Goto, Return, Shut, count, ghosts,
       AgentInv, Untouched, Fits
  <2>3. /\ Setting' => sock' \in {"open", "shut"} /\ connected'
        /\ inside' => sock' \in {"open", "shut"}
        /\ sock' = "open" => connected'
        /\ \A u \in Apps : pc'[u] = "idle"
    BY <1>1, <1>2, <1>3, <1>4, <2>0, ThreadsAre DEF SendIO, At, Goto, Return, Shut, count, ghosts,
       AgentInv, Setting, Fits, Tearing
  <2> QED BY <2>1, <2>2, <2>3 DEF AgentInv, Tearing, Receives, Setting, Untouched, Threads
<1> QED BY <1>6, <1>8, <1>9, <1>10, <1>11, <1>12 DEF Whole

LEMMA RecvIncStep ==
  ASSUME ConstantsOK, Whole, NEW t \in Threads, RecvInc(t)
  PROVE  Whole'
<1>1. TypeOK /\ ThreadInv /\ Count /\ OneSend /\ OneRecv /\ EnterInv /\ (agent => AgentInv)
  BY DEF Whole
<1>2. t \in Threads /\ Fits(t, pc[t], cont[t], held[t])
  BY <1>1, ThreadsAre DEF ThreadInv
<1>3. /\ pc \in [Threads -> Labels] /\ cont \in [Threads -> Labels] /\ held \in [Threads -> 0..2]
      /\ held[t] \in 0..2
  BY <1>1, <1>2 DEF TypeOK
<1>4. \A u \in Threads \ {t} : pc'[u] = pc[u] /\ cont'[u] = cont[u] /\ held'[u] = held[u]
  BY <1>3 DEF RecvInc, At, Goto, Hold, link, queue, ghosts
<1>6. TypeOK' /\ ThreadInv'
  BY <1>1, RecvIncTyped
<1>8. Count'
  <2>1. held[t] + (1) \in 0..2 /\ Hold(t, 1) /\ UNCHANGED io
    BY <1>2, <1>3 DEF RecvInc, At, Goto, Hold, link, queue, ghosts, Fits, Base
  <2> QED BY <1>1, <1>2, <2>1, CountHold
<1>9. OneSend'
  <2>1. ASSUME NEW u \in Threads, Sends(u)' PROVE sending' /\ "send" \notin io' /\ \A v \in Threads : Sends(v)' => v = u
    BY <1>1, <1>2, <1>3, <1>4, <2>1 DEF RecvInc, At, Goto, Hold, link, queue, ghosts, OneSend, Sends, Fits
  <2>2. "send" \in io' => sending'
    BY <1>1, <1>2, <1>3 DEF RecvInc, At, Goto, Hold, link, queue, ghosts, OneSend, Sends
  <2> QED BY <2>1, <2>2 DEF OneSend, Sends, Threads
<1>10. OneRecv'
  <2>1. ASSUME NEW u \in Threads, Receives(u)' PROVE "recv" \notin io' /\ \A v \in Threads : Receives(v)' => v = u
    BY <1>1, <1>2, <1>3, <1>4, <2>1 DEF RecvInc, At, Goto, Hold, link, queue, ghosts, OneRecv, Receives, Fits
  <2>2. (\E u \in Threads : Receives(u)') \/ "recv" \in io' => links' > 0 /\ (agent' => connected')
    BY <1>1, <1>2, <1>3, <1>4, ConstantsOK DEF RecvInc, At, Goto, Hold, link, queue, ghosts, OneRecv,
       Receives, Fits, TypeOK, ConstantsOK
  <2>3. sock' = "open" => (\E u \in Threads : Receives(u)') \/ "recv" \in io'
    BY <1>1, <1>2, <1>3, <1>4 DEF RecvInc, At, Goto, Hold, link, queue, ghosts, OneRecv, Receives, Fits
  <2> QED BY <2>1, <2>2, <2>3 DEF OneRecv, Receives, Threads
<1>11. EnterInv'
  BY <1>1, <1>2, <1>3, <1>4, ThreadsAre DEF RecvInc, At, Goto, Hold, link, queue, ghosts, EnterInv,
     Setting, Fits, TypeOK
<1>12. ASSUME agent' PROVE AgentInv'
  <2>0. agent /\ AgentInv
    BY <1>1, <1>12 DEF RecvInc, At, Goto, Hold, link, queue, ghosts
  <2>1. ASSUME NEW u \in Threads, Tearing(u)'
        PROVE  /\ releaseFlag' = 1 /\ io' = {} /\ sock' # "open" /\ (u = Main \/ connected')
               /\ \A v \in Threads : ~Receives(v)' /\ (Tearing(v)' => v = u)
    BY <1>1, <1>2, <1>3, <1>4, <2>0, <2>1 DEF RecvInc, At, Goto, Hold, link, queue, ghosts, AgentInv,
       Tearing, Receives, Fits
  <2>2. ASSUME releaseFlag' = 0, ~connected' \/ sock' \in {"invalid", "fresh"} \/ pc'[Main] = "cinc"
        PROVE  io' = {} /\ \A u \in Threads \ {Main} : pc'[u] = "idle"
    BY <1>1, <1>2, <1>3, <1>4, <2>0, <2>2, ThreadsAre DEF RecvInc, At, Goto, Hold, link, queue, ghosts,
       AgentInv, Untouched, Fits
  <2>3. /\ Setting' => sock' \in {"open", "shut"} /\ connected'
        /\ inside' => sock' \in {"open", "shut"}
        /\ sock' = "open" => connected'
        /\ \A u \in Apps : pc'[u] = "idle"
    BY <1>1, <1>2, <1>3, <1>4, <2>0, ThreadsAre DEF RecvInc, At, Goto, Hold, link, queue, ghosts, AgentInv,
       Setting, Fits, Tearing
  <2> QED BY <2>1, <2>2, <2>3 DEF AgentInv, Tearing, Receives, Setting, Untouched, Threads
<1> QED BY <1>6, <1>8, <1>9, <1>10, <1>11, <1>12 DEF Whole

\* The request takes over the unit and the right to receive.
LEMMA RecvIOStep ==
  ASSUME ConstantsOK, Whole, NEW t \in Threads, RecvIO(t)
  PROVE  Whole'
<1>1. TypeOK /\ ThreadInv /\ Count /\ OneSend /\ OneRecv /\ EnterInv /\ (agent => AgentInv)
  BY DEF Whole
<1>2. t \in Threads /\ Fits(t, pc[t], cont[t], held[t])
  BY <1>1, ThreadsAre DEF ThreadInv
<1>3. /\ pc \in [Threads -> Labels] /\ cont \in [Threads -> Labels] /\ held \in [Threads -> 0..2]
      /\ held[t] \in 0..2
  BY <1>1, <1>2 DEF TypeOK
<1>4. \A u \in Threads \ {t} : pc'[u] = pc[u] /\ cont'[u] = cont[u] /\ held'[u] = held[u]
  BY <1>3 DEF RecvIO, At, Goto, Shut, AfterRecv, count, queue, ghosts
<1>6. TypeOK' /\ ThreadInv'
  BY <1>1, RecvIOTyped
<1>8. Count'
  BY <1>1, <1>2, <1>3, CountSame, CountMoves DEF RecvIO, At, Goto, Shut, AfterRecv, count, queue, ghosts,
     Fits, Base, OneSend, OneRecv, Sends, Receives
<1>9. OneSend'
  <2>1. ASSUME NEW u \in Threads, Sends(u)' PROVE sending' /\ "send" \notin io' /\ \A v \in Threads : Sends(v)' => v = u
    BY <1>1, <1>2, <1>3, <1>4, <2>1 DEF RecvIO, At, Goto, Shut, AfterRecv, count, queue, ghosts, OneSend,
       Sends, Fits
  <2>2. "send" \in io' => sending'
    BY <1>1, <1>2, <1>3 DEF RecvIO, At, Goto, Shut, AfterRecv, count, queue, ghosts, OneSend, Sends
  <2> QED BY <2>1, <2>2 DEF OneSend, Sends, Threads
<1>10. OneRecv'
  <2>1. ASSUME NEW u \in Threads, Receives(u)' PROVE "recv" \notin io' /\ \A v \in Threads : Receives(v)' => v = u
    BY <1>1, <1>2, <1>3, <1>4, <2>1 DEF RecvIO, At, Goto, Shut, AfterRecv, count, queue, ghosts, OneRecv,
       Receives, Fits
  <2>2. (\E u \in Threads : Receives(u)') \/ "recv" \in io' => links' > 0 /\ (agent' => connected')
    BY <1>1, <1>2, <1>3, <1>4, ConstantsOK DEF RecvIO, At, Goto, Shut, AfterRecv, count, queue, ghosts,
       OneRecv, Receives, Fits, TypeOK, ConstantsOK
  <2>3. sock' = "open" => (\E u \in Threads : Receives(u)') \/ "recv" \in io'
    BY <1>1, <1>2, <1>3, <1>4 DEF RecvIO, At, Goto, Shut, AfterRecv, count, queue, ghosts, OneRecv,
       Receives, Fits
  <2> QED BY <2>1, <2>2, <2>3 DEF OneRecv, Receives, Threads
<1>11. EnterInv'
  BY <1>1, <1>2, <1>3, <1>4, ThreadsAre DEF RecvIO, At, Goto, Shut, AfterRecv, count, queue, ghosts,
     EnterInv, Setting, Fits, TypeOK
<1>12. ASSUME agent' PROVE AgentInv'
  <2>0. agent /\ AgentInv
    BY <1>1, <1>12 DEF RecvIO, At, Goto, Shut, AfterRecv, count, queue, ghosts
  <2>1. ASSUME NEW u \in Threads, Tearing(u)'
        PROVE  /\ releaseFlag' = 1 /\ io' = {} /\ sock' # "open" /\ (u = Main \/ connected')
               /\ \A v \in Threads : ~Receives(v)' /\ (Tearing(v)' => v = u)
    BY <1>1, <1>2, <1>3, <1>4, <2>0, <2>1 DEF RecvIO, At, Goto, Shut, AfterRecv, count, queue, ghosts,
       AgentInv, Tearing, Receives, Fits
  <2>2. ASSUME releaseFlag' = 0, ~connected' \/ sock' \in {"invalid", "fresh"} \/ pc'[Main] = "cinc"
        PROVE  io' = {} /\ \A u \in Threads \ {Main} : pc'[u] = "idle"
    BY <1>1, <1>2, <1>3, <1>4, <2>0, <2>2, ThreadsAre DEF RecvIO, At, Goto, Shut, AfterRecv, count, queue,
       ghosts, AgentInv, Untouched, Fits
  <2>3. /\ Setting' => sock' \in {"open", "shut"} /\ connected'
        /\ inside' => sock' \in {"open", "shut"}
        /\ sock' = "open" => connected'
        /\ \A u \in Apps : pc'[u] = "idle"
    BY <1>1, <1>2, <1>3, <1>4, <2>0, ThreadsAre DEF RecvIO, At, Goto, Shut, AfterRecv, count, queue,
       ghosts, AgentInv, Setting, Fits, Tearing
  <2> QED BY <2>1, <2>2, <2>3 DEF AgentInv, Tearing, Receives, Setting, Untouched, Threads
<1> QED BY <1>6, <1>8, <1>9, <1>10, <1>11, <1>12 DEF Whole

LEMMA ProcStep ==
  ASSUME ConstantsOK, Whole, NEW t \in Threads, Proc(t)
  PROVE  Whole'
<1>1. TypeOK /\ ThreadInv /\ Count /\ OneSend /\ OneRecv /\ EnterInv /\ (agent => AgentInv)
  BY DEF Whole
<1>2. t \in Threads /\ Fits(t, pc[t], cont[t], held[t])
  BY <1>1, ThreadsAre DEF ThreadInv
<1>3. /\ pc \in [Threads -> Labels] /\ cont \in [Threads -> Labels] /\ held \in [Threads -> 0..2]
      /\ held[t] \in 0..2
  BY <1>1, <1>2 DEF TypeOK
<1>4. \A u \in Threads \ {t} : pc'[u] = pc[u] /\ cont'[u] = cont[u] /\ held'[u] = held[u]
  BY <1>3 DEF Proc, At, Goto, Enqueue, link, count, ghosts
<1>6. TypeOK' /\ ThreadInv'
  BY <1>1, ProcTyped
<1>8. Count'
  BY <1>1, CountSame DEF Proc, At, Goto, Enqueue, link, count, ghosts
<1>9. OneSend'
  <2>1. ASSUME NEW u \in Threads, Sends(u)' PROVE sending' /\ "send" \notin io' /\ \A v \in Threads : Sends(v)' => v = u
    BY <1>1, <1>2, <1>3, <1>4, <2>1 DEF Proc, At, Goto, Enqueue, link, count, ghosts, OneSend, Sends, Fits
  <2>2. "send" \in io' => sending'
    BY <1>1, <1>2, <1>3 DEF Proc, At, Goto, Enqueue, link, count, ghosts, OneSend, Sends
  <2> QED BY <2>1, <2>2 DEF OneSend, Sends, Threads
<1>10. OneRecv'
  <2>1. ASSUME NEW u \in Threads, Receives(u)' PROVE "recv" \notin io' /\ \A v \in Threads : Receives(v)' => v = u
    BY <1>1, <1>2, <1>3, <1>4, <2>1 DEF Proc, At, Goto, Enqueue, link, count, ghosts, OneRecv, Receives, Fits
  <2>2. (\E u \in Threads : Receives(u)') \/ "recv" \in io' => links' > 0 /\ (agent' => connected')
    BY <1>1, <1>2, <1>3, <1>4, ConstantsOK DEF Proc, At, Goto, Enqueue, link, count, ghosts, OneRecv,
       Receives, Fits, TypeOK, ConstantsOK
  <2>3. sock' = "open" => (\E u \in Threads : Receives(u)') \/ "recv" \in io'
    BY <1>1, <1>2, <1>3, <1>4 DEF Proc, At, Goto, Enqueue, link, count, ghosts, OneRecv, Receives, Fits
  <2> QED BY <2>1, <2>2, <2>3 DEF OneRecv, Receives, Threads
<1>11. EnterInv'
  BY <1>1, <1>2, <1>3, <1>4, ThreadsAre DEF Proc, At, Goto, Enqueue, link, count, ghosts, EnterInv,
     Setting, Fits, TypeOK
<1>12. ASSUME agent' PROVE AgentInv'
  <2>0. agent /\ AgentInv
    BY <1>1, <1>12 DEF Proc, At, Goto, Enqueue, link, count, ghosts
  <2>1. ASSUME NEW u \in Threads, Tearing(u)'
        PROVE  /\ releaseFlag' = 1 /\ io' = {} /\ sock' # "open" /\ (u = Main \/ connected')
               /\ \A v \in Threads : ~Receives(v)' /\ (Tearing(v)' => v = u)
    BY <1>1, <1>2, <1>3, <1>4, <2>0, <2>1 DEF Proc, At, Goto, Enqueue, link, count, ghosts, AgentInv,
       Tearing, Receives, Fits
  <2>2. ASSUME releaseFlag' = 0, ~connected' \/ sock' \in {"invalid", "fresh"} \/ pc'[Main] = "cinc"
        PROVE  io' = {} /\ \A u \in Threads \ {Main} : pc'[u] = "idle"
    BY <1>1, <1>2, <1>3, <1>4, <2>0, <2>2, ThreadsAre DEF Proc, At, Goto, Enqueue, link, count, ghosts,
       AgentInv, Untouched, Fits
  <2>3. /\ Setting' => sock' \in {"open", "shut"} /\ connected'
        /\ inside' => sock' \in {"open", "shut"}
        /\ sock' = "open" => connected'
        /\ \A u \in Apps : pc'[u] = "idle"
    BY <1>1, <1>2, <1>3, <1>4, <2>0, ThreadsAre DEF Proc, At, Goto, Enqueue, link, count, ghosts, AgentInv,
       Setting, Fits, Tearing
  <2> QED BY <2>1, <2>2, <2>3 DEF AgentInv, Tearing, Receives, Setting, Untouched, Threads
<1> QED BY <1>6, <1>8, <1>9, <1>10, <1>11, <1>12 DEF Whole

LEMMA SendDoneStep ==
  ASSUME ConstantsOK, Whole, NEW t \in Threads, SendDone(t)
  PROVE  Whole'
<1>1. TypeOK /\ ThreadInv /\ Count /\ OneSend /\ OneRecv /\ EnterInv /\ (agent => AgentInv)
  BY DEF Whole
<1>2. t \in Threads /\ Fits(t, pc[t], cont[t], held[t])
  BY <1>1, ThreadsAre DEF ThreadInv
<1>3. /\ pc \in [Threads -> Labels] /\ cont \in [Threads -> Labels] /\ held \in [Threads -> 0..2]
      /\ held[t] \in 0..2
  BY <1>1, <1>2 DEF TypeOK
<1>4. \A u \in Threads \ {t} : pc'[u] = pc[u] /\ cont'[u] = cont[u] /\ held'[u] = held[u]
  BY <1>3 DEF SendDone, At, Goto, link, count
<1>6. TypeOK' /\ ThreadInv'
  BY <1>1, SendDoneTyped
<1>8. Count'
  BY <1>1, CountSame DEF SendDone, At, Goto, link, count
<1>9. OneSend'
  <2>1. ASSUME NEW u \in Threads, Sends(u)' PROVE sending' /\ "send" \notin io' /\ \A v \in Threads : Sends(v)' => v = u
    BY <1>1, <1>2, <1>3, <1>4, <2>1 DEF SendDone, At, Goto, link, count, OneSend, Sends, Fits
  <2>2. "send" \in io' => sending'
    BY <1>1, <1>2, <1>3 DEF SendDone, At, Goto, link, count, OneSend, Sends
  <2> QED BY <2>1, <2>2 DEF OneSend, Sends, Threads
<1>10. OneRecv'
  <2>1. ASSUME NEW u \in Threads, Receives(u)' PROVE "recv" \notin io' /\ \A v \in Threads : Receives(v)' => v = u
    BY <1>1, <1>2, <1>3, <1>4, <2>1 DEF SendDone, At, Goto, link, count, OneRecv, Receives, Fits
  <2>2. (\E u \in Threads : Receives(u)') \/ "recv" \in io' => links' > 0 /\ (agent' => connected')
    BY <1>1, <1>2, <1>3, <1>4, ConstantsOK DEF SendDone, At, Goto, link, count, OneRecv, Receives, Fits,
       TypeOK, ConstantsOK
  <2>3. sock' = "open" => (\E u \in Threads : Receives(u)') \/ "recv" \in io'
    BY <1>1, <1>2, <1>3, <1>4 DEF SendDone, At, Goto, link, count, OneRecv, Receives, Fits
  <2> QED BY <2>1, <2>2, <2>3 DEF OneRecv, Receives, Threads
<1>11. EnterInv'
  BY <1>1, <1>2, <1>3, <1>4, ThreadsAre DEF SendDone, At, Goto, link, count, EnterInv, Setting, Fits, TypeOK
<1>12. ASSUME agent' PROVE AgentInv'
  <2>0. agent /\ AgentInv
    BY <1>1, <1>12 DEF SendDone, At, Goto, link, count
  <2>1. ASSUME NEW u \in Threads, Tearing(u)'
        PROVE  /\ releaseFlag' = 1 /\ io' = {} /\ sock' # "open" /\ (u = Main \/ connected')
               /\ \A v \in Threads : ~Receives(v)' /\ (Tearing(v)' => v = u)
    BY <1>1, <1>2, <1>3, <1>4, <2>0, <2>1 DEF SendDone, At, Goto, link, count, AgentInv, Tearing, Receives,
       Fits
  <2>2. ASSUME releaseFlag' = 0, ~connected' \/ sock' \in {"invalid", "fresh"} \/ pc'[Main] = "cinc"
        PROVE  io' = {} /\ \A u \in Threads \ {Main} : pc'[u] = "idle"
    BY <1>1, <1>2, <1>3, <1>4, <2>0, <2>2, ThreadsAre DEF SendDone, At, Goto, link, count, AgentInv,
       Untouched, Fits
  <2>3. /\ Setting' => sock' \in {"open", "shut"} /\ connected'
        /\ inside' => sock' \in {"open", "shut"}
        /\ sock' = "open" => connected'
        /\ \A u \in Apps : pc'[u] = "idle"
    BY <1>1, <1>2, <1>3, <1>4, <2>0, ThreadsAre DEF SendDone, At, Goto, link, count, AgentInv, Setting,
       Fits, Tearing
  <2> QED BY <2>1, <2>2, <2>3 DEF AgentInv, Tearing, Receives, Setting, Untouched, Threads
<1> QED BY <1>6, <1>8, <1>9, <1>10, <1>11, <1>12 DEF Whole

\* The right to send is given up, and SendPost asks for it again.
LEMMA SendResetStep ==
  ASSUME ConstantsOK, Whole, NEW t \in Threads, SendReset(t)
  PROVE  Whole'
<1>1. TypeOK /\ ThreadInv /\ Count /\ OneSend /\ OneRecv /\ EnterInv /\ (agent => AgentInv)
  BY DEF Whole
<1>2. t \in Threads /\ Fits(t, pc[t], cont[t], held[t])
  BY <1>1, ThreadsAre DEF ThreadInv
<1>3. /\ pc \in [Threads -> Labels] /\ cont \in [Threads -> Labels] /\ held \in [Threads -> 0..2]
      /\ held[t] \in 0..2
  BY <1>1, <1>2 DEF TypeOK
<1>4. \A u \in Threads \ {t} : pc'[u] = pc[u] /\ cont'[u] = cont[u] /\ held'[u] = held[u]
  BY <1>3 DEF SendReset, At, Goto, link, count, ghosts
<1>6. TypeOK' /\ ThreadInv'
  BY <1>1, SendResetTyped
<1>8. Count'
  BY <1>1, CountSame DEF SendReset, At, Goto, link, count, ghosts
<1>9. OneSend'
  <2>1. ASSUME NEW u \in Threads, Sends(u)' PROVE sending' /\ "send" \notin io' /\ \A v \in Threads : Sends(v)' => v = u
    BY <1>1, <1>2, <1>3, <1>4, <2>1 DEF SendReset, At, Goto, link, count, ghosts, OneSend, Sends, Fits
  <2>2. "send" \in io' => sending'
    BY <1>1, <1>2, <1>3 DEF SendReset, At, Goto, link, count, ghosts, OneSend, Sends
  <2> QED BY <2>1, <2>2 DEF OneSend, Sends, Threads
<1>10. OneRecv'
  <2>1. ASSUME NEW u \in Threads, Receives(u)' PROVE "recv" \notin io' /\ \A v \in Threads : Receives(v)' => v = u
    BY <1>1, <1>2, <1>3, <1>4, <2>1 DEF SendReset, At, Goto, link, count, ghosts, OneRecv, Receives, Fits
  <2>2. (\E u \in Threads : Receives(u)') \/ "recv" \in io' => links' > 0 /\ (agent' => connected')
    BY <1>1, <1>2, <1>3, <1>4, ConstantsOK DEF SendReset, At, Goto, link, count, ghosts, OneRecv, Receives,
       Fits, TypeOK, ConstantsOK
  <2>3. sock' = "open" => (\E u \in Threads : Receives(u)') \/ "recv" \in io'
    BY <1>1, <1>2, <1>3, <1>4 DEF SendReset, At, Goto, link, count, ghosts, OneRecv, Receives, Fits
  <2> QED BY <2>1, <2>2, <2>3 DEF OneRecv, Receives, Threads
<1>11. EnterInv'
  BY <1>1, <1>2, <1>3, <1>4, ThreadsAre DEF SendReset, At, Goto, link, count, ghosts, EnterInv, Setting,
     Fits, TypeOK
<1>12. ASSUME agent' PROVE AgentInv'
  <2>0. agent /\ AgentInv
    BY <1>1, <1>12 DEF SendReset, At, Goto, link, count, ghosts
  <2>1. ASSUME NEW u \in Threads, Tearing(u)'
        PROVE  /\ releaseFlag' = 1 /\ io' = {} /\ sock' # "open" /\ (u = Main \/ connected')
               /\ \A v \in Threads : ~Receives(v)' /\ (Tearing(v)' => v = u)
    BY <1>1, <1>2, <1>3, <1>4, <2>0, <2>1 DEF SendReset, At, Goto, link, count, ghosts, AgentInv, Tearing,
       Receives, Fits
  <2>2. ASSUME releaseFlag' = 0, ~connected' \/ sock' \in {"invalid", "fresh"} \/ pc'[Main] = "cinc"
        PROVE  io' = {} /\ \A u \in Threads \ {Main} : pc'[u] = "idle"
    BY <1>1, <1>2, <1>3, <1>4, <2>0, <2>2, ThreadsAre DEF SendReset, At, Goto, link, count, ghosts,
       AgentInv, Untouched, Fits
  <2>3. /\ Setting' => sock' \in {"open", "shut"} /\ connected'
        /\ inside' => sock' \in {"open", "shut"}
        /\ sock' = "open" => connected'
        /\ \A u \in Apps : pc'[u] = "idle"
    BY <1>1, <1>2, <1>3, <1>4, <2>0, ThreadsAre DEF SendReset, At, Goto, link, count, ghosts, AgentInv,
       Setting, Fits, Tearing
  <2> QED BY <2>1, <2>2, <2>3 DEF AgentInv, Tearing, Receives, Setting, Untouched, Threads
<1> QED BY <1>6, <1>8, <1>9, <1>10, <1>11, <1>12 DEF Whole

\* The unit given up is one the thread holds, so IOCount stays a natural number.
LEMMA DropStep ==
  ASSUME ConstantsOK, Whole, NEW t \in Threads, Drop(t)
  PROVE  Whole'
<1>1. TypeOK /\ ThreadInv /\ Count /\ OneSend /\ OneRecv /\ EnterInv /\ (agent => AgentInv)
  BY DEF Whole
<1>2. t \in Threads /\ Fits(t, pc[t], cont[t], held[t])
  BY <1>1, ThreadsAre DEF ThreadInv
<1>3. /\ pc \in [Threads -> Labels] /\ cont \in [Threads -> Labels] /\ held \in [Threads -> 0..2]
      /\ held[t] \in 0..2
  BY <1>1, <1>2 DEF TypeOK
<1>4. \A u \in Threads \ {t} : pc'[u] = pc[u] /\ cont'[u] = cont[u] /\ held'[u] = held[u]
  BY <1>3 DEF Drop, At, Goto, Return, Hold, link, queue, ghosts
<1>6. TypeOK' /\ ThreadInv'
  BY <1>1, DropTyped
<1>8. Count'
  <2>1. held[t] + (-1) \in 0..2 /\ Hold(t, -1) /\ UNCHANGED io
    BY <1>2, <1>3 DEF Drop, At, Goto, Return, Hold, link, queue, ghosts, Fits, Base
  <2> QED BY <1>1, <1>2, <2>1, CountHold
<1>9. OneSend'
  <2>1. ASSUME NEW u \in Threads, Sends(u)' PROVE sending' /\ "send" \notin io' /\ \A v \in Threads : Sends(v)' => v = u
    BY <1>1, <1>2, <1>3, <1>4, <2>1 DEF Drop, At, Goto, Return, Hold, link, queue, ghosts, OneSend, Sends,
       Fits
  <2>2. "send" \in io' => sending'
    BY <1>1, <1>2, <1>3 DEF Drop, At, Goto, Return, Hold, link, queue, ghosts, OneSend, Sends
  <2> QED BY <2>1, <2>2 DEF OneSend, Sends, Threads
<1>10. OneRecv'
  <2>1. ASSUME NEW u \in Threads, Receives(u)' PROVE "recv" \notin io' /\ \A v \in Threads : Receives(v)' => v = u
    BY <1>1, <1>2, <1>3, <1>4, <2>1 DEF Drop, At, Goto, Return, Hold, link, queue, ghosts, OneRecv,
       Receives, Fits
  <2>2. (\E u \in Threads : Receives(u)') \/ "recv" \in io' => links' > 0 /\ (agent' => connected')
    BY <1>1, <1>2, <1>3, <1>4, ConstantsOK DEF Drop, At, Goto, Return, Hold, link, queue, ghosts, OneRecv,
       Receives, Fits, TypeOK, ConstantsOK
  <2>3. sock' = "open" => (\E u \in Threads : Receives(u)') \/ "recv" \in io'
    BY <1>1, <1>2, <1>3, <1>4 DEF Drop, At, Goto, Return, Hold, link, queue, ghosts, OneRecv, Receives, Fits
  <2> QED BY <2>1, <2>2, <2>3 DEF OneRecv, Receives, Threads
<1>11. EnterInv'
  BY <1>1, <1>2, <1>3, <1>4, ThreadsAre DEF Drop, At, Goto, Return, Hold, link, queue, ghosts, EnterInv,
     Setting, Fits, TypeOK
<1>12. ASSUME agent' PROVE AgentInv'
  <2>0. agent /\ AgentInv
    BY <1>1, <1>12 DEF Drop, At, Goto, Return, Hold, link, queue, ghosts
  <2>1. ASSUME NEW u \in Threads, Tearing(u)'
        PROVE  /\ releaseFlag' = 1 /\ io' = {} /\ sock' # "open" /\ (u = Main \/ connected')
               /\ \A v \in Threads : ~Receives(v)' /\ (Tearing(v)' => v = u)
    BY <1>1, <1>2, <1>3, <1>4, <2>0, <2>1 DEF Drop, At, Goto, Return, Hold, link, queue, ghosts, AgentInv,
       Tearing, Receives, Fits
  <2>2. ASSUME releaseFlag' = 0, ~connected' \/ sock' \in {"invalid", "fresh"} \/ pc'[Main] = "cinc"
        PROVE  io' = {} /\ \A u \in Threads \ {Main} : pc'[u] = "idle"
    BY <1>1, <1>2, <1>3, <1>4, <2>0, <2>2, ThreadsAre DEF Drop, At, Goto, Return, Hold, link, queue,
       ghosts, AgentInv, Untouched, Fits
  <2>3. /\ Setting' => sock' \in {"open", "shut"} /\ connected'
        /\ inside' => sock' \in {"open", "shut"}
        /\ sock' = "open" => connected'
        /\ \A u \in Apps : pc'[u] = "idle"
    BY <1>1, <1>2, <1>3, <1>4, <2>0, ThreadsAre DEF Drop, At, Goto, Return, Hold, link, queue, ghosts,
       AgentInv, Setting, Fits, Tearing
  <2> QED BY <2>1, <2>2, <2>3 DEF AgentInv, Tearing, Receives, Setting, Untouched, Threads
<1> QED BY <1>6, <1>8, <1>9, <1>10, <1>11, <1>12 DEF Whole

\* IOCount is 0: nothing is pending, and who would receive holds no unit, so it is Main before
\* it took its own. The flag is 0 then only if no other thread runs.
LEMMA ReleaseStep ==
  ASSUME ConstantsOK, Whole, NEW t \in Threads, Release(t)
  PROVE  Whole'
<1>1. TypeOK /\ ThreadInv /\ Count /\ OneSend /\ OneRecv /\ EnterInv /\ (agent => AgentInv)
  BY DEF Whole
<1>2. t \in Threads /\ Fits(t, pc[t], cont[t], held[t])
  BY <1>1, ThreadsAre DEF ThreadInv
<1>3. /\ pc \in [Threads -> Labels] /\ cont \in [Threads -> Labels] /\ held \in [Threads -> 0..2]
      /\ held[t] \in 0..2
  BY <1>1, <1>2 DEF TypeOK
<1>4. \A u \in Threads \ {t} : pc'[u] = pc[u] /\ cont'[u] = cont[u] /\ held'[u] = held[u]
  BY <1>3 DEF Release, At, Goto, Return, link, queue, ghosts
<1>6. TypeOK' /\ ThreadInv'
  BY <1>1, ReleaseTyped
<1>8. Count'
  BY <1>1, CountSame DEF Release, At, Goto, Return, link, queue, ghosts
<1>9. OneSend'
  <2>1. ASSUME NEW u \in Threads, Sends(u)' PROVE sending' /\ "send" \notin io' /\ \A v \in Threads : Sends(v)' => v = u
    BY <1>1, <1>2, <1>3, <1>4, <2>1 DEF Release, At, Goto, Return, link, queue, ghosts, OneSend, Sends, Fits
  <2>2. "send" \in io' => sending'
    BY <1>1, <1>2, <1>3 DEF Release, At, Goto, Return, link, queue, ghosts, OneSend, Sends
  <2> QED BY <2>1, <2>2 DEF OneSend, Sends, Threads
<1>10. OneRecv'
  <2>1. ASSUME NEW u \in Threads, Receives(u)' PROVE "recv" \notin io' /\ \A v \in Threads : Receives(v)' => v = u
    BY <1>1, <1>2, <1>3, <1>4, <2>1 DEF Release, At, Goto, Return, link, queue, ghosts, OneRecv, Receives,
       Fits
  <2>2. (\E u \in Threads : Receives(u)') \/ "recv" \in io' => links' > 0 /\ (agent' => connected')
    BY <1>1, <1>2, <1>3, <1>4, ConstantsOK DEF Release, At, Goto, Return, link, queue, ghosts, OneRecv,
       Receives, Fits, TypeOK, ConstantsOK
  <2>3. sock' = "open" => (\E u \in Threads : Receives(u)') \/ "recv" \in io'
    BY <1>1, <1>2, <1>3, <1>4 DEF Release, At, Goto, Return, link, queue, ghosts, OneRecv, Receives, Fits
  <2> QED BY <2>1, <2>2, <2>3 DEF OneRecv, Receives, Threads
<1>11. EnterInv'
  BY <1>1, <1>2, <1>3, <1>4, ThreadsAre DEF Release, At, Goto, Return, link, queue, ghosts, EnterInv,
     Setting, Fits, TypeOK
<1>12. ASSUME agent' PROVE AgentInv'
  <2>0. agent /\ AgentInv
    BY <1>1, <1>12 DEF Release, At, Goto, Return, link, queue, ghosts
  <2>1. ASSUME NEW u \in Threads, Tearing(u)'
        PROVE  /\ releaseFlag' = 1 /\ io' = {} /\ sock' # "open" /\ (u = Main \/ connected')
               /\ \A v \in Threads : ~Receives(v)' /\ (Tearing(v)' => v = u)
    <3>1. CASE ioCount = 0 /\ releaseFlag = 0
      <4>1. io = {} /\ \A v \in Threads : held[v] = 0
        BY <1>1, <3>1, CountZero
      <4>2. pc[t] = "release" /\ pc'[t] = "drain" /\ cont' = cont /\ releaseFlag' = 1
        BY <1>2, <1>3, <3>1 DEF Release, At, Goto, Return, link, queue, ghosts
      <4>3. t # Main => ~Untouched
        BY <1>2, <4>2 DEF Untouched
      <4>4. \A v \in Threads : ~Receives(v)
        <5> SUFFICES ASSUME NEW v \in Threads, Receives(v) PROVE FALSE
          OBVIOUS
        <5>1. Fits(v, pc[v], cont[v], 0) /\ pc[v] \in Labels
          BY <1>1, <1>3, <4>1 DEF ThreadInv
        <5>2. v = Main /\ pc[Main] = "cinc"
          BY <5>1 DEF Receives, Fits, Labels, Base
        <5> QED BY <2>0, <3>1, <4>2, <4>3, <5>2 DEF AgentInv
      <4>5. \A v \in Threads : ~Receives(v)'
        BY <1>4, <4>2, <4>4 DEF Receives
      <4>6. sock # "open"
        BY <1>1, <4>1, <4>4 DEF OneRecv
      <4>7. t = Main \/ connected
        BY <2>0, <3>1, <4>3 DEF AgentInv
      <4>8. \A v \in Threads : Tearing(v)' => v = t
        BY <1>4, <2>0, <3>1 DEF AgentInv, Tearing
      <4>9. u = t /\ sock' = sock /\ connected' = connected /\ io' = io
        BY <2>1, <4>8 DEF Release, At, Goto, Return, link, queue, ghosts
      <4> QED BY <4>1, <4>2, <4>5, <4>6, <4>7, <4>8, <4>9
    <3>2. CASE ~(ioCount = 0 /\ releaseFlag = 0)
      BY <1>1, <1>2, <1>3, <1>4, <2>0, <2>1, <3>2 DEF Release, At, Goto, Return, link, queue, ghosts,
         AgentInv, Tearing, Receives, Fits
    <3> QED BY <3>1, <3>2
  <2>2. ASSUME releaseFlag' = 0, ~connected' \/ sock' \in {"invalid", "fresh"} \/ pc'[Main] = "cinc"
        PROVE  io' = {} /\ \A u \in Threads \ {Main} : pc'[u] = "idle"
    BY <1>1, <1>2, <1>3, <1>4, <2>0, <2>2, ThreadsAre DEF Release, At, Goto, Return, link, queue, ghosts,
       AgentInv, Untouched, Fits
  <2>3. /\ Setting' => sock' \in {"open", "shut"} /\ connected'
        /\ inside' => sock' \in {"open", "shut"}
        /\ sock' = "open" => connected'
        /\ \A u \in Apps : pc'[u] = "idle"
    BY <1>1, <1>2, <1>3, <1>4, <2>0, ThreadsAre DEF Release, At, Goto, Return, link, queue, ghosts,
       AgentInv, Setting, Fits, Tearing
  <2> QED BY <2>1, <2>2, <2>3 DEF AgentInv, Tearing, Receives, Setting, Untouched, Threads
<1> QED BY <1>6, <1>8, <1>9, <1>10, <1>11, <1>12 DEF Whole

LEMMA DrainStep ==
  ASSUME ConstantsOK, Whole, NEW t \in Threads, Drain(t)
  PROVE  Whole'
<1>1. TypeOK /\ ThreadInv /\ Count /\ OneSend /\ OneRecv /\ EnterInv /\ (agent => AgentInv)
  BY DEF Whole
<1>2. t \in Threads /\ Fits(t, pc[t], cont[t], held[t])
  BY <1>1, ThreadsAre DEF ThreadInv
<1>3. /\ pc \in [Threads -> Labels] /\ cont \in [Threads -> Labels] /\ held \in [Threads -> 0..2]
      /\ held[t] \in 0..2
  BY <1>1, <1>2 DEF TypeOK
<1>4. \A u \in Threads \ {t} : pc'[u] = pc[u] /\ cont'[u] = cont[u] /\ held'[u] = held[u]
  BY <1>3 DEF Drain, At, Goto, link, count, ghosts
<1>6. TypeOK' /\ ThreadInv'
  BY <1>1, DrainTyped
<1>8. Count'
  BY <1>1, CountSame DEF Drain, At, Goto, link, count, ghosts
<1>9. OneSend'
  <2>1. ASSUME NEW u \in Threads, Sends(u)' PROVE sending' /\ "send" \notin io' /\ \A v \in Threads : Sends(v)' => v = u
    BY <1>1, <1>2, <1>3, <1>4, <2>1 DEF Drain, At, Goto, link, count, ghosts, OneSend, Sends, Fits
  <2>2. "send" \in io' => sending'
    BY <1>1, <1>2, <1>3 DEF Drain, At, Goto, link, count, ghosts, OneSend, Sends
  <2> QED BY <2>1, <2>2 DEF OneSend, Sends, Threads
<1>10. OneRecv'
  <2>1. ASSUME NEW u \in Threads, Receives(u)' PROVE "recv" \notin io' /\ \A v \in Threads : Receives(v)' => v = u
    BY <1>1, <1>2, <1>3, <1>4, <2>1 DEF Drain, At, Goto, link, count, ghosts, OneRecv, Receives, Fits
  <2>2. (\E u \in Threads : Receives(u)') \/ "recv" \in io' => links' > 0 /\ (agent' => connected')
    BY <1>1, <1>2, <1>3, <1>4, ConstantsOK DEF Drain, At, Goto, link, count, ghosts, OneRecv, Receives,
       Fits, TypeOK, ConstantsOK
  <2>3. sock' = "open" => (\E u \in Threads : Receives(u)') \/ "recv" \in io'
    BY <1>1, <1>2, <1>3, <1>4 DEF Drain, At, Goto, link, count, ghosts, OneRecv, Receives, Fits
  <2> QED BY <2>1, <2>2, <2>3 DEF OneRecv, Receives, Threads
<1>11. EnterInv'
  BY <1>1, <1>2, <1>3, <1>4, ThreadsAre DEF Drain, At, Goto, link, count, ghosts, EnterInv, Setting, Fits,
     TypeOK
<1>12. ASSUME agent' PROVE AgentInv'
  <2>0. agent /\ AgentInv
    BY <1>1, <1>12 DEF Drain, At, Goto, link, count, ghosts
  <2>1. ASSUME NEW u \in Threads, Tearing(u)'
        PROVE  /\ releaseFlag' = 1 /\ io' = {} /\ sock' # "open" /\ (u = Main \/ connected')
               /\ \A v \in Threads : ~Receives(v)' /\ (Tearing(v)' => v = u)
    BY <1>1, <1>2, <1>3, <1>4, <2>0, <2>1 DEF Drain, At, Goto, link, count, ghosts, AgentInv, Tearing,
       Receives, Fits
  <2>2. ASSUME releaseFlag' = 0, ~connected' \/ sock' \in {"invalid", "fresh"} \/ pc'[Main] = "cinc"
        PROVE  io' = {} /\ \A u \in Threads \ {Main} : pc'[u] = "idle"
    BY <1>1, <1>2, <1>3, <1>4, <2>0, <2>2, ThreadsAre DEF Drain, At, Goto, link, count, ghosts, AgentInv,
       Untouched, Fits
  <2>3. /\ Setting' => sock' \in {"open", "shut"} /\ connected'
        /\ inside' => sock' \in {"open", "shut"}
        /\ sock' = "open" => connected'
        /\ \A u \in Apps : pc'[u] = "idle"
    BY <1>1, <1>2, <1>3, <1>4, <2>0, ThreadsAre DEF Drain, At, Goto, link, count, ghosts, AgentInv,
       Setting, Fits, Tearing
  <2> QED BY <2>1, <2>2, <2>3 DEF AgentInv, Tearing, Receives, Setting, Untouched, Threads
<1> QED BY <1>6, <1>8, <1>9, <1>10, <1>11, <1>12 DEF Whole

\* The thread that tears down may set the socket: no thread is setting up a connection.
LEMMA CloseStep ==
  ASSUME ConstantsOK, Whole, NEW t \in Threads, Close(t)
  PROVE  Whole'
<1>1. TypeOK /\ ThreadInv /\ Count /\ OneSend /\ OneRecv /\ EnterInv /\ (agent => AgentInv)
  BY DEF Whole
<1>2. t \in Threads /\ Fits(t, pc[t], cont[t], held[t])
  BY <1>1, ThreadsAre DEF ThreadInv
<1>3. /\ pc \in [Threads -> Labels] /\ cont \in [Threads -> Labels] /\ held \in [Threads -> 0..2]
      /\ held[t] \in 0..2
  BY <1>1, <1>2 DEF TypeOK
<1>4. \A u \in Threads \ {t} : pc'[u] = pc[u] /\ cont'[u] = cont[u] /\ held'[u] = held[u]
  BY <1>3 DEF Close, At, Goto, count, queue
<1>6. TypeOK' /\ ThreadInv'
  BY <1>1, CloseTyped
<1>8. Count'
  BY <1>1, CountSame DEF Close, At, Goto, count, queue
<1>9. OneSend'
  <2>1. ASSUME NEW u \in Threads, Sends(u)' PROVE sending' /\ "send" \notin io' /\ \A v \in Threads : Sends(v)' => v = u
    BY <1>1, <1>2, <1>3, <1>4, <2>1 DEF Close, At, Goto, count, queue, OneSend, Sends, Fits
  <2>2. "send" \in io' => sending'
    BY <1>1, <1>2, <1>3 DEF Close, At, Goto, count, queue, OneSend, Sends
  <2> QED BY <2>1, <2>2 DEF OneSend, Sends, Threads
<1>10. OneRecv'
  <2>1. ASSUME NEW u \in Threads, Receives(u)' PROVE "recv" \notin io' /\ \A v \in Threads : Receives(v)' => v = u
    BY <1>1, <1>2, <1>3, <1>4, <2>1 DEF Close, At, Goto, count, queue, OneRecv, Receives, Fits
  <2>2. (\E u \in Threads : Receives(u)') \/ "recv" \in io' => links' > 0 /\ (agent' => connected')
    BY <1>1, <1>2, <1>3, <1>4, ConstantsOK DEF Close, At, Goto, count, queue, OneRecv, Receives, Fits,
       TypeOK, ConstantsOK
  <2>3. sock' = "open" => (\E u \in Threads : Receives(u)') \/ "recv" \in io'
    BY <1>1, <1>2, <1>3, <1>4 DEF Close, At, Goto, count, queue, OneRecv, Receives, Fits
  <2> QED BY <2>1, <2>2, <2>3 DEF OneRecv, Receives, Threads
<1>11. EnterInv'
  BY <1>1, <1>2, <1>3, <1>4, ThreadsAre DEF Close, At, Goto, count, queue, EnterInv, Setting, Fits, TypeOK
<1>12. ASSUME agent' PROVE AgentInv'
  <2>0. agent /\ AgentInv
    BY <1>1, <1>12 DEF Close, At, Goto, count, queue
  <2>1. ASSUME NEW u \in Threads, Tearing(u)'
        PROVE  /\ releaseFlag' = 1 /\ io' = {} /\ sock' # "open" /\ (u = Main \/ connected')
               /\ \A v \in Threads : ~Receives(v)' /\ (Tearing(v)' => v = u)
    BY <1>1, <1>2, <1>3, <1>4, <2>0, <2>1 DEF Close, At, Goto, count, queue, AgentInv, Tearing, Receives, Fits
  <2>2. ASSUME releaseFlag' = 0, ~connected' \/ sock' \in {"invalid", "fresh"} \/ pc'[Main] = "cinc"
        PROVE  io' = {} /\ \A u \in Threads \ {Main} : pc'[u] = "idle"
    BY <1>1, <1>2, <1>3, <1>4, <2>0, <2>2, ThreadsAre DEF Close, At, Goto, count, queue, AgentInv, Tearing
  <2>3. /\ Setting' => sock' \in {"open", "shut"} /\ connected'
        /\ inside' => sock' \in {"open", "shut"}
        /\ sock' = "open" => connected'
        /\ \A u \in Apps : pc'[u] = "idle"
    BY <1>1, <1>2, <1>3, <1>4, <2>0, ThreadsAre DEF Close, At, Goto, count, queue, AgentInv, Setting,
       Tearing, Receives, Fits
  <2> QED BY <2>1, <2>2, <2>3 DEF AgentInv, Tearing, Receives, Setting, Untouched, Threads
<1> QED BY <1>6, <1>8, <1>9, <1>10, <1>11, <1>12 DEF Whole

\* After this step Connect may begin again: the teardown is over.
LEMMA UnsetStep ==
  ASSUME ConstantsOK, Whole, NEW t \in Threads, Unset(t)
  PROVE  Whole'
<1>1. TypeOK /\ ThreadInv /\ Count /\ OneSend /\ OneRecv /\ EnterInv /\ (agent => AgentInv)
  BY DEF Whole
<1>2. t \in Threads /\ Fits(t, pc[t], cont[t], held[t])
  BY <1>1, ThreadsAre DEF ThreadInv
<1>3. /\ pc \in [Threads -> Labels] /\ cont \in [Threads -> Labels] /\ held \in [Threads -> 0..2]
      /\ held[t] \in 0..2
  BY <1>1, <1>2 DEF TypeOK
<1>4. \A u \in Threads \ {t} : pc'[u] = pc[u] /\ cont'[u] = cont[u] /\ held'[u] = held[u]
  BY <1>3 DEF Unset, At, Goto, Return, count, queue, ghosts
<1>6. TypeOK' /\ ThreadInv'
  BY <1>1, UnsetTyped
<1>8. Count'
  BY <1>1, CountSame DEF Unset, At, Goto, Return, count, queue, ghosts
<1>9. OneSend'
  <2>1. ASSUME NEW u \in Threads, Sends(u)' PROVE sending' /\ "send" \notin io' /\ \A v \in Threads : Sends(v)' => v = u
    BY <1>1, <1>2, <1>3, <1>4, <2>1 DEF Unset, At, Goto, Return, count, queue, ghosts, OneSend, Sends, Fits
  <2>2. "send" \in io' => sending'
    BY <1>1, <1>2, <1>3 DEF Unset, At, Goto, Return, count, queue, ghosts, OneSend, Sends
  <2> QED BY <2>1, <2>2 DEF OneSend, Sends, Threads
<1>10. OneRecv'
  <2>1. ASSUME NEW u \in Threads, Receives(u)' PROVE "recv" \notin io' /\ \A v \in Threads : Receives(v)' => v = u
    BY <1>1, <1>2, <1>3, <1>4, <2>1 DEF Unset, At, Goto, Return, count, queue, ghosts, OneRecv, Receives, Fits
  <2>2. (\E u \in Threads : Receives(u)') \/ "recv" \in io' => links' > 0 /\ (agent' => connected')
    BY <1>1, <1>2, <1>3, <1>4, ConstantsOK DEF Unset, At, Goto, Return, count, queue, ghosts, OneRecv,
       Receives, Fits, AgentInv, Tearing
  <2>3. sock' = "open" => (\E u \in Threads : Receives(u)') \/ "recv" \in io'
    BY <1>1, <1>2, <1>3, <1>4 DEF Unset, At, Goto, Return, count, queue, ghosts, OneRecv, Receives, Fits
  <2> QED BY <2>1, <2>2, <2>3 DEF OneRecv, Receives, Threads
<1>11. EnterInv'
  BY <1>1, <1>2, <1>3, <1>4, ThreadsAre DEF Unset, At, Goto, Return, count, queue, ghosts, EnterInv,
     Setting, Fits, TypeOK
<1>12. ASSUME agent' PROVE AgentInv'
  <2>0. agent /\ AgentInv
    BY <1>1, <1>12 DEF Unset, At, Goto, Return, count, queue, ghosts
  <2>1. ASSUME NEW u \in Threads, Tearing(u)'
        PROVE  /\ releaseFlag' = 1 /\ io' = {} /\ sock' # "open" /\ (u = Main \/ connected')
               /\ \A v \in Threads : ~Receives(v)' /\ (Tearing(v)' => v = u)
    BY <1>1, <1>2, <1>3, <1>4, <2>0, <2>1 DEF Unset, At, Goto, Return, count, queue, ghosts, AgentInv,
       Tearing, Receives, Fits
  <2>2. ASSUME releaseFlag' = 0, ~connected' \/ sock' \in {"invalid", "fresh"} \/ pc'[Main] = "cinc"
        PROVE  io' = {} /\ \A u \in Threads \ {Main} : pc'[u] = "idle"
    BY <1>1, <1>2, <1>3, <1>4, <2>0, <2>2, ThreadsAre DEF Unset, At, Goto, Return, count, queue, ghosts,
       AgentInv, Tearing
  <2>3. /\ Setting' => sock' \in {"open", "shut"} /\ connected'
        /\ inside' => sock' \in {"open", "shut"}
        /\ sock' = "open" => connected'
        /\ \A u \in Apps : pc'[u] = "idle"
    BY <1>1, <1>2, <1>3, <1>4, <2>0, ThreadsAre DEF Unset, At, Goto, Return, count, queue, ghosts,
       AgentInv, Setting, Tearing, Receives, Fits
  <2> QED BY <2>1, <2>2, <2>3 DEF AgentInv, Tearing, Receives, Setting, Untouched, Threads
<1> QED BY <1>6, <1>8, <1>9, <1>10, <1>11, <1>12 DEF Whole

LEMMA AppSendStep ==
  ASSUME ConstantsOK, Whole, NEW t \in Apps, AppSend(t)
  PROVE  Whole'
<1>1. TypeOK /\ ThreadInv /\ Count /\ OneSend /\ OneRecv /\ EnterInv /\ (agent => AgentInv)
  BY DEF Whole
<1>2. t \in Threads /\ Fits(t, pc[t], cont[t], held[t])
  BY <1>1, ThreadsAre DEF ThreadInv
<1>3. /\ pc \in [Threads -> Labels] /\ cont \in [Threads -> Labels] /\ held \in [Threads -> 0..2]
      /\ held[t] \in 0..2
  BY <1>1, <1>2 DEF TypeOK
<1>4. \A u \in Threads \ {t} : pc'[u] = pc[u] /\ cont'[u] = cont[u] /\ held'[u] = held[u]
  BY <1>3 DEF AppSend, At, Goto, Enqueue, link, count, ghosts
<1>6. TypeOK' /\ ThreadInv'
  BY <1>1, AppSendTyped
<1>8. Count'
  BY <1>1, CountSame DEF AppSend, At, Goto, Enqueue, link, count, ghosts
<1>9. OneSend'
  <2>1. ASSUME NEW u \in Threads, Sends(u)' PROVE sending' /\ "send" \notin io' /\ \A v \in Threads : Sends(v)' => v = u
    BY <1>1, <1>2, <1>3, <1>4, <2>1 DEF AppSend, At, Goto, Enqueue, link, count, ghosts, OneSend, Sends, Fits
  <2>2. "send" \in io' => sending'
    BY <1>1, <1>2, <1>3 DEF AppSend, At, Goto, Enqueue, link, count, ghosts, OneSend, Sends
  <2> QED BY <2>1, <2>2 DEF OneSend, Sends, Threads
<1>10. OneRecv'
  <2>1. ASSUME NEW u \in Threads, Receives(u)' PROVE "recv" \notin io' /\ \A v \in Threads : Receives(v)' => v = u
    BY <1>1, <1>2, <1>3, <1>4, <2>1 DEF AppSend, At, Goto, Enqueue, link, count, ghosts, OneRecv, Receives,
       Fits
  <2>2. (\E u \in Threads : Receives(u)') \/ "recv" \in io' => links' > 0 /\ (agent' => connected')
    BY <1>1, <1>2, <1>3, <1>4, ConstantsOK DEF AppSend, At, Goto, Enqueue, link, count, ghosts, OneRecv,
       Receives, Fits, TypeOK, ConstantsOK
  <2>3. sock' = "open" => (\E u \in Threads : Receives(u)') \/ "recv" \in io'
    BY <1>1, <1>2, <1>3, <1>4 DEF AppSend, At, Goto, Enqueue, link, count, ghosts, OneRecv, Receives, Fits
  <2> QED BY <2>1, <2>2, <2>3 DEF OneRecv, Receives, Threads
<1>11. EnterInv'
  BY <1>1, <1>2, <1>3, <1>4, ThreadsAre DEF AppSend, At, Goto, Enqueue, link, count, ghosts, EnterInv,
     Setting, Fits, TypeOK
<1>12. ASSUME agent' PROVE AgentInv'
  <2>0. agent /\ AgentInv
    BY <1>1, <1>12 DEF AppSend, At, Goto, Enqueue, link, count, ghosts
  <2>1. ASSUME NEW u \in Threads, Tearing(u)'
        PROVE  /\ releaseFlag' = 1 /\ io' = {} /\ sock' # "open" /\ (u = Main \/ connected')
               /\ \A v \in Threads : ~Receives(v)' /\ (Tearing(v)' => v = u)
    BY <1>1, <1>2, <1>3, <1>4, <2>0, <2>1 DEF AppSend, At, Goto, Enqueue, link, count, ghosts, AgentInv,
       Tearing, Receives, Fits
  <2>2. ASSUME releaseFlag' = 0, ~connected' \/ sock' \in {"invalid", "fresh"} \/ pc'[Main] = "cinc"
        PROVE  io' = {} /\ \A u \in Threads \ {Main} : pc'[u] = "idle"
    BY <1>1, <1>2, <1>3, <1>4, <2>0, <2>2, ThreadsAre DEF AppSend, At, Goto, Enqueue, link, count, ghosts,
       AgentInv, Untouched, Fits
  <2>3. /\ Setting' => sock' \in {"open", "shut"} /\ connected'
        /\ inside' => sock' \in {"open", "shut"}
        /\ sock' = "open" => connected'
        /\ \A u \in Apps : pc'[u] = "idle"
    BY <1>1, <1>2, <1>3, <1>4, <2>0, ThreadsAre DEF AppSend, At, Goto, Enqueue, link, count, ghosts,
       AgentInv, Setting, Fits, Tearing
  <2> QED BY <2>1, <2>2, <2>3 DEF AgentInv, Tearing, Receives, Setting, Untouched, Threads
<1> QED BY <1>6, <1>8, <1>9, <1>10, <1>11, <1>12 DEF Whole

LEMMA NotNowStep ==
  ASSUME ConstantsOK, Whole, NotNow
  PROVE  Whole'
<1>1. TypeOK /\ ThreadInv /\ Count /\ OneSend /\ OneRecv /\ EnterInv /\ (agent => AgentInv)
  BY DEF Whole
<1>2. Main \in Threads /\ Fits(Main, pc[Main], cont[Main], held[Main])
  BY <1>1, ThreadsAre DEF ThreadInv
<1>3. /\ pc \in [Threads -> Labels] /\ cont \in [Threads -> Labels] /\ held \in [Threads -> 0..2]
      /\ held[Main] \in 0..2
  BY <1>1, <1>2 DEF TypeOK
<1>4. \A u \in Threads \ {Main} : pc'[u] = pc[u] /\ cont'[u] = cont[u] /\ held'[u] = held[u]
  BY <1>3 DEF NotNow, At, Goto, count, queue, ghosts
<1>6. TypeOK' /\ ThreadInv'
  BY <1>1, NotNowTyped
<1>8. Count'
  BY <1>1, CountSame DEF NotNow, At, Goto, count, queue, ghosts
<1>9. OneSend'
  <2>1. ASSUME NEW u \in Threads, Sends(u)' PROVE sending' /\ "send" \notin io' /\ \A v \in Threads : Sends(v)' => v = u
    BY <1>1, <1>2, <1>3, <1>4, <2>1 DEF NotNow, At, Goto, count, queue, ghosts, OneSend, Sends, Fits
  <2>2. "send" \in io' => sending'
    BY <1>1, <1>2, <1>3 DEF NotNow, At, Goto, count, queue, ghosts, OneSend, Sends
  <2> QED BY <2>1, <2>2 DEF OneSend, Sends, Threads
<1>10. OneRecv'
  <2>1. ASSUME NEW u \in Threads, Receives(u)' PROVE "recv" \notin io' /\ \A v \in Threads : Receives(v)' => v = u
    BY <1>1, <1>2, <1>3, <1>4, <2>1 DEF NotNow, At, Goto, count, queue, ghosts, OneRecv, Receives, Fits
  <2>2. (\E u \in Threads : Receives(u)') \/ "recv" \in io' => links' > 0 /\ (agent' => connected')
    BY <1>1, <1>2, <1>3, <1>4, ConstantsOK DEF NotNow, At, Goto, count, queue, ghosts, OneRecv, Receives,
       Fits, TypeOK, ConstantsOK
  <2>3. sock' = "open" => (\E u \in Threads : Receives(u)') \/ "recv" \in io'
    BY <1>1, <1>2, <1>3, <1>4 DEF NotNow, At, Goto, count, queue, ghosts, OneRecv, Receives, Fits
  <2> QED BY <2>1, <2>2, <2>3 DEF OneRecv, Receives, Threads
<1>11. EnterInv'
  BY <1>1, <1>2, <1>3, <1>4, ThreadsAre DEF NotNow, At, Goto, count, queue, ghosts, EnterInv, Setting,
     Fits, TypeOK
<1>12. ASSUME agent' PROVE AgentInv'
  <2>0. agent /\ AgentInv
    BY <1>1, <1>12 DEF NotNow, At, Goto, count, queue, ghosts
  <2>1. ASSUME NEW u \in Threads, Tearing(u)'
        PROVE  /\ releaseFlag' = 1 /\ io' = {} /\ sock' # "open" /\ (u = Main \/ connected')
               /\ \A v \in Threads : ~Receives(v)' /\ (Tearing(v)' => v = u)
    BY <1>1, <1>2, <1>3, <1>4, <2>0, <2>1 DEF NotNow, At, Goto, count, queue, ghosts, AgentInv, Tearing,
       Receives, Fits
  <2>2. ASSUME releaseFlag' = 0, ~connected' \/ sock' \in {"invalid", "fresh"} \/ pc'[Main] = "cinc"
        PROVE  io' = {} /\ \A u \in Threads \ {Main} : pc'[u] = "idle"
    BY <1>1, <1>2, <1>3, <1>4, <2>0, <2>2, ThreadsAre DEF NotNow, At, Goto, count, queue, ghosts, AgentInv,
       Untouched, Fits
  <2>3. /\ Setting' => sock' \in {"open", "shut"} /\ connected'
        /\ inside' => sock' \in {"open", "shut"}
        /\ sock' = "open" => connected'
        /\ \A u \in Apps : pc'[u] = "idle"
    BY <1>1, <1>2, <1>3, <1>4, <2>0, ThreadsAre DEF NotNow, At, Goto, count, queue, ghosts, AgentInv,
       Setting, Fits, Tearing
  <2> QED BY <2>1, <2>2, <2>3 DEF AgentInv, Tearing, Receives, Setting, Untouched, Threads
<1> QED BY <1>6, <1>8, <1>9, <1>10, <1>11, <1>12 DEF Whole

\* A new connection begins when nobody receives and nobody tears down.
LEMMA ConnectStep ==
  ASSUME ConstantsOK, Whole, Connect
  PROVE  Whole'
<1>1. TypeOK /\ ThreadInv /\ Count /\ OneSend /\ OneRecv /\ EnterInv /\ (agent => AgentInv)
  BY DEF Whole
<1>2. Main \in Threads /\ Fits(Main, pc[Main], cont[Main], held[Main])
  BY <1>1, ThreadsAre DEF ThreadInv
<1>3. /\ pc \in [Threads -> Labels] /\ cont \in [Threads -> Labels] /\ held \in [Threads -> 0..2]
      /\ held[Main] \in 0..2
  BY <1>1, <1>2 DEF TypeOK
<1>4. \A u \in Threads \ {Main} : pc'[u] = pc[u] /\ cont'[u] = cont[u] /\ held'[u] = held[u]
  BY <1>3 DEF Connect, At, Goto, count, queue
<1>6. TypeOK' /\ ThreadInv'
  BY <1>1, ConnectTyped
<1>8. Count'
  BY <1>1, CountSame DEF Connect, At, Goto, count, queue
<1>9. OneSend'
  <2>1. ASSUME NEW u \in Threads, Sends(u)' PROVE sending' /\ "send" \notin io' /\ \A v \in Threads : Sends(v)' => v = u
    BY <1>1, <1>2, <1>3, <1>4, <2>1 DEF Connect, At, Goto, count, queue, OneSend, Sends, Fits
  <2>2. "send" \in io' => sending'
    BY <1>1, <1>2, <1>3 DEF Connect, At, Goto, count, queue, OneSend, Sends
  <2> QED BY <2>1, <2>2 DEF OneSend, Sends, Threads
<1>10. OneRecv'
  <2>1. ASSUME NEW u \in Threads, Receives(u)' PROVE "recv" \notin io' /\ \A v \in Threads : Receives(v)' => v = u
    BY <1>1, <1>2, <1>3, <1>4, <2>1 DEF Connect, At, Goto, count, queue, OneRecv, Receives, Fits
  <2>2. (\E u \in Threads : Receives(u)') \/ "recv" \in io' => links' > 0 /\ (agent' => connected')
    BY <1>1, <1>2, <1>3, <1>4, ConstantsOK DEF Connect, At, Goto, count, queue, OneRecv, Receives, Fits,
       TypeOK, ConstantsOK
  <2>3. sock' = "open" => (\E u \in Threads : Receives(u)') \/ "recv" \in io'
    BY <1>1, <1>2, <1>3, <1>4 DEF Connect, At, Goto, count, queue, OneRecv, Receives, Fits
  <2> QED BY <2>1, <2>2, <2>3 DEF OneRecv, Receives, Threads
<1>11. EnterInv'
  BY <1>1, <1>2, <1>3, <1>4, ThreadsAre, ConstantsOK DEF Connect, At, Goto, count, queue, EnterInv,
     Setting, Fits, TypeOK, ConstantsOK, AgentInv
<1>12. ASSUME agent' PROVE AgentInv'
  <2>0. agent /\ AgentInv
    BY <1>1, <1>12 DEF Connect, At, Goto, count, queue
  <2>1. ASSUME NEW u \in Threads, Tearing(u)'
        PROVE  /\ releaseFlag' = 1 /\ io' = {} /\ sock' # "open" /\ (u = Main \/ connected')
               /\ \A v \in Threads : ~Receives(v)' /\ (Tearing(v)' => v = u)
    BY <1>1, <1>2, <1>3, <1>4, <2>0, <2>1 DEF Connect, At, Goto, count, queue, AgentInv, Tearing, Receives,
       Fits
  <2>2. ASSUME releaseFlag' = 0, ~connected' \/ sock' \in {"invalid", "fresh"} \/ pc'[Main] = "cinc"
        PROVE  io' = {} /\ \A u \in Threads \ {Main} : pc'[u] = "idle"
    BY <1>1, <1>2, <1>3, <1>4, <2>0, <2>2, ThreadsAre DEF Connect, At, Goto, count, queue, AgentInv,
       Untouched, Fits
  <2>3. /\ Setting' => sock' \in {"open", "shut"} /\ connected'
        /\ inside' => sock' \in {"open", "shut"}
        /\ sock' = "open" => connected'
        /\ \A u \in Apps : pc'[u] = "idle"
    BY <1>1, <1>2, <1>3, <1>4, <2>0, ThreadsAre DEF Connect, At, Goto, count, queue, AgentInv, Setting,
       Fits, Tearing
  <2> QED BY <2>1, <2>2, <2>3 DEF AgentInv, Tearing, Receives, Setting, Untouched, Threads
<1> QED BY <1>6, <1>8, <1>9, <1>10, <1>11, <1>12 DEF Whole

LEMMA ConnectIncStep ==
  ASSUME ConstantsOK, Whole, ConnectInc
  PROVE  Whole'
<1>1. TypeOK /\ ThreadInv /\ Count /\ OneSend /\ OneRecv /\ EnterInv /\ (agent => AgentInv)
  BY DEF Whole
<1>2. Main \in Threads /\ Fits(Main, pc[Main], cont[Main], held[Main])
  BY <1>1, ThreadsAre DEF ThreadInv
<1>3. /\ pc \in [Threads -> Labels] /\ cont \in [Threads -> Labels] /\ held \in [Threads -> 0..2]
      /\ held[Main] \in 0..2
  BY <1>1, <1>2 DEF TypeOK
<1>4. \A u \in Threads \ {Main} : pc'[u] = pc[u] /\ cont'[u] = cont[u] /\ held'[u] = held[u]
  BY <1>3 DEF ConnectInc, At, Goto, Hold, link, queue, ghosts
<1>6. TypeOK' /\ ThreadInv'
  BY <1>1, ConnectIncTyped
<1>8. Count'
  <2>1. held[Main] + (1) \in 0..2 /\ Hold(Main, 1) /\ UNCHANGED io
    BY <1>2, <1>3 DEF ConnectInc, At, Goto, Hold, link, queue, ghosts, Fits, Base
  <2> QED BY <1>1, <1>2, <2>1, CountHold
<1>9. OneSend'
  <2>1. ASSUME NEW u \in Threads, Sends(u)' PROVE sending' /\ "send" \notin io' /\ \A v \in Threads : Sends(v)' => v = u
    BY <1>1, <1>2, <1>3, <1>4, <2>1 DEF ConnectInc, At, Goto, Hold, link, queue, ghosts, OneSend, Sends, Fits
  <2>2. "send" \in io' => sending'
    BY <1>1, <1>2, <1>3 DEF ConnectInc, At, Goto, Hold, link, queue, ghosts, OneSend, Sends
  <2> QED BY <2>1, <2>2 DEF OneSend, Sends, Threads
<1>10. OneRecv'
  <2>1. ASSUME NEW u \in Threads, Receives(u)' PROVE "recv" \notin io' /\ \A v \in Threads : Receives(v)' => v = u
    BY <1>1, <1>2, <1>3, <1>4, <2>1 DEF ConnectInc, At, Goto, Hold, link, queue, ghosts, OneRecv, Receives,
       Fits
  <2>2. (\E u \in Threads : Receives(u)') \/ "recv" \in io' => links' > 0 /\ (agent' => connected')
    BY <1>1, <1>2, <1>3, <1>4, ConstantsOK DEF ConnectInc, At, Goto, Hold, link, queue, ghosts, OneRecv,
       Receives, Fits, TypeOK, ConstantsOK
  <2>3. sock' = "open" => (\E u \in Threads : Receives(u)') \/ "recv" \in io'
    BY <1>1, <1>2, <1>3, <1>4 DEF ConnectInc, At, Goto, Hold, link, queue, ghosts, OneRecv, Receives, Fits
  <2> QED BY <2>1, <2>2, <2>3 DEF OneRecv, Receives, Threads
<1>11. EnterInv'
  BY <1>1, <1>2, <1>3, <1>4, ThreadsAre DEF ConnectInc, At, Goto, Hold, link, queue, ghosts, EnterInv,
     Setting, Fits, TypeOK
<1>12. ASSUME agent' PROVE AgentInv'
  <2>0. agent /\ AgentInv
    BY <1>1, <1>12 DEF ConnectInc, At, Goto, Hold, link, queue, ghosts
  <2>1. ASSUME NEW u \in Threads, Tearing(u)'
        PROVE  /\ releaseFlag' = 1 /\ io' = {} /\ sock' # "open" /\ (u = Main \/ connected')
               /\ \A v \in Threads : ~Receives(v)' /\ (Tearing(v)' => v = u)
    BY <1>1, <1>2, <1>3, <1>4, <2>0, <2>1 DEF ConnectInc, At, Goto, Hold, link, queue, ghosts, AgentInv,
       Tearing, Receives, Fits
  <2>2. ASSUME releaseFlag' = 0, ~connected' \/ sock' \in {"invalid", "fresh"} \/ pc'[Main] = "cinc"
        PROVE  io' = {} /\ \A u \in Threads \ {Main} : pc'[u] = "idle"
    BY <1>1, <1>2, <1>3, <1>4, <2>0, <2>2, ThreadsAre DEF ConnectInc, At, Goto, Hold, link, queue, ghosts,
       AgentInv, Untouched, Fits
  <2>3. /\ Setting' => sock' \in {"open", "shut"} /\ connected'
        /\ inside' => sock' \in {"open", "shut"}
        /\ sock' = "open" => connected'
        /\ \A u \in Apps : pc'[u] = "idle"
    BY <1>1, <1>2, <1>3, <1>4, <2>0, ThreadsAre DEF ConnectInc, At, Goto, Hold, link, queue, ghosts,
       AgentInv, Setting, Fits, Tearing
  <2> QED BY <2>1, <2>2, <2>3 DEF AgentInv, Tearing, Receives, Setting, Untouched, Threads
<1> QED BY <1>6, <1>8, <1>9, <1>10, <1>11, <1>12 DEF Whole

\* The flag is reset when the socket is no longer the old one, and Main holds a unit.
LEMMA ConnectFlagStep ==
  ASSUME ConstantsOK, Whole, ConnectFlag
  PROVE  Whole'
<1>1. TypeOK /\ ThreadInv /\ Count /\ OneSend /\ OneRecv /\ EnterInv /\ (agent => AgentInv)
  BY DEF Whole
<1>2. Main \in Threads /\ Fits(Main, pc[Main], cont[Main], held[Main])
  BY <1>1, ThreadsAre DEF ThreadInv
<1>3. /\ pc \in [Threads -> Labels] /\ cont \in [Threads -> Labels] /\ held \in [Threads -> 0..2]
      /\ held[Main] \in 0..2
  BY <1>1, <1>2 DEF TypeOK
<1>4. \A u \in Threads \ {Main} : pc'[u] = pc[u] /\ cont'[u] = cont[u] /\ held'[u] = held[u]
  BY <1>3 DEF ConnectFlag, At, Goto, link, queue, ghosts
<1>6. TypeOK' /\ ThreadInv'
  BY <1>1, ConnectFlagTyped
<1>8. Count'
  BY <1>1, CountSame DEF ConnectFlag, At, Goto, link, queue, ghosts
<1>9. OneSend'
  <2>1. ASSUME NEW u \in Threads, Sends(u)' PROVE sending' /\ "send" \notin io' /\ \A v \in Threads : Sends(v)' => v = u
    BY <1>1, <1>2, <1>3, <1>4, <2>1 DEF ConnectFlag, At, Goto, link, queue, ghosts, OneSend, Sends, Fits
  <2>2. "send" \in io' => sending'
    BY <1>1, <1>2, <1>3 DEF ConnectFlag, At, Goto, link, queue, ghosts, OneSend, Sends
  <2> QED BY <2>1, <2>2 DEF OneSend, Sends, Threads
<1>10. OneRecv'
  <2>1. ASSUME NEW u \in Threads, Receives(u)' PROVE "recv" \notin io' /\ \A v \in Threads : Receives(v)' => v = u
    BY <1>1, <1>2, <1>3, <1>4, <2>1 DEF ConnectFlag, At, Goto, link, queue, ghosts, OneRecv, Receives, Fits
  <2>2. (\E u \in Threads : Receives(u)') \/ "recv" \in io' => links' > 0 /\ (agent' => connected')
    BY <1>1, <1>2, <1>3, <1>4, ConstantsOK DEF ConnectFlag, At, Goto, link, queue, ghosts, OneRecv,
       Receives, Fits, TypeOK, ConstantsOK
  <2>3. sock' = "open" => (\E u \in Threads : Receives(u)') \/ "recv" \in io'
    BY <1>1, <1>2, <1>3, <1>4 DEF ConnectFlag, At, Goto, link, queue, ghosts, OneRecv, Receives, Fits
  <2> QED BY <2>1, <2>2, <2>3 DEF OneRecv, Receives, Threads
<1>11. EnterInv'
  BY <1>1, <1>2, <1>3, <1>4, ThreadsAre DEF ConnectFlag, At, Goto, link, queue, ghosts, EnterInv, Setting,
     Fits, TypeOK
<1>12. ASSUME agent' PROVE AgentInv'
  <2>0. agent /\ AgentInv
    BY <1>1, <1>12 DEF ConnectFlag, At, Goto, link, queue, ghosts
  <2>1. ASSUME NEW u \in Threads, Tearing(u)'
        PROVE  /\ releaseFlag' = 1 /\ io' = {} /\ sock' # "open" /\ (u = Main \/ connected')
               /\ \A v \in Threads : ~Receives(v)' /\ (Tearing(v)' => v = u)
    BY <1>1, <1>2, <1>3, <1>4, <2>0, <2>1 DEF ConnectFlag, At, Goto, link, queue, ghosts, AgentInv,
       Tearing, Receives, Fits
  <2>2. ASSUME releaseFlag' = 0, ~connected' \/ sock' \in {"invalid", "fresh"} \/ pc'[Main] = "cinc"
        PROVE  io' = {} /\ \A u \in Threads \ {Main} : pc'[u] = "idle"
    BY <1>1, <1>2, <1>3, <1>4, <2>0, <2>2, ThreadsAre DEF ConnectFlag, At, Goto, link, queue, ghosts,
       AgentInv, Untouched, Setting
  <2>3. /\ Setting' => sock' \in {"open", "shut"} /\ connected'
        /\ inside' => sock' \in {"open", "shut"}
        /\ sock' = "open" => connected'
        /\ \A u \in Apps : pc'[u] = "idle"
    BY <1>1, <1>2, <1>3, <1>4, <2>0, ThreadsAre DEF ConnectFlag, At, Goto, link, queue, ghosts, AgentInv,
       Setting, Fits, Tearing
  <2> QED BY <2>1, <2>2, <2>3 DEF AgentInv, Tearing, Receives, Setting, Untouched, Threads
<1> QED BY <1>6, <1>8, <1>9, <1>10, <1>11, <1>12 DEF Whole

\* The content is told; Setting is over.
LEMMA EnterStep ==
  ASSUME ConstantsOK, Whole, Enter
  PROVE  Whole'
<1>1. TypeOK /\ ThreadInv /\ Count /\ OneSend /\ OneRecv /\ EnterInv /\ (agent => AgentInv)
  BY DEF Whole
<1>2. Main \in Threads /\ Fits(Main, pc[Main], cont[Main], held[Main])
  BY <1>1, ThreadsAre DEF ThreadInv
<1>3. /\ pc \in [Threads -> Labels] /\ cont \in [Threads -> Labels] /\ held \in [Threads -> 0..2]
      /\ held[Main] \in 0..2
  BY <1>1, <1>2 DEF TypeOK
<1>4. \A u \in Threads \ {Main} : pc'[u] = pc[u] /\ cont'[u] = cont[u] /\ held'[u] = held[u]
  BY <1>3 DEF Enter, At, Goto, Enqueue, link, count
<1>6. TypeOK' /\ ThreadInv'
  BY <1>1, EnterTyped
<1>8. Count'
  BY <1>1, CountSame DEF Enter, At, Goto, Enqueue, link, count
<1>9. OneSend'
  <2>1. ASSUME NEW u \in Threads, Sends(u)' PROVE sending' /\ "send" \notin io' /\ \A v \in Threads : Sends(v)' => v = u
    BY <1>1, <1>2, <1>3, <1>4, <2>1 DEF Enter, At, Goto, Enqueue, link, count, OneSend, Sends, Fits
  <2>2. "send" \in io' => sending'
    BY <1>1, <1>2, <1>3 DEF Enter, At, Goto, Enqueue, link, count, OneSend, Sends
  <2> QED BY <2>1, <2>2 DEF OneSend, Sends, Threads
<1>10. OneRecv'
  <2>1. ASSUME NEW u \in Threads, Receives(u)' PROVE "recv" \notin io' /\ \A v \in Threads : Receives(v)' => v = u
    BY <1>1, <1>2, <1>3, <1>4, <2>1 DEF Enter, At, Goto, Enqueue, link, count, OneRecv, Receives, Fits
  <2>2. (\E u \in Threads : Receives(u)') \/ "recv" \in io' => links' > 0 /\ (agent' => connected')
    BY <1>1, <1>2, <1>3, <1>4, ConstantsOK DEF Enter, At, Goto, Enqueue, link, count, OneRecv, Receives,
       Fits, TypeOK, ConstantsOK
  <2>3. sock' = "open" => (\E u \in Threads : Receives(u)') \/ "recv" \in io'
    BY <1>1, <1>2, <1>3, <1>4 DEF Enter, At, Goto, Enqueue, link, count, OneRecv, Receives, Fits
  <2> QED BY <2>1, <2>2, <2>3 DEF OneRecv, Receives, Threads
<1>11. EnterInv'
  BY <1>1, <1>2, <1>3, <1>4, ThreadsAre, ConstantsOK DEF Enter, At, Goto, Enqueue, link, count, EnterInv,
     Setting, Fits, TypeOK, ConstantsOK, OneRecv, Receives
<1>12. ASSUME agent' PROVE AgentInv'
  <2>0. agent /\ AgentInv
    BY <1>1, <1>12 DEF Enter, At, Goto, Enqueue, link, count
  <2>1. ASSUME NEW u \in Threads, Tearing(u)'
        PROVE  /\ releaseFlag' = 1 /\ io' = {} /\ sock' # "open" /\ (u = Main \/ connected')
               /\ \A v \in Threads : ~Receives(v)' /\ (Tearing(v)' => v = u)
    BY <1>1, <1>2, <1>3, <1>4, <2>0, <2>1 DEF Enter, At, Goto, Enqueue, link, count, AgentInv, Tearing,
       Receives, Fits
  <2>2. ASSUME releaseFlag' = 0, ~connected' \/ sock' \in {"invalid", "fresh"} \/ pc'[Main] = "cinc"
        PROVE  io' = {} /\ \A u \in Threads \ {Main} : pc'[u] = "idle"
    BY <1>1, <1>2, <1>3, <1>4, <2>0, <2>2, ThreadsAre DEF Enter, At, Goto, Enqueue, link, count, AgentInv,
       Untouched, Fits
  <2>3. /\ Setting' => sock' \in {"open", "shut"} /\ connected'
        /\ inside' => sock' \in {"open", "shut"}
        /\ sock' = "open" => connected'
        /\ \A u \in Apps : pc'[u] = "idle"
    BY <1>1, <1>2, <1>3, <1>4, <2>0, ThreadsAre DEF Enter, At, Goto, Enqueue, link, count, AgentInv,
       Setting, Fits, Tearing
  <2> QED BY <2>1, <2>2, <2>3 DEF AgentInv, Tearing, Receives, Setting, Untouched, Threads
<1> QED BY <1>6, <1>8, <1>9, <1>10, <1>11, <1>12 DEF Whole

LEMMA ReportStep ==
  ASSUME ConstantsOK, Whole, Report
  PROVE  Whole'
<1>1. TypeOK /\ ThreadInv /\ Count /\ OneSend /\ OneRecv /\ EnterInv /\ (agent => AgentInv)
  BY DEF Whole
<1>2. Main \in Threads /\ Fits(Main, pc[Main], cont[Main], held[Main])
  BY <1>1, ThreadsAre DEF ThreadInv
<1>3. /\ pc \in [Threads -> Labels] /\ cont \in [Threads -> Labels] /\ held \in [Threads -> 0..2]
      /\ held[Main] \in 0..2
  BY <1>1, <1>2 DEF TypeOK
<1>4. \A u \in Threads \ {Main} : pc'[u] = pc[u] /\ cont'[u] = cont[u] /\ held'[u] = held[u]
  BY <1>3 DEF Report, At, Goto, Enqueue, link, count, ghosts
<1>6. TypeOK' /\ ThreadInv'
  BY <1>1, ReportTyped
<1>8. Count'
  BY <1>1, CountSame DEF Report, At, Goto, Enqueue, link, count, ghosts
<1>9. OneSend'
  <2>1. ASSUME NEW u \in Threads, Sends(u)' PROVE sending' /\ "send" \notin io' /\ \A v \in Threads : Sends(v)' => v = u
    BY <1>1, <1>2, <1>3, <1>4, <2>1 DEF Report, At, Goto, Enqueue, link, count, ghosts, OneSend, Sends, Fits
  <2>2. "send" \in io' => sending'
    BY <1>1, <1>2, <1>3 DEF Report, At, Goto, Enqueue, link, count, ghosts, OneSend, Sends
  <2> QED BY <2>1, <2>2 DEF OneSend, Sends, Threads
<1>10. OneRecv'
  <2>1. ASSUME NEW u \in Threads, Receives(u)' PROVE "recv" \notin io' /\ \A v \in Threads : Receives(v)' => v = u
    BY <1>1, <1>2, <1>3, <1>4, <2>1 DEF Report, At, Goto, Enqueue, link, count, ghosts, OneRecv, Receives,
       Fits
  <2>2. (\E u \in Threads : Receives(u)') \/ "recv" \in io' => links' > 0 /\ (agent' => connected')
    BY <1>1, <1>2, <1>3, <1>4, ConstantsOK DEF Report, At, Goto, Enqueue, link, count, ghosts, OneRecv,
       Receives, Fits, TypeOK, ConstantsOK
  <2>3. sock' = "open" => (\E u \in Threads : Receives(u)') \/ "recv" \in io'
    BY <1>1, <1>2, <1>3, <1>4 DEF Report, At, Goto, Enqueue, link, count, ghosts, OneRecv, Receives, Fits
  <2> QED BY <2>1, <2>2, <2>3 DEF OneRecv, Receives, Threads
<1>11. EnterInv'
  BY <1>1, <1>2, <1>3, <1>4, ThreadsAre DEF Report, At, Goto, Enqueue, link, count, ghosts, EnterInv,
     Setting, Fits, TypeOK
<1>12. ASSUME agent' PROVE AgentInv'
  <2>0. agent /\ AgentInv
    BY <1>1, <1>12 DEF Report, At, Goto, Enqueue, link, count, ghosts
  <2>1. ASSUME NEW u \in Threads, Tearing(u)'
        PROVE  /\ releaseFlag' = 1 /\ io' = {} /\ sock' # "open" /\ (u = Main \/ connected')
               /\ \A v \in Threads : ~Receives(v)' /\ (Tearing(v)' => v = u)
    BY <1>1, <1>2, <1>3, <1>4, <2>0, <2>1 DEF Report, At, Goto, Enqueue, link, count, ghosts, AgentInv,
       Tearing, Receives, Fits
  <2>2. ASSUME releaseFlag' = 0, ~connected' \/ sock' \in {"invalid", "fresh"} \/ pc'[Main] = "cinc"
        PROVE  io' = {} /\ \A u \in Threads \ {Main} : pc'[u] = "idle"
    BY <1>1, <1>2, <1>3, <1>4, <2>0, <2>2, ThreadsAre DEF Report, At, Goto, Enqueue, link, count, ghosts,
       AgentInv, Untouched, Fits
  <2>3. /\ Setting' => sock' \in {"open", "shut"} /\ connected'
        /\ inside' => sock' \in {"open", "shut"}
        /\ sock' = "open" => connected'
        /\ \A u \in Apps : pc'[u] = "idle"
    BY <1>1, <1>2, <1>3, <1>4, <2>0, ThreadsAre DEF Report, At, Goto, Enqueue, link, count, ghosts,
       AgentInv, Setting, Fits, Tearing
  <2> QED BY <2>1, <2>2, <2>3 DEF AgentInv, Tearing, Receives, Setting, Untouched, Threads
<1> QED BY <1>6, <1>8, <1>9, <1>10, <1>11, <1>12 DEF Whole

LEMMA PeerClosesStep ==
  ASSUME ConstantsOK, Whole, PeerCloses
  PROVE  Whole'
<1>1. TypeOK /\ ThreadInv /\ Count /\ OneSend /\ OneRecv /\ EnterInv /\ (agent => AgentInv)
  BY DEF Whole
<1>2. Main \in Threads /\ Fits(Main, pc[Main], cont[Main], held[Main])
  BY <1>1, ThreadsAre DEF ThreadInv
<1>3. /\ pc \in [Threads -> Labels] /\ cont \in [Threads -> Labels] /\ held \in [Threads -> 0..2]
      /\ held[Main] \in 0..2
  BY <1>1, <1>2 DEF TypeOK
<1>4. \A u \in Threads \ {Main} : pc'[u] = pc[u] /\ cont'[u] = cont[u] /\ held'[u] = held[u]
  BY <1>3 DEF PeerCloses, Shut, count, queue, threads, ghosts
<1>6. TypeOK' /\ ThreadInv'
  BY <1>1, PeerClosesTyped
<1>8. Count'
  BY <1>1, CountSame DEF PeerCloses, Shut, count, queue, threads, ghosts
<1>9. OneSend'
  <2>1. ASSUME NEW u \in Threads, Sends(u)' PROVE sending' /\ "send" \notin io' /\ \A v \in Threads : Sends(v)' => v = u
    BY <1>1, <1>2, <1>3, <1>4, <2>1 DEF PeerCloses, Shut, count, queue, threads, ghosts, OneSend, Sends, Fits
  <2>2. "send" \in io' => sending'
    BY <1>1, <1>2, <1>3 DEF PeerCloses, Shut, count, queue, threads, ghosts, OneSend, Sends
  <2> QED BY <2>1, <2>2 DEF OneSend, Sends, Threads
<1>10. OneRecv'
  <2>1. ASSUME NEW u \in Threads, Receives(u)' PROVE "recv" \notin io' /\ \A v \in Threads : Receives(v)' => v = u
    BY <1>1, <1>2, <1>3, <1>4, <2>1 DEF PeerCloses, Shut, count, queue, threads, ghosts, OneRecv, Receives,
       Fits
  <2>2. (\E u \in Threads : Receives(u)') \/ "recv" \in io' => links' > 0 /\ (agent' => connected')
    BY <1>1, <1>2, <1>3, <1>4, ConstantsOK DEF PeerCloses, Shut, count, queue, threads, ghosts, OneRecv,
       Receives, Fits, TypeOK, ConstantsOK
  <2>3. sock' = "open" => (\E u \in Threads : Receives(u)') \/ "recv" \in io'
    BY <1>1, <1>2, <1>3, <1>4 DEF PeerCloses, Shut, count, queue, threads, ghosts, OneRecv, Receives, Fits
  <2> QED BY <2>1, <2>2, <2>3 DEF OneRecv, Receives, Threads
<1>11. EnterInv'
  BY <1>1, <1>2, <1>3, <1>4, ThreadsAre DEF PeerCloses, Shut, count, queue, threads, ghosts, EnterInv,
     Setting, Fits, TypeOK
<1>12. ASSUME agent' PROVE AgentInv'
  <2>0. agent /\ AgentInv
    BY <1>1, <1>12 DEF PeerCloses, Shut, count, queue, threads, ghosts
  <2>1. ASSUME NEW u \in Threads, Tearing(u)'
        PROVE  /\ releaseFlag' = 1 /\ io' = {} /\ sock' # "open" /\ (u = Main \/ connected')
               /\ \A v \in Threads : ~Receives(v)' /\ (Tearing(v)' => v = u)
    BY <1>1, <1>2, <1>3, <1>4, <2>0, <2>1 DEF PeerCloses, Shut, count, queue, threads, ghosts, AgentInv,
       Tearing, Receives, Fits
  <2>2. ASSUME releaseFlag' = 0, ~connected' \/ sock' \in {"invalid", "fresh"} \/ pc'[Main] = "cinc"
        PROVE  io' = {} /\ \A u \in Threads \ {Main} : pc'[u] = "idle"
    BY <1>1, <1>2, <1>3, <1>4, <2>0, <2>2, ThreadsAre DEF PeerCloses, Shut, count, queue, threads, ghosts,
       AgentInv, Untouched, Fits
  <2>3. /\ Setting' => sock' \in {"open", "shut"} /\ connected'
        /\ inside' => sock' \in {"open", "shut"}
        /\ sock' = "open" => connected'
        /\ \A u \in Apps : pc'[u] = "idle"
    BY <1>1, <1>2, <1>3, <1>4, <2>0, ThreadsAre DEF PeerCloses, Shut, count, queue, threads, ghosts,
       AgentInv, Setting, Fits, Tearing
  <2> QED BY <2>1, <2>2, <2>3 DEF AgentInv, Tearing, Receives, Setting, Untouched, Threads
<1> QED BY <1>6, <1>8, <1>9, <1>10, <1>11, <1>12 DEF Whole

\* A worker takes both back from the request.
LEMMA CompleteStep ==
  ASSUME ConstantsOK, Whole, NEW t \in Workers, NEW k \in {"recv", "send"}, Complete(t, k)
  PROVE  Whole'
<1>1. TypeOK /\ ThreadInv /\ Count /\ OneSend /\ OneRecv /\ EnterInv /\ (agent => AgentInv)
  BY DEF Whole
<1>2. t \in Threads /\ Fits(t, pc[t], cont[t], held[t])
  BY <1>1, ThreadsAre DEF ThreadInv
<1>3. /\ pc \in [Threads -> Labels] /\ cont \in [Threads -> Labels] /\ held \in [Threads -> 0..2]
      /\ held[t] \in 0..2
  BY <1>1, <1>2 DEF TypeOK
<1>4. \A u \in Threads \ {t} : pc'[u] = pc[u] /\ cont'[u] = cont[u] /\ held'[u] = held[u]
  BY <1>3 DEF Complete, At, Goto, Shut, count, queue, ghosts
<1>6. TypeOK' /\ ThreadInv'
  BY <1>1, CompleteTyped
<1>8. Count'
  BY <1>1, <1>2, <1>3, CountSame, CountMoves DEF Complete, At, Goto, Shut, count, queue, ghosts, Fits,
     Base, OneSend, OneRecv, Sends, Receives
<1>9. OneSend'
  <2>1. ASSUME NEW u \in Threads, Sends(u)' PROVE sending' /\ "send" \notin io' /\ \A v \in Threads : Sends(v)' => v = u
    BY <1>1, <1>2, <1>3, <1>4, <2>1 DEF Complete, At, Goto, Shut, count, queue, ghosts, OneSend, Sends, Fits
  <2>2. "send" \in io' => sending'
    BY <1>1, <1>2, <1>3 DEF Complete, At, Goto, Shut, count, queue, ghosts, OneSend, Sends
  <2> QED BY <2>1, <2>2 DEF OneSend, Sends, Threads
<1>10. OneRecv'
  <2>1. ASSUME NEW u \in Threads, Receives(u)' PROVE "recv" \notin io' /\ \A v \in Threads : Receives(v)' => v = u
    BY <1>1, <1>2, <1>3, <1>4, <2>1 DEF Complete, At, Goto, Shut, count, queue, ghosts, OneRecv, Receives,
       Fits
  <2>2. (\E u \in Threads : Receives(u)') \/ "recv" \in io' => links' > 0 /\ (agent' => connected')
    BY <1>1, <1>2, <1>3, <1>4, ConstantsOK DEF Complete, At, Goto, Shut, count, queue, ghosts, OneRecv,
       Receives, Fits, TypeOK, ConstantsOK
  <2>3. sock' = "open" => (\E u \in Threads : Receives(u)') \/ "recv" \in io'
    BY <1>1, <1>2, <1>3, <1>4 DEF Complete, At, Goto, Shut, count, queue, ghosts, OneRecv, Receives, Fits
  <2> QED BY <2>1, <2>2, <2>3 DEF OneRecv, Receives, Threads
<1>11. EnterInv'
  BY <1>1, <1>2, <1>3, <1>4, ThreadsAre DEF Complete, At, Goto, Shut, count, queue, ghosts, EnterInv,
     Setting, Fits, TypeOK
<1>12. ASSUME agent' PROVE AgentInv'
  <2>0. agent /\ AgentInv
    BY <1>1, <1>12 DEF Complete, At, Goto, Shut, count, queue, ghosts
  <2>1. ASSUME NEW u \in Threads, Tearing(u)'
        PROVE  /\ releaseFlag' = 1 /\ io' = {} /\ sock' # "open" /\ (u = Main \/ connected')
               /\ \A v \in Threads : ~Receives(v)' /\ (Tearing(v)' => v = u)
    BY <1>1, <1>2, <1>3, <1>4, <2>0, <2>1 DEF Complete, At, Goto, Shut, count, queue, ghosts, AgentInv,
       Tearing, Receives, Fits
  <2>2. ASSUME releaseFlag' = 0, ~connected' \/ sock' \in {"invalid", "fresh"} \/ pc'[Main] = "cinc"
        PROVE  io' = {} /\ \A u \in Threads \ {Main} : pc'[u] = "idle"
    BY <1>1, <1>2, <1>3, <1>4, <2>0, <2>2, ThreadsAre DEF Complete, At, Goto, Shut, count, queue, ghosts,
       AgentInv, Untouched, Fits
  <2>3. /\ Setting' => sock' \in {"open", "shut"} /\ connected'
        /\ inside' => sock' \in {"open", "shut"}
        /\ sock' = "open" => connected'
        /\ \A u \in Apps : pc'[u] = "idle"
    BY <1>1, <1>2, <1>3, <1>4, <2>0, ThreadsAre DEF Complete, At, Goto, Shut, count, queue, ghosts,
       AgentInv, Setting, Fits, Tearing
  <2> QED BY <2>1, <2>2, <2>3 DEF AgentInv, Tearing, Receives, Setting, Untouched, Threads
<1> QED BY <1>6, <1>8, <1>9, <1>10, <1>11, <1>12 DEF Whole

LEMMA MakePortTyped ==
  ASSUME ConstantsOK, TypeOK, ThreadInv, MakePort
  PROVE  TypeOK' /\ ThreadInv' /\ UNCHANGED missed
<1>1. /\ pc' = pc /\ cont' = cont /\ held' = held /\ io' = io /\ sock' = sock /\ ioCount' = ioCount
      /\ releaseFlag' = releaseFlag /\ links' = links /\ sendQ' = sendQ /\ sendCount' = sendCount
      /\ agent' = agent /\ connected' = connected /\ sending' = sending /\ inside' = inside /\ heard' = heard
      /\ port' \in BOOLEAN /\ missed' = missed
  BY DEF MakePort, link, count, queue, threads, ghosts
<1> QED BY <1>1 DEF TypeOK, ThreadInv, Fits, Threads, Labels

LEMMA MakePortStep ==
  ASSUME ConstantsOK, Whole, MakePort
  PROVE  Whole'
<1>1. /\ pc' = pc /\ cont' = cont /\ held' = held /\ io' = io /\ sock' = sock /\ ioCount' = ioCount
      /\ releaseFlag' = releaseFlag /\ links' = links /\ sendQ' = sendQ /\ sendCount' = sendCount
      /\ agent' = agent /\ connected' = connected /\ sending' = sending /\ inside' = inside /\ heard' = heard
  BY DEF MakePort, link, count, queue, threads, ghosts
<1>2. TypeOK' /\ ThreadInv'
  BY MakePortTyped DEF Whole
<1>3. Count'
  BY <1>1, CountSame DEF Whole
<1>4. OneSend' /\ OneRecv' /\ EnterInv'
  BY <1>1 DEF Whole, OneSend, Sends, OneRecv, Receives, EnterInv, Setting, Threads
<1>5. (agent => AgentInv)'
  BY <1>1 DEF Whole, AgentInv, Tearing, Receives, Setting, Untouched, Threads
<1> QED BY <1>2, <1>3, <1>4, <1>5 DEF Whole

\* A worker of the agent that found no port: nothing but its types is claimed from then on.
LEMMA EarlyCallTyped ==
  ASSUME ConstantsOK, TypeOK, ThreadInv, NEW t \in Workers, EarlyCall(t)
  PROVE  TypeOK' /\ ThreadInv' /\ missed' = missed + 1
<1>1. t \in Threads /\ Fits(t, pc[t], cont[t], held[t])
  BY ThreadsAre DEF ThreadInv
<1>2. pc \in [Threads -> Labels] /\ cont \in [Threads -> Labels] /\ held \in [Threads -> 0..2]
  BY DEF TypeOK
<1>3. /\ pc' = [pc EXCEPT ![t] = "drop"] /\ held' = [held EXCEPT ![t] = 1] /\ cont' = cont
      /\ pc[t] = "idle" /\ missed < MaxMissed /\ missed' = missed + 1
  BY DEF EarlyCall, Goto, At
<1>4. /\ io' = io /\ sock' = sock /\ ioCount' = ioCount
      /\ releaseFlag' = releaseFlag /\ links' = links /\ sendQ' = sendQ /\ sendCount' = sendCount
      /\ agent' = agent /\ connected' = connected /\ sending' = sending /\ inside' = inside /\ heard' = heard
      /\ port' = port
  BY DEF EarlyCall, count, queue, ghosts
<1>5. cont[t] = "idle"
  BY <1>1, <1>3 DEF Fits
<1>6. Fits(t, pc'[t], cont'[t], held'[t])
  BY <1>1, <1>2, <1>3, <1>5, ThreadsAre DEF Fits, Base
<1>7. \A u \in Threads \ {t} : pc'[u] = pc[u] /\ cont'[u] = cont[u] /\ held'[u] = held[u]
  BY <1>2, <1>3
<1>8. ThreadInv'
  BY <1>1, <1>6, <1>7, ThreadsFit
<1>9. TypeOK'
  <2>1. pc' \in [Threads -> Labels] /\ cont' \in [Threads -> Labels] /\ held' \in [Threads -> 0..2]
    <3>1. "drop" \in Labels
      BY DEF Labels
    <3>2. pc' \in [Threads -> Labels] /\ cont' \in [Threads -> Labels]
      BY <1>2, <1>3, <3>1
    <3>3. 1 \in 0..2 /\ held \in [Threads -> 0..2] /\ held' = [held EXCEPT ![t] = 1]
      BY <1>2, <1>3
    <3>4. held' \in [Threads -> 0..2]
      BY <3>3, Zenon
    <3> QED BY <3>2, <3>4
  <2>2. missed' \in 0..MaxMissed
    BY <1>3, ConstantsOK DEF TypeOK, ConstantsOK
  <2>3. /\ agent' \in BOOLEAN /\ port' \in BOOLEAN /\ connected' \in BOOLEAN /\ sending' \in BOOLEAN
        /\ inside' \in BOOLEAN /\ heard' \in BOOLEAN
    BY <1>4, Zenon DEF TypeOK
  <2>4. /\ sock' \in {"invalid", "fresh", "open", "shut"} /\ ioCount' \in Int /\ releaseFlag' \in {0, 1}
        /\ sendCount' \in 0..Batch /\ sendQ' \in Seq(0..MaxLinks) /\ io' \subseteq {"recv", "send"}
        /\ links' \in 0..MaxLinks
    BY <1>4 DEF TypeOK
  <2> QED BY <2>1, <2>2, <2>3, <2>4 DEF TypeOK, Threads, Labels
<1> QED BY <1>3, <1>8, <1>9

-----------------------------------------------------------------------------
(* The specification *)

LEMMA InitInv ==
  ASSUME ConstantsOK, Init
  PROVE  IInv /\ Whole
<1>1. /\ pc = [t \in Threads |-> "idle"] /\ cont = [t \in Threads |-> "idle"]
      /\ held = [t \in Threads |-> 0] /\ io = {} /\ sendQ = <<>> /\ sock = "invalid"
      /\ ioCount = 0 /\ releaseFlag = 0 /\ sendCount = 0 /\ links = 0
  BY DEF Init
<1>2. agent \in BOOLEAN /\ port \in BOOLEAN /\ missed = 0 /\ ~connected /\ ~sending /\ ~inside /\ ~heard
  BY DEF Init
<1>3. TypeOK
  <2>1. pc \in [Threads -> Labels] /\ cont \in [Threads -> Labels] /\ held \in [Threads -> 0..2]
    BY <1>1 DEF Labels
  <2>2. /\ sendQ \in Seq(0..MaxLinks) /\ sendCount \in 0..Batch /\ links \in 0..MaxLinks
        /\ ioCount \in Int
    BY <1>1, ConstantsOK DEF ConstantsOK
  <2>3. missed \in 0..MaxMissed
    BY <1>2, ConstantsOK DEF ConstantsOK
  <2>4. connected \in BOOLEAN /\ sending \in BOOLEAN /\ inside \in BOOLEAN /\ heard \in BOOLEAN
    BY Zenon DEF Init
  <2> QED BY <1>1, <1>2, <2>1, <2>2, <2>3, <2>4 DEF TypeOK
<1>4. ThreadInv
  BY <1>1 DEF ThreadInv, Fits, Base
<1>5. Count
  <2>1. Units(held) = {}
    <3> SUFFICES ASSUME NEW t \in Threads PROVE {t} \X (1..held[t]) = {}
      BY DEF Units
    <3> QED BY <1>1
  <2>2. Cardinality(io) = 0 /\ Cardinality(Units(held)) = 0
    BY <1>1, <2>1, FS_EmptySet
  <2> QED BY <1>1, <2>2 DEF Count
<1>6. OneSend /\ OneRecv /\ EnterInv
  BY <1>1, <1>2, ThreadsAre DEF OneSend, Sends, OneRecv, Receives, EnterInv, Setting
<1>7. AgentInv
  BY <1>1, <1>2, ThreadsAre DEF AgentInv, Tearing, Receives, Setting, Untouched
<1> QED BY <1>3, <1>4, <1>5, <1>6, <1>7 DEF IInv, Whole

\* Every step but an early call.
Goes ==
  \/ NotNow \/ Connect \/ ConnectGoesOn \/ PeerCloses \/ MakePort
  \/ \E t \in Apps : AppSend(t)
  \/ \E t \in Workers, k \in {"recv", "send"} : Complete(t, k)
  \/ \E t \in Threads : Inside(t)

LEMMA GoesTyped ==
  ASSUME ConstantsOK, TypeOK, ThreadInv, Goes
  PROVE  TypeOK' /\ ThreadInv' /\ missed' = missed
<1>1. CASE NotNow \/ Connect \/ ConnectGoesOn \/ PeerCloses \/ MakePort
  BY <1>1, NotNowTyped, ConnectTyped, ConnectIncTyped, ConnectFlagTyped, EnterTyped, ReportTyped,
     PeerClosesTyped, MakePortTyped DEF ConnectGoesOn
<1>2. ASSUME NEW t \in Apps, AppSend(t) PROVE TypeOK' /\ ThreadInv' /\ missed' = missed
  BY <1>2, AppSendTyped
<1>3. ASSUME NEW t \in Workers, NEW k \in {"recv", "send"}, Complete(t, k)
      PROVE  TypeOK' /\ ThreadInv' /\ missed' = missed
  BY <1>3, CompleteTyped
<1>4. ASSUME NEW t \in Threads, Inside(t) PROVE TypeOK' /\ ThreadInv' /\ missed' = missed
  <2>1. CASE Post(t) \/ Size(t) \/ Unsend(t) \/ Resize(t) \/ SendInc(t) \/ SendIO(t)
    BY <2>1, PostTyped, SizeTyped, UnsendTyped, ResizeTyped, SendIncTyped, SendIOTyped
  <2>2. CASE RecvInc(t) \/ RecvIO(t) \/ Proc(t) \/ SendDone(t) \/ SendReset(t)
    BY <2>2, RecvIncTyped, RecvIOTyped, ProcTyped, SendDoneTyped, SendResetTyped
  <2>3. CASE Drop(t) \/ Release(t) \/ Drain(t) \/ Close(t) \/ Unset(t)
    BY <2>3, DropTyped, ReleaseTyped, DrainTyped, CloseTyped, UnsetTyped
  <2> QED BY <1>4, <2>1, <2>2, <2>3 DEF Inside
<1> QED BY <1>1, <1>2, <1>3, <1>4 DEF Goes

LEMMA GoesStep ==
  ASSUME ConstantsOK, Whole, Goes
  PROVE  Whole'
<1>1. CASE NotNow \/ Connect \/ ConnectGoesOn \/ PeerCloses \/ MakePort
  BY <1>1, NotNowStep, ConnectStep, ConnectIncStep, ConnectFlagStep, EnterStep, ReportStep,
     PeerClosesStep, MakePortStep DEF ConnectGoesOn
<1>2. ASSUME NEW t \in Apps, AppSend(t) PROVE Whole'
  BY <1>2, AppSendStep
<1>3. ASSUME NEW t \in Workers, NEW k \in {"recv", "send"}, Complete(t, k) PROVE Whole'
  BY <1>3, CompleteStep
<1>4. ASSUME NEW t \in Threads, Inside(t) PROVE Whole'
  <2>1. CASE Post(t) \/ Size(t) \/ Unsend(t) \/ Resize(t) \/ SendInc(t) \/ SendIO(t)
    BY <2>1, PostStep, SizeStep, UnsendStep, ResizeStep, SendIncStep, SendIOStep
  <2>2. CASE RecvInc(t) \/ RecvIO(t) \/ Proc(t) \/ SendDone(t) \/ SendReset(t)
    BY <2>2, RecvIncStep, RecvIOStep, ProcStep, SendDoneStep, SendResetStep
  <2>3. CASE Drop(t) \/ Release(t) \/ Drain(t) \/ Close(t) \/ Unset(t)
    BY <2>3, DropStep, ReleaseStep, DrainStep, CloseStep, UnsetStep
  <2> QED BY <1>4, <2>1, <2>2, <2>3 DEF Inside
<1> QED BY <1>1, <1>2, <1>3, <1>4 DEF Goes

LEMMA StutterInv ==
  ASSUME IInv, UNCHANGED vars
  PROVE  IInv'
<1>1. /\ pc' = pc /\ cont' = cont /\ held' = held /\ io' = io /\ sock' = sock /\ ioCount' = ioCount
      /\ releaseFlag' = releaseFlag /\ links' = links /\ sendQ' = sendQ /\ sendCount' = sendCount
      /\ agent' = agent /\ connected' = connected /\ sending' = sending /\ inside' = inside /\ heard' = heard
      /\ port' = port /\ missed' = missed
  BY DEF vars, link, count, queue, threads, ghosts
<1>2. TypeOK' /\ ThreadInv'
  BY <1>1 DEF IInv, TypeOK, ThreadInv, Fits, Threads, Labels
<1>3. ASSUME Whole PROVE Whole'
  <2>1. Count'
    BY <1>1, <1>3, CountSame DEF Whole
  <2>2. OneSend' /\ OneRecv' /\ EnterInv'
    BY <1>1, <1>3 DEF Whole, OneSend, Sends, OneRecv, Receives, EnterInv, Setting, Threads
  <2>3. (agent => AgentInv)'
    BY <1>1, <1>3 DEF Whole, AgentInv, Tearing, Receives, Setting, Untouched, Threads
  <2> QED BY <1>2, <2>1, <2>2, <2>3 DEF Whole
<1> QED BY <1>1, <1>2, <1>3 DEF IInv

LEMMA NextInv ==
  ASSUME ConstantsOK, IInv, [Next]_vars
  PROVE  IInv'
<1>1. TypeOK /\ ThreadInv /\ (missed = 0 => Whole)
  BY DEF IInv
<1>2. CASE Goes
  BY <1>1, <1>2, GoesTyped, GoesStep DEF IInv
<1>3. ASSUME NEW t \in Workers, EarlyCall(t) PROVE IInv'
  <2>1. TypeOK' /\ ThreadInv' /\ missed' = missed + 1
    BY <1>1, <1>3, EarlyCallTyped
  <2>2. missed \in Nat
    BY <1>1 DEF TypeOK
  <2>3. missed' # 0
    BY <2>1, <2>2
  <2> QED BY <2>1, <2>3 DEF IInv
<1>4. CASE UNCHANGED vars
  BY <1>4, StutterInv
<1> QED BY <1>2, <1>3, <1>4 DEF Next, Goes

\* The invariant holds of every behaviour of the connection.
THEOREM Invariance == ConstantsOK => (Spec => []IInv)
<1> SUFFICES ASSUME ConstantsOK PROVE Spec => []IInv
  OBVIOUS
<1>1. Init => IInv
  BY InitInv
<1>2. IInv /\ [Next]_vars => IInv'
  BY NextInv
<1> QED BY <1>1, <1>2, PTL DEF Spec

\* Every variable keeps its type.
THEOREM TypeCorrect == ConstantsOK => (Spec => []TypeOK)
<1>1. IInv => TypeOK
  BY DEF IInv
<1> QED BY <1>1, Invariance, PTL

\* _IOCompare (LanClient.cpp, SessionRelease): as long as no worker called before the port was
\* made, IOCount is the pending requests and the units
\* that threads hold, and in the agent one thread tears a connection down, with no request pending.
THEOREM QuietAlways == ConstantsOK => (Spec => []QuietRelease)
<1>1. IInv => QuietRelease
  BY DEF IInv, Whole, QuietRelease, Count, Units, AgentInv
<1> QED BY <1>1, Invariance, PTL

\* OnEnterJoinServer (LanClient.cpp, Connect) is called only when the content is not inside a
\* connection: OnLeaveServer came first, as long as no worker called before the port was made.
THEOREM EnterAlways == ConstantsOK => (Spec => EnterOnce)
<1> SUFFICES ASSUME ConstantsOK PROVE Spec => EnterOnce
  OBVIOUS
<1>1. IInv /\ [Next]_vars => [missed = 0 /\ Enter => ~inside]_vars
  <2>1. IInv /\ missed = 0 /\ Enter => ~inside
    BY DEF IInv, Whole, EnterInv, Setting, Enter, At
  <2> QED BY <2>1
<1>2. Spec => []IInv
  BY Invariance
<1> QED BY <1>1, <1>2, PTL DEF Spec, EnterOnce
=============================================================================
