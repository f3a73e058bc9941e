------------------------- MODULE NetSession_proofs -------------------------
(***************************************************************************)
(* Proofs about NetSession, for any number of slots, workers, content      *)
(* threads, connections and queued packets: its inductive invariant, what  *)
(* each action reads and writes, that every step keeps the invariant, and  *)
(* what follows from it - the safety properties and the refinement of      *)
(* SessionService.                                                         *)
(*                                                                         *)
(* The argument. A thread that passed AcquireSessionLock owns a unit of    *)
(* IOCount, IOCount is exactly the number of units (RefCount), so it is    *)
(* not 0 and the compare-and-swap of ClientRelease cannot succeed: the     *)
(* session stays Live, hence its slot is not on the free stack, hence the  *)
(* acceptor does not give it a new ClientId. The only slots whose flag is  *)
(* 0 while they are not Live were never used, and no thread can reach them *)
(* because nobody has been given an id for them (Fresh).                   *)
(***************************************************************************)
EXTENDS LanSession, SequenceTheorems, FiniteSetTheorems, TLAPS

Early  == {"aset", "ainc", "aflag"}
Ending == {"leave", "drain", "push"}

\* No client was ever announced on the slot.
Fresh(s) == \A j \in joined : j[1] # s

\* What a program counter says about the locals of its thread.
ThreadInv(t) ==
  /\ pc[t] \in {"idle", "acount"} => slot[t] = NoSlot /\ held[t] = 0 /\ cont[t] = "idle"
  /\ pc[t] \notin {"idle", "acount"} => slot[t] \in Slots
  /\ pc[t] \in {"aset", "ainc"} => held[t] = 0 /\ cont[t] = "idle"
  /\ pc[t] \in {"aflag", "ajoin"} => held[t] = 1 /\ cont[t] = "idle"
  /\ pc[t] \in {"proc", "rinc", "sdone", "sreset"} =>
       held[t] = 1 /\ cont[t] = "idle" /\ t \in Workers
  /\ pc[t] \in {"check", "inc"} => held[t] >= Keep(t)
  /\ pc[t] \in {"flag", "recheck", "enqueue", "shutdown", "post", "size", "unsend",
                "resize", "sinc", "recvio", "drop"} => held[t] >= 1 + Keep(t)
  /\ pc[t] = "sendio" => held[t] >= 2 + Keep(t)
  /\ pc[t] \in {"release"} \cup Ending => held[t] = 0 /\ cont[t] \in {"idle", "acount"}
  /\ pc[t] \in {"aset", "ainc", "aflag", "ajoin", "acount"} => t = Acceptor
  /\ cont[t] = "acount" => t = Acceptor
  /\ cont[t] \in {"rinc", "sdone"} => t \in Workers
  /\ cont[t] = "sdone" =>
       op[t] = "disc" /\ pc[t] \in {"check", "inc", "flag", "recheck", "shutdown", "drop"}
  /\ pc[t] = "recvio" => cont[t] \in {"idle", "acount"}
  /\ t = Acceptor => \/ pc[t] \in {"idle", "aset", "ainc", "aflag", "ajoin", "acount"}
                     \/ cont[t] = "acount"

\* A thread with a reference it got while the session was live.
Secure(t) ==
  \/ Locked(t)
  \/ pc[t] \in {"check", "inc"} /\ held[t] >= 1
  \/ pc[t] \in {"flag", "recheck"} /\ held[t] >= 2

SecureInv(t) ==
  /\ Secure(t) \/ pc[t] = "recheck" => Live(slot[t])
  /\ Secure(t) /\ pc[t] # "ajoin" => clientId[slot[t]] \in joined \ left
  /\ pc[t] \in {"enqueue", "shutdown"} => id[t] = clientId[slot[t]]
  /\ pc[t] \in {"check", "inc", "flag", "recheck"} => id[t] \in joined
  /\ pc[t] \notin {"idle", "acount", "aset", "ainc", "aflag", "ajoin"} => ~Fresh(slot[t])

\* The reference count: finite sets, so that cardinalities can be compared.
RefCount == \A s \in Slots : IsFiniteSet(Refs(s)) /\ ioCount[s] = Cardinality(Refs(s))

\* A slot that is free or being set up: nothing of an earlier client is left.
Empty(s) == io[s] = {} /\ sendQ[s] = <<>> /\ (releaseFlag[s] = 1 \/ Fresh(s))

SlotInv(s) ==
  /\ s \in free => Empty(s)
  /\ \A t \in Threads : slot[t] = s /\ pc[t] \in Early => Empty(s)
  /\ \A t \in Threads : slot[t] = s /\ pc[t] \in Ending =>
       /\ io[s] = {} /\ releaseFlag[s] = 1
       /\ pc[t] = "push" => sendQ[s] = <<>>
       /\ pc[t] = "leave" => clientId[s] \in joined \ left
  /\ \A t \in Threads : slot[t] = s /\ pc[t] \in {"ainc", "aflag", "ajoin"} =>
       clientId[s] = <<s, nextId>>
  /\ Live(s) =>
       /\ releaseFlag[s] = 0
       /\ clientId[s] \in joined \ left \/ (slot[Acceptor] = s /\ pc[Acceptor] = "ajoin")
  /\ io[s] # {} => Live(s) /\ clientId[s] \in joined \ left
  /\ clientId[s] = NoId \/ clientId[s][1] = s

\* Serial numbers are not reused, and an id whose client was not told to leave is
\* the one its slot carries.
IdInv ==
  /\ left \subseteq joined
  /\ \A j \in joined :
       \/ j[2] < nextId
       \/ j[2] = nextId /\ (pc[Acceptor] = "acount" \/ cont[Acceptor] = "acount")
  /\ \A j \in joined \ left :
       /\ clientId[j[1]] = j /\ j[1] \notin free
       /\ \A t \in Threads : Owns(t, j[1]) => pc[t] = "leave"

IInv ==
  /\ TypeOK
  /\ \A t \in Threads : ThreadInv(t)
  /\ RefCount
  /\ OneOwner
  /\ \A t \in Threads : SecureInv(t)
  /\ \A s \in Slots : SlotInv(s)
  /\ IdInv
  /\ OneRequest
  /\ OwnPackets

-----------------------------------------------------------------------------
(* The set of references of a slot                                         *)

LEMMA RefsMembers ==
  ASSUME NEW s \in Slots, NEW x
  PROVE  x \in Refs(s) <=>
           \/ \E t \in Threads : slot[t] = s /\ \E i \in 1..held[t] : x = <<t, i>>
           \/ \E k \in io[s] : x = <<k, 0>>
<1>1. x \in Refs(s) <=> \/ \E t \in {u \in Threads : slot[u] = s} : x \in {t} \X (1..held[t])
                       \/ x \in io[s] \X {0}
  BY DEF Refs
<1>2. ASSUME NEW t PROVE x \in {t} \X (1..held[t]) <=> \E i \in 1..held[t] : x = <<t, i>>
  OBVIOUS
<1>3. x \in io[s] \X {0} <=> \E k \in io[s] : x = <<k, 0>>
  OBVIOUS
<1> QED BY <1>1, <1>2, <1>3

LEMMA RefsMembersNext ==
  ASSUME NEW s \in Slots, NEW x
  PROVE  x \in Refs(s)' <=>
           \/ \E t \in Threads : slot'[t] = s /\ \E i \in 1..held'[t] : x = <<t, i>>
           \/ \E k \in io'[s] : x = <<k, 0>>
<1>1. x \in Refs(s)' <=> \/ \E t \in {u \in Threads : slot'[u] = s} : x \in {t} \X (1..held'[t])
                        \/ x \in io'[s] \X {0}
  BY DEF Refs
<1>2. ASSUME NEW t PROVE x \in {t} \X (1..held'[t]) <=> \E i \in 1..held'[t] : x = <<t, i>>
  OBVIOUS
<1>3. x \in io'[s] \X {0} <=> \E k \in io'[s] : x = <<k, 0>>
  OBVIOUS
<1> QED BY <1>1, <1>2, <1>3

\* What IOCount says of one thread and of the pending requests.
LEMMA RefBounds ==
  ASSUME TypeOK, RefCount, NEW s \in Slots
  PROVE  /\ \A t \in Threads : slot[t] = s /\ held[t] >= 1 => ioCount[s] >= 1
         /\ \A t \in Threads : slot[t] = s /\ held[t] >= 2 => ioCount[s] >= 2
         /\ io[s] # {} => ioCount[s] >= 1
<1>1. ioCount[s] = Cardinality(Refs(s)) /\ IsFiniteSet(Refs(s)) /\ ioCount[s] \in Nat
  BY DEF RefCount, TypeOK, TypeSession, TypeThread
<1>2. ASSUME NEW x \in Refs(s) PROVE ioCount[s] >= 1
  BY <1>1, FS_EmptySet
<1>3. ASSUME NEW x \in Refs(s), NEW y \in Refs(s), x # y PROVE ioCount[s] >= 2
  <2>1. Cardinality(Refs(s)) # 1
    BY <1>1, <1>3, FS_Singleton
  <2> QED BY <2>1, <1>1, <1>2
<1>4. ASSUME NEW t \in Threads, slot[t] = s, held[t] >= 1 PROVE ioCount[s] >= 1
  <2>1. 1 \in 1..held[t] BY <1>4 DEF TypeOK, TypeSession, TypeThread
  <2>2. <<t, 1>> \in Refs(s) BY <2>1, <1>4, RefsMembers
  <2> QED BY <2>2, <1>2
<1>5. ASSUME NEW t \in Threads, slot[t] = s, held[t] >= 2 PROVE ioCount[s] >= 2
  <2>1. 1 \in 1..held[t] /\ 2 \in 1..held[t] BY <1>5 DEF TypeOK, TypeSession, TypeThread
  <2>2. <<t, 1>> \in Refs(s) /\ <<t, 2>> \in Refs(s) BY <2>1, <1>5, RefsMembers
  <2>3. <<t, 1>> # <<t, 2>> OBVIOUS
  <2> QED BY <2>2, <2>3, <1>3
<1>6. ASSUME io[s] # {} PROVE ioCount[s] >= 1
  <2>1. PICK k \in io[s] : TRUE BY <1>6
  <2>2. <<k, 0>> \in Refs(s) BY <2>1, RefsMembers
  <2> QED BY <2>2, <1>2
<1> QED BY <1>4, <1>5, <1>6

OthersKeep(t) == \A u \in Threads \ {t} : slot'[u] = slot[u] /\ held'[u] = held[u]

\* A step that moves no reference.
LEMMA RefsSame ==
  ASSUME TypeOK, TypeOK', RefCount, NEW t \in Threads, OthersKeep(t),
         held'[t] = held[t], slot'[t] = slot[t] \/ held[t] = 0,
         io' = io, ioCount' = ioCount
  PROVE  RefCount'
<1> SUFFICES ASSUME NEW s \in Slots
             PROVE  IsFiniteSet(Refs(s)') /\ ioCount'[s] = Cardinality(Refs(s)')
  BY DEF RefCount
<1>1. ASSUME NEW x PROVE x \in Refs(s)' <=> x \in Refs(s)
  <2>2. \A u \in Threads : held'[u] = held[u]
    BY DEF OthersKeep
  <2>3. \A u \in Threads : \A i : i \in 1..held[u] => slot'[u] = slot[u]
    BY DEF OthersKeep, TypeOK, TypeSession, TypeThread
  <2> QED BY <2>2, <2>3, RefsMembers, RefsMembersNext
<1>2. Refs(s)' = Refs(s) BY <1>1
<1> QED BY <1>2 DEF RefCount

\* A step that takes one more unit.
LEMMA RefsTake ==
  ASSUME TypeOK, TypeOK', RefCount, NEW t \in Threads, OthersKeep(t),
         held'[t] = held[t] + 1, slot'[t] = slot[t], slot[t] \in Slots,
         io' = io, IncIO(slot[t])
  PROVE  RefCount'
<1> SUFFICES ASSUME NEW s \in Slots
             PROVE  IsFiniteSet(Refs(s)') /\ ioCount'[s] = Cardinality(Refs(s)')
  BY DEF RefCount
<1> DEFINE e == <<t, held[t] + 1>>
<1>1. IsFiniteSet(Refs(s)) /\ ioCount[s] = Cardinality(Refs(s)) BY DEF RefCount
<1>2. \A u \in Threads \ {t} : held'[u] = held[u] /\ slot'[u] = slot[u]
  BY DEF OthersKeep
<1>3. \A i : i \in 1..(held[t] + 1) <=> i \in 1..held[t] \/ i = held[t] + 1
  BY SMTT(30) DEF TypeOK, TypeThread
<1>4. CASE slot[t] = s
  <2>1. e \notin Refs(s)
    <3>1. held[t] + 1 \notin 1..held[t] /\ held[t] + 1 # 0 BY DEF TypeOK, TypeSession, TypeThread
    <3> QED BY <3>1, RefsMembers
  <2>2. ASSUME NEW x PROVE x \in Refs(s)' <=> x \in Refs(s) \cup {e}
    BY <1>2, <1>3, <1>4, RefsMembers, RefsMembersNext
  <2>3. Refs(s)' = Refs(s) \cup {e} BY <2>2
  <2>4. IsFiniteSet(Refs(s)') /\ Cardinality(Refs(s)') = Cardinality(Refs(s)) + 1
    <3> HIDE DEF e
    <3>1. IsFiniteSet(Refs(s) \cup {e}) /\ Cardinality(Refs(s) \cup {e}) = Cardinality(Refs(s)) + 1
      BY <1>1, <2>1, FS_AddElement
    <3> QED BY <3>1, <2>3
  <2>5. ioCount'[s] = ioCount[s] + 1
    BY <1>4 DEF IncIO, TypeOK, TypeSession, TypeThread
  <2> QED BY <1>1, <2>4, <2>5
<1>5. CASE slot[t] # s
  <2>1. ASSUME NEW x PROVE x \in Refs(s)' <=> x \in Refs(s)
    BY <1>2, <1>5, RefsMembers, RefsMembersNext
  <2>2. Refs(s)' = Refs(s) BY <2>1
  <2> QED BY <1>1, <1>5, <2>2 DEF IncIO, TypeOK, TypeSession, TypeThread
<1> QED BY <1>4, <1>5

\* A step that gives one unit back.
LEMMA RefsDrop ==
  ASSUME TypeOK, TypeOK', RefCount, NEW t \in Threads, OthersKeep(t),
         held[t] >= 1, held'[t] = held[t] - 1, slot[t] \in Slots,
         slot'[t] = slot[t] \/ held[t] = 1,
         io' = io, DecIO(slot[t])
  PROVE  RefCount'
<1> SUFFICES ASSUME NEW s \in Slots
             PROVE  IsFiniteSet(Refs(s)') /\ ioCount'[s] = Cardinality(Refs(s)')
  BY DEF RefCount
<1> DEFINE e == <<t, held[t]>>
<1>1. IsFiniteSet(Refs(s)) /\ ioCount[s] = Cardinality(Refs(s)) BY DEF RefCount
<1>2. \A u \in Threads \ {t} : held'[u] = held[u] /\ slot'[u] = slot[u]
  BY DEF OthersKeep
<1>3. /\ \A i : i \in 1..held'[t] <=> i \in 1..held[t] /\ i # held[t]
      /\ held[t] \in 1..held[t]
      /\ \A i : i \in 1..held'[t] => slot'[t] = slot[t]
  <2>1. held[t] \in Nat BY DEF TypeOK, TypeSession, TypeThread
  <2> QED BY <2>1
<1>4. CASE slot[t] = s
  <2>1. e \in Refs(s) BY <1>3, <1>4, RefsMembers
  <2>2. ASSUME NEW x PROVE x \in Refs(s)' <=> x \in Refs(s) \ {e}
    <3>1. \A k : <<k, 0>> # e BY DEF TypeOK, TypeSession, TypeThread
    <3> QED BY <1>2, <1>3, <1>4, <3>1, RefsMembers, RefsMembersNext
  <2>3. Refs(s)' = Refs(s) \ {e} BY <2>2
  <2>4. IsFiniteSet(Refs(s)') /\ Cardinality(Refs(s)') = Cardinality(Refs(s)) - 1
    BY <1>1, <2>1, <2>3, FS_RemoveElement
  <2>5. ioCount'[s] = ioCount[s] - 1
    BY <1>4 DEF DecIO, TypeOK, TypeSession, TypeThread
  <2> QED BY <1>1, <2>4, <2>5
<1>5. CASE slot[t] # s
  <2>1. ASSUME NEW x PROVE x \in Refs(s)' <=> x \in Refs(s)
    BY <1>2, <1>3, <1>5, RefsMembers, RefsMembersNext
  <2>2. Refs(s)' = Refs(s) BY <2>1
  <2> QED BY <1>1, <1>5, <2>2 DEF DecIO, TypeOK, TypeSession, TypeThread
<1> QED BY <1>4, <1>5

\* A thread hands one unit over to the request k it posts.
LEMMA RefsPost ==
  ASSUME TypeOK, TypeOK', RefCount, NEW t \in Threads, OthersKeep(t),
         held[t] >= 1, held'[t] = held[t] - 1, slot[t] \in Slots,
         slot'[t] = slot[t] \/ held[t] = 1, NEW k, k \notin io[slot[t]],
         io' = [io EXCEPT ![slot[t]] = @ \cup {k}], ioCount' = ioCount
  PROVE  RefCount'
<1> SUFFICES ASSUME NEW s \in Slots
             PROVE  IsFiniteSet(Refs(s)') /\ ioCount'[s] = Cardinality(Refs(s)')
  BY DEF RefCount
<1> DEFINE e == <<t, held[t]>>
           f == <<k, 0>>
<1>1. IsFiniteSet(Refs(s)) /\ ioCount[s] = Cardinality(Refs(s)) /\ ioCount[s] \in Nat
  BY DEF RefCount, TypeOK, TypeSession, TypeThread
<1>2. \A u \in Threads \ {t} : held'[u] = held[u] /\ slot'[u] = slot[u]
  BY DEF OthersKeep
<1>3. /\ \A i : i \in 1..held'[t] <=> i \in 1..held[t] /\ i # held[t]
      /\ held[t] \in 1..held[t]
      /\ \A i : i \in 1..held'[t] => slot'[t] = slot[t]
  <2>1. held[t] \in Nat BY DEF TypeOK, TypeSession, TypeThread
  <2> QED BY <2>1
<1>4. CASE slot[t] = s
  <2>1. e \in Refs(s) BY <1>3, <1>4, RefsMembers
  <2>2. f \notin Refs(s) \ {e}
    <3>1. \A u \in Threads : \A i \in 1..held[u] : i # 0 BY DEF TypeOK, TypeSession, TypeThread
    <3> QED BY <3>1, <1>4, RefsMembers
  <2>3. io'[s] = io[s] \cup {k} BY <1>4 DEF TypeOK, TypeSession, TypeThread
  <2>4. ASSUME NEW x PROVE x \in Refs(s)' <=> x \in (Refs(s) \ {e}) \cup {f}
    <3>1. \A j : <<j, 0>> # e BY DEF TypeOK, TypeSession, TypeThread
    <3> QED BY <1>2, <1>3, <1>4, <2>3, <3>1, RefsMembers, RefsMembersNext
  <2>5. Refs(s)' = (Refs(s) \ {e}) \cup {f} BY <2>4
  <2> HIDE DEF e, f
  <2>6. IsFiniteSet(Refs(s) \ {e}) /\ Cardinality(Refs(s) \ {e}) = Cardinality(Refs(s)) - 1
    BY <1>1, <2>1, FS_RemoveElement
  <2>7. /\ IsFiniteSet((Refs(s) \ {e}) \cup {f})
        /\ Cardinality((Refs(s) \ {e}) \cup {f}) = Cardinality(Refs(s) \ {e}) + 1
    BY <2>2, <2>6, FS_AddElement
  <2> QED BY <1>1, <2>5, <2>6, <2>7
<1>5. CASE slot[t] # s
  <2>1. io'[s] = io[s] BY <1>5 DEF TypeOK, TypeSession, TypeThread
  <2>2. ASSUME NEW x PROVE x \in Refs(s)' <=> x \in Refs(s)
    BY <1>2, <1>3, <1>5, <2>1, RefsMembers, RefsMembersNext
  <2>3. Refs(s)' = Refs(s) BY <2>2
  <2> QED BY <1>1, <2>3
<1> QED BY <1>4, <1>5

\* A worker takes over the unit of the completed request k of slot s0.
LEMMA RefsComplete ==
  ASSUME TypeOK, TypeOK', RefCount, NEW t \in Threads, OthersKeep(t),
         held[t] = 0, held'[t] = 1, NEW s0 \in Slots, slot'[t] = s0,
         NEW k, k \in io[s0],
         io' = [io EXCEPT ![s0] = @ \ {k}], ioCount' = ioCount
  PROVE  RefCount'
<1> SUFFICES ASSUME NEW s \in Slots
             PROVE  IsFiniteSet(Refs(s)') /\ ioCount'[s] = Cardinality(Refs(s)')
  BY DEF RefCount
<1> DEFINE e == <<t, 1>>
           f == <<k, 0>>
<1>1. IsFiniteSet(Refs(s)) /\ ioCount[s] = Cardinality(Refs(s)) /\ ioCount[s] \in Nat
  BY DEF RefCount, TypeOK, TypeSession, TypeThread
<1>2. \A u \in Threads \ {t} : held'[u] = held[u] /\ slot'[u] = slot[u]
  BY DEF OthersKeep
<1>3. /\ \A i : i \in 1..held'[t] <=> i = 1
      /\ \A i : i \notin 1..held[t]
  OBVIOUS
<1>4. CASE s = s0
  <2>1. f \in Refs(s) BY <1>4, RefsMembers
  <2>2. e \notin Refs(s) \ {f} BY <1>3, RefsMembers
  <2>3. io'[s] = io[s] \ {k} BY <1>4 DEF TypeOK, TypeSession, TypeThread
  <2>4. ASSUME NEW x PROVE x \in Refs(s)' <=> x \in (Refs(s) \ {f}) \cup {e}
    <3>1. \A u \in Threads : \A i \in 1..held[u] : i # 0 BY DEF TypeOK, TypeSession, TypeThread
    <3> QED BY <1>2, <1>3, <1>4, <2>3, <3>1, RefsMembers, RefsMembersNext
  <2>5. Refs(s)' = (Refs(s) \ {f}) \cup {e} BY <2>4
  <2> HIDE DEF e, f
  <2>6. IsFiniteSet(Refs(s) \ {f}) /\ Cardinality(Refs(s) \ {f}) = Cardinality(Refs(s)) - 1
    BY <1>1, <2>1, FS_RemoveElement
  <2>7. /\ IsFiniteSet((Refs(s) \ {f}) \cup {e})
        /\ Cardinality((Refs(s) \ {f}) \cup {e}) = Cardinality(Refs(s) \ {f}) + 1
    BY <2>2, <2>6, FS_AddElement
  <2> QED BY <1>1, <2>5, <2>6, <2>7
<1>5. CASE s # s0
  <2>1. io'[s] = io[s] BY <1>5 DEF TypeOK, TypeSession, TypeThread
  <2>2. ASSUME NEW x PROVE x \in Refs(s)' <=> x \in Refs(s)
    BY <1>2, <1>3, <1>5, <2>1, RefsMembers, RefsMembersNext
  <2>3. Refs(s)' = Refs(s) BY <2>2
  <2> QED BY <1>1, <2>3
<1> QED BY <1>4, <1>5

-----------------------------------------------------------------------------
(* What a step of a thread reads and writes *)

\* A label belongs to one action.
LEMMA StepAt ==
  ASSUME NEW t, Inside(t)
  PROVE  /\ pc[t] = "aset" => AcceptSet(t)
         /\ pc[t] = "ainc" => AcceptInc(t)
         /\ pc[t] = "aflag" => AcceptFlag(t)
         /\ pc[t] = "ajoin" => AcceptJoin(t)
         /\ pc[t] = "acount" => AcceptCount(t)
         /\ pc[t] = "check" => Check(t)
         /\ pc[t] = "inc" => Inc(t)
         /\ pc[t] = "flag" => Flag(t)
         /\ pc[t] = "recheck" => Recheck(t)
         /\ pc[t] = "enqueue" => Enqueue(t)
         /\ pc[t] = "shutdown" => ShutSock(t)
         /\ pc[t] = "post" => Post(t)
         /\ pc[t] = "size" => Size(t)
         /\ pc[t] = "unsend" => Unsend(t)
         /\ pc[t] = "resize" => Resize(t)
         /\ pc[t] = "sinc" => SendInc(t)
         /\ pc[t] = "sendio" => SendIO(t)
         /\ pc[t] = "rinc" => RecvInc(t)
         /\ pc[t] = "recvio" => RecvIO(t)
         /\ pc[t] = "proc" => Proc(t)
         /\ pc[t] = "sdone" => SendDone(t)
         /\ pc[t] = "sreset" => SendReset(t)
         /\ pc[t] = "drop" => Drop(t)
         /\ pc[t] = "release" => Release(t)
         /\ pc[t] = "leave" => LeaveEvent(t)
         /\ pc[t] = "drain" => Drain(t)
         /\ pc[t] = "push" => Push(t)
<1> USE DEF At
<1>1. CASE AcceptSet(t) BY <1>1 DEF AcceptSet
<1>2. CASE AcceptInc(t) BY <1>2 DEF AcceptInc
<1>3. CASE AcceptFlag(t) BY <1>3 DEF AcceptFlag
<1>4. CASE AcceptJoin(t) BY <1>4 DEF AcceptJoin
<1>5. CASE AcceptCount(t) BY <1>5 DEF AcceptCount
<1>6. CASE Check(t) BY <1>6 DEF Check
<1>7. CASE Inc(t) BY <1>7 DEF Inc
<1>8. CASE Flag(t) BY <1>8 DEF Flag
<1>9. CASE Recheck(t) BY <1>9 DEF Recheck
<1>10. CASE Enqueue(t) BY <1>10 DEF Enqueue
<1>11. CASE ShutSock(t) BY <1>11 DEF ShutSock
<1>12. CASE Post(t) BY <1>12 DEF Post
<1>13. CASE Size(t) BY <1>13 DEF Size
<1>14. CASE Unsend(t) BY <1>14 DEF Unsend
<1>15. CASE Resize(t) BY <1>15 DEF Resize
<1>16. CASE SendInc(t) BY <1>16 DEF SendInc
<1>17. CASE SendIO(t) BY <1>17 DEF SendIO
<1>18. CASE RecvInc(t) BY <1>18 DEF RecvInc
<1>19. CASE RecvIO(t) BY <1>19 DEF RecvIO
<1>20. CASE Proc(t) BY <1>20 DEF Proc
<1>21. CASE SendDone(t) BY <1>21 DEF SendDone
<1>22. CASE SendReset(t) BY <1>22 DEF SendReset
<1>23. CASE Drop(t) BY <1>23 DEF Drop
<1>24. CASE Release(t) BY <1>24 DEF Release
<1>25. CASE LeaveEvent(t) BY <1>25 DEF LeaveEvent
<1>26. CASE Drain(t) BY <1>26 DEF Drain
<1>27. CASE Push(t) BY <1>27 DEF Push
<1> QED BY <1>1, <1>2, <1>3, <1>4, <1>5, <1>6, <1>7, <1>8, <1>9, <1>10, <1>11, <1>12,
         <1>13, <1>14, <1>15, <1>16, <1>17, <1>18, <1>19, <1>20, <1>21, <1>22, <1>23, <1>24,
         <1>25, <1>26, <1>27 DEF Inside

LEMMA InsideOthers ==
  ASSUME TypeOK, NEW t \in Threads, Inside(t), NEW u \in Threads \ {t}
  PROVE  /\ pc'[u] = pc[u] /\ slot'[u] = slot[u] /\ id'[u] = id[u]
         /\ op'[u] = op[u] /\ cont'[u] = cont[u] /\ held'[u] = held[u]
<1> USE DEF Goto, Resume, Call, srvVars, sesVars, TypeOK, TypeThread
<1>1. CASE AcceptSet(t) BY <1>1 DEF AcceptSet
<1>2. CASE AcceptInc(t) BY <1>2 DEF AcceptInc
<1>3. CASE AcceptFlag(t) BY <1>3 DEF AcceptFlag
<1>4. CASE AcceptJoin(t) BY <1>4 DEF AcceptJoin
<1>5. CASE AcceptCount(t) BY <1>5 DEF AcceptCount
<1>6. CASE Check(t) BY <1>6 DEF Check
<1>7. CASE Inc(t) BY <1>7 DEF Inc
<1>8. CASE Flag(t) BY <1>8 DEF Flag
<1>9. CASE Recheck(t) BY <1>9 DEF Recheck
<1>10. CASE Enqueue(t) BY <1>10 DEF Enqueue
<1>11. CASE ShutSock(t) BY <1>11 DEF ShutSock
<1>12. CASE Post(t) BY <1>12 DEF Post
<1>13. CASE Size(t) BY <1>13 DEF Size
<1>14. CASE Unsend(t) BY <1>14 DEF Unsend
<1>15. CASE Resize(t) BY <1>15 DEF Resize
<1>16. CASE SendInc(t) BY <1>16 DEF SendInc
<1>17. CASE SendIO(t) BY <1>17 DEF SendIO
<1>18. CASE RecvInc(t) BY <1>18 DEF RecvInc
<1>19. CASE RecvIO(t) BY <1>19 DEF RecvIO
<1>20. CASE Proc(t) BY <1>20 DEF Proc
<1>21. CASE SendDone(t) BY <1>21 DEF SendDone
<1>22. CASE SendReset(t) BY <1>22 DEF SendReset
<1>23. CASE Drop(t) BY <1>23 DEF Drop
<1>24. CASE Release(t) BY <1>24 DEF Release
<1>25. CASE LeaveEvent(t) BY <1>25 DEF LeaveEvent
<1>26. CASE Drain(t) BY <1>26 DEF Drain
<1>27. CASE Push(t) BY <1>27 DEF Push
<1> QED BY <1>1, <1>2, <1>3, <1>4, <1>5, <1>6, <1>7, <1>8, <1>9, <1>10, <1>11, <1>12,
         <1>13, <1>14, <1>15, <1>16, <1>17, <1>18, <1>19, <1>20, <1>21, <1>22, <1>23, <1>24,
         <1>25, <1>26, <1>27 DEF Inside

LEMMA InsideThread ==
  ASSUME TypeOK, RefCount, NEW t \in Threads, ThreadInv(t), ConstantsOK, Inside(t)
  PROVE  ThreadInv(t)'
<1> USE DEF At, Goto, Resume, Keep, Call, IncIO, DecIO, sesVars, srvVars, ThreadInv,
         TypeOK, TypeThread, TypeSession, Ending, ConstantsOK, Threads, Labels, Returns
<1>1. CASE AcceptSet(t) BY <1>1 DEF AcceptSet
<1>2. CASE AcceptInc(t) BY <1>2 DEF AcceptInc
<1>3. CASE AcceptFlag(t) BY <1>3 DEF AcceptFlag
<1>4. CASE AcceptJoin(t) BY <1>4 DEF AcceptJoin
<1>5. CASE AcceptCount(t) BY <1>5 DEF AcceptCount
<1>6. CASE Check(t) BY <1>6 DEF Check
<1>7. CASE Inc(t) BY <1>7 DEF Inc
<1>8. CASE Flag(t) BY <1>8 DEF Flag
<1>9. CASE Recheck(t) BY <1>9 DEF Recheck
<1>10. CASE Enqueue(t) BY <1>10 DEF Enqueue
<1>11. CASE ShutSock(t) BY <1>11 DEF ShutSock
<1>12. CASE Post(t) BY <1>12 DEF Post
<1>13. CASE Size(t) BY <1>13 DEF Size
<1>14. CASE Unsend(t) BY <1>14 DEF Unsend
<1>15. CASE Resize(t) BY <1>15 DEF Resize
<1>16. CASE SendInc(t) BY <1>16 DEF SendInc
<1>17. CASE SendIO(t) BY <1>17, SMTT(30) DEF SendIO
<1>18. CASE RecvInc(t) BY <1>18 DEF RecvInc
<1>19. CASE RecvIO(t) BY <1>19 DEF RecvIO
<1>20. CASE Proc(t) BY <1>20 DEF Proc
<1>21. CASE SendDone(t) BY <1>21 DEF SendDone
<1>22. CASE SendReset(t) BY <1>22 DEF SendReset
<1>23. CASE Drop(t)
  <2>1. slot[t] \in Slots /\ held[t] \in Nat /\ held[t] >= 1 + Keep(t) /\ pc[t] = "drop"
    BY <1>23 DEF Drop, At, ThreadInv, Keep, TypeOK, TypeThread
  <2>2. ioCount[slot[t]] = 1 => held[t] = 1
    <3>1. held[t] >= 2 => ioCount[slot[t]] >= 2
      BY <2>1, RefBounds
    <3>2. held[t] = 1 \/ held[t] >= 2
      BY <2>1 DEF Keep
    <3> QED BY <3>1, <3>2
  <2> QED BY <1>23, <2>1, <2>2 DEF Drop, At, Goto, Resume, Keep, Call, IncIO, DecIO,
           sesVars, srvVars, ThreadInv, TypeOK, TypeThread, TypeSession, Ending, ConstantsOK,
           Threads, Labels, Returns
<1>24. CASE Release(t) BY <1>24 DEF Release
<1>25. CASE LeaveEvent(t) BY <1>25 DEF LeaveEvent
<1>26. CASE Drain(t) BY <1>26 DEF Drain
<1>27. CASE Push(t) BY <1>27 DEF Push
<1> QED BY <1>1, <1>2, <1>3, <1>4, <1>5, <1>6, <1>7, <1>8, <1>9, <1>10, <1>11, <1>12,
         <1>13, <1>14, <1>15, <1>16, <1>17, <1>18, <1>19, <1>20, <1>21, <1>22, <1>23, <1>24,
         <1>25, <1>26, <1>27 DEF Inside

\* What a step can write, by the label it starts at.
LEMMA InsideFrame ==
  ASSUME TypeOK, NEW t \in Threads, ThreadInv(t), Inside(t)
  PROVE  /\ pc[t] # "idle"
         /\ pc[t] = "acount" \/ slot[t] \in Slots
         /\ pc[t] # "aset" => clientId' = clientId
         /\ pc[t] # "ajoin" => joined' = joined
         /\ pc[t] # "leave" => left' = left
         /\ pc[t] # "push" => free' = free
         /\ pc[t] # "acount" => nextId' = nextId
         /\ pc[t] \notin {"aflag", "release"} => releaseFlag' = releaseFlag
         /\ pc[t] \notin {"sendio", "recvio"} => io' = io
         /\ pc[t] \notin {"enqueue", "sdone", "drain"} => sendQ' = sendQ
         /\ pc[t] \notin {"aset", "post", "unsend", "sreset"} => sending' = sending
         /\ pc[t] \notin {"ainc", "inc", "sinc", "rinc", "drop"} => ioCount' = ioCount
<1> USE DEF At, sesVars, srvVars, ThreadInv
<1>1. CASE AcceptSet(t) BY <1>1 DEF AcceptSet
<1>2. CASE AcceptInc(t) BY <1>2 DEF AcceptInc
<1>3. CASE AcceptFlag(t) BY <1>3 DEF AcceptFlag
<1>4. CASE AcceptJoin(t) BY <1>4 DEF AcceptJoin
<1>5. CASE AcceptCount(t) BY <1>5 DEF AcceptCount
<1>6. CASE Check(t) BY <1>6 DEF Check
<1>7. CASE Inc(t) BY <1>7 DEF Inc
<1>8. CASE Flag(t) BY <1>8 DEF Flag
<1>9. CASE Recheck(t) BY <1>9 DEF Recheck
<1>10. CASE Enqueue(t) BY <1>10 DEF Enqueue
<1>11. CASE ShutSock(t) BY <1>11 DEF ShutSock
<1>12. CASE Post(t) BY <1>12 DEF Post
<1>13. CASE Size(t) BY <1>13 DEF Size
<1>14. CASE Unsend(t) BY <1>14 DEF Unsend
<1>15. CASE Resize(t) BY <1>15 DEF Resize
<1>16. CASE SendInc(t) BY <1>16 DEF SendInc
<1>17. CASE SendIO(t) BY <1>17 DEF SendIO
<1>18. CASE RecvInc(t) BY <1>18 DEF RecvInc
<1>19. CASE RecvIO(t) BY <1>19 DEF RecvIO
<1>20. CASE Proc(t) BY <1>20 DEF Proc
<1>21. CASE SendDone(t) BY <1>21 DEF SendDone
<1>22. CASE SendReset(t) BY <1>22 DEF SendReset
<1>23. CASE Drop(t) BY <1>23 DEF Drop
<1>24. CASE Release(t) BY <1>24 DEF Release
<1>25. CASE LeaveEvent(t) BY <1>25 DEF LeaveEvent
<1>26. CASE Drain(t) BY <1>26 DEF Drain
<1>27. CASE Push(t) BY <1>27 DEF Push
<1> QED BY <1>1, <1>2, <1>3, <1>4, <1>5, <1>6, <1>7, <1>8, <1>9, <1>10, <1>11, <1>12,
         <1>13, <1>14, <1>15, <1>16, <1>17, <1>18, <1>19, <1>20, <1>21, <1>22, <1>23, <1>24,
         <1>25, <1>26, <1>27 DEF Inside

\* Where a thread can go, and with which slot.
LEMMA InsideFlow ==
  ASSUME TypeOK, NEW t \in Threads, ThreadInv(t), Inside(t)
  PROVE  /\ pc'[t] # "aset"
         /\ pc'[t] = "ainc" => pc[t] = "aset"
         /\ pc'[t] = "aflag" => pc[t] = "ainc"
         /\ pc'[t] = "ajoin" => pc[t] = "aflag"
         /\ pc[t] = "aset" => pc'[t] = "ainc"
         /\ pc[t] = "ainc" => pc'[t] = "aflag"
         /\ pc[t] = "aflag" => pc'[t] = "ajoin"
         /\ pc'[t] = "leave" => pc[t] = "release"
         /\ pc'[t] = "drain" => pc[t] = "leave"
         /\ pc'[t] = "push" => pc[t] = "drain"
         /\ pc[t] = "leave" => pc'[t] = "drain"
         /\ pc[t] = "drain" => pc'[t] = "push"
         /\ slot'[t] = slot[t] \/ (slot'[t] = NoSlot /\ pc'[t] \in {"idle", "acount"})
<1> USE DEF At, Goto, Resume, Keep, Call, sesVars, srvVars, ThreadInv, TypeOK,
         TypeThread, Returns
<1>1. CASE AcceptSet(t) BY <1>1 DEF AcceptSet
<1>2. CASE AcceptInc(t) BY <1>2 DEF AcceptInc
<1>3. CASE AcceptFlag(t) BY <1>3 DEF AcceptFlag
<1>4. CASE AcceptJoin(t) BY <1>4 DEF AcceptJoin
<1>5. CASE AcceptCount(t) BY <1>5 DEF AcceptCount
<1>6. CASE Check(t) BY <1>6 DEF Check
<1>7. CASE Inc(t) BY <1>7 DEF Inc
<1>8. CASE Flag(t) BY <1>8 DEF Flag
<1>9. CASE Recheck(t) BY <1>9 DEF Recheck
<1>10. CASE Enqueue(t) BY <1>10 DEF Enqueue
<1>11. CASE ShutSock(t) BY <1>11 DEF ShutSock
<1>12. CASE Post(t) BY <1>12 DEF Post
<1>13. CASE Size(t) BY <1>13 DEF Size
<1>14. CASE Unsend(t) BY <1>14 DEF Unsend
<1>15. CASE Resize(t) BY <1>15 DEF Resize
<1>16. CASE SendInc(t) BY <1>16 DEF SendInc
<1>17. CASE SendIO(t) BY <1>17 DEF SendIO
<1>18. CASE RecvInc(t) BY <1>18 DEF RecvInc
<1>19. CASE RecvIO(t) BY <1>19 DEF RecvIO
<1>20. CASE Proc(t) BY <1>20 DEF Proc
<1>21. CASE SendDone(t) BY <1>21 DEF SendDone
<1>22. CASE SendReset(t) BY <1>22 DEF SendReset
<1>23. CASE Drop(t) BY <1>23 DEF Drop
<1>24. CASE Release(t) BY <1>24 DEF Release
<1>25. CASE LeaveEvent(t) BY <1>25 DEF LeaveEvent
<1>26. CASE Drain(t) BY <1>26 DEF Drain
<1>27. CASE Push(t) BY <1>27 DEF Push
<1> QED BY <1>1, <1>2, <1>3, <1>4, <1>5, <1>6, <1>7, <1>8, <1>9, <1>10, <1>11, <1>12,
         <1>13, <1>14, <1>15, <1>16, <1>17, <1>18, <1>19, <1>20, <1>21, <1>22, <1>23, <1>24,
         <1>25, <1>26, <1>27 DEF Inside

\* The acceptor comes back from RecvPost to count the connection.
LEMMA InsideReturn ==
  ASSUME TypeOK, NEW t \in Threads, ThreadInv(t), Inside(t)
  PROVE  cont[t] = "acount" => pc'[t] = "acount" \/ cont'[t] = "acount"
<1> USE DEF At, Goto, Resume, Keep, Call, sesVars, srvVars, ThreadInv, TypeOK,
         TypeThread, Returns
<1>1. CASE AcceptSet(t) BY <1>1 DEF AcceptSet
<1>2. CASE AcceptInc(t) BY <1>2 DEF AcceptInc
<1>3. CASE AcceptFlag(t) BY <1>3 DEF AcceptFlag
<1>4. CASE AcceptJoin(t) BY <1>4 DEF AcceptJoin
<1>5. CASE AcceptCount(t) BY <1>5 DEF AcceptCount
<1>6. CASE Check(t) BY <1>6 DEF Check
<1>7. CASE Inc(t) BY <1>7 DEF Inc
<1>8. CASE Flag(t) BY <1>8 DEF Flag
<1>9. CASE Recheck(t) BY <1>9 DEF Recheck
<1>10. CASE Enqueue(t) BY <1>10 DEF Enqueue
<1>11. CASE ShutSock(t) BY <1>11 DEF ShutSock
<1>12. CASE Post(t) BY <1>12 DEF Post
<1>13. CASE Size(t) BY <1>13 DEF Size
<1>14. CASE Unsend(t) BY <1>14 DEF Unsend
<1>15. CASE Resize(t) BY <1>15 DEF Resize
<1>16. CASE SendInc(t) BY <1>16 DEF SendInc
<1>17. CASE SendIO(t) BY <1>17 DEF SendIO
<1>18. CASE RecvInc(t) BY <1>18 DEF RecvInc
<1>19. CASE RecvIO(t) BY <1>19 DEF RecvIO
<1>20. CASE Proc(t) BY <1>20 DEF Proc
<1>21. CASE SendDone(t) BY <1>21 DEF SendDone
<1>22. CASE SendReset(t) BY <1>22 DEF SendReset
<1>23. CASE Drop(t) BY <1>23 DEF Drop
<1>24. CASE Release(t) BY <1>24 DEF Release
<1>25. CASE LeaveEvent(t) BY <1>25 DEF LeaveEvent
<1>26. CASE Drain(t) BY <1>26 DEF Drain
<1>27. CASE Push(t) BY <1>27 DEF Push
<1> QED BY <1>1, <1>2, <1>3, <1>4, <1>5, <1>6, <1>7, <1>8, <1>9, <1>10, <1>11, <1>12,
         <1>13, <1>14, <1>15, <1>16, <1>17, <1>18, <1>19, <1>20, <1>21, <1>22, <1>23, <1>24,
         <1>25, <1>26, <1>27 DEF Inside

\* Only these labels move a unit of IOCount; a thread lets go of a slot it holds no unit of.
LEMMA InsideHeld ==
  ASSUME TypeOK, NEW t \in Threads, ThreadInv(t), Inside(t)
  PROVE  pc[t] \notin {"ainc", "inc", "sinc", "rinc", "drop", "sendio", "recvio"} =>
           held'[t] = held[t] /\ (slot'[t] = slot[t] \/ held[t] = 0)
<1> USE DEF At, Goto, Resume, Keep, Call, sesVars, srvVars, ThreadInv, TypeOK, TypeThread
<1>1. CASE AcceptSet(t) BY <1>1 DEF AcceptSet
<1>2. CASE AcceptInc(t) BY <1>2 DEF AcceptInc
<1>3. CASE AcceptFlag(t) BY <1>3 DEF AcceptFlag
<1>4. CASE AcceptJoin(t) BY <1>4 DEF AcceptJoin
<1>5. CASE AcceptCount(t) BY <1>5 DEF AcceptCount
<1>6. CASE Check(t) BY <1>6 DEF Check
<1>7. CASE Inc(t) BY <1>7 DEF Inc
<1>8. CASE Flag(t) BY <1>8 DEF Flag
<1>9. CASE Recheck(t) BY <1>9 DEF Recheck
<1>10. CASE Enqueue(t) BY <1>10 DEF Enqueue
<1>11. CASE ShutSock(t) BY <1>11 DEF ShutSock
<1>12. CASE Post(t) BY <1>12 DEF Post
<1>13. CASE Size(t) BY <1>13 DEF Size
<1>14. CASE Unsend(t) BY <1>14 DEF Unsend
<1>15. CASE Resize(t) BY <1>15 DEF Resize
<1>16. CASE SendInc(t) BY <1>16 DEF SendInc
<1>17. CASE SendIO(t) BY <1>17 DEF SendIO
<1>18. CASE RecvInc(t) BY <1>18 DEF RecvInc
<1>19. CASE RecvIO(t) BY <1>19 DEF RecvIO
<1>20. CASE Proc(t) BY <1>20 DEF Proc
<1>21. CASE SendDone(t) BY <1>21 DEF SendDone
<1>22. CASE SendReset(t) BY <1>22 DEF SendReset
<1>23. CASE Drop(t) BY <1>23 DEF Drop
<1>24. CASE Release(t) BY <1>24 DEF Release
<1>25. CASE LeaveEvent(t) BY <1>25 DEF LeaveEvent
<1>26. CASE Drain(t) BY <1>26 DEF Drain
<1>27. CASE Push(t) BY <1>27 DEF Push
<1> QED BY <1>1, <1>2, <1>3, <1>4, <1>5, <1>6, <1>7, <1>8, <1>9, <1>10, <1>11, <1>12,
         <1>13, <1>14, <1>15, <1>16, <1>17, <1>18, <1>19, <1>20, <1>21, <1>22, <1>23, <1>24,
         <1>25, <1>26, <1>27 DEF Inside

\* How a thread comes by the session it works on.
LEMMA InsideSecure ==
  ASSUME ConstantsOK, TypeOK, NEW t \in Threads, ThreadInv(t), Inside(t)
  PROVE  /\ Secure(t)' => Secure(t) \/ pc[t] \in {"aflag", "recheck"}
         /\ Secure(t)' \/ pc'[t] = "recheck" => slot'[t] = slot[t]
         /\ pc'[t] = "recheck" => pc[t] = "flag" /\ releaseFlag[slot[t]] = 0
         /\ Secure(t)' /\ pc[t] = "recheck" => Secure(t) \/ id[t] = clientId[slot[t]]
<1> USE DEF Secure, Locked, At, Goto, Resume, Keep, Call, sesVars, srvVars, ThreadInv,
         TypeOK, TypeThread, TypeSession, Returns, Ending
<1>1. CASE AcceptSet(t) BY <1>1 DEF AcceptSet
<1>2. CASE AcceptInc(t) BY <1>2 DEF AcceptInc
<1>3. CASE AcceptFlag(t) BY <1>3 DEF AcceptFlag
<1>4. CASE AcceptJoin(t) BY <1>4 DEF AcceptJoin
<1>5. CASE AcceptCount(t) BY <1>5 DEF AcceptCount
<1>6. CASE Check(t) BY <1>6 DEF Check
<1>7. CASE Inc(t) BY <1>7 DEF Inc
<1>8. CASE Flag(t) BY <1>8 DEF Flag
<1>9. CASE Recheck(t) BY <1>9 DEF Recheck
<1>10. CASE Enqueue(t) BY <1>10 DEF Enqueue
<1>11. CASE ShutSock(t) BY <1>11 DEF ShutSock
<1>12. CASE Post(t) BY <1>12 DEF Post
<1>13. CASE Size(t) BY <1>13 DEF Size
<1>14. CASE Unsend(t) BY <1>14 DEF Unsend
<1>15. CASE Resize(t) BY <1>15 DEF Resize
<1>16. CASE SendInc(t) BY <1>16 DEF SendInc
<1>17. CASE SendIO(t) BY <1>17 DEF SendIO
<1>18. CASE RecvInc(t) BY <1>18 DEF RecvInc
<1>19. CASE RecvIO(t) BY <1>19 DEF RecvIO
<1>20. CASE Proc(t) BY <1>20 DEF Proc
<1>21. CASE SendDone(t) BY <1>21 DEF SendDone
<1>22. CASE SendReset(t) BY <1>22 DEF SendReset
<1>23. CASE Drop(t) BY <1>23 DEF Drop
<1>24. CASE Release(t) BY <1>24 DEF Release
<1>25. CASE LeaveEvent(t) BY <1>25 DEF LeaveEvent
<1>26. CASE Drain(t) BY <1>26 DEF Drain
<1>27. CASE Push(t) BY <1>27 DEF Push
<1> QED BY <1>1, <1>2, <1>3, <1>4, <1>5, <1>6, <1>7, <1>8, <1>9, <1>10, <1>11, <1>12,
         <1>13, <1>14, <1>15, <1>16, <1>17, <1>18, <1>19, <1>20, <1>21, <1>22, <1>23, <1>24,
         <1>25, <1>26, <1>27 DEF Inside

\* The id a thread calls AcquireSessionLock with, and what it found there.
LEMMA InsideId ==
  ASSUME ConstantsOK, TypeOK, NEW t \in Threads, ThreadInv(t), Inside(t)
  PROVE  /\ pc'[t] \in {"enqueue", "shutdown"} =>
              /\ pc[t] = "recheck" /\ id[t] = clientId[slot[t]]
              /\ id'[t] = id[t] /\ slot'[t] = slot[t]
         /\ pc'[t] \in {"inc", "flag", "recheck"} =>
              pc[t] \in {"check", "inc", "flag"} /\ id'[t] = id[t]
         /\ pc'[t] = "check" =>
              pc[t] \in {"sendio", "recvio", "proc"} /\ id'[t] = clientId[slot[t]]
         /\ pc'[t] \notin {"idle", "acount", "aset", "ainc", "aflag", "ajoin"} =>
              pc[t] \notin {"idle", "acount", "aset", "ainc", "aflag"} /\ slot'[t] = slot[t]
<1> USE DEF At, Goto, Resume, Keep, Call, sesVars, srvVars, ThreadInv, TypeOK,
         TypeThread, TypeSession, Returns, Ending
<1>1. CASE AcceptSet(t) BY <1>1 DEF AcceptSet
<1>2. CASE AcceptInc(t) BY <1>2 DEF AcceptInc
<1>3. CASE AcceptFlag(t) BY <1>3 DEF AcceptFlag
<1>4. CASE AcceptJoin(t) BY <1>4 DEF AcceptJoin
<1>5. CASE AcceptCount(t) BY <1>5 DEF AcceptCount
<1>6. CASE Check(t) BY <1>6 DEF Check
<1>7. CASE Inc(t) BY <1>7 DEF Inc
<1>8. CASE Flag(t) BY <1>8 DEF Flag
<1>9. CASE Recheck(t) BY <1>9 DEF Recheck
<1>10. CASE Enqueue(t) BY <1>10 DEF Enqueue
<1>11. CASE ShutSock(t) BY <1>11 DEF ShutSock
<1>12. CASE Post(t) BY <1>12 DEF Post
<1>13. CASE Size(t) BY <1>13 DEF Size
<1>14. CASE Unsend(t) BY <1>14 DEF Unsend
<1>15. CASE Resize(t) BY <1>15 DEF Resize
<1>16. CASE SendInc(t) BY <1>16 DEF SendInc
<1>17. CASE SendIO(t) BY <1>17 DEF SendIO
<1>18. CASE RecvInc(t) BY <1>18 DEF RecvInc
<1>19. CASE RecvIO(t) BY <1>19 DEF RecvIO
<1>20. CASE Proc(t) BY <1>20 DEF Proc
<1>21. CASE SendDone(t) BY <1>21 DEF SendDone
<1>22. CASE SendReset(t) BY <1>22 DEF SendReset
<1>23. CASE Drop(t) BY <1>23 DEF Drop
<1>24. CASE Release(t) BY <1>24 DEF Release
<1>25. CASE LeaveEvent(t) BY <1>25 DEF LeaveEvent
<1>26. CASE Drain(t) BY <1>26 DEF Drain
<1>27. CASE Push(t) BY <1>27 DEF Push
<1> QED BY <1>1, <1>2, <1>3, <1>4, <1>5, <1>6, <1>7, <1>8, <1>9, <1>10, <1>11, <1>12,
         <1>13, <1>14, <1>15, <1>16, <1>17, <1>18, <1>19, <1>20, <1>21, <1>22, <1>23, <1>24,
         <1>25, <1>26, <1>27 DEF Inside

\* Which step makes a thread the receiver or the sender of a session, and which
\* one ends it.
LEMMA InsideRequest ==
  ASSUME ConstantsOK, TypeOK, NEW t \in Threads, ThreadInv(t), Inside(t)
  PROVE  /\ Receiving(t)' => slot'[t] = slot[t] /\ (Receiving(t) \/ pc[t] = "aflag")
         /\ Receiving(t)' => io' = io \/ io' = [io EXCEPT ![slot[t]] = @ \cup {"send"}]
         /\ Sender(t)' => slot'[t] = slot[t] /\ (Sender(t) \/ pc[t] = "post")
         /\ Sender(t)' => io' = io \/ io' = [io EXCEPT ![slot[t]] = @ \cup {"recv"}]
         /\ Sender(t)' /\ pc[t] = "post" =>
              ~sending[slot[t]] /\ sending' = [sending EXCEPT ![slot[t]] = TRUE]
         /\ Sender(t)' => pc[t] \notin {"aset", "unsend", "sreset"}
         /\ pc[t] = "sendio" => Sender(t) /\ slot[t] \in Slots
         /\ pc[t] = "recvio" => Receiving(t) /\ slot[t] \in Slots
<1> USE DEF Receiving, Sender, At, Goto, Resume, Keep, Call, sesVars, srvVars,
         ThreadInv, TypeOK, TypeThread, TypeSession, Returns, Ending
<1>1. CASE AcceptSet(t) BY <1>1 DEF AcceptSet
<1>2. CASE AcceptInc(t) BY <1>2 DEF AcceptInc
<1>3. CASE AcceptFlag(t) BY <1>3 DEF AcceptFlag
<1>4. CASE AcceptJoin(t) BY <1>4 DEF AcceptJoin
<1>5. CASE AcceptCount(t) BY <1>5 DEF AcceptCount
<1>6. CASE Check(t) BY <1>6 DEF Check
<1>7. CASE Inc(t) BY <1>7 DEF Inc
<1>8. CASE Flag(t) BY <1>8 DEF Flag
<1>9. CASE Recheck(t) BY <1>9 DEF Recheck
<1>10. CASE Enqueue(t) BY <1>10 DEF Enqueue
<1>11. CASE ShutSock(t) BY <1>11 DEF ShutSock
<1>12. CASE Post(t) BY <1>12 DEF Post
<1>13. CASE Size(t) BY <1>13 DEF Size
<1>14. CASE Unsend(t) BY <1>14 DEF Unsend
<1>15. CASE Resize(t) BY <1>15 DEF Resize
<1>16. CASE SendInc(t) BY <1>16 DEF SendInc
<1>17. CASE SendIO(t) BY <1>17 DEF SendIO
<1>18. CASE RecvInc(t) BY <1>18 DEF RecvInc
<1>19. CASE RecvIO(t) BY <1>19 DEF RecvIO
<1>20. CASE Proc(t) BY <1>20 DEF Proc
<1>21. CASE SendDone(t) BY <1>21 DEF SendDone
<1>22. CASE SendReset(t) BY <1>22 DEF SendReset
<1>23. CASE Drop(t) BY <1>23 DEF Drop
<1>24. CASE Release(t) BY <1>24 DEF Release
<1>25. CASE LeaveEvent(t) BY <1>25 DEF LeaveEvent
<1>26. CASE Drain(t) BY <1>26 DEF Drain
<1>27. CASE Push(t) BY <1>27 DEF Push
<1> QED BY <1>1, <1>2, <1>3, <1>4, <1>5, <1>6, <1>7, <1>8, <1>9, <1>10, <1>11, <1>12,
         <1>13, <1>14, <1>15, <1>16, <1>17, <1>18, <1>19, <1>20, <1>21, <1>22, <1>23, <1>24,
         <1>25, <1>26, <1>27 DEF Inside

-----------------------------------------------------------------------------
(* Types *)

LEMMA GotoType ==
  ASSUME TypeThread, NEW t \in Threads, NEW l \in Labels, Goto(t, l)
  PROVE  pc' \in [Threads -> Labels]
BY DEF TypeThread, Goto

LEMMA ResumeType ==
  ASSUME TypeThread, NEW t \in Threads, NEW h \in Nat, Resume(t, h)
  PROVE  TypeThread'
<1>1. held' \in [Threads -> Nat] BY DEF TypeThread, Resume
<1>2. CASE h > Keep(t)
  BY <1>1, <1>2 DEF TypeThread, Resume, Goto, Labels
<1>3. CASE ~(h > Keep(t))
  <2>1. pc' \in [Threads -> Labels]
    BY <1>3 DEF TypeThread, Resume, Goto, Labels, Returns
  <2>2. slot' \in [Threads -> Slots \cup {NoSlot}]
    BY <1>3 DEF TypeThread, Resume
  <2>3. cont' \in [Threads -> Returns]
    BY <1>3 DEF TypeThread, Resume, Returns
  <2>4. id' \in [Threads -> ClientIds \cup {NoId}]
    BY <1>3 DEF TypeThread, Resume
  <2>5. op' \in [Threads -> {"send", "disc"}]
    BY <1>3 DEF TypeThread, Resume
  <2> QED BY <1>1, <2>1, <2>2, <2>3, <2>4, <2>5 DEF TypeThread
<1> QED BY <1>2, <1>3

LEMMA CallType ==
  ASSUME TypeThread, NEW t \in Threads, NEW i \in ClientIds \cup {NoId},
         NEW o \in {"send", "disc"}, NEW c \in Returns, Call(t, i, o, c)
  PROVE  /\ pc' \in [Threads -> Labels]
         /\ id' \in [Threads -> ClientIds \cup {NoId}]
         /\ op' \in [Threads -> {"send", "disc"}]
         /\ cont' \in [Threads -> Returns]
BY DEF TypeThread, Call, Goto, Labels, Returns

LEMMA CountType ==
  ASSUME ioCount \in [Slots -> Nat], NEW s \in Slots
  PROVE  /\ IncIO(s) => ioCount' \in [Slots -> Nat]
         /\ DecIO(s) /\ ioCount[s] >= 1 => ioCount' \in [Slots -> Nat]
BY DEF IncIO, DecIO

LEMMA IoType ==
  ASSUME io \in [Slots -> SUBSET {"recv", "send"}], NEW s \in Slots, NEW k \in {"recv", "send"}
  PROVE  /\ [io EXCEPT ![s] = @ \cup {k}] \in [Slots -> SUBSET {"recv", "send"}]
         /\ [io EXCEPT ![s] = @ \ {k}] \in [Slots -> SUBSET {"recv", "send"}]
<1>1. io[s] \cup {k} \in SUBSET {"recv", "send"} /\ io[s] \ {k} \in SUBSET {"recv", "send"}
  OBVIOUS
<1> QED BY <1>1

LEMMA TypeThreadInside ==
  ASSUME ConstantsOK, TypeOK, NEW t \in Threads, ThreadInv(t), Inside(t)
  PROVE  TypeThread'
<1> USE DEF At, TypeOK, TypeThread, TypeSession, ThreadInv, Labels, Returns, Keep
<1>1. CASE AcceptSet(t) BY <1>1, GotoType DEF AcceptSet
<1>2. CASE AcceptInc(t) BY <1>2, GotoType DEF AcceptInc
<1>3. CASE AcceptFlag(t) BY <1>3, GotoType DEF AcceptFlag
<1>4. CASE AcceptJoin(t) BY <1>4, GotoType DEF AcceptJoin
<1>5. CASE AcceptCount(t) BY <1>5, GotoType DEF AcceptCount
<1>6. CASE Check(t) BY <1>6, ResumeType, GotoType, CallType DEF Check
<1>7. CASE Inc(t) BY <1>7, GotoType DEF Inc
<1>8. CASE Flag(t) BY <1>8, GotoType DEF Flag
<1>9. CASE Recheck(t) BY <1>9, GotoType DEF Recheck
<1>10. CASE Enqueue(t) BY <1>10, GotoType DEF Enqueue
<1>11. CASE ShutSock(t) BY <1>11, GotoType DEF ShutSock
<1>12. CASE Post(t) BY <1>12, ResumeType, GotoType, CallType DEF Post
<1>13. CASE Size(t) BY <1>13, GotoType DEF Size
<1>14. CASE Unsend(t) BY <1>14, GotoType DEF Unsend
<1>15. CASE Resize(t) BY <1>15, ResumeType, GotoType, CallType DEF Resize
<1>16. CASE SendInc(t) BY <1>16, GotoType DEF SendInc
<1>17. CASE SendIO(t) BY <1>17, ResumeType, GotoType, CallType, SMTT(30) DEF SendIO
<1>18. CASE RecvInc(t) BY <1>18, GotoType DEF RecvInc
<1>19. CASE RecvIO(t) BY <1>19, ResumeType, GotoType, CallType DEF RecvIO
<1>20. CASE Proc(t) BY <1>20, ResumeType, GotoType, CallType DEF Proc
<1>21. CASE SendDone(t) BY <1>21, GotoType DEF SendDone
<1>22. CASE SendReset(t) BY <1>22, GotoType DEF SendReset
<1>23. CASE Drop(t)
  <2>1. held[t] - 1 \in Nat /\ TypeThread
    BY <1>23 DEF Drop, At, ThreadInv, Keep, TypeOK, TypeThread
  <2>2. CASE Resume(t, held[t] - 1)
    BY <2>1, <2>2, ResumeType
  <2>3. CASE Goto(t, "release") /\ held' = [held EXCEPT ![t] = @ - 1] /\ UNCHANGED <<slot, id, op, cont>>
    BY <2>1, <2>3 DEF TypeThread, Goto, Labels
  <2> QED BY <1>23, <2>2, <2>3 DEF Drop
<1>24. CASE Release(t) BY <1>24, ResumeType, GotoType, CallType, SMTT(30) DEF Release
<1>25. CASE LeaveEvent(t) BY <1>25, GotoType DEF LeaveEvent
<1>26. CASE Drain(t) BY <1>26, GotoType DEF Drain
<1>27. CASE Push(t) BY <1>27, ResumeType, GotoType, CallType DEF Push
<1> QED BY <1>1, <1>2, <1>3, <1>4, <1>5, <1>6, <1>7, <1>8, <1>9, <1>10, <1>11, <1>12,
         <1>13, <1>14, <1>15, <1>16, <1>17, <1>18, <1>19, <1>20, <1>21, <1>22, <1>23, <1>24,
         <1>25, <1>26, <1>27 DEF Inside

LEMMA TypeSessionInside ==
  ASSUME ConstantsOK, IInv, NEW t \in Threads, Inside(t)
  PROVE  TypeSession' /\ TypeServer'
<1>a. pc[t] \notin {"idle", "acount"} => slot[t] \in Slots
  BY DEF IInv, ThreadInv
<1>b. pc[t] = "drop" => held[t] >= 1
  BY DEF IInv, ThreadInv, Keep, TypeOK, TypeThread
<1> USE DEF IInv, At, TypeOK, TypeThread, TypeSession, TypeServer, ThreadInv, sesVars,
         srvVars
<1>1. CASE AcceptSet(t)
  <2>1. slot[t] \in Slots /\ nextId \in Nat /\ <<slot[t], nextId>> \in ClientIds
    BY <1>1 DEF AcceptSet, At, ThreadInv, TypeOK, TypeServer, ClientIds
  <2> QED BY <1>1, <2>1 DEF AcceptSet, TypeOK, TypeSession, TypeServer, srvVars
<1>2. CASE AcceptInc(t) BY <1>2, CountType DEF AcceptInc
<1>3. CASE AcceptFlag(t) BY <1>3, CountType DEF AcceptFlag
<1>4. CASE AcceptJoin(t)
  <2>1. slot[t] \in Slots /\ pc[t] = "ajoin"
    BY <1>4, <1>a DEF AcceptJoin, At
  <2>2. clientId[slot[t]] = <<slot[t], nextId>>
    BY <2>1 DEF SlotInv
  <2>3. clientId[slot[t]] \in ClientIds
    BY <2>1, <2>2 DEF TypeOK, TypeServer, ClientIds
  <2> QED BY <1>4, <2>3 DEF AcceptJoin, TypeOK, TypeSession, TypeServer, sesVars
<1>5. CASE AcceptCount(t) BY <1>5, CountType DEF AcceptCount
<1>6. CASE Check(t) BY <1>6, CountType DEF Check
<1>7. CASE Inc(t) BY <1>7, CountType DEF Inc
<1>8. CASE Flag(t) BY <1>8, CountType DEF Flag
<1>9. CASE Recheck(t) BY <1>9, CountType DEF Recheck
<1>10. CASE Enqueue(t)
  <2>1. id[t] \in ClientIds /\ slot[t] \in Slots
    BY <1>10, <1>a DEF Enqueue, At, SecureInv, Secure, Locked, TypeOK, TypeServer
  <2>2. Append(sendQ[slot[t]], id[t]) \in Seq(ClientIds)
    BY <2>1 DEF TypeOK, TypeSession
  <2> QED BY <1>10, <2>1, <2>2 DEF Enqueue, TypeOK, TypeSession, TypeServer, srvVars
<1>11. CASE ShutSock(t) BY <1>11, CountType DEF ShutSock
<1>12. CASE Post(t) BY <1>12, CountType DEF Post
<1>13. CASE Size(t) BY <1>13, CountType DEF Size
<1>14. CASE Unsend(t) BY <1>14, CountType DEF Unsend
<1>15. CASE Resize(t) BY <1>15, CountType DEF Resize
<1>16. CASE SendInc(t) BY <1>16, CountType DEF SendInc
<1>17. CASE SendIO(t)
  <2>1. slot[t] \in Slots BY <1>17 DEF SendIO, At, ThreadInv
  <2>2. sendCount' \in [Slots -> Nat]
    BY <1>17, <2>1 DEF SendIO, TypeOK, TypeSession, ConstantsOK
  <2>3. io' \in [Slots -> SUBSET {"recv", "send"}]
    <3>1. [io EXCEPT ![slot[t]] = @ \cup {"send"}] \in [Slots -> SUBSET {"recv", "send"}]
      BY <2>1, IoType DEF TypeOK, TypeSession
    <3> QED BY <1>17, <3>1, ZenonT(60) DEF SendIO, TypeOK, TypeSession
  <2> QED BY <1>17, <2>2, <2>3 DEF SendIO, TypeOK, TypeSession, TypeServer, srvVars
<1>18. CASE RecvInc(t) BY <1>18, CountType DEF RecvInc
<1>19. CASE RecvIO(t)
  <2>0. slot[t] \in Slots BY <1>19, <1>a DEF RecvIO, At
  <2>1. io' \in [Slots -> SUBSET {"recv", "send"}]
    <3>1. [io EXCEPT ![slot[t]] = @ \cup {"recv"}] \in [Slots -> SUBSET {"recv", "send"}]
      BY <2>0, IoType DEF TypeOK, TypeSession
    <3> QED BY <1>19, <3>1, ZenonT(60) DEF RecvIO, TypeOK, TypeSession
  <2> QED BY <1>19, <2>1 DEF RecvIO, TypeOK, TypeSession, TypeServer, srvVars
<1>20. CASE Proc(t) BY <1>20, CountType DEF Proc
<1>21. CASE SendDone(t)
  <2>1. slot[t] \in Slots
    BY <1>21, <1>a DEF SendDone, At
  <2>2. SubSeq(sendQ[slot[t]], sendCount[slot[t]] + 1, Len(sendQ[slot[t]])) \in Seq(ClientIds)
    BY <2>1 DEF TypeOK, TypeSession
  <2> QED BY <1>21, <2>1, <2>2 DEF SendDone, TypeOK, TypeSession, TypeServer, srvVars
<1>22. CASE SendReset(t) BY <1>22, CountType DEF SendReset
<1>23. CASE Drop(t)
  <2>1. slot[t] \in Slots /\ held[t] >= 1
    BY <1>a, <1>b, <1>23 DEF Drop
  <2>2. ioCount[slot[t]] >= 1
    BY <2>1, RefBounds
  <2> QED BY <1>23, <2>1, <2>2, CountType DEF Drop, TypeOK, TypeSession, TypeServer, srvVars
<1>24. CASE Release(t) BY <1>24, CountType DEF Release
<1>25. CASE LeaveEvent(t)
  <2>1. clientId[slot[t]] \in ClientIds
    BY <1>25, ZenonT(60) DEF LeaveEvent, At, ThreadInv, SlotInv, TypeOK, TypeServer, Ending
  <2> QED BY <1>25, <2>1 DEF LeaveEvent, TypeOK, TypeSession, TypeServer, sesVars
<1>26. CASE Drain(t)
  <2>1. <<>> \in Seq(ClientIds) /\ slot[t] \in Slots
    BY <1>26, <1>a DEF Drain, At
  <2> QED BY <1>26, <2>1 DEF Drain, TypeOK, TypeSession, TypeServer, srvVars
<1>27. CASE Push(t)
  <2>1. slot[t] \in Slots
    BY <1>27, <1>a DEF Push, At
  <2> QED BY <1>27, <2>1 DEF Push, TypeOK, TypeSession, TypeServer, sesVars
<1> QED BY <1>1, <1>2, <1>3, <1>4, <1>5, <1>6, <1>7, <1>8, <1>9, <1>10, <1>11, <1>12,
         <1>13, <1>14, <1>15, <1>16, <1>17, <1>18, <1>19, <1>20, <1>21, <1>22, <1>23, <1>24,
         <1>25, <1>26, <1>27 DEF Inside


-----------------------------------------------------------------------------
(* Who holds a session, and when it is released *)

LEMMA SecureFacts ==
  ASSUME ConstantsOK, IInv, NEW t \in Threads, Secure(t)
  PROVE  /\ slot[t] \in Slots /\ held[t] >= 1 /\ ioCount[slot[t]] >= 1
         /\ Live(slot[t]) /\ releaseFlag[slot[t]] = 0
<1>1. ThreadInv(t) /\ SecureInv(t) /\ TypeOK /\ RefCount
  BY DEF IInv
<1>2. slot[t] \in Slots /\ held[t] >= 1
  BY <1>1 DEF ThreadInv, Secure, Locked, Keep, TypeOK, TypeThread, Labels, Ending
<1>3. ioCount[slot[t]] >= 1
  BY <1>1, <1>2, RefBounds
<1>4. Live(slot[t])
  BY <1>1 DEF SecureInv
<1>5. SlotInv(slot[t])
  BY <1>2 DEF IInv
<1> QED BY <1>2, <1>3, <1>4, <1>5 DEF SlotInv

\* Why the compare-and-swap is safe: when it succeeds, nobody holds the session.
LEMMA ReleaseFacts ==
  ASSUME ConstantsOK, IInv, NEW t \in Threads, pc[t] = "release",
         ioCount[slot[t]] = 0, releaseFlag[slot[t]] = 0
  PROVE  /\ slot[t] \in Slots /\ Live(slot[t]) /\ io[slot[t]] = {}
         /\ clientId[slot[t]] \in joined \ left
         /\ \A u \in Threads : slot[u] = slot[t] => held[u] = 0
         /\ \A u \in Threads : slot[u] = slot[t] => ~Secure(u)
<1> DEFINE s == slot[t]
<1>1. TypeOK /\ RefCount /\ ThreadInv(t) /\ SecureInv(t) /\ s \in Slots
  BY DEF IInv, ThreadInv
<1>2. ~Fresh(s)
  BY <1>1 DEF SecureInv
<1>3. SlotInv(s)
  BY <1>1 DEF IInv
<1> HIDE DEF s
<1>4. \A u \in Threads : slot[u] = s => held[u] = 0
  <2> SUFFICES ASSUME NEW u \in Threads, slot[u] = s, held[u] # 0 PROVE FALSE
    OBVIOUS
  <2>1. held[u] >= 1 BY <1>1 DEF TypeOK, TypeThread
  <2>2. ioCount[s] >= 1 BY <1>1, <2>1, RefBounds
  <2> QED BY <2>2 DEF s
<1>5. io[s] = {}
  <2>1. io[s] # {} => ioCount[s] >= 1 BY <1>1, RefBounds
  <2> QED BY <2>1 DEF s
<1>6. ~Empty(s)
  BY <1>2 DEF Empty, s
<1>7. Live(s)
  <2>1. s \notin free BY <1>3, <1>6 DEF SlotInv
  <2>2. ASSUME NEW u \in Threads, Owns(u, s) PROVE FALSE
    <3>1. slot[u] = s /\ pc[u] \in Early \cup Ending
      BY <2>2 DEF Owns, Early, Ending
    <3>2. pc[u] \notin Early BY <1>3, <1>6, <3>1 DEF SlotInv
    <3>3. pc[u] \notin Ending BY <1>3, <3>1 DEF SlotInv, s
    <3> QED BY <3>1, <3>2, <3>3
  <2> QED BY <2>1, <2>2 DEF Live
<1>8. ~(slot[Acceptor] = s /\ pc[Acceptor] = "ajoin")
  <2> SUFFICES ASSUME slot[Acceptor] = s, pc[Acceptor] = "ajoin" PROVE FALSE
    OBVIOUS
  <2>1. Acceptor \in Threads BY DEF Threads
  <2>2. held[Acceptor] = 1 BY <2>1 DEF IInv, ThreadInv
  <2> QED BY <2>1, <2>2, <1>4
<1>9. clientId[s] \in joined \ left
  BY <1>3, <1>7, <1>8 DEF SlotInv
<1>10. ASSUME NEW u \in Threads, slot[u] = s PROVE ~Secure(u)
  BY <1>4, <1>10, SecureFacts
<1> QED BY <1>1, <1>4, <1>5, <1>7, <1>9, <1>10 DEF s


LEMMA RefCountInside ==
  ASSUME ConstantsOK, IInv, TypeOK', NEW t \in Threads, Inside(t)
  PROVE  RefCount'
<1>a. TypeOK /\ RefCount /\ ThreadInv(t) /\ held[t] \in Nat
  BY DEF IInv, TypeOK, TypeThread
<1>b. OthersKeep(t)
  BY <1>a, InsideOthers DEF OthersKeep
<1>1. CASE pc[t] \notin {"ainc", "inc", "sinc", "rinc", "drop", "sendio", "recvio"}
  BY <1>a, <1>b, <1>1, InsideHeld, InsideFrame, RefsSame
<1>2. CASE AcceptInc(t)
  <2>1. held'[t] = held[t] + 1 /\ slot'[t] = slot[t] /\ slot[t] \in Slots /\ io' = io /\ IncIO(slot[t])
    BY <1>2, <1>a DEF AcceptInc, At, Goto, sesVars, srvVars, ThreadInv, TypeOK, TypeThread
  <2> QED BY <1>a, <1>b, <2>1, RefsTake
<1>3. CASE Inc(t)
  <2>1. held'[t] = held[t] + 1 /\ slot'[t] = slot[t] /\ slot[t] \in Slots /\ io' = io /\ IncIO(slot[t])
    BY <1>3, <1>a DEF Inc, At, Goto, sesVars, srvVars, ThreadInv, TypeOK, TypeThread
  <2> QED BY <1>a, <1>b, <2>1, RefsTake
<1>4. CASE SendInc(t)
  <2>1. held'[t] = held[t] + 1 /\ slot'[t] = slot[t] /\ slot[t] \in Slots /\ io' = io /\ IncIO(slot[t])
    BY <1>4, <1>a DEF SendInc, At, Goto, sesVars, srvVars, ThreadInv, TypeOK, TypeThread
  <2> QED BY <1>a, <1>b, <2>1, RefsTake
<1>5. CASE RecvInc(t)
  <2>1. held'[t] = held[t] + 1 /\ slot'[t] = slot[t] /\ slot[t] \in Slots /\ io' = io /\ IncIO(slot[t])
    BY <1>5, <1>a DEF RecvInc, At, Goto, sesVars, srvVars, ThreadInv, TypeOK, TypeThread
  <2> QED BY <1>a, <1>b, <2>1, RefsTake
<1>6. CASE Drop(t)
  <2>1. /\ held[t] >= 1 /\ held'[t] = held[t] - 1 /\ slot[t] \in Slots
        /\ io' = io /\ DecIO(slot[t]) /\ (slot'[t] = slot[t] \/ held[t] = 1)
    BY <1>6, <1>a DEF Drop, At, Goto, Resume, Keep, sesVars, srvVars, ThreadInv, TypeOK,
       TypeThread
  <2> QED BY <1>a, <1>b, <2>1, RefsDrop
<1>7. CASE SendIO(t)
  <2>1. slot[t] \in Slots /\ held[t] >= 1 /\ ioCount' = ioCount
    BY <1>7, <1>a DEF SendIO, At, Keep, ThreadInv, TypeOK, TypeThread
  <2>2. CASE Resume(t, held[t] - 1) /\ io' = [io EXCEPT ![slot[t]] = @ \cup {"send"}]
    <3>1. held'[t] = held[t] - 1 /\ (slot'[t] = slot[t] \/ held[t] = 1)
      BY <2>2, <1>7, <1>a DEF SendIO, At, Resume, Keep, Goto, ThreadInv, TypeOK, TypeThread
    <3>2. Sender(t)
      BY <1>7 DEF SendIO, At, Sender
    <3>3. "send" \notin io[slot[t]]
      BY <2>1, <3>2 DEF IInv, OneRequest
    <3> QED BY <1>a, <1>b, <2>1, <2>2, <3>1, <3>3, RefsPost
  <2>3. CASE Call(t, clientId[slot[t]], "disc", cont[t]) /\ UNCHANGED <<io, slot, held>>
    BY <1>a, <1>b, <2>1, <2>3, RefsSame
  <2> QED BY <1>7, <2>2, <2>3 DEF SendIO
<1>8. CASE RecvIO(t)
  <2>1. slot[t] \in Slots /\ held[t] >= 1 /\ ioCount' = ioCount
    BY <1>8, <1>a DEF RecvIO, At, Keep, ThreadInv, TypeOK, TypeThread
  <2>2. CASE Resume(t, held[t] - 1) /\ io' = [io EXCEPT ![slot[t]] = @ \cup {"recv"}]
    <3>1. held'[t] = held[t] - 1 /\ (slot'[t] = slot[t] \/ held[t] = 1)
      BY <2>2, <1>8, <1>a DEF RecvIO, At, Resume, Keep, Goto, ThreadInv, TypeOK, TypeThread
    <3>2. Receiving(t)
      BY <1>8 DEF RecvIO, At, Receiving
    <3>3. "recv" \notin io[slot[t]]
      BY <2>1, <3>2 DEF IInv, OneRequest
    <3> QED BY <1>a, <1>b, <2>1, <2>2, <3>1, <3>3, RefsPost
  <2>3. CASE Call(t, clientId[slot[t]], "disc", cont[t]) /\ UNCHANGED <<io, slot, held>>
    BY <1>a, <1>b, <2>1, <2>3, RefsSame
  <2> QED BY <1>8, <2>2, <2>3 DEF RecvIO
<1> QED BY <1>1, <1>2, <1>3, <1>4, <1>5, <1>6, <1>7, <1>8, StepAt

\* A step takes a slot only when nobody uses it, and gives it up only at the end
\* of AcceptThreadFunc's initialisation or with the push on _indexStack.
LEMMA OwnsInside ==
  ASSUME ConstantsOK, IInv, NEW t \in Threads, Inside(t), NEW s \in Slots
  PROVE  /\ \A u \in Threads \ {t} : Owns(u, s)' <=> Owns(u, s)
         /\ Owns(t, s)' /\ ~Owns(t, s) => Live(s)
         /\ s \in free' /\ s \notin free => pc[t] = "push" /\ slot[t] = s
         /\ s \in free => s \in free'
         /\ Live(s) /\ ~Live(s)' => /\ pc[t] = "release" /\ slot[t] = s /\ pc'[t] = "leave"
                                    /\ ioCount[s] = 0 /\ releaseFlag[s] = 0
         /\ Live(s)' /\ ~Live(s) => pc[t] = "aflag" /\ slot[t] = s /\ pc'[t] = "ajoin"
<1>1. TypeOK /\ ThreadInv(t)
  BY DEF IInv
<1>2. \A u \in Threads \ {t} : Owns(u, s)' <=> Owns(u, s)
  BY <1>1, InsideOthers DEF Owns
<1>3. IF pc[t] = "push" THEN free' = free \cup {slot[t]} ELSE free' = free
  <2>1. CASE pc[t] = "push"
    BY <2>1, StepAt DEF Push
  <2>2. CASE pc[t] # "push"
    BY <2>2, <1>1, InsideFrame
  <2> QED BY <2>1, <2>2
<1>4. /\ s \in free' /\ s \notin free => pc[t] = "push" /\ slot[t] = s
      /\ s \in free => s \in free'
  BY <1>3
<1>5. pc[t] = "release" /\ pc'[t] = "leave" => ioCount[slot[t]] = 0 /\ releaseFlag[slot[t]] = 0
  BY <1>1, StepAt DEF Release, Resume, Goto, TypeOK, TypeThread, Returns
<1>6. Owns(t, s)' /\ ~Owns(t, s) =>
        /\ pc[t] = "release" /\ slot[t] = s /\ pc'[t] = "leave"
        /\ ioCount[s] = 0 /\ releaseFlag[s] = 0
  <2>1. ASSUME Owns(t, s)', ~Owns(t, s) PROVE pc[t] = "release" /\ slot[t] = s /\ pc'[t] = "leave"
    BY <2>1, <1>1, InsideFlow, ConstantsOK DEF Owns
  <2> QED BY <2>1, <1>5
<1>7. Owns(t, s)' /\ ~Owns(t, s) => Live(s)
  BY <1>6, ReleaseFacts
<1>8. ASSUME Live(s), ~Live(s)' PROVE Owns(t, s)' /\ ~Owns(t, s)
  <2>1. s \notin free /\ \A u \in Threads : ~Owns(u, s)
    BY <1>8 DEF Live
  <2>2. s \in free' => FALSE
    BY <2>1, <1>4 DEF Owns
  <2>3. \E u \in Threads : Owns(u, s)'
    BY <1>8, <2>2 DEF Live
  <2> QED BY <2>1, <2>3, <1>2
<1>9. ASSUME Live(s)', ~Live(s) PROVE pc[t] = "aflag" /\ slot[t] = s /\ pc'[t] = "ajoin"
  <2>1. s \notin free' /\ \A u \in Threads : ~Owns(u, s)'
    BY <1>9 DEF Live
  <2>2. Owns(t, s)
    BY <2>1, <1>9, <1>2, <1>4 DEF Live
  <2>3. pc[t] # "push"
    BY <2>1, <2>2, <1>3 DEF Owns
  <2> QED BY <2>1, <2>2, <2>3, <1>1, InsideFlow, ConstantsOK DEF Owns
<1> QED BY <1>2, <1>4, <1>6, <1>7, <1>8, <1>9

LEMMA OneOwnerInside ==
  ASSUME ConstantsOK, IInv, NEW t \in Threads, Inside(t)
  PROVE  OneOwner'
<1> SUFFICES ASSUME NEW s \in Slots, NEW u \in Threads, Owns(u, s)'
             PROVE  s \notin free' /\ \A v \in Threads : Owns(v, s)' => v = u
  BY DEF OneOwner
<1>1. \A v \in Threads : Owns(v, s) => s \notin free /\ \A w \in Threads : Owns(w, s) => w = v
  BY DEF IInv, OneOwner
<1>2. Live(s) => s \notin free /\ \A v \in Threads : ~Owns(v, s)
  BY DEF Live
<1>3. pc[t] = "push" /\ slot[t] = s => Owns(t, s) /\ ~Owns(t, s)'
  BY InsideFlow DEF Owns, IInv
<1> QED BY <1>1, <1>2, <1>3, OwnsInside

\* One announcement and one end per client.
LEMMA IdInside ==
  ASSUME ConstantsOK, IInv, NEW t \in Threads, Inside(t)
  PROVE  IdInv'
<1>1. TypeOK /\ ThreadInv(t) /\ IdInv /\ Acceptor \in Threads /\ ThreadInv(Acceptor)
  BY DEF IInv, Threads
<1>2. \A s \in Slots : SlotInv(s)
  BY DEF IInv
<1>3. pc[t] = "ajoin" => /\ t = Acceptor /\ slot[t] \in Slots
                        /\ clientId[slot[t]] = <<slot[t], nextId>>
                        /\ joined' = joined \cup {<<slot[t], nextId>>} /\ cont'[t] = "acount"
                        /\ slot[t] \notin free /\ \A u \in Threads : ~Owns(u, slot[t])
  <2> SUFFICES ASSUME pc[t] = "ajoin"
               PROVE  /\ t = Acceptor /\ slot[t] \in Slots
                      /\ clientId[slot[t]] = <<slot[t], nextId>>
                      /\ joined' = joined \cup {<<slot[t], nextId>>} /\ cont'[t] = "acount"
                      /\ slot[t] \notin free /\ \A u \in Threads : ~Owns(u, slot[t])
    OBVIOUS
  <2>1. t = Acceptor /\ slot[t] \in Slots
    BY <1>1 DEF ThreadInv
  <2>2. clientId[slot[t]] = <<slot[t], nextId>>
    BY <2>1, <1>2 DEF SlotInv
  <2>3. AcceptJoin(t)
    BY StepAt
  <2>4. joined' = joined \cup {<<slot[t], nextId>>} /\ cont'[t] = "acount"
    BY <2>2, <2>3, <1>1 DEF AcceptJoin, TypeOK, TypeThread
  <2>5. Live(slot[t])
    BY SecureFacts DEF Secure, Locked
  <2> QED BY <2>1, <2>2, <2>4, <2>5 DEF Live
<1>4. pc[t] = "leave" => /\ slot[t] \in Slots /\ left' = left \cup {clientId[slot[t]]}
                        /\ clientId[slot[t]] \in joined \ left
  <2> SUFFICES ASSUME pc[t] = "leave"
               PROVE  /\ slot[t] \in Slots /\ left' = left \cup {clientId[slot[t]]}
                      /\ clientId[slot[t]] \in joined \ left
    OBVIOUS
  <2>1. slot[t] \in Slots
    BY <1>1 DEF ThreadInv
  <2>2. LeaveEvent(t)
    BY StepAt
  <2>3. clientId[slot[t]] \in joined \ left
    BY <2>1, <1>2 DEF SlotInv, Ending
  <2> QED BY <2>1, <2>2, <2>3 DEF LeaveEvent
<1>5. pc[t] # "ajoin" => joined' = joined
  BY <1>1, InsideFrame
<1>6. pc[t] # "leave" => left' = left
  BY <1>1, InsideFrame
<1>7. (left \subseteq joined)'
  BY <1>1, <1>3, <1>4, <1>5, <1>6 DEF IdInv
<1>8. ASSUME NEW j \in joined'
      PROVE  (\/ j[2] < nextId
              \/ j[2] = nextId /\ (pc[Acceptor] = "acount" \/ cont[Acceptor] = "acount"))'
  <2>1. CASE pc[t] = "ajoin"
    <3>1. nextId' = nextId
      BY <2>1, <1>1, InsideFrame
    <3>2. j \in joined \/ j = <<slot[t], nextId>>
      BY <2>1, <1>3
    <3>3. cont[Acceptor] = "idle" /\ pc[Acceptor] # "acount"
      BY <2>1, <1>1, <1>3 DEF ThreadInv
    <3>4. j \in joined => j[2] < nextId
      BY <3>3, <1>1 DEF IdInv
    <3> QED BY <2>1, <1>3, <3>1, <3>2, <3>4
  <2>2. CASE pc[t] = "acount"
    <3>1. nextId' = nextId + 1
      BY <2>2, StepAt DEF AcceptCount
    <3>2. j \in joined /\ nextId \in Nat /\ j \in ClientIds
      BY <2>2, <1>1, <1>5 DEF TypeOK, TypeServer
    <3>3. j[2] < nextId \/ j[2] = nextId
      BY <3>2, <1>1 DEF IdInv
    <3>4. j[2] \in Nat
      BY <3>2 DEF ClientIds
    <3> QED BY <3>1, <3>2, <3>3, <3>4
  <2>3. CASE pc[t] \notin {"ajoin", "acount"}
    <3>1. nextId' = nextId /\ j \in joined
      BY <2>3, <1>1, <1>5, InsideFrame
    <3>2. pc[Acceptor] = "acount" \/ cont[Acceptor] = "acount" =>
            (pc[Acceptor] = "acount" \/ cont[Acceptor] = "acount")'
      <4>1. CASE t = Acceptor
        BY <2>3, <4>1, <1>1, InsideReturn
      <4>2. CASE t # Acceptor
        BY <4>2, <1>1, InsideOthers
      <4> QED BY <4>1, <4>2
    <3> QED BY <3>1, <3>2, <1>1 DEF IdInv
  <2> QED BY <2>1, <2>2, <2>3
<1>9. ASSUME NEW j \in joined' \ left'
      PROVE  (/\ clientId[j[1]] = j /\ j[1] \notin free
              /\ \A u \in Threads : Owns(u, j[1]) => pc[u] = "leave")'
  <2> DEFINE s == j[1]
  <2>1. j \in ClientIds /\ s \in Slots
    BY <1>3, <1>5, <1>1 DEF TypeOK, TypeServer, ClientIds
  <2>2. clientId[s] = j /\ s \notin free /\ \A u \in Threads : Owns(u, s) => pc[u] = "leave"
    <3>1. CASE j \in joined
      <4>1. j \in joined \ left
        BY <3>1, <1>4, <1>6
      <4> QED BY <4>1, <1>1 DEF IdInv
    <3>2. CASE j \notin joined
      <4>1. pc[t] = "ajoin" /\ j = <<slot[t], nextId>>
        BY <3>2, <1>3, <1>5
      <4> QED BY <4>1, <1>3
    <3> QED BY <3>1, <3>2
  <2> HIDE DEF s
  <2>3. clientId'[s] = j
    <3>1. CASE pc[t] = "aset"
      <4>1. slot[t] # s
        BY <3>1, <2>2 DEF Owns
      <4>2. AcceptSet(t)
        BY <3>1, StepAt
      <4> QED BY <4>1, <4>2, <2>1, <2>2, <1>1 DEF AcceptSet, TypeOK, TypeSession
    <3>2. CASE pc[t] # "aset"
      BY <3>2, <2>2, <1>1, InsideFrame
    <3> QED BY <3>1, <3>2
  <2>4. s \notin free'
    BY <2>1, <2>2, OwnsInside DEF Owns
  <2>5. ASSUME NEW u \in Threads, Owns(u, s)' PROVE pc'[u] = "leave"
    <3>1. CASE u # t
      BY <3>1, <2>5, <2>1, <2>2, OwnsInside, InsideOthers, <1>1
    <3>2. CASE u = t /\ Owns(t, s)
      <4>1. pc[t] = "leave" /\ slot[t] = s
        BY <3>2, <2>2 DEF Owns
      <4>2. j \in left'
        BY <4>1, <1>4, <2>2
      <4> QED BY <4>2
    <3>3. CASE u = t /\ ~Owns(t, s)
      BY <3>3, <2>5, <1>1, InsideFlow, ConstantsOK DEF Owns
    <3> QED BY <3>1, <3>2, <3>3
  <2> QED BY <2>3, <2>4, <2>5 DEF s
<1> QED BY <1>7, <1>8, <1>9 DEF IdInv

\* A step writes the session in the thread's hands only.
LEMMA InsideSlot ==
  ASSUME ConstantsOK, TypeOK, NEW t \in Threads, ThreadInv(t), Inside(t),
         NEW s \in Slots, slot[t] # s
  PROVE  /\ clientId'[s] = clientId[s] /\ releaseFlag'[s] = releaseFlag[s]
         /\ io'[s] = io[s] /\ sendQ'[s] = sendQ[s] /\ sending'[s] = sending[s]
<1>1. clientId'[s] = clientId[s]
  <2>1. CASE pc[t] = "aset"
    <3>1. AcceptSet(t) BY <2>1, StepAt
    <3> QED BY <3>1 DEF AcceptSet, TypeOK, TypeSession
  <2>2. CASE pc[t] \notin {"aset"}
    BY <2>2, InsideFrame
  <2> QED BY <2>1, <2>2
<1>2. releaseFlag'[s] = releaseFlag[s]
  <2>1. CASE pc[t] = "aflag"
    <3>1. AcceptFlag(t) BY <2>1, StepAt
    <3> QED BY <3>1 DEF AcceptFlag, TypeOK, TypeSession
  <2>2. CASE pc[t] = "release"
    <3>1. Release(t) BY <2>2, StepAt
    <3> QED BY <3>1 DEF Release, TypeOK, TypeSession
  <2>3. CASE pc[t] \notin {"aflag", "release"}
    BY <2>3, InsideFrame
  <2> QED BY <2>1, <2>2, <2>3
<1>3. io'[s] = io[s]
  <2>1. CASE pc[t] = "sendio"
    <3>1. SendIO(t) BY <2>1, StepAt
    <3> QED BY <3>1 DEF SendIO, TypeOK, TypeSession
  <2>2. CASE pc[t] = "recvio"
    <3>1. RecvIO(t) BY <2>2, StepAt
    <3> QED BY <3>1 DEF RecvIO, TypeOK, TypeSession
  <2>3. CASE pc[t] \notin {"sendio", "recvio"}
    BY <2>3, InsideFrame
  <2> QED BY <2>1, <2>2, <2>3
<1>4. sendQ'[s] = sendQ[s]
  <2>1. CASE pc[t] = "enqueue"
    <3>1. Enqueue(t) BY <2>1, StepAt
    <3> QED BY <3>1 DEF Enqueue, TypeOK, TypeSession
  <2>2. CASE pc[t] = "sdone"
    <3>1. SendDone(t) BY <2>2, StepAt
    <3> QED BY <3>1 DEF SendDone, TypeOK, TypeSession
  <2>3. CASE pc[t] = "drain"
    <3>1. Drain(t) BY <2>3, StepAt
    <3> QED BY <3>1 DEF Drain, TypeOK, TypeSession
  <2>4. CASE pc[t] \notin {"enqueue", "sdone", "drain"}
    BY <2>4, InsideFrame
  <2> QED BY <2>1, <2>2, <2>3, <2>4
<1>5. sending'[s] = sending[s]
  <2>1. CASE pc[t] = "aset"
    <3>1. AcceptSet(t) BY <2>1, StepAt
    <3> QED BY <3>1 DEF AcceptSet, TypeOK, TypeSession
  <2>2. CASE pc[t] = "post"
    <3>1. Post(t) BY <2>2, StepAt
    <3> QED BY <3>1 DEF Post, TypeOK, TypeSession
  <2>3. CASE pc[t] = "unsend"
    <3>1. Unsend(t) BY <2>3, StepAt
    <3> QED BY <3>1 DEF Unsend, TypeOK, TypeSession
  <2>4. CASE pc[t] = "sreset"
    <3>1. SendReset(t) BY <2>4, StepAt
    <3> QED BY <3>1 DEF SendReset, TypeOK, TypeSession
  <2>5. CASE pc[t] \notin {"aset", "post", "unsend", "sreset"}
    BY <2>5, InsideFrame
  <2> QED BY <2>1, <2>2, <2>3, <2>4, <2>5
<1> QED BY <1>1, <1>2, <1>3, <1>4, <1>5

\* A client is told to leave by the owner of its slot only.
LEMMA AliveInside ==
  ASSUME ConstantsOK, IInv, NEW t \in Threads, Inside(t), NEW s \in Slots,
         clientId[s] \in joined \ left, ~Owns(t, s)
  PROVE  clientId'[s] = clientId[s] /\ clientId'[s] \in joined' \ left'
<1>1. TypeOK /\ ThreadInv(t) /\ SlotInv(s)
  BY DEF IInv
<1>2. clientId'[s] = clientId[s]
  <2>1. CASE slot[t] = s
    BY <2>1, <1>1, InsideFrame DEF Owns
  <2>2. CASE slot[t] # s
    BY <2>2, <1>1, InsideSlot
  <2> QED BY <2>1, <2>2
<1>3. joined \subseteq joined'
  BY <1>1, InsideFrame, StepAt DEF AcceptJoin
<1>4. clientId[s] \notin left'
  <2>1. CASE pc[t] = "leave"
    <3>1. slot[t] \in Slots /\ slot[t] # s /\ left' = left \cup {clientId[slot[t]]}
      BY <2>1, <1>1, StepAt DEF ThreadInv, LeaveEvent, Owns
    <3>2. clientId[slot[t]] \in joined
      BY <2>1, <3>1 DEF IInv, SlotInv, Ending
    <3>3. clientId[slot[t]] # NoId /\ clientId[s] # NoId
      BY <3>2, <1>1 DEF TypeOK, TypeServer, ConstantsOK, ClientIds
    <3>4. clientId[slot[t]][1] = slot[t] /\ clientId[s][1] = s
      BY <3>1, <3>3 DEF IInv, SlotInv
    <3> QED BY <3>1, <3>4
  <2>2. CASE pc[t] # "leave"
    BY <2>2, <1>1, InsideFrame
  <2> QED BY <2>1, <2>2
<1> QED BY <1>2, <1>3, <1>4

\* Nobody touches a slot nobody uses, except its owner.
LEMMA EmptyInside ==
  ASSUME ConstantsOK, IInv, NEW t \in Threads, Inside(t), NEW s \in Slots,
         ~Live(s), ~Owns(t, s)
  PROVE  /\ io'[s] = io[s] /\ sendQ'[s] = sendQ[s]
         /\ releaseFlag[s] = 1 => releaseFlag'[s] = 1
         /\ Fresh(s) => Fresh(s)'
         /\ Empty(s) => Empty(s)'
<1>1. TypeOK /\ ThreadInv(t)
  BY DEF IInv
<1>2. slot[t] = s => ~Secure(t)
  BY SecureFacts
<1>3. io'[s] = io[s]
  BY <1>1, <1>2, InsideFrame, InsideSlot DEF Secure, Locked
<1>4. sendQ'[s] = sendQ[s]
  BY <1>1, <1>2, InsideFrame, InsideSlot DEF Secure, Locked, Owns
<1>5. releaseFlag[s] = 1 => releaseFlag'[s] = 1
  <2>1. CASE slot[t] = s /\ pc[t] = "release"
    BY <2>1, <1>1, StepAt DEF Release, TypeOK, TypeSession
  <2>2. CASE slot[t] = s /\ pc[t] # "release"
    BY <2>2, <1>1, InsideFrame DEF Owns
  <2>3. CASE slot[t] # s
    BY <2>3, <1>1, InsideSlot
  <2> QED BY <2>1, <2>2, <2>3
<1>6. Fresh(s) => Fresh(s)'
  <2>1. CASE pc[t] = "ajoin"
    <3>1. slot[t] # s /\ slot[t] \in Slots
      BY <2>1, <1>1, <1>2 DEF Secure, Locked, ThreadInv
    <3>2. clientId[slot[t]] = <<slot[t], nextId>>
      BY <2>1, <3>1 DEF IInv, SlotInv
    <3>3. joined' = joined \cup {<<slot[t], nextId>>}
      BY <2>1, <3>2, StepAt DEF AcceptJoin
    <3> QED BY <3>1, <3>3 DEF Fresh
  <2>2. CASE pc[t] # "ajoin"
    BY <2>2, <1>1, InsideFrame DEF Fresh
  <2> QED BY <2>1, <2>2
<1> QED BY <1>3, <1>4, <1>5, <1>6 DEF Empty

LEMMA SlotInside ==
  ASSUME ConstantsOK, IInv, NEW t \in Threads, Inside(t), NEW s \in Slots
  PROVE  SlotInv(s)'
<1>1. TypeOK /\ RefCount /\ ThreadInv(t) /\ SlotInv(s) /\ OneOwner
  BY DEF IInv
<1>2. ASSUME NEW u \in Threads \ {t}
      PROVE  /\ pc'[u] = pc[u] /\ slot'[u] = slot[u] /\ (Owns(u, s)' <=> Owns(u, s))
             /\ Owns(u, s) => ~Live(s) /\ ~Owns(t, s)
  BY <1>1, InsideOthers DEF Owns, OneOwner, Live
<1>3. slot'[t] = s => slot[t] = s
  BY <1>1, InsideFlow, ConstantsOK
<1>4. ASSUME s \in free' PROVE Empty(s)'
  <2>1. CASE s \in free
    <3>1. ~Live(s) /\ ~Owns(t, s) /\ Empty(s)
      BY <2>1, <1>1 DEF Live, OneOwner, SlotInv
    <3> QED BY <3>1, EmptyInside
  <2>2. CASE s \notin free
    <3>1. pc[t] = "push" /\ slot[t] = s
      BY <1>4, <2>2, OwnsInside
    <3>2. io[s] = {} /\ sendQ[s] = <<>> /\ releaseFlag[s] = 1
      BY <3>1, <1>1 DEF SlotInv, Ending
    <3> QED BY <3>1, <3>2, <1>1, InsideFrame DEF Empty
  <2> QED BY <2>1, <2>2
<1>5. ASSUME NEW u \in Threads, slot'[u] = s, pc'[u] \in Early PROVE Empty(s)'
  <2>1. CASE u = t
    <3>1. pc[t] \in {"aset", "ainc"} /\ slot[t] = s
      BY <2>1, <1>1, <1>3, <1>5, InsideFlow DEF Early
    <3>2. Empty(s)
      BY <3>1, <1>1 DEF SlotInv, Early
    <3> QED BY <3>1, <3>2, <1>1, InsideFrame DEF Empty, Fresh
  <2>2. CASE u # t
    <3>1. Owns(u, s) /\ Empty(s)
      BY <2>2, <1>1, <1>2, <1>5 DEF Owns, Early, SlotInv
    <3> QED BY <3>1, <2>2, <1>2, EmptyInside
  <2> QED BY <2>1, <2>2
<1>6. ASSUME NEW u \in Threads, slot'[u] = s, pc'[u] \in Ending
      PROVE  /\ io'[s] = {} /\ releaseFlag'[s] = 1
             /\ pc'[u] = "push" => sendQ'[s] = <<>>
             /\ pc'[u] = "leave" => clientId'[s] \in joined' \ left'
  <2>1. CASE u = t /\ pc'[t] = "leave"
    <3>1. pc[t] = "release" /\ slot[t] = s
      BY <2>1, <1>1, <1>3, <1>6, InsideFlow
    <3>2. ioCount[s] = 0 /\ releaseFlag[s] = 0 /\ releaseFlag'[s] = 1
      <4>1. Release(t)
        BY <3>1, StepAt
      <4>2. Resume(t, held[t]) => pc'[t] # "leave"
        BY <1>1 DEF Resume, Goto, TypeOK, TypeThread, Returns
      <4> QED BY <2>1, <3>1, <4>1, <4>2, <1>1 DEF Release, TypeOK, TypeSession
    <3>3. io[s] = {} /\ clientId[s] \in joined \ left
      BY <3>1, <3>2, ReleaseFacts
    <3>4. ~Owns(t, s)
      BY <3>1 DEF Owns
    <3> QED BY <2>1, <3>1, <3>2, <3>3, <3>4, <1>1, InsideFrame, AliveInside
  <2>2. CASE u = t /\ pc'[t] # "leave"
    <3>1. pc[t] \in {"leave", "drain"} /\ slot[t] = s
      BY <2>2, <1>1, <1>3, <1>6, InsideFlow DEF Ending
    <3>2. io[s] = {} /\ releaseFlag[s] = 1
      BY <3>1, <1>1 DEF SlotInv, Ending
    <3>3. pc'[t] = "push" => sendQ'[s] = <<>>
      BY <3>1, <1>1, InsideFlow, StepAt DEF Drain, TypeOK, TypeSession
    <3> QED BY <2>2, <3>1, <3>2, <3>3, <1>1, InsideFrame
  <2>3. CASE u # t
    <3>1. Owns(u, s) /\ pc[u] \in Ending /\ slot[u] = s /\ ~Live(s) /\ ~Owns(t, s) /\ pc'[u] = pc[u]
      BY <2>3, <1>2, <1>6 DEF Owns, Ending
    <3>2. /\ io[s] = {} /\ releaseFlag[s] = 1
          /\ pc[u] = "push" => sendQ[s] = <<>>
          /\ pc[u] = "leave" => clientId[s] \in joined \ left
      BY <3>1, <1>1 DEF SlotInv
    <3> QED BY <3>1, <3>2, EmptyInside, AliveInside
  <2> QED BY <2>1, <2>2, <2>3
<1>7. ASSUME NEW u \in Threads, slot'[u] = s, pc'[u] \in {"ainc", "aflag", "ajoin"}
      PROVE  clientId'[s] = <<s, nextId'>>
  <2>1. CASE u = t /\ pc'[t] = "ainc"
    <3>1. pc[t] = "aset" /\ slot[t] = s
      BY <2>1, <1>1, <1>3, <1>7, InsideFlow
    <3> QED BY <3>1, <1>1, InsideFrame, StepAt DEF AcceptSet, TypeOK, TypeSession
  <2>2. CASE u = t /\ pc'[t] # "ainc"
    <3>1. pc[t] \in {"ainc", "aflag"} /\ slot[t] = s
      BY <2>2, <1>1, <1>3, <1>7, InsideFlow
    <3>2. clientId[s] = <<s, nextId>>
      BY <3>1, <1>1 DEF SlotInv
    <3> QED BY <3>1, <3>2, <1>1, InsideFrame
  <2>3. CASE u # t
    <3>1. slot[u] = s /\ pc[u] \in {"ainc", "aflag", "ajoin"}
      BY <2>3, <1>2, <1>7
    <3>2. clientId[s] = <<s, nextId>> /\ u = Acceptor
      BY <3>1, <1>1 DEF SlotInv, IInv, ThreadInv
    <3>3. pc[t] \notin {"aset", "acount"}
      BY <3>2, <2>3, <1>1 DEF ThreadInv
    <3> QED BY <3>2, <3>3, <1>1, InsideFrame
  <2> QED BY <2>1, <2>2, <2>3
<1>8. ASSUME Live(s)'
      PROVE  /\ releaseFlag'[s] = 0
             /\ \/ clientId'[s] \in joined' \ left'
                \/ slot'[Acceptor] = s /\ pc'[Acceptor] = "ajoin"
  <2>1. CASE Live(s)
    <3>1. ~Owns(t, s) /\ ~Owns(t, s)'
      BY <2>1, <1>8 DEF Live
    <3>2. releaseFlag'[s] = 0
      <4>1. releaseFlag[s] = 0
        BY <2>1, <1>1 DEF SlotInv
      <4>2. CASE slot[t] = s /\ pc[t] = "release"
        <5>1. pc'[t] # "leave" \/ slot'[t] # s
          BY <3>1 DEF Owns
        <5> QED BY <4>1, <4>2, <5>1, <1>1, StepAt DEF Release, Goto, TypeOK,
                 TypeSession, TypeThread
      <4>3. CASE slot[t] = s /\ pc[t] # "release"
        BY <3>1, <4>1, <4>3, <1>1, InsideFrame DEF Owns
      <4>4. CASE slot[t] # s
        BY <4>1, <4>4, <1>1, InsideSlot
      <4> QED BY <4>2, <4>3, <4>4
    <3>3. CASE clientId[s] \in joined \ left
      BY <3>1, <3>2, <3>3, AliveInside
    <3>4. CASE slot[Acceptor] = s /\ pc[Acceptor] = "ajoin"
      <4>1. CASE t = Acceptor
        <5>1. joined' = joined \cup {clientId[s]} /\ clientId'[s] = clientId[s] /\ left' = left
          BY <3>4, <4>1, <1>1, InsideFrame, StepAt DEF AcceptJoin
        <5>2. clientId[s] = <<s, nextId>>
          BY <3>4, <4>1, <1>1 DEF SlotInv
        <5>3. clientId[s] \notin left
          <6>1. cont[Acceptor] = "idle"
            BY <3>4, <4>1, <1>1 DEF ThreadInv
          <6>2. \A j \in joined : j[2] < nextId
            BY <3>4, <6>1 DEF IInv, IdInv
          <6>3. clientId[s] \notin joined
            BY <5>2, <6>2, <1>1 DEF TypeOK, TypeServer
          <6> QED BY <6>3 DEF IInv, IdInv
        <5> QED BY <3>2, <5>1, <5>3
      <4>2. CASE t # Acceptor
        BY <3>2, <3>4, <4>2, <1>2 DEF Threads
      <4> QED BY <4>1, <4>2
    <3> QED BY <2>1, <1>1, <3>3, <3>4 DEF SlotInv
  <2>2. CASE ~Live(s)
    <3>1. pc[t] = "aflag" /\ slot[t] = s /\ pc'[t] = "ajoin"
      BY <2>2, <1>8, OwnsInside
    <3>2. t = Acceptor /\ slot'[t] = s
      BY <3>1, <1>1, InsideFlow DEF ThreadInv
    <3>3. releaseFlag'[s] = 0
      BY <3>1, <1>1, StepAt DEF AcceptFlag, TypeOK, TypeSession
    <3> QED BY <3>1, <3>2, <3>3
  <2> QED BY <2>1, <2>2
<1>9. ASSUME io'[s] # {} PROVE Live(s)' /\ clientId'[s] \in joined' \ left'
  <2>1. CASE io[s] # {}
    <3>1. Live(s) /\ clientId[s] \in joined \ left /\ ioCount[s] >= 1
      BY <2>1, <1>1, RefBounds DEF SlotInv
    <3> QED BY <3>1, OwnsInside, AliveInside DEF Live
  <2>2. CASE io[s] = {}
    <3>1. pc[t] \in {"sendio", "recvio"} /\ slot[t] = s
      BY <2>2, <1>9, <1>1, InsideFrame, InsideSlot
    <3>2. Live(s) /\ clientId[s] \in joined \ left
      BY <3>1, SecureFacts DEF IInv, SecureInv, Secure, Locked
    <3> QED BY <3>1, <3>2, OwnsInside, AliveInside DEF Live
  <2> QED BY <2>1, <2>2
<1>10. clientId'[s] = NoId \/ clientId'[s][1] = s
  <2>1. CASE slot[t] = s /\ pc[t] = "aset"
    BY <2>1, <1>1, StepAt DEF AcceptSet, TypeOK, TypeSession
  <2>2. CASE slot[t] = s /\ pc[t] # "aset"
    BY <2>2, <1>1, InsideFrame DEF SlotInv
  <2>3. CASE slot[t] # s
    BY <2>3, <1>1, InsideSlot DEF SlotInv
  <2> QED BY <2>1, <2>2, <2>3
<1> QED BY <1>4, <1>5, <1>6, <1>7, <1>8, <1>9, <1>10 DEF SlotInv

\* The connection being announced has an id of its own.
LEMMA NewId ==
  ASSUME ConstantsOK, IInv, pc[Acceptor] = "ajoin"
  PROVE  clientId[slot[Acceptor]] \notin joined
<1>1. Acceptor \in Threads /\ ThreadInv(Acceptor) /\ TypeOK /\ IdInv
  BY DEF IInv, Threads
<1>2. slot[Acceptor] \in Slots /\ cont[Acceptor] = "idle"
  BY <1>1 DEF ThreadInv
<1>3. clientId[slot[Acceptor]] = <<slot[Acceptor], nextId>>
  BY <1>1, <1>2 DEF IInv, SlotInv
<1>4. \A j \in joined : j[2] < nextId
  BY <1>1, <1>2 DEF IdInv
<1> QED BY <1>1, <1>3, <1>4 DEF TypeOK, TypeServer

\* A slot that was used and whose flag is 0 is live.
LEMMA FlagFacts ==
  ASSUME ConstantsOK, IInv, NEW t \in Threads, pc[t] \in {"flag", "recheck"},
         releaseFlag[slot[t]] = 0
  PROVE  Live(slot[t])
<1> DEFINE s == slot[t]
<1>1. s \in Slots
  BY DEF IInv, ThreadInv
<1>2. SlotInv(s) /\ ~Empty(s)
  BY <1>1 DEF IInv, SecureInv, Empty
<1>3. \A u \in Threads : ~Owns(u, s)
  BY <1>2 DEF SlotInv, Owns, Early, Ending
<1> QED BY <1>2, <1>3 DEF SlotInv, Live

LEMMA SecureOther ==
  ASSUME ConstantsOK, IInv, NEW t \in Threads, Inside(t), NEW u \in Threads \ {t}
  PROVE  SecureInv(u)'
<1>1. TypeOK /\ RefCount /\ ThreadInv(t) /\ ThreadInv(u) /\ SecureInv(u)
  BY DEF IInv
<1>2. /\ pc'[u] = pc[u] /\ slot'[u] = slot[u] /\ id'[u] = id[u]
      /\ op'[u] = op[u] /\ cont'[u] = cont[u] /\ held'[u] = held[u]
  BY <1>1, InsideOthers
<1>3. Secure(u)' <=> Secure(u)
  BY <1>2 DEF Secure, Locked
<1>4. joined \subseteq joined'
  BY <1>1, InsideFrame, StepAt DEF AcceptJoin
<1>5. ASSUME NEW s, slot[u] = s, Secure(u) \/ pc[u] = "recheck"
      PROVE  s \in Slots /\ Live(s)' /\ ~Owns(t, s)
  <2>1. s \in Slots /\ held[u] >= 1
    BY <1>1, <1>5, SecureFacts DEF ThreadInv, Keep, TypeOK, TypeThread
  <2>2. Live(s)
    BY <1>1, <1>5 DEF SecureInv
  <2>3. ioCount[s] >= 1
    BY <1>1, <1>5, <2>1, RefBounds
  <2>4. ~(ioCount[s] = 0)
    BY <2>3
  <2> QED BY <2>1, <2>2, <2>4, OwnsInside DEF Live
<1>6. ASSUME Secure(u), pc[u] # "ajoin"
      PROVE  clientId'[slot[u]] = clientId[slot[u]] /\ clientId'[slot[u]] \in joined' \ left'
  BY <1>1, <1>5, <1>6, AliveInside DEF SecureInv
<1>7. pc[u] \in {"enqueue", "shutdown"} => id[u] = clientId'[slot[u]]
  <2>1. pc[u] \in {"enqueue", "shutdown"} => Secure(u)
    BY DEF Secure, Locked
  <2> QED BY <2>1, <1>1, <1>6 DEF SecureInv
<1>8. ~Fresh(slot[u]) => ~Fresh(slot[u])'
  BY <1>4, <1>2 DEF Fresh
<1>9. Secure(u) \/ pc[u] = "recheck" => Live(slot[u])'
  <2>1. PICK s : s = slot[u]
    OBVIOUS
  <2>2. Secure(u) \/ pc[u] = "recheck" => Live(s)'
    BY <2>1, <1>5
  <2> QED BY <2>1, <2>2, <1>2 DEF Live, Owns
<1> QED BY <1>1, <1>2, <1>3, <1>4, <1>6, <1>7, <1>8, <1>9 DEF SecureInv

LEMMA SecureSelf ==
  ASSUME ConstantsOK, IInv, NEW t \in Threads, Inside(t)
  PROVE  SecureInv(t)'
<1>1. TypeOK /\ RefCount /\ ThreadInv(t) /\ SecureInv(t)
  BY DEF IInv
<1>2. joined \subseteq joined'
  BY <1>1, InsideFrame, StepAt DEF AcceptJoin
<1>3. ASSUME NEW s, slot[t] = s, Secure(t)' \/ pc'[t] = "recheck"
      PROVE  Live(s)' /\ slot'[t] = s /\ s \in Slots
  <2>1. slot'[t] = s
    BY <1>1, <1>3, InsideSecure
  <2>2. s \in Slots
    <3>1. pc[t] # "acount"
      BY <1>1, <1>3, InsideSecure DEF Secure, Locked, ThreadInv
    <3> QED BY <3>1, <1>1, <1>3, InsideFrame
  <2>3. CASE pc[t] = "aflag"
    <3>1. Owns(t, s) /\ s \notin free /\ \A u \in Threads \ {t} : ~Owns(u, s)
      BY <2>2, <2>3, <1>3 DEF IInv, OneOwner, Owns
    <3>2. pc'[t] = "ajoin"
      BY <2>3, <1>1, InsideFlow
    <3>3. ~Owns(t, s)'
      BY <3>2 DEF Owns
    <3>4. s \notin free'
      BY <3>1, <2>2, <2>3, OwnsInside
    <3>5. \A u \in Threads \ {t} : ~Owns(u, s)'
      BY <3>1, <2>2, OwnsInside
    <3> QED BY <2>1, <2>2, <3>3, <3>4, <3>5 DEF Live
  <2>4. CASE pc[t] # "aflag"
    <3>1. Live(s)
      BY <1>1, <1>3, <2>4, InsideSecure, SecureFacts, FlagFacts DEF SecureInv
    <3>2. pc[t] # "release"
      BY <1>1, <1>3, <2>4, InsideSecure DEF Secure, Locked, ThreadInv
    <3>3. Live(s)'
      BY <3>1, <3>2, <2>2, OwnsInside
    <3> QED BY <3>3, <2>1, <2>2
  <2> QED BY <2>3, <2>4
<1>4. ASSUME Secure(t)', pc'[t] # "ajoin"
      PROVE  clientId'[slot'[t]] \in joined' \ left'
  <2>1. slot'[t] = slot[t] /\ slot[t] \in Slots /\ pc[t] # "aflag"
    BY <1>1, <1>3, <1>4, InsideFlow
  <2>2. CASE pc[t] = "ajoin"
    <3>1. t = Acceptor
      BY <2>2, <1>1 DEF ThreadInv
    <3>2. clientId[slot[t]] \notin left
      BY <2>2, <3>1, NewId DEF IInv, IdInv
    <3>3. clientId' = clientId /\ left' = left /\ clientId[slot[t]] \in joined'
      BY <2>2, <1>1, InsideFrame, StepAt DEF AcceptJoin
    <3> QED BY <2>1, <3>2, <3>3
  <2>3. CASE pc[t] # "ajoin"
    <3>1. Live(slot[t])
      BY <2>1, <1>1, <1>4, InsideSecure DEF SecureInv
    <3>2. clientId[slot[t]] \in joined \ left
      <4>1. CASE Secure(t)
        BY <4>1, <2>3, <1>1 DEF SecureInv
      <4>2. CASE ~Secure(t)
        <5>1. pc[t] = "recheck" /\ id[t] = clientId[slot[t]]
          BY <4>2, <2>1, <1>1, <1>4, InsideSecure
        <5>2. clientId[slot[t]] \in joined
          BY <5>1, <1>1 DEF SecureInv
        <5>3. ~(slot[Acceptor] = slot[t] /\ pc[Acceptor] = "ajoin")
          BY <5>2, NewId
        <5> QED BY <2>1, <3>1, <5>3 DEF IInv, SlotInv
      <4> QED BY <4>1, <4>2
    <3>3. ~Owns(t, slot[t])
      BY <3>1 DEF Live
    <3> QED BY <2>1, <3>2, <3>3, AliveInside
  <2> QED BY <2>2, <2>3
<1>5. pc'[t] \in {"enqueue", "shutdown"} => id'[t] = clientId'[slot'[t]]
  BY <1>1, InsideId, InsideFrame
<1>6. pc'[t] \in {"check", "inc", "flag", "recheck"} => id'[t] \in joined'
  <2>1. CASE pc'[t] = "check"
    <3>1. pc[t] \in {"sendio", "recvio", "proc"} /\ id'[t] = clientId[slot[t]]
      BY <2>1, <1>1, InsideId
    <3>2. clientId[slot[t]] \in joined
      BY <3>1, <1>1 DEF SecureInv, Secure, Locked
    <3> QED BY <3>1, <3>2, <1>2
  <2>2. CASE pc'[t] \in {"inc", "flag", "recheck"}
    BY <2>2, <1>1, <1>2, InsideId DEF SecureInv
  <2> QED BY <2>1, <2>2
<1>7. ASSUME pc'[t] \notin {"idle", "acount", "aset", "ainc", "aflag", "ajoin"}
      PROVE  \E j \in joined' : j[1] = slot'[t]
  <2>1. slot'[t] = slot[t] /\ pc[t] \notin {"idle", "acount", "aset", "ainc", "aflag"}
    BY <1>1, <1>7, InsideId
  <2>2. CASE pc[t] = "ajoin"
    <3>1. clientId[slot[t]] = <<slot[t], nextId>>
      BY <2>2, <1>1 DEF IInv, SlotInv, ThreadInv
    <3>2. <<slot[t], nextId>> \in joined'
      BY <2>2, <3>1, StepAt DEF AcceptJoin
    <3> QED BY <2>1, <3>2
  <2>3. CASE pc[t] # "ajoin"
    BY <2>1, <2>3, <1>1, <1>2 DEF SecureInv, Fresh
  <2> QED BY <2>2, <2>3
<1>8. Secure(t)' \/ pc'[t] = "recheck" => Live(slot[t])'
  <2> SUFFICES ASSUME Secure(t)' \/ pc'[t] = "recheck" PROVE Live(slot[t])'
    OBVIOUS
  <2>1. PICK s : s = slot[t]
    OBVIOUS
  <2>2. Live(s)' /\ slot'[t] = s
    BY <2>1, <1>3
  <2> QED BY <2>2 DEF Live, Owns
<1> QED BY <1>4, <1>5, <1>6, <1>7, <1>8 DEF SecureInv, Fresh

\* What is left of a queue after its first k elements were taken.
LEMMA SubSeqDropped ==
  ASSUME NEW S, NEW q \in Seq(S), NEW k \in Nat, NEW n \in 1..Len(SubSeq(q, k + 1, Len(q)))
  PROVE  SubSeq(q, k + 1, Len(q))[n] = q[k + n] /\ k + n \in 1..Len(q)
<1>1. Len(q) \in Nat /\ \A i \in (k + 1)..Len(q) : q[i] \in S
  OBVIOUS
<1>2. /\ Len(SubSeq(q, k + 1, Len(q))) = IF k + 1 <= Len(q) THEN Len(q) - (k + 1) + 1 ELSE 0
      /\ \A i \in 1..(Len(q) - (k + 1) + 1) : SubSeq(q, k + 1, Len(q))[i] = q[(k + 1) + i - 1]
  BY <1>1, SubSeqProperties
<1>3. n \in 1..(Len(q) - (k + 1) + 1)
  BY <1>1, <1>2
<1> QED BY <1>1, <1>2, <1>3

LEMMA OwnPacketsInside ==
  ASSUME ConstantsOK, IInv, NEW t \in Threads, Inside(t)
  PROVE  OwnPackets'
<1> SUFFICES ASSUME NEW s \in Slots, NEW n \in 1..Len(sendQ'[s])
             PROVE  sendQ'[s][n] = clientId'[s]
  BY DEF OwnPackets
<1>1. TypeOK /\ ThreadInv(t) /\ SlotInv(s) /\ sendQ[s] \in Seq(ClientIds)
  BY DEF IInv, TypeOK, TypeSession
<1>2. \A m \in 1..Len(sendQ[s]) : sendQ[s][m] = clientId[s]
  BY DEF IInv, OwnPackets
<1>3. CASE slot[t] # s
  BY <1>1, <1>2, <1>3, InsideSlot
<1>4. CASE slot[t] = s /\ pc[t] = "aset"
  <2>1. sendQ'[s] = <<>>
    BY <1>1, <1>4, InsideFrame DEF SlotInv, Early, Empty
  <2> QED BY <2>1
<1>5. CASE slot[t] = s /\ pc[t] = "enqueue"
  <2>1. sendQ'[s] = Append(sendQ[s], clientId[s]) /\ clientId' = clientId
    BY <1>5, <1>1, StepAt, InsideFrame DEF Enqueue, IInv, SecureInv, TypeOK, TypeSession
  <2> QED BY <1>1, <1>2, <2>1
<1>6. CASE slot[t] = s /\ pc[t] = "sdone"
  <2>1. sendQ'[s] = SubSeq(sendQ[s], sendCount[s] + 1, Len(sendQ[s])) /\ clientId' = clientId
    <3>1. SendDone(t)
      BY <1>6, StepAt
    <3>2. sendQ \in [Slots -> Seq(ClientIds)]
      BY <1>1 DEF TypeOK, TypeSession
    <3> QED BY <1>6, <3>1, <3>2 DEF SendDone
  <2>2. sendCount[s] \in Nat
    BY <1>1 DEF TypeOK, TypeSession
  <2>3. sendQ'[s][n] = sendQ[s][sendCount[s] + n] /\ sendCount[s] + n \in 1..Len(sendQ[s])
    <3> DEFINE q == sendQ[s]
               k == sendCount[s]
    <3>1. q \in Seq(ClientIds) /\ k \in Nat /\ n \in 1..Len(SubSeq(q, k + 1, Len(q)))
      BY <1>1, <2>1, <2>2
    <3> HIDE DEF q, k
    <3>2. SubSeq(q, k + 1, Len(q))[n] = q[k + n] /\ k + n \in 1..Len(q)
      BY <3>1, SubSeqDropped
    <3> QED BY <2>1, <3>2 DEF q, k
  <2> QED BY <1>2, <2>1, <2>3
<1>7. CASE slot[t] = s /\ pc[t] = "drain"
  <2>1. sendQ'[s] = <<>>
    BY <1>7, <1>1, StepAt DEF Drain, TypeOK, TypeSession
  <2> QED BY <2>1
<1>8. CASE slot[t] = s /\ pc[t] \notin {"aset", "enqueue", "sdone", "drain"}
  BY <1>1, <1>2, <1>8, InsideFrame
<1> QED BY <1>3, <1>4, <1>5, <1>6, <1>7, <1>8

LEMMA OneRequestInside ==
  ASSUME ConstantsOK, IInv, NEW t \in Threads, Inside(t)
  PROVE  OneRequest'
<1>1. TypeOK /\ ThreadInv(t)
  BY DEF IInv
<1>2. ASSUME NEW u \in Threads \ {t}
      PROVE  /\ slot'[u] = slot[u] /\ (Receiving(u)' <=> Receiving(u)) /\ (Sender(u)' <=> Sender(u))
  BY <1>1, InsideOthers DEF Receiving, Sender
<1>3. \A u \in Threads : Receiving(u) \/ Sender(u) => Secure(u)
  BY DEF Receiving, Sender, Secure, Locked
<1>4. ASSUME NEW s \in Slots, slot[t] = s, pc[t] \in {"aset", "aflag"}
      PROVE  io[s] = {} /\ \A u \in Threads : slot[u] = s => ~Receiving(u) /\ ~Sender(u)
  <2>1. io[s] = {}
    BY <1>4 DEF IInv, SlotInv, Early, Empty
  <2>2. ~Live(s)
    BY <1>4 DEF Live, Owns
  <2> QED BY <2>1, <2>2, <1>3, SecureFacts
<1>5. ASSUME NEW s \in Slots, NEW u \in Threads, slot'[u] = s, Receiving(u)'
      PROVE  /\ "recv" \notin io'[s]
             /\ \A v \in Threads : slot'[v] = s /\ Receiving(v)' => v = u
  <2>1. CASE slot[t] = s /\ pc[t] = "aflag"
    <3>1. io' = io
      BY <2>1, <1>1, InsideFrame
    <3> QED BY <3>1, <2>1, <1>2, <1>4, <1>5
  <2>2. CASE ~(slot[t] = s /\ pc[t] = "aflag")
    <3>1. \A v \in Threads : slot'[v] = s /\ Receiving(v)' => slot[v] = s /\ Receiving(v)
      BY <2>2, <1>1, <1>2, InsideRequest
    <3>2. "recv" \notin io[s] /\ \A v \in Threads : slot[v] = s /\ Receiving(v) => v = u
      BY <3>1, <1>5 DEF IInv, OneRequest
    <3>3. "recv" \notin io'[s]
      <4>1. CASE slot[t] # s
        BY <4>1, <3>2, <1>1, InsideSlot
      <4>2. CASE slot[t] = s /\ pc[t] \notin {"recvio", "sendio"}
        BY <4>2, <3>2, <1>1, InsideFrame
      <4>3. CASE slot[t] = s /\ pc[t] = "sendio"
        <5>1. SendIO(t)
          BY <4>3, StepAt
        <5>2. io' = io \/ io' = [io EXCEPT ![slot[t]] = @ \cup {"send"}]
          BY <5>1 DEF SendIO
        <5> QED BY <5>2, <3>2, <4>3, <1>1 DEF TypeOK, TypeSession
      <4>4. CASE slot[t] = s /\ pc[t] = "recvio"
        <5>1. t = u
          BY <4>4, <3>2, <1>1, InsideRequest
        <5>2. io' = io \/ io' = [io EXCEPT ![slot[t]] = @ \cup {"send"}]
          BY <5>1, <1>5, <1>1, InsideRequest
        <5> QED BY <5>2, <3>2, <4>4, <1>1 DEF TypeOK, TypeSession
      <4> QED BY <4>1, <4>2, <4>3, <4>4
    <3> QED BY <3>1, <3>2, <3>3
  <2> QED BY <2>1, <2>2
<1>6. ASSUME NEW s \in Slots, NEW u \in Threads, slot'[u] = s, Sender(u)'
      PROVE  /\ "send" \notin io'[s] /\ sending'[s]
             /\ \A v \in Threads : slot'[v] = s /\ Sender(v)' => v = u
  <2>1. CASE slot[t] = s /\ pc[t] = "post" /\ Sender(t)'
    <3>1. ~sending[s] /\ sending'[s] /\ io' = io
      BY <2>1, <1>1, InsideRequest, InsideFrame DEF TypeOK, TypeSession
    <3>2. "send" \notin io[s] /\ \A v \in Threads : slot[v] = s => ~Sender(v)
      BY <3>1 DEF IInv, OneRequest
    <3>3. u = t
      BY <3>2, <1>2, <1>6
    <3> QED BY <3>1, <3>2, <3>3, <1>2
  <2>2. CASE ~(slot[t] = s /\ pc[t] = "post" /\ Sender(t)')
    <3>1. \A v \in Threads : slot'[v] = s /\ Sender(v)' => slot[v] = s /\ Sender(v)
      BY <2>2, <1>1, <1>2, InsideRequest
    <3>2. /\ "send" \notin io[s] /\ sending[s]
          /\ \A v \in Threads : slot[v] = s /\ Sender(v) => v = u
      BY <3>1, <1>6 DEF IInv, OneRequest
    <3>3. "send" \notin io'[s]
      <4>1. CASE slot[t] # s
        BY <4>1, <3>2, <1>1, InsideSlot
      <4>2. CASE slot[t] = s /\ pc[t] \notin {"recvio", "sendio"}
        BY <4>2, <3>2, <1>1, InsideFrame
      <4>3. CASE slot[t] = s /\ pc[t] = "recvio"
        BY <4>3, <3>2, <1>1, StepAt DEF RecvIO, TypeOK, TypeSession
      <4>4. CASE slot[t] = s /\ pc[t] = "sendio"
        <5>1. t = u
          BY <4>4, <3>2, <1>1, InsideRequest
        <5>2. io' = io \/ io' = [io EXCEPT ![slot[t]] = @ \cup {"recv"}]
          BY <5>1, <1>6, <1>1, InsideRequest
        <5> QED BY <5>2, <3>2, <4>4, <1>1 DEF TypeOK, TypeSession
      <4> QED BY <4>1, <4>2, <4>3, <4>4
    <3>4. sending'[s]
      <4>1. CASE slot[t] # s
        BY <4>1, <3>2, <1>1, InsideSlot
      <4>2. CASE slot[t] = s /\ pc[t] \notin {"aset", "post", "unsend", "sreset"}
        BY <4>2, <3>2, <1>1, InsideFrame
      <4>3. CASE slot[t] = s /\ pc[t] = "post"
        BY <4>3, <1>1, StepAt DEF Post, TypeOK, TypeSession
      <4>4. CASE slot[t] = s /\ pc[t] = "aset"
        BY <4>4, <1>4, <3>1, <1>6
      <4>5. CASE slot[t] = s /\ pc[t] \in {"unsend", "sreset"}
        <5>1. t = u
          BY <4>5, <3>2 DEF Sender
        <5> QED BY <5>1, <4>5, <1>6, <1>1, InsideRequest
      <4> QED BY <4>1, <4>2, <4>3, <4>4, <4>5
    <3> QED BY <3>1, <3>2, <3>3, <3>4
  <2> QED BY <2>1, <2>2
<1>7. ASSUME NEW s \in Slots, "send" \in io'[s] PROVE sending'[s]
  <2>1. CASE slot[t] # s
    BY <2>1, <1>7, <1>1, InsideSlot DEF IInv, OneRequest
  <2>2. CASE slot[t] = s /\ pc[t] = "sendio"
    BY <2>2, <1>1, InsideFrame, InsideRequest DEF IInv, OneRequest
  <2>3. CASE slot[t] = s /\ pc[t] # "sendio"
    <3>1. "send" \in io[s]
      BY <2>3, <1>7, <1>1, InsideFrame, StepAt DEF RecvIO, TypeOK, TypeSession
    <3>2. sending[s] /\ ~(slot[t] = s /\ Sender(t))
      BY <3>1 DEF IInv, OneRequest
    <3>3. pc[t] \notin {"unsend", "sreset"}
      BY <2>3, <3>2 DEF Sender
    <3>4. pc[t] # "aset"
      BY <2>3, <3>1, <1>4
    <3>5. CASE pc[t] = "post"
      BY <2>3, <3>5, <1>1, StepAt DEF Post, TypeOK, TypeSession
    <3>6. CASE pc[t] # "post"
      BY <3>2, <3>3, <3>4, <3>6, <1>1, InsideFrame
    <3> QED BY <3>5, <3>6
  <2> QED BY <2>1, <2>2, <2>3
<1> QED BY <1>5, <1>6, <1>7 DEF OneRequest

\* A content thread that calls in holds nothing yet.
LEMMA AppCallInv ==
  ASSUME ConstantsOK, IInv, NEW t \in Apps, AppCall(t)
  PROVE  IInv'
<1>1. /\ TypeOK /\ RefCount /\ t \in Threads /\ t # Acceptor /\ ThreadInv(t)
      /\ pc[t] = "idle" /\ held[t] = 0 /\ slot[t] = NoSlot /\ cont[t] = "idle"
  BY DEF IInv, Threads, ConstantsOK, ThreadInv, AppCall, At
<1>2. PICK i \in joined, o \in {"send", "disc"} :
        slot' = [slot EXCEPT ![t] = i[1]] /\ Call(t, i, o, "idle")
  BY DEF AppCall
<1>3. i \in ClientIds /\ i[1] \in Slots
  BY <1>1 DEF TypeOK, TypeServer, ClientIds
<1>4. /\ UNCHANGED <<clientId, ioCount, releaseFlag, sock, sendQ, sending, sendCount, io>>
      /\ UNCHANGED <<free, nextId, clientCount, joined, left, held>>
  BY DEF AppCall, sesVars, srvVars
<1>5. /\ pc'[t] = "check" /\ slot'[t] = i[1] /\ id'[t] = i /\ cont'[t] = "idle"
      /\ \A u \in Threads \ {t} : /\ pc'[u] = pc[u] /\ slot'[u] = slot[u] /\ id'[u] = id[u]
                                  /\ op'[u] = op[u] /\ cont'[u] = cont[u]
  BY <1>1, <1>2 DEF Call, Goto, TypeOK, TypeThread
<1>6. TypeOK'
  <2>1. TypeThread'
    BY <1>1, <1>2, <1>3, <1>4, CallType DEF TypeOK, TypeThread, Returns
  <2> QED BY <2>1, <1>1, <1>4 DEF TypeOK, TypeSession, TypeServer
<1>7. ASSUME NEW u \in Threads PROVE ThreadInv(u)'
  <2>1. CASE u = t
    BY <2>1, <1>1, <1>3, <1>4, <1>5 DEF ThreadInv, Keep, Ending
  <2>2. CASE u # t
    BY <2>2, <1>4, <1>5 DEF IInv, ThreadInv, Keep
  <2> QED BY <2>1, <2>2
<1>8. RefCount'
  BY <1>1, <1>4, <1>5, <1>6, RefsSame DEF OthersKeep
<1>9. ASSUME NEW u \in Threads, NEW s
      PROVE  /\ Owns(u, s)' <=> Owns(u, s)
             /\ slot'[u] = s /\ pc'[u] \in {"aset", "ainc", "aflag", "ajoin", "leave", "drain", "push"}
                  => slot[u] = s /\ pc'[u] = pc[u]
  BY <1>1, <1>5 DEF Owns
<1>10. ASSUME NEW s PROVE Live(s)' <=> Live(s)
  BY <1>4, <1>9 DEF Live
<1>11. OneOwner'
  BY <1>4, <1>9 DEF IInv, OneOwner
<1>12. ASSUME NEW u \in Threads PROVE SecureInv(u)'
  <2>1. CASE u = t
    BY <2>1, <1>1, <1>4, <1>5 DEF SecureInv, Secure, Locked, Fresh
  <2>2. CASE u # t
    <3>1. Secure(u)' <=> Secure(u)
      BY <2>2, <1>4, <1>5 DEF Secure, Locked
    <3>2. PICK s : s = slot[u]
      OBVIOUS
    <3>3. Live(slot[u]) => Live(slot[u])'
      BY <3>2, <2>2, <1>5, <1>10 DEF Live, Owns
    <3> QED BY <3>1, <3>3, <2>2, <1>4, <1>5 DEF IInv, SecureInv, Fresh
  <2> QED BY <2>1, <2>2
<1>13. ASSUME NEW s \in Slots PROVE SlotInv(s)'
  <2>1. SlotInv(s) /\ (Live(s)' <=> Live(s)) /\ (Empty(s)' <=> Empty(s))
    BY <1>4, <1>10 DEF IInv, Empty, Fresh
  <2> QED BY <2>1, <1>1, <1>4, <1>5, <1>9 DEF SlotInv, Early, Ending, Threads
<1>14. IdInv'
  <2>1. Acceptor \in Threads /\ pc'[Acceptor] = pc[Acceptor] /\ cont'[Acceptor] = cont[Acceptor]
    BY <1>1, <1>5 DEF Threads
  <2>2. \A j \in joined \ left : \A u \in Threads : Owns(u, j[1])' => pc'[u] = "leave"
    BY <1>9 DEF IInv, IdInv, Owns
  <2> QED BY <2>1, <2>2, <1>4 DEF IInv, IdInv, Owns
<1>15. OneRequest'
  <2>1. \A u \in Threads : /\ Receiving(u)' => Receiving(u) /\ slot'[u] = slot[u]
                           /\ Sender(u)' => Sender(u) /\ slot'[u] = slot[u]
    BY <1>1, <1>5 DEF Receiving, Sender
  <2> QED BY <2>1, <1>4 DEF IInv, OneRequest
<1>16. OwnPackets'
  BY <1>4 DEF IInv, OwnPackets
<1> QED BY <1>6, <1>7, <1>8, <1>11, <1>12, <1>13, <1>14, <1>15, <1>16 DEF IInv

\* A slot from the free stack has no user and nothing left of an earlier client.
LEMMA AcceptPopInv ==
  ASSUME ConstantsOK, IInv, AcceptPop(Acceptor)
  PROVE  IInv'
<1> DEFINE t == Acceptor
<1>1. /\ TypeOK /\ RefCount /\ t \in Threads /\ ThreadInv(t)
      /\ pc[t] = "idle" /\ held[t] = 0 /\ slot[t] = NoSlot /\ cont[t] = "idle"
  BY DEF IInv, Threads, ThreadInv, AcceptPop, At
<1>2. PICK s0 \in free : free' = free \ {s0} /\ slot' = [slot EXCEPT ![t] = s0]
  BY DEF AcceptPop
<1>3. s0 \in Slots /\ Empty(s0) /\ \A u \in Threads : ~Owns(u, s0)
  BY <1>1 DEF IInv, TypeOK, TypeServer, SlotInv, OneOwner
<1>4. /\ UNCHANGED <<clientId, ioCount, releaseFlag, sock, sendQ, sending, sendCount, io>>
      /\ UNCHANGED <<nextId, clientCount, joined, left, id, op, cont, held>>
  BY DEF AcceptPop, sesVars
<1>5. /\ pc' = [pc EXCEPT ![t] = "aset"] /\ pc'[t] = "aset" /\ slot'[t] = s0
      /\ \A u \in Threads \ {t} : pc'[u] = pc[u] /\ slot'[u] = slot[u]
  BY <1>1, <1>2 DEF AcceptPop, Goto, TypeOK, TypeThread
<1>6. TypeOK'
  BY <1>1, <1>2, <1>3, <1>4, <1>5 DEF TypeOK, TypeSession, TypeServer, TypeThread, Labels
<1>7. ASSUME NEW u \in Threads PROVE ThreadInv(u)'
  <2>1. CASE u = t
    BY <2>1, <1>1, <1>3, <1>4, <1>5 DEF ThreadInv, Keep, Ending
  <2>2. CASE u # t
    BY <2>2, <1>4, <1>5 DEF IInv, ThreadInv, Keep
  <2> QED BY <2>1, <2>2
<1>8. RefCount'
  BY <1>1, <1>4, <1>5, <1>6, RefsSame DEF OthersKeep
<1>9. ASSUME NEW u \in Threads, NEW s
      PROVE  /\ Owns(u, s)' <=> Owns(u, s) \/ (u = t /\ s = s0)
             /\ slot'[u] = s /\ pc'[u] \in {"ainc", "aflag", "ajoin", "leave", "drain", "push"}
                  => slot[u] = s /\ pc'[u] = pc[u]
  BY <1>1, <1>5 DEF Owns
<1>10. ASSUME NEW s PROVE Live(s)' <=> Live(s)
  BY <1>1, <1>2, <1>9 DEF Live
<1>11. OneOwner'
  BY <1>2, <1>3, <1>9 DEF IInv, OneOwner
<1>12. ASSUME NEW u \in Threads PROVE SecureInv(u)'
  <2>1. CASE u = t
    BY <2>1, <1>1, <1>4, <1>5 DEF SecureInv, Secure, Locked
  <2>2. CASE u # t
    <3>1. Secure(u)' <=> Secure(u)
      BY <2>2, <1>4, <1>5 DEF Secure, Locked
    <3>2. PICK s : s = slot[u]
      OBVIOUS
    <3>3. Live(slot[u]) => Live(slot[u])'
      BY <3>2, <2>2, <1>5, <1>10 DEF Live, Owns
    <3> QED BY <3>1, <3>3, <2>2, <1>4, <1>5 DEF IInv, SecureInv, Fresh
  <2> QED BY <2>1, <2>2
<1>13. ASSUME NEW s \in Slots PROVE SlotInv(s)'
  <2>1. SlotInv(s) /\ (Live(s)' <=> Live(s)) /\ (Empty(s)' <=> Empty(s))
    BY <1>4, <1>10 DEF IInv, Empty, Fresh
  <2>2. s \in free' => Empty(s)'
    BY <2>1, <1>2 DEF SlotInv
  <2>3. \A u \in Threads : slot'[u] = s /\ pc'[u] \in Early => Empty(s)'
    BY <2>1, <1>3, <1>5 DEF SlotInv, Early
  <2>4. Live(s)' =>
          \/ clientId'[s] \in joined' \ left'
          \/ slot'[Acceptor] = s /\ pc'[Acceptor] = "ajoin"
    BY <2>1, <1>1, <1>4 DEF SlotInv
  <2> QED BY <2>1, <2>2, <2>3, <2>4, <1>1, <1>4, <1>5, <1>9 DEF SlotInv, Early, Ending,
           Threads
<1>14. IdInv'
  <2>1. \A j \in joined \ left : j[1] # s0
    BY DEF IInv, IdInv
  <2>2. \A j \in joined \ left : \A u \in Threads : Owns(u, j[1])' => pc'[u] = "leave"
    BY <2>1, <1>1, <1>5, <1>9 DEF IInv, IdInv, Owns
  <2>3. \A j \in joined : j[2] < nextId
    BY <1>1 DEF IInv, IdInv
  <2> QED BY <2>1, <2>2, <2>3, <1>2, <1>4 DEF IInv, IdInv, Owns
<1>15. OneRequest'
  <2>1. \A u \in Threads : /\ Receiving(u)' => Receiving(u) /\ slot'[u] = slot[u]
                           /\ Sender(u)' => Sender(u) /\ slot'[u] = slot[u]
    BY <1>1, <1>4, <1>5 DEF Receiving, Sender
  <2> QED BY <2>1, <1>4 DEF IInv, OneRequest
<1>16. OwnPackets'
  BY <1>4 DEF IInv, OwnPackets
<1> QED BY <1>6, <1>7, <1>8, <1>11, <1>12, <1>13, <1>14, <1>15, <1>16 DEF IInv

\* The worker takes over the unit of IOCount of the request, and with it a live session.
LEMMA CompleteInv ==
  ASSUME ConstantsOK, IInv, NEW t \in Workers, NEW s0 \in Slots, NEW k \in {"recv", "send"},
         Complete(t, s0, k)
  PROVE  IInv'
<1>1. /\ TypeOK /\ RefCount /\ t \in Threads /\ t # Acceptor /\ ThreadInv(t)
      /\ pc[t] = "idle" /\ held[t] = 0 /\ slot[t] = NoSlot /\ cont[t] = "idle" /\ k \in io[s0]
  BY DEF IInv, Threads, ConstantsOK, ThreadInv, Complete, At
<1>2. /\ Live(s0) /\ clientId[s0] \in joined \ left /\ clientId[s0] \in ClientIds
      /\ clientId[s0][1] = s0
  <2>1. SlotInv(s0)
    BY DEF IInv
  <2>2. Live(s0) /\ clientId[s0] \in joined \ left
    BY <1>1, <2>1 DEF SlotInv
  <2>3. clientId[s0] \in ClientIds /\ clientId[s0] # NoId
    BY <1>1, <2>2 DEF TypeOK, TypeServer, ConstantsOK, ClientIds
  <2> QED BY <2>1, <2>2, <2>3 DEF SlotInv
<1>3. /\ io' = [io EXCEPT ![s0] = @ \ {k}] /\ slot' = [slot EXCEPT ![t] = s0]
      /\ held' = [held EXCEPT ![t] = 1]
      /\ UNCHANGED <<clientId, ioCount, releaseFlag, sock, sendQ, sending, sendCount>>
      /\ UNCHANGED <<free, nextId, clientCount, joined, left>>
  BY DEF Complete, srvVars
<1>4. \A s \in Slots : io'[s] \subseteq io[s]
  BY <1>1, <1>3 DEF TypeOK, TypeSession
<1>5. /\ slot'[t] = s0 /\ held'[t] = 1
      /\ \/ /\ pc'[t] = "check" /\ id'[t] = clientId[s0] /\ op'[t] = "disc"
            /\ cont'[t] = "idle" \/ (k = "send" /\ cont'[t] = "sdone")
         \/ cont'[t] = "idle" /\ pc'[t] = "proc" /\ k = "recv"
         \/ cont'[t] = "idle" /\ pc'[t] = "sdone" /\ k = "send"
      /\ \A u \in Threads \ {t} : /\ pc'[u] = pc[u] /\ slot'[u] = slot[u] /\ id'[u] = id[u]
                                  /\ op'[u] = op[u] /\ cont'[u] = cont[u] /\ held'[u] = held[u]
  BY <1>1, <1>3 DEF Complete, Call, Goto, TypeOK, TypeThread
<1>6. TypeOK'
  <2>1. TypeThread'
    <3>1. /\ slot' \in [Threads -> Slots \cup {NoSlot}]
          /\ held' \in [Threads -> Nat]
      BY <1>1, <1>3 DEF TypeOK, TypeThread
    <3>2. CASE Call(t, clientId[s0], "disc", "idle") \/ Call(t, clientId[s0], "disc", "sdone")
      BY <3>1, <3>2, <1>1, <1>2, CallType DEF TypeOK, TypeThread, Returns
    <3>3. CASE Goto(t, IF k = "recv" THEN "proc" ELSE "sdone") /\ UNCHANGED <<id, op, cont>>
      BY <3>1, <3>3, <1>1 DEF Goto, TypeOK, TypeThread, Labels
    <3> QED BY <3>2, <3>3 DEF Complete
  <2>2. io' \in [Slots -> SUBSET {"recv", "send"}]
    BY <1>1, <1>3, IoType DEF TypeOK, TypeSession
  <2> QED BY <2>1, <2>2, <1>1, <1>3 DEF TypeOK, TypeSession, TypeServer
<1>7. ASSUME NEW u \in Threads PROVE ThreadInv(u)'
  <2>1. CASE u = t
    BY <2>1, <1>1, <1>5 DEF ThreadInv, Keep, Ending
  <2>2. CASE u # t
    BY <2>2, <1>5 DEF IInv, ThreadInv, Keep
  <2> QED BY <2>1, <2>2
<1>8. RefCount'
  BY <1>1, <1>3, <1>5, <1>6, RefsComplete DEF OthersKeep
<1>9. ASSUME NEW u \in Threads, NEW s
      PROVE  /\ Owns(u, s)' <=> Owns(u, s)
             /\ slot'[u] = s /\ pc'[u] \in {"aset", "ainc", "aflag", "ajoin", "leave", "drain", "push"}
                  => slot[u] = s /\ pc'[u] = pc[u]
  BY <1>1, <1>5 DEF Owns
<1>10. ASSUME NEW s PROVE Live(s)' <=> Live(s)
  BY <1>3, <1>9 DEF Live
<1>11. OneOwner'
  BY <1>3, <1>9 DEF IInv, OneOwner
<1>12. ASSUME NEW u \in Threads PROVE SecureInv(u)'
  <2>1. CASE u = t
    <3>1. Live(slot[t])'
      BY <1>2, <1>5, <1>10 DEF Live, Owns
    <3> QED BY <2>1, <3>1, <1>2, <1>3, <1>5 DEF SecureInv, Fresh
  <2>2. CASE u # t
    <3>1. Secure(u)' <=> Secure(u)
      BY <2>2, <1>5 DEF Secure, Locked
    <3>2. PICK s : s = slot[u]
      OBVIOUS
    <3>3. Live(slot[u]) => Live(slot[u])'
      BY <3>2, <2>2, <1>5, <1>10 DEF Live, Owns
    <3> QED BY <3>1, <3>3, <2>2, <1>3, <1>5 DEF IInv, SecureInv, Fresh
  <2> QED BY <2>1, <2>2
<1>13. ASSUME NEW s \in Slots PROVE SlotInv(s)'
  <2>1. SlotInv(s) /\ (Live(s)' <=> Live(s)) /\ (Empty(s) => Empty(s)') /\ io'[s] \subseteq io[s]
    BY <1>3, <1>4, <1>10 DEF IInv, Empty, Fresh
  <2>2. Acceptor \in Threads /\ pc'[Acceptor] = pc[Acceptor] /\ slot'[Acceptor] = slot[Acceptor]
    BY <1>1, <1>5 DEF Threads
  <2> QED BY <2>1, <2>2, <1>3, <1>9, ZenonT(60) DEF SlotInv, Early, Ending
<1>14. IdInv'
  <2>1. Acceptor \in Threads /\ pc'[Acceptor] = pc[Acceptor] /\ cont'[Acceptor] = cont[Acceptor]
    BY <1>1, <1>5 DEF Threads
  <2>2. \A j \in joined \ left : \A u \in Threads : Owns(u, j[1])' => pc'[u] = "leave"
    BY <1>9 DEF IInv, IdInv, Owns
  <2> QED BY <2>1, <2>2, <1>3 DEF IInv, IdInv, Owns
<1>15. OneRequest'
  <2>1. \A u \in Threads \ {t} : /\ slot'[u] = slot[u] /\ (Receiving(u)' <=> Receiving(u))
                                 /\ (Sender(u)' <=> Sender(u))
    BY <1>5 DEF Receiving, Sender
  <2>2. (Receiving(t)' => k = "recv") /\ (Sender(t)' => k = "send")
    BY <1>5 DEF Receiving, Sender
  <2>3. k \notin io'[s0]
    BY <1>1, <1>3 DEF TypeOK, TypeSession
  <2>4. k = "recv" => \A u \in Threads : slot[u] = s0 => ~Receiving(u)
    BY <1>1 DEF IInv, OneRequest
  <2>5. k = "send" => sending[s0] /\ \A u \in Threads : slot[u] = s0 => ~Sender(u)
    BY <1>1 DEF IInv, OneRequest
  <2>6. ASSUME NEW s \in Slots, NEW u \in Threads, slot'[u] = s, Receiving(u)'
        PROVE  "recv" \notin io'[s] /\ \A v \in Threads : slot'[v] = s /\ Receiving(v)' => v = u
    <3>1. CASE u = t
      BY <3>1, <2>1, <2>2, <2>3, <2>4, <2>6, <1>5
    <3>2. CASE u # t
      BY <3>2, <2>1, <2>2, <2>4, <2>6, <1>4, <1>5 DEF IInv, OneRequest
    <3> QED BY <3>1, <3>2
  <2>7. ASSUME NEW s \in Slots, NEW u \in Threads, slot'[u] = s, Sender(u)'
        PROVE  /\ "send" \notin io'[s] /\ sending'[s]
               /\ \A v \in Threads : slot'[v] = s /\ Sender(v)' => v = u
    <3>1. CASE u = t
      BY <3>1, <2>1, <2>2, <2>3, <2>5, <2>7, <1>3, <1>5
    <3>2. CASE u # t
      BY <3>2, <2>1, <2>2, <2>5, <2>7, <1>3, <1>4, <1>5 DEF IInv, OneRequest
    <3> QED BY <3>1, <3>2
  <2>8. ASSUME NEW s \in Slots, "send" \in io'[s] PROVE sending'[s]
    BY <2>8, <1>3, <1>4 DEF IInv, OneRequest
  <2> QED BY <2>6, <2>7, <2>8 DEF OneRequest
<1>16. OwnPackets'
  BY <1>3 DEF IInv, OwnPackets
<1> QED BY <1>6, <1>7, <1>8, <1>11, <1>12, <1>13, <1>14, <1>15, <1>16 DEF IInv

-----------------------------------------------------------------------------
(* The invariant *)

LEMMA InitInv ==
  ASSUME ConstantsOK, Init
  PROVE  IInv
<1>1. TypeOK
  BY DEF Init, TypeOK, TypeSession, TypeServer, TypeThread, Labels, Returns
<1>2. \A t \in Threads : pc[t] = "idle" /\ slot[t] = NoSlot /\ held[t] = 0 /\ cont[t] = "idle"
  BY DEF Init
<1>3. ASSUME NEW t \in Threads PROVE ThreadInv(t) /\ SecureInv(t)
  BY <1>2 DEF ThreadInv, SecureInv, Secure, Locked, Ending
<1>4. RefCount
  <2> SUFFICES ASSUME NEW s \in Slots PROVE IsFiniteSet(Refs(s)) /\ ioCount[s] = Cardinality(Refs(s))
    BY DEF RefCount
  <2>1. ASSUME NEW x PROVE x \notin Refs(s)
    BY <1>2, RefsMembers DEF Init, ConstantsOK
  <2>2. Refs(s) = {}
    BY <2>1
  <2> QED BY <2>2, FS_EmptySet DEF Init
<1>5. OneOwner /\ OneRequest /\ OwnPackets /\ IdInv
  <2>1. OneOwner
    BY <1>2 DEF OneOwner, Owns
  <2>2. OneRequest
    BY <1>2 DEF Init, OneRequest, Receiving, Sender
  <2>3. OwnPackets
    BY DEF Init, OwnPackets
  <2>4. IdInv
    BY DEF Init, IdInv
  <2> QED BY <2>1, <2>2, <2>3, <2>4
<1>6. ASSUME NEW s \in Slots PROVE SlotInv(s)
  <2>1. Empty(s) /\ s \in free
    BY DEF Init, Empty, Fresh
  <2> QED BY <2>1, <1>2 DEF SlotInv, Live, Early, Ending, Init
<1> QED BY <1>1, <1>3, <1>4, <1>5, <1>6 DEF IInv

LEMMA InsideInv ==
  ASSUME ConstantsOK, IInv, NEW t \in Threads, Inside(t)
  PROVE  IInv'
<1>1. TypeOK'
  BY TypeThreadInside, TypeSessionInside DEF IInv, TypeOK
<1>2. ASSUME NEW u \in Threads PROVE ThreadInv(u)'
  <2>1. CASE u = t
    BY <2>1, InsideThread DEF IInv
  <2>2. CASE u # t
    BY <2>2, InsideOthers DEF IInv, ThreadInv, Keep
  <2> QED BY <2>1, <2>2
<1>3. ASSUME NEW u \in Threads PROVE SecureInv(u)'
  BY SecureSelf, SecureOther
<1> QED BY <1>1, <1>2, <1>3, RefCountInside, OneOwnerInside, SlotInside, IdInside,
           OneRequestInside, OwnPacketsInside DEF IInv

LEMMA StutterInv ==
  ASSUME IInv, UNCHANGED vars
  PROVE  IInv'
BY DEF IInv, vars, sesVars, srvVars, thVars, TypeOK, TypeSession, TypeServer, TypeThread,
       ThreadInv, Keep, RefCount, Refs, OneOwner, Owns, SecureInv, Secure, Locked, Live, Fresh,
       SlotInv, Empty, IdInv, OneRequest, Receiving, Sender, OwnPackets

\* In every behaviour of the session layer, count, flag and owners of each session agree.
THEOREM Invariance == Spec => []IInv
<1>1. Init => IInv
  BY ConstantsOK, InitInv
<1>2. IInv /\ [Next]_vars => IInv'
  BY ConstantsOK, AcceptPopInv, AppCallInv, CompleteInv, InsideInv, StutterInv DEF Next
<1> QED BY <1>1, <1>2, PTL DEF Spec

-----------------------------------------------------------------------------
(* What it implies *)

\* No variable ever leaves the type its C++ declaration gives it; IOCount in
\* particular never goes below 0.
THEOREM TypeCorrect == Spec => []TypeOK
<1>1. IInv => TypeOK
  BY DEF IInv
<1> QED BY <1>1, Invariance, PTL

\* On every path through AcquireSessionLock, SendPost, RecvPost and the worker
\* loop the increments and decrements of IOCount match.
THEOREM Counted == Spec => []IOCountExact
<1>1. IInv => IOCountExact
  BY DEF IInv, RefCount, IOCountExact
<1> QED BY <1>1, Invariance, PTL

\* A session is released once, and its slot is never given to two connections.
THEOREM Owned == Spec => []OneOwner
<1>1. IInv => OneOwner
  BY DEF IInv
<1> QED BY <1>1, Invariance, PTL

\* AcquireSessionLock protects without a lock: who is past it works on a session
\* nobody releases or reuses, and on the client it asked for.
THEOREM Protected == Spec => []LockProtects
<1>1. ASSUME IInv, NEW t \in Threads, Locked(t)
      PROVE  /\ Live(slot[t])
             /\ pc[t] \in {"enqueue", "shutdown"} => clientId[slot[t]] = id[t]
  BY <1>1 DEF IInv, SecureInv, Secure
<1>2. IInv => LockProtects
  BY <1>1 DEF LockProtects
<1> QED BY <1>2, Invariance, PTL

\* A packet never reaches a client it was not addressed to.
THEOREM Addressed == Spec => []OwnPackets
<1>1. IInv => OwnPackets
  BY DEF IInv
<1> QED BY <1>1, Invariance, PTL

\* At most one receive and one send of a session are in flight or in hand, so
\* RecvQ, SendCount and the OVERLAPPED structures need no lock.
THEOREM Exclusive == Spec => []OneRequest
<1>1. IInv => OneRequest
  BY DEF IInv
<1> QED BY <1>1, Invariance, PTL

\* OnRecv, OnSend and OnClientLeave come after OnClientJoin and not after
\* OnClientLeave.
THEOREM Ordered == Spec => []EventOrder
<1>1. ASSUME IInv, NEW t \in Threads, pc[t] \in {"proc", "sdone", "leave"}
      PROVE  clientId[slot[t]] \in joined \ left
  <2>1. slot[t] \in Slots
    BY <1>1 DEF IInv, ThreadInv
  <2>2. CASE pc[t] = "leave"
    BY <1>1, <2>1, <2>2 DEF IInv, SlotInv, Ending
  <2>3. CASE pc[t] # "leave"
    BY <1>1, <2>3 DEF IInv, SecureInv, Secure, Locked
  <2> QED BY <2>2, <2>3
<1>2. IInv => EventOrder
  BY <1>1 DEF EventOrder
<1> QED BY <1>2, Invariance, PTL

-----------------------------------------------------------------------------
(* Refinement *)

\* Serial numbers stay within the bound of the model.
SerialInv == nextId <= MaxClients /\ (pc[Acceptor] # "idle" => nextId < MaxClients)

LEMMA SerialInside ==
  ASSUME ConstantsOK, IInv, SerialInv, NEW t \in Threads, Inside(t)
  PROVE  SerialInv'
<1>1. TypeOK /\ ThreadInv(t) /\ nextId \in Nat
  BY DEF IInv, TypeOK, TypeServer
<1>2. CASE pc[t] = "acount"
  <2>1. t = Acceptor /\ pc[t] # "idle"
    BY <1>1, <1>2 DEF ThreadInv
  <2>2. nextId' = nextId + 1 /\ pc'[t] = "idle"
    BY <1>1, <1>2, StepAt DEF AcceptCount, Goto, TypeOK, TypeThread
  <2> QED BY <1>1, <2>1, <2>2 DEF SerialInv, ConstantsOK
<1>3. CASE pc[t] # "acount"
  <2>1. nextId' = nextId
    BY <1>1, <1>3, InsideFrame
  <2>2. pc'[Acceptor] # "idle" => pc[Acceptor] # "idle"
    BY <1>1, InsideFrame, InsideOthers DEF Threads
  <2> QED BY <2>1, <2>2 DEF SerialInv
<1> QED BY <1>2, <1>3

LEMMA SerialNext ==
  ASSUME ConstantsOK, IInv, SerialInv, [Next]_vars
  PROVE  SerialInv'
<1>1. CASE AcceptPop(Acceptor)
  BY <1>1 DEF AcceptPop, SerialInv
<1>2. ASSUME NEW t \in Workers, NEW s \in Slots, NEW k \in {"recv", "send"}, Complete(t, s, k)
      PROVE  SerialInv'
  <2>1. t # Acceptor /\ pc'[Acceptor] = pc[Acceptor] /\ nextId' = nextId
    BY <1>2 DEF Complete, Call, Goto, srvVars, ConstantsOK, IInv, TypeOK, TypeThread,
       Threads
  <2> QED BY <2>1 DEF SerialInv
<1>3. ASSUME NEW t \in Apps, AppCall(t) PROVE SerialInv'
  <2>1. t # Acceptor /\ pc'[Acceptor] = pc[Acceptor] /\ nextId' = nextId
    BY <1>3 DEF AppCall, Call, Goto, srvVars, ConstantsOK, IInv, TypeOK, TypeThread, Threads
  <2> QED BY <2>1 DEF SerialInv
<1>4. CASE UNCHANGED vars
  BY <1>4 DEF SerialInv, vars, srvVars, thVars
<1> QED BY <1>1, <1>2, <1>3, <1>4, SerialInside DEF Next

\* The call a thread is in ends, or goes on, with every step but two: the last step of
\* opening a slot begins OnClientJoin, a release that succeeds begins OnClientLeave.
LEMMA CallFlow ==
  ASSUME TypeOK, NEW t \in Threads, ThreadInv(t), Inside(t)
  PROVE  /\ pc[t] \notin {"aflag", "release"} => CallOf(t)' \in {CallOf(t), "none"}
         /\ pc[t] = "ajoin" => CallOf(t) = "join" /\ CallOf(t)' = "none"
         /\ pc[t] = "leave" => CallOf(t) = "leave" /\ CallOf(t)' = "none"
         /\ pc[t] \notin {"ajoin", "leave"} => CallOf(t) \in {"recv", "sent", "none"}
         /\ pc[t] \in {"aset", "aflag", "release"} => CallOf(t) = "none"
         /\ pc[t] = "aflag" => CallOf(t)' = "join"
         /\ pc[t] = "release" => CallOf(t)' \in {"leave", "none"}
         /\ pc[t] = "release" /\ CallOf(t)' # "none" =>
              ioCount[slot[t]] = 0 /\ releaseFlag[slot[t]] = 0
         /\ CallOf(t)' # "none" => slot'[t] = slot[t]
<1> USE DEF At, Goto, Resume, Keep, Call, CallOf, sesVars, srvVars, ThreadInv, TypeOK,
         TypeThread, Returns, Ending
<1>1. CASE AcceptSet(t) BY <1>1 DEF AcceptSet
<1>2. CASE AcceptInc(t) BY <1>2 DEF AcceptInc
<1>3. CASE AcceptFlag(t) BY <1>3 DEF AcceptFlag
<1>4. CASE AcceptJoin(t) BY <1>4 DEF AcceptJoin
<1>5. CASE AcceptCount(t) BY <1>5 DEF AcceptCount
<1>6. CASE Check(t) BY <1>6 DEF Check
<1>7. CASE Inc(t) BY <1>7 DEF Inc
<1>8. CASE Flag(t) BY <1>8 DEF Flag
<1>9. CASE Recheck(t) BY <1>9 DEF Recheck
<1>10. CASE Enqueue(t) BY <1>10 DEF Enqueue
<1>11. CASE ShutSock(t) BY <1>11 DEF ShutSock
<1>12. CASE Post(t) BY <1>12 DEF Post
<1>13. CASE Size(t) BY <1>13 DEF Size
<1>14. CASE Unsend(t) BY <1>14 DEF Unsend
<1>15. CASE Resize(t) BY <1>15 DEF Resize
<1>16. CASE SendInc(t) BY <1>16 DEF SendInc
<1>17. CASE SendIO(t) BY <1>17 DEF SendIO
<1>18. CASE RecvInc(t) BY <1>18 DEF RecvInc
<1>19. CASE RecvIO(t) BY <1>19 DEF RecvIO
<1>20. CASE Proc(t) BY <1>20 DEF Proc
<1>21. CASE SendDone(t) BY <1>21 DEF SendDone
<1>22. CASE SendReset(t) BY <1>22 DEF SendReset
<1>23. CASE Drop(t) BY <1>23 DEF Drop
<1>24. CASE Release(t) BY <1>24 DEF Release
<1>25. CASE LeaveEvent(t) BY <1>25 DEF LeaveEvent
<1>26. CASE Drain(t) BY <1>26 DEF Drain
<1>27. CASE Push(t) BY <1>27 DEF Push
<1> HIDE DEF CallOf, ThreadInv, TypeOK
<1> QED BY <1>1, <1>2, <1>3, <1>4, <1>5, <1>6, <1>7, <1>8, <1>9, <1>10, <1>11, <1>12,
         <1>13, <1>14, <1>15, <1>16, <1>17, <1>18, <1>19, <1>20, <1>21, <1>22, <1>23, <1>24,
         <1>25, <1>26, <1>27 DEF Inside

\* A thread in a call has a slot, whose client is the one the call is about.
LEMMA CallFacts ==
  ASSUME ConstantsOK, IInv, NEW u \in Threads, CallOf(u) # "none"
  PROVE  /\ slot[u] \in Slots
         /\ CallOf(u) \in {"join", "recv", "sent"} => Secure(u) /\ Live(slot[u])
         /\ CallOf(u) \in {"recv", "sent"} => clientId[slot[u]] \in joined \ left
         /\ CallOf(u) = "join" <=> pc[u] = "ajoin"
         /\ CallOf(u) = "leave" => Owns(u, slot[u])
         /\ CallOf(u) = "recv" => Receiving(u)
         /\ CallOf(u) = "sent" => Sender(u)
         /\ CallOf(u) \in {"join", "recv", "sent", "leave"}
<1>1. ThreadInv(u) /\ SecureInv(u)
  BY DEF IInv
<1>2. CallOf(u) \in {"join", "recv", "sent"} => Locked(u) /\ Secure(u)
  BY DEF CallOf, Secure, Locked
<1>3. CallOf(u) = "leave" => pc[u] = "leave"
  BY DEF CallOf
<1>4. CallOf(u) = "join" <=> pc[u] = "ajoin"
  BY DEF CallOf
<1>5. slot[u] \in Slots
  BY <1>1 DEF CallOf, ThreadInv
<1>6. CallOf(u) = "recv" => Receiving(u)
  BY DEF CallOf, Receiving
<1>7. CallOf(u) = "sent" => Sender(u)
  BY DEF CallOf, Sender
<1>8. CallOf(u) \in {"join", "recv", "sent", "leave"}
  BY DEF CallOf
<1> QED BY <1>1, <1>2, <1>3, <1>4, <1>5, <1>6, <1>7, <1>8 DEF SecureInv, Owns

\* Ids are in the range of the model, and name their slot.
LEMMA IdRange ==
  ASSUME ConstantsOK, IInv, SerialInv, NEW i \in joined
  PROVE  i \in Slots \X (0..MaxClients)
<1>1. TypeOK /\ IdInv
  BY DEF IInv
<1>2. i \in ClientIds /\ (i[2] < nextId \/ i[2] = nextId)
  BY <1>1 DEF IdInv, TypeOK, TypeServer
<1>3. i[1] \in Slots /\ i[2] \in 0..MaxClients /\ i = <<i[1], i[2]>>
  BY <1>1, <1>2 DEF ClientIds, SerialInv, TypeOK, TypeServer, ConstantsOK
<1> QED BY <1>3

LEMMA SlotOfId ==
  ASSUME ConstantsOK, IInv, NEW s \in Slots, NEW i \in joined, clientId[s] = i
  PROVE  i[1] = s
<1>1. SlotInv(s) /\ TypeOK
  BY DEF IInv
<1>2. i # NoId
  BY <1>1 DEF TypeOK, TypeServer, ConstantsOK, ClientIds
<1> QED BY <1>1, <1>2 DEF SlotInv

\* The calls after a step: those of the other threads, and what became of its own.
LEMMA CallsAfter ==
  ASSUME NEW t \in Threads, NEW i,
         \A u \in Threads \ {t} :
           /\ CallOf(u)' = CallOf(u) /\ slot'[u] = slot[u]
           /\ CallOf(u) # "none" => clientId'[slot[u]] = clientId[slot[u]],
         CallOf(t) # "none" => i = clientId[slot[t]]
  PROVE  /\ CallOf(t)' = "none" => Calls' = Calls \ {<<t, CallOf(t), i>>}
         /\ CallOf(t)' # "none" /\ CallOf(t) = "none" /\ clientId'[slot'[t]] = i =>
              /\ Calls' = Calls \cup {<<t, CallOf(t)', i>>}
              /\ \A c \in Calls : c[1] # t
         /\ CallOf(t)' # "none" /\ CallOf(t)' = CallOf(t) /\ clientId'[slot'[t]] = i =>
              Calls' = Calls
<1> DEFINE Of(u)  == <<u, CallOf(u), clientId[slot[u]]>>
           Of2(u) == <<u, CallOf(u)', clientId'[slot'[u]]>>
<1>1. \A c : c \in Calls <=> \E u \in Threads : CallOf(u) # "none" /\ c = Of(u)
  BY DEF Calls, Calling
<1>2. \A c : c \in Calls' <=> \E u \in Threads : CallOf(u)' # "none" /\ c = Of2(u)
  BY DEF Calls, Calling
<1>3. \A u \in Threads \ {t} : (CallOf(u)' # "none" <=> CallOf(u) # "none")
                              /\ (CallOf(u) # "none" => Of2(u) = Of(u))
  OBVIOUS
<1>4. \A u \in Threads : Of(u)[1] = u /\ Of2(u)[1] = u
  OBVIOUS
<1>5. CallOf(t) # "none" => Of(t) = <<t, CallOf(t), i>>
  OBVIOUS
<1>6. ASSUME CallOf(t)' # "none", clientId'[slot'[t]] = i PROVE Of2(t) = <<t, CallOf(t)', i>>
  BY <1>6
<1>7. <<t, CallOf(t), i>>[1] = t
  OBVIOUS
<1> HIDE DEF Of, Of2
<1>8. ASSUME CallOf(t)' = "none" PROVE Calls' = Calls \ {<<t, CallOf(t), i>>}
  BY <1>1, <1>2, <1>3, <1>4, <1>5, <1>7, <1>8
<1>9. ASSUME CallOf(t)' # "none", CallOf(t) = "none", clientId'[slot'[t]] = i
      PROVE  /\ Calls' = Calls \cup {<<t, CallOf(t)', i>>}
             /\ \A c \in Calls : c[1] # t
  BY <1>1, <1>2, <1>3, <1>4, <1>6, <1>9
<1>10. ASSUME CallOf(t)' # "none", CallOf(t)' = CallOf(t), clientId'[slot'[t]] = i
       PROVE  Calls' = Calls
  <2>1. \A u \in Threads \ {t} : CallOf(u)' # "none" /\ CallOf(u) # "none" => Of2(u) = Of(u)
    BY <1>3
  <2>2. CallOf(t) # "none" /\ Of2(t) = Of(t)
    BY <1>5, <1>6, <1>10
  <2>3. \A u \in Threads : CallOf(u)' # "none" <=> CallOf(u) # "none"
    BY <1>3, <1>10, <2>2
  <2>4. \A u \in Threads : CallOf(u) # "none" => Of2(u) = Of(u)
    BY <1>3, <2>2
  <2>5. ASSUME NEW c \in Calls' PROVE c \in Calls
    <3>1. PICK u \in Threads : CallOf(u)' # "none" /\ c = Of2(u)
      BY <1>2
    <3>2. CallOf(u) # "none" /\ c = Of(u)
      BY <2>3, <2>4, <3>1
    <3> QED BY <1>1, <3>2
  <2>6. ASSUME NEW c \in Calls PROVE c \in Calls'
    <3>1. PICK u \in Threads : CallOf(u) # "none" /\ c = Of(u)
      BY <1>1
    <3>2. CallOf(u)' # "none" /\ c = Of2(u)
      BY <2>3, <2>4, <3>1
    <3> QED BY <1>2, <3>2
  <2> QED BY <2>5, <2>6, Zenon
<1> QED BY <1>8, <1>9, <1>10

\* The calls about a client are made by threads on its slot.
LEMMA CallsOn ==
  ASSUME ConstantsOK, IInv, NEW c \in Calls
  PROVE  \E u \in Threads :
           /\ CallOf(u) # "none" /\ c[1] = u /\ c[2] = CallOf(u) /\ c[3] = clientId[slot[u]]
           /\ c[3][1] = slot[u]
<1>1. PICK u \in Threads : CallOf(u) # "none" /\ c = <<u, CallOf(u), clientId[slot[u]]>>
  BY DEF Calls, Calling
<1>2. c[1] = u /\ c[2] = CallOf(u) /\ c[3] = clientId[slot[u]]
  BY <1>1
<1>3. slot[u] \in Slots
  BY <1>1, CallFacts
<1>4. clientId[slot[u]][1] = slot[u]
  <2>1. CASE CallOf(u) = "join"
    <3>1. pc[u] = "ajoin"
      BY <2>1 DEF CallOf
    <3>2. clientId[slot[u]] = <<slot[u], nextId>>
      BY <3>1, <1>3 DEF IInv, SlotInv
    <3> QED BY <3>2
  <2>2. CASE CallOf(u) \in {"recv", "sent"}
    <3>1. clientId[slot[u]] \in joined
      BY <2>2, <1>1, CallFacts
    <3> QED BY <3>1, <1>3, SlotOfId
  <2>3. CASE CallOf(u) = "leave"
    <3>1. pc[u] = "leave"
      BY <2>3 DEF CallOf
    <3>2. clientId[slot[u]] \in joined
      BY <3>1, <1>3 DEF IInv, SlotInv, Ending
    <3> QED BY <3>2, <1>3, SlotOfId
  <2> QED BY <2>1, <2>2, <2>3, <1>1, CallFacts
<1> QED BY <1>1, <1>2, <1>4

\* A step of a thread begins or ends one call, or is nothing the content can see.
LEMMA InsideService ==
  ASSUME ConstantsOK, IInv, SerialInv, NEW t \in Threads, Inside(t)
  PROVE  [Service!Next]_(Service!svars)
<1>1. TypeOK /\ ThreadInv(t) /\ IdInv /\ OneOwner
  BY DEF IInv
<1>2. /\ \A u \in Threads \ {t} :
           /\ pc'[u] = pc[u] /\ slot'[u] = slot[u] /\ cont'[u] = cont[u]
           /\ CallOf(u)' = CallOf(u)
  BY <1>1, InsideOthers DEF CallOf
<1>3. CASE pc[t] = "aset"
  <2>1. slot[t] \in Slots /\ Owns(t, slot[t])
    BY <1>1, <1>3 DEF ThreadInv, Owns
  <2>2. ASSUME NEW u \in Threads \ {t}, CallOf(u) # "none" PROVE slot[u] # slot[t]
    <3>1. CallOf(u) \in {"join", "recv", "sent"} => Live(slot[u])
      BY <2>2, CallFacts
    <3>2. CallOf(u) = "leave" => Owns(u, slot[u])
      BY <2>2, CallFacts
    <3>3. slot[u] = slot[t] => ~Live(slot[u]) /\ ~Owns(u, slot[u])
      BY <2>1, <1>1 DEF Live, OneOwner
    <3> QED BY <3>1, <3>2, <3>3, <2>2, CallFacts
  <2>3. \A u \in Threads \ {t} : CallOf(u) # "none" => clientId'[slot[u]] = clientId[slot[u]]
    <3> SUFFICES ASSUME NEW u \in Threads \ {t}, CallOf(u) # "none"
                 PROVE  clientId'[slot[u]] = clientId[slot[u]]
      OBVIOUS
    <3>1. slot[u] \in Slots /\ slot[u] # slot[t]
      BY <2>2, CallFacts
    <3> QED BY <3>1, <2>1, <1>1, <1>3, StepAt DEF AcceptSet, TypeOK, TypeSession
  <2>4. CallOf(t) = "none" /\ CallOf(t)' = "none"
    BY <1>1, <1>3, CallFlow
  <2>5. Calls' = Calls
    <3>1. Calls' = Calls \ {<<t, CallOf(t), NoId>>}
      BY <1>2, <2>3, <2>4, CallsAfter
    <3>2. <<t, CallOf(t), NoId>> \notin Calls
      BY <2>4 DEF Calls, Calling
    <3> QED BY <3>1, <3>2
  <2> QED BY <2>5, <1>1, <1>3, InsideFrame DEF Service!svars
<1> DEFINE i == clientId[slot[t]]
<1>4. ASSUME pc[t] # "aset" PROVE clientId' = clientId
  BY <1>1, <1>4, InsideFrame
<1>5. ASSUME pc[t] # "aset"
      PROVE  /\ CallOf(t)' = "none" => Calls' = Calls \ {<<t, CallOf(t), i>>}
             /\ CallOf(t)' # "none" /\ CallOf(t) = "none" =>
                  /\ Calls' = Calls \cup {<<t, CallOf(t)', i>>}
                  /\ \A c \in Calls : c[1] # t
             /\ CallOf(t)' # "none" /\ CallOf(t)' = CallOf(t) => Calls' = Calls
  <2>1. CallOf(t)' # "none" => clientId'[slot'[t]] = i
    BY <1>1, <1>4, <1>5, CallFlow
  <2>2. \A u \in Threads \ {t} : clientId'[slot[u]] = clientId[slot[u]]
    BY <1>4, <1>5
  <2> HIDE DEF i
  <2> QED BY <2>1, <2>2, <1>2, CallsAfter DEF i
<1>6. CallOf(t) # "none" => <<t, CallOf(t), i>> \in Calls
  BY DEF Calls, Calling
<1>7. CallOf(t) = "none" => \A k, j : <<t, k, j>> \notin Calls
  BY DEF Calls, Calling
<1>8. CASE pc[t] = "aflag"
  <2>1. t = Acceptor /\ slot[t] \in Slots /\ Owns(t, slot[t])
    BY <1>1, <1>8 DEF ThreadInv, Owns
  <2>2. i = <<slot[t], nextId>> /\ nextId \in 0..MaxClients
    BY <1>1, <1>8, <2>1 DEF IInv, SlotInv, SerialInv, TypeOK, TypeServer, ConstantsOK
  <2>3. i \in Slots \X (0..MaxClients) /\ i[1] = slot[t] /\ i[2] = nextId
    BY <2>1, <2>2
  <2>4. i \notin joined
    <3>1. cont[Acceptor] = "idle" /\ pc[Acceptor] # "acount"
      BY <1>1, <1>8, <2>1 DEF ThreadInv
    <3>2. \A j \in joined : j[2] < nextId
      BY <3>1, <1>1 DEF IdInv
    <3> QED BY <3>2, <2>3, <1>1 DEF TypeOK, TypeServer
  <2>5. \A j \in joined \ left : j[1] # i[1]
    BY <1>1, <1>8, <2>1, <2>3 DEF IdInv
  <2>6. ASSUME NEW c \in Calls PROVE c[3][1] # i[1]
    <3>1. PICK u \in Threads : CallOf(u) # "none" /\ c[3][1] = slot[u]
      BY CallsOn
    <3>2. u # t
      BY <3>1, <1>1, <1>8, CallFlow
    <3>3. Live(slot[u]) \/ Owns(u, slot[u])
      BY <3>1, CallFacts
    <3>4. slot[u] # slot[t]
      BY <3>2, <3>3, <2>1, <1>1 DEF Live, OneOwner
    <3> QED BY <3>1, <3>4, <2>3
  <2>7. CallOf(t) = "none" /\ CallOf(t)' = "join"
    BY <1>1, <1>8, CallFlow
  <2>8. Calls' = Calls \cup {<<t, "join", i>>} /\ \A c \in Calls : c[1] # t
    BY <1>5, <1>8, <2>7
  <2>9. joined' = joined /\ left' = left /\ left \subseteq joined
    BY <1>1, <1>8, InsideFrame DEF IdInv
  <2> HIDE DEF i
  <2>10. Service!MayJoin(i)
    BY <2>4, <2>5, <2>6, <2>9 DEF Service!MayJoin
  <2>11. Service!Enter(t, "join", i)
    BY <2>8, <2>9, <2>10 DEF Service!Enter
  <2> QED BY <2>3, <2>11 DEF Service!Next
<1>9. CASE pc[t] = "ajoin"
  <2>1. t = Acceptor /\ slot[t] \in Slots
    BY <1>1, <1>9 DEF ThreadInv
  <2>2. i = <<slot[t], nextId>> /\ nextId \in 0..MaxClients
    BY <1>1, <1>9, <2>1 DEF IInv, SlotInv, SerialInv, TypeOK, TypeServer, ConstantsOK
  <2>3. i \in Slots \X (0..MaxClients)
    BY <2>1, <2>2
  <2>4. i \notin joined /\ left \subseteq joined
    BY <1>1, <1>9, <2>1, NewId DEF IdInv
  <2>5. CallOf(t) = "join" /\ CallOf(t)' = "none"
    BY <1>1, <1>9, CallFlow DEF CallOf
  <2>6. Calls' = Calls \ {<<t, "join", i>>} /\ <<t, "join", i>> \in Calls
    BY <1>5, <1>6, <1>9, <2>5
  <2>7. joined' = joined \cup {i} /\ left' = left
    BY <1>9, <1>1, StepAt, InsideFrame DEF AcceptJoin
  <2> HIDE DEF i
  <2>8. Service!Return(t, "join", i)
    BY <2>4, <2>6, <2>7 DEF Service!Return
  <2> QED BY <2>3, <2>8 DEF Service!Next
<1>10. CASE pc[t] = "leave"
  <2>1. slot[t] \in Slots
    BY <1>1, <1>10 DEF ThreadInv
  <2>2. i \in joined \ left
    BY <1>10, <2>1 DEF IInv, SlotInv, Ending
  <2>3. i \in Slots \X (0..MaxClients)
    BY <2>2, IdRange
  <2>4. CallOf(t) = "leave" /\ CallOf(t)' = "none"
    BY <1>1, <1>10, CallFlow
  <2>5. Calls' = Calls \ {<<t, "leave", i>>} /\ <<t, "leave", i>> \in Calls
    BY <1>5, <1>6, <1>10, <2>4
  <2>6. joined' = joined /\ left' = left \cup {i}
    BY <1>10, <1>1, StepAt, InsideFrame DEF LeaveEvent
  <2> HIDE DEF i
  <2>7. Service!Return(t, "leave", i)
    BY <2>2, <2>5, <2>6 DEF Service!Return
  <2> QED BY <2>3, <2>7 DEF Service!Next
<1>11. CASE pc[t] = "release" /\ CallOf(t)' # "none"
  <2>1. CallOf(t) = "none" /\ CallOf(t)' = "leave"
        /\ ioCount[slot[t]] = 0 /\ releaseFlag[slot[t]] = 0
    BY <1>1, <1>11, CallFlow
  <2>2. /\ slot[t] \in Slots /\ Live(slot[t]) /\ i \in joined \ left
        /\ \A u \in Threads : slot[u] = slot[t] => ~Secure(u)
    BY <1>11, <2>1, ReleaseFacts
  <2>3. i \in Slots \X (0..MaxClients) /\ i[1] = slot[t]
    BY <2>2, IdRange, SlotOfId
  <2>4. ASSUME NEW c \in Calls PROVE c[3] # i
    <3>1. PICK u \in Threads : CallOf(u) # "none" /\ c[3][1] = slot[u]
      BY CallsOn
    <3>2. Secure(u) \/ Owns(u, slot[u])
      BY <3>1, CallFacts
    <3>3. slot[u] # slot[t]
      BY <3>2, <2>2 DEF Live
    <3> QED BY <3>1, <3>3, <2>3
  <2>5. Calls' = Calls \cup {<<t, "leave", i>>} /\ \A c \in Calls : c[1] # t
    BY <1>5, <1>11, <2>1
  <2>6. joined' = joined /\ left' = left
    BY <1>1, <1>11, InsideFrame
  <2> HIDE DEF i
  <2>7. Service!MayLeave(i)
    BY <2>2, <2>4 DEF Service!MayLeave
  <2>8. Service!Enter(t, "leave", i)
    BY <2>5, <2>6, <2>7 DEF Service!Enter
  <2> QED BY <2>3, <2>8 DEF Service!Next
<1>12. CASE pc[t] \notin {"aset", "aflag", "ajoin", "leave"}
            /\ (pc[t] = "release" => CallOf(t)' = "none")
  <2>1. joined' = joined /\ left' = left
    BY <1>1, <1>12, InsideFrame
  <2>2. CallOf(t)' \in {CallOf(t), "none"}
    BY <1>1, <1>12, CallFlow
  <2>3. CASE CallOf(t)' = CallOf(t)
    <3>1. Calls' = Calls
      BY <1>5, <1>7, <1>12, <2>3
    <3> QED BY <2>1, <3>1 DEF Service!svars
  <2>4. CASE CallOf(t)' = "none" /\ CallOf(t) # "none"
    <3>1. CallOf(t) \in {"recv", "sent"}
      BY <1>1, <1>12, <2>4, CallFlow
    <3>2. i \in joined \ left
      BY <3>1, <2>4, CallFacts
    <3>3. i \in Slots \X (0..MaxClients)
      BY <3>2, IdRange
    <3>4. Calls' = Calls \ {<<t, CallOf(t), i>>} /\ <<t, CallOf(t), i>> \in Calls
      BY <1>5, <1>6, <1>12, <2>4
    <3> HIDE DEF i
    <3>5. Service!Return(t, CallOf(t), i)
      BY <2>1, <3>1, <3>4 DEF Service!Return
    <3> QED BY <3>1, <3>3, <3>5 DEF Service!Next
  <2> QED BY <2>2, <2>3, <2>4
<1> QED BY <1>3, <1>8, <1>9, <1>10, <1>11, <1>12

\* A completion handed to a worker begins one OnRecv or OnSend, or none.
LEMMA CompleteService ==
  ASSUME ConstantsOK, IInv, SerialInv, NEW t \in Workers, NEW s \in Slots,
         NEW k \in {"recv", "send"}, Complete(t, s, k)
  PROVE  [Service!Next]_(Service!svars)
<1> DEFINE i == clientId[s]
<1>1. t \in Threads /\ TypeOK /\ ThreadInv(t) /\ SlotInv(s) /\ OneRequest
  BY DEF IInv, Threads
<1>2. /\ pc[t] = "idle" /\ cont[t] = "idle" /\ k \in io[s] /\ clientId' = clientId
      /\ joined' = joined /\ left' = left /\ slot'[t] = s /\ CallOf(t) = "none"
  BY <1>1 DEF Complete, At, ThreadInv, srvVars, TypeOK, TypeThread, CallOf
<1>3. \A u \in Threads \ {t} :
        /\ CallOf(u)' = CallOf(u) /\ slot'[u] = slot[u]
        /\ clientId'[slot[u]] = clientId[slot[u]]
  BY <1>1, <1>2 DEF Complete, Goto, Call, CallOf, TypeOK, TypeThread
<1>4. CallOf(t)' = "none" \/ CallOf(t)' = (IF k = "recv" THEN "recv" ELSE "sent")
  BY <1>1, <1>2 DEF Complete, Goto, Call, CallOf, TypeOK, TypeThread
<1>5. CASE CallOf(t)' = "none"
  <2>1. Calls' = Calls \ {<<t, "none", i>>}
    BY <1>1, <1>2, <1>3, <1>5, CallsAfter
  <2>2. <<t, "none", i>> \notin Calls
    BY DEF Calls, Calling
  <2> QED BY <1>2, <2>1, <2>2 DEF Service!svars
<1>6. CASE CallOf(t)' # "none"
  <2> DEFINE m == IF k = "recv" THEN "recv" ELSE "sent"
  <2>1. CallOf(t)' = m /\ m \in {"recv", "sent"}
    BY <1>4, <1>6
  <2>2. Live(s) /\ i \in joined \ left
    BY <1>1, <1>2 DEF SlotInv
  <2>3. i \in Slots \X (0..MaxClients) /\ i[1] = s
    BY <2>2, IdRange, SlotOfId
  <2>4. ASSUME NEW c \in Calls, c[3] = i PROVE c[2] \notin {m, "leave"}
    <3>1. PICK u \in Threads : CallOf(u) # "none" /\ c[2] = CallOf(u) /\ c[3][1] = slot[u]
      BY CallsOn
    <3>2. slot[u] = s
      BY <3>1, <2>3, <2>4
    <3>3. CallOf(u) # "leave"
      BY <3>1, <3>2, <2>2, CallFacts DEF Live
    <3>4. CallOf(u) = "recv" => k # "recv"
      BY <3>1, <3>2, <1>1, <1>2, CallFacts DEF OneRequest
    <3>5. CallOf(u) = "sent" => k # "send"
      BY <3>1, <3>2, <1>1, <1>2, CallFacts DEF OneRequest
    <3> QED BY <3>1, <3>3, <3>4, <3>5
  <2> HIDE DEF m
  <2>5. Calls' = Calls \cup {<<t, m, i>>} /\ \A c \in Calls : c[1] # t
    <3>1. clientId'[slot'[t]] = i
      BY <1>2
    <3> HIDE DEF i
    <3>2. /\ Calls' = Calls \cup {<<t, CallOf(t)', i>>}
          /\ \A c \in Calls : c[1] # t
      BY <3>1, <1>1, <1>2, <1>3, <1>6, CallsAfter
    <3> QED BY <3>2, <2>1
  <2> HIDE DEF i
  <2>6. Service!MayHear(m, i)
    BY <2>2, <2>4 DEF Service!MayHear
  <2>7. Service!Enter(t, m, i)
    BY <1>2, <2>1, <2>5, <2>6 DEF Service!Enter
  <2> QED BY <1>1, <2>1, <2>3, <2>7 DEF Service!Next
<1> QED BY <1>5, <1>6

\* A thread that takes up a connection or a call of the content is in no call of it.
LEMMA StartService ==
  ASSUME ConstantsOK, IInv, NEW t \in Threads, pc[t] = "idle",
         AcceptPop(t) \/ (t \in Apps /\ AppCall(t))
  PROVE  UNCHANGED Service!svars
<1>1. TypeOK /\ ThreadInv(t)
  BY DEF IInv
<1>2. /\ cont[t] = "idle" /\ CallOf(t) = "none" /\ CallOf(t)' = "none"
      /\ clientId' = clientId /\ joined' = joined /\ left' = left
  BY <1>1 DEF AcceptPop, AppCall, Call, Goto, ThreadInv, CallOf, sesVars, srvVars, TypeOK,
     TypeThread
<1>3. \A u \in Threads \ {t} :
        /\ CallOf(u)' = CallOf(u) /\ slot'[u] = slot[u]
        /\ clientId'[slot[u]] = clientId[slot[u]]
  BY <1>1, <1>2 DEF AcceptPop, AppCall, Call, Goto, CallOf, TypeOK, TypeThread
<1>4. Calls' = Calls \ {<<t, "none", NoId>>}
  BY <1>2, <1>3, CallsAfter
<1>5. <<t, "none", NoId>> \notin Calls
  BY DEF Calls, Calling
<1> QED BY <1>2, <1>4, <1>5 DEF Service!svars

\* The interlocked protocol implements SessionService: to its content, a session
\* layer whose threads race is a set of clients that each join once and leave once,
\* with their packets one at a time in between.
THEOREM Refinement == Spec => ServiceSpec
<1>1. Init => Service!Init /\ SerialInv
  BY ConstantsOK DEF Init, Service!Init, SerialInv, ConstantsOK, Threads, Calls, Calling,
     CallOf
<1>2. IInv /\ SerialInv /\ [Next]_vars => SerialInv'
  BY ConstantsOK, SerialNext
<1>3. IInv /\ SerialInv /\ [Next]_vars => [Service!Next]_(Service!svars)
  <2> SUFFICES ASSUME IInv, SerialInv, [Next]_vars PROVE [Service!Next]_(Service!svars)
    OBVIOUS
  <2>1. CASE AcceptPop(Acceptor)
    <3>1. pc[Acceptor] = "idle" /\ Acceptor \in Threads
      BY <2>1 DEF AcceptPop, At, Threads
    <3> QED BY <2>1, <3>1, ConstantsOK, StartService
  <2>2. ASSUME NEW t \in Workers, NEW s \in Slots, NEW k \in {"recv", "send"}, Complete(t, s, k)
        PROVE  [Service!Next]_(Service!svars)
    BY <2>2, ConstantsOK, CompleteService
  <2>3. ASSUME NEW t \in Apps, AppCall(t) PROVE UNCHANGED Service!svars
    <3>1. pc[t] = "idle" /\ t \in Threads
      BY <2>3 DEF AppCall, At, Threads
    <3> QED BY <2>3, <3>1, ConstantsOK, StartService
  <2>4. CASE UNCHANGED vars
    BY <2>4 DEF vars, srvVars, sesVars, thVars, Service!svars, Calls, Calling, CallOf
  <2> QED BY <2>1, <2>2, <2>3, <2>4, ConstantsOK, InsideService DEF Next
<1>4. Spec => []SerialInv
  BY <1>1, <1>2, Invariance, PTL DEF Spec
<1> QED BY <1>1, <1>3, <1>4, Invariance, PTL DEF Spec, ServiceSpec, Service!Spec

-----------------------------------------------------------------------------
(* LanSession: the same protocol without OnClientLeave *)

\* The compare-and-swap of CLanServer succeeds: what it changes.
LanReleased(t) ==
  /\ pc[t] = "release" /\ ioCount[slot[t]] = 0 /\ releaseFlag[slot[t]] = 0
  /\ releaseFlag' = [releaseFlag EXCEPT ![slot[t]] = 1]
  /\ left' = left \cup {clientId[slot[t]]}
  /\ pc' = [pc EXCEPT ![t] = "drain"]
  /\ UNCHANGED <<clientId, ioCount, sock, sendQ, sending, sendCount, io,
                 free, nextId, clientCount, joined, slot, id, op, cont, held>>

\* Where it fails, the step is the one of CNetServer.
LEMMA LanCases ==
  ASSUME NEW t, LanInside(t)
  PROVE  Inside(t) \/ LanReleased(t)
<1>1. CASE ReleaseSilently(t)
  <2>1. CASE ioCount[slot[t]] = 0 /\ releaseFlag[slot[t]] = 0
    BY <1>1, <2>1 DEF ReleaseSilently, LanReleased, At, Goto
  <2>2. CASE ~(ioCount[slot[t]] = 0 /\ releaseFlag[slot[t]] = 0)
    <3>1. Release(t)
      BY <1>1, <2>2 DEF ReleaseSilently, Release, srvVars
    <3> QED BY <3>1 DEF Inside
  <2> QED BY <2>1, <2>2
<1> QED BY <1>1 DEF LanInside

LEMMA LanReleasedInv ==
  ASSUME ConstantsOK, IInv, NEW t \in Threads, LanReleased(t)
  PROVE  IInv'
<1> PICK s : s = slot[t]
  OBVIOUS
<1>1. /\ s \in Slots /\ Live(s) /\ io[s] = {} /\ clientId[s] \in joined \ left
      /\ \A u \in Threads : slot[u] = s => held[u] = 0
      /\ \A u \in Threads : slot[u] = s => ~Secure(u)
  BY ReleaseFacts DEF LanReleased
<1>2. TypeOK /\ RefCount /\ OneOwner /\ IdInv /\ OneRequest /\ OwnPackets
  BY DEF IInv
<1>3. /\ pc'[t] = "drain" /\ pc[t] = "release"
      /\ \A u \in Threads \ {t} : pc'[u] = pc[u]
      /\ slot' = slot /\ id' = id /\ op' = op /\ cont' = cont /\ held' = held
  BY <1>2 DEF LanReleased, TypeOK, TypeThread
<1>4. /\ releaseFlag'[s] = 1
      /\ \A r \in Slots \ {s} : releaseFlag'[r] = releaseFlag[r]
      /\ left' = left \cup {clientId[s]} /\ joined' = joined /\ free' = free
      /\ nextId' = nextId /\ clientId' = clientId /\ io' = io /\ sendQ' = sendQ
      /\ sending' = sending /\ ioCount' = ioCount
  BY <1>1, <1>2 DEF LanReleased, TypeOK, TypeSession
<1>5. TypeOK'
  <2>1. TypeSession'
    BY <1>1, <1>2 DEF LanReleased, TypeOK, TypeSession
  <2>2. TypeServer'
    BY <1>1, <1>2 DEF LanReleased, TypeOK, TypeServer
  <2>3. TypeThread'
    BY <1>2 DEF LanReleased, TypeOK, TypeThread, Labels
  <2> QED BY <2>1, <2>2, <2>3 DEF TypeOK
<1>6. ASSUME NEW u \in Threads PROVE ThreadInv(u)'
  <2>1. ThreadInv(u)
    BY DEF IInv
  <2>2. CASE u = t
    BY <2>1, <2>2, <1>3 DEF ThreadInv, Keep, Ending
  <2>3. CASE u # t
    BY <2>1, <2>3, <1>3 DEF ThreadInv, Keep
  <2> QED BY <2>2, <2>3
<1>7. RefCount'
  <2>1. held'[t] = held[t] /\ OthersKeep(t)
    BY <1>3 DEF OthersKeep
  <2> QED BY <2>1, <1>2, <1>3, <1>4, <1>5, RefsSame
<1>8. /\ Owns(t, s)'
      /\ \A u \in Threads, r \in Slots : u # t \/ r # s => (Owns(u, r)' <=> Owns(u, r))
  BY <1>3 DEF Owns
<1>9. s \notin free /\ \A u \in Threads : ~Owns(u, s)
  BY <1>1 DEF Live
<1>10. OneOwner'
  BY <1>2, <1>4, <1>8, <1>9 DEF OneOwner
<1>11. \A r \in Slots \ {s} : Live(r)' <=> Live(r)
  BY <1>4, <1>8 DEF Live
<1>12. \A r \in Slots \ {s} : clientId[r] \in joined \ left => clientId[r] \in joined' \ left'
  <2> SUFFICES ASSUME NEW r \in Slots \ {s}, clientId[r] \in joined \ left
               PROVE  clientId[r] # clientId[s]
    BY <1>4
  <2>1. \A i \in joined : i # NoId
    BY <1>2 DEF TypeOK, TypeServer, ConstantsOK, ClientIds
  <2>2. clientId[r][1] = r /\ clientId[s][1] = s
    BY <2>1, <1>1 DEF IInv, SlotInv
  <2> QED BY <2>2
<1>13. \A u \in Threads : Secure(u)' <=> Secure(u)
  BY <1>3 DEF Secure, Locked
<1>14. \A r : Fresh(r)' <=> Fresh(r)
  BY <1>4 DEF Fresh
<1>15. ASSUME NEW u \in Threads PROVE SecureInv(u)'
  <2>1. SecureInv(u) /\ ThreadInv(u)
    BY DEF IInv
  <2>2. ASSUME Secure(u)' \/ pc'[u] = "recheck"
        PROVE  slot[u] \in Slots \ {s} /\ Live(slot[u])
    <3>1. Secure(u) \/ pc[u] = "recheck"
      BY <2>2, <1>3, <1>13
    <3>2. slot[u] \in Slots /\ Live(slot[u])
      BY <3>1, <2>1 DEF SecureInv, ThreadInv, Secure, Locked
    <3>3. held[u] >= 1
      BY <3>1, <2>1, <1>2, SecureFacts DEF ThreadInv, Keep, TypeOK, TypeThread
    <3>4. slot[u] # s
      BY <3>3, <1>1
    <3> QED BY <3>2, <3>4
  <2>3. Secure(u)' \/ pc'[u] = "recheck" => Live(slot[u])'
    BY <2>2, <1>3, <1>11
  <2>4. Secure(u)' /\ pc'[u] # "ajoin" => (clientId[slot[u]] \in joined \ left)'
    BY <2>1, <2>2, <1>3, <1>4, <1>12, <1>13 DEF SecureInv
  <2>5. /\ (pc[u] \in {"enqueue", "shutdown"} => id[u] = clientId[slot[u]])'
        /\ (pc[u] \in {"check", "inc", "flag", "recheck"} => id[u] \in joined)'
    BY <2>1, <1>3, <1>4 DEF SecureInv
  <2>6. (pc[u] \notin {"idle", "acount", "aset", "ainc", "aflag", "ajoin"} => ~Fresh(slot[u]))'
    <3>1. pc'[u] \notin {"idle", "acount", "aset", "ainc", "aflag", "ajoin"} => ~Fresh(slot[u])
      BY <2>1, <1>3 DEF SecureInv
    <3> QED BY <3>1, <1>3, <1>4 DEF Fresh
  <2> QED BY <2>3, <2>4, <2>5, <2>6 DEF SecureInv
<1>16. ASSUME NEW r \in Slots PROVE SlotInv(r)'
  <2>1. SlotInv(r) /\ SlotInv(s)
    BY <1>1 DEF IInv
  <2>2. CASE r = s
    <3>1. \A u \in Threads : slot[u] = s => pc'[u] \notin Early /\ pc'[u] \notin {"leave", "push"}
      BY <1>3, <1>9 DEF Owns, Early
    <3>2. \A u \in Threads : slot[u] = s => pc'[u] \notin {"ainc", "aflag", "ajoin"}
      BY <1>1, <1>3, <1>9 DEF Owns, Secure, Locked
    <3>3. ~Live(s)' /\ s \notin free' /\ io'[s] = {} /\ releaseFlag'[s] = 1
      BY <1>1, <1>4, <1>8, <1>9 DEF Live
    <3>4. clientId'[s] = NoId \/ clientId'[s][1] = s
      BY <2>1, <1>4 DEF SlotInv
    <3> QED BY <2>2, <3>1, <3>2, <3>3, <3>4, <1>3 DEF SlotInv
  <2>3. CASE r # s
    <3>1. \A u \in Threads : slot[u] = r => u # t
      BY <2>3
    <3>2. Empty(r)' <=> Empty(r)
      BY <2>3, <1>4, <1>14 DEF Empty
    <3>3. clientId[r] \in joined \ left => clientId'[r] \in joined' \ left'
      BY <2>3, <1>4, <1>12
    <3>4. (Live(r) =>
            /\ releaseFlag[r] = 0
            /\ clientId[r] \in joined \ left \/ (slot[Acceptor] = r /\ pc[Acceptor] = "ajoin"))'
      BY <2>1, <2>3, <3>1, <3>3, <1>3, <1>4, <1>11 DEF SlotInv, Threads
    <3>5. (io[r] # {} => Live(r) /\ clientId[r] \in joined \ left)'
      BY <2>1, <2>3, <3>3, <1>4, <1>11 DEF SlotInv
    <3>6. /\ (r \in free => Empty(r))'
          /\ (\A u \in Threads : slot[u] = r /\ pc[u] \in Early => Empty(r))'
          /\ (clientId[r] = NoId \/ clientId[r][1] = r)'
      BY <2>1, <3>1, <3>2, <1>3, <1>4 DEF SlotInv
    <3>7. /\ (\A u \in Threads : slot[u] = r /\ pc[u] \in Ending =>
                /\ io[r] = {} /\ releaseFlag[r] = 1
                /\ pc[u] = "push" => sendQ[r] = <<>>
                /\ pc[u] = "leave" => clientId[r] \in joined \ left)'
          /\ (\A u \in Threads : slot[u] = r /\ pc[u] \in {"ainc", "aflag", "ajoin"} =>
                clientId[r] = <<r, nextId>>)'
      BY <2>1, <2>3, <3>1, <3>3, <1>3, <1>4 DEF SlotInv
    <3> QED BY <3>4, <3>5, <3>6, <3>7 DEF SlotInv
  <2> QED BY <2>2, <2>3
<1>17. IdInv'
  <2>1. (left \subseteq joined)'
    BY <1>1, <1>2, <1>4 DEF IdInv
  <2>2. \A j \in joined :
          \/ j[2] < nextId
          \/ j[2] = nextId /\ (pc[Acceptor] = "acount" \/ cont[Acceptor] = "acount")
    BY <1>2 DEF IdInv
  <2>3. pc[Acceptor] = "acount" => pc'[Acceptor] = "acount"
    BY <1>3, ConstantsOK DEF Threads
  <2>4. ASSUME NEW j \in joined' \ left'
        PROVE  (/\ clientId[j[1]] = j /\ j[1] \notin free
                /\ \A u \in Threads : Owns(u, j[1]) => pc[u] = "leave")'
    <3>1. j \in joined \ left /\ j # clientId[s]
      BY <2>4, <1>4
    <3>2. /\ clientId[j[1]] = j /\ j[1] \notin free
          /\ \A u \in Threads : Owns(u, j[1]) => pc[u] = "leave"
      BY <3>1, <1>2 DEF IdInv
    <3>3. j[1] # s
      BY <3>1, <3>2
    <3>4. \A u \in Threads : Owns(u, j[1])' => Owns(u, j[1]) /\ u # t
      BY <3>3, <1>3 DEF Owns
    <3> QED BY <3>2, <3>4, <1>3, <1>4
  <2> QED BY <2>1, <2>2, <2>3, <2>4, <1>3, <1>4 DEF IdInv
<1>18. OneRequest'
  <2>1. \A u \in Threads : Receiving(u)' => Receiving(u)
    BY <1>3 DEF Receiving
  <2>2. \A u \in Threads : Sender(u)' => Sender(u)
    BY <1>3 DEF Sender
  <2> QED BY <2>1, <2>2, <1>2, <1>3, <1>4 DEF OneRequest
<1>19. OwnPackets'
  BY <1>2, <1>4 DEF OwnPackets
<1> QED BY <1>5, <1>6, <1>7, <1>10, <1>15, <1>16, <1>17, <1>18, <1>19 DEF IInv

\* The copy of the protocol in CLanServer keeps the invariant of the original.
THEOREM LanInvariance == LanSpec => []IInv
<1>1. Init => IInv
  BY ConstantsOK, InitInv
<1>2. IInv /\ [LanNext]_vars => IInv'
  BY ConstantsOK, AcceptPopInv, AppCallInv, CompleteInv, InsideInv, StutterInv,
     LanCases, LanReleasedInv DEF LanNext
<1> QED BY <1>1, <1>2, PTL DEF LanSpec

\* A session between servers is released once, its slot is never given to two
\* connections, and IOCount is what the threads and requests hold.
THEOREM LanOwned == LanSpec => [](OneOwner /\ IOCountExact)
<1>1. IInv => OneOwner /\ IOCountExact
  BY DEF IInv, RefCount, IOCountExact
<1> QED BY <1>1, LanInvariance, PTL

\* What AcquireSessionLock and _bSending promise holds in CLanServer too: the locked
\* session is nobody else's, its packets are its client's, and each request is alone.
THEOREM LanProtected == LanSpec => [](LockProtects /\ OwnPackets /\ OneRequest)
<1>1. ASSUME IInv, NEW t \in Threads, Locked(t)
      PROVE  /\ Live(slot[t])
             /\ pc[t] \in {"enqueue", "shutdown"} => clientId[slot[t]] = id[t]
  BY <1>1 DEF IInv, SecureInv, Secure
<1>2. IInv => LockProtects /\ OwnPackets /\ OneRequest
  BY <1>1 DEF LockProtects, IInv
<1> QED BY <1>2, LanInvariance, PTL
=============================================================================
