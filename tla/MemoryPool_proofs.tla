------------------------- MODULE MemoryPool_proofs -------------------------
(***************************************************************************)
(* Proofs about MemoryPool, for any number of threads, nodes and           *)
(* operations: the list is never read when it is empty, the pointers spell *)
(* the free list, and no node is handed out twice.                         *)
(*                                                                         *)
(* The argument has three parts. Serial numbers: a thread that still has   *)
(* to write its number is the only one to have it, so a compare-and-swap   *)
(* that succeeds proves that the top has not changed since its number was  *)
(* read (NumInv, ReadInv). Places: a node is with a caller, with a thread, *)
(* or in the list (HandInv, Linked). Counters: m_iAllocCount less          *)
(* m_iUseCount is the number of free nodes nobody has a claim on, which    *)
(* may be negative while nodes are being made (Balance, Backed).           *)
(***************************************************************************)
EXTENDS MemoryPool, SequenceTheorems, FiniteSetTheorems, TLAPS

\* Threads that are going to pop, that have been counted and are making a node,
\* and that are between the two ends of a use.
Popper(t)  == At(t, "next") \/ At(t, "pop") \/ (pc[t] \in {"num", "top", "topnum"} /\ node[t] = NoNode)
Claims     == {t \in Threads : Popper(t) \/ At(t, "dec")}
Makers     == {t \in Threads : pc[t] \in {"new", "count"}}
Users      == {t \in Threads : pc[t] \notin {"idle", "inc"}}
Counting   == {t \in Threads : At(t, "count")}

\* t has taken a serial number and not yet written it.
HasNum(t) == pc[t] \in {"top", "topnum", "next", "pop", "link", "push"}
\* t has read the serial number of the top.
HasOld(t) == pc[t] \in {"next", "pop", "link", "push"}

NumInv ==
  /\ top.num <= uniqueNum
  /\ \A t \in Threads : HasNum(t) => num[t] <= uniqueNum /\ num[t] # top.num
  /\ \A t, u \in Threads : HasNum(t) /\ HasNum(u) /\ t # u => num[t] # num[u]
  /\ \A t, u \in Threads : HasOld(t) /\ HasNum(u) => oldNum[t] # num[u]
  /\ \A t \in Threads : HasOld(t) => oldNum[t] <= uniqueNum

ReadInv(t) ==
  /\ At(t, "pop") /\ Unchanged(t) => nxt[t] = next[old[t]]
  /\ At(t, "push") => next[node[t]] = old[t]
  /\ pc[t] \in {"topnum", "next", "pop"} /\ node[t] = NoNode => old[t] # NoNode
  /\ At(t, "inc") => seen[t] <= allocCount

HandInv(t) ==
  /\ pc[t] \in {"idle", "inc", "new", "next", "pop", "dec"} => node[t] = NoNode
  /\ pc[t] \in {"count", "link", "push"} => node[t] # NoNode
  /\ node[t] # NoNode => node[t] \in created \ given
  /\ \A u \in Threads : node[t] # NoNode /\ node[u] = node[t] => u = t

Balance == allocCount - useCount = Len(list) - Cardinality(Claims) - Cardinality(Makers)
Backed  == Cardinality(Claims) <= Len(list)

IInv ==
  /\ TypeOK /\ given \subseteq created /\ IsFiniteSet(created)
  /\ NumInv
  /\ \A t \in Threads : ReadInv(t)
  /\ \A t \in Threads : HandInv(t)
  /\ Linked
  /\ CountsExact /\ Balance /\ Backed

-----------------------------------------------------------------------------
(* One step of one thread *)

Step(t) == AllocStep(t) \/ FreeStep(t) \/ LoopStep(t)

\* The other threads stay where they are.
OthersKeep(t) ==
  \A u \in Threads \ {t} :
    /\ pc'[u] = pc[u] /\ seen'[u] = seen[u] /\ num'[u] = num[u] /\ old'[u] = old[u]
    /\ oldNum'[u] = oldNum[u] /\ nxt'[u] = nxt[u] /\ node'[u] = node[u]

\* Nothing but the thread's own memory changes.
PoolKeeps == UNCHANGED poolVars

LEMMA StepFrame ==
  ASSUME TypeOK, NEW t \in Threads, Step(t)
  PROVE  OthersKeep(t)
<1> USE DEF OthersKeep, TypeOK, Goto, Leave, poolVars
<1>1. CASE ReadCount(t) BY <1>1 DEF ReadCount
<1>2. CASE Use(t) BY <1>2 DEF Use
<1>3. CASE New(t) BY <1>3 DEF New
<1>4. CASE Count(t) BY <1>4 DEF Count
<1>5. CASE TakeNum(t) BY <1>5 DEF TakeNum
<1>6. CASE ReadTop(t) BY <1>6 DEF ReadTop
<1>7. CASE ReadTopNum(t) BY <1>7 DEF ReadTopNum
<1>8. CASE ReadNext(t) BY <1>8 DEF ReadNext
<1>9. CASE Pop(t) BY <1>9 DEF Pop
<1>10. CASE FreeCall(t) BY <1>10 DEF FreeCall
<1>11. CASE Link(t) BY <1>11 DEF Link
<1>12. CASE Push(t) BY <1>12 DEF Push
<1>13. CASE Unuse(t) BY <1>13 DEF Unuse
<1> QED
  BY <1>1, <1>2, <1>3, <1>4, <1>5, <1>6, <1>7, <1>8, <1>9, <1>10, <1>11, <1>12, <1>13
  DEF Step, AllocStep, FreeStep, LoopStep

\* The list as a sequence: taking its last element off, and putting one on.
LEMMA Shorter ==
  ASSUME NEW q \in Seq(Nodes), q # <<>>
  PROVE  /\ SubSeq(q, 1, Len(q) - 1) \in Seq(Nodes)
         /\ Len(SubSeq(q, 1, Len(q) - 1)) = Len(q) - 1
         /\ \A i \in 1..(Len(q) - 1) : SubSeq(q, 1, Len(q) - 1)[i] = q[i]
<1>1. Len(q) \in Nat /\ Len(q) # 0 /\ \A i \in 1..Len(q) : q[i] \in Nodes
  OBVIOUS
<1>2. 1 \in Int /\ Len(q) - 1 \in Int /\ \A i \in 1..(Len(q) - 1) : q[i] \in Nodes
  BY <1>1
<1>3. /\ SubSeq(q, 1, Len(q) - 1) \in Seq(Nodes)
      /\ Len(SubSeq(q, 1, Len(q) - 1)) = IF 1 <= Len(q) - 1 THEN Len(q) - 1 - 1 + 1 ELSE 0
      /\ \A i \in 1..(Len(q) - 1 - 1 + 1) : SubSeq(q, 1, Len(q) - 1)[i] = q[1 + i - 1]
  BY <1>2, SubSeqProperties
<1>4. Len(SubSeq(q, 1, Len(q) - 1)) = Len(q) - 1
  <2> DEFINE m == Len(SubSeq(q, 1, Len(q) - 1))
             k == Len(q)
  <2>1. k \in Nat /\ k # 0 /\ m = IF 1 <= k - 1 THEN k - 1 - 1 + 1 ELSE 0
    BY <1>1, <1>3
  <2> HIDE DEF m, k
  <2>2. m = k - 1
    BY <2>1
  <2> QED BY <2>2 DEF m, k
<1>5. ASSUME NEW i \in 1..(Len(q) - 1) PROVE SubSeq(q, 1, Len(q) - 1)[i] = q[i]
  <2>1. i \in 1..(Len(q) - 1 - 1 + 1) /\ 1 + i - 1 = i
    BY <1>1
  <2> QED BY <1>3, <2>1
<1> QED BY <1>3, <1>4, <1>5

LEMMA StepType ==
  ASSUME ConstantsOK, IInv, NEW t \in Threads, Step(t)
  PROVE  TypeOK'
<1>0. TypeOK BY DEF IInv
<1> USE <1>0 DEF TypeOK, Goto, Leave, poolVars, NodeOrNull
<1>1. CASE ReadCount(t) BY <1>1 DEF ReadCount
<1>2. CASE Use(t) BY <1>2 DEF Use
<1>3. CASE New(t) BY <1>3 DEF New
<1>4. CASE Count(t)
  <2>1. node[t] \in Nodes
    BY <1>4 DEF IInv, HandInv, Count, At
  <2> QED BY <1>4, <2>1 DEF Count
<1>5. CASE TakeNum(t) BY <1>5 DEF TakeNum
<1>6. CASE ReadTop(t) BY <1>6 DEF ReadTop
<1>7. CASE ReadTopNum(t) BY <1>7 DEF ReadTopNum
<1>8. CASE ReadNext(t) BY <1>8 DEF ReadNext
<1>9. CASE Pop(t)
  <2>1. old[t] \in Nodes
    BY <1>9 DEF IInv, ReadInv, HandInv, Pop, At
  <2>2. CASE Unchanged(t)
    <3>1. list # <<>>
      BY <2>1, <2>2, ConstantsOK DEF IInv, Linked, Unchanged, ConstantsOK
    <3>2. list' \in Seq(Nodes)
      BY <1>9, <2>2, <3>1, Shorter DEF Pop
    <3>3. given' \subseteq Nodes /\ top' \in [node : NodeOrNull, num : Nat] /\ outs' \in Int
      BY <1>9, <2>1, <2>2 DEF Pop
    <3>4. /\ UNCHANGED <<useCount, allocCount, uniqueNum, next, created, seen, node>>
          /\ pc' = [pc EXCEPT ![t] = "idle"] /\ num' = [num EXCEPT ![t] = 0]
          /\ old' = [old EXCEPT ![t] = NoNode] /\ oldNum' = [oldNum EXCEPT ![t] = 0]
          /\ nxt' = [nxt EXCEPT ![t] = NoNode]
      BY <1>9, <2>2 DEF Pop
    <3> HIDE DEF Goto, Leave
    <3> QED BY <3>2, <3>3, <3>4
  <2>3. CASE ~Unchanged(t) BY <1>9, <2>3 DEF Pop
  <2> QED BY <2>2, <2>3
<1>10. CASE FreeCall(t) BY <1>10 DEF FreeCall
<1>11. CASE Link(t) BY <1>11 DEF Link
<1>12. CASE Push(t)
  <2>1. node[t] \in Nodes
    BY <1>12 DEF IInv, HandInv, Push, At
  <2>2. Append(list, node[t]) \in Seq(Nodes)
    BY <2>1
  <2>3. CASE Unchanged(t)
    <3>1. /\ UNCHANGED <<useCount, allocCount, uniqueNum, next, created, given, seen>>
          /\ pc' = [pc EXCEPT ![t] = "dec"] /\ num' = [num EXCEPT ![t] = 0]
          /\ old' = [old EXCEPT ![t] = NoNode] /\ oldNum' = [oldNum EXCEPT ![t] = 0]
          /\ nxt' = [nxt EXCEPT ![t] = NoNode] /\ node' = [node EXCEPT ![t] = NoNode]
          /\ top' = [node |-> node[t], num |-> num[t]] /\ outs' = outs - 1
          /\ list' = Append(list, node[t])
      BY <1>12, <2>3 DEF Push
    <3> HIDE DEF Goto, Leave
    <3> QED BY <2>1, <2>2, <3>1
  <2>4. CASE ~Unchanged(t) BY <1>12, <2>4 DEF Push
  <2> QED BY <2>3, <2>4
<1>13. CASE Unuse(t)
  <2>1. useCount # 0
    <3>1. t \in {u \in Threads : pc[u] \notin {"idle", "inc"}}
      BY <1>13 DEF Unuse, At
    <3>2. /\ IsFiniteSet({u \in Threads : pc[u] \notin {"idle", "inc"}})
          /\ Cardinality({u \in Threads : pc[u] \notin {"idle", "inc"}}) \in Nat \ {0}
      BY <3>1, ConstantsOK, FS_Subset, FS_EmptySet, FS_CardinalityType DEF ConstantsOK
    <3>3. Cardinality(given) \in Nat
      BY FS_Subset, FS_CardinalityType DEF IInv
    <3> QED BY <3>2, <3>3 DEF IInv, CountsExact
  <2> QED BY <1>13, <2>1 DEF Unuse
<1> QED
  BY <1>1, <1>2, <1>3, <1>4, <1>5, <1>6, <1>7, <1>8, <1>9, <1>10, <1>11, <1>12, <1>13
  DEF Step, AllocStep, FreeStep, LoopStep

-----------------------------------------------------------------------------
(* Serial numbers *)

\* What a step does to the numbers: a new one is taken, the top's is read, the
\* thread's own is written to the top and forgotten, or none of these.
LEMMA NumStep ==
  ASSUME TypeOK, NEW t \in Threads, Step(t)
  PROVE  \/ /\ uniqueNum' = uniqueNum + 1 /\ top' = top
            /\ num'[t] = uniqueNum + 1 /\ pc'[t] = "top"
         \/ /\ uniqueNum' = uniqueNum /\ top' = top /\ num'[t] = num[t]
            /\ HasNum(t) /\ HasOld(t)' /\ oldNum'[t] = top.num
         \/ /\ uniqueNum' = uniqueNum /\ HasNum(t) /\ top'.num = num[t] /\ ~HasNum(t)'
         \/ /\ uniqueNum' = uniqueNum /\ top' = top /\ num'[t] = num[t]
            /\ oldNum'[t] = oldNum[t]
            /\ HasNum(t)' => HasNum(t)
            /\ HasOld(t)' => HasOld(t)
<1> USE DEF TypeOK, Goto, Leave, poolVars, HasNum, HasOld, At
<1>1. CASE ReadCount(t) BY <1>1 DEF ReadCount
<1>2. CASE Use(t) BY <1>2 DEF Use
<1>3. CASE New(t) BY <1>3 DEF New
<1>4. CASE Count(t) BY <1>4 DEF Count
<1>5. CASE TakeNum(t) BY <1>5 DEF TakeNum
<1>6. CASE ReadTop(t) BY <1>6 DEF ReadTop
<1>7. CASE ReadTopNum(t) BY <1>7 DEF ReadTopNum
<1>8. CASE ReadNext(t) BY <1>8 DEF ReadNext
<1>9. CASE Pop(t)
  <2>1. CASE Unchanged(t) BY <1>9, <2>1 DEF Pop
  <2>2. CASE ~Unchanged(t) BY <1>9, <2>2 DEF Pop
  <2> QED BY <2>1, <2>2
<1>10. CASE FreeCall(t) BY <1>10 DEF FreeCall
<1>11. CASE Link(t) BY <1>11 DEF Link
<1>12. CASE Push(t)
  <2>1. CASE Unchanged(t) BY <1>12, <2>1 DEF Push
  <2>2. CASE ~Unchanged(t) BY <1>12, <2>2 DEF Push
  <2> QED BY <2>1, <2>2
<1>13. CASE Unuse(t) BY <1>13 DEF Unuse
<1> QED
  BY <1>1, <1>2, <1>3, <1>4, <1>5, <1>6, <1>7, <1>8, <1>9, <1>10, <1>11, <1>12, <1>13
  DEF Step, AllocStep, FreeStep, LoopStep

LEMMA StepNum ==
  ASSUME TypeOK, TypeOK', NumInv, NEW t \in Threads, Step(t)
  PROVE  NumInv'
<1>1. OthersKeep(t) BY StepFrame
<1>2. \A u \in Threads \ {t} : /\ num'[u] = num[u] /\ oldNum'[u] = oldNum[u]
                               /\ (HasNum(u)' <=> HasNum(u)) /\ (HasOld(u)' <=> HasOld(u))
  BY <1>1 DEF OthersKeep, HasNum, HasOld
<1>3. /\ uniqueNum \in Nat /\ uniqueNum' \in Nat /\ top.num \in Nat /\ top'.num \in Nat
      /\ \A u \in Threads : num[u] \in Nat /\ oldNum[u] \in Nat
      /\ \A u \in Threads : num'[u] \in Nat /\ oldNum'[u] \in Nat
      /\ \A u \in Threads : (HasOld(u) => HasNum(u)) /\ (HasOld(u) => HasNum(u))'
  BY DEF TypeOK, HasOld, HasNum
<1>4. CASE /\ uniqueNum' = uniqueNum + 1 /\ top' = top
           /\ num'[t] = uniqueNum + 1 /\ pc'[t] = "top"
  <2>1. HasNum(t)' /\ ~HasOld(t)'
    BY <1>4 DEF HasNum, HasOld
  <2> QED BY <1>2, <1>3, <1>4, <2>1 DEF NumInv
<1>5. CASE /\ uniqueNum' = uniqueNum /\ top' = top /\ num'[t] = num[t]
           /\ HasNum(t) /\ HasOld(t)' /\ oldNum'[t] = top.num
  BY <1>2, <1>3, <1>5 DEF NumInv
<1>6. CASE /\ uniqueNum' = uniqueNum /\ HasNum(t) /\ top'.num = num[t] /\ ~HasNum(t)'
  BY <1>2, <1>3, <1>6 DEF NumInv
<1>7. CASE /\ uniqueNum' = uniqueNum /\ top' = top /\ num'[t] = num[t]
           /\ oldNum'[t] = oldNum[t]
           /\ HasNum(t)' => HasNum(t)
           /\ HasOld(t)' => HasOld(t)
  BY <1>2, <1>3, <1>7 DEF NumInv
<1> QED BY <1>4, <1>5, <1>6, <1>7, NumStep

-----------------------------------------------------------------------------
(* Places *)

\* A compare-and-swap of a thread without a node in hand finds a node on the list.
LEMMA PopTakesTop ==
  ASSUME ConstantsOK, IInv, NEW t \in Threads, Pop(t), Unchanged(t)
  PROVE  /\ list # <<>> /\ list \in Seq(Nodes) /\ old[t] = list[Len(list)]
         /\ old[t] \in created \ given
         /\ \A u \in Threads : node[u] # old[t]
         /\ nxt[t] = next[old[t]]
<1>1. old[t] # NoNode /\ nxt[t] = next[old[t]]
  BY DEF IInv, ReadInv, HandInv, Pop, At
<1>2. list # <<>> /\ list \in Seq(Nodes) /\ old[t] = list[Len(list)]
  BY <1>1 DEF IInv, Linked, Unchanged, TypeOK
<1>3. Len(list) \in 1..Len(list)
  BY <1>2
<1> QED BY <1>1, <1>2, <1>3 DEF IInv, Linked

LEMMA StepHand ==
  ASSUME ConstantsOK, IInv, NEW t \in Threads, Step(t)
  PROVE  (\A u \in Threads : HandInv(u))' /\ (given \subseteq created)' /\ IsFiniteSet(created)'
<1>0. TypeOK /\ given \subseteq created /\ IsFiniteSet(created) /\ \A u \in Threads : HandInv(u)
  BY DEF IInv
<1>a. OthersKeep(t) BY <1>0, StepFrame
<1> USE <1>0 DEF TypeOK, Goto, Leave, poolVars, HandInv, At, OthersKeep
<1>1. CASE ReadCount(t) BY <1>1, <1>a DEF ReadCount
<1>2. CASE Use(t) BY <1>2, <1>a DEF Use
<1>3. CASE New(t)
  <2>1. PICK n \in Nodes \ created : /\ created' = created \cup {n}
                                     /\ node' = [node EXCEPT ![t] = n]
    BY <1>3 DEF New
  <2>2. IsFiniteSet(created') BY <2>1, FS_AddElement
  <2> QED BY <1>3, <1>a, <2>1, <2>2, ConstantsOK DEF New, ConstantsOK
<1>4. CASE Count(t) BY <1>4, <1>a DEF Count
<1>5. CASE TakeNum(t) BY <1>5, <1>a DEF TakeNum
<1>6. CASE ReadTop(t) BY <1>6, <1>a DEF ReadTop
<1>7. CASE ReadTopNum(t) BY <1>7, <1>a DEF ReadTopNum
<1>8. CASE ReadNext(t) BY <1>8, <1>a DEF ReadNext
<1>9. CASE Pop(t)
  <2>1. CASE Unchanged(t)
    <3>1. old[t] \in created \ given /\ \A u \in Threads : node[u] # old[t]
      BY <1>9, <2>1, PopTakesTop
    <3> QED BY <1>9, <1>a, <2>1, <3>1 DEF Pop
  <2>2. CASE ~Unchanged(t) BY <1>9, <1>a, <2>2 DEF Pop
  <2> QED BY <2>1, <2>2
<1>10. CASE FreeCall(t)
  <2>1. PICK n \in given : given' = given \ {n} /\ node' = [node EXCEPT ![t] = n]
    BY <1>10 DEF FreeCall
  <2>2. n \in created /\ \A u \in Threads : node[u] # n
    BY <2>1, ConstantsOK DEF ConstantsOK
  <2>3. /\ node'[t] = n /\ pc'[t] = "num" /\ created' = created
        /\ \A u \in Threads : u # t => node'[u] = node[u] /\ pc'[u] = pc[u]
    BY <1>10, <1>a, <2>1 DEF FreeCall
  <2>4. \A u \in Threads : HandInv(u)'
    BY <2>1, <2>2, <2>3
  <2> QED BY <2>1, <2>3, <2>4
<1>11. CASE Link(t) BY <1>11, <1>a DEF Link
<1>12. CASE Push(t)
  <2>1. CASE Unchanged(t)
    <3>1. /\ node'[t] = NoNode /\ pc'[t] = "dec" /\ created' = created /\ given' = given
          /\ \A u \in Threads : u # t => node'[u] = node[u] /\ pc'[u] = pc[u]
      BY <1>12, <1>a, <2>1 DEF Push
    <3>2. \A u \in Threads : HandInv(u)'
      BY <3>1
    <3> QED BY <3>1, <3>2
  <2>2. CASE ~Unchanged(t) BY <1>12, <1>a, <2>2 DEF Push
  <2> QED BY <2>1, <2>2
<1>13. CASE Unuse(t) BY <1>13, <1>a DEF Unuse
<1> QED
  BY <1>1, <1>2, <1>3, <1>4, <1>5, <1>6, <1>7, <1>8, <1>9, <1>10, <1>11, <1>12, <1>13
  DEF Step, AllocStep, FreeStep, LoopStep

-----------------------------------------------------------------------------
(* What a thread has read *)

LEMMA ClaimsFinite ==
  ASSUME ConstantsOK
  PROVE  /\ IsFiniteSet(Claims) /\ IsFiniteSet(Makers) /\ IsFiniteSet(Users) /\ IsFiniteSet(Counting)
         /\ Cardinality(Claims) \in Nat /\ Cardinality(Makers) \in Nat
         /\ Cardinality(Users) \in Nat /\ Cardinality(Counting) \in Nat
<1>1. IsFiniteSet(Threads) BY DEF ConstantsOK
<1>2. /\ Claims \in SUBSET Threads /\ Makers \in SUBSET Threads
      /\ Users \in SUBSET Threads /\ Counting \in SUBSET Threads
  BY DEF Claims, Makers, Users, Counting
<1>3. IsFiniteSet(Claims) /\ IsFiniteSet(Makers) /\ IsFiniteSet(Users) /\ IsFiniteSet(Counting)
  BY <1>1, <1>2, FS_Subset
<1> QED BY <1>3, FS_CardinalityType

\* Somebody who is going to pop finds a node.
LEMMA ClaimBacked ==
  ASSUME ConstantsOK, IInv, NEW t \in Claims
  PROVE  list # <<>> /\ top.node \in Nodes /\ top.node # NoNode
<1>1. Cardinality(Claims) # 0
  BY ClaimsFinite, FS_EmptySet
<1>2. Len(list) # 0 /\ list \in Seq(Nodes)
  BY <1>1, ClaimsFinite DEF IInv, Backed, TypeOK
<1>3. list # <<>> /\ Len(list) \in 1..Len(list)
  BY <1>2
<1> QED BY <1>2, <1>3 DEF IInv, Linked, ConstantsOK

\* next changes only at a node that is being made or given back.
LEMMA NextStep ==
  ASSUME TypeOK, NEW t \in Threads, Step(t), NEW n \in created, n # node[t]
  PROVE  next'[n] = next[n]
<1> USE DEF TypeOK, poolVars
<1>3. CASE New(t) BY <1>3 DEF New
<1>11. CASE Link(t) BY <1>11 DEF Link
<1> QED
  BY <1>3, <1>11
  DEF Step, AllocStep, FreeStep, LoopStep, ReadCount, Use, Count, TakeNum, ReadTop,
      ReadTopNum, ReadNext, Pop, FreeCall, Push, Unuse

LEMMA CountGrows ==
  ASSUME TypeOK, NEW t \in Threads, Step(t)
  PROVE  allocCount <= allocCount'
<1> USE DEF TypeOK, poolVars
<1>1. CASE Count(t) BY <1>1 DEF Count
<1> QED
  BY <1>1
  DEF Step, AllocStep, FreeStep, LoopStep, ReadCount, Use, New, TakeNum, ReadTop,
      ReadTopNum, ReadNext, Pop, FreeCall, Link, Push, Unuse

LEMMA StepReadOther ==
  ASSUME ConstantsOK, IInv, NEW t \in Threads, Step(t), NEW u \in Threads, u # t
  PROVE  ReadInv(u)'
<1>0. TypeOK /\ ReadInv(u) /\ HandInv(u) /\ NumInv /\ Linked
  BY DEF IInv
<1>1. /\ pc'[u] = pc[u] /\ seen'[u] = seen[u] /\ num'[u] = num[u] /\ old'[u] = old[u]
      /\ oldNum'[u] = oldNum[u] /\ nxt'[u] = nxt[u] /\ node'[u] = node[u]
  BY <1>0, StepFrame DEF OthersKeep
<1>2. At(u, "inc")' => seen'[u] <= allocCount'
  <2>1. seen[u] \in Nat /\ allocCount \in Nat /\ allocCount' \in Nat
    BY <1>0, StepType DEF TypeOK
  <2>2. allocCount <= allocCount'
    BY <1>0, CountGrows
  <2> QED BY <1>0, <1>1, <2>1, <2>2 DEF ReadInv, At
<1>3. At(u, "push")' => next'[node'[u]] = old'[u]
  <2> SUFFICES ASSUME At(u, "push") PROVE next'[node[u]] = old[u]
    BY <1>1 DEF At
  <2>1. node[u] \in created /\ node[u] # node[t]
    BY DEF IInv, HandInv, At
  <2> QED BY <1>0, <2>1, NextStep DEF ReadInv
<1>4. At(u, "pop")' /\ Unchanged(u)' => nxt'[u] = next'[old'[u]]
  <2> SUFFICES ASSUME At(u, "pop"), Unchanged(u)' PROVE nxt[u] = next'[old[u]]
    BY <1>1 DEF At
  <2>1. top'.num = oldNum[u]
    BY <1>1 DEF Unchanged
  <2>2. top' = top
    BY <1>0, <2>1, NumStep DEF NumInv, HasOld, At
  <2>3. Unchanged(u)
    BY <1>1, <2>2 DEF Unchanged
  <2>4. old[u] = top.node /\ old[u] # NoNode
    BY <1>0, <2>3 DEF Unchanged, ReadInv, HandInv, At
  <2>5. list # <<>> /\ list \in Seq(Nodes)
    BY <1>0, <2>4 DEF Linked, TypeOK
  <2>6. Len(list) \in 1..Len(list)
    BY <2>5
  <2>7. old[u] \in created /\ old[u] # node[t]
    BY <1>0, <2>4, <2>5, <2>6 DEF Linked
  <2> QED BY <1>0, <2>3, <2>7, NextStep DEF ReadInv
<1> QED BY <1>0, <1>1, <1>2, <1>3, <1>4 DEF ReadInv, At

LEMMA StepReadOwn ==
  ASSUME ConstantsOK, IInv, NEW t \in Threads, Step(t)
  PROVE  ReadInv(t)'
<1>0. TypeOK /\ ReadInv(t) /\ HandInv(t)
  BY DEF IInv
<1> USE <1>0 DEF TypeOK, Goto, Leave, poolVars, ReadInv, At
<1>1. CASE ReadCount(t) BY <1>1 DEF ReadCount
<1>2. CASE Use(t) BY <1>2 DEF Use
<1>3. CASE New(t) BY <1>3 DEF New
<1>4. CASE Count(t) BY <1>4 DEF Count
<1>5. CASE TakeNum(t) BY <1>5 DEF TakeNum
<1>6. CASE ReadTop(t)
  <2>1. node[t] = NoNode => t \in Claims
    BY <1>6 DEF ReadTop, Claims, Popper
  <2> QED BY <1>6, <2>1, ClaimBacked DEF ReadTop
<1>7. CASE ReadTopNum(t) BY <1>7 DEF ReadTopNum
<1>8. CASE ReadNext(t) BY <1>8 DEF ReadNext
<1>9. CASE Pop(t)
  <2>1. CASE Unchanged(t) BY <1>9, <2>1 DEF Pop
  <2>2. CASE ~Unchanged(t) BY <1>9, <2>2 DEF Pop
  <2> QED BY <2>1, <2>2
<1>10. CASE FreeCall(t) BY <1>10 DEF FreeCall
<1>11. CASE Link(t)
  <2>1. node[t] \in Nodes
    BY <1>11 DEF Link, HandInv
  <2> QED BY <1>11, <2>1 DEF Link
<1>12. CASE Push(t)
  <2>1. CASE Unchanged(t) BY <1>12, <2>1 DEF Push
  <2>2. CASE ~Unchanged(t) BY <1>12, <2>2 DEF Push
  <2> QED BY <2>1, <2>2
<1>13. CASE Unuse(t) BY <1>13 DEF Unuse
<1> QED
  BY <1>1, <1>2, <1>3, <1>4, <1>5, <1>6, <1>7, <1>8, <1>9, <1>10, <1>11, <1>12, <1>13
  DEF Step, AllocStep, FreeStep, LoopStep

-----------------------------------------------------------------------------
(* The list *)

LEMMA LinkedKept ==
  ASSUME Linked, list' = list, top'.node = top.node,
         \A i \in 1..Len(list) : /\ next'[list[i]] = next[list[i]]
                                 /\ list[i] \in created' \ given'
                                 /\ \A u \in Threads : node'[u] # list[i]
  PROVE  Linked'
BY DEF Linked

LEMMA StepLinked ==
  ASSUME ConstantsOK, IInv, NEW t \in Threads, Step(t)
  PROVE  Linked'
<1>0. TypeOK /\ Linked /\ HandInv(t) /\ given \subseteq created
  BY DEF IInv
<1>a. OthersKeep(t) BY <1>0, StepFrame
<1>b. \A i \in 1..Len(list) : next'[list[i]] = next[list[i]]
  BY <1>0, NextStep DEF Linked
<1>9. CASE Pop(t) /\ Unchanged(t)
  <2> DEFINE n == Len(list)
             q == SubSeq(list, 1, Len(list) - 1)
  <2>1. /\ list # <<>> /\ list \in Seq(Nodes) /\ old[t] = list[n] /\ nxt[t] = next[list[n]]
    BY <1>9, PopTakesTop
  <2>2. /\ list' = q /\ top'.node = nxt[t] /\ given' = given \cup {list[n]}
        /\ created' = created /\ node' = node
    BY <1>9, <2>1 DEF Pop
  <2>3. n \in Nat /\ n >= 1 /\ Len(q) = n - 1 /\ \A i \in 1..(n - 1) : q[i] = list[i]
    BY <2>1, Shorter
  <2> HIDE DEF n, q
  <2>4. nxt[t] = IF n = 1 THEN NoNode ELSE list[n - 1]
    BY <1>0, <2>1, <2>3 DEF Linked, n
  <2>5. top'.node = IF q = <<>> THEN NoNode ELSE q[Len(q)]
    <3>1. q = <<>> <=> n = 1
      <4>1. q \in Seq(Nodes)
        BY <2>1, Shorter DEF q
      <4>2. q = <<>> <=> Len(q) = 0
        BY <4>1
      <4> QED BY <2>3, <4>2
    <3> QED BY <2>2, <2>3, <2>4, <3>1
  <2>6. ASSUME NEW i \in 1..Len(q)
        PROVE  /\ next'[q[i]] = IF i = 1 THEN NoNode ELSE q[i - 1]
               /\ q[i] \in created' \ given'
               /\ \A u \in Threads : node'[u] # q[i]
               /\ \A j \in 1..Len(q) : q[i] = q[j] => i = j
    <3>1. i \in 1..n /\ i # n /\ n \in 1..n /\ (i # 1 => i - 1 \in 1..(n - 1))
      BY <2>3
    <3>2. /\ next[list[i]] = IF i = 1 THEN NoNode ELSE list[i - 1]
          /\ list[i] \in created \ given /\ list[i] # list[n]
          /\ \A u \in Threads : node[u] # list[i]
          /\ \A j \in 1..n : list[i] = list[j] => i = j
      BY <1>0, <3>1 DEF Linked, n
    <3>3. q[i] = list[i] /\ next'[list[i]] = next[list[i]]
      BY <1>b, <2>3, <3>1 DEF n
    <3> QED BY <2>2, <2>3, <3>1, <3>2, <3>3
  <2> QED BY <2>2, <2>5, <2>6 DEF Linked
<1>12. CASE Push(t) /\ Unchanged(t)
  <2> DEFINE n == Len(list)
             q == Append(list, node[t])
  <2>1. node[t] \in created \ given /\ node[t] \in Nodes /\ next[node[t]] = old[t]
    BY <1>0, <1>12 DEF IInv, HandInv, ReadInv, Push, At, TypeOK
  <2>2. /\ list' = q /\ top'.node = node[t] /\ given' = given /\ created' = created
        /\ node' = [node EXCEPT ![t] = NoNode] /\ next' = next
    BY <1>12 DEF Push
  <2>3. /\ n \in Nat /\ Len(q) = n + 1 /\ q[n + 1] = node[t] /\ q # <<>>
        /\ \A i \in 1..n : q[i] = list[i]
    BY <1>0, <2>1, AppendProperties DEF TypeOK
  <2>4. old[t] = IF n = 0 THEN NoNode ELSE list[n]
    <3>1. list = <<>> <=> n = 0
      BY <1>0 DEF TypeOK
    <3> QED BY <1>0, <1>12, <3>1 DEF Unchanged, Linked
  <2> HIDE DEF n, q
  <2>5. ASSUME NEW i \in 1..Len(q)
        PROVE  /\ next'[q[i]] = IF i = 1 THEN NoNode ELSE q[i - 1]
               /\ q[i] \in created' \ given'
               /\ \A u \in Threads : node'[u] # q[i]
               /\ \A j \in 1..Len(q) : q[i] = q[j] => i = j
    <3>0. \A j \in 1..n : /\ list[j] \in created \ given
                          /\ \A u \in Threads : node[u] # list[j]
      BY <1>0 DEF Linked, n
    <3>1. CASE i = n + 1
      <4>1. \A j \in 1..n : list[j] # node[t]
        BY <3>0
      <4>2. \A u \in Threads : node'[u] # node[t]
        BY <1>0, <1>12, <2>1, <2>2, ConstantsOK DEF IInv, HandInv, TypeOK, ConstantsOK
      <4> QED BY <2>1, <2>2, <2>3, <2>4, <3>1, <4>1, <4>2
    <3>2. CASE i \in 1..n
      <4>1. /\ next[list[i]] = IF i = 1 THEN NoNode ELSE list[i - 1]
            /\ \A j \in 1..n : list[i] = list[j] => i = j
        BY <1>0, <3>2 DEF Linked, n
      <4>2. list[i] # NoNode /\ \A u \in Threads : node'[u] # list[i]
        BY <1>0, <3>0, <3>2, <2>2, ConstantsOK DEF TypeOK, ConstantsOK
      <4> QED BY <2>1, <2>2, <2>3, <3>0, <3>2, <4>1, <4>2
    <3> QED BY <2>3, <3>1, <3>2
  <2> QED BY <2>2, <2>3, <2>5 DEF Linked
<1>c. CASE list' = list /\ top' = top /\ ~((Pop(t) \/ Push(t)) /\ Unchanged(t))
  <2> SUFFICES ASSUME NEW i \in 1..Len(list)
               PROVE  list[i] \in created' \ given' /\ \A u \in Threads : node'[u] # list[i]
    BY <1>0, <1>b, <1>c, LinkedKept
  <2>1. list[i] \in created \ given /\ list[i] # NoNode /\ \A u \in Threads : node[u] # list[i]
    BY <1>0, ConstantsOK DEF Linked, TypeOK, ConstantsOK
  <2>2. CASE Count(t) BY <2>1, <2>2, <1>0 DEF Count, TypeOK
  <2>3. CASE New(t) BY <2>1, <2>3, <1>0 DEF New, TypeOK
  <2>4. CASE FreeCall(t) BY <2>1, <2>4, <1>0 DEF FreeCall, TypeOK
  <2>5. CASE created' = created /\ given' = given /\ node' = node BY <2>1, <2>5
  <2>6. CASE Pop(t) BY <1>c, <2>1, <2>6 DEF Pop
  <2>7. CASE Push(t) BY <1>c, <2>1, <2>7 DEF Push
  <2> QED
    BY <2>2, <2>3, <2>4, <2>5, <2>6, <2>7
    DEF Step, AllocStep, FreeStep, LoopStep, poolVars, ReadCount, Use, TakeNum, ReadTop,
        ReadTopNum, ReadNext, Link, Unuse
<1> QED
  BY <1>9, <1>12, <1>c
  DEF Step, AllocStep, FreeStep, LoopStep, poolVars, ReadCount, Use, New, Count, TakeNum,
      ReadTop, ReadTopNum, ReadNext, Pop, FreeCall, Link, Push, Unuse

-----------------------------------------------------------------------------
(* Counters *)

\* Two finite sets that differ in one element at most.
LEMMA OneMember ==
  ASSUME NEW S, NEW R, NEW t, IsFiniteSet(S), \A u : u # t => (u \in S <=> u \in R)
  PROVE  /\ IsFiniteSet(R)
         /\ t \in S /\ t \in R => Cardinality(R) = Cardinality(S)
         /\ t \notin S /\ t \notin R => Cardinality(R) = Cardinality(S)
         /\ t \notin S /\ t \in R => Cardinality(R) = Cardinality(S) + 1
         /\ t \in S /\ t \notin R => Cardinality(R) = Cardinality(S) - 1
<1>1. CASE t \in R
  <2>1. R = S \cup {t} BY <1>1
  <2> QED BY <1>1, <2>1, FS_AddElement
<1>2. CASE t \notin R
  <2>1. R = S \ {t} BY <1>2
  <2> QED BY <1>2, <2>1, FS_RemoveElement
<1> QED BY <1>1, <1>2

\* The sets of threads change at t only.
LEMMA SetsStep ==
  ASSUME ConstantsOK, TypeOK, NEW t \in Threads, Step(t), NEW u, u # t
  PROVE  /\ u \in Claims <=> u \in Claims'
         /\ u \in Makers <=> u \in Makers'
         /\ u \in Users <=> u \in Users'
         /\ u \in Counting <=> u \in Counting'
<1>1. OthersKeep(t) BY StepFrame
<1> QED BY <1>1 DEF OthersKeep, Claims, Popper, Makers, Users, Counting, At

\* What a step of t does to the counters and to the sets they count.
Uses(t) ==
  /\ useCount' = useCount + 1 /\ allocCount' = allocCount /\ list' = list
  /\ t \notin Users /\ t \in Users' /\ given' = given
  /\ t \notin Counting /\ t \notin Counting' /\ created' = created
  /\ t \notin Claims /\ t \notin Makers
  /\ \/ t \in Makers' /\ t \notin Claims'
     \/ t \notin Makers' /\ t \in Claims' /\ allocCount > useCount
Makes(t) ==
  /\ useCount' = useCount /\ allocCount' = allocCount /\ list' = list
  /\ t \in Users /\ t \in Users' /\ given' = given
  /\ t \notin Counting /\ t \in Counting'
  /\ \E n \in Nodes \ created : created' = created \cup {n}
  /\ t \notin Claims /\ t \notin Claims' /\ t \in Makers /\ t \in Makers'
Counts(t) ==
  /\ useCount' = useCount /\ allocCount' = allocCount + 1 /\ list' = list
  /\ t \in Users /\ t \notin Users'
  /\ node[t] \notin given /\ given' = given \cup {node[t]}
  /\ t \in Counting /\ t \notin Counting' /\ created' = created
  /\ t \notin Claims /\ t \notin Claims' /\ t \in Makers /\ t \notin Makers'
Pops(t) ==
  /\ useCount' = useCount /\ allocCount' = allocCount /\ list' # list
  /\ Len(list) > 0 /\ Len(list') = Len(list) - 1
  /\ t \in Users /\ t \notin Users'
  /\ old[t] \notin given /\ given' = given \cup {old[t]}
  /\ t \notin Counting /\ t \notin Counting' /\ created' = created
  /\ t \in Claims /\ t \notin Claims' /\ t \notin Makers /\ t \notin Makers'
GivesBack(t) ==
  /\ useCount' = useCount /\ allocCount' = allocCount /\ list' = list
  /\ t \notin Users /\ t \in Users'
  /\ \E n \in given : given' = given \ {n}
  /\ t \notin Counting /\ t \notin Counting' /\ created' = created
  /\ t \notin Claims /\ t \notin Claims' /\ t \notin Makers /\ t \notin Makers'
Pushes(t) ==
  /\ useCount' = useCount /\ allocCount' = allocCount
  /\ Len(list') = Len(list) + 1
  /\ t \in Users /\ t \in Users' /\ given' = given
  /\ t \notin Counting /\ t \notin Counting' /\ created' = created
  /\ t \notin Claims /\ t \in Claims' /\ t \notin Makers /\ t \notin Makers'
Ends(t) ==
  /\ useCount' = useCount - 1 /\ allocCount' = allocCount /\ list' = list
  /\ t \in Users /\ t \notin Users' /\ given' = given
  /\ t \notin Counting /\ t \notin Counting' /\ created' = created
  /\ t \in Claims /\ t \notin Claims' /\ t \notin Makers /\ t \notin Makers'
Moves(t) ==
  /\ useCount' = useCount /\ allocCount' = allocCount /\ list' = list
  /\ t \in Users <=> t \in Users'
  /\ given' = given /\ created' = created
  /\ t \notin Counting /\ t \notin Counting'
  /\ t \in Claims <=> t \in Claims'
  /\ t \notin Makers /\ t \notin Makers'

LEMMA CountStep ==
  ASSUME ConstantsOK, IInv, NEW t \in Threads, Step(t)
  PROVE  \/ Uses(t) \/ Makes(t) \/ Counts(t) \/ Pops(t)
         \/ GivesBack(t) \/ Pushes(t) \/ Ends(t) \/ Moves(t)
<1>0. TypeOK /\ ReadInv(t) /\ HandInv(t)
  BY DEF IInv
<1> USE <1>0 DEF Goto, Leave, poolVars, At, Users, Counting, Claims, Popper, Makers
<1>1. CASE ReadCount(t) BY <1>1 DEF Moves, ReadCount, TypeOK
<1>2. CASE Use(t) BY <1>2 DEF Uses, Use, ReadInv, HandInv, TypeOK
<1>3. CASE New(t) BY <1>3 DEF Makes, New, TypeOK
<1>4. CASE Count(t) BY <1>4 DEF Counts, Count, HandInv, TypeOK
<1>5. CASE TakeNum(t) BY <1>5 DEF Moves, TakeNum, TypeOK
<1>6. CASE ReadTop(t) BY <1>6 DEF Moves, ReadTop, TypeOK
<1>7. CASE ReadTopNum(t) BY <1>7 DEF Moves, ReadTopNum, TypeOK
<1>8. CASE ReadNext(t) BY <1>8 DEF Moves, ReadNext, TypeOK
<1>9. CASE Pop(t)
  <2>1. CASE Unchanged(t)
    <3>1. list # <<>> /\ list \in Seq(Nodes) /\ old[t] \notin given
      BY <1>9, <2>1, PopTakesTop
    <3>2. list' = SubSeq(list, 1, Len(list) - 1) /\ Len(list') = Len(list) - 1 /\ Len(list) > 0
      <4>1. list' = SubSeq(list, 1, Len(list) - 1)
        BY <1>9, <2>1 DEF Pop
      <4>2. Len(list') = Len(list) - 1
        BY <3>1, <4>1, Shorter
      <4>3. Len(list) > 0
        BY <3>1
      <4> QED BY <4>1, <4>2, <4>3
    <3>3. list' # list
      BY <3>1, <3>2
    <3>4. given' = given \cup {old[t]} /\ pc[t] = "pop" /\ pc'[t] = "idle"
      BY <1>9, <2>1 DEF Pop, TypeOK
    <3>5. UNCHANGED <<useCount, allocCount, created, node>>
      BY <1>9 DEF Pop
    <3> QED BY <3>1, <3>2, <3>3, <3>4, <3>5 DEF Pops
  <2>2. CASE ~Unchanged(t) BY <1>9, <2>2 DEF Moves, Pop, HandInv, TypeOK
  <2> QED BY <2>1, <2>2
<1>10. CASE FreeCall(t)
  <2>1. PICK n \in given : given' = given \ {n} /\ node' = [node EXCEPT ![t] = n]
    BY <1>10 DEF FreeCall
  <2>2. n # NoNode
    BY ConstantsOK DEF ConstantsOK, TypeOK
  <2> QED BY <1>10, <2>1, <2>2 DEF GivesBack, FreeCall, TypeOK
<1>11. CASE Link(t) BY <1>11 DEF Moves, Link, TypeOK
<1>12. CASE Push(t)
  <2>1. CASE Unchanged(t)
    <3>1. node[t] \in Nodes
      BY <1>12 DEF Push, HandInv, TypeOK
    <3>2. Len(list') = Len(list) + 1
      BY <1>12, <2>1, <3>1, AppendProperties DEF Push, TypeOK
    <3> QED BY <1>12, <2>1, <3>2 DEF Pushes, Push, TypeOK
  <2>2. CASE ~Unchanged(t) BY <1>12, <2>2 DEF Moves, Push, HandInv, TypeOK
  <2> QED BY <2>1, <2>2
<1>13. CASE Unuse(t) BY <1>13 DEF Ends, Unuse, TypeOK
<1> QED
  BY <1>1, <1>2, <1>3, <1>4, <1>5, <1>6, <1>7, <1>8, <1>9, <1>10, <1>11, <1>12, <1>13
  DEF Step, AllocStep, FreeStep, LoopStep

LEMMA AddOne ==
  ASSUME NEW S, NEW x, IsFiniteSet(S), x \notin S
  PROVE  Cardinality(S \cup {x}) = Cardinality(S) + 1
BY FS_AddElement

LEMMA StepCount ==
  ASSUME ConstantsOK, IInv, NEW t \in Threads, Step(t)
  PROVE  /\ Balance' /\ Backed'
         /\ (useCount = Cardinality(given) + Cardinality(Users))'
         /\ (allocCount = Cardinality(created) - Cardinality(Counting))'
<1> DEFINE c == Cardinality(Claims)
           m == Cardinality(Makers)
           u == Cardinality(Users)
           k == Cardinality(Counting)
           g == Cardinality(given)
           r == Cardinality(created)
           n == Len(list)
<1>0. TypeOK /\ TypeOK' BY StepType DEF IInv
<1>1. /\ IsFiniteSet(Claims) /\ IsFiniteSet(Makers) /\ IsFiniteSet(Users) /\ IsFiniteSet(Counting)
      /\ c \in Nat /\ m \in Nat /\ u \in Nat /\ k \in Nat
  BY ClaimsFinite
<1>2. IsFiniteSet(given) /\ IsFiniteSet(created) /\ g \in Nat /\ r \in Nat
  BY FS_Subset, FS_CardinalityType DEF IInv
<1>3. n \in Nat /\ n' \in Nat /\ useCount \in Nat /\ allocCount \in Nat
  BY <1>0 DEF TypeOK
<1>4. /\ allocCount - useCount = n - c - m /\ c <= n
      /\ useCount = g + u /\ allocCount = r - k
  BY DEF IInv, CountsExact, Balance, Backed, Users, Counting
<1>5. /\ t \in Claims /\ t \in Claims' => c' = c
      /\ t \notin Claims /\ t \notin Claims' => c' = c
      /\ t \notin Claims /\ t \in Claims' => c' = c + 1
      /\ t \in Claims /\ t \notin Claims' => c' = c - 1
  BY <1>0, <1>1, SetsStep, OneMember
<1>6. /\ t \in Makers /\ t \in Makers' => m' = m
      /\ t \notin Makers /\ t \notin Makers' => m' = m
      /\ t \notin Makers /\ t \in Makers' => m' = m + 1
      /\ t \in Makers /\ t \notin Makers' => m' = m - 1
  BY <1>0, <1>1, SetsStep, OneMember
<1>7. /\ t \in Users /\ t \in Users' => u' = u
      /\ t \notin Users /\ t \notin Users' => u' = u
      /\ t \notin Users /\ t \in Users' => u' = u + 1
      /\ t \in Users /\ t \notin Users' => u' = u - 1
  BY <1>0, <1>1, SetsStep, OneMember
<1>8. /\ t \notin Counting /\ t \notin Counting' => k' = k
      /\ t \notin Counting /\ t \in Counting' => k' = k + 1
      /\ t \in Counting /\ t \notin Counting' => k' = k - 1
  BY <1>0, <1>1, SetsStep, OneMember
<1>9. ASSUME NEW x
      PROVE  /\ x \in given /\ given' = given \ {x} => g' = g - 1
             /\ x \notin created /\ created' = created \cup {x} => r' = r + 1
  <2>1. Cardinality(created \cup {x}) = IF x \in created THEN r ELSE r + 1
    BY <1>2, FS_AddElement
  <2>2. Cardinality(given \ {x}) = IF x \in given THEN g - 1 ELSE g
    BY <1>2, FS_RemoveElement
  <2> QED BY <2>1, <2>2
<1>10. (given' = given => g' = g) /\ (created' = created => r' = r)
  OBVIOUS
<1> SUFFICES /\ allocCount' - useCount' = n' - c' - m' /\ c' <= n'
             /\ useCount' = g' + u' /\ allocCount' = r' - k'
  BY DEF Balance, Backed
<1>a. (list' = list => n' = n) /\ n = Len(list) /\ n' = Len(list')
  OBVIOUS
<1> HIDE DEF c, m, u, k, g, r, n
<1>11. CASE Uses(t) BY <1>a, <1>1, <1>2, <1>3, <1>4, <1>5, <1>6, <1>7, <1>8, <1>10, <1>11 DEF Uses
<1>12. CASE Makes(t)
  <2>1. r' = r + 1 BY <1>9, <1>12 DEF Makes
  <2> QED BY <1>a, <1>1, <1>2, <1>3, <1>4, <1>5, <1>6, <1>7, <1>8, <1>10, <1>12, <2>1 DEF Makes
<1>13. CASE Counts(t)
  <2>1. PICK x : x \notin given /\ given' = given \cup {x}
    BY <1>13 DEF Counts
  <2>2. g' = g + 1 BY <1>2, <2>1, AddOne DEF g
  <2>3. /\ c' = c /\ m' = m - 1 /\ u' = u - 1 /\ k' = k - 1 /\ r' = r /\ n' = n
        /\ useCount' = useCount /\ allocCount' = allocCount + 1
    BY <1>a, <1>4, <1>5, <1>6, <1>7, <1>8, <1>10, <1>13 DEF Counts
  <2> QED BY <1>1, <1>2, <1>3, <1>4, <2>2, <2>3
<1>14. CASE Pops(t)
  <2>1. PICK x : x \notin given /\ given' = given \cup {x}
    BY <1>14 DEF Pops
  <2>2. g' = g + 1 BY <1>2, <2>1, AddOne DEF g
  <2>3. /\ c' = c - 1 /\ m' = m /\ u' = u - 1 /\ k' = k /\ r' = r /\ n' = n - 1 /\ c <= n
        /\ useCount' = useCount /\ allocCount' = allocCount
    BY <1>a, <1>4, <1>5, <1>6, <1>7, <1>8, <1>10, <1>14 DEF Pops
  <2> QED BY <1>1, <1>2, <1>3, <1>4, <2>2, <2>3
<1>15. CASE GivesBack(t)
  <2>1. g' = g - 1 BY <1>9, <1>15 DEF GivesBack
  <2> QED BY <1>a, <1>1, <1>2, <1>3, <1>4, <1>5, <1>6, <1>7, <1>8, <1>10, <1>15, <2>1 DEF GivesBack
<1>16. CASE Pushes(t) BY <1>a, <1>1, <1>2, <1>3, <1>4, <1>5, <1>6, <1>7, <1>8, <1>10, <1>16 DEF Pushes
<1>17. CASE Ends(t) BY <1>a, <1>1, <1>2, <1>3, <1>4, <1>5, <1>6, <1>7, <1>8, <1>10, <1>17 DEF Ends
<1>18. CASE Moves(t) BY <1>a, <1>1, <1>2, <1>3, <1>4, <1>5, <1>6, <1>7, <1>8, <1>10, <1>18 DEF Moves
<1> QED BY <1>11, <1>12, <1>13, <1>14, <1>15, <1>16, <1>17, <1>18, CountStep

\* Every node that was made is out or free, and stays so.
LEMMA StepPlaces ==
  ASSUME ConstantsOK, IInv, NEW t \in Threads, Step(t)
  PROVE  (created = Used \cup {list[i] : i \in 1..Len(list)})'
<1>0. TypeOK /\ created = Used \cup {list[i] : i \in 1..Len(list)}
  BY DEF IInv, CountsExact
<1>a. OthersKeep(t) BY <1>0, StepFrame
<1>1. CASE New(t)
  <2>1. PICK n \in Nodes \ created : /\ created' = created \cup {n}
                                     /\ node' = [node EXCEPT ![t] = n]
    BY <1>1 DEF New
  <2>2. node[t] = NoNode /\ given' = given /\ list' = list /\ n # NoNode /\ NoNode \notin Nodes
    BY <1>1 DEF New, IInv, HandInv, At, ConstantsOK
  <2>3. Used' = Used \cup {n}
    BY <1>0, <2>1, <2>2 DEF Used, TypeOK
  <2> QED BY <1>0, <2>1, <2>2, <2>3
<1>2. CASE Count(t)
  <2>1. node[t] \in Nodes /\ given' = given \cup {node[t]} /\ node' = [node EXCEPT ![t] = NoNode]
    BY <1>0, <1>2 DEF Count, IInv, HandInv, At, TypeOK
  <2>2. Used' = Used
    BY <1>0, <2>1, ConstantsOK DEF Used, TypeOK, ConstantsOK
  <2> QED BY <1>0, <1>2, <2>2 DEF Count
<1>3. CASE FreeCall(t)
  <2>1. PICK n \in given : given' = given \ {n} /\ node' = [node EXCEPT ![t] = n]
    BY <1>3 DEF FreeCall
  <2>2. node[t] = NoNode /\ n \in Nodes
    BY <1>0, <1>3 DEF FreeCall, IInv, HandInv, At, TypeOK
  <2>3. Used' = Used
    BY <1>0, <2>1, <2>2, ConstantsOK DEF Used, TypeOK, ConstantsOK
  <2> QED BY <1>0, <1>3, <2>3 DEF FreeCall
<1>4. CASE Pop(t) /\ Unchanged(t)
  <2> DEFINE n == Len(list)
             q == SubSeq(list, 1, Len(list) - 1)
  <2>1. list # <<>> /\ list \in Seq(Nodes) /\ old[t] = list[n]
    BY <1>4, PopTakesTop
  <2>2. given' = given \cup {old[t]} /\ list' = q /\ UNCHANGED <<created, node>>
    BY <1>4 DEF Pop
  <2>3. Len(q) = n - 1 /\ \A i \in 1..(n - 1) : q[i] = list[i]
    BY <2>1, Shorter
  <2>4. n \in Nat /\ n >= 1
    BY <2>1
  <2>5. {list[i] : i \in 1..n} = {q[i] : i \in 1..Len(q)} \cup {list[n]}
    <3>1. \A i \in 1..n : i = n \/ i \in 1..(n - 1)
      BY <2>4
    <3>2. n \in 1..n /\ \A i \in 1..(n - 1) : i \in 1..n
      BY <2>4
    <3> HIDE DEF q, n
    <3> QED BY <2>3, <3>1, <3>2
  <2>6. Used' = Used \cup {list[n]}
    BY <2>1, <2>2 DEF Used
  <2> QED
    <3> HIDE DEF q, n
    <3>1. {list'[i] : i \in 1..Len(list')} = {q[i] : i \in 1..Len(q)}
      BY <2>2
    <3>2. created' = created /\ created = Used \cup {list[i] : i \in 1..n}
      BY <1>0, <2>2 DEF n
    <3>3. created = Used' \cup {q[i] : i \in 1..Len(q)}
      BY <2>5, <2>6, <3>2
    <3> QED BY <3>1, <3>2, <3>3
<1>5. CASE Push(t) /\ Unchanged(t)
  <2> DEFINE n == Len(list)
             q == Append(list, node[t])
  <2>1. node[t] \in Nodes /\ node[t] \notin given /\ \A u \in Threads : node[u] = node[t] => u = t
    BY <1>0, <1>5 DEF Push, IInv, HandInv, At, TypeOK
  <2>2. list' = q /\ node' = [node EXCEPT ![t] = NoNode] /\ UNCHANGED <<created, given>>
    BY <1>5 DEF Push
  <2>3. Len(q) = n + 1 /\ q[n + 1] = node[t] /\ (\A i \in 1..n : q[i] = list[i]) /\ n \in Nat
    BY <1>0, <2>1, AppendProperties DEF TypeOK
  <2>4. {q[i] : i \in 1..Len(q)} = {list[i] : i \in 1..n} \cup {node[t]}
    <3>1. \A i \in 1..(n + 1) : i = n + 1 \/ i \in 1..n
      BY <2>3
    <3>2. n + 1 \in 1..(n + 1) /\ \A i \in 1..n : i \in 1..(n + 1)
      BY <2>3
    <3> HIDE DEF q, n
    <3> QED BY <2>3, <3>1, <3>2
  <2>5. Used = Used' \cup {node[t]}
    BY <1>0, <2>1, <2>2, ConstantsOK DEF Used, TypeOK, ConstantsOK
  <2> QED
    <3> HIDE DEF q, n
    <3>1. {list'[i] : i \in 1..Len(list')} = {q[i] : i \in 1..Len(q)}
      BY <2>2
    <3>2. created' = created /\ created = Used \cup {list[i] : i \in 1..n}
      BY <1>0, <2>2 DEF n
    <3> QED BY <2>4, <2>5, <3>1, <3>2
<1>6. CASE UNCHANGED <<created, given, node, list>>
  BY <1>0, <1>6 DEF Used
<1> QED
  BY <1>1, <1>2, <1>3, <1>4, <1>5, <1>6
  DEF Step, AllocStep, FreeStep, LoopStep, poolVars, ReadCount, Use, TakeNum, ReadTop,
      ReadTopNum, ReadNext, Pop, Link, Push, Unuse

-----------------------------------------------------------------------------
(* The invariant *)

LEMMA InitInv == ASSUME ConstantsOK, Init PROVE IInv
<1> USE DEF Init
<1>1. TypeOK /\ given \subseteq created /\ IsFiniteSet(created)
  BY FS_EmptySet DEF TypeOK, NodeOrNull
<1>2. NumInv /\ \A t \in Threads : ReadInv(t) /\ HandInv(t)
  BY DEF NumInv, ReadInv, HandInv, HasNum, HasOld, At
<1>3. Linked
  BY DEF Linked
<1>4. useCount = 0 /\ allocCount = 0 /\ created = {} /\ given = {} /\ Len(list) = 0
  OBVIOUS
<1>5. Used = {} /\ {list[i] : i \in 1..Len(list)} = {}
  <2>1. Used = {}
    BY ConstantsOK DEF Used, ConstantsOK
  <2>2. 1..Len(list) = {}
    BY <1>4
  <2> QED BY <2>1, <2>2
<1>6. Claims = {} /\ Makers = {} /\ Users = {} /\ Counting = {}
  BY DEF Claims, Popper, Makers, Users, Counting, At
<1> HIDE DEF Init
<1>7. /\ Cardinality(Claims) = 0 /\ Cardinality(Makers) = 0 /\ Cardinality(Users) = 0
      /\ Cardinality(Counting) = 0 /\ Cardinality(given) = 0 /\ Cardinality(created) = 0
  <2>1. Cardinality({}) = 0
    BY FS_EmptySet
  <2> QED BY <1>4, <1>6, <2>1, Zenon
<1>8. CountsExact
  <2>1. useCount = Cardinality(given) + Cardinality(Users) /\ allocCount = Cardinality(created) - Cardinality(Counting)
    BY <1>4, <1>7
  <2>2. created = Used \cup {list[i] : i \in 1..Len(list)}
    BY <1>4, <1>5
  <2> QED BY <2>1, <2>2 DEF CountsExact, Users, Counting
<1>9. Balance /\ Backed
  BY <1>4, <1>7 DEF Balance, Backed
<1> QED BY <1>1, <1>2, <1>3, <1>8, <1>9 DEF IInv

LEMMA StepInv ==
  ASSUME ConstantsOK, IInv, NEW t \in Threads, Step(t)
  PROVE  IInv'
<1>1. TypeOK' BY StepType
<1>2. NumInv' BY <1>1, StepNum DEF IInv
<1>3. (\A u \in Threads : ReadInv(u))'
  <2>1. \A u \in Threads : ReadInv(u)'
    BY StepReadOther, StepReadOwn
  <2> QED BY <2>1
<1>4. CountsExact' /\ Balance' /\ Backed'
  BY StepCount, StepPlaces DEF CountsExact, Users, Counting
<1> QED BY <1>1, <1>2, <1>3, <1>4, StepHand, StepLinked DEF IInv

LEMMA StutterInv ==
  ASSUME IInv, UNCHANGED vars
  PROVE  IInv'
<1> USE DEF vars, poolVars, thVars
<1>1. (TypeOK /\ given \subseteq created /\ IsFiniteSet(created))'
  BY DEF IInv, TypeOK
<1>2. NumInv'
  BY DEF IInv, NumInv, HasNum, HasOld
<1>3. (\A t \in Threads : ReadInv(t))' /\ (\A t \in Threads : HandInv(t))'
  BY DEF IInv, ReadInv, HandInv, At, Unchanged
<1>4. Linked'
  BY DEF IInv, Linked
<1>5. Claims' = Claims /\ Makers' = Makers /\ Used' = Used
  BY DEF Claims, Makers, Popper, At, Used
<1>6. Balance' /\ Backed'
  BY <1>5 DEF IInv, Balance, Backed
<1>7. CountsExact'
  BY <1>5 DEF IInv, CountsExact, At
<1> QED BY <1>1, <1>2, <1>3, <1>4, <1>6, <1>7 DEF IInv

LEMMA Invariance == ConstantsOK /\ Spec => []IInv
<1> SUFFICES ASSUME ConstantsOK PROVE Spec => []IInv
  OBVIOUS
<1>1. Init => IInv BY InitInv
<1>2. IInv /\ [Next]_vars => IInv'
  BY StepInv, StutterInv DEF Next, Step
<1> QED BY <1>1, <1>2, PTL DEF Spec

-----------------------------------------------------------------------------
(* Theorems *)

\* Every run of CMemoryPool keeps its counters, pointers and threads in range;
\* m_iUseCount, which Free decrements last, is never negative.
THEOREM TypeCorrect == ConstantsOK /\ Spec => []TypeOK
<1>1. IInv => TypeOK BY DEF IInv
<1> QED BY <1>1, Invariance, PTL

\* Alloc never follows a null m_pFreeTop->pNode, however many threads allocate
\* and free at once.
THEOREM NeverNullAlways == ConstantsOK /\ Spec => []NeverNull
<1>1. IInv => NeverNull
  BY DEF IInv, ReadInv, HandInv, NeverNull, At
<1> QED BY <1>1, Invariance, PTL

\* The compare-and-swaps of Alloc and Free keep the chain of pNext spelling the
\* free list: no node is lost, repeated or shared with a caller.
THEOREM LinkedAlways == ConstantsOK /\ Spec => []Linked
<1>1. IInv => Linked BY DEF IInv
<1> QED BY <1>1, Invariance, PTL

\* m_iUseCount and m_iAllocCount count what they are meant to, whatever threads
\* are in the middle of.
THEOREM CountsAlways == ConstantsOK /\ Spec => []CountsExact
<1>1. IInv => CountsExact BY DEF IInv
<1> QED BY <1>1, Invariance, PTL

\* The pool implements PoolService: a node that is out is not handed out again.
THEOREM Refinement == ConstantsOK /\ Spec => PoolSpec
<1> SUFFICES ASSUME ConstantsOK PROVE Spec => PoolSpec
  OBVIOUS
<1>1. Init => Pool!Init
  BY ConstantsOK DEF Init, Pool!Init, Used, ConstantsOK
<1>2. ASSUME IInv, NEW t \in Threads, Step(t)
      PROVE  [Pool!Next]_<<Used, outs>>
  <2>0. TypeOK /\ created = Used \cup {list[i] : i \in 1..Len(list)} /\ Linked
    BY <1>2 DEF IInv, CountsExact
  <2>1. CASE New(t)
    <3>1. PICK n \in Nodes \ created : node' = [node EXCEPT ![t] = n]
      BY <2>1 DEF New
    <3>2. node[t] = NoNode /\ given' = given /\ outs' = outs + 1 /\ NoNode \notin Nodes
      BY <1>2, <2>1 DEF New, IInv, HandInv, At, ConstantsOK
    <3>3. n \notin Used /\ Used' = Used \cup {n}
      BY <2>0, <3>1, <3>2 DEF Used, TypeOK
    <3>4. Pool!Take(n)
      BY <3>2, <3>3 DEF Pool!Take
    <3> QED BY <3>1, <3>4 DEF Pool!Next
  <2>2. CASE Count(t)
    <3>1. node[t] \in Nodes /\ given' = given \cup {node[t]} /\ node' = [node EXCEPT ![t] = NoNode]
      BY <1>2, <2>0, <2>2 DEF Count, IInv, HandInv, At, TypeOK
    <3>2. Used' = Used
      BY <2>0, <3>1, ConstantsOK DEF Used, TypeOK, ConstantsOK
    <3> QED BY <2>2, <3>2 DEF Count
  <2>3. CASE FreeCall(t)
    <3>1. PICK n \in given : given' = given \ {n} /\ node' = [node EXCEPT ![t] = n]
      BY <2>3 DEF FreeCall
    <3>2. node[t] = NoNode /\ n \in Nodes
      BY <1>2, <2>0, <2>3 DEF FreeCall, IInv, HandInv, At, TypeOK
    <3>3. Used' = Used
      BY <2>0, <3>1, <3>2, ConstantsOK DEF Used, TypeOK, ConstantsOK
    <3> QED BY <2>3, <3>3 DEF FreeCall
  <2>4. CASE Pop(t) /\ Unchanged(t)
    <3>1. old[t] \in created \ given /\ (\A u \in Threads : node[u] # old[t]) /\ old[t] \in Nodes
      BY <1>2, <2>0, <2>4, PopTakesTop DEF TypeOK
    <3>2. given' = given \cup {old[t]} /\ node' = node /\ outs' = outs + 1
      BY <2>4 DEF Pop
    <3>3. old[t] \notin Used /\ Used' = Used \cup {old[t]}
      BY <3>1, <3>2 DEF Used
    <3>4. Pool!Take(old[t])
      BY <3>2, <3>3 DEF Pool!Take
    <3> QED BY <3>1, <3>4 DEF Pool!Next
  <2>5. CASE Push(t) /\ Unchanged(t)
    <3>1. node[t] \in Nodes /\ node[t] \notin given /\ \A u \in Threads : node[u] = node[t] => u = t
      BY <1>2, <2>0, <2>5 DEF Push, IInv, HandInv, At, TypeOK
    <3>2. given' = given /\ node' = [node EXCEPT ![t] = NoNode] /\ outs' = outs - 1
      BY <2>5 DEF Push
    <3>3. node[t] \in Used /\ Used' = Used \ {node[t]}
      BY <2>0, <3>1, <3>2, ConstantsOK DEF Used, TypeOK, ConstantsOK
    <3>4. Pool!Give(node[t])
      BY <3>2, <3>3 DEF Pool!Give
    <3> QED BY <3>1, <3>4 DEF Pool!Next
  <2>6. CASE UNCHANGED <<given, node, outs>>
    BY <2>6 DEF Used
  <2> QED
    BY <1>2, <2>1, <2>2, <2>3, <2>4, <2>5, <2>6
    DEF Step, AllocStep, FreeStep, LoopStep, poolVars, ReadCount, Use, TakeNum, ReadTop,
        ReadTopNum, ReadNext, Pop, Link, Push, Unuse
<1>3. IInv /\ [Next]_vars => [Pool!Next]_<<Used, outs>>
  <2>1. UNCHANGED vars => UNCHANGED <<Used, outs>>
    BY DEF vars, poolVars, thVars, Used
  <2> QED BY <1>2, <2>1 DEF Next, Step
<1>4. ConstantsOK /\ Spec => []IInv BY Invariance
<1> QED BY <1>1, <1>3, <1>4, PTL DEF Spec, PoolSpec, Pool!Spec
=============================================================================
