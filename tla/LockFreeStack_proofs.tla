------------------------ MODULE LockFreeStack_proofs ------------------------
(***************************************************************************)
(* Proofs about LockFreeStack, for any number of threads, indexes, nodes   *)
(* and operations: the pointers spell the list, every index is in one      *)
(* place, iSize is what it should be, and the stack is a stack.            *)
(*                                                                         *)
(* The argument. A serial number that a thread still has to write is on no *)
(* top and with no other thread, so a compare-and-swap that succeeds shows *)
(* that the top has not changed since its number was read (NumInv), and    *)
(* the pNext that was read after that is the link of the top (ReadInv). A  *)
(* node is in one thread's hands or on the list (HandInv, Linked). Then an *)
(* index is on the list, with the server or in one thread's hands          *)
(* (Placed), which OnePlace says by counting.                              *)
(***************************************************************************)
EXTENDS LockFreeStack, SequenceTheorems, FiniteSetTheorems, TLAPS

\* t is in Push, and has an index to put on the stack; t is in Pop.
Pushing(t) == pc[t] \in {"pnum", "alloc", "link", "push"} \/ (pc[t] \in {"top", "topnum"} /\ node[t] # NoNode)

\* t has taken a serial number and not yet written it; t has read the serial number of the top.
HasNum(t) == pc[t] \in {"alloc", "top", "topnum", "next", "pop", "link", "push"}
HasOld(t) == pc[t] \in {"next", "pop", "link", "push"}

NumInv ==
  /\ top.num <= uniqueNum
  /\ \A t \in Threads : HasNum(t) => num[t] <= uniqueNum /\ num[t] # top.num
  /\ \A t, u \in Threads : HasNum(t) /\ HasNum(u) /\ t # u => num[t] # num[u]
  /\ \A t, u \in Threads : HasOld(t) /\ HasNum(u) => old[t].num # num[u]
  /\ \A t \in Threads : HasOld(t) => old[t].num <= uniqueNum

ReadInv(t) ==
  /\ At(t, "pop") => old[t].node # NoNode
  /\ At(t, "pop") /\ top = old[t] => nxt[t] = next[old[t].node]
  /\ At(t, "push") => next[node[t]] = old[t].node

HandInv(t) ==
  /\ pc[t] \in {"idle", "pnum", "alloc", "num", "size", "next", "pop", "giveup"} => node[t] = NoNode
  /\ pc[t] \in {"link", "push", "data"} => node[t] # NoNode
  /\ node[t] # NoNode => node[t] \in used
  /\ \A u \in Threads : node[t] # NoNode /\ node[u] = node[t] => u = t

\* The index a thread has: the one it pushes, or the one in the node it has popped.
Holds(t) == index[t] # NoIndex \/ At(t, "data")
Hand(t)  == IF At(t, "data") THEN data[node[t]] ELSE index[t]

IndexInv(t) ==
  /\ index[t] # NoIndex <=> Pushing(t)
  /\ Pushing(t) /\ node[t] # NoNode => data[node[t]] = index[t]

Placed ==
  /\ \A i \in 1..Len(list) : data[list[i]] \in Indexes \ out
  /\ \A i, j \in 1..Len(list) : data[list[i]] = data[list[j]] => i = j
  /\ \A t \in Threads : Holds(t) => Hand(t) \in Indexes \ out
  /\ \A t \in Threads : Holds(t) => \A i \in 1..Len(list) : data[list[i]] # Hand(t)
  /\ \A t, u \in Threads : Holds(t) /\ Holds(u) /\ Hand(t) = Hand(u) => t = u
  /\ \A x \in Indexes :
       \/ x \in out
       \/ \E i \in 1..Len(list) : data[list[i]] = x
       \/ \E t \in Threads : Holds(t) /\ Hand(t) = x

\* Threads whose calls the count and the list disagree about.
Owing == {t \in Threads : Promised(t) \/ pc[t] \in {"giveup", "size"}}

\* iSize, by what it was before the first push.
Sized == size = first + Len(list) - Cardinality(Owing)

IInv ==
  /\ TypeOK /\ NumInv
  /\ \A t \in Threads : ReadInv(t)
  /\ \A t \in Threads : HandInv(t)
  /\ \A t \in Threads : IndexInv(t)
  /\ Linked /\ Placed
  /\ Sized

-----------------------------------------------------------------------------
(* One step of one thread *)

Step(t) == PushStep(t) \/ PopStep(t) \/ TakeNum(t) \/ ReadTop(t) \/ ReadTopNum(t)

\* The other threads stay where they are.
OthersKeep(t) ==
  \A u \in Threads \ {t} :
    /\ pc'[u] = pc[u] /\ num'[u] = num[u] /\ old'[u] = old[u]
    /\ nxt'[u] = nxt[u] /\ node'[u] = node[u] /\ index'[u] = index[u]

LEMMA StepFrame ==
  ASSUME TypeOK, NEW t \in Threads, Step(t)
  PROVE  OthersKeep(t)
<1> USE DEF OthersKeep, TypeOK, Goto, Leave, stackVars
<1>1. CASE PushCall(t) BY <1>1 DEF PushCall
<1>2. CASE TakeNum(t) BY <1>2 DEF TakeNum
<1>3. CASE AllocNode(t) BY <1>3 DEF AllocNode
<1>4. CASE ReadTop(t) BY <1>4 DEF ReadTop
<1>5. CASE ReadTopNum(t) BY <1>5 DEF ReadTopNum
<1>6. CASE Link(t) BY <1>6 DEF Link
<1>7. CASE PushTop(t)
  <2>1. CASE top = old[t] BY <1>7, <2>1 DEF PushTop
  <2>2. CASE top # old[t] BY <1>7, <2>2 DEF PushTop
  <2> QED BY <2>1, <2>2
<1>8. CASE CountUp(t) BY <1>8 DEF CountUp
<1>9. CASE PopCall(t) BY <1>9 DEF PopCall
<1>10. CASE GiveUp(t) BY <1>10 DEF GiveUp
<1>11. CASE ReadNext(t) BY <1>11 DEF ReadNext
<1>12. CASE PopTop(t)
  <2>1. CASE top = old[t] BY <1>12, <2>1 DEF PopTop
  <2>2. CASE top # old[t] BY <1>12, <2>2 DEF PopTop
  <2> QED BY <2>1, <2>2
<1>13. CASE ReadData(t) BY <1>13 DEF ReadData
<1> QED
  BY <1>1, <1>2, <1>3, <1>4, <1>5, <1>6, <1>7, <1>8, <1>9, <1>10, <1>11, <1>12, <1>13
  DEF Step, PushStep, PopStep

\* The list as a sequence: taking its last element off.
LEMMA Shorter ==
  ASSUME NEW S, NEW q \in Seq(S), q # <<>>
  PROVE  /\ SubSeq(q, 1, Len(q) - 1) \in Seq(S)
         /\ Len(SubSeq(q, 1, Len(q) - 1)) = Len(q) - 1
         /\ \A i \in 1..(Len(q) - 1) : SubSeq(q, 1, Len(q) - 1)[i] = q[i]
         /\ Len(q) \in Nat /\ Len(q) >= 1
<1> DEFINE k == Len(q)
           r == SubSeq(q, 1, k - 1)
<1>1. k \in Nat /\ k # 0 /\ \A i \in 1..k : q[i] \in S
  OBVIOUS
<1>2. 1 \in Int /\ k - 1 \in Int /\ \A i \in 1..(k - 1) : q[i] \in S
  BY <1>1
<1>3. /\ r \in Seq(S) /\ Len(r) = IF 1 <= k - 1 THEN k - 1 - 1 + 1 ELSE 0
      /\ \A i \in 1..(k - 1 - 1 + 1) : r[i] = q[1 + i - 1]
  <2> HIDE DEF k
  <2> QED BY <1>2, SubSeqProperties
<1> SUFFICES r \in Seq(S) /\ Len(r) = k - 1 /\ (\A i \in 1..(k - 1) : r[i] = q[i]) /\ k \in Nat /\ k >= 1
  OBVIOUS
<1> HIDE DEF r, k
<1>4. Len(r) = k - 1
  BY <1>1, <1>3
<1>5. ASSUME NEW i \in 1..(k - 1) PROVE r[i] = q[i]
  <2>1. i \in 1..(k - 1 - 1 + 1) /\ 1 + i - 1 = i
    BY <1>1
  <2> QED BY <1>3, <2>1
<1> QED BY <1>1, <1>3, <1>4, <1>5

\* A compare-and-swap of Pop finds the node it has read on top.
LEMMA PopTakesTop ==
  ASSUME ConstantsOK, IInv, NEW t \in Threads, PopTop(t), top = old[t]
  PROVE  /\ list # <<>> /\ list \in Seq(Nodes) /\ old[t].node = list[Len(list)]
         /\ old[t].node \in used /\ old[t].node \in Nodes
         /\ \A u \in Threads : node[u] # old[t].node
         /\ nxt[t] = next[old[t].node]
<1>1. old[t].node # NoNode /\ nxt[t] = next[old[t].node]
  BY DEF IInv, ReadInv, PopTop, At
<1>2. list # <<>> /\ list \in Seq(Nodes) /\ old[t].node = list[Len(list)]
  BY <1>1 DEF IInv, Linked, TypeOK
<1>3. Len(list) \in 1..Len(list) /\ list[Len(list)] \in Nodes
  BY <1>2
<1> QED BY <1>1, <1>2, <1>3 DEF IInv, Linked

LEMMA StepType ==
  ASSUME ConstantsOK, IInv, NEW t \in Threads, Step(t), first' = first
  PROVE  TypeOK'
<1>0. TypeOK BY DEF IInv
<1> USE <1>0 DEF TypeOK, Goto, Leave, stackVars, NodeOrNull, TopNode, NoTop
<1>1. CASE PushCall(t) BY <1>1 DEF PushCall
<1>2. CASE TakeNum(t) BY <1>2 DEF TakeNum
<1>3. CASE AllocNode(t)
  <2>1. index[t] \in Indexes \cup {NoIndex}
    OBVIOUS
  <2> QED BY <1>3, <2>1 DEF AllocNode
<1>4. CASE ReadTop(t) BY <1>4 DEF ReadTop
<1>5. CASE ReadTopNum(t) BY <1>5 DEF ReadTopNum
<1>6. CASE Link(t)
  <2>1. node[t] \in Nodes /\ old[t].node \in NodeOrNull
    BY <1>6 DEF IInv, HandInv, Link, At
  <2> QED BY <1>6, <2>1 DEF Link
<1>7. CASE PushTop(t)
  <2>1. node[t] \in Nodes
    BY <1>7 DEF IInv, HandInv, PushTop, At
  <2>2. CASE top = old[t]
    <3>1. Append(list, node[t]) \in Seq(Nodes)
      BY <2>1
    <3>2. /\ UNCHANGED <<uniqueNum, size, next, data, used, out>>
          /\ top' = [node |-> node[t], num |-> num[t]] /\ list' = Append(list, node[t])
          /\ node' = [node EXCEPT ![t] = NoNode] /\ index' = [index EXCEPT ![t] = NoIndex]
          /\ pc' = [pc EXCEPT ![t] = "size"] /\ num' = [num EXCEPT ![t] = 0]
          /\ old' = [old EXCEPT ![t] = NoTop] /\ nxt' = [nxt EXCEPT ![t] = NoNode]
      BY <1>7, <2>2 DEF PushTop
    <3> HIDE DEF Goto, Leave
    <3> QED BY <2>1, <3>1, <3>2
  <2>3. CASE top # old[t] BY <1>7, <2>3 DEF PushTop
  <2> QED BY <2>2, <2>3
<1>8. CASE CountUp(t) BY <1>8 DEF CountUp
<1>9. CASE PopCall(t) BY <1>9 DEF PopCall
<1>10. CASE GiveUp(t) BY <1>10 DEF GiveUp
<1>11. CASE ReadNext(t)
  <2>1. old[t].node \in Nodes /\ next[old[t].node] \in NodeOrNull
    BY <1>11 DEF ReadNext
  <2> QED BY <1>11, <2>1 DEF ReadNext
<1>12. CASE PopTop(t)
  <2>2. CASE top = old[t]
    <3>1. list # <<>> /\ old[t].node \in Nodes
      BY <1>12, <2>2, PopTakesTop
    <3>2. SubSeq(list, 1, Len(list) - 1) \in Seq(Nodes)
      BY <3>1, Shorter
    <3>3. /\ UNCHANGED <<uniqueNum, size, next, data, used, out, index>>
          /\ top' = [node |-> nxt[t], num |-> num[t]] /\ list' = SubSeq(list, 1, Len(list) - 1)
          /\ node' = [node EXCEPT ![t] = old[t].node]
          /\ pc' = [pc EXCEPT ![t] = "data"] /\ num' = [num EXCEPT ![t] = 0]
          /\ old' = [old EXCEPT ![t] = NoTop] /\ nxt' = [nxt EXCEPT ![t] = NoNode]
      BY <1>12, <2>2 DEF PopTop
    <3> HIDE DEF Goto, Leave
    <3> QED BY <3>1, <3>2, <3>3
  <2>3. CASE top # old[t] BY <1>12, <2>3 DEF PopTop
  <2> QED BY <2>2, <2>3
<1>13. CASE ReadData(t)
  <2>1. data[node[t]] \in Indexes
    BY <1>13 DEF IInv, Placed, Holds, Hand, ReadData, At
  <2> QED BY <1>13, <2>1 DEF ReadData
<1> QED
  BY <1>1, <1>2, <1>3, <1>4, <1>5, <1>6, <1>7, <1>8, <1>9, <1>10, <1>11, <1>12, <1>13
  DEF Step, PushStep, PopStep

-----------------------------------------------------------------------------
(* Serial numbers *)

\* What a step does to the numbers: a new one is taken, the top's is read, the
\* thread's own is written to the top and forgotten, or none of these.
LEMMA NumStep ==
  ASSUME TypeOK, NEW t \in Threads, Step(t)
  PROVE  \/ /\ uniqueNum' = uniqueNum + 1 /\ top' = top
            /\ num'[t] = uniqueNum + 1 /\ pc'[t] \in {"alloc", "top"}
         \/ /\ uniqueNum' = uniqueNum /\ top' = top /\ num'[t] = num[t]
            /\ HasNum(t) /\ HasOld(t)' /\ old'[t].num = top.num
         \/ /\ uniqueNum' = uniqueNum /\ HasNum(t) /\ top'.num = num[t] /\ ~HasNum(t)'
         \/ /\ uniqueNum' = uniqueNum /\ top' = top /\ num'[t] = num[t]
            /\ old'[t].num = old[t].num
            /\ HasNum(t)' => HasNum(t)
            /\ HasOld(t)' => HasOld(t)
<1> USE DEF TypeOK, Goto, Leave, stackVars, HasNum, HasOld, At, TopNode
<1>1. CASE PushCall(t) BY <1>1 DEF PushCall
<1>2. CASE TakeNum(t) BY <1>2 DEF TakeNum
<1>3. CASE AllocNode(t) BY <1>3 DEF AllocNode
<1>4. CASE ReadTop(t) BY <1>4 DEF ReadTop
<1>5. CASE ReadTopNum(t) BY <1>5 DEF ReadTopNum
<1>6. CASE Link(t) BY <1>6 DEF Link
<1>7. CASE PushTop(t)
  <2>1. CASE top = old[t] BY <1>7, <2>1 DEF PushTop
  <2>2. CASE top # old[t] BY <1>7, <2>2 DEF PushTop
  <2> QED BY <2>1, <2>2
<1>8. CASE CountUp(t) BY <1>8 DEF CountUp
<1>9. CASE PopCall(t) BY <1>9 DEF PopCall
<1>10. CASE GiveUp(t) BY <1>10 DEF GiveUp
<1>11. CASE ReadNext(t) BY <1>11 DEF ReadNext
<1>12. CASE PopTop(t)
  <2>1. CASE top = old[t] BY <1>12, <2>1 DEF PopTop
  <2>2. CASE top # old[t] BY <1>12, <2>2 DEF PopTop
  <2> QED BY <2>1, <2>2
<1>13. CASE ReadData(t) BY <1>13 DEF ReadData
<1> QED
  BY <1>1, <1>2, <1>3, <1>4, <1>5, <1>6, <1>7, <1>8, <1>9, <1>10, <1>11, <1>12, <1>13
  DEF Step, PushStep, PopStep

LEMMA StepNum ==
  ASSUME TypeOK, TypeOK', NumInv, NEW t \in Threads, Step(t)
  PROVE  NumInv'
<1>1. OthersKeep(t) BY StepFrame
<1>2. \A u \in Threads \ {t} : /\ num'[u] = num[u] /\ old'[u].num = old[u].num
                               /\ (HasNum(u)' <=> HasNum(u)) /\ (HasOld(u)' <=> HasOld(u))
  BY <1>1 DEF OthersKeep, HasNum, HasOld
<1>3. /\ uniqueNum \in Nat /\ uniqueNum' \in Nat /\ top.num \in Nat /\ top'.num \in Nat
      /\ \A u \in Threads : num[u] \in Nat /\ old[u].num \in Nat
      /\ \A u \in Threads : num'[u] \in Nat /\ old'[u].num \in Nat
      /\ \A u \in Threads : (HasOld(u) => HasNum(u)) /\ (HasOld(u) => HasNum(u))'
  BY DEF TypeOK, HasOld, HasNum, TopNode
<1>4. CASE /\ uniqueNum' = uniqueNum + 1 /\ top' = top
           /\ num'[t] = uniqueNum + 1 /\ pc'[t] \in {"alloc", "top"}
  <2>1. HasNum(t)' /\ ~HasOld(t)'
    BY <1>4 DEF HasNum, HasOld
  <2> QED BY <1>2, <1>3, <1>4, <2>1 DEF NumInv
<1>5. CASE /\ uniqueNum' = uniqueNum /\ top' = top /\ num'[t] = num[t]
           /\ HasNum(t) /\ HasOld(t)' /\ old'[t].num = top.num
  BY <1>2, <1>3, <1>5 DEF NumInv
<1>6. CASE /\ uniqueNum' = uniqueNum /\ HasNum(t) /\ top'.num = num[t] /\ ~HasNum(t)'
  BY <1>2, <1>3, <1>6 DEF NumInv
<1>7. CASE /\ uniqueNum' = uniqueNum /\ top' = top /\ num'[t] = num[t]
           /\ old'[t].num = old[t].num
           /\ HasNum(t)' => HasNum(t)
           /\ HasOld(t)' => HasOld(t)
  BY <1>2, <1>3, <1>7 DEF NumInv
<1> QED BY <1>4, <1>5, <1>6, <1>7, NumStep

-----------------------------------------------------------------------------
(* Nodes *)

LEMMA StepHand ==
  ASSUME ConstantsOK, IInv, NEW t \in Threads, Step(t)
  PROVE  \A u \in Threads : HandInv(u)'
<1>0. TypeOK /\ \A u \in Threads : HandInv(u)
  BY DEF IInv
<1>a. OthersKeep(t) BY <1>0, StepFrame
<1> USE <1>0 DEF TypeOK, Goto, Leave, stackVars, HandInv, At, OthersKeep
<1>1. CASE PushCall(t) BY <1>1, <1>a DEF PushCall
<1>2. CASE TakeNum(t) BY <1>2, <1>a DEF TakeNum
<1>3. CASE AllocNode(t)
  <2>1. PICK n \in Nodes \ used : /\ used' = used \cup {n}
                                  /\ node' = [node EXCEPT ![t] = n]
    BY <1>3 DEF AllocNode
  <2> QED BY <1>3, <1>a, <2>1, ConstantsOK DEF AllocNode, ConstantsOK
<1>4. CASE ReadTop(t) BY <1>4, <1>a DEF ReadTop
<1>5. CASE ReadTopNum(t) BY <1>5, <1>a DEF ReadTopNum
<1>6. CASE Link(t) BY <1>6, <1>a DEF Link
<1>7. CASE PushTop(t)
  <2>1. CASE top = old[t]
    <3>1. /\ node'[t] = NoNode /\ pc'[t] = "size" /\ used' = used
          /\ \A u \in Threads : u # t => node'[u] = node[u] /\ pc'[u] = pc[u]
      BY <1>7, <1>a, <2>1 DEF PushTop
    <3> QED BY <3>1
  <2>2. CASE top # old[t] BY <1>7, <1>a, <2>2 DEF PushTop
  <2> QED BY <2>1, <2>2
<1>8. CASE CountUp(t) BY <1>8, <1>a DEF CountUp
<1>9. CASE PopCall(t) BY <1>9, <1>a DEF PopCall
<1>10. CASE GiveUp(t) BY <1>10, <1>a DEF GiveUp
<1>11. CASE ReadNext(t) BY <1>11, <1>a DEF ReadNext
<1>12. CASE PopTop(t)
  <2>1. CASE top = old[t]
    <3>1. old[t].node \in used /\ old[t].node # NoNode /\ \A u \in Threads : node[u] # old[t].node
      BY <1>12, <2>1, PopTakesTop, ConstantsOK DEF ConstantsOK
    <3> QED BY <1>12, <1>a, <2>1, <3>1 DEF PopTop
  <2>2. CASE top # old[t] BY <1>12, <1>a, <2>2 DEF PopTop
  <2> QED BY <2>1, <2>2
<1>13. CASE ReadData(t)
  <2>1. /\ node'[t] = NoNode /\ pc'[t] = "idle" /\ used' = used \ {node[t]} /\ node[t] # NoNode
        /\ \A u \in Threads : u # t => node'[u] = node[u] /\ pc'[u] = pc[u]
    BY <1>13, <1>a DEF ReadData
  <2> QED BY <2>1
<1> QED
  BY <1>1, <1>2, <1>3, <1>4, <1>5, <1>6, <1>7, <1>8, <1>9, <1>10, <1>11, <1>12, <1>13
  DEF Step, PushStep, PopStep

-----------------------------------------------------------------------------
(* What a thread has read *)

\* next changes only at the node a thread has in hand.
LEMMA NextStep ==
  ASSUME TypeOK, NEW t \in Threads, Step(t), NEW n \in Nodes, n # node[t]
  PROVE  next'[n] = next[n]
<1> USE DEF TypeOK, stackVars
<1>1. CASE Link(t) BY <1>1 DEF Link
<1> QED
  BY <1>1
  DEF Step, PushStep, PopStep, PushCall, TakeNum, AllocNode, ReadTop, ReadTopNum, PushTop, CountUp,
      PopCall, GiveUp, ReadNext, PopTop, ReadData

LEMMA StepReadOther ==
  ASSUME ConstantsOK, IInv, NEW t \in Threads, Step(t), NEW u \in Threads, u # t
  PROVE  ReadInv(u)'
<1>0. TypeOK /\ ReadInv(u) /\ HandInv(u) /\ NumInv /\ Linked
  BY DEF IInv
<1>1. /\ pc'[u] = pc[u] /\ num'[u] = num[u] /\ old'[u] = old[u]
      /\ nxt'[u] = nxt[u] /\ node'[u] = node[u]
  BY <1>0, StepFrame DEF OthersKeep
<1>2. At(u, "push")' => next'[node'[u]] = old'[u].node
  <2> SUFFICES ASSUME At(u, "push") PROVE next'[node[u]] = old[u].node
    BY <1>1 DEF At
  <2>1. node[u] \in Nodes /\ node[u] # node[t]
    BY <1>0 DEF IInv, HandInv, At, TypeOK
  <2> QED BY <1>0, <2>1, NextStep DEF ReadInv
<1>3. At(u, "pop")' /\ top' = old'[u] => nxt'[u] = next'[old'[u].node]
  <2> SUFFICES ASSUME At(u, "pop"), top' = old[u] PROVE nxt[u] = next'[old[u].node]
    BY <1>1 DEF At
  <2>1. top' = top
    <3>1. HasOld(u) /\ top'.num = old[u].num
      BY DEF HasOld, At
    <3> QED BY <1>0, <3>1, NumStep DEF NumInv
  <2>2. top = old[u] /\ old[u].node # NoNode
    BY <1>0, <2>1 DEF ReadInv
  <2>3. list # <<>> /\ list \in Seq(Nodes)
    BY <1>0, <2>2 DEF Linked, TypeOK
  <2>4. Len(list) \in 1..Len(list) /\ list[Len(list)] \in Nodes
    BY <2>3
  <2>5. old[u].node \in Nodes /\ old[u].node # node[t]
    BY <1>0, <2>2, <2>3, <2>4 DEF Linked
  <2> QED BY <1>0, <2>2, <2>5, NextStep DEF ReadInv
<1> QED BY <1>0, <1>1, <1>2, <1>3 DEF ReadInv, At

LEMMA StepReadOwn ==
  ASSUME ConstantsOK, IInv, NEW t \in Threads, Step(t)
  PROVE  ReadInv(t)'
<1>0. TypeOK /\ ReadInv(t) /\ HandInv(t)
  BY DEF IInv
<1> USE <1>0 DEF TypeOK, Goto, Leave, stackVars, ReadInv, At
<1>1. CASE PushCall(t) BY <1>1 DEF PushCall
<1>2. CASE TakeNum(t) BY <1>2 DEF TakeNum
<1>3. CASE AllocNode(t) BY <1>3 DEF AllocNode
<1>4. CASE ReadTop(t) BY <1>4 DEF ReadTop
<1>5. CASE ReadTopNum(t) BY <1>5 DEF ReadTopNum
<1>6. CASE Link(t)
  <2>1. node[t] \in Nodes
    BY <1>6 DEF Link, HandInv
  <2> QED BY <1>6, <2>1 DEF Link
<1>7. CASE PushTop(t)
  <2>1. CASE top = old[t] BY <1>7, <2>1 DEF PushTop
  <2>2. CASE top # old[t] BY <1>7, <2>2 DEF PushTop
  <2> QED BY <2>1, <2>2
<1>8. CASE CountUp(t) BY <1>8 DEF CountUp
<1>9. CASE PopCall(t) BY <1>9 DEF PopCall
<1>10. CASE GiveUp(t) BY <1>10 DEF GiveUp
<1>11. CASE ReadNext(t) BY <1>11 DEF ReadNext
<1>12. CASE PopTop(t)
  <2>1. CASE top = old[t] BY <1>12, <2>1 DEF PopTop
  <2>2. CASE top # old[t] BY <1>12, <2>2 DEF PopTop
  <2> QED BY <2>1, <2>2
<1>13. CASE ReadData(t) BY <1>13 DEF ReadData
<1> QED
  BY <1>1, <1>2, <1>3, <1>4, <1>5, <1>6, <1>7, <1>8, <1>9, <1>10, <1>11, <1>12, <1>13
  DEF Step, PushStep, PopStep

-----------------------------------------------------------------------------
(* The list *)

\* A push appends a node that was in one hand, and a pop takes the last one off.
LEMMA PushChanges ==
  ASSUME ConstantsOK, IInv, NEW t \in Threads, PushTop(t), top = old[t]
  PROVE  /\ node[t] \in Nodes /\ node[t] \in used /\ next[node[t]] = old[t].node
         /\ list' = Append(list, node[t]) /\ top'.node = node[t]
         /\ UNCHANGED <<used, next, data, out>>
         /\ node'[t] = NoNode /\ \A u \in Threads : u # t => node'[u] = node[u]
         /\ Len(list') = Len(list) + 1 /\ list'[Len(list) + 1] = node[t] /\ list' # <<>>
         /\ \A i \in 1..Len(list) : list'[i] = list[i]
         /\ Len(list) \in Nat
<1>0. TypeOK /\ HandInv(t) /\ ReadInv(t)
  BY DEF IInv
<1>1. node[t] \in Nodes /\ node[t] \in used /\ next[node[t]] = old[t].node
  BY <1>0 DEF HandInv, ReadInv, PushTop, At, TypeOK
<1>2. /\ list' = Append(list, node[t]) /\ top'.node = node[t] /\ UNCHANGED <<used, next, data, out>>
      /\ node' = [node EXCEPT ![t] = NoNode]
  BY DEF PushTop
<1>3. node'[t] = NoNode /\ \A u \in Threads : u # t => node'[u] = node[u]
  BY <1>0, <1>2 DEF TypeOK
<1>4. /\ Len(list') = Len(list) + 1 /\ list'[Len(list) + 1] = node[t] /\ list' # <<>>
      /\ \A i \in 1..Len(list) : list'[i] = list[i]
      /\ Len(list) \in Nat
  BY <1>0, <1>1, <1>2, AppendProperties DEF TypeOK
<1> QED BY <1>1, <1>2, <1>3, <1>4

LEMMA PopChanges ==
  ASSUME ConstantsOK, IInv, NEW t \in Threads, PopTop(t), top = old[t]
  PROVE  /\ list' = SubSeq(list, 1, Len(list) - 1) /\ top'.node = nxt[t] /\ list # <<>>
         /\ UNCHANGED <<used, next, data, out, index>>
         /\ node'[t] = list[Len(list)] /\ \A u \in Threads : u # t => node'[u] = node[u]
         /\ Len(list') = Len(list) - 1 /\ \A i \in 1..Len(list) - 1 : list'[i] = list[i]
         /\ Len(list) \in Nat /\ Len(list) >= 1 /\ (list' = <<>> <=> Len(list) = 1)
<1>0. TypeOK
  BY DEF IInv
<1>1. list # <<>> /\ list \in Seq(Nodes) /\ old[t].node = list[Len(list)]
  BY PopTakesTop
<1>2. /\ list' = SubSeq(list, 1, Len(list) - 1) /\ top'.node = nxt[t]
      /\ UNCHANGED <<used, next, data, out, index>> /\ node' = [node EXCEPT ![t] = old[t].node]
  BY DEF PopTop
<1>3. node'[t] = list[Len(list)] /\ \A u \in Threads : u # t => node'[u] = node[u]
  BY <1>0, <1>1, <1>2 DEF TypeOK
<1>4. /\ list' \in Seq(Nodes) /\ Len(list') = Len(list) - 1 /\ \A i \in 1..Len(list) - 1 : list'[i] = list[i]
      /\ Len(list) \in Nat /\ Len(list) >= 1
  BY <1>1, <1>2, Shorter
<1>5. list' = <<>> <=> Len(list') = 0
  BY <1>4
<1> QED BY <1>1, <1>2, <1>3, <1>4, <1>5

LEMMA StepLinked ==
  ASSUME ConstantsOK, IInv, NEW t \in Threads, Step(t)
  PROVE  Linked'
<1> DEFINE n == Len(list)
<1>0. TypeOK /\ Linked /\ HandInv(t) /\ NoNode \notin Nodes
  BY ConstantsOK DEF IInv, ConstantsOK
<1>a. OthersKeep(t) BY <1>0, StepFrame
<1>b. \A i \in 1..n : list[i] \in Nodes /\ list[i] # NoNode
  BY <1>0 DEF TypeOK
<1>c. \A i \in 1..n : /\ next'[list[i]] = next[list[i]]
                      /\ next[list[i]] = IF i = 1 THEN NoNode ELSE list[i - 1]
                      /\ list[i] \in used /\ \A u \in Threads : node[u] # list[i]
                      /\ \A j \in 1..n : list[i] = list[j] => i = j
  BY <1>0, <1>b, NextStep DEF Linked
<1>1. CASE PopTop(t) /\ top = old[t]
  <2>1. /\ used' = used /\ node'[t] = list[n] /\ \A u \in Threads : u # t => node'[u] = node[u]
        /\ Len(list') = n - 1 /\ \A i \in 1..n - 1 : list'[i] = list[i]
        /\ n \in Nat /\ n >= 1 /\ (list' = <<>> <=> n = 1) /\ top'.node = nxt[t]
    BY <1>1, PopChanges
  <2> HIDE DEF n
  <2>2. nxt[t] = IF n = 1 THEN NoNode ELSE list[n - 1]
    <3>1. nxt[t] = next[list[n]] /\ n \in 1..n
      BY <1>1, <2>1, PopTakesTop DEF n
    <3> QED BY <1>c, <3>1
  <2>3. top'.node = IF list' = <<>> THEN NoNode ELSE list'[Len(list')]
    BY <2>1, <2>2
  <2>4. ASSUME NEW i \in 1..Len(list')
        PROVE  /\ next'[list'[i]] = IF i = 1 THEN NoNode ELSE list'[i - 1]
               /\ list'[i] \in used'
               /\ \A u \in Threads : node'[u] # list'[i]
               /\ \A j \in 1..Len(list') : list'[i] = list'[j] => i = j
    <3>1. i \in 1..n /\ i # n /\ n \in 1..n /\ (i # 1 => i - 1 \in 1..(n - 1)) /\ i \in 1..(n - 1)
      BY <2>1
    <3>2. list'[i] = list[i] /\ list[i] # list[n] /\ (i # 1 => list'[i - 1] = list[i - 1])
      BY <1>c, <2>1, <3>1
    <3>3. next'[list'[i]] = IF i = 1 THEN NoNode ELSE list'[i - 1]
      BY <1>c, <3>1, <3>2
    <3>4. list'[i] \in used' /\ \A u \in Threads : node'[u] # list'[i]
      BY <1>c, <2>1, <3>1, <3>2
    <3>5. ASSUME NEW j \in 1..Len(list'), list'[i] = list'[j] PROVE i = j
      <4>1. j \in 1..n /\ list'[j] = list[j]
        BY <2>1
      <4>2. list[i] = list[j]
        BY <3>2, <3>5, <4>1
      <4>3. \A k \in 1..n : list[i] = list[k] => i = k
        BY <1>c, <3>1
      <4> QED BY <4>1, <4>2, <4>3
    <3> QED BY <3>3, <3>4, <3>5
  <2> QED BY <2>3, <2>4 DEF Linked
<1>2. CASE PushTop(t) /\ top = old[t]
  <2>1. /\ node[t] \in Nodes /\ node[t] \in used /\ next[node[t]] = old[t].node /\ top'.node = node[t]
        /\ UNCHANGED <<used, next>> /\ node'[t] = NoNode /\ \A u \in Threads : u # t => node'[u] = node[u]
        /\ Len(list') = n + 1 /\ list'[n + 1] = node[t] /\ list' # <<>>
        /\ \A i \in 1..n : list'[i] = list[i]
        /\ n \in Nat
    BY <1>2, PushChanges
  <2>2. old[t].node = IF n = 0 THEN NoNode ELSE list[n]
    <3>1. list = <<>> <=> n = 0
      BY <1>0 DEF TypeOK
    <3> QED BY <1>0, <1>2, <3>1 DEF Linked
  <2> HIDE DEF n
  <2>3. \A u \in Threads : node'[u] # node[t]
    BY <1>0, <2>1 DEF IInv, HandInv
  <2>4. \A i \in 1..n : list[i] # node[t] /\ \A u \in Threads : node'[u] # list[i]
    BY <1>b, <1>c, <2>1
  <2>5. ASSUME NEW i \in 1..Len(list')
        PROVE  /\ next'[list'[i]] = IF i = 1 THEN NoNode ELSE list'[i - 1]
               /\ list'[i] \in used'
               /\ \A u \in Threads : node'[u] # list'[i]
               /\ \A j \in 1..Len(list') : list'[i] = list'[j] => i = j
    <3>1. CASE i = n + 1
      <4>1. \A j \in 1..Len(list') : j = n + 1 \/ j \in 1..n
        BY <2>1
      <4>2. next'[list'[i]] = IF i = 1 THEN NoNode ELSE list'[i - 1]
        BY <2>1, <2>2, <3>1
      <4> QED BY <2>1, <2>3, <2>4, <3>1, <4>1, <4>2
    <3>2. CASE i \in 1..n
      <4>1. \A j \in 1..Len(list') : j = n + 1 \/ j \in 1..n
        BY <2>1
      <4>2. list'[i] = list[i] /\ (i # 1 => list'[i - 1] = list[i - 1])
        BY <2>1, <3>2
      <4>3. next'[list'[i]] = IF i = 1 THEN NoNode ELSE list'[i - 1]
        BY <1>c, <2>1, <3>2, <4>2
      <4>4. list'[i] \in used' /\ \A u \in Threads : node'[u] # list'[i]
        BY <1>c, <2>1, <2>4, <3>2, <4>2
      <4>5. ASSUME NEW j \in 1..Len(list'), list'[i] = list'[j] PROVE i = j
        <5>1. CASE j = n + 1 BY <2>1, <2>4, <3>2, <4>2, <4>5, <5>1
        <5>2. CASE j \in 1..n
          <6>1. list[i] = list[j] /\ \A k \in 1..n : list[i] = list[k] => i = k
            BY <1>c, <2>1, <3>2, <4>2, <4>5, <5>2
          <6> QED BY <5>2, <6>1
        <5> QED BY <4>1, <5>1, <5>2
      <4> QED BY <4>3, <4>4, <4>5
    <3> QED BY <2>1, <3>1, <3>2
  <2> QED BY <2>1, <2>5 DEF Linked
<1>3. CASE list' = list /\ top' = top /\ ~((PopTop(t) \/ PushTop(t)) /\ top = old[t])
  <2> SUFFICES ASSUME NEW i \in 1..Len(list)
               PROVE  list[i] \in used' /\ \A u \in Threads : node'[u] # list[i]
    BY <1>0, <1>c, <1>3 DEF Linked
  <2>1. list[i] \in used /\ list[i] # NoNode /\ list[i] \in Nodes /\ \A u \in Threads : node[u] # list[i]
    BY <1>b, <1>c
  <2>2. CASE AllocNode(t) BY <2>1, <2>2, <1>0 DEF AllocNode, TypeOK
  <2>3. CASE ReadData(t) BY <2>1, <2>3, <1>0 DEF ReadData, TypeOK
  <2>4. CASE used' = used /\ node' = node BY <2>1, <2>4
  <2>5. CASE PopTop(t) BY <1>3, <2>1, <2>5 DEF PopTop
  <2>6. CASE PushTop(t) BY <1>3, <2>1, <2>6 DEF PushTop
  <2> QED
    BY <2>2, <2>3, <2>4, <2>5, <2>6
    DEF Step, PushStep, PopStep, stackVars, PushCall, TakeNum, ReadTop, ReadTopNum, Link, CountUp,
        PopCall, GiveUp, ReadNext
<1> QED
  BY <1>1, <1>2, <1>3
  DEF Step, PushStep, PopStep, stackVars, PushCall, TakeNum, AllocNode, ReadTop, ReadTopNum, Link,
      PushTop, CountUp, PopCall, GiveUp, ReadNext, PopTop, ReadData

-----------------------------------------------------------------------------
(* Indexes *)

\* The data of a node changes only when the pool gives it out.
LEMMA DataStep ==
  ASSUME TypeOK, NEW t \in Threads, Step(t), NEW n \in used
  PROVE  data'[n] = data[n]
<1> USE DEF TypeOK, stackVars
<1>1. CASE AllocNode(t) BY <1>1 DEF AllocNode
<1> QED
  BY <1>1
  DEF Step, PushStep, PopStep, PushCall, TakeNum, ReadTop, ReadTopNum, Link, PushTop, CountUp,
      PopCall, GiveUp, ReadNext, PopTop, ReadData

LEMMA StepIndex ==
  ASSUME ConstantsOK, IInv, NEW t \in Threads, Step(t)
  PROVE  \A u \in Threads : IndexInv(u)'
<1>0. TypeOK /\ \A u \in Threads : HandInv(u) /\ IndexInv(u)
  BY DEF IInv
<1>a. ASSUME NEW u \in Threads, u # t PROVE IndexInv(u)'
  <2>1. pc'[u] = pc[u] /\ node'[u] = node[u] /\ index'[u] = index[u]
    BY <1>0, <1>a, StepFrame DEF OthersKeep
  <2>2. node[u] # NoNode => data'[node[u]] = data[node[u]]
    BY <1>0, DataStep DEF HandInv
  <2> QED BY <1>0, <2>1, <2>2 DEF IndexInv, Pushing
<1>b. IndexInv(t)'
  <2>0. TypeOK /\ HandInv(t) /\ IndexInv(t)
    BY <1>0
  <2> USE <2>0 DEF TypeOK, Goto, Leave, stackVars, IndexInv, Pushing, HandInv, At
  <2>1. CASE PushCall(t)
    <3>1. PICK i \in out : index' = [index EXCEPT ![t] = i]
      BY <2>1 DEF PushCall
    <3>2. i # NoIndex /\ index'[t] = i
      BY <3>1, ConstantsOK DEF ConstantsOK, NoIndex
    <3> QED BY <2>1, <3>2 DEF PushCall
  <2>2. CASE TakeNum(t) BY <2>2 DEF TakeNum
  <2>3. CASE AllocNode(t)
    <3>1. PICK n \in Nodes \ used : data' = [data EXCEPT ![n] = index[t]] /\ node' = [node EXCEPT ![t] = n]
      BY <2>3 DEF AllocNode
    <3>2. n # NoNode /\ node'[t] = n /\ data'[n] = index[t] /\ index' = index
      BY <2>3, <3>1, ConstantsOK DEF ConstantsOK, AllocNode
    <3> QED BY <2>3, <3>2 DEF AllocNode
  <2>4. CASE ReadTop(t) BY <2>4 DEF ReadTop
  <2>5. CASE ReadTopNum(t) BY <2>5 DEF ReadTopNum
  <2>6. CASE Link(t) BY <2>6 DEF Link
  <2>7. CASE PushTop(t)
    <3>1. CASE top = old[t] BY <2>7, <3>1 DEF PushTop
    <3>2. CASE top # old[t] BY <2>7, <3>2 DEF PushTop
    <3> QED BY <3>1, <3>2
  <2>8. CASE CountUp(t) BY <2>8 DEF CountUp
  <2>9. CASE PopCall(t) BY <2>9 DEF PopCall
  <2>10. CASE GiveUp(t) BY <2>10 DEF GiveUp
  <2>11. CASE ReadNext(t) BY <2>11 DEF ReadNext
  <2>12. CASE PopTop(t)
    <3>1. CASE top = old[t] BY <2>12, <3>1 DEF PopTop
    <3>2. CASE top # old[t] BY <2>12, <3>2 DEF PopTop
    <3> QED BY <3>1, <3>2
  <2>13. CASE ReadData(t) BY <2>13 DEF ReadData
  <2> QED
    BY <2>1, <2>2, <2>3, <2>4, <2>5, <2>6, <2>7, <2>8, <2>9, <2>10, <2>11, <2>12, <2>13
    DEF Step, PushStep, PopStep
<1> QED BY <1>a, <1>b

\* What a step does to the index its thread has: it is taken from the server, put on the
\* stack, taken from there, given to the server, or left alone.
Calls(t) ==
  /\ list' = list /\ ~Holds(t) /\ Holds(t)'
  /\ Hand(t)' \in out /\ out' = out \ {Hand(t)'}
Puts(t) ==
  /\ Holds(t) /\ ~Holds(t)' /\ out' = out
  /\ Len(list') = Len(list) + 1 /\ data[list'[Len(list) + 1]] = Hand(t)
  /\ list'[Len(list) + 1] \in used
  /\ \A i \in 1..Len(list) : list'[i] = list[i]
Takes(t) ==
  /\ ~Holds(t) /\ Holds(t)' /\ out' = out
  /\ Len(list) >= 1 /\ Len(list') = Len(list) - 1 /\ Hand(t)' = data[list[Len(list)]]
  /\ \A i \in 1..Len(list) - 1 : list'[i] = list[i]
Returns(t) ==
  /\ list' = list /\ Holds(t) /\ ~Holds(t)' /\ out' = out \cup {Hand(t)}
Stays(t) ==
  /\ list' = list /\ out' = out
  /\ \/ ~Holds(t) /\ ~Holds(t)'
     \/ Holds(t) /\ Holds(t)' /\ Hand(t)' = Hand(t)

LEMMA IndexStep ==
  ASSUME ConstantsOK, IInv, NEW t \in Threads, Step(t)
  PROVE  Calls(t) \/ Puts(t) \/ Takes(t) \/ Returns(t) \/ Stays(t)
<1>0. TypeOK /\ HandInv(t) /\ IndexInv(t)
  BY DEF IInv
<1> USE <1>0 DEF TypeOK, Goto, Leave, stackVars, Holds, Hand, At
<1>1. CASE PushCall(t)
  <2>1. PICK i \in out : index' = [index EXCEPT ![t] = i] /\ out' = out \ {i}
    BY <1>1 DEF PushCall
  <2>2. i # NoIndex /\ index'[t] = i
    BY <2>1, ConstantsOK DEF ConstantsOK, NoIndex
  <2>3. index[t] = NoIndex
    BY <1>1 DEF IndexInv, Pushing, PushCall
  <2> QED BY <1>1, <2>1, <2>2, <2>3 DEF PushCall, Calls
<1>2. CASE TakeNum(t) BY <1>2 DEF TakeNum, Stays
<1>3. CASE AllocNode(t) BY <1>3 DEF AllocNode, Stays
<1>4. CASE ReadTop(t) BY <1>4 DEF ReadTop, Stays
<1>5. CASE ReadTopNum(t) BY <1>5 DEF ReadTopNum, Stays
<1>6. CASE Link(t) BY <1>6 DEF Link, Stays
<1>7. CASE PushTop(t)
  <2>1. CASE top = old[t]
    <3>1. /\ UNCHANGED <<data, out>> /\ Len(list') = Len(list) + 1
          /\ list'[Len(list) + 1] = node[t] /\ node[t] \in used /\ \A i \in 1..Len(list) : list'[i] = list[i]
      BY <1>7, <2>1, PushChanges
    <3>2. pc[t] = "push" /\ pc'[t] = "size" /\ index'[t] = NoIndex
      BY <1>7, <2>1 DEF PushTop
    <3>3. index[t] # NoIndex /\ data[node[t]] = index[t]
      BY <3>2 DEF IndexInv, Pushing, HandInv
    <3> QED BY <3>1, <3>2, <3>3 DEF Puts
  <2>2. CASE top # old[t] BY <1>7, <2>2 DEF PushTop, Stays
  <2> QED BY <2>1, <2>2
<1>8. CASE CountUp(t) BY <1>8 DEF CountUp, Stays
<1>9. CASE PopCall(t) BY <1>9 DEF PopCall, Stays
<1>10. CASE GiveUp(t) BY <1>10 DEF GiveUp, Stays
<1>11. CASE ReadNext(t) BY <1>11 DEF ReadNext, Stays
<1>12. CASE PopTop(t)
  <2>1. CASE top = old[t]
    <3>1. /\ UNCHANGED <<data, out, index>> /\ Len(list') = Len(list) - 1 /\ Len(list) >= 1
          /\ node'[t] = list[Len(list)] /\ \A i \in 1..Len(list) - 1 : list'[i] = list[i]
      BY <1>12, <2>1, PopChanges
    <3>2. pc[t] = "pop" /\ pc'[t] = "data"
      BY <1>12, <2>1 DEF PopTop
    <3>3. index[t] = NoIndex
      BY <3>2 DEF IndexInv, Pushing
    <3> QED BY <3>1, <3>2, <3>3 DEF Takes
  <2>2. CASE top # old[t] BY <1>12, <2>2 DEF PopTop, Stays
  <2> QED BY <2>1, <2>2
<1>13. CASE ReadData(t)
  <2>1. index[t] = NoIndex
    BY <1>13 DEF IndexInv, Pushing, ReadData
  <2> QED BY <1>13, <2>1 DEF ReadData, Returns
<1> QED
  BY <1>1, <1>2, <1>3, <1>4, <1>5, <1>6, <1>7, <1>8, <1>9, <1>10, <1>11, <1>12, <1>13
  DEF Step, PushStep, PopStep

LEMMA StepOthers ==
  ASSUME ConstantsOK, IInv, NEW t \in Threads, Step(t), NEW u \in Threads, u # t
  PROVE  (Holds(u)' <=> Holds(u)) /\ (Holds(u) => Hand(u)' = Hand(u))
<1>1. pc'[u] = pc[u] /\ node'[u] = node[u] /\ index'[u] = index[u]
  BY StepFrame DEF IInv, OthersKeep
<1>2. At(u, "data") => data'[node[u]] = data[node[u]]
  BY DataStep DEF IInv, HandInv, At
<1> QED BY <1>1, <1>2 DEF Holds, Hand, At

LEMMA StepPlaced ==
  ASSUME ConstantsOK, IInv, NEW t \in Threads, Step(t)
  PROVE  Placed'
<1> DEFINE n == Len(list)
<1>0. TypeOK /\ Placed /\ n \in Nat
  BY DEF IInv, TypeOK
<1>1. \A i \in 1..n : data'[list[i]] = data[list[i]] /\ data[list[i]] \in Indexes \ out
  BY <1>0, DataStep DEF IInv, Linked, Placed
<1>2. \A u \in Threads : u # t => (Holds(u)' <=> Holds(u)) /\ (Holds(u) => Hand(u)' = Hand(u))
  BY StepOthers
<1>3. /\ \A i, j \in 1..n : data[list[i]] = data[list[j]] => i = j
      /\ \A u \in Threads : Holds(u) => Hand(u) \in Indexes \ out /\ \A i \in 1..n : data[list[i]] # Hand(u)
      /\ \A u, v \in Threads : Holds(u) /\ Holds(v) /\ Hand(u) = Hand(v) => u = v
      /\ \A x \in Indexes :
           \/ x \in out
           \/ \E i \in 1..n : data[list[i]] = x
           \/ \E u \in Threads : Holds(u) /\ Hand(u) = x
      /\ out \subseteq Indexes
  BY <1>0 DEF Placed, TypeOK
<1> SUFFICES
      /\ \A i \in 1..Len(list') : data'[list'[i]] \in Indexes \ out'
      /\ \A i, j \in 1..Len(list') : data'[list'[i]] = data'[list'[j]] => i = j
      /\ \A u \in Threads : Holds(u)' => Hand(u)' \in Indexes \ out'
      /\ \A u \in Threads : Holds(u)' => \A i \in 1..Len(list') : data'[list'[i]] # Hand(u)'
      /\ \A u, v \in Threads : Holds(u)' /\ Holds(v)' /\ Hand(u)' = Hand(v)' => u = v
      /\ \A x \in Indexes :
           \/ x \in out'
           \/ \E i \in 1..Len(list') : data'[list'[i]] = x
           \/ \E u \in Threads : Holds(u)' /\ Hand(u)' = x
  BY DEF Placed
<1>4. CASE Calls(t)
  <2>1. list' = list /\ ~Holds(t) /\ Holds(t)' /\ Hand(t)' \in out /\ out' = out \ {Hand(t)'}
    BY <1>4 DEF Calls
  <2> HIDE DEF n
  <2>2. Len(list') = n
    BY <2>1 DEF n
  <2>3. /\ \A i \in 1..n : data'[list'[i]] \in Indexes \ out'
        /\ \A i, j \in 1..n : data'[list'[i]] = data'[list'[j]] => i = j
    BY <1>1, <1>3, <2>1
  <2>4. \A u \in Threads : Holds(u)' => u = t \/ (u # t /\ Holds(u) /\ Hand(u)' = Hand(u))
    BY <1>2
  <2>a. ASSUME NEW u \in Threads, Holds(u)' PROVE Hand(u)' \in Indexes \ out'
    <3>1. CASE u = t BY <1>3, <2>1, <3>1
    <3>2. CASE u # t BY <1>2, <1>3, <2>1, <2>a, <3>2
    <3> QED BY <3>1, <3>2
  <2>b. ASSUME NEW u \in Threads, NEW v \in Threads, Holds(u)', Holds(v)', Hand(u)' = Hand(v)' PROVE u = v
    <3>1. \A w \in Threads : Holds(w)' /\ w # t => Holds(w) /\ Hand(w)' = Hand(w) /\ Hand(w) \notin out
      BY <1>2, <1>3
    <3>2. CASE u = t \/ v = t BY <2>1, <2>b, <3>1, <3>2
    <3>3. CASE u # t /\ v # t BY <1>3, <2>b, <3>1, <3>3
    <3> QED BY <3>2, <3>3
  <2>5. /\ \A u \in Threads : Holds(u)' => Hand(u)' \in Indexes \ out'
        /\ \A u, v \in Threads : Holds(u)' /\ Holds(v)' /\ Hand(u)' = Hand(v)' => u = v
    BY <2>a, <2>b
  <2>6. \A u \in Threads : Holds(u)' => \A i \in 1..n : data'[list'[i]] # Hand(u)'
    BY <1>1, <1>3, <2>1, <2>4
  <2>7. \A x \in Indexes :
           \/ x \in out'
           \/ \E i \in 1..n : data'[list'[i]] = x
           \/ \E u \in Threads : Holds(u)' /\ Hand(u)' = x
    BY <1>1, <1>2, <1>3, <2>1
  <2> QED BY <2>2, <2>3, <2>5, <2>6, <2>7
<1>5. CASE Puts(t)
  <2>1. /\ Holds(t) /\ ~Holds(t)' /\ out' = out
        /\ Len(list') = n + 1 /\ \A i \in 1..n : list'[i] = list[i]
        /\ data'[list'[n + 1]] = Hand(t)
    BY <1>0, <1>5, DataStep DEF Puts
  <2> HIDE DEF n
  <2>2. \A i \in 1..Len(list') : i \in 1..n \/ i = n + 1
    BY <1>0, <2>1
  <2>3. \A i \in 1..n : data'[list'[i]] = data[list[i]]
    BY <1>1, <2>1
  <2>4. /\ \A i \in 1..Len(list') : data'[list'[i]] \in Indexes \ out'
        /\ \A i, j \in 1..Len(list') : data'[list'[i]] = data'[list'[j]] => i = j
    BY <1>1, <1>3, <2>1, <2>2, <2>3
  <2>5. /\ \A u \in Threads : Holds(u)' => Hand(u)' \in Indexes \ out'
        /\ \A u, v \in Threads : Holds(u)' /\ Holds(v)' /\ Hand(u)' = Hand(v)' => u = v
    BY <1>2, <1>3, <2>1
  <2>6. ASSUME NEW u \in Threads, Holds(u)', NEW i \in 1..Len(list') PROVE data'[list'[i]] # Hand(u)'
    <3>1. u # t /\ Holds(u) /\ Hand(u)' = Hand(u) /\ Hand(u) # Hand(t)
      BY <1>2, <1>3, <2>1, <2>6
    <3> QED BY <1>3, <2>1, <2>2, <2>3, <3>1
  <2>7. ASSUME NEW x \in Indexes
        PROVE  \/ x \in out'
               \/ \E i \in 1..Len(list') : data'[list'[i]] = x
               \/ \E u \in Threads : Holds(u)' /\ Hand(u)' = x
    <3>1. CASE \E i \in 1..n : data[list[i]] = x
      <4>1. PICK i \in 1..n : data[list[i]] = x
        BY <3>1
      <4>2. i \in 1..Len(list')
        BY <1>0, <2>1
      <4> QED BY <2>3, <4>1, <4>2
    <3>2. CASE \E u \in Threads : Holds(u) /\ Hand(u) = x
      <4>1. PICK u \in Threads : Holds(u) /\ Hand(u) = x
        BY <3>2
      <4>2. n + 1 \in 1..Len(list')
        BY <1>0, <2>1
      <4>3. CASE u = t BY <2>1, <4>1, <4>2, <4>3
      <4>4. CASE u # t BY <1>2, <4>1, <4>4
      <4> QED BY <4>3, <4>4
    <3> QED BY <1>3, <2>1, <3>1, <3>2
  <2> QED BY <2>4, <2>5, <2>6, <2>7
<1>6. CASE Takes(t)
  <2>1. /\ ~Holds(t) /\ Holds(t)' /\ out' = out
        /\ n >= 1 /\ Len(list') = n - 1 /\ Hand(t)' = data[list[n]]
        /\ \A i \in 1..n - 1 : list'[i] = list[i]
    BY <1>6 DEF Takes
  <2> HIDE DEF n
  <2>2. n \in 1..n /\ \A i \in 1..Len(list') : i \in 1..n /\ i # n /\ data'[list'[i]] = data[list[i]]
    <3>1. \A i \in 1..Len(list') : i \in 1..n /\ i # n /\ i \in 1..n - 1
      BY <1>0, <2>1
    <3> QED BY <1>0, <1>1, <2>1, <3>1
  <2>3. /\ \A i \in 1..Len(list') : data'[list'[i]] \in Indexes \ out'
        /\ \A i, j \in 1..Len(list') : data'[list'[i]] = data'[list'[j]] => i = j
    BY <1>1, <1>3, <2>1, <2>2
  <2>4. \A u \in Threads : Holds(u)' => u = t \/ (Holds(u) /\ Hand(u)' = Hand(u))
    BY <1>2
  <2>5. /\ \A u \in Threads : Holds(u)' => Hand(u)' \in Indexes \ out'
        /\ \A u, v \in Threads : Holds(u)' /\ Holds(v)' /\ Hand(u)' = Hand(v)' => u = v
    BY <1>1, <1>3, <2>1, <2>2, <2>4
  <2>6. ASSUME NEW u \in Threads, Holds(u)', NEW i \in 1..Len(list') PROVE data'[list'[i]] # Hand(u)'
    BY <1>3, <2>1, <2>2, <2>4, <2>6
  <2>7. ASSUME NEW x \in Indexes
        PROVE  \/ x \in out'
               \/ \E i \in 1..Len(list') : data'[list'[i]] = x
               \/ \E u \in Threads : Holds(u)' /\ Hand(u)' = x
    <3>1. CASE \E i \in 1..n : data[list[i]] = x
      <4>1. PICK i \in 1..n : data[list[i]] = x
        BY <3>1
      <4>2. CASE i = n BY <2>1, <4>1, <4>2
      <4>3. CASE i # n
        <5>1. i \in 1..Len(list')
          BY <1>0, <2>1, <4>3
        <5> QED BY <2>2, <4>1, <5>1
      <4> QED BY <4>2, <4>3
    <3>2. CASE \E u \in Threads : Holds(u) /\ Hand(u) = x
      BY <1>2, <2>1, <3>2
    <3> QED BY <1>3, <2>1, <3>1, <3>2
  <2> QED BY <2>3, <2>5, <2>6, <2>7
<1>7. CASE Returns(t)
  <2>1. list' = list /\ Holds(t) /\ ~Holds(t)' /\ out' = out \cup {Hand(t)}
    BY <1>7 DEF Returns
  <2> HIDE DEF n
  <2>2. Len(list') = n
    BY <2>1 DEF n
  <2> QED BY <1>1, <1>2, <1>3, <2>1, <2>2
<1>8. CASE Stays(t)
  <2>1. /\ list' = list /\ out' = out
        /\ \A u \in Threads : (Holds(u)' <=> Holds(u)) /\ (Holds(u) => Hand(u)' = Hand(u))
    BY <1>2, <1>8 DEF Stays
  <2> HIDE DEF n
  <2>2. Len(list') = n
    BY <2>1 DEF n
  <2> QED BY <1>1, <1>3, <2>1, <2>2
<1> QED BY <1>4, <1>5, <1>6, <1>7, <1>8, IndexStep

-----------------------------------------------------------------------------
(* The count *)

\* What a step does to the count, the length of the list and the thread's part in their
\* difference: a call is promised something, has got it, or neither.
LEMMA CountStep ==
  ASSUME ConstantsOK, IInv, NEW t \in Threads, Step(t)
  PROVE  \/ /\ t \notin Owing /\ (t \in Owing)' /\ Len(list) - size + 1 = Len(list') - size'
         \/ /\ t \in Owing /\ ~(t \in Owing)' /\ Len(list) - size - 1 = Len(list') - size'
         \/ /\ (t \in Owing)' <=> t \in Owing
            /\ list' = list /\ size' = size
<1>0. TypeOK /\ HandInv(t) /\ Len(list) \in Nat
  BY DEF IInv, TypeOK
<1> DEFINE Owes(s, n) == \/ s \in {"num", "next", "pop", "giveup", "size"}
                         \/ s \in {"top", "topnum"} /\ n = NoNode
<1>a. (t \in Owing <=> Owes(pc[t], node[t])) /\ ((t \in Owing)' <=> Owes(pc'[t], node'[t]))
  BY DEF Owing, Promised
<1> HIDE DEF Owing
<1> USE <1>0, <1>a DEF TypeOK, Goto, Leave, stackVars, HandInv, At
<1>1. CASE PushCall(t) BY <1>1 DEF PushCall
<1>2. CASE TakeNum(t) BY <1>2 DEF TakeNum
<1>3. CASE AllocNode(t)
  <2>1. PICK n \in Nodes \ used : node' = [node EXCEPT ![t] = n]
    BY <1>3 DEF AllocNode
  <2>2. node'[t] # NoNode /\ pc'[t] = "top" /\ pc[t] = "alloc" /\ list' = list /\ size' = size
    BY <1>3, <2>1, ConstantsOK DEF ConstantsOK, AllocNode
  <2> QED BY <2>2
<1>4. CASE ReadTop(t) BY <1>4 DEF ReadTop
<1>5. CASE ReadTopNum(t) BY <1>5 DEF ReadTopNum
<1>6. CASE Link(t) BY <1>6 DEF Link
<1>7. CASE PushTop(t)
  <2>1. CASE top = old[t]
    <3>1. Len(list') = Len(list) + 1 /\ size' = size /\ size \in Int
      BY <1>7, <2>1, PushChanges DEF PushTop
    <3>2. pc[t] = "push" /\ pc'[t] = "size"
      BY <1>7, <2>1 DEF PushTop
    <3>3. Len(list) - size + 1 = Len(list') - size'
      BY <3>1
    <3> QED BY <3>2, <3>3
  <2>2. CASE top # old[t] BY <1>7, <2>2 DEF PushTop
  <2> QED BY <2>1, <2>2
<1>8. CASE CountUp(t) BY <1>8 DEF CountUp
<1>9. CASE PopCall(t) BY <1>9 DEF PopCall
<1>10. CASE GiveUp(t) BY <1>10 DEF GiveUp
<1>11. CASE ReadNext(t) BY <1>11 DEF ReadNext
<1>12. CASE PopTop(t)
  <2>1. CASE top = old[t]
    <3>1. Len(list') = Len(list) - 1 /\ size' = size /\ size \in Int
      BY <1>12, <2>1, PopChanges DEF PopTop
    <3>2. pc[t] = "pop" /\ pc'[t] = "data"
      BY <1>12, <2>1 DEF PopTop
    <3>3. Len(list) - size - 1 = Len(list') - size'
      BY <3>1
    <3> QED BY <3>2, <3>3
  <2>2. CASE top # old[t] BY <1>12, <2>2 DEF PopTop
  <2> QED BY <2>1, <2>2
<1>13. CASE ReadData(t) BY <1>13 DEF ReadData
<1> QED
  BY <1>1, <1>2, <1>3, <1>4, <1>5, <1>6, <1>7, <1>8, <1>9, <1>10, <1>11, <1>12, <1>13
  DEF Step, PushStep, PopStep

LEMMA OwingFinite == ASSUME ConstantsOK PROVE IsFiniteSet(Owing) /\ Cardinality(Owing) \in Nat
BY FS_Subset, FS_CardinalityType DEF ConstantsOK, Owing

LEMMA StepSized ==
  ASSUME ConstantsOK, IInv, TypeOK', NEW t \in Threads, Step(t), first' = first
  PROVE  Sized'
<1> PICK d \in Int : d = first
  BY ConstantsOK DEF ConstantsOK, IInv, TypeOK
<1>0. TypeOK /\ Sized /\ d = first /\ first' = d
  BY DEF IInv
<1>1. /\ d \in Int /\ size \in Int /\ size' \in Int /\ Len(list) \in Nat /\ Len(list') \in Nat
      /\ Cardinality(Owing) \in Nat /\ IsFiniteSet(Owing)
      /\ size = d + Len(list) - Cardinality(Owing)
  BY <1>0, OwingFinite DEF TypeOK, Sized
<1>2. \A u \in Threads : u # t => ((u \in Owing)' <=> u \in Owing)
  BY <1>0, StepFrame DEF OthersKeep, Owing, Promised
<1>3. Owing \subseteq Threads /\ Owing' \subseteq Threads
  BY DEF Owing
<1> SUFFICES size' = d + Len(list') - Cardinality(Owing')
  BY <1>0 DEF Sized
<1>4. CASE t \notin Owing /\ t \in Owing' /\ Len(list) - size + 1 = Len(list') - size'
  <2>1. Owing' = Owing \cup {t}
    BY <1>2, <1>3, <1>4
  <2>2. Cardinality(Owing') = Cardinality(Owing) + 1
    BY <1>1, <1>4, <2>1, FS_AddElement
  <2>3. size' = d + Len(list') - (Cardinality(Owing) + 1)
    <3> DEFINE c == Cardinality(Owing)
               l == Len(list)
               m == Len(list')
               r == size'
    <3>1. c \in Int /\ l \in Int /\ m \in Int /\ r \in Int /\ size \in Int /\ d \in Int
      BY <1>1
    <3>2. size = d + l - c /\ l - size + 1 = m - r
      BY <1>1, <1>4
    <3> HIDE DEF c, l, m, r
    <3>3. r = m - l + size - 1
      BY <3>1, <3>2
    <3>4. r = d + m - (c + 1)
      BY <3>1, <3>2, <3>3
    <3> QED BY <3>4 DEF c, m, r
  <2> QED BY <2>2, <2>3
<1>5. CASE t \in Owing /\ t \notin Owing' /\ Len(list) - size - 1 = Len(list') - size'
  <2>1. Owing' = Owing \ {t}
    BY <1>2, <1>3, <1>5
  <2>2. Cardinality(Owing') = Cardinality(Owing) - 1
    BY <1>1, <1>5, <2>1, FS_RemoveElement
  <2>3. size' = d + Len(list') - (Cardinality(Owing) - 1)
    <3> DEFINE c == Cardinality(Owing)
               l == Len(list)
               m == Len(list')
               r == size'
    <3>1. c \in Int /\ l \in Int /\ m \in Int /\ r \in Int /\ size \in Int /\ d \in Int
      BY <1>1
    <3>2. size = d + l - c /\ l - size - 1 = m - r
      BY <1>1, <1>5
    <3> HIDE DEF c, l, m, r
    <3>3. r = m - l + size + 1
      BY <3>1, <3>2
    <3>4. r = d + m - (c - 1)
      BY <3>1, <3>2, <3>3
    <3> QED BY <3>4 DEF c, m, r
  <2> QED BY <2>2, <2>3
<1>6. CASE (t \in Owing' <=> t \in Owing) /\ list' = list /\ size' = size
  <2>1. Owing' = Owing
    BY <1>2, <1>3, <1>6
  <2> QED BY <1>1, <1>6, <2>1
<1> QED BY <1>4, <1>5, <1>6, CountStep

-----------------------------------------------------------------------------
(* The invariant *)

\* Start has pushed every index once.
LEMMA InitInv == ASSUME ConstantsOK, Init PROVE IInv
<1> DEFINE N == Cardinality(Indexes)
<1>1. N \in Nat /\ N # 0 /\ N >= 1
  BY ConstantsOK, FS_CardinalityType, FS_EmptySet DEF ConstantsOK
<1>2. PICK order \in [1..N -> Indexes], byOrder \in [1..N -> Nodes] :
        /\ \A i, j \in DOMAIN order : i # j => order[i] # order[j] /\ byOrder[i] # byOrder[j]
        /\ Filled(order, byOrder)
  BY DEF Init
<1> HIDE DEF N
<1>3. /\ order \in Seq(Indexes) /\ byOrder \in Seq(Nodes)
      /\ Len(order) = N /\ Len(byOrder) = N /\ DOMAIN order = 1..N
  BY <1>1, <1>2, IsASeq, LenProperties
<1>4. \A i, j \in 1..N : (order[i] = order[j] => i = j) /\ (byOrder[i] = byOrder[j] => i = j)
  BY <1>2
<1>5. \A x \in Indexes : \E i \in 1..N : order[i] = x
  <2>1. order \in Injection(1..N, Indexes)
    BY <1>2, <1>4 DEF Injection, IsInjective
  <2>2. Cardinality(1..N) = N
    BY <1>1, FS_Interval
  <2>3. order \in Surjection(1..N, Indexes)
    BY <2>1, <2>2, FS_Injection, ConstantsOK DEF ConstantsOK, N
  <2> QED BY <2>3 DEF Surjection
<1>6. /\ top = [node |-> byOrder[N], num |-> N] /\ list = byOrder
      /\ used = {byOrder[i] : i \in 1..N}
      /\ next = [n \in Nodes |-> IF \E i \in 2..N : byOrder[i] = n
                                   THEN byOrder[(CHOOSE i \in 2..N : byOrder[i] = n) - 1]
                                   ELSE NoNode]
      /\ data = [n \in Nodes |-> IF \E i \in 1..N : byOrder[i] = n
                                   THEN order[CHOOSE i \in 1..N : byOrder[i] = n]
                                   ELSE NoIndex]
  BY <1>2, <1>3 DEF Filled
<1>7. /\ uniqueNum = N /\ first \in FirstSizes /\ size = first + N /\ out = {}
      /\ pc = [t \in Threads |-> "idle"] /\ num = [t \in Threads |-> 0]
      /\ old = [t \in Threads |-> NoTop] /\ nxt = [t \in Threads |-> NoNode]
      /\ node = [t \in Threads |-> NoNode] /\ index = [t \in Threads |-> NoIndex]
  BY DEF Init, N
<1>8. ASSUME NEW i \in 1..N PROVE data[byOrder[i]] = order[i] /\ byOrder[i] \in Nodes
  <2>1. (CHOOSE j \in 1..N : byOrder[j] = byOrder[i]) = i
    BY <1>4
  <2> QED BY <1>2, <1>6, <2>1
<1>9. ASSUME NEW i \in 1..N PROVE next[byOrder[i]] = IF i = 1 THEN NoNode ELSE byOrder[i - 1]
  <2>1. CASE i = 1
    <3>1. \A j \in 2..N : byOrder[j] # byOrder[i]
      BY <1>1, <1>4, <2>1
    <3> QED BY <1>6, <1>8, <2>1, <3>1
  <2>2. CASE i # 1
    <3>1. i \in 2..N /\ \A j \in 2..N : j \in 1..N
      BY <1>1, <2>2
    <3>2. (CHOOSE j \in 2..N : byOrder[j] = byOrder[i]) = i
      BY <1>4, <3>1
    <3> QED BY <1>6, <1>8, <2>2, <3>1, <3>2
  <2> QED BY <2>1, <2>2
<1>10. TypeOK
  <2>1. next \in [Nodes -> NodeOrNull]
    <3>1. ASSUME NEW n \in Nodes PROVE next[n] \in NodeOrNull
      <4>1. CASE \E i \in 2..N : byOrder[i] = n
        <5>1. PICK i \in 2..N : byOrder[i] = n
          BY <4>1
        <5>2. i \in 1..N /\ i # 1 /\ i - 1 \in 1..N
          BY <1>1
        <5> QED BY <1>8, <1>9, <5>1, <5>2 DEF NodeOrNull
      <4>2. CASE ~\E i \in 2..N : byOrder[i] = n
        BY <1>6, <4>2 DEF NodeOrNull
      <4> QED BY <4>1, <4>2
    <3> QED BY <1>6, <3>1
  <2>2. data \in [Nodes -> Indexes \cup {NoIndex}]
    <3>1. ASSUME NEW n \in Nodes PROVE data[n] \in Indexes \cup {NoIndex}
      <4>1. CASE \E i \in 1..N : byOrder[i] = n BY <1>2, <1>8, <4>1
      <4>2. CASE ~\E i \in 1..N : byOrder[i] = n BY <1>6, <4>2
      <4> QED BY <4>1, <4>2
    <3> QED BY <1>6, <3>1
  <2>3. N \in 1..N /\ top \in TopNode
    BY <1>1, <1>6, <1>8 DEF TopNode, NodeOrNull
  <2>4. uniqueNum \in Nat /\ size \in Int
    BY <1>1, <1>7, ConstantsOK DEF ConstantsOK
  <2>5. used \subseteq Nodes /\ out \subseteq Indexes /\ list \in Seq(Nodes)
    BY <1>3, <1>6, <1>7, <1>8
  <2>6. NoTop \in TopNode /\ NoNode \in NodeOrNull
    BY DEF NoTop, TopNode, NodeOrNull
  <2> QED BY <1>7, <2>1, <2>2, <2>3, <2>4, <2>5, <2>6 DEF TypeOK
<1>11. NumInv
  BY <1>1, <1>6, <1>7 DEF NumInv, HasNum, HasOld
<1>12. \A t \in Threads : ReadInv(t) /\ HandInv(t) /\ IndexInv(t)
  BY <1>7 DEF ReadInv, HandInv, IndexInv, Pushing, At
<1>13. Linked
  <2>1. list # <<>> /\ Len(list) = N
    BY <1>1, <1>3, <1>6
  <2>2. ASSUME NEW i \in 1..N
        PROVE  byOrder[i] \in used /\ \A t \in Threads : node[t] # byOrder[i]
    BY <1>6, <1>7, <1>8, ConstantsOK DEF ConstantsOK
  <2> QED BY <1>4, <1>6, <1>9, <2>1, <2>2 DEF Linked
<1>14. Placed
  <2>1. Len(list) = N /\ \A i \in 1..N : data[list[i]] = order[i]
    BY <1>3, <1>6, <1>8
  <2>2. \A t \in Threads : ~Holds(t)
    BY <1>7 DEF Holds, At
  <2>3. \A i \in 1..N : order[i] \in Indexes \ out
    BY <1>2, <1>7
  <2>4. \A i \in 1..Len(list) : data[list[i]] \in Indexes \ out
    BY <2>1, <2>3
  <2>5. \A i, j \in 1..Len(list) : data[list[i]] = data[list[j]] => i = j
    BY <1>4, <2>1
  <2>6. \A x \in Indexes : \E i \in 1..Len(list) : data[list[i]] = x
    BY <1>5, <2>1
  <2> QED BY <2>2, <2>4, <2>5, <2>6 DEF Placed
<1>15. Sized
  <2>1. Owing = {}
    BY <1>7 DEF Owing, Promised
  <2>2. Len(list) = N /\ first \in Int /\ Cardinality(Owing) = 0
    BY <1>3, <1>6, <1>7, <2>1, FS_EmptySet, ConstantsOK DEF ConstantsOK
  <2> QED BY <1>1, <1>7, <2>2 DEF Sized
<1> QED BY <1>10, <1>11, <1>12, <1>13, <1>14, <1>15 DEF IInv

LEMMA StepInv ==
  ASSUME ConstantsOK, IInv, NEW t \in Threads, Step(t), first' = first
  PROVE  IInv'
<1>1. TypeOK'
  BY StepType
<1>2. NumInv'
  BY <1>1, StepNum DEF IInv
<1>3. \A u \in Threads : ReadInv(u)'
  BY StepReadOther, StepReadOwn
<1>4. Sized'
  BY <1>1, StepSized
<1> QED
  BY <1>1, <1>2, <1>3, <1>4, StepHand, StepIndex, StepLinked, StepPlaced DEF IInv

LEMMA StutterInv == ASSUME IInv, UNCHANGED vars PROVE IInv'
<1> USE DEF vars, stackVars, thVars
<1>1. TypeOK' /\ NumInv' BY DEF IInv, TypeOK, NumInv, HasNum, HasOld
<1>2. \A t \in Threads : ReadInv(t)' BY DEF IInv, ReadInv, At
<1>3. \A t \in Threads : HandInv(t)' BY DEF IInv, HandInv
<1>4. \A t \in Threads : IndexInv(t)' BY DEF IInv, IndexInv, Pushing
<1>5. Linked' BY DEF IInv, Linked
<1>6. Placed' BY DEF IInv, Placed, Holds, Hand, At
<1>7. Sized' BY DEF IInv, Sized, Owing, Promised
<1> QED BY <1>1, <1>2, <1>3, <1>4, <1>5, <1>6, <1>7 DEF IInv

\* The invariant that the theorems below rest on: it holds when Start has pushed every
\* index, and no step of Push or Pop breaks it.
THEOREM Invariance == Spec => []IInv
<1>1. Init => IInv
  BY ConstantsOK, InitInv
<1>2. IInv /\ [Next]_vars => IInv'
  BY ConstantsOK, StepInv, StutterInv DEF Next, Step
<1> QED BY <1>1, <1>2, PTL DEF Spec

\* The variables of the stack and of the threads in Push and Pop keep their types.
THEOREM TypeCorrect == Spec => []TypeOK
<1>1. IInv => TypeOK
  BY DEF IInv
<1> QED BY <1>1, Invariance, PTL

\* The chain of pNext from the top spells the list, whatever compare-and-swaps of Push and
\* Pop succeed: no node is lost, none is on the chain twice, and none of them is with a thread.
THEOREM LinkedAlways == Spec => []Linked
<1>1. IInv => Linked
  BY DEF IInv
<1> QED BY <1>1, Invariance, PTL

\* The pointers spell the list, and an index is on it, with the server, or with one thread
\* that pushes or pops it, and in one of these places once.
THEOREM OnePlaceAlways == Spec => []OnePlace
<1>1. ASSUME IInv, NEW x \in Indexes
      PROVE  Cardinality({n \in 1..Len(list) : data[list[n]] = x})
             + Cardinality({t \in Threads : index[t] = x \/ (At(t, "data") /\ data[node[t]] = x)})
             + (IF x \in out THEN 1 ELSE 0) = 1
  <2> DEFINE places == {n \in 1..Len(list) : data[list[n]] = x}
             hands  == {t \in Threads : index[t] = x \/ (At(t, "data") /\ data[node[t]] = x)}
  <2>1. x # NoIndex
    BY ConstantsOK DEF ConstantsOK, NoIndex
  <2>2. \A t \in Threads : t \in hands <=> Holds(t) /\ Hand(t) = x
    <3>1. ASSUME NEW t \in Threads, At(t, "data") PROVE index[t] = NoIndex
      BY <1>1, <3>1 DEF IInv, IndexInv, Pushing, At
    <3> QED BY <2>1, <3>1 DEF Holds, Hand
  <2>3. \A n \in 1..Len(list) : n \in places <=> data[list[n]] = x
    OBVIOUS
  <2>4. places \subseteq 1..Len(list) /\ hands \subseteq Threads
    OBVIOUS
  <2> SUFFICES Cardinality(places) + Cardinality(hands) + (IF x \in out THEN 1 ELSE 0) = 1
    OBVIOUS
  <2> HIDE DEF places, hands
  <2>5. CASE x \in out
    <3>1. places = {} /\ hands = {}
      BY <1>1, <2>2, <2>3, <2>4, <2>5 DEF IInv, Placed
    <3> QED BY <2>5, <3>1, FS_EmptySet
  <2>6. CASE x \notin out /\ \E n \in 1..Len(list) : data[list[n]] = x
    <3>1. PICK n \in 1..Len(list) : data[list[n]] = x
      BY <2>6
    <3>2. places = {n}
      <4>1. \A i, j \in 1..Len(list) : data[list[i]] = data[list[j]] => i = j
        BY <1>1 DEF IInv, Placed
      <4>2. \A i \in places : i \in 1..Len(list) /\ data[list[i]] = data[list[n]]
        BY <2>3, <2>4, <3>1
      <4>3. \A i \in places : i = n
        BY <4>1, <4>2
      <4>4. n \in places
        BY <2>3, <3>1
      <4> QED BY <4>3, <4>4
    <3>3. hands = {}
      BY <1>1, <2>2, <2>4, <3>1 DEF IInv, Placed
    <3>4. Cardinality(places) = 1 /\ Cardinality(hands) = 0
      BY <3>2, <3>3, FS_EmptySet, FS_Singleton
    <3> QED BY <2>6, <3>4
  <2>7. CASE x \notin out /\ ~\E n \in 1..Len(list) : data[list[n]] = x
    <3>1. places = {}
      BY <2>3, <2>4, <2>7
    <3>2. PICK t \in Threads : Holds(t) /\ Hand(t) = x
      BY <1>1, <2>7 DEF IInv, Placed
    <3>3. hands = {t}
      BY <1>1, <2>2, <2>4, <3>2 DEF IInv, Placed
    <3>4. Cardinality(places) = 0 /\ Cardinality(hands) = 1
      BY <3>1, <3>3, FS_EmptySet, FS_Singleton
    <3> QED BY <2>7, <3>4
  <2> QED BY <2>5, <2>6, <2>7
<1>2. IInv => OnePlace
  BY <1>1 DEF OnePlace, IInv
<1> QED BY <1>2, Invariance, PTL

\* Whatever the memory of iSize held before the first push, the count stays that far from
\* the length of the list, but for the calls that have changed one and not yet the other.
THEOREM SizeAlways == Spec => []SizeExact
<1>1. IInv => SizeExact
  BY DEF IInv, SizeExact, Sized, Owing
<1> QED BY <1>1, Invariance, PTL

-----------------------------------------------------------------------------
(* Pops of an empty list *)

Takers == {t \in Threads : Promised(t)}

\* A pop that goes on has a node of its own on the list, and has read a top that is not null.
NullInv ==
  first <= 0 =>
    /\ Cardinality(Takers) <= Len(list)
    /\ \A t \in Threads : pc[t] \in {"topnum", "next"} /\ node[t] = NoNode => old[t].node # NoNode

LEMMA TakersFinite ==
  ASSUME ConstantsOK
  PROVE  /\ IsFiniteSet(Takers) /\ Cardinality(Takers) \in Nat
         /\ Cardinality(Takers) <= Cardinality(Owing)
         /\ Takers # {} => Cardinality(Takers) >= 1
<1>1. Takers \subseteq Owing /\ IsFiniteSet(Owing)
  BY OwingFinite DEF Takers, Owing
<1>2. IsFiniteSet(Takers) /\ Cardinality(Takers) \in Nat /\ Cardinality(Takers) <= Cardinality(Owing)
  BY <1>1, FS_Subset, FS_CardinalityType
<1>3. Takers # {} => Cardinality(Takers) # 0
  BY <1>2, FS_EmptySet
<1> QED BY <1>2, <1>3

\* What a step does to the promise of its thread, and to the length of the list.
LEMMA TakeStep ==
  ASSUME ConstantsOK, IInv, NEW t \in Threads, Step(t)
  PROVE  \/ t \notin Takers /\ (t \in Takers)' /\ list' = list /\ size >= 1
         \/ t \in Takers /\ ~(t \in Takers)' /\ Len(list') = Len(list) - 1
         \/ ((t \in Takers)' <=> t \in Takers) /\ (list' = list \/ Len(list') = Len(list) + 1)
<1>0. TypeOK /\ HandInv(t) /\ Len(list) \in Nat
  BY DEF IInv, TypeOK
<1> DEFINE Takes2(s, n) == \/ s \in {"num", "next", "pop"}
                           \/ s \in {"top", "topnum"} /\ n = NoNode
<1>a. (t \in Takers <=> Takes2(pc[t], node[t])) /\ ((t \in Takers)' <=> Takes2(pc'[t], node'[t]))
  BY DEF Takers, Promised
<1> HIDE DEF Takers
<1> USE <1>0, <1>a DEF TypeOK, Goto, Leave, stackVars, HandInv, At
<1>1. CASE PushCall(t) BY <1>1 DEF PushCall
<1>2. CASE TakeNum(t) BY <1>2 DEF TakeNum
<1>3. CASE AllocNode(t)
  <2>1. PICK n \in Nodes \ used : node' = [node EXCEPT ![t] = n]
    BY <1>3 DEF AllocNode
  <2>2. node'[t] # NoNode /\ pc'[t] = "top" /\ pc[t] = "alloc" /\ list' = list
    BY <1>3, <2>1, ConstantsOK DEF ConstantsOK, AllocNode
  <2> QED BY <2>2
<1>4. CASE ReadTop(t) BY <1>4 DEF ReadTop
<1>5. CASE ReadTopNum(t) BY <1>5 DEF ReadTopNum
<1>6. CASE Link(t) BY <1>6 DEF Link
<1>7. CASE PushTop(t)
  <2>1. CASE top = old[t]
    <3>1. Len(list') = Len(list) + 1
      BY <1>7, <2>1, PushChanges DEF PushTop
    <3>2. pc[t] = "push" /\ pc'[t] = "size"
      BY <1>7, <2>1 DEF PushTop
    <3> QED BY <3>1, <3>2
  <2>2. CASE top # old[t] BY <1>7, <2>2 DEF PushTop
  <2> QED BY <2>1, <2>2
<1>8. CASE CountUp(t) BY <1>8 DEF CountUp
<1>9. CASE PopCall(t) BY <1>9 DEF PopCall
<1>10. CASE GiveUp(t) BY <1>10 DEF GiveUp
<1>11. CASE ReadNext(t) BY <1>11 DEF ReadNext
<1>12. CASE PopTop(t)
  <2>1. CASE top = old[t]
    <3>1. Len(list') = Len(list) - 1
      BY <1>12, <2>1, PopChanges DEF PopTop
    <3>2. pc[t] = "pop" /\ pc'[t] = "data"
      BY <1>12, <2>1 DEF PopTop
    <3> QED BY <3>1, <3>2
  <2>2. CASE top # old[t] BY <1>12, <2>2 DEF PopTop
  <2> QED BY <2>1, <2>2
<1>13. CASE ReadData(t) BY <1>13 DEF ReadData
<1> QED
  BY <1>1, <1>2, <1>3, <1>4, <1>5, <1>6, <1>7, <1>8, <1>9, <1>10, <1>11, <1>12, <1>13
  DEF Step, PushStep, PopStep

\* The top is read again before each of these labels.
LEMMA ReadStep ==
  ASSUME ConstantsOK, IInv, NEW t \in Threads, Step(t),
         pc'[t] \in {"topnum", "next"}, node'[t] = NoNode
  PROVE  /\ node[t] = NoNode
         /\ \/ pc[t] = "top" /\ old'[t].node = top.node
            \/ pc[t] = "topnum" /\ old'[t].node = old[t].node
<1>0. TypeOK
  BY DEF IInv
<1> USE <1>0 DEF TypeOK, TopNode, Goto, Leave, stackVars, At
<1>1. CASE PushCall(t) BY <1>1 DEF PushCall
<1>2. CASE TakeNum(t) BY <1>2 DEF TakeNum
<1>3. CASE AllocNode(t) BY <1>3 DEF AllocNode
<1>4. CASE ReadTop(t) BY <1>4 DEF ReadTop
<1>5. CASE ReadTopNum(t) BY <1>5 DEF ReadTopNum
<1>6. CASE Link(t) BY <1>6 DEF Link
<1>7. CASE PushTop(t) BY <1>7 DEF PushTop
<1>8. CASE CountUp(t) BY <1>8 DEF CountUp
<1>9. CASE PopCall(t) BY <1>9 DEF PopCall
<1>10. CASE GiveUp(t) BY <1>10 DEF GiveUp
<1>11. CASE ReadNext(t) BY <1>11 DEF ReadNext
<1>12. CASE PopTop(t) BY <1>12 DEF PopTop
<1>13. CASE ReadData(t) BY <1>13 DEF ReadData
<1> QED
  BY <1>1, <1>2, <1>3, <1>4, <1>5, <1>6, <1>7, <1>8, <1>9, <1>10, <1>11, <1>12, <1>13
  DEF Step, PushStep, PopStep

LEMMA NullStep ==
  ASSUME ConstantsOK, IInv, NullInv, NEW t \in Threads, Step(t), first' = first
  PROVE  NullInv'
<1> SUFFICES ASSUME first <= 0
             PROVE  /\ Cardinality(Takers') <= Len(list')
                    /\ \A u \in Threads : pc'[u] \in {"topnum", "next"} /\ node'[u] = NoNode
                                         => old'[u].node # NoNode
  BY DEF NullInv
<1>1. /\ TypeOK /\ IsFiniteSet(Takers) /\ Cardinality(Takers) \in Nat /\ Len(list) \in Nat
      /\ Cardinality(Takers) <= Len(list)
  BY TakersFinite DEF NullInv, IInv, TypeOK
<1>2. OthersKeep(t)
  BY <1>1, StepFrame
<1>3. Takers \subseteq Threads /\ Takers' \subseteq Threads
      /\ \A u \in Threads : u # t => ((u \in Takers)' <=> u \in Takers)
  BY <1>2 DEF Takers, Promised, OthersKeep
<1>4. Cardinality(Takers') <= Len(list')
  <2>1. CASE t \notin Takers /\ (t \in Takers)' /\ list' = list /\ size >= 1
    <3>1. Takers' = Takers \cup {t}
      BY <1>3, <2>1
    <3>2. Cardinality(Takers') = Cardinality(Takers) + 1
      BY <1>1, <2>1, <3>1, FS_AddElement
    <3>3. Cardinality(Takers) + 1 <= Len(list)
      <4> DEFINE k == Cardinality(Takers)
                 c == Cardinality(Owing)
                 l == Len(list)
      <4>1. k \in Int /\ c \in Int /\ l \in Int /\ first \in Int /\ size \in Int /\ k <= c
        BY <1>1, TakersFinite, OwingFinite, ConstantsOK DEF ConstantsOK, TypeOK
      <4>2. size = first + l - c
        BY DEF IInv, Sized
      <4> HIDE DEF k, c, l
      <4>3. k + 1 <= l
        BY <4>1, <4>2, <2>1
      <4> QED BY <4>3 DEF k, l
    <3> QED BY <2>1, <3>2, <3>3
  <2>2. CASE t \in Takers /\ ~(t \in Takers)' /\ Len(list') = Len(list) - 1
    <3>1. Takers' = Takers \ {t}
      BY <1>3, <2>2
    <3>2. Cardinality(Takers') = Cardinality(Takers) - 1
      BY <1>1, <2>2, <3>1, FS_RemoveElement
    <3> QED BY <1>1, <2>2, <3>2
  <2>3. CASE ((t \in Takers)' <=> t \in Takers) /\ (list' = list \/ Len(list') = Len(list) + 1)
    <3>1. Takers' = Takers
      <4>1. \A u \in Threads : u \in Takers' <=> u \in Takers
        BY <1>3, <2>3
      <4> QED BY <1>3, <4>1
    <3> QED BY <1>1, <2>3, <3>1
  <2> QED BY <2>1, <2>2, <2>3, TakeStep
<1>5. ASSUME NEW u \in Threads, pc'[u] \in {"topnum", "next"}, node'[u] = NoNode
      PROVE  old'[u].node # NoNode
  <2>1. CASE u # t
    BY <1>2, <1>5, <2>1 DEF OthersKeep, NullInv
  <2>2. CASE u = t
    <3>1. CASE pc[t] = "topnum" /\ node[t] = NoNode /\ old'[t].node = old[t].node
      BY <2>2, <3>1 DEF NullInv
    <3>2. CASE pc[t] = "top" /\ node[t] = NoNode /\ old'[t].node = top.node
      <4>1. t \in Takers
        BY <3>2 DEF Takers, Promised
      <4>2. Len(list) >= 1
        BY <1>1, <4>1, TakersFinite
      <4>3. list # <<>> /\ list[Len(list)] \in Nodes
        BY <1>1, <4>2 DEF TypeOK
      <4>4. top.node = list[Len(list)]
        BY <4>3 DEF IInv, Linked
      <4> QED BY <2>2, <3>2, <4>3, <4>4, ConstantsOK DEF ConstantsOK
    <3> QED BY <1>5, <2>2, <3>1, <3>2, ReadStep
  <2> QED BY <2>1, <2>2
<1> QED BY <1>4, <1>5

\* Where the memory of iSize did not hold too much, no pop follows a null top: a pop that
\* the count lets go on finds a node, however many pops and pushes race it.
THEOREM NeverNullAlways == Spec => []NeverNull
<1>1. Init => NullInv
  <2> SUFFICES ASSUME Init PROVE NullInv
    OBVIOUS
  <2>1. Takers = {} /\ \A t \in Threads : pc[t] = "idle"
    BY DEF Init, Takers, Promised
  <2>2. Cardinality(Takers) = 0 /\ Len(list) \in Nat
    BY <2>1, FS_EmptySet, ConstantsOK, InitInv DEF IInv, TypeOK
  <2> QED BY <2>1, <2>2 DEF NullInv
<1>2. IInv /\ NullInv /\ [Next]_vars => NullInv'
  <2>1. IInv /\ NullInv /\ UNCHANGED vars => NullInv'
    BY DEF NullInv, Takers, Promised, vars, stackVars, thVars
  <2> QED BY <2>1, ConstantsOK, NullStep DEF Next, Step
<1>3. IInv /\ NullInv => NeverNull
  <2>1. ASSUME IInv, NEW t \in Threads, pc[t] = "next" PROVE node[t] = NoNode
    BY <2>1 DEF IInv, HandInv
  <2>2. ASSUME IInv, NullInv, first <= 0, NEW t \in Threads, pc[t] = "next"
        PROVE  old[t].node # NoNode
    BY <2>1, <2>2 DEF NullInv
  <2> QED BY <2>2 DEF NeverNull, At
<1> QED BY <1>1, <1>2, <1>3, Invariance, PTL DEF Spec

-----------------------------------------------------------------------------
(* The stack as StackService has it *)

\* An index is away when the server or a thread has it.
AwayFact == Away = out \cup {Hand(t) : t \in {u \in Threads : Holds(u)}}

LEMMA AwayIs == IInv => AwayFact
<1> SUFFICES ASSUME IInv PROVE AwayFact
  OBVIOUS
<1>1. \A t \in Threads : At(t, "data") => index[t] = NoIndex
  BY DEF IInv, IndexInv, Pushing, At
<1> QED BY <1>1 DEF AwayFact, Away, Holds, Hand

LEMMA AwayIsNext == (IInv => AwayFact)'
BY AwayIs, PTL

\* The indexes on the list, top last.
Stacked == [i \in DOMAIN list |-> data[list[i]]]

StackedFact ==
  /\ Stacked \in Seq(Indexes) /\ Len(Stacked) = Len(list)
  /\ \A i \in 1..Len(list) : Stacked[i] = data[list[i]]
  /\ Len(list) \in Nat /\ (Stacked = <<>> <=> Len(list) = 0)

LEMMA StackedSeq == IInv => StackedFact
<1> SUFFICES ASSUME IInv PROVE StackedFact
  OBVIOUS
<1>1. Len(list) \in Nat /\ DOMAIN list = 1..Len(list)
  BY LenProperties DEF IInv, TypeOK
<1>2. \A i \in 1..Len(list) : data[list[i]] \in Indexes
  BY DEF IInv, Placed
<1>3. Stacked \in [1..Len(list) -> Indexes]
  BY <1>1, <1>2 DEF Stacked
<1>4. Stacked \in Seq(Indexes)
  BY <1>1, <1>3
<1>5. Len(Stacked) = Len(list)
  BY <1>1, <1>3, <1>4
<1>6. Stacked = <<>> <=> Len(list) = 0
  BY <1>4, <1>5
<1> QED BY <1>1, <1>4, <1>5, <1>6 DEF Stacked, StackedFact

LEMMA StackedSeqNext == (IInv => StackedFact)'
BY StackedSeq, PTL

LEMMA StepService ==
  ASSUME ConstantsOK, IInv, IInv', NEW t \in Threads, Step(t)
  PROVE  Service!Next \/ UNCHANGED <<Stacked, Away>>
<1> DEFINE n == Len(list)
           others == {u \in Threads : Holds(u) /\ u # t}
<1>0. /\ Stacked \in Seq(Indexes) /\ Len(Stacked) = n /\ n \in Nat
      /\ \A i \in 1..n : Stacked[i] = data[list[i]]
      /\ Stacked = <<>> <=> n = 0
  BY StackedSeq DEF StackedFact
<1>1. /\ Stacked' \in Seq(Indexes) /\ Len(Stacked') = Len(list') /\ Len(list') \in Nat
      /\ \A i \in 1..Len(list') : Stacked'[i] = data'[list'[i]]
  BY StackedSeqNext DEF StackedFact
<1>2. \A u \in Threads : u # t => (Holds(u)' <=> Holds(u)) /\ (Holds(u) => Hand(u)' = Hand(u))
  BY StepOthers
<1>3. \A i \in 1..n : data'[list[i]] = data[list[i]]
  BY DataStep DEF IInv, Linked
<1>4. \A x : x \in Away <=> x \in out \/ (Holds(t) /\ x = Hand(t)) \/ \E u \in others : x = Hand(u)
  BY AwayIs DEF AwayFact
<1>5. \A x : x \in Away' <=> x \in out' \/ (Holds(t)' /\ x = Hand(t)') \/ \E u \in others : x = Hand(u)
  BY <1>2, AwayIsNext DEF AwayFact
<1>6. \A u \in others : Holds(t) => Hand(u) # Hand(t)
  BY DEF IInv, Placed
<1>7. Holds(t) => Hand(t) \notin out /\ Hand(t) \in Indexes
  BY DEF IInv, Placed
<1> HIDE DEF others, n
<1>8. CASE Calls(t) \/ Returns(t) \/ Stays(t)
  <2>1. Away' = Away
    BY <1>4, <1>5, <1>8 DEF Calls, Returns, Stays
  <2>2. Len(list') = n /\ \A i \in 1..n : Stacked'[i] = Stacked[i]
    BY <1>0, <1>1, <1>3, <1>8 DEF Calls, Returns, Stays, n
  <2>3. Stacked' = Stacked
    BY <1>0, <1>1, <2>2, SeqEqual
  <2> QED BY <2>1, <2>3
<1>9. CASE Puts(t)
  <2>1. /\ Holds(t) /\ ~Holds(t)' /\ out' = out /\ Len(list') = n + 1
        /\ data'[list'[n + 1]] = Hand(t) /\ \A i \in 1..n : list'[i] = list[i]
    BY <1>9, DataStep DEF Puts, IInv, n
  <2>2. Away' = Away \ {Hand(t)} /\ Hand(t) \in Away
    BY <1>4, <1>5, <1>6, <1>7, <2>1
  <2>3. /\ Append(Stacked, Hand(t)) \in Seq(Indexes) /\ Len(Append(Stacked, Hand(t))) = n + 1
        /\ \A i \in 1..n : Append(Stacked, Hand(t))[i] = Stacked[i]
        /\ Append(Stacked, Hand(t))[n + 1] = Hand(t)
    BY <1>0, <1>7, <2>1, AppendProperties
  <2>4. \A i \in 1..(n + 1) : Stacked'[i] = Append(Stacked, Hand(t))[i]
    <3>1. \A i \in 1..(n + 1) : i \in 1..n \/ i = n + 1
      BY <1>0
    <3> QED BY <1>0, <1>1, <1>3, <2>1, <2>3, <3>1
  <2>5. Stacked' = Append(Stacked, Hand(t))
    BY <1>1, <2>1, <2>3, <2>4, SeqEqual
  <2>6. PICK x \in Indexes : x = Hand(t)
    BY <1>7, <2>1
  <2>7. Service!Put(x)
    BY <2>2, <2>5, <2>6 DEF Service!Put, Stacked
  <2> QED BY <2>7 DEF Service!Next
<1>10. CASE Takes(t)
  <2>1. /\ ~Holds(t) /\ Holds(t)' /\ out' = out /\ n >= 1 /\ Len(list') = n - 1
        /\ Hand(t)' = data[list[n]] /\ \A i \in 1..(n - 1) : list'[i] = list[i]
    BY <1>10 DEF Takes, n
  <2>2. n \in 1..n /\ Stacked # <<>> /\ Hand(t)' = Stacked[Len(Stacked)]
    BY <1>0, <2>1
  <2>3. Away' = Away \cup {Stacked[Len(Stacked)]}
    BY <1>4, <1>5, <2>1, <2>2
  <2>4. /\ SubSeq(Stacked, 1, n - 1) \in Seq(Indexes) /\ Len(SubSeq(Stacked, 1, n - 1)) = n - 1
        /\ \A i \in 1..(n - 1) : SubSeq(Stacked, 1, n - 1)[i] = Stacked[i]
    BY <1>0, <2>2, Shorter
  <2>5. \A i \in 1..(n - 1) : Stacked'[i] = SubSeq(Stacked, 1, n - 1)[i]
    <3>1. \A i \in 1..(n - 1) : i \in 1..n
      BY <1>0
    <3> QED BY <1>0, <1>1, <1>3, <2>1, <2>4, <3>1
  <2>6. Stacked' = SubSeq(Stacked, 1, Len(Stacked) - 1)
    BY <1>0, <1>1, <2>1, <2>4, <2>5, SeqEqual
  <2>7. Service!Take
    BY <2>2, <2>3, <2>6 DEF Service!Take, Stacked
  <2> QED BY <2>7 DEF Service!Next
<1> QED BY <1>8, <1>9, <1>10, IndexStep

\* CLockFreeStack implements StackService: the compare-and-swap of Pop takes the index that is
\* on top, that of Push puts one there that was out, and no other step changes either.
THEOREM Refinement == Spec => StackSafe
<1>1. IInv /\ IInv' /\ [Next]_vars => [Service!Next]_<<[i \in DOMAIN list |-> data[list[i]]], Away>>
  <2> SUFFICES ASSUME IInv, IInv', [Next]_vars
               PROVE  Service!Next \/ UNCHANGED <<Stacked, Away>>
    BY DEF Stacked
  <2>1. CASE \E t \in Threads : Step(t)
    BY <2>1, ConstantsOK, StepService
  <2>2. CASE UNCHANGED vars
    BY <2>2 DEF vars, stackVars, thVars, Stacked, Away, At
  <2> QED BY <2>1, <2>2 DEF Next, Step
<1> QED BY <1>1, Invariance, PTL DEF Spec, StackSafe, Service!Safe
=============================================================================
