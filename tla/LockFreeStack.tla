---------------------------- MODULE LockFreeStack ----------------------------
(***************************************************************************)
(* CLockFreeStack (mylibrary/LockFreeStack.h) as the servers use it: a     *)
(* stack of the free indexes of a session array. Start pushes every index; *)
(* afterwards a thread that was given one pushes it back. A count that is  *)
(* kept apart from the list decides whether there is something to pop.     *)
(*                                                                         *)
(* A step is one access to shared memory; the pool of nodes is PoolService *)
(* (see MemoryPool). A definition marked Mutant stands for a plausible     *)
(* mistake in the one that follows it.                                     *)
(***************************************************************************)
EXTENDS Integers, Sequences, FiniteSets

CONSTANTS
  Threads,
  Indexes,
  Nodes, NoNode,        \* NoNode is NULL
  FirstSizes,           \* what the memory of iSize may hold: no constructor sets it
  MaxNum                \* bound: serial numbers

ASSUME ConstantsOK ==
  /\ IsFiniteSet(Threads) /\ IsFiniteSet(Indexes) /\ Indexes # {} /\ Indexes \subseteq Nat
  /\ NoNode \notin Nodes
  /\ FirstSizes \subseteq Int
  /\ MaxNum \in Nat

VARIABLES
  top, uniqueNum, size,         \* *_pTop, _uniqueNum, iSize
  next, data,                   \* pNext and Data of every node
  used,                         \* nodes that nodePool has given out
  out,                          \* indexes given to the server and not pushed since
  list,                         \* ghost: the nodes of the stack, top last
  first,                        \* ghost: iSize before the first push
  \* per thread: program counter, uniqueNum, pOldTop, pOldTop.pNode->pNext, the node
  \* being pushed or popped, the index being pushed
  pc, num, old, nxt, node, index

stackVars == <<top, uniqueNum, size, next, data, used, out, list>>
thVars    == <<pc, num, old, nxt, node, index>>
vars      == <<stackVars, thVars, first>>

NodeOrNull == Nodes \cup {NoNode}
TopNode    == [node : NodeOrNull, num : Nat]
NoTop      == [node |-> NoNode, num |-> 0]
NoIndex    == -1

TypeOK ==
  /\ top \in TopNode /\ uniqueNum \in Nat /\ size \in Int
  /\ next \in [Nodes -> NodeOrNull] /\ data \in [Nodes -> Indexes \cup {NoIndex}]
  /\ used \subseteq Nodes /\ out \subseteq Indexes /\ list \in Seq(Nodes)
  /\ first \in FirstSizes
  /\ pc \in [Threads -> {"idle", "pnum", "alloc", "num", "top", "topnum", "link", "push", "size",
                         "next", "pop", "data", "giveup"}]
  /\ num \in [Threads -> Nat] /\ old \in [Threads -> TopNode]
  /\ nxt \in [Threads -> NodeOrNull] /\ node \in [Threads -> NodeOrNull]
  /\ index \in [Threads -> Indexes \cup {NoIndex}]

\* The array of pointers from the bottom up, for the order in which Start pushed.
Filled(order, byOrder) ==
  /\ top = [node |-> byOrder[Len(order)], num |-> Len(order)]
  /\ next = [n \in Nodes |-> IF \E i \in 2..Len(order) : byOrder[i] = n
                               THEN byOrder[(CHOOSE i \in 2..Len(order) : byOrder[i] = n) - 1]
                               ELSE NoNode]
  /\ data = [n \in Nodes |-> IF \E i \in DOMAIN order : byOrder[i] = n
                               THEN order[CHOOSE i \in DOMAIN order : byOrder[i] = n]
                               ELSE NoIndex]
  /\ used = {byOrder[i] : i \in DOMAIN order}
  /\ list = byOrder

\* Init_Session has pushed every index, alone; the constructor leaves iSize as the
\* memory of the object was.
Init ==
  /\ \E order \in [1..Cardinality(Indexes) -> Indexes], byOrder \in [1..Cardinality(Indexes) -> Nodes] :
       /\ \A i, j \in DOMAIN order : i # j => order[i] # order[j] /\ byOrder[i] # byOrder[j]
       /\ Filled(order, byOrder)
  /\ uniqueNum = Cardinality(Indexes)
  /\ first \in FirstSizes /\ size = first + Cardinality(Indexes)
  /\ out = {}
  /\ pc = [t \in Threads |-> "idle"] /\ num = [t \in Threads |-> 0]
  /\ old = [t \in Threads |-> NoTop] /\ nxt = [t \in Threads |-> NoNode]
  /\ node = [t \in Threads |-> NoNode] /\ index = [t \in Threads |-> NoIndex]

At(t, l) == pc[t] = l
Goto(t, l) == pc' = [pc EXCEPT ![t] = l]

\* The locals of the loop go out of scope.
Leave(t, l) ==
  /\ Goto(t, l)
  /\ num' = [num EXCEPT ![t] = 0] /\ old' = [old EXCEPT ![t] = NoTop]
  /\ nxt' = [nxt EXCEPT ![t] = NoNode]

-----------------------------------------------------------------------------
(* Push *)

PushCall(t) ==
  /\ At(t, "idle")
  /\ \E i \in out : out' = out \ {i} /\ index' = [index EXCEPT ![t] = i]
  /\ Goto(t, "pnum")
  /\ UNCHANGED <<top, uniqueNum, size, next, data, used, list, num, old, nxt, node>>

\* Mutant: every write of the top has the same number.
NumForgotten(t) ==
  /\ pc[t] \in {"pnum", "num"} /\ uniqueNum < MaxNum
  /\ uniqueNum' = uniqueNum + 1
  /\ Goto(t, IF At(t, "pnum") THEN "alloc" ELSE "top")
  /\ UNCHANGED <<top, size, next, data, used, out, list, num, old, nxt, node, index>>

\* InterlockedIncrement64(&_uniqueNum), first in Push and after the count in Pop
TakeNum(t) ==
  /\ pc[t] \in {"pnum", "num"} /\ uniqueNum < MaxNum
  /\ uniqueNum' = uniqueNum + 1
  /\ num' = [num EXCEPT ![t] = uniqueNum + 1]
  /\ Goto(t, IF At(t, "pnum") THEN "alloc" ELSE "top")
  /\ UNCHANGED <<top, size, next, data, used, out, list, old, nxt, node, index>>

\* nodePool.Alloc() and Data
AllocNode(t) ==
  /\ At(t, "alloc")
  /\ \E n \in Nodes \ used :
       /\ used' = used \cup {n}
       /\ data' = [data EXCEPT ![n] = index[t]]
       /\ node' = [node EXCEPT ![t] = n]
  /\ Goto(t, "top")
  /\ UNCHANGED <<top, uniqueNum, size, next, out, list, num, old, nxt, index>>

\* The loop, in Push (with a node in hand) and in Pop
ReadTop(t) ==
  /\ At(t, "top")
  /\ old' = [old EXCEPT ![t].node = top.node]
  /\ Goto(t, "topnum")
  /\ UNCHANGED <<stackVars, num, nxt, node, index>>

ReadTopNum(t) ==
  /\ At(t, "topnum")
  /\ old' = [old EXCEPT ![t].num = top.num]
  /\ Goto(t, IF node[t] = NoNode THEN "next" ELSE "link")
  /\ UNCHANGED <<stackVars, num, nxt, node, index>>

Link(t) ==
  /\ At(t, "link")
  /\ next' = [next EXCEPT ![node[t]] = old[t].node]
  /\ Goto(t, "push")
  /\ UNCHANGED <<top, uniqueNum, size, data, used, out, list, num, old, nxt, node, index>>

\* InterlockedCompareExchange128 of Push
PushTop(t) ==
  /\ At(t, "push")
  /\ IF top = old[t]
       THEN /\ top' = [node |-> node[t], num |-> num[t]] /\ list' = Append(list, node[t])
            /\ node' = [node EXCEPT ![t] = NoNode] /\ index' = [index EXCEPT ![t] = NoIndex]
            /\ Leave(t, "size")
       ELSE Goto(t, "top") /\ UNCHANGED <<top, list, node, index, num, old, nxt>>
  /\ UNCHANGED <<uniqueNum, size, next, data, used, out>>

CountUp(t) ==
  /\ At(t, "size")
  /\ size' = size + 1
  /\ Goto(t, "idle")
  /\ UNCHANGED <<top, uniqueNum, next, data, used, out, list, num, old, nxt, node, index>>

-----------------------------------------------------------------------------
(* Pop *)

\* Mutant: a pop is promised a node the list may not have.
PopCallOffByOne(t) ==
  /\ At(t, "idle")
  /\ size' = size - 1
  /\ Goto(t, IF size < 0 THEN "giveup" ELSE "num")
  /\ UNCHANGED <<top, uniqueNum, next, data, used, out, list, num, old, nxt, node, index>>

PopCall(t) ==
  /\ At(t, "idle")
  /\ size' = size - 1
  /\ Goto(t, IF size - 1 < 0 THEN "giveup" ELSE "num")
  /\ UNCHANGED <<top, uniqueNum, next, data, used, out, list, num, old, nxt, node, index>>

\* Mutant: the count stays down.
GiveUpShort(t) ==
  /\ At(t, "giveup")
  /\ Goto(t, "idle")
  /\ UNCHANGED <<stackVars, num, old, nxt, node, index>>

\* return FALSE: the acceptor closes the connection, "Session Array is full".
GiveUp(t) ==
  /\ At(t, "giveup")
  /\ size' = size + 1
  /\ Goto(t, "idle")
  /\ UNCHANGED <<top, uniqueNum, next, data, used, out, list, num, old, nxt, node, index>>

\* pOldTop.pNode->pNext, where the node may be used again by now. With the null top of
\* an empty list the process ends here: the thread goes no further.
ReadNext(t) ==
  /\ At(t, "next") /\ old[t].node # NoNode
  /\ nxt' = [nxt EXCEPT ![t] = next[old[t].node]]
  /\ Goto(t, "pop")
  /\ UNCHANGED <<stackVars, num, old, node, index>>

\* Mutant: the serial number is not compared.
PopByPointer(t) ==
  /\ At(t, "pop")
  /\ IF top.node = old[t].node
       THEN /\ top' = [node |-> nxt[t], num |-> num[t]] /\ list' = SubSeq(list, 1, Len(list) - 1)
            /\ node' = [node EXCEPT ![t] = old[t].node]
            /\ Leave(t, "data")
       ELSE Goto(t, "top") /\ UNCHANGED <<top, list, node, num, old, nxt>>
  /\ UNCHANGED <<uniqueNum, size, next, data, used, out, index>>

\* InterlockedCompareExchange128 of Pop
PopTop(t) ==
  /\ At(t, "pop")
  /\ IF top = old[t]
       THEN /\ top' = [node |-> nxt[t], num |-> num[t]] /\ list' = SubSeq(list, 1, Len(list) - 1)
            /\ node' = [node EXCEPT ![t] = old[t].node]
            /\ Leave(t, "data")
       ELSE Goto(t, "top") /\ UNCHANGED <<top, list, node, num, old, nxt>>
  /\ UNCHANGED <<uniqueNum, size, next, data, used, out, index>>

\* *_pData = pReturnNode->Data, and the node goes to the pool.
ReadData(t) ==
  /\ At(t, "data")
  /\ out' = out \cup {data[node[t]]}
  /\ used' = used \ {node[t]}
  /\ node' = [node EXCEPT ![t] = NoNode]
  /\ Goto(t, "idle")
  /\ UNCHANGED <<top, uniqueNum, size, next, data, list, num, old, nxt, index>>

-----------------------------------------------------------------------------
PushStep(t) == PushCall(t) \/ AllocNode(t) \/ Link(t) \/ PushTop(t) \/ CountUp(t)
PopStep(t)  == PopCall(t) \/ GiveUp(t) \/ ReadNext(t) \/ PopTop(t) \/ ReadData(t)

Next ==
  /\ \E t \in Threads : PushStep(t) \/ PopStep(t) \/ TakeNum(t) \/ ReadTop(t) \/ ReadTopNum(t)
  /\ UNCHANGED first

Spec == Init /\ [][Next]_vars

-----------------------------------------------------------------------------
(* Properties *)

\* The chain of pNext spells the list, of nodes the pool has given out and no thread has in hand.
Linked ==
  /\ top.node = IF list = <<>> THEN NoNode ELSE list[Len(list)]
  /\ \A i \in 1..Len(list) :
       /\ next[list[i]] = IF i = 1 THEN NoNode ELSE list[i - 1]
       /\ list[i] \in used
       /\ \A t \in Threads : node[t] # list[i]
       /\ \A j \in 1..Len(list) : list[i] = list[j] => i = j

\* The list is what the pointers spell, and an index is in one place: on it, with the
\* server, or with one thread that pushes or pops it. An index in two places would be two
\* sessions in one slot.
OnePlace ==
  /\ Linked
  /\ \A i \in Indexes :
       LET places == {n \in 1..Len(list) : data[list[n]] = i}
           hands  == {t \in Threads : index[t] = i \/ (At(t, "data") /\ data[node[t]] = i)}
       IN  Cardinality(places) + Cardinality(hands) + (IF i \in out THEN 1 ELSE 0) = 1

\* Threads that a pop has been promised to.
Promised(t) == \/ pc[t] \in {"num", "next", "pop"}
               \/ pc[t] \in {"top", "topnum"} /\ node[t] = NoNode

\* Whatever iSize was before the first push, it stays that far from the length of the
\* list: Push and Pop of racing threads count each node once, less what pops have been
\* promised, what pushes have not counted yet, and what failed pops have not given back.
SizeExact ==
  size = first + Len(list)
           - Cardinality({t \in Threads : Promised(t) \/ pc[t] \in {"giveup", "size"}})

\* The count promises no pop a node that is not there, where it did not start too high.
NeverNull ==
  first <= 0 => \A t \in Threads : At(t, "next") => old[t].node # NoNode

\* Indexes that are out as StackService has it: with the server, on the way to it, or on the
\* way back.
Away ==
  out \cup {index[t] : t \in {u \in Threads : index[u] # NoIndex}}
      \cup {data[node[t]] : t \in {u \in Threads : At(u, "data")}}

\* CLockFreeStack implements StackService: the compare-and-swap of Pop takes the index on top,
\* and that of Push puts an index there that was out.
Service == INSTANCE StackService WITH stack <- [i \in DOMAIN list |-> data[list[i]]], out <- Away
StackSafe == Service!Safe
=============================================================================
