----------------------------- MODULE MemoryPool -----------------------------
(***************************************************************************)
(* CMemoryPool (mylibrary/MemoryPool.h) in its dynamic mode: a lock-free   *)
(* list of free nodes. Alloc decides from two counters, without looking at *)
(* the list, whether to create a node or to pop one; Free pushes. The top  *)
(* of the list is a pointer with a serial number, read in two steps and    *)
(* replaced by one 128-bit compare-and-swap.                               *)
(*                                                                         *)
(* A step is one access to shared memory. A definition marked Mutant       *)
(* stands for a plausible mistake in the one that follows it.              *)
(***************************************************************************)
EXTENDS Integers, Sequences, FiniteSets

CONSTANTS
  Threads,
  Nodes,        \* what new may return
  NoNode,       \* NULL
  MaxNum        \* bound: operations that take a serial number

ASSUME ConstantsOK ==
  /\ IsFiniteSet(Threads)
  /\ NoNode \notin Nodes
  /\ MaxNum \in Nat

VARIABLES
  useCount, allocCount, uniqueNum,      \* m_iUseCount, m_iAllocCount, m_iUniqueNum
  top,                                  \* *m_pFreeTop
  next,                                 \* pNext of every node
  created,                              \* nodes new has returned
  given,                                \* nodes callers hold
  \* per thread: program counter, _iAllocCount, uniqueNum, pOldTop, the value of
  \* pOldTop.pNode->pNext, and the node in hand
  pc, seen, num, old, oldNum, nxt, node,
  list, outs    \* ghosts: the free list, top last; nodes handed out less given back

poolVars == <<useCount, allocCount, uniqueNum, top, next, created, given, list, outs>>
thVars   == <<pc, seen, num, old, oldNum, nxt, node>>
vars     == <<poolVars, thVars>>

NodeOrNull == Nodes \cup {NoNode}

TypeOK ==
  /\ useCount \in Nat /\ allocCount \in Nat /\ uniqueNum \in Nat
  /\ top \in [node : NodeOrNull, num : Nat]
  /\ next \in [Nodes -> NodeOrNull]
  /\ created \subseteq Nodes /\ given \subseteq Nodes
  /\ pc \in [Threads -> {"idle", "inc", "new", "count", "num", "top", "topnum",
                         "next", "pop", "link", "push", "dec"}]
  /\ seen \in [Threads -> Nat] /\ num \in [Threads -> Nat]
  /\ old \in [Threads -> NodeOrNull] /\ oldNum \in [Threads -> Nat]
  /\ nxt \in [Threads -> NodeOrNull] /\ node \in [Threads -> NodeOrNull]
  /\ list \in Seq(Nodes) /\ outs \in Int

\* CMemoryPool(0)
Init ==
  /\ useCount = 0 /\ allocCount = 0 /\ uniqueNum = 0
  /\ top = [node |-> NoNode, num |-> 0]
  /\ next = [n \in Nodes |-> NoNode]
  /\ created = {} /\ given = {} /\ list = <<>> /\ outs = 0
  /\ pc = [t \in Threads |-> "idle"]
  /\ seen = [t \in Threads |-> 0] /\ num = [t \in Threads |-> 0]
  /\ old = [t \in Threads |-> NoNode] /\ oldNum = [t \in Threads |-> 0]
  /\ nxt = [t \in Threads |-> NoNode] /\ node = [t \in Threads |-> NoNode]

At(t, l) == pc[t] = l
Goto(t, l) == pc' = [pc EXCEPT ![t] = l]

\* The locals of the loop go out of scope.
Leave(t, l) ==
  /\ Goto(t, l)
  /\ num' = [num EXCEPT ![t] = 0]
  /\ old' = [old EXCEPT ![t] = NoNode]
  /\ oldNum' = [oldNum EXCEPT ![t] = 0]
  /\ nxt' = [nxt EXCEPT ![t] = NoNode]

-----------------------------------------------------------------------------
(* Alloc *)

\* _iAllocCount = m_iAllocCount
ReadCount(t) ==
  /\ At(t, "idle")
  /\ seen' = [seen EXCEPT ![t] = allocCount]
  /\ Goto(t, "inc")
  /\ UNCHANGED <<poolVars, num, old, oldNum, nxt, node>>

\* Mutant: the decision is off by one.
UseOneMore(t) ==
  /\ At(t, "inc")
  /\ useCount' = useCount + 1
  /\ Goto(t, IF seen[t] < useCount THEN "new" ELSE "num")
  /\ seen' = [seen EXCEPT ![t] = 0]
  /\ UNCHANGED <<allocCount, uniqueNum, top, next, created, given, list, outs,
                 num, old, oldNum, nxt, node>>

\* More nodes in use than there are: make one. Otherwise there is one to pop.
Use(t) ==
  /\ At(t, "inc")
  /\ useCount' = useCount + 1
  /\ Goto(t, IF seen[t] < useCount + 1 THEN "new" ELSE "num")
  /\ seen' = [seen EXCEPT ![t] = 0]
  /\ UNCHANGED <<allocCount, uniqueNum, top, next, created, given, list, outs,
                 num, old, oldNum, nxt, node>>

\* new NODE
New(t) ==
  /\ At(t, "new")
  /\ \E n \in Nodes \ created :
       /\ created' = created \cup {n}
       /\ next' = [next EXCEPT ![n] = NoNode]
       /\ node' = [node EXCEPT ![t] = n]
  /\ outs' = outs + 1
  /\ Goto(t, "count")
  /\ UNCHANGED <<useCount, allocCount, uniqueNum, top, given, list,
                 seen, num, old, oldNum, nxt>>

Count(t) ==
  /\ At(t, "count")
  /\ allocCount' = allocCount + 1
  /\ given' = given \cup {node[t]}
  /\ node' = [node EXCEPT ![t] = NoNode]
  /\ Goto(t, "idle")
  /\ UNCHANGED <<useCount, uniqueNum, top, next, created, list, outs,
                 seen, num, old, oldNum, nxt>>

-----------------------------------------------------------------------------
(* The loop around the compare-and-swap, in Alloc (no node in hand) and in *)
(* Free                                                                    *)

TakeNum(t) ==
  /\ At(t, "num") /\ uniqueNum < MaxNum
  /\ uniqueNum' = uniqueNum + 1
  /\ num' = [num EXCEPT ![t] = uniqueNum + 1]
  /\ Goto(t, "top")
  /\ UNCHANGED <<useCount, allocCount, top, next, created, given, list, outs,
                 seen, old, oldNum, nxt, node>>

ReadTop(t) ==
  /\ At(t, "top")
  /\ old' = [old EXCEPT ![t] = top.node]
  /\ Goto(t, "topnum")
  /\ UNCHANGED <<poolVars, seen, num, oldNum, nxt, node>>

ReadTopNum(t) ==
  /\ At(t, "topnum")
  /\ oldNum' = [oldNum EXCEPT ![t] = top.num]
  /\ Goto(t, IF node[t] = NoNode THEN "next" ELSE "link")
  /\ UNCHANGED <<poolVars, seen, num, old, nxt, node>>

\* pOldTop.pNode->pNext, where pOldTop.pNode may be in use elsewhere by now.
ReadNext(t) ==
  /\ At(t, "next") /\ old[t] # NoNode
  /\ nxt' = [nxt EXCEPT ![t] = next[old[t]]]
  /\ Goto(t, "pop")
  /\ UNCHANGED <<poolVars, seen, num, old, oldNum, node>>

Unchanged(t) == top = [node |-> old[t], num |-> oldNum[t]]

\* Mutant: the pointer is compared, the serial number is not.
PopByPointer(t) ==
  /\ At(t, "pop")
  /\ IF top.node = old[t]
       THEN /\ top' = [node |-> nxt[t], num |-> num[t]]
            /\ given' = given \cup {old[t]} /\ outs' = outs + 1
            /\ list' = SubSeq(list, 1, Len(list) - 1)
            /\ Leave(t, "idle")
       ELSE Goto(t, "top") /\ UNCHANGED <<top, given, list, outs, num, old, oldNum, nxt>>
  /\ UNCHANGED <<useCount, allocCount, uniqueNum, next, created, seen, node>>

\* Mutant: the result of the compare-and-swap is not looked at.
PopOnce(t) ==
  /\ At(t, "pop")
  /\ given' = given \cup {old[t]} /\ outs' = outs + 1
  /\ IF Unchanged(t)
       THEN /\ top' = [node |-> nxt[t], num |-> num[t]]
            /\ list' = SubSeq(list, 1, Len(list) - 1)
       ELSE UNCHANGED <<top, list>>
  /\ Leave(t, "idle")
  /\ UNCHANGED <<useCount, allocCount, uniqueNum, next, created, seen, node>>

\* InterlockedCompareExchange128 of Alloc
Pop(t) ==
  /\ At(t, "pop")
  /\ IF Unchanged(t)
       THEN /\ top' = [node |-> nxt[t], num |-> num[t]]
            /\ given' = given \cup {old[t]} /\ outs' = outs + 1
            /\ list' = SubSeq(list, 1, Len(list) - 1)
            /\ Leave(t, "idle")
       ELSE Goto(t, "top") /\ UNCHANGED <<top, given, list, outs, num, old, oldNum, nxt>>
  /\ UNCHANGED <<useCount, allocCount, uniqueNum, next, created, seen, node>>

-----------------------------------------------------------------------------
(* Free *)

\* A caller gives a node back.
FreeCall(t) ==
  /\ At(t, "idle")
  /\ \E n \in given :
       /\ given' = given \ {n}
       /\ node' = [node EXCEPT ![t] = n]
  /\ Goto(t, "num")
  /\ UNCHANGED <<useCount, allocCount, uniqueNum, top, next, created, list, outs,
                 seen, num, old, oldNum, nxt>>

\* pNewTop.pNode->pNext = pOldTop.pNode
Link(t) ==
  /\ At(t, "link")
  /\ next' = [next EXCEPT ![node[t]] = old[t]]
  /\ Goto(t, "push")
  /\ UNCHANGED <<useCount, allocCount, uniqueNum, top, created, given, list, outs,
                 seen, num, old, oldNum, nxt, node>>

\* InterlockedCompareExchange128 of Free
Push(t) ==
  /\ At(t, "push")
  /\ IF Unchanged(t)
       THEN /\ top' = [node |-> node[t], num |-> num[t]]
            /\ list' = Append(list, node[t]) /\ outs' = outs - 1
            /\ node' = [node EXCEPT ![t] = NoNode]
            /\ Leave(t, "dec")
       ELSE Goto(t, "top") /\ UNCHANGED <<top, list, outs, node, num, old, oldNum, nxt>>
  /\ UNCHANGED <<useCount, allocCount, uniqueNum, next, created, given, seen>>

Unuse(t) ==
  /\ At(t, "dec")
  /\ useCount' = useCount - 1
  /\ Goto(t, "idle")
  /\ UNCHANGED <<allocCount, uniqueNum, top, next, created, given, list, outs,
                 seen, num, old, oldNum, nxt, node>>

-----------------------------------------------------------------------------
AllocStep(t) == ReadCount(t) \/ Use(t) \/ New(t) \/ Count(t) \/ ReadNext(t) \/ Pop(t)
FreeStep(t)  == FreeCall(t) \/ Link(t) \/ Push(t) \/ Unuse(t)
LoopStep(t)  == TakeNum(t) \/ ReadTop(t) \/ ReadTopNum(t)

Next == \E t \in Threads : AllocStep(t) \/ FreeStep(t) \/ LoopStep(t)

Spec == Init /\ [][Next]_vars

-----------------------------------------------------------------------------
(* Properties *)

\* Alloc never follows a null top: the counters promise a free node, and the
\* promise is still good when the list is read.
NeverNull == \A t \in Threads : At(t, "next") => old[t] # NoNode

\* The pointers spell the free list: from the top down, each node once, none of
\* them held by a caller or by a thread.
Linked ==
  /\ top.node = IF list = <<>> THEN NoNode ELSE list[Len(list)]
  /\ \A i \in 1..Len(list) :
       /\ next[list[i]] = IF i = 1 THEN NoNode ELSE list[i - 1]
       /\ list[i] \in created \ given
       /\ \A t \in Threads : node[t] # list[i]
       /\ \A j \in 1..Len(list) : list[i] = list[j] => i = j

\* The nodes that are out: with callers, or with a thread that made or frees one.
Used == given \cup {n \in Nodes : \E t \in Threads : node[t] = n}

\* The two counters Alloc decides by are exact: a node in use, or a thread between
\* its own update of m_iUseCount and its end, is one use; a node that was created
\* and counted is out or free.
CountsExact ==
  /\ useCount = Cardinality(given) + Cardinality({t \in Threads : pc[t] \notin {"idle", "inc"}})
  /\ allocCount = Cardinality(created) - Cardinality({t \in Threads : At(t, "count")})
  /\ created = Used \cup {list[i] : i \in 1..Len(list)}

\* CMemoryPool implements PoolService: no node is handed out twice.
Pool == INSTANCE PoolService WITH used <- Used
PoolSpec == Pool!Spec
=============================================================================
