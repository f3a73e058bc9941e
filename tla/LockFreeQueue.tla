---------------------------- MODULE LockFreeQueue ----------------------------
(***************************************************************************)
(* CLockFreeQueue (mylibrary/LockFreeQueue.h): a linked queue with a dummy *)
(* node at its head. Nodes come from a CMemoryPool and are used again; the *)
(* head and the tail carry a serial number, the links between nodes do     *)
(* not. Any thread may enqueue; one thread dequeues and peeks, as for      *)
(* every queue of the repository.                                          *)
(*                                                                         *)
(* A step is one access to shared memory; the pool of nodes is PoolService *)
(* (see MemoryPool). A definition marked Mutant stands for a plausible     *)
(* mistake in the one that follows it.                                     *)
(***************************************************************************)
EXTENDS Integers, Sequences, FiniteSets

CONSTANTS
  Producers, Consumer,
  Nodes, Dummy,         \* Dummy is the node the constructor makes
  NoNode,               \* NULL
  MaxItems              \* bound: calls of Enqueue

ASSUME QueueAssumption ==
  /\ Consumer \notin Producers
  /\ IsFiniteSet(Nodes)
  /\ Dummy \in Nodes
  /\ NoNode \notin Nodes
  /\ MaxItems \in Nat

VARIABLES
  head, tail, uniqueNum, size,  \* *_pHead, *_pTail, _iUniqueNum, _iSize
  next, data,                   \* pNext and Data of every node
  used,                         \* nodes that _nodePool has given out, and the first dummy
  items,                        \* calls of Enqueue so far: the next item's number
  taken,                        \* ghost: what Dequeue has returned
  \* per thread: program counter, pNewNode, oldHead and oldTail, next, the node whose
  \* link is to be swapped, _iUniqueNum as last read, *pData, steps left of Peek
  pc, node, oldHead, oldTail, nxt, link, seq, item, steps

queueVars == <<head, tail, uniqueNum, size, next, data, used, items, taken>>
thVars    == <<pc, node, oldHead, oldTail, nxt, link, seq, item, steps>>
linkedVars == <<queueVars, thVars>>

Threads    == Producers \cup {Consumer}
NodeOrNull == Nodes \cup {NoNode}
End        == [node : NodeOrNull, num : Nat]
NoEnd      == [node |-> NoNode, num |-> 0]
Items      == 1..MaxItems

LinkedTypeOK ==
  /\ head \in End /\ tail \in End /\ uniqueNum \in Nat /\ size \in Nat \cup {-1}
  /\ next \in [Nodes -> NodeOrNull] /\ data \in [Nodes -> Nat]
  /\ used \subseteq Nodes
  /\ items \in Nat /\ taken \in Seq(Nat)
  /\ pc \in [Threads -> {"idle", "num", "tail", "tailnum", "next", "link", "swap", "seq",
                         "swing", "help", "size", "giveup", "head", "headnum", "same",
                         "relink", "data", "advance", "free", "peek", "walk", "miss"}]
  /\ node \in [Threads -> NodeOrNull] /\ nxt \in [Threads -> NodeOrNull]
  /\ oldHead \in [Threads -> End] /\ oldTail \in [Threads -> End]
  /\ link \in [Threads -> NodeOrNull] /\ seq \in [Threads -> Nat]
  /\ item \in [Threads -> Nat] /\ steps \in [Threads -> Nat]

LinkedInit ==
  /\ head = [node |-> Dummy, num |-> 0] /\ tail = [node |-> Dummy, num |-> 0]
  /\ uniqueNum = 0 /\ size = 0 /\ items = 0 /\ taken = <<>>
  /\ next = [n \in Nodes |-> NoNode] /\ data = [n \in Nodes |-> 0]
  /\ used = {Dummy}
  /\ pc = [t \in Threads |-> "idle"]
  /\ node = [t \in Threads |-> NoNode] /\ nxt = [t \in Threads |-> NoNode]
  /\ oldHead = [t \in Threads |-> NoEnd] /\ oldTail = [t \in Threads |-> NoEnd]
  /\ link = [t \in Threads |-> NoNode] /\ seq = [t \in Threads |-> 0]
  /\ item = [t \in Threads |-> 0] /\ steps = [t \in Threads |-> 0]

At(t, l) == pc[t] = l
Goto(t, l) == pc' = [pc EXCEPT ![t] = l]

\* The locals of the call go out of scope.
Return(t) ==
  /\ Goto(t, "idle")
  /\ node' = [node EXCEPT ![t] = NoNode] /\ nxt' = [nxt EXCEPT ![t] = NoNode]
  /\ oldHead' = [oldHead EXCEPT ![t] = NoEnd] /\ oldTail' = [oldTail EXCEPT ![t] = NoEnd]
  /\ link' = [link EXCEPT ![t] = NoNode] /\ seq' = [seq EXCEPT ![t] = 0]
  /\ item' = [item EXCEPT ![t] = 0] /\ steps' = [steps EXCEPT ![t] = 0]

-----------------------------------------------------------------------------
(* Enqueue, and the steps Dequeue has in common with it *)

\* A node of one's own, with its data and no successor.
Enqueue(t) ==
  /\ At(t, "idle") /\ items < MaxItems
  /\ \E n \in Nodes \ used :
       /\ used' = used \cup {n}
       /\ node' = [node EXCEPT ![t] = n]
       /\ data' = [data EXCEPT ![n] = items + 1]
       /\ next' = [next EXCEPT ![n] = NoNode]
  /\ items' = items + 1
  /\ Goto(t, "num")
  /\ UNCHANGED <<head, tail, uniqueNum, size, taken, nxt, oldHead, oldTail, link, seq, item, steps>>

\* InterlockedIncrement64(&_iUniqueNum)
TakeNum(t) ==
  /\ At(t, "num")
  /\ uniqueNum' = uniqueNum + 1
  /\ Goto(t, IF t = Consumer THEN "head" ELSE "tail")
  /\ UNCHANGED <<head, tail, size, next, data, used, items, taken,
                 node, nxt, oldHead, oldTail, link, seq, item, steps>>

ReadTail(t) ==
  /\ At(t, "tail")
  /\ oldTail' = [oldTail EXCEPT ![t].node = tail.node]
  /\ Goto(t, "tailnum")
  /\ UNCHANGED <<queueVars, node, nxt, oldHead, link, seq, item, steps>>

ReadTailNum(t) ==
  /\ At(t, "tailnum")
  /\ oldTail' = [oldTail EXCEPT ![t].num = tail.num]
  /\ Goto(t, "next")
  /\ UNCHANGED <<queueVars, node, nxt, oldHead, link, seq, item, steps>>

\* next = oldTail.pNode->pNext in Enqueue, oldHead.pNode->pNext in Dequeue
ReadNext(t) ==
  /\ At(t, "next")
  /\ LET n == next[IF t = Consumer THEN oldHead[t].node ELSE oldTail[t].node] IN
       /\ nxt' = [nxt EXCEPT ![t] = n]
       /\ Goto(t, IF t = Consumer THEN "same" ELSE IF n = NoNode THEN "link" ELSE "seq")
  /\ UNCHANGED <<queueVars, node, oldHead, oldTail, link, seq, item, steps>>

\* &_pTail->pNode->pNext: the tail is read again, and may not be the one of oldTail.
ReadLink(t) ==
  /\ At(t, "link")
  /\ link' = [link EXCEPT ![t] = tail.node]
  /\ Goto(t, "swap")
  /\ UNCHANGED <<queueVars, node, nxt, oldHead, oldTail, seq, item, steps>>

\* Mutant: the link is written without a comparison.
SwapAlways(t) ==
  /\ At(t, "swap")
  /\ next' = [next EXCEPT ![link[t]] = node[t]]
  /\ nxt' = [nxt EXCEPT ![t] = node[t]] /\ Goto(t, "seq")
  /\ UNCHANGED <<head, tail, uniqueNum, size, data, used, items, taken,
                 node, oldHead, oldTail, link, seq, item, steps>>

\* InterlockedCompareExchangePointer: link the new node.
Swap(t) ==
  /\ At(t, "swap")
  /\ IF next[link[t]] = NoNode
       THEN /\ next' = [next EXCEPT ![link[t]] = node[t]]
            /\ nxt' = [nxt EXCEPT ![t] = node[t]]
            /\ Goto(t, "seq")
       ELSE Goto(t, "tail") /\ UNCHANGED <<next, nxt>>
  /\ UNCHANGED <<head, tail, uniqueNum, size, data, used, items, taken,
                 node, oldHead, oldTail, link, seq, item, steps>>

\* _iUniqueNum, the third argument of every compare-and-swap of an end
ReadSeq(t) ==
  /\ At(t, "seq")
  /\ seq' = [seq EXCEPT ![t] = uniqueNum]
  /\ Goto(t, IF t = Consumer /\ oldHead[t].node # oldTail[t].node THEN "advance"
             ELSE IF nxt[t] = node[t] THEN "swing" ELSE "help")
  /\ UNCHANGED <<queueVars, node, nxt, oldHead, oldTail, link, item, steps>>

\* The tail is set to the new node unless somebody was faster.
Swing(t) ==
  /\ At(t, "swing")
  /\ tail' = IF tail = oldTail[t] THEN [node |-> node[t], num |-> seq[t]] ELSE tail
  /\ Goto(t, "size")
  /\ UNCHANGED <<head, uniqueNum, size, next, data, used, items, taken,
                 node, nxt, oldHead, oldTail, link, seq, item, steps>>

\* The tail lags behind: move it on and look again.
Help(t) ==
  /\ At(t, "help")
  /\ tail' = IF tail = oldTail[t] THEN [node |-> nxt[t], num |-> seq[t]] ELSE tail
  /\ Goto(t, IF t = Consumer THEN "head" ELSE "tail")
  /\ UNCHANGED <<head, uniqueNum, size, next, data, used, items, taken,
                 node, nxt, oldHead, oldTail, link, seq, item, steps>>

\* InterlockedIncrement(&_iSize)
CountUp(t) ==
  /\ At(t, "size")
  /\ size' = size + 1
  /\ Return(t)
  /\ UNCHANGED <<head, tail, uniqueNum, next, data, used, items, taken>>

-----------------------------------------------------------------------------
(* Dequeue *)

\* InterlockedDecrement(&_iSize): is there an item for this call?
Dequeue(t) ==
  /\ At(t, "idle")
  /\ size' = size - 1
  /\ Goto(t, IF size - 1 < 0 THEN "giveup" ELSE "num")
  /\ UNCHANGED <<head, tail, uniqueNum, next, data, used, items, taken,
                 node, nxt, oldHead, oldTail, link, seq, item, steps>>

\* The queue is empty: return false.
GiveUp(t) ==
  /\ At(t, "giveup")
  /\ size' = size + 1
  /\ Goto(t, "idle")
  /\ UNCHANGED <<head, tail, uniqueNum, next, data, used, items, taken,
                 node, nxt, oldHead, oldTail, link, seq, item, steps>>

ReadHead(t) ==
  /\ At(t, "head")
  /\ oldHead' = [oldHead EXCEPT ![t].node = head.node]
  /\ Goto(t, "headnum")
  /\ UNCHANGED <<queueVars, node, nxt, oldTail, link, seq, item, steps>>

ReadHeadNum(t) ==
  /\ At(t, "headnum")
  /\ oldHead' = [oldHead EXCEPT ![t].num = head.num]
  /\ Goto(t, "tail")
  /\ UNCHANGED <<queueVars, node, nxt, oldTail, link, seq, item, steps>>

\* Mutant: a tail that lags behind is not noticed.
SameTailIgnored(t) ==
  /\ At(t, "same")
  /\ IF nxt[t] = NoNode THEN Return(t)
       ELSE /\ Goto(t, "data") /\ oldTail' = [oldTail EXCEPT ![t] = NoEnd]
            /\ UNCHANGED <<node, nxt, oldHead, link, seq, item, steps>>
  /\ UNCHANGED queueVars

\* The head is still what it was: no node (return false, and _iSize stays one less),
\* a tail that lags behind, or a node to take.
Same(t) ==
  /\ At(t, "same")
  /\ \/ /\ oldHead[t].node = head.node /\ oldHead[t].node = oldTail[t].node /\ nxt[t] = NoNode
        /\ Return(t)
     \/ /\ ~(oldHead[t].node = head.node /\ oldHead[t].node = oldTail[t].node /\ nxt[t] = NoNode)
        /\ Goto(t, IF oldHead[t].node # head.node THEN "head"
                   ELSE IF oldHead[t].node = oldTail[t].node THEN "relink" ELSE "data")
        /\ UNCHANGED <<node, nxt, oldHead, oldTail, link, seq, item, steps>>
  /\ UNCHANGED queueVars

\* oldTail.pNode->pNext, read again for the compare-and-swap
ReLink(t) ==
  /\ At(t, "relink")
  /\ nxt' = [nxt EXCEPT ![t] = next[oldTail[t].node]]
  /\ Goto(t, "seq")
  /\ UNCHANGED <<queueVars, node, oldHead, oldTail, link, seq, item, steps>>

\* *pData = next->Data
ReadData(t) ==
  /\ At(t, "data") /\ nxt[t] # NoNode
  /\ item' = [item EXCEPT ![t] = data[nxt[t]]]
  /\ Goto(t, "seq")
  /\ UNCHANGED <<queueVars, node, nxt, oldHead, oldTail, link, seq, steps>>

Advance(t) ==
  /\ At(t, "advance")
  /\ IF head = oldHead[t]
       THEN /\ head' = [node |-> nxt[t], num |-> seq[t]]
            /\ taken' = Append(taken, item[t])
            /\ Goto(t, "free")
       ELSE Goto(t, "head") /\ UNCHANGED <<head, taken>>
  /\ UNCHANGED <<tail, uniqueNum, size, next, data, used, items,
                 node, nxt, oldHead, oldTail, link, seq, item, steps>>

\* Mutant: the node that holds the data is freed, the old dummy is not.
FreeNext(t) ==
  /\ At(t, "free")
  /\ used' = used \ {nxt[t]}
  /\ Return(t)
  /\ UNCHANGED <<head, tail, uniqueNum, size, next, data, items, taken>>

\* The old dummy goes to the pool; return true.
FreeHead(t) ==
  /\ At(t, "free")
  /\ used' = used \ {oldHead[t].node}
  /\ Return(t)
  /\ UNCHANGED <<head, tail, uniqueNum, size, next, data, items, taken>>

-----------------------------------------------------------------------------
(* Peek *)

\* SendPost peeks at the packets below GetUseSize.
Peek(t) ==
  /\ At(t, "idle")
  /\ \E i \in 0..(size - 1) : steps' = [steps EXCEPT ![t] = i]
  /\ Goto(t, "peek")
  /\ UNCHANGED <<queueVars, node, nxt, oldHead, oldTail, link, seq, item>>

PeekHead(t) ==
  /\ At(t, "peek")
  /\ nxt' = [nxt EXCEPT ![t] = head.node]
  /\ Goto(t, "walk")
  /\ UNCHANGED <<queueVars, node, oldHead, oldTail, link, seq, item, steps>>

\* pNode = pNode->pNext, until iSequence nodes are behind.
Walk(t) ==
  /\ At(t, "walk")
  /\ LET n == next[nxt[t]] IN
     IF n # NoNode /\ steps[t] = 0
       THEN Return(t)
       ELSE /\ nxt' = [nxt EXCEPT ![t] = n]
            /\ steps' = [steps EXCEPT ![t] = IF n = NoNode THEN 0 ELSE @ - 1]
            /\ Goto(t, IF n = NoNode THEN "miss" ELSE "walk")
            /\ UNCHANGED <<node, oldHead, oldTail, link, seq, item>>
  /\ UNCHANGED queueVars

\* return false
Miss(t) == At(t, "miss") /\ Return(t) /\ UNCHANGED queueVars

-----------------------------------------------------------------------------
Loop(t) == TakeNum(t) \/ ReadTail(t) \/ ReadTailNum(t) \/ ReadNext(t) \/ ReadSeq(t) \/ Help(t)

EnqueueStep(t) == Enqueue(t) \/ ReadLink(t) \/ Swap(t) \/ Swing(t) \/ CountUp(t)

DequeueStep(t) == \/ Dequeue(t) \/ GiveUp(t) \/ ReadHead(t) \/ ReadHeadNum(t) \/ Same(t)
                  \/ ReLink(t) \/ ReadData(t) \/ Advance(t) \/ FreeHead(t)

PeekStep(t) == Peek(t) \/ PeekHead(t) \/ Walk(t) \/ Miss(t)

LinkedNext ==
  \/ \E t \in Threads : Loop(t)
  \/ \E t \in Producers : EnqueueStep(t)
  \/ DequeueStep(Consumer) \/ PeekStep(Consumer)

LinkedSpec == LinkedInit /\ [][LinkedNext]_linkedVars

-----------------------------------------------------------------------------
(* Properties *)

\* The nodes from n on, n first; a chain longer than Nodes is a cycle.
Chain(n) ==
  LET at[k \in 0..Cardinality(Nodes)] ==
        IF k = 0 THEN n
        ELSE LET m == at[k - 1] IN IF m = NoNode THEN NoNode ELSE next[m]
  IN  [i \in 1..Cardinality({k \in DOMAIN at : at[k] # NoNode}) |-> at[i - 1]]

OnChain(n) == LET c == Chain(n) IN {c[i] : i \in DOMAIN c}

\* The thread has a node that it has not linked yet.
Late(t) ==
  \/ pc[t] \in {"num", "tail", "tailnum", "next", "link", "swap", "help"}
  \/ At(t, "seq") /\ nxt[t] # node[t]

\* The node of a late producer, and what other late producers linked to it.
Private(t) == IF Late(t) THEN OnChain(node[t]) ELSE {}

Free == Nodes \ used

\* The chain from the head ends, goes through the tail, and has none of the nodes
\* that are in the pool or that a producer has yet to link. Four producers can break
\* it (see the README); two within the bounds cannot.
Whole ==
  /\ Len(Chain(head.node)) <= Cardinality(Nodes)
  /\ tail.node \in OnChain(head.node)
  /\ OnChain(head.node) \cap Free = {}
  /\ \A t \in Producers : Private(t) \cap (OnChain(head.node) \cup Free) = {}

\* Everything enqueued is in one place: taken, behind the dummy, or with a producer.
EachOnce ==
  /\ \A i, j \in DOMAIN taken : taken[i] = taken[j] => i = j
  /\ LET waiting == OnChain(head.node) \ {head.node}
         held    == UNION {Private(t) : t \in Producers}
     IN  \A x \in 1..items :
           \/ (\E i \in DOMAIN taken : taken[i] = x) /\ \A n \in waiting \cup held : data[n] # x
           \/ Cardinality({n \in waiting \cup held : data[n] = x}) = 1

\* However many producers there are, the items behind the dummy keep their order
\* and the oldest is taken. A producer whose compare-and-swap meets a node used
\* again links its item behind another's that is not in the queue yet: both arrive
\* at once.
Contents == LET c == Chain(head.node) IN [i \in 1..(Len(c) - 1) |-> data[c[i + 1]]]

Service == INSTANCE QueueService WITH queue <- Contents
QueueSpec == Service!Spec
=============================================================================
