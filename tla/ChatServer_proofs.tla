-------------------------- MODULE ChatServer_proofs --------------------------
(***************************************************************************)
(* Proofs about ChatServer, for any clients, map, packets and inbox: the   *)
(* players are those who are in, no packet is handled before its JOIN or   *)
(* after its LEAVE, the sectors list each player once and where it stands, *)
(* and a chat message reaches exactly the neighbours.                      *)
(*                                                                         *)
(* PlayersExact is not inductive: it needs the order of the inbox (Queued).*)
(* SectorExact counts places in a list, so its inductive form (Listing)    *)
(* says that no list names an id twice and who is listed where.            *)
(*                                                                         *)
(* The second half is about LockFreeQueue, which carries the inbox, for    *)
(* any number of threads, nodes and items: while the calls of Enqueue come *)
(* one after another, beside the thread that dequeues, no node is in two   *)
(* places, no item is lost or there twice, and the queue implements        *)
(* QueueService.                                                           *)
(***************************************************************************)
EXTENDS ChatServer, LockFreeQueue, FiniteSetTheorems, SequenceTheorems, WellFoundedInduction, TLAPS

\* A message of a kind and an id is in q: Has(inbox, type, c) is Waiting(type, c).
Has(q, type, c) == \E i \in DOMAIN q : q[i].type = type /\ q[i].id = c

\* Of the messages of an id, a JOIN comes first and a LEAVE last; only ids that have
\* joined have any, and one that has left has a LEAVE behind whatever still waits.
Queued ==
  /\ \A i, j \in DOMAIN inbox :
       i < j /\ inbox[i].id = inbox[j].id => inbox[i].type # "LEAVE" /\ inbox[j].type # "JOIN"
  /\ \A i \in DOMAIN inbox :
       /\ inbox[i].id \in joined
       /\ inbox[i].id \in left <=> Has(inbox, "LEAVE", inbox[i].id)

NoTwice(q) == \A i, j \in DOMAIN q : q[i] = q[j] => i = j
In(c, q)   == \E i \in DOMAIN q : q[i] = c

Listing ==
  \A s \in Sectors :
    /\ NoTwice(sector[s])
    /\ \A c \in Clients : In(c, sector[s]) <=> player[c] # NoObj /\ pos[player[c]] = s

IInv == TypeOK /\ Queued /\ PlayersExact /\ Listing

-----------------------------------------------------------------------------
(* Lists of ids *)

\* Without takes one id out of a list that names it once, and nothing else.
LEMMA WithoutOne ==
  ASSUME NEW q \in Seq(Clients), NoTwice(q), NEW c, In(c, q)
  PROVE  /\ Without(q, c) \in Seq(Clients) /\ NoTwice(Without(q, c))
         /\ \A d : In(d, Without(q, c)) <=> In(d, q) /\ d # c
<1> DEFINE k == CHOOSE i \in DOMAIN q : q[i] = c
           w == Without(q, c)
           front == SubSeq(q, 1, k - 1)
           back == SubSeq(q, k + 1, Len(q))
<1>1. k \in DOMAIN q /\ q[k] = c
  BY DEF In
<1>2. DOMAIN q = 1..Len(q) /\ Len(q) \in Nat /\ \A i \in 1..Len(q) : q[i] \in Clients
  BY LenProperties, ElementOfSeq
<1> HIDE DEF k
<1>3. w = front \o back
  BY DEF Without, k
<1>4. front \in Seq(Clients) /\ Len(front) = k - 1 /\ \A i \in 1..k - 1 : front[i] = q[i]
  <2>1. 1 \in Int /\ k - 1 \in Int /\ \A i \in 1..k - 1 : q[i] \in Clients
    BY <1>1, <1>2
  <2> QED BY <1>1, <1>2, <2>1, SubSeqProperties
<1>5. back \in Seq(Clients) /\ Len(back) = Len(q) - k /\ \A i \in 1..Len(q) - k : back[i] = q[k + i]
  <2>1. k + 1 \in Int /\ Len(q) \in Int /\ \A i \in k + 1..Len(q) : q[i] \in Clients
    BY <1>1, <1>2
  <2>2. /\ back \in Seq(Clients) /\ Len(back) = IF k + 1 <= Len(q) THEN Len(q) - (k + 1) + 1 ELSE 0
        /\ \A i \in 1..Len(q) - (k + 1) + 1 : back[i] = q[(k + 1) + i - 1]
    BY <2>1, SubSeqProperties
  <2>3. Len(back) = Len(q) - k
    BY <1>1, <1>2, <2>2
  <2>4. ASSUME NEW i \in 1..Len(q) - k PROVE back[i] = q[k + i]
    <3>1. i \in 1..Len(q) - (k + 1) + 1 /\ (k + 1) + i - 1 = k + i
      BY <1>1, <1>2
    <3> QED BY <2>2, <3>1
  <2> QED BY <2>2, <2>3, <2>4
<1> HIDE DEF front, back, w
<1>6. /\ w \in Seq(Clients) /\ Len(w) = Len(q) - 1 /\ DOMAIN w = 1..Len(q) - 1
      /\ \A i \in 1..Len(q) - 1 : w[i] = IF i < k THEN q[i] ELSE q[i + 1]
  <2>1. /\ w \in Seq(Clients) /\ Len(w) = Len(front) + Len(back)
        /\ \A i \in 1..Len(front) + Len(back) : w[i] = IF i <= Len(front) THEN front[i] ELSE back[i - Len(front)]
    BY <1>3, <1>4, <1>5, ConcatProperties
  <2>2. Len(w) = Len(q) - 1
    BY <1>1, <1>2, <1>4, <1>5, <2>1
  <2>3. DOMAIN w = 1..Len(q) - 1
    BY <2>1, <2>2, LenProperties
  <2>4. ASSUME NEW i \in 1..Len(q) - 1 PROVE w[i] = IF i < k THEN q[i] ELSE q[i + 1]
    <3>1. CASE i < k
      BY <1>1, <1>2, <1>4, <1>5, <2>1, <3>1
    <3>2. CASE ~(i < k)
      <4>1. i - Len(front) \in 1..Len(q) - k /\ k + (i - Len(front)) = i + 1 /\ ~(i <= Len(front))
        BY <1>1, <1>2, <1>4, <3>2
      <4>2. w[i] = back[i - Len(front)]
        <5>1. Len(front) + Len(back) = Len(q) - 1
          BY <1>1, <1>2, <1>4, <1>5
        <5> QED BY <2>1, <4>1, <5>1
      <4> QED BY <1>5, <3>2, <4>1, <4>2
    <3> QED BY <3>1, <3>2
  <2> QED BY <2>1, <2>2, <2>3, <2>4
<1>7. NoTwice(w)
  <2> SUFFICES ASSUME NEW i \in 1..Len(q) - 1, NEW j \in 1..Len(q) - 1, w[i] = w[j] PROVE i = j
    BY <1>6 DEF NoTwice
  <2> DEFINE Was(n) == IF n < k THEN n ELSE n + 1
  <2>1. Was(i) \in DOMAIN q /\ Was(j) \in DOMAIN q
    BY <1>1, <1>2
  <2>2. q[Was(i)] = q[Was(j)]
    BY <1>6
  <2>3. Was(i) = Was(j)
    BY <2>1, <2>2 DEF NoTwice
  <2> QED BY <1>1, <1>2, <2>3
<1>8. ASSUME NEW d PROVE In(d, w) <=> In(d, q) /\ d # c
  <2>1. ASSUME In(d, w) PROVE In(d, q) /\ d # c
    <3>1. PICK i \in 1..Len(q) - 1 : w[i] = d
      BY <1>6, <2>1 DEF In
    <3>2. CASE i < k
      <4>1. i \in DOMAIN q /\ q[i] = d /\ i # k
        BY <1>1, <1>2, <1>6, <3>1, <3>2
      <4> QED BY <1>1, <4>1 DEF In, NoTwice
    <3>3. CASE ~(i < k)
      <4>1. i + 1 \in DOMAIN q /\ q[i + 1] = d /\ i + 1 # k
        BY <1>1, <1>2, <1>6, <3>1, <3>3
      <4> QED BY <1>1, <4>1 DEF In, NoTwice
    <3> QED BY <3>2, <3>3
  <2>2. ASSUME In(d, q), d # c PROVE In(d, w)
    <3>1. PICK j \in 1..Len(q) : q[j] = d
      BY <1>2, <2>2 DEF In
    <3>2. CASE j < k
      <4>1. j \in DOMAIN w /\ w[j] = d
        BY <1>1, <1>2, <1>6, <3>1, <3>2
      <4> QED BY <4>1 DEF In
    <3>3. CASE j > k
      <4>1. j - 1 \in DOMAIN w /\ w[j - 1] = d
        BY <1>1, <1>2, <1>6, <3>1, <3>3
      <4> QED BY <4>1 DEF In
    <3>4. j # k
      BY <1>1, <2>2, <3>1
    <3> QED BY <1>1, <1>2, <3>2, <3>3, <3>4
  <2> QED BY <2>1, <2>2
<1> QED BY <1>6, <1>7, <1>8 DEF w

LEMMA AppendOne ==
  ASSUME NEW q \in Seq(Clients), NoTwice(q), NEW c \in Clients, ~In(c, q)
  PROVE  /\ Append(q, c) \in Seq(Clients) /\ NoTwice(Append(q, c))
         /\ \A d : In(d, Append(q, c)) <=> In(d, q) \/ d = c
<1> DEFINE w == Append(q, c)
<1>1. /\ w \in Seq(Clients) /\ Len(q) \in Nat /\ DOMAIN q = 1..Len(q) /\ DOMAIN w = 1..Len(q) + 1
      /\ \A i \in 1..Len(q) : w[i] = q[i]
      /\ w[Len(q) + 1] = c
  BY AppendProperties, LenProperties
<1> HIDE DEF w
<1>2. \A i \in 1..Len(q) : q[i] # c
  BY <1>1 DEF In
<1>3. NoTwice(w)
  <2> SUFFICES ASSUME NEW i \in 1..Len(q) + 1, NEW j \in 1..Len(q) + 1, w[i] = w[j] PROVE i = j
    BY <1>1 DEF NoTwice
  <2>1. CASE i \in 1..Len(q) /\ j \in 1..Len(q)
    BY <1>1, <2>1 DEF NoTwice
  <2>2. CASE i = Len(q) + 1 \/ j = Len(q) + 1
    BY <1>1, <1>2, <2>2
  <2> QED BY <1>1, <2>1, <2>2
<1>4. ASSUME NEW d PROVE In(d, w) <=> In(d, q) \/ d = c
  <2>1. In(d, w) => In(d, q) \/ d = c
    <3> SUFFICES ASSUME NEW i \in 1..Len(q) + 1, w[i] = d PROVE In(d, q) \/ d = c
      BY <1>1 DEF In
    <3>1. i \in 1..Len(q) \/ i = Len(q) + 1
      BY <1>1
    <3> QED BY <1>1, <3>1 DEF In
  <2>2. In(d, q) => In(d, w)
    <3> SUFFICES ASSUME NEW i \in 1..Len(q), q[i] = d PROVE In(d, w)
      BY <1>1 DEF In
    <3>1. i \in DOMAIN w /\ w[i] = d
      BY <1>1
    <3> QED BY <3>1 DEF In
  <2>3. d = c => In(d, w)
    <3>1. Len(q) + 1 \in DOMAIN w
      BY <1>1
    <3> QED BY <1>1, <3>1 DEF In
  <2> QED BY <2>1, <2>2, <2>3
<1> QED BY <1>1, <1>3, <1>4 DEF w

-----------------------------------------------------------------------------
(* The inbox *)

LEMMA InboxIs ==
  ASSUME TypeOK
  PROVE  /\ Len(inbox) \in Nat /\ DOMAIN inbox = 1..Len(inbox)
         /\ \A i \in 1..Len(inbox) : inbox[i] \in Messages /\ inbox[i].id \in Clients
<1>1. inbox \in Seq(Messages)
  BY DEF TypeOK
<1>2. \A m \in Messages : m.id \in Clients
  BY DEF Messages
<1> QED BY <1>1, <1>2, LenProperties, ElementOfSeq

\* What a network thread that adds a message does.
LEMMA Enqueued ==
  ASSUME TypeOK, NEW m \in Messages, inbox' = Append(inbox, m)
  PROVE  /\ inbox' \in Seq(Messages) /\ DOMAIN inbox' = 1..Len(inbox) + 1
         /\ \A i \in 1..Len(inbox) : inbox'[i] = inbox[i]
         /\ inbox'[Len(inbox) + 1] = m
         /\ \A ty, d : Has(inbox', ty, d) <=> Has(inbox, ty, d) \/ (m.type = ty /\ m.id = d)
<1>1. /\ inbox' \in Seq(Messages) /\ DOMAIN inbox' = 1..Len(inbox) + 1
      /\ \A i \in 1..Len(inbox) : inbox'[i] = inbox[i]
      /\ inbox'[Len(inbox) + 1] = m
  BY AppendProperties, LenProperties DEF TypeOK
<1>2. ASSUME NEW ty, NEW d
      PROVE  Has(inbox', ty, d) <=> Has(inbox, ty, d) \/ (m.type = ty /\ m.id = d)
  <2>1. Len(inbox) \in Nat /\ DOMAIN inbox = 1..Len(inbox)
    BY InboxIs
  <2>2. 1..Len(inbox) + 1 = 1..Len(inbox) \cup {Len(inbox) + 1}
    BY <2>1
  <2> QED BY <1>1, <2>1, <2>2 DEF Has
<1> QED BY <1>1, <1>2

LEMMA EnqueueKeeps ==
  ASSUME TypeOK, Queued, NEW m \in Messages, inbox' = Append(inbox, m),
         joined \subseteq joined', m.id \in joined',
         IF m.type = "LEAVE" THEN left' = left \cup {m.id} ELSE left' = left,
         m.id \notin left, m.type = "JOIN" => m.id \notin joined
  PROVE  Queued'
<1> DEFINE n == Len(inbox)
<1>1. n \in Nat /\ DOMAIN inbox = 1..n /\ DOMAIN inbox' = 1..n + 1
  BY InboxIs, Enqueued
<1>2. (\A i \in 1..n : inbox'[i] = inbox[i]) /\ inbox'[n + 1] = m
  BY Enqueued
<1>3. \A ty, d : Has(inbox', ty, d) <=> Has(inbox, ty, d) \/ (m.type = ty /\ m.id = d)
  BY Enqueued
<1>4. \A i \in 1..n : inbox[i].type = "LEAVE" => inbox[i].id \in left
  BY <1>1 DEF Queued, Has
<1>a. \A d : d \in left' <=> d \in left \/ (m.type = "LEAVE" /\ m.id = d)
  OBVIOUS
<1>b. \A d : Has(inbox', "LEAVE", d) <=> Has(inbox, "LEAVE", d) \/ (m.type = "LEAVE" /\ m.id = d)
  BY <1>3
<1> HIDE DEF n
<1>5. ASSUME NEW i \in 1..n + 1, NEW j \in 1..n + 1, i < j, inbox'[i].id = inbox'[j].id
      PROVE  inbox'[i].type # "LEAVE" /\ inbox'[j].type # "JOIN"
  <2>1. i \in 1..n
    BY <1>1, <1>5
  <2>2. CASE j \in 1..n
    BY <1>1, <1>2, <1>5, <2>1, <2>2 DEF Queued
  <2>3. CASE j = n + 1
    BY <1>1, <1>2, <1>4, <1>5, <2>1, <2>3 DEF Queued
  <2> QED BY <1>1, <2>2, <2>3
<1>6. ASSUME NEW i \in 1..n + 1
      PROVE  inbox'[i].id \in joined' /\ (inbox'[i].id \in left' <=> Has(inbox', "LEAVE", inbox'[i].id))
  <2>1. CASE i \in 1..n
    <3>1. inbox[i].id \in joined /\ (inbox[i].id \in left <=> Has(inbox, "LEAVE", inbox[i].id))
      BY <1>1, <2>1 DEF Queued
    <3>2. inbox'[i] = inbox[i]
      BY <1>2, <2>1
    <3> QED BY <1>a, <1>b, <3>1, <3>2
  <2>2. CASE i = n + 1
    <3>1. ~Has(inbox, "LEAVE", m.id)
      BY <1>1, <1>4 DEF Has
    <3>2. inbox'[i] = m
      BY <1>2, <2>2
    <3> QED BY <1>a, <1>b, <3>1, <3>2
  <2> QED BY <1>1, <2>1, <2>2
<1> QED BY <1>1, <1>5, <1>6 DEF Queued

\* What the update thread that takes the oldest message does.
LEMMA Dequeued ==
  ASSUME TypeOK, inbox # <<>>, inbox' = Tail(inbox)
  PROVE  /\ Head(inbox) \in Messages /\ Head(inbox) = inbox[1] /\ inbox' \in Seq(Messages)
         /\ 1 \in DOMAIN inbox /\ DOMAIN inbox' = 1..Len(inbox) - 1
         /\ \A i \in 1..Len(inbox) - 1 : inbox'[i] = inbox[i + 1]
         /\ \A ty, d : Has(inbox, ty, d) <=> Has(inbox', ty, d) \/ (Head(inbox).type = ty /\ Head(inbox).id = d)
<1>1. inbox \in Seq(Messages)
  BY DEF TypeOK
<1>2. /\ Head(inbox) \in Messages /\ inbox' \in Seq(Messages) /\ Len(inbox') = Len(inbox) - 1
      /\ \A i \in 1..Len(inbox') : inbox'[i] = inbox[i + 1]
  BY <1>1, HeadTailProperties
<1>3. Head(inbox) = inbox[1]
  BY <1>1
<1>4. Len(inbox) \in Nat \ {0} /\ DOMAIN inbox = 1..Len(inbox) /\ DOMAIN inbox' = 1..Len(inbox')
  BY <1>1, <1>2, EmptySeq, LenProperties
<1>5. ASSUME NEW ty, NEW d
      PROVE  Has(inbox, ty, d) <=> Has(inbox', ty, d) \/ (Head(inbox).type = ty /\ Head(inbox).id = d)
  <2>1. ASSUME NEW i \in 1..Len(inbox), inbox[i].type = ty, inbox[i].id = d
        PROVE  Has(inbox', ty, d) \/ (Head(inbox).type = ty /\ Head(inbox).id = d)
    <3>1. CASE i = 1
      BY <1>3, <2>1, <3>1
    <3>2. CASE i # 1
      <4>1. i - 1 \in DOMAIN inbox' /\ inbox'[i - 1] = inbox[i]
        BY <1>2, <1>4, <3>2
      <4> QED BY <2>1, <4>1 DEF Has
    <3> QED BY <3>1, <3>2
  <2>2. Has(inbox', ty, d) => Has(inbox, ty, d)
    <3> SUFFICES ASSUME NEW i \in 1..Len(inbox) - 1, inbox'[i].type = ty, inbox'[i].id = d
                 PROVE  Has(inbox, ty, d)
      BY <1>2, <1>4 DEF Has
    <3>1. i + 1 \in DOMAIN inbox /\ inbox[i + 1].type = ty /\ inbox[i + 1].id = d
      BY <1>2, <1>4
    <3> QED BY <3>1 DEF Has
  <2>3. Head(inbox).type = ty /\ Head(inbox).id = d => Has(inbox, ty, d)
    <3>1. 1 \in DOMAIN inbox
      BY <1>4
    <3> QED BY <1>3, <3>1 DEF Has
  <2> QED BY <1>4, <2>1, <2>2, <2>3 DEF Has
<1> QED BY <1>2, <1>3, <1>4, <1>5

LEMMA DequeueKeeps ==
  ASSUME TypeOK, Queued, inbox # <<>>, inbox' = Tail(inbox), UNCHANGED <<joined, left>>
  PROVE  /\ Queued'
         /\ Head(inbox).id \in joined
         /\ ~Has(inbox', "JOIN", Head(inbox).id)
         /\ Head(inbox).id \in left =>
              (Has(inbox', "LEAVE", Head(inbox).id) <=> Head(inbox).type # "LEAVE")
         /\ Head(inbox).type = "LEAVE" => Head(inbox).id \in left
<1> DEFINE m == Head(inbox)
           n == Len(inbox) - 1
<1>1. /\ m = inbox[1] /\ 1 \in DOMAIN inbox /\ DOMAIN inbox' = 1..n
      /\ \A i \in 1..n : inbox'[i] = inbox[i + 1]
      /\ \A ty, d : Has(inbox, ty, d) <=> Has(inbox', ty, d) \/ (m.type = ty /\ m.id = d)
  BY Dequeued
<1>2. n \in Int /\ DOMAIN inbox = 1..n + 1
  BY InboxIs
<1> HIDE DEF n, m
<1>3. \A i \in 1..n : i + 1 \in DOMAIN inbox
  BY <1>2
<1>4. \A i \in 1..n : inbox'[i].id = m.id => m.type # "LEAVE" /\ inbox'[i].type # "JOIN"
  <2> SUFFICES ASSUME NEW i \in 1..n, inbox'[i].id = m.id PROVE m.type # "LEAVE" /\ inbox'[i].type # "JOIN"
    OBVIOUS
  <2>1. 1 < i + 1 /\ i + 1 \in DOMAIN inbox /\ 1 \in DOMAIN inbox
    BY <1>1, <1>2
  <2> QED BY <1>1, <2>1 DEF Queued
<1>5. m.id \in joined /\ (m.id \in left <=> Has(inbox, "LEAVE", m.id))
  BY <1>1 DEF Queued
<1>6. ~Has(inbox', "JOIN", m.id)
  BY <1>1, <1>4 DEF Has
<1>7. m.type = "LEAVE" => ~Has(inbox', "LEAVE", m.id)
  BY <1>1, <1>4 DEF Has
<1>8. ASSUME NEW i \in 1..n, NEW j \in 1..n, i < j, inbox'[i].id = inbox'[j].id
      PROVE  inbox'[i].type # "LEAVE" /\ inbox'[j].type # "JOIN"
  <2>1. i + 1 < j + 1 /\ i + 1 \in DOMAIN inbox /\ j + 1 \in DOMAIN inbox
    BY <1>3, <1>8
  <2> QED BY <1>1, <1>8, <2>1 DEF Queued
<1>9. ASSUME NEW i \in 1..n
      PROVE  inbox'[i].id \in joined' /\ (inbox'[i].id \in left' <=> Has(inbox', "LEAVE", inbox'[i].id))
  <2>1. inbox[i + 1].id \in joined /\ (inbox[i + 1].id \in left <=> Has(inbox, "LEAVE", inbox[i + 1].id))
    BY <1>3 DEF Queued
  <2> QED BY <1>1, <1>4, <2>1
<1>10. Queued'
  BY <1>1, <1>8, <1>9 DEF Queued
<1> QED BY <1>1, <1>5, <1>6, <1>7, <1>10 DEF m

-----------------------------------------------------------------------------
(* Players *)

\* PlayersExact of the next state, from what a step does to one player and its messages.
Exact(c) ==
  player[c] # NoObj <=> c \in joined /\ ~Has(inbox, "JOIN", c) /\ (c \in left => Has(inbox, "LEAVE", c))

Owned == \A c, d \in Clients : player[c] = player[d] /\ player[c] # NoObj => c = d

LEMMA PlayersIs ==
  PlayersExact <=> lost = 0 /\ (\A c \in Clients : Exact(c)) /\ Owned
BY DEF PlayersExact, Exact, Owned, Waiting, Has

LEMMA PlayersNext ==
  ASSUME lost' = 0, \A c \in Clients : (Exact(c))', Owned'
  PROVE  PlayersExact'
BY DEF PlayersExact, Exact, Owned, Waiting, Has

LEMMA InJoined ==
  ASSUME IInv, NEW ty, NEW d, Has(inbox, ty, d)
  PROVE  d \in joined
BY DEF IInv, Queued, Has

-----------------------------------------------------------------------------
(* Network threads *)

LEMMA EnqueueInv ==
  ASSUME IInv, NEW m \in Messages, inbox' = Append(inbox, m),
         joined' = (IF m.type = "JOIN" THEN joined \cup {m.id} ELSE joined),
         IF m.type = "LEAVE" THEN left' = left \cup {m.id} ELSE left' = left,
         IF m.type = "JOIN" THEN m.id \notin joined ELSE m.id \in joined \ left,
         packets' \in Nat, NoSend, UNCHANGED <<content, key, cut, down, lost, given>>
  PROVE  IInv'
<1>1. TypeOK /\ Queued /\ PlayersExact /\ Listing /\ m.id \in Clients
  BY DEF IInv, Messages
<1>2. m.id \notin left /\ joined \subseteq joined' /\ m.id \in joined'
  BY <1>1 DEF TypeOK
<1>3. Queued'
  BY <1>1, <1>2, EnqueueKeeps
<1>4. inbox' \in Seq(Messages) /\ \A ty, d : Has(inbox', ty, d) <=> Has(inbox, ty, d) \/ (m.type = ty /\ m.id = d)
  BY <1>1, Enqueued
<1>5. UNCHANGED <<player, account, pos, sector>>
  BY DEF content
<1>6. TypeOK'
  <2>1. joined' \subseteq Clients /\ left' \subseteq joined'
    BY <1>1, <1>2 DEF TypeOK
  <2> QED BY <1>1, <1>4, <1>5, <2>1 DEF TypeOK, NoSend
<1>7. Listing'
  BY <1>1, <1>5 DEF Listing
<1>8. PlayersExact'
  <2>1. ASSUME NEW c \in Clients PROVE (Exact(c))'
    <3>1. Exact(c)
      BY <1>1, PlayersIs
    <3>2. CASE c # m.id
      <4>1. (c \in joined' <=> c \in joined) /\ (c \in left' <=> c \in left)
        BY <3>2
      <4>2. (Has(inbox', "JOIN", c) <=> Has(inbox, "JOIN", c)) /\ (Has(inbox', "LEAVE", c) <=> Has(inbox, "LEAVE", c))
        BY <1>4, <3>2
      <4> QED BY <1>5, <3>1, <4>1, <4>2 DEF Exact
    <3>3. CASE c = m.id
      <4>1. CASE m.type = "JOIN"
        <5>1. c \notin joined /\ player[c] = NoObj /\ Has(inbox', "JOIN", c)
          BY <1>4, <3>1, <3>3, <4>1 DEF Exact
        <5> QED BY <1>5, <5>1 DEF Exact
      <4>2. CASE m.type # "JOIN"
        <5>1. joined' = joined /\ c \in joined /\ c \notin left
          BY <3>3, <4>2
        <5>2. Has(inbox', "JOIN", c) <=> Has(inbox, "JOIN", c)
          BY <1>4, <4>2
        <5>3. c \in left' => Has(inbox', "LEAVE", c)
          BY <1>4, <3>3, <5>1
        <5> QED BY <1>5, <3>1, <5>1, <5>2, <5>3 DEF Exact
      <4> QED BY <4>1, <4>2
    <3> QED BY <3>2, <3>3
  <2>2. Owned'
    BY <1>1, <1>5, PlayersIs DEF Owned
  <2>3. lost' = 0
    BY <1>1, PlayersIs
  <2> QED BY <2>1, <2>2, <2>3, PlayersNext
<1> QED BY <1>3, <1>6, <1>7, <1>8 DEF IInv

LEMMA NetworkKeeps ==
  ASSUME IInv, NEW c \in Clients, OnClientJoin(c) \/ OnRecv(c) \/ OnClientLeave(c)
  PROVE  IInv'
<1>1. packets \in Nat
  BY DEF IInv, TypeOK
<1>2. CASE OnClientJoin(c)
  <2> DEFINE m == [type |-> "JOIN", id |-> c]
  <2>1. m \in Messages /\ m.type = "JOIN" /\ m.id = c
    BY DEF Messages
  <2>2. /\ inbox' = Append(inbox, m) /\ c \notin joined /\ joined' = joined \cup {c}
        /\ left' = left /\ packets' = packets /\ NoSend /\ UNCHANGED <<content, key, cut, down, lost, given>>
    BY <1>2 DEF OnClientJoin, EnqueueMessage
  <2> HIDE DEF m
  <2> QED BY <1>1, <2>1, <2>2, EnqueueInv
<1>3. CASE OnRecv(c)
  <2>1. PICK p \in Packets : EnqueueMessage([type |-> "PACKET", id |-> c, packet |-> p])
    BY <1>3 DEF OnRecv
  <2> DEFINE m == [type |-> "PACKET", id |-> c, packet |-> p]
  <2>2. m \in Messages /\ m.type = "PACKET" /\ m.id = c
    BY DEF Messages
  <2>3. /\ inbox' = Append(inbox, m) /\ c \in joined \ left /\ joined' = joined
        /\ left' = left /\ packets' = packets + 1 /\ NoSend /\ UNCHANGED <<content, key, cut, down, lost, given>>
    BY <1>3, <2>1 DEF OnRecv, EnqueueMessage
  <2> HIDE DEF m
  <2>4. packets' \in Nat
    BY <1>1, <2>3
  <2> QED BY <2>2, <2>3, <2>4, EnqueueInv
<1>4. CASE OnClientLeave(c)
  <2> DEFINE m == [type |-> "LEAVE", id |-> c]
  <2>1. m \in Messages /\ m.type = "LEAVE" /\ m.id = c
    BY DEF Messages
  <2>2. /\ inbox' = Append(inbox, m) /\ c \in joined \ left /\ joined' = joined
        /\ left' = left \cup {c} /\ packets' = packets /\ NoSend /\ UNCHANGED <<content, key, cut, down, lost, given>>
    BY <1>4 DEF OnClientLeave, EnqueueMessage
  <2> HIDE DEF m
  <2> QED BY <1>1, <2>1, <2>2, EnqueueInv
<1> QED BY <1>2, <1>3, <1>4

LEMMA AddKeyKeeps ==
  ASSUME IInv, NEW a \in Accounts, NEW k \in Keys, AddSessionKey(a, k)
  PROVE  IInv'
<1>1. UNCHANGED <<joined, left, inbox, packets, player, account, pos, sector, cut, down, lost>>
  BY DEF AddSessionKey, netVars, content
<1>2. /\ key' = [key EXCEPT ![a] = k]
      /\ given' = [given EXCEPT ![<<a, k>>] = @ + 1] /\ sent' = {}
  BY DEF AddSessionKey, NoSend
<1>3. TypeOK'
  <2>1. given' \in [Accounts \X Keys -> Nat]
    BY <1>2 DEF IInv, TypeOK
  <2>2. key' \in [Accounts -> Keys \cup {NoKey}]
    BY <1>2 DEF IInv, TypeOK
  <2> QED BY <1>1, <1>2, <2>1, <2>2 DEF IInv, TypeOK
<1>4. Queued'
  BY <1>1 DEF IInv, Queued
<1>5. PlayersExact'
  BY <1>1 DEF IInv, PlayersExact, Waiting
<1>6. Listing'
  BY <1>1 DEF IInv, Listing
<1> QED BY <1>3, <1>4, <1>5, <1>6 DEF IInv

-----------------------------------------------------------------------------
(* Sectors *)

LEMMA DefaultIsOutside == Default \notin Sectors
BY DEF Default, Sectors

\* Taking a player out of the sector where it stands.
LEMMA LessIs ==
  ASSUME TypeOK, Listing, NEW c \in Clients, player[c] # NoObj, NEW less,
         less = SectorsLess(c, pos[player[c]])
  PROVE  /\ less \in [Sectors -> Seq(Clients)]
         /\ \A s \in Sectors : /\ NoTwice(less[s])
                               /\ \A d \in Clients : In(d, less[s]) <=> In(d, sector[s]) /\ d # c
<1> DEFINE r == pos[player[c]]
<1>1. sector \in [Sectors -> Seq(Clients)] /\ player[c] \in Objs /\ r \in Sectors \cup {Default}
  BY DEF TypeOK
<1>2. \A s \in Sectors : NoTwice(sector[s]) /\ (In(c, sector[s]) <=> r = s)
  BY DEF Listing
<1>3. Listed(c, r) <=> r \in Sectors
  BY <1>2 DEF Listed, ValidSector, In
<1> HIDE DEF r
<1>4. CASE r \in Sectors
  <2>1. less = [sector EXCEPT ![r] = Without(@, c)]
    BY <1>3, <1>4 DEF SectorsLess, r
  <2>2. /\ Without(sector[r], c) \in Seq(Clients) /\ NoTwice(Without(sector[r], c))
        /\ \A d : In(d, Without(sector[r], c)) <=> In(d, sector[r]) /\ d # c
    BY <1>1, <1>2, <1>4, WithoutOne
  <2>3. less \in [Sectors -> Seq(Clients)]
    BY <1>1, <2>1, <2>2
  <2>4. ASSUME NEW s \in Sectors, NEW d \in Clients
        PROVE  NoTwice(less[s]) /\ (In(d, less[s]) <=> In(d, sector[s]) /\ d # c)
    <3>1. CASE s = r
      BY <1>1, <2>1, <2>2, <3>1
    <3>2. CASE s # r
      <4>1. less[s] = sector[s]
        BY <1>1, <2>1, <3>2
      <4> QED BY <1>2, <3>2, <4>1
    <3> QED BY <3>1, <3>2
  <2> QED BY <2>3, <2>4
<1>5. CASE r \notin Sectors
  <2>1. less = sector
    BY <1>3, <1>5 DEF SectorsLess, r
  <2> QED BY <1>1, <1>2, <1>5, <2>1
<1> QED BY <1>4, <1>5

-----------------------------------------------------------------------------
(* The update thread *)

\* Where a player is put affects it alone.
LEMMA OthersObjects ==
  ASSUME TypeOK, PlayersExact, NEW c \in Clients, player[c] # NoObj, NEW d \in Clients \ {c},
         player[d] # NoObj
  PROVE  player[d] # player[c] /\ player[d] \in Objs
BY PlayersIs DEF TypeOK, Owned

LEMMA MoveSectorKeeps ==
  ASSUME ConstantsOK, IInv, NEW c \in Clients, player[c] # NoObj, NEW p \in Packets, MoveSector(c, p)
  PROVE  /\ sector' \in [Sectors -> Seq(Clients)] /\ pos' \in [Objs -> Sectors \cup {Default}]
         /\ cut' \subseteq Clients /\ Listing' /\ UNCHANGED <<player, account, key, down>> /\ sent' = {}
<1> DEFINE o == player[c]
           s == <<p.x, p.y>>
           less == SectorsLess(c, pos[o])
           ok == OwnAccount(c, p) /\ CanLeave(c, pos[o])
<1>1. TypeOK /\ Listing /\ PlayersExact /\ o \in Objs
  BY DEF IInv, TypeOK
<1>2. /\ less \in [Sectors -> Seq(Clients)]
      /\ \A r \in Sectors : NoTwice(less[r]) /\ \A d \in Clients : In(d, less[r]) <=> In(d, sector[r]) /\ d # c
  BY <1>1, LessIs
<1>3. /\ \/ /\ ok /\ ValidSector(s)
            /\ sector' = [less EXCEPT ![s] = Append(@, c)]
            /\ pos' = [pos EXCEPT ![o] = s]
            /\ Keep
         \/ /\ ok /\ ~ValidSector(s)
            /\ sector' = less /\ pos' = [pos EXCEPT ![o] = Default]
            /\ Disconnect(c)
         \/ ~ok /\ Disconnect(c) /\ UNCHANGED <<sector, pos>>
      /\ NoSend /\ NoCheck /\ UNCHANGED <<player, account>>
  BY DEF MoveSector
<1>4. UNCHANGED <<player, account, key, down>> /\ sent' = {}
  BY <1>3 DEF NoCheck, NoSend, Keep, Disconnect
<1>5. cut' \subseteq Clients
  BY <1>1, <1>3 DEF Keep, Disconnect, TypeOK
<1>6. \A d \in Clients \ {c} : player[d] # NoObj => player[d] # o /\ player[d] \in Objs
  BY <1>1, OthersObjects
<1>7. pos \in [Objs -> Sectors \cup {Default}] /\ sector \in [Sectors -> Seq(Clients)]
  BY <1>1 DEF TypeOK
<1>8. \A r \in Sectors, d \in Clients : In(d, sector[r]) <=> player[d] # NoObj /\ pos[player[d]] = r
  BY <1>1 DEF Listing
<1> HIDE DEF o, less, ok, s
<1>9. CASE ok /\ ValidSector(s) /\ sector' = [less EXCEPT ![s] = Append(@, c)] /\ pos' = [pos EXCEPT ![o] = s]
  <2>1. s \in Sectors
    BY <1>9 DEF ValidSector
  <2>2. /\ Append(less[s], c) \in Seq(Clients) /\ NoTwice(Append(less[s], c))
        /\ \A d : In(d, Append(less[s], c)) <=> In(d, less[s]) \/ d = c
    BY <1>2, <2>1, AppendOne
  <2>3. sector' \in [Sectors -> Seq(Clients)] /\ pos' \in [Objs -> Sectors \cup {Default}]
    BY <1>2, <1>7, <1>9, <2>1, <2>2
  <2>4. pos'[o] = s /\ \A d \in Clients \ {c} : player[d] # NoObj => pos'[player[d]] = pos[player[d]]
    BY <1>1, <1>6, <1>7, <1>9
  <2>5. ASSUME NEW r \in Sectors, NEW d \in Clients
        PROVE  NoTwice(sector'[r]) /\ (In(d, sector'[r]) <=> player'[d] # NoObj /\ pos'[player'[d]] = r)
    <3>1. NoTwice(sector'[r]) /\ (In(d, sector'[r]) <=> In(d, less[r]) \/ (d = c /\ r = s))
      <4>1. CASE r = s
        BY <1>2, <1>9, <2>1, <2>2, <4>1
      <4>2. CASE r # s
        <5>1. sector'[r] = less[r]
          BY <1>2, <1>9, <4>2
        <5> QED BY <1>2, <4>2, <5>1
      <4> QED BY <4>1, <4>2
    <3>2. In(d, sector'[r]) <=> (In(d, sector[r]) /\ d # c) \/ (d = c /\ r = s)
      BY <1>2, <3>1
    <3>3. CASE d = c
      BY <1>4, <2>4, <3>1, <3>2, <3>3 DEF o
    <3>4. CASE d # c
      BY <1>4, <1>8, <2>4, <3>1, <3>2, <3>4
    <3> QED BY <3>3, <3>4
  <2>6. Listing'
    BY <2>5 DEF Listing
  <2> QED BY <1>4, <1>5, <2>3, <2>6
<1>10. CASE sector' = less /\ pos' = [pos EXCEPT ![o] = Default]
  <2>1. sector' \in [Sectors -> Seq(Clients)] /\ pos' \in [Objs -> Sectors \cup {Default}]
    BY <1>2, <1>7, <1>10
  <2>2. pos'[o] = Default /\ \A d \in Clients \ {c} : player[d] # NoObj => pos'[player[d]] = pos[player[d]]
    BY <1>1, <1>6, <1>7, <1>10
  <2>3. ASSUME NEW r \in Sectors, NEW d \in Clients
        PROVE  NoTwice(sector'[r]) /\ (In(d, sector'[r]) <=> player'[d] # NoObj /\ pos'[player'[d]] = r)
    <3>1. NoTwice(sector'[r]) /\ (In(d, sector'[r]) <=> In(d, sector[r]) /\ d # c)
      BY <1>2, <1>10
    <3>2. CASE d = c
      BY <1>4, <2>2, <3>1, <3>2, DefaultIsOutside DEF o
    <3>3. CASE d # c
      BY <1>4, <1>8, <2>2, <3>1, <3>3
    <3> QED BY <3>2, <3>3
  <2>4. Listing'
    BY <2>3 DEF Listing
  <2> QED BY <1>4, <1>5, <2>1, <2>4
<1>11. CASE UNCHANGED <<sector, pos>>
  <2>1. Listing'
    BY <1>1, <1>4, <1>11 DEF Listing
  <2> QED BY <1>4, <1>5, <1>7, <1>11, <2>1
<1> QED BY <1>3, <1>9, <1>10, <1>11 DEF o, s, less, ok

\* What a message may do to the players' data, the player of every id being kept.
Handled ==
  /\ account' \in [Objs -> Accounts \cup {NoAccount}] /\ pos' \in [Objs -> Sectors \cup {Default}]
  /\ sector' \in [Sectors -> Seq(Clients)] /\ key' \in [Accounts -> Keys \cup {NoKey}]
  /\ cut' \subseteq Clients /\ sent' \subseteq Clients /\ down' \in BOOLEAN
  /\ Listing' /\ UNCHANGED player

LEMMA PacketKeeps ==
  ASSUME ConstantsOK, IInv, NEW c \in Clients, player[c] # NoObj, NEW p \in Packets, PacketProc(c, p)
  PROVE  Handled /\ lost' = lost
<1>1. /\ account \in [Objs -> Accounts \cup {NoAccount}] /\ pos \in [Objs -> Sectors \cup {Default}]
      /\ sector \in [Sectors -> Seq(Clients)] /\ key \in [Accounts -> Keys \cup {NoKey}]
      /\ cut \subseteq Clients /\ down \in BOOLEAN /\ Listing
  BY DEF IInv, TypeOK
<1>2. lost' = lost
  BY DEF PacketProc
<1>3. CASE LoginRequest(c, p)
  <2>1. UNCHANGED <<player, pos, sector>> /\ sent' = {}
    BY <1>3 DEF LoginRequest, NoSend
  <2>2. account' \in [Objs -> Accounts \cup {NoAccount}]
    <3>1. p.account \in Accounts \cup {NoAccount}
      BY DEF ConstantsOK
    <3> QED BY <1>1, <1>3, <3>1 DEF LoginRequest
  <2>3. key' \in [Accounts -> Keys \cup {NoKey}]
    BY <1>1, <1>3 DEF LoginRequest, CheckSessionKey, NoCheck
  <2>4. cut' \subseteq Clients /\ down' \in BOOLEAN
    BY <1>1, <1>3 DEF LoginRequest, Keep, Disconnect
  <2>5. Listing'
    BY <1>1, <2>1 DEF Listing
  <2> QED BY <1>1, <1>2, <2>1, <2>2, <2>3, <2>4, <2>5 DEF Handled
<1>4. CASE MoveSector(c, p)
  BY <1>1, <1>2, <1>4, MoveSectorKeeps DEF Handled
<1>5. ASSUME NoCheck, UNCHANGED content, cut' = cut \/ cut' = cut \cup {c}, sent' \subseteq Clients,
             down' \in BOOLEAN
      PROVE  Handled
  <2>1. UNCHANGED <<player, account, pos, sector, key>>
    BY <1>5 DEF content, NoCheck
  <2>2. Listing'
    BY <1>1, <2>1 DEF Listing
  <2>3. cut' \subseteq Clients
    BY <1>1, <1>5
  <2> QED BY <1>1, <1>5, <2>1, <2>2, <2>3 DEF Handled
<1>6. CASE ChatMessage(c, p)
  <2>1. /\ NoCheck /\ UNCHANGED content /\ (cut' = cut \/ cut' = cut \cup {c})
        /\ sent' \subseteq Clients /\ down' \in BOOLEAN
    BY <1>1, <1>6 DEF ChatMessage, Deliver, NoSend, Keep, Disconnect
  <2> QED BY <1>2, <1>5, <2>1
<1>7. CASE Heartbeat(c) \/ NoType(c) \/ Unknown(c)
  <2>1. /\ NoCheck /\ UNCHANGED content /\ (cut' = cut \/ cut' = cut \cup {c})
        /\ sent' \subseteq Clients /\ down' \in BOOLEAN
    BY <1>1, <1>7 DEF Heartbeat, NoType, Unknown, NoSend, Keep, Disconnect
  <2> QED BY <1>2, <1>5, <2>1
<1> QED BY <1>3, <1>4, <1>6, <1>7 DEF PacketProc

LEMMA JoinPlayerKeeps ==
  ASSUME ConstantsOK, IInv, NEW c \in Clients, player[c] = NoObj, JoinPlayer(c)
  PROVE  /\ pos' \in [Objs -> Sectors \cup {Default}] /\ player' \in [Clients -> Objs \cup {NoObj}]
         /\ Listing' /\ Owned' /\ player'[c] # NoObj
         /\ \A d \in Clients \ {c} : player'[d] = player[d]
<1>1. PICK o \in Objs \ {player[d] : d \in Clients} :
        player' = [player EXCEPT ![c] = o] /\ pos' = [pos EXCEPT ![o] = Default]
  BY DEF JoinPlayer
<1>2. /\ player \in [Clients -> Objs \cup {NoObj}] /\ pos \in [Objs -> Sectors \cup {Default}]
      /\ Listing /\ Owned /\ NoObj \notin Objs /\ UNCHANGED sector
  BY PlayersIs DEF IInv, TypeOK, ConstantsOK, JoinPlayer
<1>3. /\ player' \in [Clients -> Objs \cup {NoObj}] /\ pos' \in [Objs -> Sectors \cup {Default}]
      /\ player'[c] = o /\ o # NoObj /\ \A d \in Clients \ {c} : player'[d] = player[d] /\ player[d] # o
  BY <1>1, <1>2
<1>4. Owned'
  BY <1>2, <1>3 DEF Owned
<1>5. pos'[o] = Default /\ \A d \in Clients \ {c} : player[d] # NoObj => pos'[player[d]] = pos[player[d]]
  BY <1>1, <1>2, <1>3
<1>6. ASSUME NEW s \in Sectors, NEW d \in Clients
      PROVE  In(d, sector'[s]) <=> player'[d] # NoObj /\ pos'[player'[d]] = s
  <2>1. In(d, sector'[s]) <=> player[d] # NoObj /\ pos[player[d]] = s
    BY <1>2 DEF Listing
  <2>2. CASE d = c
    BY <1>3, <1>5, <2>1, <2>2, DefaultIsOutside
  <2>3. CASE d # c
    BY <1>3, <1>5, <2>1, <2>3
  <2> QED BY <2>2, <2>3
<1>7. Listing'
  BY <1>2, <1>6 DEF Listing
<1> QED BY <1>3, <1>4, <1>7

LEMMA LeavePlayerKeeps ==
  ASSUME ConstantsOK, IInv, NEW c \in Clients, player[c] # NoObj, LeavePlayer(c)
  PROVE  /\ pos' \in [Objs -> Sectors \cup {Default}] /\ player' \in [Clients -> Objs \cup {NoObj}]
         /\ sector' \in [Sectors -> Seq(Clients)] /\ account' = account
         /\ Listing' /\ Owned' /\ player'[c] = NoObj
         /\ \A d \in Clients \ {c} : player'[d] = player[d]
<1> DEFINE o == player[c]
<1>1. TypeOK /\ PlayersExact /\ Listing /\ Owned /\ o \in Objs
  BY PlayersIs DEF IInv, TypeOK
<1>2. /\ sector' = SectorsLess(c, pos[o])
      /\ pos' = [pos EXCEPT ![o] = IF Listed(c, @) THEN Default ELSE @]
      /\ player' = [player EXCEPT ![c] = NoObj] /\ account' = account
  BY DEF LeavePlayer
<1>3. player \in [Clients -> Objs \cup {NoObj}] /\ pos \in [Objs -> Sectors \cup {Default}]
  BY <1>1 DEF TypeOK
<1>4. /\ sector' \in [Sectors -> Seq(Clients)]
      /\ \A s \in Sectors : /\ NoTwice(sector'[s])
                            /\ \A d \in Clients : In(d, sector'[s]) <=> In(d, sector[s]) /\ d # c
  BY <1>1, <1>2, LessIs
<1>5. player' \in [Clients -> Objs \cup {NoObj}] /\ pos' \in [Objs -> Sectors \cup {Default}]
  BY <1>1, <1>2, <1>3
<1>6. player'[c] = NoObj /\ \A d \in Clients \ {c} : player'[d] = player[d]
  BY <1>2, <1>3
<1>7. Owned'
  BY <1>1, <1>6 DEF Owned
<1>8. \A d \in Clients \ {c} : player[d] # NoObj => player[d] # o /\ player[d] \in Objs
  BY <1>1, OthersObjects
<1> HIDE DEF o
<1>9. \A d \in Clients \ {c} : player[d] # NoObj => pos'[player[d]] = pos[player[d]]
  BY <1>1, <1>2, <1>3, <1>8
<1>10. ASSUME NEW s \in Sectors, NEW d \in Clients
      PROVE  In(d, sector'[s]) <=> player'[d] # NoObj /\ pos'[player'[d]] = s
  <2>1. In(d, sector'[s]) <=> player[d] # NoObj /\ pos[player[d]] = s /\ d # c
    BY <1>1, <1>4 DEF Listing
  <2>2. CASE d = c
    BY <1>6, <2>1, <2>2
  <2>3. CASE d # c
    BY <1>6, <1>9, <2>1, <2>3
  <2> QED BY <2>2, <2>3
<1>11. Listing'
  BY <1>4, <1>10 DEF Listing
<1> QED BY <1>2, <1>4, <1>5, <1>6, <1>7, <1>11

LEMMA UpdateKeeps ==
  ASSUME ConstantsOK, IInv, Update
  PROVE  IInv'
<1>1. TypeOK /\ Queued /\ PlayersExact /\ Listing /\ Owned /\ lost = 0 /\ \A d \in Clients : Exact(d)
  BY PlayersIs DEF IInv
<1>a. Update /\ Head(inbox) \in Messages
  BY <1>1, Dequeued DEF Update
<1>b. PICK m \in Messages : m = Head(inbox)
  BY <1>a
<1>c. \A x \in Messages : x.id \in Clients
  BY DEF Messages
<1>d. PICK c \in Clients : c = m.id
  BY <1>b, <1>c
<1>2. /\ inbox # <<>> /\ inbox' = Tail(inbox) /\ UNCHANGED <<joined, left, packets, given>>
      /\ \/ m.type = "PACKET" /\ PacketProc(m.id, m.packet)
         \/ /\ \/ m.type = "JOIN" /\ JoinPlayer(m.id)
               \/ m.type = "LEAVE" /\ LeavePlayer(m.id)
            /\ NoSend /\ NoCheck /\ Keep /\ UNCHANGED lost
  BY <1>b DEF Update
<1>3. /\ m \in Messages /\ inbox' \in Seq(Messages)
      /\ \A ty, d : Has(inbox, ty, d) <=> Has(inbox', ty, d) \/ (m.type = ty /\ c = d)
  BY <1>1, <1>2, <1>b, <1>d, Dequeued
<1>4. c \in Clients /\ m.type \in {"JOIN", "LEAVE", "PACKET"} /\ (m.type = "PACKET" => m.packet \in Packets)
  BY DEF Messages
<1>5. /\ Queued' /\ c \in joined /\ ~Has(inbox', "JOIN", c)
      /\ c \in left => (Has(inbox', "LEAVE", c) <=> m.type # "LEAVE")
      /\ m.type = "LEAVE" => c \in left
  BY <1>1, <1>2, <1>b, <1>d, DequeueKeeps
<1>6. /\ joined' \subseteq Clients /\ left' \subseteq joined' /\ packets' \in Nat
      /\ given' \in [Accounts \X Keys -> Nat]
  BY <1>1, <1>2 DEF TypeOK
<1>7. ASSUME NEW d \in Clients, player'[d] = player[d], d # c \/ m.type = "PACKET"
      PROVE  (Exact(d))'
  <2>1. (Has(inbox', "JOIN", d) <=> Has(inbox, "JOIN", d)) /\ (Has(inbox', "LEAVE", d) <=> Has(inbox, "LEAVE", d))
    BY <1>3, <1>7
  <2>2. Exact(d)
    BY <1>1
  <2> QED BY <1>2, <1>7, <2>1, <2>2 DEF Exact
<1>8. CASE m.type = "PACKET"
  <2>1. player[c] # NoObj
    <3>1. ~Has(inbox, "JOIN", c)
      BY <1>3, <1>5, <1>8
    <3>2. c \in left => Has(inbox, "LEAVE", c)
      BY <1>3, <1>5, <1>8
    <3> QED BY <1>1, <1>4, <1>5, <3>1, <3>2 DEF Exact
  <2>2. PacketProc(c, m.packet)
    BY <1>2, <1>8, <1>d
  <2>3. Handled /\ lost' = lost
    BY <1>4, <1>8, <2>1, <2>2, PacketKeeps
  <2>4. TypeOK'
    BY <1>1, <1>3, <1>6, <2>3 DEF Handled, TypeOK
  <2>5. PlayersExact'
    <3>1. \A d \in Clients : (Exact(d))'
      BY <1>7, <1>8, <2>3 DEF Handled
    <3>2. Owned'
      BY <1>1, <2>3 DEF Handled, Owned
    <3> QED BY <1>1, <2>3, <3>1, <3>2, PlayersNext
  <2> QED BY <1>5, <2>3, <2>4, <2>5 DEF Handled, IInv
<1>9. CASE m.type = "JOIN"
  <2>1. JoinPlayer(c) /\ sent' = {} /\ UNCHANGED <<key, cut, down, lost>>
    BY <1>2, <1>9, <1>d DEF NoSend, NoCheck, Keep
  <2>2. player[c] = NoObj
    <3>1. Has(inbox, "JOIN", c)
      BY <1>3, <1>9
    <3> QED BY <1>1, <1>4, <3>1 DEF Exact
  <2>3. /\ pos' \in [Objs -> Sectors \cup {Default}] /\ player' \in [Clients -> Objs \cup {NoObj}]
        /\ Listing' /\ Owned' /\ player'[c] # NoObj
        /\ \A d \in Clients \ {c} : player'[d] = player[d]
    BY <1>4, <2>1, <2>2, JoinPlayerKeeps
  <2>4. UNCHANGED <<account, sector>>
    BY <2>1 DEF JoinPlayer
  <2>5. TypeOK'
    BY <1>1, <1>3, <1>6, <2>1, <2>3, <2>4 DEF TypeOK
  <2>6. (Exact(c))'
    <3>1. c \in joined' /\ (c \in left' => Has(inbox', "LEAVE", c))
      BY <1>2, <1>5, <1>9
    <3> QED BY <1>5, <2>3, <3>1 DEF Exact
  <2>7. \A d \in Clients : (Exact(d))'
    BY <1>7, <2>3, <2>6
  <2>8. PlayersExact'
    BY <1>1, <2>1, <2>3, <2>7, PlayersNext
  <2> QED BY <1>5, <2>3, <2>5, <2>8 DEF IInv
<1>10. CASE m.type = "LEAVE"
  <2>1. LeavePlayer(c) /\ sent' = {} /\ UNCHANGED <<key, cut, down, lost>>
    BY <1>2, <1>10, <1>d DEF NoSend, NoCheck, Keep
  <2>2. player[c] # NoObj
    <3>1. ~Has(inbox, "JOIN", c) /\ Has(inbox, "LEAVE", c)
      BY <1>3, <1>5, <1>10
    <3> QED BY <1>1, <1>4, <1>5, <3>1 DEF Exact
  <2>3. /\ pos' \in [Objs -> Sectors \cup {Default}] /\ player' \in [Clients -> Objs \cup {NoObj}]
        /\ sector' \in [Sectors -> Seq(Clients)] /\ account' = account
        /\ Listing' /\ Owned' /\ player'[c] = NoObj
        /\ \A d \in Clients \ {c} : player'[d] = player[d]
    BY <1>4, <2>1, <2>2, LeavePlayerKeeps
  <2>4. TypeOK'
    BY <1>1, <1>3, <1>6, <2>1, <2>3 DEF TypeOK
  <2>5. (Exact(c))'
    <3>1. c \in left' /\ ~Has(inbox', "LEAVE", c)
      BY <1>2, <1>5, <1>10
    <3> QED BY <2>3, <3>1 DEF Exact
  <2>6. \A d \in Clients : (Exact(d))'
    BY <1>7, <2>3, <2>5
  <2>7. PlayersExact'
    BY <1>1, <2>1, <2>3, <2>6, PlayersNext
  <2> QED BY <1>5, <2>3, <2>4, <2>7 DEF IInv
<1> QED BY <1>4, <1>8, <1>9, <1>10

-----------------------------------------------------------------------------

LEMMA InitInv ==
  ASSUME ConstantsOK, Init
  PROVE  IInv
<1>1. TypeOK
  <2>1. <<>> \in Seq(Messages) /\ <<>> \in Seq(Clients)
    BY EmptySeq
  <2>2. account \in [Objs -> Accounts \cup {NoAccount}] /\ pos \in [Objs -> Sectors \cup {Default}]
    BY DEF Init
  <2>3. given \in [Accounts \X Keys -> Nat]
    BY DEF Init
  <2> QED BY <2>1, <2>2, <2>3 DEF Init, TypeOK
<1>2. DOMAIN <<>> = {}
  <2>1. <<>> \in Seq({}) /\ Len(<<>>) = 0
    BY EmptySeq
  <2>2. DOMAIN <<>> = 1..0
    BY <2>1, LenProperties
  <2> QED BY <2>2
<1>3. Queued
  BY <1>2 DEF Init, Queued
<1>4. PlayersExact
  BY DEF Init, PlayersExact
<1>5. Listing
  BY <1>2 DEF Init, Listing, NoTwice, In
<1> QED BY <1>1, <1>3, <1>4, <1>5 DEF IInv

LEMMA StutterInv ==
  ASSUME IInv, UNCHANGED vars
  PROVE  IInv'
<1>1. UNCHANGED <<joined, left, inbox, packets, player, account, pos, sector, key, cut, down, sent, lost, given>>
  BY DEF vars, netVars, content
<1>2. TypeOK'
  BY <1>1 DEF IInv, TypeOK
<1>3. Queued' /\ PlayersExact'
  BY <1>1 DEF IInv, Queued, PlayersExact, Waiting
<1>4. Listing'
  BY <1>1 DEF IInv, Listing
<1> QED BY <1>2, <1>3, <1>4 DEF IInv

\* In every behaviour of the chat server the inbox is in order, the players are those who are
\* in, and every list names exactly those who stand in its sector.
THEOREM Invariance == Spec => []IInv
<1> USE ConstantsOK
<1>1. IInv /\ [Next]_vars => IInv'
  BY NetworkKeeps, AddKeyKeeps, UpdateKeeps, StutterInv DEF Next
<1> QED BY <1>1, InitInv, PTL DEF Spec

\* The variables of the chat server keep their types.
THEOREM TypeCorrect == Spec => []TypeOK
BY Invariance, PTL DEF IInv

\* No packet is ever handled for an id without a player, and the players are those whose JOIN
\* has been handled and whose LEAVE has not, each with an st_PLAYER of its own.
THEOREM PlayersAlways == Spec => []PlayersExact
<1>1. IInv => PlayersExact
  BY DEF IInv
<1> QED BY <1>1, Invariance, PTL

LEMMA ListingCounts ==
  ASSUME Listing, NEW s \in Sectors, NEW c \in Clients
  PROVE  Cardinality({i \in DOMAIN sector[s] : sector[s][i] = c})
           = IF player[c] # NoObj /\ pos[player[c]] = s THEN 1 ELSE 0
<1> DEFINE at == {i \in DOMAIN sector[s] : sector[s][i] = c}
<1>1. CASE In(c, sector[s])
  <2>1. PICK i \in DOMAIN sector[s] : sector[s][i] = c
    BY <1>1 DEF In
  <2>2. at = {i}
    BY <2>1 DEF Listing, NoTwice
  <2>3. Cardinality(at) = 1
    BY <2>2, FS_Singleton
  <2> QED BY <1>1, <2>3 DEF Listing
<1>2. CASE ~In(c, sector[s])
  <2>1. at = {}
    BY <1>2 DEF In
  <2>2. Cardinality(at) = 0
    BY <2>1, FS_EmptySet
  <2> QED BY <1>2, <2>2 DEF Listing
<1> QED BY <1>1, <1>2

\* Every id is listed in the sector where its player stands, once, and nowhere else, in
\* whatever order moves, joins and departures are handled (LeaveSector, MoveSector).
THEOREM SectorAlways == Spec => []SectorExact
<1>1. IInv => SectorExact
  BY ListingCounts DEF IInv, SectorExact
<1> QED BY <1>1, Invariance, PTL

\* GetSectorAround gives the sectors at most one away.
LEMMA AroundIsNear ==
  ASSUME ConstantsOK, NEW s \in Sectors \cup {Default}, NEW r \in Sectors
  PROVE  r \in Around(s) <=> Near(r, s)
<1>1. MaxX \in Nat /\ MaxY \in Nat
  BY DEF ConstantsOK
<1>2. s[1] \in Int /\ s[2] \in Int /\ r[1] \in Int /\ r[2] \in Int /\ r = <<r[1], r[2]>>
  BY <1>1 DEF Sectors, Default
<1>3. ASSUME r \in Around(s) PROVE Near(r, s)
  <2>1. PICK i \in 0..2, j \in 0..2 : r = <<s[1] - 1 + i, s[2] - 1 + j>>
    BY <1>3 DEF Around
  <2>2. r[1] = s[1] - 1 + i /\ r[2] = s[2] - 1 + j
    BY <2>1
  <2> QED BY <1>2, <2>2 DEF Near
<1>4. ASSUME Near(r, s) PROVE r \in Around(s)
  <2> DEFINE i == r[1] - s[1] + 1
             j == r[2] - s[2] + 1
  <2>1. i \in 0..2 /\ j \in 0..2
    BY <1>2, <1>4 DEF Near
  <2>2. r[1] = s[1] - 1 + i /\ r[2] = s[2] - 1 + j
    BY <1>2
  <2> HIDE DEF i, j
  <2>3. r = <<s[1] - 1 + i, s[2] - 1 + j>>
    BY <1>2, <2>2
  <2> QED BY <2>1, <2>3 DEF Around
<1> QED BY <1>3, <1>4

\* Whom a chat message is sent to, in a state where the lists are exact.
LEMMA Reached ==
  ASSUME ConstantsOK, TypeOK, Listing, NEW s \in Sectors \cup {Default}
  PROVE  {d \in Clients : \E r \in Around(s) : Listed(d, r)}
           = {c \in Clients : player[c] # NoObj /\ pos[player[c]] # Default /\ Near(pos[player[c]], s)}
<1> SUFFICES ASSUME NEW d \in Clients
             PROVE  (\E r \in Around(s) : Listed(d, r))
                      <=> player[d] # NoObj /\ pos[player[d]] # Default /\ Near(pos[player[d]], s)
  OBVIOUS
<1>1. \A r \in Sectors : Listed(d, r) <=> player[d] # NoObj /\ pos[player[d]] = r
  BY DEF Listing, Listed, ValidSector, In
<1>2. player[d] # NoObj => pos[player[d]] \in Sectors \cup {Default}
  BY DEF TypeOK
<1>3. Around(s) \subseteq Sectors
  BY DEF Around
<1>4. (\E r \in Around(s) : Listed(d, r)) <=> player[d] # NoObj /\ pos[player[d]] \in Around(s)
  BY <1>1, <1>3
<1> QED BY <1>2, <1>3, <1>4, AroundIsNear, DefaultIsOutside

LEMMA ChatStep ==
  ASSUME ConstantsOK, IInv, Update, Head(inbox).type = "PACKET", player[Head(inbox).id] # NoObj,
         Head(inbox).packet.op = "chat"
  PROVE  \/ sent' = {} /\ (Head(inbox).id \in cut' \/ down')
         \/ sent' = {c \in Clients : /\ player[c] # NoObj /\ pos[player[c]] # Default
                                     /\ Near(pos[player[c]], pos[player[Head(inbox).id]])}
<1> DEFINE m == Head(inbox)
           from == pos[player[m.id]]
<1>1. TypeOK /\ Listing /\ inbox # <<>> /\ m \in Messages
  BY Dequeued DEF IInv, Update
<1>2. m.id \in Clients /\ from \in Sectors \cup {Default}
  <2>1. m.id \in Clients
    BY <1>1 DEF Messages
  <2> QED BY <1>1, <2>1 DEF TypeOK
<1>3. ChatMessage(m.id, m.packet) \/ NoType(m.id)
  BY DEF Update, PacketProc
<1>4. CASE Deliver(m.id)
  <2>1. sent' = {d \in Clients : \E s \in Around(from) : Listed(d, s)}
    BY <1>4 DEF Deliver
  <2> HIDE DEF from
  <2>2. sent' = {c \in Clients : player[c] # NoObj /\ pos[player[c]] # Default /\ Near(pos[player[c]], from)}
    BY <1>1, <1>2, <2>1, Reached
  <2> QED BY <2>2 DEF from
<1>5. CASE ~Deliver(m.id)
  BY <1>3, <1>5 DEF ChatMessage, NoType, NoSend, Disconnect
<1> QED BY <1>4, <1>5

\* Whenever a chat message is handled, it goes to exactly the players at most one sector away
\* (SendPacket_Around), or to nobody, when it is refused and its sender cut off, or when its
\* length ends the process (MakePacket_ChatMessage).
THEOREM ChatAlways == Spec => ChatReach
<1> USE ConstantsOK
<1>1. IInv /\ [Next]_vars =>
        [LET m == Head(inbox)
             from == pos[player[m.id]]
         IN
         Update /\ m.type = "PACKET" /\ player[m.id] # NoObj /\ m.packet.op = "chat" =>
           \/ sent' = {} /\ (m.id \in cut' \/ down')
           \/ sent' = {c \in Clients : /\ player[c] # NoObj /\ pos[player[c]] # Default
                                       /\ Near(pos[player[c]], from)}]_vars
  BY ChatStep
<1> QED BY <1>1, Invariance, PTL DEF Spec, ChatReach

-----------------------------------------------------------------------------
(* LockFreeQueue: the inductive invariant *)

\* The chains of the queue, as one function: c[Consumer] are the nodes from the head
\* on, c[t] the nodes from the one that a late producer t still has to link. b[n] is
\* the number that was drawn when n was last given out.
On(c, n)       == \E t \in Threads : \E i \in 1..Len(c[t]) : c[t][i] = n
Detached(c, n) == \E t \in Producers : \E i \in 1..Len(c[t]) : c[t][i] = n
Waits(c, n)    == \E t \in Threads : \E i \in 1..Len(c[t]) :
                    c[t][i] = n /\ ~(t = Consumer /\ i = 1)

WitnessType(c, b) == c \in [Threads -> Seq(Nodes)] /\ b \in [Nodes -> Nat]

Linked(c) ==
  \A t \in Threads : \A i \in 1..Len(c[t]) :
    next[c[t][i]] = IF i < Len(c[t]) THEN c[t][i + 1] ELSE NoNode

Apart(c) ==
  \A t, u \in Threads : \A i \in 1..Len(c[t]), j \in 1..Len(c[u]) :
    c[t][i] = c[u][j] => t = u /\ i = j

Heads(c) ==
  /\ Len(c[Consumer]) > 0 /\ c[Consumer][1] = head.node
  /\ \A t \in Producers :
       /\ Late(t) => Len(c[t]) > 0 /\ c[t][1] = node[t]
       /\ ~Late(t) => c[t] = <<>>

\* The node that the consumer has taken out and not freed yet.
Dead(n) == pc[Consumer] = "free" /\ n = oldHead[Consumer].node

InUse(c) ==
  /\ \A n \in Nodes : n \in used <=> On(c, n) \/ Dead(n)
  /\ \A n \in Nodes : Dead(n) => ~On(c, n) /\ next[n] = head.node

\* What late producers link to a late producer's node is older than it.
Falling(c) ==
  \A t \in Producers : \A i, j \in 1..Len(c[t]) : i < j => data[c[t][j]] < data[c[t][i]]

TailOn(c, b) ==
  /\ \E i \in 1..Len(c[Consumer]) : c[Consumer][i] = tail.node
  /\ b[tail.node] <= tail.num /\ tail.num <= uniqueNum

Drawn(b) ==
  /\ \A n \in Nodes : b[n] <= uniqueNum
  /\ \A t \in Threads : seq[t] <= uniqueNum /\ oldTail[t].num <= uniqueNum

\* Every item is in one place.
Placed(c) ==
  /\ \A n \in Nodes : Waits(c, n) => data[n] \in 1..items
  /\ \A n, m \in Nodes : Waits(c, n) /\ Waits(c, m) /\ data[n] = data[m] => n = m
  /\ \A i \in 1..Len(taken) : taken[i] \in 1..items
  /\ \A i, j \in 1..Len(taken) : taken[i] = taken[j] => i = j
  /\ \A x \in 1..items :
       (\E i \in 1..Len(taken) : taken[i] = x) <=> ~(\E n \in Nodes : Waits(c, n) /\ data[n] = x)
  /\ items <= MaxItems

\* Node o was freed, or given out again, after k was drawn: if ever it is the tail
\* again, then with a later number.
Later(b, o, k) ==
  \/ o \notin used
  \/ b[o] > k
  \/ \E u \in Producers : pc[u] = "num" /\ node[u] = o

\* If the tail is still what t has read, then nxt[t] comes behind it.
Behind(b, t) ==
  LET o == oldTail[t].node IN
  \/ Later(b, o, oldTail[t].num)
  \/ o \in used /\ next[o] = nxt[t] /\ (pc[t] # "seq" => b[nxt[t]] <= seq[t])

ProducerInv(c, b, t) ==
  LET o == oldTail[t].node IN
  /\ pc[t] \in {"idle", "num", "tail", "tailnum", "next", "link", "swap", "seq", "swing",
                "help", "size"}
  /\ pc[t] # "idle" => node[t] \in Nodes
  /\ pc[t] \in {"tailnum", "next", "link", "swap"} =>
       /\ o \in Nodes /\ (o \in used \/ next[o] # NoNode)
       /\ Detached(c, o) => data[node[t]] < data[o]
  /\ pc[t] \in {"tailnum", "next"} => next[o] # node[t]
  /\ pc[t] = "swap" => link[t] = o
  /\ pc[t] \in {"seq", "swing", "help"} => o \in Nodes /\ nxt[t] \in Nodes /\ Behind(b, t)
  /\ pc[t] = "swing" => nxt[t] = node[t]
  /\ pc[t] = "help" => nxt[t] # node[t]

ConsumerInv(b) ==
  LET t == Consumer
      o == oldTail[Consumer].node
  IN
  /\ pc[t] \in {"idle", "giveup", "num", "head", "headnum", "tail", "tailnum", "next", "same",
                "relink", "data", "seq", "advance", "free", "help", "peek", "walk", "miss"}
  /\ node[t] = NoNode
  /\ pc[t] = "headnum" => oldHead[t].node = head.node
  /\ pc[t] \in {"tail", "tailnum", "next", "same", "relink", "data", "seq", "advance", "help"} =>
       oldHead[t] = head
  /\ pc[t] \in {"tailnum", "next", "same", "relink", "data", "seq", "advance", "help"} =>
       (o # head.node => tail.node # head.node)
  /\ pc[t] = "same" => /\ nxt[t] # NoNode => nxt[t] = next[head.node]
                       /\ o # head.node => nxt[t] # NoNode
  /\ pc[t] = "relink" => o = head.node /\ next[head.node] # NoNode
  /\ pc[t] \in {"data", "seq", "advance", "help"} => nxt[t] # NoNode /\ nxt[t] = next[head.node]
  /\ pc[t] \in {"data", "advance"} => o # head.node
  /\ pc[t] = "help" => o = head.node /\ b[nxt[t]] <= seq[t]
  /\ pc[t] = "advance" \/ (pc[t] = "seq" /\ o # head.node) => item[t] = data[nxt[t]]
  /\ pc[t] = "walk" => nxt[t] \in Nodes

SizeInv == IF pc[Consumer] = "giveup" THEN size >= -1 ELSE size >= 0

Shape(c, b) == Linked(c) /\ Apart(c) /\ Heads(c) /\ InUse(c) /\ Falling(c) /\ TailOn(c, b)

QInv(c, b) ==
  /\ LinkedTypeOK /\ WitnessType(c, b) /\ SizeInv
  /\ Linked(c) /\ Apart(c) /\ Heads(c) /\ InUse(c) /\ Falling(c) /\ TailOn(c, b)
  /\ Drawn(b) /\ Placed(c)
  /\ \A t \in Producers : ProducerInv(c, b, t)
  /\ ConsumerInv(b)

QueueInv == \E c, b : QInv(c, b)

-----------------------------------------------------------------------------
(* Chains *)

\* A sequence that follows the links from n to the end, without coming back, is the
\* chain of n.
LEMMA ChainIs ==
  ASSUME QueueAssumption, LinkedTypeOK, NEW s \in Seq(Nodes), NEW n \in NodeOrNull,
         \A i \in 1..Len(s) : next[s[i]] = IF i < Len(s) THEN s[i + 1] ELSE NoNode,
         \A i, j \in 1..Len(s) : s[i] = s[j] => i = j,
         n = IF Len(s) > 0 THEN s[1] ELSE NoNode
  PROVE  Chain(n) = s /\ Len(s) <= Cardinality(Nodes)
<1> DEFINE K == Cardinality(Nodes)
           Rule(at) == at = [k \in 0..K |-> IF k = 0 THEN n
                               ELSE LET m == at[k - 1] IN IF m = NoNode THEN NoNode ELSE next[m]]
           f == [k \in 0..K |-> IF k < Len(s) THEN s[k + 1] ELSE NoNode]
           at0 == CHOOSE at : Rule(at)
<1>1. K \in Nat
  BY FS_CardinalityType DEF QueueAssumption
<1>2. Len(s) \in Nat /\ s \in [1..Len(s) -> Nodes] /\ DOMAIN s = 1..Len(s)
  BY LenProperties
<1>3. Len(s) <= K
  <2>1. s \in Injection(1..Len(s), Nodes)
    BY <1>2 DEF Injection, IsInjective
  <2>2. Cardinality(1..Len(s)) <= K
    BY <2>1, FS_Injection DEF QueueAssumption
  <2>3. Cardinality(1..Len(s)) = Len(s)
    BY <1>2, FS_Interval
  <2> QED BY <2>2, <2>3
<1>4. NoNode \notin Nodes
  BY DEF QueueAssumption
<1> HIDE DEF K
<1>5. Rule(f)
  <2> SUFFICES ASSUME NEW k \in 0..K
               PROVE f[k] = IF k = 0 THEN n
                               ELSE LET m == f[k - 1] IN IF m = NoNode THEN NoNode ELSE next[m]
    OBVIOUS
  <2>1. CASE k = 0
    BY <2>1, <1>1, <1>2
  <2>2. CASE k # 0
    <3>1. k - 1 \in 0..K /\ f[k - 1] = IF k - 1 < Len(s) THEN s[k] ELSE NoNode
      BY <2>2, <1>1, <1>2
    <3>2. CASE k - 1 < Len(s)
      <4>1. k \in 1..Len(s) /\ s[k] \in Nodes /\ f[k - 1] = s[k]
        BY <3>1, <3>2, <2>2, <1>1, <1>2
      <4>2. next[s[k]] = IF k < Len(s) THEN s[k + 1] ELSE NoNode
        BY <4>1
      <4> QED BY <4>1, <4>2, <1>4, <2>2
    <3>3. CASE ~(k - 1 < Len(s))
      <4>1. ~(k < Len(s))
        BY <3>3, <1>1, <1>2
      <4> QED BY <4>1, <3>1, <3>3, <2>2
    <3> QED BY <3>2, <3>3
  <2> QED BY <2>1, <2>2
<1>6. Rule(at0)
  BY <1>5
<1>7. \A k \in 0..K : at0[k] = f[k]
  <2> DEFINE Bad == {k \in 0..K : at0[k] # f[k]}
  <2> HIDE DEF at0, f
  <2> SUFFICES ASSUME Bad # {} PROVE FALSE
    OBVIOUS
  <2>1. Bad \in SUBSET Nat
    BY <1>1
  <2>2. PICK k \in Bad : \A y \in Bad : ~(<<y, k>> \in OpToRel(<, Nat))
    BY <2>1, WFMin, NatLessThanWellFounded
  <2>3. k \in 0..K /\ at0[k] # f[k] /\ \A y \in 0..K : y < k => at0[y] = f[y]
    <3>1. \A y \in Bad : ~(y < k)
      BY <2>1, <2>2 DEF OpToRel
    <3> QED BY <3>1, <1>1
  <2>4. CASE k = 0
    BY <2>3, <2>4, <1>5, <1>6
  <2>5. CASE k # 0
    <3>1. k - 1 \in 0..K /\ at0[k - 1] = f[k - 1]
      BY <2>3, <2>5, <1>1
    <3> QED BY <3>1, <2>3, <2>5, <1>5, <1>6
  <2> QED BY <2>4, <2>5
<1>8. Chain(n) = [i \in 1..Cardinality({k \in DOMAIN at0 : at0[k] # NoNode}) |-> at0[i - 1]]
  BY DEF Chain, K
<1>9. DOMAIN at0 = 0..K
  <2> HIDE DEF at0
  <2> QED BY <1>6
<1>10. {k \in DOMAIN at0 : at0[k] # NoNode} = 0..(Len(s) - 1)
  <2> HIDE DEF at0
  <2>1. \A k \in 0..K : f[k] # NoNode <=> k < Len(s)
    BY <1>1, <1>2, <1>4
  <2> HIDE DEF f
  <2> QED BY <2>1, <1>9, <1>7, <1>1, <1>2, <1>3
<1>11. Cardinality(0..(Len(s) - 1)) = Len(s)
  <2>1. 0 \in Int /\ Len(s) - 1 \in Int
    BY <1>2
  <2> QED BY <2>1, <1>2, FS_Interval
<1>12. Chain(n) = [i \in 1..Len(s) |-> at0[i - 1]]
  BY <1>8, <1>10, <1>11
<1>13. \A i \in 1..Len(s) : at0[i - 1] = s[i]
  <2> HIDE DEF at0
  <2> TAKE i \in 1..Len(s)
  <2>1. i - 1 \in 0..K /\ i - 1 < Len(s)
    BY <1>1, <1>2, <1>3
  <2>2. f[i - 1] = s[i]
    BY <2>1, <1>2
  <2> HIDE DEF f
  <2> QED BY <2>1, <2>2, <1>7
<1>14. s = [i \in 1..Len(s) |-> s[i]]
  BY <1>2
<1>15. [i \in 1..Len(s) |-> at0[i - 1]] = [i \in 1..Len(s) |-> s[i]]
  <2> HIDE DEF at0
  <2> QED BY <1>13
<1> HIDE DEF at0
<1> QED BY <1>12, <1>14, <1>15, <1>3 DEF K

LEMMA SeqFacts ==
  ASSUME NEW c, NEW b, WitnessType(c, b)
  PROVE  \A t \in Threads :
           /\ c[t] \in Seq(Nodes) /\ Len(c[t]) \in Nat
           /\ DOMAIN c[t] = 1..Len(c[t])
           /\ \A i \in 1..Len(c[t]) : c[t][i] \in Nodes
<1> SUFFICES ASSUME NEW t \in Threads
             PROVE  /\ c[t] \in Seq(Nodes) /\ Len(c[t]) \in Nat
                    /\ DOMAIN c[t] = 1..Len(c[t])
                    /\ \A i \in 1..Len(c[t]) : c[t][i] \in Nodes
  OBVIOUS
<1>1. c[t] \in Seq(Nodes)
  BY DEF WitnessType
<1> QED BY <1>1, LenProperties, ElementOfSeq

LEMMA EndsIn ==
  ASSUME NEW c, NEW b, QInv(c, b)
  PROVE  /\ head.node \in Nodes /\ tail.node \in Nodes
         /\ On(c, head.node) /\ On(c, tail.node)
         /\ head.node \in used /\ tail.node \in used
<1>1. Consumer \in Threads
  BY DEF Threads
<1>2. \A i \in 1..Len(c[Consumer]) : c[Consumer][i] \in Nodes
  BY <1>1, SeqFacts DEF QInv
<1>3. 1 \in 1..Len(c[Consumer]) /\ c[Consumer][1] = head.node
  BY <1>1, SeqFacts DEF QInv, Heads
<1>4. \E i \in 1..Len(c[Consumer]) : c[Consumer][i] = tail.node
  BY DEF QInv, TailOn
<1>5. head.node \in Nodes /\ tail.node \in Nodes /\ On(c, head.node) /\ On(c, tail.node)
  BY <1>1, <1>2, <1>3, <1>4 DEF On
<1> QED BY <1>5 DEF QInv, InUse

-----------------------------------------------------------------------------
(* A step of one thread *)

StepOf(t) == \/ Loop(t) \/ (t \in Producers /\ EnqueueStep(t))
             \/ (t = Consumer /\ (DequeueStep(t) \/ PeekStep(t)))

Alone(t) ==
  \A u \in Threads : u # t =>
    /\ pc'[u] = pc[u] /\ node'[u] = node[u] /\ nxt'[u] = nxt[u] /\ oldHead'[u] = oldHead[u]
    /\ oldTail'[u] = oldTail[u] /\ link'[u] = link[u] /\ seq'[u] = seq[u] /\ item'[u] = item[u]

LEMMA StepAlone ==
  ASSUME LinkedTypeOK, NEW t \in Threads, StepOf(t)
  PROVE  Alone(t)
<1> USE DEF LinkedTypeOK, Alone, Goto
<1>1. CASE Loop(t)
  BY <1>1 DEF Loop, TakeNum, ReadTail, ReadTailNum, ReadNext, ReadSeq, Help, queueVars
<1>2. CASE EnqueueStep(t)
  BY <1>2 DEF EnqueueStep, Enqueue, ReadLink, Swap, Swing, CountUp, Return, queueVars
<1>3. CASE DequeueStep(t)
  <2>1. CASE Dequeue(t) \/ GiveUp(t) \/ ReadHead(t) \/ ReadHeadNum(t) \/ Same(t)
    BY <2>1 DEF Dequeue, GiveUp, ReadHead, ReadHeadNum, Same, Return, queueVars
  <2>2. CASE ReLink(t) \/ ReadData(t) \/ Advance(t) \/ FreeHead(t)
    BY <2>2 DEF ReLink, ReadData, Advance, FreeHead, Return, queueVars
  <2> QED BY <1>3, <2>1, <2>2 DEF DequeueStep
<1>4. CASE PeekStep(t)
  BY <1>4 DEF PeekStep, Peek, PeekHead, Walk, Miss, Return, queueVars
<1> QED BY <1>1, <1>2, <1>3, <1>4 DEF StepOf

\* The steps that change nothing but the locals of their thread, and _iSize.
Core == <<head, tail, uniqueNum, next, data, used, items, taken>>

LEMMA QuietStep ==
  ASSUME NEW c, NEW b, QInv(c, b), QueueAssumption, NEW t \in Threads, Alone(t), UNCHANGED Core,
         t \in Producers => /\ pc[t] # "num" /\ pc'[t] # "num"
                            /\ Late(t)' <=> Late(t)
                            /\ Late(t) => node'[t] = node[t],
         t = Consumer => pc[t] # "free" /\ pc'[t] # "free"
  PROVE  /\ (Linked(c) /\ Apart(c) /\ Heads(c) /\ InUse(c) /\ Falling(c) /\ TailOn(c, b) /\ Placed(c))'
         /\ \A u \in Producers : u # t => ProducerInv(c, b, u)'
         /\ t # Consumer => ConsumerInv(b)'
<1> USE DEF QInv, Core
<1>1. Consumer \in Threads /\ Consumer \notin Producers /\ \A u \in Producers : u \in Threads
  BY DEF Threads, QueueAssumption
<1>2. Linked(c)' /\ Apart(c)' /\ Falling(c)' /\ TailOn(c, b)'
  BY DEF Linked, Apart, Falling, TailOn
<1>3. Placed(c)'
  BY DEF Placed, Waits
<1>4. \A u \in Producers : (Late(u)' <=> Late(u)) /\ (Late(u) => node'[u] = node[u])
  BY <1>1 DEF Alone, Late, At
<1>5. Heads(c)'
  BY <1>4 DEF Heads
<1>6. \A n \in Nodes : Dead(n)' <=> Dead(n)
  BY <1>1 DEF Dead, Alone
<1>7. InUse(c)'
  BY <1>6 DEF InUse, On
<1>8. \A o, k : Later(b, o, k)' <=> Later(b, o, k)
  BY <1>1 DEF Later, Alone
<1>9. ASSUME NEW u \in Producers, u # t
      PROVE  ProducerInv(c, b, u)'
  <2>1. pc'[u] = pc[u] /\ node'[u] = node[u] /\ nxt'[u] = nxt[u] /\ oldTail'[u] = oldTail[u]
        /\ link'[u] = link[u] /\ seq'[u] = seq[u]
    BY <1>1, <1>9 DEF Alone
  <2>2. Behind(b, u)' <=> Behind(b, u)
    BY <2>1, <1>8 DEF Behind
  <2>3. ProducerInv(c, b, u)
    OBVIOUS
  <2> QED BY <2>1, <2>2, <2>3 DEF ProducerInv, Detached
<1>10. ASSUME t # Consumer
       PROVE  ConsumerInv(b)'
  <2>1. pc'[Consumer] = pc[Consumer] /\ node'[Consumer] = node[Consumer] /\ nxt'[Consumer] = nxt[Consumer]
        /\ oldHead'[Consumer] = oldHead[Consumer] /\ oldTail'[Consumer] = oldTail[Consumer]
        /\ seq'[Consumer] = seq[Consumer] /\ item'[Consumer] = item[Consumer]
    BY <1>1, <1>10 DEF Alone
  <2> QED BY <2>1 DEF ConsumerInv
<1> QED BY <1>2, <1>3, <1>5, <1>7, <1>9, <1>10

LEMMA QuietInv ==
  ASSUME NEW c, NEW b, QInv(c, b), QueueAssumption, NEW t \in Threads, Alone(t), UNCHANGED Core,
         t \in Producers => /\ pc[t] # "num" /\ pc'[t] # "num"
                            /\ Late(t)' <=> Late(t)
                            /\ Late(t) => node'[t] = node[t]
                            /\ ProducerInv(c, b, t)',
         t = Consumer => pc[t] # "free" /\ pc'[t] # "free" /\ ConsumerInv(b)',
         LinkedTypeOK', SizeInv', Drawn(b)'
  PROVE  QInv(c, b)'
<1>1. t \in Producers \/ t = Consumer
  BY DEF Threads
<1>2. WitnessType(c, b)'
  BY DEF QInv, WitnessType
<1>3. (Linked(c) /\ Apart(c) /\ Heads(c) /\ InUse(c) /\ Falling(c) /\ TailOn(c, b) /\ Placed(c))'
  BY QuietStep
<1>4. \A u \in Producers : ProducerInv(c, b, u)'
  <2>1. \A u \in Producers : u # t => ProducerInv(c, b, u)'
    BY QuietStep
  <2> QED BY <2>1
<1>5. ConsumerInv(b)'
  <2>1. t # Consumer => ConsumerInv(b)'
    BY QuietStep
  <2> QED BY <2>1
<1> QED BY <1>2, <1>3, <1>4, <1>5 DEF QInv

\* The nodes that a thread follows a link of are nodes.
LEMMA Followed ==
  ASSUME NEW c, NEW b, QInv(c, b), QueueAssumption, NEW t \in Threads
  PROVE  /\ t \in Producers /\ pc[t] \in {"tailnum", "next", "link", "swap", "seq", "swing", "help"} =>
              oldTail[t].node \in Nodes
         /\ t = Consumer /\ pc[t] = "next" => oldHead[t].node \in Nodes
         /\ t = Consumer /\ pc[t] = "relink" => oldTail[t].node \in Nodes
         /\ t = Consumer /\ pc[t] = "walk" => nxt[t] \in Nodes
<1>1. head.node \in Nodes
  BY EndsIn
<1>2. t \in Producers => ProducerInv(c, b, t)
  BY DEF QInv
<1>3. ConsumerInv(b)
  BY DEF QInv
<1> QED BY <1>1, <1>2, <1>3 DEF ProducerInv, ConsumerInv

LEMMA ReturnType ==
  ASSUME LinkedTypeOK, NEW t \in Threads, Return(t)
  PROVE  /\ pc' = [pc EXCEPT ![t] = "idle"] /\ steps' \in [Threads -> Nat]
         /\ node' \in [Threads -> NodeOrNull] /\ nxt' \in [Threads -> NodeOrNull]
         /\ oldHead' \in [Threads -> End] /\ oldTail' \in [Threads -> End]
         /\ link' \in [Threads -> NodeOrNull] /\ seq' \in [Threads -> Nat] /\ item' \in [Threads -> Nat]
BY DEF LinkedTypeOK, Return, Goto, NoEnd, End, NodeOrNull

LEMMA TypeKeeps ==
  ASSUME NEW c, NEW b, QInv(c, b), QueueAssumption, NEW t \in Threads, StepOf(t)
  PROVE  LinkedTypeOK'
<1> USE DEF LinkedTypeOK, Goto, queueVars
<1>0. LinkedTypeOK
  BY DEF QInv
<1>1. CASE TakeNum(t)
  BY <1>0, <1>1 DEF TakeNum
<1>2. CASE ReadTail(t)
  BY <1>0, <1>2 DEF ReadTail, End
<1>3. CASE ReadTailNum(t)
  BY <1>0, <1>3 DEF ReadTailNum, End
<1>4. CASE ReadNext(t)
  <2>1. (IF t = Consumer THEN oldHead[t].node ELSE oldTail[t].node) \in Nodes
    BY <1>4, Followed DEF ReadNext, At, Threads
  <2> QED BY <1>0, <1>4, <2>1 DEF ReadNext
<1>5. CASE ReadSeq(t)
  BY <1>0, <1>5 DEF ReadSeq
<1>6. CASE Help(t)
  BY <1>0, <1>6 DEF Help, End
<1>7. CASE Enqueue(t)
  BY <1>0, <1>7 DEF Enqueue, NodeOrNull
<1>8. CASE ReadLink(t)
  BY <1>0, <1>8 DEF ReadLink, End
<1>9. CASE Swap(t)
  <2>0. node[t] \in NodeOrNull
    BY <1>0
  <2>1. next' \in [Nodes -> NodeOrNull] /\ nxt' \in [Threads -> NodeOrNull]
    <3>1. CASE next[link[t]] = NoNode
      <4>1. next' = [next EXCEPT ![link[t]] = node[t]] /\ nxt' = [nxt EXCEPT ![t] = node[t]]
        BY <1>9, <3>1 DEF Swap
      <4>2. next \in [Nodes -> NodeOrNull] /\ nxt \in [Threads -> NodeOrNull]
        BY <1>0
      <4> HIDE DEF LinkedTypeOK
      <4> QED BY <4>1, <4>2, <2>0
    <3>2. CASE next[link[t]] # NoNode
      BY <1>0, <1>9, <3>2 DEF Swap
    <3> QED BY <3>1, <3>2
  <2>2. pc' = [pc EXCEPT ![t] = "seq"] \/ pc' = [pc EXCEPT ![t] = "tail"]
    BY <1>9 DEF Swap
  <2> QED BY <1>0, <1>9, <2>1, <2>2 DEF Swap
<1>10. CASE Swing(t)
  BY <1>0, <1>10 DEF Swing, End
<1>11. CASE CountUp(t)
  <2>1. size' \in Nat \cup {-1}
    BY <1>0, <1>11 DEF CountUp
  <2>2. Return(t)
    BY <1>11 DEF CountUp
  <2> QED BY <1>0, <1>11, <2>1, <2>2, ReturnType DEF CountUp
<1>12. CASE (Dequeue(t) \/ GiveUp(t)) /\ t = Consumer
  <2>1. SizeInv
    BY DEF QInv
  <2>2. size' \in Nat \cup {-1}
    BY <1>0, <1>12, <2>1 DEF Dequeue, GiveUp, SizeInv, At
  <2>3. pc' = [pc EXCEPT ![t] = "giveup"] \/ pc' = [pc EXCEPT ![t] = "num"] \/ pc' = [pc EXCEPT ![t] = "idle"]
    BY <1>12 DEF Dequeue, GiveUp
  <2> QED BY <1>0, <1>12, <2>2, <2>3 DEF Dequeue, GiveUp
<1>13. CASE ReadHead(t)
  BY <1>0, <1>13 DEF ReadHead, End
<1>14. CASE ReadHeadNum(t)
  BY <1>0, <1>14 DEF ReadHeadNum, End
<1>15. CASE Same(t)
  BY <1>0, <1>15, ReturnType DEF Same
<1>16. CASE ReLink(t) /\ t = Consumer
  <2>1. oldTail[t].node \in Nodes
    BY <1>16, Followed DEF ReLink, At
  <2> QED BY <1>0, <1>16, <2>1 DEF ReLink
<1>17. CASE ReadData(t)
  BY <1>0, <1>17 DEF ReadData, NodeOrNull
<1>18. CASE Advance(t)
  <2>1. head' \in End /\ taken' \in Seq(Nat)
    <3>1. nxt[t] \in NodeOrNull /\ seq[t] \in Nat /\ item[t] \in Nat /\ taken \in Seq(Nat) /\ head \in End
      BY <1>0
    <3>2. CASE head = oldHead[t]
      <4>1. head' = [node |-> nxt[t], num |-> seq[t]] /\ taken' = Append(taken, item[t])
        BY <1>18, <3>2 DEF Advance
      <4> QED BY <3>1, <4>1, AppendProperties DEF End
    <3>3. CASE head # oldHead[t]
      BY <1>18, <3>1, <3>3 DEF Advance
    <3> QED BY <3>2, <3>3
  <2>2. pc' = [pc EXCEPT ![t] = "free"] \/ pc' = [pc EXCEPT ![t] = "head"]
    BY <1>18 DEF Advance
  <2> QED BY <1>0, <1>18, <2>1, <2>2 DEF Advance
<1>19. CASE FreeHead(t)
  BY <1>0, <1>19, ReturnType DEF FreeHead
<1>20. CASE Peek(t)
  BY <1>0, <1>20 DEF Peek
<1>21. CASE PeekHead(t)
  BY <1>0, <1>21 DEF PeekHead, End
<1>22. CASE Walk(t) /\ t = Consumer
  <2>1. nxt[t] \in Nodes
    BY <1>22, Followed DEF Walk, At
  <2>2. CASE next[nxt[t]] # NoNode /\ steps[t] = 0
    BY <1>0, <1>22, <2>2, ReturnType DEF Walk
  <2>3. CASE ~(next[nxt[t]] # NoNode /\ steps[t] = 0)
    <3>1. steps' \in [Threads -> Nat] /\ nxt' \in [Threads -> NodeOrNull]
      <4>1. next[nxt[t]] \in NodeOrNull /\ steps[t] \in Nat
        BY <1>0, <2>1
      <4>2. (IF next[nxt[t]] = NoNode THEN 0 ELSE steps[t] - 1) \in Nat
        BY <4>1, <2>3
      <4>3. nxt' = [nxt EXCEPT ![t] = next[nxt[t]]]
            /\ steps' = [steps EXCEPT ![t] = IF next[nxt[t]] = NoNode THEN 0 ELSE steps[t] - 1]
        BY <1>22, <2>3 DEF Walk
      <4> QED BY <1>0, <4>1, <4>2, <4>3
    <3>2. pc' = [pc EXCEPT ![t] = "miss"] \/ pc' = [pc EXCEPT ![t] = "walk"]
      BY <1>22, <2>3 DEF Walk
    <3> QED BY <1>0, <1>22, <2>3, <3>1, <3>2 DEF Walk
  <2> QED BY <2>2, <2>3
<1>23. CASE Miss(t)
  BY <1>0, <1>23, ReturnType DEF Miss
<1> QED
  BY <1>1, <1>2, <1>3, <1>4, <1>5, <1>6, <1>7, <1>8, <1>9, <1>10, <1>11, <1>12, <1>13, <1>14, <1>15,
     <1>16, <1>17, <1>18, <1>19, <1>20, <1>21, <1>22, <1>23
     DEF StepOf, Loop, EnqueueStep, DequeueStep, PeekStep

-----------------------------------------------------------------------------
(* Steps that only read *)

\* A producer that is about to read the tail again finds the node it has read before.
LinkTail == \A t \in Producers : pc[t] = "link" => tail.node = oldTail[t].node

LEMMA ProducerReads ==
  ASSUME NEW c, NEW b, QInv(c, b), QueueAssumption, LinkTail, NEW t \in Producers,
         \/ ReadTail(t) \/ ReadTailNum(t) \/ ReadNext(t) \/ ReadLink(t) \/ ReadSeq(t) \/ CountUp(t)
         \/ (Swap(t) /\ next[link[t]] # NoNode)
  PROVE  QInv(c, b)'
<1>0. t \in Threads /\ t # Consumer /\ Consumer \in Threads
  BY DEF Threads, QueueAssumption
<1>1. LinkedTypeOK /\ ProducerInv(c, b, t) /\ Drawn(b) /\ SizeInv
  BY DEF QInv
<1>2. StepOf(t)
  BY DEF StepOf, Loop, EnqueueStep
<1>3. LinkedTypeOK' /\ Alone(t)
  BY <1>0, <1>1, <1>2, TypeKeeps, StepAlone
<1>4. UNCHANGED Core
  BY DEF Core, queueVars, ReadTail, ReadTailNum, ReadNext, ReadLink, ReadSeq, CountUp, Swap
<1>5. pc'[Consumer] = pc[Consumer] /\ size' \in {size, size + 1}
  BY <1>0, <1>3 DEF Alone, queueVars, ReadTail, ReadTailNum, ReadNext, ReadLink, ReadSeq, CountUp, Swap
<1>6. SizeInv'
  BY <1>1, <1>5 DEF SizeInv, LinkedTypeOK
<1>7. SUFFICES /\ pc[t] # "num" /\ pc'[t] # "num"
               /\ Late(t)' <=> Late(t)
               /\ Late(t) => node'[t] = node[t]
               /\ ProducerInv(c, b, t)'
               /\ Drawn(b)'
  BY <1>0, <1>3, <1>4, <1>6, QuietInv
<1>8. tail.node \in Nodes /\ tail.node \in used /\ tail.num <= uniqueNum /\ tail.num \in Nat
      /\ ~Detached(c, tail.node)
  <2>1. ~Detached(c, tail.node)
    BY <1>0 DEF QInv, TailOn, Detached, Apart, Threads
  <2> QED BY <2>1, <1>1, EndsIn DEF QInv, TailOn, LinkedTypeOK, End
<1>9. \A o, k : Later(b, o, k)' <=> Later(b, o, k)
  <2>1. pc[t] # "num" /\ pc'[t] # "num"
    BY <1>0, <1>1 DEF LinkedTypeOK, ReadTail, ReadTailNum, ReadNext, ReadLink, ReadSeq, CountUp, Swap, At, Goto, Return
  <2> QED BY <2>1, <1>0, <1>3, <1>4 DEF Later, Alone, Core, Threads
<1>10. CASE ReadTail(t)
  <2>1. pc[t] = "tail" /\ pc'[t] = "tailnum" /\ oldTail'[t].node = tail.node /\ oldTail'[t].num = oldTail[t].num
        /\ node' = node /\ seq' = seq /\ \A u \in Threads : oldTail'[u].num = oldTail[u].num
    BY <1>0, <1>1, <1>10 DEF ReadTail, At, Goto, LinkedTypeOK, End
  <2>2. node[t] \in Nodes
    BY <1>1, <2>1 DEF ProducerInv
  <2>3. next[tail.node] # node[t]
    <3>1. c[t][1] = node[t] /\ 1 \in 1..Len(c[t])
      BY <1>0, <2>1, SeqFacts DEF QInv, Heads, Late
    <3>2. PICK i \in 1..Len(c[Consumer]) : c[Consumer][i] = tail.node
      BY DEF QInv, TailOn
    <3>3. next[tail.node] = IF i < Len(c[Consumer]) THEN c[Consumer][i + 1] ELSE NoNode
      BY <1>0, <3>2 DEF QInv, Linked
    <3>4. Len(c[Consumer]) \in Nat
      BY <1>0, SeqFacts DEF QInv
    <3>5. i < Len(c[Consumer]) => c[Consumer][i + 1] # c[t][1]
      BY <1>0, <3>1, <3>4 DEF QInv, Apart
    <3> QED BY <3>1, <3>3, <3>5, <2>2 DEF QueueAssumption
  <2>4. ProducerInv(c, b, t)'
    BY <2>1, <2>2, <2>3, <1>4, <1>8 DEF ProducerInv, Detached, Core
  <2> QED BY <2>1, <2>4, <1>1, <1>4 DEF Late, At, Drawn, Core
<1>11. CASE ReadTailNum(t)
  <2>1. pc[t] = "tailnum" /\ pc'[t] = "next" /\ oldTail'[t].node = oldTail[t].node /\ oldTail'[t].num = tail.num
        /\ node' = node /\ seq' = seq /\ \A u \in Threads : u # t => oldTail'[u].num = oldTail[u].num
    BY <1>0, <1>1, <1>11 DEF ReadTailNum, At, Goto, LinkedTypeOK, End
  <2>2. ProducerInv(c, b, t)'
    BY <2>1, <1>1, <1>4 DEF ProducerInv, Detached, Core
  <2> QED BY <2>1, <2>2, <1>1, <1>4, <1>8 DEF Late, At, Drawn, Core
<1>12. CASE ReadNext(t)
  <2>1. pc[t] = "next" /\ nxt'[t] = next[oldTail[t].node] /\ oldTail' = oldTail /\ node' = node /\ seq' = seq
        /\ pc'[t] = IF nxt'[t] = NoNode THEN "link" ELSE "seq"
    BY <1>0, <1>1, <1>12 DEF ReadNext, At, Goto, LinkedTypeOK
  <2>2. oldTail[t].node \in Nodes /\ next[oldTail[t].node] # node[t] /\ nxt'[t] \in NodeOrNull
    BY <1>1, <2>1 DEF ProducerInv, LinkedTypeOK
  <2>3. pc'[t] = "seq" => Behind(b, t)'
    <3>1. oldTail[t].node \in used \/ Later(b, oldTail[t].node, oldTail[t].num)
      BY DEF Later
    <3> QED BY <2>1, <3>1, <1>4, <1>9 DEF Behind, Core
  <2>4. ProducerInv(c, b, t)'
    BY <2>1, <2>2, <2>3, <1>1, <1>4 DEF ProducerInv, Detached, Core, NodeOrNull
  <2> QED BY <2>1, <2>2, <2>4, <1>1, <1>4 DEF Late, At, Drawn, Core
<1>13. CASE ReadLink(t)
  <2>1. pc[t] = "link" /\ pc'[t] = "swap" /\ link'[t] = oldTail[t].node /\ oldTail' = oldTail /\ node' = node
        /\ seq' = seq
    BY <1>0, <1>1, <1>13 DEF ReadLink, LinkTail, At, Goto, LinkedTypeOK
  <2>2. ProducerInv(c, b, t)'
    BY <2>1, <1>1, <1>4 DEF ProducerInv, Detached, Core
  <2> QED BY <2>1, <2>2, <1>1, <1>4 DEF Late, At, Drawn, Core
<1>14. CASE ReadSeq(t)
  <2>1. pc[t] = "seq" /\ seq'[t] = uniqueNum /\ oldTail' = oldTail /\ node' = node /\ nxt' = nxt
        /\ pc'[t] = (IF nxt[t] = node[t] THEN "swing" ELSE "help")
        /\ \A u \in Threads : u # t => seq'[u] = seq[u]
    BY <1>0, <1>1, <1>14 DEF ReadSeq, At, Goto, LinkedTypeOK
  <2>2. oldTail[t].node \in Nodes /\ nxt[t] \in Nodes /\ Behind(b, t) /\ node[t] \in Nodes
    BY <1>1, <2>1 DEF ProducerInv
  <2>3. Behind(b, t)'
    BY <2>1, <2>2, <1>1, <1>4, <1>9 DEF Behind, Core, Drawn
  <2>4. ProducerInv(c, b, t)'
    BY <2>1, <2>2, <2>3 DEF ProducerInv
  <2>5. uniqueNum <= uniqueNum
    BY <1>1 DEF LinkedTypeOK
  <2> QED BY <2>1, <2>4, <2>5, <1>1, <1>4 DEF Late, At, Drawn, Core
<1>15. CASE CountUp(t)
  <2>1. pc[t] = "size" /\ pc'[t] = "idle" /\ seq'[t] = 0 /\ oldTail'[t].num = 0
    BY <1>0, <1>1, <1>15 DEF CountUp, At, Goto, Return, LinkedTypeOK, NoEnd
  <2>2. ProducerInv(c, b, t)'
    BY <2>1 DEF ProducerInv
  <2>3. Drawn(b)'
    <3>1. uniqueNum' = uniqueNum /\ 0 <= uniqueNum
      BY <1>1, <1>4 DEF Core, LinkedTypeOK
    <3>2. \A u \in Threads : seq'[u] \in {0, seq[u]} /\ oldTail'[u].num \in {0, oldTail[u].num}
      BY <2>1, <1>3 DEF Alone
    <3> QED BY <3>1, <3>2, <1>1 DEF Drawn
  <2> QED BY <2>1, <2>2, <2>3 DEF Late, At
<1>16. CASE Swap(t) /\ next[link[t]] # NoNode
  <2>1. pc[t] = "swap" /\ pc'[t] = "tail" /\ oldTail' = oldTail /\ node' = node /\ seq' = seq
    BY <1>0, <1>1, <1>16 DEF Swap, At, Goto, LinkedTypeOK
  <2>2. ProducerInv(c, b, t)'
    BY <2>1, <1>1 DEF ProducerInv
  <2> QED BY <2>1, <2>2, <1>1, <1>4 DEF Late, At, Drawn, Core
<1> QED BY <1>10, <1>11, <1>12, <1>13, <1>14, <1>15, <1>16

\* While the tail is not the head, something comes behind the head.
LEMMA HeadNext ==
  ASSUME NEW c, NEW b, QInv(c, b), QueueAssumption
  PROVE  /\ tail.node # head.node => next[head.node] # NoNode
         /\ next[head.node] # NoNode => /\ Len(c[Consumer]) > 1
                                        /\ next[head.node] = c[Consumer][2]
                                        /\ next[head.node] \in Nodes
<1>1. Consumer \in Threads
  BY DEF Threads
<1>2. Len(c[Consumer]) \in Nat /\ Len(c[Consumer]) > 0 /\ c[Consumer][1] = head.node
      /\ \A i \in 1..Len(c[Consumer]) : c[Consumer][i] \in Nodes
  BY <1>1, SeqFacts DEF QInv, Heads
<1>3. next[head.node] = IF 1 < Len(c[Consumer]) THEN c[Consumer][2] ELSE NoNode
  <2>1. 1 \in 1..Len(c[Consumer]) /\ 1 + 1 = 2
    BY <1>2
  <2> QED BY <1>1, <1>2, <2>1 DEF QInv, Linked
<1>4. PICK i \in 1..Len(c[Consumer]) : c[Consumer][i] = tail.node
  BY DEF QInv, TailOn
<1>5. 1 < Len(c[Consumer]) => c[Consumer][2] \in Nodes
  BY <1>2
<1> QED BY <1>2, <1>3, <1>4, <1>5 DEF QueueAssumption

LEMMA ConsumerReads ==
  ASSUME NEW c, NEW b, QInv(c, b), QueueAssumption, NEW t, t = Consumer,
         \/ ReadTail(t) \/ ReadTailNum(t) \/ ReadNext(t) \/ ReadSeq(t) \/ Dequeue(t) \/ GiveUp(t)
         \/ ReadHead(t) \/ ReadHeadNum(t) \/ Same(t) \/ ReLink(t) \/ ReadData(t)
         \/ Peek(t) \/ PeekHead(t) \/ Walk(t) \/ Miss(t)
  PROVE  QInv(c, b)'
<1>0. t \in Threads /\ t \notin Producers
  BY DEF Threads, QueueAssumption
<1>1. LinkedTypeOK /\ ConsumerInv(b) /\ Drawn(b) /\ SizeInv
  BY DEF QInv
<1>2. StepOf(t)
  BY DEF StepOf, Loop, DequeueStep, PeekStep
<1>3. LinkedTypeOK' /\ Alone(t)
  BY <1>0, <1>1, <1>2, TypeKeeps, StepAlone
<1>4. UNCHANGED Core
  BY DEF Core, queueVars, ReadTail, ReadTailNum, ReadNext, ReadSeq, Dequeue, GiveUp, ReadHead, ReadHeadNum,
         Same, ReLink, ReadData, Peek, PeekHead, Walk, Miss
<1>5. SUFFICES pc[t] # "free" /\ pc'[t] # "free" /\ ConsumerInv(b)' /\ Drawn(b)' /\ SizeInv'
  BY <1>0, <1>3, <1>4, QuietInv
<1>6. /\ head.node \in Nodes /\ tail.node \in Nodes /\ tail.num <= uniqueNum
      /\ tail.node # head.node => next[head.node] # NoNode
      /\ next[head.node] # NoNode => next[head.node] \in Nodes
  BY EndsIn, HeadNext DEF QInv, TailOn
<1>7. NoNode \notin Nodes /\ uniqueNum <= uniqueNum /\ 0 <= uniqueNum
  BY <1>1 DEF QueueAssumption, LinkedTypeOK
\* What a step leaves alone is enough for the sizes and the numbers.
<1>8. ASSUME size' = size, pc[t] # "giveup", pc'[t] # "giveup" PROVE SizeInv'
  BY <1>1, <1>8 DEF SizeInv
<1>9. ASSUME oldTail' = oldTail, seq' = seq PROVE Drawn(b)'
  BY <1>1, <1>4, <1>9 DEF Drawn, Core
<1>10. ASSUME Return(t), pc[t] # "free", pc[t] # "giveup", size' = size
       PROVE  pc[t] # "free" /\ pc'[t] # "free" /\ ConsumerInv(b)' /\ Drawn(b)' /\ SizeInv'
  <2>1. pc'[t] = "idle" /\ node'[t] = NoNode /\ seq'[t] = 0 /\ oldTail'[t].num = 0
    BY <1>0, <1>1, <1>10 DEF Return, Goto, LinkedTypeOK, NoEnd
  <2>2. ConsumerInv(b)'
    BY <2>1 DEF ConsumerInv
  <2>3. Drawn(b)'
    <3>1. \A u \in Threads : seq'[u] \in {0, seq[u]} /\ oldTail'[u].num \in {0, oldTail[u].num}
      BY <2>1, <1>3 DEF Alone
    <3> QED BY <3>1, <1>1, <1>4, <1>7 DEF Drawn, Core
  <2> QED BY <2>1, <2>2, <2>3, <1>8, <1>10
<1>11. CASE ReadTail(t)
  <2>1. pc[t] = "tail" /\ pc'[t] = "tailnum" /\ oldTail'[t].node = tail.node /\ oldTail'[t].num = oldTail[t].num
        /\ node' = node /\ seq' = seq /\ oldHead' = oldHead /\ size' = size
        /\ \A u \in Threads : oldTail'[u].num = oldTail[u].num
    BY <1>0, <1>1, <1>11 DEF ReadTail, At, Goto, LinkedTypeOK, End, queueVars
  <2>2. ConsumerInv(b)'
    BY <2>1, <1>1, <1>4 DEF ConsumerInv, Core
  <2> QED BY <2>1, <2>2, <1>1, <1>4, <1>8 DEF Drawn, Core
<1>12. CASE ReadTailNum(t)
  <2>1. pc[t] = "tailnum" /\ pc'[t] = "next" /\ oldTail'[t].node = oldTail[t].node /\ oldTail'[t].num = tail.num
        /\ node' = node /\ seq' = seq /\ oldHead' = oldHead /\ size' = size
        /\ \A u \in Threads : u # t => oldTail'[u].num = oldTail[u].num
    BY <1>0, <1>1, <1>12 DEF ReadTailNum, At, Goto, LinkedTypeOK, End, queueVars
  <2>2. ConsumerInv(b)'
    BY <2>1, <1>1, <1>4 DEF ConsumerInv, Core
  <2> QED BY <2>1, <2>2, <1>1, <1>4, <1>6, <1>8 DEF Drawn, Core
<1>13. CASE ReadNext(t)
  <2>1. pc[t] = "next" /\ pc'[t] = "same" /\ nxt'[t] = next[oldHead[t].node] /\ oldTail' = oldTail
        /\ node' = node /\ seq' = seq /\ oldHead' = oldHead /\ size' = size
    BY <1>0, <1>1, <1>13 DEF ReadNext, At, Goto, LinkedTypeOK, queueVars
  <2>2. ConsumerInv(b)'
    BY <2>1, <1>1, <1>4, <1>6 DEF ConsumerInv, Core
  <2> QED BY <2>1, <2>2, <1>8, <1>9
<1>14. CASE ReadSeq(t)
  <2>1. pc[t] = "seq" /\ seq'[t] = uniqueNum /\ oldTail' = oldTail /\ node' = node /\ nxt' = nxt /\ item' = item
        /\ pc'[t] = (IF oldHead[t].node # oldTail[t].node THEN "advance"
                     ELSE IF nxt[t] = node[t] THEN "swing" ELSE "help")
        /\ oldHead' = oldHead /\ size' = size
        /\ \A u \in Threads : u # t => seq'[u] = seq[u]
    BY <1>0, <1>1, <1>14 DEF ReadSeq, At, Goto, LinkedTypeOK, queueVars
  <2>2. nxt[t] # node[t] /\ oldHead[t] = head /\ nxt[t] \in Nodes
    BY <2>1, <1>1, <1>6 DEF ConsumerInv
  <2>3. b[nxt[t]] <= uniqueNum
    BY <2>2, <1>1 DEF Drawn
  <2>4. ConsumerInv(b)'
    BY <2>1, <2>2, <2>3, <1>1, <1>4 DEF ConsumerInv, Core
  <2>5. Drawn(b)'
    BY <2>1, <1>1, <1>4, <1>7 DEF Drawn, Core
  <2> QED BY <2>1, <2>4, <2>5, <1>8
<1>15. CASE Dequeue(t)
  <2>1. pc[t] = "idle" /\ size' = size - 1 /\ pc'[t] = (IF size - 1 < 0 THEN "giveup" ELSE "num")
        /\ node' = node /\ oldTail' = oldTail /\ seq' = seq
    BY <1>0, <1>1, <1>15 DEF Dequeue, At, Goto, LinkedTypeOK
  <2>2. ConsumerInv(b)'
    BY <2>1, <1>1 DEF ConsumerInv
  <2>3. SizeInv'
    BY <2>1, <1>1 DEF SizeInv, LinkedTypeOK
  <2> QED BY <2>1, <2>2, <2>3, <1>9
<1>16. CASE GiveUp(t)
  <2>1. pc[t] = "giveup" /\ size' = size + 1 /\ pc'[t] = "idle" /\ node' = node /\ oldTail' = oldTail /\ seq' = seq
    BY <1>0, <1>1, <1>16 DEF GiveUp, At, Goto, LinkedTypeOK
  <2>2. ConsumerInv(b)'
    BY <2>1, <1>1 DEF ConsumerInv
  <2>3. SizeInv'
    BY <2>1, <1>1 DEF SizeInv, LinkedTypeOK
  <2> QED BY <2>1, <2>2, <2>3, <1>9
<1>17. CASE ReadHead(t)
  <2>1. pc[t] = "head" /\ pc'[t] = "headnum" /\ oldHead'[t].node = head.node /\ node' = node /\ oldTail' = oldTail
        /\ seq' = seq /\ size' = size
    BY <1>0, <1>1, <1>17 DEF ReadHead, At, Goto, LinkedTypeOK, End, queueVars
  <2>2. ConsumerInv(b)'
    BY <2>1, <1>1, <1>4 DEF ConsumerInv, Core
  <2> QED BY <2>1, <2>2, <1>8, <1>9
<1>18. CASE ReadHeadNum(t)
  <2>1. pc[t] = "headnum" /\ pc'[t] = "tail" /\ oldHead'[t] = [oldHead[t] EXCEPT !.num = head.num] /\ node' = node
        /\ oldTail' = oldTail /\ seq' = seq /\ size' = size
    BY <1>0, <1>1, <1>18 DEF ReadHeadNum, At, Goto, LinkedTypeOK, End, queueVars
  <2>2. oldHead'[t] = head
    <3>1. oldHead[t] \in End /\ head \in End /\ oldHead[t].node = head.node
      BY <2>1, <1>0, <1>1 DEF LinkedTypeOK, ConsumerInv
    <3> QED BY <2>1, <3>1 DEF End
  <2>3. ConsumerInv(b)'
    BY <2>1, <2>2, <1>1, <1>4 DEF ConsumerInv, Core
  <2> QED BY <2>1, <2>3, <1>8, <1>9
<1>19. CASE Same(t)
  <2>1. pc[t] = "same" /\ oldHead[t] = head /\ size' = size
    BY <1>1, <1>19 DEF Same, At, ConsumerInv, queueVars
  <2>2. CASE oldHead[t].node = oldTail[t].node /\ nxt[t] = NoNode
    BY <2>1, <2>2, <1>10, <1>19 DEF Same
  <2>3. CASE ~(oldHead[t].node = oldTail[t].node /\ nxt[t] = NoNode)
    <3>1. pc'[t] = (IF oldHead[t].node = oldTail[t].node THEN "relink" ELSE "data")
          /\ node' = node /\ nxt' = nxt /\ oldHead' = oldHead /\ oldTail' = oldTail /\ seq' = seq
      BY <2>1, <2>3, <1>0, <1>1, <1>19 DEF Same, Goto, LinkedTypeOK
    <3>2. ConsumerInv(b)'
      BY <2>1, <2>3, <3>1, <1>1, <1>4, <1>6 DEF ConsumerInv, Core
    <3> QED BY <2>1, <3>1, <3>2, <1>8, <1>9
  <2> QED BY <2>2, <2>3
<1>20. CASE ReLink(t)
  <2>1. pc[t] = "relink" /\ pc'[t] = "seq" /\ nxt'[t] = next[oldTail[t].node] /\ node' = node /\ oldHead' = oldHead
        /\ oldTail' = oldTail /\ seq' = seq /\ size' = size
    BY <1>0, <1>1, <1>20 DEF ReLink, At, Goto, LinkedTypeOK, queueVars
  <2>2. ConsumerInv(b)'
    BY <2>1, <1>1, <1>4 DEF ConsumerInv, Core
  <2> QED BY <2>1, <2>2, <1>8, <1>9
<1>21. CASE ReadData(t)
  <2>1. pc[t] = "data" /\ pc'[t] = "seq" /\ item'[t] = data[nxt[t]] /\ nxt' = nxt /\ node' = node
        /\ oldHead' = oldHead /\ oldTail' = oldTail /\ seq' = seq /\ size' = size
    BY <1>0, <1>1, <1>21 DEF ReadData, At, Goto, LinkedTypeOK, queueVars
  <2>2. ConsumerInv(b)'
    BY <2>1, <1>1, <1>4 DEF ConsumerInv, Core
  <2> QED BY <2>1, <2>2, <1>8, <1>9
<1>22. CASE Peek(t)
  <2>1. pc[t] = "idle" /\ pc'[t] = "peek" /\ node' = node /\ oldTail' = oldTail /\ seq' = seq /\ size' = size
    BY <1>0, <1>1, <1>22 DEF Peek, At, Goto, LinkedTypeOK, queueVars
  <2>2. ConsumerInv(b)'
    BY <2>1, <1>1 DEF ConsumerInv
  <2> QED BY <2>1, <2>2, <1>8, <1>9
<1>23. CASE PeekHead(t)
  <2>1. pc[t] = "peek" /\ pc'[t] = "walk" /\ nxt'[t] = head.node /\ node' = node /\ oldTail' = oldTail
        /\ seq' = seq /\ size' = size
    BY <1>0, <1>1, <1>23 DEF PeekHead, At, Goto, LinkedTypeOK, queueVars
  <2>2. ConsumerInv(b)'
    BY <2>1, <1>1, <1>6 DEF ConsumerInv
  <2> QED BY <2>1, <2>2, <1>8, <1>9
<1>24. CASE Walk(t)
  <2>1. pc[t] = "walk" /\ size' = size
    BY <1>24 DEF Walk, At, queueVars
  <2>2. CASE next[nxt[t]] # NoNode /\ steps[t] = 0
    BY <2>1, <2>2, <1>10, <1>24 DEF Walk
  <2>3. CASE ~(next[nxt[t]] # NoNode /\ steps[t] = 0)
    <3>1. pc'[t] = (IF next[nxt[t]] = NoNode THEN "miss" ELSE "walk") /\ nxt'[t] = next[nxt[t]] /\ node' = node
          /\ oldTail' = oldTail /\ seq' = seq
      BY <2>3, <1>0, <1>1, <1>24 DEF Walk, Goto, LinkedTypeOK
    <3>2. nxt[t] \in Nodes /\ next[nxt[t]] \in NodeOrNull
      BY <2>1, <1>1 DEF ConsumerInv, LinkedTypeOK
    <3>3. ConsumerInv(b)'
      BY <2>1, <3>1, <3>2, <1>1 DEF ConsumerInv, NodeOrNull
    <3> QED BY <2>1, <3>1, <3>3, <1>8, <1>9
  <2> QED BY <2>2, <2>3
<1>25. CASE Miss(t)
  BY <1>10, <1>25 DEF Miss, At, queueVars
<1> QED
  BY <1>11, <1>12, <1>13, <1>14, <1>15, <1>16, <1>17, <1>18, <1>19, <1>20, <1>21, <1>22, <1>23, <1>24, <1>25

-----------------------------------------------------------------------------
(* What a step may not do to the other threads *)

\* A node that is not linked yet comes behind no node in use.
LEMMA NotLinked ==
  ASSUME NEW c, NEW b, QInv(c, b), QueueAssumption, NEW t \in Producers, Late(t)
  PROVE  /\ node[t] \in Nodes /\ node[t] \in used /\ c[t] # <<>> /\ c[t][1] = node[t] /\ 1 \in 1..Len(c[t])
         /\ \A n \in Nodes : n \in used => next[n] # node[t]
<1>1. t \in Threads /\ t # Consumer /\ Consumer \in Threads
  BY DEF Threads, QueueAssumption
<1>2. 1 \in 1..Len(c[t]) /\ c[t][1] = node[t] /\ c[t] # <<>> /\ node[t] \in Nodes
  <2>1. Len(c[t]) > 0 /\ c[t][1] = node[t]
    BY DEF QInv, Heads
  <2>2. Len(c[t]) \in Nat /\ \A i \in 1..Len(c[t]) : c[t][i] \in Nodes
    BY <1>1, SeqFacts DEF QInv
  <2>3. 1 \in 1..Len(c[t])
    BY <2>1, <2>2
  <2>4. c[t] # <<>>
    BY <2>1, EmptySeq
  <2> QED BY <2>1, <2>2, <2>3, <2>4
<1>3. node[t] \in used /\ On(c, node[t])
  BY <1>1, <1>2 DEF QInv, InUse, On
<1>4. ASSUME NEW n \in Nodes, n \in used PROVE next[n] # node[t]
  <2>1. CASE Dead(n)
    <3>1. next[n] = head.node /\ head.node = c[Consumer][1] /\ 1 \in 1..Len(c[Consumer])
      BY <1>1, <2>1, SeqFacts DEF QInv, InUse, Heads
    <3> QED BY <1>1, <1>2, <3>1 DEF QInv, Apart
  <2>2. CASE On(c, n)
    <3>0. PICK u \in Threads : \E i \in 1..Len(c[u]) : c[u][i] = n
      BY <2>2 DEF On
    <3>1. PICK i \in 1..Len(c[u]) : c[u][i] = n
      BY <3>0
    <3>2. next[n] = IF i < Len(c[u]) THEN c[u][i + 1] ELSE NoNode
      BY <3>1 DEF QInv, Linked
    <3>3. Len(c[u]) \in Nat
      BY SeqFacts DEF QInv
    <3>4. CASE i < Len(c[u])
      <4>1. i + 1 \in 1..Len(c[u]) /\ i + 1 # 1
        BY <3>3, <3>4
      <4>2. c[u][i + 1] # c[t][1]
        BY <4>1, <1>1, <1>2 DEF QInv, Apart
      <4> QED BY <3>2, <3>4, <4>2, <1>2
    <3>5. CASE ~(i < Len(c[u]))
      BY <3>2, <3>5, <1>2 DEF QueueAssumption
    <3> QED BY <3>4, <3>5
  <2> QED BY <1>4, <2>1, <2>2 DEF QInv, InUse
<1> QED BY <1>2, <1>3, <1>4

LaterStays(b, d) ==
  \A o \in Nodes, k \in Nat : k <= uniqueNum /\ Later(b, o, k) => Later(d, o, k)'

LinksStay(b, d) ==
  \A o \in Nodes : o \in used /\ next[o] \in Nodes =>
    \/ o \in used' /\ next'[o] = next[o] /\ d[next[o]] = b[next[o]]
    \/ \A k \in Nat : k <= uniqueNum => Later(d, o, k)'

LEMMA ProducersKeep ==
  ASSUME NEW c, NEW b, NEW e, NEW d, QInv(c, b), QueueAssumption, NEW t \in Threads, Alone(t),
         LaterStays(b, d), LinksStay(b, d),
         \A o \in Nodes : o \in used \/ next[o] # NoNode => o \in used' \/ next'[o] # NoNode,
         \A u \in Producers, o \in Nodes :
           u # t /\ Late(u) =>
             /\ Detached(e, o) /\ (Detached(c, o) => data[node[u]] < data[o]) => data'[node[u]] < data'[o]
             /\ next[o] # node[u] => next'[o] # node[u]
  PROVE  \A u \in Producers : u # t => ProducerInv(e, d, u)'
<1> SUFFICES ASSUME NEW u \in Producers, u # t
             PROVE  ProducerInv(e, d, u)'
  OBVIOUS
<1>1. pc'[u] = pc[u] /\ node'[u] = node[u] /\ nxt'[u] = nxt[u] /\ oldTail'[u] = oldTail[u]
      /\ link'[u] = link[u] /\ seq'[u] = seq[u]
  BY DEF Alone, Threads
<1>2. ProducerInv(c, b, u)
  BY DEF QInv
<1>3. ASSUME pc[u] \in {"seq", "swing", "help"}
      PROVE  Behind(d, u)'
  <2>0. PICK o, k : o = oldTail[u].node /\ k = oldTail[u].num
    OBVIOUS
  <2>1. o \in Nodes /\ nxt[u] \in Nodes /\ Behind(b, u)
    BY <2>0, <1>2, <1>3 DEF ProducerInv
  <2>2. k \in Nat /\ k <= uniqueNum
    BY <2>0 DEF QInv, LinkedTypeOK, End, Drawn, Threads
  <2>3. CASE Later(b, o, k)
    <3>1. Later(d, o, k)'
      BY <2>1, <2>2, <2>3 DEF LaterStays
    <3> QED BY <2>0, <3>1, <1>1 DEF Behind
  <2>4. CASE o \in used /\ next[o] = nxt[u] /\ (pc[u] # "seq" => b[nxt[u]] <= seq[u])
    <3>1. CASE o \in used' /\ next'[o] = next[o] /\ d[next[o]] = b[next[o]]
      BY <2>0, <2>4, <3>1, <1>1 DEF Behind
    <3>2. CASE Later(d, o, k)'
      BY <2>0, <3>2, <1>1 DEF Behind
    <3> QED BY <2>1, <2>2, <2>4, <3>1, <3>2 DEF LinksStay
  <2> QED BY <2>0, <2>1, <2>3, <2>4 DEF Behind
<1>4. ASSUME pc[u] \in {"tailnum", "next", "link", "swap"}
      PROVE  LET o == oldTail[u].node IN
             /\ o \in Nodes /\ (o \in used' \/ next'[o] # NoNode)
             /\ Detached(e, o) => data'[node[u]] < data'[o]
             /\ next[o] # node[u] => next'[o] # node[u]
  <2>1. Late(u)
    BY <1>4 DEF Late
  <2> QED BY <2>1, <1>2, <1>4 DEF ProducerInv
<1> QED BY <1>1, <1>2, <1>3, <1>4 DEF ProducerInv, Detached

LEMMA ConsumerKeeps ==
  ASSUME NEW c, NEW b, NEW d, QInv(c, b), QueueAssumption, NEW t \in Producers, Alone(t), head' = head,
         tail.node # head.node => tail'.node # head.node,
         next[head.node] \in Nodes =>
           LET n == next[head.node] IN next'[head.node] = n /\ data'[n] = data[n] /\ d[n] = b[n]
  PROVE  ConsumerInv(d)'
<1>1. Consumer \in Threads /\ Consumer # t
  BY DEF Threads, QueueAssumption
<1>2. pc'[Consumer] = pc[Consumer] /\ node'[Consumer] = node[Consumer] /\ nxt'[Consumer] = nxt[Consumer]
      /\ oldHead'[Consumer] = oldHead[Consumer] /\ oldTail'[Consumer] = oldTail[Consumer]
      /\ seq'[Consumer] = seq[Consumer] /\ item'[Consumer] = item[Consumer]
  BY <1>1 DEF Alone
<1>3. ConsumerInv(b)
  BY DEF QInv
<1>4. next[head.node] # NoNode => next[head.node] \in Nodes
  BY HeadNext
<1>5. NoNode \notin Nodes
  BY DEF QueueAssumption
<1> QED BY <1>2, <1>3, <1>4, <1>5 DEF ConsumerInv

-----------------------------------------------------------------------------
(* Numbers, and the tail *)

LEMMA TakeNumProducer ==
  ASSUME NEW c, NEW b, QInv(c, b), QueueAssumption, NEW t \in Producers, TakeNum(t)
  PROVE  \E d : QInv(c, d)'
<1>0. t \in Threads /\ t # Consumer /\ Consumer \in Threads /\ \A u \in Producers : u \in Threads
  BY DEF Threads, QueueAssumption
<1>1. /\ LinkedTypeOK /\ WitnessType(c, b) /\ SizeInv /\ ProducerInv(c, b, t) /\ ConsumerInv(b)
      /\ Drawn(b) /\ Linked(c) /\ Apart(c) /\ Heads(c) /\ InUse(c) /\ Falling(c) /\ TailOn(c, b) /\ Placed(c)
  BY DEF QInv
<1>2. LinkedTypeOK' /\ Alone(t)
  BY <1>0, <1>1, TypeKeeps, StepAlone DEF StepOf, Loop
<1>3. /\ pc[t] = "num" /\ pc'[t] = "tail" /\ uniqueNum' = uniqueNum + 1
      /\ UNCHANGED <<head, tail, size, next, data, used, items, taken, node, oldHead, oldTail, nxt, seq>>
  BY <1>0, <1>1 DEF TakeNum, At, Goto, LinkedTypeOK
<1>4. uniqueNum \in Nat /\ \A n \in Nodes : b[n] \in Nat
  BY <1>1 DEF LinkedTypeOK, WitnessType
<1>5. Late(t) /\ Late(t)'
  BY <1>3 DEF Late
<1>6. node[t] \in Nodes /\ node[t] \in used /\ c[t] # <<>> /\ c[t][1] = node[t] /\ 1 \in 1..Len(c[t])
      /\ \A n \in Nodes : n \in used => next[n] # node[t]
  BY <1>5, NotLinked
<1>7. PICK d : d = [b EXCEPT ![node[t]] = uniqueNum + 1]
  OBVIOUS
<1>8. WitnessType(c, d) /\ (\A n \in Nodes : n # node[t] => d[n] = b[n]) /\ d[node[t]] = uniqueNum + 1
  BY <1>1, <1>4, <1>6, <1>7 DEF WitnessType
<1>9. tail.node # node[t] /\ tail.node \in Nodes /\ head.node \in Nodes /\ head.node \in used
  <2>1. tail.node # node[t]
    BY <1>0, <1>1, <1>6 DEF TailOn, Apart
  <2> QED BY <2>1, EndsIn
<1>10. \A u \in Producers : (Late(u)' <=> Late(u)) /\ node'[u] = node[u]
  <2>1. \A u \in Producers : u # t => (Late(u)' <=> Late(u))
    BY <1>0, <1>2, <1>3 DEF Late, Alone, At
  <2> QED BY <2>1, <1>3, <1>5
<1>11. LaterStays(b, d)
  <2> SUFFICES ASSUME NEW o \in Nodes, NEW k \in Nat, k <= uniqueNum, Later(b, o, k)
               PROVE  Later(d, o, k)'
    BY DEF LaterStays
  <2>1. CASE o = node[t]
    BY <2>1, <1>4, <1>8 DEF Later
  <2>2. CASE o # node[t]
    <3>1. \A u \in Producers : pc[u] = "num" /\ node[u] = o => pc'[u] = "num" /\ node'[u] = o
      BY <2>2, <1>0, <1>2 DEF Alone
    <3> QED BY <3>1, <2>2, <1>3, <1>8 DEF Later
  <2> QED BY <2>1, <2>2
<1>12. LinksStay(b, d)
  BY <1>3, <1>6, <1>8 DEF LinksStay
<1>13. \A u \in Producers : u # t => ProducerInv(c, d, u)'
  <2>1. \A u \in Producers, o \in Nodes :
          u # t /\ Late(u) =>
            /\ Detached(c, o) /\ (Detached(c, o) => data[node[u]] < data[o]) => data'[node[u]] < data'[o]
            /\ next[o] # node[u] => next'[o] # node[u]
    BY <1>3
  <2> QED BY <2>1, <1>0, <1>2, <1>3, <1>11, <1>12, ProducersKeep
<1>14. ProducerInv(c, d, t)'
  BY <1>3, <1>6 DEF ProducerInv
<1>15. ConsumerInv(d)'
  <2>1. next[head.node] \in Nodes => d[next[head.node]] = b[next[head.node]]
    BY <1>6, <1>8, <1>9
  <2> QED BY <2>1, <1>2, <1>3, ConsumerKeeps
<1>16. Drawn(d)'
  <2>1. \A u \in Threads : seq'[u] <= uniqueNum' /\ oldTail'[u].num <= uniqueNum'
    BY <1>1, <1>3, <1>4 DEF Drawn, LinkedTypeOK, End
  <2>2. \A n \in Nodes : d[n] <= uniqueNum'
    BY <1>1, <1>3, <1>4, <1>8 DEF Drawn
  <2> QED BY <2>1, <2>2 DEF Drawn
<1>17. TailOn(c, d)'
  <2>1. tail.num \in Nat
    BY <1>1 DEF LinkedTypeOK, End
  <2> QED BY <2>1, <1>1, <1>3, <1>4, <1>8, <1>9 DEF TailOn
<1>18. Heads(c)'
  BY <1>1, <1>3, <1>10 DEF Heads
<1>19. InUse(c)'
  <2>1. \A n : Dead(n)' <=> Dead(n)
    BY <1>0, <1>2 DEF Dead, Alone
  <2> QED BY <2>1, <1>1, <1>3 DEF InUse, On
<1>20. Linked(c)' /\ Apart(c)' /\ Falling(c)' /\ Placed(c)' /\ WitnessType(c, d)'
  BY <1>1, <1>3, <1>8 DEF Linked, Apart, Falling, Placed, Waits, WitnessType
<1>21. SizeInv'
  BY <1>0, <1>1, <1>2, <1>3 DEF SizeInv, Alone
<1>22. QInv(c, d)'
  BY <1>2, <1>13, <1>14, <1>15, <1>16, <1>17, <1>18, <1>19, <1>20, <1>21 DEF QInv
<1> QED BY <1>22

\* The consumer does not use the number it draws.
LEMMA TakeNumConsumer ==
  ASSUME NEW c, NEW b, QInv(c, b), QueueAssumption, NEW t, t = Consumer, TakeNum(t)
  PROVE  QInv(c, b)'
<1>0. t \in Threads /\ t \notin Producers /\ \A u \in Producers : u \in Threads /\ u # t
  BY DEF Threads, QueueAssumption
<1>1. /\ LinkedTypeOK /\ WitnessType(c, b) /\ SizeInv /\ ConsumerInv(b)
      /\ Drawn(b) /\ Linked(c) /\ Apart(c) /\ Heads(c) /\ InUse(c) /\ Falling(c) /\ TailOn(c, b) /\ Placed(c)
  BY DEF QInv
<1>2. LinkedTypeOK' /\ Alone(t)
  BY <1>0, <1>1, TypeKeeps, StepAlone DEF StepOf, Loop
<1>3. /\ pc[t] = "num" /\ pc'[t] = "head" /\ uniqueNum' = uniqueNum + 1
      /\ UNCHANGED <<head, tail, size, next, data, used, items, taken, node, oldHead, oldTail, nxt, seq>>
  BY <1>0, <1>1 DEF TakeNum, At, Goto, LinkedTypeOK
<1>4. uniqueNum \in Nat /\ (\A n \in Nodes : b[n] \in Nat) /\ tail.node \in Nodes
  BY <1>1, EndsIn DEF LinkedTypeOK, WitnessType
<1>5. \A u \in Producers : (Late(u)' <=> Late(u)) /\ node'[u] = node[u] /\ pc'[u] = pc[u]
  BY <1>0, <1>2 DEF Late, Alone, At
<1>6. \A u \in Producers : ProducerInv(c, b, u)'
  <2>1. LaterStays(b, b)
    BY <1>3, <1>5 DEF LaterStays, Later
  <2>2. LinksStay(b, b)
    BY <1>3 DEF LinksStay
  <2>3. \A u \in Producers, o \in Nodes :
          u # t /\ Late(u) =>
            /\ Detached(c, o) /\ (Detached(c, o) => data[node[u]] < data[o]) => data'[node[u]] < data'[o]
            /\ next[o] # node[u] => next'[o] # node[u]
    BY <1>3
  <2>4. \A u \in Producers : u # t => ProducerInv(c, b, u)'
    BY <2>1, <2>2, <2>3, <1>0, <1>2, <1>3, ProducersKeep
  <2> QED BY <2>4, <1>0
<1>7. ConsumerInv(b)'
  BY <1>1, <1>3 DEF ConsumerInv
<1>8. Drawn(b)'
  <2>1. \A u \in Threads : seq[u] \in Nat /\ oldTail[u].num \in Nat
    BY <1>1 DEF LinkedTypeOK, End
  <2> QED BY <2>1, <1>1, <1>3, <1>4 DEF Drawn
<1>9. TailOn(c, b)'
  BY <1>1, <1>3, <1>4 DEF TailOn, LinkedTypeOK, End
<1>10. Heads(c)'
  BY <1>1, <1>3, <1>5 DEF Heads
<1>11. InUse(c)'
  <2>1. \A n : Dead(n)' <=> Dead(n)
    BY <1>3 DEF Dead
  <2> QED BY <2>1, <1>1, <1>3 DEF InUse, On
<1>12. Linked(c)' /\ Apart(c)' /\ Falling(c)' /\ Placed(c)' /\ WitnessType(c, b)'
  BY <1>1, <1>3 DEF Linked, Apart, Falling, Placed, Waits, WitnessType
<1>13. SizeInv'
  BY <1>1, <1>3 DEF SizeInv
<1> QED BY <1>2, <1>6, <1>7, <1>8, <1>9, <1>10, <1>11, <1>12, <1>13 DEF QInv

\* A compare-and-swap of the tail that succeeds moves it to the next node of the chain.
LEMMA TailGoesOn ==
  ASSUME NEW c, NEW b, QInv(c, b), QueueAssumption, NEW t \in Threads,
         \/ t \in Producers /\ pc[t] \in {"swing", "help"}
         \/ t = Consumer /\ pc[t] = "help",
         tail = oldTail[t]
  PROVE  /\ nxt[t] # head.node /\ b[nxt[t]] <= seq[t] /\ seq[t] <= uniqueNum
         /\ \E i \in 1..Len(c[Consumer]) : c[Consumer][i] = nxt[t]
<1>0. Consumer \in Threads /\ Consumer \notin Producers /\ \A u \in Producers : u \in Threads /\ u # Consumer
  BY DEF Threads, QueueAssumption
<1>1. PICK i \in 1..Len(c[Consumer]) : c[Consumer][i] = tail.node
  BY DEF QInv, TailOn
<1>2. Len(c[Consumer]) \in Nat /\ c[Consumer][1] = head.node /\ \A j \in 1..Len(c[Consumer]) : c[Consumer][j] \in Nodes
  BY <1>0, SeqFacts DEF QInv, Heads
<1>3. next[tail.node] = nxt[t] /\ b[nxt[t]] <= seq[t] /\ nxt[t] \in Nodes
  <2>1. CASE t \in Producers
    <3>1. ProducerInv(c, b, t)
      BY <2>1 DEF QInv
    <3>2. nxt[t] \in Nodes /\ Behind(b, t) /\ pc[t] \in {"swing", "help"}
      BY <2>1, <3>1, <1>0 DEF ProducerInv
    <3>3. tail.node \in used
      BY EndsIn
    <3>4. ~(b[tail.node] > tail.num)
      <4>1. b[tail.node] <= tail.num /\ b[tail.node] \in Nat /\ tail.num \in Nat
        BY EndsIn DEF QInv, TailOn, WitnessType, LinkedTypeOK, End
      <4> QED BY <4>1
    <3>5. ASSUME NEW u \in Producers, pc[u] = "num" PROVE node[u] # tail.node
      <4>1. Late(u)
        BY <3>5 DEF Late
      <4>2. c[u][1] = node[u] /\ 1 \in 1..Len(c[u])
        BY <4>1, NotLinked
      <4> QED BY <4>2, <1>0, <1>1 DEF QInv, Apart
    <3>6. ~Later(b, tail.node, tail.num)
      BY <3>3, <3>4, <3>5 DEF Later
    <3> QED BY <3>2, <3>6 DEF Behind
  <2>2. CASE t = Consumer
    <3>1. ConsumerInv(b) /\ pc[t] = "help"
      BY <2>2, <1>0 DEF QInv
    <3>2. tail.node = head.node /\ nxt[t] = next[head.node] /\ nxt[t] # NoNode /\ b[nxt[t]] <= seq[t]
      BY <2>2, <3>1 DEF ConsumerInv
    <3> QED BY <3>2, HeadNext
  <2> QED BY <2>1, <2>2 DEF Threads
<1>4. i < Len(c[Consumer]) /\ nxt[t] = c[Consumer][i + 1]
  BY <1>0, <1>1, <1>3 DEF QInv, Linked, QueueAssumption
<1>5. i + 1 \in 1..Len(c[Consumer]) /\ i + 1 # 1 /\ 1 \in 1..Len(c[Consumer])
  BY <1>2, <1>4
<1>6. nxt[t] # head.node
  BY <1>0, <1>2, <1>4, <1>5 DEF QInv, Apart
<1>7. seq[t] <= uniqueNum
  BY DEF QInv, Drawn
<1> QED BY <1>3, <1>4, <1>5, <1>6, <1>7

LEMMA TailStep ==
  ASSUME NEW c, NEW b, QInv(c, b), QueueAssumption, NEW t \in Threads,
         \/ t \in Producers /\ (Swing(t) \/ Help(t))
         \/ t = Consumer /\ Help(t)
  PROVE  QInv(c, b)'
<1>0. Consumer \in Threads /\ Consumer \notin Producers /\ \A u \in Producers : u \in Threads /\ u # Consumer
  BY DEF Threads, QueueAssumption
<1>1. /\ LinkedTypeOK /\ WitnessType(c, b) /\ SizeInv /\ ConsumerInv(b)
      /\ Drawn(b) /\ Linked(c) /\ Apart(c) /\ Heads(c) /\ InUse(c) /\ Falling(c) /\ TailOn(c, b) /\ Placed(c)
      /\ \A u \in Producers : ProducerInv(c, b, u)
  BY DEF QInv
<1>2. LinkedTypeOK' /\ Alone(t)
  BY <1>1, TypeKeeps, StepAlone DEF StepOf, Loop, EnqueueStep
<1>3. /\ pc[t] \in {"swing", "help"}
      /\ pc'[t] = IF pc[t] = "swing" THEN "size" ELSE IF t = Consumer THEN "head" ELSE "tail"
      /\ UNCHANGED <<head, uniqueNum, size, next, data, used, items, taken, node, oldHead, oldTail, nxt, seq>>
      /\ t = Consumer => pc[t] = "help"
  BY <1>0, <1>1 DEF Swing, Help, At, Goto, LinkedTypeOK
<1>4. tail' = IF tail = oldTail[t] THEN [node |-> nxt[t], num |-> seq[t]] ELSE tail
  <2>1. CASE Swing(t)
    <3>1. t \in Producers /\ pc[t] = "swing"
      BY <2>1, <1>0 DEF Swing, Help, At
    <3>2. nxt[t] = node[t]
      BY <3>1, <1>1 DEF ProducerInv
    <3> QED BY <2>1, <3>2 DEF Swing
  <2>2. CASE Help(t)
    BY <2>2 DEF Help
  <2> QED BY <2>1, <2>2
<1>5. TailOn(c, b)' /\ (tail.node # head.node => tail'.node # head.node)
  <2>1. CASE tail = oldTail[t]
    <3>1. /\ nxt[t] # head.node /\ b[nxt[t]] <= seq[t] /\ seq[t] <= uniqueNum
          /\ \E i \in 1..Len(c[Consumer]) : c[Consumer][i] = nxt[t]
      BY <2>1, <1>3, TailGoesOn DEF Threads
    <3>2. tail'.node = nxt[t] /\ tail'.num = seq[t]
      BY <2>1, <1>4
    <3> QED BY <3>1, <3>2, <1>3 DEF TailOn
  <2>2. CASE tail # oldTail[t]
    BY <2>2, <1>1, <1>3, <1>4 DEF TailOn
  <2> QED BY <2>1, <2>2
<1>6. t \in Producers => /\ pc[t] = "swing" <=> ~Late(t)
                         /\ pc[t] = "swing" <=> ~Late(t)'
                         /\ node[t] \in Nodes
  <2>1. t \in Producers => (pc[t] = "swing" => nxt[t] = node[t]) /\ node[t] \in Nodes
    BY <1>1, <1>3 DEF ProducerInv
  <2> QED BY <2>1, <1>0, <1>3 DEF Late, At
<1>7. \A u \in Producers : (Late(u)' <=> Late(u)) /\ node'[u] = node[u] /\ (pc'[u] = "num" <=> pc[u] = "num")
  <2>1. \A u \in Producers : u # t => (Late(u)' <=> Late(u)) /\ (pc'[u] = "num" <=> pc[u] = "num")
    BY <1>0, <1>2, <1>3 DEF Late, Alone, At
  <2> QED BY <2>1, <1>3, <1>6
<1>8. \A u \in Producers : ProducerInv(c, b, u)'
  <2>1. LaterStays(b, b)
    BY <1>3, <1>7 DEF LaterStays, Later
  <2>2. LinksStay(b, b)
    BY <1>3 DEF LinksStay
  <2>3. \A u \in Producers, o \in Nodes :
          u # t /\ Late(u) =>
            /\ Detached(c, o) /\ (Detached(c, o) => data[node[u]] < data[o]) => data'[node[u]] < data'[o]
            /\ next[o] # node[u] => next'[o] # node[u]
    BY <1>3
  <2>4. \A u \in Producers : u # t => ProducerInv(c, b, u)'
    BY <2>1, <2>2, <2>3, <1>2, <1>3, ProducersKeep
  <2>5. t \in Producers => ProducerInv(c, b, t)'
    BY <1>0, <1>3, <1>6 DEF ProducerInv
  <2> QED BY <2>4, <2>5
<1>9. ConsumerInv(b)'
  <2>1. CASE t \in Producers
    BY <2>1, <1>2, <1>3, <1>5, ConsumerKeeps
  <2>2. CASE t = Consumer
    BY <2>2, <1>1, <1>3 DEF ConsumerInv
  <2> QED BY <2>1, <2>2 DEF Threads
<1>10. Drawn(b)'
  BY <1>1, <1>3 DEF Drawn
<1>11. Heads(c)'
  BY <1>1, <1>3, <1>7 DEF Heads
<1>12. InUse(c)'
  <2>1. \A n : Dead(n)' <=> Dead(n)
    BY <1>0, <1>2, <1>3 DEF Dead, Alone
  <2> QED BY <2>1, <1>1, <1>3 DEF InUse, On
<1>13. Linked(c)' /\ Apart(c)' /\ Falling(c)' /\ Placed(c)' /\ WitnessType(c, b)'
  <2>1. Linked(c)' /\ Apart(c)' /\ Falling(c)'
    BY <1>1, <1>3 DEF Linked, Apart, Falling
  <2>2. Placed(c)' /\ WitnessType(c, b)'
    BY <1>1, <1>3 DEF Placed, Waits, WitnessType
  <2> QED BY <2>1, <2>2
<1>14. SizeInv'
  BY <1>0, <1>1, <1>2, <1>3 DEF SizeInv, Alone
<1> QED BY <1>2, <1>5, <1>8, <1>9, <1>10, <1>11, <1>12, <1>13, <1>14 DEF QInv

-----------------------------------------------------------------------------
(* A new node *)

LEMMA NodeInv ==
  ASSUME NEW c, NEW b, QInv(c, b), QueueAssumption, NEW t \in Producers, Enqueue(t)
  PROVE  \E e : /\ QInv(e, b)' /\ e[Consumer] = c[Consumer] /\ taken' = taken
                /\ \A i \in 1..Len(c[Consumer]) : data'[c[Consumer][i]] = data[c[Consumer][i]]
<1>0. t \in Threads /\ t # Consumer /\ Consumer \in Threads /\ \A u \in Producers : u \in Threads
  BY DEF Threads, QueueAssumption
<1>1. /\ LinkedTypeOK /\ WitnessType(c, b) /\ SizeInv /\ ProducerInv(c, b, t) /\ ConsumerInv(b)
      /\ Drawn(b) /\ Linked(c) /\ Apart(c) /\ Heads(c) /\ InUse(c) /\ Falling(c) /\ TailOn(c, b) /\ Placed(c)
  BY DEF QInv
<1>2. LinkedTypeOK' /\ Alone(t)
  BY <1>0, <1>1, TypeKeeps, StepAlone DEF StepOf, EnqueueStep
<1>3. PICK n \in Nodes \ used :
        /\ used' = used \cup {n} /\ node' = [node EXCEPT ![t] = n]
        /\ data' = [data EXCEPT ![n] = items + 1] /\ next' = [next EXCEPT ![n] = NoNode]
  BY DEF Enqueue
<1>4. /\ pc[t] = "idle" /\ pc'[t] = "num" /\ node'[t] = n /\ items' = items + 1 /\ items < MaxItems
      /\ next'[n] = NoNode /\ data'[n] = items + 1
      /\ \A m \in Nodes : m # n => next'[m] = next[m] /\ data'[m] = data[m]
      /\ UNCHANGED <<head, tail, uniqueNum, size, taken, oldHead, oldTail, nxt, seq>>
  BY <1>0, <1>1, <1>3 DEF Enqueue, At, Goto, LinkedTypeOK
<1>5. items \in Nat /\ MaxItems \in Nat /\ NoNode \notin Nodes
  BY <1>1 DEF LinkedTypeOK, QueueAssumption
<1>6. ~Late(t) /\ c[t] = <<>> /\ Late(t)'
  BY <1>0, <1>1, <1>4 DEF Late, At, Heads
<1>7. ~On(c, n) /\ ~Dead(n)
  BY <1>1, <1>3 DEF InUse
<1>8. PICK e : e = [c EXCEPT ![t] = <<n>>]
  OBVIOUS
<1>9. /\ e[t] = <<n>> /\ Len(e[t]) = 1 /\ e[t][1] = n /\ 1..Len(e[t]) = {1}
      /\ \A u \in Threads : u # t => e[u] = c[u]
      /\ WitnessType(e, b)
  BY <1>0, <1>1, <1>3, <1>8 DEF WitnessType
<1>10. \A u \in Threads : /\ Len(c[u]) \in Nat
                          /\ \A i \in 1..Len(c[u]) : c[u][i] \in Nodes /\ c[u][i] # n /\ c[u][i] \in used
  <2>1. \A u \in Threads : Len(c[u]) \in Nat /\ \A i \in 1..Len(c[u]) : c[u][i] \in Nodes /\ On(c, c[u][i])
    BY <1>1, SeqFacts DEF On
  <2> QED BY <2>1, <1>1, <1>7 DEF InUse
<1>11. \A x : /\ On(e, x) <=> On(c, x) \/ x = n
              /\ Detached(e, x) <=> Detached(c, x) \/ x = n
              /\ Waits(e, x) <=> Waits(c, x) \/ x = n
  <2>1. Len(c[t]) = 0 /\ 1 \in 1..Len(e[t])
    BY <1>6, <1>9, EmptySeq
  <2>2. \A x : On(e, x) <=> On(c, x) \/ x = n
    <3>1. \A x : On(c, x) => On(e, x)
      BY <2>1, <1>9 DEF On
    <3>2. On(e, n)
      BY <2>1, <1>0, <1>9 DEF On
    <3>3. \A x : On(e, x) => On(c, x) \/ x = n
      BY <1>9 DEF On
    <3> QED BY <3>1, <3>2, <3>3
  <2>3. \A x : Detached(e, x) <=> Detached(c, x) \/ x = n
    BY <2>1, <1>0, <1>9 DEF Detached
  <2>4. \A x : Waits(e, x) <=> Waits(c, x) \/ x = n
    BY <2>1, <1>0, <1>9 DEF Waits
  <2> QED BY <2>2, <2>3, <2>4
<1>12. Linked(e)'
  <2> SUFFICES ASSUME NEW u \in Threads, NEW i \in 1..Len(e[u])
               PROVE  next'[e[u][i]] = IF i < Len(e[u]) THEN e[u][i + 1] ELSE NoNode
    BY DEF Linked
  <2>1. CASE u = t
    BY <2>1, <1>4, <1>9
  <2>2. CASE u # t
    BY <2>2, <1>1, <1>4, <1>9, <1>10 DEF Linked
  <2> QED BY <2>1, <2>2
<1>13. Apart(e)'
  BY <1>1, <1>9, <1>10 DEF Apart
<1>14. \A u \in Producers : u # t => (Late(u)' <=> Late(u)) /\ node'[u] = node[u] /\ pc'[u] = pc[u]
  BY <1>0, <1>2, <1>4 DEF Late, Alone, At
<1>15. Heads(e)'
  BY <1>0, <1>1, <1>4, <1>6, <1>9, <1>14 DEF Heads
<1>16. InUse(e)'
  <2>1. \A x : Dead(x)' <=> Dead(x)
    BY <1>0, <1>2 DEF Dead, Alone
  <2> QED BY <2>1, <1>1, <1>3, <1>4, <1>7, <1>11 DEF InUse, On
<1>17. Falling(e)'
  BY <1>0, <1>1, <1>4, <1>9, <1>10 DEF Falling
<1>18. TailOn(e, b)'
  BY <1>0, <1>1, <1>4, <1>9 DEF TailOn
<1>19. \A x \in Nodes : Waits(c, x) => x # n /\ data[x] \in 1..items
  <2>1. \A x : Waits(c, x) => On(c, x)
    BY DEF Waits, On
  <2> QED BY <2>1, <1>1, <1>7 DEF Placed
<1>20. Placed(e)'
  <2>1. \A x \in Nodes : Waits(e, x) => data'[x] \in 1..items'
    BY <1>4, <1>5, <1>11, <1>19
  <2>2. \A x, y \in Nodes : Waits(e, x) /\ Waits(e, y) /\ data'[x] = data'[y] => x = y
    BY <1>1, <1>4, <1>5, <1>11, <1>19 DEF Placed
  <2>3. \A i \in 1..Len(taken') : taken'[i] \in 1..items' /\ taken'[i] # items + 1
    BY <1>1, <1>4, <1>5 DEF Placed
  <2>4. \A x \in 1..items' :
          (\E i \in 1..Len(taken') : taken'[i] = x) <=> ~(\E m \in Nodes : Waits(e, m) /\ data'[m] = x)
    <3> TAKE x \in 1..items'
    <3>1. CASE x = items + 1
      BY <3>1, <2>3, <1>3, <1>4, <1>11
    <3>2. CASE x # items + 1
      <4>1. x \in 1..items
        BY <3>2, <1>4, <1>5
      <4>2. (\E m \in Nodes : Waits(e, m) /\ data'[m] = x) <=> (\E m \in Nodes : Waits(c, m) /\ data[m] = x)
        BY <3>2, <1>3, <1>4, <1>11, <1>19
      <4> QED BY <4>1, <4>2, <1>1, <1>4 DEF Placed
    <3> QED BY <3>1, <3>2
  <2>5. items' <= MaxItems
    BY <1>4, <1>5
  <2>6. \A i, j \in 1..Len(taken') : taken'[i] = taken'[j] => i = j
    BY <1>1, <1>4 DEF Placed
  <2> QED BY <2>1, <2>2, <2>3, <2>4, <2>5, <2>6 DEF Placed, Waits
<1>21. \A u \in Producers : u # t => ProducerInv(e, b, u)'
  <2>1. LaterStays(b, b)
    <3> SUFFICES ASSUME NEW o \in Nodes, NEW k \in Nat, Later(b, o, k)
                 PROVE  Later(b, o, k)'
      BY DEF LaterStays
    <3>1. CASE o = n
      BY <3>1, <1>4 DEF Later
    <3>2. CASE o # n
      <4>1. \A u \in Producers : pc[u] = "num" /\ node[u] = o => pc'[u] = "num" /\ node'[u] = o
        BY <1>4, <1>14
      <4> QED BY <3>2, <4>1, <1>3 DEF Later
    <3> QED BY <3>1, <3>2
  <2>2. LinksStay(b, b)
    BY <1>3, <1>4 DEF LinksStay
  <2>3. \A o \in Nodes : o \in used \/ next[o] # NoNode => o \in used' \/ next'[o] # NoNode
    BY <1>3, <1>4
  <2>4. ASSUME NEW u \in Producers, NEW o \in Nodes, u # t, Late(u)
        PROVE  /\ Detached(e, o) /\ (Detached(c, o) => data[node[u]] < data[o]) => data'[node[u]] < data'[o]
               /\ next[o] # node[u] => next'[o] # node[u]
    <3>1. node[u] \in Nodes /\ c[u][1] = node[u] /\ 1 \in 1..Len(c[u]) /\ node[u] \in used
      BY <2>4, NotLinked
    <3>2. Waits(c, node[u])
      BY <3>1, <1>0 DEF Waits, QueueAssumption
    <3>3. data'[node[u]] = data[node[u]] /\ data[node[u]] \in 1..items
      BY <3>1, <3>2, <1>4, <1>19
    <3>4. CASE o = n
      BY <3>1, <3>3, <3>4, <1>4, <1>5
    <3>5. CASE o # n
      BY <3>3, <3>5, <1>4, <1>11
    <3> QED BY <3>4, <3>5
  <2> QED BY <2>1, <2>2, <2>3, <2>4, <1>0, <1>2, ProducersKeep
<1>22. ProducerInv(e, b, t)'
  BY <1>3, <1>4 DEF ProducerInv
<1>23. ConsumerInv(b)'
  <2>1. head.node \in Nodes /\ head.node # n
    BY EndsIn, <1>3
  <2>2. ASSUME next[head.node] \in Nodes PROVE next[head.node] # n
    <3>1. Len(c[Consumer]) > 1 /\ next[head.node] = c[Consumer][2]
      BY <2>2, <1>5, HeadNext
    <3>2. 2 \in 1..Len(c[Consumer])
      BY <3>1, <1>0, <1>10
    <3> QED BY <3>1, <3>2, <1>0, <1>10
  <2> QED BY <2>1, <2>2, <1>2, <1>4, ConsumerKeeps
<1>24. Drawn(b)'
  BY <1>1, <1>4 DEF Drawn
<1>25. SizeInv'
  BY <1>0, <1>1, <1>2, <1>4 DEF SizeInv, Alone
<1>26. WitnessType(e, b)'
  BY <1>9 DEF WitnessType
<1>27. QInv(e, b)'
  BY <1>2, <1>12, <1>13, <1>15, <1>16, <1>17, <1>18, <1>20, <1>21, <1>22, <1>23, <1>24, <1>25, <1>26 DEF QInv
<1> QED BY <1>0, <1>4, <1>9, <1>10, <1>27

-----------------------------------------------------------------------------
(* The link *)

\* The node a producer links its own to is the last of a chain that is not its own.
LEMMA LinkEnd ==
  ASSUME NEW c, NEW b, QInv(c, b), QueueAssumption, NEW t \in Producers, Swap(t), next[link[t]] = NoNode
  PROVE  /\ link[t] = oldTail[t].node /\ link[t] \in Nodes /\ link[t] \in used /\ ~Dead(link[t])
         /\ Detached(c, link[t]) => data[node[t]] < data[link[t]]
         /\ \E u \in Threads : u # t /\ Len(c[u]) > 0 /\ c[u][Len(c[u])] = link[t]
<1> DEFINE o == link[t]
<1>0. t \in Threads /\ Consumer \in Threads
  BY DEF Threads
<1>1. ProducerInv(c, b, t) /\ pc[t] = "swap" /\ Late(t)
  BY DEF QInv, Swap, At, Late
<1>2. o = oldTail[t].node /\ o \in Nodes /\ o \in used /\ (Detached(c, o) => data[node[t]] < data[o])
  BY <1>1 DEF ProducerInv
<1>3. ~Dead(o)
  BY <1>2, EndsIn DEF QInv, InUse, QueueAssumption
<1>4. PICK u \in Threads : \E i \in 1..Len(c[u]) : c[u][i] = o
  BY <1>2, <1>3 DEF QInv, InUse, On
<1>5. PICK i \in 1..Len(c[u]) : c[u][i] = o
  BY <1>4
<1>6. Len(c[u]) \in Nat /\ \A j \in 1..Len(c[u]) : c[u][j] \in Nodes
  BY SeqFacts DEF QInv
<1>7. i = Len(c[u])
  <2>1. NoNode = IF i < Len(c[u]) THEN c[u][i + 1] ELSE NoNode
    BY <1>5 DEF QInv, Linked
  <2>2. i < Len(c[u]) => i + 1 \in 1..Len(c[u])
    BY <1>6
  <2> QED BY <2>1, <2>2, <1>6 DEF QueueAssumption
<1>8. u # t
  <2> SUFFICES ASSUME u = t PROVE FALSE
    OBVIOUS
  <2>1. Detached(c, o)
    BY <1>5 DEF Detached
  <2>2. c[t][1] = node[t] /\ 1 \in 1..Len(c[t])
    BY <1>1, NotLinked
  <2>3. data[node[t]] \in Nat /\ data[o] \in Nat
    BY <1>2, <1>1, NotLinked DEF QInv, LinkedTypeOK
  <2>4. 1 < i => data[o] < data[node[t]]
    BY <2>2, <1>5 DEF QInv, Falling
  <2> QED BY <2>1, <2>2, <2>3, <2>4, <1>2, <1>5, <1>6
<1>9. Len(c[u]) > 0
  BY <1>6, <1>7
<1> QED BY <1>2, <1>3, <1>5, <1>7, <1>8, <1>9

LEMMA SwapInv ==
  ASSUME NEW c, NEW b, QInv(c, b), QueueAssumption, NEW t \in Producers, Swap(t), next[link[t]] = NoNode
  PROVE  \E e : QInv(e, b)' /\ \/ e[Consumer] = c[Consumer]
                               \/ e[Consumer] = c[Consumer] \o c[t] /\ c[t] # <<>>
<1>0. t \in Threads /\ t # Consumer /\ Consumer \in Threads /\ \A v \in Producers : v \in Threads /\ v # Consumer
  BY DEF Threads, QueueAssumption
<1>1. /\ LinkedTypeOK /\ WitnessType(c, b) /\ SizeInv /\ ProducerInv(c, b, t) /\ ConsumerInv(b)
      /\ Drawn(b) /\ Linked(c) /\ Apart(c) /\ Heads(c) /\ InUse(c) /\ Falling(c) /\ TailOn(c, b) /\ Placed(c)
  BY DEF QInv
<1>2. LinkedTypeOK' /\ Alone(t)
  BY <1>0, <1>1, TypeKeeps, StepAlone DEF StepOf, EnqueueStep
<1>3. PICK o : o = link[t]
  OBVIOUS
<1>4. /\ o = oldTail[t].node /\ o \in Nodes /\ o \in used /\ ~Dead(o)
      /\ Detached(c, o) => data[node[t]] < data[o]
      /\ \E u \in Threads : u # t /\ Len(c[u]) > 0 /\ c[u][Len(c[u])] = o
  BY <1>3, LinkEnd
<1>5. PICK u \in Threads : u # t /\ Len(c[u]) > 0 /\ c[u][Len(c[u])] = o
  BY <1>4
<1>6. /\ pc[t] = "swap" /\ pc'[t] = "seq" /\ nxt'[t] = node[t] /\ next[o] = NoNode /\ next'[o] = node[t]
      /\ next' = [next EXCEPT ![o] = node[t]]
      /\ \A m \in Nodes : m # o => next'[m] = next[m]
      /\ UNCHANGED <<head, tail, uniqueNum, size, data, used, items, taken, node, oldHead, oldTail, seq>>
  <2>1. /\ pc[t] = "swap" /\ next[o] = NoNode /\ next' = [next EXCEPT ![o] = node[t]]
        /\ nxt' = [nxt EXCEPT ![t] = node[t]] /\ pc' = [pc EXCEPT ![t] = "seq"]
        /\ UNCHANGED <<head, tail, uniqueNum, size, data, used, items, taken, node, oldHead, oldTail, seq>>
    BY <1>3 DEF Swap, At, Goto
  <2> QED BY <2>1, <1>0, <1>1, <1>4 DEF LinkedTypeOK
<1>7. Late(t) /\ ~Late(t)'
  BY <1>6 DEF Late, At
<1>8. node[t] \in Nodes /\ node[t] \in used /\ c[t] # <<>> /\ c[t][1] = node[t] /\ 1 \in 1..Len(c[t])
      /\ \A n \in Nodes : n \in used => next[n] # node[t]
  BY <1>7, NotLinked
<1>9. \A v \in Threads : Len(c[v]) \in Nat /\ c[v] \in Seq(Nodes) /\ \A i \in 1..Len(c[v]) : c[v][i] \in Nodes
  BY <1>1, SeqFacts
<1> DEFINE L == Len(c[u])
           M == Len(c[t])
<1>10. L \in Nat /\ M \in Nat /\ L > 0 /\ M > 0
  BY <1>0, <1>5, <1>8, <1>9
<1>11. Len(c[u]) = L /\ Len(c[t]) = M
  OBVIOUS
<1> HIDE DEF L, M
<1>12. PICK e : e = [c EXCEPT ![u] = c[u] \o c[t], ![t] = <<>>]
  OBVIOUS
<1>13. /\ e[t] = <<>> /\ Len(e[t]) = 0 /\ e[u] = c[u] \o c[t] /\ Len(e[u]) = L + M
       /\ \A i \in 1..L : e[u][i] = c[u][i]
       /\ \A i \in 1..M : e[u][L + i] = c[t][i]
       /\ \A i \in L + 1..L + M : e[u][i] = c[t][i - L]
       /\ \A v \in Threads : v # t /\ v # u => e[v] = c[v]
       /\ WitnessType(e, b)
  <2>1. c[u] \o c[t] \in Seq(Nodes) /\ Len(c[u] \o c[t]) = L + M
        /\ \A i \in 1..L + M : (c[u] \o c[t])[i] = IF i <= L THEN c[u][i] ELSE c[t][i - L]
    <3>1. c[u] \in Seq(Nodes) /\ c[t] \in Seq(Nodes)
      BY <1>0, <1>9
    <3>2. c[u] \o c[t] \in Seq(Nodes) /\ Len(c[u] \o c[t]) = Len(c[u]) + Len(c[t])
          /\ \A i \in 1..Len(c[u]) + Len(c[t]) :
               (c[u] \o c[t])[i] = IF i <= Len(c[u]) THEN c[u][i] ELSE c[t][i - Len(c[u])]
      BY <3>1, ConcatProperties
    <3> QED BY <3>2, <1>11
  <2>2. e[t] = <<>> /\ e[u] = c[u] \o c[t] /\ \A v \in Threads : v # t /\ v # u => e[v] = c[v]
    BY <1>0, <1>1, <1>5, <1>12 DEF WitnessType
  <2>3. <<>> \in Seq(Nodes) /\ Len(<<>>) = 0
    BY EmptySeq
  <2>4. WitnessType(e, b)
    BY <2>1, <2>3, <1>0, <1>1, <1>12 DEF WitnessType
  <2>5. \A i \in 1..L : i \in 1..L + M /\ i <= L
    BY <1>10
  <2>7. \A i \in L + 1..L + M : i \in 1..L + M /\ ~(i <= L)
    BY <1>10
  <2>8. \A i \in 1..L : e[u][i] = c[u][i]
    BY <2>1, <2>2, <2>5
  <2>9. \A i \in 1..M : e[u][L + i] = c[t][i]
    <3> SUFFICES ASSUME NEW i \in 1..M PROVE e[u][L + i] = c[t][i]
      OBVIOUS
    <3>1. PICK m : m = L + i
      OBVIOUS
    <3>2. m \in 1..L + M /\ ~(m <= L) /\ m - L = i
      BY <1>10, <3>1
    <3>3. (c[u] \o c[t])[m] = c[t][m - L]
      BY <2>1, <3>2
    <3> QED BY <3>1, <3>2, <3>3, <2>2
  <2>10. \A i \in L + 1..L + M : e[u][i] = c[t][i - L]
    BY <2>1, <2>2, <2>7
  <2> QED BY <2>1, <2>2, <2>3, <2>4, <2>8, <2>9, <2>10
\* Every place of e is a place of c.
<1> DEFINE Was(v, i) == IF v = u /\ i > L THEN <<t, i - L>> ELSE <<v, i>>
<1>14. \A v \in Threads : \A i \in 1..Len(e[v]) :
         /\ v # t /\ i \in Nat
         /\ v = u /\ i > L => i - L \in 1..Len(c[t]) /\ e[v][i] = c[t][i - L]
         /\ ~(v = u /\ i > L) => i \in 1..Len(c[v]) /\ e[v][i] = c[v][i]
  <2> SUFFICES ASSUME NEW v \in Threads, NEW i \in 1..Len(e[v])
               PROVE  /\ v # t /\ i \in Nat
                      /\ v = u /\ i > L => i - L \in 1..Len(c[t]) /\ e[v][i] = c[t][i - L]
                      /\ ~(v = u /\ i > L) => i \in 1..Len(c[v]) /\ e[v][i] = c[v][i]
    OBVIOUS
  <2>1. v # t
    BY <1>13
  <2>2. CASE v = u
    <3>1. i \in 1..L + M
      BY <2>2, <1>13
    <3>2. CASE i > L
      <4>1. i \in L + 1..L + M /\ i - L \in 1..M /\ i \in Nat
        BY <3>1, <3>2, <1>10
      <4>2. e[u][i] = c[t][i - L]
        BY <4>1, <1>13
      <4> QED BY <4>1, <4>2, <3>2, <2>1, <2>2, <1>11
    <3>3. CASE ~(i > L)
      <4>1. i \in 1..L /\ i \in Nat
        BY <3>1, <3>3, <1>10
      <4>2. e[u][i] = c[u][i]
        BY <4>1, <1>13
      <4> QED BY <4>1, <4>2, <3>3, <2>1, <2>2, <1>11
    <3> QED BY <3>2, <3>3
  <2>3. CASE v # u
    BY <2>1, <2>3, <1>9, <1>13
  <2> QED BY <2>2, <2>3
<1>15. \A v \in Threads : \A i \in 1..Len(c[v]) :
         IF v = t THEN L + i \in 1..Len(e[u]) /\ e[u][L + i] = c[t][i] /\ L + i # 1
         ELSE i \in 1..Len(e[v]) /\ e[v][i] = c[v][i]
  <2> SUFFICES ASSUME NEW v \in Threads, NEW i \in 1..Len(c[v])
               PROVE IF v = t THEN L + i \in 1..Len(e[u]) /\ e[u][L + i] = c[t][i] /\ L + i # 1
                     ELSE i \in 1..Len(e[v]) /\ e[v][i] = c[v][i]
    OBVIOUS
  <2>1. CASE v = t
    <3>1. i \in 1..M
      BY <2>1, <1>11
    <3>2. L + i \in 1..L + M /\ L + i # 1
      BY <3>1, <1>10
    <3> QED BY <2>1, <3>1, <3>2, <1>13
  <2>2. CASE v = u
    <3>1. i \in 1..L
      BY <2>2, <1>11
    <3>2. i \in 1..L + M
      BY <3>1, <1>10
    <3> QED BY <2>2, <3>1, <3>2, <1>5, <1>13
  <2>3. CASE v # t /\ v # u
    BY <2>3, <1>13
  <2> QED BY <2>1, <2>2, <2>3
<1>16. \A x : On(e, x) <=> On(c, x)
  <2>1. \A x : On(e, x) => On(c, x)
    BY <1>0, <1>14 DEF On
  <2>2. \A x : On(c, x) => On(e, x)
    <3> SUFFICES ASSUME NEW x, NEW v \in Threads, NEW i \in 1..Len(c[v]), c[v][i] = x PROVE On(e, x)
      BY DEF On
    <3>1. CASE v = t
      BY <3>1, <1>5, <1>15 DEF On
    <3>2. CASE v # t
      BY <3>2, <1>15 DEF On
    <3> QED BY <3>1, <3>2
  <2> QED BY <2>1, <2>2
<1>17. \A x : Detached(e, x) => Detached(c, x)
  BY <1>0, <1>14 DEF Detached
<1>18. \A x : Waits(e, x) <=> Waits(c, x)
  <2>1. ASSUME NEW x, Waits(e, x) PROVE Waits(c, x)
    <3>1. PICK v \in Threads : \E i \in 1..Len(e[v]) : e[v][i] = x /\ ~(v = Consumer /\ i = 1)
      BY <2>1 DEF Waits
    <3>2. PICK i \in 1..Len(e[v]) : e[v][i] = x /\ ~(v = Consumer /\ i = 1)
      BY <3>1
    <3>3. CASE v = u /\ i > L
      BY <3>2, <3>3, <1>0, <1>14 DEF Waits
    <3>4. CASE ~(v = u /\ i > L)
      BY <3>2, <3>4, <1>14 DEF Waits
    <3> QED BY <3>3, <3>4
  <2>2. ASSUME NEW x, Waits(c, x) PROVE Waits(e, x)
    <3>1. PICK v \in Threads : \E i \in 1..Len(c[v]) : c[v][i] = x /\ ~(v = Consumer /\ i = 1)
      BY <2>2 DEF Waits
    <3>2. PICK i \in 1..Len(c[v]) : c[v][i] = x /\ ~(v = Consumer /\ i = 1)
      BY <3>1
    <3>3. CASE v = t
      BY <3>2, <3>3, <1>15 DEF Waits
    <3>4. CASE v # t
      BY <3>2, <3>4, <1>15 DEF Waits
    <3> QED BY <3>3, <3>4
  <2> QED BY <2>1, <2>2
<1>19. \A v \in Threads : \A i \in 1..Len(c[v]) : c[v][i] = o => v = u /\ i = L
  <2>1. L \in 1..L
    BY <1>10
  <2>2. L \in 1..Len(c[u]) /\ c[u][L] = o
    BY <2>1, <1>5, <1>11
  <2> QED BY <2>2, <1>1 DEF Apart
<1>20. \A i \in Nat : i > L /\ i - L < M => e[u][i + 1] = c[t][i - L + 1]
  <2> SUFFICES ASSUME NEW i \in Nat, i > L, i - L < M PROVE e[u][i + 1] = c[t][i - L + 1]
    OBVIOUS
  <2>1. PICK m : m = i + 1
    OBVIOUS
  <2>2. m \in L + 1..L + M /\ m - L = i - L + 1
    BY <2>1, <1>10
  <2>3. e[u][m] = c[t][m - L]
    BY <2>2, <1>13
  <2> QED BY <2>1, <2>2, <2>3
<1>21. Linked(e)'
  <2> SUFFICES ASSUME NEW v \in Threads, NEW i \in 1..Len(e[v])
               PROVE  next'[e[v][i]] = IF i < Len(e[v]) THEN e[v][i + 1] ELSE NoNode
    BY DEF Linked
  <2>1. CASE v # u
    <3>1. v # t /\ e[v] = c[v] /\ c[v][i] # o /\ c[v][i] \in Nodes
      BY <2>1, <1>9, <1>13, <1>14, <1>19
    <3> QED BY <3>1, <1>1, <1>6 DEF Linked
  <2>2. CASE v = u /\ i < L
    <3>1. i \in 1..L /\ i + 1 \in 1..L /\ i < L + M /\ i # L
      <4>1. i \in Nat /\ i >= 1
        BY <1>14
      <4> QED BY <4>1, <2>2, <1>10
    <3>2. i \in 1..Len(c[u]) /\ e[u][i] = c[u][i] /\ e[u][i + 1] = c[u][i + 1] /\ i < Len(c[u]) /\ i < Len(e[u])
      BY <2>2, <3>1, <1>11, <1>13
    <3>3. c[u][i] # o /\ c[u][i] \in Nodes
      BY <3>1, <3>2, <1>9, <1>19
    <3>4. next[c[u][i]] = c[u][i + 1]
      BY <3>2, <1>1 DEF Linked
    <3> QED BY <2>2, <3>2, <3>3, <3>4, <1>6
  <2>3. CASE v = u /\ i = L
    <3>1. L \in 1..L /\ 1 \in 1..M /\ L < L + M
      BY <1>10
    <3>2. e[u][L] = o /\ e[u][L + 1] = node[t] /\ L < Len(e[u])
      BY <3>1, <1>5, <1>8, <1>13, <1>11
    <3> QED BY <2>3, <3>2, <1>6
  <2>4. CASE v = u /\ i > L
    <3> DEFINE k == i - L
    <3>0. i \in 1..L + M /\ i \in Nat
      BY <2>4, <1>13, <1>14
    <3>1. k \in 1..Len(c[t]) /\ e[u][i] = c[t][k] /\ (i < L + M <=> k < M)
      <4>1. i < L + M <=> k < M
        BY <3>0, <1>10
      <4> QED BY <2>4, <4>1, <1>14
    <3>2. c[t][k] # o /\ c[t][k] \in Nodes
      BY <3>1, <1>0, <1>5, <1>9, <1>19
    <3>3. next[c[t][k]] = IF k < M THEN c[t][k + 1] ELSE NoNode
      <4>1. next[c[t][k]] = IF k < Len(c[t]) THEN c[t][k + 1] ELSE NoNode
        <5> HIDE DEF k
        <5> QED BY <3>1, <1>0, <1>1 DEF Linked
      <4> QED BY <4>1, <1>11
    <3>4. k < M => e[u][i + 1] = c[t][k + 1]
      BY <3>0, <2>4, <3>1, <1>20
    <3> HIDE DEF k
    <3>5. next'[e[u][i]] = IF k < M THEN c[t][k + 1] ELSE NoNode
      BY <3>1, <3>2, <3>3, <1>6
    <3>6. i < Len(e[u]) <=> k < M
      BY <3>1, <1>13
    <3> QED BY <2>4, <3>4, <3>5, <3>6
  <2> QED BY <2>1, <2>2, <2>3, <2>4, <1>10, <1>14
<1>22. Apart(e)'
  <2> SUFFICES ASSUME NEW v \in Threads, NEW w \in Threads, NEW i \in 1..Len(e[v]), NEW j \in 1..Len(e[w]),
                      e[v][i] = e[w][j]
               PROVE  v = w /\ i = j
    BY DEF Apart
  <2>1. CASE (v = u /\ i > L) /\ (w = u /\ j > L)
    <3>1. /\ i - L \in 1..Len(c[t]) /\ e[v][i] = c[t][i - L] /\ j - L \in 1..Len(c[t]) /\ e[w][j] = c[t][j - L]
          /\ i \in Nat /\ j \in Nat
      BY <2>1, <1>14
    <3>2. PICK m, n : m = i - L /\ n = j - L
      OBVIOUS
    <3>3. m \in 1..Len(c[t]) /\ n \in 1..Len(c[t]) /\ c[t][m] = c[t][n]
      BY <3>1, <3>2, <2>1
    <3>4. m = n
      BY <3>3, <1>0, <1>1 DEF Apart
    <3> QED BY <2>1, <3>1, <3>2, <3>4, <1>10
  <2>2. CASE (v = u /\ i > L) /\ ~(w = u /\ j > L)
    BY <2>2, <1>0, <1>1, <1>14 DEF Apart
  <2>3. CASE ~(v = u /\ i > L) /\ (w = u /\ j > L)
    BY <2>3, <1>0, <1>1, <1>14 DEF Apart
  <2>4. CASE ~(v = u /\ i > L) /\ ~(w = u /\ j > L)
    BY <2>4, <1>0, <1>1, <1>14 DEF Apart
  <2> QED BY <2>1, <2>2, <2>3, <2>4
<1>23. \A v \in Producers : v # t => (Late(v)' <=> Late(v)) /\ node'[v] = node[v] /\ pc'[v] = pc[v]
  BY <1>0, <1>2, <1>6 DEF Late, Alone, At
<1>24. Heads(e)'
  <2>1. Len(e[Consumer]) > 0 /\ e[Consumer][1] = head.node
    <3>1. CASE Consumer = u
      <4>1. 1 \in 1..L /\ L + M > 0
        BY <1>10
      <4> QED BY <3>1, <4>1, <1>1, <1>13 DEF Heads
    <3>2. CASE Consumer # u
      BY <3>2, <1>0, <1>1, <1>13 DEF Heads
    <3> QED BY <3>1, <3>2
  <2>2. ASSUME NEW v \in Producers
        PROVE  (Late(v)' => Len(e[v]) > 0 /\ e[v][1] = node[v]) /\ (~Late(v)' => e[v] = <<>>)
    <3>1. CASE v = t
      BY <3>1, <1>7, <1>13
    <3>2. CASE v = u
      <4>1. Late(v)
        <5>1. c[v] # <<>>
          BY <3>2, <1>5, EmptySeq
        <5> QED BY <5>1, <1>1 DEF Heads
      <4>2. c[v][1] = node[v] /\ e[v][1] = c[v][1] /\ Len(e[v]) > 0
        <5>1. 1 \in 1..L /\ L + M > 0
          BY <1>10
        <5> QED BY <5>1, <3>2, <4>1, <1>1, <1>13 DEF Heads
      <4> QED BY <3>2, <4>1, <4>2, <1>5, <1>23
    <3>3. CASE v # t /\ v # u
      BY <3>3, <1>0, <1>1, <1>13, <1>23 DEF Heads
    <3> QED BY <3>1, <3>2, <3>3
  <2> QED BY <2>1, <2>2, <1>6 DEF Heads
<1>25. InUse(e)'
  <2>1. \A x : Dead(x)' <=> Dead(x)
    BY <1>0, <1>2 DEF Dead, Alone
  <2> QED BY <2>1, <1>1, <1>4, <1>6, <1>16 DEF InUse, On
<1>26. Falling(e)'
  <2> SUFFICES ASSUME NEW v \in Producers, NEW i \in 1..Len(e[v]), NEW j \in 1..Len(e[v]), i < j
               PROVE  data[e[v][j]] < data[e[v][i]]
    BY <1>6 DEF Falling
  <2>1. CASE v = u /\ i > L
    <3>1. j > L /\ i - L < j - L /\ i - L \in 1..Len(c[t]) /\ j - L \in 1..Len(c[t])
          /\ e[v][i] = c[t][i - L] /\ e[v][j] = c[t][j - L]
      <4>1. i \in Nat /\ j \in Nat
        BY <1>0, <1>14
      <4>2. j > L /\ i - L < j - L
        BY <4>1, <2>1, <1>10
      <4> QED BY <4>2, <2>1, <1>0, <1>14
    <3>2. PICK m, n : m = i - L /\ n = j - L
      OBVIOUS
    <3>3. m \in 1..Len(c[t]) /\ n \in 1..Len(c[t]) /\ m < n /\ e[v][i] = c[t][m] /\ e[v][j] = c[t][n]
      BY <3>1, <3>2
    <3>4. data[c[t][n]] < data[c[t][m]]
      BY <3>3, <1>1 DEF Falling
    <3> QED BY <3>3, <3>4
  <2>2. CASE v = u /\ i <= L /\ j > L
    <3>1. Detached(c, o)
      BY <2>2, <1>5, <1>10 DEF Detached
    <3>2. i \in 1..Len(c[u]) /\ e[u][i] = c[u][i] /\ j - L \in 1..Len(c[t]) /\ e[u][j] = c[t][j - L]
      BY <2>2, <1>0, <1>10, <1>14
    <3>3. data[c[u][i]] \in Nat /\ data[o] \in Nat /\ data[node[t]] \in Nat /\ data[c[t][j - L]] \in Nat
      BY <3>2, <1>0, <1>1, <1>4, <1>8, <1>9 DEF LinkedTypeOK
    <3>4. i = L \/ data[o] < data[c[u][i]]
      <4>1. L \in 1..L
        BY <1>10
      <4>2. L \in 1..Len(c[u]) /\ c[u][L] = o
        BY <4>1, <1>5, <1>11
      <4>3. i = L \/ i < L
        BY <2>2, <1>10, <1>14
      <4> QED BY <2>2, <3>2, <4>2, <4>3, <1>1 DEF Falling
    <3>5. i = L => c[u][i] = o
      BY <1>5, <1>11
    <3>6. j - L = 1 \/ data[c[t][j - L]] < data[node[t]]
      BY <3>2, <1>1, <1>8, <1>9, <1>0 DEF Falling
    <3>7. j - L = 1 => c[t][j - L] = node[t]
      BY <1>8
    <3>8. data[c[t][j - L]] <= data[node[t]] /\ data[o] <= data[c[u][i]]
      <4>1. PICK w, x, y, z : w = data[c[t][j - L]] /\ x = data[node[t]] /\ y = data[o] /\ z = data[c[u][i]]
        OBVIOUS
      <4>2. w = x \/ w < x
        BY <4>1, <3>6, <3>7
      <4>3. y = z \/ y < z
        BY <4>1, <3>4, <3>5
      <4>4. w \in Nat /\ x \in Nat /\ y \in Nat /\ z \in Nat
        BY <4>1, <3>3
      <4>5. w <= x /\ y <= z
        BY <4>2, <4>3, <4>4
      <4> QED BY <4>1, <4>5
    <3>9. data[node[t]] < data[o]
      BY <3>1, <1>4
    <3>10. data[c[t][j - L]] < data[c[u][i]]
      BY <3>3, <3>8, <3>9
    <3> QED BY <2>2, <3>2, <3>10
  <2>3. CASE ~(v = u /\ i > L) /\ ~(v = u /\ j > L)
    BY <2>3, <1>0, <1>1, <1>14 DEF Falling
  <2> QED BY <2>1, <2>2, <2>3, <1>10, <1>14, <1>0
<1>27. TailOn(e, b)'
  <2>1. PICK i \in 1..Len(c[Consumer]) : c[Consumer][i] = tail.node
    BY <1>1 DEF TailOn
  <2>2. i \in 1..Len(e[Consumer]) /\ e[Consumer][i] = tail.node
    BY <2>1, <1>0, <1>15
  <2> QED BY <2>2, <1>1, <1>6 DEF TailOn
<1>28. Placed(e)'
  <2>1. \A x : Waits(e, x)' <=> Waits(c, x)
    BY <1>18 DEF Waits
  <2> QED BY <2>1, <1>1, <1>6 DEF Placed
<1>29. \A v \in Producers : v # t => ProducerInv(e, b, v)'
  <2>1. LaterStays(b, b)
    <3>1. \A v \in Producers : pc[v] = "num" => pc'[v] = "num" /\ node'[v] = node[v]
      BY <1>6, <1>23
    <3> QED BY <3>1, <1>6 DEF LaterStays, Later
  <2>2. LinksStay(b, b)
    BY <1>6 DEF LinksStay, QueueAssumption
  <2>3. \A x \in Nodes : x \in used \/ next[x] # NoNode => x \in used' \/ next'[x] # NoNode
    BY <1>4, <1>6
  <2>4. ASSUME NEW v \in Producers, NEW x \in Nodes, v # t, Late(v)
        PROVE  /\ Detached(e, x) /\ (Detached(c, x) => data[node[v]] < data[x]) => data'[node[v]] < data'[x]
               /\ next[x] # node[v] => next'[x] # node[v]
    <3>1. c[v][1] = node[v] /\ 1 \in 1..Len(c[v])
      BY <2>4, NotLinked
    <3>2. node[v] # node[t]
      BY <2>4, <3>1, <1>0, <1>1, <1>8 DEF Apart
    <3> QED BY <3>2, <1>6, <1>17
  <2> QED BY <2>1, <2>2, <2>3, <2>4, <1>0, <1>2, ProducersKeep
<1>30. ProducerInv(e, b, t)'
  <2>1. Behind(b, t)'
    BY <1>4, <1>6 DEF Behind
  <2> QED BY <2>1, <1>4, <1>6, <1>8 DEF ProducerInv
<1>31. ConsumerInv(b)'
  <2>1. next[head.node] \in Nodes => next'[head.node] = next[head.node]
    <3>1. head.node \in Nodes
      BY EndsIn
    <3> QED BY <3>1, <1>6 DEF QueueAssumption
  <2> QED BY <2>1, <1>2, <1>6, ConsumerKeeps
<1>32. Drawn(b)'
  BY <1>1, <1>6 DEF Drawn
<1>33. SizeInv'
  BY <1>0, <1>1, <1>2, <1>6 DEF SizeInv, Alone
<1>34. WitnessType(e, b)'
  BY <1>13 DEF WitnessType
<1>35. QInv(e, b)'
  BY <1>2, <1>21, <1>22, <1>24, <1>25, <1>26, <1>27, <1>28, <1>29, <1>30, <1>31, <1>32, <1>33, <1>34 DEF QInv
<1>36. e[Consumer] = c[Consumer] \/ (e[Consumer] = c[Consumer] \o c[t] /\ c[t] # <<>>)
  BY <1>0, <1>8, <1>13
<1> QED BY <1>35, <1>36

-----------------------------------------------------------------------------
(* The head *)

LEMMA AdvanceInv ==
  ASSUME NEW c, NEW b, QInv(c, b), QueueAssumption, NEW t, t = Consumer, Advance(t)
  PROVE  \E e : /\ QInv(e, b)' /\ Len(c[Consumer]) > 1 /\ e[Consumer] = Tail(c[Consumer])
                /\ taken' = Append(taken, data[c[Consumer][2]]) /\ data' = data
<1>0. t \in Threads /\ t \notin Producers /\ \A v \in Producers : v \in Threads /\ v # t
  BY DEF Threads, QueueAssumption
<1>1. /\ LinkedTypeOK /\ WitnessType(c, b) /\ SizeInv /\ ConsumerInv(b)
      /\ Drawn(b) /\ Linked(c) /\ Apart(c) /\ Heads(c) /\ InUse(c) /\ Falling(c) /\ TailOn(c, b) /\ Placed(c)
  BY DEF QInv
<1>2. LinkedTypeOK' /\ Alone(t)
  BY <1>0, <1>1, TypeKeeps, StepAlone DEF StepOf, DequeueStep
<1>3. PICK h, n : h = head.node /\ n = nxt[t]
  OBVIOUS
<1>4. /\ pc[t] = "advance" /\ oldHead[t] = head /\ n # NoNode /\ n = next[h] /\ item[t] = data[n]
      /\ tail.node # h
  BY <1>1, <1>3 DEF Advance, At, ConsumerInv
<1>5. /\ pc'[t] = "free" /\ head'.node = n /\ taken' = Append(taken, data[n]) /\ oldHead'[t].node = h
      /\ node'[t] = node[t] /\ node' = node
      /\ UNCHANGED <<tail, uniqueNum, size, next, data, used, items, seq, oldTail>>
  <2>1. pc \in [Threads -> {"idle", "num", "tail", "tailnum", "next", "link", "swap", "seq",
                         "swing", "help", "size", "giveup", "head", "headnum", "same",
                         "relink", "data", "advance", "free", "peek", "walk", "miss"}]
    BY <1>1 DEF LinkedTypeOK
  <2> QED BY <2>1, <1>0, <1>3, <1>4 DEF Advance, Goto
<1>6. Len(c[t]) > 1 /\ c[t][2] = n /\ c[t][1] = h /\ n \in Nodes /\ h \in Nodes
  BY <1>1, <1>3, <1>4, HeadNext, EndsIn DEF Heads
<1>7. \A v \in Threads : Len(c[v]) \in Nat /\ c[v] \in Seq(Nodes) /\ \A i \in 1..Len(c[v]) : c[v][i] \in Nodes
  BY <1>1, SeqFacts
<1> DEFINE N == Len(c[t])
<1>8. Len(c[t]) = N
  OBVIOUS
<1>9. N \in Nat /\ N > 1
  BY <1>0, <1>6, <1>7
<1> HIDE DEF N
<1>10. PICK e : e = [c EXCEPT ![t] = Tail(c[t])]
  OBVIOUS
<1>11. /\ e[t] = Tail(c[t]) /\ Len(e[t]) = N - 1 /\ \A i \in 1..N - 1 : e[t][i] = c[t][i + 1]
       /\ \A v \in Threads : v # t => e[v] = c[v]
       /\ WitnessType(e, b)
  <2>1. e[t] = Tail(c[t]) /\ \A v \in Threads : v # t => e[v] = c[v]
    BY <1>0, <1>1, <1>10 DEF WitnessType
  <2>2. c[t] \in Seq(Nodes) /\ c[t] # <<>>
    <3>1. Len(c[t]) # 0
      BY <1>8, <1>9
    <3> QED BY <3>1, <1>0, <1>7, EmptySeq
  <2>3. /\ Tail(c[t]) \in Seq(Nodes) /\ Len(Tail(c[t])) = Len(c[t]) - 1
        /\ \A i \in 1..Len(Tail(c[t])) : Tail(c[t])[i] = c[t][i + 1]
    BY <2>2, HeadTailProperties
  <2>4. WitnessType(e, b)
    BY <2>3, <1>0, <1>1, <1>10 DEF WitnessType
  <2> QED BY <2>1, <2>3, <2>4, <1>8
<1>12. 1 \in 1..Len(c[t]) /\ 2 \in 1..Len(c[t]) /\ N - 1 > 0 /\ 1 \in 1..N - 1
  <2>1. 1 \in 1..N /\ 2 \in 1..N /\ N - 1 > 0 /\ 1 \in 1..N - 1
    BY <1>9
  <2> QED BY <2>1, <1>8
<1>13. \A i \in 1..Len(e[t]) :
         /\ i + 1 \in 1..Len(c[t]) /\ i \in Nat /\ i + 1 # 1 /\ e[t][i] = c[t][i + 1]
         /\ i < Len(e[t]) <=> i + 1 < Len(c[t])
         /\ i < Len(e[t]) => e[t][i + 1] = c[t][i + 1 + 1]
  <2> SUFFICES ASSUME NEW i \in 1..N - 1
               PROVE  /\ i + 1 \in 1..N /\ i \in Nat /\ i + 1 # 1 /\ e[t][i] = c[t][i + 1]
                      /\ i < N - 1 <=> i + 1 < N
                      /\ i < N - 1 => e[t][i + 1] = c[t][i + 1 + 1]
    BY <1>8, <1>11
  <2>1. i + 1 \in 1..N /\ i \in Nat /\ i + 1 # 1 /\ (i < N - 1 <=> i + 1 < N)
    BY <1>9
  <2>2. ASSUME i < N - 1 PROVE e[t][i + 1] = c[t][i + 1 + 1]
    <3>1. PICK j : j = i + 1
      OBVIOUS
    <3>2. j \in 1..N - 1
      BY <2>2, <3>1, <1>9
    <3>3. e[t][j] = c[t][j + 1]
      BY <3>2, <1>11
    <3> QED BY <3>1, <3>3
  <2> QED BY <2>1, <2>2, <1>11
<1>14. \A j \in 1..Len(c[t]) : j # 1 => \E i \in 1..Len(e[t]) : e[t][i] = c[t][j] /\ j = i + 1
  <2> SUFFICES ASSUME NEW j \in 1..N, j # 1 PROVE \E i \in 1..N - 1 : e[t][i] = c[t][j] /\ j = i + 1
    BY <1>8, <1>11
  <2>1. PICK i : i = j - 1
    OBVIOUS
  <2>2. i \in 1..N - 1 /\ j = i + 1
    BY <2>1, <1>9
  <2> QED BY <2>2, <1>11
<1>15. \A i \in 1..Len(e[t]) : e[t][i] # h
  <2> SUFFICES ASSUME NEW i \in 1..Len(e[t]), e[t][i] = h PROVE FALSE
    OBVIOUS
  <2>1. PICK j : j = i + 1
    OBVIOUS
  <2>2. j \in 1..Len(c[t]) /\ j # 1 /\ c[t][j] = c[t][1]
    BY <2>1, <1>6, <1>13
  <2> QED BY <2>2, <1>0, <1>1, <1>12 DEF Apart
<1>16. \A x : On(e, x) <=> On(c, x) /\ x # h
  <2>1. ASSUME NEW x, On(e, x) PROVE On(c, x) /\ x # h
    <3>1. PICK v \in Threads : \E i \in 1..Len(e[v]) : e[v][i] = x
      BY <2>1 DEF On
    <3>2. CASE v = t
      BY <3>1, <3>2, <1>0, <1>13, <1>15 DEF On
    <3>3. CASE v # t
      <4>1. PICK i \in 1..Len(c[v]) : c[v][i] = x
        BY <3>1, <3>3, <1>11
      <4>2. x # c[t][1]
        BY <3>3, <4>1, <1>0, <1>1, <1>12 DEF Apart
      <4> QED BY <4>1, <4>2, <1>6 DEF On
    <3> QED BY <3>2, <3>3
  <2>2. ASSUME NEW x, On(c, x), x # h PROVE On(e, x)
    <3>1. PICK v \in Threads : \E i \in 1..Len(c[v]) : c[v][i] = x
      BY <2>2 DEF On
    <3>2. CASE v = t
      <4>1. PICK j \in 1..Len(c[t]) : c[t][j] = x
        BY <3>1, <3>2
      <4>2. j # 1
        BY <4>1, <2>2, <1>6
      <4> QED BY <4>1, <4>2, <1>0, <1>14 DEF On
    <3>3. CASE v # t
      BY <3>1, <3>3, <1>11 DEF On
    <3> QED BY <3>2, <3>3
  <2> QED BY <2>1, <2>2
<1>17. \A x : Waits(e, x) <=> Waits(c, x) /\ x # n
  <2>1. ASSUME NEW x, Waits(e, x) PROVE Waits(c, x) /\ x # n
    <3>1. PICK v \in Threads : \E i \in 1..Len(e[v]) : e[v][i] = x /\ ~(v = Consumer /\ i = 1)
      BY <2>1 DEF Waits
    <3>2. PICK i \in 1..Len(e[v]) : e[v][i] = x /\ ~(v = Consumer /\ i = 1)
      BY <3>1
    <3>3. CASE v = t
      <4>1. PICK j : j = i + 1
        OBVIOUS
      <4>2. j \in 1..Len(c[t]) /\ j # 1 /\ c[t][j] = x /\ i # 1 /\ i \in Nat
        BY <3>2, <3>3, <4>1, <1>13
      <4>3. j # 2
        BY <4>1, <4>2
      <4>4. x # n
        BY <4>2, <4>3, <1>0, <1>1, <1>6, <1>12 DEF Apart
      <4> QED BY <4>2, <4>4, <1>0 DEF Waits
    <3>4. CASE v # t
      <4>1. i \in 1..Len(c[v]) /\ c[v][i] = x
        BY <3>2, <3>4, <1>11
      <4>2. x # c[t][2]
        BY <4>1, <3>4, <1>0, <1>1, <1>12 DEF Apart
      <4> QED BY <3>4, <4>1, <4>2, <1>6 DEF Waits
    <3> QED BY <3>3, <3>4
  <2>2. ASSUME NEW x, Waits(c, x), x # n PROVE Waits(e, x)
    <3>1. PICK v \in Threads : \E i \in 1..Len(c[v]) : c[v][i] = x /\ ~(v = Consumer /\ i = 1)
      BY <2>2 DEF Waits
    <3>2. PICK j \in 1..Len(c[v]) : c[v][j] = x /\ ~(v = Consumer /\ j = 1)
      BY <3>1
    <3>3. CASE v = t
      <4>1. j # 1 /\ j # 2
        BY <3>2, <3>3, <2>2, <1>6
      <4>2. PICK i \in 1..Len(e[t]) : e[t][i] = c[t][j] /\ j = i + 1
        BY <3>2, <3>3, <4>1, <1>14
      <4>3. i # 1
        BY <4>1, <4>2
      <4> QED BY <3>2, <3>3, <4>2, <4>3, <1>0 DEF Waits
    <3>4. CASE v # t
      BY <3>2, <3>4, <1>11 DEF Waits
    <3> QED BY <3>3, <3>4
  <2> QED BY <2>1, <2>2
<1>18. Linked(e)'
  <2> SUFFICES ASSUME NEW v \in Threads, NEW i \in 1..Len(e[v])
               PROVE  next[e[v][i]] = IF i < Len(e[v]) THEN e[v][i + 1] ELSE NoNode
    BY <1>5 DEF Linked
  <2>1. CASE v = t
    <3>1. PICK j : j = i + 1
      OBVIOUS
    <3>2. /\ j \in 1..Len(c[t]) /\ e[t][i] = c[t][j] /\ (i < Len(e[t]) <=> j < Len(c[t]))
          /\ i < Len(e[t]) => e[t][i + 1] = c[t][j + 1]
      BY <2>1, <3>1, <1>13
    <3>3. next[c[t][j]] = IF j < Len(c[t]) THEN c[t][j + 1] ELSE NoNode
      BY <3>2, <1>0, <1>1 DEF Linked
    <3> QED BY <2>1, <3>2, <3>3
  <2>2. CASE v # t
    BY <2>2, <1>1, <1>11 DEF Linked
  <2> QED BY <2>1, <2>2
<1>19. Apart(e)'
  <2> SUFFICES ASSUME NEW v \in Threads, NEW w \in Threads, NEW i \in 1..Len(e[v]), NEW j \in 1..Len(e[w]),
                      e[v][i] = e[w][j]
               PROVE  v = w /\ i = j
    BY DEF Apart
  <2>1. PICK k, m : k = (IF v = t THEN i + 1 ELSE i) /\ m = (IF w = t THEN j + 1 ELSE j)
    OBVIOUS
  <2>2. k \in 1..Len(c[v]) /\ e[v][i] = c[v][k] /\ (v = t => i \in Nat)
    BY <2>1, <1>11, <1>13
  <2>3. m \in 1..Len(c[w]) /\ e[w][j] = c[w][m] /\ (w = t => j \in Nat)
    BY <2>1, <1>11, <1>13
  <2>4. v = w /\ k = m
    <3>1. k \in 1..Len(c[v]) /\ m \in 1..Len(c[w]) /\ c[v][k] = c[w][m]
      BY <2>2, <2>3
    <3> QED BY <3>1, <1>1 DEF Apart
  <2>5. CASE v = t
    BY <2>1, <2>2, <2>3, <2>4, <2>5
  <2>6. CASE v # t
    BY <2>1, <2>4, <2>6
  <2> QED BY <2>5, <2>6
<1>20. \A v \in Producers : (Late(v)' <=> Late(v)) /\ node'[v] = node[v] /\ pc'[v] = pc[v]
  BY <1>0, <1>2 DEF Late, Alone, At
<1>21. Heads(e)'
  <2>1. Len(e[t]) > 0 /\ e[t][1] = n
    BY <1>6, <1>11, <1>12
  <2> QED BY <2>1, <1>0, <1>1, <1>5, <1>11, <1>20 DEF Heads
<1>22. InUse(e)'
  <2>1. \A x : ~Dead(x) /\ (Dead(x)' <=> x = h)
    BY <1>4, <1>5 DEF Dead
  <2>2. On(c, h)
    BY <1>3, EndsIn
  <2>3. \A x : On(e, x)' <=> On(e, x)
    BY DEF On
  <2> QED BY <2>1, <2>2, <2>3, <1>1, <1>4, <1>5, <1>16 DEF InUse
<1>23. Falling(e)'
  BY <1>0, <1>1, <1>5, <1>11 DEF Falling
<1>24. TailOn(e, b)'
  <2>1. PICK j \in 1..Len(c[t]) : c[t][j] = tail.node
    BY <1>1 DEF TailOn
  <2>2. j # 1
    BY <2>1, <1>4, <1>6
  <2>3. \E i \in 1..Len(e[t]) : e[t][i] = tail.node
    BY <2>1, <2>2, <1>14
  <2> QED BY <2>3, <1>1, <1>5 DEF TailOn
<1>25. Placed(e)'
  <2>1. \A x : Waits(e, x)' <=> Waits(e, x)
    BY DEF Waits
  <2>2. Waits(c, n)
    BY <1>0, <1>6, <1>12 DEF Waits
  <2>3. data[n] \in 1..items /\ data[n] \in Nat
    BY <2>2, <1>1, <1>6 DEF Placed, LinkedTypeOK
  <2>4. taken \in Seq(Nat)
    BY <1>1 DEF LinkedTypeOK
  <2>5. PICK k : k = Len(taken)
    OBVIOUS
  <2>6. k \in Nat /\ \A i : i \in 1..Len(taken) <=> i \in 1..k
    BY <2>4, <2>5, LenProperties
  <2>7. Len(taken') = k + 1 /\ taken'[k + 1] = data[n] /\ \A i \in 1..k : taken'[i] = taken[i]
    BY <2>3, <2>4, <2>5, <1>5, AppendProperties
  <2>8. \A i : i \in 1..k + 1 <=> i \in 1..k \/ i = k + 1
    BY <2>6
  <2>9. \A i \in 1..Len(taken') : (i \in 1..k /\ taken'[i] = taken[i]) \/ (i = k + 1 /\ taken'[i] = data[n])
    BY <2>7, <2>8
  <2>10. \A i \in 1..k : i \in 1..Len(taken')
    BY <2>7, <2>8
  <2>11. k + 1 \in 1..Len(taken')
    <3>1. k + 1 \in 1..k + 1
      BY <2>6
    <3> QED BY <3>1, <2>7
  <2>12. \A i \in 1..k : taken[i] # data[n]
    BY <2>2, <2>3, <2>6, <1>1, <1>6 DEF Placed
  <2>13. \A i \in 1..Len(taken') : taken'[i] \in 1..items'
    BY <2>3, <2>6, <2>9, <1>1, <1>5 DEF Placed
  <2>14. \A i, j \in 1..Len(taken') : taken'[i] = taken'[j] => i = j
    BY <2>6, <2>9, <2>12, <1>1 DEF Placed
  <2>15. \A x : (\E i \in 1..Len(taken') : taken'[i] = x) <=> (\E i \in 1..Len(taken) : taken[i] = x) \/ x = data[n]
    BY <2>6, <2>7, <2>9, <2>10, <2>11
  <2>16. \A x \in 1..items :
           (\E m \in Nodes : Waits(e, m) /\ data[m] = x) <=> (\E m \in Nodes : Waits(c, m) /\ data[m] = x) /\ x # data[n]
    BY <2>2, <1>1, <1>6, <1>17 DEF Placed
  <2>17. \A x \in 1..items :
           (\E i \in 1..Len(taken') : taken'[i] = x) <=> ~(\E m \in Nodes : Waits(e, m) /\ data[m] = x)
    BY <2>15, <2>16, <1>1 DEF Placed
  <2>18. /\ \A m \in Nodes : Waits(e, m) => data[m] \in 1..items
         /\ \A m, j \in Nodes : Waits(e, m) /\ Waits(e, j) /\ data[m] = data[j] => m = j
         /\ items <= MaxItems
    BY <1>1, <1>17 DEF Placed
  <2>19. /\ \A m \in Nodes : Waits(e, m)' => data'[m] \in 1..items'
         /\ \A m, j \in Nodes : Waits(e, m)' /\ Waits(e, j)' /\ data'[m] = data'[j] => m = j
         /\ items' <= MaxItems
    BY <2>1, <2>18, <1>5
  <2>20. \A x \in 1..items' :
           (\E i \in 1..Len(taken') : taken'[i] = x) <=> ~(\E m \in Nodes : Waits(e, m)' /\ data'[m] = x)
    BY <2>1, <2>17, <1>5
  <2> QED BY <2>13, <2>14, <2>19, <2>20 DEF Placed
<1>26. \A v \in Producers : ProducerInv(e, b, v)'
  <2>1. LaterStays(b, b)
    BY <1>5, <1>20 DEF LaterStays, Later
  <2>2. LinksStay(b, b)
    BY <1>5 DEF LinksStay
  <2>3. \A x : Detached(e, x) <=> Detached(c, x)
    BY <1>0, <1>11 DEF Detached
  <2>4. \A v \in Producers : v # t => ProducerInv(e, b, v)'
    BY <2>1, <2>2, <2>3, <1>0, <1>2, <1>5, ProducersKeep
  <2> QED BY <2>4, <1>0
<1>27. ConsumerInv(b)'
  BY <1>1, <1>5 DEF ConsumerInv
<1>28. Drawn(b)'
  BY <1>1, <1>5 DEF Drawn
<1>29. SizeInv'
  BY <1>1, <1>4, <1>5 DEF SizeInv
<1>30. WitnessType(e, b)'
  BY <1>11 DEF WitnessType
<1>31. QInv(e, b)'
  BY <1>2, <1>18, <1>19, <1>21, <1>22, <1>23, <1>24, <1>25, <1>26, <1>27, <1>28, <1>29, <1>30 DEF QInv
<1> QED BY <1>5, <1>6, <1>11, <1>31

LEMMA FreeHeadInv ==
  ASSUME NEW c, NEW b, QInv(c, b), QueueAssumption, NEW t, t = Consumer, FreeHead(t)
  PROVE  QInv(c, b)'
<1>0. t \in Threads /\ t \notin Producers /\ \A v \in Producers : v \in Threads /\ v # t
  BY DEF Threads, QueueAssumption
<1>1. /\ LinkedTypeOK /\ WitnessType(c, b) /\ SizeInv /\ ConsumerInv(b)
      /\ Drawn(b) /\ Linked(c) /\ Apart(c) /\ Heads(c) /\ InUse(c) /\ Falling(c) /\ TailOn(c, b) /\ Placed(c)
  BY DEF QInv
<1>2. LinkedTypeOK' /\ Alone(t)
  BY <1>0, <1>1, TypeKeeps, StepAlone DEF StepOf, DequeueStep
<1>3. PICK o : o = oldHead[t].node
  OBVIOUS
<1>4. /\ pc[t] = "free" /\ used' = used \ {o} /\ Return(t)
      /\ UNCHANGED <<head, tail, uniqueNum, size, next, data, items, taken>>
  BY <1>3 DEF FreeHead, At
<1>5. /\ pc'[t] = "idle" /\ node'[t] = NoNode /\ seq'[t] = 0 /\ oldTail'[t] = NoEnd
  BY <1>0, <1>1, <1>4 DEF Return, Goto, LinkedTypeOK
<1>6. \A v \in Producers : (Late(v)' <=> Late(v)) /\ node'[v] = node[v] /\ pc'[v] = pc[v]
  BY <1>0, <1>2 DEF Late, Alone, At
<1>7. \A x : Dead(x) <=> x = o
  BY <1>3, <1>4 DEF Dead
<1>8. \A x : ~Dead(x)'
  BY <1>5 DEF Dead
<1>9. InUse(c)'
  <2>1. \A x : On(c, x)' <=> On(c, x)
    BY DEF On
  <2> QED BY <2>1, <1>1, <1>4, <1>7, <1>8 DEF InUse
<1>10. Heads(c)'
  BY <1>1, <1>4, <1>6 DEF Heads
<1>11. \A v \in Producers : ProducerInv(c, b, v)'
  <2>1. LaterStays(b, b)
    BY <1>4, <1>6 DEF LaterStays, Later
  <2>2. LinksStay(b, b)
    BY <1>4 DEF LinksStay, Later
  <2>3. \A x \in Nodes : x \in used \/ next[x] # NoNode => x \in used' \/ next'[x] # NoNode
    <3>1. o \in Nodes => next[o] = head.node
      BY <1>1, <1>7 DEF InUse
    <3>2. head.node # NoNode
      BY EndsIn DEF QueueAssumption
    <3> QED BY <3>1, <3>2, <1>4
  <2>4. \A v \in Producers : v # t => ProducerInv(c, b, v)'
    BY <2>1, <2>2, <2>3, <1>0, <1>2, <1>4, ProducersKeep
  <2> QED BY <2>4, <1>0
<1>12. ConsumerInv(b)'
  BY <1>5 DEF ConsumerInv
<1>13. Drawn(b)'
  <2>1. uniqueNum \in Nat
    BY <1>1 DEF LinkedTypeOK
  <2>2. \A u \in Threads : seq'[u] <= uniqueNum /\ oldTail'[u].num <= uniqueNum
    <3> SUFFICES ASSUME NEW u \in Threads PROVE seq'[u] <= uniqueNum /\ oldTail'[u].num <= uniqueNum
      OBVIOUS
    <3>1. CASE u = t
      BY <2>1, <3>1, <1>5 DEF NoEnd
    <3>2. CASE u # t
      BY <3>2, <1>1, <1>2 DEF Drawn, Alone
    <3> QED BY <3>1, <3>2
  <2> QED BY <2>2, <1>1, <1>4 DEF Drawn
<1>14. Linked(c)' /\ Apart(c)' /\ Falling(c)' /\ TailOn(c, b)' /\ WitnessType(c, b)'
  BY <1>1, <1>4 DEF Linked, Apart, Falling, TailOn, WitnessType
<1>15. Placed(c)'
  <2>1. \A n : Waits(c, n)' <=> Waits(c, n)
    BY DEF Waits
  <2>2. UNCHANGED <<data, items, taken>> /\ Placed(c)
    BY <1>1, <1>4
  <2> QED BY <2>1, <2>2 DEF Placed
<1>16. SizeInv'
  BY <1>1, <1>4, <1>5 DEF SizeInv
<1> QED BY <1>2, <1>9, <1>10, <1>11, <1>12, <1>13, <1>14, <1>15, <1>16 DEF QInv

-----------------------------------------------------------------------------
(* Every step *)

\* What a step does to the main chain: nothing; a private chain is put behind it; the
\* first node of it is taken out.
Stays(c, e) ==
  /\ e[Consumer] = c[Consumer] /\ taken' = taken
  /\ \A i \in 1..Len(c[Consumer]) : data'[c[Consumer][i]] = data[c[Consumer][i]]

Grows(c, e) ==
  /\ taken' = taken /\ data' = data
  /\ \E s \in Seq(Nodes) : s # <<>> /\ e[Consumer] = c[Consumer] \o s

Shrinks(c, e) ==
  /\ Len(c[Consumer]) > 1 /\ e[Consumer] = Tail(c[Consumer])
  /\ taken' = Append(taken, data[c[Consumer][2]]) /\ data' = data

LEMMA StepInv ==
  ASSUME NEW c, NEW b, QInv(c, b), QueueAssumption, LinkTail, [LinkedNext]_linkedVars
  PROVE  \E e, d : QInv(e, d)' /\ (Stays(c, e) \/ Grows(c, e) \/ Shrinks(c, e))
<1>0. Consumer \in Threads /\ \A t \in Producers : t \in Threads /\ t # Consumer
  BY DEF Threads, QueueAssumption
<1>1. \A t \in Threads : t \in Producers \/ t = Consumer
  BY DEF Threads
<1>2. UNCHANGED <<data, taken>> => Stays(c, c)
  BY DEF Stays
<1>3. ASSUME NEW t \in Producers,
             ReadTail(t) \/ ReadTailNum(t) \/ ReadNext(t) \/ ReadLink(t) \/ ReadSeq(t) \/ CountUp(t)
      PROVE  QInv(c, b)' /\ Stays(c, c)
  <2>1. QInv(c, b)'
    BY <1>3, ProducerReads
  <2>2. UNCHANGED <<data, taken>>
    BY <1>3 DEF ReadTail, ReadTailNum, ReadNext, ReadLink, ReadSeq, CountUp, queueVars
  <2> QED BY <2>1, <2>2, <1>2
<1>4. ASSUME NEW t \in Producers, TakeNum(t)
      PROVE  \E d : QInv(c, d)' /\ Stays(c, c)
  <2>1. UNCHANGED <<data, taken>>
    BY <1>4 DEF TakeNum
  <2> QED BY <2>1, <1>2, <1>4, TakeNumProducer
<1>5. ASSUME NEW t \in Threads, (t \in Producers /\ Swing(t)) \/ Help(t)
      PROVE  QInv(c, b)' /\ Stays(c, c)
  <2>1. QInv(c, b)'
    BY <1>1, <1>5, TailStep
  <2>2. UNCHANGED <<data, taken>>
    BY <1>5 DEF Swing, Help
  <2> QED BY <2>1, <2>2, <1>2
<1>6. ASSUME NEW t \in Producers, Enqueue(t)
      PROVE  \E e : QInv(e, b)' /\ Stays(c, e)
  BY <1>6, NodeInv DEF Stays
<1>7. ASSUME NEW t \in Producers, Swap(t)
      PROVE  \E e : QInv(e, b)' /\ (Stays(c, e) \/ Grows(c, e))
  <2>1. UNCHANGED <<data, taken>>
    BY <1>7 DEF Swap
  <2>2. CASE next[link[t]] # NoNode
    BY <2>1, <2>2, <1>2, <1>7, ProducerReads
  <2>3. CASE next[link[t]] = NoNode
    <3>1. c[t] \in Seq(Nodes)
      BY <1>0, SeqFacts DEF QInv
    <3>2. PICK e : QInv(e, b)' /\ \/ e[Consumer] = c[Consumer]
                                  \/ e[Consumer] = c[Consumer] \o c[t] /\ c[t] # <<>>
      BY <1>7, <2>3, SwapInv
    <3> QED BY <2>1, <3>1, <3>2 DEF Stays, Grows
  <2> QED BY <2>2, <2>3
<1>8. ASSUME NEW t, t = Consumer,
             \/ ReadTail(t) \/ ReadTailNum(t) \/ ReadNext(t) \/ ReadSeq(t) \/ Dequeue(t) \/ GiveUp(t)
             \/ ReadHead(t) \/ ReadHeadNum(t) \/ Same(t) \/ ReLink(t) \/ ReadData(t)
             \/ Peek(t) \/ PeekHead(t) \/ Walk(t) \/ Miss(t)
      PROVE  QInv(c, b)' /\ Stays(c, c)
  <2>1. QInv(c, b)'
    BY <1>8, ConsumerReads
  <2>2. UNCHANGED <<data, taken>>
    BY <1>8 DEF ReadTail, ReadTailNum, ReadNext, ReadSeq, Dequeue, GiveUp, ReadHead, ReadHeadNum, Same,
                ReLink, ReadData, Peek, PeekHead, Walk, Miss, queueVars
  <2> QED BY <2>1, <2>2, <1>2
<1>9. ASSUME NEW t, t = Consumer, TakeNum(t) \/ FreeHead(t)
      PROVE  QInv(c, b)' /\ Stays(c, c)
  <2>1. QInv(c, b)'
    BY <1>9, TakeNumConsumer, FreeHeadInv
  <2>2. UNCHANGED <<data, taken>>
    BY <1>9 DEF TakeNum, FreeHead
  <2> QED BY <2>1, <2>2, <1>2
<1>10. ASSUME NEW t, t = Consumer, Advance(t)
       PROVE  \E e : QInv(e, b)' /\ Shrinks(c, e)
  BY <1>10, AdvanceInv DEF Shrinks
<1>11. ASSUME UNCHANGED linkedVars
       PROVE  QInv(c, b)' /\ Stays(c, c)
  <2>1. UNCHANGED <<head, tail, uniqueNum, size, next, data, used, items, taken,
                    pc, node, oldHead, oldTail, nxt, link, seq, item, steps>>
    BY <1>11 DEF linkedVars, queueVars, thVars
  <2>2. /\ LinkedTypeOK /\ WitnessType(c, b) /\ SizeInv /\ ConsumerInv(b)
        /\ Drawn(b) /\ Linked(c) /\ Apart(c) /\ Heads(c) /\ InUse(c) /\ Falling(c) /\ TailOn(c, b) /\ Placed(c)
        /\ \A t \in Producers : ProducerInv(c, b, t)
    BY DEF QInv
  <2>3. (LinkedTypeOK /\ WitnessType(c, b) /\ SizeInv /\ ConsumerInv(b) /\ Drawn(b))'
    BY <2>1, <2>2 DEF LinkedTypeOK, WitnessType, SizeInv, ConsumerInv, Drawn
  <2>4. (Linked(c) /\ Apart(c) /\ Falling(c) /\ TailOn(c, b))'
    BY <2>1, <2>2 DEF Linked, Apart, Falling, TailOn
  <2>5. Heads(c)' /\ InUse(c)'
    BY <2>1, <2>2 DEF Heads, Late, At, InUse, On, Dead
  <2>6. Placed(c)'
    BY <2>1, <2>2 DEF Placed, Waits
  <2>7. \A t \in Producers : ProducerInv(c, b, t)'
    BY <2>1, <2>2 DEF ProducerInv, Behind, Later, Detached
  <2> QED BY <2>1, <2>3, <2>4, <2>5, <2>6, <2>7, <1>2 DEF QInv
<1>12. CASE \E t \in Threads : Loop(t)
  <2>1. PICK t \in Threads : Loop(t)
    BY <1>12
  <2>2. CASE t \in Producers
    BY <2>1, <2>2, <1>0, <1>3, <1>4, <1>5 DEF Loop
  <2>3. CASE t = Consumer
    BY <2>1, <2>3, <1>0, <1>5, <1>8, <1>9 DEF Loop
  <2> QED BY <2>2, <2>3, <1>1
<1>13. CASE \E t \in Producers : EnqueueStep(t)
  BY <1>13, <1>0, <1>3, <1>5, <1>6, <1>7 DEF EnqueueStep
<1>14. CASE DequeueStep(Consumer)
  BY <1>14, <1>8, <1>9, <1>10 DEF DequeueStep
<1>15. CASE PeekStep(Consumer)
  BY <1>15, <1>8 DEF PeekStep
<1> QED BY <1>11, <1>12, <1>13, <1>14, <1>15 DEF LinkedNext

LEMMA QueueInit ==
  ASSUME QueueAssumption, LinkedInit
  PROVE  \E c, b : QInv(c, b) /\ Len(c[Consumer]) = 1
<1>1. Consumer \in Threads /\ Consumer \notin Producers /\ Dummy \in Nodes /\ NoNode \notin Nodes
      /\ \A t \in Producers : t \in Threads /\ t # Consumer
  BY DEF Threads, QueueAssumption
<1>2. PICK c, b : c = [t \in Threads |-> IF t = Consumer THEN <<Dummy>> ELSE <<>>] /\ b = [n \in Nodes |-> 0]
  OBVIOUS
<1>3. <<Dummy>> \in Seq(Nodes) /\ <<>> \in Seq(Nodes) /\ Len(<<Dummy>>) = 1 /\ Len(<<>>) = 0 /\ <<Dummy>>[1] = Dummy
  BY <1>1
<1>4. /\ c[Consumer][1] = Dummy /\ 1 \in 1..Len(c[Consumer]) /\ Len(c[Consumer]) = 1
      /\ \A t \in Threads : \A i \in 1..Len(c[t]) : t = Consumer /\ i = 1 /\ c[t][i] = Dummy /\ ~(i < Len(c[t]))
      /\ \A t \in Producers : c[t] = <<>>
  BY <1>1, <1>2, <1>3
<1>5. WitnessType(c, b) /\ \A n \in Nodes : b[n] = 0
  BY <1>2, <1>3 DEF WitnessType
<1>6. LinkedTypeOK
  <2>1. taken \in Seq(Nat)
    BY EmptySeq DEF LinkedInit
  <2>2. \A t \in Threads : NoNode \in NodeOrNull /\ NoEnd \in End
    BY DEF NodeOrNull, NoEnd, End
  <2>3. head \in End /\ tail \in End /\ uniqueNum \in Nat /\ size \in Nat \cup {-1} /\ items \in Nat
    BY <1>1 DEF LinkedInit, End, NodeOrNull
  <2> QED BY <2>1, <2>2, <2>3, <1>1 DEF LinkedTypeOK, LinkedInit, NodeOrNull
<1>7. /\ head.node = Dummy /\ tail.node = Dummy /\ tail.num = 0 /\ uniqueNum = 0 /\ size = 0 /\ items = 0
      /\ taken = <<>> /\ Len(taken) = 0 /\ used = {Dummy} /\ \A n \in Nodes : next[n] = NoNode
      /\ \A t \in Threads : /\ pc[t] = "idle" /\ node[t] = NoNode /\ seq[t] = 0 /\ oldTail[t].num = 0
  BY <1>3 DEF LinkedInit, NoEnd
<1>8. \A x : On(c, x) <=> x = Dummy
  BY <1>1, <1>4 DEF On
<1>9. \A x : ~Waits(c, x)
  BY <1>4 DEF Waits
<1>10. Linked(c)
  BY <1>1, <1>4, <1>7 DEF Linked
<1>11. Apart(c)
  BY <1>4 DEF Apart
<1>12. Heads(c)
  BY <1>1, <1>4, <1>7 DEF Heads, Late, At
<1>13. InUse(c)
  BY <1>1, <1>7, <1>8 DEF InUse, Dead
<1>14. Falling(c)
  BY <1>1, <1>4 DEF Falling
<1>15. TailOn(c, b)
  BY <1>1, <1>4, <1>5, <1>7 DEF TailOn
<1>16. Drawn(b)
  BY <1>5, <1>7 DEF Drawn
<1>17. Placed(c)
  BY <1>7, <1>9 DEF Placed, QueueAssumption
<1>18. \A t \in Producers : ProducerInv(c, b, t)
  BY <1>1, <1>7 DEF ProducerInv
<1>19. ConsumerInv(b) /\ SizeInv
  BY <1>1, <1>7 DEF ConsumerInv, SizeInv
<1>20. QInv(c, b)
  BY <1>5, <1>6, <1>10, <1>11, <1>12, <1>13, <1>14, <1>15, <1>16, <1>17, <1>18, <1>19 DEF QInv
<1> QED BY <1>4, <1>20

-----------------------------------------------------------------------------
(* One call of Enqueue at a time *)

\* The calls of Enqueue come one after another, on one thread or on several; the thread
\* that dequeues goes on beside them.
OneAtATime == \A t, u \in Producers : pc[t] # "idle" /\ pc[u] # "idle" => t = u

\* The tail lags only behind the node of a call that has linked it and not yet swung the
\* tail, and moves only then.
Steady ==
  /\ \A t \in Producers :
       /\ pc[t] # "help"
       /\ pc[t] \in {"tailnum", "next", "link", "swap"} => oldTail[t].node = tail.node
       /\ pc[t] \in {"next", "link", "swap"} => oldTail[t] = tail
       /\ pc[t] \in {"num", "tail", "tailnum", "next", "link", "swap", "seq", "swing"} =>
            next[node[t]] = NoNode
       /\ pc[t] \in {"seq", "swing"} =>
            /\ nxt[t] = node[t]
            /\ tail.node = node[t] \/ (tail = oldTail[t] /\ next[tail.node] = node[t])
  /\ (\A t \in Producers : pc[t] \notin {"seq", "swing"}) => next[tail.node] = NoNode

LEMMA SteadyConsumer ==
  ASSUME NEW c, NEW b, QInv(c, b), QueueAssumption, Steady, OneAtATime,
         NEW t, t = Consumer, Loop(t) \/ DequeueStep(t) \/ PeekStep(t)
  PROVE  Steady'
<1>0. t \in Threads /\ \A u \in Producers : u \in Threads /\ u # t
  BY DEF Threads, QueueAssumption
<1>1. LinkedTypeOK /\ ConsumerInv(b) /\ NoNode \notin Nodes
  BY DEF QInv, QueueAssumption
<1>2. Alone(t)
  BY <1>0, <1>1, StepAlone DEF StepOf
<1>3. \A u \in Producers : /\ pc'[u] = pc[u] /\ node'[u] = node[u] /\ nxt'[u] = nxt[u]
                           /\ oldTail'[u] = oldTail[u]
  BY <1>0, <1>2 DEF Alone
<1>4. next' = next
  <2>1. CASE Loop(t)
    BY <2>1 DEF Loop, TakeNum, ReadTail, ReadTailNum, ReadNext, ReadSeq, Help, queueVars
  <2>2. CASE DequeueStep(t)
    BY <2>2 DEF DequeueStep, Dequeue, GiveUp, ReadHead, ReadHeadNum, Same, ReLink, ReadData, Advance, FreeHead,
                queueVars
  <2>3. CASE PeekStep(t)
    BY <2>3 DEF PeekStep, Peek, PeekHead, Walk, Miss, queueVars
  <2> QED BY <2>1, <2>2, <2>3
<1>5. CASE tail' = tail
  BY <1>3, <1>4, <1>5 DEF Steady
<1>6. CASE Help(t)
  <2>1. pc[t] = "help" /\ tail' = IF tail = oldTail[t] THEN [node |-> nxt[t], num |-> seq[t]] ELSE tail
    BY <1>6 DEF Help, At
  <2>2. CASE tail # oldTail[t]
    BY <2>1, <2>2, <1>5
  <2>3. CASE tail = oldTail[t]
    <3>1. tail.node = head.node /\ nxt[t] # NoNode /\ nxt[t] = next[tail.node] /\ tail'.node = nxt[t]
      BY <2>1, <2>3, <1>0, <1>1 DEF ConsumerInv
    <3>2. PICK u \in Producers : pc[u] \in {"seq", "swing"}
      BY <3>1 DEF Steady
    <3>3. next[node[u]] = NoNode
      BY <3>2 DEF Steady
    <3>4. nxt[t] = node[u]
      <4>1. tail.node # node[u]
        BY <3>1, <3>3
      <4> QED BY <4>1, <3>1, <3>2 DEF Steady
    <3>5. \A v \in Producers : v # u => pc'[v] = "idle"
      BY <3>2, <1>3 DEF OneAtATime
    <3>6. /\ pc'[u] \in {"seq", "swing"} /\ next'[node'[u]] = NoNode /\ nxt'[u] = node'[u]
          /\ tail'.node = node'[u]
      BY <3>1, <3>2, <3>3, <3>4, <1>3, <1>4 DEF Steady
    <3> QED BY <3>5, <3>6 DEF Steady
  <2> QED BY <2>2, <2>3
<1>7. tail' = tail \/ Help(t)
  <2>1. CASE Loop(t)
    BY <2>1 DEF Loop, TakeNum, ReadTail, ReadTailNum, ReadNext, ReadSeq, queueVars
  <2>2. CASE DequeueStep(t)
    BY <2>2 DEF DequeueStep, Dequeue, GiveUp, ReadHead, ReadHeadNum, Same, ReLink, ReadData, Advance, FreeHead,
                queueVars
  <2>3. CASE PeekStep(t)
    BY <2>3 DEF PeekStep, Peek, PeekHead, Walk, Miss, queueVars
  <2> QED BY <2>1, <2>2, <2>3
<1> QED BY <1>5, <1>6, <1>7

LEMMA SteadyProducer ==
  ASSUME NEW c, NEW b, QInv(c, b), QueueAssumption, Steady,
         NEW t \in Producers, Loop(t) \/ EnqueueStep(t),
         \A u \in Producers : u # t => pc[u] = "idle"
  PROVE  Steady'
<1>0. t \in Threads /\ t # Consumer /\ \A u \in Producers : u \in Threads
  BY DEF Threads, QueueAssumption
<1>1. LinkedTypeOK /\ ProducerInv(c, b, t) /\ NoNode \notin Nodes
  BY DEF QInv, QueueAssumption
<1>2. \A u \in Producers : u # t => pc'[u] = "idle"
  <2>1. Alone(t)
    BY <1>0, <1>1, StepAlone DEF StepOf
  <2> QED BY <2>1, <1>0 DEF Alone
<1> DEFINE Mine == /\ pc'[t] # "help"
                   /\ pc'[t] \in {"tailnum", "next", "link", "swap"} => oldTail'[t].node = tail'.node
                   /\ pc'[t] \in {"next", "link", "swap"} => oldTail'[t] = tail'
                   /\ pc'[t] \in {"num", "tail", "tailnum", "next", "link", "swap", "seq", "swing"} =>
                        next'[node'[t]] = NoNode
                   /\ pc'[t] \in {"seq", "swing"} =>
                        /\ nxt'[t] = node'[t]
                        /\ tail'.node = node'[t] \/ (tail' = oldTail'[t] /\ next'[tail'.node] = node'[t])
                   /\ pc'[t] \notin {"seq", "swing"} => next'[tail'.node] = NoNode
<1>3. Mine => Steady'
  BY <1>2 DEF Steady
<1>4. pc[t] \notin {"seq", "swing"} => next[tail.node] = NoNode
  BY DEF Steady
<1>5. tail.node \in Nodes /\ tail.node \in used /\ tail \in End
  BY <1>1, EndsIn DEF LinkedTypeOK
<1> HIDE DEF Mine
<1>6. CASE Enqueue(t)
  <2>1. PICK n \in Nodes \ used : /\ node' = [node EXCEPT ![t] = n]
                                  /\ next' = [next EXCEPT ![n] = NoNode]
    BY <1>6 DEF Enqueue
  <2>2. pc[t] = "idle" /\ pc'[t] = "num" /\ tail' = tail /\ node'[t] = n /\ next'[n] = NoNode
        /\ next'[tail.node] = next[tail.node]
    BY <1>0, <1>1, <1>5, <1>6, <2>1 DEF Enqueue, At, Goto, LinkedTypeOK
  <2> QED BY <2>2, <1>3, <1>4 DEF Mine
<1>7. CASE TakeNum(t)
  <2>1. pc[t] = "num" /\ pc'[t] = "tail" /\ UNCHANGED <<tail, next, node>>
    BY <1>0, <1>1, <1>7 DEF TakeNum, At, Goto, LinkedTypeOK
  <2> QED BY <2>1, <1>3, <1>4 DEF Mine, Steady
<1>8. CASE ReadTail(t)
  <2>1. pc[t] = "tail" /\ pc'[t] = "tailnum" /\ UNCHANGED <<tail, next, node>> /\ oldTail'[t].node = tail.node
    BY <1>0, <1>1, <1>8 DEF ReadTail, At, Goto, LinkedTypeOK, End, queueVars
  <2> QED BY <2>1, <1>3, <1>4 DEF Mine, Steady
<1>9. CASE ReadTailNum(t)
  <2>1. pc[t] = "tailnum" /\ pc'[t] = "next" /\ UNCHANGED <<tail, next, node>>
        /\ oldTail[t].node = tail.node /\ oldTail' = [oldTail EXCEPT ![t].num = tail.num]
    BY <1>0, <1>1, <1>9 DEF ReadTailNum, At, Goto, LinkedTypeOK, queueVars, Steady
  <2>2. oldTail'[t] = [node |-> oldTail[t].node, num |-> tail.num] /\ tail = [node |-> tail.node, num |-> tail.num]
    BY <2>1, <1>0, <1>1, <1>5 DEF LinkedTypeOK, End
  <2>3. oldTail'[t] = tail
    BY <2>1, <2>2
  <2> QED BY <2>1, <2>3, <1>3, <1>4 DEF Mine, Steady
<1>10. CASE ReadNext(t)
  <2>1. pc[t] = "next" /\ UNCHANGED <<tail, next, node, oldTail>> /\ oldTail[t] = tail
        /\ pc'[t] = IF next[oldTail[t].node] = NoNode THEN "link" ELSE "seq"
    BY <1>0, <1>1, <1>10 DEF ReadNext, At, Goto, LinkedTypeOK, queueVars, Steady
  <2>2. pc'[t] = "link"
    BY <2>1, <1>4
  <2> QED BY <2>1, <2>2, <1>3, <1>4 DEF Mine, Steady
<1>11. CASE ReadLink(t)
  <2>1. pc[t] = "link" /\ pc'[t] = "swap" /\ UNCHANGED <<tail, next, node, oldTail>>
    BY <1>0, <1>1, <1>11 DEF ReadLink, At, Goto, LinkedTypeOK, queueVars
  <2> QED BY <2>1, <1>3, <1>4 DEF Mine, Steady
<1>12. CASE Swap(t)
  <2>1. pc[t] = "swap" /\ link[t] = tail.node /\ oldTail[t] = tail /\ next[tail.node] = NoNode
    BY <1>1, <1>4, <1>12 DEF Swap, At, Steady, ProducerInv
  <2>2. next' = [next EXCEPT ![tail.node] = node[t]] /\ pc'[t] = "seq" /\ nxt'[t] = node[t]
        /\ UNCHANGED <<tail, node, oldTail>>
    BY <2>1, <1>0, <1>1, <1>12 DEF Swap, Goto, LinkedTypeOK
  <2>3. node[t] \in Nodes /\ next[node[t]] = NoNode
    BY <2>1, <1>1 DEF ProducerInv, Steady
  <2>4. tail.node # node[t]
    <3>1. PICK i \in 1..Len(c[Consumer]) : c[Consumer][i] = tail.node
      BY DEF QInv, TailOn
    <3>2. 1 \in 1..Len(c[t]) /\ c[t][1] = node[t]
      BY <2>1, <1>0, SeqFacts DEF QInv, Heads, Late
    <3>3. Consumer \in Threads
      BY DEF Threads
    <3> QED BY <3>1, <3>2, <3>3, <1>0 DEF QInv, Apart
  <2>5. next'[tail.node] = node[t] /\ next'[node[t]] = NoNode
    BY <2>2, <2>3, <2>4, <1>1, <1>5 DEF LinkedTypeOK
  <2> QED BY <2>1, <2>2, <2>5, <1>3 DEF Mine
<1>13. CASE ReadSeq(t)
  <2>1. pc[t] = "seq" /\ pc'[t] = "swing" /\ UNCHANGED <<tail, next, node, nxt, oldTail>>
    BY <1>0, <1>1, <1>13 DEF ReadSeq, At, Goto, LinkedTypeOK, queueVars, Steady
  <2> QED BY <2>1, <1>3 DEF Mine, Steady
<1>14. CASE Swing(t)
  <2>1. pc[t] = "swing" /\ pc'[t] = "size" /\ UNCHANGED <<next, node>> /\ next[node[t]] = NoNode
    BY <1>0, <1>1, <1>14 DEF Swing, At, Goto, LinkedTypeOK, Steady
  <2>2. tail'.node = node[t]
    BY <2>1, <1>14 DEF Swing, Steady
  <2> QED BY <2>1, <2>2, <1>3 DEF Mine
<1>15. CASE Help(t)
  BY <1>15 DEF Help, At, Steady
<1>16. CASE CountUp(t)
  <2>1. pc[t] = "size" /\ pc'[t] = "idle" /\ UNCHANGED <<tail, next>>
    BY <1>0, <1>1, <1>16 DEF CountUp, At, Goto, Return, LinkedTypeOK
  <2> QED BY <2>1, <1>3, <1>4 DEF Mine
<1> QED BY <1>6, <1>7, <1>8, <1>9, <1>10, <1>11, <1>12, <1>13, <1>14, <1>15, <1>16 DEF Loop, EnqueueStep

LEMMA SteadyStep ==
  ASSUME QueueInv, QueueAssumption, Steady, OneAtATime, OneAtATime', [LinkedNext]_linkedVars
  PROVE  Steady'
<1>1. PICK c, b : QInv(c, b)
  BY DEF QueueInv
<1>2. CASE UNCHANGED linkedVars
  BY <1>2 DEF linkedVars, queueVars, thVars, Steady
<1>3. ASSUME NEW t \in Producers, Loop(t) \/ EnqueueStep(t)
      PROVE  Steady'
  <2>1. t \in Threads /\ \A u \in Producers : u \in Threads
    BY DEF Threads
  <2>2. Alone(t) /\ LinkedTypeOK
    BY <1>1, <1>3, <2>1, StepAlone DEF StepOf, QInv
  <2>3. pc[t] # "idle" \/ pc'[t] # "idle"
    <3>1. pc[t] = "idle" => Enqueue(t)
      BY <1>3 DEF Loop, EnqueueStep, TakeNum, ReadTail, ReadTailNum, ReadNext, ReadSeq, Help,
                  ReadLink, Swap, Swing, CountUp, At
    <3>2. Enqueue(t) => pc'[t] = "num"
      BY <2>1, <2>2 DEF Enqueue, Goto, LinkedTypeOK
    <3> QED BY <3>1, <3>2
  <2>4. \A u \in Producers : u # t => pc[u] = "idle"
    BY <2>1, <2>2, <2>3 DEF OneAtATime, Alone
  <2> QED BY <1>1, <1>3, <2>4, SteadyProducer
<1>4. ASSUME NEW t, t = Consumer, Loop(t) \/ DequeueStep(t) \/ PeekStep(t)
      PROVE  Steady'
  BY <1>1, <1>4, SteadyConsumer
<1>5. CASE \E t \in Threads : Loop(t)
  BY <1>3, <1>4, <1>5 DEF Threads
<1> QED BY <1>2, <1>3, <1>4, <1>5 DEF LinkedNext

LEMMA SteadyInit ==
  ASSUME QueueAssumption, LinkedInit
  PROVE  Steady
<1>1. \A t \in Producers : pc[t] = "idle"
  BY DEF LinkedInit, Threads
<1> QED BY <1>1 DEF LinkedInit, Steady, QueueAssumption

\* While the calls of Enqueue come one after another, whatever the dequeuing thread does,
\* the nodes in use form chains that have no node in common, and the tail is read again
\* (LockFreeQueue.h:62) as it was read before.
THEOREM QueueInvariance == LinkedSpec /\ []OneAtATime => [](QueueInv /\ Steady)
<1>1. LinkedInit => QueueInv /\ Steady
  BY QueueAssumption, QueueInit, SteadyInit DEF QueueInv
<1>2. QueueInv /\ Steady /\ OneAtATime /\ OneAtATime' /\ [LinkedNext]_linkedVars => (QueueInv /\ Steady)'
  <2> SUFFICES ASSUME QueueInv, Steady, OneAtATime, OneAtATime', [LinkedNext]_linkedVars
               PROVE  QueueInv' /\ Steady'
    OBVIOUS
  <2>1. LinkTail
    BY DEF Steady, LinkTail
  <2>2. QueueInv'
    BY <2>1, QueueAssumption, StepInv DEF QueueInv
  <2> QED BY <2>2, QueueAssumption, SteadyStep
<1> QED BY <1>1, <1>2, PTL DEF LinkedSpec

-----------------------------------------------------------------------------
(* The properties *)

LEMMA ChainsAre ==
  ASSUME NEW c, NEW b, QInv(c, b), QueueAssumption
  PROVE  /\ Chain(head.node) = c[Consumer] /\ Len(c[Consumer]) <= Cardinality(Nodes)
         /\ \A x : x \in OnChain(head.node) <=> \E i \in 1..Len(c[Consumer]) : c[Consumer][i] = x
         /\ \A t \in Producers : \A x :
              x \in Private(t) <=> \E i \in 1..Len(c[t]) : c[t][i] = x
<1>1. Consumer \in Threads /\ \A t \in Producers : t \in Threads
  BY DEF Threads
<1>2. ASSUME NEW t \in Threads, NEW n, Len(c[t]) > 0, c[t][1] = n
      PROVE  Chain(n) = c[t] /\ Len(c[t]) <= Cardinality(Nodes)
             /\ \A x : x \in OnChain(n) <=> \E i \in 1..Len(c[t]) : c[t][i] = x
  <2>1. PICK s : s = c[t]
    OBVIOUS
  <2>2. s \in Seq(Nodes) /\ Len(s) \in Nat /\ DOMAIN s = 1..Len(s)
    BY <2>1, SeqFacts DEF QInv
  <2>3. \A i \in 1..Len(s) : next[s[i]] = IF i < Len(s) THEN s[i + 1] ELSE NoNode
    BY <2>1 DEF QInv, Linked
  <2>4. \A i, j \in 1..Len(s) : s[i] = s[j] => i = j
    BY <2>1 DEF QInv, Apart
  <2>5. n = (IF Len(s) > 0 THEN s[1] ELSE NoNode) /\ n \in NodeOrNull
    <3>1. 1 \in 1..Len(s)
      BY <1>2, <2>1, <2>2
    <3>2. s[1] \in Nodes
      BY <3>1, <2>2, ElementOfSeq
    <3> QED BY <3>2, <1>2, <2>1 DEF NodeOrNull
  <2>6. LinkedTypeOK
    BY DEF QInv
  <2>7. Chain(n) = s /\ Len(s) <= Cardinality(Nodes)
    BY <2>2, <2>3, <2>4, <2>5, <2>6, ChainIs
  <2> QED BY <2>1, <2>2, <2>7 DEF OnChain
<1>3. Len(c[Consumer]) > 0 /\ c[Consumer][1] = head.node
  BY DEF QInv, Heads
<1>4. ASSUME NEW t \in Producers
      PROVE  \A x : x \in Private(t) <=> \E i \in 1..Len(c[t]) : c[t][i] = x
  <2>1. CASE Late(t)
    <3>1. Len(c[t]) > 0 /\ c[t][1] = node[t]
      BY <2>1 DEF QInv, Heads
    <3> QED BY <1>1, <1>2, <2>1, <3>1 DEF Private
  <2>2. CASE ~Late(t)
    <3>1. c[t] = <<>> /\ Len(<<>>) = 0
      BY <2>2, EmptySeq DEF QInv, Heads
    <3> QED BY <2>2, <3>1 DEF Private
  <2> QED BY <2>1, <2>2
<1> QED BY <1>1, <1>2, <1>3, <1>4

LEMMA QueueWhole ==
  ASSUME NEW c, NEW b, QInv(c, b), QueueAssumption
  PROVE  Whole
<1>1. Consumer \in Threads /\ \A t \in Producers : t \in Threads /\ t # Consumer
  BY DEF Threads, QueueAssumption
<1>2. Len(Chain(head.node)) <= Cardinality(Nodes) /\ tail.node \in OnChain(head.node)
  BY ChainsAre DEF QInv, TailOn
<1>3. \A x : On(c, x) => x \in Nodes /\ x \in used
  <2>1. \A x : On(c, x) => x \in Nodes
    BY SeqFacts DEF QInv, On
  <2> QED BY <2>1 DEF QInv, InUse
<1>4. OnChain(head.node) \cap Free = {}
  BY <1>1, <1>3, ChainsAre DEF Free, On
<1>5. ASSUME NEW t \in Producers PROVE Private(t) \cap (OnChain(head.node) \cup Free) = {}
  <2> SUFFICES ASSUME NEW x \in Private(t), x \in OnChain(head.node) \cup Free PROVE FALSE
    OBVIOUS
  <2>1. PICK i \in 1..Len(c[t]) : c[t][i] = x
    BY ChainsAre
  <2>2. x \notin Free
    BY <2>1, <1>1, <1>3 DEF Free, On
  <2>3. PICK j \in 1..Len(c[Consumer]) : c[Consumer][j] = x
    BY <2>2, ChainsAre
  <2> QED BY <2>1, <2>3, <1>1 DEF QInv, Apart
<1> QED BY <1>2, <1>4, <1>5 DEF Whole

LEMMA QueueEachOnce ==
  ASSUME NEW c, NEW b, QInv(c, b), QueueAssumption
  PROVE  EachOnce
<1>1. Consumer \in Threads /\ \A t \in Producers : t \in Threads /\ t # Consumer
  BY DEF Threads, QueueAssumption
<1>2. Placed(c) /\ Apart(c) /\ Heads(c)
  BY DEF QInv
<1>3. taken \in Seq(Nat) /\ DOMAIN taken = 1..Len(taken)
  BY LenProperties DEF QInv, LinkedTypeOK
<1> DEFINE all == (OnChain(head.node) \ {head.node}) \cup UNION {Private(t) : t \in Producers}
<1>4. \A x : x \in all <=> Waits(c, x)
  <2>0. /\ Len(c[Consumer]) \in Nat /\ 1 \in 1..Len(c[Consumer]) /\ c[Consumer][1] = head.node
        /\ \A i \in 1..Len(c[Consumer]) : c[Consumer][i] = head.node => i = 1
    <3>1. Len(c[Consumer]) \in Nat
      BY <1>1, SeqFacts DEF QInv
    <3>2. 1 \in 1..Len(c[Consumer]) /\ c[Consumer][1] = head.node
      BY <1>2, <3>1 DEF Heads
    <3> QED BY <3>1, <3>2, <1>1, <1>2 DEF Apart
  <2>1. ASSUME NEW x \in OnChain(head.node), x # head.node PROVE Waits(c, x)
    <3>1. PICK i \in 1..Len(c[Consumer]) : c[Consumer][i] = x
      BY ChainsAre
    <3> QED BY <2>0, <2>1, <3>1, <1>1 DEF Waits
  <2>2. ASSUME NEW t \in Producers, NEW x \in Private(t) PROVE Waits(c, x)
    <3>1. PICK i \in 1..Len(c[t]) : c[t][i] = x
      BY ChainsAre
    <3> QED BY <3>1, <1>1 DEF Waits
  <2>3. ASSUME NEW x, Waits(c, x) PROVE x \in all
    <3>1. PICK t \in Threads : \E i \in 1..Len(c[t]) : c[t][i] = x /\ ~(t = Consumer /\ i = 1)
      BY <2>3 DEF Waits
    <3>2. CASE t = Consumer
      <4>1. x \in OnChain(head.node) /\ x # head.node
        BY <2>0, <3>1, <3>2, ChainsAre
      <4> QED BY <4>1
    <3>3. CASE t \in Producers
      <4>1. x \in Private(t)
        BY <3>1, <3>3, ChainsAre
      <4> QED BY <3>3, <4>1
    <3> QED BY <3>2, <3>3 DEF Threads
  <2> QED BY <2>1, <2>2, <2>3
<1>5. \A x : Waits(c, x) => x \in Nodes
  BY SeqFacts DEF QInv, Waits
<1>6. \A i, j \in DOMAIN taken : taken[i] = taken[j] => i = j
  BY <1>2, <1>3 DEF Placed
<1> HIDE DEF all
<1>7. ASSUME NEW x \in 1..items
      PROVE  \/ (\E i \in DOMAIN taken : taken[i] = x) /\ \A n \in all : data[n] # x
             \/ Cardinality({n \in all : data[n] = x}) = 1
  <2>1. CASE \E i \in 1..Len(taken) : taken[i] = x
    <3>1. \A n \in Nodes : Waits(c, n) => data[n] # x
      BY <1>2, <1>7, <2>1 DEF Placed
    <3> QED BY <3>1, <2>1, <1>3, <1>4, <1>5
  <2>2. CASE ~(\E i \in 1..Len(taken) : taken[i] = x)
    <3>1. PICK n \in Nodes : Waits(c, n) /\ data[n] = x
      BY <1>2, <1>7, <2>2 DEF Placed
    <3>2. \A m \in all : data[m] = x => m = n
      BY <1>2, <1>4, <1>5, <3>1 DEF Placed
    <3>3. {m \in all : data[m] = x} = {n}
      BY <1>4, <3>1, <3>2
    <3>4. Cardinality({n}) = 1
      BY FS_Singleton
    <3> QED BY <3>3, <3>4
  <2> QED BY <2>1, <2>2
<1> QED BY <1>6, <1>7 DEF EachOnce, all

\* While the calls of Enqueue come one after another: for every number of threads and of
\* nodes the chain from the head ends and goes through the tail, and no node of it is in the
\* pool or private to a producer (LockFreeQueue.h, the links of Enqueue and Dequeue).
THEOREM ChainWhole == LinkedSpec /\ []OneAtATime => []Whole
<1>1. QueueInv => Whole
  BY QueueAssumption, QueueWhole DEF QueueInv
<1> QED BY <1>1, QueueInvariance, PTL

\* Under the same condition nothing that was enqueued is lost or there twice: every item is
\* taken, or in one node behind the dummy or of a producer.
THEOREM NothingLost == LinkedSpec /\ []OneAtATime => []EachOnce
<1>1. QueueInv => EachOnce
  BY QueueAssumption, QueueEachOnce DEF QueueInv
<1> QED BY <1>1, QueueInvariance, PTL

ContentsFact(c) ==
  /\ Contents \in Seq(Items) /\ Len(c[Consumer]) \in Nat /\ Len(c[Consumer]) > 0
  /\ Len(Contents) = Len(c[Consumer]) - 1
  /\ \A i \in 1..Len(c[Consumer]) - 1 : Contents[i] = data[c[Consumer][i + 1]]

LEMMA ContentsAre == \A c, b : QInv(c, b) => ContentsFact(c)
<1> SUFFICES ASSUME NEW c, NEW b, QInv(c, b) PROVE ContentsFact(c)
  OBVIOUS
<1>1. Consumer \in Threads
  BY DEF Threads
<1>2. PICK s : s = c[Consumer]
  OBVIOUS
<1>3. Chain(head.node) = s
  BY <1>2, ChainsAre, QueueAssumption
<1>4. PICK N : N = Len(s)
  OBVIOUS
<1>5. N \in Nat /\ N > 0
  BY <1>1, <1>2, <1>4, SeqFacts DEF QInv, Heads
<1>6. Contents = [i \in 1..N - 1 |-> data[s[i + 1]]]
  BY <1>3, <1>4 DEF Contents
<1>7. \A i \in 1..N - 1 : data[s[i + 1]] \in Items
  <2> SUFFICES ASSUME NEW i \in 1..N - 1 PROVE data[s[i + 1]] \in Items
    OBVIOUS
  <2>1. PICK j : j = i + 1
    OBVIOUS
  <2>2. j \in 1..N /\ j # 1
    BY <1>5, <2>1
  <2>3. j \in 1..Len(c[Consumer])
    BY <2>2, <1>2, <1>4
  <2>4. s[j] \in Nodes /\ Waits(c, s[j])
    BY <2>2, <2>3, <1>1, <1>2, SeqFacts DEF QInv, Waits
  <2>5. data[s[j]] \in 1..items /\ items <= MaxItems
    BY <2>4 DEF QInv, Placed
  <2>6. items \in Nat /\ MaxItems \in Nat
    BY QueueAssumption DEF QInv, LinkedTypeOK, QueueAssumption
  <2> QED BY <2>1, <2>5, <2>6 DEF Items
<1>8. N - 1 \in Nat
  BY <1>5
<1>9. Contents \in Seq(Items) /\ Len(Contents) = N - 1 /\ \A i \in 1..N - 1 : Contents[i] = data[s[i + 1]]
  BY <1>6, <1>7, <1>8
<1> QED BY <1>2, <1>4, <1>5, <1>9 DEF ContentsFact

LEMMA ContentsNext == (\A c, b : QInv(c, b) => ContentsFact(c))'
BY ContentsAre, PTL

LEMMA QueueStep ==
  ASSUME NEW c, NEW b, NEW e, NEW d, QInv(c, b), QInv(e, d)', Stays(c, e) \/ Grows(c, e) \/ Shrinks(c, e)
  PROVE  Service!Next \/ UNCHANGED <<Contents, taken>>
<1>1. Consumer \in Threads /\ c[Consumer] \in Seq(Nodes)
  BY SeqFacts DEF Threads, QInv
<1>2. PICK s, N, q : s = c[Consumer] /\ N = Len(s) /\ q = Contents
  OBVIOUS
<1>3. PICK z, p : z = e[Consumer] /\ p = Contents'
  OBVIOUS
<1>4. /\ q \in Seq(Items) /\ N \in Nat /\ N > 0 /\ Len(q) = N - 1
      /\ \A i \in 1..N - 1 : q[i] = data[s[i + 1]]
  BY <1>2, ContentsAre DEF ContentsFact
<1>5. /\ p \in Seq(Items) /\ Len(z) \in Nat /\ Len(p) = Len(z) - 1
      /\ \A i \in 1..Len(z) - 1 : p[i] = data'[z[i + 1]]
  BY <1>3, ContentsNext DEF ContentsFact
<1>6. CASE Stays(c, e)
  <2>1. z = s /\ \A i \in 1..N : data'[s[i]] = data[s[i]]
    BY <1>2, <1>3, <1>6 DEF Stays
  <2>2. ASSUME NEW i \in 1..N - 1 PROVE p[i] = q[i]
    <3>1. PICK j : j = i + 1
      OBVIOUS
    <3>2. j \in 1..N
      BY <3>1, <1>4
    <3>3. data'[s[j]] = data[s[j]]
      BY <3>2, <2>1
    <3>4. p[i] = data'[s[j]] /\ q[i] = data[s[j]]
      BY <2>1, <3>1, <1>2, <1>4, <1>5
    <3> QED BY <3>3, <3>4
  <2>3. Len(p) = Len(q) /\ \A i \in 1..Len(p) : p[i] = q[i]
    BY <2>1, <2>2, <1>2, <1>4, <1>5
  <2>4. p = q
    BY <2>3, <1>4, <1>5, SeqEqual
  <2> QED BY <2>4, <1>2, <1>3, <1>6 DEF Stays
<1>7. CASE Grows(c, e)
  <2>1. PICK x \in Seq(Nodes) : x # <<>> /\ e[Consumer] = c[Consumer] \o x
    BY <1>7 DEF Grows
  <2>2. PICK M : M = Len(x)
    OBVIOUS
  <2>3. M \in Nat /\ M > 0
    BY <2>1, <2>2, EmptySeq, LenProperties
  <2>4. Len(z) = N + M /\ \A i \in 1..N + M : i <= N => z[i] = s[i]
    BY <2>1, <2>2, <1>1, <1>2, <1>3, ConcatProperties
  <2>5. ASSUME NEW i \in 1..N - 1 PROVE p[i] = q[i]
    <3>1. PICK j : j = i + 1
      OBVIOUS
    <3>2. j \in 1..N + M /\ j <= N /\ i \in 1..N + M - 1
      BY <3>1, <1>4, <2>3
    <3>3. z[j] = s[j]
      BY <3>2, <2>4
    <3>4. p[i] = data'[z[j]] /\ q[i] = data[s[j]]
      BY <2>4, <3>1, <3>2, <1>4, <1>5
    <3> QED BY <3>3, <3>4, <1>7 DEF Grows
  <2>6. Len(p) = (N + M) - 1
    <3>1. Len(p) = Len(z) - 1
      BY <1>5
    <3>2. Len(z) = N + M
      BY <2>4
    <3> QED BY <3>1, <3>2, Zenon
  <2>7. Len(p) > Len(q)
    <3>1. (N + M) - 1 > N - 1
      BY <1>4, <2>3
    <3> QED BY <3>1, <2>6, <1>4
  <2>8. SubSeq(p, 1, N - 1) = q
    <3>1. \A i \in 1..N - 1 : p[i] \in Items
      <4>1. \A i \in 1..N - 1 : i \in 1..Len(q)
        BY <1>4
      <4> QED BY <4>1, <2>5, <1>4, ElementOfSeq
    <3>2. /\ SubSeq(p, 1, N - 1) \in Seq(Items)
          /\ Len(SubSeq(p, 1, N - 1)) = IF 1 <= N - 1 THEN (N - 1) - 1 + 1 ELSE 0
          /\ \A i \in 1..(N - 1) - 1 + 1 : SubSeq(p, 1, N - 1)[i] = p[1 + i - 1]
      <4>1. 1 \in Int /\ N - 1 \in Int
        BY <1>4
      <4> QED BY <4>1, <3>1, SubSeqProperties
    <3>3. (IF 1 <= N - 1 THEN (N - 1) - 1 + 1 ELSE 0) = N - 1 /\ (N - 1) - 1 + 1 = N - 1
      BY <1>4
    <3>4. \A i \in 1..N - 1 : 1 + i - 1 = i
      BY <1>4
    <3>5. PICK r : r = SubSeq(p, 1, N - 1)
      OBVIOUS
    <3>6. r \in Seq(Items) /\ Len(r) = N - 1 /\ \A i \in 1..N - 1 : r[i] = p[i]
      BY <3>2, <3>3, <3>4, <3>5
    <3>7. \A i \in 1..Len(r) : r[i] = q[i]
      BY <3>6, <2>5
    <3>8. r = q
      BY <3>6, <3>7, <1>4, SeqEqual
    <3> QED BY <3>5, <3>8
  <2>9. Service!Put
    BY <2>7, <2>8, <1>2, <1>3, <1>4, <1>5, <1>7 DEF Service!Put, Grows
  <2> QED BY <2>9 DEF Service!Next
<1>8. CASE Shrinks(c, e)
  <2>1. N > 1 /\ z = Tail(s) /\ taken' = Append(taken, data[s[2]])
    BY <1>2, <1>3, <1>8 DEF Shrinks
  <2>2. s # <<>>
    BY <2>1, <1>2, <1>4, EmptySeq
  <2>3. Len(z) = N - 1 /\ \A i \in 1..N - 1 : z[i] = s[i + 1]
    BY <2>1, <2>2, <1>1, <1>2, HeadTailProperties
  <2>4. q # <<>>
    <3>1. N - 1 # 0
      BY <2>1, <1>4
    <3> QED BY <3>1, <1>4, EmptySeq
  <2>5. Head(q) = data[s[2]]
    <3>1. 1 \in 1..N - 1
      BY <2>1, <1>4
    <3>2. q[1] = data[s[1 + 1]]
      BY <3>1, <1>4
    <3> QED BY <3>2, <2>4, <1>4
  <2>6. Tail(q) \in Seq(Items) /\ Len(Tail(q)) = N - 2 /\ \A i \in 1..N - 2 : Tail(q)[i] = q[i + 1]
    <3>1. /\ Tail(q) \in Seq(Items) /\ Len(Tail(q)) = Len(q) - 1
          /\ \A i \in 1..Len(Tail(q)) : Tail(q)[i] = q[i + 1]
      BY <2>4, <1>4, HeadTailProperties
    <3>2. N - 1 - 1 = N - 2
      BY <1>4
    <3> QED BY <3>1, <3>2, <1>4
  <2>7. ASSUME NEW i \in 1..N - 2 PROVE p[i] = q[i + 1]
    <3>1. PICK j : j = i + 1
      OBVIOUS
    <3>2. j \in 1..N - 1 /\ i \in 1..N - 1 - 1
      BY <3>1, <1>4
    <3>3. z[j] = s[j + 1] /\ q[j] = data[s[j + 1]] /\ p[i] = data'[z[j]]
      BY <2>3, <3>1, <3>2, <1>4, <1>5
    <3> QED BY <3>1, <3>3, <1>8 DEF Shrinks
  <2>8. Len(p) = N - 2
    <3>1. N - 1 - 1 = N - 2
      BY <1>4
    <3> QED BY <3>1, <2>3, <1>5
  <2>9. PICK r : r = Tail(q)
    OBVIOUS
  <2>10. p = r
    <3>1. r \in Seq(Items) /\ Len(r) = Len(p)
      BY <2>6, <2>8, <2>9
    <3>2. \A i \in 1..Len(p) : p[i] = r[i]
      BY <2>6, <2>7, <2>8, <2>9
    <3> QED BY <3>1, <3>2, <1>5, SeqEqual
  <2>11. Service!Get
    BY <2>1, <2>4, <2>5, <2>9, <2>10, <1>2, <1>3 DEF Service!Get
  <2> QED BY <2>11 DEF Service!Next
<1> QED BY <1>6, <1>7, <1>8

\* Under the same condition CLockFreeQueue implements QueueService: a link puts an item
\* behind what is in the queue, the compare-and-swap of the head takes the oldest item out,
\* and no other step changes what is in the queue.
THEOREM QueueRefinement == LinkedSpec /\ []OneAtATime => QueueSpec
<1>1. LinkedInit => Service!Init
  <2> SUFFICES ASSUME LinkedInit PROVE Service!Init
    OBVIOUS
  <2>1. PICK c, b : QInv(c, b) /\ Len(c[Consumer]) = 1
    BY QueueAssumption, QueueInit
  <2>2. Contents \in Seq(Items) /\ Len(Contents) = 0
    BY <2>1, ContentsAre DEF ContentsFact
  <2>3. Contents = <<>>
    BY <2>2, EmptySeq
  <2> QED BY <2>3 DEF Service!Init, LinkedInit
<1>2. QueueInv /\ Steady /\ [LinkedNext]_linkedVars => [Service!Next]_<<Contents, taken>>
  <2> SUFFICES ASSUME QueueInv, Steady, [LinkedNext]_linkedVars
               PROVE  Service!Next \/ UNCHANGED <<Contents, taken>>
    OBVIOUS
  <2>1. PICK c, b : QInv(c, b)
    BY DEF QueueInv
  <2>2. PICK e, d : QInv(e, d)' /\ (Stays(c, e) \/ Grows(c, e) \/ Shrinks(c, e))
    BY <2>1, QueueAssumption, StepInv DEF Steady, LinkTail
  <2> QED BY <2>1, <2>2, QueueStep
<1> QED BY <1>1, <1>2, QueueInvariance, PTL DEF LinkedSpec, QueueSpec, Service!Spec
=============================================================================
