-------------------------- MODULE MMOServer_proofs --------------------------
(***************************************************************************)
(* Proofs about MMOServer, for any number of sessions, connections and     *)
(* workers: what is counted is what there is, an index is free when its    *)
(* session is, a socket gets its own packets, a player that came into the  *)
(* game leaves it before its session is released, and nothing is pending   *)
(* on a session that is released, when its client got it out of use.       *)
(*                                                                         *)
(* The argument. _iSending has one holder (OneSend). A connection belongs  *)
(* to one session (Used), and the mode of the session says what the        *)
(* content knows of it (Told): none of this is disturbed by a thread that  *)
(* is still in a session after its release, or by a take-over.             *)
(* The rest is about a client that is not the heir of another (Clean). No  *)
(* request of another client is pending (Alone), and at most one receive   *)
(* of its own (OneRecv). As long as its socket is not shut down, its next  *)
(* receive is posted or will be (Heard); so _IOCount gets to 0, and        *)
(* _bLogout is set, only when the socket is shut down and nothing is       *)
(* pending, and then nothing can be posted any more (Ended). Both threads  *)
(* let a session go only when _bLogout is set.                             *)
(***************************************************************************)
EXTENDS MMOServer, FiniteSetTheorems, SequenceTheorems, TLAPS

One(b) == IF b THEN 1 ELSE 0

\* The step a thread is at says whether it has a session.
ThreadInv ==
  /\ (auth \in {"idle", "more"}) <=> (authAt = NoSlot)
  /\ (game = "idle") <=> (gameAt = NoSlot)
  /\ (send = "idle") <=> (sendAt = NoSlot)
  /\ \A w \in Workers : (work[w] = "idle") <=> (workAt[w] = NoSlot)
  /\ blank # NoSlot => auth \in {"count", "join", "more"}

Bounded == \A s \in Slots : Len(sendQ[s]) <= MaxOut

\* What _IOCount of a session counts.
Handled(wa, wk, s) == {w \in Workers : wa[w] = s /\ wk[w] # "log"}
Recving(wa, wk, s) == {w \in Workers : wa[w] = s /\ wk[w] = "recv"}
Pending(s) == io[s]["recv"] + io[s]["send"] + left[s]["recv"] + left[s]["send"]
IOAt(s) ==
  ioCount[s] = Pending(s) + Cardinality(Handled(workAt, work, s)) + Cardinality(Recving(workAt, work, s))
                 + One(sendAt = s /\ send \in {"peek", "post", "fail"}) + One(authAt = s /\ auth = "join")

IONat(s) ==
  /\ Pending(s) \in Nat /\ ioCount[s] \in Nat
  /\ Cardinality(Handled(workAt, work, s)) \in Nat /\ Cardinality(Recving(workAt, work, s)) \in Nat

\* The auth thread starts the session; a worker posts its next receive; the send thread has
\* found packets in its queue.
Joining(s) == authAt = s /\ auth \in {"count", "join"}
Recv(w, s) == workAt[w] = s /\ work[w] = "recv"
Posting(s) == sendAt = s /\ send \in {"inc", "peek", "post", "fail", "log"}

\* _iSending has one holder.
Sent(s) == io[s]["send"] = 0 /\ left[s]["send"] = 0
OneSend(s) ==
  /\ sendAt = s => sending[s] /\ Sent(s)
  /\ ~Sent(s) => sending[s] /\ io[s]["send"] + left[s]["send"] = 1
  /\ \A w \in Workers : workAt[w] = s /\ work[w] = "unsend" =>
       /\ sending[s] /\ Sent(s) /\ sendAt # s
       /\ \A v \in Workers : workAt[v] = s /\ work[v] = "unsend" => v = w

\* A session in no mode has no client, and no packets for one.
Empty(s) == mode[s] = "NONE" => info[s] = NoConn /\ sendQ[s] = <<>>

\* What the content knows of a session, by its mode.
Told(s) ==
  /\ mode[s] # "NONE" => "release" \notin told[info[s]]
  /\ mode[s] \in {"AUTH", "AUTH_TO_GAME", "LOGOUT_IN_AUTH"} =>
       "game join" \notin told[info[s]] /\ "game leave" \notin told[info[s]]
  /\ mode[s] \in {"GAME", "LOGOUT_IN_GAME"} =>
       "game join" \in told[info[s]] /\ "game leave" \notin told[info[s]]
  /\ mode[s] = "WAIT_LOGOUT" => ("game join" \in told[info[s]] <=> "game leave" \in told[info[s]])

Own(s) == \A i \in DOMAIN sendQ[s] : sendQ[s][i] = info[s]

\* A client that got a session out of use has it for itself: no request of another.
Clean(s) == mode[s] # "NONE" /\ info[s] \notin heirs

Alone(s) == Clean(s) => left[s]["recv"] = 0 /\ left[s]["send"] = 0

OneRecv(s) ==
  Clean(s) =>
    /\ io[s]["recv"] <= 1
    /\ \A w \in Workers : Recv(w, s) => io[s]["recv"] = 0 /\ \A v \in Workers : Recv(v, s) => v = w

\* A session that is being started is not used yet.
Quiet(s) == io[s]["recv"] = 0 /\ io[s]["send"] = 0
Fresh(s) ==
  Clean(s) /\ Joining(s) =>
    /\ Quiet(s) /\ sendQ[s] = <<>> /\ ~logout[s] /\ ~Posting(s)
    /\ \A w \in Workers : workAt[w] # s

\* While the socket of a session is not shut down, its next receive is posted or will be.
Heard(s) ==
  Clean(s) /\ sock[info[s]] \in {"open", "reset"} =>
    Joining(s) \/ io[s]["recv"] # 0 \/ \E w \in Workers : Recv(w, s)

\* A session that is logged out, or that a thread is going to log out: nothing is pending,
\* and nothing can be.
Over(s) ==
  /\ Quiet(s) /\ ~Joining(s) /\ sock[info[s]] \in {"shut", "closed"}
  /\ \A w \in Workers : workAt[w] = s => work[w] = "log"

Ended(s) ==
  Clean(s) =>
    /\ logout[s] => Over(s)
    /\ sendAt = s /\ send = "log" => Over(s)
    /\ \A w \in Workers : workAt[w] = s /\ work[w] = "log" => Over(s)

SlotInv(s) ==
  /\ OneSend(s) /\ Empty(s) /\ Told(s) /\ Own(s)
  /\ Alone(s) /\ OneRecv(s) /\ Fresh(s) /\ Heard(s) /\ Ended(s)

\* A session in a mode has a connection of its own.
Used ==
  /\ \A s \in Slots : mode[s] # "NONE" => info[s] \in Conns /\ sock[info[s]] # "none"
  /\ \A s, r \in Slots : info[s] = info[r] /\ info[s] # NoConn => s = r
  /\ \A i \in DOMAIN queue :
       sock[queue[i]] # "none" /\ told[queue[i]] = {} /\ \A s \in Slots : info[s] # queue[i]
  /\ \A i, j \in DOMAIN queue : queue[i] = queue[j] => i = j
  /\ \A c \in Conns : sock[c] = "none" => told[c] = {}
  /\ \A c \in heirs : sock[c] # "none" /\ \A i \in DOMAIN queue : queue[i] # c

\* What the step of a thread says of the session it has.
Steps ==
  /\ auth \in {"count", "join", "out"} => mode[authAt] = "AUTH"
  /\ auth = "out" => logout[authAt]
  /\ blank # NoSlot => mode[blank] = "AUTH" /\ sendQ[blank] = <<>>
  /\ game = "out" => mode[gameAt] = "GAME" /\ logout[gameAt]
  /\ game = "push" => mode[gameAt] = "NONE"
  /\ \A s \in Slots : mode[s] \in {"LOGOUT_IN_AUTH", "LOGOUT_IN_GAME", "WAIT_LOGOUT"} => logout[s]

In(f, ms) == {s \in Slots : f[s] \in ms}
AuthModes == {"AUTH", "LOGOUT_IN_AUTH"}
GameModes == {"GAME", "LOGOUT_IN_GAME"}
SomeModes == Modes \ {"NONE"}
Counted ==
  /\ authCount = Cardinality(In(mode, AuthModes)) - One(auth \in {"count", "join"}) + taken
  /\ gameCount = Cardinality(In(mode, GameModes))
  /\ total = Cardinality(In(mode, SomeModes)) - One(auth \in {"count", "join"}) + One(game = "push") + taken

Indexed ==
  /\ \A i \in DOMAIN free : mode[free[i]] = "NONE" /\ free[i] # gameAt
  /\ \A s \in Slots : mode[s] = "NONE" /\ s # gameAt => \E i \in DOMAIN free : free[i] = s
  /\ \A i, j \in DOMAIN free : free[i] = free[j] => i = j

IInv ==
  /\ TypeOK /\ ThreadInv /\ Bounded /\ GameLeft /\ Used /\ Steps /\ Counted /\ Indexed
  /\ \A s \in Slots : IOAt(s) /\ SlotInv(s)

-----------------------------------------------------------------------------
(* Counting *)

\* One element more or less.
LEMMA SetStep ==
  ASSUME NEW X, NEW Y, NEW e, IsFiniteSet(X), Y = X \cup {e} \/ Y = X \ {e}
  PROVE  /\ IsFiniteSet(Y) /\ Cardinality(X) \in Nat /\ Cardinality(Y) \in Nat
         /\ e \in Y /\ ~(e \in X) => Cardinality(Y) = Cardinality(X) + 1
         /\ e \in X /\ ~(e \in Y) => Cardinality(Y) = Cardinality(X) - 1
         /\ e \in Y /\ e \in X => Cardinality(Y) = Cardinality(X)
         /\ ~(e \in Y) /\ ~(e \in X) => Cardinality(Y) = Cardinality(X)
<1>1. Cardinality(X) \in Nat
  BY FS_CardinalityType
<1>2. CASE Y = X \cup {e} /\ e \notin X
  <2>1. IsFiniteSet(Y) /\ Cardinality(Y) = Cardinality(X) + 1
    BY <1>2, FS_AddElement
  <2> QED BY <1>1, <1>2, <2>1 DEF One
<1>3. CASE Y = X \ {e} /\ e \in X
  <2>1. IsFiniteSet(Y) /\ Cardinality(Y) = Cardinality(X) - 1
    BY <1>3, FS_RemoveElement
  <2>2. Cardinality(Y) \in Nat
    BY <2>1, FS_CardinalityType
  <2> QED BY <1>1, <1>3, <2>1, <2>2 DEF One
<1>4. CASE Y = X
  BY <1>1, <1>4 DEF One
<1> QED BY <1>2, <1>3, <1>4

\* A session changes its mode.
LEMMA ModeStep ==
  ASSUME ConstantsOK, NEW s \in Slots, \A x \in Slots : x # s => mode'[x] = mode[x], NEW ms
  PROVE  /\ Cardinality(In(mode, ms)) \in Nat /\ Cardinality(In(mode', ms)) \in Nat
         /\ mode'[s] \in ms /\ ~(mode[s] \in ms) => Cardinality(In(mode', ms)) = Cardinality(In(mode, ms)) + 1
         /\ mode[s] \in ms /\ ~(mode'[s] \in ms) => Cardinality(In(mode', ms)) = Cardinality(In(mode, ms)) - 1
         /\ mode'[s] \in ms /\ mode[s] \in ms => Cardinality(In(mode', ms)) = Cardinality(In(mode, ms))
         /\ ~(mode'[s] \in ms) /\ ~(mode[s] \in ms) => Cardinality(In(mode', ms)) = Cardinality(In(mode, ms))
<1>1. IsFiniteSet(In(mode, ms))
  BY FS_Subset DEF ConstantsOK, In
<1>2. In(mode', ms) = In(mode, ms) \cup {s} \/ In(mode', ms) = In(mode, ms) \ {s}
  BY DEF In
<1>3. (s \in In(mode', ms) <=> mode'[s] \in ms) /\ (s \in In(mode, ms) <=> mode[s] \in ms)
  BY DEF In
<1>4. /\ Cardinality(In(mode, ms)) \in Nat /\ Cardinality(In(mode', ms)) \in Nat
      /\ s \in In(mode', ms) /\ ~(s \in In(mode, ms)) => Cardinality(In(mode', ms)) = Cardinality(In(mode, ms)) + 1
      /\ s \in In(mode, ms) /\ ~(s \in In(mode', ms)) => Cardinality(In(mode', ms)) = Cardinality(In(mode, ms)) - 1
      /\ s \in In(mode', ms) /\ s \in In(mode, ms) => Cardinality(In(mode', ms)) = Cardinality(In(mode, ms))
      /\ ~(s \in In(mode', ms)) /\ ~(s \in In(mode, ms)) => Cardinality(In(mode', ms)) = Cardinality(In(mode, ms))
  BY <1>1, <1>2, SetStep
<1> QED BY <1>3, <1>4 DEF One

LEMMA InNat ==
  ASSUME ConstantsOK, NEW f, NEW ms
  PROVE  /\ IsFiniteSet(In(f, ms)) /\ Cardinality(In(f, ms)) \in Nat
         /\ \A s \in Slots : f[s] \in ms => Cardinality(In(f, ms)) > 0
<1>1. IsFiniteSet(In(f, ms))
  BY FS_Subset DEF ConstantsOK, In
<1>2. Cardinality(In(f, ms)) \in Nat
  BY <1>1, FS_CardinalityType
<1>3. ASSUME NEW s \in Slots, f[s] \in ms PROVE Cardinality(In(f, ms)) > 0
  <2>1. In(f, ms) # {}
    BY <1>3 DEF In
  <2>2. Cardinality(In(f, ms)) # 0
    BY <1>1, <2>1, FS_EmptySet
  <2> QED BY <1>2, <2>2
<1> QED BY <1>1, <1>2, <1>3

\* A worker goes on.
LEMMA WorkStepped ==
  ASSUME ConstantsOK, NEW w \in Workers, NEW s \in Slots,
         \A v \in Workers : v # w => workAt'[v] = workAt[v] /\ work'[v] = work[v]
  PROVE  /\ workAt'[w] = s /\ work'[w] # "log" /\ ~(workAt[w] = s /\ work[w] # "log")
              => Cardinality(Handled(workAt', work', s)) = Cardinality(Handled(workAt, work, s)) + 1
         /\ workAt[w] = s /\ work[w] # "log" /\ ~(workAt'[w] = s /\ work'[w] # "log")
              => Cardinality(Handled(workAt', work', s)) = Cardinality(Handled(workAt, work, s)) - 1
         /\ workAt'[w] = s /\ work'[w] # "log" /\ workAt[w] = s /\ work[w] # "log"
              => Cardinality(Handled(workAt', work', s)) = Cardinality(Handled(workAt, work, s))
         /\ ~(workAt'[w] = s /\ work'[w] # "log") /\ ~(workAt[w] = s /\ work[w] # "log")
              => Cardinality(Handled(workAt', work', s)) = Cardinality(Handled(workAt, work, s))
         /\ workAt'[w] = s /\ work'[w] = "recv" /\ ~(workAt[w] = s /\ work[w] = "recv")
              => Cardinality(Recving(workAt', work', s)) = Cardinality(Recving(workAt, work, s)) + 1
         /\ workAt[w] = s /\ work[w] = "recv" /\ ~(workAt'[w] = s /\ work'[w] = "recv")
              => Cardinality(Recving(workAt', work', s)) = Cardinality(Recving(workAt, work, s)) - 1
         /\ workAt'[w] = s /\ work'[w] = "recv" /\ workAt[w] = s /\ work[w] = "recv"
              => Cardinality(Recving(workAt', work', s)) = Cardinality(Recving(workAt, work, s))
         /\ ~(workAt'[w] = s /\ work'[w] = "recv") /\ ~(workAt[w] = s /\ work[w] = "recv")
              => Cardinality(Recving(workAt', work', s)) = Cardinality(Recving(workAt, work, s))
<1>1. IsFiniteSet(Handled(workAt, work, s)) /\ IsFiniteSet(Recving(workAt, work, s))
  BY FS_Subset DEF ConstantsOK, Handled, Recving
<1>2. \/ Handled(workAt', work', s) = Handled(workAt, work, s) \cup {w}
      \/ Handled(workAt', work', s) = Handled(workAt, work, s) \ {w}
  BY DEF Handled
<1>3. \/ Recving(workAt', work', s) = Recving(workAt, work, s) \cup {w}
      \/ Recving(workAt', work', s) = Recving(workAt, work, s) \ {w}
  BY DEF Recving
<1>4. /\ w \in Handled(workAt', work', s) <=> workAt'[w] = s /\ work'[w] # "log"
      /\ w \in Handled(workAt, work, s) <=> workAt[w] = s /\ work[w] # "log"
      /\ w \in Recving(workAt', work', s) <=> workAt'[w] = s /\ work'[w] = "recv"
      /\ w \in Recving(workAt, work, s) <=> workAt[w] = s /\ work[w] = "recv"
  BY DEF Handled, Recving
<1>5. /\ w \in Handled(workAt', work', s) /\ ~(w \in Handled(workAt, work, s))
           => Cardinality(Handled(workAt', work', s)) = Cardinality(Handled(workAt, work, s)) + 1
      /\ w \in Handled(workAt, work, s) /\ ~(w \in Handled(workAt', work', s))
           => Cardinality(Handled(workAt', work', s)) = Cardinality(Handled(workAt, work, s)) - 1
      /\ w \in Handled(workAt', work', s) /\ w \in Handled(workAt, work, s)
           => Cardinality(Handled(workAt', work', s)) = Cardinality(Handled(workAt, work, s))
      /\ ~(w \in Handled(workAt', work', s)) /\ ~(w \in Handled(workAt, work, s))
           => Cardinality(Handled(workAt', work', s)) = Cardinality(Handled(workAt, work, s))
  BY <1>1, <1>2, SetStep
<1>6. /\ w \in Recving(workAt', work', s) /\ ~(w \in Recving(workAt, work, s))
           => Cardinality(Recving(workAt', work', s)) = Cardinality(Recving(workAt, work, s)) + 1
      /\ w \in Recving(workAt, work, s) /\ ~(w \in Recving(workAt', work', s))
           => Cardinality(Recving(workAt', work', s)) = Cardinality(Recving(workAt, work, s)) - 1
      /\ w \in Recving(workAt', work', s) /\ w \in Recving(workAt, work, s)
           => Cardinality(Recving(workAt', work', s)) = Cardinality(Recving(workAt, work, s))
      /\ ~(w \in Recving(workAt', work', s)) /\ ~(w \in Recving(workAt, work, s))
           => Cardinality(Recving(workAt', work', s)) = Cardinality(Recving(workAt, work, s))
  BY <1>1, <1>3, SetStep
<1> QED BY <1>4, <1>5, <1>6 DEF One

LEMMA WorkNat ==
  ASSUME ConstantsOK, NEW wa, NEW wk, NEW s
  PROVE  /\ Cardinality(Handled(wa, wk, s)) \in Nat /\ Cardinality(Recving(wa, wk, s)) \in Nat
         /\ \A w \in Workers : wa[w] = s /\ wk[w] # "log" => Cardinality(Handled(wa, wk, s)) > 0
         /\ \A w \in Workers : wa[w] = s /\ wk[w] = "recv" => Cardinality(Recving(wa, wk, s)) > 0
         /\ \A w \in Workers : Cardinality(Handled(wa, wk, s)) <= 1 /\ wa[w] = s /\ wk[w] # "log" =>
              \A v \in Workers : wa[v] = s /\ wk[v] # "log" => v = w
<1>1. IsFiniteSet(Handled(wa, wk, s)) /\ IsFiniteSet(Recving(wa, wk, s))
  BY FS_Subset DEF ConstantsOK, Handled, Recving
<1>2. Cardinality(Handled(wa, wk, s)) \in Nat /\ Cardinality(Recving(wa, wk, s)) \in Nat
  BY <1>1, FS_CardinalityType
<1>3. ASSUME NEW w \in Workers, wa[w] = s, wk[w] # "log" PROVE Cardinality(Handled(wa, wk, s)) > 0
  <2>1. Handled(wa, wk, s) # {}
    BY <1>3 DEF Handled
  <2>2. Cardinality(Handled(wa, wk, s)) # 0
    BY <1>1, <2>1, FS_EmptySet
  <2> QED BY <1>2, <2>2
<1>4. ASSUME NEW w \in Workers, wa[w] = s, wk[w] = "recv" PROVE Cardinality(Recving(wa, wk, s)) > 0
  <2>1. Recving(wa, wk, s) # {}
    BY <1>4 DEF Recving
  <2>2. Cardinality(Recving(wa, wk, s)) # 0
    BY <1>1, <2>1, FS_EmptySet
  <2> QED BY <1>2, <2>2
<1>5. ASSUME NEW w \in Workers, Cardinality(Handled(wa, wk, s)) <= 1, wa[w] = s, wk[w] # "log",
             NEW v \in Workers, wa[v] = s, wk[v] # "log"
      PROVE  v = w
  <2>1. w \in Handled(wa, wk, s) /\ v \in Handled(wa, wk, s)
    BY <1>5 DEF Handled
  <2>2. Cardinality(Handled(wa, wk, s) \ {w}) = Cardinality(Handled(wa, wk, s)) - 1
        /\ IsFiniteSet(Handled(wa, wk, s) \ {w})
    BY <1>1, <2>1, FS_RemoveElement
  <2>3. Cardinality(Handled(wa, wk, s) \ {w}) = 0
    <3>1. Cardinality(Handled(wa, wk, s) \ {w}) \in Nat
      BY <2>2, FS_CardinalityType
    <3> QED BY <1>2, <1>5, <2>2, <3>1
  <2>4. Handled(wa, wk, s) \ {w} = {}
    BY <2>2, <2>3, FS_EmptySet
  <2> QED BY <2>1, <2>4
<1> QED BY <1>2, <1>3, <1>4, <1>5

\* Sums of requests.
LEMMA Sums ==
  ASSUME NEW a \in Nat, NEW b \in Nat, NEW c \in Nat, NEW d \in Nat
  PROVE  /\ a + b + c + d \in Nat /\ (a + b + c + d = 0 => a = 0 /\ b = 0)
         /\ 0 + (c + a) = a + c /\ (c + a = 0 <=> a = 0 /\ c = 0)
OBVIOUS

\* A request more, a request less, and the requests that stay with the session.
LEMMA Posted ==
  ASSUME NEW s \in Slots, NEW k \in Kinds, TypeOK, io' = [io EXCEPT ![s][k] = @ + 1]
  PROVE  /\ io' \in [Slots -> [Kinds -> Nat]] /\ io'[s][k] = io[s][k] + 1
         /\ (\A j \in Kinds : j # k => io'[s][j] = io[s][j]) /\ \A x \in Slots : x # s => io'[x] = io[x]
<1>1. io \in [Slots -> [Kinds -> Nat]]
  BY DEF TypeOK
<1>2. io[s] \in [Kinds -> Nat] /\ io[s][k] + 1 \in Nat
  BY <1>1
<1> QED BY <1>1, <1>2

LEMMA Answered ==
  ASSUME NEW s \in Slots, NEW k \in Kinds, TypeOK, io[s][k] > 0, io' = [io EXCEPT ![s][k] = @ - 1]
  PROVE  /\ io' \in [Slots -> [Kinds -> Nat]] /\ io'[s][k] = io[s][k] - 1
         /\ (\A j \in Kinds : j # k => io'[s][j] = io[s][j]) /\ \A x \in Slots : x # s => io'[x] = io[x]
<1>1. io \in [Slots -> [Kinds -> Nat]]
  BY DEF TypeOK
<1>2. io[s] \in [Kinds -> Nat] /\ io[s][k] - 1 \in Nat
  BY <1>1
<1> QED BY <1>1, <1>2

LEMMA AnsweredLate ==
  ASSUME NEW s \in Slots, NEW k \in Kinds, TypeOK, left[s][k] > 0, left' = [left EXCEPT ![s][k] = @ - 1]
  PROVE  /\ left' \in [Slots -> [Kinds -> Nat]] /\ left'[s][k] = left[s][k] - 1
         /\ (\A j \in Kinds : j # k => left'[s][j] = left[s][j])
         /\ \A x \in Slots : x # s => left'[x] = left[x]
<1>1. left \in [Slots -> [Kinds -> Nat]]
  BY DEF TypeOK
<1>2. left[s] \in [Kinds -> Nat] /\ left[s][k] - 1 \in Nat
  BY <1>1
<1> QED BY <1>1, <1>2

LEMMA LeftBehind ==
  ASSUME NEW s \in Slots, TypeOK, Leave(s)
  PROVE  /\ io' \in [Slots -> [Kinds -> Nat]] /\ left' \in [Slots -> [Kinds -> Nat]]
         /\ \A k \in Kinds : io'[s][k] = 0 /\ left'[s][k] = left[s][k] + io[s][k]
         /\ \A x \in Slots : x # s => io'[x] = io[x] /\ left'[x] = left[x]
<1>1. io \in [Slots -> [Kinds -> Nat]] /\ left \in [Slots -> [Kinds -> Nat]]
  BY DEF TypeOK
<1>2. NoIO \in [Kinds -> Nat] /\ \A k \in Kinds : NoIO[k] = 0
  BY DEF NoIO
<1>3. [k \in Kinds |-> left[s][k] + io[s][k]] \in [Kinds -> Nat]
  BY <1>1
<1>4. io' = [io EXCEPT ![s] = NoIO] /\ left' = [left EXCEPT ![s] = [k \in Kinds |-> left[s][k] + io[s][k]]]
  BY DEF Leave
<1> QED BY <1>1, <1>2, <1>3, <1>4

LEMMA NoRequests ==
  ASSUME NEW f \in [Slots -> [Kinds -> Nat]], NEW s \in Slots
  PROVE  f[s] = NoIO <=> f[s]["recv"] = 0 /\ f[s]["send"] = 0
<1>1. f[s] \in [Kinds -> Nat] /\ NoIO \in [Kinds -> Nat] /\ \A k \in Kinds : NoIO[k] = 0
  BY DEF NoIO
<1>2. "recv" \in Kinds /\ "send" \in Kinds /\ \A k \in Kinds : k = "recv" \/ k = "send"
  BY DEF Kinds
<1>3. f[s] = NoIO => f[s]["recv"] = 0 /\ f[s]["send"] = 0
  BY <1>1, <1>2
<1>4. ASSUME f[s]["recv"] = 0, f[s]["send"] = 0 PROVE f[s] = NoIO
  <2>1. \A k \in Kinds : f[s][k] = NoIO[k]
    BY <1>1, <1>2, <1>4
  <2> QED BY <1>1, <2>1
<1> QED BY <1>3, <1>4

\* SendPacket: the packet is for the client of the session.
LEMMA PacketQueued ==
  ASSUME NEW q \in Seq(Conns), NEW c \in Conns, Len(q) <= MaxOut, \A i \in DOMAIN q : q[i] = c, ConstantsOK
  PROVE  LET p == IF Len(q) < MaxOut THEN Append(q, c) ELSE q IN
         p \in Seq(Conns) /\ Len(p) <= MaxOut /\ \A i \in DOMAIN p : p[i] = c
<1>1. Append(q, c) \in Seq(Conns) /\ Len(Append(q, c)) = Len(q) + 1
  BY AppendProperties
<1>2. ASSUME NEW i \in DOMAIN Append(q, c) PROVE Append(q, c)[i] = c
  BY <1>1, AppendProperties
<1>3. MaxOut \in Nat /\ Len(q) \in Nat
  BY DEF ConstantsOK
<1> QED BY <1>1, <1>2, <1>3

\* Disconnect: a socket is only ever shut down.
ShutDown(k, k2) ==
  \A c \in Conns :
    /\ k2[c] = "none" <=> k[c] = "none"
    /\ k[c] \in {"shut", "closed"} => k2[c] \in {"shut", "closed"}
    /\ k2[c] \in {"open", "reset"} => k[c] \in {"open", "reset"}

\* Where the variables of the threads and the entries of the queues are.
LEMMA StateTypes ==
  ASSUME ConstantsOK, TypeOK, Used, \A r \in Slots : SlotInv(r)
  PROVE  /\ {authAt, blank, gameAt, sendAt} \subseteq Slots \cup {NoSlot} /\ NoSlot \notin Slots
              /\ NoConn \notin Conns
         /\ workAt \in [Workers -> Slots \cup {NoSlot}]
         /\ (\A i \in DOMAIN queue : queue[i] \in Conns) /\ (\A i \in DOMAIN free : free[i] \in Slots)
         /\ \A r \in Slots : (mode[r] # "NONE" <=> info[r] # NoConn) /\ (mode[r] # "NONE" <=> info[r] \in Conns)
         /\ \A r \in Slots : io[r]["recv"] \in Nat /\ io[r]["send"] \in Nat /\ left[r]["recv"] \in Nat
              /\ left[r]["send"] \in Nat
         /\ \A r \in Slots : IONat(r)
<1>1. {authAt, blank, gameAt, sendAt} \subseteq Slots \cup {NoSlot} /\ workAt \in [Workers -> Slots \cup {NoSlot}]
  BY DEF TypeOK
<1>2. NoSlot \notin Slots /\ NoConn \notin Conns
  BY DEF ConstantsOK
<1>3. queue \in Seq(Conns) /\ free \in Seq(Slots)
  BY DEF TypeOK
<1>4. (\A i \in DOMAIN queue : queue[i] \in Conns) /\ (\A i \in DOMAIN free : free[i] \in Slots)
  BY <1>3
<1>5. ASSUME NEW r \in Slots
      PROVE  (mode[r] # "NONE" <=> info[r] # NoConn) /\ (mode[r] # "NONE" <=> info[r] \in Conns)
  <2>1. (mode[r] # "NONE" => info[r] \in Conns) /\ (mode[r] = "NONE" => info[r] = NoConn)
    BY DEF Used, SlotInv, Empty
  <2> QED BY <1>2, <2>1
<1>6. ASSUME NEW r \in Slots
      PROVE  io[r]["recv"] \in Nat /\ io[r]["send"] \in Nat /\ left[r]["recv"] \in Nat /\ left[r]["send"] \in Nat
  <2>1. io \in [Slots -> [Kinds -> Nat]] /\ left \in [Slots -> [Kinds -> Nat]]
    BY DEF TypeOK
  <2>2. "recv" \in Kinds /\ "send" \in Kinds
    BY DEF Kinds
  <2> QED BY <2>1, <2>2
<1>7. ASSUME NEW r \in Slots PROVE IONat(r)
  <2>1. Pending(r) \in Nat
    BY <1>6 DEF Pending
  <2>2. ioCount[r] \in Nat
    BY DEF TypeOK
  <2> QED BY <2>1, <2>2, ConstantsOK, WorkNat DEF IONat
<1> QED BY <1>1, <1>2, <1>4, <1>5, <1>6, <1>7

\* What is left of a queue without its first entry.
LEMMA TailOf ==
  ASSUME NEW S, NEW q \in Seq(S), q # <<>>
  PROVE  /\ Tail(q) \in Seq(S) /\ 1 \in DOMAIN q /\ Head(q) = q[1] /\ Head(q) \in S
         /\ \A i \in DOMAIN Tail(q) : i + 1 \in DOMAIN q /\ i + 1 # 1 /\ i \in Int /\ Tail(q)[i] = q[i + 1]
         /\ \A i \in DOMAIN q : i # 1 => i - 1 \in DOMAIN Tail(q) /\ Tail(q)[i - 1] = q[i]
<1>1. /\ Head(q) \in S /\ Tail(q) \in Seq(S) /\ Len(Tail(q)) = Len(q) - 1
      /\ \A i \in 1..Len(Tail(q)) : Tail(q)[i] = q[i + 1]
  BY HeadTailProperties
<1>2. Len(q) \in Nat /\ DOMAIN q = 1..Len(q) /\ DOMAIN Tail(q) = 1..Len(Tail(q)) /\ Len(q) # 0 /\ Head(q) = q[1]
  BY <1>1
<1>3. 1 \in DOMAIN q
  BY <1>2
<1>4. \A i \in DOMAIN Tail(q) : i + 1 \in DOMAIN q /\ i + 1 # 1 /\ i \in Int /\ Tail(q)[i] = q[i + 1]
  BY <1>1, <1>2
<1>5. ASSUME NEW i \in DOMAIN q, i # 1 PROVE i - 1 \in DOMAIN Tail(q) /\ Tail(q)[i - 1] = q[i]
  <2>1. i - 1 \in 1..Len(Tail(q)) /\ (i - 1) + 1 = i
    BY <1>1, <1>2, <1>5
  <2> QED BY <1>1, <1>2, <2>1
<1> QED BY <1>1, <1>2, <1>3, <1>4, <1>5

-----------------------------------------------------------------------------
(* The steps. A lemma says that an action, or one alternative of it, keeps the invariant, and   *)
(* is proved in the same order: what is known of the state (<1>1 to <1>4), what the step leaves *)
(* alone and what it changes (<1>5 to <1>7), then the parts of the invariant one by one.        *)

LEMMA AcceptStep ==
  ASSUME ConstantsOK, IInv, NEW c \in Conns, AcceptThread_update(c)
  PROVE  IInv'
<1>1. /\ TypeOK /\ ThreadInv /\ Bounded /\ GameLeft /\ Used /\ Steps /\ Counted /\ Indexed
      /\ \A r \in Slots : IOAt(r) /\ SlotInv(r)
  BY DEF IInv
<1>2. /\ {authAt, blank, gameAt, sendAt} \subseteq Slots \cup {NoSlot} /\ NoSlot \notin Slots /\ NoConn \notin Conns
      /\ (\A i \in DOMAIN queue : queue[i] \in Conns) /\ (\A i \in DOMAIN free : free[i] \in Slots)
      /\ \A r \in Slots : (mode[r] # "NONE" <=> info[r] # NoConn) /\ (mode[r] # "NONE" <=> info[r] \in Conns)
  BY <1>1, StateTypes
<1>4. sock[c] = "none"
  BY <1>1, <1>2 DEF AcceptThread_update, Steps, Used, ThreadInv
<1>5. UNCHANGED <<mode, info, toGame, inbox, free, authCount, gameCount, total, told, sendQ, sending,
        sendCount, ioCount, io, left, logout, stuck, auth, authAt, blank, game, gameAt, send, sendAt,
        toSend, work, workAt, heirs, taken, down>>
  BY DEF AcceptThread_update, authT, flow, gameT, got, lines, sendT, workT
<1>6. sock' = [sock EXCEPT ![c] = "open"]
  BY DEF AcceptThread_update
<1>7. /\ sock'[c] = "open" /\ \A x \in Conns : x # c => sock'[x] = sock[x]
      /\ queue' = Append(queue, c)
  BY <1>1, <1>2, <1>4, <1>6 DEF AcceptThread_update, TypeOK
<1>8. TypeOK'
  <2>1. sock' \in [Conns -> {"none", "open", "reset", "shut", "closed"}]
    BY <1>1, <1>2, <1>4, <1>6 DEF TypeOK
  <2>2. queue' \in Seq(Conns)
    BY <1>1, <1>2, <1>4, <1>7 DEF TypeOK
  <2> QED BY <1>1, <1>5, <2>1, <2>2 DEF TypeOK
<1>9. ThreadInv' /\ Bounded' /\ GameLeft'
  BY <1>1, <1>5 DEF ThreadInv, Bounded, GameLeft
<1>10. Steps' /\ Indexed'
  BY <1>1, <1>5 DEF Steps, Indexed
<1>11. Counted'
  BY <1>1, <1>5 DEF Counted
<1>12. Used'
  <2>1. \A x \in Slots : info[x] # c
    BY <1>1, <1>2, <1>4 DEF Used
  <2>2. queue \in Seq(Conns) /\ queue' = Append(queue, c)
    BY <1>1, <1>7 DEF TypeOK
  <2>3. /\ Len(queue') = Len(queue) + 1 /\ Len(queue) \in Nat
        /\ DOMAIN queue = 1..Len(queue) /\ DOMAIN queue' = 1..Len(queue')
        /\ \A i \in 1..Len(queue) : queue'[i] = queue[i]
        /\ queue'[Len(queue) + 1] = c
    BY <2>2, AppendProperties
  <2>4. \A i \in DOMAIN queue' : (i \in DOMAIN queue /\ queue'[i] = queue[i]) \/ (i = Len(queue) + 1
            /\ queue'[i] = c)
    BY <2>3
  <2>5. \A i \in DOMAIN queue : queue[i] # c
    BY <1>1, <1>4 DEF Used
  <2>6. told[c] = {} /\ sock'[c] = "open" /\ \A x \in Conns : x # c => sock'[x] = sock[x]
    BY <1>1, <1>4, <1>7 DEF Used
  <2>7. /\ mode' = mode /\ info' = info /\ told' = told
    BY <1>5
  <2>8. \A x \in Slots : mode'[x] # "NONE" => info'[x] \in Conns /\ sock'[info'[x]] # "none"
    BY <1>1, <2>1, <2>6, <2>7 DEF Used
  <2>9. \A i \in DOMAIN queue' :
          sock'[queue'[i]] # "none" /\ told'[queue'[i]] = {} /\ \A x \in Slots : info'[x] # queue'[i]
    <3>1. ASSUME NEW i \in DOMAIN queue
          PROVE  sock'[queue[i]] # "none" /\ told'[queue[i]] = {} /\ \A x \in Slots : info'[x] # queue[i]
      BY <1>1, <1>2, <2>5, <2>6, <2>7, <3>1 DEF Used
    <3>2. sock'[c] # "none" /\ told'[c] = {} /\ \A x \in Slots : info'[x] # c
      BY <2>1, <2>6, <2>7
    <3> QED BY <2>4, <3>1, <3>2
  <2>10. \A i, j \in DOMAIN queue' : queue'[i] = queue'[j] => i = j
    BY <1>1, <2>4, <2>5 DEF Used
  <2>11. \A x \in Conns : sock'[x] = "none" => told'[x] = {}
    BY <1>1, <2>6, <2>7 DEF Used
  <2>12. \A x \in heirs' : sock'[x] # "none" /\ \A i \in DOMAIN queue' : queue'[i] # x
    <3>1. ASSUME NEW x \in heirs PROVE sock'[x] # "none" /\ x # c /\ \A i \in DOMAIN queue : queue[i] # x
      BY <1>1, <1>4, <2>6 DEF Used, TypeOK
    <3>2. heirs' = heirs
      BY <1>5
    <3> QED BY <2>4, <3>1, <3>2
  <2> QED BY <1>1, <2>7, <2>8, <2>9, <2>10, <2>11, <2>12 DEF Used
<1>13. ASSUME NEW r \in Slots PROVE IOAt(r)'
  <2>1. /\ Pending(r)' = Pending(r) /\ Handled(workAt', work', r) = Handled(workAt, work, r)
        /\ Recving(workAt', work', r) = Recving(workAt, work, r)
    BY <1>5 DEF Pending
  <2>2. IOAt(r)
    BY <1>1
  <2> QED BY <1>5, <2>1, <2>2 DEF IOAt, Handled, Recving, One
<1>14. ASSUME NEW r \in Slots PROVE SlotInv(r)'
  <2>1. OneSend(r) /\ Empty(r) /\ Told(r) /\ Own(r) /\ Alone(r) /\ OneRecv(r) /\ Fresh(r) /\ Heard(r) /\ Ended(r)
    BY <1>1 DEF SlotInv
  <2>2. OneSend(r)' /\ Empty(r)' /\ Told(r)' /\ Own(r)'
    BY <1>5, <2>1 DEF OneSend, Sent, Empty, Told, Own
  <2>3. Alone(r)' /\ OneRecv(r)' /\ Fresh(r)'
    BY <1>5, <2>1 DEF Alone, Clean, OneRecv, Recv, Fresh, Joining, Posting, Quiet
  <2>4. Heard(r)'
    <3>1. mode[r] # "NONE" => info[r] \in Conns /\ info[r] # c
      BY <1>1, <1>2, <1>4 DEF Used
    <3>2. mode[r] # "NONE" => sock'[info[r]] = sock[info[r]]
      BY <1>7, <3>1
    <3> QED BY <1>5, <2>1, <3>2 DEF Heard, Clean, Joining, Recv
  <2>5. Ended(r)'
    BY <1>1, <1>2, <1>4, <1>5, <1>7, <2>1 DEF Ended, Clean, Over, Quiet, Joining
  <2> QED BY <2>2, <2>3, <2>4, <2>5 DEF SlotInv
<1> QED BY <1>8, <1>9, <1>10, <1>11, <1>12, <1>13, <1>14 DEF IInv

LEMMA ClientClosesStep ==
  ASSUME ConstantsOK, IInv, NEW c \in Conns, ClientCloses(c)
  PROVE  IInv'
<1>1. /\ TypeOK /\ ThreadInv /\ Bounded /\ GameLeft /\ Used /\ Steps /\ Counted /\ Indexed
      /\ \A r \in Slots : IOAt(r) /\ SlotInv(r)
  BY DEF IInv
<1>2. /\ {authAt, blank, gameAt, sendAt} \subseteq Slots \cup {NoSlot} /\ NoSlot \notin Slots /\ NoConn \notin Conns
      /\ (\A i \in DOMAIN queue : queue[i] \in Conns) /\ (\A i \in DOMAIN free : free[i] \in Slots)
      /\ \A r \in Slots : (mode[r] # "NONE" <=> info[r] # NoConn) /\ (mode[r] # "NONE" <=> info[r] \in Conns)
  BY <1>1, StateTypes
<1>4. sock[c] = "open"
  BY <1>1, <1>2 DEF ClientCloses, Steps, Used, ThreadInv
<1>5. UNCHANGED <<queue, mode, info, toGame, inbox, free, authCount, gameCount, total, told, sendQ,
        sending, sendCount, ioCount, io, left, logout, stuck, auth, authAt, blank, game, gameAt, send,
        sendAt, toSend, work, workAt, heirs, taken, down>>
  BY DEF ClientCloses, authT, flow, gameT, got, lines, sendT, workT
<1>6. sock' = [sock EXCEPT ![c] = "reset"]
  BY DEF ClientCloses
<1>7. sock'[c] = "reset" /\ \A x \in Conns : x # c => sock'[x] = sock[x]
  BY <1>1, <1>2, <1>4, <1>6 DEF ClientCloses, TypeOK
<1>8. TypeOK'
  <2>1. sock' \in [Conns -> {"none", "open", "reset", "shut", "closed"}]
    BY <1>1, <1>2, <1>4, <1>6 DEF TypeOK
  <2> QED BY <1>1, <1>5, <2>1 DEF TypeOK
<1>9. ThreadInv' /\ Bounded' /\ GameLeft'
  BY <1>1, <1>5 DEF ThreadInv, Bounded, GameLeft
<1>10. Steps' /\ Indexed'
  BY <1>1, <1>5 DEF Steps, Indexed
<1>11. Counted'
  BY <1>1, <1>5 DEF Counted
<1>12. Used'
  <2>1. \A x \in Conns : sock'[x] = "none" <=> sock[x] = "none"
    BY <1>4, <1>7
  <2>2. \A x \in heirs : x \in Conns
    BY <1>1 DEF TypeOK
  <2> QED BY <1>1, <1>2, <1>5, <2>1, <2>2 DEF Used
<1>13. ASSUME NEW r \in Slots PROVE IOAt(r)'
  <2>1. /\ Pending(r)' = Pending(r) /\ Handled(workAt', work', r) = Handled(workAt, work, r)
        /\ Recving(workAt', work', r) = Recving(workAt, work, r)
    BY <1>5 DEF Pending
  <2>2. IOAt(r)
    BY <1>1
  <2> QED BY <1>5, <2>1, <2>2 DEF IOAt, Handled, Recving, One
<1>14. ASSUME NEW r \in Slots PROVE SlotInv(r)'
  <2>1. OneSend(r) /\ Empty(r) /\ Told(r) /\ Own(r) /\ Alone(r) /\ OneRecv(r) /\ Fresh(r) /\ Heard(r) /\ Ended(r)
    BY <1>1 DEF SlotInv
  <2>2. OneSend(r)' /\ Empty(r)' /\ Told(r)' /\ Own(r)'
    BY <1>5, <2>1 DEF OneSend, Sent, Empty, Told, Own
  <2>3. Alone(r)' /\ OneRecv(r)' /\ Fresh(r)'
    BY <1>5, <2>1 DEF Alone, Clean, OneRecv, Recv, Fresh, Joining, Posting, Quiet
  <2>4. Heard(r)'
    BY <1>1, <1>2, <1>4, <1>5, <1>7, <2>1 DEF Heard, Clean, Joining, Recv, ShutDown
  <2>5. Ended(r)'
    BY <1>1, <1>2, <1>4, <1>5, <1>7, <2>1 DEF Ended, Clean, Over, Quiet, Joining
  <2> QED BY <2>2, <2>3, <2>4, <2>5 DEF SlotInv
<1> QED BY <1>8, <1>9, <1>10, <1>11, <1>12, <1>13, <1>14 DEF IInv

LEMMA AuthCountStep ==
  ASSUME ConstantsOK, IInv, AuthCount
  PROVE  IInv'
<1>1. /\ TypeOK /\ ThreadInv /\ Bounded /\ GameLeft /\ Used /\ Steps /\ Counted /\ Indexed
      /\ \A r \in Slots : IOAt(r) /\ SlotInv(r)
  BY DEF IInv
<1>2. /\ {authAt, blank, gameAt, sendAt} \subseteq Slots \cup {NoSlot} /\ NoSlot \notin Slots /\ NoConn \notin Conns
      /\ \A r \in Slots : (mode[r] # "NONE" <=> info[r] # NoConn) /\ (mode[r] # "NONE" <=> info[r] \in Conns)
      /\ \A r \in Slots : IONat(r)
  BY <1>1, StateTypes
<1>3. /\ authAt \in Slots /\ IOAt(authAt) /\ OneSend(authAt) /\ Empty(authAt) /\ Told(authAt) /\ Own(authAt)
      /\ Alone(authAt) /\ OneRecv(authAt) /\ Fresh(authAt) /\ Heard(authAt) /\ Ended(authAt)
  <2>1. authAt \in Slots
    BY <1>1, <1>2 DEF AuthCount, IncIO, Auth, ThreadInv
  <2> QED BY <1>1, <2>1 DEF SlotInv
<1>4. auth = "count" /\ mode[authAt] = "AUTH"
  BY <1>1, <1>2, <1>3 DEF AuthCount, IncIO, Auth, Steps, Used, ThreadInv
<1>5. UNCHANGED <<sock, queue, mode, info, toGame, inbox, free, authCount, gameCount, total, told,
        sendQ, sending, sendCount, io, left, logout, stuck, authAt, blank, game, gameAt, send, sendAt,
        toSend, work, workAt, heirs, taken, down>>
  BY DEF AuthCount, IncIO, Auth, conns, flow, gameT, got, sendT, workT
<1>6. ioCount' = [ioCount EXCEPT ![authAt] = ioCount[authAt] + 1]
  BY DEF AuthCount, IncIO, Auth
<1>7. /\ ioCount'[authAt] = (ioCount[authAt] + 1) /\ \A x \in Slots : x # authAt => ioCount'[x] = ioCount[x]
      /\ auth' = "join"
  BY <1>1, <1>2, <1>3, <1>4, <1>6 DEF AuthCount, IncIO, Auth, TypeOK
<1>8. TypeOK'
  <2>1. ioCount' \in [Slots -> Nat]
    <3>1. ioCount \in [Slots -> Nat]
      BY <1>1 DEF TypeOK
    <3> QED BY <1>2, <1>3, <1>4, <1>6, <3>1
  <2>2. auth' \in {"idle", "count", "join", "more", "out", "beat"}
    BY <1>1, <1>2, <1>3, <1>4, <1>7 DEF TypeOK
  <2> QED BY <1>1, <1>5, <2>1, <2>2 DEF TypeOK
<1>9. Bounded' /\ GameLeft' /\ Used'
  BY <1>1, <1>5 DEF Bounded, GameLeft, Used
<1>10. Indexed'
  BY <1>1, <1>5 DEF Indexed
<1>11. ThreadInv'
  BY <1>1, <1>2, <1>3, <1>4, <1>5, <1>7 DEF ThreadInv
<1>12. Steps'
  BY <1>1, <1>2, <1>3, <1>4, <1>5, <1>7 DEF Steps, ThreadInv
<1>13. Counted'
  <2>1. /\ Counted /\ authCount \in Nat /\ gameCount \in Nat /\ total \in Nat /\ taken \in Nat
        /\ Cardinality(In(mode, AuthModes)) \in Nat /\ Cardinality(In(mode, GameModes)) \in Nat
             /\ Cardinality(In(mode, SomeModes)) \in Nat
    BY <1>1, ConstantsOK, InNat DEF TypeOK
  <2>2. mode' = mode /\ auth' = "join" /\ game' = game /\ authCount' = authCount
        /\ gameCount' = gameCount /\ total' = total /\ taken' = taken /\ auth = "count"
    BY <1>4, <1>5, <1>7
  <2> QED BY <2>1, <2>2 DEF Counted, One
<1>14. ASSUME NEW r \in Slots PROVE IOAt(r)'
  <2>3. Handled(workAt', work', r) = Handled(workAt, work, r)
            /\ Recving(workAt', work', r) = Recving(workAt, work, r)
    BY <1>5
  <2>5. Pending(r)' = Pending(r)
    BY <1>5 DEF Pending
  <2>6. IOAt(r) /\ IONat(r)
    BY <1>1, <1>2
  <2>7. ioCount'[r] = Pending(r)' + Cardinality(Handled(workAt', work', r)) + Cardinality(Recving(workAt', work', r))
                     + One(sendAt' = r /\ send' \in {"peek", "post", "fail"}) + One(authAt' = r /\ auth' = "join")
    <3>1. /\ NoSlot \notin Slots /\ auth' = "join" /\ authAt' = authAt /\ send' = send /\ sendAt' = sendAt
          /\ auth = "count"
          /\ r = authAt => ioCount'[r] = ioCount[r] + 1
          /\ r # authAt => ioCount'[r] = ioCount[r]
      BY <1>2, <1>4, <1>5, <1>7
    <3> QED BY <1>1, <1>3, <2>3, <2>5, <2>6, <3>1 DEF ThreadInv, IOAt, IONat, One
  <2> QED BY <2>7 DEF IOAt, Handled, Recving, One
<1>15. ASSUME NEW r \in Slots PROVE SlotInv(r)'
  <2>1. OneSend(r) /\ Empty(r) /\ Told(r) /\ Own(r) /\ Alone(r) /\ OneRecv(r) /\ Fresh(r) /\ Heard(r) /\ Ended(r)
    BY <1>1 DEF SlotInv
  <2>2. OneSend(r)' /\ Empty(r)' /\ Told(r)' /\ Own(r)'
    BY <1>5, <2>1 DEF OneSend, Sent, Empty, Told, Own
  <2>3. Alone(r)' /\ OneRecv(r)'
    BY <1>5, <2>1 DEF Alone, Clean, OneRecv, Recv
  <2>4. Fresh(r)'
    BY <1>1, <1>2, <1>3, <1>4, <1>5, <1>7, <2>1 DEF Fresh, Clean, Joining, Posting, Quiet
  <2>5. Heard(r)'
    BY <1>1, <1>2, <1>3, <1>4, <1>5, <1>7, <2>1 DEF Heard, Clean, Joining, Recv
  <2>6. Ended(r)'
    BY <1>1, <1>2, <1>3, <1>4, <1>5, <1>7, <2>1 DEF Ended, Clean, Over, Quiet, Joining
  <2> QED BY <2>2, <2>3, <2>4, <2>5, <2>6 DEF SlotInv
<1> QED BY <1>8, <1>9, <1>10, <1>11, <1>12, <1>13, <1>14, <1>15 DEF IInv

LEMMA AuthJoinPostedStep ==
  ASSUME ConstantsOK, IInv, AuthJoin, Accepted(authAt), Post(authAt, "recv"), UNCHANGED <<sock,
         ioCount, logout>>
  PROVE  IInv'
<1>1. /\ TypeOK /\ ThreadInv /\ Bounded /\ GameLeft /\ Used /\ Steps /\ Counted /\ Indexed
      /\ \A r \in Slots : IOAt(r) /\ SlotInv(r)
  BY DEF IInv
<1>2. /\ {authAt, blank, gameAt, sendAt} \subseteq Slots \cup {NoSlot} /\ NoSlot \notin Slots /\ NoConn \notin Conns
      /\ (\A i \in DOMAIN queue : queue[i] \in Conns) /\ (\A i \in DOMAIN free : free[i] \in Slots)
      /\ \A r \in Slots : (mode[r] # "NONE" <=> info[r] # NoConn) /\ (mode[r] # "NONE" <=> info[r] \in Conns)
      /\ \A r \in Slots : io[r]["recv"] \in Nat /\ io[r]["send"] \in Nat /\ left[r]["recv"] \in Nat
           /\ left[r]["send"] \in Nat
      /\ \A r \in Slots : IONat(r)
  BY <1>1, StateTypes
<1>3. /\ authAt \in Slots /\ IOAt(authAt) /\ OneSend(authAt) /\ Empty(authAt) /\ Told(authAt) /\ Own(authAt)
      /\ Alone(authAt) /\ OneRecv(authAt) /\ Fresh(authAt) /\ Heard(authAt) /\ Ended(authAt)
  <2>1. authAt \in Slots
    BY <1>1, <1>2 DEF AuthJoin, Tell, Shut, Accepted, Refused, Post, DecIO, Auth, ThreadInv
  <2> QED BY <1>1, <2>1 DEF SlotInv
<1>4. /\ auth = "join" /\ mode[authAt] = "AUTH" /\ info[authAt] \in Conns
      /\ sock[info[authAt]] \in {"open", "reset"}
  BY <1>1, <1>2, <1>3 DEF AuthJoin, Tell, Shut, Accepted, Refused, Post, DecIO, Auth, Steps, Used,
     ThreadInv
<1>5. UNCHANGED <<sock, queue, mode, info, toGame, inbox, free, gameCount, sendQ, sending, sendCount,
        ioCount, left, logout, stuck, blank, game, gameAt, send, sendAt, toSend, work, workAt, heirs,
        taken, down>>
  BY DEF AuthJoin, Tell, Shut, Accepted, Refused, Post, DecIO, Auth, gameT, got, sendT, workT
<1>6. told' = [told EXCEPT ![info[authAt]] = told[info[authAt]] \cup {"auth join"}]
  BY DEF AuthJoin, Tell, Shut, Accepted, Refused, Post, DecIO, Auth
<1>7. /\ told'[info[authAt]] = (told[info[authAt]] \cup {"auth join"}) /\ \A x \in Conns : x # info[authAt]
           => told'[x] = told[x]
      /\ authCount' = authCount + 1
      /\ total' = total + 1
      /\ auth' = "more"
      /\ authAt' = NoSlot
  <2>1. told'[info[authAt]] = (told[info[authAt]] \cup {"auth join"}) /\ \A x \in Conns : x # info[authAt]
            => told'[x] = told[x]
    <3>1. told \in [Conns -> SUBSET Events]
      BY <1>1 DEF TypeOK
    <3>2. info[authAt] \in Conns
      BY <1>2, <1>3, <1>4
    <3> QED BY <1>6, <3>1, <3>2
  <2>2. authCount' = authCount + 1
    BY <1>4 DEF AuthJoin, Tell, Shut, Accepted, Refused, Post, DecIO, Auth
  <2>3. total' = total + 1
    BY <1>4 DEF AuthJoin, Tell, Shut, Accepted, Refused, Post, DecIO, Auth
  <2>4. auth' = "more"
    BY <1>4 DEF AuthJoin, Tell, Shut, Accepted, Refused, Post, DecIO, Auth
  <2>5. authAt' = NoSlot
    BY <1>4 DEF AuthJoin, Tell, Shut, Accepted, Refused, Post, DecIO, Auth
  <2> QED BY <2>1, <2>2, <2>3, <2>4, <2>5
<1>8. /\ io' \in [Slots -> [Kinds -> Nat]]
      /\ io'[authAt]["recv"] = io[authAt]["recv"] + 1 /\ io'[authAt]["send"] = io[authAt]["send"]
      /\ \A x \in Slots : x # authAt => io'[x] = io[x]
  <2>1. io' = [io EXCEPT ![authAt]["recv"] = @ + 1]
    BY DEF AuthJoin, Post
  <2>2. "recv" \in Kinds /\ "send" \in Kinds /\ "recv" # "send"
    BY DEF Kinds
  <2>3. TypeOK /\ authAt \in Slots
    BY <1>1, <1>3
  <2> QED BY <1>4, <2>1, <2>2, <2>3, Posted
<1>9. TypeOK'
  <2>1. told' \in [Conns -> SUBSET Events]
    BY <1>1, <1>2, <1>3, <1>4, <1>6, <1>8 DEF TypeOK, Events
  <2>2. authCount' \in Nat
    <3>1. authCount \in Nat /\ authCount' = authCount + 1
      BY <1>1, <1>7 DEF TypeOK
    <3> QED BY <3>1
  <2>3. total' \in Nat
    <3>1. total \in Nat /\ total' = total + 1
      BY <1>1, <1>7 DEF TypeOK
    <3> QED BY <3>1
  <2>4. auth' \in {"idle", "count", "join", "more", "out", "beat"}
    BY <1>1, <1>2, <1>3, <1>4, <1>7, <1>8 DEF TypeOK
  <2>5. authAt' \in Slots \cup {NoSlot}
    BY <1>1, <1>2, <1>3, <1>4, <1>7, <1>8 DEF TypeOK
  <2>6. io' \in [Slots -> [Kinds -> Nat]]
    BY <1>8
  <2>7. {io', left'} \subseteq [Slots -> [Kinds -> Nat]]
    <3>1. left' \in [Slots -> [Kinds -> Nat]]
      BY <1>1, <1>5 DEF TypeOK
    <3> QED BY <2>6, <3>1
  <2>8. {authAt', blank', gameAt', sendAt'} \subseteq Slots \cup {NoSlot}
    BY <1>2, <1>5, <2>1, <2>2, <2>3, <2>4, <2>5, <2>6, <2>7
  <2> QED BY <1>1, <1>5, <2>1, <2>2, <2>3, <2>4, <2>5, <2>6, <2>7, <2>8 DEF TypeOK
<1>10. Bounded' /\ Indexed'
  BY <1>1, <1>5 DEF Bounded, Indexed
<1>11. ThreadInv'
  BY <1>1, <1>2, <1>3, <1>4, <1>5, <1>7, <1>8 DEF ThreadInv
<1>12. GameLeft'
  <2>1. /\ info[authAt] \in Conns /\ \A x : x \in told'[info[authAt]]
             <=> x \in told[info[authAt]] \/ x = "auth join"
        /\ \A x \in Conns : x # info[authAt] => told'[x] = told[x]
    BY <1>4, <1>7
  <2>2. TRUE
    OBVIOUS
  <2>3. ASSUME NEW x \in Conns, "release" \in told'[x] PROVE "game join" \in told'[x] <=> "game leave" \in told'[x]
    <3>1. "release" \in told[x] => ("game join" \in told[x] <=> "game leave" \in told[x])
      BY <1>1 DEF GameLeft
    <3>2. CASE x = info[authAt]
      BY <2>1, <2>2, <2>3, <3>1, <3>2
    <3>3. CASE x # info[authAt]
      BY <2>1, <2>3, <3>1, <3>3
    <3> QED BY <3>2, <3>3
  <2> QED BY <2>3 DEF GameLeft
<1>13. Used'
  <2>1. /\ info[authAt] \in Conns /\ \A x : x \in told'[info[authAt]]
             <=> x \in told[info[authAt]] \/ x = "auth join"
        /\ \A x \in Conns : x # info[authAt] => told'[x] = told[x]
    BY <1>4, <1>7
  <2>2. /\ sock[info[authAt]] # "none" /\ \A k \in DOMAIN queue : queue[k] \in Conns /\ queue[k] # info[authAt]
        /\ mode[authAt] # "NONE" /\ authAt \in Slots
    BY <1>1, <1>2, <1>3, <1>4 DEF Used
  <2>3. /\ info' = info /\ queue' = queue /\ (\A x \in Slots : mode'[x] # "NONE" => mode[x] # "NONE")
        /\ \A x \in Conns : sock'[x] = "none" <=> sock[x] = "none"
    BY <1>5, <1>7, <2>2
  <2>4. \A x \in Slots : mode'[x] # "NONE" => info'[x] \in Conns /\ sock'[info'[x]] # "none"
    BY <1>1, <2>3 DEF Used
  <2>5. \A k \in DOMAIN queue' : sock'[queue'[k]] # "none" /\ told'[queue'[k]] = {}
            /\ \A x \in Slots : info'[x] # queue'[k]
    <3>1. ASSUME NEW k \in DOMAIN queue
          PROVE  sock'[queue[k]] # "none" /\ told'[queue[k]] = {} /\ \A x \in Slots : info[x] # queue[k]
      BY <1>1, <2>1, <2>2, <2>3, <3>1 DEF Used
    <3> QED BY <2>3, <3>1
  <2>6. \A x \in Conns : sock'[x] = "none" => told'[x] = {}
    BY <1>1, <2>1, <2>2, <2>3 DEF Used
  <2>7. \A x \in heirs' : sock'[x] # "none" /\ \A k \in DOMAIN queue' : queue'[k] # x
    <3>1. heirs' = heirs /\ \A x \in heirs : x \in Conns
      BY <1>1, <1>5 DEF TypeOK
    <3> QED BY <1>1, <2>3, <3>1 DEF Used
  <2> QED BY <1>1, <2>3, <2>4, <2>5, <2>6, <2>7 DEF Used
<1>14. Steps'
  BY <1>1, <1>2, <1>3, <1>4, <1>5, <1>7, <1>8 DEF Steps, ThreadInv
<1>15. Counted'
  <2>1. /\ Counted /\ authCount \in Nat /\ gameCount \in Nat /\ total \in Nat /\ taken \in Nat
        /\ Cardinality(In(mode, AuthModes)) \in Nat /\ Cardinality(In(mode, GameModes)) \in Nat
             /\ Cardinality(In(mode, SomeModes)) \in Nat
    BY <1>1, ConstantsOK, InNat DEF TypeOK
  <2>2. mode' = mode /\ auth' = "more" /\ game' = game /\ authCount' = authCount + 1
        /\ gameCount' = gameCount /\ total' = total + 1 /\ taken' = taken /\ auth = "join"
    BY <1>4, <1>5, <1>7
  <2> QED BY <2>1, <2>2 DEF Counted, One
<1>16. ASSUME NEW r \in Slots PROVE IOAt(r)'
  <2>3. Handled(workAt', work', r) = Handled(workAt, work, r)
            /\ Recving(workAt', work', r) = Recving(workAt, work, r)
    BY <1>5
  <2>5. Pending(r)' = Pending(r) + (IF r = authAt THEN 1 ELSE 0)
    <3>1. CASE r = authAt
      <4>1. io'[r]["recv"] = io[r]["recv"] + 1 /\ io'[r]["send"] = io[r]["send"] /\ left' = left
        BY <1>5, <1>8, <3>1
      <4> QED BY <1>2, <3>1, <4>1 DEF Pending
    <3>2. CASE r # authAt
      <4>1. io'[r] = io[r] /\ left' = left
        BY <1>5, <1>8, <3>2
      <4> QED BY <1>2, <3>2, <4>1 DEF Pending
    <3> QED BY <3>1, <3>2
  <2>6. IOAt(r) /\ IONat(r)
    BY <1>1, <1>2
  <2>7. ioCount'[r] = Pending(r)' + Cardinality(Handled(workAt', work', r)) + Cardinality(Recving(workAt', work', r))
                     + One(sendAt' = r /\ send' \in {"peek", "post", "fail"}) + One(authAt' = r /\ auth' = "join")
    <3>1. /\ NoSlot \notin Slots /\ auth' = "more" /\ authAt' = NoSlot /\ send' = send /\ sendAt' = sendAt
          /\ auth = "join" /\ ioCount'[r] = ioCount[r]
      BY <1>2, <1>4, <1>5, <1>7
    <3> QED BY <1>1, <1>3, <2>3, <2>5, <2>6, <3>1 DEF ThreadInv, IOAt, IONat, One
  <2> QED BY <2>7 DEF IOAt, Handled, Recving, One
<1>17. ASSUME NEW r \in Slots PROVE SlotInv(r)'
  <2>1. OneSend(r) /\ Empty(r) /\ Told(r) /\ Own(r) /\ Alone(r) /\ OneRecv(r) /\ Fresh(r) /\ Heard(r) /\ Ended(r)
    BY <1>1 DEF SlotInv
  <2>2. Empty(r)' /\ Own(r)' /\ Alone(r)'
    BY <1>5, <2>1 DEF Empty, Own, Alone, Clean
  <2>3. OneSend(r)'
    BY <1>1, <1>2, <1>3, <1>4, <1>5, <1>7, <1>8, <2>1 DEF OneSend, Sent
  <2>4. Told(r)'
    <3>1. /\ info[authAt] \in Conns /\ \A x : x \in told'[info[authAt]]
               <=> x \in told[info[authAt]] \/ x = "auth join"
          /\ \A x \in Conns : x # info[authAt] => told'[x] = told[x]
      BY <1>4, <1>7
    <3>2. CASE r = authAt
      <4>1. Told(authAt)
        BY <1>3
      <4>2. mode'[r] = mode[r] /\ info'[r] = info[r]
        BY <1>5, <1>7, <3>2
      <4> QED BY <1>4, <3>1, <3>2, <4>1, <4>2 DEF Told
    <3>3. CASE r # authAt
      <4>1. Told(r) /\ mode'[r] = mode[r] /\ info'[r] = info[r]
        BY <1>5, <1>7, <2>1, <3>3
      <4>2. mode[r] # "NONE" => info[r] \in Conns /\ info[r] # info[authAt]
        BY <1>1, <1>2, <1>3, <1>4, <3>3 DEF Used
      <4>3. mode[r] # "NONE" => told'[info[r]] = told[info[r]]
        BY <3>1, <4>2
      <4> QED BY <4>1, <4>3 DEF Told
    <3> QED BY <3>2, <3>3
  <2>5. OneRecv(r)'
    <3>1. CASE r = authAt
      <4>1. /\ mode' = mode /\ info' = info /\ heirs' = heirs /\ io'[r]["recv"] = io[r]["recv"] + 1
            /\ io'[r]["send"] = io[r]["send"] /\ work' = work /\ workAt' = workAt
        BY <1>5, <1>7, <3>1, <1>8
      <4> QED BY <1>1, <1>2, <1>3, <1>4, <2>1, <3>1, <4>1 DEF OneRecv, Clean, Recv, Fresh, Joining,
         Quiet
    <3>2. CASE r # authAt
      <4>1. /\ mode' = mode /\ info' = info /\ heirs' = heirs /\ io'[r] = io[r] /\ work' = work
            /\ workAt' = workAt /\ NoSlot # r
        BY <1>2, <1>5, <1>7, <3>2, <1>8
      <4> QED BY <1>2, <2>1, <3>2, <1>4, <4>1 DEF OneRecv, Clean, Recv
    <3> QED BY <3>1, <3>2
  <2>6. Fresh(r)'
    BY <1>1, <1>2, <1>3, <1>4, <1>5, <1>7, <1>8, <2>1 DEF Fresh, Clean, Joining, Posting, Quiet
  <2>7. Heard(r)'
    <3>1. CASE r = authAt
      <4>1. /\ mode' = mode /\ info' = info /\ heirs' = heirs /\ sock' = sock /\ authAt' = NoSlot
            /\ auth' = "more" /\ io'[r]["recv"] = io[r]["recv"] + 1 /\ io'[r]["send"] = io[r]["send"]
            /\ work' = work /\ workAt' = workAt
        BY <1>5, <1>7, <3>1, <1>8
      <4> QED BY <1>1, <1>2, <1>3, <1>4, <2>1, <3>1, <4>1 DEF Heard, Clean, Joining, Recv
    <3>2. CASE r # authAt
      <4>1. /\ mode' = mode /\ info' = info /\ heirs' = heirs /\ sock' = sock /\ authAt' = NoSlot
            /\ auth' = "more" /\ io'[r] = io[r] /\ work' = work /\ workAt' = workAt /\ NoSlot # r
        BY <1>2, <1>5, <1>7, <3>2, <1>8
      <4> QED BY <1>2, <2>1, <3>2, <1>4, <4>1 DEF Heard, Clean, Joining, Recv
    <3> QED BY <3>1, <3>2
  <2>8. Ended(r)'
    BY <1>1, <1>2, <1>3, <1>4, <1>5, <1>7, <1>8, <2>1 DEF Ended, Clean, Over, Quiet, Joining
  <2> QED BY <2>2, <2>3, <2>4, <2>5, <2>6, <2>7, <2>8 DEF SlotInv
<1> QED BY <1>9, <1>10, <1>11, <1>12, <1>13, <1>14, <1>15, <1>16, <1>17 DEF IInv

LEMMA AuthJoinFailedStep ==
  ASSUME ConstantsOK, IInv, AuthJoin, Shut(authAt), DecIO(authAt),
         logout' = [logout EXCEPT ![authAt] = @ \/ ioCount[authAt] = 1], UNCHANGED io
  PROVE  IInv'
<1>1. /\ TypeOK /\ ThreadInv /\ Bounded /\ GameLeft /\ Used /\ Steps /\ Counted /\ Indexed
      /\ \A r \in Slots : IOAt(r) /\ SlotInv(r)
  BY DEF IInv
<1>2. /\ {authAt, blank, gameAt, sendAt} \subseteq Slots \cup {NoSlot} /\ NoSlot \notin Slots /\ NoConn \notin Conns
      /\ (\A i \in DOMAIN queue : queue[i] \in Conns) /\ (\A i \in DOMAIN free : free[i] \in Slots)
      /\ \A r \in Slots : (mode[r] # "NONE" <=> info[r] # NoConn) /\ (mode[r] # "NONE" <=> info[r] \in Conns)
      /\ \A r \in Slots : IONat(r)
  BY <1>1, StateTypes
<1>3. /\ authAt \in Slots /\ IOAt(authAt) /\ OneSend(authAt) /\ Empty(authAt) /\ Told(authAt) /\ Own(authAt)
      /\ Alone(authAt) /\ OneRecv(authAt) /\ Fresh(authAt) /\ Heard(authAt) /\ Ended(authAt)
  <2>1. authAt \in Slots
    BY <1>1, <1>2 DEF AuthJoin, Tell, Shut, Accepted, Refused, Post, DecIO, Auth, ThreadInv
  <2> QED BY <1>1, <2>1 DEF SlotInv
<1>4. auth = "join" /\ mode[authAt] = "AUTH" /\ info[authAt] \in Conns /\ ioCount[authAt] > 0
  <2>1. auth = "join" /\ mode[authAt] = "AUTH" /\ info[authAt] \in Conns
    BY <1>1, <1>2, <1>3 DEF AuthJoin, Tell, Shut, Accepted, Refused, Post, DecIO, Auth, Steps, Used
  <2>2. One(authAt = authAt /\ auth = "join") = 1
            /\ One(sendAt = authAt /\ send \in {"peek", "post", "fail"}) \in Nat
    BY <2>1 DEF One
  <2>3. IONat(authAt)
    BY <1>2, <1>3
  <2> QED BY <1>3, <2>1, <2>2, <2>3 DEF IOAt, IONat
<1>5. UNCHANGED <<queue, mode, info, toGame, inbox, free, gameCount, sendQ, sending, sendCount, io,
        left, stuck, blank, game, gameAt, send, sendAt, toSend, work, workAt, heirs, taken, down>>
  BY DEF AuthJoin, Tell, Shut, Accepted, Refused, Post, DecIO, Auth, gameT, got, sendT, workT
<1>6. /\ told' = [told EXCEPT ![info[authAt]] = told[info[authAt]] \cup {"auth join"}]
      /\ sock' = [sock EXCEPT ![info[authAt]] = IF sock[info[authAt]] \in {"open", "reset"} THEN "shut"
           ELSE sock[info[authAt]]]
      /\ ioCount' = [ioCount EXCEPT ![authAt] = ioCount[authAt] - 1]
      /\ logout' = [logout EXCEPT ![authAt] = logout[authAt] \/ ioCount[authAt] = 1]
  BY DEF AuthJoin, Tell, Shut, Accepted, Refused, Post, DecIO, Auth
<1>7. /\ told'[info[authAt]] = (told[info[authAt]] \cup {"auth join"}) /\ \A x \in Conns : x # info[authAt]
           => told'[x] = told[x]
      /\ sock'[info[authAt]] = (IF sock[info[authAt]] \in {"open", "reset"} THEN "shut" ELSE sock[info[authAt]])
           /\ \A x \in Conns : x # info[authAt] => sock'[x] = sock[x]
      /\ ioCount'[authAt] = (ioCount[authAt] - 1) /\ \A x \in Slots : x # authAt => ioCount'[x] = ioCount[x]
      /\ logout'[authAt] = (logout[authAt] \/ ioCount[authAt] = 1) /\ \A x \in Slots : x # authAt
           => logout'[x] = logout[x]
      /\ authCount' = authCount + 1
      /\ total' = total + 1
      /\ auth' = "more"
      /\ authAt' = NoSlot
  <2>1. told'[info[authAt]] = (told[info[authAt]] \cup {"auth join"}) /\ \A x \in Conns : x # info[authAt]
            => told'[x] = told[x]
    <3>1. told \in [Conns -> SUBSET Events]
      BY <1>1 DEF TypeOK
    <3>2. info[authAt] \in Conns
      BY <1>2, <1>3, <1>4
    <3> QED BY <1>6, <3>1, <3>2
  <2>2. sock'[info[authAt]] = (IF sock[info[authAt]] \in {"open", "reset"} THEN "shut" ELSE sock[info[authAt]])
            /\ \A x \in Conns : x # info[authAt] => sock'[x] = sock[x]
    <3>1. sock \in [Conns -> {"none", "open", "reset", "shut", "closed"}]
      BY <1>1 DEF TypeOK
    <3>2. info[authAt] \in Conns
      BY <1>2, <1>3, <1>4
    <3> QED BY <1>6, <3>1, <3>2
  <2>3. ioCount'[authAt] = (ioCount[authAt] - 1) /\ \A x \in Slots : x # authAt => ioCount'[x] = ioCount[x]
    <3>1. ioCount \in [Slots -> Nat]
      BY <1>1 DEF TypeOK
    <3>2. authAt \in Slots
      BY <1>2, <1>3, <1>4
    <3> QED BY <1>6, <3>1, <3>2
  <2>4. logout'[authAt] = (logout[authAt] \/ ioCount[authAt] = 1) /\ \A x \in Slots : x # authAt
            => logout'[x] = logout[x]
    <3>1. logout \in [Slots -> BOOLEAN]
      BY <1>1 DEF TypeOK
    <3>2. authAt \in Slots
      BY <1>2, <1>3, <1>4
    <3> QED BY <1>6, <3>1, <3>2
  <2>5. authCount' = authCount + 1
    BY <1>4 DEF AuthJoin, Tell, Shut, Accepted, Refused, Post, DecIO, Auth
  <2>6. total' = total + 1
    BY <1>4 DEF AuthJoin, Tell, Shut, Accepted, Refused, Post, DecIO, Auth
  <2>7. auth' = "more"
    BY <1>4 DEF AuthJoin, Tell, Shut, Accepted, Refused, Post, DecIO, Auth
  <2>8. authAt' = NoSlot
    BY <1>4 DEF AuthJoin, Tell, Shut, Accepted, Refused, Post, DecIO, Auth
  <2> QED BY <2>1, <2>2, <2>3, <2>4, <2>5, <2>6, <2>7, <2>8
<1>8. ShutDown(sock, sock') /\ sock'[info[authAt]] \in {"shut", "closed", "none"}
  <2>1. \A x \in Conns : sock[x] \in {"none", "open", "reset", "shut", "closed"}
    BY <1>1 DEF TypeOK
  <2> QED BY <1>4, <1>7, <2>1 DEF ShutDown
<1>9. TypeOK'
  <2>1. told' \in [Conns -> SUBSET Events]
    BY <1>1, <1>2, <1>3, <1>4, <1>6, <1>8 DEF TypeOK, Events
  <2>2. sock' \in [Conns -> {"none", "open", "reset", "shut", "closed"}]
    BY <1>1, <1>2, <1>3, <1>4, <1>6, <1>8 DEF TypeOK
  <2>3. ioCount' \in [Slots -> Nat]
    <3>1. ioCount \in [Slots -> Nat]
      BY <1>1 DEF TypeOK
    <3>2. authAt \in Slots /\ ioCount[authAt] > 0
      BY <1>3, <1>4
    <3>3. ioCount[authAt] - 1 \in Nat
      BY <3>1, <3>2
    <3>4. ioCount' = [ioCount EXCEPT ![authAt] = ioCount[authAt] - 1]
      BY <1>6
    <3> QED BY <3>1, <3>3, <3>4
  <2>4. logout' \in [Slots -> BOOLEAN]
    BY <1>1, <1>2, <1>3, <1>4, <1>6, <1>8 DEF TypeOK
  <2>5. authCount' \in Nat
    <3>1. authCount \in Nat /\ authCount' = authCount + 1
      BY <1>1, <1>7 DEF TypeOK
    <3> QED BY <3>1
  <2>6. total' \in Nat
    <3>1. total \in Nat /\ total' = total + 1
      BY <1>1, <1>7 DEF TypeOK
    <3> QED BY <3>1
  <2>7. auth' \in {"idle", "count", "join", "more", "out", "beat"}
    BY <1>1, <1>2, <1>3, <1>4, <1>7, <1>8 DEF TypeOK
  <2>8. authAt' \in Slots \cup {NoSlot}
    BY <1>1, <1>2, <1>3, <1>4, <1>7, <1>8 DEF TypeOK
  <2>9. {authAt', blank', gameAt', sendAt'} \subseteq Slots \cup {NoSlot}
    BY <1>2, <1>5, <2>1, <2>2, <2>3, <2>4, <2>5, <2>6, <2>7, <2>8
  <2>10. /\ queue' \in Seq(Conns)
        /\ mode' \in [Slots -> Modes]
        /\ info' \in [Slots -> Conns \cup {NoConn}]
        /\ toGame' \in [Slots -> BOOLEAN]
        /\ inbox' \in [Slots -> 0..MaxIn]
        /\ sendQ' \in [Slots -> Seq(Conns)]
        /\ sending' \in [Slots -> BOOLEAN]
        /\ sendCount' \in [Slots -> 0..MaxOut]
        /\ free' \in Seq(Slots)
        /\ gameCount' \in Nat
        /\ game' \in {"idle", "out", "push"}
        /\ send' \in {"idle", "mode", "size", "inc", "peek", "post", "fail", "log", "unsend"}
        /\ work' \in [Workers -> {"idle", "recv", "unsend", "dec", "log"}]
        /\ workAt' \in [Workers -> Slots \cup {NoSlot}]
        /\ toSend' \in 0..MaxOut
        /\ stuck' \in SUBSET Slots
        /\ heirs' \in SUBSET Conns
        /\ taken' \in Nat
        /\ down' \in BOOLEAN
        /\ {io', left'} \subseteq [Slots -> [Kinds -> Nat]]
    BY <1>1, <1>5 DEF TypeOK
  <2> QED BY <2>1, <2>2, <2>3, <2>4, <2>5, <2>6, <2>7, <2>8, <2>9, <2>10 DEF TypeOK
<1>10. Bounded' /\ Indexed'
  BY <1>1, <1>5 DEF Bounded, Indexed
<1>11. ThreadInv'
  BY <1>1, <1>2, <1>3, <1>4, <1>5, <1>7, <1>8 DEF ThreadInv
<1>12. GameLeft'
  <2>1. /\ info[authAt] \in Conns /\ \A x : x \in told'[info[authAt]]
             <=> x \in told[info[authAt]] \/ x = "auth join"
        /\ \A x \in Conns : x # info[authAt] => told'[x] = told[x]
    BY <1>4, <1>7
  <2>2. TRUE
    OBVIOUS
  <2>3. ASSUME NEW x \in Conns, "release" \in told'[x] PROVE "game join" \in told'[x] <=> "game leave" \in told'[x]
    <3>1. "release" \in told[x] => ("game join" \in told[x] <=> "game leave" \in told[x])
      BY <1>1 DEF GameLeft
    <3>2. CASE x = info[authAt]
      BY <2>1, <2>2, <2>3, <3>1, <3>2
    <3>3. CASE x # info[authAt]
      BY <2>1, <2>3, <3>1, <3>3
    <3> QED BY <3>2, <3>3
  <2> QED BY <2>3 DEF GameLeft
<1>13. Used'
  <2>1. /\ info[authAt] \in Conns /\ \A x : x \in told'[info[authAt]]
             <=> x \in told[info[authAt]] \/ x = "auth join"
        /\ \A x \in Conns : x # info[authAt] => told'[x] = told[x]
    BY <1>4, <1>7
  <2>2. /\ sock[info[authAt]] # "none" /\ \A k \in DOMAIN queue : queue[k] \in Conns /\ queue[k] # info[authAt]
        /\ mode[authAt] # "NONE" /\ authAt \in Slots
    BY <1>1, <1>2, <1>3, <1>4 DEF Used
  <2>3. /\ info' = info /\ queue' = queue /\ (\A x \in Slots : mode'[x] # "NONE" => mode[x] # "NONE")
        /\ \A x \in Conns : sock'[x] = "none" <=> sock[x] = "none"
    BY <1>5, <1>7, <2>2, <1>8 DEF ShutDown
  <2>4. \A x \in Slots : mode'[x] # "NONE" => info'[x] \in Conns /\ sock'[info'[x]] # "none"
    BY <1>1, <2>3 DEF Used
  <2>5. \A k \in DOMAIN queue' : sock'[queue'[k]] # "none" /\ told'[queue'[k]] = {}
            /\ \A x \in Slots : info'[x] # queue'[k]
    <3>1. ASSUME NEW k \in DOMAIN queue
          PROVE  sock'[queue[k]] # "none" /\ told'[queue[k]] = {} /\ \A x \in Slots : info[x] # queue[k]
      BY <1>1, <2>1, <2>2, <2>3, <3>1 DEF Used
    <3> QED BY <2>3, <3>1
  <2>6. \A x \in Conns : sock'[x] = "none" => told'[x] = {}
    BY <1>1, <2>1, <2>2, <2>3 DEF Used
  <2>7. \A x \in heirs' : sock'[x] # "none" /\ \A k \in DOMAIN queue' : queue'[k] # x
    <3>1. heirs' = heirs /\ \A x \in heirs : x \in Conns
      BY <1>1, <1>5 DEF TypeOK
    <3> QED BY <1>1, <2>3, <3>1 DEF Used
  <2> QED BY <1>1, <2>3, <2>4, <2>5, <2>6, <2>7 DEF Used
<1>14. Steps'
  <2>1. \A x \in Slots : logout[x] => logout'[x]
    BY <1>7
  <2>2. mode' = mode /\ game' = game /\ gameAt' = gameAt /\ blank' = blank /\ sendQ' = sendQ /\ auth' = "more"
    BY <1>5, <1>7
  <2>3. game = "out" => gameAt \in Slots
    BY <1>1, <1>2 DEF ThreadInv
  <2> QED BY <1>1, <2>1, <2>2, <2>3 DEF Steps
<1>15. Counted'
  <2>1. /\ Counted /\ authCount \in Nat /\ gameCount \in Nat /\ total \in Nat /\ taken \in Nat
        /\ Cardinality(In(mode, AuthModes)) \in Nat /\ Cardinality(In(mode, GameModes)) \in Nat
             /\ Cardinality(In(mode, SomeModes)) \in Nat
    BY <1>1, ConstantsOK, InNat DEF TypeOK
  <2>2. mode' = mode /\ auth' = "more" /\ game' = game /\ authCount' = authCount + 1
        /\ gameCount' = gameCount /\ total' = total + 1 /\ taken' = taken /\ auth = "join"
    BY <1>4, <1>5, <1>7
  <2> QED BY <2>1, <2>2 DEF Counted, One
<1>16. ASSUME NEW r \in Slots PROVE IOAt(r)'
  <2>3. Handled(workAt', work', r) = Handled(workAt, work, r)
            /\ Recving(workAt', work', r) = Recving(workAt, work, r)
    BY <1>5
  <2>5. Pending(r)' = Pending(r)
    BY <1>5 DEF Pending
  <2>6. IOAt(r) /\ IONat(r)
    BY <1>1, <1>2
  <2>7. ioCount'[r] = Pending(r)' + Cardinality(Handled(workAt', work', r)) + Cardinality(Recving(workAt', work', r))
                     + One(sendAt' = r /\ send' \in {"peek", "post", "fail"}) + One(authAt' = r /\ auth' = "join")
    <3>1. /\ NoSlot \notin Slots /\ auth' = "more" /\ authAt' = NoSlot /\ send' = send /\ sendAt' = sendAt
          /\ auth = "join"
          /\ r = authAt => ioCount'[r] = ioCount[r] - 1
          /\ r # authAt => ioCount'[r] = ioCount[r]
      BY <1>2, <1>4, <1>5, <1>7
    <3> QED BY <1>1, <1>3, <2>3, <2>5, <2>6, <3>1 DEF ThreadInv, IOAt, IONat, One
  <2> QED BY <2>7 DEF IOAt, Handled, Recving, One
<1>17. ASSUME NEW r \in Slots PROVE SlotInv(r)'
  <2>1. OneSend(r) /\ Empty(r) /\ Told(r) /\ Own(r) /\ Alone(r) /\ OneRecv(r) /\ Fresh(r) /\ Heard(r) /\ Ended(r)
    BY <1>1 DEF SlotInv
  <2>2. OneSend(r)' /\ Empty(r)' /\ Own(r)' /\ Alone(r)'
    BY <1>5, <2>1 DEF OneSend, Sent, Empty, Own, Alone, Clean
  <2>3. OneRecv(r)'
    BY <1>5, <2>1 DEF OneRecv, Clean, Recv
  <2>4. Told(r)'
    <3>1. /\ info[authAt] \in Conns /\ \A x : x \in told'[info[authAt]]
               <=> x \in told[info[authAt]] \/ x = "auth join"
          /\ \A x \in Conns : x # info[authAt] => told'[x] = told[x]
      BY <1>4, <1>7
    <3>2. CASE r = authAt
      <4>1. Told(authAt)
        BY <1>3
      <4>2. mode'[r] = mode[r] /\ info'[r] = info[r]
        BY <1>5, <1>7, <3>2
      <4> QED BY <1>4, <3>1, <3>2, <4>1, <4>2 DEF Told
    <3>3. CASE r # authAt
      <4>1. Told(r) /\ mode'[r] = mode[r] /\ info'[r] = info[r]
        BY <1>5, <1>7, <2>1, <3>3
      <4>2. mode[r] # "NONE" => info[r] \in Conns /\ info[r] # info[authAt]
        BY <1>1, <1>2, <1>3, <1>4, <3>3 DEF Used
      <4>3. mode[r] # "NONE" => told'[info[r]] = told[info[r]]
        BY <3>1, <4>2
      <4> QED BY <4>1, <4>3 DEF Told
    <3> QED BY <3>2, <3>3
  <2>5. Fresh(r)'
    BY <1>1, <1>2, <1>3, <1>4, <1>5, <1>7, <1>8, <2>1 DEF Fresh, Clean, Joining, Posting, Quiet
  <2>6. Heard(r)'
    BY <1>1, <1>2, <1>3, <1>4, <1>5, <1>7, <1>8, <2>1 DEF Heard, Clean, Joining, Recv, ShutDown
  <2>7. Ended(r)'
    <3>1. CASE r = authAt
      <4>1. /\ mode' = mode /\ info' = info /\ heirs' = heirs /\ sendAt' = sendAt /\ send' = send
            /\ work' = work /\ workAt' = workAt /\ io' = io /\ authAt' = NoSlot /\ auth' = "more"
            /\ (logout'[r] <=> logout[authAt] \/ ioCount[authAt] = 1)
        BY <1>5, <1>7, <3>1
      <4>2. sock'[info[r]] \in {"shut", "closed"}
        <5>1. sock[info[authAt]] # "none"
          BY <1>1, <1>3, <1>4 DEF Used
        <5> QED BY <1>4, <3>1, <1>8, <5>1 DEF ShutDown
      <4>3. r # NoSlot
        BY <1>2
      <4> QED BY <1>1, <1>2, <1>3, <1>4, <2>1, <3>1, <1>8, <4>1, <4>2, <4>3 DEF Ended, Clean, Over,
         Quiet, Joining, ShutDown, Fresh
    <3>2. CASE r # authAt
      <4>1. /\ mode' = mode /\ info' = info /\ heirs' = heirs /\ sendAt' = sendAt /\ send' = send
            /\ work' = work /\ workAt' = workAt /\ io' = io /\ authAt' = NoSlot /\ auth' = "more"
            /\ NoSlot # r
            /\ (logout'[r] <=> logout[r])
        BY <1>2, <1>5, <1>7, <3>2
      <4>2. \A x \in Conns : sock[x] \in {"shut", "closed"} => sock'[x] \in {"shut", "closed"}
        BY <1>8 DEF ShutDown
      <4>3. \A x \in Conns : sock'[x] \in {"open", "reset"} => sock[x] \in {"open", "reset"}
        BY <1>8 DEF ShutDown
      <4>4. Over(r) /\ Clean(r) => Over(r)'
        BY <1>2, <3>2, <4>1, <4>2 DEF Over, Quiet, Joining, Clean
      <4>5. Clean(r)' <=> Clean(r)
        BY <4>1 DEF Clean
      <4> QED BY <1>2, <1>4, <2>1, <3>2, <4>1, <4>4, <4>5 DEF Ended
    <3> QED BY <3>1, <3>2
  <2> QED BY <2>2, <2>3, <2>4, <2>5, <2>6, <2>7 DEF SlotInv
<1> QED BY <1>9, <1>10, <1>11, <1>12, <1>13, <1>14, <1>15, <1>16, <1>17 DEF IInv

LEMMA AuthGoesOnStep ==
  ASSUME ConstantsOK, IInv, AuthGoesOn
  PROVE  IInv'
<1>1. /\ TypeOK /\ ThreadInv /\ Bounded /\ GameLeft /\ Used /\ Steps /\ Counted /\ Indexed
      /\ \A r \in Slots : IOAt(r) /\ SlotInv(r)
  BY DEF IInv
<1>2. /\ {authAt, blank, gameAt, sendAt} \subseteq Slots \cup {NoSlot} /\ NoSlot \notin Slots /\ NoConn \notin Conns
      /\ \A r \in Slots : (mode[r] # "NONE" <=> info[r] # NoConn) /\ (mode[r] # "NONE" <=> info[r] \in Conns)
      /\ \A r \in Slots : IONat(r)
  BY <1>1, StateTypes
<1>4. auth = "more"
  BY <1>1, <1>2 DEF AuthGoesOn, Auth, Steps, Used, ThreadInv
<1>5. UNCHANGED <<sock, queue, mode, info, toGame, inbox, free, authCount, gameCount, total, told,
        sendQ, sending, sendCount, ioCount, io, left, logout, stuck, game, gameAt, send, sendAt,
        toSend, work, workAt, heirs, taken, down>>
  BY DEF AuthGoesOn, Auth, conns, flow, gameT, got, lines, sendT, workT
<1>7. /\ auth' = "idle"
      /\ authAt' = NoSlot
      /\ blank' = NoSlot
  BY <1>1, <1>2, <1>4 DEF AuthGoesOn, Auth, TypeOK
<1>8. TypeOK'
  <2>1. auth' \in {"idle", "count", "join", "more", "out", "beat"}
    BY <1>1, <1>2, <1>4, <1>7 DEF TypeOK
  <2>2. authAt' \in Slots \cup {NoSlot}
    BY <1>1, <1>2, <1>4, <1>7 DEF TypeOK
  <2>3. blank' \in Slots \cup {NoSlot}
    BY <1>1, <1>2, <1>4, <1>7 DEF TypeOK
  <2>4. {authAt', blank', gameAt', sendAt'} \subseteq Slots \cup {NoSlot}
    BY <1>2, <1>5, <2>1, <2>2, <2>3
  <2> QED BY <1>1, <1>5, <2>1, <2>2, <2>3, <2>4 DEF TypeOK
<1>9. Bounded' /\ GameLeft' /\ Used'
  BY <1>1, <1>5 DEF Bounded, GameLeft, Used
<1>10. Indexed'
  BY <1>1, <1>5 DEF Indexed
<1>11. ThreadInv'
  BY <1>1, <1>2, <1>4, <1>5, <1>7 DEF ThreadInv
<1>12. Steps'
  BY <1>1, <1>2, <1>4, <1>5, <1>7 DEF Steps, ThreadInv
<1>13. Counted'
  <2>1. /\ Counted /\ authCount \in Nat /\ gameCount \in Nat /\ total \in Nat /\ taken \in Nat
        /\ Cardinality(In(mode, AuthModes)) \in Nat /\ Cardinality(In(mode, GameModes)) \in Nat
             /\ Cardinality(In(mode, SomeModes)) \in Nat
    BY <1>1, ConstantsOK, InNat DEF TypeOK
  <2>2. mode' = mode /\ auth' = "idle" /\ game' = game /\ authCount' = authCount
        /\ gameCount' = gameCount /\ total' = total /\ taken' = taken /\ auth = "more"
    BY <1>4, <1>5, <1>7
  <2> QED BY <2>1, <2>2 DEF Counted, One
<1>14. ASSUME NEW r \in Slots PROVE IOAt(r)'
  <2>3. Handled(workAt', work', r) = Handled(workAt, work, r)
            /\ Recving(workAt', work', r) = Recving(workAt, work, r)
    BY <1>5
  <2>5. Pending(r)' = Pending(r)
    BY <1>5 DEF Pending
  <2>6. IOAt(r) /\ IONat(r)
    BY <1>1, <1>2
  <2>7. ioCount'[r] = Pending(r)' + Cardinality(Handled(workAt', work', r)) + Cardinality(Recving(workAt', work', r))
                     + One(sendAt' = r /\ send' \in {"peek", "post", "fail"}) + One(authAt' = r /\ auth' = "join")
    <3>1. /\ NoSlot \notin Slots /\ auth' = "idle" /\ authAt' = NoSlot /\ send' = send /\ sendAt' = sendAt
          /\ auth = "more" /\ ioCount'[r] = ioCount[r]
      BY <1>2, <1>4, <1>5, <1>7
    <3> QED BY <1>1, <2>3, <2>5, <2>6, <3>1 DEF ThreadInv, IOAt, IONat, One
  <2> QED BY <2>7 DEF IOAt, Handled, Recving, One
<1>15. ASSUME NEW r \in Slots PROVE SlotInv(r)'
  <2>1. OneSend(r) /\ Empty(r) /\ Told(r) /\ Own(r) /\ Alone(r) /\ OneRecv(r) /\ Fresh(r) /\ Heard(r) /\ Ended(r)
    BY <1>1 DEF SlotInv
  <2>2. OneSend(r)' /\ Empty(r)' /\ Told(r)' /\ Own(r)'
    BY <1>5, <2>1 DEF OneSend, Sent, Empty, Told, Own
  <2>3. Alone(r)' /\ OneRecv(r)'
    BY <1>5, <2>1 DEF Alone, Clean, OneRecv, Recv
  <2>4. Fresh(r)'
    BY <1>1, <1>2, <1>4, <1>5, <1>7, <2>1 DEF Fresh, Clean, Joining, Posting, Quiet
  <2>5. Heard(r)'
    BY <1>1, <1>2, <1>4, <1>5, <1>7, <2>1 DEF Heard, Clean, Joining, Recv
  <2>6. Ended(r)'
    BY <1>1, <1>2, <1>4, <1>5, <1>7, <2>1 DEF Ended, Clean, Over, Quiet, Joining
  <2> QED BY <2>2, <2>3, <2>4, <2>5, <2>6 DEF SlotInv
<1> QED BY <1>8, <1>9, <1>10, <1>11, <1>12, <1>13, <1>14, <1>15 DEF IInv

LEMMA AuthPacketStep ==
  ASSUME ConstantsOK, IInv, NEW s \in Slots, AuthPacket(s), ~down', NEW chosen \in BOOLEAN,
         toGame' = [toGame EXCEPT ![s] = @ \/ chosen]
  PROVE  IInv'
<1>1. /\ TypeOK /\ ThreadInv /\ Bounded /\ GameLeft /\ Used /\ Steps /\ Counted /\ Indexed
      /\ \A r \in Slots : IOAt(r) /\ SlotInv(r)
  BY DEF IInv
<1>2. /\ {authAt, blank, gameAt, sendAt} \subseteq Slots \cup {NoSlot} /\ NoSlot \notin Slots /\ NoConn \notin Conns
      /\ \A r \in Slots : (mode[r] # "NONE" <=> info[r] # NoConn) /\ (mode[r] # "NONE" <=> info[r] \in Conns)
  BY <1>1, StateTypes
<1>3. /\ s \in Slots /\ IOAt(s) /\ OneSend(s) /\ Empty(s) /\ Told(s) /\ Own(s)
      /\ Alone(s) /\ OneRecv(s) /\ Fresh(s) /\ Heard(s) /\ Ended(s)
  BY <1>1 DEF SlotInv
<1>4. auth = "idle" /\ mode[s] = "AUTH" /\ info[s] \in Conns /\ inbox[s] > 0
  BY <1>1, <1>2, <1>3 DEF AuthPacket, SendPacket, Crash, Steps, Used, ThreadInv
<1>5. UNCHANGED <<sock, queue, mode, info, free, authCount, gameCount, total, told, sending,
        sendCount, ioCount, io, left, logout, stuck, auth, authAt, blank, game, gameAt, send, sendAt,
        toSend, work, workAt, heirs, taken, down>>
  BY DEF AuthPacket, SendPacket, Crash, authT, conns, flow, gameT, got, lines, sendT, workT
<1>6. /\ inbox' = [inbox EXCEPT ![s] = inbox[s] - 1]
      /\ sendQ' = [sendQ EXCEPT ![s] = IF Len(sendQ[s]) < MaxOut THEN Append(sendQ[s], info[s]) ELSE sendQ[s]]
      /\ toGame' = [toGame EXCEPT ![s] = toGame[s] \/ chosen]
  BY DEF AuthPacket, SendPacket, Crash
<1>7. /\ inbox'[s] = (inbox[s] - 1) /\ \A x \in Slots : x # s => inbox'[x] = inbox[x]
      /\ sendQ'[s] = (IF Len(sendQ[s]) < MaxOut THEN Append(sendQ[s], info[s]) ELSE sendQ[s])
           /\ \A x \in Slots : x # s => sendQ'[x] = sendQ[x]
      /\ toGame'[s] = (toGame[s] \/ chosen) /\ \A x \in Slots : x # s => toGame'[x] = toGame[x]
  BY <1>1, <1>2, <1>3, <1>4, <1>6 DEF AuthPacket, SendPacket, Crash, TypeOK
<1>8. /\ sendQ'[s] \in Seq(Conns) /\ Len(sendQ'[s]) <= MaxOut
      /\ \A i \in DOMAIN sendQ'[s] : sendQ'[s][i] = info[s]
  <2>1. sendQ[s] \in Seq(Conns) /\ Len(sendQ[s]) <= MaxOut /\ \A i \in DOMAIN sendQ[s] : sendQ[s][i] = info[s]
    BY <1>1, <1>3 DEF TypeOK, Bounded, Own
  <2>2. sendQ'[s] = IF Len(sendQ[s]) < MaxOut THEN Append(sendQ[s], info[s]) ELSE sendQ[s]
    BY <1>7
  <2>3. info[s] \in Conns
    BY <1>4
  <2> QED BY <2>1, <2>2, <2>3, ConstantsOK, PacketQueued
<1>9. TypeOK'
  <2>1. inbox' \in [Slots -> 0..MaxIn]
    <3>1. inbox \in [Slots -> 0..MaxIn]
      BY <1>1 DEF TypeOK
    <3> QED BY <1>2, <1>3, <1>4, <1>6, <3>1, <1>8, ConstantsOK DEF ConstantsOK
  <2>2. sendQ' \in [Slots -> Seq(Conns)]
    BY <1>1, <1>2, <1>3, <1>4, <1>6, <1>8 DEF TypeOK
  <2>3. toGame' \in [Slots -> BOOLEAN]
    BY <1>1, <1>2, <1>3, <1>4, <1>6, <1>8 DEF TypeOK
  <2> QED BY <1>1, <1>5, <2>1, <2>2, <2>3 DEF TypeOK
<1>10. ThreadInv' /\ GameLeft' /\ Used'
  BY <1>1, <1>5 DEF ThreadInv, GameLeft, Used
<1>11. Indexed'
  BY <1>1, <1>5 DEF Indexed
<1>12. Counted'
  BY <1>1, <1>5 DEF Counted
<1>13. Bounded'
  BY <1>1, <1>2, <1>3, <1>4, <1>5, <1>7, <1>8 DEF Bounded
<1>14. Steps'
  BY <1>1, <1>2, <1>3, <1>4, <1>5, <1>7, <1>8 DEF Steps, ThreadInv
<1>15. ASSUME NEW r \in Slots PROVE IOAt(r)'
  <2>1. /\ Pending(r)' = Pending(r) /\ Handled(workAt', work', r) = Handled(workAt, work, r)
        /\ Recving(workAt', work', r) = Recving(workAt, work, r)
    BY <1>5 DEF Pending
  <2>2. IOAt(r)
    BY <1>1
  <2> QED BY <1>5, <2>1, <2>2 DEF IOAt, Handled, Recving, One
<1>16. ASSUME NEW r \in Slots PROVE SlotInv(r)'
  <2>1. OneSend(r) /\ Empty(r) /\ Told(r) /\ Own(r) /\ Alone(r) /\ OneRecv(r) /\ Fresh(r) /\ Heard(r) /\ Ended(r)
    BY <1>1 DEF SlotInv
  <2>2. OneSend(r)' /\ Told(r)' /\ Alone(r)' /\ OneRecv(r)'
    BY <1>5, <2>1 DEF OneSend, Sent, Told, Alone, Clean, OneRecv, Recv
  <2>3. Heard(r)' /\ Ended(r)'
    BY <1>5, <2>1 DEF Heard, Clean, Joining, Recv, Ended, Over, Quiet
  <2>4. Empty(r)'
    BY <1>1, <1>2, <1>3, <1>4, <1>5, <1>7, <1>8, <2>1 DEF Empty
  <2>5. Own(r)'
    BY <1>1, <1>2, <1>3, <1>4, <1>5, <1>7, <1>8, <2>1 DEF Own
  <2>6. Fresh(r)'
    BY <1>1, <1>2, <1>3, <1>4, <1>5, <1>7, <1>8, <2>1 DEF Fresh, Clean, Joining, Posting, Quiet, Steps
  <2> QED BY <2>2, <2>3, <2>4, <2>5, <2>6 DEF SlotInv
<1> QED BY <1>9, <1>10, <1>11, <1>12, <1>13, <1>14, <1>15, <1>16 DEF IInv

LEMMA AuthCheckStep ==
  ASSUME ConstantsOK, IInv, NEW s \in Slots, AuthCheck(s)
  PROVE  IInv'
<1>1. /\ TypeOK /\ ThreadInv /\ Bounded /\ GameLeft /\ Used /\ Steps /\ Counted /\ Indexed
      /\ \A r \in Slots : IOAt(r) /\ SlotInv(r)
  BY DEF IInv
<1>2. /\ {authAt, blank, gameAt, sendAt} \subseteq Slots \cup {NoSlot} /\ NoSlot \notin Slots /\ NoConn \notin Conns
      /\ \A r \in Slots : (mode[r] # "NONE" <=> info[r] # NoConn) /\ (mode[r] # "NONE" <=> info[r] \in Conns)
      /\ \A r \in Slots : IONat(r)
  BY <1>1, StateTypes
<1>3. /\ s \in Slots /\ IOAt(s) /\ OneSend(s) /\ Empty(s) /\ Told(s) /\ Own(s)
      /\ Alone(s) /\ OneRecv(s) /\ Fresh(s) /\ Heard(s) /\ Ended(s)
  BY <1>1 DEF SlotInv
<1>4. auth = "idle" /\ mode[s] = "AUTH" /\ logout[s]
  BY <1>1, <1>2, <1>3 DEF AuthCheck, Auth, MayLeave, Steps, Used, ThreadInv
<1>5. UNCHANGED <<sock, queue, mode, info, toGame, inbox, free, authCount, gameCount, total, told,
        sendQ, sending, sendCount, ioCount, io, left, logout, stuck, blank, game, gameAt, send,
        sendAt, toSend, work, workAt, heirs, taken, down>>
  BY DEF AuthCheck, Auth, MayLeave, conns, flow, gameT, got, lines, sendT, workT
<1>7. /\ auth' = "out"
      /\ authAt' = s
  BY <1>1, <1>2, <1>3, <1>4 DEF AuthCheck, Auth, MayLeave, TypeOK
<1>8. TypeOK'
  <2>1. auth' \in {"idle", "count", "join", "more", "out", "beat"}
    BY <1>1, <1>2, <1>3, <1>4, <1>7 DEF TypeOK
  <2>2. authAt' \in Slots \cup {NoSlot}
    BY <1>1, <1>2, <1>3, <1>4, <1>7 DEF TypeOK
  <2>3. {authAt', blank', gameAt', sendAt'} \subseteq Slots \cup {NoSlot}
    BY <1>2, <1>5, <2>1, <2>2
  <2> QED BY <1>1, <1>5, <2>1, <2>2, <2>3 DEF TypeOK
<1>9. Bounded' /\ GameLeft' /\ Used'
  BY <1>1, <1>5 DEF Bounded, GameLeft, Used
<1>10. Indexed'
  BY <1>1, <1>5 DEF Indexed
<1>11. ThreadInv'
  BY <1>1, <1>2, <1>3, <1>4, <1>5, <1>7 DEF ThreadInv
<1>12. Steps'
  BY <1>1, <1>2, <1>3, <1>4, <1>5, <1>7 DEF Steps, ThreadInv
<1>13. Counted'
  <2>1. /\ Counted /\ authCount \in Nat /\ gameCount \in Nat /\ total \in Nat /\ taken \in Nat
        /\ Cardinality(In(mode, AuthModes)) \in Nat /\ Cardinality(In(mode, GameModes)) \in Nat
             /\ Cardinality(In(mode, SomeModes)) \in Nat
    BY <1>1, ConstantsOK, InNat DEF TypeOK
  <2>2. mode' = mode /\ auth' = "out" /\ game' = game /\ authCount' = authCount
        /\ gameCount' = gameCount /\ total' = total /\ taken' = taken /\ auth = "idle"
    BY <1>4, <1>5, <1>7
  <2> QED BY <2>1, <2>2 DEF Counted, One
<1>14. ASSUME NEW r \in Slots PROVE IOAt(r)'
  <2>3. Handled(workAt', work', r) = Handled(workAt, work, r)
            /\ Recving(workAt', work', r) = Recving(workAt, work, r)
    BY <1>5
  <2>5. Pending(r)' = Pending(r)
    BY <1>5 DEF Pending
  <2>6. IOAt(r) /\ IONat(r)
    BY <1>1, <1>2
  <2>7. ioCount'[r] = Pending(r)' + Cardinality(Handled(workAt', work', r)) + Cardinality(Recving(workAt', work', r))
                     + One(sendAt' = r /\ send' \in {"peek", "post", "fail"}) + One(authAt' = r /\ auth' = "join")
    <3>1. /\ NoSlot \notin Slots /\ auth' = "out" /\ authAt' = s /\ send' = send /\ sendAt' = sendAt
          /\ auth = "idle" /\ ioCount'[r] = ioCount[r]
      BY <1>2, <1>4, <1>5, <1>7
    <3> QED BY <1>1, <1>3, <2>3, <2>5, <2>6, <3>1 DEF ThreadInv, IOAt, IONat, One
  <2> QED BY <2>7 DEF IOAt, Handled, Recving, One
<1>15. ASSUME NEW r \in Slots PROVE SlotInv(r)'
  <2>1. OneSend(r) /\ Empty(r) /\ Told(r) /\ Own(r) /\ Alone(r) /\ OneRecv(r) /\ Fresh(r) /\ Heard(r) /\ Ended(r)
    BY <1>1 DEF SlotInv
  <2>2. OneSend(r)' /\ Empty(r)' /\ Told(r)' /\ Own(r)'
    BY <1>5, <2>1 DEF OneSend, Sent, Empty, Told, Own
  <2>3. Alone(r)' /\ OneRecv(r)'
    BY <1>5, <2>1 DEF Alone, Clean, OneRecv, Recv
  <2>4. Fresh(r)'
    BY <1>1, <1>2, <1>3, <1>4, <1>5, <1>7, <2>1 DEF Fresh, Clean, Joining, Posting, Quiet
  <2>5. Heard(r)'
    BY <1>1, <1>2, <1>3, <1>4, <1>5, <1>7, <2>1 DEF Heard, Clean, Joining, Recv
  <2>6. Ended(r)'
    BY <1>1, <1>2, <1>3, <1>4, <1>5, <1>7, <2>1 DEF Ended, Clean, Over, Quiet, Joining
  <2> QED BY <2>2, <2>3, <2>4, <2>5, <2>6 DEF SlotInv
<1> QED BY <1>8, <1>9, <1>10, <1>11, <1>12, <1>13, <1>14, <1>15 DEF IInv

LEMMA AuthOutStep ==
  ASSUME ConstantsOK, IInv, AuthOut
  PROVE  IInv'
<1>1. /\ TypeOK /\ ThreadInv /\ Bounded /\ GameLeft /\ Used /\ Steps /\ Counted /\ Indexed
      /\ \A r \in Slots : IOAt(r) /\ SlotInv(r)
  BY DEF IInv
<1>2. /\ {authAt, blank, gameAt, sendAt} \subseteq Slots \cup {NoSlot} /\ NoSlot \notin Slots /\ NoConn \notin Conns
      /\ \A r \in Slots : (mode[r] # "NONE" <=> info[r] # NoConn) /\ (mode[r] # "NONE" <=> info[r] \in Conns)
      /\ \A r \in Slots : IONat(r)
  BY <1>1, StateTypes
<1>3. /\ authAt \in Slots /\ IOAt(authAt) /\ OneSend(authAt) /\ Empty(authAt) /\ Told(authAt) /\ Own(authAt)
      /\ Alone(authAt) /\ OneRecv(authAt) /\ Fresh(authAt) /\ Heard(authAt) /\ Ended(authAt)
  <2>1. authAt \in Slots
    BY <1>1, <1>2 DEF AuthOut, SetMode, Auth, ThreadInv
  <2> QED BY <1>1, <2>1 DEF SlotInv
<1>4. auth = "out" /\ mode[authAt] = "AUTH" /\ logout[authAt]
  BY <1>1, <1>2, <1>3 DEF AuthOut, SetMode, Auth, Steps, Used, ThreadInv
<1>5. UNCHANGED <<sock, queue, info, toGame, inbox, free, authCount, gameCount, total, told, sendQ,
        sending, sendCount, ioCount, io, left, logout, stuck, blank, game, gameAt, send, sendAt,
        toSend, work, workAt, heirs, taken, down>>
  BY DEF AuthOut, SetMode, Auth, conns, gameT, got, lines, sendT, workT
<1>6. mode' = [mode EXCEPT ![authAt] = "LOGOUT_IN_AUTH"]
  BY DEF AuthOut, SetMode, Auth
<1>7. /\ mode'[authAt] = "LOGOUT_IN_AUTH" /\ \A x \in Slots : x # authAt => mode'[x] = mode[x]
      /\ auth' = "idle"
      /\ authAt' = NoSlot
  BY <1>1, <1>2, <1>3, <1>4, <1>6 DEF AuthOut, SetMode, Auth, TypeOK
<1>8. \A x \in Slots : Clean(x)' => Clean(x)
  BY <1>1, <1>2, <1>3, <1>4, <1>5, <1>7 DEF Clean
<1>9. TypeOK'
  <2>1. mode' \in [Slots -> Modes]
    BY <1>1, <1>2, <1>3, <1>4, <1>6 DEF TypeOK, Modes
  <2>2. auth' \in {"idle", "count", "join", "more", "out", "beat"}
    BY <1>1, <1>2, <1>3, <1>4, <1>7 DEF TypeOK
  <2>3. authAt' \in Slots \cup {NoSlot}
    BY <1>1, <1>2, <1>3, <1>4, <1>7 DEF TypeOK
  <2>4. {authAt', blank', gameAt', sendAt'} \subseteq Slots \cup {NoSlot}
    BY <1>2, <1>5, <2>1, <2>2, <2>3
  <2> QED BY <1>1, <1>5, <2>1, <2>2, <2>3, <2>4 DEF TypeOK
<1>10. Bounded' /\ GameLeft'
  BY <1>1, <1>5 DEF Bounded, GameLeft
<1>11. ThreadInv'
  BY <1>1, <1>2, <1>3, <1>4, <1>5, <1>7 DEF ThreadInv
<1>12. Used'
  BY <1>1, <1>2, <1>3, <1>4, <1>5, <1>7 DEF Used
<1>13. Steps'
  BY <1>1, <1>2, <1>3, <1>4, <1>5, <1>7 DEF Steps, ThreadInv
<1>14. Counted'
  <2>1. ASSUME NEW ms
        PROVE  /\ Cardinality(In(mode, ms)) \in Nat
               /\ mode'[authAt] \in ms /\ ~(mode[authAt] \in ms)
                    => Cardinality(In(mode', ms)) = Cardinality(In(mode, ms)) + 1
               /\ mode[authAt] \in ms /\ ~(mode'[authAt] \in ms)
                    => Cardinality(In(mode', ms)) = Cardinality(In(mode, ms)) - 1
               /\ mode'[authAt] \in ms /\ mode[authAt] \in ms
                    => Cardinality(In(mode', ms)) = Cardinality(In(mode, ms))
               /\ ~(mode'[authAt] \in ms) /\ ~(mode[authAt] \in ms)
                    => Cardinality(In(mode', ms)) = Cardinality(In(mode, ms))
    BY <1>3, <1>7, ConstantsOK, ModeStep
  <2>2. /\ (mode'[authAt] \in AuthModes <=> TRUE) /\ (mode[authAt] \in AuthModes <=> TRUE)
        /\ (mode'[authAt] \in GameModes <=> FALSE) /\ (mode[authAt] \in GameModes <=> FALSE)
        /\ (mode'[authAt] \in SomeModes <=> TRUE) /\ (mode[authAt] \in SomeModes <=> TRUE)
    BY <1>4, <1>7 DEF Modes, AuthModes, GameModes, SomeModes
  <2>3. /\ Cardinality(In(mode', AuthModes)) = Cardinality(In(mode, AuthModes))
        /\ Cardinality(In(mode', GameModes)) = Cardinality(In(mode, GameModes))
        /\ Cardinality(In(mode', SomeModes)) = Cardinality(In(mode, SomeModes))
        /\ Cardinality(In(mode, AuthModes)) \in Nat
        /\ Cardinality(In(mode, GameModes)) \in Nat
        /\ Cardinality(In(mode, SomeModes)) \in Nat
    BY <2>1, <2>2
  <2>4. /\ Counted /\ authCount \in Nat /\ gameCount \in Nat /\ total \in Nat /\ taken \in Nat
        /\ auth' = "idle" /\ game' = game /\ authCount' = authCount /\ gameCount' = gameCount
        /\ total' = total /\ taken' = taken /\ auth = "out"
    BY <1>1, <1>4, <1>5, <1>7 DEF TypeOK
  <2>5. /\ One(auth' \in {"count", "join"}) = 0 /\ One(auth \in {"count", "join"}) = 0
        /\ One(game' = "push") = One(game = "push") /\ One(game = "push") \in Nat
    BY <2>4 DEF One
  <2>6. authCount' = Cardinality(In(mode', AuthModes)) - One(auth' \in {"count", "join"}) + taken'
    BY <2>3, <2>4, <2>5 DEF Counted
  <2>7. gameCount' = Cardinality(In(mode', GameModes))
    BY <2>3, <2>4 DEF Counted
  <2>8. total' = Cardinality(In(mode', SomeModes)) - One(auth' \in {"count", "join"}) + One(game' = "push") + taken'
    BY <2>3, <2>4, <2>5 DEF Counted
  <2> QED BY <2>6, <2>7, <2>8 DEF Counted
<1>15. Indexed'
  <2>1. \A x \in Slots : mode'[x] = "NONE" <=> mode[x] = "NONE"
    BY <1>3, <1>4, <1>7
  <2>2. free' = free /\ (gameAt' = gameAt \/ (gameAt' = NoSlot /\ \A x \in Slots : mode[x] = "NONE" => x # gameAt))
    BY <1>2, <1>4, <1>5, <1>7
  <2>3. \A i \in DOMAIN free : mode'[free[i]] = "NONE" /\ free[i] # gameAt'
    <3>1. \A i \in DOMAIN free : mode[free[i]] = "NONE" /\ free[i] # gameAt /\ free[i] \in Slots
      <4>1. free \in Seq(Slots) /\ Indexed
        BY <1>1 DEF TypeOK
      <4> QED BY <4>1 DEF Indexed
    <3> QED BY <2>1, <2>2, <3>1
  <2>4. \A x \in Slots : mode'[x] = "NONE" /\ x # gameAt' => mode[x] = "NONE" /\ x # gameAt
    BY <2>1, <2>2
  <2> QED BY <1>1, <2>2, <2>3, <2>4 DEF Indexed
<1>16. ASSUME NEW r \in Slots PROVE IOAt(r)'
  <2>3. Handled(workAt', work', r) = Handled(workAt, work, r)
            /\ Recving(workAt', work', r) = Recving(workAt, work, r)
    BY <1>5
  <2>5. Pending(r)' = Pending(r)
    BY <1>5 DEF Pending
  <2>6. IOAt(r) /\ IONat(r)
    BY <1>1, <1>2
  <2>7. ioCount'[r] = Pending(r)' + Cardinality(Handled(workAt', work', r)) + Cardinality(Recving(workAt', work', r))
                     + One(sendAt' = r /\ send' \in {"peek", "post", "fail"}) + One(authAt' = r /\ auth' = "join")
    <3>1. /\ NoSlot \notin Slots /\ auth' = "idle" /\ authAt' = NoSlot /\ send' = send /\ sendAt' = sendAt
          /\ auth = "out" /\ ioCount'[r] = ioCount[r]
      BY <1>2, <1>4, <1>5, <1>7
    <3> QED BY <1>1, <1>3, <2>3, <2>5, <2>6, <3>1 DEF ThreadInv, IOAt, IONat, One
  <2> QED BY <2>7 DEF IOAt, Handled, Recving, One
<1>17. ASSUME NEW r \in Slots PROVE SlotInv(r)'
  <2>1. OneSend(r) /\ Empty(r) /\ Told(r) /\ Own(r) /\ Alone(r) /\ OneRecv(r) /\ Fresh(r) /\ Heard(r) /\ Ended(r)
    BY <1>1 DEF SlotInv
  <2>2. OneSend(r)' /\ Own(r)'
    BY <1>5, <2>1 DEF OneSend, Sent, Own
  <2>3. Empty(r)'
    BY <1>1, <1>2, <1>3, <1>4, <1>5, <1>7, <1>8, <2>1 DEF Empty
  <2>4. Told(r)'
    BY <1>1, <1>2, <1>3, <1>4, <1>5, <1>7, <1>8, <2>1 DEF Told
  <2>5. Alone(r)'
    BY <1>1, <1>2, <1>3, <1>4, <1>5, <1>7, <1>8, <2>1 DEF Alone, Clean
  <2>6. OneRecv(r)'
    BY <1>1, <1>2, <1>3, <1>4, <1>5, <1>7, <1>8, <2>1 DEF OneRecv, Clean, Recv
  <2>7. Fresh(r)'
    BY <1>1, <1>2, <1>3, <1>4, <1>5, <1>7, <1>8, <2>1 DEF Fresh, Clean, Joining, Posting, Quiet
  <2>8. Heard(r)'
    BY <1>1, <1>2, <1>3, <1>4, <1>5, <1>7, <1>8, <2>1 DEF Heard, Clean, Joining, Recv
  <2>9. Ended(r)'
    BY <1>1, <1>2, <1>3, <1>4, <1>5, <1>7, <1>8, <2>1 DEF Ended, Clean, Over, Quiet, Joining
  <2> QED BY <2>2, <2>3, <2>4, <2>5, <2>6, <2>7, <2>8, <2>9 DEF SlotInv
<1> QED BY <1>9, <1>10, <1>11, <1>12, <1>13, <1>14, <1>15, <1>16, <1>17 DEF IInv

LEMMA AuthLeaveStep ==
  ASSUME ConstantsOK, IInv, NEW s \in Slots, AuthLeave(s)
  PROVE  IInv'
<1>1. /\ TypeOK /\ ThreadInv /\ Bounded /\ GameLeft /\ Used /\ Steps /\ Counted /\ Indexed
      /\ \A r \in Slots : IOAt(r) /\ SlotInv(r)
  BY DEF IInv
<1>2. /\ {authAt, blank, gameAt, sendAt} \subseteq Slots \cup {NoSlot} /\ NoSlot \notin Slots /\ NoConn \notin Conns
      /\ \A r \in Slots : (mode[r] # "NONE" <=> info[r] # NoConn) /\ (mode[r] # "NONE" <=> info[r] \in Conns)
  BY <1>1, StateTypes
<1>3. /\ s \in Slots /\ IOAt(s) /\ OneSend(s) /\ Empty(s) /\ Told(s) /\ Own(s)
      /\ Alone(s) /\ OneRecv(s) /\ Fresh(s) /\ Heard(s) /\ Ended(s)
  BY <1>1 DEF SlotInv
<1>4. auth = "idle" /\ mode[s] = "LOGOUT_IN_AUTH"
  BY <1>1, <1>2, <1>3 DEF AuthLeave, AuthLets, SetMode, Steps, Used, ThreadInv
<1>5. UNCHANGED <<sock, queue, info, toGame, inbox, free, gameCount, total, told, sendQ, sending,
        sendCount, ioCount, io, left, logout, stuck, auth, authAt, blank, game, gameAt, send, sendAt,
        toSend, work, workAt, heirs, taken, down>>
  BY DEF AuthLeave, AuthLets, SetMode, authT, conns, gameT, got, lines, sendT, workT
<1>6. mode' = [mode EXCEPT ![s] = "WAIT_LOGOUT"]
  BY DEF AuthLeave, AuthLets, SetMode
<1>7. /\ mode'[s] = "WAIT_LOGOUT" /\ \A x \in Slots : x # s => mode'[x] = mode[x]
      /\ authCount' = authCount - 1
  BY <1>1, <1>2, <1>3, <1>4, <1>6 DEF AuthLeave, AuthLets, SetMode, TypeOK
<1>8. \A x \in Slots : Clean(x)' => Clean(x)
  BY <1>1, <1>2, <1>3, <1>4, <1>5, <1>7 DEF Clean
<1>9. TypeOK'
  <2>1. mode' \in [Slots -> Modes]
    BY <1>1, <1>2, <1>3, <1>4, <1>6 DEF TypeOK, Modes
  <2>2. authCount' \in Nat
    <3>1. authCount \in Nat /\ taken \in Nat /\ authCount' = authCount - 1
      BY <1>1, <1>7 DEF TypeOK
    <3>2. authCount > 0
      <4>1. Cardinality(In(mode, AuthModes)) > 0 /\ Cardinality(In(mode, AuthModes)) \in Nat
        BY <1>1, <1>2, <1>3, <1>4, ConstantsOK, InNat DEF AuthModes, GameModes, SomeModes, Modes, Steps, ThreadInv
      <4> QED BY <1>1, <1>4, <3>1, <4>1 DEF Counted, One, ThreadInv
    <3> QED BY <3>1, <3>2
  <2> QED BY <1>1, <1>5, <2>1, <2>2 DEF TypeOK
<1>10. ThreadInv' /\ Bounded' /\ GameLeft'
  BY <1>1, <1>5 DEF ThreadInv, Bounded, GameLeft
<1>11. Used'
  BY <1>1, <1>2, <1>3, <1>4, <1>5, <1>7 DEF Used
<1>12. Steps'
  BY <1>1, <1>2, <1>3, <1>4, <1>5, <1>7 DEF Steps, ThreadInv
<1>13. Counted'
  <2>1. ASSUME NEW ms
        PROVE  /\ Cardinality(In(mode, ms)) \in Nat
               /\ mode'[s] \in ms /\ ~(mode[s] \in ms) => Cardinality(In(mode', ms)) = Cardinality(In(mode, ms)) + 1
               /\ mode[s] \in ms /\ ~(mode'[s] \in ms) => Cardinality(In(mode', ms)) = Cardinality(In(mode, ms)) - 1
               /\ mode'[s] \in ms /\ mode[s] \in ms => Cardinality(In(mode', ms)) = Cardinality(In(mode, ms))
               /\ ~(mode'[s] \in ms) /\ ~(mode[s] \in ms) => Cardinality(In(mode', ms)) = Cardinality(In(mode, ms))
    BY <1>3, <1>7, ConstantsOK, ModeStep
  <2>2. /\ (mode'[s] \in AuthModes <=> FALSE) /\ (mode[s] \in AuthModes <=> TRUE)
        /\ (mode'[s] \in GameModes <=> FALSE) /\ (mode[s] \in GameModes <=> FALSE)
        /\ (mode'[s] \in SomeModes <=> TRUE) /\ (mode[s] \in SomeModes <=> TRUE)
    BY <1>4, <1>7 DEF Modes, AuthModes, GameModes, SomeModes
  <2>3. /\ Cardinality(In(mode', AuthModes)) = Cardinality(In(mode, AuthModes)) - 1
        /\ Cardinality(In(mode', GameModes)) = Cardinality(In(mode, GameModes))
        /\ Cardinality(In(mode', SomeModes)) = Cardinality(In(mode, SomeModes))
        /\ Cardinality(In(mode, AuthModes)) \in Nat
        /\ Cardinality(In(mode, GameModes)) \in Nat
        /\ Cardinality(In(mode, SomeModes)) \in Nat
    BY <2>1, <2>2
  <2>4. /\ Counted /\ authCount \in Nat /\ gameCount \in Nat /\ total \in Nat /\ taken \in Nat
        /\ auth' = auth /\ game' = game /\ authCount' = authCount - 1 /\ gameCount' = gameCount
        /\ total' = total /\ taken' = taken /\ auth = "idle"
    BY <1>1, <1>4, <1>5, <1>7 DEF TypeOK
  <2>5. /\ One(auth' \in {"count", "join"}) = One(auth \in {"count", "join"})
             /\ One(auth \in {"count", "join"}) \in Nat
        /\ One(game' = "push") = One(game = "push") /\ One(game = "push") \in Nat
    BY <2>4 DEF One
  <2>6. authCount' = Cardinality(In(mode', AuthModes)) - One(auth' \in {"count", "join"}) + taken'
    BY <2>3, <2>4, <2>5 DEF Counted
  <2>7. gameCount' = Cardinality(In(mode', GameModes))
    BY <2>3, <2>4 DEF Counted
  <2>8. total' = Cardinality(In(mode', SomeModes)) - One(auth' \in {"count", "join"}) + One(game' = "push") + taken'
    BY <2>3, <2>4, <2>5 DEF Counted
  <2> QED BY <2>6, <2>7, <2>8 DEF Counted
<1>14. Indexed'
  <2>1. \A x \in Slots : mode'[x] = "NONE" <=> mode[x] = "NONE"
    BY <1>3, <1>4, <1>7
  <2>2. free' = free /\ (gameAt' = gameAt \/ (gameAt' = NoSlot /\ \A x \in Slots : mode[x] = "NONE" => x # gameAt))
    BY <1>2, <1>4, <1>5, <1>7
  <2>3. \A i \in DOMAIN free : mode'[free[i]] = "NONE" /\ free[i] # gameAt'
    <3>1. \A i \in DOMAIN free : mode[free[i]] = "NONE" /\ free[i] # gameAt /\ free[i] \in Slots
      <4>1. free \in Seq(Slots) /\ Indexed
        BY <1>1 DEF TypeOK
      <4> QED BY <4>1 DEF Indexed
    <3> QED BY <2>1, <2>2, <3>1
  <2>4. \A x \in Slots : mode'[x] = "NONE" /\ x # gameAt' => mode[x] = "NONE" /\ x # gameAt
    BY <2>1, <2>2
  <2> QED BY <1>1, <2>2, <2>3, <2>4 DEF Indexed
<1>15. ASSUME NEW r \in Slots PROVE IOAt(r)'
  <2>1. /\ Pending(r)' = Pending(r) /\ Handled(workAt', work', r) = Handled(workAt, work, r)
        /\ Recving(workAt', work', r) = Recving(workAt, work, r)
    BY <1>5 DEF Pending
  <2>2. IOAt(r)
    BY <1>1
  <2> QED BY <1>5, <2>1, <2>2 DEF IOAt, Handled, Recving, One
<1>16. ASSUME NEW r \in Slots PROVE SlotInv(r)'
  <2>1. OneSend(r) /\ Empty(r) /\ Told(r) /\ Own(r) /\ Alone(r) /\ OneRecv(r) /\ Fresh(r) /\ Heard(r) /\ Ended(r)
    BY <1>1 DEF SlotInv
  <2>2. OneSend(r)' /\ Own(r)'
    BY <1>5, <2>1 DEF OneSend, Sent, Own
  <2>3. Empty(r)'
    BY <1>1, <1>2, <1>3, <1>4, <1>5, <1>7, <1>8, <2>1 DEF Empty
  <2>4. Told(r)'
    BY <1>1, <1>2, <1>3, <1>4, <1>5, <1>7, <1>8, <2>1 DEF Told
  <2>5. Alone(r)'
    BY <1>1, <1>2, <1>3, <1>4, <1>5, <1>7, <1>8, <2>1 DEF Alone, Clean
  <2>6. OneRecv(r)'
    BY <1>1, <1>2, <1>3, <1>4, <1>5, <1>7, <1>8, <2>1 DEF OneRecv, Clean, Recv
  <2>7. Fresh(r)'
    BY <1>1, <1>2, <1>3, <1>4, <1>5, <1>7, <1>8, <2>1 DEF Fresh, Clean, Joining, Posting, Quiet
  <2>8. Heard(r)'
    BY <1>1, <1>2, <1>3, <1>4, <1>5, <1>7, <1>8, <2>1 DEF Heard, Clean, Joining, Recv
  <2>9. Ended(r)'
    BY <1>1, <1>2, <1>3, <1>4, <1>5, <1>7, <1>8, <2>1 DEF Ended, Clean, Over, Quiet, Joining
  <2> QED BY <2>2, <2>3, <2>4, <2>5, <2>6, <2>7, <2>8, <2>9 DEF SlotInv
<1> QED BY <1>9, <1>10, <1>11, <1>12, <1>13, <1>14, <1>15, <1>16 DEF IInv

LEMMA AuthToGameStep ==
  ASSUME ConstantsOK, IInv, NEW s \in Slots, AuthToGame(s)
  PROVE  IInv'
<1>1. /\ TypeOK /\ ThreadInv /\ Bounded /\ GameLeft /\ Used /\ Steps /\ Counted /\ Indexed
      /\ \A r \in Slots : IOAt(r) /\ SlotInv(r)
  BY DEF IInv
<1>2. /\ {authAt, blank, gameAt, sendAt} \subseteq Slots \cup {NoSlot} /\ NoSlot \notin Slots /\ NoConn \notin Conns
      /\ \A r \in Slots : (mode[r] # "NONE" <=> info[r] # NoConn) /\ (mode[r] # "NONE" <=> info[r] \in Conns)
  BY <1>1, StateTypes
<1>3. /\ s \in Slots /\ IOAt(s) /\ OneSend(s) /\ Empty(s) /\ Told(s) /\ Own(s)
      /\ Alone(s) /\ OneRecv(s) /\ Fresh(s) /\ Heard(s) /\ Ended(s)
  BY <1>1 DEF SlotInv
<1>4. auth = "idle" /\ mode[s] = "AUTH"
  BY <1>1, <1>2, <1>3 DEF AuthToGame, AuthLets, SetMode, Steps, Used, ThreadInv
<1>5. UNCHANGED <<sock, queue, info, toGame, inbox, free, gameCount, total, told, sendQ, sending,
        sendCount, ioCount, io, left, logout, stuck, auth, authAt, blank, game, gameAt, send, sendAt,
        toSend, work, workAt, heirs, taken, down>>
  BY DEF AuthToGame, AuthLets, SetMode, authT, conns, gameT, got, lines, sendT, workT
<1>6. mode' = [mode EXCEPT ![s] = "AUTH_TO_GAME"]
  BY DEF AuthToGame, AuthLets, SetMode
<1>7. /\ mode'[s] = "AUTH_TO_GAME" /\ \A x \in Slots : x # s => mode'[x] = mode[x]
      /\ authCount' = authCount - 1
  BY <1>1, <1>2, <1>3, <1>4, <1>6 DEF AuthToGame, AuthLets, SetMode, TypeOK
<1>8. \A x \in Slots : Clean(x)' => Clean(x)
  BY <1>1, <1>2, <1>3, <1>4, <1>5, <1>7 DEF Clean
<1>9. TypeOK'
  <2>1. mode' \in [Slots -> Modes]
    BY <1>1, <1>2, <1>3, <1>4, <1>6 DEF TypeOK, Modes
  <2>2. authCount' \in Nat
    <3>1. authCount \in Nat /\ taken \in Nat /\ authCount' = authCount - 1
      BY <1>1, <1>7 DEF TypeOK
    <3>2. authCount > 0
      <4>1. Cardinality(In(mode, AuthModes)) > 0 /\ Cardinality(In(mode, AuthModes)) \in Nat
        BY <1>1, <1>2, <1>3, <1>4, ConstantsOK, InNat DEF AuthModes, GameModes, SomeModes, Modes, Steps, ThreadInv
      <4> QED BY <1>1, <1>4, <3>1, <4>1 DEF Counted, One, ThreadInv
    <3> QED BY <3>1, <3>2
  <2> QED BY <1>1, <1>5, <2>1, <2>2 DEF TypeOK
<1>10. ThreadInv' /\ Bounded' /\ GameLeft'
  BY <1>1, <1>5 DEF ThreadInv, Bounded, GameLeft
<1>11. Used'
  BY <1>1, <1>2, <1>3, <1>4, <1>5, <1>7 DEF Used
<1>12. Steps'
  BY <1>1, <1>2, <1>3, <1>4, <1>5, <1>7 DEF Steps, ThreadInv
<1>13. Counted'
  <2>1. ASSUME NEW ms
        PROVE  /\ Cardinality(In(mode, ms)) \in Nat
               /\ mode'[s] \in ms /\ ~(mode[s] \in ms) => Cardinality(In(mode', ms)) = Cardinality(In(mode, ms)) + 1
               /\ mode[s] \in ms /\ ~(mode'[s] \in ms) => Cardinality(In(mode', ms)) = Cardinality(In(mode, ms)) - 1
               /\ mode'[s] \in ms /\ mode[s] \in ms => Cardinality(In(mode', ms)) = Cardinality(In(mode, ms))
               /\ ~(mode'[s] \in ms) /\ ~(mode[s] \in ms) => Cardinality(In(mode', ms)) = Cardinality(In(mode, ms))
    BY <1>3, <1>7, ConstantsOK, ModeStep
  <2>2. /\ (mode'[s] \in AuthModes <=> FALSE) /\ (mode[s] \in AuthModes <=> TRUE)
        /\ (mode'[s] \in GameModes <=> FALSE) /\ (mode[s] \in GameModes <=> FALSE)
        /\ (mode'[s] \in SomeModes <=> TRUE) /\ (mode[s] \in SomeModes <=> TRUE)
    BY <1>4, <1>7 DEF Modes, AuthModes, GameModes, SomeModes
  <2>3. /\ Cardinality(In(mode', AuthModes)) = Cardinality(In(mode, AuthModes)) - 1
        /\ Cardinality(In(mode', GameModes)) = Cardinality(In(mode, GameModes))
        /\ Cardinality(In(mode', SomeModes)) = Cardinality(In(mode, SomeModes))
        /\ Cardinality(In(mode, AuthModes)) \in Nat
        /\ Cardinality(In(mode, GameModes)) \in Nat
        /\ Cardinality(In(mode, SomeModes)) \in Nat
    BY <2>1, <2>2
  <2>4. /\ Counted /\ authCount \in Nat /\ gameCount \in Nat /\ total \in Nat /\ taken \in Nat
        /\ auth' = auth /\ game' = game /\ authCount' = authCount - 1 /\ gameCount' = gameCount
        /\ total' = total /\ taken' = taken /\ auth = "idle"
    BY <1>1, <1>4, <1>5, <1>7 DEF TypeOK
  <2>5. /\ One(auth' \in {"count", "join"}) = One(auth \in {"count", "join"})
             /\ One(auth \in {"count", "join"}) \in Nat
        /\ One(game' = "push") = One(game = "push") /\ One(game = "push") \in Nat
    BY <2>4 DEF One
  <2>6. authCount' = Cardinality(In(mode', AuthModes)) - One(auth' \in {"count", "join"}) + taken'
    BY <2>3, <2>4, <2>5 DEF Counted
  <2>7. gameCount' = Cardinality(In(mode', GameModes))
    BY <2>3, <2>4 DEF Counted
  <2>8. total' = Cardinality(In(mode', SomeModes)) - One(auth' \in {"count", "join"}) + One(game' = "push") + taken'
    BY <2>3, <2>4, <2>5 DEF Counted
  <2> QED BY <2>6, <2>7, <2>8 DEF Counted
<1>14. Indexed'
  <2>1. \A x \in Slots : mode'[x] = "NONE" <=> mode[x] = "NONE"
    BY <1>3, <1>4, <1>7
  <2>2. free' = free /\ (gameAt' = gameAt \/ (gameAt' = NoSlot /\ \A x \in Slots : mode[x] = "NONE" => x # gameAt))
    BY <1>2, <1>4, <1>5, <1>7
  <2>3. \A i \in DOMAIN free : mode'[free[i]] = "NONE" /\ free[i] # gameAt'
    <3>1. \A i \in DOMAIN free : mode[free[i]] = "NONE" /\ free[i] # gameAt /\ free[i] \in Slots
      <4>1. free \in Seq(Slots) /\ Indexed
        BY <1>1 DEF TypeOK
      <4> QED BY <4>1 DEF Indexed
    <3> QED BY <2>1, <2>2, <3>1
  <2>4. \A x \in Slots : mode'[x] = "NONE" /\ x # gameAt' => mode[x] = "NONE" /\ x # gameAt
    BY <2>1, <2>2
  <2> QED BY <1>1, <2>2, <2>3, <2>4 DEF Indexed
<1>15. ASSUME NEW r \in Slots PROVE IOAt(r)'
  <2>1. /\ Pending(r)' = Pending(r) /\ Handled(workAt', work', r) = Handled(workAt, work, r)
        /\ Recving(workAt', work', r) = Recving(workAt, work, r)
    BY <1>5 DEF Pending
  <2>2. IOAt(r)
    BY <1>1
  <2> QED BY <1>5, <2>1, <2>2 DEF IOAt, Handled, Recving, One
<1>16. ASSUME NEW r \in Slots PROVE SlotInv(r)'
  <2>1. OneSend(r) /\ Empty(r) /\ Told(r) /\ Own(r) /\ Alone(r) /\ OneRecv(r) /\ Fresh(r) /\ Heard(r) /\ Ended(r)
    BY <1>1 DEF SlotInv
  <2>2. OneSend(r)' /\ Own(r)'
    BY <1>5, <2>1 DEF OneSend, Sent, Own
  <2>3. Empty(r)'
    BY <1>1, <1>2, <1>3, <1>4, <1>5, <1>7, <1>8, <2>1 DEF Empty
  <2>4. Told(r)'
    BY <1>1, <1>2, <1>3, <1>4, <1>5, <1>7, <1>8, <2>1 DEF Told
  <2>5. Alone(r)'
    BY <1>1, <1>2, <1>3, <1>4, <1>5, <1>7, <1>8, <2>1 DEF Alone, Clean
  <2>6. OneRecv(r)'
    BY <1>1, <1>2, <1>3, <1>4, <1>5, <1>7, <1>8, <2>1 DEF OneRecv, Clean, Recv
  <2>7. Fresh(r)'
    BY <1>1, <1>2, <1>3, <1>4, <1>5, <1>7, <1>8, <2>1 DEF Fresh, Clean, Joining, Posting, Quiet
  <2>8. Heard(r)'
    BY <1>1, <1>2, <1>3, <1>4, <1>5, <1>7, <1>8, <2>1 DEF Heard, Clean, Joining, Recv
  <2>9. Ended(r)'
    BY <1>1, <1>2, <1>3, <1>4, <1>5, <1>7, <1>8, <2>1 DEF Ended, Clean, Over, Quiet, Joining
  <2> QED BY <2>2, <2>3, <2>4, <2>5, <2>6, <2>7, <2>8, <2>9 DEF SlotInv
<1> QED BY <1>9, <1>10, <1>11, <1>12, <1>13, <1>14, <1>15, <1>16 DEF IInv

LEMMA AuthBeatStep ==
  ASSUME ConstantsOK, IInv, NEW s \in Slots, AuthBeat(s)
  PROVE  IInv'
<1>1. /\ TypeOK /\ ThreadInv /\ Bounded /\ GameLeft /\ Used /\ Steps /\ Counted /\ Indexed
      /\ \A r \in Slots : IOAt(r) /\ SlotInv(r)
  BY DEF IInv
<1>2. /\ {authAt, blank, gameAt, sendAt} \subseteq Slots \cup {NoSlot} /\ NoSlot \notin Slots /\ NoConn \notin Conns
      /\ \A r \in Slots : (mode[r] # "NONE" <=> info[r] # NoConn) /\ (mode[r] # "NONE" <=> info[r] \in Conns)
      /\ \A r \in Slots : IONat(r)
  BY <1>1, StateTypes
<1>3. /\ s \in Slots /\ IOAt(s) /\ OneSend(s) /\ Empty(s) /\ Told(s) /\ Own(s)
      /\ Alone(s) /\ OneRecv(s) /\ Fresh(s) /\ Heard(s) /\ Ended(s)
  BY <1>1 DEF SlotInv
<1>4. auth = "idle" /\ mode[s] \in {"AUTH", "GAME"} /\ sock[info[s]] \in {"open", "reset"}
  BY <1>1, <1>2, <1>3 DEF AuthBeat, Accepted, Auth, Steps, Used, ThreadInv
<1>5. UNCHANGED <<sock, queue, mode, info, toGame, inbox, free, authCount, gameCount, total, told,
        sendQ, sending, sendCount, ioCount, io, left, logout, stuck, blank, game, gameAt, send,
        sendAt, toSend, work, workAt, heirs, taken, down>>
  BY DEF AuthBeat, Accepted, Auth, conns, flow, gameT, got, lines, sendT, workT
<1>7. /\ auth' = "beat"
      /\ authAt' = s
  BY <1>1, <1>2, <1>3, <1>4 DEF AuthBeat, Accepted, Auth, TypeOK
<1>8. TypeOK'
  <2>1. auth' \in {"idle", "count", "join", "more", "out", "beat"}
    BY <1>1, <1>2, <1>3, <1>4, <1>7 DEF TypeOK
  <2>2. authAt' \in Slots \cup {NoSlot}
    BY <1>1, <1>2, <1>3, <1>4, <1>7 DEF TypeOK
  <2>3. {authAt', blank', gameAt', sendAt'} \subseteq Slots \cup {NoSlot}
    BY <1>2, <1>5, <2>1, <2>2
  <2> QED BY <1>1, <1>5, <2>1, <2>2, <2>3 DEF TypeOK
<1>9. Bounded' /\ GameLeft' /\ Used'
  BY <1>1, <1>5 DEF Bounded, GameLeft, Used
<1>10. Indexed'
  BY <1>1, <1>5 DEF Indexed
<1>11. ThreadInv'
  BY <1>1, <1>2, <1>3, <1>4, <1>5, <1>7 DEF ThreadInv
<1>12. Steps'
  BY <1>1, <1>2, <1>3, <1>4, <1>5, <1>7 DEF Steps, ThreadInv
<1>13. Counted'
  <2>1. /\ Counted /\ authCount \in Nat /\ gameCount \in Nat /\ total \in Nat /\ taken \in Nat
        /\ Cardinality(In(mode, AuthModes)) \in Nat /\ Cardinality(In(mode, GameModes)) \in Nat
             /\ Cardinality(In(mode, SomeModes)) \in Nat
    BY <1>1, ConstantsOK, InNat DEF TypeOK
  <2>2. mode' = mode /\ auth' = "beat" /\ game' = game /\ authCount' = authCount
        /\ gameCount' = gameCount /\ total' = total /\ taken' = taken /\ auth = "idle"
    BY <1>4, <1>5, <1>7
  <2> QED BY <2>1, <2>2 DEF Counted, One
<1>14. ASSUME NEW r \in Slots PROVE IOAt(r)'
  <2>3. Handled(workAt', work', r) = Handled(workAt, work, r)
            /\ Recving(workAt', work', r) = Recving(workAt, work, r)
    BY <1>5
  <2>5. Pending(r)' = Pending(r)
    BY <1>5 DEF Pending
  <2>6. IOAt(r) /\ IONat(r)
    BY <1>1, <1>2
  <2>7. ioCount'[r] = Pending(r)' + Cardinality(Handled(workAt', work', r)) + Cardinality(Recving(workAt', work', r))
                     + One(sendAt' = r /\ send' \in {"peek", "post", "fail"}) + One(authAt' = r /\ auth' = "join")
    <3>1. /\ NoSlot \notin Slots /\ auth' = "beat" /\ authAt' = s /\ send' = send /\ sendAt' = sendAt
          /\ auth = "idle" /\ ioCount'[r] = ioCount[r]
      BY <1>2, <1>4, <1>5, <1>7
    <3> QED BY <1>1, <1>3, <2>3, <2>5, <2>6, <3>1 DEF ThreadInv, IOAt, IONat, One
  <2> QED BY <2>7 DEF IOAt, Handled, Recving, One
<1>15. ASSUME NEW r \in Slots PROVE SlotInv(r)'
  <2>1. OneSend(r) /\ Empty(r) /\ Told(r) /\ Own(r) /\ Alone(r) /\ OneRecv(r) /\ Fresh(r) /\ Heard(r) /\ Ended(r)
    BY <1>1 DEF SlotInv
  <2>2. OneSend(r)' /\ Empty(r)' /\ Told(r)' /\ Own(r)'
    BY <1>5, <2>1 DEF OneSend, Sent, Empty, Told, Own
  <2>3. Alone(r)' /\ OneRecv(r)'
    BY <1>5, <2>1 DEF Alone, Clean, OneRecv, Recv
  <2>4. Fresh(r)'
    BY <1>1, <1>2, <1>3, <1>4, <1>5, <1>7, <2>1 DEF Fresh, Clean, Joining, Posting, Quiet
  <2>5. Heard(r)'
    BY <1>1, <1>2, <1>3, <1>4, <1>5, <1>7, <2>1 DEF Heard, Clean, Joining, Recv
  <2>6. Ended(r)'
    BY <1>1, <1>2, <1>3, <1>4, <1>5, <1>7, <2>1 DEF Ended, Clean, Over, Quiet, Joining
  <2> QED BY <2>2, <2>3, <2>4, <2>5, <2>6 DEF SlotInv
<1> QED BY <1>8, <1>9, <1>10, <1>11, <1>12, <1>13, <1>14, <1>15 DEF IInv

LEMMA AuthShutStep ==
  ASSUME ConstantsOK, IInv, AuthShut
  PROVE  IInv'
<1>1. /\ TypeOK /\ ThreadInv /\ Bounded /\ GameLeft /\ Used /\ Steps /\ Counted /\ Indexed
      /\ \A r \in Slots : IOAt(r) /\ SlotInv(r)
  BY DEF IInv
<1>2. /\ {authAt, blank, gameAt, sendAt} \subseteq Slots \cup {NoSlot} /\ NoSlot \notin Slots /\ NoConn \notin Conns
      /\ (\A i \in DOMAIN queue : queue[i] \in Conns) /\ (\A i \in DOMAIN free : free[i] \in Slots)
      /\ \A r \in Slots : (mode[r] # "NONE" <=> info[r] # NoConn) /\ (mode[r] # "NONE" <=> info[r] \in Conns)
      /\ \A r \in Slots : IONat(r)
  BY <1>1, StateTypes
<1>3. /\ authAt \in Slots /\ IOAt(authAt) /\ OneSend(authAt) /\ Empty(authAt) /\ Told(authAt) /\ Own(authAt)
      /\ Alone(authAt) /\ OneRecv(authAt) /\ Fresh(authAt) /\ Heard(authAt) /\ Ended(authAt)
  <2>1. authAt \in Slots
    BY <1>1, <1>2 DEF AuthShut, Shut, Auth, ThreadInv
  <2> QED BY <1>1, <2>1 DEF SlotInv
<1>4. auth = "beat" /\ info[authAt] \in Conns
  BY <1>1, <1>2, <1>3 DEF AuthShut, Shut, Auth, Steps, Used, ThreadInv
<1>5. UNCHANGED <<queue, mode, info, toGame, inbox, free, authCount, gameCount, total, told, sendQ,
        sending, sendCount, ioCount, io, left, logout, stuck, blank, game, gameAt, send, sendAt,
        toSend, work, workAt, heirs, taken, down>>
  BY DEF AuthShut, Shut, Auth, flow, gameT, got, lines, sendT, workT
<1>6. sock' = [sock EXCEPT ![info[authAt]] = IF sock[info[authAt]] \in {"open", "reset"} THEN "shut"
          ELSE sock[info[authAt]]]
  BY DEF AuthShut, Shut, Auth
<1>7. /\ sock'[info[authAt]] = (IF sock[info[authAt]] \in {"open", "reset"} THEN "shut" ELSE sock[info[authAt]])
           /\ \A x \in Conns : x # info[authAt] => sock'[x] = sock[x]
      /\ auth' = "idle"
      /\ authAt' = NoSlot
  BY <1>1, <1>2, <1>3, <1>4, <1>6 DEF AuthShut, Shut, Auth, TypeOK
<1>8. ShutDown(sock, sock') /\ sock'[info[authAt]] \in {"shut", "closed", "none"}
  <2>1. \A x \in Conns : sock[x] \in {"none", "open", "reset", "shut", "closed"}
    BY <1>1 DEF TypeOK
  <2> QED BY <1>4, <1>7, <2>1 DEF ShutDown
<1>9. TypeOK'
  <2>1. sock' \in [Conns -> {"none", "open", "reset", "shut", "closed"}]
    BY <1>1, <1>2, <1>3, <1>4, <1>6, <1>8 DEF TypeOK
  <2>2. auth' \in {"idle", "count", "join", "more", "out", "beat"}
    BY <1>1, <1>2, <1>3, <1>4, <1>7, <1>8 DEF TypeOK
  <2>3. authAt' \in Slots \cup {NoSlot}
    BY <1>1, <1>2, <1>3, <1>4, <1>7, <1>8 DEF TypeOK
  <2>4. {authAt', blank', gameAt', sendAt'} \subseteq Slots \cup {NoSlot}
    BY <1>2, <1>5, <2>1, <2>2, <2>3
  <2> QED BY <1>1, <1>5, <2>1, <2>2, <2>3, <2>4 DEF TypeOK
<1>10. Bounded' /\ GameLeft' /\ Indexed'
  BY <1>1, <1>5 DEF Bounded, GameLeft, Indexed
<1>11. ThreadInv'
  BY <1>1, <1>2, <1>3, <1>4, <1>5, <1>7, <1>8 DEF ThreadInv
<1>12. Used'
  <2>1. \A x \in Conns : sock'[x] = "none" <=> sock[x] = "none"
    BY <1>8 DEF ShutDown
  <2>2. \A x \in heirs : x \in Conns
    BY <1>1 DEF TypeOK
  <2> QED BY <1>1, <1>2, <1>5, <2>1, <2>2 DEF Used
<1>13. Steps'
  BY <1>1, <1>2, <1>3, <1>4, <1>5, <1>7, <1>8 DEF Steps, ThreadInv
<1>14. Counted'
  <2>1. /\ Counted /\ authCount \in Nat /\ gameCount \in Nat /\ total \in Nat /\ taken \in Nat
        /\ Cardinality(In(mode, AuthModes)) \in Nat /\ Cardinality(In(mode, GameModes)) \in Nat
             /\ Cardinality(In(mode, SomeModes)) \in Nat
    BY <1>1, ConstantsOK, InNat DEF TypeOK
  <2>2. mode' = mode /\ auth' = "idle" /\ game' = game /\ authCount' = authCount
        /\ gameCount' = gameCount /\ total' = total /\ taken' = taken /\ auth = "beat"
    BY <1>4, <1>5, <1>7
  <2> QED BY <2>1, <2>2 DEF Counted, One
<1>15. ASSUME NEW r \in Slots PROVE IOAt(r)'
  <2>3. Handled(workAt', work', r) = Handled(workAt, work, r)
            /\ Recving(workAt', work', r) = Recving(workAt, work, r)
    BY <1>5
  <2>5. Pending(r)' = Pending(r)
    BY <1>5 DEF Pending
  <2>6. IOAt(r) /\ IONat(r)
    BY <1>1, <1>2
  <2>7. ioCount'[r] = Pending(r)' + Cardinality(Handled(workAt', work', r)) + Cardinality(Recving(workAt', work', r))
                     + One(sendAt' = r /\ send' \in {"peek", "post", "fail"}) + One(authAt' = r /\ auth' = "join")
    <3>1. /\ NoSlot \notin Slots /\ auth' = "idle" /\ authAt' = NoSlot /\ send' = send /\ sendAt' = sendAt
          /\ auth = "beat" /\ ioCount'[r] = ioCount[r]
      BY <1>2, <1>4, <1>5, <1>7
    <3> QED BY <1>1, <1>3, <2>3, <2>5, <2>6, <3>1 DEF ThreadInv, IOAt, IONat, One
  <2> QED BY <2>7 DEF IOAt, Handled, Recving, One
<1>16. ASSUME NEW r \in Slots PROVE SlotInv(r)'
  <2>1. OneSend(r) /\ Empty(r) /\ Told(r) /\ Own(r) /\ Alone(r) /\ OneRecv(r) /\ Fresh(r) /\ Heard(r) /\ Ended(r)
    BY <1>1 DEF SlotInv
  <2>2. OneSend(r)' /\ Empty(r)' /\ Told(r)' /\ Own(r)'
    BY <1>5, <2>1 DEF OneSend, Sent, Empty, Told, Own
  <2>3. Alone(r)' /\ OneRecv(r)'
    BY <1>5, <2>1 DEF Alone, Clean, OneRecv, Recv
  <2>4. Fresh(r)'
    BY <1>1, <1>2, <1>3, <1>4, <1>5, <1>7, <1>8, <2>1 DEF Fresh, Clean, Joining, Posting, Quiet
  <2>5. Heard(r)'
    BY <1>1, <1>2, <1>3, <1>4, <1>5, <1>7, <1>8, <2>1 DEF Heard, Clean, Joining, Recv, ShutDown
  <2>6. Ended(r)'
    BY <1>1, <1>2, <1>3, <1>4, <1>5, <1>7, <1>8, <2>1 DEF Ended, Clean, Over, Quiet, Joining, ShutDown
  <2> QED BY <2>2, <2>3, <2>4, <2>5, <2>6 DEF SlotInv
<1> QED BY <1>9, <1>10, <1>11, <1>12, <1>13, <1>14, <1>15, <1>16 DEF IInv

LEMMA GameJoinStep ==
  ASSUME ConstantsOK, IInv, NEW s \in Slots, GameJoin(s)
  PROVE  IInv'
<1>1. /\ TypeOK /\ ThreadInv /\ Bounded /\ GameLeft /\ Used /\ Steps /\ Counted /\ Indexed
      /\ \A r \in Slots : IOAt(r) /\ SlotInv(r)
  BY DEF IInv
<1>2. /\ {authAt, blank, gameAt, sendAt} \subseteq Slots \cup {NoSlot} /\ NoSlot \notin Slots /\ NoConn \notin Conns
      /\ (\A i \in DOMAIN queue : queue[i] \in Conns) /\ (\A i \in DOMAIN free : free[i] \in Slots)
      /\ \A r \in Slots : (mode[r] # "NONE" <=> info[r] # NoConn) /\ (mode[r] # "NONE" <=> info[r] \in Conns)
  BY <1>1, StateTypes
<1>3. /\ s \in Slots /\ IOAt(s) /\ OneSend(s) /\ Empty(s) /\ Told(s) /\ Own(s)
      /\ Alone(s) /\ OneRecv(s) /\ Fresh(s) /\ Heard(s) /\ Ended(s)
  BY <1>1 DEF SlotInv
<1>4. game = "idle" /\ mode[s] = "AUTH_TO_GAME" /\ info[s] \in Conns
  BY <1>1, <1>2, <1>3 DEF GameJoin, Tell, SetMode, SendPacket, Steps, Used, ThreadInv
<1>5. UNCHANGED <<sock, queue, info, toGame, inbox, free, authCount, total, sending, sendCount,
        ioCount, io, left, logout, stuck, auth, authAt, blank, game, gameAt, send, sendAt, toSend,
        work, workAt, heirs, taken, down>>
  BY DEF GameJoin, Tell, SetMode, SendPacket, authT, conns, gameT, got, sendT, workT
<1>6. /\ told' = [told EXCEPT ![info[s]] = told[info[s]] \cup {"game join"}]
      /\ sendQ' = [sendQ EXCEPT ![s] = IF Len(sendQ[s]) < MaxOut THEN Append(sendQ[s], info[s]) ELSE sendQ[s]]
      /\ mode' = [mode EXCEPT ![s] = "GAME"]
  BY DEF GameJoin, Tell, SetMode, SendPacket
<1>7. /\ told'[info[s]] = (told[info[s]] \cup {"game join"}) /\ \A x \in Conns : x # info[s] => told'[x] = told[x]
      /\ sendQ'[s] = (IF Len(sendQ[s]) < MaxOut THEN Append(sendQ[s], info[s]) ELSE sendQ[s])
           /\ \A x \in Slots : x # s => sendQ'[x] = sendQ[x]
      /\ mode'[s] = "GAME" /\ \A x \in Slots : x # s => mode'[x] = mode[x]
      /\ gameCount' = gameCount + 1
  <2>1. told'[info[s]] = (told[info[s]] \cup {"game join"}) /\ \A x \in Conns : x # info[s] => told'[x] = told[x]
    <3>1. told \in [Conns -> SUBSET Events]
      BY <1>1 DEF TypeOK
    <3>2. info[s] \in Conns
      BY <1>2, <1>3, <1>4
    <3> QED BY <1>6, <3>1, <3>2
  <2>2. sendQ'[s] = (IF Len(sendQ[s]) < MaxOut THEN Append(sendQ[s], info[s]) ELSE sendQ[s])
            /\ \A x \in Slots : x # s => sendQ'[x] = sendQ[x]
    <3>1. sendQ \in [Slots -> Seq(Conns)]
      BY <1>1 DEF TypeOK
    <3>2. s \in Slots
      BY <1>2, <1>3, <1>4
    <3> QED BY <1>6, <3>1, <3>2
  <2>3. mode'[s] = "GAME" /\ \A x \in Slots : x # s => mode'[x] = mode[x]
    <3>1. mode \in [Slots -> Modes]
      BY <1>1 DEF TypeOK
    <3>2. s \in Slots
      BY <1>2, <1>3, <1>4
    <3> QED BY <1>6, <3>1, <3>2
  <2>4. gameCount' = gameCount + 1
    BY <1>4 DEF GameJoin, Tell, SetMode, SendPacket
  <2> QED BY <2>1, <2>2, <2>3, <2>4
<1>8. /\ sendQ'[s] \in Seq(Conns) /\ Len(sendQ'[s]) <= MaxOut
      /\ \A i \in DOMAIN sendQ'[s] : sendQ'[s][i] = info[s]
  <2>1. sendQ[s] \in Seq(Conns) /\ Len(sendQ[s]) <= MaxOut /\ \A i \in DOMAIN sendQ[s] : sendQ[s][i] = info[s]
    BY <1>1, <1>3 DEF TypeOK, Bounded, Own
  <2>2. sendQ'[s] = IF Len(sendQ[s]) < MaxOut THEN Append(sendQ[s], info[s]) ELSE sendQ[s]
    BY <1>7
  <2>3. info[s] \in Conns
    BY <1>4
  <2> QED BY <2>1, <2>2, <2>3, ConstantsOK, PacketQueued
<1>9. \A x \in Slots : Clean(x)' => Clean(x)
  BY <1>1, <1>2, <1>3, <1>4, <1>5, <1>7 DEF Clean
<1>10. TypeOK'
  <2>1. told' \in [Conns -> SUBSET Events]
    BY <1>1, <1>2, <1>3, <1>4, <1>6, <1>8 DEF TypeOK, Events
  <2>2. sendQ' \in [Slots -> Seq(Conns)]
    BY <1>1, <1>2, <1>3, <1>4, <1>6, <1>8 DEF TypeOK
  <2>3. mode' \in [Slots -> Modes]
    BY <1>1, <1>2, <1>3, <1>4, <1>6, <1>8 DEF TypeOK, Modes
  <2>4. gameCount' \in Nat
    <3>1. gameCount \in Nat /\ gameCount' = gameCount + 1
      BY <1>1, <1>7 DEF TypeOK
    <3> QED BY <3>1
  <2> QED BY <1>1, <1>5, <2>1, <2>2, <2>3, <2>4 DEF TypeOK
<1>11. ThreadInv'
  BY <1>1, <1>5 DEF ThreadInv
<1>12. Bounded'
  BY <1>1, <1>2, <1>3, <1>4, <1>5, <1>7, <1>8 DEF Bounded
<1>13. GameLeft'
  <2>1. /\ info[s] \in Conns /\ \A x : x \in told'[info[s]] <=> x \in told[info[s]] \/ x = "game join"
        /\ \A x \in Conns : x # info[s] => told'[x] = told[x]
    BY <1>4, <1>7
  <2>2. "release" \notin told[info[s]]
    BY <1>3, <1>4 DEF Told
  <2>3. ASSUME NEW x \in Conns, "release" \in told'[x] PROVE "game join" \in told'[x] <=> "game leave" \in told'[x]
    <3>1. "release" \in told[x] => ("game join" \in told[x] <=> "game leave" \in told[x])
      BY <1>1 DEF GameLeft
    <3>2. CASE x = info[s]
      BY <2>1, <2>2, <2>3, <3>1, <3>2
    <3>3. CASE x # info[s]
      BY <2>1, <2>3, <3>1, <3>3
    <3> QED BY <3>2, <3>3
  <2> QED BY <2>3 DEF GameLeft
<1>14. Used'
  <2>1. /\ info[s] \in Conns /\ \A x : x \in told'[info[s]] <=> x \in told[info[s]] \/ x = "game join"
        /\ \A x \in Conns : x # info[s] => told'[x] = told[x]
    BY <1>4, <1>7
  <2>2. /\ sock[info[s]] # "none" /\ \A k \in DOMAIN queue : queue[k] \in Conns /\ queue[k] # info[s]
        /\ mode[s] # "NONE" /\ s \in Slots
    BY <1>1, <1>2, <1>3, <1>4 DEF Used
  <2>3. /\ info' = info /\ queue' = queue /\ (\A x \in Slots : mode'[x] # "NONE" => mode[x] # "NONE")
        /\ \A x \in Conns : sock'[x] = "none" <=> sock[x] = "none"
    BY <1>5, <1>7, <2>2
  <2>4. \A x \in Slots : mode'[x] # "NONE" => info'[x] \in Conns /\ sock'[info'[x]] # "none"
    BY <1>1, <2>3 DEF Used
  <2>5. \A k \in DOMAIN queue' : sock'[queue'[k]] # "none" /\ told'[queue'[k]] = {}
            /\ \A x \in Slots : info'[x] # queue'[k]
    <3>1. ASSUME NEW k \in DOMAIN queue
          PROVE  sock'[queue[k]] # "none" /\ told'[queue[k]] = {} /\ \A x \in Slots : info[x] # queue[k]
      BY <1>1, <2>1, <2>2, <2>3, <3>1 DEF Used
    <3> QED BY <2>3, <3>1
  <2>6. \A x \in Conns : sock'[x] = "none" => told'[x] = {}
    BY <1>1, <2>1, <2>2, <2>3 DEF Used
  <2>7. \A x \in heirs' : sock'[x] # "none" /\ \A k \in DOMAIN queue' : queue'[k] # x
    <3>1. heirs' = heirs /\ \A x \in heirs : x \in Conns
      BY <1>1, <1>5 DEF TypeOK
    <3> QED BY <1>1, <2>3, <3>1 DEF Used
  <2> QED BY <1>1, <2>3, <2>4, <2>5, <2>6, <2>7 DEF Used
<1>15. Steps'
  BY <1>1, <1>2, <1>3, <1>4, <1>5, <1>7, <1>8 DEF Steps, ThreadInv
<1>16. Counted'
  <2>1. ASSUME NEW ms
        PROVE  /\ Cardinality(In(mode, ms)) \in Nat
               /\ mode'[s] \in ms /\ ~(mode[s] \in ms) => Cardinality(In(mode', ms)) = Cardinality(In(mode, ms)) + 1
               /\ mode[s] \in ms /\ ~(mode'[s] \in ms) => Cardinality(In(mode', ms)) = Cardinality(In(mode, ms)) - 1
               /\ mode'[s] \in ms /\ mode[s] \in ms => Cardinality(In(mode', ms)) = Cardinality(In(mode, ms))
               /\ ~(mode'[s] \in ms) /\ ~(mode[s] \in ms) => Cardinality(In(mode', ms)) = Cardinality(In(mode, ms))
    BY <1>3, <1>7, ConstantsOK, ModeStep
  <2>2. /\ (mode'[s] \in AuthModes <=> FALSE) /\ (mode[s] \in AuthModes <=> FALSE)
        /\ (mode'[s] \in GameModes <=> TRUE) /\ (mode[s] \in GameModes <=> FALSE)
        /\ (mode'[s] \in SomeModes <=> TRUE) /\ (mode[s] \in SomeModes <=> TRUE)
    BY <1>4, <1>7 DEF Modes, AuthModes, GameModes, SomeModes
  <2>3. /\ Cardinality(In(mode', AuthModes)) = Cardinality(In(mode, AuthModes))
        /\ Cardinality(In(mode', GameModes)) = Cardinality(In(mode, GameModes)) + 1
        /\ Cardinality(In(mode', SomeModes)) = Cardinality(In(mode, SomeModes))
        /\ Cardinality(In(mode, AuthModes)) \in Nat
        /\ Cardinality(In(mode, GameModes)) \in Nat
        /\ Cardinality(In(mode, SomeModes)) \in Nat
    BY <2>1, <2>2
  <2>4. /\ Counted /\ authCount \in Nat /\ gameCount \in Nat /\ total \in Nat /\ taken \in Nat
        /\ auth' = auth /\ game' = game /\ authCount' = authCount /\ gameCount' = gameCount + 1
        /\ total' = total /\ taken' = taken /\ game = "idle"
    BY <1>1, <1>4, <1>5, <1>7 DEF TypeOK
  <2>5. /\ One(auth' \in {"count", "join"}) = One(auth \in {"count", "join"})
             /\ One(auth \in {"count", "join"}) \in Nat
        /\ One(game' = "push") = One(game = "push") /\ One(game = "push") \in Nat
    BY <2>4 DEF One
  <2>6. authCount' = Cardinality(In(mode', AuthModes)) - One(auth' \in {"count", "join"}) + taken'
    BY <2>3, <2>4, <2>5 DEF Counted
  <2>7. gameCount' = Cardinality(In(mode', GameModes))
    BY <2>3, <2>4 DEF Counted
  <2>8. total' = Cardinality(In(mode', SomeModes)) - One(auth' \in {"count", "join"}) + One(game' = "push") + taken'
    BY <2>3, <2>4, <2>5 DEF Counted
  <2> QED BY <2>6, <2>7, <2>8 DEF Counted
<1>17. Indexed'
  <2>1. \A x \in Slots : mode'[x] = "NONE" <=> mode[x] = "NONE"
    BY <1>3, <1>4, <1>7
  <2>2. free' = free /\ (gameAt' = gameAt \/ (gameAt' = NoSlot /\ \A x \in Slots : mode[x] = "NONE" => x # gameAt))
    BY <1>2, <1>4, <1>5, <1>7
  <2>3. \A i \in DOMAIN free : mode'[free[i]] = "NONE" /\ free[i] # gameAt'
    <3>1. \A i \in DOMAIN free : mode[free[i]] = "NONE" /\ free[i] # gameAt /\ free[i] \in Slots
      <4>1. free \in Seq(Slots) /\ Indexed
        BY <1>1 DEF TypeOK
      <4> QED BY <4>1 DEF Indexed
    <3> QED BY <2>1, <2>2, <3>1
  <2>4. \A x \in Slots : mode'[x] = "NONE" /\ x # gameAt' => mode[x] = "NONE" /\ x # gameAt
    BY <2>1, <2>2
  <2> QED BY <1>1, <2>2, <2>3, <2>4 DEF Indexed
<1>18. ASSUME NEW r \in Slots PROVE IOAt(r)'
  <2>1. /\ Pending(r)' = Pending(r) /\ Handled(workAt', work', r) = Handled(workAt, work, r)
        /\ Recving(workAt', work', r) = Recving(workAt, work, r)
    BY <1>5 DEF Pending
  <2>2. IOAt(r)
    BY <1>1
  <2> QED BY <1>5, <2>1, <2>2 DEF IOAt, Handled, Recving, One
<1>19. ASSUME NEW r \in Slots PROVE SlotInv(r)'
  <2>1. OneSend(r) /\ Empty(r) /\ Told(r) /\ Own(r) /\ Alone(r) /\ OneRecv(r) /\ Fresh(r) /\ Heard(r) /\ Ended(r)
    BY <1>1 DEF SlotInv
  <2>2. OneSend(r)'
    BY <1>5, <2>1 DEF OneSend, Sent
  <2>3. Empty(r)'
    BY <1>1, <1>2, <1>3, <1>4, <1>5, <1>7, <1>8, <1>9, <2>1 DEF Empty
  <2>4. Told(r)'
    <3>1. /\ info[s] \in Conns /\ \A x : x \in told'[info[s]] <=> x \in told[info[s]] \/ x = "game join"
          /\ \A x \in Conns : x # info[s] => told'[x] = told[x]
      BY <1>4, <1>7
    <3>2. CASE r = s
      <4>1. Told(s)
        BY <1>3
      <4>2. mode'[r] = "GAME" /\ info'[r] = info[r]
        BY <1>5, <1>7, <3>2
      <4> QED BY <1>4, <3>1, <3>2, <4>1, <4>2 DEF Told
    <3>3. CASE r # s
      <4>1. Told(r) /\ mode'[r] = mode[r] /\ info'[r] = info[r]
        BY <1>5, <1>7, <2>1, <3>3
      <4>2. mode[r] # "NONE" => info[r] \in Conns /\ info[r] # info[s]
        BY <1>1, <1>2, <1>3, <1>4, <3>3 DEF Used
      <4>3. mode[r] # "NONE" => told'[info[r]] = told[info[r]]
        BY <3>1, <4>2
      <4> QED BY <4>1, <4>3 DEF Told
    <3> QED BY <3>2, <3>3
  <2>5. Own(r)'
    BY <1>1, <1>2, <1>3, <1>4, <1>5, <1>7, <1>8, <1>9, <2>1 DEF Own
  <2>6. Alone(r)'
    BY <1>1, <1>2, <1>3, <1>4, <1>5, <1>7, <1>8, <1>9, <2>1 DEF Alone, Clean
  <2>7. OneRecv(r)'
    BY <1>1, <1>2, <1>3, <1>4, <1>5, <1>7, <1>8, <1>9, <2>1 DEF OneRecv, Clean, Recv
  <2>8. Fresh(r)'
    BY <1>1, <1>2, <1>3, <1>4, <1>5, <1>7, <1>8, <1>9, <2>1 DEF Fresh, Clean, Joining, Posting, Quiet,
       Steps
  <2>9. Heard(r)'
    BY <1>1, <1>2, <1>3, <1>4, <1>5, <1>7, <1>8, <1>9, <2>1 DEF Heard, Clean, Joining, Recv
  <2>10. Ended(r)'
    BY <1>1, <1>2, <1>3, <1>4, <1>5, <1>7, <1>8, <1>9, <2>1 DEF Ended, Clean, Over, Quiet, Joining
  <2> QED BY <2>2, <2>3, <2>4, <2>5, <2>6, <2>7, <2>8, <2>9, <2>10 DEF SlotInv
<1> QED BY <1>10, <1>11, <1>12, <1>13, <1>14, <1>15, <1>16, <1>17, <1>18, <1>19 DEF IInv

LEMMA GamePacketStep ==
  ASSUME ConstantsOK, IInv, NEW s \in Slots, GamePacket(s), ~down'
  PROVE  IInv'
<1>1. /\ TypeOK /\ ThreadInv /\ Bounded /\ GameLeft /\ Used /\ Steps /\ Counted /\ Indexed
      /\ \A r \in Slots : IOAt(r) /\ SlotInv(r)
  BY DEF IInv
<1>2. /\ {authAt, blank, gameAt, sendAt} \subseteq Slots \cup {NoSlot} /\ NoSlot \notin Slots /\ NoConn \notin Conns
      /\ \A r \in Slots : (mode[r] # "NONE" <=> info[r] # NoConn) /\ (mode[r] # "NONE" <=> info[r] \in Conns)
  BY <1>1, StateTypes
<1>3. /\ s \in Slots /\ IOAt(s) /\ OneSend(s) /\ Empty(s) /\ Told(s) /\ Own(s)
      /\ Alone(s) /\ OneRecv(s) /\ Fresh(s) /\ Heard(s) /\ Ended(s)
  BY <1>1 DEF SlotInv
<1>4. inbox[s] > 0
  BY <1>1, <1>2, <1>3 DEF GamePacket, Crash, Steps, Used, ThreadInv
<1>5. UNCHANGED <<sock, queue, mode, info, toGame, free, authCount, gameCount, total, told, sendQ,
        sending, sendCount, ioCount, io, left, logout, stuck, auth, authAt, blank, game, gameAt, send,
        sendAt, toSend, work, workAt, heirs, taken, down>>
  BY DEF GamePacket, Crash, authT, conns, flow, gameT, got, lines, sendT, workT
<1>6. inbox' = [inbox EXCEPT ![s] = inbox[s] - 1]
  BY DEF GamePacket, Crash
<1>7. inbox'[s] = (inbox[s] - 1) /\ \A x \in Slots : x # s => inbox'[x] = inbox[x]
  BY <1>1, <1>2, <1>3, <1>4, <1>6 DEF GamePacket, Crash, TypeOK
<1>8. TypeOK'
  <2>1. inbox' \in [Slots -> 0..MaxIn]
    <3>1. inbox \in [Slots -> 0..MaxIn]
      BY <1>1 DEF TypeOK
    <3> QED BY <1>2, <1>3, <1>4, <1>6, <3>1, ConstantsOK DEF ConstantsOK
  <2> QED BY <1>1, <1>5, <2>1 DEF TypeOK
<1>9. ThreadInv' /\ Bounded'
  BY <1>1, <1>5 DEF ThreadInv, Bounded
<1>10. GameLeft' /\ Used'
  BY <1>1, <1>5 DEF GameLeft, Used
<1>11. Steps' /\ Indexed'
  BY <1>1, <1>5 DEF Steps, Indexed
<1>12. Counted'
  BY <1>1, <1>5 DEF Counted
<1>13. ASSUME NEW r \in Slots PROVE IOAt(r)'
  <2>1. /\ Pending(r)' = Pending(r) /\ Handled(workAt', work', r) = Handled(workAt, work, r)
        /\ Recving(workAt', work', r) = Recving(workAt, work, r)
    BY <1>5 DEF Pending
  <2>2. IOAt(r)
    BY <1>1
  <2> QED BY <1>5, <2>1, <2>2 DEF IOAt, Handled, Recving, One
<1>14. ASSUME NEW r \in Slots PROVE SlotInv(r)'
  <2>1. OneSend(r) /\ Empty(r) /\ Told(r) /\ Own(r) /\ Alone(r) /\ OneRecv(r) /\ Fresh(r) /\ Heard(r) /\ Ended(r)
    BY <1>1 DEF SlotInv
  <2>2. OneSend(r)' /\ Empty(r)' /\ Told(r)' /\ Own(r)'
    BY <1>5, <2>1 DEF OneSend, Sent, Empty, Told, Own
  <2>3. Alone(r)' /\ OneRecv(r)' /\ Fresh(r)' /\ Heard(r)' /\ Ended(r)'
    BY <1>5, <2>1 DEF Alone, Clean, OneRecv, Recv, Fresh, Joining, Posting, Quiet, Heard, Ended, Over
  <2> QED BY <2>2, <2>3 DEF SlotInv
<1> QED BY <1>8, <1>9, <1>10, <1>11, <1>12, <1>13, <1>14 DEF IInv

LEMMA GameTellsStep ==
  ASSUME ConstantsOK, IInv, NEW s \in Slots, GameTells(s)
  PROVE  IInv'
<1>1. /\ TypeOK /\ ThreadInv /\ Bounded /\ GameLeft /\ Used /\ Steps /\ Counted /\ Indexed
      /\ \A r \in Slots : IOAt(r) /\ SlotInv(r)
  BY DEF IInv
<1>2. /\ {authAt, blank, gameAt, sendAt} \subseteq Slots \cup {NoSlot} /\ NoSlot \notin Slots /\ NoConn \notin Conns
      /\ \A r \in Slots : (mode[r] # "NONE" <=> info[r] # NoConn) /\ (mode[r] # "NONE" <=> info[r] \in Conns)
  BY <1>1, StateTypes
<1>3. /\ s \in Slots /\ IOAt(s) /\ OneSend(s) /\ Empty(s) /\ Told(s) /\ Own(s)
      /\ Alone(s) /\ OneRecv(s) /\ Fresh(s) /\ Heard(s) /\ Ended(s)
  BY <1>1 DEF SlotInv
<1>4. mode[s] \in {"GAME", "LOGOUT_IN_GAME"} /\ info[s] \in Conns
  BY <1>1, <1>2, <1>3 DEF GameTells, SendPacket, Steps, Used, ThreadInv
<1>5. UNCHANGED <<sock, queue, mode, info, toGame, inbox, free, authCount, gameCount, total, told,
        sending, sendCount, ioCount, io, left, logout, stuck, auth, authAt, blank, game, gameAt, send,
        sendAt, toSend, work, workAt, heirs, taken, down>>
  BY DEF GameTells, SendPacket, authT, conns, flow, gameT, got, sendT, workT
<1>6. sendQ' = [sendQ EXCEPT ![s] = IF Len(sendQ[s]) < MaxOut THEN Append(sendQ[s], info[s]) ELSE sendQ[s]]
  BY DEF GameTells, SendPacket
<1>7. sendQ'[s] = (IF Len(sendQ[s]) < MaxOut THEN Append(sendQ[s], info[s]) ELSE sendQ[s])
          /\ \A x \in Slots : x # s => sendQ'[x] = sendQ[x]
  BY <1>1, <1>2, <1>3, <1>4, <1>6 DEF GameTells, SendPacket, TypeOK
<1>8. /\ sendQ'[s] \in Seq(Conns) /\ Len(sendQ'[s]) <= MaxOut
      /\ \A i \in DOMAIN sendQ'[s] : sendQ'[s][i] = info[s]
  <2>1. sendQ[s] \in Seq(Conns) /\ Len(sendQ[s]) <= MaxOut /\ \A i \in DOMAIN sendQ[s] : sendQ[s][i] = info[s]
    BY <1>1, <1>3 DEF TypeOK, Bounded, Own
  <2>2. sendQ'[s] = IF Len(sendQ[s]) < MaxOut THEN Append(sendQ[s], info[s]) ELSE sendQ[s]
    BY <1>7
  <2>3. info[s] \in Conns
    BY <1>4
  <2> QED BY <2>1, <2>2, <2>3, ConstantsOK, PacketQueued
<1>9. TypeOK'
  <2>1. sendQ' \in [Slots -> Seq(Conns)]
    BY <1>1, <1>2, <1>3, <1>4, <1>6, <1>8 DEF TypeOK
  <2> QED BY <1>1, <1>5, <2>1 DEF TypeOK
<1>10. ThreadInv' /\ GameLeft' /\ Used'
  BY <1>1, <1>5 DEF ThreadInv, GameLeft, Used
<1>11. Indexed'
  BY <1>1, <1>5 DEF Indexed
<1>12. Counted'
  BY <1>1, <1>5 DEF Counted
<1>13. Bounded'
  BY <1>1, <1>2, <1>3, <1>4, <1>5, <1>7, <1>8 DEF Bounded
<1>14. Steps'
  BY <1>1, <1>2, <1>3, <1>4, <1>5, <1>7, <1>8 DEF Steps, ThreadInv
<1>15. ASSUME NEW r \in Slots PROVE IOAt(r)'
  <2>1. /\ Pending(r)' = Pending(r) /\ Handled(workAt', work', r) = Handled(workAt, work, r)
        /\ Recving(workAt', work', r) = Recving(workAt, work, r)
    BY <1>5 DEF Pending
  <2>2. IOAt(r)
    BY <1>1
  <2> QED BY <1>5, <2>1, <2>2 DEF IOAt, Handled, Recving, One
<1>16. ASSUME NEW r \in Slots PROVE SlotInv(r)'
  <2>1. OneSend(r) /\ Empty(r) /\ Told(r) /\ Own(r) /\ Alone(r) /\ OneRecv(r) /\ Fresh(r) /\ Heard(r) /\ Ended(r)
    BY <1>1 DEF SlotInv
  <2>2. OneSend(r)' /\ Told(r)' /\ Alone(r)' /\ OneRecv(r)'
    BY <1>5, <2>1 DEF OneSend, Sent, Told, Alone, Clean, OneRecv, Recv
  <2>3. Heard(r)' /\ Ended(r)'
    BY <1>5, <2>1 DEF Heard, Clean, Joining, Recv, Ended, Over, Quiet
  <2>4. Empty(r)'
    BY <1>1, <1>2, <1>3, <1>4, <1>5, <1>7, <1>8, <2>1 DEF Empty
  <2>5. Own(r)'
    BY <1>1, <1>2, <1>3, <1>4, <1>5, <1>7, <1>8, <2>1 DEF Own
  <2>6. Fresh(r)'
    BY <1>1, <1>2, <1>3, <1>4, <1>5, <1>7, <1>8, <2>1 DEF Fresh, Clean, Joining, Posting, Quiet, Steps
  <2> QED BY <2>2, <2>3, <2>4, <2>5, <2>6 DEF SlotInv
<1> QED BY <1>9, <1>10, <1>11, <1>12, <1>13, <1>14, <1>15, <1>16 DEF IInv

LEMMA GameCheckStep ==
  ASSUME ConstantsOK, IInv, NEW s \in Slots, GameCheck(s)
  PROVE  IInv'
<1>1. /\ TypeOK /\ ThreadInv /\ Bounded /\ GameLeft /\ Used /\ Steps /\ Counted /\ Indexed
      /\ \A r \in Slots : IOAt(r) /\ SlotInv(r)
  BY DEF IInv
<1>2. /\ {authAt, blank, gameAt, sendAt} \subseteq Slots \cup {NoSlot} /\ NoSlot \notin Slots /\ NoConn \notin Conns
      /\ \A r \in Slots : (mode[r] # "NONE" <=> info[r] # NoConn) /\ (mode[r] # "NONE" <=> info[r] \in Conns)
  BY <1>1, StateTypes
<1>3. /\ s \in Slots /\ IOAt(s) /\ OneSend(s) /\ Empty(s) /\ Told(s) /\ Own(s)
      /\ Alone(s) /\ OneRecv(s) /\ Fresh(s) /\ Heard(s) /\ Ended(s)
  BY <1>1 DEF SlotInv
<1>4. game = "idle" /\ mode[s] = "GAME" /\ logout[s]
  BY <1>1, <1>2, <1>3 DEF GameCheck, MayLeave, Game, Steps, Used, ThreadInv
<1>5. UNCHANGED <<sock, queue, mode, info, toGame, inbox, free, authCount, gameCount, total, told,
        sendQ, sending, sendCount, ioCount, io, left, logout, stuck, auth, authAt, blank, send,
        sendAt, toSend, work, workAt, heirs, taken, down>>
  BY DEF GameCheck, MayLeave, Game, authT, conns, flow, got, lines, sendT, workT
<1>7. /\ game' = "out"
      /\ gameAt' = s
  BY <1>1, <1>2, <1>3, <1>4 DEF GameCheck, MayLeave, Game, TypeOK
<1>8. TypeOK'
  <2>1. game' \in {"idle", "out", "push"}
    BY <1>1, <1>2, <1>3, <1>4, <1>7 DEF TypeOK
  <2>2. gameAt' \in Slots \cup {NoSlot}
    BY <1>1, <1>2, <1>3, <1>4, <1>7 DEF TypeOK
  <2>3. {authAt', blank', gameAt', sendAt'} \subseteq Slots \cup {NoSlot}
    BY <1>2, <1>5, <2>1, <2>2
  <2> QED BY <1>1, <1>5, <2>1, <2>2, <2>3 DEF TypeOK
<1>9. Bounded' /\ GameLeft' /\ Used'
  BY <1>1, <1>5 DEF Bounded, GameLeft, Used
<1>10. ThreadInv'
  BY <1>1, <1>2, <1>3, <1>4, <1>5, <1>7 DEF ThreadInv
<1>11. Steps'
  BY <1>1, <1>2, <1>3, <1>4, <1>5, <1>7 DEF Steps, ThreadInv
<1>12. Counted'
  <2>1. /\ Counted /\ authCount \in Nat /\ gameCount \in Nat /\ total \in Nat /\ taken \in Nat
        /\ Cardinality(In(mode, AuthModes)) \in Nat /\ Cardinality(In(mode, GameModes)) \in Nat
             /\ Cardinality(In(mode, SomeModes)) \in Nat
    BY <1>1, ConstantsOK, InNat DEF TypeOK
  <2>2. mode' = mode /\ auth' = auth /\ game' = "out" /\ authCount' = authCount
        /\ gameCount' = gameCount /\ total' = total /\ taken' = taken /\ game = "idle"
    BY <1>4, <1>5, <1>7
  <2> QED BY <2>1, <2>2 DEF Counted, One
<1>13. Indexed'
  BY <1>1, <1>2, <1>3, <1>4, <1>5, <1>7 DEF Indexed, ThreadInv
<1>14. ASSUME NEW r \in Slots PROVE IOAt(r)'
  <2>1. /\ Pending(r)' = Pending(r) /\ Handled(workAt', work', r) = Handled(workAt, work, r)
        /\ Recving(workAt', work', r) = Recving(workAt, work, r)
    BY <1>5 DEF Pending
  <2>2. IOAt(r)
    BY <1>1
  <2> QED BY <1>5, <2>1, <2>2 DEF IOAt, Handled, Recving, One
<1>15. ASSUME NEW r \in Slots PROVE SlotInv(r)'
  <2>1. OneSend(r) /\ Empty(r) /\ Told(r) /\ Own(r) /\ Alone(r) /\ OneRecv(r) /\ Fresh(r) /\ Heard(r) /\ Ended(r)
    BY <1>1 DEF SlotInv
  <2>2. OneSend(r)' /\ Empty(r)' /\ Told(r)' /\ Own(r)'
    BY <1>5, <2>1 DEF OneSend, Sent, Empty, Told, Own
  <2>3. Alone(r)' /\ OneRecv(r)' /\ Fresh(r)' /\ Heard(r)' /\ Ended(r)'
    BY <1>5, <2>1 DEF Alone, Clean, OneRecv, Recv, Fresh, Joining, Posting, Quiet, Heard, Ended, Over
  <2> QED BY <2>2, <2>3 DEF SlotInv
<1> QED BY <1>8, <1>9, <1>10, <1>11, <1>12, <1>13, <1>14, <1>15 DEF IInv

LEMMA GameOutStep ==
  ASSUME ConstantsOK, IInv, GameOut
  PROVE  IInv'
<1>1. /\ TypeOK /\ ThreadInv /\ Bounded /\ GameLeft /\ Used /\ Steps /\ Counted /\ Indexed
      /\ \A r \in Slots : IOAt(r) /\ SlotInv(r)
  BY DEF IInv
<1>2. /\ {authAt, blank, gameAt, sendAt} \subseteq Slots \cup {NoSlot} /\ NoSlot \notin Slots /\ NoConn \notin Conns
      /\ \A r \in Slots : (mode[r] # "NONE" <=> info[r] # NoConn) /\ (mode[r] # "NONE" <=> info[r] \in Conns)
  BY <1>1, StateTypes
<1>3. /\ gameAt \in Slots /\ IOAt(gameAt) /\ OneSend(gameAt) /\ Empty(gameAt) /\ Told(gameAt) /\ Own(gameAt)
      /\ Alone(gameAt) /\ OneRecv(gameAt) /\ Fresh(gameAt) /\ Heard(gameAt) /\ Ended(gameAt)
  <2>1. gameAt \in Slots
    BY <1>1, <1>2 DEF GameOut, SetMode, Game, ThreadInv
  <2> QED BY <1>1, <2>1 DEF SlotInv
<1>4. game = "out" /\ mode[gameAt] = "GAME" /\ logout[gameAt]
  BY <1>1, <1>2, <1>3 DEF GameOut, SetMode, Game, Steps, Used, ThreadInv
<1>5. UNCHANGED <<sock, queue, info, toGame, inbox, free, authCount, gameCount, total, told, sendQ,
        sending, sendCount, ioCount, io, left, logout, stuck, auth, authAt, blank, send, sendAt,
        toSend, work, workAt, heirs, taken, down>>
  BY DEF GameOut, SetMode, Game, authT, conns, got, lines, sendT, workT
<1>6. mode' = [mode EXCEPT ![gameAt] = "LOGOUT_IN_GAME"]
  BY DEF GameOut, SetMode, Game
<1>7. /\ mode'[gameAt] = "LOGOUT_IN_GAME" /\ \A x \in Slots : x # gameAt => mode'[x] = mode[x]
      /\ game' = "idle"
      /\ gameAt' = NoSlot
  BY <1>1, <1>2, <1>3, <1>4, <1>6 DEF GameOut, SetMode, Game, TypeOK
<1>8. \A x \in Slots : Clean(x)' => Clean(x)
  BY <1>1, <1>2, <1>3, <1>4, <1>5, <1>7 DEF Clean
<1>9. TypeOK'
  <2>1. mode' \in [Slots -> Modes]
    BY <1>1, <1>2, <1>3, <1>4, <1>6 DEF TypeOK, Modes
  <2>2. game' \in {"idle", "out", "push"}
    BY <1>1, <1>2, <1>3, <1>4, <1>7 DEF TypeOK
  <2>3. gameAt' \in Slots \cup {NoSlot}
    BY <1>1, <1>2, <1>3, <1>4, <1>7 DEF TypeOK
  <2>4. {authAt', blank', gameAt', sendAt'} \subseteq Slots \cup {NoSlot}
    BY <1>2, <1>5, <2>1, <2>2, <2>3
  <2> QED BY <1>1, <1>5, <2>1, <2>2, <2>3, <2>4 DEF TypeOK
<1>10. Bounded' /\ GameLeft'
  BY <1>1, <1>5 DEF Bounded, GameLeft
<1>11. ThreadInv'
  BY <1>1, <1>2, <1>3, <1>4, <1>5, <1>7 DEF ThreadInv
<1>12. Used'
  BY <1>1, <1>2, <1>3, <1>4, <1>5, <1>7 DEF Used
<1>13. Steps'
  BY <1>1, <1>2, <1>3, <1>4, <1>5, <1>7 DEF Steps, ThreadInv
<1>14. Counted'
  <2>1. ASSUME NEW ms
        PROVE  /\ Cardinality(In(mode, ms)) \in Nat
               /\ mode'[gameAt] \in ms /\ ~(mode[gameAt] \in ms)
                    => Cardinality(In(mode', ms)) = Cardinality(In(mode, ms)) + 1
               /\ mode[gameAt] \in ms /\ ~(mode'[gameAt] \in ms)
                    => Cardinality(In(mode', ms)) = Cardinality(In(mode, ms)) - 1
               /\ mode'[gameAt] \in ms /\ mode[gameAt] \in ms
                    => Cardinality(In(mode', ms)) = Cardinality(In(mode, ms))
               /\ ~(mode'[gameAt] \in ms) /\ ~(mode[gameAt] \in ms)
                    => Cardinality(In(mode', ms)) = Cardinality(In(mode, ms))
    BY <1>3, <1>7, ConstantsOK, ModeStep
  <2>2. /\ (mode'[gameAt] \in AuthModes <=> FALSE) /\ (mode[gameAt] \in AuthModes <=> FALSE)
        /\ (mode'[gameAt] \in GameModes <=> TRUE) /\ (mode[gameAt] \in GameModes <=> TRUE)
        /\ (mode'[gameAt] \in SomeModes <=> TRUE) /\ (mode[gameAt] \in SomeModes <=> TRUE)
    BY <1>4, <1>7 DEF Modes, AuthModes, GameModes, SomeModes
  <2>3. /\ Cardinality(In(mode', AuthModes)) = Cardinality(In(mode, AuthModes))
        /\ Cardinality(In(mode', GameModes)) = Cardinality(In(mode, GameModes))
        /\ Cardinality(In(mode', SomeModes)) = Cardinality(In(mode, SomeModes))
        /\ Cardinality(In(mode, AuthModes)) \in Nat
        /\ Cardinality(In(mode, GameModes)) \in Nat
        /\ Cardinality(In(mode, SomeModes)) \in Nat
    BY <2>1, <2>2
  <2>4. /\ Counted /\ authCount \in Nat /\ gameCount \in Nat /\ total \in Nat /\ taken \in Nat
        /\ auth' = auth /\ game' = "idle" /\ authCount' = authCount /\ gameCount' = gameCount
        /\ total' = total /\ taken' = taken /\ game = "out"
    BY <1>1, <1>4, <1>5, <1>7 DEF TypeOK
  <2>5. /\ One(auth' \in {"count", "join"}) = One(auth \in {"count", "join"})
             /\ One(auth \in {"count", "join"}) \in Nat
        /\ One(game' = "push") = 0 /\ One(game = "push") = 0
    BY <2>4 DEF One
  <2>6. authCount' = Cardinality(In(mode', AuthModes)) - One(auth' \in {"count", "join"}) + taken'
    BY <2>3, <2>4, <2>5 DEF Counted
  <2>7. gameCount' = Cardinality(In(mode', GameModes))
    BY <2>3, <2>4 DEF Counted
  <2>8. total' = Cardinality(In(mode', SomeModes)) - One(auth' \in {"count", "join"}) + One(game' = "push") + taken'
    BY <2>3, <2>4, <2>5 DEF Counted
  <2> QED BY <2>6, <2>7, <2>8 DEF Counted
<1>15. Indexed'
  <2>1. \A x \in Slots : mode'[x] = "NONE" <=> mode[x] = "NONE"
    BY <1>3, <1>4, <1>7
  <2>2. free' = free /\ (gameAt' = gameAt \/ (gameAt' = NoSlot /\ \A x \in Slots : mode[x] = "NONE" => x # gameAt))
    BY <1>2, <1>4, <1>5, <1>7
  <2>3. \A i \in DOMAIN free : mode'[free[i]] = "NONE" /\ free[i] # gameAt'
    <3>1. \A i \in DOMAIN free : mode[free[i]] = "NONE" /\ free[i] # gameAt /\ free[i] \in Slots
      <4>1. free \in Seq(Slots) /\ Indexed
        BY <1>1 DEF TypeOK
      <4> QED BY <4>1 DEF Indexed
    <3> QED BY <2>1, <2>2, <3>1
  <2>4. \A x \in Slots : mode'[x] = "NONE" /\ x # gameAt' => mode[x] = "NONE" /\ x # gameAt
    BY <2>1, <2>2
  <2> QED BY <1>1, <2>2, <2>3, <2>4 DEF Indexed
<1>16. ASSUME NEW r \in Slots PROVE IOAt(r)'
  <2>1. /\ Pending(r)' = Pending(r) /\ Handled(workAt', work', r) = Handled(workAt, work, r)
        /\ Recving(workAt', work', r) = Recving(workAt, work, r)
    BY <1>5 DEF Pending
  <2>2. IOAt(r)
    BY <1>1
  <2> QED BY <1>5, <2>1, <2>2 DEF IOAt, Handled, Recving, One
<1>17. ASSUME NEW r \in Slots PROVE SlotInv(r)'
  <2>1. OneSend(r) /\ Empty(r) /\ Told(r) /\ Own(r) /\ Alone(r) /\ OneRecv(r) /\ Fresh(r) /\ Heard(r) /\ Ended(r)
    BY <1>1 DEF SlotInv
  <2>2. OneSend(r)' /\ Own(r)'
    BY <1>5, <2>1 DEF OneSend, Sent, Own
  <2>3. Empty(r)'
    BY <1>1, <1>2, <1>3, <1>4, <1>5, <1>7, <1>8, <2>1 DEF Empty
  <2>4. Told(r)'
    BY <1>1, <1>2, <1>3, <1>4, <1>5, <1>7, <1>8, <2>1 DEF Told
  <2>5. Alone(r)'
    BY <1>1, <1>2, <1>3, <1>4, <1>5, <1>7, <1>8, <2>1 DEF Alone, Clean
  <2>6. OneRecv(r)'
    BY <1>1, <1>2, <1>3, <1>4, <1>5, <1>7, <1>8, <2>1 DEF OneRecv, Clean, Recv
  <2>7. Fresh(r)'
    BY <1>1, <1>2, <1>3, <1>4, <1>5, <1>7, <1>8, <2>1 DEF Fresh, Clean, Joining, Posting, Quiet
  <2>8. Heard(r)'
    BY <1>1, <1>2, <1>3, <1>4, <1>5, <1>7, <1>8, <2>1 DEF Heard, Clean, Joining, Recv
  <2>9. Ended(r)'
    BY <1>1, <1>2, <1>3, <1>4, <1>5, <1>7, <1>8, <2>1 DEF Ended, Clean, Over, Quiet, Joining
  <2> QED BY <2>2, <2>3, <2>4, <2>5, <2>6, <2>7, <2>8, <2>9 DEF SlotInv
<1> QED BY <1>9, <1>10, <1>11, <1>12, <1>13, <1>14, <1>15, <1>16, <1>17 DEF IInv

LEMMA GameLeaveStep ==
  ASSUME ConstantsOK, IInv, NEW s \in Slots, GameLeave(s)
  PROVE  IInv'
<1>1. /\ TypeOK /\ ThreadInv /\ Bounded /\ GameLeft /\ Used /\ Steps /\ Counted /\ Indexed
      /\ \A r \in Slots : IOAt(r) /\ SlotInv(r)
  BY DEF IInv
<1>2. /\ {authAt, blank, gameAt, sendAt} \subseteq Slots \cup {NoSlot} /\ NoSlot \notin Slots /\ NoConn \notin Conns
      /\ (\A i \in DOMAIN queue : queue[i] \in Conns) /\ (\A i \in DOMAIN free : free[i] \in Slots)
      /\ \A r \in Slots : (mode[r] # "NONE" <=> info[r] # NoConn) /\ (mode[r] # "NONE" <=> info[r] \in Conns)
  BY <1>1, StateTypes
<1>3. /\ s \in Slots /\ IOAt(s) /\ OneSend(s) /\ Empty(s) /\ Told(s) /\ Own(s)
      /\ Alone(s) /\ OneRecv(s) /\ Fresh(s) /\ Heard(s) /\ Ended(s)
  BY <1>1 DEF SlotInv
<1>4. game = "idle" /\ mode[s] = "LOGOUT_IN_GAME" /\ info[s] \in Conns
  BY <1>1, <1>2, <1>3 DEF GameLeave, Tell, SetMode, Steps, Used, ThreadInv
<1>5. UNCHANGED <<sock, queue, info, toGame, inbox, free, authCount, total, sendQ, sending, sendCount,
        ioCount, io, left, logout, stuck, auth, authAt, blank, game, gameAt, send, sendAt, toSend,
        work, workAt, heirs, taken, down>>
  BY DEF GameLeave, Tell, SetMode, authT, conns, gameT, got, lines, sendT, workT
<1>6. /\ mode' = [mode EXCEPT ![s] = "WAIT_LOGOUT"]
      /\ told' = [told EXCEPT ![info[s]] = told[info[s]] \cup {"game leave"}]
  BY DEF GameLeave, Tell, SetMode
<1>7. /\ mode'[s] = "WAIT_LOGOUT" /\ \A x \in Slots : x # s => mode'[x] = mode[x]
      /\ gameCount' = gameCount - 1
      /\ told'[info[s]] = (told[info[s]] \cup {"game leave"}) /\ \A x \in Conns : x # info[s] => told'[x] = told[x]
  <2>1. mode'[s] = "WAIT_LOGOUT" /\ \A x \in Slots : x # s => mode'[x] = mode[x]
    <3>1. mode \in [Slots -> Modes]
      BY <1>1 DEF TypeOK
    <3>2. s \in Slots
      BY <1>2, <1>3, <1>4
    <3> QED BY <1>6, <3>1, <3>2
  <2>2. gameCount' = gameCount - 1
    BY <1>4 DEF GameLeave, Tell, SetMode
  <2>3. told'[info[s]] = (told[info[s]] \cup {"game leave"}) /\ \A x \in Conns : x # info[s] => told'[x] = told[x]
    <3>1. told \in [Conns -> SUBSET Events]
      BY <1>1 DEF TypeOK
    <3>2. info[s] \in Conns
      BY <1>2, <1>3, <1>4
    <3> QED BY <1>6, <3>1, <3>2
  <2> QED BY <2>1, <2>2, <2>3
<1>8. \A x \in Slots : Clean(x)' => Clean(x)
  BY <1>1, <1>2, <1>3, <1>4, <1>5, <1>7 DEF Clean
<1>9. TypeOK'
  <2>1. mode' \in [Slots -> Modes]
    BY <1>1, <1>2, <1>3, <1>4, <1>6 DEF TypeOK, Modes
  <2>2. gameCount' \in Nat
    <3>1. gameCount \in Nat /\ taken \in Nat /\ gameCount' = gameCount - 1
      BY <1>1, <1>7 DEF TypeOK
    <3>2. gameCount > 0
      <4>1. Cardinality(In(mode, GameModes)) > 0 /\ Cardinality(In(mode, GameModes)) \in Nat
        BY <1>1, <1>2, <1>3, <1>4, ConstantsOK, InNat DEF AuthModes, GameModes, SomeModes, Modes, Steps, ThreadInv
      <4> QED BY <1>1, <1>4, <3>1, <4>1 DEF Counted, One, ThreadInv
    <3> QED BY <3>1, <3>2
  <2>3. told' \in [Conns -> SUBSET Events]
    BY <1>1, <1>2, <1>3, <1>4, <1>6 DEF TypeOK, Events
  <2> QED BY <1>1, <1>5, <2>1, <2>2, <2>3 DEF TypeOK
<1>10. ThreadInv' /\ Bounded'
  BY <1>1, <1>5 DEF ThreadInv, Bounded
<1>11. GameLeft'
  <2>1. /\ info[s] \in Conns /\ \A x : x \in told'[info[s]] <=> x \in told[info[s]] \/ x = "game leave"
        /\ \A x \in Conns : x # info[s] => told'[x] = told[x]
    BY <1>4, <1>7
  <2>2. "release" \notin told[info[s]]
    BY <1>3, <1>4 DEF Told
  <2>3. ASSUME NEW x \in Conns, "release" \in told'[x] PROVE "game join" \in told'[x] <=> "game leave" \in told'[x]
    <3>1. "release" \in told[x] => ("game join" \in told[x] <=> "game leave" \in told[x])
      BY <1>1 DEF GameLeft
    <3>2. CASE x = info[s]
      BY <2>1, <2>2, <2>3, <3>1, <3>2
    <3>3. CASE x # info[s]
      BY <2>1, <2>3, <3>1, <3>3
    <3> QED BY <3>2, <3>3
  <2> QED BY <2>3 DEF GameLeft
<1>12. Used'
  <2>1. /\ info[s] \in Conns /\ \A x : x \in told'[info[s]] <=> x \in told[info[s]] \/ x = "game leave"
        /\ \A x \in Conns : x # info[s] => told'[x] = told[x]
    BY <1>4, <1>7
  <2>2. /\ sock[info[s]] # "none" /\ \A k \in DOMAIN queue : queue[k] \in Conns /\ queue[k] # info[s]
        /\ mode[s] # "NONE" /\ s \in Slots
    BY <1>1, <1>2, <1>3, <1>4 DEF Used
  <2>3. /\ info' = info /\ queue' = queue /\ (\A x \in Slots : mode'[x] # "NONE" => mode[x] # "NONE")
        /\ \A x \in Conns : sock'[x] = "none" <=> sock[x] = "none"
    BY <1>5, <1>7, <2>2
  <2>4. \A x \in Slots : mode'[x] # "NONE" => info'[x] \in Conns /\ sock'[info'[x]] # "none"
    BY <1>1, <2>3 DEF Used
  <2>5. \A k \in DOMAIN queue' : sock'[queue'[k]] # "none" /\ told'[queue'[k]] = {}
            /\ \A x \in Slots : info'[x] # queue'[k]
    <3>1. ASSUME NEW k \in DOMAIN queue
          PROVE  sock'[queue[k]] # "none" /\ told'[queue[k]] = {} /\ \A x \in Slots : info[x] # queue[k]
      BY <1>1, <2>1, <2>2, <2>3, <3>1 DEF Used
    <3> QED BY <2>3, <3>1
  <2>6. \A x \in Conns : sock'[x] = "none" => told'[x] = {}
    BY <1>1, <2>1, <2>2, <2>3 DEF Used
  <2>7. \A x \in heirs' : sock'[x] # "none" /\ \A k \in DOMAIN queue' : queue'[k] # x
    <3>1. heirs' = heirs /\ \A x \in heirs : x \in Conns
      BY <1>1, <1>5 DEF TypeOK
    <3> QED BY <1>1, <2>3, <3>1 DEF Used
  <2> QED BY <1>1, <2>3, <2>4, <2>5, <2>6, <2>7 DEF Used
<1>13. Steps'
  BY <1>1, <1>2, <1>3, <1>4, <1>5, <1>7 DEF Steps, ThreadInv
<1>14. Counted'
  <2>1. ASSUME NEW ms
        PROVE  /\ Cardinality(In(mode, ms)) \in Nat
               /\ mode'[s] \in ms /\ ~(mode[s] \in ms) => Cardinality(In(mode', ms)) = Cardinality(In(mode, ms)) + 1
               /\ mode[s] \in ms /\ ~(mode'[s] \in ms) => Cardinality(In(mode', ms)) = Cardinality(In(mode, ms)) - 1
               /\ mode'[s] \in ms /\ mode[s] \in ms => Cardinality(In(mode', ms)) = Cardinality(In(mode, ms))
               /\ ~(mode'[s] \in ms) /\ ~(mode[s] \in ms) => Cardinality(In(mode', ms)) = Cardinality(In(mode, ms))
    BY <1>3, <1>7, ConstantsOK, ModeStep
  <2>2. /\ (mode'[s] \in AuthModes <=> FALSE) /\ (mode[s] \in AuthModes <=> FALSE)
        /\ (mode'[s] \in GameModes <=> FALSE) /\ (mode[s] \in GameModes <=> TRUE)
        /\ (mode'[s] \in SomeModes <=> TRUE) /\ (mode[s] \in SomeModes <=> TRUE)
    BY <1>4, <1>7 DEF Modes, AuthModes, GameModes, SomeModes
  <2>3. /\ Cardinality(In(mode', AuthModes)) = Cardinality(In(mode, AuthModes))
        /\ Cardinality(In(mode', GameModes)) = Cardinality(In(mode, GameModes)) - 1
        /\ Cardinality(In(mode', SomeModes)) = Cardinality(In(mode, SomeModes))
        /\ Cardinality(In(mode, AuthModes)) \in Nat
        /\ Cardinality(In(mode, GameModes)) \in Nat
        /\ Cardinality(In(mode, SomeModes)) \in Nat
    BY <2>1, <2>2
  <2>4. /\ Counted /\ authCount \in Nat /\ gameCount \in Nat /\ total \in Nat /\ taken \in Nat
        /\ auth' = auth /\ game' = game /\ authCount' = authCount /\ gameCount' = gameCount - 1
        /\ total' = total /\ taken' = taken /\ game = "idle"
    BY <1>1, <1>4, <1>5, <1>7 DEF TypeOK
  <2>5. /\ One(auth' \in {"count", "join"}) = One(auth \in {"count", "join"})
             /\ One(auth \in {"count", "join"}) \in Nat
        /\ One(game' = "push") = One(game = "push") /\ One(game = "push") \in Nat
    BY <2>4 DEF One
  <2>6. authCount' = Cardinality(In(mode', AuthModes)) - One(auth' \in {"count", "join"}) + taken'
    BY <2>3, <2>4, <2>5 DEF Counted
  <2>7. gameCount' = Cardinality(In(mode', GameModes))
    BY <2>3, <2>4 DEF Counted
  <2>8. total' = Cardinality(In(mode', SomeModes)) - One(auth' \in {"count", "join"}) + One(game' = "push") + taken'
    BY <2>3, <2>4, <2>5 DEF Counted
  <2> QED BY <2>6, <2>7, <2>8 DEF Counted
<1>15. Indexed'
  <2>1. \A x \in Slots : mode'[x] = "NONE" <=> mode[x] = "NONE"
    BY <1>3, <1>4, <1>7
  <2>2. free' = free /\ (gameAt' = gameAt \/ (gameAt' = NoSlot /\ \A x \in Slots : mode[x] = "NONE" => x # gameAt))
    BY <1>2, <1>4, <1>5, <1>7
  <2>3. \A i \in DOMAIN free : mode'[free[i]] = "NONE" /\ free[i] # gameAt'
    <3>1. \A i \in DOMAIN free : mode[free[i]] = "NONE" /\ free[i] # gameAt /\ free[i] \in Slots
      <4>1. free \in Seq(Slots) /\ Indexed
        BY <1>1 DEF TypeOK
      <4> QED BY <4>1 DEF Indexed
    <3> QED BY <2>1, <2>2, <3>1
  <2>4. \A x \in Slots : mode'[x] = "NONE" /\ x # gameAt' => mode[x] = "NONE" /\ x # gameAt
    BY <2>1, <2>2
  <2> QED BY <1>1, <2>2, <2>3, <2>4 DEF Indexed
<1>16. ASSUME NEW r \in Slots PROVE IOAt(r)'
  <2>1. /\ Pending(r)' = Pending(r) /\ Handled(workAt', work', r) = Handled(workAt, work, r)
        /\ Recving(workAt', work', r) = Recving(workAt, work, r)
    BY <1>5 DEF Pending
  <2>2. IOAt(r)
    BY <1>1
  <2> QED BY <1>5, <2>1, <2>2 DEF IOAt, Handled, Recving, One
<1>17. ASSUME NEW r \in Slots PROVE SlotInv(r)'
  <2>1. OneSend(r) /\ Empty(r) /\ Told(r) /\ Own(r) /\ Alone(r) /\ OneRecv(r) /\ Fresh(r) /\ Heard(r) /\ Ended(r)
    BY <1>1 DEF SlotInv
  <2>2. OneSend(r)' /\ Own(r)'
    BY <1>5, <2>1 DEF OneSend, Sent, Own
  <2>3. Empty(r)'
    BY <1>1, <1>2, <1>3, <1>4, <1>5, <1>7, <1>8, <2>1 DEF Empty
  <2>4. Told(r)'
    <3>1. /\ info[s] \in Conns /\ \A x : x \in told'[info[s]] <=> x \in told[info[s]] \/ x = "game leave"
          /\ \A x \in Conns : x # info[s] => told'[x] = told[x]
      BY <1>4, <1>7
    <3>2. CASE r = s
      <4>1. Told(s)
        BY <1>3
      <4>2. mode'[r] = "WAIT_LOGOUT" /\ info'[r] = info[r]
        BY <1>5, <1>7, <3>2
      <4> QED BY <1>4, <3>1, <3>2, <4>1, <4>2 DEF Told
    <3>3. CASE r # s
      <4>1. Told(r) /\ mode'[r] = mode[r] /\ info'[r] = info[r]
        BY <1>5, <1>7, <2>1, <3>3
      <4>2. mode[r] # "NONE" => info[r] \in Conns /\ info[r] # info[s]
        BY <1>1, <1>2, <1>3, <1>4, <3>3 DEF Used
      <4>3. mode[r] # "NONE" => told'[info[r]] = told[info[r]]
        BY <3>1, <4>2
      <4> QED BY <4>1, <4>3 DEF Told
    <3> QED BY <3>2, <3>3
  <2>5. Alone(r)'
    BY <1>1, <1>2, <1>3, <1>4, <1>5, <1>7, <1>8, <2>1 DEF Alone, Clean
  <2>6. OneRecv(r)'
    BY <1>1, <1>2, <1>3, <1>4, <1>5, <1>7, <1>8, <2>1 DEF OneRecv, Clean, Recv
  <2>7. Fresh(r)'
    BY <1>1, <1>2, <1>3, <1>4, <1>5, <1>7, <1>8, <2>1 DEF Fresh, Clean, Joining, Posting, Quiet
  <2>8. Heard(r)'
    BY <1>1, <1>2, <1>3, <1>4, <1>5, <1>7, <1>8, <2>1 DEF Heard, Clean, Joining, Recv
  <2>9. Ended(r)'
    BY <1>1, <1>2, <1>3, <1>4, <1>5, <1>7, <1>8, <2>1 DEF Ended, Clean, Over, Quiet, Joining
  <2> QED BY <2>2, <2>3, <2>4, <2>5, <2>6, <2>7, <2>8, <2>9 DEF SlotInv
<1> QED BY <1>9, <1>10, <1>11, <1>12, <1>13, <1>14, <1>15, <1>16, <1>17 DEF IInv

LEMMA GameReleaseStep ==
  ASSUME ConstantsOK, IInv, NEW s \in Slots, GameRelease(s)
  PROVE  IInv'
<1>1. /\ TypeOK /\ ThreadInv /\ Bounded /\ GameLeft /\ Used /\ Steps /\ Counted /\ Indexed
      /\ \A r \in Slots : IOAt(r) /\ SlotInv(r)
  BY DEF IInv
<1>2. /\ {authAt, blank, gameAt, sendAt} \subseteq Slots \cup {NoSlot} /\ NoSlot \notin Slots /\ NoConn \notin Conns
      /\ (\A i \in DOMAIN queue : queue[i] \in Conns) /\ (\A i \in DOMAIN free : free[i] \in Slots)
      /\ \A r \in Slots : (mode[r] # "NONE" <=> info[r] # NoConn) /\ (mode[r] # "NONE" <=> info[r] \in Conns)
      /\ \A r \in Slots : io[r]["recv"] \in Nat /\ io[r]["send"] \in Nat /\ left[r]["recv"] \in Nat
           /\ left[r]["send"] \in Nat
      /\ \A r \in Slots : IONat(r)
  BY <1>1, StateTypes
<1>3. /\ s \in Slots /\ IOAt(s) /\ OneSend(s) /\ Empty(s) /\ Told(s) /\ Own(s)
      /\ Alone(s) /\ OneRecv(s) /\ Fresh(s) /\ Heard(s) /\ Ended(s)
  BY <1>1 DEF SlotInv
<1>4. game = "idle" /\ mode[s] = "WAIT_LOGOUT" /\ info[s] \in Conns
  BY <1>1, <1>2, <1>3 DEF GameRelease, Tell, SetMode, Leave, Game, Clear, Steps, Used, ThreadInv
<1>5. UNCHANGED <<queue, free, authCount, gameCount, total, sending, ioCount, stuck, auth, authAt,
        blank, send, sendAt, toSend, work, workAt, heirs, taken, down>>
  BY DEF GameRelease, Tell, SetMode, Leave, Game, Clear, authT, got, sendT, workT
<1>6. /\ sock' = [sock EXCEPT ![info[s]] = "closed"]
      /\ told' = [told EXCEPT ![info[s]] = told[info[s]] \cup {"release"}]
      /\ inbox' = [inbox EXCEPT ![s] = 0]
      /\ sendQ' = [sendQ EXCEPT ![s] = <<>>]
      /\ info' = [info EXCEPT ![s] = NoConn]
      /\ sendCount' = [sendCount EXCEPT ![s] = 0]
      /\ toGame' = [toGame EXCEPT ![s] = FALSE]
      /\ logout' = [logout EXCEPT ![s] = FALSE]
      /\ mode' = [mode EXCEPT ![s] = "NONE"]
  BY DEF GameRelease, Tell, SetMode, Leave, Game, Clear
<1>7. /\ sock'[info[s]] = "closed" /\ \A x \in Conns : x # info[s] => sock'[x] = sock[x]
      /\ told'[info[s]] = (told[info[s]] \cup {"release"}) /\ \A x \in Conns : x # info[s] => told'[x] = told[x]
      /\ inbox'[s] = 0 /\ \A x \in Slots : x # s => inbox'[x] = inbox[x]
      /\ sendQ'[s] = <<>> /\ \A x \in Slots : x # s => sendQ'[x] = sendQ[x]
      /\ info'[s] = NoConn /\ \A x \in Slots : x # s => info'[x] = info[x]
      /\ sendCount'[s] = 0 /\ \A x \in Slots : x # s => sendCount'[x] = sendCount[x]
      /\ toGame'[s] = FALSE /\ \A x \in Slots : x # s => toGame'[x] = toGame[x]
      /\ logout'[s] = FALSE /\ \A x \in Slots : x # s => logout'[x] = logout[x]
      /\ mode'[s] = "NONE" /\ \A x \in Slots : x # s => mode'[x] = mode[x]
      /\ game' = "push"
      /\ gameAt' = s
  BY <1>1, <1>2, <1>3, <1>4, <1>6 DEF GameRelease, Tell, SetMode, Leave, Game, Clear, TypeOK
<1>8. /\ io' \in [Slots -> [Kinds -> Nat]] /\ left' \in [Slots -> [Kinds -> Nat]]
      /\ io'[s]["recv"] = 0 /\ io'[s]["send"] = 0
      /\ left'[s]["recv"] = left[s]["recv"] + io[s]["recv"]
      /\ left'[s]["send"] = left[s]["send"] + io[s]["send"]
      /\ \A x \in Slots : x # s => io'[x] = io[x] /\ left'[x] = left[x]
  <2>1. Leave(s)
    BY DEF GameRelease, Tell, SetMode, Game, Clear
  <2>2. "recv" \in Kinds /\ "send" \in Kinds
    BY DEF Kinds
  <2> QED BY <1>1, <1>3, <2>1, <2>2, LeftBehind
<1>9. \A x \in Slots : x # s /\ mode[x] # "NONE" => info[x] \in Conns /\ info[x] # info[s]
  BY <1>1, <1>2, <1>3, <1>4 DEF Used
<1>10. \A x \in Slots : Clean(x)' => Clean(x) /\ x # s
  BY <1>1, <1>2, <1>3, <1>4, <1>5, <1>7 DEF Clean
<1>11. TypeOK'
  <2>1. sock' \in [Conns -> {"none", "open", "reset", "shut", "closed"}]
    BY <1>1, <1>2, <1>3, <1>4, <1>6, <1>8, <1>9 DEF TypeOK
  <2>2. told' \in [Conns -> SUBSET Events]
    BY <1>1, <1>2, <1>3, <1>4, <1>6, <1>8, <1>9 DEF TypeOK, Events
  <2>3. inbox' \in [Slots -> 0..MaxIn]
    BY <1>1, <1>2, <1>3, <1>4, <1>6, <1>8, <1>9, ConstantsOK DEF TypeOK, ConstantsOK
  <2>4. sendQ' \in [Slots -> Seq(Conns)]
    BY <1>1, <1>2, <1>3, <1>4, <1>6, <1>8, <1>9 DEF TypeOK
  <2>5. info' \in [Slots -> Conns \cup {NoConn}]
    BY <1>1, <1>2, <1>3, <1>4, <1>6, <1>8, <1>9 DEF TypeOK
  <2>6. sendCount' \in [Slots -> 0..MaxOut]
    BY <1>1, <1>2, <1>3, <1>4, <1>6, <1>8, <1>9, ConstantsOK DEF TypeOK, ConstantsOK
  <2>7. toGame' \in [Slots -> BOOLEAN]
    BY <1>1, <1>2, <1>3, <1>4, <1>6, <1>8, <1>9 DEF TypeOK
  <2>8. logout' \in [Slots -> BOOLEAN]
    BY <1>1, <1>2, <1>3, <1>4, <1>6, <1>8, <1>9 DEF TypeOK
  <2>9. mode' \in [Slots -> Modes]
    BY <1>1, <1>2, <1>3, <1>4, <1>6, <1>8, <1>9 DEF TypeOK, Modes
  <2>10. game' \in {"idle", "out", "push"}
    BY <1>1, <1>2, <1>3, <1>4, <1>7, <1>8, <1>9 DEF TypeOK
  <2>11. gameAt' \in Slots \cup {NoSlot}
    BY <1>1, <1>2, <1>3, <1>4, <1>7, <1>8, <1>9 DEF TypeOK
  <2>12. io' \in [Slots -> [Kinds -> Nat]]
    BY <1>8
  <2>13. left' \in [Slots -> [Kinds -> Nat]]
    BY <1>8
  <2>14. {io', left'} \subseteq [Slots -> [Kinds -> Nat]]
    BY <2>12, <2>13
  <2>15. {authAt', blank', gameAt', sendAt'} \subseteq Slots \cup {NoSlot}
    BY <1>2, <1>5, <2>1, <2>2, <2>3, <2>4, <2>5, <2>6, <2>7, <2>8, <2>9, <2>10, <2>11, <2>12, <2>13,
       <2>14
  <2> QED BY <1>1, <1>5, <2>1, <2>2, <2>3, <2>4, <2>5, <2>6, <2>7, <2>8, <2>9, <2>10, <2>11, <2>12,
     <2>13, <2>14, <2>15 DEF TypeOK
<1>12. ThreadInv'
  BY <1>1, <1>2, <1>3, <1>4, <1>5, <1>7, <1>8, <1>9 DEF ThreadInv
<1>13. Bounded'
  <2>1. sendQ'[s] = <<>> /\ Len(<<>>) = 0 /\ \A x \in Slots : x # s => sendQ'[x] = sendQ[x]
    BY <1>7
  <2>2. MaxOut \in Nat
    BY ConstantsOK DEF ConstantsOK
  <2> QED BY <1>1, <2>1, <2>2 DEF Bounded
<1>14. GameLeft'
  <2>1. /\ info[s] \in Conns /\ \A x : x \in told'[info[s]] <=> x \in told[info[s]] \/ x = "release"
        /\ \A x \in Conns : x # info[s] => told'[x] = told[x]
    BY <1>4, <1>7
  <2>2. "game join" \in told[info[s]] <=> "game leave" \in told[info[s]]
    BY <1>3, <1>4 DEF Told
  <2>3. ASSUME NEW x \in Conns, "release" \in told'[x] PROVE "game join" \in told'[x] <=> "game leave" \in told'[x]
    <3>1. "release" \in told[x] => ("game join" \in told[x] <=> "game leave" \in told[x])
      BY <1>1 DEF GameLeft
    <3>2. CASE x = info[s]
      BY <2>1, <2>2, <2>3, <3>1, <3>2
    <3>3. CASE x # info[s]
      BY <2>1, <2>3, <3>1, <3>3
    <3> QED BY <3>2, <3>3
  <2> QED BY <2>3 DEF GameLeft
<1>15. Used'
  <2>1. /\ info'[s] = NoConn /\ mode'[s] = "NONE" /\ \A x \in Slots : x # s
             => info'[x] = info[x] /\ mode'[x] = mode[x]
        /\ sock'[info[s]] = "closed" /\ (\A x \in Conns : x # info[s] => sock'[x] = sock[x]) /\ info[s] \in Conns
        /\ \A x \in Conns : x # info[s] => told'[x] = told[x]
        /\ queue' = queue /\ heirs' = heirs
    BY <1>4, <1>5, <1>7
  <2>2. ASSUME NEW x \in Slots, mode'[x] # "NONE" PROVE info'[x] \in Conns /\ sock'[info'[x]] # "none"
    <3>1. x # s /\ info'[x] = info[x] /\ mode[x] # "NONE"
      BY <2>1, <2>2
    <3>2. info[x] \in Conns /\ info[x] # info[s] /\ sock[info[x]] # "none"
      BY <1>1, <1>9, <3>1 DEF Used
    <3> QED BY <2>1, <3>1, <3>2
  <2>3. \A x, y \in Slots : info'[x] = info'[y] /\ info'[x] # NoConn => x = y
    BY <1>1, <2>1 DEF Used
  <2>4. ASSUME NEW i \in DOMAIN queue
        PROVE  sock'[queue[i]] # "none" /\ told'[queue[i]] = {} /\ \A x \in Slots : info'[x] # queue[i]
    <3>1. queue[i] \in Conns /\ queue[i] # info[s] /\ sock[queue[i]] # "none" /\ told[queue[i]] = {}
          /\ \A x \in Slots : info[x] # queue[i]
      BY <1>1, <1>2, <1>3 DEF Used
    <3>2. sock'[queue[i]] = sock[queue[i]] /\ told'[queue[i]] = told[queue[i]]
      BY <2>1, <3>1
    <3>3. \A x \in Slots : info'[x] # queue[i]
      BY <1>2, <2>1, <3>1
    <3> QED BY <3>1, <3>2, <3>3
  <2>5. \A x \in Conns : sock'[x] = "none" => told'[x] = {}
    BY <1>1, <2>1 DEF Used
  <2>6. \A x \in heirs : x \in Conns /\ sock'[x] # "none"
    BY <1>1, <2>1 DEF Used, TypeOK
  <2> QED BY <1>1, <2>1, <2>2, <2>3, <2>4, <2>5, <2>6 DEF Used
<1>16. Steps'
  BY <1>1, <1>2, <1>3, <1>4, <1>5, <1>7, <1>8, <1>9 DEF Steps, ThreadInv
<1>17. Counted'
  <2>1. ASSUME NEW ms
        PROVE  /\ Cardinality(In(mode, ms)) \in Nat
               /\ mode'[s] \in ms /\ ~(mode[s] \in ms) => Cardinality(In(mode', ms)) = Cardinality(In(mode, ms)) + 1
               /\ mode[s] \in ms /\ ~(mode'[s] \in ms) => Cardinality(In(mode', ms)) = Cardinality(In(mode, ms)) - 1
               /\ mode'[s] \in ms /\ mode[s] \in ms => Cardinality(In(mode', ms)) = Cardinality(In(mode, ms))
               /\ ~(mode'[s] \in ms) /\ ~(mode[s] \in ms) => Cardinality(In(mode', ms)) = Cardinality(In(mode, ms))
    BY <1>3, <1>7, ConstantsOK, ModeStep
  <2>2. /\ (mode'[s] \in AuthModes <=> FALSE) /\ (mode[s] \in AuthModes <=> FALSE)
        /\ (mode'[s] \in GameModes <=> FALSE) /\ (mode[s] \in GameModes <=> FALSE)
        /\ (mode'[s] \in SomeModes <=> FALSE) /\ (mode[s] \in SomeModes <=> TRUE)
    BY <1>4, <1>7 DEF Modes, AuthModes, GameModes, SomeModes
  <2>3. /\ Cardinality(In(mode', AuthModes)) = Cardinality(In(mode, AuthModes))
        /\ Cardinality(In(mode', GameModes)) = Cardinality(In(mode, GameModes))
        /\ Cardinality(In(mode', SomeModes)) = Cardinality(In(mode, SomeModes)) - 1
        /\ Cardinality(In(mode, AuthModes)) \in Nat
        /\ Cardinality(In(mode, GameModes)) \in Nat
        /\ Cardinality(In(mode, SomeModes)) \in Nat
    BY <2>1, <2>2
  <2>4. /\ Counted /\ authCount \in Nat /\ gameCount \in Nat /\ total \in Nat /\ taken \in Nat
        /\ auth' = auth /\ game' = "push" /\ authCount' = authCount /\ gameCount' = gameCount
        /\ total' = total /\ taken' = taken /\ game = "idle"
    BY <1>1, <1>4, <1>5, <1>7 DEF TypeOK
  <2>5. /\ One(auth' \in {"count", "join"}) = One(auth \in {"count", "join"})
             /\ One(auth \in {"count", "join"}) \in Nat
        /\ One(game' = "push") = 1 /\ One(game = "push") = 0
    BY <2>4 DEF One
  <2>6. authCount' = Cardinality(In(mode', AuthModes)) - One(auth' \in {"count", "join"}) + taken'
    BY <2>3, <2>4, <2>5 DEF Counted
  <2>7. gameCount' = Cardinality(In(mode', GameModes))
    BY <2>3, <2>4 DEF Counted
  <2>8. total' = Cardinality(In(mode', SomeModes)) - One(auth' \in {"count", "join"}) + One(game' = "push") + taken'
    BY <2>3, <2>4, <2>5 DEF Counted
  <2> QED BY <2>6, <2>7, <2>8 DEF Counted
<1>18. Indexed'
  <2>1. free' = free /\ gameAt' = s /\ mode'[s] = "NONE" /\ mode[s] # "NONE" /\ \A x \in Slots : x # s
            => mode'[x] = mode[x]
    BY <1>4, <1>5, <1>7
  <2>2. gameAt = NoSlot
    BY <1>1, <1>4 DEF ThreadInv
  <2> QED BY <1>1, <1>2, <2>1, <2>2 DEF Indexed
<1>19. ASSUME NEW r \in Slots PROVE IOAt(r)'
  <2>3. Handled(workAt', work', r) = Handled(workAt, work, r)
            /\ Recving(workAt', work', r) = Recving(workAt, work, r)
    BY <1>5
  <2>5. Pending(r)' = Pending(r)
    <3>1. CASE r = s
      <4>1. /\ io'[r]["recv"] = 0 /\ io'[r]["send"] = 0 /\ left'[r]["recv"] = left[r]["recv"] + io[r]["recv"]
            /\ left'[r]["send"] = left[r]["send"] + io[r]["send"]
        BY <1>5, <1>8, <3>1
      <4> QED BY <1>2, <3>1, <4>1 DEF Pending
    <3>2. CASE r # s
      <4>1. io'[r] = io[r] /\ left'[r] = left[r]
        BY <1>5, <1>8, <3>2
      <4> QED BY <1>2, <3>2, <4>1 DEF Pending
    <3> QED BY <3>1, <3>2
  <2>6. IOAt(r) /\ IONat(r)
    BY <1>1, <1>2
  <2>7. ioCount'[r] = Pending(r)' + Cardinality(Handled(workAt', work', r)) + Cardinality(Recving(workAt', work', r))
                     + One(sendAt' = r /\ send' \in {"peek", "post", "fail"}) + One(authAt' = r /\ auth' = "join")
    <3>1. /\ NoSlot \notin Slots /\ auth' = auth /\ authAt' = authAt /\ send' = send /\ sendAt' = sendAt
          /\ ioCount'[r] = ioCount[r]
      BY <1>2, <1>4, <1>5, <1>7
    <3> QED BY <1>1, <1>3, <2>3, <2>5, <2>6, <3>1 DEF ThreadInv, IOAt, IONat, One
  <2> QED BY <2>7 DEF IOAt, Handled, Recving, One
<1>20. ASSUME NEW r \in Slots PROVE SlotInv(r)'
  <2>1. OneSend(r) /\ Empty(r) /\ Told(r) /\ Own(r) /\ Alone(r) /\ OneRecv(r) /\ Fresh(r) /\ Heard(r) /\ Ended(r)
    BY <1>1 DEF SlotInv
  <2>2. OneSend(r)'
    <3>1. CASE r = s
      <4>1. /\ sendAt' = sendAt /\ sending' = sending /\ io'[r]["recv"] = 0 /\ io'[r]["send"] = 0
            /\ left'[r]["recv"] = left[r]["recv"] + io[r]["recv"]
            /\ left'[r]["send"] = left[r]["send"] + io[r]["send"] /\ work' = work /\ workAt' = workAt
        BY <1>5, <1>7, <3>1, <1>8
      <4> QED BY <1>1, <1>2, <1>3, <1>4, <2>1, <3>1, <4>1 DEF OneSend, Sent
    <3>2. CASE r # s
      <4>1. /\ sendAt' = sendAt /\ sending' = sending /\ io'[r] = io[r] /\ left'[r] = left[r] /\ work' = work
            /\ workAt' = workAt
        BY <1>2, <1>5, <1>7, <3>2, <1>8
      <4> QED BY <1>2, <2>1, <3>2, <4>1 DEF OneSend, Sent
    <3> QED BY <3>1, <3>2
  <2>3. Empty(r)'
    BY <1>1, <1>2, <1>3, <1>4, <1>5, <1>7, <1>8, <1>9, <1>10, <2>1 DEF Empty
  <2>4. Told(r)'
    <3>1. /\ info[s] \in Conns /\ \A x : x \in told'[info[s]] <=> x \in told[info[s]] \/ x = "release"
          /\ \A x \in Conns : x # info[s] => told'[x] = told[x]
      BY <1>4, <1>7
    <3>2. CASE r = s
      <4>1. Told(s)
        BY <1>3
      <4>2. mode'[r] = "NONE"
        BY <1>5, <1>7, <3>2
      <4> QED BY <1>4, <3>1, <3>2, <4>1, <4>2 DEF Told
    <3>3. CASE r # s
      <4>1. Told(r) /\ mode'[r] = mode[r] /\ info'[r] = info[r]
        BY <1>5, <1>7, <2>1, <3>3
      <4>2. mode[r] # "NONE" => info[r] \in Conns /\ info[r] # info[s]
        BY <1>1, <1>2, <1>3, <1>4, <3>3 DEF Used
      <4>3. mode[r] # "NONE" => told'[info[r]] = told[info[r]]
        BY <3>1, <4>2
      <4> QED BY <4>1, <4>3 DEF Told
    <3> QED BY <3>2, <3>3
  <2>5. Own(r)'
    <3>1. CASE r = s
      <4>1. sendQ'[r] = <<>> /\ info'[r] = NoConn
        BY <1>5, <1>7, <3>1
      <4> QED BY <1>1, <1>2, <1>3, <1>4, <2>1, <3>1, <4>1 DEF Own
    <3>2. CASE r # s
      <4>1. sendQ'[r] = sendQ[r] /\ info'[r] = info[r]
        BY <1>2, <1>5, <1>7, <3>2
      <4> QED BY <1>2, <2>1, <3>2, <4>1 DEF Own
    <3> QED BY <3>1, <3>2
  <2>6. Alone(r)'
    BY <1>1, <1>2, <1>3, <1>4, <1>5, <1>7, <1>8, <1>9, <1>10, <2>1 DEF Alone, Clean
  <2>7. OneRecv(r)'
    BY <1>1, <1>2, <1>3, <1>4, <1>5, <1>7, <1>8, <1>9, <1>10, <2>1 DEF OneRecv, Clean, Recv
  <2>8. Fresh(r)'
    BY <1>1, <1>2, <1>3, <1>4, <1>5, <1>7, <1>8, <1>9, <1>10, <2>1 DEF Fresh, Clean, Joining, Posting,
       Quiet, Steps
  <2>9. Heard(r)'
    <3>1. CASE r = s
      <4>1. /\ mode'[r] = "NONE" /\ info'[r] = NoConn /\ heirs' = heirs /\ authAt' = authAt /\ auth' = auth
            /\ io'[r]["recv"] = 0 /\ io'[r]["send"] = 0 /\ work' = work /\ workAt' = workAt
        BY <1>5, <1>7, <3>1, <1>8
      <4> QED BY <1>1, <1>2, <1>3, <1>4, <2>1, <3>1, <1>10, <4>1 DEF Heard, Clean, Joining, Recv
    <3>2. CASE r # s
      <4>1. /\ mode'[r] = mode[r] /\ info'[r] = info[r] /\ heirs' = heirs /\ authAt' = authAt /\ auth' = auth
            /\ io'[r] = io[r] /\ work' = work /\ workAt' = workAt
        BY <1>2, <1>5, <1>7, <3>2, <1>8
      <4>2. mode[r] # "NONE" => sock'[info[r]] = sock[info[r]]
        BY <1>7, <1>9, <3>2
      <4> QED BY <1>2, <2>1, <3>2, <1>10, <4>1, <4>2 DEF Heard, Clean, Joining, Recv
    <3> QED BY <3>1, <3>2
  <2>10. Ended(r)'
    <3>1. CASE r = s
      <4>1. /\ mode'[r] = "NONE" /\ info'[r] = NoConn /\ heirs' = heirs /\ logout'[r] = FALSE
            /\ sendAt' = sendAt /\ send' = send /\ work' = work /\ workAt' = workAt /\ io'[r]["recv"] = 0
            /\ io'[r]["send"] = 0 /\ authAt' = authAt /\ auth' = auth
        BY <1>5, <1>7, <3>1, <1>8
      <4> QED BY <1>1, <1>2, <1>3, <1>4, <2>1, <3>1, <1>10, <4>1 DEF Ended, Clean, Over, Quiet, Joining
    <3>2. CASE r # s
      <4>1. /\ mode'[r] = mode[r] /\ info'[r] = info[r] /\ heirs' = heirs /\ sendAt' = sendAt /\ send' = send
            /\ work' = work /\ workAt' = workAt /\ io'[r] = io[r] /\ authAt' = authAt /\ auth' = auth
            /\ (logout'[r] <=> logout[r])
        BY <1>2, <1>5, <1>7, <3>2, <1>8
      <4>2. mode[r] # "NONE" => sock'[info[r]] = sock[info[r]]
        BY <1>7, <1>9, <3>2
      <4> QED BY <1>2, <2>1, <3>2, <1>10, <4>1, <4>2 DEF Ended, Clean, Over, Quiet, Joining
    <3> QED BY <3>1, <3>2
  <2> QED BY <2>2, <2>3, <2>4, <2>5, <2>6, <2>7, <2>8, <2>9, <2>10 DEF SlotInv
<1> QED BY <1>11, <1>12, <1>13, <1>14, <1>15, <1>16, <1>17, <1>18, <1>19, <1>20 DEF IInv

LEMMA GamePushStep ==
  ASSUME ConstantsOK, IInv, GamePush
  PROVE  IInv'
<1>1. /\ TypeOK /\ ThreadInv /\ Bounded /\ GameLeft /\ Used /\ Steps /\ Counted /\ Indexed
      /\ \A r \in Slots : IOAt(r) /\ SlotInv(r)
  BY DEF IInv
<1>2. /\ {authAt, blank, gameAt, sendAt} \subseteq Slots \cup {NoSlot} /\ NoSlot \notin Slots /\ NoConn \notin Conns
      /\ (\A i \in DOMAIN queue : queue[i] \in Conns) /\ (\A i \in DOMAIN free : free[i] \in Slots)
      /\ \A r \in Slots : (mode[r] # "NONE" <=> info[r] # NoConn) /\ (mode[r] # "NONE" <=> info[r] \in Conns)
  BY <1>1, StateTypes
<1>3. /\ gameAt \in Slots /\ IOAt(gameAt) /\ OneSend(gameAt) /\ Empty(gameAt) /\ Told(gameAt) /\ Own(gameAt)
      /\ Alone(gameAt) /\ OneRecv(gameAt) /\ Fresh(gameAt) /\ Heard(gameAt) /\ Ended(gameAt)
  <2>1. gameAt \in Slots
    BY <1>1, <1>2 DEF GamePush, Game, ThreadInv
  <2> QED BY <1>1, <2>1 DEF SlotInv
<1>4. game = "push" /\ mode[gameAt] = "NONE"
  BY <1>1, <1>2, <1>3 DEF GamePush, Game, Steps, Used, ThreadInv
<1>5. UNCHANGED <<sock, queue, mode, info, toGame, inbox, authCount, gameCount, told, sendQ, sending,
        sendCount, ioCount, io, left, logout, stuck, auth, authAt, blank, send, sendAt, toSend, work,
        workAt, heirs, taken, down>>
  BY DEF GamePush, Game, authT, conns, got, lines, sendT, workT
<1>7. /\ free' = <<gameAt>> \o free
      /\ total' = total - 1
      /\ game' = "idle"
      /\ gameAt' = NoSlot
  BY <1>1, <1>2, <1>3, <1>4 DEF GamePush, Game, TypeOK
<1>8. TypeOK'
  <2>1. free' \in Seq(Slots)
    BY <1>1, <1>2, <1>3, <1>4, <1>7 DEF TypeOK
  <2>2. total' \in Nat
    <3>1. total \in Nat /\ taken \in Nat /\ total' = total - 1
      BY <1>1, <1>7 DEF TypeOK
    <3>2. total > 0
      <4>1. Cardinality(In(mode, SomeModes)) \in Nat
                /\ (auth \in {"count", "join"} => Cardinality(In(mode, SomeModes)) > 0)
        BY <1>1, <1>2, <1>3, <1>4, ConstantsOK, InNat DEF AuthModes, GameModes, SomeModes, Modes, Steps, ThreadInv
      <4> QED BY <1>1, <1>4, <3>1, <4>1 DEF Counted, One, ThreadInv
    <3> QED BY <3>1, <3>2
  <2>3. game' \in {"idle", "out", "push"}
    BY <1>1, <1>2, <1>3, <1>4, <1>7 DEF TypeOK
  <2>4. gameAt' \in Slots \cup {NoSlot}
    BY <1>1, <1>2, <1>3, <1>4, <1>7 DEF TypeOK
  <2>5. {authAt', blank', gameAt', sendAt'} \subseteq Slots \cup {NoSlot}
    BY <1>2, <1>5, <2>1, <2>2, <2>3, <2>4
  <2> QED BY <1>1, <1>5, <2>1, <2>2, <2>3, <2>4, <2>5 DEF TypeOK
<1>9. Bounded' /\ GameLeft' /\ Used'
  BY <1>1, <1>5 DEF Bounded, GameLeft, Used
<1>10. ThreadInv'
  BY <1>1, <1>2, <1>3, <1>4, <1>5, <1>7 DEF ThreadInv
<1>11. Steps'
  BY <1>1, <1>2, <1>3, <1>4, <1>5, <1>7 DEF Steps, ThreadInv
<1>12. Counted'
  <2>1. /\ Counted /\ authCount \in Nat /\ gameCount \in Nat /\ total \in Nat /\ taken \in Nat
        /\ Cardinality(In(mode, AuthModes)) \in Nat /\ Cardinality(In(mode, GameModes)) \in Nat
             /\ Cardinality(In(mode, SomeModes)) \in Nat
    BY <1>1, ConstantsOK, InNat DEF TypeOK
  <2>2. mode' = mode /\ auth' = auth /\ game' = "idle" /\ authCount' = authCount
        /\ gameCount' = gameCount /\ total' = total - 1 /\ taken' = taken /\ game = "push"
    BY <1>4, <1>5, <1>7
  <2> QED BY <2>1, <2>2 DEF Counted, One
<1>13. Indexed'
  <2>1. free \in Seq(Slots) /\ gameAt \in Slots /\ <<gameAt>> \in Seq(Slots) /\ Len(<<gameAt>>) = 1
    BY <1>1, <1>3 DEF TypeOK
  <2>2. free' = <<gameAt>> \o free
    BY <1>7
  <2>3. /\ Len(free') = 1 + Len(free) /\ Len(free) \in Nat /\ free' \in Seq(Slots)
        /\ \A i \in 1..(1 + Len(free)) : free'[i] = IF i <= 1 THEN <<gameAt>>[i] ELSE free[i - 1]
    BY <2>1, <2>2, ConcatProperties
  <2>4. DOMAIN free' = 1..(1 + Len(free)) /\ DOMAIN free = 1..Len(free)
    BY <2>1, <2>3
  <2>5. free'[1] = gameAt
    BY <2>1, <2>3
  <2>6. \A i \in DOMAIN free' : i = 1 \/ (i - 1 \in DOMAIN free /\ free'[i] = free[i - 1])
    BY <2>3, <2>4
  <2>7. \A i \in DOMAIN free : i + 1 \in DOMAIN free' /\ free'[i + 1] = free[i]
    BY <2>3, <2>4
  <2>8. mode' = mode /\ gameAt' = NoSlot /\ NoSlot \notin Slots /\ mode[gameAt] = "NONE"
    BY <1>2, <1>4, <1>5, <1>7
  <2>9. \A i \in DOMAIN free : mode[free[i]] = "NONE" /\ free[i] # gameAt /\ free[i] \in Slots
    BY <1>1, <1>2 DEF Indexed
  <2>10. \A i \in DOMAIN free' : mode'[free'[i]] = "NONE" /\ free'[i] # gameAt'
    BY <2>1, <2>5, <2>6, <2>8, <2>9
  <2>11. ASSUME NEW x \in Slots, mode'[x] = "NONE" PROVE \E i \in DOMAIN free' : free'[i] = x
    <3>1. CASE x = gameAt
      <4>1. 1 \in DOMAIN free'
        BY <2>3, <2>4
      <4> QED BY <2>5, <3>1, <4>1
    <3>2. CASE x # gameAt
      <4>1. PICK i \in DOMAIN free : free[i] = x
        BY <1>1, <2>8, <2>11, <3>2 DEF Indexed
      <4> QED BY <2>7, <4>1
    <3> QED BY <3>1, <3>2
  <2>12. ASSUME NEW i \in DOMAIN free', NEW j \in DOMAIN free', free'[i] = free'[j] PROVE i = j
    <3>1. i \in Int /\ j \in Int
      BY <2>3, <2>4
    <3>2. i = 1 <=> j = 1
      BY <2>5, <2>6, <2>9, <2>12
    <3>3. CASE i # 1
      <4>1. i - 1 = j - 1
        BY <1>1, <2>6, <2>12, <3>2, <3>3 DEF Indexed
      <4> QED BY <3>1, <4>1
    <3> QED BY <3>2, <3>3
  <2> QED BY <2>10, <2>11, <2>12 DEF Indexed
<1>14. ASSUME NEW r \in Slots PROVE IOAt(r)'
  <2>1. /\ Pending(r)' = Pending(r) /\ Handled(workAt', work', r) = Handled(workAt, work, r)
        /\ Recving(workAt', work', r) = Recving(workAt, work, r)
    BY <1>5 DEF Pending
  <2>2. IOAt(r)
    BY <1>1
  <2> QED BY <1>5, <2>1, <2>2 DEF IOAt, Handled, Recving, One
<1>15. ASSUME NEW r \in Slots PROVE SlotInv(r)'
  <2>1. OneSend(r) /\ Empty(r) /\ Told(r) /\ Own(r) /\ Alone(r) /\ OneRecv(r) /\ Fresh(r) /\ Heard(r) /\ Ended(r)
    BY <1>1 DEF SlotInv
  <2>2. OneSend(r)' /\ Empty(r)' /\ Told(r)' /\ Own(r)'
    BY <1>5, <2>1 DEF OneSend, Sent, Empty, Told, Own
  <2>3. Alone(r)' /\ OneRecv(r)' /\ Fresh(r)' /\ Heard(r)' /\ Ended(r)'
    BY <1>5, <2>1 DEF Alone, Clean, OneRecv, Recv, Fresh, Joining, Posting, Quiet, Heard, Ended, Over
  <2> QED BY <2>2, <2>3 DEF SlotInv
<1> QED BY <1>8, <1>9, <1>10, <1>11, <1>12, <1>13, <1>14, <1>15 DEF IInv

LEMMA SendStartStep ==
  ASSUME ConstantsOK, IInv, NEW s \in Slots, SendStart(s)
  PROVE  IInv'
<1>1. /\ TypeOK /\ ThreadInv /\ Bounded /\ GameLeft /\ Used /\ Steps /\ Counted /\ Indexed
      /\ \A r \in Slots : IOAt(r) /\ SlotInv(r)
  BY DEF IInv
<1>2. /\ {authAt, blank, gameAt, sendAt} \subseteq Slots \cup {NoSlot} /\ NoSlot \notin Slots /\ NoConn \notin Conns
      /\ \A r \in Slots : (mode[r] # "NONE" <=> info[r] # NoConn) /\ (mode[r] # "NONE" <=> info[r] \in Conns)
      /\ \A r \in Slots : IONat(r)
  BY <1>1, StateTypes
<1>3. /\ s \in Slots /\ IOAt(s) /\ OneSend(s) /\ Empty(s) /\ Told(s) /\ Own(s)
      /\ Alone(s) /\ OneRecv(s) /\ Fresh(s) /\ Heard(s) /\ Ended(s)
  BY <1>1 DEF SlotInv
<1>4. send = "idle" /\ ~sending[s]
  BY <1>1, <1>2, <1>3 DEF SendStart, Send, Steps, Used, ThreadInv
<1>5. UNCHANGED <<sock, queue, mode, info, toGame, inbox, free, authCount, gameCount, total, told,
        sendQ, sendCount, ioCount, io, left, logout, stuck, auth, authAt, blank, game, gameAt, toSend,
        work, workAt, heirs, taken, down>>
  BY DEF SendStart, Send, authT, conns, flow, gameT, got, workT
<1>6. sending' = [sending EXCEPT ![s] = TRUE]
  BY DEF SendStart, Send
<1>7. /\ sending'[s] = TRUE /\ \A x \in Slots : x # s => sending'[x] = sending[x]
      /\ send' = "mode"
      /\ sendAt' = s
  BY <1>1, <1>2, <1>3, <1>4, <1>6 DEF SendStart, Send, TypeOK
<1>8. TypeOK'
  <2>1. sending' \in [Slots -> BOOLEAN]
    BY <1>1, <1>2, <1>3, <1>4, <1>6 DEF TypeOK
  <2>2. send' \in {"idle", "mode", "size", "inc", "peek", "post", "fail", "log", "unsend"}
    BY <1>1, <1>2, <1>3, <1>4, <1>7 DEF TypeOK
  <2>3. sendAt' \in Slots \cup {NoSlot}
    BY <1>1, <1>2, <1>3, <1>4, <1>7 DEF TypeOK
  <2>4. {authAt', blank', gameAt', sendAt'} \subseteq Slots \cup {NoSlot}
    BY <1>2, <1>5, <2>1, <2>2, <2>3
  <2> QED BY <1>1, <1>5, <2>1, <2>2, <2>3, <2>4 DEF TypeOK
<1>9. Bounded' /\ GameLeft' /\ Used'
  BY <1>1, <1>5 DEF Bounded, GameLeft, Used
<1>10. Steps' /\ Indexed'
  BY <1>1, <1>5 DEF Steps, Indexed
<1>11. Counted'
  BY <1>1, <1>5 DEF Counted
<1>12. ThreadInv'
  BY <1>1, <1>2, <1>3, <1>4, <1>5, <1>7 DEF ThreadInv
<1>13. ASSUME NEW r \in Slots PROVE IOAt(r)'
  <2>3. Handled(workAt', work', r) = Handled(workAt, work, r)
            /\ Recving(workAt', work', r) = Recving(workAt, work, r)
    BY <1>5
  <2>5. Pending(r)' = Pending(r)
    BY <1>5 DEF Pending
  <2>6. IOAt(r) /\ IONat(r)
    BY <1>1, <1>2
  <2>7. ioCount'[r] = Pending(r)' + Cardinality(Handled(workAt', work', r)) + Cardinality(Recving(workAt', work', r))
                     + One(sendAt' = r /\ send' \in {"peek", "post", "fail"}) + One(authAt' = r /\ auth' = "join")
    <3>1. /\ NoSlot \notin Slots /\ auth' = auth /\ authAt' = authAt /\ send' = "mode" /\ sendAt' = s
          /\ send = "idle" /\ ioCount'[r] = ioCount[r]
      BY <1>2, <1>4, <1>5, <1>7
    <3> QED BY <1>1, <1>3, <2>3, <2>5, <2>6, <3>1 DEF ThreadInv, IOAt, IONat, One
  <2> QED BY <2>7 DEF IOAt, Handled, Recving, One
<1>14. ASSUME NEW r \in Slots PROVE SlotInv(r)'
  <2>1. OneSend(r) /\ Empty(r) /\ Told(r) /\ Own(r) /\ Alone(r) /\ OneRecv(r) /\ Fresh(r) /\ Heard(r) /\ Ended(r)
    BY <1>1 DEF SlotInv
  <2>2. Empty(r)' /\ Told(r)' /\ Own(r)' /\ Alone(r)'
    BY <1>5, <2>1 DEF Empty, Told, Own, Alone, Clean
  <2>3. OneRecv(r)' /\ Heard(r)'
    BY <1>5, <2>1 DEF OneRecv, Clean, Recv, Heard, Joining
  <2>4. OneSend(r)'
    BY <1>1, <1>2, <1>3, <1>4, <1>5, <1>7, <2>1 DEF OneSend, Sent
  <2>5. Fresh(r)'
    BY <1>1, <1>2, <1>3, <1>4, <1>5, <1>7, <2>1 DEF Fresh, Clean, Joining, Posting, Quiet
  <2>6. Ended(r)'
    BY <1>1, <1>2, <1>3, <1>4, <1>5, <1>7, <2>1 DEF Ended, Clean, Over, Quiet, Joining
  <2> QED BY <2>2, <2>3, <2>4, <2>5, <2>6 DEF SlotInv
<1> QED BY <1>8, <1>9, <1>10, <1>11, <1>12, <1>13, <1>14 DEF IInv

LEMMA SendModeStep ==
  ASSUME ConstantsOK, IInv, SendMode
  PROVE  IInv'
<1>1. /\ TypeOK /\ ThreadInv /\ Bounded /\ GameLeft /\ Used /\ Steps /\ Counted /\ Indexed
      /\ \A r \in Slots : IOAt(r) /\ SlotInv(r)
  BY DEF IInv
<1>2. /\ {authAt, blank, gameAt, sendAt} \subseteq Slots \cup {NoSlot} /\ NoSlot \notin Slots /\ NoConn \notin Conns
      /\ \A r \in Slots : (mode[r] # "NONE" <=> info[r] # NoConn) /\ (mode[r] # "NONE" <=> info[r] \in Conns)
      /\ \A r \in Slots : IONat(r)
  BY <1>1, StateTypes
<1>3. /\ sendAt \in Slots /\ IOAt(sendAt) /\ OneSend(sendAt) /\ Empty(sendAt) /\ Told(sendAt) /\ Own(sendAt)
      /\ Alone(sendAt) /\ OneRecv(sendAt) /\ Fresh(sendAt) /\ Heard(sendAt) /\ Ended(sendAt)
  <2>1. sendAt \in Slots
    BY <1>1, <1>2 DEF SendMode, SendGoes, Send, ThreadInv
  <2> QED BY <1>1, <2>1 DEF SlotInv
<1>4. send = "mode"
  BY <1>1, <1>2, <1>3 DEF SendMode, SendGoes, Send, Steps, Used, ThreadInv
<1>5. UNCHANGED <<sock, queue, mode, info, toGame, inbox, free, authCount, gameCount, total, told,
        sendQ, sending, sendCount, ioCount, io, left, logout, stuck, auth, authAt, blank, game,
        gameAt, sendAt, toSend, work, workAt, heirs, taken, down>>
  BY DEF SendMode, SendGoes, Send, authT, conns, flow, gameT, got, lines, workT
<1>7. send' = IF mode[sendAt] \in {"AUTH", "GAME"} THEN "size" ELSE "unsend"
  BY <1>1, <1>2, <1>3, <1>4 DEF SendMode, SendGoes, Send, TypeOK
<1>8. TypeOK'
  <2>1. send' \in {"idle", "mode", "size", "inc", "peek", "post", "fail", "log", "unsend"}
    BY <1>1, <1>2, <1>3, <1>4, <1>7 DEF TypeOK
  <2> QED BY <1>1, <1>5, <2>1 DEF TypeOK
<1>9. Bounded' /\ GameLeft' /\ Used'
  BY <1>1, <1>5 DEF Bounded, GameLeft, Used
<1>10. Steps' /\ Indexed'
  BY <1>1, <1>5 DEF Steps, Indexed
<1>11. Counted'
  BY <1>1, <1>5 DEF Counted
<1>12. ThreadInv'
  BY <1>1, <1>2, <1>3, <1>4, <1>5, <1>7 DEF ThreadInv
<1>13. ASSUME NEW r \in Slots PROVE IOAt(r)'
  <2>3. Handled(workAt', work', r) = Handled(workAt, work, r)
            /\ Recving(workAt', work', r) = Recving(workAt, work, r)
    BY <1>5
  <2>5. Pending(r)' = Pending(r)
    BY <1>5 DEF Pending
  <2>6. IOAt(r) /\ IONat(r)
    BY <1>1, <1>2
  <2>7. ioCount'[r] = Pending(r)' + Cardinality(Handled(workAt', work', r)) + Cardinality(Recving(workAt', work', r))
                     + One(sendAt' = r /\ send' \in {"peek", "post", "fail"}) + One(authAt' = r /\ auth' = "join")
    <3>1. /\ NoSlot \notin Slots /\ auth' = auth /\ authAt' = authAt /\ sendAt' = sendAt /\ send = "mode"
          /\ ioCount'[r] = ioCount[r]
          /\ send' = IF mode[sendAt] \in {"AUTH", "GAME"} THEN "size" ELSE "unsend"
      BY <1>2, <1>4, <1>5, <1>7
    <3> QED BY <1>1, <1>3, <2>3, <2>5, <2>6, <3>1 DEF ThreadInv, IOAt, IONat, One
  <2> QED BY <2>7 DEF IOAt, Handled, Recving, One
<1>14. ASSUME NEW r \in Slots PROVE SlotInv(r)'
  <2>1. OneSend(r) /\ Empty(r) /\ Told(r) /\ Own(r) /\ Alone(r) /\ OneRecv(r) /\ Fresh(r) /\ Heard(r) /\ Ended(r)
    BY <1>1 DEF SlotInv
  <2>2. OneSend(r)' /\ Empty(r)' /\ Told(r)' /\ Own(r)'
    BY <1>5, <2>1 DEF OneSend, Sent, Empty, Told, Own
  <2>3. Alone(r)' /\ OneRecv(r)' /\ Heard(r)'
    BY <1>5, <2>1 DEF Alone, Clean, OneRecv, Recv, Heard, Joining
  <2>4. Fresh(r)'
    BY <1>1, <1>2, <1>3, <1>4, <1>5, <1>7, <2>1 DEF Fresh, Clean, Joining, Posting, Quiet
  <2>5. Ended(r)'
    BY <1>1, <1>2, <1>3, <1>4, <1>5, <1>7, <2>1 DEF Ended, Clean, Over, Quiet, Joining
  <2> QED BY <2>2, <2>3, <2>4, <2>5 DEF SlotInv
<1> QED BY <1>8, <1>9, <1>10, <1>11, <1>12, <1>13, <1>14 DEF IInv

LEMMA SendSizeStep ==
  ASSUME ConstantsOK, IInv, SendSize
  PROVE  IInv'
<1>1. /\ TypeOK /\ ThreadInv /\ Bounded /\ GameLeft /\ Used /\ Steps /\ Counted /\ Indexed
      /\ \A r \in Slots : IOAt(r) /\ SlotInv(r)
  BY DEF IInv
<1>2. /\ {authAt, blank, gameAt, sendAt} \subseteq Slots \cup {NoSlot} /\ NoSlot \notin Slots /\ NoConn \notin Conns
      /\ \A r \in Slots : (mode[r] # "NONE" <=> info[r] # NoConn) /\ (mode[r] # "NONE" <=> info[r] \in Conns)
      /\ \A r \in Slots : IONat(r)
  BY <1>1, StateTypes
<1>3. /\ sendAt \in Slots /\ IOAt(sendAt) /\ OneSend(sendAt) /\ Empty(sendAt) /\ Told(sendAt) /\ Own(sendAt)
      /\ Alone(sendAt) /\ OneRecv(sendAt) /\ Fresh(sendAt) /\ Heard(sendAt) /\ Ended(sendAt)
  <2>1. sendAt \in Slots
    BY <1>1, <1>2 DEF SendSize, SendGoes, Send, ThreadInv
  <2> QED BY <1>1, <2>1 DEF SlotInv
<1>4. send = "size"
  BY <1>1, <1>2, <1>3 DEF SendSize, SendGoes, Send, Steps, Used, ThreadInv
<1>5. UNCHANGED <<sock, queue, mode, info, toGame, inbox, free, authCount, gameCount, total, told,
        sendQ, sending, sendCount, ioCount, io, left, logout, stuck, auth, authAt, blank, game,
        gameAt, sendAt, toSend, work, workAt, heirs, taken, down>>
  BY DEF SendSize, SendGoes, Send, authT, conns, flow, gameT, got, lines, workT
<1>7. send' = IF sendQ[sendAt] = <<>> THEN "unsend" ELSE "inc"
  BY <1>1, <1>2, <1>3, <1>4 DEF SendSize, SendGoes, Send, TypeOK
<1>8. TypeOK'
  <2>1. send' \in {"idle", "mode", "size", "inc", "peek", "post", "fail", "log", "unsend"}
    BY <1>1, <1>2, <1>3, <1>4, <1>7 DEF TypeOK
  <2> QED BY <1>1, <1>5, <2>1 DEF TypeOK
<1>9. Bounded' /\ GameLeft' /\ Used'
  BY <1>1, <1>5 DEF Bounded, GameLeft, Used
<1>10. Steps' /\ Indexed'
  BY <1>1, <1>5 DEF Steps, Indexed
<1>11. Counted'
  BY <1>1, <1>5 DEF Counted
<1>12. ThreadInv'
  BY <1>1, <1>2, <1>3, <1>4, <1>5, <1>7 DEF ThreadInv
<1>13. ASSUME NEW r \in Slots PROVE IOAt(r)'
  <2>3. Handled(workAt', work', r) = Handled(workAt, work, r)
            /\ Recving(workAt', work', r) = Recving(workAt, work, r)
    BY <1>5
  <2>5. Pending(r)' = Pending(r)
    BY <1>5 DEF Pending
  <2>6. IOAt(r) /\ IONat(r)
    BY <1>1, <1>2
  <2>7. ioCount'[r] = Pending(r)' + Cardinality(Handled(workAt', work', r)) + Cardinality(Recving(workAt', work', r))
                     + One(sendAt' = r /\ send' \in {"peek", "post", "fail"}) + One(authAt' = r /\ auth' = "join")
    <3>1. /\ NoSlot \notin Slots /\ auth' = auth /\ authAt' = authAt /\ sendAt' = sendAt /\ send = "size"
          /\ ioCount'[r] = ioCount[r]
          /\ send' = IF sendQ[sendAt] = <<>> THEN "unsend" ELSE "inc"
      BY <1>2, <1>4, <1>5, <1>7
    <3> QED BY <1>1, <1>3, <2>3, <2>5, <2>6, <3>1 DEF ThreadInv, IOAt, IONat, One
  <2> QED BY <2>7 DEF IOAt, Handled, Recving, One
<1>14. ASSUME NEW r \in Slots PROVE SlotInv(r)'
  <2>1. OneSend(r) /\ Empty(r) /\ Told(r) /\ Own(r) /\ Alone(r) /\ OneRecv(r) /\ Fresh(r) /\ Heard(r) /\ Ended(r)
    BY <1>1 DEF SlotInv
  <2>2. OneSend(r)' /\ Empty(r)' /\ Told(r)' /\ Own(r)'
    BY <1>5, <2>1 DEF OneSend, Sent, Empty, Told, Own
  <2>3. Alone(r)' /\ OneRecv(r)' /\ Heard(r)'
    BY <1>5, <2>1 DEF Alone, Clean, OneRecv, Recv, Heard, Joining
  <2>4. Fresh(r)'
    BY <1>1, <1>2, <1>3, <1>4, <1>5, <1>7, <2>1 DEF Fresh, Clean, Joining, Posting, Quiet
  <2>5. Ended(r)'
    BY <1>1, <1>2, <1>3, <1>4, <1>5, <1>7, <2>1 DEF Ended, Clean, Over, Quiet, Joining
  <2> QED BY <2>2, <2>3, <2>4, <2>5 DEF SlotInv
<1> QED BY <1>8, <1>9, <1>10, <1>11, <1>12, <1>13, <1>14 DEF IInv

LEMMA SendIncStep ==
  ASSUME ConstantsOK, IInv, SendInc
  PROVE  IInv'
<1>1. /\ TypeOK /\ ThreadInv /\ Bounded /\ GameLeft /\ Used /\ Steps /\ Counted /\ Indexed
      /\ \A r \in Slots : IOAt(r) /\ SlotInv(r)
  BY DEF IInv
<1>2. /\ {authAt, blank, gameAt, sendAt} \subseteq Slots \cup {NoSlot} /\ NoSlot \notin Slots /\ NoConn \notin Conns
      /\ \A r \in Slots : (mode[r] # "NONE" <=> info[r] # NoConn) /\ (mode[r] # "NONE" <=> info[r] \in Conns)
      /\ \A r \in Slots : IONat(r)
  BY <1>1, StateTypes
<1>3. /\ sendAt \in Slots /\ IOAt(sendAt) /\ OneSend(sendAt) /\ Empty(sendAt) /\ Told(sendAt) /\ Own(sendAt)
      /\ Alone(sendAt) /\ OneRecv(sendAt) /\ Fresh(sendAt) /\ Heard(sendAt) /\ Ended(sendAt)
  <2>1. sendAt \in Slots
    BY <1>1, <1>2 DEF SendInc, IncIO, Send, ThreadInv
  <2> QED BY <1>1, <2>1 DEF SlotInv
<1>4. send = "inc"
  BY <1>1, <1>2, <1>3 DEF SendInc, IncIO, Send, Steps, Used, ThreadInv
<1>5. UNCHANGED <<sock, queue, mode, info, toGame, inbox, free, authCount, gameCount, total, told,
        sendQ, sending, sendCount, io, left, logout, stuck, auth, authAt, blank, game, gameAt, sendAt,
        work, workAt, heirs, taken, down>>
  BY DEF SendInc, IncIO, Send, authT, conns, flow, gameT, got, workT
<1>6. ioCount' = [ioCount EXCEPT ![sendAt] = ioCount[sendAt] + 1]
  BY DEF SendInc, IncIO, Send
<1>7. /\ ioCount'[sendAt] = (ioCount[sendAt] + 1) /\ \A x \in Slots : x # sendAt => ioCount'[x] = ioCount[x]
      /\ toSend' = Len(sendQ[sendAt])
      /\ send' = "peek"
  BY <1>1, <1>2, <1>3, <1>4, <1>6 DEF SendInc, IncIO, Send, TypeOK
<1>8. TypeOK'
  <2>1. ioCount' \in [Slots -> Nat]
    <3>1. ioCount \in [Slots -> Nat]
      BY <1>1 DEF TypeOK
    <3> QED BY <1>2, <1>3, <1>4, <1>6, <3>1
  <2>2. toSend' \in 0..MaxOut
    <3>1. sendQ[sendAt] \in Seq(Conns) /\ Len(sendQ[sendAt]) <= MaxOut
      BY <1>1, <1>3 DEF TypeOK, Bounded
    <3>2. MaxOut \in Nat /\ Len(sendQ[sendAt]) \in Nat
      BY <3>1, ConstantsOK DEF ConstantsOK
    <3>3. toSend' = Len(sendQ[sendAt])
      BY <1>7
    <3> QED BY <3>1, <3>2, <3>3
  <2>3. send' \in {"idle", "mode", "size", "inc", "peek", "post", "fail", "log", "unsend"}
    BY <1>1, <1>2, <1>3, <1>4, <1>7 DEF TypeOK
  <2> QED BY <1>1, <1>5, <2>1, <2>2, <2>3 DEF TypeOK
<1>9. Bounded' /\ GameLeft' /\ Used'
  BY <1>1, <1>5 DEF Bounded, GameLeft, Used
<1>10. Steps' /\ Indexed'
  BY <1>1, <1>5 DEF Steps, Indexed
<1>11. Counted'
  BY <1>1, <1>5 DEF Counted
<1>12. ThreadInv'
  BY <1>1, <1>2, <1>3, <1>4, <1>5, <1>7 DEF ThreadInv
<1>13. ASSUME NEW r \in Slots PROVE IOAt(r)'
  <2>3. Handled(workAt', work', r) = Handled(workAt, work, r)
            /\ Recving(workAt', work', r) = Recving(workAt, work, r)
    BY <1>5
  <2>5. Pending(r)' = Pending(r)
    BY <1>5 DEF Pending
  <2>6. IOAt(r) /\ IONat(r)
    BY <1>1, <1>2
  <2>7. ioCount'[r] = Pending(r)' + Cardinality(Handled(workAt', work', r)) + Cardinality(Recving(workAt', work', r))
                     + One(sendAt' = r /\ send' \in {"peek", "post", "fail"}) + One(authAt' = r /\ auth' = "join")
    <3>1. /\ NoSlot \notin Slots /\ auth' = auth /\ authAt' = authAt /\ send' = "peek" /\ sendAt' = sendAt
          /\ send = "inc"
          /\ r = sendAt => ioCount'[r] = ioCount[r] + 1
          /\ r # sendAt => ioCount'[r] = ioCount[r]
      BY <1>2, <1>4, <1>5, <1>7
    <3> QED BY <1>1, <1>3, <2>3, <2>5, <2>6, <3>1 DEF ThreadInv, IOAt, IONat, One
  <2> QED BY <2>7 DEF IOAt, Handled, Recving, One
<1>14. ASSUME NEW r \in Slots PROVE SlotInv(r)'
  <2>1. OneSend(r) /\ Empty(r) /\ Told(r) /\ Own(r) /\ Alone(r) /\ OneRecv(r) /\ Fresh(r) /\ Heard(r) /\ Ended(r)
    BY <1>1 DEF SlotInv
  <2>2. OneSend(r)' /\ Empty(r)' /\ Told(r)' /\ Own(r)'
    BY <1>5, <2>1 DEF OneSend, Sent, Empty, Told, Own
  <2>3. Alone(r)' /\ OneRecv(r)' /\ Heard(r)'
    BY <1>5, <2>1 DEF Alone, Clean, OneRecv, Recv, Heard, Joining
  <2>4. Fresh(r)'
    BY <1>1, <1>2, <1>3, <1>4, <1>5, <1>7, <2>1 DEF Fresh, Clean, Joining, Posting, Quiet
  <2>5. Ended(r)'
    BY <1>1, <1>2, <1>3, <1>4, <1>5, <1>7, <2>1 DEF Ended, Clean, Over, Quiet, Joining
  <2> QED BY <2>2, <2>3, <2>4, <2>5 DEF SlotInv
<1> QED BY <1>8, <1>9, <1>10, <1>11, <1>12, <1>13, <1>14 DEF IInv

LEMMA SendPeekStep ==
  ASSUME ConstantsOK, IInv, SendPeek
  PROVE  IInv'
<1>1. /\ TypeOK /\ ThreadInv /\ Bounded /\ GameLeft /\ Used /\ Steps /\ Counted /\ Indexed
      /\ \A r \in Slots : IOAt(r) /\ SlotInv(r)
  BY DEF IInv
<1>2. /\ {authAt, blank, gameAt, sendAt} \subseteq Slots \cup {NoSlot} /\ NoSlot \notin Slots /\ NoConn \notin Conns
      /\ \A r \in Slots : (mode[r] # "NONE" <=> info[r] # NoConn) /\ (mode[r] # "NONE" <=> info[r] \in Conns)
      /\ \A r \in Slots : IONat(r)
  BY <1>1, StateTypes
<1>3. /\ sendAt \in Slots /\ IOAt(sendAt) /\ OneSend(sendAt) /\ Empty(sendAt) /\ Told(sendAt) /\ Own(sendAt)
      /\ Alone(sendAt) /\ OneRecv(sendAt) /\ Fresh(sendAt) /\ Heard(sendAt) /\ Ended(sendAt)
  <2>1. sendAt \in Slots
    BY <1>1, <1>2 DEF SendPeek, Send, ThreadInv
  <2> QED BY <1>1, <2>1 DEF SlotInv
<1>4. send = "peek"
  BY <1>1, <1>2, <1>3 DEF SendPeek, Send, Steps, Used, ThreadInv
<1>5. UNCHANGED <<sock, queue, mode, info, toGame, inbox, free, authCount, gameCount, total, told,
        sendQ, sending, ioCount, io, left, logout, stuck, auth, authAt, blank, game, gameAt, sendAt,
        toSend, work, workAt, heirs, taken, down>>
  BY DEF SendPeek, Send, authT, conns, flow, gameT, got, workT
<1>6. sendCount' = [sendCount EXCEPT ![sendAt] = toSend]
  BY DEF SendPeek, Send
<1>7. /\ sendCount'[sendAt] = toSend /\ \A x \in Slots : x # sendAt => sendCount'[x] = sendCount[x]
      /\ send' = "post"
  BY <1>1, <1>2, <1>3, <1>4, <1>6 DEF SendPeek, Send, TypeOK
<1>8. TypeOK'
  <2>1. sendCount' \in [Slots -> 0..MaxOut]
    BY <1>1, <1>2, <1>3, <1>4, <1>6, ConstantsOK DEF TypeOK, ConstantsOK
  <2>2. send' \in {"idle", "mode", "size", "inc", "peek", "post", "fail", "log", "unsend"}
    BY <1>1, <1>2, <1>3, <1>4, <1>7 DEF TypeOK
  <2> QED BY <1>1, <1>5, <2>1, <2>2 DEF TypeOK
<1>9. Bounded' /\ GameLeft' /\ Used'
  BY <1>1, <1>5 DEF Bounded, GameLeft, Used
<1>10. Steps' /\ Indexed'
  BY <1>1, <1>5 DEF Steps, Indexed
<1>11. Counted'
  BY <1>1, <1>5 DEF Counted
<1>12. ThreadInv'
  BY <1>1, <1>2, <1>3, <1>4, <1>5, <1>7 DEF ThreadInv
<1>13. ASSUME NEW r \in Slots PROVE IOAt(r)'
  <2>3. Handled(workAt', work', r) = Handled(workAt, work, r)
            /\ Recving(workAt', work', r) = Recving(workAt, work, r)
    BY <1>5
  <2>5. Pending(r)' = Pending(r)
    BY <1>5 DEF Pending
  <2>6. IOAt(r) /\ IONat(r)
    BY <1>1, <1>2
  <2>7. ioCount'[r] = Pending(r)' + Cardinality(Handled(workAt', work', r)) + Cardinality(Recving(workAt', work', r))
                     + One(sendAt' = r /\ send' \in {"peek", "post", "fail"}) + One(authAt' = r /\ auth' = "join")
    <3>1. /\ NoSlot \notin Slots /\ auth' = auth /\ authAt' = authAt /\ send' = "post" /\ sendAt' = sendAt
          /\ send = "peek" /\ ioCount'[r] = ioCount[r]
      BY <1>2, <1>4, <1>5, <1>7
    <3> QED BY <1>1, <1>3, <2>3, <2>5, <2>6, <3>1 DEF ThreadInv, IOAt, IONat, One
  <2> QED BY <2>7 DEF IOAt, Handled, Recving, One
<1>14. ASSUME NEW r \in Slots PROVE SlotInv(r)'
  <2>1. OneSend(r) /\ Empty(r) /\ Told(r) /\ Own(r) /\ Alone(r) /\ OneRecv(r) /\ Fresh(r) /\ Heard(r) /\ Ended(r)
    BY <1>1 DEF SlotInv
  <2>2. OneSend(r)' /\ Empty(r)' /\ Told(r)' /\ Own(r)'
    BY <1>5, <2>1 DEF OneSend, Sent, Empty, Told, Own
  <2>3. Alone(r)' /\ OneRecv(r)' /\ Heard(r)'
    BY <1>5, <2>1 DEF Alone, Clean, OneRecv, Recv, Heard, Joining
  <2>4. Fresh(r)'
    BY <1>1, <1>2, <1>3, <1>4, <1>5, <1>7, <2>1 DEF Fresh, Clean, Joining, Posting, Quiet
  <2>5. Ended(r)'
    BY <1>1, <1>2, <1>3, <1>4, <1>5, <1>7, <2>1 DEF Ended, Clean, Over, Quiet, Joining
  <2> QED BY <2>2, <2>3, <2>4, <2>5 DEF SlotInv
<1> QED BY <1>8, <1>9, <1>10, <1>11, <1>12, <1>13, <1>14 DEF IInv

LEMMA SendPostedStep ==
  ASSUME ConstantsOK, IInv, SendPost, Accepted(sendAt), Post(sendAt, "send"), Send("idle", NoSlot),
         UNCHANGED sock
  PROVE  IInv'
<1>1. /\ TypeOK /\ ThreadInv /\ Bounded /\ GameLeft /\ Used /\ Steps /\ Counted /\ Indexed
      /\ \A r \in Slots : IOAt(r) /\ SlotInv(r)
  BY DEF IInv
<1>2. /\ {authAt, blank, gameAt, sendAt} \subseteq Slots \cup {NoSlot} /\ NoSlot \notin Slots /\ NoConn \notin Conns
      /\ \A r \in Slots : (mode[r] # "NONE" <=> info[r] # NoConn) /\ (mode[r] # "NONE" <=> info[r] \in Conns)
      /\ \A r \in Slots : io[r]["recv"] \in Nat /\ io[r]["send"] \in Nat /\ left[r]["recv"] \in Nat
           /\ left[r]["send"] \in Nat
      /\ \A r \in Slots : IONat(r)
  BY <1>1, StateTypes
<1>3. /\ sendAt \in Slots /\ IOAt(sendAt) /\ OneSend(sendAt) /\ Empty(sendAt) /\ Told(sendAt) /\ Own(sendAt)
      /\ Alone(sendAt) /\ OneRecv(sendAt) /\ Fresh(sendAt) /\ Heard(sendAt) /\ Ended(sendAt)
  <2>1. sendAt \in Slots
    BY <1>1, <1>2 DEF SendPost, Shut, Accepted, Refused, Post, Send, ThreadInv
  <2> QED BY <1>1, <2>1 DEF SlotInv
<1>4. send = "post" /\ sock[info[sendAt]] \in {"open", "reset"} /\ info[sendAt] \in Conns
  BY <1>1, <1>2, <1>3 DEF SendPost, Shut, Accepted, Refused, Post, Send, Steps, Used, ThreadInv
<1>5. UNCHANGED <<sock, queue, mode, info, toGame, inbox, free, authCount, gameCount, total, told,
        sendQ, sending, sendCount, ioCount, left, logout, stuck, auth, authAt, blank, game, gameAt,
        work, workAt, heirs, taken, down>>
  BY DEF SendPost, Shut, Accepted, Refused, Post, Send, authT, flow, gameT, got, workT
<1>7. /\ toSend' = 0
      /\ send' = "idle"
      /\ sendAt' = NoSlot
  BY <1>1, <1>2, <1>3, <1>4 DEF SendPost, Shut, Accepted, Refused, Post, Send, TypeOK
<1>8. /\ io' \in [Slots -> [Kinds -> Nat]]
      /\ io'[sendAt]["send"] = io[sendAt]["send"] + 1 /\ io'[sendAt]["recv"] = io[sendAt]["recv"]
      /\ \A x \in Slots : x # sendAt => io'[x] = io[x]
  <2>1. io' = [io EXCEPT ![sendAt]["send"] = @ + 1]
    BY DEF SendPost, Post
  <2>2. "recv" \in Kinds /\ "send" \in Kinds /\ "recv" # "send"
    BY DEF Kinds
  <2>3. TypeOK /\ sendAt \in Slots
    BY <1>1, <1>3
  <2> QED BY <1>4, <2>1, <2>2, <2>3, Posted
<1>9. TypeOK'
  <2>1. toSend' \in 0..MaxOut
    BY <1>1, <1>2, <1>3, <1>4, <1>7, <1>8, ConstantsOK DEF TypeOK, ConstantsOK
  <2>2. send' \in {"idle", "mode", "size", "inc", "peek", "post", "fail", "log", "unsend"}
    BY <1>1, <1>2, <1>3, <1>4, <1>7, <1>8 DEF TypeOK
  <2>3. sendAt' \in Slots \cup {NoSlot}
    BY <1>1, <1>2, <1>3, <1>4, <1>7, <1>8 DEF TypeOK
  <2>4. io' \in [Slots -> [Kinds -> Nat]]
    BY <1>8
  <2>5. {io', left'} \subseteq [Slots -> [Kinds -> Nat]]
    <3>1. left' \in [Slots -> [Kinds -> Nat]]
      BY <1>1, <1>5 DEF TypeOK
    <3> QED BY <2>4, <3>1
  <2>6. {authAt', blank', gameAt', sendAt'} \subseteq Slots \cup {NoSlot}
    BY <1>2, <1>5, <2>1, <2>2, <2>3, <2>4, <2>5
  <2> QED BY <1>1, <1>5, <2>1, <2>2, <2>3, <2>4, <2>5, <2>6 DEF TypeOK
<1>10. Bounded' /\ GameLeft' /\ Used'
  BY <1>1, <1>5 DEF Bounded, GameLeft, Used
<1>11. Steps' /\ Indexed'
  BY <1>1, <1>5 DEF Steps, Indexed
<1>12. Counted'
  BY <1>1, <1>5 DEF Counted
<1>13. ThreadInv'
  BY <1>1, <1>2, <1>3, <1>4, <1>5, <1>7, <1>8 DEF ThreadInv
<1>14. ASSUME NEW r \in Slots PROVE IOAt(r)'
  <2>3. Handled(workAt', work', r) = Handled(workAt, work, r)
            /\ Recving(workAt', work', r) = Recving(workAt, work, r)
    BY <1>5
  <2>5. Pending(r)' = Pending(r) + (IF r = sendAt THEN 1 ELSE 0)
    <3>1. CASE r = sendAt
      <4>1. io'[r]["send"] = io[r]["send"] + 1 /\ io'[r]["recv"] = io[r]["recv"] /\ left' = left
        BY <1>5, <1>8, <3>1
      <4> QED BY <1>2, <3>1, <4>1 DEF Pending
    <3>2. CASE r # sendAt
      <4>1. io'[r] = io[r] /\ left' = left
        BY <1>5, <1>8, <3>2
      <4> QED BY <1>2, <3>2, <4>1 DEF Pending
    <3> QED BY <3>1, <3>2
  <2>6. IOAt(r) /\ IONat(r)
    BY <1>1, <1>2
  <2>7. ioCount'[r] = Pending(r)' + Cardinality(Handled(workAt', work', r)) + Cardinality(Recving(workAt', work', r))
                     + One(sendAt' = r /\ send' \in {"peek", "post", "fail"}) + One(authAt' = r /\ auth' = "join")
    <3>1. /\ NoSlot \notin Slots /\ auth' = auth /\ authAt' = authAt /\ send' = "idle" /\ sendAt' = NoSlot
          /\ send = "post" /\ ioCount'[r] = ioCount[r]
      BY <1>2, <1>4, <1>5, <1>7
    <3> QED BY <1>1, <1>3, <2>3, <2>5, <2>6, <3>1 DEF ThreadInv, IOAt, IONat, One
  <2> QED BY <2>7 DEF IOAt, Handled, Recving, One
<1>15. ASSUME NEW r \in Slots PROVE SlotInv(r)'
  <2>1. OneSend(r) /\ Empty(r) /\ Told(r) /\ Own(r) /\ Alone(r) /\ OneRecv(r) /\ Fresh(r) /\ Heard(r) /\ Ended(r)
    BY <1>1 DEF SlotInv
  <2>2. Empty(r)' /\ Told(r)' /\ Own(r)' /\ Alone(r)'
    BY <1>5, <2>1 DEF Empty, Told, Own, Alone, Clean
  <2>3. OneSend(r)'
    BY <1>1, <1>2, <1>3, <1>4, <1>5, <1>7, <1>8, <2>1 DEF OneSend, Sent
  <2>4. OneRecv(r)'
    BY <1>1, <1>2, <1>3, <1>4, <1>5, <1>7, <1>8, <2>1 DEF OneRecv, Clean, Recv
  <2>5. Fresh(r)'
    BY <1>1, <1>2, <1>3, <1>4, <1>5, <1>7, <1>8, <2>1 DEF Fresh, Clean, Joining, Posting, Quiet
  <2>6. Heard(r)'
    BY <1>1, <1>2, <1>3, <1>4, <1>5, <1>7, <1>8, <2>1 DEF Heard, Clean, Joining, Recv
  <2>7. Ended(r)'
    BY <1>1, <1>2, <1>3, <1>4, <1>5, <1>7, <1>8, <2>1 DEF Ended, Clean, Over, Quiet, Joining
  <2> QED BY <2>2, <2>3, <2>4, <2>5, <2>6, <2>7 DEF SlotInv
<1> QED BY <1>9, <1>10, <1>11, <1>12, <1>13, <1>14, <1>15 DEF IInv

LEMMA SendRefusedStep ==
  ASSUME ConstantsOK, IInv, SendPost, info[sendAt] # NoConn, Shut(sendAt), Send("fail", sendAt),
         UNCHANGED io
  PROVE  IInv'
<1>1. /\ TypeOK /\ ThreadInv /\ Bounded /\ GameLeft /\ Used /\ Steps /\ Counted /\ Indexed
      /\ \A r \in Slots : IOAt(r) /\ SlotInv(r)
  BY DEF IInv
<1>2. /\ {authAt, blank, gameAt, sendAt} \subseteq Slots \cup {NoSlot} /\ NoSlot \notin Slots /\ NoConn \notin Conns
      /\ (\A i \in DOMAIN queue : queue[i] \in Conns) /\ (\A i \in DOMAIN free : free[i] \in Slots)
      /\ \A r \in Slots : (mode[r] # "NONE" <=> info[r] # NoConn) /\ (mode[r] # "NONE" <=> info[r] \in Conns)
      /\ \A r \in Slots : IONat(r)
  BY <1>1, StateTypes
<1>3. /\ sendAt \in Slots /\ IOAt(sendAt) /\ OneSend(sendAt) /\ Empty(sendAt) /\ Told(sendAt) /\ Own(sendAt)
      /\ Alone(sendAt) /\ OneRecv(sendAt) /\ Fresh(sendAt) /\ Heard(sendAt) /\ Ended(sendAt)
  <2>1. sendAt \in Slots
    BY <1>1, <1>2 DEF SendPost, Shut, Accepted, Refused, Post, Send, ThreadInv
  <2> QED BY <1>1, <2>1 DEF SlotInv
<1>4. send = "post" /\ info[sendAt] \in Conns
  BY <1>1, <1>2, <1>3 DEF SendPost, Shut, Accepted, Refused, Post, Send, Steps, Used, ThreadInv
<1>5. UNCHANGED <<queue, mode, info, toGame, inbox, free, authCount, gameCount, total, told, sendQ,
        sending, sendCount, ioCount, io, left, logout, stuck, auth, authAt, blank, game, gameAt,
        sendAt, work, workAt, heirs, taken, down>>
  BY DEF SendPost, Shut, Accepted, Refused, Post, Send, authT, flow, gameT, got, workT
<1>6. sock' = [sock EXCEPT ![info[sendAt]] = IF sock[info[sendAt]] \in {"open", "reset"} THEN "shut"
          ELSE sock[info[sendAt]]]
  BY DEF SendPost, Shut, Accepted, Refused, Post, Send
<1>7. /\ toSend' = 0
      /\ sock'[info[sendAt]] = (IF sock[info[sendAt]] \in {"open", "reset"} THEN "shut" ELSE sock[info[sendAt]])
           /\ \A x \in Conns : x # info[sendAt] => sock'[x] = sock[x]
      /\ send' = "fail"
  BY <1>1, <1>2, <1>3, <1>4, <1>6 DEF SendPost, Shut, Accepted, Refused, Post, Send, TypeOK
<1>8. ShutDown(sock, sock') /\ sock'[info[sendAt]] \in {"shut", "closed", "none"}
  <2>1. \A x \in Conns : sock[x] \in {"none", "open", "reset", "shut", "closed"}
    BY <1>1 DEF TypeOK
  <2> QED BY <1>4, <1>7, <2>1 DEF ShutDown
<1>9. TypeOK'
  <2>1. toSend' \in 0..MaxOut
    BY <1>1, <1>2, <1>3, <1>4, <1>7, <1>8, ConstantsOK DEF TypeOK, ConstantsOK
  <2>2. sock' \in [Conns -> {"none", "open", "reset", "shut", "closed"}]
    BY <1>1, <1>2, <1>3, <1>4, <1>6, <1>8 DEF TypeOK
  <2>3. send' \in {"idle", "mode", "size", "inc", "peek", "post", "fail", "log", "unsend"}
    BY <1>1, <1>2, <1>3, <1>4, <1>7, <1>8 DEF TypeOK
  <2> QED BY <1>1, <1>5, <2>1, <2>2, <2>3 DEF TypeOK
<1>10. Bounded' /\ GameLeft' /\ Steps'
  BY <1>1, <1>5 DEF Bounded, GameLeft, Steps
<1>11. Indexed'
  BY <1>1, <1>5 DEF Indexed
<1>12. Counted'
  BY <1>1, <1>5 DEF Counted
<1>13. ThreadInv'
  BY <1>1, <1>2, <1>3, <1>4, <1>5, <1>7, <1>8 DEF ThreadInv
<1>14. Used'
  <2>1. \A x \in Conns : sock'[x] = "none" <=> sock[x] = "none"
    BY <1>8 DEF ShutDown
  <2>2. \A x \in heirs : x \in Conns
    BY <1>1 DEF TypeOK
  <2> QED BY <1>1, <1>2, <1>5, <2>1, <2>2 DEF Used
<1>15. ASSUME NEW r \in Slots PROVE IOAt(r)'
  <2>3. Handled(workAt', work', r) = Handled(workAt, work, r)
            /\ Recving(workAt', work', r) = Recving(workAt, work, r)
    BY <1>5
  <2>5. Pending(r)' = Pending(r)
    BY <1>5 DEF Pending
  <2>6. IOAt(r) /\ IONat(r)
    BY <1>1, <1>2
  <2>7. ioCount'[r] = Pending(r)' + Cardinality(Handled(workAt', work', r)) + Cardinality(Recving(workAt', work', r))
                     + One(sendAt' = r /\ send' \in {"peek", "post", "fail"}) + One(authAt' = r /\ auth' = "join")
    <3>1. /\ NoSlot \notin Slots /\ auth' = auth /\ authAt' = authAt /\ send' = "fail" /\ sendAt' = sendAt
          /\ send = "post" /\ ioCount'[r] = ioCount[r]
      BY <1>2, <1>4, <1>5, <1>7
    <3> QED BY <1>1, <1>3, <2>3, <2>5, <2>6, <3>1 DEF ThreadInv, IOAt, IONat, One
  <2> QED BY <2>7 DEF IOAt, Handled, Recving, One
<1>16. ASSUME NEW r \in Slots PROVE SlotInv(r)'
  <2>1. OneSend(r) /\ Empty(r) /\ Told(r) /\ Own(r) /\ Alone(r) /\ OneRecv(r) /\ Fresh(r) /\ Heard(r) /\ Ended(r)
    BY <1>1 DEF SlotInv
  <2>2. OneSend(r)' /\ Empty(r)' /\ Told(r)' /\ Own(r)'
    BY <1>5, <2>1 DEF OneSend, Sent, Empty, Told, Own
  <2>3. Alone(r)' /\ OneRecv(r)'
    BY <1>5, <2>1 DEF Alone, Clean, OneRecv, Recv
  <2>4. Fresh(r)'
    BY <1>1, <1>2, <1>3, <1>4, <1>5, <1>7, <1>8, <2>1 DEF Fresh, Clean, Joining, Posting, Quiet
  <2>5. Heard(r)'
    BY <1>1, <1>2, <1>3, <1>4, <1>5, <1>7, <1>8, <2>1 DEF Heard, Clean, Joining, Recv, ShutDown
  <2>6. Ended(r)'
    BY <1>1, <1>2, <1>3, <1>4, <1>5, <1>7, <1>8, <2>1 DEF Ended, Clean, Over, Quiet, Joining, ShutDown
  <2> QED BY <2>2, <2>3, <2>4, <2>5, <2>6 DEF SlotInv
<1> QED BY <1>9, <1>10, <1>11, <1>12, <1>13, <1>14, <1>15, <1>16 DEF IInv

LEMMA SendFailStep ==
  ASSUME ConstantsOK, IInv, SendFail
  PROVE  IInv'
<1>1. /\ TypeOK /\ ThreadInv /\ Bounded /\ GameLeft /\ Used /\ Steps /\ Counted /\ Indexed
      /\ \A r \in Slots : IOAt(r) /\ SlotInv(r)
  BY DEF IInv
<1>2. /\ {authAt, blank, gameAt, sendAt} \subseteq Slots \cup {NoSlot} /\ NoSlot \notin Slots /\ NoConn \notin Conns
      /\ \A r \in Slots : (mode[r] # "NONE" <=> info[r] # NoConn) /\ (mode[r] # "NONE" <=> info[r] \in Conns)
      /\ \A r \in Slots : io[r]["recv"] \in Nat /\ io[r]["send"] \in Nat /\ left[r]["recv"] \in Nat
           /\ left[r]["send"] \in Nat
      /\ \A r \in Slots : IONat(r)
  BY <1>1, StateTypes
<1>3. /\ sendAt \in Slots /\ IOAt(sendAt) /\ OneSend(sendAt) /\ Empty(sendAt) /\ Told(sendAt) /\ Own(sendAt)
      /\ Alone(sendAt) /\ OneRecv(sendAt) /\ Fresh(sendAt) /\ Heard(sendAt) /\ Ended(sendAt)
  <2>1. sendAt \in Slots
    BY <1>1, <1>2 DEF SendFail, DecIO, Send, ThreadInv
  <2> QED BY <1>1, <2>1 DEF SlotInv
<1>4. send = "fail" /\ ioCount[sendAt] > 0
  <2>1. send = "fail"
    BY <1>1, <1>2, <1>3 DEF SendFail, DecIO, Send, Steps, Used
  <2>2. One(sendAt = sendAt /\ send \in {"peek", "post", "fail"}) = 1
            /\ One(authAt = sendAt /\ auth = "join") \in Nat
    BY <2>1 DEF One
  <2>3. IONat(sendAt)
    BY <1>2, <1>3
  <2> QED BY <1>3, <2>1, <2>2, <2>3 DEF IOAt, IONat
<1>5. UNCHANGED <<sock, queue, mode, info, toGame, inbox, free, authCount, gameCount, total, told,
        sendQ, sending, sendCount, io, left, logout, stuck, auth, authAt, blank, game, gameAt, sendAt,
        toSend, work, workAt, heirs, taken, down>>
  BY DEF SendFail, DecIO, Send, authT, conns, flow, gameT, got, workT
<1>6. ioCount' = [ioCount EXCEPT ![sendAt] = ioCount[sendAt] - 1]
  BY DEF SendFail, DecIO, Send
<1>7. /\ ioCount'[sendAt] = (ioCount[sendAt] - 1) /\ \A x \in Slots : x # sendAt => ioCount'[x] = ioCount[x]
      /\ send' = IF ioCount[sendAt] = 1 THEN "log" ELSE "unsend"
  BY <1>1, <1>2, <1>3, <1>4, <1>6 DEF SendFail, DecIO, Send, TypeOK
<1>8. TypeOK'
  <2>1. ioCount' \in [Slots -> Nat]
    <3>1. ioCount \in [Slots -> Nat]
      BY <1>1 DEF TypeOK
    <3>2. sendAt \in Slots /\ ioCount[sendAt] > 0
      BY <1>3, <1>4
    <3>3. ioCount[sendAt] - 1 \in Nat
      BY <3>1, <3>2
    <3>4. ioCount' = [ioCount EXCEPT ![sendAt] = ioCount[sendAt] - 1]
      BY <1>6
    <3> QED BY <3>1, <3>3, <3>4
  <2>2. send' \in {"idle", "mode", "size", "inc", "peek", "post", "fail", "log", "unsend"}
    BY <1>1, <1>2, <1>3, <1>4, <1>7 DEF TypeOK
  <2> QED BY <1>1, <1>5, <2>1, <2>2 DEF TypeOK
<1>9. Bounded' /\ GameLeft' /\ Used'
  BY <1>1, <1>5 DEF Bounded, GameLeft, Used
<1>10. Steps' /\ Indexed'
  BY <1>1, <1>5 DEF Steps, Indexed
<1>11. Counted'
  BY <1>1, <1>5 DEF Counted
<1>12. ThreadInv'
  BY <1>1, <1>2, <1>3, <1>4, <1>5, <1>7 DEF ThreadInv
<1>13. ASSUME NEW r \in Slots PROVE IOAt(r)'
  <2>3. Handled(workAt', work', r) = Handled(workAt, work, r)
            /\ Recving(workAt', work', r) = Recving(workAt, work, r)
    BY <1>5
  <2>5. Pending(r)' = Pending(r)
    BY <1>5 DEF Pending
  <2>6. IOAt(r) /\ IONat(r)
    BY <1>1, <1>2
  <2>7. ioCount'[r] = Pending(r)' + Cardinality(Handled(workAt', work', r)) + Cardinality(Recving(workAt', work', r))
                     + One(sendAt' = r /\ send' \in {"peek", "post", "fail"}) + One(authAt' = r /\ auth' = "join")
    <3>1. /\ NoSlot \notin Slots /\ auth' = auth /\ authAt' = authAt /\ sendAt' = sendAt /\ send = "fail"
          /\ send' = IF ioCount[sendAt] = 1 THEN "log" ELSE "unsend"
          /\ r = sendAt => ioCount'[r] = ioCount[r] - 1
          /\ r # sendAt => ioCount'[r] = ioCount[r]
      BY <1>2, <1>4, <1>5, <1>7
    <3>2. /\ One(sendAt = r /\ send \in {"peek", "post", "fail"}) = IF r = sendAt THEN 1 ELSE 0
          /\ One(sendAt' = r /\ send' \in {"peek", "post", "fail"}) = 0
          /\ One(authAt' = r /\ auth' = "join") = One(authAt = r /\ auth = "join")
               /\ One(authAt = r /\ auth = "join") \in Nat
      BY <3>1 DEF One
    <3> QED BY <2>3, <2>5, <2>6, <3>1, <3>2 DEF IOAt, IONat
  <2> QED BY <2>7 DEF IOAt, Handled, Recving, One
<1>14. ASSUME NEW r \in Slots PROVE SlotInv(r)'
  <2>1. OneSend(r) /\ Empty(r) /\ Told(r) /\ Own(r) /\ Alone(r) /\ OneRecv(r) /\ Fresh(r) /\ Heard(r) /\ Ended(r)
    BY <1>1 DEF SlotInv
  <2>2. OneSend(r)' /\ Empty(r)' /\ Told(r)' /\ Own(r)'
    BY <1>5, <2>1 DEF OneSend, Sent, Empty, Told, Own
  <2>3. Alone(r)' /\ OneRecv(r)' /\ Heard(r)'
    BY <1>5, <2>1 DEF Alone, Clean, OneRecv, Recv, Heard, Joining
  <2>4. Fresh(r)'
    BY <1>1, <1>2, <1>3, <1>4, <1>5, <1>7, <2>1 DEF Fresh, Clean, Joining, Posting, Quiet
  <2>5. Ended(r)'
    <3>1. ASSUME r = sendAt, ioCount[r] = 1, Clean(r) PROVE Over(r)
      <4>1. /\ Pending(r) \in Nat /\ (Pending(r) = 0 => Quiet(r))
            /\ Cardinality(Handled(workAt, work, r)) \in Nat /\ Cardinality(Recving(workAt, work, r)) \in Nat
            /\ \A v \in Workers : workAt[v] = r /\ work[v] # "log" => Cardinality(Handled(workAt, work, r)) > 0
            /\ \A v \in Workers : workAt[v] = r /\ work[v] = "recv" => Cardinality(Recving(workAt, work, r)) > 0
        <5>1. Pending(r) \in Nat /\ (Pending(r) = 0 => Quiet(r))
          <6>1. /\ io[r]["recv"] \in Nat /\ io[r]["send"] \in Nat
                /\ left[r]["recv"] \in Nat /\ left[r]["send"] \in Nat
            BY <1>2
          <6>2. PICK a \in Nat, b \in Nat, c \in Nat, d \in Nat :
                  a = io[r]["recv"] /\ b = io[r]["send"] /\ c = left[r]["recv"] /\ d = left[r]["send"]
            BY <6>1
          <6>3. Pending(r) = a + b + c + d
            BY <6>2 DEF Pending
          <6>4. a + b + c + d \in Nat /\ (a + b + c + d = 0 => a = 0 /\ b = 0)
            BY Sums
          <6> QED BY <6>2, <6>3, <6>4 DEF Quiet
        <5> QED BY <5>1, ConstantsOK, WorkNat
      <4>2. IOAt(r)
        BY <1>1
      <4>3. Quiet(r) /\ ~(authAt = r /\ auth = "join")
        BY <1>4, <3>1, <4>1, <4>2 DEF IOAt, One
      <4>4. \A v \in Workers : workAt[v] = r => work[v] = "log"
        BY <1>4, <3>1, <4>1, <4>2 DEF IOAt, One
      <4>5. ~(authAt = r /\ auth = "count")
        BY <1>4, <2>1, <3>1 DEF Fresh, Joining, Posting
      <4>6. mode[r] # "NONE" /\ info[r] \in Conns /\ sock[info[r]] # "none"
        BY <1>1, <1>2, <3>1 DEF Used, Clean
      <4>7. sock[info[r]] \in {"none", "open", "reset", "shut", "closed"}
        BY <1>1, <4>6 DEF TypeOK
      <4>8. sock[info[r]] \in {"shut", "closed"}
        BY <2>1, <3>1, <4>3, <4>4, <4>5, <4>6, <4>7 DEF Heard, Joining, Recv, Quiet
      <4> QED BY <4>3, <4>4, <4>5, <4>8 DEF Over, Joining
    <3>2. /\ mode' = mode /\ info' = info /\ heirs' = heirs /\ sock' = sock /\ work' = work /\ workAt' = workAt
               /\ io' = io
          /\ authAt' = authAt /\ auth' = auth /\ logout' = logout /\ sendAt' = sendAt
      BY <1>5
    <3>3. send' = "log" => ioCount[sendAt] = 1
      BY <1>7
    <3>4. (Over(r)' <=> Over(r)) /\ (Clean(r)' <=> Clean(r))
      BY <3>2 DEF Over, Joining, Quiet, Clean
    <3> QED BY <2>1, <3>1, <3>2, <3>3, <3>4 DEF Ended
  <2> QED BY <2>2, <2>3, <2>4, <2>5 DEF SlotInv
<1> QED BY <1>8, <1>9, <1>10, <1>11, <1>12, <1>13, <1>14 DEF IInv

LEMMA SendLogStep ==
  ASSUME ConstantsOK, IInv, SendLog
  PROVE  IInv'
<1>1. /\ TypeOK /\ ThreadInv /\ Bounded /\ GameLeft /\ Used /\ Steps /\ Counted /\ Indexed
      /\ \A r \in Slots : IOAt(r) /\ SlotInv(r)
  BY DEF IInv
<1>2. /\ {authAt, blank, gameAt, sendAt} \subseteq Slots \cup {NoSlot} /\ NoSlot \notin Slots /\ NoConn \notin Conns
      /\ \A r \in Slots : (mode[r] # "NONE" <=> info[r] # NoConn) /\ (mode[r] # "NONE" <=> info[r] \in Conns)
      /\ \A r \in Slots : IONat(r)
  BY <1>1, StateTypes
<1>3. /\ sendAt \in Slots /\ IOAt(sendAt) /\ OneSend(sendAt) /\ Empty(sendAt) /\ Told(sendAt) /\ Own(sendAt)
      /\ Alone(sendAt) /\ OneRecv(sendAt) /\ Fresh(sendAt) /\ Heard(sendAt) /\ Ended(sendAt)
  <2>1. sendAt \in Slots
    BY <1>1, <1>2 DEF SendLog, Send, ThreadInv
  <2> QED BY <1>1, <2>1 DEF SlotInv
<1>4. send = "log"
  BY <1>1, <1>2, <1>3 DEF SendLog, Send, Steps, Used, ThreadInv
<1>5. UNCHANGED <<sock, queue, mode, info, toGame, inbox, free, authCount, gameCount, total, told,
        sendQ, sending, sendCount, ioCount, io, left, stuck, auth, authAt, blank, game, gameAt,
        sendAt, toSend, work, workAt, heirs, taken, down>>
  BY DEF SendLog, Send, authT, conns, flow, gameT, got, workT
<1>6. logout' = [logout EXCEPT ![sendAt] = TRUE]
  BY DEF SendLog, Send
<1>7. /\ logout'[sendAt] = TRUE /\ \A x \in Slots : x # sendAt => logout'[x] = logout[x]
      /\ send' = "unsend"
  BY <1>1, <1>2, <1>3, <1>4, <1>6 DEF SendLog, Send, TypeOK
<1>8. TypeOK'
  <2>1. logout' \in [Slots -> BOOLEAN]
    BY <1>1, <1>2, <1>3, <1>4, <1>6 DEF TypeOK
  <2>2. send' \in {"idle", "mode", "size", "inc", "peek", "post", "fail", "log", "unsend"}
    BY <1>1, <1>2, <1>3, <1>4, <1>7 DEF TypeOK
  <2> QED BY <1>1, <1>5, <2>1, <2>2 DEF TypeOK
<1>9. Bounded' /\ GameLeft' /\ Used'
  BY <1>1, <1>5 DEF Bounded, GameLeft, Used
<1>10. Indexed'
  BY <1>1, <1>5 DEF Indexed
<1>11. Counted'
  BY <1>1, <1>5 DEF Counted
<1>12. ThreadInv'
  BY <1>1, <1>2, <1>3, <1>4, <1>5, <1>7 DEF ThreadInv
<1>13. Steps'
  BY <1>1, <1>2, <1>3, <1>4, <1>5, <1>7 DEF Steps, ThreadInv
<1>14. ASSUME NEW r \in Slots PROVE IOAt(r)'
  <2>3. Handled(workAt', work', r) = Handled(workAt, work, r)
            /\ Recving(workAt', work', r) = Recving(workAt, work, r)
    BY <1>5
  <2>5. Pending(r)' = Pending(r)
    BY <1>5 DEF Pending
  <2>6. IOAt(r) /\ IONat(r)
    BY <1>1, <1>2
  <2>7. ioCount'[r] = Pending(r)' + Cardinality(Handled(workAt', work', r)) + Cardinality(Recving(workAt', work', r))
                     + One(sendAt' = r /\ send' \in {"peek", "post", "fail"}) + One(authAt' = r /\ auth' = "join")
    <3>1. /\ NoSlot \notin Slots /\ auth' = auth /\ authAt' = authAt /\ send' = "unsend"
          /\ sendAt' = sendAt /\ send = "log" /\ ioCount'[r] = ioCount[r]
      BY <1>2, <1>4, <1>5, <1>7
    <3> QED BY <1>1, <1>3, <2>3, <2>5, <2>6, <3>1 DEF ThreadInv, IOAt, IONat, One
  <2> QED BY <2>7 DEF IOAt, Handled, Recving, One
<1>15. ASSUME NEW r \in Slots PROVE SlotInv(r)'
  <2>1. OneSend(r) /\ Empty(r) /\ Told(r) /\ Own(r) /\ Alone(r) /\ OneRecv(r) /\ Fresh(r) /\ Heard(r) /\ Ended(r)
    BY <1>1 DEF SlotInv
  <2>2. OneSend(r)' /\ Empty(r)' /\ Told(r)' /\ Own(r)'
    BY <1>5, <2>1 DEF OneSend, Sent, Empty, Told, Own
  <2>3. Alone(r)' /\ OneRecv(r)' /\ Heard(r)'
    BY <1>5, <2>1 DEF Alone, Clean, OneRecv, Recv, Heard, Joining
  <2>4. Fresh(r)'
    BY <1>1, <1>2, <1>3, <1>4, <1>5, <1>7, <2>1 DEF Fresh, Clean, Joining, Posting, Quiet
  <2>5. Ended(r)'
    BY <1>1, <1>2, <1>3, <1>4, <1>5, <1>7, <2>1 DEF Ended, Clean, Over, Quiet, Joining
  <2> QED BY <2>2, <2>3, <2>4, <2>5 DEF SlotInv
<1> QED BY <1>8, <1>9, <1>10, <1>11, <1>12, <1>13, <1>14, <1>15 DEF IInv

LEMMA SendUnsendStep ==
  ASSUME ConstantsOK, IInv, SendUnsend
  PROVE  IInv'
<1>1. /\ TypeOK /\ ThreadInv /\ Bounded /\ GameLeft /\ Used /\ Steps /\ Counted /\ Indexed
      /\ \A r \in Slots : IOAt(r) /\ SlotInv(r)
  BY DEF IInv
<1>2. /\ {authAt, blank, gameAt, sendAt} \subseteq Slots \cup {NoSlot} /\ NoSlot \notin Slots /\ NoConn \notin Conns
      /\ \A r \in Slots : (mode[r] # "NONE" <=> info[r] # NoConn) /\ (mode[r] # "NONE" <=> info[r] \in Conns)
      /\ \A r \in Slots : IONat(r)
  BY <1>1, StateTypes
<1>3. /\ sendAt \in Slots /\ IOAt(sendAt) /\ OneSend(sendAt) /\ Empty(sendAt) /\ Told(sendAt) /\ Own(sendAt)
      /\ Alone(sendAt) /\ OneRecv(sendAt) /\ Fresh(sendAt) /\ Heard(sendAt) /\ Ended(sendAt)
  <2>1. sendAt \in Slots
    BY <1>1, <1>2 DEF SendUnsend, Send, ThreadInv
  <2> QED BY <1>1, <2>1 DEF SlotInv
<1>4. send = "unsend"
  BY <1>1, <1>2, <1>3 DEF SendUnsend, Send, Steps, Used, ThreadInv
<1>5. UNCHANGED <<sock, queue, mode, info, toGame, inbox, free, authCount, gameCount, total, told,
        sendQ, sendCount, ioCount, io, left, logout, stuck, auth, authAt, blank, game, gameAt, toSend,
        work, workAt, heirs, taken, down>>
  BY DEF SendUnsend, Send, authT, conns, flow, gameT, got, workT
<1>6. sending' = [sending EXCEPT ![sendAt] = FALSE]
  BY DEF SendUnsend, Send
<1>7. /\ sending'[sendAt] = FALSE /\ \A x \in Slots : x # sendAt => sending'[x] = sending[x]
      /\ send' = "idle"
      /\ sendAt' = NoSlot
  BY <1>1, <1>2, <1>3, <1>4, <1>6 DEF SendUnsend, Send, TypeOK
<1>8. TypeOK'
  <2>1. sending' \in [Slots -> BOOLEAN]
    BY <1>1, <1>2, <1>3, <1>4, <1>6 DEF TypeOK
  <2>2. send' \in {"idle", "mode", "size", "inc", "peek", "post", "fail", "log", "unsend"}
    BY <1>1, <1>2, <1>3, <1>4, <1>7 DEF TypeOK
  <2>3. sendAt' \in Slots \cup {NoSlot}
    BY <1>1, <1>2, <1>3, <1>4, <1>7 DEF TypeOK
  <2>4. {authAt', blank', gameAt', sendAt'} \subseteq Slots \cup {NoSlot}
    BY <1>2, <1>5, <2>1, <2>2, <2>3
  <2> QED BY <1>1, <1>5, <2>1, <2>2, <2>3, <2>4 DEF TypeOK
<1>9. Bounded' /\ GameLeft' /\ Used'
  BY <1>1, <1>5 DEF Bounded, GameLeft, Used
<1>10. Steps' /\ Indexed'
  BY <1>1, <1>5 DEF Steps, Indexed
<1>11. Counted'
  BY <1>1, <1>5 DEF Counted
<1>12. ThreadInv'
  BY <1>1, <1>2, <1>3, <1>4, <1>5, <1>7 DEF ThreadInv
<1>13. ASSUME NEW r \in Slots PROVE IOAt(r)'
  <2>3. Handled(workAt', work', r) = Handled(workAt, work, r)
            /\ Recving(workAt', work', r) = Recving(workAt, work, r)
    BY <1>5
  <2>5. Pending(r)' = Pending(r)
    BY <1>5 DEF Pending
  <2>6. IOAt(r) /\ IONat(r)
    BY <1>1, <1>2
  <2>7. ioCount'[r] = Pending(r)' + Cardinality(Handled(workAt', work', r)) + Cardinality(Recving(workAt', work', r))
                     + One(sendAt' = r /\ send' \in {"peek", "post", "fail"}) + One(authAt' = r /\ auth' = "join")
    <3>1. /\ NoSlot \notin Slots /\ auth' = auth /\ authAt' = authAt /\ send' = "idle" /\ sendAt' = NoSlot
          /\ send = "unsend" /\ ioCount'[r] = ioCount[r]
      BY <1>2, <1>4, <1>5, <1>7
    <3> QED BY <1>1, <1>3, <2>3, <2>5, <2>6, <3>1 DEF ThreadInv, IOAt, IONat, One
  <2> QED BY <2>7 DEF IOAt, Handled, Recving, One
<1>14. ASSUME NEW r \in Slots PROVE SlotInv(r)'
  <2>1. OneSend(r) /\ Empty(r) /\ Told(r) /\ Own(r) /\ Alone(r) /\ OneRecv(r) /\ Fresh(r) /\ Heard(r) /\ Ended(r)
    BY <1>1 DEF SlotInv
  <2>2. Empty(r)' /\ Told(r)' /\ Own(r)' /\ Alone(r)'
    BY <1>5, <2>1 DEF Empty, Told, Own, Alone, Clean
  <2>3. OneRecv(r)' /\ Heard(r)'
    BY <1>5, <2>1 DEF OneRecv, Clean, Recv, Heard, Joining
  <2>4. OneSend(r)'
    BY <1>1, <1>2, <1>3, <1>4, <1>5, <1>7, <2>1 DEF OneSend, Sent
  <2>5. Fresh(r)'
    BY <1>1, <1>2, <1>3, <1>4, <1>5, <1>7, <2>1 DEF Fresh, Clean, Joining, Posting, Quiet
  <2>6. Ended(r)'
    BY <1>1, <1>2, <1>3, <1>4, <1>5, <1>7, <2>1 DEF Ended, Clean, Over, Quiet, Joining
  <2> QED BY <2>2, <2>3, <2>4, <2>5, <2>6 DEF SlotInv
<1> QED BY <1>8, <1>9, <1>10, <1>11, <1>12, <1>13, <1>14 DEF IInv

LEMMA RecvDoneStep ==
  ASSUME ConstantsOK, IInv, NEW w \in Workers, NEW s \in Slots, RecvDone(w, s), io[s]["recv"] > 0,
         io' = [io EXCEPT ![s]["recv"] = @ - 1], UNCHANGED left
  PROVE  IInv'
<1>1. /\ TypeOK /\ ThreadInv /\ Bounded /\ GameLeft /\ Used /\ Steps /\ Counted /\ Indexed
      /\ \A r \in Slots : IOAt(r) /\ SlotInv(r)
  BY DEF IInv
<1>2. /\ {authAt, blank, gameAt, sendAt} \subseteq Slots \cup {NoSlot} /\ NoSlot \notin Slots /\ NoConn \notin Conns
      /\ workAt \in [Workers -> Slots \cup {NoSlot}]
      /\ \A r \in Slots : (mode[r] # "NONE" <=> info[r] # NoConn) /\ (mode[r] # "NONE" <=> info[r] \in Conns)
      /\ \A r \in Slots : io[r]["recv"] \in Nat /\ io[r]["send"] \in Nat /\ left[r]["recv"] \in Nat
           /\ left[r]["send"] \in Nat
      /\ \A r \in Slots : IONat(r)
  BY <1>1, StateTypes
<1>3. /\ s \in Slots /\ IOAt(s) /\ OneSend(s) /\ Empty(s) /\ Told(s) /\ Own(s)
      /\ Alone(s) /\ OneRecv(s) /\ Fresh(s) /\ Heard(s) /\ Ended(s)
  BY <1>1 DEF SlotInv
<1>4. work[w] = "idle" /\ io[s]["recv"] > 0 /\ inbox[s] < MaxIn
  BY <1>1, <1>2, <1>3 DEF RecvDone, IncIO, Work, Completes, Steps, Used, ThreadInv
<1>5. UNCHANGED <<sock, queue, mode, info, toGame, free, authCount, gameCount, total, told, sendQ,
        sending, sendCount, left, logout, stuck, auth, authAt, blank, game, gameAt, send, sendAt,
        toSend, heirs, taken, down>>
  BY DEF RecvDone, IncIO, Work, Completes, authT, conns, gameT, got, sendT
<1>6. /\ inbox' = [inbox EXCEPT ![s] = inbox[s] + 1]
      /\ ioCount' = [ioCount EXCEPT ![s] = ioCount[s] + 1]
      /\ work' = [work EXCEPT ![w] = "recv"]
      /\ workAt' = [workAt EXCEPT ![w] = s]
  BY DEF RecvDone, IncIO, Work, Completes
<1>7. /\ inbox'[s] = (inbox[s] + 1) /\ \A x \in Slots : x # s => inbox'[x] = inbox[x]
      /\ ioCount'[s] = (ioCount[s] + 1) /\ \A x \in Slots : x # s => ioCount'[x] = ioCount[x]
      /\ work'[w] = "recv" /\ \A x \in Workers : x # w => work'[x] = work[x]
      /\ workAt'[w] = s /\ \A x \in Workers : x # w => workAt'[x] = workAt[x]
  BY <1>1, <1>2, <1>3, <1>4, <1>6 DEF RecvDone, IncIO, Work, Completes, TypeOK
<1>8. /\ io' \in [Slots -> [Kinds -> Nat]]
      /\ io'[s]["recv"] = io[s]["recv"] - 1 /\ io'[s]["send"] = io[s]["send"]
      /\ \A x \in Slots : x # s => io'[x] = io[x]
  <2>1. "recv" \in Kinds /\ "send" \in Kinds /\ "recv" # "send"
    BY DEF Kinds
  <2>2. PICK k \in Kinds : k = "recv"
    BY <2>1
  <2>3. io[s][k] > 0 /\ io' = [io EXCEPT ![s][k] = @ - 1]
    BY <1>4, <2>2
  <2>4. TypeOK
    BY <1>1
  <2>5. /\ io' \in [Slots -> [Kinds -> Nat]] /\ io'[s][k] = io[s][k] - 1
        /\ (\A j \in Kinds : j # k => io'[s][j] = io[s][j]) /\ \A x \in Slots : x # s => io'[x] = io[x]
    BY <2>3, <2>4, Answered
  <2> QED BY <2>1, <2>2, <2>5
<1>9. TypeOK'
  <2>1. inbox' \in [Slots -> 0..MaxIn]
    <3>1. inbox \in [Slots -> 0..MaxIn]
      BY <1>1 DEF TypeOK
    <3> QED BY <1>2, <1>3, <1>4, <1>6, <3>1, <1>8, ConstantsOK DEF ConstantsOK
  <2>2. ioCount' \in [Slots -> Nat]
    <3>1. ioCount \in [Slots -> Nat]
      BY <1>1 DEF TypeOK
    <3> QED BY <1>2, <1>3, <1>4, <1>6, <3>1, <1>8
  <2>3. work' \in [Workers -> {"idle", "recv", "unsend", "dec", "log"}]
    BY <1>1, <1>2, <1>3, <1>4, <1>6, <1>8 DEF TypeOK
  <2>4. workAt' \in [Workers -> Slots \cup {NoSlot}]
    BY <1>1, <1>2, <1>3, <1>4, <1>6, <1>8 DEF TypeOK
  <2>5. io' \in [Slots -> [Kinds -> Nat]]
    BY <1>8
  <2>6. {io', left'} \subseteq [Slots -> [Kinds -> Nat]]
    <3>1. left' \in [Slots -> [Kinds -> Nat]]
      BY <1>1, <1>5 DEF TypeOK
    <3> QED BY <2>5, <3>1
  <2> QED BY <1>1, <1>5, <2>1, <2>2, <2>3, <2>4, <2>5, <2>6 DEF TypeOK
<1>10. Bounded' /\ GameLeft' /\ Used'
  BY <1>1, <1>5 DEF Bounded, GameLeft, Used
<1>11. Steps' /\ Indexed'
  BY <1>1, <1>5 DEF Steps, Indexed
<1>12. Counted'
  BY <1>1, <1>5 DEF Counted
<1>13. ThreadInv'
  <2>1. \A v \in Workers : v # w => ((work'[v] = "idle") <=> (workAt'[v] = NoSlot))
    BY <1>1, <1>5, <1>7 DEF ThreadInv
  <2>2. (work'[w] = "idle") <=> (workAt'[w] = NoSlot)
    BY <1>1, <1>2, <1>3, <1>4, <1>5, <1>7 DEF ThreadInv
  <2> QED BY <1>1, <1>5, <2>1, <2>2 DEF ThreadInv
<1>14. ASSUME NEW r \in Slots PROVE IOAt(r)'
  <2>1. \A v \in Workers : v # w => workAt'[v] = workAt[v] /\ work'[v] = work[v]
    BY <1>5, <1>7
  <2>2. /\ NoSlot # r
        /\ work[w] = "idle" /\ (work[w] = "idle" <=> workAt[w] = NoSlot)
        /\ work'[w] = "recv" /\ workAt'[w] = s
    BY <1>1, <1>2, <1>4, <1>5, <1>7 DEF ThreadInv
  <2>3. /\ Cardinality(Handled(workAt', work', r))
             = Cardinality(Handled(workAt, work, r)) + (IF r = s THEN 1 ELSE 0)
        /\ Cardinality(Recving(workAt', work', r))
             = Cardinality(Recving(workAt, work, r)) + (IF r = s THEN 1 ELSE 0)
    BY <2>1, <2>2, ConstantsOK, WorkStepped, WorkNat
  <2>5. Pending(r)' = Pending(r) - (IF r = s THEN 1 ELSE 0)
    <3>1. CASE r = s
      <4>1. io'[r]["recv"] = io[r]["recv"] - 1 /\ io'[r]["send"] = io[r]["send"] /\ left' = left
        BY <1>5, <1>8, <3>1
      <4> QED BY <1>2, <3>1, <4>1 DEF Pending
    <3>2. CASE r # s
      <4>1. io'[r] = io[r] /\ left' = left
        BY <1>5, <1>8, <3>2
      <4> QED BY <1>2, <3>2, <4>1 DEF Pending
    <3> QED BY <3>1, <3>2
  <2>6. IOAt(r) /\ IONat(r)
    BY <1>1, <1>2
  <2>7. ioCount'[r] = Pending(r)' + Cardinality(Handled(workAt', work', r)) + Cardinality(Recving(workAt', work', r))
                     + One(sendAt' = r /\ send' \in {"peek", "post", "fail"}) + One(authAt' = r /\ auth' = "join")
    <3>1. /\ NoSlot \notin Slots /\ auth' = auth /\ authAt' = authAt /\ send' = send /\ sendAt' = sendAt
          /\ work[w] = "idle" /\ work'[w] = "recv" /\ workAt'[w] = s
          /\ r = s => ioCount'[r] = ioCount[r] + 1
          /\ r # s => ioCount'[r] = ioCount[r]
      BY <1>2, <1>4, <1>5, <1>7
    <3> QED BY <1>1, <1>3, <2>3, <2>5, <2>6, <3>1 DEF ThreadInv, IOAt, IONat, One
  <2> QED BY <2>7 DEF IOAt, Handled, Recving, One
<1>15. ASSUME NEW r \in Slots PROVE SlotInv(r)'
  <2>1. OneSend(r) /\ Empty(r) /\ Told(r) /\ Own(r) /\ Alone(r) /\ OneRecv(r) /\ Fresh(r) /\ Heard(r) /\ Ended(r)
    BY <1>1 DEF SlotInv
  <2>2. Empty(r)' /\ Told(r)' /\ Own(r)' /\ Alone(r)'
    BY <1>5, <2>1 DEF Empty, Told, Own, Alone, Clean
  <2>3. OneSend(r)'
    BY <1>1, <1>2, <1>3, <1>4, <1>5, <1>7, <1>8, <2>1 DEF OneSend, Sent
  <2>4. OneRecv(r)'
    BY <1>1, <1>2, <1>3, <1>4, <1>5, <1>7, <1>8, <2>1 DEF OneRecv, Clean, Recv
  <2>5. Fresh(r)'
    BY <1>1, <1>2, <1>3, <1>4, <1>5, <1>7, <1>8, <2>1 DEF Fresh, Clean, Joining, Posting, Quiet
  <2>6. Heard(r)'
    BY <1>1, <1>2, <1>3, <1>4, <1>5, <1>7, <1>8, <2>1 DEF Heard, Clean, Joining, Recv
  <2>7. Ended(r)'
    BY <1>1, <1>2, <1>3, <1>4, <1>5, <1>7, <1>8, <2>1 DEF Ended, Clean, Over, Quiet, Joining
  <2> QED BY <2>2, <2>3, <2>4, <2>5, <2>6, <2>7 DEF SlotInv
<1> QED BY <1>9, <1>10, <1>11, <1>12, <1>13, <1>14, <1>15 DEF IInv

LEMMA FailedRecvStep ==
  ASSUME ConstantsOK, IInv, NEW w \in Workers, NEW s \in Slots, Failed(w, s, "recv"),
         io[s]["recv"] > 0, io' = [io EXCEPT ![s]["recv"] = @ - 1], UNCHANGED left
  PROVE  IInv'
<1>1. /\ TypeOK /\ ThreadInv /\ Bounded /\ GameLeft /\ Used /\ Steps /\ Counted /\ Indexed
      /\ \A r \in Slots : IOAt(r) /\ SlotInv(r)
  BY DEF IInv
<1>2. /\ {authAt, blank, gameAt, sendAt} \subseteq Slots \cup {NoSlot} /\ NoSlot \notin Slots /\ NoConn \notin Conns
      /\ workAt \in [Workers -> Slots \cup {NoSlot}]
      /\ (\A i \in DOMAIN queue : queue[i] \in Conns) /\ (\A i \in DOMAIN free : free[i] \in Slots)
      /\ \A r \in Slots : (mode[r] # "NONE" <=> info[r] # NoConn) /\ (mode[r] # "NONE" <=> info[r] \in Conns)
      /\ \A r \in Slots : io[r]["recv"] \in Nat /\ io[r]["send"] \in Nat /\ left[r]["recv"] \in Nat
           /\ left[r]["send"] \in Nat
      /\ \A r \in Slots : IONat(r)
  BY <1>1, StateTypes
<1>3. /\ s \in Slots /\ IOAt(s) /\ OneSend(s) /\ Empty(s) /\ Told(s) /\ Own(s)
      /\ Alone(s) /\ OneRecv(s) /\ Fresh(s) /\ Heard(s) /\ Ended(s)
  BY <1>1 DEF SlotInv
<1>4. work[w] = "idle" /\ io[s]["recv"] > 0 /\ info[s] \in Conns
  BY <1>1, <1>2, <1>3 DEF Failed, Shut, Refused, Work, Completes, Steps, Used, ThreadInv
<1>5. UNCHANGED <<queue, mode, info, toGame, inbox, free, authCount, gameCount, total, told, sendQ,
        sending, sendCount, ioCount, left, logout, auth, authAt, blank, game, gameAt, send, sendAt,
        toSend, heirs, taken, down>>
  BY DEF Failed, Shut, Refused, Work, Completes, authT, flow, gameT, got, sendT
<1>6. /\ sock' = [sock EXCEPT ![info[s]] = IF sock[info[s]] \in {"open", "reset"} THEN "shut" ELSE sock[info[s]]]
      /\ work' = [work EXCEPT ![w] = "dec"]
      /\ workAt' = [workAt EXCEPT ![w] = s]
  BY DEF Failed, Shut, Refused, Work, Completes
<1>7. /\ sock'[info[s]] = (IF sock[info[s]] \in {"open", "reset"} THEN "shut" ELSE sock[info[s]])
           /\ \A x \in Conns : x # info[s] => sock'[x] = sock[x]
      /\ work'[w] = "dec" /\ \A x \in Workers : x # w => work'[x] = work[x]
      /\ workAt'[w] = s /\ \A x \in Workers : x # w => workAt'[x] = workAt[x]
      /\ stuck' = stuck
  BY <1>1, <1>2, <1>3, <1>4, <1>6 DEF Failed, Shut, Refused, Work, Completes, TypeOK
<1>8. /\ io' \in [Slots -> [Kinds -> Nat]]
      /\ io'[s]["recv"] = io[s]["recv"] - 1 /\ io'[s]["send"] = io[s]["send"]
      /\ \A x \in Slots : x # s => io'[x] = io[x]
  <2>1. "recv" \in Kinds /\ "send" \in Kinds /\ "recv" # "send"
    BY DEF Kinds
  <2>2. PICK k \in Kinds : k = "recv"
    BY <2>1
  <2>3. io[s][k] > 0 /\ io' = [io EXCEPT ![s][k] = @ - 1]
    BY <1>4, <2>2
  <2>4. TypeOK
    BY <1>1
  <2>5. /\ io' \in [Slots -> [Kinds -> Nat]] /\ io'[s][k] = io[s][k] - 1
        /\ (\A j \in Kinds : j # k => io'[s][j] = io[s][j]) /\ \A x \in Slots : x # s => io'[x] = io[x]
    BY <2>3, <2>4, Answered
  <2> QED BY <2>1, <2>2, <2>5
<1>9. ShutDown(sock, sock') /\ sock'[info[s]] \in {"shut", "closed", "none"}
  <2>1. \A x \in Conns : sock[x] \in {"none", "open", "reset", "shut", "closed"}
    BY <1>1 DEF TypeOK
  <2> QED BY <1>4, <1>7, <2>1 DEF ShutDown
<1>10. TypeOK'
  <2>1. sock' \in [Conns -> {"none", "open", "reset", "shut", "closed"}]
    BY <1>1, <1>2, <1>3, <1>4, <1>6, <1>8, <1>9 DEF TypeOK
  <2>2. work' \in [Workers -> {"idle", "recv", "unsend", "dec", "log"}]
    BY <1>1, <1>2, <1>3, <1>4, <1>6, <1>8, <1>9 DEF TypeOK
  <2>3. workAt' \in [Workers -> Slots \cup {NoSlot}]
    BY <1>1, <1>2, <1>3, <1>4, <1>6, <1>8, <1>9 DEF TypeOK
  <2>4. stuck' \in SUBSET Slots
    BY <1>1, <1>2, <1>3, <1>4, <1>7, <1>8, <1>9 DEF TypeOK
  <2>5. io' \in [Slots -> [Kinds -> Nat]]
    BY <1>8
  <2>6. {io', left'} \subseteq [Slots -> [Kinds -> Nat]]
    <3>1. left' \in [Slots -> [Kinds -> Nat]]
      BY <1>1, <1>5 DEF TypeOK
    <3> QED BY <2>5, <3>1
  <2> QED BY <1>1, <1>5, <2>1, <2>2, <2>3, <2>4, <2>5, <2>6 DEF TypeOK
<1>11. Bounded' /\ GameLeft' /\ Steps'
  BY <1>1, <1>5 DEF Bounded, GameLeft, Steps
<1>12. Indexed'
  BY <1>1, <1>5 DEF Indexed
<1>13. Counted'
  BY <1>1, <1>5 DEF Counted
<1>14. ThreadInv'
  <2>1. \A v \in Workers : v # w => ((work'[v] = "idle") <=> (workAt'[v] = NoSlot))
    BY <1>1, <1>5, <1>7 DEF ThreadInv
  <2>2. (work'[w] = "idle") <=> (workAt'[w] = NoSlot)
    BY <1>1, <1>2, <1>3, <1>4, <1>5, <1>7 DEF ThreadInv
  <2> QED BY <1>1, <1>5, <2>1, <2>2 DEF ThreadInv
<1>15. Used'
  <2>1. \A x \in Conns : sock'[x] = "none" <=> sock[x] = "none"
    BY <1>9 DEF ShutDown
  <2>2. \A x \in heirs : x \in Conns
    BY <1>1 DEF TypeOK
  <2> QED BY <1>1, <1>2, <1>5, <2>1, <2>2 DEF Used
<1>16. ASSUME NEW r \in Slots PROVE IOAt(r)'
  <2>1. \A v \in Workers : v # w => workAt'[v] = workAt[v] /\ work'[v] = work[v]
    BY <1>5, <1>7
  <2>2. /\ NoSlot # r
        /\ work[w] = "idle" /\ (work[w] = "idle" <=> workAt[w] = NoSlot)
        /\ work'[w] = "dec" /\ workAt'[w] = s
    BY <1>1, <1>2, <1>4, <1>5, <1>7 DEF ThreadInv
  <2>3. /\ Cardinality(Handled(workAt', work', r))
             = Cardinality(Handled(workAt, work, r)) + (IF r = s THEN 1 ELSE 0)
        /\ Cardinality(Recving(workAt', work', r)) = Cardinality(Recving(workAt, work, r))
    BY <2>1, <2>2, ConstantsOK, WorkStepped, WorkNat
  <2>5. Pending(r)' = Pending(r) - (IF r = s THEN 1 ELSE 0)
    <3>1. CASE r = s
      <4>1. io'[r]["recv"] = io[r]["recv"] - 1 /\ io'[r]["send"] = io[r]["send"] /\ left' = left
        BY <1>5, <1>8, <3>1
      <4> QED BY <1>2, <3>1, <4>1 DEF Pending
    <3>2. CASE r # s
      <4>1. io'[r] = io[r] /\ left' = left
        BY <1>5, <1>8, <3>2
      <4> QED BY <1>2, <3>2, <4>1 DEF Pending
    <3> QED BY <3>1, <3>2
  <2>6. IOAt(r) /\ IONat(r)
    BY <1>1, <1>2
  <2>7. ioCount'[r] = Pending(r)' + Cardinality(Handled(workAt', work', r)) + Cardinality(Recving(workAt', work', r))
                     + One(sendAt' = r /\ send' \in {"peek", "post", "fail"}) + One(authAt' = r /\ auth' = "join")
    <3>1. /\ NoSlot \notin Slots /\ auth' = auth /\ authAt' = authAt /\ send' = send /\ sendAt' = sendAt
          /\ work[w] = "idle" /\ work'[w] = "dec" /\ workAt'[w] = s /\ ioCount'[r] = ioCount[r]
      BY <1>2, <1>4, <1>5, <1>7
    <3> QED BY <1>1, <1>3, <2>3, <2>5, <2>6, <3>1 DEF ThreadInv, IOAt, IONat, One
  <2> QED BY <2>7 DEF IOAt, Handled, Recving, One
<1>17. ASSUME NEW r \in Slots PROVE SlotInv(r)'
  <2>1. OneSend(r) /\ Empty(r) /\ Told(r) /\ Own(r) /\ Alone(r) /\ OneRecv(r) /\ Fresh(r) /\ Heard(r) /\ Ended(r)
    BY <1>1 DEF SlotInv
  <2>2. Empty(r)' /\ Told(r)' /\ Own(r)' /\ Alone(r)'
    BY <1>5, <2>1 DEF Empty, Told, Own, Alone, Clean
  <2>3. OneSend(r)'
    BY <1>1, <1>2, <1>3, <1>4, <1>5, <1>7, <1>8, <1>9, <2>1 DEF OneSend, Sent
  <2>4. OneRecv(r)'
    BY <1>1, <1>2, <1>3, <1>4, <1>5, <1>7, <1>8, <1>9, <2>1 DEF OneRecv, Clean, Recv
  <2>5. Fresh(r)'
    BY <1>1, <1>2, <1>3, <1>4, <1>5, <1>7, <1>8, <1>9, <2>1 DEF Fresh, Clean, Joining, Posting, Quiet
  <2>6. Heard(r)'
    <3>1. CASE r = s
      <4>1. /\ mode' = mode /\ info' = info /\ heirs' = heirs /\ authAt' = authAt /\ auth' = auth
            /\ io'[r]["recv"] = io[r]["recv"] - 1 /\ io'[r]["send"] = io[r]["send"] /\ work'[w] = "dec"
            /\ workAt'[w] = s
            /\ (\A v \in Workers : v # w => work'[v] = work[v] /\ workAt'[v] = workAt[v])
        BY <1>5, <1>7, <3>1, <1>8
      <4> QED BY <1>1, <1>2, <1>3, <1>4, <2>1, <3>1, <1>9, <4>1 DEF Heard, Clean, Joining, Recv,
         ShutDown
    <3>2. CASE r # s
      <4>1. /\ mode' = mode /\ info' = info /\ heirs' = heirs /\ authAt' = authAt /\ auth' = auth
            /\ io'[r] = io[r] /\ work'[w] = "dec" /\ workAt'[w] = s
            /\ (\A v \in Workers : v # w => work'[v] = work[v] /\ workAt'[v] = workAt[v])
        BY <1>2, <1>5, <1>7, <3>2, <1>8
      <4>2. \A x \in Conns : sock[x] \in {"shut", "closed"} => sock'[x] \in {"shut", "closed"}
        BY <1>9 DEF ShutDown
      <4>3. \A x \in Conns : sock'[x] \in {"open", "reset"} => sock[x] \in {"open", "reset"}
        BY <1>9 DEF ShutDown
      <4> QED BY <1>2, <2>1, <3>2, <1>4, <4>1, <4>2, <4>3 DEF Heard, Clean, Joining, Recv
    <3> QED BY <3>1, <3>2
  <2>7. Ended(r)'
    <3>1. CASE r = s
      <4>1. /\ mode' = mode /\ info' = info /\ heirs' = heirs /\ logout' = logout /\ sendAt' = sendAt
            /\ send' = send /\ work'[w] = "dec" /\ workAt'[w] = s /\ io'[r]["recv"] = io[r]["recv"] - 1
            /\ io'[r]["send"] = io[r]["send"] /\ authAt' = authAt /\ auth' = auth
            /\ (\A v \in Workers : v # w => work'[v] = work[v] /\ workAt'[v] = workAt[v])
        BY <1>5, <1>7, <3>1, <1>8
      <4> QED BY <1>1, <1>2, <1>3, <1>4, <2>1, <3>1, <1>9, <4>1 DEF Ended, Clean, Over, Quiet,
         Joining, ShutDown
    <3>2. CASE r # s
      <4>1. /\ mode' = mode /\ info' = info /\ heirs' = heirs /\ logout' = logout /\ sendAt' = sendAt
            /\ send' = send /\ work'[w] = "dec" /\ workAt'[w] = s /\ io'[r] = io[r] /\ authAt' = authAt
            /\ auth' = auth
            /\ (\A v \in Workers : v # w => work'[v] = work[v] /\ workAt'[v] = workAt[v])
        BY <1>2, <1>5, <1>7, <3>2, <1>8
      <4>2. \A x \in Conns : sock[x] \in {"shut", "closed"} => sock'[x] \in {"shut", "closed"}
        BY <1>9 DEF ShutDown
      <4>3. \A x \in Conns : sock'[x] \in {"open", "reset"} => sock[x] \in {"open", "reset"}
        BY <1>9 DEF ShutDown
      <4>4. Over(r) /\ Clean(r) => Over(r)'
        BY <1>2, <3>2, <4>1, <4>2 DEF Over, Quiet, Joining, Clean
      <4>5. Clean(r)' <=> Clean(r)
        BY <4>1 DEF Clean
      <4> QED BY <1>2, <1>4, <2>1, <3>2, <4>1, <4>4, <4>5 DEF Ended
    <3> QED BY <3>1, <3>2
  <2> QED BY <2>2, <2>3, <2>4, <2>5, <2>6, <2>7 DEF SlotInv
<1> QED BY <1>10, <1>11, <1>12, <1>13, <1>14, <1>15, <1>16, <1>17 DEF IInv

LEMMA FailedSendStep ==
  ASSUME ConstantsOK, IInv, NEW w \in Workers, NEW s \in Slots, Failed(w, s, "send"),
         io[s]["send"] > 0, io' = [io EXCEPT ![s]["send"] = @ - 1], UNCHANGED left
  PROVE  IInv'
<1>1. /\ TypeOK /\ ThreadInv /\ Bounded /\ GameLeft /\ Used /\ Steps /\ Counted /\ Indexed
      /\ \A r \in Slots : IOAt(r) /\ SlotInv(r)
  BY DEF IInv
<1>2. /\ {authAt, blank, gameAt, sendAt} \subseteq Slots \cup {NoSlot} /\ NoSlot \notin Slots /\ NoConn \notin Conns
      /\ workAt \in [Workers -> Slots \cup {NoSlot}]
      /\ (\A i \in DOMAIN queue : queue[i] \in Conns) /\ (\A i \in DOMAIN free : free[i] \in Slots)
      /\ \A r \in Slots : (mode[r] # "NONE" <=> info[r] # NoConn) /\ (mode[r] # "NONE" <=> info[r] \in Conns)
      /\ \A r \in Slots : io[r]["recv"] \in Nat /\ io[r]["send"] \in Nat /\ left[r]["recv"] \in Nat
           /\ left[r]["send"] \in Nat
      /\ \A r \in Slots : IONat(r)
  BY <1>1, StateTypes
<1>3. /\ s \in Slots /\ IOAt(s) /\ OneSend(s) /\ Empty(s) /\ Told(s) /\ Own(s)
      /\ Alone(s) /\ OneRecv(s) /\ Fresh(s) /\ Heard(s) /\ Ended(s)
  BY <1>1 DEF SlotInv
<1>4. work[w] = "idle" /\ io[s]["send"] > 0 /\ info[s] \in Conns
  BY <1>1, <1>2, <1>3 DEF Failed, Shut, Refused, Work, Completes, Steps, Used, ThreadInv
<1>5. UNCHANGED <<queue, mode, info, toGame, inbox, free, authCount, gameCount, total, told, sendQ,
        sending, sendCount, ioCount, left, logout, auth, authAt, blank, game, gameAt, send, sendAt,
        toSend, heirs, taken, down>>
  BY DEF Failed, Shut, Refused, Work, Completes, authT, flow, gameT, got, sendT
<1>6. /\ sock' = [sock EXCEPT ![info[s]] = IF sock[info[s]] \in {"open", "reset"} THEN "shut" ELSE sock[info[s]]]
      /\ work' = [work EXCEPT ![w] = "dec"]
      /\ workAt' = [workAt EXCEPT ![w] = s]
  BY DEF Failed, Shut, Refused, Work, Completes
<1>7. /\ sock'[info[s]] = (IF sock[info[s]] \in {"open", "reset"} THEN "shut" ELSE sock[info[s]])
           /\ \A x \in Conns : x # info[s] => sock'[x] = sock[x]
      /\ work'[w] = "dec" /\ \A x \in Workers : x # w => work'[x] = work[x]
      /\ workAt'[w] = s /\ \A x \in Workers : x # w => workAt'[x] = workAt[x]
      /\ stuck' = stuck \cup {s}
  BY <1>1, <1>2, <1>3, <1>4, <1>6 DEF Failed, Shut, Refused, Work, Completes, TypeOK
<1>8. /\ io' \in [Slots -> [Kinds -> Nat]]
      /\ io'[s]["send"] = io[s]["send"] - 1 /\ io'[s]["recv"] = io[s]["recv"]
      /\ \A x \in Slots : x # s => io'[x] = io[x]
  <2>1. "recv" \in Kinds /\ "send" \in Kinds /\ "recv" # "send"
    BY DEF Kinds
  <2>2. PICK k \in Kinds : k = "send"
    BY <2>1
  <2>3. io[s][k] > 0 /\ io' = [io EXCEPT ![s][k] = @ - 1]
    BY <1>4, <2>2
  <2>4. TypeOK
    BY <1>1
  <2>5. /\ io' \in [Slots -> [Kinds -> Nat]] /\ io'[s][k] = io[s][k] - 1
        /\ (\A j \in Kinds : j # k => io'[s][j] = io[s][j]) /\ \A x \in Slots : x # s => io'[x] = io[x]
    BY <2>3, <2>4, Answered
  <2> QED BY <2>1, <2>2, <2>5
<1>9. ShutDown(sock, sock') /\ sock'[info[s]] \in {"shut", "closed", "none"}
  <2>1. \A x \in Conns : sock[x] \in {"none", "open", "reset", "shut", "closed"}
    BY <1>1 DEF TypeOK
  <2> QED BY <1>4, <1>7, <2>1 DEF ShutDown
<1>10. TypeOK'
  <2>1. sock' \in [Conns -> {"none", "open", "reset", "shut", "closed"}]
    BY <1>1, <1>2, <1>3, <1>4, <1>6, <1>8, <1>9 DEF TypeOK
  <2>2. work' \in [Workers -> {"idle", "recv", "unsend", "dec", "log"}]
    BY <1>1, <1>2, <1>3, <1>4, <1>6, <1>8, <1>9 DEF TypeOK
  <2>3. workAt' \in [Workers -> Slots \cup {NoSlot}]
    BY <1>1, <1>2, <1>3, <1>4, <1>6, <1>8, <1>9 DEF TypeOK
  <2>4. stuck' \in SUBSET Slots
    BY <1>1, <1>2, <1>3, <1>4, <1>7, <1>8, <1>9 DEF TypeOK
  <2>5. io' \in [Slots -> [Kinds -> Nat]]
    BY <1>8
  <2>6. {io', left'} \subseteq [Slots -> [Kinds -> Nat]]
    <3>1. left' \in [Slots -> [Kinds -> Nat]]
      BY <1>1, <1>5 DEF TypeOK
    <3> QED BY <2>5, <3>1
  <2> QED BY <1>1, <1>5, <2>1, <2>2, <2>3, <2>4, <2>5, <2>6 DEF TypeOK
<1>11. Bounded' /\ GameLeft' /\ Steps'
  BY <1>1, <1>5 DEF Bounded, GameLeft, Steps
<1>12. Indexed'
  BY <1>1, <1>5 DEF Indexed
<1>13. Counted'
  BY <1>1, <1>5 DEF Counted
<1>14. ThreadInv'
  <2>1. \A v \in Workers : v # w => ((work'[v] = "idle") <=> (workAt'[v] = NoSlot))
    BY <1>1, <1>5, <1>7 DEF ThreadInv
  <2>2. (work'[w] = "idle") <=> (workAt'[w] = NoSlot)
    BY <1>1, <1>2, <1>3, <1>4, <1>5, <1>7 DEF ThreadInv
  <2> QED BY <1>1, <1>5, <2>1, <2>2 DEF ThreadInv
<1>15. Used'
  <2>1. \A x \in Conns : sock'[x] = "none" <=> sock[x] = "none"
    BY <1>9 DEF ShutDown
  <2>2. \A x \in heirs : x \in Conns
    BY <1>1 DEF TypeOK
  <2> QED BY <1>1, <1>2, <1>5, <2>1, <2>2 DEF Used
<1>16. ASSUME NEW r \in Slots PROVE IOAt(r)'
  <2>1. \A v \in Workers : v # w => workAt'[v] = workAt[v] /\ work'[v] = work[v]
    BY <1>5, <1>7
  <2>2. /\ NoSlot # r
        /\ work[w] = "idle" /\ (work[w] = "idle" <=> workAt[w] = NoSlot)
        /\ work'[w] = "dec" /\ workAt'[w] = s
    BY <1>1, <1>2, <1>4, <1>5, <1>7 DEF ThreadInv
  <2>3. /\ Cardinality(Handled(workAt', work', r))
             = Cardinality(Handled(workAt, work, r)) + (IF r = s THEN 1 ELSE 0)
        /\ Cardinality(Recving(workAt', work', r)) = Cardinality(Recving(workAt, work, r))
    BY <2>1, <2>2, ConstantsOK, WorkStepped, WorkNat
  <2>5. Pending(r)' = Pending(r) - (IF r = s THEN 1 ELSE 0)
    <3>1. CASE r = s
      <4>1. io'[r]["send"] = io[r]["send"] - 1 /\ io'[r]["recv"] = io[r]["recv"] /\ left' = left
        BY <1>5, <1>8, <3>1
      <4> QED BY <1>2, <3>1, <4>1 DEF Pending
    <3>2. CASE r # s
      <4>1. io'[r] = io[r] /\ left' = left
        BY <1>5, <1>8, <3>2
      <4> QED BY <1>2, <3>2, <4>1 DEF Pending
    <3> QED BY <3>1, <3>2
  <2>6. IOAt(r) /\ IONat(r)
    BY <1>1, <1>2
  <2>7. ioCount'[r] = Pending(r)' + Cardinality(Handled(workAt', work', r)) + Cardinality(Recving(workAt', work', r))
                     + One(sendAt' = r /\ send' \in {"peek", "post", "fail"}) + One(authAt' = r /\ auth' = "join")
    <3>1. /\ NoSlot \notin Slots /\ auth' = auth /\ authAt' = authAt /\ send' = send /\ sendAt' = sendAt
          /\ work[w] = "idle" /\ work'[w] = "dec" /\ workAt'[w] = s /\ ioCount'[r] = ioCount[r]
      BY <1>2, <1>4, <1>5, <1>7
    <3> QED BY <1>1, <1>3, <2>3, <2>5, <2>6, <3>1 DEF ThreadInv, IOAt, IONat, One
  <2> QED BY <2>7 DEF IOAt, Handled, Recving, One
<1>17. ASSUME NEW r \in Slots PROVE SlotInv(r)'
  <2>1. OneSend(r) /\ Empty(r) /\ Told(r) /\ Own(r) /\ Alone(r) /\ OneRecv(r) /\ Fresh(r) /\ Heard(r) /\ Ended(r)
    BY <1>1 DEF SlotInv
  <2>2. Empty(r)' /\ Told(r)' /\ Own(r)' /\ Alone(r)'
    BY <1>5, <2>1 DEF Empty, Told, Own, Alone, Clean
  <2>3. OneSend(r)'
    <3>1. CASE r = s
      <4>1. /\ sendAt' = sendAt /\ sending' = sending /\ io'[r]["send"] = io[r]["send"] - 1
            /\ io'[r]["recv"] = io[r]["recv"] /\ left' = left /\ work'[w] = "dec" /\ workAt'[w] = s
            /\ (\A v \in Workers : v # w => work'[v] = work[v] /\ workAt'[v] = workAt[v])
        BY <1>5, <1>7, <3>1, <1>8
      <4> QED BY <1>1, <1>2, <1>3, <1>4, <2>1, <3>1, <4>1 DEF OneSend, Sent
    <3>2. CASE r # s
      <4>1. /\ sendAt' = sendAt /\ sending' = sending /\ io'[r] = io[r] /\ left' = left /\ work'[w] = "dec"
            /\ workAt'[w] = s
            /\ (\A v \in Workers : v # w => work'[v] = work[v] /\ workAt'[v] = workAt[v])
        BY <1>2, <1>5, <1>7, <3>2, <1>8
      <4> QED BY <1>2, <2>1, <3>2, <1>4, <4>1 DEF OneSend, Sent
    <3> QED BY <3>1, <3>2
  <2>4. OneRecv(r)'
    BY <1>1, <1>2, <1>3, <1>4, <1>5, <1>7, <1>8, <1>9, <2>1 DEF OneRecv, Clean, Recv
  <2>5. Fresh(r)'
    BY <1>1, <1>2, <1>3, <1>4, <1>5, <1>7, <1>8, <1>9, <2>1 DEF Fresh, Clean, Joining, Posting, Quiet
  <2>6. Heard(r)'
    <3>1. CASE r = s
      <4>1. /\ mode' = mode /\ info' = info /\ heirs' = heirs /\ authAt' = authAt /\ auth' = auth
            /\ io'[r]["send"] = io[r]["send"] - 1 /\ io'[r]["recv"] = io[r]["recv"] /\ work'[w] = "dec"
            /\ workAt'[w] = s
            /\ (\A v \in Workers : v # w => work'[v] = work[v] /\ workAt'[v] = workAt[v])
        BY <1>5, <1>7, <3>1, <1>8
      <4> QED BY <1>1, <1>2, <1>3, <1>4, <2>1, <3>1, <1>9, <4>1 DEF Heard, Clean, Joining, Recv,
         ShutDown
    <3>2. CASE r # s
      <4>1. /\ mode' = mode /\ info' = info /\ heirs' = heirs /\ authAt' = authAt /\ auth' = auth
            /\ io'[r] = io[r] /\ work'[w] = "dec" /\ workAt'[w] = s
            /\ (\A v \in Workers : v # w => work'[v] = work[v] /\ workAt'[v] = workAt[v])
        BY <1>2, <1>5, <1>7, <3>2, <1>8
      <4>2. \A x \in Conns : sock[x] \in {"shut", "closed"} => sock'[x] \in {"shut", "closed"}
        BY <1>9 DEF ShutDown
      <4>3. \A x \in Conns : sock'[x] \in {"open", "reset"} => sock[x] \in {"open", "reset"}
        BY <1>9 DEF ShutDown
      <4> QED BY <1>2, <2>1, <3>2, <1>4, <4>1, <4>2, <4>3 DEF Heard, Clean, Joining, Recv
    <3> QED BY <3>1, <3>2
  <2>7. Ended(r)'
    <3>1. CASE r = s
      <4>1. /\ mode' = mode /\ info' = info /\ heirs' = heirs /\ logout' = logout /\ sendAt' = sendAt
            /\ send' = send /\ work'[w] = "dec" /\ workAt'[w] = s /\ io'[r]["send"] = io[r]["send"] - 1
            /\ io'[r]["recv"] = io[r]["recv"] /\ authAt' = authAt /\ auth' = auth
            /\ (\A v \in Workers : v # w => work'[v] = work[v] /\ workAt'[v] = workAt[v])
        BY <1>5, <1>7, <3>1, <1>8
      <4> QED BY <1>1, <1>2, <1>3, <1>4, <2>1, <3>1, <1>9, <4>1 DEF Ended, Clean, Over, Quiet,
         Joining, ShutDown
    <3>2. CASE r # s
      <4>1. /\ mode' = mode /\ info' = info /\ heirs' = heirs /\ logout' = logout /\ sendAt' = sendAt
            /\ send' = send /\ work'[w] = "dec" /\ workAt'[w] = s /\ io'[r] = io[r] /\ authAt' = authAt
            /\ auth' = auth
            /\ (\A v \in Workers : v # w => work'[v] = work[v] /\ workAt'[v] = workAt[v])
        BY <1>2, <1>5, <1>7, <3>2, <1>8
      <4>2. \A x \in Conns : sock[x] \in {"shut", "closed"} => sock'[x] \in {"shut", "closed"}
        BY <1>9 DEF ShutDown
      <4>3. \A x \in Conns : sock'[x] \in {"open", "reset"} => sock[x] \in {"open", "reset"}
        BY <1>9 DEF ShutDown
      <4>4. Over(r) /\ Clean(r) => Over(r)'
        BY <1>2, <3>2, <4>1, <4>2 DEF Over, Quiet, Joining, Clean
      <4>5. Clean(r)' <=> Clean(r)
        BY <4>1 DEF Clean
      <4> QED BY <1>2, <1>4, <2>1, <3>2, <4>1, <4>4, <4>5 DEF Ended
    <3> QED BY <3>1, <3>2
  <2> QED BY <2>2, <2>3, <2>4, <2>5, <2>6, <2>7 DEF SlotInv
<1> QED BY <1>10, <1>11, <1>12, <1>13, <1>14, <1>15, <1>16, <1>17 DEF IInv

LEMMA SendDoneStep ==
  ASSUME ConstantsOK, IInv, NEW w \in Workers, NEW s \in Slots, SendDone(w, s), io[s]["send"] > 0,
         io' = [io EXCEPT ![s]["send"] = @ - 1], UNCHANGED left
  PROVE  IInv'
<1>1. /\ TypeOK /\ ThreadInv /\ Bounded /\ GameLeft /\ Used /\ Steps /\ Counted /\ Indexed
      /\ \A r \in Slots : IOAt(r) /\ SlotInv(r)
  BY DEF IInv
<1>2. /\ {authAt, blank, gameAt, sendAt} \subseteq Slots \cup {NoSlot} /\ NoSlot \notin Slots /\ NoConn \notin Conns
      /\ workAt \in [Workers -> Slots \cup {NoSlot}]
      /\ \A r \in Slots : (mode[r] # "NONE" <=> info[r] # NoConn) /\ (mode[r] # "NONE" <=> info[r] \in Conns)
      /\ \A r \in Slots : io[r]["recv"] \in Nat /\ io[r]["send"] \in Nat /\ left[r]["recv"] \in Nat
           /\ left[r]["send"] \in Nat
      /\ \A r \in Slots : IONat(r)
  BY <1>1, StateTypes
<1>3. /\ s \in Slots /\ IOAt(s) /\ OneSend(s) /\ Empty(s) /\ Told(s) /\ Own(s)
      /\ Alone(s) /\ OneRecv(s) /\ Fresh(s) /\ Heard(s) /\ Ended(s)
  BY <1>1 DEF SlotInv
<1>4. work[w] = "idle" /\ io[s]["send"] > 0
  BY <1>1, <1>2, <1>3 DEF SendDone, Work, Completes, Steps, Used, ThreadInv
<1>5. UNCHANGED <<sock, queue, mode, info, toGame, inbox, free, authCount, gameCount, total, told,
        sending, sendCount, ioCount, left, logout, stuck, auth, authAt, blank, game, gameAt, send,
        sendAt, toSend, heirs, taken, down>>
  BY DEF SendDone, Work, Completes, authT, conns, flow, gameT, got, sendT
<1>6. /\ sendQ' = [sendQ EXCEPT ![s] = SubSeq(sendQ[s], sendCount[s] + 1, Len(sendQ[s]))]
      /\ work' = [work EXCEPT ![w] = "unsend"]
      /\ workAt' = [workAt EXCEPT ![w] = s]
  BY DEF SendDone, Work, Completes
<1>7. /\ sendQ'[s] = (SubSeq(sendQ[s], sendCount[s] + 1, Len(sendQ[s]))) /\ \A x \in Slots : x # s
           => sendQ'[x] = sendQ[x]
      /\ work'[w] = "unsend" /\ \A x \in Workers : x # w => work'[x] = work[x]
      /\ workAt'[w] = s /\ \A x \in Workers : x # w => workAt'[x] = workAt[x]
  <2>1. sendQ'[s] = (SubSeq(sendQ[s], sendCount[s] + 1, Len(sendQ[s]))) /\ \A x \in Slots : x # s
            => sendQ'[x] = sendQ[x]
    <3>1. sendQ \in [Slots -> Seq(Conns)]
      BY <1>1 DEF TypeOK
    <3>2. s \in Slots
      BY <1>2, <1>3, <1>4
    <3> QED BY <1>6, <3>1, <3>2
  <2>2. work'[w] = "unsend" /\ \A x \in Workers : x # w => work'[x] = work[x]
    <3>1. work \in [Workers -> {"idle", "recv", "unsend", "dec", "log"}]
      BY <1>1 DEF TypeOK
    <3>2. w \in Workers
      BY <1>2, <1>3, <1>4
    <3> QED BY <1>6, <3>1, <3>2
  <2>3. workAt'[w] = s /\ \A x \in Workers : x # w => workAt'[x] = workAt[x]
    <3>1. workAt \in [Workers -> Slots \cup {NoSlot}]
      BY <1>1 DEF TypeOK
    <3>2. w \in Workers
      BY <1>2, <1>3, <1>4
    <3> QED BY <1>6, <3>1, <3>2
  <2> QED BY <2>1, <2>2, <2>3
<1>8. /\ io' \in [Slots -> [Kinds -> Nat]]
      /\ io'[s]["send"] = io[s]["send"] - 1 /\ io'[s]["recv"] = io[s]["recv"]
      /\ \A x \in Slots : x # s => io'[x] = io[x]
  <2>1. "recv" \in Kinds /\ "send" \in Kinds /\ "recv" # "send"
    BY DEF Kinds
  <2>2. PICK k \in Kinds : k = "send"
    BY <2>1
  <2>3. io[s][k] > 0 /\ io' = [io EXCEPT ![s][k] = @ - 1]
    BY <1>4, <2>2
  <2>4. TypeOK
    BY <1>1
  <2>5. /\ io' \in [Slots -> [Kinds -> Nat]] /\ io'[s][k] = io[s][k] - 1
        /\ (\A j \in Kinds : j # k => io'[s][j] = io[s][j]) /\ \A x \in Slots : x # s => io'[x] = io[x]
    BY <2>3, <2>4, Answered
  <2> QED BY <2>1, <2>2, <2>5
<1>9. sendQ'[s] \in Seq(Conns) /\ Len(sendQ'[s]) <= MaxOut /\ (\A i \in DOMAIN sendQ'[s] : sendQ'[s][i] = info[s])
      /\ (sendQ[s] = <<>> => sendQ'[s] = <<>>)
  <2>1. sendQ[s] \in Seq(Conns) /\ Len(sendQ[s]) <= MaxOut /\ (\A i \in DOMAIN sendQ[s] : sendQ[s][i] = info[s])
    BY <1>1, <1>3 DEF TypeOK, Bounded, Own
  <2>2. MaxOut \in Nat /\ Len(sendQ[s]) \in Nat /\ sendCount[s] \in Nat /\ DOMAIN sendQ[s] = 1..Len(sendQ[s])
    <3>1. MaxOut \in Nat /\ sendCount \in [Slots -> 0..MaxOut]
      BY <1>1, ConstantsOK DEF TypeOK, ConstantsOK
    <3> QED BY <2>1, <3>1
  <2> DEFINE m == sendCount[s] + 1
  <2> DEFINE n == Len(sendQ[s])
  <2>3. m \in Int /\ n \in Int /\ m >= 1 /\ n >= 0 /\ n <= MaxOut
    BY <2>1, <2>2
  <2>4. \A i \in m..n : sendQ[s][i] \in Conns /\ sendQ[s][i] = info[s]
    BY <2>1, <2>2
  <2>5. sendQ'[s] = SubSeq(sendQ[s], m, n)
    BY <1>7
  <2> HIDE DEF m, n
  <2>6. /\ sendQ'[s] \in Seq(Conns) /\ Len(sendQ'[s]) = IF m <= n THEN n - m + 1 ELSE 0
        /\ \A i \in 1..(n - m + 1) : sendQ'[s][i] = sendQ[s][m + i - 1]
    BY <2>3, <2>4, <2>5, SubSeqProperties
  <2>7. Len(sendQ'[s]) <= MaxOut /\ DOMAIN sendQ'[s] = 1..Len(sendQ'[s])
    BY <2>2, <2>3, <2>6
  <2>8. ASSUME NEW i \in DOMAIN sendQ'[s] PROVE sendQ'[s][i] = info[s]
    <3>1. i \in 1..(n - m + 1) /\ m + i - 1 \in m..n
      BY <2>3, <2>6, <2>7
    <3> QED BY <2>4, <2>6, <3>1
  <2>9. ASSUME sendQ[s] = <<>> PROVE sendQ'[s] = <<>>
    <3>1. n = 0
      BY <2>9 DEF n
    <3>2. Len(sendQ'[s]) = 0
      BY <2>3, <2>6, <3>1
    <3> QED BY <2>6, <3>2, EmptySeq
  <2> QED BY <2>6, <2>7, <2>8, <2>9
<1>10. TypeOK'
  <2>1. sendQ' \in [Slots -> Seq(Conns)]
    <3>1. sendQ \in [Slots -> Seq(Conns)]
      BY <1>1 DEF TypeOK
    <3>2. SubSeq(sendQ[s], sendCount[s] + 1, Len(sendQ[s])) \in Seq(Conns)
      BY <1>7, <1>9
    <3>3. sendQ' = [sendQ EXCEPT ![s] = SubSeq(sendQ[s], sendCount[s] + 1, Len(sendQ[s]))]
      BY <1>6
    <3> QED BY <3>1, <3>2, <3>3
  <2>2. work' \in [Workers -> {"idle", "recv", "unsend", "dec", "log"}]
    BY <1>1, <1>2, <1>3, <1>4, <1>6, <1>8, <1>9 DEF TypeOK
  <2>3. workAt' \in [Workers -> Slots \cup {NoSlot}]
    BY <1>1, <1>2, <1>3, <1>4, <1>6, <1>8, <1>9 DEF TypeOK
  <2>4. io' \in [Slots -> [Kinds -> Nat]]
    BY <1>8
  <2>5. {io', left'} \subseteq [Slots -> [Kinds -> Nat]]
    <3>1. left' \in [Slots -> [Kinds -> Nat]]
      BY <1>1, <1>5 DEF TypeOK
    <3> QED BY <2>4, <3>1
  <2> QED BY <1>1, <1>5, <2>1, <2>2, <2>3, <2>4, <2>5 DEF TypeOK
<1>11. GameLeft' /\ Used' /\ Indexed'
  BY <1>1, <1>5 DEF GameLeft, Used, Indexed
<1>12. Counted'
  BY <1>1, <1>5 DEF Counted
<1>13. ThreadInv'
  <2>1. \A v \in Workers : v # w => ((work'[v] = "idle") <=> (workAt'[v] = NoSlot))
    BY <1>1, <1>5, <1>7 DEF ThreadInv
  <2>2. (work'[w] = "idle") <=> (workAt'[w] = NoSlot)
    BY <1>1, <1>2, <1>3, <1>4, <1>5, <1>7 DEF ThreadInv
  <2> QED BY <1>1, <1>5, <2>1, <2>2 DEF ThreadInv
<1>14. Bounded'
  BY <1>1, <1>2, <1>3, <1>4, <1>5, <1>7, <1>8, <1>9 DEF Bounded
<1>15. Steps'
  BY <1>1, <1>2, <1>3, <1>4, <1>5, <1>7, <1>8, <1>9 DEF Steps, ThreadInv
<1>16. ASSUME NEW r \in Slots PROVE IOAt(r)'
  <2>1. \A v \in Workers : v # w => workAt'[v] = workAt[v] /\ work'[v] = work[v]
    BY <1>5, <1>7
  <2>2. /\ NoSlot # r
        /\ work[w] = "idle" /\ (work[w] = "idle" <=> workAt[w] = NoSlot)
        /\ work'[w] = "unsend" /\ workAt'[w] = s
    BY <1>1, <1>2, <1>4, <1>5, <1>7 DEF ThreadInv
  <2>3. /\ Cardinality(Handled(workAt', work', r))
             = Cardinality(Handled(workAt, work, r)) + (IF r = s THEN 1 ELSE 0)
        /\ Cardinality(Recving(workAt', work', r)) = Cardinality(Recving(workAt, work, r))
    BY <2>1, <2>2, ConstantsOK, WorkStepped, WorkNat
  <2>5. Pending(r)' = Pending(r) - (IF r = s THEN 1 ELSE 0)
    <3>1. CASE r = s
      <4>1. io'[r]["send"] = io[r]["send"] - 1 /\ io'[r]["recv"] = io[r]["recv"] /\ left' = left
        BY <1>5, <1>8, <3>1
      <4> QED BY <1>2, <3>1, <4>1 DEF Pending
    <3>2. CASE r # s
      <4>1. io'[r] = io[r] /\ left' = left
        BY <1>5, <1>8, <3>2
      <4> QED BY <1>2, <3>2, <4>1 DEF Pending
    <3> QED BY <3>1, <3>2
  <2>6. IOAt(r) /\ IONat(r)
    BY <1>1, <1>2
  <2>7. ioCount'[r] = Pending(r)' + Cardinality(Handled(workAt', work', r)) + Cardinality(Recving(workAt', work', r))
                     + One(sendAt' = r /\ send' \in {"peek", "post", "fail"}) + One(authAt' = r /\ auth' = "join")
    <3>1. /\ NoSlot \notin Slots /\ auth' = auth /\ authAt' = authAt /\ send' = send /\ sendAt' = sendAt
          /\ work[w] = "idle" /\ work'[w] = "unsend" /\ workAt'[w] = s /\ ioCount'[r] = ioCount[r]
      BY <1>2, <1>4, <1>5, <1>7
    <3> QED BY <1>1, <1>3, <2>3, <2>5, <2>6, <3>1 DEF ThreadInv, IOAt, IONat, One
  <2> QED BY <2>7 DEF IOAt, Handled, Recving, One
<1>17. ASSUME NEW r \in Slots PROVE SlotInv(r)'
  <2>1. OneSend(r) /\ Empty(r) /\ Told(r) /\ Own(r) /\ Alone(r) /\ OneRecv(r) /\ Fresh(r) /\ Heard(r) /\ Ended(r)
    BY <1>1 DEF SlotInv
  <2>2. Told(r)' /\ Alone(r)'
    BY <1>5, <2>1 DEF Told, Alone, Clean
  <2>3. OneSend(r)'
    <3>1. CASE r = s
      <4>1. /\ sendAt' = sendAt /\ sending' = sending /\ io'[r]["send"] = io[r]["send"] - 1
            /\ io'[r]["recv"] = io[r]["recv"] /\ left' = left /\ work'[w] = "unsend" /\ workAt'[w] = s
            /\ (\A v \in Workers : v # w => work'[v] = work[v] /\ workAt'[v] = workAt[v])
        BY <1>5, <1>7, <3>1, <1>8
      <4> QED BY <1>1, <1>2, <1>3, <1>4, <2>1, <3>1, <4>1 DEF OneSend, Sent
    <3>2. CASE r # s
      <4>1. /\ sendAt' = sendAt /\ sending' = sending /\ io'[r] = io[r] /\ left' = left
            /\ work'[w] = "unsend" /\ workAt'[w] = s
            /\ (\A v \in Workers : v # w => work'[v] = work[v] /\ workAt'[v] = workAt[v])
        BY <1>2, <1>5, <1>7, <3>2, <1>8
      <4> QED BY <1>2, <2>1, <3>2, <1>4, <4>1 DEF OneSend, Sent
    <3> QED BY <3>1, <3>2
  <2>4. Empty(r)'
    BY <1>1, <1>2, <1>3, <1>4, <1>5, <1>7, <1>8, <1>9, <2>1 DEF Empty
  <2>5. Own(r)'
    <3>1. CASE r = s
      <4>1. info' = info
        BY <1>5, <1>7, <3>1
      <4> QED BY <1>1, <1>2, <1>3, <1>4, <2>1, <3>1, <4>1, <1>9 DEF Own
    <3>2. CASE r # s
      <4>1. sendQ'[r] = sendQ[r] /\ info' = info
        BY <1>2, <1>5, <1>7, <3>2
      <4> QED BY <1>2, <2>1, <3>2, <1>4, <4>1 DEF Own
    <3> QED BY <3>1, <3>2
  <2>6. OneRecv(r)'
    <3>1. CASE r = s
      <4>1. /\ mode' = mode /\ info' = info /\ heirs' = heirs /\ io'[r]["send"] = io[r]["send"] - 1
            /\ io'[r]["recv"] = io[r]["recv"] /\ work'[w] = "unsend" /\ workAt'[w] = s
            /\ (\A v \in Workers : v # w => work'[v] = work[v] /\ workAt'[v] = workAt[v])
        BY <1>5, <1>7, <3>1, <1>8
      <4> QED BY <1>1, <1>2, <1>3, <1>4, <2>1, <3>1, <4>1 DEF OneRecv, Clean, Recv
    <3>2. CASE r # s
      <4>1. /\ mode' = mode /\ info' = info /\ heirs' = heirs /\ io'[r] = io[r] /\ work'[w] = "unsend"
            /\ workAt'[w] = s
            /\ (\A v \in Workers : v # w => work'[v] = work[v] /\ workAt'[v] = workAt[v])
        BY <1>2, <1>5, <1>7, <3>2, <1>8
      <4> QED BY <1>2, <2>1, <3>2, <1>4, <4>1 DEF OneRecv, Clean, Recv
    <3> QED BY <3>1, <3>2
  <2>7. Fresh(r)'
    BY <1>1, <1>2, <1>3, <1>4, <1>5, <1>7, <1>8, <1>9, <2>1 DEF Fresh, Clean, Joining, Posting, Quiet,
       Steps
  <2>8. Heard(r)'
    <3>1. CASE r = s
      <4>1. /\ mode' = mode /\ info' = info /\ heirs' = heirs /\ sock' = sock /\ authAt' = authAt
            /\ auth' = auth /\ io'[r]["send"] = io[r]["send"] - 1 /\ io'[r]["recv"] = io[r]["recv"]
            /\ work'[w] = "unsend" /\ workAt'[w] = s
            /\ (\A v \in Workers : v # w => work'[v] = work[v] /\ workAt'[v] = workAt[v])
        BY <1>5, <1>7, <3>1, <1>8
      <4> QED BY <1>1, <1>2, <1>3, <1>4, <2>1, <3>1, <4>1 DEF Heard, Clean, Joining, Recv
    <3>2. CASE r # s
      <4>1. /\ mode' = mode /\ info' = info /\ heirs' = heirs /\ sock' = sock /\ authAt' = authAt
            /\ auth' = auth /\ io'[r] = io[r] /\ work'[w] = "unsend" /\ workAt'[w] = s
            /\ (\A v \in Workers : v # w => work'[v] = work[v] /\ workAt'[v] = workAt[v])
        BY <1>2, <1>5, <1>7, <3>2, <1>8
      <4> QED BY <1>2, <2>1, <3>2, <1>4, <4>1 DEF Heard, Clean, Joining, Recv
    <3> QED BY <3>1, <3>2
  <2>9. Ended(r)'
    <3>1. CASE r = s
      <4>1. /\ mode' = mode /\ info' = info /\ heirs' = heirs /\ logout' = logout /\ sendAt' = sendAt
            /\ send' = send /\ work'[w] = "unsend" /\ workAt'[w] = s /\ io'[r]["send"] = io[r]["send"] - 1
            /\ io'[r]["recv"] = io[r]["recv"] /\ authAt' = authAt /\ auth' = auth /\ sock' = sock
            /\ (\A v \in Workers : v # w => work'[v] = work[v] /\ workAt'[v] = workAt[v])
        BY <1>5, <1>7, <3>1, <1>8
      <4> QED BY <1>1, <1>2, <1>3, <1>4, <2>1, <3>1, <4>1 DEF Ended, Clean, Over, Quiet, Joining
    <3>2. CASE r # s
      <4>1. /\ mode' = mode /\ info' = info /\ heirs' = heirs /\ logout' = logout /\ sendAt' = sendAt
            /\ send' = send /\ work'[w] = "unsend" /\ workAt'[w] = s /\ io'[r] = io[r] /\ authAt' = authAt
            /\ auth' = auth /\ sock' = sock
            /\ (\A v \in Workers : v # w => work'[v] = work[v] /\ workAt'[v] = workAt[v])
        BY <1>2, <1>5, <1>7, <3>2, <1>8
      <4> QED BY <1>2, <2>1, <3>2, <1>4, <4>1 DEF Ended, Clean, Over, Quiet, Joining
    <3> QED BY <3>1, <3>2
  <2> QED BY <2>2, <2>3, <2>4, <2>5, <2>6, <2>7, <2>8, <2>9 DEF SlotInv
<1> QED BY <1>10, <1>11, <1>12, <1>13, <1>14, <1>15, <1>16, <1>17 DEF IInv

LEMMA RecvDoneLateStep ==
  ASSUME ConstantsOK, IInv, NEW w \in Workers, NEW s \in Slots, RecvDone(w, s), left[s]["recv"] > 0,
         left' = [left EXCEPT ![s]["recv"] = @ - 1], UNCHANGED io
  PROVE  IInv'
<1>1. /\ TypeOK /\ ThreadInv /\ Bounded /\ GameLeft /\ Used /\ Steps /\ Counted /\ Indexed
      /\ \A r \in Slots : IOAt(r) /\ SlotInv(r)
  BY DEF IInv
<1>2. /\ {authAt, blank, gameAt, sendAt} \subseteq Slots \cup {NoSlot} /\ NoSlot \notin Slots /\ NoConn \notin Conns
      /\ workAt \in [Workers -> Slots \cup {NoSlot}]
      /\ \A r \in Slots : (mode[r] # "NONE" <=> info[r] # NoConn) /\ (mode[r] # "NONE" <=> info[r] \in Conns)
      /\ \A r \in Slots : io[r]["recv"] \in Nat /\ io[r]["send"] \in Nat /\ left[r]["recv"] \in Nat
           /\ left[r]["send"] \in Nat
      /\ \A r \in Slots : IONat(r)
  BY <1>1, StateTypes
<1>3. /\ s \in Slots /\ IOAt(s) /\ OneSend(s) /\ Empty(s) /\ Told(s) /\ Own(s)
      /\ Alone(s) /\ OneRecv(s) /\ Fresh(s) /\ Heard(s) /\ Ended(s)
  BY <1>1 DEF SlotInv
<1>4. work[w] = "idle" /\ left[s]["recv"] > 0 /\ inbox[s] < MaxIn
  BY <1>1, <1>2, <1>3 DEF RecvDone, IncIO, Work, Completes, Steps, Used, ThreadInv
<1>5. UNCHANGED <<sock, queue, mode, info, toGame, free, authCount, gameCount, total, told, sendQ,
        sending, sendCount, io, logout, stuck, auth, authAt, blank, game, gameAt, send, sendAt,
        toSend, heirs, taken, down>>
  BY DEF RecvDone, IncIO, Work, Completes, authT, conns, gameT, got, sendT
<1>6. /\ inbox' = [inbox EXCEPT ![s] = inbox[s] + 1]
      /\ ioCount' = [ioCount EXCEPT ![s] = ioCount[s] + 1]
      /\ work' = [work EXCEPT ![w] = "recv"]
      /\ workAt' = [workAt EXCEPT ![w] = s]
  BY DEF RecvDone, IncIO, Work, Completes
<1>7. /\ inbox'[s] = (inbox[s] + 1) /\ \A x \in Slots : x # s => inbox'[x] = inbox[x]
      /\ ioCount'[s] = (ioCount[s] + 1) /\ \A x \in Slots : x # s => ioCount'[x] = ioCount[x]
      /\ work'[w] = "recv" /\ \A x \in Workers : x # w => work'[x] = work[x]
      /\ workAt'[w] = s /\ \A x \in Workers : x # w => workAt'[x] = workAt[x]
  BY <1>1, <1>2, <1>3, <1>4, <1>6 DEF RecvDone, IncIO, Work, Completes, TypeOK
<1>8. /\ left' \in [Slots -> [Kinds -> Nat]]
      /\ left'[s]["recv"] = left[s]["recv"] - 1 /\ left'[s]["send"] = left[s]["send"]
      /\ \A x \in Slots : x # s => left'[x] = left[x]
  <2>1. "recv" \in Kinds /\ "send" \in Kinds /\ "recv" # "send"
    BY DEF Kinds
  <2>2. PICK k \in Kinds : k = "recv"
    BY <2>1
  <2>3. left[s][k] > 0 /\ left' = [left EXCEPT ![s][k] = @ - 1]
    BY <1>4, <2>2
  <2>4. TypeOK
    BY <1>1
  <2>5. /\ left' \in [Slots -> [Kinds -> Nat]] /\ left'[s][k] = left[s][k] - 1
        /\ (\A j \in Kinds : j # k => left'[s][j] = left[s][j]) /\ \A x \in Slots : x # s => left'[x] = left[x]
    BY <2>3, <2>4, AnsweredLate
  <2> QED BY <2>1, <2>2, <2>5
<1>9. TypeOK'
  <2>1. inbox' \in [Slots -> 0..MaxIn]
    <3>1. inbox \in [Slots -> 0..MaxIn]
      BY <1>1 DEF TypeOK
    <3> QED BY <1>2, <1>3, <1>4, <1>6, <3>1, <1>8, ConstantsOK DEF ConstantsOK
  <2>2. ioCount' \in [Slots -> Nat]
    <3>1. ioCount \in [Slots -> Nat]
      BY <1>1 DEF TypeOK
    <3> QED BY <1>2, <1>3, <1>4, <1>6, <3>1, <1>8
  <2>3. work' \in [Workers -> {"idle", "recv", "unsend", "dec", "log"}]
    BY <1>1, <1>2, <1>3, <1>4, <1>6, <1>8 DEF TypeOK
  <2>4. workAt' \in [Workers -> Slots \cup {NoSlot}]
    BY <1>1, <1>2, <1>3, <1>4, <1>6, <1>8 DEF TypeOK
  <2>5. left' \in [Slots -> [Kinds -> Nat]]
    BY <1>8
  <2>6. {io', left'} \subseteq [Slots -> [Kinds -> Nat]]
    <3>1. io' \in [Slots -> [Kinds -> Nat]]
      BY <1>1, <1>5 DEF TypeOK
    <3> QED BY <2>5, <3>1
  <2> QED BY <1>1, <1>5, <2>1, <2>2, <2>3, <2>4, <2>5, <2>6 DEF TypeOK
<1>10. Bounded' /\ GameLeft' /\ Used'
  BY <1>1, <1>5 DEF Bounded, GameLeft, Used
<1>11. Steps' /\ Indexed'
  BY <1>1, <1>5 DEF Steps, Indexed
<1>12. Counted'
  BY <1>1, <1>5 DEF Counted
<1>13. ThreadInv'
  <2>1. \A v \in Workers : v # w => ((work'[v] = "idle") <=> (workAt'[v] = NoSlot))
    BY <1>1, <1>5, <1>7 DEF ThreadInv
  <2>2. (work'[w] = "idle") <=> (workAt'[w] = NoSlot)
    BY <1>1, <1>2, <1>3, <1>4, <1>5, <1>7 DEF ThreadInv
  <2> QED BY <1>1, <1>5, <2>1, <2>2 DEF ThreadInv
<1>14. ASSUME NEW r \in Slots PROVE IOAt(r)'
  <2>1. \A v \in Workers : v # w => workAt'[v] = workAt[v] /\ work'[v] = work[v]
    BY <1>5, <1>7
  <2>2. /\ NoSlot # r
        /\ work[w] = "idle" /\ (work[w] = "idle" <=> workAt[w] = NoSlot)
        /\ work'[w] = "recv" /\ workAt'[w] = s
    BY <1>1, <1>2, <1>4, <1>5, <1>7 DEF ThreadInv
  <2>3. /\ Cardinality(Handled(workAt', work', r))
             = Cardinality(Handled(workAt, work, r)) + (IF r = s THEN 1 ELSE 0)
        /\ Cardinality(Recving(workAt', work', r))
             = Cardinality(Recving(workAt, work, r)) + (IF r = s THEN 1 ELSE 0)
    BY <2>1, <2>2, ConstantsOK, WorkStepped, WorkNat
  <2>5. Pending(r)' = Pending(r) - (IF r = s THEN 1 ELSE 0)
    <3>1. CASE r = s
      <4>1. io' = io /\ left'[r]["recv"] = left[r]["recv"] - 1 /\ left'[r]["send"] = left[r]["send"]
        BY <1>5, <1>8, <3>1
      <4> QED BY <1>2, <3>1, <4>1 DEF Pending
    <3>2. CASE r # s
      <4>1. io' = io /\ left'[r] = left[r]
        BY <1>5, <1>8, <3>2
      <4> QED BY <1>2, <3>2, <4>1 DEF Pending
    <3> QED BY <3>1, <3>2
  <2>6. IOAt(r) /\ IONat(r)
    BY <1>1, <1>2
  <2>7. ioCount'[r] = Pending(r)' + Cardinality(Handled(workAt', work', r)) + Cardinality(Recving(workAt', work', r))
                     + One(sendAt' = r /\ send' \in {"peek", "post", "fail"}) + One(authAt' = r /\ auth' = "join")
    <3>1. /\ NoSlot \notin Slots /\ auth' = auth /\ authAt' = authAt /\ send' = send /\ sendAt' = sendAt
          /\ work[w] = "idle" /\ work'[w] = "recv" /\ workAt'[w] = s
          /\ r = s => ioCount'[r] = ioCount[r] + 1
          /\ r # s => ioCount'[r] = ioCount[r]
      BY <1>2, <1>4, <1>5, <1>7
    <3> QED BY <1>1, <1>3, <2>3, <2>5, <2>6, <3>1 DEF ThreadInv, IOAt, IONat, One
  <2> QED BY <2>7 DEF IOAt, Handled, Recving, One
<1>15. ASSUME NEW r \in Slots PROVE SlotInv(r)'
  <2>1. OneSend(r) /\ Empty(r) /\ Told(r) /\ Own(r) /\ Alone(r) /\ OneRecv(r) /\ Fresh(r) /\ Heard(r) /\ Ended(r)
    BY <1>1 DEF SlotInv
  <2>2. Empty(r)' /\ Told(r)' /\ Own(r)'
    BY <1>5, <2>1 DEF Empty, Told, Own
  <2>3. OneSend(r)'
    BY <1>1, <1>2, <1>3, <1>4, <1>5, <1>7, <1>8, <2>1 DEF OneSend, Sent
  <2>4. Alone(r)'
    BY <1>1, <1>2, <1>3, <1>4, <1>5, <1>7, <1>8, <2>1 DEF Alone, Clean
  <2>5. OneRecv(r)'
    <3>1. CASE r = s
      <4>1. /\ mode' = mode /\ info' = info /\ heirs' = heirs /\ io' = io /\ work'[w] = "recv"
            /\ workAt'[w] = s
            /\ (\A v \in Workers : v # w => work'[v] = work[v] /\ workAt'[v] = workAt[v])
        BY <1>5, <1>7, <3>1
      <4> QED BY <1>1, <1>2, <1>3, <1>4, <2>1, <3>1, <4>1 DEF OneRecv, Clean, Recv, Alone
    <3>2. CASE r # s
      <4>1. /\ mode' = mode /\ info' = info /\ heirs' = heirs /\ io' = io /\ work'[w] = "recv"
            /\ workAt'[w] = s
            /\ (\A v \in Workers : v # w => work'[v] = work[v] /\ workAt'[v] = workAt[v])
        BY <1>2, <1>5, <1>7, <3>2
      <4> QED BY <1>2, <2>1, <3>2, <1>4, <4>1 DEF OneRecv, Clean, Recv
    <3> QED BY <3>1, <3>2
  <2>6. Fresh(r)'
    <3>1. CASE r = s
      <4>1. /\ mode' = mode /\ info' = info /\ heirs' = heirs /\ authAt' = authAt /\ auth' = auth /\ io' = io
            /\ sendQ' = sendQ /\ logout' = logout /\ workAt'[w] = s /\ sendAt' = sendAt /\ send' = send
            /\ (\A v \in Workers : v # w => work'[v] = work[v] /\ workAt'[v] = workAt[v])
        BY <1>5, <1>7, <3>1
      <4> QED BY <1>1, <1>2, <1>3, <1>4, <2>1, <3>1, <4>1 DEF Fresh, Clean, Joining, Posting, Quiet,
         Alone
    <3>2. CASE r # s
      <4>1. /\ mode' = mode /\ info' = info /\ heirs' = heirs /\ authAt' = authAt /\ auth' = auth /\ io' = io
            /\ sendQ' = sendQ /\ logout' = logout /\ workAt'[w] = s /\ sendAt' = sendAt /\ send' = send
            /\ (\A v \in Workers : v # w => work'[v] = work[v] /\ workAt'[v] = workAt[v])
        BY <1>2, <1>5, <1>7, <3>2
      <4> QED BY <1>2, <2>1, <3>2, <1>4, <4>1 DEF Fresh, Clean, Joining, Posting, Quiet
    <3> QED BY <3>1, <3>2
  <2>7. Heard(r)'
    BY <1>1, <1>2, <1>3, <1>4, <1>5, <1>7, <1>8, <2>1 DEF Heard, Clean, Joining, Recv
  <2>8. Ended(r)'
    <3>1. CASE r = s
      <4>1. /\ mode' = mode /\ info' = info /\ heirs' = heirs /\ logout' = logout /\ sendAt' = sendAt
            /\ send' = send /\ work'[w] = "recv" /\ workAt'[w] = s /\ io' = io /\ authAt' = authAt
            /\ auth' = auth /\ sock' = sock
            /\ (\A v \in Workers : v # w => work'[v] = work[v] /\ workAt'[v] = workAt[v])
        BY <1>5, <1>7, <3>1
      <4> QED BY <1>1, <1>2, <1>3, <1>4, <2>1, <3>1, <4>1 DEF Ended, Clean, Over, Quiet, Joining, Alone
    <3>2. CASE r # s
      <4>1. /\ mode' = mode /\ info' = info /\ heirs' = heirs /\ logout' = logout /\ sendAt' = sendAt
            /\ send' = send /\ work'[w] = "recv" /\ workAt'[w] = s /\ io' = io /\ authAt' = authAt
            /\ auth' = auth /\ sock' = sock
            /\ (\A v \in Workers : v # w => work'[v] = work[v] /\ workAt'[v] = workAt[v])
        BY <1>2, <1>5, <1>7, <3>2
      <4> QED BY <1>2, <2>1, <3>2, <1>4, <4>1 DEF Ended, Clean, Over, Quiet, Joining
    <3> QED BY <3>1, <3>2
  <2> QED BY <2>2, <2>3, <2>4, <2>5, <2>6, <2>7, <2>8 DEF SlotInv
<1> QED BY <1>9, <1>10, <1>11, <1>12, <1>13, <1>14, <1>15 DEF IInv

LEMMA FailedRecvLateStep ==
  ASSUME ConstantsOK, IInv, NEW w \in Workers, NEW s \in Slots, Failed(w, s, "recv"),
         left[s]["recv"] > 0, left' = [left EXCEPT ![s]["recv"] = @ - 1], UNCHANGED io
  PROVE  IInv'
<1>1. /\ TypeOK /\ ThreadInv /\ Bounded /\ GameLeft /\ Used /\ Steps /\ Counted /\ Indexed
      /\ \A r \in Slots : IOAt(r) /\ SlotInv(r)
  BY DEF IInv
<1>2. /\ {authAt, blank, gameAt, sendAt} \subseteq Slots \cup {NoSlot} /\ NoSlot \notin Slots /\ NoConn \notin Conns
      /\ workAt \in [Workers -> Slots \cup {NoSlot}]
      /\ (\A i \in DOMAIN queue : queue[i] \in Conns) /\ (\A i \in DOMAIN free : free[i] \in Slots)
      /\ \A r \in Slots : (mode[r] # "NONE" <=> info[r] # NoConn) /\ (mode[r] # "NONE" <=> info[r] \in Conns)
      /\ \A r \in Slots : io[r]["recv"] \in Nat /\ io[r]["send"] \in Nat /\ left[r]["recv"] \in Nat
           /\ left[r]["send"] \in Nat
      /\ \A r \in Slots : IONat(r)
  BY <1>1, StateTypes
<1>3. /\ s \in Slots /\ IOAt(s) /\ OneSend(s) /\ Empty(s) /\ Told(s) /\ Own(s)
      /\ Alone(s) /\ OneRecv(s) /\ Fresh(s) /\ Heard(s) /\ Ended(s)
  BY <1>1 DEF SlotInv
<1>4. work[w] = "idle" /\ left[s]["recv"] > 0 /\ info[s] \in Conns
  BY <1>1, <1>2, <1>3 DEF Failed, Shut, Refused, Work, Completes, Steps, Used, ThreadInv
<1>5. UNCHANGED <<queue, mode, info, toGame, inbox, free, authCount, gameCount, total, told, sendQ,
        sending, sendCount, ioCount, io, logout, auth, authAt, blank, game, gameAt, send, sendAt,
        toSend, heirs, taken, down>>
  BY DEF Failed, Shut, Refused, Work, Completes, authT, flow, gameT, got, sendT
<1>6. /\ sock' = [sock EXCEPT ![info[s]] = IF sock[info[s]] \in {"open", "reset"} THEN "shut" ELSE sock[info[s]]]
      /\ work' = [work EXCEPT ![w] = "dec"]
      /\ workAt' = [workAt EXCEPT ![w] = s]
  BY DEF Failed, Shut, Refused, Work, Completes
<1>7. /\ sock'[info[s]] = (IF sock[info[s]] \in {"open", "reset"} THEN "shut" ELSE sock[info[s]])
           /\ \A x \in Conns : x # info[s] => sock'[x] = sock[x]
      /\ work'[w] = "dec" /\ \A x \in Workers : x # w => work'[x] = work[x]
      /\ workAt'[w] = s /\ \A x \in Workers : x # w => workAt'[x] = workAt[x]
      /\ stuck' = stuck
  BY <1>1, <1>2, <1>3, <1>4, <1>6 DEF Failed, Shut, Refused, Work, Completes, TypeOK
<1>8. /\ left' \in [Slots -> [Kinds -> Nat]]
      /\ left'[s]["recv"] = left[s]["recv"] - 1 /\ left'[s]["send"] = left[s]["send"]
      /\ \A x \in Slots : x # s => left'[x] = left[x]
  <2>1. "recv" \in Kinds /\ "send" \in Kinds /\ "recv" # "send"
    BY DEF Kinds
  <2>2. PICK k \in Kinds : k = "recv"
    BY <2>1
  <2>3. left[s][k] > 0 /\ left' = [left EXCEPT ![s][k] = @ - 1]
    BY <1>4, <2>2
  <2>4. TypeOK
    BY <1>1
  <2>5. /\ left' \in [Slots -> [Kinds -> Nat]] /\ left'[s][k] = left[s][k] - 1
        /\ (\A j \in Kinds : j # k => left'[s][j] = left[s][j]) /\ \A x \in Slots : x # s => left'[x] = left[x]
    BY <2>3, <2>4, AnsweredLate
  <2> QED BY <2>1, <2>2, <2>5
<1>9. ShutDown(sock, sock') /\ sock'[info[s]] \in {"shut", "closed", "none"}
  <2>1. \A x \in Conns : sock[x] \in {"none", "open", "reset", "shut", "closed"}
    BY <1>1 DEF TypeOK
  <2> QED BY <1>4, <1>7, <2>1 DEF ShutDown
<1>10. TypeOK'
  <2>1. sock' \in [Conns -> {"none", "open", "reset", "shut", "closed"}]
    BY <1>1, <1>2, <1>3, <1>4, <1>6, <1>8, <1>9 DEF TypeOK
  <2>2. work' \in [Workers -> {"idle", "recv", "unsend", "dec", "log"}]
    BY <1>1, <1>2, <1>3, <1>4, <1>6, <1>8, <1>9 DEF TypeOK
  <2>3. workAt' \in [Workers -> Slots \cup {NoSlot}]
    BY <1>1, <1>2, <1>3, <1>4, <1>6, <1>8, <1>9 DEF TypeOK
  <2>4. stuck' \in SUBSET Slots
    BY <1>1, <1>2, <1>3, <1>4, <1>7, <1>8, <1>9 DEF TypeOK
  <2>5. left' \in [Slots -> [Kinds -> Nat]]
    BY <1>8
  <2>6. {io', left'} \subseteq [Slots -> [Kinds -> Nat]]
    <3>1. io' \in [Slots -> [Kinds -> Nat]]
      BY <1>1, <1>5 DEF TypeOK
    <3> QED BY <2>5, <3>1
  <2> QED BY <1>1, <1>5, <2>1, <2>2, <2>3, <2>4, <2>5, <2>6 DEF TypeOK
<1>11. Bounded' /\ GameLeft' /\ Steps'
  BY <1>1, <1>5 DEF Bounded, GameLeft, Steps
<1>12. Indexed'
  BY <1>1, <1>5 DEF Indexed
<1>13. Counted'
  BY <1>1, <1>5 DEF Counted
<1>14. ThreadInv'
  <2>1. \A v \in Workers : v # w => ((work'[v] = "idle") <=> (workAt'[v] = NoSlot))
    BY <1>1, <1>5, <1>7 DEF ThreadInv
  <2>2. (work'[w] = "idle") <=> (workAt'[w] = NoSlot)
    BY <1>1, <1>2, <1>3, <1>4, <1>5, <1>7 DEF ThreadInv
  <2> QED BY <1>1, <1>5, <2>1, <2>2 DEF ThreadInv
<1>15. Used'
  <2>1. \A x \in Conns : sock'[x] = "none" <=> sock[x] = "none"
    BY <1>9 DEF ShutDown
  <2>2. \A x \in heirs : x \in Conns
    BY <1>1 DEF TypeOK
  <2> QED BY <1>1, <1>2, <1>5, <2>1, <2>2 DEF Used
<1>16. ASSUME NEW r \in Slots PROVE IOAt(r)'
  <2>1. \A v \in Workers : v # w => workAt'[v] = workAt[v] /\ work'[v] = work[v]
    BY <1>5, <1>7
  <2>2. /\ NoSlot # r
        /\ work[w] = "idle" /\ (work[w] = "idle" <=> workAt[w] = NoSlot)
        /\ work'[w] = "dec" /\ workAt'[w] = s
    BY <1>1, <1>2, <1>4, <1>5, <1>7 DEF ThreadInv
  <2>3. /\ Cardinality(Handled(workAt', work', r))
             = Cardinality(Handled(workAt, work, r)) + (IF r = s THEN 1 ELSE 0)
        /\ Cardinality(Recving(workAt', work', r)) = Cardinality(Recving(workAt, work, r))
    BY <2>1, <2>2, ConstantsOK, WorkStepped, WorkNat
  <2>5. Pending(r)' = Pending(r) - (IF r = s THEN 1 ELSE 0)
    <3>1. CASE r = s
      <4>1. io' = io /\ left'[r]["recv"] = left[r]["recv"] - 1 /\ left'[r]["send"] = left[r]["send"]
        BY <1>5, <1>8, <3>1
      <4> QED BY <1>2, <3>1, <4>1 DEF Pending
    <3>2. CASE r # s
      <4>1. io' = io /\ left'[r] = left[r]
        BY <1>5, <1>8, <3>2
      <4> QED BY <1>2, <3>2, <4>1 DEF Pending
    <3> QED BY <3>1, <3>2
  <2>6. IOAt(r) /\ IONat(r)
    BY <1>1, <1>2
  <2>7. ioCount'[r] = Pending(r)' + Cardinality(Handled(workAt', work', r)) + Cardinality(Recving(workAt', work', r))
                     + One(sendAt' = r /\ send' \in {"peek", "post", "fail"}) + One(authAt' = r /\ auth' = "join")
    <3>1. /\ NoSlot \notin Slots /\ auth' = auth /\ authAt' = authAt /\ send' = send /\ sendAt' = sendAt
          /\ work[w] = "idle" /\ work'[w] = "dec" /\ workAt'[w] = s /\ ioCount'[r] = ioCount[r]
      BY <1>2, <1>4, <1>5, <1>7
    <3> QED BY <1>1, <1>3, <2>3, <2>5, <2>6, <3>1 DEF ThreadInv, IOAt, IONat, One
  <2> QED BY <2>7 DEF IOAt, Handled, Recving, One
<1>17. ASSUME NEW r \in Slots PROVE SlotInv(r)'
  <2>1. OneSend(r) /\ Empty(r) /\ Told(r) /\ Own(r) /\ Alone(r) /\ OneRecv(r) /\ Fresh(r) /\ Heard(r) /\ Ended(r)
    BY <1>1 DEF SlotInv
  <2>2. Empty(r)' /\ Told(r)' /\ Own(r)'
    BY <1>5, <2>1 DEF Empty, Told, Own
  <2>3. OneSend(r)'
    BY <1>1, <1>2, <1>3, <1>4, <1>5, <1>7, <1>8, <1>9, <2>1 DEF OneSend, Sent
  <2>4. Alone(r)'
    BY <1>1, <1>2, <1>3, <1>4, <1>5, <1>7, <1>8, <1>9, <2>1 DEF Alone, Clean
  <2>5. OneRecv(r)'
    BY <1>1, <1>2, <1>3, <1>4, <1>5, <1>7, <1>8, <1>9, <2>1 DEF OneRecv, Clean, Recv
  <2>6. Fresh(r)'
    <3>1. CASE r = s
      <4>1. /\ mode' = mode /\ info' = info /\ heirs' = heirs /\ authAt' = authAt /\ auth' = auth /\ io' = io
            /\ sendQ' = sendQ /\ logout' = logout /\ workAt'[w] = s /\ sendAt' = sendAt /\ send' = send
            /\ (\A v \in Workers : v # w => work'[v] = work[v] /\ workAt'[v] = workAt[v])
        BY <1>5, <1>7, <3>1
      <4> QED BY <1>1, <1>2, <1>3, <1>4, <2>1, <3>1, <4>1 DEF Fresh, Clean, Joining, Posting, Quiet,
         Alone
    <3>2. CASE r # s
      <4>1. /\ mode' = mode /\ info' = info /\ heirs' = heirs /\ authAt' = authAt /\ auth' = auth /\ io' = io
            /\ sendQ' = sendQ /\ logout' = logout /\ workAt'[w] = s /\ sendAt' = sendAt /\ send' = send
            /\ (\A v \in Workers : v # w => work'[v] = work[v] /\ workAt'[v] = workAt[v])
        BY <1>2, <1>5, <1>7, <3>2
      <4> QED BY <1>2, <2>1, <3>2, <1>4, <4>1 DEF Fresh, Clean, Joining, Posting, Quiet
    <3> QED BY <3>1, <3>2
  <2>7. Heard(r)'
    <3>1. CASE r = s
      <4>1. /\ mode' = mode /\ info' = info /\ heirs' = heirs /\ authAt' = authAt /\ auth' = auth /\ io' = io
            /\ work'[w] = "dec" /\ workAt'[w] = s
            /\ (\A v \in Workers : v # w => work'[v] = work[v] /\ workAt'[v] = workAt[v])
        BY <1>5, <1>7, <3>1
      <4> QED BY <1>1, <1>2, <1>3, <1>4, <2>1, <3>1, <1>9, <4>1 DEF Heard, Clean, Joining, Recv,
         ShutDown
    <3>2. CASE r # s
      <4>1. /\ mode' = mode /\ info' = info /\ heirs' = heirs /\ authAt' = authAt /\ auth' = auth /\ io' = io
            /\ work'[w] = "dec" /\ workAt'[w] = s
            /\ (\A v \in Workers : v # w => work'[v] = work[v] /\ workAt'[v] = workAt[v])
        BY <1>2, <1>5, <1>7, <3>2
      <4>2. \A x \in Conns : sock[x] \in {"shut", "closed"} => sock'[x] \in {"shut", "closed"}
        BY <1>9 DEF ShutDown
      <4>3. \A x \in Conns : sock'[x] \in {"open", "reset"} => sock[x] \in {"open", "reset"}
        BY <1>9 DEF ShutDown
      <4> QED BY <1>2, <2>1, <3>2, <1>4, <4>1, <4>2, <4>3 DEF Heard, Clean, Joining, Recv
    <3> QED BY <3>1, <3>2
  <2>8. Ended(r)'
    <3>1. CASE r = s
      <4>1. /\ mode' = mode /\ info' = info /\ heirs' = heirs /\ logout' = logout /\ sendAt' = sendAt
            /\ send' = send /\ work'[w] = "dec" /\ workAt'[w] = s /\ io' = io /\ authAt' = authAt
            /\ auth' = auth
            /\ (\A v \in Workers : v # w => work'[v] = work[v] /\ workAt'[v] = workAt[v])
        BY <1>5, <1>7, <3>1
      <4> QED BY <1>1, <1>2, <1>3, <1>4, <2>1, <3>1, <1>9, <4>1 DEF Ended, Clean, Over, Quiet,
         Joining, ShutDown, Alone
    <3>2. CASE r # s
      <4>1. /\ mode' = mode /\ info' = info /\ heirs' = heirs /\ logout' = logout /\ sendAt' = sendAt
            /\ send' = send /\ work'[w] = "dec" /\ workAt'[w] = s /\ io' = io /\ authAt' = authAt
            /\ auth' = auth
            /\ (\A v \in Workers : v # w => work'[v] = work[v] /\ workAt'[v] = workAt[v])
        BY <1>2, <1>5, <1>7, <3>2
      <4>2. \A x \in Conns : sock[x] \in {"shut", "closed"} => sock'[x] \in {"shut", "closed"}
        BY <1>9 DEF ShutDown
      <4>3. \A x \in Conns : sock'[x] \in {"open", "reset"} => sock[x] \in {"open", "reset"}
        BY <1>9 DEF ShutDown
      <4>4. Over(r) /\ Clean(r) => Over(r)'
        BY <1>2, <3>2, <4>1, <4>2 DEF Over, Quiet, Joining, Clean
      <4>5. Clean(r)' <=> Clean(r)
        BY <4>1 DEF Clean
      <4> QED BY <1>2, <1>4, <2>1, <3>2, <4>1, <4>4, <4>5 DEF Ended
    <3> QED BY <3>1, <3>2
  <2> QED BY <2>2, <2>3, <2>4, <2>5, <2>6, <2>7, <2>8 DEF SlotInv
<1> QED BY <1>10, <1>11, <1>12, <1>13, <1>14, <1>15, <1>16, <1>17 DEF IInv

LEMMA FailedSendLateStep ==
  ASSUME ConstantsOK, IInv, NEW w \in Workers, NEW s \in Slots, Failed(w, s, "send"),
         left[s]["send"] > 0, left' = [left EXCEPT ![s]["send"] = @ - 1], UNCHANGED io
  PROVE  IInv'
<1>1. /\ TypeOK /\ ThreadInv /\ Bounded /\ GameLeft /\ Used /\ Steps /\ Counted /\ Indexed
      /\ \A r \in Slots : IOAt(r) /\ SlotInv(r)
  BY DEF IInv
<1>2. /\ {authAt, blank, gameAt, sendAt} \subseteq Slots \cup {NoSlot} /\ NoSlot \notin Slots /\ NoConn \notin Conns
      /\ workAt \in [Workers -> Slots \cup {NoSlot}]
      /\ (\A i \in DOMAIN queue : queue[i] \in Conns) /\ (\A i \in DOMAIN free : free[i] \in Slots)
      /\ \A r \in Slots : (mode[r] # "NONE" <=> info[r] # NoConn) /\ (mode[r] # "NONE" <=> info[r] \in Conns)
      /\ \A r \in Slots : io[r]["recv"] \in Nat /\ io[r]["send"] \in Nat /\ left[r]["recv"] \in Nat
           /\ left[r]["send"] \in Nat
      /\ \A r \in Slots : IONat(r)
  BY <1>1, StateTypes
<1>3. /\ s \in Slots /\ IOAt(s) /\ OneSend(s) /\ Empty(s) /\ Told(s) /\ Own(s)
      /\ Alone(s) /\ OneRecv(s) /\ Fresh(s) /\ Heard(s) /\ Ended(s)
  BY <1>1 DEF SlotInv
<1>4. work[w] = "idle" /\ left[s]["send"] > 0 /\ info[s] \in Conns
  BY <1>1, <1>2, <1>3 DEF Failed, Shut, Refused, Work, Completes, Steps, Used, ThreadInv
<1>5. UNCHANGED <<queue, mode, info, toGame, inbox, free, authCount, gameCount, total, told, sendQ,
        sending, sendCount, ioCount, io, logout, auth, authAt, blank, game, gameAt, send, sendAt,
        toSend, heirs, taken, down>>
  BY DEF Failed, Shut, Refused, Work, Completes, authT, flow, gameT, got, sendT
<1>6. /\ sock' = [sock EXCEPT ![info[s]] = IF sock[info[s]] \in {"open", "reset"} THEN "shut" ELSE sock[info[s]]]
      /\ work' = [work EXCEPT ![w] = "dec"]
      /\ workAt' = [workAt EXCEPT ![w] = s]
  BY DEF Failed, Shut, Refused, Work, Completes
<1>7. /\ sock'[info[s]] = (IF sock[info[s]] \in {"open", "reset"} THEN "shut" ELSE sock[info[s]])
           /\ \A x \in Conns : x # info[s] => sock'[x] = sock[x]
      /\ work'[w] = "dec" /\ \A x \in Workers : x # w => work'[x] = work[x]
      /\ workAt'[w] = s /\ \A x \in Workers : x # w => workAt'[x] = workAt[x]
      /\ stuck' = stuck \cup {s}
  BY <1>1, <1>2, <1>3, <1>4, <1>6 DEF Failed, Shut, Refused, Work, Completes, TypeOK
<1>8. /\ left' \in [Slots -> [Kinds -> Nat]]
      /\ left'[s]["send"] = left[s]["send"] - 1 /\ left'[s]["recv"] = left[s]["recv"]
      /\ \A x \in Slots : x # s => left'[x] = left[x]
  <2>1. "recv" \in Kinds /\ "send" \in Kinds /\ "recv" # "send"
    BY DEF Kinds
  <2>2. PICK k \in Kinds : k = "send"
    BY <2>1
  <2>3. left[s][k] > 0 /\ left' = [left EXCEPT ![s][k] = @ - 1]
    BY <1>4, <2>2
  <2>4. TypeOK
    BY <1>1
  <2>5. /\ left' \in [Slots -> [Kinds -> Nat]] /\ left'[s][k] = left[s][k] - 1
        /\ (\A j \in Kinds : j # k => left'[s][j] = left[s][j]) /\ \A x \in Slots : x # s => left'[x] = left[x]
    BY <2>3, <2>4, AnsweredLate
  <2> QED BY <2>1, <2>2, <2>5
<1>9. ShutDown(sock, sock') /\ sock'[info[s]] \in {"shut", "closed", "none"}
  <2>1. \A x \in Conns : sock[x] \in {"none", "open", "reset", "shut", "closed"}
    BY <1>1 DEF TypeOK
  <2> QED BY <1>4, <1>7, <2>1 DEF ShutDown
<1>10. TypeOK'
  <2>1. sock' \in [Conns -> {"none", "open", "reset", "shut", "closed"}]
    BY <1>1, <1>2, <1>3, <1>4, <1>6, <1>8, <1>9 DEF TypeOK
  <2>2. work' \in [Workers -> {"idle", "recv", "unsend", "dec", "log"}]
    BY <1>1, <1>2, <1>3, <1>4, <1>6, <1>8, <1>9 DEF TypeOK
  <2>3. workAt' \in [Workers -> Slots \cup {NoSlot}]
    BY <1>1, <1>2, <1>3, <1>4, <1>6, <1>8, <1>9 DEF TypeOK
  <2>4. stuck' \in SUBSET Slots
    BY <1>1, <1>2, <1>3, <1>4, <1>7, <1>8, <1>9 DEF TypeOK
  <2>5. left' \in [Slots -> [Kinds -> Nat]]
    BY <1>8
  <2>6. {io', left'} \subseteq [Slots -> [Kinds -> Nat]]
    <3>1. io' \in [Slots -> [Kinds -> Nat]]
      BY <1>1, <1>5 DEF TypeOK
    <3> QED BY <2>5, <3>1
  <2> QED BY <1>1, <1>5, <2>1, <2>2, <2>3, <2>4, <2>5, <2>6 DEF TypeOK
<1>11. Bounded' /\ GameLeft' /\ Steps'
  BY <1>1, <1>5 DEF Bounded, GameLeft, Steps
<1>12. Indexed'
  BY <1>1, <1>5 DEF Indexed
<1>13. Counted'
  BY <1>1, <1>5 DEF Counted
<1>14. ThreadInv'
  <2>1. \A v \in Workers : v # w => ((work'[v] = "idle") <=> (workAt'[v] = NoSlot))
    BY <1>1, <1>5, <1>7 DEF ThreadInv
  <2>2. (work'[w] = "idle") <=> (workAt'[w] = NoSlot)
    BY <1>1, <1>2, <1>3, <1>4, <1>5, <1>7 DEF ThreadInv
  <2> QED BY <1>1, <1>5, <2>1, <2>2 DEF ThreadInv
<1>15. Used'
  <2>1. \A x \in Conns : sock'[x] = "none" <=> sock[x] = "none"
    BY <1>9 DEF ShutDown
  <2>2. \A x \in heirs : x \in Conns
    BY <1>1 DEF TypeOK
  <2> QED BY <1>1, <1>2, <1>5, <2>1, <2>2 DEF Used
<1>16. ASSUME NEW r \in Slots PROVE IOAt(r)'
  <2>1. \A v \in Workers : v # w => workAt'[v] = workAt[v] /\ work'[v] = work[v]
    BY <1>5, <1>7
  <2>2. /\ NoSlot # r
        /\ work[w] = "idle" /\ (work[w] = "idle" <=> workAt[w] = NoSlot)
        /\ work'[w] = "dec" /\ workAt'[w] = s
    BY <1>1, <1>2, <1>4, <1>5, <1>7 DEF ThreadInv
  <2>3. /\ Cardinality(Handled(workAt', work', r))
             = Cardinality(Handled(workAt, work, r)) + (IF r = s THEN 1 ELSE 0)
        /\ Cardinality(Recving(workAt', work', r)) = Cardinality(Recving(workAt, work, r))
    BY <2>1, <2>2, ConstantsOK, WorkStepped, WorkNat
  <2>5. Pending(r)' = Pending(r) - (IF r = s THEN 1 ELSE 0)
    <3>1. CASE r = s
      <4>1. io' = io /\ left'[r]["send"] = left[r]["send"] - 1 /\ left'[r]["recv"] = left[r]["recv"]
        BY <1>5, <1>8, <3>1
      <4> QED BY <1>2, <3>1, <4>1 DEF Pending
    <3>2. CASE r # s
      <4>1. io' = io /\ left'[r] = left[r]
        BY <1>5, <1>8, <3>2
      <4> QED BY <1>2, <3>2, <4>1 DEF Pending
    <3> QED BY <3>1, <3>2
  <2>6. IOAt(r) /\ IONat(r)
    BY <1>1, <1>2
  <2>7. ioCount'[r] = Pending(r)' + Cardinality(Handled(workAt', work', r)) + Cardinality(Recving(workAt', work', r))
                     + One(sendAt' = r /\ send' \in {"peek", "post", "fail"}) + One(authAt' = r /\ auth' = "join")
    <3>1. /\ NoSlot \notin Slots /\ auth' = auth /\ authAt' = authAt /\ send' = send /\ sendAt' = sendAt
          /\ work[w] = "idle" /\ work'[w] = "dec" /\ workAt'[w] = s /\ ioCount'[r] = ioCount[r]
      BY <1>2, <1>4, <1>5, <1>7
    <3> QED BY <1>1, <1>3, <2>3, <2>5, <2>6, <3>1 DEF ThreadInv, IOAt, IONat, One
  <2> QED BY <2>7 DEF IOAt, Handled, Recving, One
<1>17. ASSUME NEW r \in Slots PROVE SlotInv(r)'
  <2>1. OneSend(r) /\ Empty(r) /\ Told(r) /\ Own(r) /\ Alone(r) /\ OneRecv(r) /\ Fresh(r) /\ Heard(r) /\ Ended(r)
    BY <1>1 DEF SlotInv
  <2>2. Empty(r)' /\ Told(r)' /\ Own(r)'
    BY <1>5, <2>1 DEF Empty, Told, Own
  <2>3. OneSend(r)'
    <3>1. CASE r = s
      <4>1. /\ sendAt' = sendAt /\ sending' = sending /\ io' = io /\ left'[r]["send"] = left[r]["send"] - 1
            /\ left'[r]["recv"] = left[r]["recv"] /\ work'[w] = "dec" /\ workAt'[w] = s
            /\ (\A v \in Workers : v # w => work'[v] = work[v] /\ workAt'[v] = workAt[v])
        BY <1>5, <1>7, <3>1, <1>8
      <4> QED BY <1>1, <1>2, <1>3, <1>4, <2>1, <3>1, <4>1 DEF OneSend, Sent
    <3>2. CASE r # s
      <4>1. /\ sendAt' = sendAt /\ sending' = sending /\ io' = io /\ left'[r] = left[r] /\ work'[w] = "dec"
            /\ workAt'[w] = s
            /\ (\A v \in Workers : v # w => work'[v] = work[v] /\ workAt'[v] = workAt[v])
        BY <1>2, <1>5, <1>7, <3>2, <1>8
      <4> QED BY <1>2, <2>1, <3>2, <1>4, <4>1 DEF OneSend, Sent
    <3> QED BY <3>1, <3>2
  <2>4. Alone(r)'
    BY <1>1, <1>2, <1>3, <1>4, <1>5, <1>7, <1>8, <1>9, <2>1 DEF Alone, Clean
  <2>5. OneRecv(r)'
    BY <1>1, <1>2, <1>3, <1>4, <1>5, <1>7, <1>8, <1>9, <2>1 DEF OneRecv, Clean, Recv
  <2>6. Fresh(r)'
    <3>1. CASE r = s
      <4>1. /\ mode' = mode /\ info' = info /\ heirs' = heirs /\ authAt' = authAt /\ auth' = auth /\ io' = io
            /\ sendQ' = sendQ /\ logout' = logout /\ workAt'[w] = s /\ sendAt' = sendAt /\ send' = send
            /\ (\A v \in Workers : v # w => work'[v] = work[v] /\ workAt'[v] = workAt[v])
        BY <1>5, <1>7, <3>1
      <4> QED BY <1>1, <1>2, <1>3, <1>4, <2>1, <3>1, <4>1 DEF Fresh, Clean, Joining, Posting, Quiet,
         Alone
    <3>2. CASE r # s
      <4>1. /\ mode' = mode /\ info' = info /\ heirs' = heirs /\ authAt' = authAt /\ auth' = auth /\ io' = io
            /\ sendQ' = sendQ /\ logout' = logout /\ workAt'[w] = s /\ sendAt' = sendAt /\ send' = send
            /\ (\A v \in Workers : v # w => work'[v] = work[v] /\ workAt'[v] = workAt[v])
        BY <1>2, <1>5, <1>7, <3>2
      <4> QED BY <1>2, <2>1, <3>2, <1>4, <4>1 DEF Fresh, Clean, Joining, Posting, Quiet
    <3> QED BY <3>1, <3>2
  <2>7. Heard(r)'
    <3>1. CASE r = s
      <4>1. /\ mode' = mode /\ info' = info /\ heirs' = heirs /\ authAt' = authAt /\ auth' = auth /\ io' = io
            /\ work'[w] = "dec" /\ workAt'[w] = s
            /\ (\A v \in Workers : v # w => work'[v] = work[v] /\ workAt'[v] = workAt[v])
        BY <1>5, <1>7, <3>1
      <4> QED BY <1>1, <1>2, <1>3, <1>4, <2>1, <3>1, <1>9, <4>1 DEF Heard, Clean, Joining, Recv,
         ShutDown
    <3>2. CASE r # s
      <4>1. /\ mode' = mode /\ info' = info /\ heirs' = heirs /\ authAt' = authAt /\ auth' = auth /\ io' = io
            /\ work'[w] = "dec" /\ workAt'[w] = s
            /\ (\A v \in Workers : v # w => work'[v] = work[v] /\ workAt'[v] = workAt[v])
        BY <1>2, <1>5, <1>7, <3>2
      <4>2. \A x \in Conns : sock[x] \in {"shut", "closed"} => sock'[x] \in {"shut", "closed"}
        BY <1>9 DEF ShutDown
      <4>3. \A x \in Conns : sock'[x] \in {"open", "reset"} => sock[x] \in {"open", "reset"}
        BY <1>9 DEF ShutDown
      <4> QED BY <1>2, <2>1, <3>2, <1>4, <4>1, <4>2, <4>3 DEF Heard, Clean, Joining, Recv
    <3> QED BY <3>1, <3>2
  <2>8. Ended(r)'
    <3>1. CASE r = s
      <4>1. /\ mode' = mode /\ info' = info /\ heirs' = heirs /\ logout' = logout /\ sendAt' = sendAt
            /\ send' = send /\ work'[w] = "dec" /\ workAt'[w] = s /\ io' = io /\ authAt' = authAt
            /\ auth' = auth
            /\ (\A v \in Workers : v # w => work'[v] = work[v] /\ workAt'[v] = workAt[v])
        BY <1>5, <1>7, <3>1
      <4> QED BY <1>1, <1>2, <1>3, <1>4, <2>1, <3>1, <1>9, <4>1 DEF Ended, Clean, Over, Quiet,
         Joining, ShutDown, Alone
    <3>2. CASE r # s
      <4>1. /\ mode' = mode /\ info' = info /\ heirs' = heirs /\ logout' = logout /\ sendAt' = sendAt
            /\ send' = send /\ work'[w] = "dec" /\ workAt'[w] = s /\ io' = io /\ authAt' = authAt
            /\ auth' = auth
            /\ (\A v \in Workers : v # w => work'[v] = work[v] /\ workAt'[v] = workAt[v])
        BY <1>2, <1>5, <1>7, <3>2
      <4>2. \A x \in Conns : sock[x] \in {"shut", "closed"} => sock'[x] \in {"shut", "closed"}
        BY <1>9 DEF ShutDown
      <4>3. \A x \in Conns : sock'[x] \in {"open", "reset"} => sock[x] \in {"open", "reset"}
        BY <1>9 DEF ShutDown
      <4>4. Over(r) /\ Clean(r) => Over(r)'
        BY <1>2, <3>2, <4>1, <4>2 DEF Over, Quiet, Joining, Clean
      <4>5. Clean(r)' <=> Clean(r)
        BY <4>1 DEF Clean
      <4> QED BY <1>2, <1>4, <2>1, <3>2, <4>1, <4>4, <4>5 DEF Ended
    <3> QED BY <3>1, <3>2
  <2> QED BY <2>2, <2>3, <2>4, <2>5, <2>6, <2>7, <2>8 DEF SlotInv
<1> QED BY <1>10, <1>11, <1>12, <1>13, <1>14, <1>15, <1>16, <1>17 DEF IInv

LEMMA SendDoneLateStep ==
  ASSUME ConstantsOK, IInv, NEW w \in Workers, NEW s \in Slots, SendDone(w, s), left[s]["send"] > 0,
         left' = [left EXCEPT ![s]["send"] = @ - 1], UNCHANGED io
  PROVE  IInv'
<1>1. /\ TypeOK /\ ThreadInv /\ Bounded /\ GameLeft /\ Used /\ Steps /\ Counted /\ Indexed
      /\ \A r \in Slots : IOAt(r) /\ SlotInv(r)
  BY DEF IInv
<1>2. /\ {authAt, blank, gameAt, sendAt} \subseteq Slots \cup {NoSlot} /\ NoSlot \notin Slots /\ NoConn \notin Conns
      /\ workAt \in [Workers -> Slots \cup {NoSlot}]
      /\ \A r \in Slots : (mode[r] # "NONE" <=> info[r] # NoConn) /\ (mode[r] # "NONE" <=> info[r] \in Conns)
      /\ \A r \in Slots : io[r]["recv"] \in Nat /\ io[r]["send"] \in Nat /\ left[r]["recv"] \in Nat
           /\ left[r]["send"] \in Nat
      /\ \A r \in Slots : IONat(r)
  BY <1>1, StateTypes
<1>3. /\ s \in Slots /\ IOAt(s) /\ OneSend(s) /\ Empty(s) /\ Told(s) /\ Own(s)
      /\ Alone(s) /\ OneRecv(s) /\ Fresh(s) /\ Heard(s) /\ Ended(s)
  BY <1>1 DEF SlotInv
<1>4. work[w] = "idle" /\ left[s]["send"] > 0
  BY <1>1, <1>2, <1>3 DEF SendDone, Work, Completes, Steps, Used, ThreadInv
<1>5. UNCHANGED <<sock, queue, mode, info, toGame, inbox, free, authCount, gameCount, total, told,
        sending, sendCount, ioCount, io, logout, stuck, auth, authAt, blank, game, gameAt, send,
        sendAt, toSend, heirs, taken, down>>
  BY DEF SendDone, Work, Completes, authT, conns, flow, gameT, got, sendT
<1>6. /\ sendQ' = [sendQ EXCEPT ![s] = SubSeq(sendQ[s], sendCount[s] + 1, Len(sendQ[s]))]
      /\ work' = [work EXCEPT ![w] = "unsend"]
      /\ workAt' = [workAt EXCEPT ![w] = s]
  BY DEF SendDone, Work, Completes
<1>7. /\ sendQ'[s] = (SubSeq(sendQ[s], sendCount[s] + 1, Len(sendQ[s]))) /\ \A x \in Slots : x # s
           => sendQ'[x] = sendQ[x]
      /\ work'[w] = "unsend" /\ \A x \in Workers : x # w => work'[x] = work[x]
      /\ workAt'[w] = s /\ \A x \in Workers : x # w => workAt'[x] = workAt[x]
  <2>1. sendQ'[s] = (SubSeq(sendQ[s], sendCount[s] + 1, Len(sendQ[s]))) /\ \A x \in Slots : x # s
            => sendQ'[x] = sendQ[x]
    <3>1. sendQ \in [Slots -> Seq(Conns)]
      BY <1>1 DEF TypeOK
    <3>2. s \in Slots
      BY <1>2, <1>3, <1>4
    <3> QED BY <1>6, <3>1, <3>2
  <2>2. work'[w] = "unsend" /\ \A x \in Workers : x # w => work'[x] = work[x]
    <3>1. work \in [Workers -> {"idle", "recv", "unsend", "dec", "log"}]
      BY <1>1 DEF TypeOK
    <3>2. w \in Workers
      BY <1>2, <1>3, <1>4
    <3> QED BY <1>6, <3>1, <3>2
  <2>3. workAt'[w] = s /\ \A x \in Workers : x # w => workAt'[x] = workAt[x]
    <3>1. workAt \in [Workers -> Slots \cup {NoSlot}]
      BY <1>1 DEF TypeOK
    <3>2. w \in Workers
      BY <1>2, <1>3, <1>4
    <3> QED BY <1>6, <3>1, <3>2
  <2> QED BY <2>1, <2>2, <2>3
<1>8. /\ left' \in [Slots -> [Kinds -> Nat]]
      /\ left'[s]["send"] = left[s]["send"] - 1 /\ left'[s]["recv"] = left[s]["recv"]
      /\ \A x \in Slots : x # s => left'[x] = left[x]
  <2>1. "recv" \in Kinds /\ "send" \in Kinds /\ "recv" # "send"
    BY DEF Kinds
  <2>2. PICK k \in Kinds : k = "send"
    BY <2>1
  <2>3. left[s][k] > 0 /\ left' = [left EXCEPT ![s][k] = @ - 1]
    BY <1>4, <2>2
  <2>4. TypeOK
    BY <1>1
  <2>5. /\ left' \in [Slots -> [Kinds -> Nat]] /\ left'[s][k] = left[s][k] - 1
        /\ (\A j \in Kinds : j # k => left'[s][j] = left[s][j]) /\ \A x \in Slots : x # s => left'[x] = left[x]
    BY <2>3, <2>4, AnsweredLate
  <2> QED BY <2>1, <2>2, <2>5
<1>9. sendQ'[s] \in Seq(Conns) /\ Len(sendQ'[s]) <= MaxOut /\ (\A i \in DOMAIN sendQ'[s] : sendQ'[s][i] = info[s])
      /\ (sendQ[s] = <<>> => sendQ'[s] = <<>>)
  <2>1. sendQ[s] \in Seq(Conns) /\ Len(sendQ[s]) <= MaxOut /\ (\A i \in DOMAIN sendQ[s] : sendQ[s][i] = info[s])
    BY <1>1, <1>3 DEF TypeOK, Bounded, Own
  <2>2. MaxOut \in Nat /\ Len(sendQ[s]) \in Nat /\ sendCount[s] \in Nat /\ DOMAIN sendQ[s] = 1..Len(sendQ[s])
    <3>1. MaxOut \in Nat /\ sendCount \in [Slots -> 0..MaxOut]
      BY <1>1, ConstantsOK DEF TypeOK, ConstantsOK
    <3> QED BY <2>1, <3>1
  <2> DEFINE m == sendCount[s] + 1
  <2> DEFINE n == Len(sendQ[s])
  <2>3. m \in Int /\ n \in Int /\ m >= 1 /\ n >= 0 /\ n <= MaxOut
    BY <2>1, <2>2
  <2>4. \A i \in m..n : sendQ[s][i] \in Conns /\ sendQ[s][i] = info[s]
    BY <2>1, <2>2
  <2>5. sendQ'[s] = SubSeq(sendQ[s], m, n)
    BY <1>7
  <2> HIDE DEF m, n
  <2>6. /\ sendQ'[s] \in Seq(Conns) /\ Len(sendQ'[s]) = IF m <= n THEN n - m + 1 ELSE 0
        /\ \A i \in 1..(n - m + 1) : sendQ'[s][i] = sendQ[s][m + i - 1]
    BY <2>3, <2>4, <2>5, SubSeqProperties
  <2>7. Len(sendQ'[s]) <= MaxOut /\ DOMAIN sendQ'[s] = 1..Len(sendQ'[s])
    BY <2>2, <2>3, <2>6
  <2>8. ASSUME NEW i \in DOMAIN sendQ'[s] PROVE sendQ'[s][i] = info[s]
    <3>1. i \in 1..(n - m + 1) /\ m + i - 1 \in m..n
      BY <2>3, <2>6, <2>7
    <3> QED BY <2>4, <2>6, <3>1
  <2>9. ASSUME sendQ[s] = <<>> PROVE sendQ'[s] = <<>>
    <3>1. n = 0
      BY <2>9 DEF n
    <3>2. Len(sendQ'[s]) = 0
      BY <2>3, <2>6, <3>1
    <3> QED BY <2>6, <3>2, EmptySeq
  <2> QED BY <2>6, <2>7, <2>8, <2>9
<1>10. TypeOK'
  <2>1. sendQ' \in [Slots -> Seq(Conns)]
    <3>1. sendQ \in [Slots -> Seq(Conns)]
      BY <1>1 DEF TypeOK
    <3>2. SubSeq(sendQ[s], sendCount[s] + 1, Len(sendQ[s])) \in Seq(Conns)
      BY <1>7, <1>9
    <3>3. sendQ' = [sendQ EXCEPT ![s] = SubSeq(sendQ[s], sendCount[s] + 1, Len(sendQ[s]))]
      BY <1>6
    <3> QED BY <3>1, <3>2, <3>3
  <2>2. work' \in [Workers -> {"idle", "recv", "unsend", "dec", "log"}]
    BY <1>1, <1>2, <1>3, <1>4, <1>6, <1>8, <1>9 DEF TypeOK
  <2>3. workAt' \in [Workers -> Slots \cup {NoSlot}]
    BY <1>1, <1>2, <1>3, <1>4, <1>6, <1>8, <1>9 DEF TypeOK
  <2>4. left' \in [Slots -> [Kinds -> Nat]]
    BY <1>8
  <2>5. {io', left'} \subseteq [Slots -> [Kinds -> Nat]]
    <3>1. io' \in [Slots -> [Kinds -> Nat]]
      BY <1>1, <1>5 DEF TypeOK
    <3> QED BY <2>4, <3>1
  <2> QED BY <1>1, <1>5, <2>1, <2>2, <2>3, <2>4, <2>5 DEF TypeOK
<1>11. GameLeft' /\ Used' /\ Indexed'
  BY <1>1, <1>5 DEF GameLeft, Used, Indexed
<1>12. Counted'
  BY <1>1, <1>5 DEF Counted
<1>13. ThreadInv'
  <2>1. \A v \in Workers : v # w => ((work'[v] = "idle") <=> (workAt'[v] = NoSlot))
    BY <1>1, <1>5, <1>7 DEF ThreadInv
  <2>2. (work'[w] = "idle") <=> (workAt'[w] = NoSlot)
    BY <1>1, <1>2, <1>3, <1>4, <1>5, <1>7 DEF ThreadInv
  <2> QED BY <1>1, <1>5, <2>1, <2>2 DEF ThreadInv
<1>14. Bounded'
  BY <1>1, <1>2, <1>3, <1>4, <1>5, <1>7, <1>8, <1>9 DEF Bounded
<1>15. Steps'
  BY <1>1, <1>2, <1>3, <1>4, <1>5, <1>7, <1>8, <1>9 DEF Steps, ThreadInv
<1>16. ASSUME NEW r \in Slots PROVE IOAt(r)'
  <2>1. \A v \in Workers : v # w => workAt'[v] = workAt[v] /\ work'[v] = work[v]
    BY <1>5, <1>7
  <2>2. /\ NoSlot # r
        /\ work[w] = "idle" /\ (work[w] = "idle" <=> workAt[w] = NoSlot)
        /\ work'[w] = "unsend" /\ workAt'[w] = s
    BY <1>1, <1>2, <1>4, <1>5, <1>7 DEF ThreadInv
  <2>3. /\ Cardinality(Handled(workAt', work', r))
             = Cardinality(Handled(workAt, work, r)) + (IF r = s THEN 1 ELSE 0)
        /\ Cardinality(Recving(workAt', work', r)) = Cardinality(Recving(workAt, work, r))
    BY <2>1, <2>2, ConstantsOK, WorkStepped, WorkNat
  <2>5. Pending(r)' = Pending(r) - (IF r = s THEN 1 ELSE 0)
    <3>1. CASE r = s
      <4>1. io' = io /\ left'[r]["send"] = left[r]["send"] - 1 /\ left'[r]["recv"] = left[r]["recv"]
        BY <1>5, <1>8, <3>1
      <4> QED BY <1>2, <3>1, <4>1 DEF Pending
    <3>2. CASE r # s
      <4>1. io' = io /\ left'[r] = left[r]
        BY <1>5, <1>8, <3>2
      <4> QED BY <1>2, <3>2, <4>1 DEF Pending
    <3> QED BY <3>1, <3>2
  <2>6. IOAt(r) /\ IONat(r)
    BY <1>1, <1>2
  <2>7. ioCount'[r] = Pending(r)' + Cardinality(Handled(workAt', work', r)) + Cardinality(Recving(workAt', work', r))
                     + One(sendAt' = r /\ send' \in {"peek", "post", "fail"}) + One(authAt' = r /\ auth' = "join")
    <3>1. /\ NoSlot \notin Slots /\ auth' = auth /\ authAt' = authAt /\ send' = send /\ sendAt' = sendAt
          /\ work[w] = "idle" /\ work'[w] = "unsend" /\ workAt'[w] = s /\ ioCount'[r] = ioCount[r]
      BY <1>2, <1>4, <1>5, <1>7
    <3> QED BY <1>1, <1>3, <2>3, <2>5, <2>6, <3>1 DEF ThreadInv, IOAt, IONat, One
  <2> QED BY <2>7 DEF IOAt, Handled, Recving, One
<1>17. ASSUME NEW r \in Slots PROVE SlotInv(r)'
  <2>1. OneSend(r) /\ Empty(r) /\ Told(r) /\ Own(r) /\ Alone(r) /\ OneRecv(r) /\ Fresh(r) /\ Heard(r) /\ Ended(r)
    BY <1>1 DEF SlotInv
  <2>2. Told(r)'
    BY <1>5, <2>1 DEF Told
  <2>3. OneSend(r)'
    <3>1. CASE r = s
      <4>1. /\ sendAt' = sendAt /\ sending' = sending /\ io' = io /\ left'[r]["send"] = left[r]["send"] - 1
            /\ left'[r]["recv"] = left[r]["recv"] /\ work'[w] = "unsend" /\ workAt'[w] = s
            /\ (\A v \in Workers : v # w => work'[v] = work[v] /\ workAt'[v] = workAt[v])
        BY <1>5, <1>7, <3>1, <1>8
      <4> QED BY <1>1, <1>2, <1>3, <1>4, <2>1, <3>1, <4>1 DEF OneSend, Sent
    <3>2. CASE r # s
      <4>1. /\ sendAt' = sendAt /\ sending' = sending /\ io' = io /\ left'[r] = left[r]
            /\ work'[w] = "unsend" /\ workAt'[w] = s
            /\ (\A v \in Workers : v # w => work'[v] = work[v] /\ workAt'[v] = workAt[v])
        BY <1>2, <1>5, <1>7, <3>2, <1>8
      <4> QED BY <1>2, <2>1, <3>2, <1>4, <4>1 DEF OneSend, Sent
    <3> QED BY <3>1, <3>2
  <2>4. Empty(r)'
    BY <1>1, <1>2, <1>3, <1>4, <1>5, <1>7, <1>8, <1>9, <2>1 DEF Empty
  <2>5. Own(r)'
    <3>1. CASE r = s
      <4>1. info' = info
        BY <1>5, <1>7, <3>1
      <4> QED BY <1>1, <1>2, <1>3, <1>4, <2>1, <3>1, <4>1, <1>9 DEF Own
    <3>2. CASE r # s
      <4>1. sendQ'[r] = sendQ[r] /\ info' = info
        BY <1>2, <1>5, <1>7, <3>2
      <4> QED BY <1>2, <2>1, <3>2, <1>4, <4>1 DEF Own
    <3> QED BY <3>1, <3>2
  <2>6. Alone(r)'
    BY <1>1, <1>2, <1>3, <1>4, <1>5, <1>7, <1>8, <1>9, <2>1 DEF Alone, Clean
  <2>7. OneRecv(r)'
    <3>1. CASE r = s
      <4>1. /\ mode' = mode /\ info' = info /\ heirs' = heirs /\ io' = io /\ work'[w] = "unsend"
            /\ workAt'[w] = s
            /\ (\A v \in Workers : v # w => work'[v] = work[v] /\ workAt'[v] = workAt[v])
        BY <1>5, <1>7, <3>1
      <4> QED BY <1>1, <1>2, <1>3, <1>4, <2>1, <3>1, <4>1 DEF OneRecv, Clean, Recv, Alone
    <3>2. CASE r # s
      <4>1. /\ mode' = mode /\ info' = info /\ heirs' = heirs /\ io' = io /\ work'[w] = "unsend"
            /\ workAt'[w] = s
            /\ (\A v \in Workers : v # w => work'[v] = work[v] /\ workAt'[v] = workAt[v])
        BY <1>2, <1>5, <1>7, <3>2
      <4> QED BY <1>2, <2>1, <3>2, <1>4, <4>1 DEF OneRecv, Clean, Recv
    <3> QED BY <3>1, <3>2
  <2>8. Fresh(r)'
    <3>1. CASE r = s
      <4>1. /\ mode' = mode /\ info' = info /\ heirs' = heirs /\ authAt' = authAt /\ auth' = auth /\ io' = io
            /\ logout' = logout /\ workAt'[w] = s /\ sendAt' = sendAt /\ send' = send
            /\ (\A v \in Workers : v # w => work'[v] = work[v] /\ workAt'[v] = workAt[v])
        BY <1>5, <1>7, <3>1
      <4> QED BY <1>1, <1>2, <1>3, <1>4, <2>1, <3>1, <4>1, <1>9 DEF Fresh, Clean, Joining, Posting,
         Quiet, Steps, Alone
    <3>2. CASE r # s
      <4>1. /\ mode' = mode /\ info' = info /\ heirs' = heirs /\ authAt' = authAt /\ auth' = auth /\ io' = io
            /\ sendQ'[r] = sendQ[r] /\ logout' = logout /\ workAt'[w] = s /\ sendAt' = sendAt /\ send' = send
            /\ (\A v \in Workers : v # w => work'[v] = work[v] /\ workAt'[v] = workAt[v])
        BY <1>2, <1>5, <1>7, <3>2
      <4> QED BY <1>2, <2>1, <3>2, <1>4, <4>1 DEF Fresh, Clean, Joining, Posting, Quiet, Steps
    <3> QED BY <3>1, <3>2
  <2>9. Heard(r)'
    <3>1. CASE r = s
      <4>1. /\ mode' = mode /\ info' = info /\ heirs' = heirs /\ sock' = sock /\ authAt' = authAt
            /\ auth' = auth /\ io' = io /\ work'[w] = "unsend" /\ workAt'[w] = s
            /\ (\A v \in Workers : v # w => work'[v] = work[v] /\ workAt'[v] = workAt[v])
        BY <1>5, <1>7, <3>1
      <4> QED BY <1>1, <1>2, <1>3, <1>4, <2>1, <3>1, <4>1 DEF Heard, Clean, Joining, Recv
    <3>2. CASE r # s
      <4>1. /\ mode' = mode /\ info' = info /\ heirs' = heirs /\ sock' = sock /\ authAt' = authAt
            /\ auth' = auth /\ io' = io /\ work'[w] = "unsend" /\ workAt'[w] = s
            /\ (\A v \in Workers : v # w => work'[v] = work[v] /\ workAt'[v] = workAt[v])
        BY <1>2, <1>5, <1>7, <3>2
      <4> QED BY <1>2, <2>1, <3>2, <1>4, <4>1 DEF Heard, Clean, Joining, Recv
    <3> QED BY <3>1, <3>2
  <2>10. Ended(r)'
    <3>1. CASE r = s
      <4>1. /\ mode' = mode /\ info' = info /\ heirs' = heirs /\ logout' = logout /\ sendAt' = sendAt
            /\ send' = send /\ work'[w] = "unsend" /\ workAt'[w] = s /\ io' = io /\ authAt' = authAt
            /\ auth' = auth /\ sock' = sock
            /\ (\A v \in Workers : v # w => work'[v] = work[v] /\ workAt'[v] = workAt[v])
        BY <1>5, <1>7, <3>1
      <4> QED BY <1>1, <1>2, <1>3, <1>4, <2>1, <3>1, <4>1 DEF Ended, Clean, Over, Quiet, Joining, Alone
    <3>2. CASE r # s
      <4>1. /\ mode' = mode /\ info' = info /\ heirs' = heirs /\ logout' = logout /\ sendAt' = sendAt
            /\ send' = send /\ work'[w] = "unsend" /\ workAt'[w] = s /\ io' = io /\ authAt' = authAt
            /\ auth' = auth /\ sock' = sock
            /\ (\A v \in Workers : v # w => work'[v] = work[v] /\ workAt'[v] = workAt[v])
        BY <1>2, <1>5, <1>7, <3>2
      <4> QED BY <1>2, <2>1, <3>2, <1>4, <4>1 DEF Ended, Clean, Over, Quiet, Joining
    <3> QED BY <3>1, <3>2
  <2> QED BY <2>2, <2>3, <2>4, <2>5, <2>6, <2>7, <2>8, <2>9, <2>10 DEF SlotInv
<1> QED BY <1>10, <1>11, <1>12, <1>13, <1>14, <1>15, <1>16, <1>17 DEF IInv

LEMMA WorkUnsendStep ==
  ASSUME ConstantsOK, IInv, NEW w \in Workers, WorkUnsend(w)
  PROVE  IInv'
<1>1. /\ TypeOK /\ ThreadInv /\ Bounded /\ GameLeft /\ Used /\ Steps /\ Counted /\ Indexed
      /\ \A r \in Slots : IOAt(r) /\ SlotInv(r)
  BY DEF IInv
<1>2. /\ {authAt, blank, gameAt, sendAt} \subseteq Slots \cup {NoSlot} /\ NoSlot \notin Slots /\ NoConn \notin Conns
      /\ workAt \in [Workers -> Slots \cup {NoSlot}]
      /\ \A r \in Slots : (mode[r] # "NONE" <=> info[r] # NoConn) /\ (mode[r] # "NONE" <=> info[r] \in Conns)
      /\ \A r \in Slots : IONat(r)
  BY <1>1, StateTypes
<1>3. /\ workAt[w] \in Slots /\ IOAt(workAt[w]) /\ OneSend(workAt[w]) /\ Empty(workAt[w]) /\ Told(workAt[w])
           /\ Own(workAt[w])
      /\ Alone(workAt[w]) /\ OneRecv(workAt[w]) /\ Fresh(workAt[w]) /\ Heard(workAt[w]) /\ Ended(workAt[w])
  <2>1. workAt[w] \in Slots
    BY <1>1, <1>2 DEF WorkUnsend, Work, ThreadInv
  <2> QED BY <1>1, <2>1 DEF SlotInv
<1>4. work[w] = "unsend"
  BY <1>1, <1>2, <1>3 DEF WorkUnsend, Work, Steps, Used, ThreadInv
<1>5. UNCHANGED <<sock, queue, mode, info, toGame, inbox, free, authCount, gameCount, total, told,
        sendQ, sendCount, ioCount, io, left, logout, stuck, auth, authAt, blank, game, gameAt, send,
        sendAt, toSend, workAt, heirs, taken, down>>
  <2>1. workAt \in [Workers -> Slots \cup {NoSlot}] /\ workAt' = [workAt EXCEPT ![w] = workAt[w]]
    BY <1>2 DEF WorkUnsend, Work
  <2>2. workAt' = workAt
    BY <2>1
  <2> QED BY <2>2 DEF WorkUnsend, Work, authT, conns, flow, gameT, got, sendT
<1>6. /\ sending' = [sending EXCEPT ![workAt[w]] = FALSE]
      /\ work' = [work EXCEPT ![w] = "dec"]
  BY DEF WorkUnsend, Work
<1>7. /\ sending'[workAt[w]] = FALSE /\ \A x \in Slots : x # workAt[w] => sending'[x] = sending[x]
      /\ work'[w] = "dec" /\ \A x \in Workers : x # w => work'[x] = work[x]
  BY <1>1, <1>2, <1>3, <1>4, <1>6 DEF WorkUnsend, Work, TypeOK
<1>8. TypeOK'
  <2>1. sending' \in [Slots -> BOOLEAN]
    BY <1>1, <1>2, <1>3, <1>4, <1>6 DEF TypeOK
  <2>2. work' \in [Workers -> {"idle", "recv", "unsend", "dec", "log"}]
    BY <1>1, <1>2, <1>3, <1>4, <1>6 DEF TypeOK
  <2> QED BY <1>1, <1>5, <2>1, <2>2 DEF TypeOK
<1>9. Bounded' /\ GameLeft' /\ Used'
  BY <1>1, <1>5 DEF Bounded, GameLeft, Used
<1>10. Steps' /\ Indexed'
  BY <1>1, <1>5 DEF Steps, Indexed
<1>11. Counted'
  BY <1>1, <1>5 DEF Counted
<1>12. ThreadInv'
  <2>1. \A v \in Workers : v # w => ((work'[v] = "idle") <=> (workAt'[v] = NoSlot))
    BY <1>1, <1>5, <1>7 DEF ThreadInv
  <2>2. (work'[w] = "idle") <=> (workAt'[w] = NoSlot)
    BY <1>1, <1>2, <1>3, <1>4, <1>5, <1>7 DEF ThreadInv
  <2> QED BY <1>1, <1>5, <2>1, <2>2 DEF ThreadInv
<1>13. ASSUME NEW r \in Slots PROVE IOAt(r)'
  <2>1. \A v \in Workers : v # w => workAt'[v] = workAt[v] /\ work'[v] = work[v]
    BY <1>5, <1>7
  <2>2. /\ NoSlot # r
        /\ work[w] = "unsend" /\ (work[w] = "idle" <=> workAt[w] = NoSlot)
        /\ work'[w] = "dec" /\ workAt'[w] = workAt[w]
    BY <1>1, <1>2, <1>4, <1>5, <1>7 DEF ThreadInv
  <2>3. /\ Cardinality(Handled(workAt', work', r)) = Cardinality(Handled(workAt, work, r))
        /\ Cardinality(Recving(workAt', work', r)) = Cardinality(Recving(workAt, work, r))
    BY <2>1, <2>2, ConstantsOK, WorkStepped, WorkNat
  <2>5. Pending(r)' = Pending(r)
    BY <1>5 DEF Pending
  <2>6. IOAt(r) /\ IONat(r)
    BY <1>1, <1>2
  <2>7. ioCount'[r] = Pending(r)' + Cardinality(Handled(workAt', work', r)) + Cardinality(Recving(workAt', work', r))
                     + One(sendAt' = r /\ send' \in {"peek", "post", "fail"}) + One(authAt' = r /\ auth' = "join")
    <3>1. /\ NoSlot \notin Slots /\ auth' = auth /\ authAt' = authAt /\ send' = send /\ sendAt' = sendAt
          /\ work[w] = "unsend" /\ work'[w] = "dec" /\ workAt' = workAt /\ ioCount'[r] = ioCount[r]
      BY <1>2, <1>4, <1>5, <1>7
    <3> QED BY <1>1, <1>3, <2>3, <2>5, <2>6, <3>1 DEF ThreadInv, IOAt, IONat, One
  <2> QED BY <2>7 DEF IOAt, Handled, Recving, One
<1>14. ASSUME NEW r \in Slots PROVE SlotInv(r)'
  <2>1. OneSend(r) /\ Empty(r) /\ Told(r) /\ Own(r) /\ Alone(r) /\ OneRecv(r) /\ Fresh(r) /\ Heard(r) /\ Ended(r)
    BY <1>1 DEF SlotInv
  <2>2. Empty(r)' /\ Told(r)' /\ Own(r)' /\ Alone(r)'
    BY <1>5, <2>1 DEF Empty, Told, Own, Alone, Clean
  <2>3. Fresh(r)'
    BY <1>5, <2>1 DEF Fresh, Clean, Joining, Posting, Quiet
  <2>4. OneSend(r)'
    BY <1>1, <1>2, <1>3, <1>4, <1>5, <1>7, <2>1 DEF OneSend, Sent
  <2>5. OneRecv(r)'
    BY <1>1, <1>2, <1>3, <1>4, <1>5, <1>7, <2>1 DEF OneRecv, Clean, Recv
  <2>6. Heard(r)'
    BY <1>1, <1>2, <1>3, <1>4, <1>5, <1>7, <2>1 DEF Heard, Clean, Joining, Recv
  <2>7. Ended(r)'
    BY <1>1, <1>2, <1>3, <1>4, <1>5, <1>7, <2>1 DEF Ended, Clean, Over, Quiet, Joining
  <2> QED BY <2>2, <2>3, <2>4, <2>5, <2>6, <2>7 DEF SlotInv
<1> QED BY <1>8, <1>9, <1>10, <1>11, <1>12, <1>13, <1>14 DEF IInv

LEMMA WorkRecvPostedStep ==
  ASSUME ConstantsOK, IInv, NEW w \in Workers, WorkRecv(w), Accepted(workAt[w]), Post(workAt[w],
         "recv"), UNCHANGED <<sock, ioCount>>
  PROVE  IInv'
<1>1. /\ TypeOK /\ ThreadInv /\ Bounded /\ GameLeft /\ Used /\ Steps /\ Counted /\ Indexed
      /\ \A r \in Slots : IOAt(r) /\ SlotInv(r)
  BY DEF IInv
<1>2. /\ {authAt, blank, gameAt, sendAt} \subseteq Slots \cup {NoSlot} /\ NoSlot \notin Slots /\ NoConn \notin Conns
      /\ workAt \in [Workers -> Slots \cup {NoSlot}]
      /\ \A r \in Slots : (mode[r] # "NONE" <=> info[r] # NoConn) /\ (mode[r] # "NONE" <=> info[r] \in Conns)
      /\ \A r \in Slots : io[r]["recv"] \in Nat /\ io[r]["send"] \in Nat /\ left[r]["recv"] \in Nat
           /\ left[r]["send"] \in Nat
      /\ \A r \in Slots : IONat(r)
  BY <1>1, StateTypes
<1>3. /\ workAt[w] \in Slots /\ IOAt(workAt[w]) /\ OneSend(workAt[w]) /\ Empty(workAt[w]) /\ Told(workAt[w])
           /\ Own(workAt[w])
      /\ Alone(workAt[w]) /\ OneRecv(workAt[w]) /\ Fresh(workAt[w]) /\ Heard(workAt[w]) /\ Ended(workAt[w])
  <2>1. workAt[w] \in Slots
    BY <1>1, <1>2 DEF WorkRecv, Shut, Accepted, Refused, Post, DecIO, Work, ThreadInv
  <2> QED BY <1>1, <2>1 DEF SlotInv
<1>4. work[w] = "recv" /\ sock[info[workAt[w]]] \in {"open", "reset"} /\ info[workAt[w]] \in Conns
  BY <1>1, <1>2, <1>3 DEF WorkRecv, Shut, Accepted, Refused, Post, DecIO, Work, Steps, Used, ThreadInv
<1>5. UNCHANGED <<sock, queue, mode, info, toGame, inbox, free, authCount, gameCount, total, told,
        sendQ, sending, sendCount, ioCount, left, logout, stuck, auth, authAt, blank, game, gameAt,
        send, sendAt, toSend, workAt, heirs, taken, down>>
  <2>1. workAt \in [Workers -> Slots \cup {NoSlot}] /\ workAt' = [workAt EXCEPT ![w] = workAt[w]]
    BY <1>2 DEF WorkRecv, Shut, Accepted, Refused, Post, DecIO, Work
  <2>2. workAt' = workAt
    BY <2>1
  <2> QED BY <2>2 DEF WorkRecv, Shut, Accepted, Refused, Post, DecIO, Work, authT, flow, gameT, got,
     sendT
<1>6. work' = [work EXCEPT ![w] = "dec"]
  BY DEF WorkRecv, Shut, Accepted, Refused, Post, DecIO, Work
<1>7. work'[w] = "dec" /\ \A x \in Workers : x # w => work'[x] = work[x]
  BY <1>1, <1>2, <1>3, <1>4, <1>6 DEF WorkRecv, Shut, Accepted, Refused, Post, DecIO, Work, TypeOK
<1>8. /\ io' \in [Slots -> [Kinds -> Nat]]
      /\ io'[workAt[w]]["recv"] = io[workAt[w]]["recv"] + 1 /\ io'[workAt[w]]["send"] = io[workAt[w]]["send"]
      /\ \A x \in Slots : x # workAt[w] => io'[x] = io[x]
  <2>1. "recv" \in Kinds /\ "send" \in Kinds /\ "recv" # "send"
    BY DEF Kinds
  <2>2. PICK s \in Slots : s = workAt[w]
    BY <1>3
  <2>3. io' = [io EXCEPT ![s]["recv"] = @ + 1]
    BY <2>2 DEF WorkRecv, Post
  <2>4. TypeOK
    BY <1>1
  <2>5. /\ io' \in [Slots -> [Kinds -> Nat]] /\ io'[s]["recv"] = io[s]["recv"] + 1
        /\ (\A j \in Kinds : j # "recv" => io'[s][j] = io[s][j]) /\ \A x \in Slots : x # s => io'[x] = io[x]
    BY <2>1, <2>3, <2>4, Posted
  <2> QED BY <2>1, <2>2, <2>5
<1>9. TypeOK'
  <2>1. work' \in [Workers -> {"idle", "recv", "unsend", "dec", "log"}]
    BY <1>1, <1>2, <1>3, <1>4, <1>6, <1>8 DEF TypeOK
  <2>2. io' \in [Slots -> [Kinds -> Nat]]
    BY <1>8
  <2>3. {io', left'} \subseteq [Slots -> [Kinds -> Nat]]
    <3>1. left' \in [Slots -> [Kinds -> Nat]]
      BY <1>1, <1>5 DEF TypeOK
    <3> QED BY <2>2, <3>1
  <2> QED BY <1>1, <1>5, <2>1, <2>2, <2>3 DEF TypeOK
<1>10. Bounded' /\ GameLeft' /\ Used'
  BY <1>1, <1>5 DEF Bounded, GameLeft, Used
<1>11. Steps' /\ Indexed'
  BY <1>1, <1>5 DEF Steps, Indexed
<1>12. Counted'
  BY <1>1, <1>5 DEF Counted
<1>13. ThreadInv'
  <2>1. \A v \in Workers : v # w => ((work'[v] = "idle") <=> (workAt'[v] = NoSlot))
    BY <1>1, <1>5, <1>7 DEF ThreadInv
  <2>2. (work'[w] = "idle") <=> (workAt'[w] = NoSlot)
    BY <1>1, <1>2, <1>3, <1>4, <1>5, <1>7 DEF ThreadInv
  <2> QED BY <1>1, <1>5, <2>1, <2>2 DEF ThreadInv
<1>14. ASSUME NEW r \in Slots PROVE IOAt(r)'
  <2>1. \A v \in Workers : v # w => workAt'[v] = workAt[v] /\ work'[v] = work[v]
    BY <1>5, <1>7
  <2>2. /\ NoSlot # r
        /\ work[w] = "recv" /\ (work[w] = "idle" <=> workAt[w] = NoSlot)
        /\ work'[w] = "dec" /\ workAt'[w] = workAt[w]
    BY <1>1, <1>2, <1>4, <1>5, <1>7 DEF ThreadInv
  <2>3. /\ Cardinality(Handled(workAt', work', r)) = Cardinality(Handled(workAt, work, r))
        /\ Cardinality(Recving(workAt', work', r))
             = Cardinality(Recving(workAt, work, r)) - (IF r = workAt[w] THEN 1 ELSE 0)
    BY <2>1, <2>2, ConstantsOK, WorkStepped, WorkNat
  <2>5. Pending(r)' = Pending(r) + (IF r = workAt[w] THEN 1 ELSE 0)
    <3>1. CASE r = workAt[w]
      <4>1. io'[r]["recv"] = io[r]["recv"] + 1 /\ io'[r]["send"] = io[r]["send"] /\ left' = left
        BY <1>5, <1>8, <3>1
      <4> QED BY <1>2, <3>1, <4>1 DEF Pending
    <3>2. CASE r # workAt[w]
      <4>1. io'[r] = io[r] /\ left' = left
        BY <1>5, <1>8, <3>2
      <4> QED BY <1>2, <3>2, <4>1 DEF Pending
    <3> QED BY <3>1, <3>2
  <2>6. IOAt(r) /\ IONat(r)
    BY <1>1, <1>2
  <2>7. ioCount'[r] = Pending(r)' + Cardinality(Handled(workAt', work', r)) + Cardinality(Recving(workAt', work', r))
                     + One(sendAt' = r /\ send' \in {"peek", "post", "fail"}) + One(authAt' = r /\ auth' = "join")
    <3>1. /\ NoSlot \notin Slots /\ auth' = auth /\ authAt' = authAt /\ send' = send /\ sendAt' = sendAt
          /\ work[w] = "recv" /\ work'[w] = "dec" /\ workAt' = workAt /\ ioCount'[r] = ioCount[r]
      BY <1>2, <1>4, <1>5, <1>7
    <3> QED BY <1>1, <1>3, <2>3, <2>5, <2>6, <3>1 DEF ThreadInv, IOAt, IONat, One
  <2> QED BY <2>7 DEF IOAt, Handled, Recving, One
<1>15. ASSUME NEW r \in Slots PROVE SlotInv(r)'
  <2>1. OneSend(r) /\ Empty(r) /\ Told(r) /\ Own(r) /\ Alone(r) /\ OneRecv(r) /\ Fresh(r) /\ Heard(r) /\ Ended(r)
    BY <1>1 DEF SlotInv
  <2>2. Empty(r)' /\ Told(r)' /\ Own(r)' /\ Alone(r)'
    BY <1>5, <2>1 DEF Empty, Told, Own, Alone, Clean
  <2>3. OneSend(r)'
    <3>1. CASE r = workAt[w]
      <4>1. /\ sendAt' = sendAt /\ sending' = sending /\ io'[r]["recv"] = io[r]["recv"] + 1
            /\ io'[r]["send"] = io[r]["send"] /\ left' = left /\ work'[w] = "dec" /\ workAt' = workAt
            /\ (\A v \in Workers : v # w => work'[v] = work[v] /\ workAt'[v] = workAt[v])
        BY <1>5, <1>7, <3>1, <1>8
      <4> QED BY <1>1, <1>2, <1>3, <1>4, <2>1, <3>1, <4>1 DEF OneSend, Sent
    <3>2. CASE r # workAt[w]
      <4>1. /\ sendAt' = sendAt /\ sending' = sending /\ io'[r] = io[r] /\ left' = left /\ work'[w] = "dec"
            /\ workAt' = workAt
            /\ (\A v \in Workers : v # w => work'[v] = work[v] /\ workAt'[v] = workAt[v])
        BY <1>2, <1>5, <1>7, <3>2, <1>8
      <4> QED BY <1>2, <2>1, <3>2, <1>4, <4>1 DEF OneSend, Sent
    <3> QED BY <3>1, <3>2
  <2>4. OneRecv(r)'
    <3>1. CASE r = workAt[w]
      <4>1. /\ mode' = mode /\ info' = info /\ heirs' = heirs /\ io'[r]["recv"] = io[r]["recv"] + 1
            /\ io'[r]["send"] = io[r]["send"] /\ work'[w] = "dec" /\ workAt' = workAt
            /\ (\A v \in Workers : v # w => work'[v] = work[v] /\ workAt'[v] = workAt[v])
        BY <1>5, <1>7, <3>1, <1>8
      <4> QED BY <1>1, <1>2, <1>3, <1>4, <2>1, <3>1, <4>1 DEF OneRecv, Clean, Recv
    <3>2. CASE r # workAt[w]
      <4>1. /\ mode' = mode /\ info' = info /\ heirs' = heirs /\ io'[r] = io[r] /\ work'[w] = "dec"
            /\ workAt' = workAt
            /\ (\A v \in Workers : v # w => work'[v] = work[v] /\ workAt'[v] = workAt[v])
        BY <1>2, <1>5, <1>7, <3>2, <1>8
      <4> QED BY <1>2, <2>1, <3>2, <1>4, <4>1 DEF OneRecv, Clean, Recv
    <3> QED BY <3>1, <3>2
  <2>5. Fresh(r)'
    BY <1>1, <1>2, <1>3, <1>4, <1>5, <1>7, <1>8, <2>1 DEF Fresh, Clean, Joining, Posting, Quiet
  <2>6. Heard(r)'
    BY <1>1, <1>2, <1>3, <1>4, <1>5, <1>7, <1>8, <2>1 DEF Heard, Clean, Joining, Recv
  <2>7. Ended(r)'
    BY <1>1, <1>2, <1>3, <1>4, <1>5, <1>7, <1>8, <2>1 DEF Ended, Clean, Over, Quiet, Joining
  <2> QED BY <2>2, <2>3, <2>4, <2>5, <2>6, <2>7 DEF SlotInv
<1> QED BY <1>9, <1>10, <1>11, <1>12, <1>13, <1>14, <1>15 DEF IInv

LEMMA WorkRecvFailedStep ==
  ASSUME ConstantsOK, IInv, NEW w \in Workers, WorkRecv(w), Refused(workAt[w]), Shut(workAt[w]),
         DecIO(workAt[w]), UNCHANGED io
  PROVE  IInv'
<1>1. /\ TypeOK /\ ThreadInv /\ Bounded /\ GameLeft /\ Used /\ Steps /\ Counted /\ Indexed
      /\ \A r \in Slots : IOAt(r) /\ SlotInv(r)
  BY DEF IInv
<1>2. /\ {authAt, blank, gameAt, sendAt} \subseteq Slots \cup {NoSlot} /\ NoSlot \notin Slots /\ NoConn \notin Conns
      /\ workAt \in [Workers -> Slots \cup {NoSlot}]
      /\ (\A i \in DOMAIN queue : queue[i] \in Conns) /\ (\A i \in DOMAIN free : free[i] \in Slots)
      /\ \A r \in Slots : (mode[r] # "NONE" <=> info[r] # NoConn) /\ (mode[r] # "NONE" <=> info[r] \in Conns)
      /\ \A r \in Slots : IONat(r)
  BY <1>1, StateTypes
<1>3. /\ workAt[w] \in Slots /\ IOAt(workAt[w]) /\ OneSend(workAt[w]) /\ Empty(workAt[w]) /\ Told(workAt[w])
           /\ Own(workAt[w])
      /\ Alone(workAt[w]) /\ OneRecv(workAt[w]) /\ Fresh(workAt[w]) /\ Heard(workAt[w]) /\ Ended(workAt[w])
  <2>1. workAt[w] \in Slots
    BY <1>1, <1>2 DEF WorkRecv, Shut, Accepted, Refused, Post, DecIO, Work, ThreadInv
  <2> QED BY <1>1, <2>1 DEF SlotInv
<1>4. work[w] = "recv" /\ ioCount[workAt[w]] > 0 /\ info[workAt[w]] \in Conns
  <2>1. work[w] = "recv" /\ info[workAt[w]] \in Conns
    BY <1>1, <1>2, <1>3 DEF WorkRecv, Shut, Accepted, Refused, Post, DecIO, Work, Steps, Used
  <2>2. Cardinality(Handled(workAt, work, workAt[w])) > 0
    <3>1. w \in Workers /\ work[w] # "log"
      BY <2>1
    <3> QED BY <3>1, ConstantsOK, WorkNat
  <2>3. IONat(workAt[w])
    BY <1>2, <1>3
  <2> QED BY <1>3, <2>1, <2>2, <2>3 DEF IOAt, IONat, One
<1>5. UNCHANGED <<queue, mode, info, toGame, inbox, free, authCount, gameCount, total, told, sendQ,
        sending, sendCount, io, left, logout, stuck, auth, authAt, blank, game, gameAt, send, sendAt,
        toSend, workAt, heirs, taken, down>>
  <2>1. workAt \in [Workers -> Slots \cup {NoSlot}] /\ workAt' = [workAt EXCEPT ![w] = workAt[w]]
    BY <1>2 DEF WorkRecv, Shut, Accepted, Refused, Post, DecIO, Work
  <2>2. workAt' = workAt
    BY <2>1
  <2> QED BY <2>2 DEF WorkRecv, Shut, Accepted, Refused, Post, DecIO, Work, authT, flow, gameT, got,
     sendT
<1>6. /\ sock' = [sock EXCEPT ![info[workAt[w]]] = IF sock[info[workAt[w]]] \in {"open", "reset"} THEN "shut"
           ELSE sock[info[workAt[w]]]]
      /\ ioCount' = [ioCount EXCEPT ![workAt[w]] = ioCount[workAt[w]] - 1]
      /\ work' = [work EXCEPT ![w] = "dec"]
  BY DEF WorkRecv, Shut, Accepted, Refused, Post, DecIO, Work
<1>7. /\ sock'[info[workAt[w]]] = (IF sock[info[workAt[w]]] \in {"open", "reset"} THEN "shut"
           ELSE sock[info[workAt[w]]]) /\ \A x \in Conns : x # info[workAt[w]] => sock'[x] = sock[x]
      /\ ioCount'[workAt[w]] = (ioCount[workAt[w]] - 1) /\ \A x \in Slots : x # workAt[w]
           => ioCount'[x] = ioCount[x]
      /\ work'[w] = "dec" /\ \A x \in Workers : x # w => work'[x] = work[x]
  BY <1>1, <1>2, <1>3, <1>4, <1>6 DEF WorkRecv, Shut, Accepted, Refused, Post, DecIO, Work, TypeOK
<1>8. ShutDown(sock, sock') /\ sock'[info[workAt[w]]] \in {"shut", "closed", "none"}
  <2>1. \A x \in Conns : sock[x] \in {"none", "open", "reset", "shut", "closed"}
    BY <1>1 DEF TypeOK
  <2> QED BY <1>4, <1>7, <2>1 DEF ShutDown
<1>9. TypeOK'
  <2>1. sock' \in [Conns -> {"none", "open", "reset", "shut", "closed"}]
    BY <1>1, <1>2, <1>3, <1>4, <1>6, <1>8 DEF TypeOK
  <2>2. ioCount' \in [Slots -> Nat]
    <3>1. ioCount \in [Slots -> Nat]
      BY <1>1 DEF TypeOK
    <3>2. workAt[w] \in Slots /\ ioCount[workAt[w]] > 0
      BY <1>3, <1>4
    <3>3. ioCount[workAt[w]] - 1 \in Nat
      BY <3>1, <3>2
    <3>4. ioCount' = [ioCount EXCEPT ![workAt[w]] = ioCount[workAt[w]] - 1]
      BY <1>6
    <3> QED BY <3>1, <3>3, <3>4
  <2>3. work' \in [Workers -> {"idle", "recv", "unsend", "dec", "log"}]
    BY <1>1, <1>2, <1>3, <1>4, <1>6, <1>8 DEF TypeOK
  <2> QED BY <1>1, <1>5, <2>1, <2>2, <2>3 DEF TypeOK
<1>10. Bounded' /\ GameLeft' /\ Steps'
  BY <1>1, <1>5 DEF Bounded, GameLeft, Steps
<1>11. Indexed'
  BY <1>1, <1>5 DEF Indexed
<1>12. Counted'
  BY <1>1, <1>5 DEF Counted
<1>13. ThreadInv'
  <2>1. \A v \in Workers : v # w => ((work'[v] = "idle") <=> (workAt'[v] = NoSlot))
    BY <1>1, <1>5, <1>7 DEF ThreadInv
  <2>2. (work'[w] = "idle") <=> (workAt'[w] = NoSlot)
    BY <1>1, <1>2, <1>3, <1>4, <1>5, <1>7 DEF ThreadInv
  <2> QED BY <1>1, <1>5, <2>1, <2>2 DEF ThreadInv
<1>14. Used'
  <2>1. \A x \in Conns : sock'[x] = "none" <=> sock[x] = "none"
    BY <1>8 DEF ShutDown
  <2>2. \A x \in heirs : x \in Conns
    BY <1>1 DEF TypeOK
  <2> QED BY <1>1, <1>2, <1>5, <2>1, <2>2 DEF Used
<1>15. ASSUME NEW r \in Slots PROVE IOAt(r)'
  <2>1. \A v \in Workers : v # w => workAt'[v] = workAt[v] /\ work'[v] = work[v]
    BY <1>5, <1>7
  <2>2. /\ NoSlot # r
        /\ work[w] = "recv" /\ (work[w] = "idle" <=> workAt[w] = NoSlot)
        /\ work'[w] = "dec" /\ workAt'[w] = workAt[w]
    BY <1>1, <1>2, <1>4, <1>5, <1>7 DEF ThreadInv
  <2>3. /\ Cardinality(Handled(workAt', work', r)) = Cardinality(Handled(workAt, work, r))
        /\ Cardinality(Recving(workAt', work', r))
             = Cardinality(Recving(workAt, work, r)) - (IF r = workAt[w] THEN 1 ELSE 0)
    BY <2>1, <2>2, ConstantsOK, WorkStepped, WorkNat
  <2>5. Pending(r)' = Pending(r)
    BY <1>5 DEF Pending
  <2>6. IOAt(r) /\ IONat(r)
    BY <1>1, <1>2
  <2>7. ioCount'[r] = Pending(r)' + Cardinality(Handled(workAt', work', r)) + Cardinality(Recving(workAt', work', r))
                     + One(sendAt' = r /\ send' \in {"peek", "post", "fail"}) + One(authAt' = r /\ auth' = "join")
    <3>1. /\ NoSlot \notin Slots /\ auth' = auth /\ authAt' = authAt /\ send' = send /\ sendAt' = sendAt
          /\ work[w] = "recv" /\ work'[w] = "dec" /\ workAt' = workAt
          /\ r = workAt[w] => ioCount'[r] = ioCount[r] - 1
          /\ r # workAt[w] => ioCount'[r] = ioCount[r]
      BY <1>2, <1>4, <1>5, <1>7
    <3> QED BY <1>1, <1>3, <2>3, <2>5, <2>6, <3>1 DEF ThreadInv, IOAt, IONat, One
  <2> QED BY <2>7 DEF IOAt, Handled, Recving, One
<1>16. ASSUME NEW r \in Slots PROVE SlotInv(r)'
  <2>1. OneSend(r) /\ Empty(r) /\ Told(r) /\ Own(r) /\ Alone(r) /\ OneRecv(r) /\ Fresh(r) /\ Heard(r) /\ Ended(r)
    BY <1>1 DEF SlotInv
  <2>2. Empty(r)' /\ Told(r)' /\ Own(r)' /\ Alone(r)'
    BY <1>5, <2>1 DEF Empty, Told, Own, Alone, Clean
  <2>3. Fresh(r)'
    BY <1>5, <2>1 DEF Fresh, Clean, Joining, Posting, Quiet
  <2>4. OneSend(r)'
    BY <1>1, <1>2, <1>3, <1>4, <1>5, <1>7, <1>8, <2>1 DEF OneSend, Sent
  <2>5. OneRecv(r)'
    BY <1>1, <1>2, <1>3, <1>4, <1>5, <1>7, <1>8, <2>1 DEF OneRecv, Clean, Recv
  <2>6. Heard(r)'
    <3>1. CASE r = workAt[w]
      <4>1. /\ mode' = mode /\ info' = info /\ heirs' = heirs /\ authAt' = authAt /\ auth' = auth /\ io' = io
            /\ work'[w] = "dec" /\ workAt' = workAt
            /\ (\A v \in Workers : v # w => work'[v] = work[v] /\ workAt'[v] = workAt[v])
        BY <1>5, <1>7, <3>1
      <4> QED BY <1>1, <1>2, <1>3, <1>4, <2>1, <3>1, <1>8, <4>1 DEF Heard, Clean, Joining, Recv,
         ShutDown
    <3>2. CASE r # workAt[w]
      <4>1. /\ mode' = mode /\ info' = info /\ heirs' = heirs /\ authAt' = authAt /\ auth' = auth /\ io' = io
            /\ work'[w] = "dec" /\ workAt' = workAt
            /\ (\A v \in Workers : v # w => work'[v] = work[v] /\ workAt'[v] = workAt[v])
        BY <1>2, <1>5, <1>7, <3>2
      <4>2. \A x \in Conns : sock[x] \in {"shut", "closed"} => sock'[x] \in {"shut", "closed"}
        BY <1>8 DEF ShutDown
      <4>3. \A x \in Conns : sock'[x] \in {"open", "reset"} => sock[x] \in {"open", "reset"}
        BY <1>8 DEF ShutDown
      <4>4. (Clean(r)' <=> Clean(r)) /\ (Joining(r)' <=> Joining(r))
        BY <4>1 DEF Clean, Joining
      <4>5. (\E v \in Workers : Recv(v, r)) => (\E v \in Workers : Recv(v, r))'
        BY <3>2, <4>1 DEF Recv
      <4> QED BY <1>2, <2>1, <4>1, <4>3, <4>4, <4>5 DEF Heard, Clean
    <3> QED BY <3>1, <3>2
  <2>7. Ended(r)'
    <3>1. CASE r = workAt[w]
      <4>1. /\ mode' = mode /\ info' = info /\ heirs' = heirs /\ logout' = logout /\ sendAt' = sendAt
            /\ send' = send /\ work'[w] = "dec" /\ workAt' = workAt /\ io' = io /\ authAt' = authAt
            /\ auth' = auth
            /\ (\A v \in Workers : v # w => work'[v] = work[v] /\ workAt'[v] = workAt[v])
        BY <1>5, <1>7, <3>1
      <4> QED BY <1>1, <1>2, <1>3, <1>4, <2>1, <3>1, <1>8, <4>1 DEF Ended, Clean, Over, Quiet,
         Joining, ShutDown
    <3>2. CASE r # workAt[w]
      <4>1. /\ mode' = mode /\ info' = info /\ heirs' = heirs /\ logout' = logout /\ sendAt' = sendAt
            /\ send' = send /\ work'[w] = "dec" /\ workAt' = workAt /\ io' = io /\ authAt' = authAt
            /\ auth' = auth
            /\ (\A v \in Workers : v # w => work'[v] = work[v] /\ workAt'[v] = workAt[v])
        BY <1>2, <1>5, <1>7, <3>2
      <4>2. \A x \in Conns : sock[x] \in {"shut", "closed"} => sock'[x] \in {"shut", "closed"}
        BY <1>8 DEF ShutDown
      <4>3. \A x \in Conns : sock'[x] \in {"open", "reset"} => sock[x] \in {"open", "reset"}
        BY <1>8 DEF ShutDown
      <4>4. Over(r) /\ Clean(r) => Over(r)'
        BY <1>2, <3>2, <4>1, <4>2 DEF Over, Quiet, Joining, Clean
      <4>5. Clean(r)' <=> Clean(r)
        BY <4>1 DEF Clean
      <4> QED BY <1>2, <1>4, <2>1, <3>2, <4>1, <4>4, <4>5 DEF Ended
    <3> QED BY <3>1, <3>2
  <2> QED BY <2>2, <2>3, <2>4, <2>5, <2>6, <2>7 DEF SlotInv
<1> QED BY <1>9, <1>10, <1>11, <1>12, <1>13, <1>14, <1>15, <1>16 DEF IInv

LEMMA WorkDecLastStep ==
  ASSUME ConstantsOK, IInv, NEW w \in Workers, WorkDec(w), ioCount[workAt[w]] = 1
  PROVE  IInv'
<1>1. /\ TypeOK /\ ThreadInv /\ Bounded /\ GameLeft /\ Used /\ Steps /\ Counted /\ Indexed
      /\ \A r \in Slots : IOAt(r) /\ SlotInv(r)
  BY DEF IInv
<1>2. /\ {authAt, blank, gameAt, sendAt} \subseteq Slots \cup {NoSlot} /\ NoSlot \notin Slots /\ NoConn \notin Conns
      /\ workAt \in [Workers -> Slots \cup {NoSlot}]
      /\ \A r \in Slots : (mode[r] # "NONE" <=> info[r] # NoConn) /\ (mode[r] # "NONE" <=> info[r] \in Conns)
      /\ \A r \in Slots : io[r]["recv"] \in Nat /\ io[r]["send"] \in Nat /\ left[r]["recv"] \in Nat
           /\ left[r]["send"] \in Nat
      /\ \A r \in Slots : IONat(r)
  BY <1>1, StateTypes
<1>3. /\ workAt[w] \in Slots /\ IOAt(workAt[w]) /\ OneSend(workAt[w]) /\ Empty(workAt[w]) /\ Told(workAt[w])
           /\ Own(workAt[w])
      /\ Alone(workAt[w]) /\ OneRecv(workAt[w]) /\ Fresh(workAt[w]) /\ Heard(workAt[w]) /\ Ended(workAt[w])
  <2>1. workAt[w] \in Slots
    BY <1>1, <1>2 DEF WorkDec, DecIO, Work, ThreadInv
  <2> QED BY <1>1, <2>1 DEF SlotInv
<1>4. work[w] = "dec" /\ ioCount[workAt[w]] = 1
  BY <1>1, <1>2, <1>3 DEF WorkDec, DecIO, Work, Steps, Used, ThreadInv
<1>5. UNCHANGED <<sock, queue, mode, info, toGame, inbox, free, authCount, gameCount, total, told,
        sendQ, sending, sendCount, io, left, logout, stuck, auth, authAt, blank, game, gameAt, send,
        sendAt, toSend, workAt, heirs, taken, down>>
  <2>1. workAt \in [Workers -> Slots \cup {NoSlot}] /\ workAt' = [workAt EXCEPT ![w] = workAt[w]]
    BY <1>2 DEF WorkDec, DecIO, Work
  <2>2. workAt' = workAt
    BY <2>1
  <2> QED BY <2>2 DEF WorkDec, DecIO, Work, authT, conns, flow, gameT, got, sendT
<1>6. /\ ioCount' = [ioCount EXCEPT ![workAt[w]] = ioCount[workAt[w]] - 1]
      /\ work' = [work EXCEPT ![w] = "log"]
  BY DEF WorkDec, DecIO, Work
<1>7. /\ ioCount'[workAt[w]] = (ioCount[workAt[w]] - 1) /\ \A x \in Slots : x # workAt[w]
           => ioCount'[x] = ioCount[x]
      /\ work'[w] = "log" /\ \A x \in Workers : x # w => work'[x] = work[x]
  BY <1>1, <1>2, <1>3, <1>4, <1>6 DEF WorkDec, DecIO, Work, TypeOK
<1>8. TypeOK'
  <2>1. ioCount' \in [Slots -> Nat]
    <3>1. ioCount \in [Slots -> Nat]
      BY <1>1 DEF TypeOK
    <3>2. workAt[w] \in Slots /\ ioCount[workAt[w]] > 0
      BY <1>3, <1>4
    <3>3. ioCount[workAt[w]] - 1 \in Nat
      BY <3>1, <3>2
    <3>4. ioCount' = [ioCount EXCEPT ![workAt[w]] = ioCount[workAt[w]] - 1]
      BY <1>6
    <3> QED BY <3>1, <3>3, <3>4
  <2>2. work' \in [Workers -> {"idle", "recv", "unsend", "dec", "log"}]
    BY <1>1, <1>2, <1>3, <1>4, <1>6 DEF TypeOK
  <2> QED BY <1>1, <1>5, <2>1, <2>2 DEF TypeOK
<1>9. Bounded' /\ GameLeft' /\ Used'
  BY <1>1, <1>5 DEF Bounded, GameLeft, Used
<1>10. Steps' /\ Indexed'
  BY <1>1, <1>5 DEF Steps, Indexed
<1>11. Counted'
  BY <1>1, <1>5 DEF Counted
<1>12. ThreadInv'
  <2>1. \A v \in Workers : v # w => ((work'[v] = "idle") <=> (workAt'[v] = NoSlot))
    BY <1>1, <1>5, <1>7 DEF ThreadInv
  <2>2. (work'[w] = "idle") <=> (workAt'[w] = NoSlot)
    BY <1>1, <1>2, <1>3, <1>4, <1>5, <1>7 DEF ThreadInv
  <2> QED BY <1>1, <1>5, <2>1, <2>2 DEF ThreadInv
<1>13. ASSUME NEW r \in Slots PROVE IOAt(r)'
  <2>1. \A v \in Workers : v # w => workAt'[v] = workAt[v] /\ work'[v] = work[v]
    BY <1>5, <1>7
  <2>2. /\ NoSlot # r
        /\ work[w] = "dec" /\ (work[w] = "idle" <=> workAt[w] = NoSlot)
        /\ work'[w] = "log" /\ workAt'[w] = workAt[w]
    BY <1>1, <1>2, <1>4, <1>5, <1>7 DEF ThreadInv
  <2>3. /\ Cardinality(Handled(workAt', work', r))
             = Cardinality(Handled(workAt, work, r)) - (IF r = workAt[w] THEN 1 ELSE 0)
        /\ Cardinality(Recving(workAt', work', r)) = Cardinality(Recving(workAt, work, r))
    BY <2>1, <2>2, ConstantsOK, WorkStepped, WorkNat
  <2>5. Pending(r)' = Pending(r)
    BY <1>5 DEF Pending
  <2>6. IOAt(r) /\ IONat(r)
    BY <1>1, <1>2
  <2>7. ioCount'[r] = Pending(r)' + Cardinality(Handled(workAt', work', r)) + Cardinality(Recving(workAt', work', r))
                     + One(sendAt' = r /\ send' \in {"peek", "post", "fail"}) + One(authAt' = r /\ auth' = "join")
    <3>1. /\ NoSlot \notin Slots /\ auth' = auth /\ authAt' = authAt /\ send' = send /\ sendAt' = sendAt
          /\ work[w] = "dec" /\ work'[w] = "log" /\ workAt' = workAt
          /\ r = workAt[w] => ioCount'[r] = ioCount[r] - 1
          /\ r # workAt[w] => ioCount'[r] = ioCount[r]
      BY <1>2, <1>4, <1>5, <1>7
    <3> QED BY <1>1, <1>3, <2>3, <2>5, <2>6, <3>1 DEF ThreadInv, IOAt, IONat, One
  <2> QED BY <2>7 DEF IOAt, Handled, Recving, One
<1>14. ASSUME NEW r \in Slots PROVE SlotInv(r)'
  <2>1. OneSend(r) /\ Empty(r) /\ Told(r) /\ Own(r) /\ Alone(r) /\ OneRecv(r) /\ Fresh(r) /\ Heard(r) /\ Ended(r)
    BY <1>1 DEF SlotInv
  <2>2. Empty(r)' /\ Told(r)' /\ Own(r)' /\ Alone(r)'
    BY <1>5, <2>1 DEF Empty, Told, Own, Alone, Clean
  <2>3. Fresh(r)'
    BY <1>5, <2>1 DEF Fresh, Clean, Joining, Posting, Quiet
  <2>4. OneSend(r)'
    BY <1>1, <1>2, <1>3, <1>4, <1>5, <1>7, <2>1 DEF OneSend, Sent
  <2>5. OneRecv(r)'
    BY <1>1, <1>2, <1>3, <1>4, <1>5, <1>7, <2>1 DEF OneRecv, Clean, Recv
  <2>6. Heard(r)'
    BY <1>1, <1>2, <1>3, <1>4, <1>5, <1>7, <2>1 DEF Heard, Clean, Joining, Recv
  <2>7. Ended(r)'
    <3>1. ASSUME r = workAt[w], ioCount[r] = 1, Clean(r)
          PROVE  /\ Quiet(r) /\ ~Joining(r) /\ sock[info[r]] \in {"shut", "closed"}
                 /\ \A v \in Workers : workAt[v] = r /\ v # w => work[v] = "log"
      <4>1. /\ Pending(r) \in Nat /\ (Pending(r) = 0 => Quiet(r))
            /\ Cardinality(Handled(workAt, work, r)) \in Nat /\ Cardinality(Recving(workAt, work, r)) \in Nat
            /\ \A v \in Workers : workAt[v] = r /\ work[v] # "log" => Cardinality(Handled(workAt, work, r)) > 0
            /\ \A v \in Workers : workAt[v] = r /\ work[v] = "recv" => Cardinality(Recving(workAt, work, r)) > 0
            /\ \A u \in Workers : Cardinality(Handled(workAt, work, r)) <= 1 /\ workAt[u] = r /\ work[u] # "log" =>
                 \A v \in Workers : workAt[v] = r /\ work[v] # "log" => v = u
        <5>1. Pending(r) \in Nat /\ (Pending(r) = 0 => Quiet(r))
          <6>1. /\ io[r]["recv"] \in Nat /\ io[r]["send"] \in Nat
                /\ left[r]["recv"] \in Nat /\ left[r]["send"] \in Nat
            BY <1>2
          <6>2. PICK a \in Nat, b \in Nat, c \in Nat, d \in Nat :
                  a = io[r]["recv"] /\ b = io[r]["send"] /\ c = left[r]["recv"] /\ d = left[r]["send"]
            BY <6>1
          <6>3. Pending(r) = a + b + c + d
            BY <6>2 DEF Pending
          <6>4. a + b + c + d \in Nat /\ (a + b + c + d = 0 => a = 0 /\ b = 0)
            BY Sums
          <6> QED BY <6>2, <6>3, <6>4 DEF Quiet
        <5> QED BY <5>1, ConstantsOK, WorkNat
      <4>2. IOAt(r)
        BY <1>1
      <4>3. Quiet(r) /\ ~(authAt = r /\ auth = "join") /\ Cardinality(Handled(workAt, work, r)) <= 1
        <5>1. Cardinality(Handled(workAt, work, r)) > 0
          BY <1>4, <3>1, <4>1
        <5> QED BY <3>1, <4>1, <4>2, <5>1 DEF IOAt, One
      <4>4. (\A v \in Workers : workAt[v] = r /\ work[v] # "log" => v = w) /\ work[w] = "dec"
        BY <1>4, <3>1, <4>1, <4>3
      <4>5. ~(authAt = r /\ auth = "count")
        BY <1>4, <2>1, <3>1 DEF Fresh, Joining, Posting
      <4>6. mode[r] # "NONE" /\ info[r] \in Conns /\ sock[info[r]] # "none"
        BY <1>1, <1>2, <3>1 DEF Used, Clean
      <4>7. sock[info[r]] \in {"none", "open", "reset", "shut", "closed"}
        BY <1>1, <4>6 DEF TypeOK
      <4>8. sock[info[r]] \in {"shut", "closed"}
        BY <2>1, <3>1, <4>3, <4>4, <4>5, <4>6, <4>7 DEF Heard, Joining, Recv, Quiet
      <4> QED BY <4>3, <4>4, <4>5, <4>8 DEF Joining
    <3>2. /\ mode' = mode /\ info' = info /\ heirs' = heirs /\ sock' = sock /\ workAt' = workAt /\ io' = io
               /\ send' = send
          /\ authAt' = authAt /\ auth' = auth /\ logout' = logout /\ sendAt' = sendAt
      BY <1>5
    <3>3. ioCount[workAt[w]] = 1 /\ work'[w] = "log" /\ \A v \in Workers : v # w => work'[v] = work[v]
      BY <1>4, <1>7
    <3>4. Clean(r)' <=> Clean(r)
      BY <3>2 DEF Clean
    <3>5. CASE r = workAt[w]
      <4>1. Clean(r) => Over(r)'
        BY <3>1, <3>2, <3>3, <3>5 DEF Over, Joining, Quiet
      <4> QED BY <2>1, <3>2, <3>4, <4>1 DEF Ended
    <3>6. CASE r # workAt[w]
      <4>1. Over(r) => Over(r)'
        BY <3>2, <3>3, <3>6 DEF Over, Joining, Quiet
      <4> QED BY <2>1, <3>2, <3>3, <3>4, <3>6, <4>1 DEF Ended
    <3> QED BY <3>5, <3>6
  <2> QED BY <2>2, <2>3, <2>4, <2>5, <2>6, <2>7 DEF SlotInv
<1> QED BY <1>8, <1>9, <1>10, <1>11, <1>12, <1>13, <1>14 DEF IInv

LEMMA WorkDecOneStep ==
  ASSUME ConstantsOK, IInv, NEW w \in Workers, WorkDec(w), ioCount[workAt[w]] # 1
  PROVE  IInv'
<1>1. /\ TypeOK /\ ThreadInv /\ Bounded /\ GameLeft /\ Used /\ Steps /\ Counted /\ Indexed
      /\ \A r \in Slots : IOAt(r) /\ SlotInv(r)
  BY DEF IInv
<1>2. /\ {authAt, blank, gameAt, sendAt} \subseteq Slots \cup {NoSlot} /\ NoSlot \notin Slots /\ NoConn \notin Conns
      /\ workAt \in [Workers -> Slots \cup {NoSlot}]
      /\ \A r \in Slots : (mode[r] # "NONE" <=> info[r] # NoConn) /\ (mode[r] # "NONE" <=> info[r] \in Conns)
      /\ \A r \in Slots : IONat(r)
  BY <1>1, StateTypes
<1>3. /\ workAt[w] \in Slots /\ IOAt(workAt[w]) /\ OneSend(workAt[w]) /\ Empty(workAt[w]) /\ Told(workAt[w])
           /\ Own(workAt[w])
      /\ Alone(workAt[w]) /\ OneRecv(workAt[w]) /\ Fresh(workAt[w]) /\ Heard(workAt[w]) /\ Ended(workAt[w])
  <2>1. workAt[w] \in Slots
    BY <1>1, <1>2 DEF WorkDec, DecIO, Work, ThreadInv
  <2> QED BY <1>1, <2>1 DEF SlotInv
<1>4. work[w] = "dec" /\ ioCount[workAt[w]] > 0
  <2>1. work[w] = "dec"
    BY <1>1, <1>2, <1>3 DEF WorkDec, DecIO, Work, Steps, Used
  <2>2. Cardinality(Handled(workAt, work, workAt[w])) > 0
    <3>1. w \in Workers /\ work[w] # "log"
      BY <2>1
    <3> QED BY <3>1, ConstantsOK, WorkNat
  <2>3. IONat(workAt[w])
    BY <1>2, <1>3
  <2> QED BY <1>3, <2>1, <2>2, <2>3 DEF IOAt, IONat, One
<1>5. UNCHANGED <<sock, queue, mode, info, toGame, inbox, free, authCount, gameCount, total, told,
        sendQ, sending, sendCount, io, left, logout, stuck, auth, authAt, blank, game, gameAt, send,
        sendAt, toSend, heirs, taken, down>>
  BY DEF WorkDec, DecIO, Work, authT, conns, flow, gameT, got, sendT
<1>6. /\ ioCount' = [ioCount EXCEPT ![workAt[w]] = ioCount[workAt[w]] - 1]
      /\ work' = [work EXCEPT ![w] = "idle"]
      /\ workAt' = [workAt EXCEPT ![w] = NoSlot]
  BY DEF WorkDec, DecIO, Work
<1>7. /\ ioCount'[workAt[w]] = (ioCount[workAt[w]] - 1) /\ \A x \in Slots : x # workAt[w]
           => ioCount'[x] = ioCount[x]
      /\ work'[w] = "idle" /\ \A x \in Workers : x # w => work'[x] = work[x]
      /\ workAt'[w] = NoSlot /\ \A x \in Workers : x # w => workAt'[x] = workAt[x]
  BY <1>1, <1>2, <1>3, <1>4, <1>6 DEF WorkDec, DecIO, Work, TypeOK
<1>8. TypeOK'
  <2>1. ioCount' \in [Slots -> Nat]
    <3>1. ioCount \in [Slots -> Nat]
      BY <1>1 DEF TypeOK
    <3>2. workAt[w] \in Slots /\ ioCount[workAt[w]] > 0
      BY <1>3, <1>4
    <3>3. ioCount[workAt[w]] - 1 \in Nat
      BY <3>1, <3>2
    <3>4. ioCount' = [ioCount EXCEPT ![workAt[w]] = ioCount[workAt[w]] - 1]
      BY <1>6
    <3> QED BY <3>1, <3>3, <3>4
  <2>2. work' \in [Workers -> {"idle", "recv", "unsend", "dec", "log"}]
    BY <1>1, <1>2, <1>3, <1>4, <1>6 DEF TypeOK
  <2>3. workAt' \in [Workers -> Slots \cup {NoSlot}]
    BY <1>1, <1>2, <1>3, <1>4, <1>6 DEF TypeOK
  <2> QED BY <1>1, <1>5, <2>1, <2>2, <2>3 DEF TypeOK
<1>9. Bounded' /\ GameLeft' /\ Used'
  BY <1>1, <1>5 DEF Bounded, GameLeft, Used
<1>10. Steps' /\ Indexed'
  BY <1>1, <1>5 DEF Steps, Indexed
<1>11. Counted'
  BY <1>1, <1>5 DEF Counted
<1>12. ThreadInv'
  <2>1. \A v \in Workers : v # w => ((work'[v] = "idle") <=> (workAt'[v] = NoSlot))
    BY <1>1, <1>5, <1>7 DEF ThreadInv
  <2>2. (work'[w] = "idle") <=> (workAt'[w] = NoSlot)
    BY <1>1, <1>2, <1>3, <1>4, <1>5, <1>7 DEF ThreadInv
  <2> QED BY <1>1, <1>5, <2>1, <2>2 DEF ThreadInv
<1>13. ASSUME NEW r \in Slots PROVE IOAt(r)'
  <2>1. \A v \in Workers : v # w => workAt'[v] = workAt[v] /\ work'[v] = work[v]
    BY <1>5, <1>7
  <2>2. /\ NoSlot # r
        /\ work[w] = "dec" /\ (work[w] = "idle" <=> workAt[w] = NoSlot)
        /\ work'[w] = "idle" /\ workAt'[w] = NoSlot
    BY <1>1, <1>2, <1>4, <1>5, <1>7 DEF ThreadInv
  <2>3. /\ Cardinality(Handled(workAt', work', r))
             = Cardinality(Handled(workAt, work, r)) - (IF r = workAt[w] THEN 1 ELSE 0)
        /\ Cardinality(Recving(workAt', work', r)) = Cardinality(Recving(workAt, work, r))
    BY <2>1, <2>2, ConstantsOK, WorkStepped, WorkNat
  <2>5. Pending(r)' = Pending(r)
    BY <1>5 DEF Pending
  <2>6. IOAt(r) /\ IONat(r)
    BY <1>1, <1>2
  <2>7. ioCount'[r] = Pending(r)' + Cardinality(Handled(workAt', work', r)) + Cardinality(Recving(workAt', work', r))
                     + One(sendAt' = r /\ send' \in {"peek", "post", "fail"}) + One(authAt' = r /\ auth' = "join")
    <3>1. /\ NoSlot \notin Slots /\ auth' = auth /\ authAt' = authAt /\ send' = send /\ sendAt' = sendAt
          /\ work[w] = "dec" /\ work'[w] = "idle" /\ workAt'[w] = NoSlot
          /\ r = workAt[w] => ioCount'[r] = ioCount[r] - 1
          /\ r # workAt[w] => ioCount'[r] = ioCount[r]
      BY <1>2, <1>4, <1>5, <1>7
    <3> QED BY <1>1, <1>3, <2>3, <2>5, <2>6, <3>1 DEF ThreadInv, IOAt, IONat, One
  <2> QED BY <2>7 DEF IOAt, Handled, Recving, One
<1>14. ASSUME NEW r \in Slots PROVE SlotInv(r)'
  <2>1. OneSend(r) /\ Empty(r) /\ Told(r) /\ Own(r) /\ Alone(r) /\ OneRecv(r) /\ Fresh(r) /\ Heard(r) /\ Ended(r)
    BY <1>1 DEF SlotInv
  <2>2. Empty(r)' /\ Told(r)' /\ Own(r)' /\ Alone(r)'
    BY <1>5, <2>1 DEF Empty, Told, Own, Alone, Clean
  <2>3. OneSend(r)'
    BY <1>1, <1>2, <1>3, <1>4, <1>5, <1>7, <2>1 DEF OneSend, Sent
  <2>4. OneRecv(r)'
    BY <1>1, <1>2, <1>3, <1>4, <1>5, <1>7, <2>1 DEF OneRecv, Clean, Recv
  <2>5. Fresh(r)'
    BY <1>1, <1>2, <1>3, <1>4, <1>5, <1>7, <2>1 DEF Fresh, Clean, Joining, Posting, Quiet
  <2>6. Heard(r)'
    BY <1>1, <1>2, <1>3, <1>4, <1>5, <1>7, <2>1 DEF Heard, Clean, Joining, Recv
  <2>7. Ended(r)'
    BY <1>1, <1>2, <1>3, <1>4, <1>5, <1>7, <2>1 DEF Ended, Clean, Over, Quiet, Joining
  <2> QED BY <2>2, <2>3, <2>4, <2>5, <2>6, <2>7 DEF SlotInv
<1> QED BY <1>8, <1>9, <1>10, <1>11, <1>12, <1>13, <1>14 DEF IInv

LEMMA WorkLogStep ==
  ASSUME ConstantsOK, IInv, NEW w \in Workers, WorkLog(w)
  PROVE  IInv'
<1>1. /\ TypeOK /\ ThreadInv /\ Bounded /\ GameLeft /\ Used /\ Steps /\ Counted /\ Indexed
      /\ \A r \in Slots : IOAt(r) /\ SlotInv(r)
  BY DEF IInv
<1>2. /\ {authAt, blank, gameAt, sendAt} \subseteq Slots \cup {NoSlot} /\ NoSlot \notin Slots /\ NoConn \notin Conns
      /\ workAt \in [Workers -> Slots \cup {NoSlot}]
      /\ \A r \in Slots : (mode[r] # "NONE" <=> info[r] # NoConn) /\ (mode[r] # "NONE" <=> info[r] \in Conns)
      /\ \A r \in Slots : IONat(r)
  BY <1>1, StateTypes
<1>3. /\ workAt[w] \in Slots /\ IOAt(workAt[w]) /\ OneSend(workAt[w]) /\ Empty(workAt[w]) /\ Told(workAt[w])
           /\ Own(workAt[w])
      /\ Alone(workAt[w]) /\ OneRecv(workAt[w]) /\ Fresh(workAt[w]) /\ Heard(workAt[w]) /\ Ended(workAt[w])
  <2>1. workAt[w] \in Slots
    BY <1>1, <1>2 DEF WorkLog, Work, ThreadInv
  <2> QED BY <1>1, <2>1 DEF SlotInv
<1>4. work[w] = "log"
  BY <1>1, <1>2, <1>3 DEF WorkLog, Work, Steps, Used, ThreadInv
<1>5. UNCHANGED <<sock, queue, mode, info, toGame, inbox, free, authCount, gameCount, total, told,
        sendQ, sending, sendCount, ioCount, io, left, stuck, auth, authAt, blank, game, gameAt, send,
        sendAt, toSend, heirs, taken, down>>
  BY DEF WorkLog, Work, authT, conns, flow, gameT, got, sendT
<1>6. /\ logout' = [logout EXCEPT ![workAt[w]] = TRUE]
      /\ work' = [work EXCEPT ![w] = "idle"]
      /\ workAt' = [workAt EXCEPT ![w] = NoSlot]
  BY DEF WorkLog, Work
<1>7. /\ logout'[workAt[w]] = TRUE /\ \A x \in Slots : x # workAt[w] => logout'[x] = logout[x]
      /\ work'[w] = "idle" /\ \A x \in Workers : x # w => work'[x] = work[x]
      /\ workAt'[w] = NoSlot /\ \A x \in Workers : x # w => workAt'[x] = workAt[x]
  BY <1>1, <1>2, <1>3, <1>4, <1>6 DEF WorkLog, Work, TypeOK
<1>8. TypeOK'
  <2>1. logout' \in [Slots -> BOOLEAN]
    BY <1>1, <1>2, <1>3, <1>4, <1>6 DEF TypeOK
  <2>2. work' \in [Workers -> {"idle", "recv", "unsend", "dec", "log"}]
    BY <1>1, <1>2, <1>3, <1>4, <1>6 DEF TypeOK
  <2>3. workAt' \in [Workers -> Slots \cup {NoSlot}]
    BY <1>1, <1>2, <1>3, <1>4, <1>6 DEF TypeOK
  <2> QED BY <1>1, <1>5, <2>1, <2>2, <2>3 DEF TypeOK
<1>9. Bounded' /\ GameLeft' /\ Used'
  BY <1>1, <1>5 DEF Bounded, GameLeft, Used
<1>10. Indexed'
  BY <1>1, <1>5 DEF Indexed
<1>11. Counted'
  BY <1>1, <1>5 DEF Counted
<1>12. ThreadInv'
  <2>1. \A v \in Workers : v # w => ((work'[v] = "idle") <=> (workAt'[v] = NoSlot))
    BY <1>1, <1>5, <1>7 DEF ThreadInv
  <2>2. (work'[w] = "idle") <=> (workAt'[w] = NoSlot)
    BY <1>1, <1>2, <1>3, <1>4, <1>5, <1>7 DEF ThreadInv
  <2> QED BY <1>1, <1>5, <2>1, <2>2 DEF ThreadInv
<1>13. Steps'
  BY <1>1, <1>2, <1>3, <1>4, <1>5, <1>7 DEF Steps, ThreadInv
<1>14. ASSUME NEW r \in Slots PROVE IOAt(r)'
  <2>1. \A v \in Workers : v # w => workAt'[v] = workAt[v] /\ work'[v] = work[v]
    BY <1>5, <1>7
  <2>2. /\ NoSlot # r
        /\ work[w] = "log" /\ (work[w] = "idle" <=> workAt[w] = NoSlot)
        /\ work'[w] = "idle" /\ workAt'[w] = NoSlot
    BY <1>1, <1>2, <1>4, <1>5, <1>7 DEF ThreadInv
  <2>3. /\ Cardinality(Handled(workAt', work', r)) = Cardinality(Handled(workAt, work, r))
        /\ Cardinality(Recving(workAt', work', r)) = Cardinality(Recving(workAt, work, r))
    BY <2>1, <2>2, ConstantsOK, WorkStepped, WorkNat
  <2>5. Pending(r)' = Pending(r)
    BY <1>5 DEF Pending
  <2>6. IOAt(r) /\ IONat(r)
    BY <1>1, <1>2
  <2>7. ioCount'[r] = Pending(r)' + Cardinality(Handled(workAt', work', r)) + Cardinality(Recving(workAt', work', r))
                     + One(sendAt' = r /\ send' \in {"peek", "post", "fail"}) + One(authAt' = r /\ auth' = "join")
    <3>1. /\ NoSlot \notin Slots /\ auth' = auth /\ authAt' = authAt /\ send' = send /\ sendAt' = sendAt
          /\ work[w] = "log" /\ work'[w] = "idle" /\ workAt'[w] = NoSlot /\ ioCount'[r] = ioCount[r]
      BY <1>2, <1>4, <1>5, <1>7
    <3> QED BY <1>1, <1>3, <2>3, <2>5, <2>6, <3>1 DEF ThreadInv, IOAt, IONat, One
  <2> QED BY <2>7 DEF IOAt, Handled, Recving, One
<1>15. ASSUME NEW r \in Slots PROVE SlotInv(r)'
  <2>1. OneSend(r) /\ Empty(r) /\ Told(r) /\ Own(r) /\ Alone(r) /\ OneRecv(r) /\ Fresh(r) /\ Heard(r) /\ Ended(r)
    BY <1>1 DEF SlotInv
  <2>2. Empty(r)' /\ Told(r)' /\ Own(r)' /\ Alone(r)'
    BY <1>5, <2>1 DEF Empty, Told, Own, Alone, Clean
  <2>3. OneSend(r)'
    BY <1>1, <1>2, <1>3, <1>4, <1>5, <1>7, <2>1 DEF OneSend, Sent
  <2>4. OneRecv(r)'
    BY <1>1, <1>2, <1>3, <1>4, <1>5, <1>7, <2>1 DEF OneRecv, Clean, Recv
  <2>5. Fresh(r)'
    BY <1>1, <1>2, <1>3, <1>4, <1>5, <1>7, <2>1 DEF Fresh, Clean, Joining, Posting, Quiet
  <2>6. Heard(r)'
    BY <1>1, <1>2, <1>3, <1>4, <1>5, <1>7, <2>1 DEF Heard, Clean, Joining, Recv
  <2>7. Ended(r)'
    BY <1>1, <1>2, <1>3, <1>4, <1>5, <1>7, <2>1 DEF Ended, Clean, Over, Quiet, Joining
  <2> QED BY <2>2, <2>3, <2>4, <2>5, <2>6, <2>7 DEF SlotInv
<1> QED BY <1>8, <1>9, <1>10, <1>11, <1>12, <1>13, <1>14, <1>15 DEF IInv

LEMMA CrashStep ==
  ASSUME ConstantsOK, IInv, Crash
  PROVE  IInv'
<1>1. /\ TypeOK /\ ThreadInv /\ Bounded /\ GameLeft /\ Used /\ Steps /\ Counted /\ Indexed
      /\ \A r \in Slots : IOAt(r) /\ SlotInv(r)
  BY DEF IInv
<1>2. /\ {authAt, blank, gameAt, sendAt} \subseteq Slots \cup {NoSlot} /\ NoSlot \notin Slots /\ NoConn \notin Conns
      /\ \A r \in Slots : (mode[r] # "NONE" <=> info[r] # NoConn) /\ (mode[r] # "NONE" <=> info[r] \in Conns)
  BY <1>1, StateTypes
<1>5. UNCHANGED <<sock, queue, mode, info, toGame, inbox, free, authCount, gameCount, total, told,
        sendQ, sending, sendCount, ioCount, io, left, logout, stuck, auth, authAt, blank, game,
        gameAt, send, sendAt, toSend, work, workAt, heirs, taken>>
  BY DEF Crash, authT, conns, flow, gameT, got, lines, sendT, workT
<1>7. down' = TRUE
  BY <1>1, <1>2 DEF Crash, TypeOK
<1>8. TypeOK'
  <2>1. down' \in BOOLEAN
    BY <1>1, <1>2, <1>7 DEF TypeOK
  <2> QED BY <1>1, <1>5, <2>1 DEF TypeOK
<1>9. ThreadInv' /\ Bounded'
  BY <1>1, <1>5 DEF ThreadInv, Bounded
<1>10. GameLeft' /\ Used'
  BY <1>1, <1>5 DEF GameLeft, Used
<1>11. Steps' /\ Indexed'
  BY <1>1, <1>5 DEF Steps, Indexed
<1>12. Counted'
  BY <1>1, <1>5 DEF Counted
<1>13. ASSUME NEW r \in Slots PROVE IOAt(r)'
  <2>1. /\ Pending(r)' = Pending(r) /\ Handled(workAt', work', r) = Handled(workAt, work, r)
        /\ Recving(workAt', work', r) = Recving(workAt, work, r)
    BY <1>5 DEF Pending
  <2>2. IOAt(r)
    BY <1>1
  <2> QED BY <1>5, <2>1, <2>2 DEF IOAt, Handled, Recving, One
<1>14. ASSUME NEW r \in Slots PROVE SlotInv(r)'
  <2>1. OneSend(r) /\ Empty(r) /\ Told(r) /\ Own(r) /\ Alone(r) /\ OneRecv(r) /\ Fresh(r) /\ Heard(r) /\ Ended(r)
    BY <1>1 DEF SlotInv
  <2>2. OneSend(r)' /\ Empty(r)' /\ Told(r)' /\ Own(r)'
    BY <1>5, <2>1 DEF OneSend, Sent, Empty, Told, Own
  <2>3. Alone(r)' /\ OneRecv(r)' /\ Fresh(r)' /\ Heard(r)' /\ Ended(r)'
    BY <1>5, <2>1 DEF Alone, Clean, OneRecv, Recv, Fresh, Joining, Posting, Quiet, Heard, Ended, Over
  <2> QED BY <2>2, <2>3 DEF SlotInv
<1> QED BY <1>8, <1>9, <1>10, <1>11, <1>12, <1>13, <1>14 DEF IInv

LEMMA AuthAcceptFreeStep ==
  ASSUME ConstantsOK, IInv, NEW s \in Slots, NEW c \in Conns, AuthAccept, free # <<>>,
         c = Head(queue), s = Head(free), TakeIndex(c, s, Tail(free))
  PROVE  IInv'
<1>1. /\ TypeOK /\ ThreadInv /\ Bounded /\ GameLeft /\ Used /\ Steps /\ Counted /\ Indexed
      /\ \A r \in Slots : IOAt(r) /\ SlotInv(r)
  BY DEF IInv
<1>2. /\ {authAt, blank, gameAt, sendAt} \subseteq Slots \cup {NoSlot} /\ NoSlot \notin Slots /\ NoConn \notin Conns
      /\ workAt \in [Workers -> Slots \cup {NoSlot}]
      /\ (\A i \in DOMAIN queue : queue[i] \in Conns) /\ (\A i \in DOMAIN free : free[i] \in Slots)
      /\ \A r \in Slots : (mode[r] # "NONE" <=> info[r] # NoConn) /\ (mode[r] # "NONE" <=> info[r] \in Conns)
      /\ \A r \in Slots : io[r]["recv"] \in Nat /\ io[r]["send"] \in Nat /\ left[r]["recv"] \in Nat
           /\ left[r]["send"] \in Nat
      /\ \A r \in Slots : IONat(r)
  BY <1>1, StateTypes
<1>3. /\ s \in Slots /\ IOAt(s) /\ OneSend(s) /\ Empty(s) /\ Told(s) /\ Own(s)
      /\ Alone(s) /\ OneRecv(s) /\ Fresh(s) /\ Heard(s) /\ Ended(s)
  BY <1>1 DEF SlotInv
<1>4. /\ auth \in {"idle", "more"}
      /\ queue # <<>>
      /\ c = Head(queue)
      /\ mode[s] = "NONE"
      /\ s # gameAt
      /\ sendQ[s] = <<>>
      /\ sock[c] # "none"
      /\ told[c] = {}
      /\ \A x \in Slots : info[x] # c
  <2>1. auth \in {"idle", "more"} /\ queue # <<>> /\ c = Head(queue)
    BY DEF AuthAccept
  <2>2. queue \in Seq(Conns) /\ free \in Seq(Slots)
    BY <1>1 DEF TypeOK
  <2>3. 1 \in DOMAIN queue /\ c = queue[1]
    BY <2>1, <2>2, TailOf
  <2>4. sock[c] # "none" /\ told[c] = {} /\ \A x \in Slots : info[x] # c
    BY <1>1, <2>3 DEF Used
  <2>5. 1 \in DOMAIN free /\ s = free[1]
    BY <2>2, TailOf
  <2>6. mode[s] = "NONE" /\ s # gameAt /\ sendQ[s] = <<>>
    BY <1>1, <1>3, <2>5 DEF Indexed, Empty
  <2> QED BY <2>1, <2>4, <2>6
<1>5. UNCHANGED <<sock, toGame, inbox, authCount, gameCount, total, told, sendQ, sending, ioCount,
        logout, stuck, game, gameAt, send, sendAt, toSend, work, workAt, down>>
  BY DEF AuthAccept, Auth, TakeIndex, SetMode, Leave, gameT, got, sendT, workT
<1>6. /\ mode' = [mode EXCEPT ![s] = "AUTH"]
      /\ info' = [info EXCEPT ![s] = c]
      /\ sendCount' = [sendCount EXCEPT ![s] = 0]
  BY DEF AuthAccept, Auth, TakeIndex, SetMode, Leave
<1>7. /\ mode'[s] = "AUTH" /\ \A x \in Slots : x # s => mode'[x] = mode[x]
      /\ info'[s] = c /\ \A x \in Slots : x # s => info'[x] = info[x]
      /\ sendCount'[s] = 0 /\ \A x \in Slots : x # s => sendCount'[x] = sendCount[x]
      /\ blank' = s
      /\ queue' = Tail(queue)
      /\ heirs' = IF InUse(s) THEN heirs \cup {c} ELSE heirs
      /\ taken' = taken
      /\ auth' = "count"
      /\ authAt' = s
      /\ free' = Tail(free)
  BY <1>1, <1>2, <1>3, <1>4, <1>6 DEF AuthAccept, Auth, TakeIndex, SetMode, Leave, TypeOK
<1>8. /\ io' \in [Slots -> [Kinds -> Nat]] /\ left' \in [Slots -> [Kinds -> Nat]]
      /\ io'[s]["recv"] = 0 /\ io'[s]["send"] = 0
      /\ left'[s]["recv"] = left[s]["recv"] + io[s]["recv"]
      /\ left'[s]["send"] = left[s]["send"] + io[s]["send"]
      /\ \A x \in Slots : x # s => io'[x] = io[x] /\ left'[x] = left[x]
  <2>1. Leave(s)
    BY DEF AuthAccept, Auth, TakeIndex, SetMode, Leave
  <2>2. "recv" \in Kinds /\ "send" \in Kinds
    BY DEF Kinds
  <2> QED BY <1>1, <1>3, <2>1, <2>2, LeftBehind
<1>9. \A x \in Slots : Clean(x)' => (x # s /\ Clean(x)) \/ (x = s /\ ~InUse(s))
  BY <1>1, <1>2, <1>3, <1>4, <1>5, <1>7 DEF Clean
<1>10. TypeOK'
  <2>1. mode' \in [Slots -> Modes]
    BY <1>1, <1>2, <1>3, <1>4, <1>6, <1>8 DEF TypeOK, Modes
  <2>2. info' \in [Slots -> Conns \cup {NoConn}]
    BY <1>1, <1>2, <1>3, <1>4, <1>6, <1>8 DEF TypeOK
  <2>3. sendCount' \in [Slots -> 0..MaxOut]
    BY <1>1, <1>2, <1>3, <1>4, <1>6, <1>8, ConstantsOK DEF TypeOK, ConstantsOK
  <2>4. blank' \in Slots \cup {NoSlot}
    BY <1>1, <1>2, <1>3, <1>4, <1>7, <1>8 DEF TypeOK
  <2>5. queue' \in Seq(Conns)
    <3>1. queue \in Seq(Conns) /\ queue' = Tail(queue) /\ queue # <<>>
      BY <1>1, <1>4, <1>7 DEF TypeOK
    <3> QED BY <3>1, TailOf
  <2>6. heirs' \in SUBSET Conns
    BY <1>1, <1>2, <1>3, <1>4, <1>7, <1>8 DEF TypeOK
  <2>7. taken' \in Nat
    BY <1>1, <1>2, <1>3, <1>4, <1>7, <1>8 DEF TypeOK
  <2>8. auth' \in {"idle", "count", "join", "more", "out", "beat"}
    BY <1>1, <1>2, <1>3, <1>4, <1>7, <1>8 DEF TypeOK
  <2>9. authAt' \in Slots \cup {NoSlot}
    BY <1>1, <1>2, <1>3, <1>4, <1>7, <1>8 DEF TypeOK
  <2>10. free' \in Seq(Slots)
    <3>1. free \in Seq(Slots) /\ free' = Tail(free)
      BY <1>1, <1>7 DEF TypeOK
    <3> QED BY <3>1, TailOf
  <2>11. io' \in [Slots -> [Kinds -> Nat]]
    BY <1>8
  <2>12. left' \in [Slots -> [Kinds -> Nat]]
    BY <1>8
  <2>13. {io', left'} \subseteq [Slots -> [Kinds -> Nat]]
    BY <2>11, <2>12
  <2>14. {authAt', blank', gameAt', sendAt'} \subseteq Slots \cup {NoSlot}
    BY <1>2, <1>5, <2>1, <2>2, <2>3, <2>4, <2>5, <2>6, <2>7, <2>8, <2>9, <2>10, <2>11, <2>12, <2>13
  <2> QED BY <1>1, <1>5, <2>1, <2>2, <2>3, <2>4, <2>5, <2>6, <2>7, <2>8, <2>9, <2>10, <2>11, <2>12,
     <2>13, <2>14 DEF TypeOK
<1>11. Bounded' /\ GameLeft'
  BY <1>1, <1>5 DEF Bounded, GameLeft
<1>12. ThreadInv'
  BY <1>1, <1>2, <1>3, <1>4, <1>5, <1>7, <1>8 DEF ThreadInv
<1>13. Used'
  <2>1. queue \in Seq(Conns) /\ queue' = Tail(queue) /\ queue # <<>>
    BY <1>1, <1>4, <1>7 DEF TypeOK
  <2>2. /\ 1 \in DOMAIN queue /\ c = queue[1]
        /\ \A i \in DOMAIN queue' : i + 1 \in DOMAIN queue /\ i + 1 # 1 /\ i \in Int /\ queue'[i] = queue[i + 1]
    BY <1>4, <2>1, TailOf
  <2>3. \A i \in DOMAIN queue' : queue'[i] # c
    BY <1>1, <2>2 DEF Used
  <2>4. \A i, j \in DOMAIN queue' : queue'[i] = queue'[j] => i = j
    <3>1. ASSUME NEW i \in DOMAIN queue', NEW j \in DOMAIN queue', queue'[i] = queue'[j] PROVE i = j
      <4>1. i + 1 = j + 1
        BY <1>1, <2>2, <3>1 DEF Used
      <4> QED BY <2>2, <4>1
    <3> QED BY <3>1
  <2>5. info'[s] = c /\ (\A x \in Slots : x # s => info'[x] = info[x] /\ mode'[x] = mode[x]) /\ sock' = sock
            /\ told' = told
    BY <1>5, <1>7
  <2>6. \A x \in Slots : mode'[x] # "NONE" => info'[x] \in Conns /\ sock'[info'[x]] # "none"
    BY <1>1, <1>4, <2>5 DEF Used
  <2>7. \A i \in DOMAIN queue' : sock'[queue'[i]] # "none" /\ told'[queue'[i]] = {}
            /\ \A x \in Slots : info'[x] # queue'[i]
    BY <1>1, <2>2, <2>3, <2>5 DEF Used
  <2>8. \A x, y \in Slots : info'[x] = info'[y] /\ info'[x] # NoConn => x = y
    BY <1>1, <1>4, <2>5 DEF Used
  <2>9. \A x \in heirs' : sock'[x] # "none" /\ \A i \in DOMAIN queue' : queue'[i] # x
    <3>1. ASSUME NEW x \in heirs PROVE sock[x] # "none" /\ \A i \in DOMAIN queue' : queue'[i] # x
      BY <1>1, <2>2 DEF Used
    <3>2. sock[c] # "none" /\ \A x \in heirs' : x \in heirs \/ x = c
      BY <1>4, <1>7
    <3> QED BY <2>3, <2>5, <3>1, <3>2
  <2>10. \A x \in Conns : sock'[x] = "none" => told'[x] = {}
    BY <1>1, <2>5 DEF Used
  <2> QED BY <2>4, <2>6, <2>7, <2>8, <2>9, <2>10 DEF Used
<1>14. Steps'
  BY <1>1, <1>2, <1>3, <1>4, <1>5, <1>7, <1>8 DEF Steps, ThreadInv
<1>15. Counted'
  <2>1. ASSUME NEW ms
        PROVE  /\ Cardinality(In(mode, ms)) \in Nat
               /\ mode'[s] \in ms /\ ~(mode[s] \in ms) => Cardinality(In(mode', ms)) = Cardinality(In(mode, ms)) + 1
               /\ mode[s] \in ms /\ ~(mode'[s] \in ms) => Cardinality(In(mode', ms)) = Cardinality(In(mode, ms)) - 1
               /\ mode'[s] \in ms /\ mode[s] \in ms => Cardinality(In(mode', ms)) = Cardinality(In(mode, ms))
               /\ ~(mode'[s] \in ms) /\ ~(mode[s] \in ms) => Cardinality(In(mode', ms)) = Cardinality(In(mode, ms))
    BY <1>3, <1>7, ConstantsOK, ModeStep
  <2>2. /\ (mode'[s] \in AuthModes <=> TRUE) /\ (mode[s] \in AuthModes <=> FALSE)
        /\ (mode'[s] \in GameModes <=> FALSE) /\ (mode[s] \in GameModes <=> FALSE)
        /\ (mode'[s] \in SomeModes <=> TRUE) /\ (mode[s] \in SomeModes <=> FALSE)
    BY <1>4, <1>7 DEF Modes, AuthModes, GameModes, SomeModes
  <2>3. /\ Cardinality(In(mode', AuthModes)) = Cardinality(In(mode, AuthModes)) + 1
        /\ Cardinality(In(mode', GameModes)) = Cardinality(In(mode, GameModes))
        /\ Cardinality(In(mode', SomeModes)) = Cardinality(In(mode, SomeModes)) + 1
        /\ Cardinality(In(mode, AuthModes)) \in Nat
        /\ Cardinality(In(mode, GameModes)) \in Nat
        /\ Cardinality(In(mode, SomeModes)) \in Nat
    BY <2>1, <2>2
  <2>4. /\ Counted /\ authCount \in Nat /\ gameCount \in Nat /\ total \in Nat /\ taken \in Nat
        /\ auth' = "count" /\ game' = game /\ authCount' = authCount /\ gameCount' = gameCount
        /\ total' = total /\ taken' = taken /\ auth \in {"idle", "more"}
    BY <1>1, <1>4, <1>5, <1>7 DEF TypeOK
  <2>5. /\ One(auth' \in {"count", "join"}) = 1 /\ One(auth \in {"count", "join"}) = 0
        /\ One(game' = "push") = One(game = "push") /\ One(game = "push") \in Nat
    BY <2>4 DEF One
  <2>6. authCount' = Cardinality(In(mode', AuthModes)) - One(auth' \in {"count", "join"}) + taken'
    BY <2>3, <2>4, <2>5 DEF Counted
  <2>7. gameCount' = Cardinality(In(mode', GameModes))
    BY <2>3, <2>4 DEF Counted
  <2>8. total' = Cardinality(In(mode', SomeModes)) - One(auth' \in {"count", "join"}) + One(game' = "push") + taken'
    BY <2>3, <2>4, <2>5 DEF Counted
  <2> QED BY <2>6, <2>7, <2>8 DEF Counted
<1>16. Indexed'
  <2>1. free \in Seq(Slots) /\ free' = Tail(free) /\ free # <<>>
    BY <1>1, <1>7 DEF TypeOK
  <2>2. /\ 1 \in DOMAIN free /\ s = free[1]
        /\ \A i \in DOMAIN free' : i + 1 \in DOMAIN free /\ i + 1 # 1 /\ i \in Int /\ free'[i] = free[i + 1]
        /\ \A i \in DOMAIN free : i # 1 => i - 1 \in DOMAIN free' /\ free'[i - 1] = free[i]
    BY <2>1, TailOf
  <2>3. \A i \in DOMAIN free' : free'[i] # s /\ free'[i] \in Slots
    BY <1>1, <1>2, <2>2 DEF Indexed
  <2>4. \A i, j \in DOMAIN free' : free'[i] = free'[j] => i = j
    <3>1. ASSUME NEW i \in DOMAIN free', NEW j \in DOMAIN free', free'[i] = free'[j] PROVE i = j
      <4>1. i + 1 = j + 1
        BY <1>1, <2>2, <3>1 DEF Indexed
      <4> QED BY <2>2, <4>1
    <3> QED BY <3>1
  <2>5. mode'[s] = "AUTH" /\ (\A x \in Slots : x # s => mode'[x] = mode[x]) /\ gameAt' = gameAt
    BY <1>5, <1>7
  <2>6. \A i \in DOMAIN free' : mode'[free'[i]] = "NONE" /\ free'[i] # gameAt'
    BY <1>1, <2>2, <2>3, <2>5 DEF Indexed
  <2>7. ASSUME NEW x \in Slots, mode'[x] = "NONE", x # gameAt' PROVE \E i \in DOMAIN free' : free'[i] = x
    <3>1. x # s /\ mode[x] = "NONE" /\ x # gameAt
      BY <2>5, <2>7
    <3>2. PICK i \in DOMAIN free : free[i] = x
      BY <1>1, <3>1 DEF Indexed
    <3> QED BY <2>2, <3>1, <3>2
  <2> QED BY <2>4, <2>6, <2>7 DEF Indexed
<1>17. ASSUME NEW r \in Slots PROVE IOAt(r)'
  <2>3. Handled(workAt', work', r) = Handled(workAt, work, r)
            /\ Recving(workAt', work', r) = Recving(workAt, work, r)
    BY <1>5
  <2>5. Pending(r)' = Pending(r)
    <3>1. CASE r = s
      <4>1. /\ io'[r]["recv"] = 0 /\ io'[r]["send"] = 0 /\ left'[r]["recv"] = left[r]["recv"] + io[r]["recv"]
            /\ left'[r]["send"] = left[r]["send"] + io[r]["send"]
        BY <1>5, <1>8, <3>1
      <4> QED BY <1>2, <3>1, <4>1 DEF Pending
    <3>2. CASE r # s
      <4>1. io'[r] = io[r] /\ left'[r] = left[r]
        BY <1>5, <1>8, <3>2
      <4> QED BY <1>2, <3>2, <4>1 DEF Pending
    <3> QED BY <3>1, <3>2
  <2>6. IOAt(r) /\ IONat(r)
    BY <1>1, <1>2
  <2>7. ioCount'[r] = Pending(r)' + Cardinality(Handled(workAt', work', r)) + Cardinality(Recving(workAt', work', r))
                     + One(sendAt' = r /\ send' \in {"peek", "post", "fail"}) + One(authAt' = r /\ auth' = "join")
    <3>1. /\ NoSlot \notin Slots /\ auth' = "count" /\ authAt' = s /\ send' = send /\ sendAt' = sendAt
          /\ auth \in {"idle", "more"} /\ ioCount'[r] = ioCount[r]
      BY <1>2, <1>4, <1>5, <1>7
    <3> QED BY <1>1, <1>3, <2>3, <2>5, <2>6, <3>1 DEF ThreadInv, IOAt, IONat, One
  <2> QED BY <2>7 DEF IOAt, Handled, Recving, One
<1>18. ASSUME NEW r \in Slots PROVE SlotInv(r)'
  <2>1. OneSend(r) /\ Empty(r) /\ Told(r) /\ Own(r) /\ Alone(r) /\ OneRecv(r) /\ Fresh(r) /\ Heard(r) /\ Ended(r)
    BY <1>1 DEF SlotInv
  <2>2. OneSend(r)'
    <3>1. CASE r = s
      <4>1. /\ sendAt' = sendAt /\ sending' = sending /\ io'[r]["recv"] = 0 /\ io'[r]["send"] = 0
            /\ left'[r]["recv"] = left[r]["recv"] + io[r]["recv"]
            /\ left'[r]["send"] = left[r]["send"] + io[r]["send"] /\ work' = work /\ workAt' = workAt
        BY <1>5, <1>7, <3>1, <1>8
      <4>2. /\ Sent(r)' <=> Sent(r)
            /\ io'[r]["send"] + left'[r]["send"] = io[r]["send"] + left[r]["send"]
        <5>1. io[r]["send"] \in Nat /\ left[r]["send"] \in Nat
          BY <1>2
        <5>2. PICK a \in Nat, b \in Nat : a = io[r]["send"] /\ b = left[r]["send"]
          BY <5>1
        <5>3. 0 + (b + a) = a + b /\ (b + a = 0 <=> a = 0 /\ b = 0)
          BY Sums
        <5> QED BY <4>1, <5>2, <5>3 DEF Sent
      <4>3. OneSend(r)
        BY <2>1
      <4> QED BY <1>1, <1>2, <1>3, <1>4, <2>1, <3>1, <4>1, <4>2, <4>3 DEF OneSend, Sent
    <3>2. CASE r # s
      <4>1. /\ sendAt' = sendAt /\ sending' = sending /\ io'[r] = io[r] /\ left'[r] = left[r] /\ work' = work
            /\ workAt' = workAt
        BY <1>2, <1>5, <1>7, <3>2, <1>8
      <4> QED BY <1>2, <2>1, <3>2, <1>4, <4>1 DEF OneSend, Sent
    <3> QED BY <3>1, <3>2
  <2>3. Empty(r)'
    BY <1>1, <1>2, <1>3, <1>4, <1>5, <1>7, <1>8, <1>9, <2>1 DEF Empty
  <2>4. Told(r)'
    BY <1>1, <1>2, <1>3, <1>4, <1>5, <1>7, <1>8, <1>9, <2>1 DEF Told
  <2>5. Own(r)'
    <3>1. CASE r = s
      <4>1. sendQ' = sendQ /\ info'[r] = c
        BY <1>5, <1>7, <3>1
      <4> QED BY <1>1, <1>2, <1>3, <1>4, <2>1, <3>1, <4>1 DEF Own
    <3>2. CASE r # s
      <4>1. sendQ' = sendQ /\ info'[r] = info[r]
        BY <1>2, <1>5, <1>7, <3>2
      <4> QED BY <1>2, <2>1, <3>2, <1>4, <4>1 DEF Own
    <3> QED BY <3>1, <3>2
  <2>6. Alone(r)'
    <3>1. CASE r = s
      <4>1. /\ mode'[r] = "AUTH" /\ info'[r] = c /\ left'[r]["recv"] = left[r]["recv"] + io[r]["recv"]
            /\ left'[r]["send"] = left[r]["send"] + io[r]["send"]
            /\ heirs' = IF InUse(s) THEN heirs \cup {c} ELSE heirs
        BY <1>5, <1>7, <3>1, <1>8
      <4>2. Clean(r)' => /\ ~logout[s] /\ \A v \in Workers : workAt[v] # s
                         /\ ~(sendAt = s /\ send \in {"size", "inc", "peek", "post", "fail", "log"})
                         /\ io[s] = NoIO /\ left[s] = NoIO
        BY <3>1, <1>9 DEF InUse, Inside
      <4>3. /\ io[s] = NoIO => io[s]["recv"] = 0 /\ io[s]["send"] = 0
            /\ left[s] = NoIO => left[s]["recv"] = 0 /\ left[s]["send"] = 0
        BY <1>1, <1>3, NoRequests DEF TypeOK
      <4>4. Clean(r)' => left'[r]["recv"] = 0 /\ left'[r]["send"] = 0
        BY <3>1, <4>1, <4>2, <4>3
      <4> QED BY <4>4 DEF Alone
    <3>2. CASE r # s
      <4>1. /\ mode'[r] = mode[r] /\ info'[r] = info[r] /\ left'[r] = left[r]
            /\ heirs' = IF InUse(s) THEN heirs \cup {c} ELSE heirs
        BY <1>2, <1>5, <1>7, <3>2, <1>8
      <4> QED BY <1>2, <2>1, <3>2, <1>4, <1>9, <4>1 DEF Alone, Clean
    <3> QED BY <3>1, <3>2
  <2>7. OneRecv(r)'
    <3>1. CASE r = s
      <4>1. /\ mode'[r] = "AUTH" /\ info'[r] = c /\ io'[r]["recv"] = 0 /\ io'[r]["send"] = 0 /\ work' = work
            /\ workAt' = workAt
            /\ heirs' = IF InUse(s) THEN heirs \cup {c} ELSE heirs
        BY <1>5, <1>7, <3>1, <1>8
      <4>2. Clean(r)' => /\ ~logout[s] /\ \A v \in Workers : workAt[v] # s
                         /\ ~(sendAt = s /\ send \in {"size", "inc", "peek", "post", "fail", "log"})
                         /\ io[s] = NoIO /\ left[s] = NoIO
        BY <3>1, <1>9 DEF InUse, Inside
      <4>3. /\ io[s] = NoIO => io[s]["recv"] = 0 /\ io[s]["send"] = 0
            /\ left[s] = NoIO => left[s]["recv"] = 0 /\ left[s]["send"] = 0
        BY <1>1, <1>3, NoRequests DEF TypeOK
      <4> QED BY <1>1, <1>2, <1>3, <1>4, <2>1, <3>1, <1>9, <4>1, <4>2, <4>3 DEF OneRecv, Clean, Recv
    <3>2. CASE r # s
      <4>1. /\ mode'[r] = mode[r] /\ info'[r] = info[r] /\ io'[r] = io[r] /\ work' = work /\ workAt' = workAt
            /\ heirs' = IF InUse(s) THEN heirs \cup {c} ELSE heirs
        BY <1>2, <1>5, <1>7, <3>2, <1>8
      <4> QED BY <1>2, <2>1, <3>2, <1>4, <1>9, <4>1 DEF OneRecv, Clean, Recv
    <3> QED BY <3>1, <3>2
  <2>8. Fresh(r)'
    <3>1. CASE r = s
      <4>1. /\ mode'[r] = "AUTH" /\ info'[r] = c /\ authAt' = s /\ auth' = "count" /\ io'[r]["recv"] = 0
            /\ io'[r]["send"] = 0 /\ sendQ' = sendQ /\ logout' = logout /\ workAt' = workAt
            /\ sendAt' = sendAt /\ send' = send
            /\ heirs' = IF InUse(s) THEN heirs \cup {c} ELSE heirs
        BY <1>5, <1>7, <3>1, <1>8
      <4>2. Clean(r)' => /\ ~logout[s] /\ \A v \in Workers : workAt[v] # s
                         /\ ~(sendAt = s /\ send \in {"size", "inc", "peek", "post", "fail", "log"})
                         /\ io[s] = NoIO /\ left[s] = NoIO
        BY <3>1, <1>9 DEF InUse, Inside
      <4>3. /\ io[s] = NoIO => io[s]["recv"] = 0 /\ io[s]["send"] = 0
            /\ left[s] = NoIO => left[s]["recv"] = 0 /\ left[s]["send"] = 0
        BY <1>1, <1>3, NoRequests DEF TypeOK
      <4> QED BY <1>1, <1>2, <1>3, <1>4, <2>1, <3>1, <1>9, <4>1, <4>2, <4>3 DEF Fresh, Clean, Joining,
         Posting, Quiet
    <3>2. CASE r # s
      <4>1. /\ mode'[r] = mode[r] /\ info'[r] = info[r] /\ authAt' = s /\ auth' = "count" /\ io'[r] = io[r]
            /\ sendQ' = sendQ /\ logout' = logout /\ workAt' = workAt /\ sendAt' = sendAt /\ send' = send
            /\ heirs' = IF InUse(s) THEN heirs \cup {c} ELSE heirs
        BY <1>2, <1>5, <1>7, <3>2, <1>8
      <4> QED BY <1>2, <2>1, <3>2, <1>4, <1>9, <4>1 DEF Fresh, Clean, Joining, Posting, Quiet
    <3> QED BY <3>1, <3>2
  <2>9. Heard(r)'
    BY <1>1, <1>2, <1>3, <1>4, <1>5, <1>7, <1>8, <1>9, <2>1 DEF Heard, Clean, Joining, Recv
  <2>10. Ended(r)'
    <3>1. CASE r = s
      <4>1. /\ mode'[r] = "AUTH" /\ info'[r] = c /\ logout' = logout /\ sendAt' = sendAt /\ send' = send
            /\ work' = work /\ workAt' = workAt /\ io'[r]["recv"] = 0 /\ io'[r]["send"] = 0 /\ authAt' = s
            /\ auth' = "count" /\ sock' = sock
            /\ heirs' = IF InUse(s) THEN heirs \cup {c} ELSE heirs
        BY <1>5, <1>7, <3>1, <1>8
      <4>2. Clean(r)' => /\ ~logout[s] /\ \A v \in Workers : workAt[v] # s
                         /\ ~(sendAt = s /\ send \in {"size", "inc", "peek", "post", "fail", "log"})
                         /\ io[s] = NoIO /\ left[s] = NoIO
        BY <3>1, <1>9 DEF InUse, Inside
      <4>3. /\ io[s] = NoIO => io[s]["recv"] = 0 /\ io[s]["send"] = 0
            /\ left[s] = NoIO => left[s]["recv"] = 0 /\ left[s]["send"] = 0
        BY <1>1, <1>3, NoRequests DEF TypeOK
      <4> QED BY <1>1, <1>2, <1>3, <1>4, <2>1, <3>1, <1>9, <4>1, <4>2, <4>3 DEF Ended, Clean, Over,
         Quiet, Joining
    <3>2. CASE r # s
      <4>1. /\ mode'[r] = mode[r] /\ info'[r] = info[r] /\ logout' = logout /\ sendAt' = sendAt
            /\ send' = send /\ work' = work /\ workAt' = workAt /\ io'[r] = io[r] /\ authAt' = s
            /\ auth' = "count" /\ sock' = sock
            /\ heirs' = IF InUse(s) THEN heirs \cup {c} ELSE heirs
        BY <1>2, <1>5, <1>7, <3>2, <1>8
      <4> QED BY <1>2, <2>1, <3>2, <1>4, <1>9, <4>1 DEF Ended, Clean, Over, Quiet, Joining
    <3> QED BY <3>1, <3>2
  <2> QED BY <2>2, <2>3, <2>4, <2>5, <2>6, <2>7, <2>8, <2>9, <2>10 DEF SlotInv
<1> QED BY <1>10, <1>11, <1>12, <1>13, <1>14, <1>15, <1>16, <1>17, <1>18 DEF IInv

LEMMA AuthAcceptBlankStep ==
  ASSUME ConstantsOK, IInv, NEW s \in Slots, NEW c \in Conns, AuthAccept, free = <<>>, blank # NoSlot,
         c = Head(queue), s = blank, TakeIndex(c, s, free)
  PROVE  IInv'
<1>1. /\ TypeOK /\ ThreadInv /\ Bounded /\ GameLeft /\ Used /\ Steps /\ Counted /\ Indexed
      /\ \A r \in Slots : IOAt(r) /\ SlotInv(r)
  BY DEF IInv
<1>2. /\ {authAt, blank, gameAt, sendAt} \subseteq Slots \cup {NoSlot} /\ NoSlot \notin Slots /\ NoConn \notin Conns
      /\ workAt \in [Workers -> Slots \cup {NoSlot}]
      /\ (\A i \in DOMAIN queue : queue[i] \in Conns) /\ (\A i \in DOMAIN free : free[i] \in Slots)
      /\ \A r \in Slots : (mode[r] # "NONE" <=> info[r] # NoConn) /\ (mode[r] # "NONE" <=> info[r] \in Conns)
      /\ \A r \in Slots : io[r]["recv"] \in Nat /\ io[r]["send"] \in Nat /\ left[r]["recv"] \in Nat
           /\ left[r]["send"] \in Nat
      /\ \A r \in Slots : IONat(r)
  BY <1>1, StateTypes
<1>3. /\ s \in Slots /\ IOAt(s) /\ OneSend(s) /\ Empty(s) /\ Told(s) /\ Own(s)
      /\ Alone(s) /\ OneRecv(s) /\ Fresh(s) /\ Heard(s) /\ Ended(s)
  BY <1>1 DEF SlotInv
<1>4. /\ auth \in {"idle", "more"}
      /\ queue # <<>>
      /\ c = Head(queue)
      /\ mode[s] = "AUTH"
      /\ sendQ[s] = <<>>
      /\ sock[c] # "none"
      /\ told[c] = {}
      /\ \A x \in Slots : info[x] # c
  <2>1. auth \in {"idle", "more"} /\ queue # <<>> /\ c = Head(queue)
    BY DEF AuthAccept
  <2>2. queue \in Seq(Conns) /\ free \in Seq(Slots)
    BY <1>1 DEF TypeOK
  <2>3. 1 \in DOMAIN queue /\ c = queue[1]
    BY <2>1, <2>2, TailOf
  <2>4. sock[c] # "none" /\ told[c] = {} /\ \A x \in Slots : info[x] # c
    BY <1>1, <2>3 DEF Used
  <2>5. mode[s] = "AUTH" /\ sendQ[s] = <<>>
    BY <1>1 DEF Steps
  <2> QED BY <2>1, <2>4, <2>5
<1>5. UNCHANGED <<sock, toGame, inbox, free, authCount, gameCount, total, told, sendQ, sending,
        ioCount, logout, stuck, game, gameAt, send, sendAt, toSend, work, workAt, down>>
  BY DEF AuthAccept, Auth, TakeIndex, SetMode, Leave, gameT, got, sendT, workT
<1>6. /\ mode' = [mode EXCEPT ![s] = "AUTH"]
      /\ info' = [info EXCEPT ![s] = c]
      /\ sendCount' = [sendCount EXCEPT ![s] = 0]
  BY DEF AuthAccept, Auth, TakeIndex, SetMode, Leave
<1>7. /\ mode'[s] = "AUTH" /\ \A x \in Slots : x # s => mode'[x] = mode[x]
      /\ info'[s] = c /\ \A x \in Slots : x # s => info'[x] = info[x]
      /\ sendCount'[s] = 0 /\ \A x \in Slots : x # s => sendCount'[x] = sendCount[x]
      /\ blank' = s
      /\ queue' = Tail(queue)
      /\ heirs' = IF InUse(s) THEN heirs \cup {c} ELSE heirs
      /\ taken' = taken + 1
      /\ auth' = "count"
      /\ authAt' = s
  BY <1>1, <1>2, <1>3, <1>4, <1>6 DEF AuthAccept, Auth, TakeIndex, SetMode, Leave, TypeOK
<1>8. /\ io' \in [Slots -> [Kinds -> Nat]] /\ left' \in [Slots -> [Kinds -> Nat]]
      /\ io'[s]["recv"] = 0 /\ io'[s]["send"] = 0
      /\ left'[s]["recv"] = left[s]["recv"] + io[s]["recv"]
      /\ left'[s]["send"] = left[s]["send"] + io[s]["send"]
      /\ \A x \in Slots : x # s => io'[x] = io[x] /\ left'[x] = left[x]
  <2>1. Leave(s)
    BY DEF AuthAccept, Auth, TakeIndex, SetMode, Leave
  <2>2. "recv" \in Kinds /\ "send" \in Kinds
    BY DEF Kinds
  <2> QED BY <1>1, <1>3, <2>1, <2>2, LeftBehind
<1>9. \A x \in Slots : Clean(x)' => (x # s /\ Clean(x)) \/ (x = s /\ ~InUse(s))
  BY <1>1, <1>2, <1>3, <1>4, <1>5, <1>7 DEF Clean
<1>10. TypeOK'
  <2>1. mode' \in [Slots -> Modes]
    BY <1>1, <1>2, <1>3, <1>4, <1>6, <1>8 DEF TypeOK, Modes
  <2>2. info' \in [Slots -> Conns \cup {NoConn}]
    BY <1>1, <1>2, <1>3, <1>4, <1>6, <1>8 DEF TypeOK
  <2>3. sendCount' \in [Slots -> 0..MaxOut]
    BY <1>1, <1>2, <1>3, <1>4, <1>6, <1>8, ConstantsOK DEF TypeOK, ConstantsOK
  <2>4. blank' \in Slots \cup {NoSlot}
    BY <1>1, <1>2, <1>3, <1>4, <1>7, <1>8 DEF TypeOK
  <2>5. queue' \in Seq(Conns)
    <3>1. queue \in Seq(Conns) /\ queue' = Tail(queue) /\ queue # <<>>
      BY <1>1, <1>4, <1>7 DEF TypeOK
    <3> QED BY <3>1, TailOf
  <2>6. heirs' \in SUBSET Conns
    BY <1>1, <1>2, <1>3, <1>4, <1>7, <1>8 DEF TypeOK
  <2>7. taken' \in Nat
    BY <1>1, <1>2, <1>3, <1>4, <1>7, <1>8 DEF TypeOK
  <2>8. auth' \in {"idle", "count", "join", "more", "out", "beat"}
    BY <1>1, <1>2, <1>3, <1>4, <1>7, <1>8 DEF TypeOK
  <2>9. authAt' \in Slots \cup {NoSlot}
    BY <1>1, <1>2, <1>3, <1>4, <1>7, <1>8 DEF TypeOK
  <2>10. io' \in [Slots -> [Kinds -> Nat]]
    BY <1>8
  <2>11. left' \in [Slots -> [Kinds -> Nat]]
    BY <1>8
  <2>12. {io', left'} \subseteq [Slots -> [Kinds -> Nat]]
    BY <2>10, <2>11
  <2>13. {authAt', blank', gameAt', sendAt'} \subseteq Slots \cup {NoSlot}
    BY <1>2, <1>5, <2>1, <2>2, <2>3, <2>4, <2>5, <2>6, <2>7, <2>8, <2>9, <2>10, <2>11, <2>12
  <2> QED BY <1>1, <1>5, <2>1, <2>2, <2>3, <2>4, <2>5, <2>6, <2>7, <2>8, <2>9, <2>10, <2>11, <2>12,
     <2>13 DEF TypeOK
<1>11. Bounded' /\ GameLeft'
  BY <1>1, <1>5 DEF Bounded, GameLeft
<1>12. ThreadInv'
  BY <1>1, <1>2, <1>3, <1>4, <1>5, <1>7, <1>8 DEF ThreadInv
<1>13. Used'
  <2>1. queue \in Seq(Conns) /\ queue' = Tail(queue) /\ queue # <<>>
    BY <1>1, <1>4, <1>7 DEF TypeOK
  <2>2. /\ 1 \in DOMAIN queue /\ c = queue[1]
        /\ \A i \in DOMAIN queue' : i + 1 \in DOMAIN queue /\ i + 1 # 1 /\ i \in Int /\ queue'[i] = queue[i + 1]
    BY <1>4, <2>1, TailOf
  <2>3. \A i \in DOMAIN queue' : queue'[i] # c
    BY <1>1, <2>2 DEF Used
  <2>4. \A i, j \in DOMAIN queue' : queue'[i] = queue'[j] => i = j
    <3>1. ASSUME NEW i \in DOMAIN queue', NEW j \in DOMAIN queue', queue'[i] = queue'[j] PROVE i = j
      <4>1. i + 1 = j + 1
        BY <1>1, <2>2, <3>1 DEF Used
      <4> QED BY <2>2, <4>1
    <3> QED BY <3>1
  <2>5. info'[s] = c /\ (\A x \in Slots : x # s => info'[x] = info[x] /\ mode'[x] = mode[x]) /\ sock' = sock
            /\ told' = told
    BY <1>5, <1>7
  <2>6. \A x \in Slots : mode'[x] # "NONE" => info'[x] \in Conns /\ sock'[info'[x]] # "none"
    BY <1>1, <1>4, <2>5 DEF Used
  <2>7. \A i \in DOMAIN queue' : sock'[queue'[i]] # "none" /\ told'[queue'[i]] = {}
            /\ \A x \in Slots : info'[x] # queue'[i]
    BY <1>1, <2>2, <2>3, <2>5 DEF Used
  <2>8. \A x, y \in Slots : info'[x] = info'[y] /\ info'[x] # NoConn => x = y
    BY <1>1, <1>4, <2>5 DEF Used
  <2>9. \A x \in heirs' : sock'[x] # "none" /\ \A i \in DOMAIN queue' : queue'[i] # x
    <3>1. ASSUME NEW x \in heirs PROVE sock[x] # "none" /\ \A i \in DOMAIN queue' : queue'[i] # x
      BY <1>1, <2>2 DEF Used
    <3>2. sock[c] # "none" /\ \A x \in heirs' : x \in heirs \/ x = c
      BY <1>4, <1>7
    <3> QED BY <2>3, <2>5, <3>1, <3>2
  <2>10. \A x \in Conns : sock'[x] = "none" => told'[x] = {}
    BY <1>1, <2>5 DEF Used
  <2> QED BY <2>4, <2>6, <2>7, <2>8, <2>9, <2>10 DEF Used
<1>14. Steps'
  BY <1>1, <1>2, <1>3, <1>4, <1>5, <1>7, <1>8 DEF Steps, ThreadInv
<1>15. Counted'
  <2>1. ASSUME NEW ms
        PROVE  /\ Cardinality(In(mode, ms)) \in Nat
               /\ mode'[s] \in ms /\ ~(mode[s] \in ms) => Cardinality(In(mode', ms)) = Cardinality(In(mode, ms)) + 1
               /\ mode[s] \in ms /\ ~(mode'[s] \in ms) => Cardinality(In(mode', ms)) = Cardinality(In(mode, ms)) - 1
               /\ mode'[s] \in ms /\ mode[s] \in ms => Cardinality(In(mode', ms)) = Cardinality(In(mode, ms))
               /\ ~(mode'[s] \in ms) /\ ~(mode[s] \in ms) => Cardinality(In(mode', ms)) = Cardinality(In(mode, ms))
    BY <1>3, <1>7, ConstantsOK, ModeStep
  <2>2. /\ (mode'[s] \in AuthModes <=> TRUE) /\ (mode[s] \in AuthModes <=> TRUE)
        /\ (mode'[s] \in GameModes <=> FALSE) /\ (mode[s] \in GameModes <=> FALSE)
        /\ (mode'[s] \in SomeModes <=> TRUE) /\ (mode[s] \in SomeModes <=> TRUE)
    BY <1>4, <1>7 DEF Modes, AuthModes, GameModes, SomeModes
  <2>3. /\ Cardinality(In(mode', AuthModes)) = Cardinality(In(mode, AuthModes))
        /\ Cardinality(In(mode', GameModes)) = Cardinality(In(mode, GameModes))
        /\ Cardinality(In(mode', SomeModes)) = Cardinality(In(mode, SomeModes))
        /\ Cardinality(In(mode, AuthModes)) \in Nat
        /\ Cardinality(In(mode, GameModes)) \in Nat
        /\ Cardinality(In(mode, SomeModes)) \in Nat
    BY <2>1, <2>2
  <2>4. /\ Counted /\ authCount \in Nat /\ gameCount \in Nat /\ total \in Nat /\ taken \in Nat
        /\ auth' = "count" /\ game' = game /\ authCount' = authCount /\ gameCount' = gameCount
        /\ total' = total /\ taken' = taken + 1 /\ auth \in {"idle", "more"}
    BY <1>1, <1>4, <1>5, <1>7 DEF TypeOK
  <2>5. /\ One(auth' \in {"count", "join"}) = 1 /\ One(auth \in {"count", "join"}) = 0
        /\ One(game' = "push") = One(game = "push") /\ One(game = "push") \in Nat
    BY <2>4 DEF One
  <2>6. authCount' = Cardinality(In(mode', AuthModes)) - One(auth' \in {"count", "join"}) + taken'
    BY <2>3, <2>4, <2>5 DEF Counted
  <2>7. gameCount' = Cardinality(In(mode', GameModes))
    BY <2>3, <2>4 DEF Counted
  <2>8. total' = Cardinality(In(mode', SomeModes)) - One(auth' \in {"count", "join"}) + One(game' = "push") + taken'
    BY <2>3, <2>4, <2>5 DEF Counted
  <2> QED BY <2>6, <2>7, <2>8 DEF Counted
<1>16. Indexed'
  <2>1. free' = free /\ gameAt' = gameAt /\ mode'[s] = "AUTH" /\ mode[s] = "AUTH" /\ \A x \in Slots : x # s
            => mode'[x] = mode[x]
    BY <1>4, <1>5, <1>7
  <2>2. \A x \in Slots : mode'[x] = "NONE" <=> mode[x] = "NONE"
    BY <2>1
  <2> QED BY <1>1, <1>2, <2>1, <2>2 DEF Indexed
<1>17. ASSUME NEW r \in Slots PROVE IOAt(r)'
  <2>3. Handled(workAt', work', r) = Handled(workAt, work, r)
            /\ Recving(workAt', work', r) = Recving(workAt, work, r)
    BY <1>5
  <2>5. Pending(r)' = Pending(r)
    <3>1. CASE r = s
      <4>1. /\ io'[r]["recv"] = 0 /\ io'[r]["send"] = 0 /\ left'[r]["recv"] = left[r]["recv"] + io[r]["recv"]
            /\ left'[r]["send"] = left[r]["send"] + io[r]["send"]
        BY <1>5, <1>8, <3>1
      <4> QED BY <1>2, <3>1, <4>1 DEF Pending
    <3>2. CASE r # s
      <4>1. io'[r] = io[r] /\ left'[r] = left[r]
        BY <1>5, <1>8, <3>2
      <4> QED BY <1>2, <3>2, <4>1 DEF Pending
    <3> QED BY <3>1, <3>2
  <2>6. IOAt(r) /\ IONat(r)
    BY <1>1, <1>2
  <2>7. ioCount'[r] = Pending(r)' + Cardinality(Handled(workAt', work', r)) + Cardinality(Recving(workAt', work', r))
                     + One(sendAt' = r /\ send' \in {"peek", "post", "fail"}) + One(authAt' = r /\ auth' = "join")
    <3>1. /\ NoSlot \notin Slots /\ auth' = "count" /\ authAt' = s /\ send' = send /\ sendAt' = sendAt
          /\ auth \in {"idle", "more"} /\ ioCount'[r] = ioCount[r]
      BY <1>2, <1>4, <1>5, <1>7
    <3> QED BY <1>1, <1>3, <2>3, <2>5, <2>6, <3>1 DEF ThreadInv, IOAt, IONat, One
  <2> QED BY <2>7 DEF IOAt, Handled, Recving, One
<1>18. ASSUME NEW r \in Slots PROVE SlotInv(r)'
  <2>1. OneSend(r) /\ Empty(r) /\ Told(r) /\ Own(r) /\ Alone(r) /\ OneRecv(r) /\ Fresh(r) /\ Heard(r) /\ Ended(r)
    BY <1>1 DEF SlotInv
  <2>2. OneSend(r)'
    <3>1. CASE r = s
      <4>1. /\ sendAt' = sendAt /\ sending' = sending /\ io'[r]["recv"] = 0 /\ io'[r]["send"] = 0
            /\ left'[r]["recv"] = left[r]["recv"] + io[r]["recv"]
            /\ left'[r]["send"] = left[r]["send"] + io[r]["send"] /\ work' = work /\ workAt' = workAt
        BY <1>5, <1>7, <3>1, <1>8
      <4>2. /\ Sent(r)' <=> Sent(r)
            /\ io'[r]["send"] + left'[r]["send"] = io[r]["send"] + left[r]["send"]
        <5>1. io[r]["send"] \in Nat /\ left[r]["send"] \in Nat
          BY <1>2
        <5>2. PICK a \in Nat, b \in Nat : a = io[r]["send"] /\ b = left[r]["send"]
          BY <5>1
        <5>3. 0 + (b + a) = a + b /\ (b + a = 0 <=> a = 0 /\ b = 0)
          BY Sums
        <5> QED BY <4>1, <5>2, <5>3 DEF Sent
      <4>3. OneSend(r)
        BY <2>1
      <4> QED BY <1>1, <1>2, <1>3, <1>4, <2>1, <3>1, <4>1, <4>2, <4>3 DEF OneSend, Sent
    <3>2. CASE r # s
      <4>1. /\ sendAt' = sendAt /\ sending' = sending /\ io'[r] = io[r] /\ left'[r] = left[r] /\ work' = work
            /\ workAt' = workAt
        BY <1>2, <1>5, <1>7, <3>2, <1>8
      <4> QED BY <1>2, <2>1, <3>2, <1>4, <4>1 DEF OneSend, Sent
    <3> QED BY <3>1, <3>2
  <2>3. Empty(r)'
    BY <1>1, <1>2, <1>3, <1>4, <1>5, <1>7, <1>8, <1>9, <2>1 DEF Empty
  <2>4. Told(r)'
    BY <1>1, <1>2, <1>3, <1>4, <1>5, <1>7, <1>8, <1>9, <2>1 DEF Told
  <2>5. Own(r)'
    <3>1. CASE r = s
      <4>1. sendQ' = sendQ /\ info'[r] = c
        BY <1>5, <1>7, <3>1
      <4> QED BY <1>1, <1>2, <1>3, <1>4, <2>1, <3>1, <4>1 DEF Own
    <3>2. CASE r # s
      <4>1. sendQ' = sendQ /\ info'[r] = info[r]
        BY <1>2, <1>5, <1>7, <3>2
      <4> QED BY <1>2, <2>1, <3>2, <1>4, <4>1 DEF Own
    <3> QED BY <3>1, <3>2
  <2>6. Alone(r)'
    <3>1. CASE r = s
      <4>1. /\ mode'[r] = "AUTH" /\ info'[r] = c /\ left'[r]["recv"] = left[r]["recv"] + io[r]["recv"]
            /\ left'[r]["send"] = left[r]["send"] + io[r]["send"]
            /\ heirs' = IF InUse(s) THEN heirs \cup {c} ELSE heirs
        BY <1>5, <1>7, <3>1, <1>8
      <4>2. Clean(r)' => /\ ~logout[s] /\ \A v \in Workers : workAt[v] # s
                         /\ ~(sendAt = s /\ send \in {"size", "inc", "peek", "post", "fail", "log"})
                         /\ io[s] = NoIO /\ left[s] = NoIO
        BY <3>1, <1>9 DEF InUse, Inside
      <4>3. /\ io[s] = NoIO => io[s]["recv"] = 0 /\ io[s]["send"] = 0
            /\ left[s] = NoIO => left[s]["recv"] = 0 /\ left[s]["send"] = 0
        BY <1>1, <1>3, NoRequests DEF TypeOK
      <4>4. Clean(r)' => left'[r]["recv"] = 0 /\ left'[r]["send"] = 0
        BY <3>1, <4>1, <4>2, <4>3
      <4> QED BY <4>4 DEF Alone
    <3>2. CASE r # s
      <4>1. /\ mode'[r] = mode[r] /\ info'[r] = info[r] /\ left'[r] = left[r]
            /\ heirs' = IF InUse(s) THEN heirs \cup {c} ELSE heirs
        BY <1>2, <1>5, <1>7, <3>2, <1>8
      <4> QED BY <1>2, <2>1, <3>2, <1>4, <1>9, <4>1 DEF Alone, Clean
    <3> QED BY <3>1, <3>2
  <2>7. OneRecv(r)'
    <3>1. CASE r = s
      <4>1. /\ mode'[r] = "AUTH" /\ info'[r] = c /\ io'[r]["recv"] = 0 /\ io'[r]["send"] = 0 /\ work' = work
            /\ workAt' = workAt
            /\ heirs' = IF InUse(s) THEN heirs \cup {c} ELSE heirs
        BY <1>5, <1>7, <3>1, <1>8
      <4>2. Clean(r)' => /\ ~logout[s] /\ \A v \in Workers : workAt[v] # s
                         /\ ~(sendAt = s /\ send \in {"size", "inc", "peek", "post", "fail", "log"})
                         /\ io[s] = NoIO /\ left[s] = NoIO
        BY <3>1, <1>9 DEF InUse, Inside
      <4>3. /\ io[s] = NoIO => io[s]["recv"] = 0 /\ io[s]["send"] = 0
            /\ left[s] = NoIO => left[s]["recv"] = 0 /\ left[s]["send"] = 0
        BY <1>1, <1>3, NoRequests DEF TypeOK
      <4> QED BY <1>1, <1>2, <1>3, <1>4, <2>1, <3>1, <1>9, <4>1, <4>2, <4>3 DEF OneRecv, Clean, Recv
    <3>2. CASE r # s
      <4>1. /\ mode'[r] = mode[r] /\ info'[r] = info[r] /\ io'[r] = io[r] /\ work' = work /\ workAt' = workAt
            /\ heirs' = IF InUse(s) THEN heirs \cup {c} ELSE heirs
        BY <1>2, <1>5, <1>7, <3>2, <1>8
      <4> QED BY <1>2, <2>1, <3>2, <1>4, <1>9, <4>1 DEF OneRecv, Clean, Recv
    <3> QED BY <3>1, <3>2
  <2>8. Fresh(r)'
    <3>1. CASE r = s
      <4>1. /\ mode'[r] = "AUTH" /\ info'[r] = c /\ authAt' = s /\ auth' = "count" /\ io'[r]["recv"] = 0
            /\ io'[r]["send"] = 0 /\ sendQ' = sendQ /\ logout' = logout /\ workAt' = workAt
            /\ sendAt' = sendAt /\ send' = send
            /\ heirs' = IF InUse(s) THEN heirs \cup {c} ELSE heirs
        BY <1>5, <1>7, <3>1, <1>8
      <4>2. Clean(r)' => /\ ~logout[s] /\ \A v \in Workers : workAt[v] # s
                         /\ ~(sendAt = s /\ send \in {"size", "inc", "peek", "post", "fail", "log"})
                         /\ io[s] = NoIO /\ left[s] = NoIO
        BY <3>1, <1>9 DEF InUse, Inside
      <4>3. /\ io[s] = NoIO => io[s]["recv"] = 0 /\ io[s]["send"] = 0
            /\ left[s] = NoIO => left[s]["recv"] = 0 /\ left[s]["send"] = 0
        BY <1>1, <1>3, NoRequests DEF TypeOK
      <4> QED BY <1>1, <1>2, <1>3, <1>4, <2>1, <3>1, <1>9, <4>1, <4>2, <4>3 DEF Fresh, Clean, Joining,
         Posting, Quiet
    <3>2. CASE r # s
      <4>1. /\ mode'[r] = mode[r] /\ info'[r] = info[r] /\ authAt' = s /\ auth' = "count" /\ io'[r] = io[r]
            /\ sendQ' = sendQ /\ logout' = logout /\ workAt' = workAt /\ sendAt' = sendAt /\ send' = send
            /\ heirs' = IF InUse(s) THEN heirs \cup {c} ELSE heirs
        BY <1>2, <1>5, <1>7, <3>2, <1>8
      <4> QED BY <1>2, <2>1, <3>2, <1>4, <1>9, <4>1 DEF Fresh, Clean, Joining, Posting, Quiet
    <3> QED BY <3>1, <3>2
  <2>9. Heard(r)'
    BY <1>1, <1>2, <1>3, <1>4, <1>5, <1>7, <1>8, <1>9, <2>1 DEF Heard, Clean, Joining, Recv
  <2>10. Ended(r)'
    <3>1. CASE r = s
      <4>1. /\ mode'[r] = "AUTH" /\ info'[r] = c /\ logout' = logout /\ sendAt' = sendAt /\ send' = send
            /\ work' = work /\ workAt' = workAt /\ io'[r]["recv"] = 0 /\ io'[r]["send"] = 0 /\ authAt' = s
            /\ auth' = "count" /\ sock' = sock
            /\ heirs' = IF InUse(s) THEN heirs \cup {c} ELSE heirs
        BY <1>5, <1>7, <3>1, <1>8
      <4>2. Clean(r)' => /\ ~logout[s] /\ \A v \in Workers : workAt[v] # s
                         /\ ~(sendAt = s /\ send \in {"size", "inc", "peek", "post", "fail", "log"})
                         /\ io[s] = NoIO /\ left[s] = NoIO
        BY <3>1, <1>9 DEF InUse, Inside
      <4>3. /\ io[s] = NoIO => io[s]["recv"] = 0 /\ io[s]["send"] = 0
            /\ left[s] = NoIO => left[s]["recv"] = 0 /\ left[s]["send"] = 0
        BY <1>1, <1>3, NoRequests DEF TypeOK
      <4> QED BY <1>1, <1>2, <1>3, <1>4, <2>1, <3>1, <1>9, <4>1, <4>2, <4>3 DEF Ended, Clean, Over,
         Quiet, Joining
    <3>2. CASE r # s
      <4>1. /\ mode'[r] = mode[r] /\ info'[r] = info[r] /\ logout' = logout /\ sendAt' = sendAt
            /\ send' = send /\ work' = work /\ workAt' = workAt /\ io'[r] = io[r] /\ authAt' = s
            /\ auth' = "count" /\ sock' = sock
            /\ heirs' = IF InUse(s) THEN heirs \cup {c} ELSE heirs
        BY <1>2, <1>5, <1>7, <3>2, <1>8
      <4> QED BY <1>2, <2>1, <3>2, <1>4, <1>9, <4>1 DEF Ended, Clean, Over, Quiet, Joining
    <3> QED BY <3>1, <3>2
  <2> QED BY <2>2, <2>3, <2>4, <2>5, <2>6, <2>7, <2>8, <2>9, <2>10 DEF SlotInv
<1> QED BY <1>10, <1>11, <1>12, <1>13, <1>14, <1>15, <1>16, <1>17, <1>18 DEF IInv

LEMMA AuthAcceptRefusedStep ==
  ASSUME ConstantsOK, IInv, NEW c \in Conns, AuthAccept, free = <<>>, blank = NoSlot, c = Head(queue)
  PROVE  IInv'
<1>1. /\ TypeOK /\ ThreadInv /\ Bounded /\ GameLeft /\ Used /\ Steps /\ Counted /\ Indexed
      /\ \A r \in Slots : IOAt(r) /\ SlotInv(r)
  BY DEF IInv
<1>2. /\ {authAt, blank, gameAt, sendAt} \subseteq Slots \cup {NoSlot} /\ NoSlot \notin Slots /\ NoConn \notin Conns
      /\ workAt \in [Workers -> Slots \cup {NoSlot}]
      /\ (\A i \in DOMAIN queue : queue[i] \in Conns) /\ (\A i \in DOMAIN free : free[i] \in Slots)
      /\ \A r \in Slots : (mode[r] # "NONE" <=> info[r] # NoConn) /\ (mode[r] # "NONE" <=> info[r] \in Conns)
      /\ \A r \in Slots : IONat(r)
  BY <1>1, StateTypes
<1>4. /\ auth \in {"idle", "more"}
      /\ queue # <<>>
      /\ c = Head(queue)
      /\ sock[c] # "none"
      /\ told[c] = {}
      /\ \A x \in Slots : info[x] # c
  <2>1. auth \in {"idle", "more"} /\ queue # <<>> /\ c = Head(queue)
    BY DEF AuthAccept
  <2>2. queue \in Seq(Conns) /\ free \in Seq(Slots)
    BY <1>1 DEF TypeOK
  <2>3. 1 \in DOMAIN queue /\ c = queue[1]
    BY <2>1, <2>2, TailOf
  <2>4. sock[c] # "none" /\ told[c] = {} /\ \A x \in Slots : info[x] # c
    BY <1>1, <2>3 DEF Used
  <2> QED BY <2>1, <2>4
<1>5. UNCHANGED <<mode, info, toGame, inbox, free, authCount, gameCount, total, told, sendQ, sending,
        sendCount, ioCount, io, left, logout, stuck, blank, game, gameAt, send, sendAt, toSend, work,
        workAt, heirs, taken, down>>
  BY DEF AuthAccept, Auth, TakeIndex, SetMode, Leave, gameT, got, sendT, workT
<1>6. sock' = [sock EXCEPT ![c] = "closed"]
  BY DEF AuthAccept, Auth, TakeIndex, SetMode, Leave
<1>7. /\ sock'[c] = "closed" /\ \A x \in Conns : x # c => sock'[x] = sock[x]
      /\ queue' = Tail(queue)
      /\ auth' = "more"
      /\ authAt' = NoSlot
  BY <1>1, <1>2, <1>4, <1>6 DEF AuthAccept, Auth, TakeIndex, SetMode, Leave, TypeOK
<1>8. TypeOK'
  <2>1. sock' \in [Conns -> {"none", "open", "reset", "shut", "closed"}]
    BY <1>1, <1>2, <1>4, <1>6 DEF TypeOK
  <2>2. queue' \in Seq(Conns)
    <3>1. queue \in Seq(Conns) /\ queue' = Tail(queue) /\ queue # <<>>
      BY <1>1, <1>4, <1>7 DEF TypeOK
    <3> QED BY <3>1, TailOf
  <2>3. auth' \in {"idle", "count", "join", "more", "out", "beat"}
    BY <1>1, <1>2, <1>4, <1>7 DEF TypeOK
  <2>4. authAt' \in Slots \cup {NoSlot}
    BY <1>1, <1>2, <1>4, <1>7 DEF TypeOK
  <2>5. {authAt', blank', gameAt', sendAt'} \subseteq Slots \cup {NoSlot}
    BY <1>2, <1>5, <2>1, <2>2, <2>3, <2>4
  <2> QED BY <1>1, <1>5, <2>1, <2>2, <2>3, <2>4, <2>5 DEF TypeOK
<1>9. Bounded' /\ GameLeft' /\ Indexed'
  BY <1>1, <1>5 DEF Bounded, GameLeft, Indexed
<1>10. ThreadInv'
  BY <1>1, <1>2, <1>4, <1>5, <1>7 DEF ThreadInv
<1>11. Used'
  <2>1. queue \in Seq(Conns) /\ queue' = Tail(queue) /\ queue # <<>>
    BY <1>1, <1>4, <1>7 DEF TypeOK
  <2>2. /\ 1 \in DOMAIN queue /\ c = queue[1]
        /\ \A i \in DOMAIN queue' : i + 1 \in DOMAIN queue /\ i + 1 # 1 /\ i \in Int /\ queue'[i] = queue[i + 1]
    BY <1>4, <2>1, TailOf
  <2>3. \A i \in DOMAIN queue' : queue'[i] # c
    BY <1>1, <2>2 DEF Used
  <2>4. \A i, j \in DOMAIN queue' : queue'[i] = queue'[j] => i = j
    <3>1. ASSUME NEW i \in DOMAIN queue', NEW j \in DOMAIN queue', queue'[i] = queue'[j] PROVE i = j
      <4>1. i + 1 = j + 1
        BY <1>1, <2>2, <3>1 DEF Used
      <4> QED BY <2>2, <4>1
    <3> QED BY <3>1
  <2>5. sock'[c] = "closed" /\ (\A x \in Conns : x # c => sock'[x] = sock[x]) /\ info' = info /\ mode' = mode
            /\ told' = told
    BY <1>5, <1>7
  <2>6. \A x \in Slots : mode'[x] # "NONE" => info'[x] \in Conns /\ sock'[info'[x]] # "none"
    BY <1>1, <1>4, <2>5 DEF Used
  <2>7. \A i \in DOMAIN queue' : sock'[queue'[i]] # "none" /\ told'[queue'[i]] = {}
            /\ \A x \in Slots : info'[x] # queue'[i]
    <3>1. ASSUME NEW i \in DOMAIN queue'
          PROVE  sock'[queue'[i]] # "none" /\ told'[queue'[i]] = {} /\ \A x \in Slots : info'[x] # queue'[i]
      <4>1. queue'[i] \in Conns /\ queue'[i] # c
        BY <1>2, <2>2, <2>3
      <4>2. sock[queue[i + 1]] # "none" /\ told[queue[i + 1]] = {} /\ \A x \in Slots : info[x] # queue[i + 1]
        BY <1>1, <2>2 DEF Used
      <4> QED BY <2>2, <2>5, <4>1, <4>2
    <3> QED BY <3>1
  <2>8. \A x \in Conns : sock'[x] = "none" => told'[x] = {}
    BY <1>1, <1>4, <2>5 DEF Used
  <2>9. \A x \in heirs' : sock'[x] # "none" /\ \A i \in DOMAIN queue' : queue'[i] # x
    <3>1. ASSUME NEW x \in heirs PROVE x \in Conns /\ sock[x] # "none" /\ x # c
              /\ \A i \in DOMAIN queue' : queue'[i] # x
      BY <1>1, <2>2 DEF Used, TypeOK
    <3>2. heirs' = heirs /\ sock'[c] = "closed" /\ \A x \in Conns : x # c => sock'[x] = sock[x]
      BY <1>5, <1>7
    <3> QED BY <3>1, <3>2
  <2> QED BY <1>1, <2>4, <2>5, <2>6, <2>7, <2>8, <2>9 DEF Used
<1>12. Steps'
  BY <1>1, <1>2, <1>4, <1>5, <1>7 DEF Steps, ThreadInv
<1>13. Counted'
  <2>1. /\ Counted /\ authCount \in Nat /\ gameCount \in Nat /\ total \in Nat /\ taken \in Nat
        /\ Cardinality(In(mode, AuthModes)) \in Nat /\ Cardinality(In(mode, GameModes)) \in Nat
             /\ Cardinality(In(mode, SomeModes)) \in Nat
    BY <1>1, ConstantsOK, InNat DEF TypeOK
  <2>2. mode' = mode /\ auth' = "more" /\ game' = game /\ authCount' = authCount
        /\ gameCount' = gameCount /\ total' = total /\ taken' = taken /\ auth \in {"idle", "more"}
    BY <1>4, <1>5, <1>7
  <2> QED BY <2>1, <2>2 DEF Counted, One
<1>14. ASSUME NEW r \in Slots PROVE IOAt(r)'
  <2>3. Handled(workAt', work', r) = Handled(workAt, work, r)
            /\ Recving(workAt', work', r) = Recving(workAt, work, r)
    BY <1>5
  <2>5. Pending(r)' = Pending(r)
    BY <1>5 DEF Pending
  <2>6. IOAt(r) /\ IONat(r)
    BY <1>1, <1>2
  <2>7. ioCount'[r] = Pending(r)' + Cardinality(Handled(workAt', work', r)) + Cardinality(Recving(workAt', work', r))
                     + One(sendAt' = r /\ send' \in {"peek", "post", "fail"}) + One(authAt' = r /\ auth' = "join")
    <3>1. /\ NoSlot \notin Slots /\ auth' = "more" /\ authAt' = NoSlot /\ send' = send /\ sendAt' = sendAt
          /\ auth \in {"idle", "more"} /\ ioCount'[r] = ioCount[r]
      BY <1>2, <1>4, <1>5, <1>7
    <3> QED BY <1>1, <2>3, <2>5, <2>6, <3>1 DEF ThreadInv, IOAt, IONat, One
  <2> QED BY <2>7 DEF IOAt, Handled, Recving, One
<1>15. ASSUME NEW r \in Slots PROVE SlotInv(r)'
  <2>1. OneSend(r) /\ Empty(r) /\ Told(r) /\ Own(r) /\ Alone(r) /\ OneRecv(r) /\ Fresh(r) /\ Heard(r) /\ Ended(r)
    BY <1>1 DEF SlotInv
  <2>2. OneSend(r)' /\ Empty(r)' /\ Told(r)' /\ Own(r)'
    BY <1>5, <2>1 DEF OneSend, Sent, Empty, Told, Own
  <2>3. Alone(r)' /\ OneRecv(r)'
    BY <1>5, <2>1 DEF Alone, Clean, OneRecv, Recv
  <2>4. Fresh(r)'
    BY <1>1, <1>2, <1>4, <1>5, <1>7, <2>1 DEF Fresh, Clean, Joining, Posting, Quiet
  <2>5. Heard(r)'
    BY <1>1, <1>2, <1>4, <1>5, <1>7, <2>1 DEF Heard, Clean, Joining, Recv, ShutDown
  <2>6. Ended(r)'
    BY <1>1, <1>2, <1>4, <1>5, <1>7, <2>1 DEF Ended, Clean, Over, Quiet, Joining
  <2> QED BY <2>2, <2>3, <2>4, <2>5, <2>6 DEF SlotInv
<1> QED BY <1>8, <1>9, <1>10, <1>11, <1>12, <1>13, <1>14, <1>15 DEF IInv

-----------------------------------------------------------------------------
(* The theorems *)

LEMMA InitInv ==
  ASSUME ConstantsOK, Init
  PROVE  IInv
<1>1. /\ IsFiniteSet(Slots) /\ Cardinality(Slots) \in Nat /\ free \in [1..Cardinality(Slots) -> Slots]
      /\ \A i, j \in DOMAIN free : free[i] = free[j] => i = j
  BY FS_CardinalityType DEF ConstantsOK, Init
<1>2. NoSlot \notin Slots /\ NoConn \notin Conns /\ MaxIn \in Nat \ {0} /\ MaxOut \in Nat \ {0}
  BY DEF ConstantsOK
<1>3. /\ sock = [c \in Conns |-> "none"] /\ queue = <<>>
      /\ mode = [s \in Slots |-> "NONE"] /\ info = [s \in Slots |-> NoConn]
      /\ logout = [s \in Slots |-> FALSE] /\ toGame = [s \in Slots |-> FALSE]
      /\ inbox = [s \in Slots |-> 0] /\ sendQ = [s \in Slots |-> <<>>]
      /\ sending = [s \in Slots |-> FALSE] /\ sendCount = [s \in Slots |-> 0]
      /\ ioCount = [s \in Slots |-> 0] /\ io = [s \in Slots |-> NoIO] /\ left = io
      /\ authCount = 0 /\ gameCount = 0 /\ total = 0
      /\ auth = "idle" /\ authAt = NoSlot /\ blank = NoSlot
      /\ game = "idle" /\ gameAt = NoSlot
      /\ send = "idle" /\ sendAt = NoSlot /\ toSend = 0
      /\ work = [w \in Workers |-> "idle"] /\ workAt = [w \in Workers |-> NoSlot]
      /\ told = [c \in Conns |-> {}] /\ stuck = {} /\ heirs = {} /\ taken = 0 /\ down = FALSE
  BY DEF Init
<1>4. TypeOK
  <2>1. free \in Seq(Slots)
    BY <1>1
  <2>2. /\ sock \in [Conns -> {"none", "open", "reset", "shut", "closed"}] /\ queue \in Seq(Conns)
        /\ mode \in [Slots -> Modes] /\ info \in [Slots -> Conns \cup {NoConn}]
    BY <1>3 DEF Modes
  <2>3. logout \in [Slots -> BOOLEAN] /\ toGame \in [Slots -> BOOLEAN] /\ sending \in [Slots -> BOOLEAN]
    BY <1>3
  <2>4. inbox \in [Slots -> 0..MaxIn] /\ sendCount \in [Slots -> 0..MaxOut] /\ ioCount \in [Slots -> Nat]
    BY <1>2, <1>3
  <2>5. sendQ \in [Slots -> Seq(Conns)] /\ {io, left} \subseteq [Slots -> [Kinds -> Nat]]
    <3>1. NoIO \in [Kinds -> Nat]
      BY DEF NoIO
    <3> QED BY <1>3, <3>1
  <2>6. authCount \in Nat /\ gameCount \in Nat /\ total \in Nat
    BY <1>3
  <2>7. /\ auth \in {"idle", "count", "join", "more", "out", "beat"} /\ game \in {"idle", "out", "push"}
        /\ send \in {"idle", "mode", "size", "inc", "peek", "post", "fail", "log", "unsend"}
        /\ work \in [Workers -> {"idle", "recv", "unsend", "dec", "log"}] /\ toSend \in 0..MaxOut
    BY <1>2, <1>3
  <2>8. /\ {authAt, blank, gameAt, sendAt} \subseteq Slots \cup {NoSlot}
             /\ workAt \in [Workers -> Slots \cup {NoSlot}]
        /\ told \in [Conns -> SUBSET Events]
    BY <1>3
  <2>9. stuck \subseteq Slots /\ heirs \subseteq Conns /\ taken \in Nat /\ down \in BOOLEAN
    BY <1>3
  <2> QED BY <2>1, <2>2, <2>3, <2>4, <2>5, <2>6, <2>7, <2>8, <2>9 DEF TypeOK
<1>5. ThreadInv
  BY <1>3 DEF ThreadInv
<1>6. Bounded
  BY <1>2, <1>3 DEF Bounded
<1>7. GameLeft
  BY <1>3 DEF GameLeft
<1>9. ASSUME NEW s \in Slots
      PROVE  io[s]["recv"] = 0 /\ io[s]["send"] = 0 /\ left[s]["recv"] = 0 /\ left[s]["send"] = 0
  <2>1. "recv" \in Kinds /\ "send" \in Kinds /\ \A k \in Kinds : NoIO[k] = 0
    BY DEF Kinds, NoIO
  <2> QED BY <1>3, <1>9, <2>1
<1>8. ASSUME NEW s \in Slots PROVE IOAt(s)
  <2>1. Handled(workAt, work, s) = {} /\ Recving(workAt, work, s) = {} /\ ioCount[s] = 0 /\ sendAt # s /\ authAt # s
    BY <1>2, <1>3, <1>8 DEF Handled, Recving
  <2>3. Pending(s) = 0
    BY <1>9, <1>8 DEF Pending
  <2>2. Cardinality({}) = 0
    BY FS_EmptySet
  <2> QED BY <2>1, <2>2, <2>3 DEF IOAt, One
<1>14. ASSUME NEW s \in Slots PROVE SlotInv(s)
  <2>1. /\ mode[s] = "NONE" /\ info[s] = NoConn /\ sendQ[s] = <<>> /\ Sent(s)
        /\ sendAt # s /\ \A w \in Workers : workAt[w] # s
    BY <1>2, <1>3, <1>9, <1>14 DEF Sent
  <2>2. OneSend(s)
    BY <2>1 DEF OneSend
  <2>3. Empty(s) /\ Told(s) /\ Own(s)
    BY <2>1 DEF Empty, Told, Own
  <2>4. Alone(s) /\ OneRecv(s) /\ Fresh(s) /\ Heard(s) /\ Ended(s)
    BY <2>1 DEF Alone, OneRecv, Fresh, Heard, Ended, Clean
  <2> QED BY <2>2, <2>3, <2>4 DEF SlotInv
<1>10. Used
  BY <1>2, <1>3 DEF Used
<1>11. Steps
  BY <1>3 DEF Steps
<1>12. Counted
  <2>1. In(mode, AuthModes) = {} /\ In(mode, GameModes) = {} /\ In(mode, SomeModes) = {}
    BY <1>3 DEF In, AuthModes, GameModes, SomeModes
  <2>2. Cardinality({}) = 0
    BY FS_EmptySet
  <2>3. Cardinality(In(mode, AuthModes)) = 0 /\ Cardinality(In(mode, GameModes)) = 0
            /\ Cardinality(In(mode, SomeModes)) = 0
    BY <2>1, <2>2
  <2>4. authCount = 0 /\ gameCount = 0 /\ total = 0 /\ taken = 0 /\ auth = "idle" /\ game = "idle"
    BY <1>3
  <2>5. One(auth \in {"count", "join"}) = 0 /\ One(game = "push") = 0
    BY <2>4 DEF One
  <2>6. authCount = Cardinality(In(mode, AuthModes)) - One(auth \in {"count", "join"}) + taken
    BY <2>3, <2>4, <2>5
  <2>7. total = Cardinality(In(mode, SomeModes)) - One(auth \in {"count", "join"}) + One(game = "push") + taken
    BY <2>3, <2>4, <2>5
  <2> QED BY <2>3, <2>4, <2>6, <2>7 DEF Counted
<1>13. Indexed
  <2>1. (\A i \in DOMAIN free : mode[free[i]] = "NONE" /\ free[i] # gameAt)
    BY <1>1, <1>2, <1>3
  <2>2. \A s \in Slots : \E i \in DOMAIN free : free[i] = s
    <3>1. /\ IsFiniteSet(1..Cardinality(Slots)) /\ Cardinality(1..Cardinality(Slots)) = Cardinality(Slots)
      <4>1. 1 \in Int /\ Cardinality(Slots) \in Int
        BY <1>1
      <4>2. /\ IsFiniteSet(1..Cardinality(Slots))
            /\ Cardinality(1..Cardinality(Slots)) = IF 1 > Cardinality(Slots) THEN 0 ELSE Cardinality(Slots) - 1 + 1
        BY <4>1, FS_Interval
      <4> QED BY <1>1, <4>2
    <3>2. free \in Injection(1..Cardinality(Slots), Slots)
      <4>1. DOMAIN free = 1..Cardinality(Slots)
        BY <1>1
      <4> QED BY <1>1, <4>1 DEF Injection, IsInjective
    <3>3. free \in Surjection(1..Cardinality(Slots), Slots)
      BY <1>1, <3>1, <3>2, FS_Injection
    <3> QED BY <1>1, <3>3 DEF Surjection
  <2> QED BY <1>1, <2>1, <2>2 DEF Indexed
<1> QED BY <1>4, <1>5, <1>6, <1>7, <1>8, <1>10, <1>11, <1>12, <1>13, <1>14 DEF IInv

LEMMA AuthAcceptStep ==
  ASSUME ConstantsOK, IInv, AuthAccept
  PROVE  IInv'
<1>1. queue \in Seq(Conns) /\ free \in Seq(Slots) /\ queue # <<>> /\ blank \in Slots \cup {NoSlot}
  BY DEF IInv, TypeOK, AuthAccept
<1>2. PICK c \in Conns : c = Head(queue)
  BY <1>1, TailOf
<1>3. CASE free # <<>>
  <2>1. PICK s \in Slots : s = Head(free)
    BY <1>1, <1>3, TailOf
  <2>2. TakeIndex(c, s, Tail(free))
    BY <1>2, <1>3, <2>1 DEF AuthAccept
  <2> QED BY <1>2, <1>3, <2>1, <2>2, AuthAcceptFreeStep
<1>4. CASE free = <<>> /\ blank # NoSlot
  <2>1. PICK s \in Slots : s = blank
    BY <1>1, <1>4
  <2>2. TakeIndex(c, s, free)
    BY <1>2, <1>4, <2>1 DEF AuthAccept
  <2> QED BY <1>2, <1>4, <2>1, <2>2, AuthAcceptBlankStep
<1>5. CASE free = <<>> /\ blank = NoSlot
  BY <1>2, <1>5, AuthAcceptRefusedStep
<1> QED BY <1>3, <1>4, <1>5

LEMMA AuthJoinStep ==
  ASSUME ConstantsOK, IInv, AuthJoin
  PROVE  IInv'
<1>1. CASE Accepted(authAt) /\ Post(authAt, "recv") /\ UNCHANGED <<sock, ioCount, logout>>
  BY <1>1, AuthJoinPostedStep
<1>2. CASE /\ Refused(authAt) /\ Shut(authAt) /\ DecIO(authAt)
           /\ logout' = [logout EXCEPT ![authAt] = @ \/ ioCount[authAt] = 1] /\ UNCHANGED io
  BY <1>2, AuthJoinFailedStep
<1> QED BY <1>1, <1>2 DEF AuthJoin

LEMMA SendPostStep ==
  ASSUME ConstantsOK, IInv, SendPost
  PROVE  IInv'
<1>1. CASE /\ Accepted(sendAt) /\ toSend > 0 /\ Post(sendAt, "send")
           /\ Send("idle", NoSlot) /\ UNCHANGED sock
  BY <1>1, SendPostedStep
<1>2. CASE /\ info[sendAt] # NoConn /\ (Refused(sendAt) \/ toSend = 0) /\ Shut(sendAt)
           /\ Send("fail", sendAt) /\ UNCHANGED io
  BY <1>2, SendRefusedStep
<1> QED BY <1>1, <1>2 DEF SendPost

LEMMA WorkRecvStep ==
  ASSUME ConstantsOK, IInv, NEW w \in Workers, WorkRecv(w)
  PROVE  IInv'
<1>1. CASE Accepted(workAt[w]) /\ Post(workAt[w], "recv") /\ UNCHANGED <<sock, ioCount>>
  BY <1>1, WorkRecvPostedStep
<1>2. CASE Refused(workAt[w]) /\ Shut(workAt[w]) /\ DecIO(workAt[w]) /\ UNCHANGED io
  BY <1>2, WorkRecvFailedStep
<1> QED BY <1>1, <1>2 DEF WorkRecv

\* A request that completes is of the client, or of one before.
LEMMA RecvDoneAny ==
  ASSUME ConstantsOK, IInv, NEW w \in Workers, NEW s \in Slots, RecvDone(w, s)
  PROVE  IInv'
<1>1. CASE io[s]["recv"] > 0 /\ io' = [io EXCEPT ![s]["recv"] = @ - 1] /\ UNCHANGED left
  BY <1>1, RecvDoneStep
<1>2. CASE left[s]["recv"] > 0 /\ left' = [left EXCEPT ![s]["recv"] = @ - 1] /\ UNCHANGED io
  BY <1>2, RecvDoneLateStep
<1> QED BY <1>1, <1>2 DEF RecvDone, Completes

LEMMA SendEndsAny ==
  ASSUME ConstantsOK, IInv, NEW w \in Workers, NEW s \in Slots, SendEnds(w, s)
  PROVE  IInv'
<1>1. CASE io[s]["send"] > 0 /\ io' = [io EXCEPT ![s]["send"] = @ - 1] /\ UNCHANGED left
  BY <1>1, SendDoneStep, FailedSendStep DEF SendEnds
<1>2. CASE left[s]["send"] > 0 /\ left' = [left EXCEPT ![s]["send"] = @ - 1] /\ UNCHANGED io
  BY <1>2, SendDoneLateStep, FailedSendLateStep DEF SendEnds
<1> QED BY <1>1, <1>2 DEF SendEnds, SendDone, Failed, Completes

LEMMA RecvFailsAny ==
  ASSUME ConstantsOK, IInv, NEW w \in Workers, NEW s \in Slots, Failed(w, s, "recv")
  PROVE  IInv'
<1>1. CASE io[s]["recv"] > 0 /\ io' = [io EXCEPT ![s]["recv"] = @ - 1] /\ UNCHANGED left
  BY <1>1, FailedRecvStep
<1>2. CASE left[s]["recv"] > 0 /\ left' = [left EXCEPT ![s]["recv"] = @ - 1] /\ UNCHANGED io
  BY <1>2, FailedRecvLateStep
<1> QED BY <1>1, <1>2 DEF Failed, Completes

\* A packet is handled, or ends the process.
LEMMA AuthPacketAny ==
  ASSUME ConstantsOK, IInv, ~down, NEW s \in Slots, AuthPacket(s)
  PROVE  IInv'
<1>1. CASE Crash
  BY <1>1, CrashStep
<1>2. CASE ~Crash
  <2>1. PICK chosen \in BOOLEAN : toGame' = [toGame EXCEPT ![s] = @ \/ chosen]
    BY <1>2, Zenon DEF AuthPacket
  <2>2. down' = down
    BY <1>2 DEF AuthPacket
  <2> QED BY <2>1, <2>2, AuthPacketStep
<1> QED BY <1>1, <1>2

LEMMA GamePacketAny ==
  ASSUME ConstantsOK, IInv, ~down, NEW s \in Slots, GamePacket(s)
  PROVE  IInv'
<1>1. CASE Crash
  BY <1>1, CrashStep
<1>2. CASE ~Crash
  <2>1. down' = down
    BY <1>2 DEF GamePacket
  <2> QED BY <2>1, GamePacketStep
<1> QED BY <1>1, <1>2

LEMMA NextInv ==
  ASSUME ConstantsOK, IInv, [Next]_vars
  PROVE  IInv'
<1>1. ASSUME NEW c \in Conns, AcceptThread_update(c) \/ ClientCloses(c) PROVE IInv'
  BY <1>1, AcceptStep, ClientClosesStep
<1>2. ASSUME AuthStep PROVE IInv'
  <2>1. ASSUME NEW s \in Slots, AuthLeave(s) \/ AuthToGame(s) PROVE IInv'
    BY <2>1, AuthLeaveStep, AuthToGameStep
  <2>2. ASSUME AuthNull PROVE IInv'
    BY <2>2, CrashStep DEF AuthNull
  <2> QED BY <1>2, <2>1, <2>2, AuthAcceptStep, AuthCountStep, AuthJoinStep, AuthGoesOnStep, AuthOutStep,
             AuthShutStep DEF AuthStep
<1>3. ASSUME GameStep PROVE IInv'
  <2>1. ASSUME NEW s \in Slots, GameJoin(s) \/ GameLeave(s) \/ GameRelease(s) PROVE IInv'
    BY <2>1, GameJoinStep, GameLeaveStep, GameReleaseStep
  <2> QED BY <1>3, <2>1, GameOutStep, GamePushStep DEF GameStep
<1>4. ASSUME SendStep PROVE IInv'
  <2>1. ASSUME SendMiss \/ SendNull PROVE IInv'
    BY <2>1, CrashStep DEF SendMiss, SendNull
  <2> QED BY <1>4, <2>1, SendModeStep, SendSizeStep, SendIncStep, SendPeekStep, SendPostStep, SendFailStep,
             SendLogStep, SendUnsendStep DEF SendStep
<1>5. ASSUME ~down, NEW s \in Slots, AuthPacket(s) \/ AuthCheck(s) \/ AuthBeat(s) PROVE IInv'
  BY <1>5, AuthPacketAny, AuthCheckStep, AuthBeatStep
<1>6. ASSUME ~down, NEW s \in Slots, GamePacket(s) \/ GameTells(s) \/ GameCheck(s) \/ SendStart(s) PROVE IInv'
  BY <1>6, GamePacketAny, GameTellsStep, GameCheckStep, SendStartStep
<1>7. ASSUME NEW w \in Workers, WorkStep(w) PROVE IInv'
  <2>1. ASSUME NEW s \in Slots, SendEnds(w, s) \/ Failed(w, s, "recv") PROVE IInv'
    BY <2>1, SendEndsAny, RecvFailsAny
  <2>2. ASSUME WorkDec(w) PROVE IInv'
    BY <2>2, WorkDecLastStep, WorkDecOneStep
  <2>3. ASSUME WorkNull(w) PROVE IInv'
    BY <2>3, CrashStep DEF WorkNull
  <2> QED BY <1>7, <2>1, <2>2, <2>3, WorkUnsendStep, WorkRecvStep, WorkLogStep DEF WorkStep
<1>8. ASSUME NEW w \in Workers, NEW s \in Slots, RecvDone(w, s) PROVE IInv'
  BY <1>8, RecvDoneAny
<1>9. CASE UNCHANGED vars
  <2>1. /\ sock' = sock /\ queue' = queue /\ mode' = mode /\ info' = info /\ toGame' = toGame /\ inbox' = inbox
        /\ free' = free /\ authCount' = authCount /\ gameCount' = gameCount /\ total' = total /\ told' = told
        /\ sendQ' = sendQ /\ sending' = sending /\ sendCount' = sendCount /\ ioCount' = ioCount /\ io' = io
        /\ left' = left /\ logout' = logout /\ stuck' = stuck /\ auth' = auth /\ authAt' = authAt /\ blank' = blank
        /\ game' = game /\ gameAt' = gameAt /\ send' = send /\ sendAt' = sendAt /\ toSend' = toSend
        /\ work' = work /\ workAt' = workAt /\ heirs' = heirs /\ taken' = taken /\ down' = down
    BY <1>9 DEF vars, conns, flow, lines, authT, gameT, sendT, workT, got
  <2>2. TypeOK'
    BY <2>1 DEF IInv, TypeOK
  <2>3. ThreadInv' /\ Bounded' /\ GameLeft'
    BY <2>1 DEF IInv, ThreadInv, Bounded, GameLeft
  <2>4. Used' /\ Steps' /\ Indexed'
    BY <2>1 DEF IInv, Used, Steps, Indexed
  <2>5. Counted'
    BY <2>1 DEF IInv, Counted, In, One
  <2>6. ASSUME NEW s \in Slots PROVE IOAt(s)'
    <3>1. IOAt(s)
      BY DEF IInv
    <3> QED BY <2>1, <3>1 DEF IOAt, Pending, Handled, Recving, One
  <2>7. ASSUME NEW s \in Slots PROVE SlotInv(s)'
    <3>1. SlotInv(s)
      BY DEF IInv
    <3>2. OneSend(s)' /\ Empty(s)' /\ Told(s)' /\ Own(s)'
      BY <2>1, <3>1 DEF SlotInv, OneSend, Sent, Empty, Told, Own
    <3>3. Alone(s)' /\ OneRecv(s)' /\ Fresh(s)' /\ Heard(s)'
      BY <2>1, <3>1 DEF SlotInv, Alone, Clean, OneRecv, Recv, Fresh, Joining, Quiet, Posting, Heard
    <3>4. Ended(s)'
      BY <2>1, <3>1 DEF SlotInv, Ended, Clean, Over, Quiet, Joining
    <3> QED BY <3>2, <3>3, <3>4 DEF SlotInv
  <2> QED BY <2>2, <2>3, <2>4, <2>5, <2>6, <2>7 DEF IInv
<1> QED BY <1>1, <1>2, <1>3, <1>4, <1>5, <1>6, <1>7, <1>8, <1>9 DEF Next

\* The invariant holds of every behaviour of the server.
THEOREM Invariance == ConstantsOK => (Spec => []IInv)
<1> SUFFICES ASSUME ConstantsOK PROVE Spec => []IInv
  OBVIOUS
<1>1. Init => IInv
  BY InitInv
<1>2. IInv /\ [Next]_vars => IInv'
  BY NextInv
<1> QED BY <1>1, <1>2, PTL DEF Spec

\* Every variable keeps its type.
THEOREM TypeCorrect == ConstantsOK => (Spec => []TypeOK)
<1>1. IInv => TypeOK
  BY DEF IInv
<1> QED BY <1>1, Invariance, PTL

\* _IOCount (Session.cpp, RecvPost and SendPost; MMOServer.cpp, WorkerThread_update) counts the
\* requests of a session, of whichever clients, and the counters of AuthThread_update and
\* GameThread_update the sessions of each mode, but for one more for each take-over.
THEOREM CountersAlways == ConstantsOK => (Spec => []CountersExact)
<1>1. IInv => CountersExact
  <2>1. (\A s \in Slots : IOAt(s)) => IOCountExact
    BY DEF IOAt, IOCountExact, Pending, Handled, Recving, One
  <2>2. Counted => ModesExact
    BY DEF Counted, ModesExact, In, One, AuthModes, GameModes, SomeModes
  <2> QED BY <2>1, <2>2 DEF IInv, CountersExact
<1> QED BY <1>1, Invariance, PTL

\* _sessionIndexStack (MMOServer.cpp, AuthThread_update and GameThread_update) holds the index of
\* each session that is in no mode, once.
THEOREM IndexAlways == ConstantsOK => (Spec => []IndexExact)
<1>1. IInv => IndexExact
  <2>1. ASSUME IInv
        PROVE  {free[i] : i \in DOMAIN free} = {s \in Slots : mode[s] = "NONE"} \ {gameAt}
    <3>1. Indexed /\ free \in Seq(Slots)
      BY <2>1 DEF IInv, TypeOK
    <3>2. \A i \in DOMAIN free : free[i] \in Slots
      BY <3>1
    <3> QED BY <3>1, <3>2 DEF Indexed
  <2>2. ASSUME IInv PROVE \A i, j \in DOMAIN free : free[i] = free[j] => i = j
    BY <2>2 DEF IInv, Indexed
  <2> QED BY <2>1, <2>2 DEF IndexExact
<1> QED BY <1>1, Invariance, PTL

\* SendPost (Session.cpp) gives a socket the packets that were queued for its client, and never
\* those of the client that had the session before.
THEOREM OwnAlways == ConstantsOK => (Spec => []OwnPackets)
<1>1. IInv => OwnPackets
  BY DEF IInv, SlotInv, Own, OwnPackets
<1> QED BY <1>1, Invariance, PTL

\* OnGame_ClientLeave (MMOServer.cpp, GameThread_update) is called for a player that came into the
\* game, before OnGame_ClientRelease, and for no other.
THEOREM GameLeftAlways == ConstantsOK => (Spec => []GameLeft)
<1>1. IInv => GameLeft
  BY DEF IInv
<1> QED BY <1>1, Invariance, PTL

\* The game thread (MMOServer.cpp, GameThread_update) releases a session of a client that got it
\* out of use when the kernel holds no request of it and no worker is at work on it, but one that
\* is about to set _bLogout once more. The late _bLogout = true of that one makes the next client
\* an heir, of which nothing is claimed.
THEOREM QuietAlways == ConstantsOK => (Spec => QuietRelease)
<1> SUFFICES ASSUME ConstantsOK PROVE Spec => QuietRelease
  OBVIOUS
<1>1. IInv /\ [Next]_vars =>
        [\A s \in Slots : mode[s] = "WAIT_LOGOUT" /\ mode'[s] = "NONE" /\ info[s] \notin heirs =>
           /\ io[s] = NoIO /\ left[s] = NoIO
           /\ \A w \in Workers : workAt[w] = s => work[w] = "log"]_vars
  <2>1. ASSUME IInv, NEW s \in Slots, mode[s] = "WAIT_LOGOUT", info[s] \notin heirs
        PROVE  /\ io[s] = NoIO /\ left[s] = NoIO
               /\ \A w \in Workers : workAt[w] = s => work[w] = "log"
    <3>1. Clean(s) /\ Alone(s) /\ Ended(s) /\ logout[s]
      BY <2>1 DEF IInv, SlotInv, Clean, Steps
    <3>2. Over(s) /\ left[s]["recv"] = 0 /\ left[s]["send"] = 0
      BY <3>1 DEF Ended, Alone
    <3>3. io \in [Slots -> [Kinds -> Nat]] /\ left \in [Slots -> [Kinds -> Nat]]
      BY <2>1 DEF IInv, TypeOK
    <3> QED BY <3>2, <3>3, NoRequests DEF Over, Quiet
  <2> QED BY <2>1
<1>2. Spec => []IInv
  BY Invariance
<1> QED BY <1>1, <1>2, PTL DEF Spec, QuietRelease
=============================================================================
