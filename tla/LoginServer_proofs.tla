------------------------- MODULE LoginServer_proofs -------------------------
(***************************************************************************)
(* Proofs about LoginServer, for any number of clients, accounts, blocks   *)
(* of the pool and servers: the player map has one block per client, and   *)
(* _Monitor_LoginWait counts every client that asked and has not left.     *)
(*                                                                         *)
(* Two handlers use a block outside the lock that found it, so the block   *)
(* of a request must still be the client's when the request is answered:   *)
(* that is what Asking says. WaitEnough then follows from one clause per   *)
(* step: a step changes whether one client waits, and the counter with it. *)
(***************************************************************************)
EXTENDS LoginServer, FiniteSetTheorems, TLAPS

\* A request in progress has its client's block, with the account it asked for.
Asking ==
  \A c \in Clients : op[c] = "asked" => map[c] \in Players /\ account[map[c]] \in Accounts

IInv == TypeOK /\ MapExact /\ Asking /\ WaitEnough

-----------------------------------------------------------------------------
(* Blocks *)

\* No two clients share a block.
LEMMA OwnBlock ==
  ASSUME TypeOK, MapExact, NEW c \in Clients, NEW d \in Clients, map[c] # NoPlayer, map[d] = map[c]
  PROVE  c = d
BY DEF MapExact

LEMMA WaitersFinite ==
  ASSUME ConstantsOK
  PROVE  IsFiniteSet(Waiters) /\ Cardinality(Waiters) \in Nat
<1>1. Waiters \in SUBSET Clients
  BY DEF Waiters
<1> QED BY <1>1, FS_Subset, FS_CardinalityType DEF ConstantsOK

\* Steps that touch neither blocks nor requests.
LEMMA WaitSame ==
  ASSUME WaitEnough, UNCHANGED <<map, recvFlag, op, loginWait>>
  PROVE  WaitEnough'
BY DEF WaitEnough, Waiters

\* One client begins to wait, is known to wait already, or ends.
LEMMA WaitMore ==
  ASSUME ConstantsOK, WaitEnough, loginWait \in Int, NEW c \in Clients, c \notin Waiters,
         Waiters' = Waiters \cup {c}, loginWait' = loginWait + 1
  PROVE  WaitEnough'
<1>1. Cardinality(Waiters') = Cardinality(Waiters) + 1
  BY WaitersFinite, FS_AddElement
<1> QED BY <1>1, WaitersFinite DEF WaitEnough

LEMMA WaitLess ==
  ASSUME ConstantsOK, WaitEnough, loginWait \in Int, NEW c \in Clients, c \in Waiters,
         Waiters' = Waiters \ {c}, loginWait' = loginWait - 1
  PROVE  WaitEnough'
<1>1. Cardinality(Waiters') = Cardinality(Waiters) - 1
  BY WaitersFinite, FS_RemoveElement
<1> QED BY <1>1, WaitersFinite DEF WaitEnough

LEMMA WaitAgain ==
  ASSUME ConstantsOK, WaitEnough, Waiters' = Waiters, loginWait \in Int, loginWait' \in Int, loginWait' >= loginWait
  PROVE  WaitEnough'
<1>1. Cardinality(Waiters') = Cardinality(Waiters) /\ Cardinality(Waiters) \in Nat
  BY WaitersFinite
<1> QED BY <1>1 DEF WaitEnough

-----------------------------------------------------------------------------
(* The steps that blocks and requests depend on *)

LEMMA InsertKeeps ==
  ASSUME ConstantsOK, IInv, NEW c \in Clients, InsertPlayer(c)
  PROVE  IInv'
<1> USE DEF IInv
<1>1. PICK p \in Players \ Used :
        /\ map' = [map EXCEPT ![c] = p] /\ owner' = [owner EXCEPT ![p] = c] /\ Fresh(p) /\ Stamp(p)
  BY DEF InsertPlayer
<1>2. sess[c] = "none" /\ sess' = [sess EXCEPT ![c] = "open"]
      /\ UNCHANGED <<loginWait, req, op, lan, found, monitor, hung, crash, told>>
  BY DEF InsertPlayer
<1>3. map[c] = NoPlayer /\ op[c] # "asked" /\ p # NoPlayer /\ p \notin Used
  <2>1. map[c] = NoPlayer
    BY <1>2 DEF MapExact
  <2>2. op[c] # "asked"
    BY <2>1 DEF Asking, ConstantsOK
  <2> QED BY <2>1, <2>2, <1>1 DEF ConstantsOK
<1>4. \A d \in Clients : map[d] # p
  BY <1>3 DEF Used
<1>5. TypeOK'
  <2>1. age' \in [Players -> -1..Timeout + 1]
    BY <1>1 DEF Stamp, TypeOK, ConstantsOK
  <2> QED BY <1>1, <1>2, <2>1 DEF TypeOK, Fresh, lan, monitor
<1>6. MapExact'
  BY <1>1, <1>2, <1>3, <1>4 DEF MapExact, TypeOK
<1>7. Asking'
  BY <1>1, <1>2, <1>3, <1>4 DEF Asking, TypeOK, Fresh
<1>8. WaitEnough'
  <2>1. Waiters' = Waiters
    BY <1>1, <1>2, <1>3, <1>4 DEF Waiters, TypeOK, Fresh
  <2> QED BY <2>1, <1>2, WaitAgain DEF TypeOK
<1> QED BY <1>5, <1>6, <1>7, <1>8

LEMMA LeaveKeeps ==
  ASSUME ConstantsOK, IInv, NEW c \in Clients, OnClientLeave(c)
  PROVE  IInv'
<1> USE DEF IInv
<1>1. /\ sess[c] = "shut" /\ op[c] = "idle" /\ map[c] \in Players /\ map[c] # NoPlayer
      /\ Forget(c) /\ UNCHANGED <<crash, owner, req, op, lan, found, monitor, hung>>
      /\ loginWait' = IF recvFlag[map[c]] THEN loginWait - 1 ELSE loginWait
  BY DEF OnClientLeave, MapExact, TypeOK
<1>2. \A d \in Clients \ {c} : map[d] # map[c]
  BY <1>1, OwnBlock
<1>3. WaitEnough'
  <2>1. CASE recvFlag[map[c]]
    <3>1. c \in Waiters /\ Waiters' = Waiters \ {c}
      BY <1>1, <1>2, <2>1 DEF Waiters, TypeOK, Forget, Fresh
    <3> QED BY <1>1, <2>1, <3>1, WaitLess DEF TypeOK
  <2>2. CASE ~recvFlag[map[c]]
    <3>1. Waiters' = Waiters
      BY <1>1, <1>2, <2>2 DEF Waiters, TypeOK, Forget, Fresh
    <3> QED BY <1>1, <2>2, <3>1, WaitAgain DEF TypeOK
  <2> QED BY <2>1, <2>2
<1>4. loginWait' \in Nat
  <2>1. Waiters' \subseteq Clients /\ IsFiniteSet(Waiters') /\ Cardinality(Waiters') \in Nat
    <3>1. Waiters' \in SUBSET Clients
      BY DEF Waiters
    <3> QED BY <3>1, FS_Subset, FS_CardinalityType DEF ConstantsOK
  <2>2. loginWait' \in Int /\ Cardinality(Waiters') <= loginWait'
    BY <1>1, <1>3 DEF WaitEnough, TypeOK
  <2> QED BY <2>1, <2>2
<1>5. TypeOK'
  BY <1>1, <1>4 DEF TypeOK, Forget, Fresh, lan, monitor, ConstantsOK
<1>6. MapExact'
  BY <1>1, <1>2 DEF MapExact, TypeOK, Forget
<1>7. Asking'
  BY <1>1, <1>2 DEF Asking, TypeOK, Forget, Fresh
<1> QED BY <1>3, <1>5, <1>6, <1>7

LEMMA RequestKeeps ==
  ASSUME ConstantsOK, IInv, NEW c \in Clients, ReqLogin(c)
  PROVE  IInv'
<1> USE DEF IInv
<1>1. /\ op[c] = "idle" /\ req < MaxRequests /\ req' = req + 1
      /\ loginWait' = loginWait + 1 /\ map[c] \in Players /\ map[c] # NoPlayer
      /\ \E a \in Accounts : account' = [account EXCEPT ![map[c]] = a]
      /\ Stamp(map[c]) /\ op' = [op EXCEPT ![c] = "asked"]
      /\ UNCHANGED <<sess, map, owner, recvFlag, lan, found, monitor, hung, crash, told>>
  BY DEF ReqLogin, Received, MapExact, TypeOK
<1>2. \A d \in Clients \ {c} : map[d] # map[c]
  BY <1>1, OwnBlock
<1>3. TypeOK'
  <2>1. age' \in [Players -> -1..Timeout + 1]
    BY <1>1 DEF Stamp, TypeOK, ConstantsOK
  <2>2. /\ account' \in [Players -> Accounts \cup {NoAccount}] /\ op' \in [Clients -> {"idle", "asked"}]
        /\ loginWait' \in Nat /\ req' \in 0..MaxRequests
    BY <1>1 DEF TypeOK, ConstantsOK
  <2> QED BY <1>1, <2>1, <2>2 DEF TypeOK, lan, monitor
<1>4. MapExact'
  BY <1>1 DEF MapExact
<1>5. Asking'
  BY <1>1, <1>2 DEF Asking, TypeOK
<1>6. WaitEnough'
  <2>1. CASE recvFlag[map[c]]
    <3>1. Waiters' = Waiters
      BY <1>1, <2>1 DEF Waiters, TypeOK
    <3> QED BY <1>1, <2>1, <3>1, WaitAgain DEF TypeOK
  <2>2. CASE ~recvFlag[map[c]]
    <3>1. c \notin Waiters /\ Waiters' = Waiters \cup {c}
      BY <1>1, <2>2 DEF Waiters, TypeOK
    <3> QED BY <1>1, <2>2, <3>1, WaitMore DEF TypeOK
  <2> QED BY <2>1, <2>2
<1> QED BY <1>3, <1>4, <1>5, <1>6

LEMMA ServerGroupKeeps ==
  ASSUME ConstantsOK, IInv, NEW c \in Clients, ServerGroup(c)
  PROVE  IInv'
<1> USE DEF IInv
<1>1. /\ op[c] = "asked" /\ map[c] \in Players /\ map[c] # NoPlayer /\ account[map[c]] \in Accounts
      /\ UNCHANGED <<sess, map, owner, account, age, loginWait, req, first, group, link, found, monitor, told>>
  BY DEF ServerGroup, Asking, ConstantsOK
<1>2. \A d \in Clients \ {c} : map[d] # map[c]
  BY <1>1, OwnBlock
<1>3. MapExact'
  BY <1>1 DEF MapExact
<1>4. CASE first = 2
  BY <1>1, <1>3, <1>4, WaitSame DEF ServerGroup, TypeOK, Asking, monitor
<1>5. CASE first # 2
  <2>1. /\ op' = [op EXCEPT ![c] = "idle"] /\ recvFlag' = [recvFlag EXCEPT ![map[c]] = TRUE]
        /\ UNCHANGED hung /\ crash' \in BOOLEAN
        /\ wire' = IF first = 1 THEN LanSend(account[map[c]]) ELSE wire
    BY <1>5 DEF ServerGroup
  <2>2. LanSend(account[map[c]]) \in [Servers -> Seq(Accounts)]
    BY <1>1 DEF LanSend, TypeOK
  <2>3. TypeOK'
    BY <1>1, <2>1, <2>2 DEF TypeOK, monitor
  <2>4. Asking'
    BY <1>1, <2>1 DEF Asking, TypeOK
  <2>5. Waiters' = Waiters
    BY <1>1, <1>2, <2>1 DEF Waiters, TypeOK
  <2>6. WaitEnough'
    BY <1>1, <2>5, WaitAgain DEF TypeOK
  <2> QED BY <1>3, <2>3, <2>4, <2>6
<1> QED BY <1>4, <1>5

-----------------------------------------------------------------------------
(* The other steps leave blocks and requests alone *)

BlocksKeep ==
  /\ UNCHANGED <<players, loginWait, op>>
  /\ \A c \in Clients : sess[c] \in {"open", "shut"} <=> sess'[c] \in {"open", "shut"}

LEMMA BlocksKept ==
  ASSUME IInv, TypeOK', BlocksKeep
  PROVE  IInv'
<1>1. MapExact'
  BY DEF IInv, BlocksKeep, MapExact, players
<1>2. Asking'
  BY DEF IInv, BlocksKeep, Asking, players
<1>3. WaitEnough'
  BY WaitSame DEF IInv, BlocksKeep, players
<1> QED BY <1>1, <1>2, <1>3 DEF IInv

LEMMA ClientKeeps ==
  ASSUME ConstantsOK, IInv, NEW c \in Clients, Ends(c) \/ Refused(c)
  PROVE  IInv'
<1>1. CASE Ends(c)
  <2>1. TypeOK'
    BY <1>1 DEF Ends, ClientDisconnect, IInv, TypeOK, players, lan, monitor
  <2>2. BlocksKeep
    BY <1>1 DEF Ends, ClientDisconnect, IInv, TypeOK, BlocksKeep
  <2> QED BY <2>1, <2>2, BlocksKept
<1>2. CASE Refused(c)
  <2>1. TypeOK'
    BY <1>2 DEF Refused, Received, Tell, IInv, TypeOK, players, lan, monitor, ConstantsOK
  <2>2. BlocksKeep
    BY <1>2 DEF Refused, Received, BlocksKeep
  <2> QED BY <2>1, <2>2, BlocksKept
<1> QED BY <1>1, <1>2

LEMMA ServerKeeps ==
  ASSUME ConstantsOK, IInv, NEW k \in Servers,
         Connect(k) \/ Disconnected(k) \/ Register(k) \/ ResponseCheck(k) \/ Respond(k)
  PROVE  IInv'
<1> USE DEF IInv
<1>1. BlocksKeep
  BY DEF Connect, Disconnected, Register, ResponseCheck, Respond, BlocksKeep, players
<1>2. CASE Connect(k)
  <2>1. TypeOK'
    BY <1>2 DEF Connect, TypeOK, players, monitor
  <2> QED BY <1>1, <2>1, BlocksKept
<1>3. CASE Disconnected(k)
  <2>1. TypeOK'
    <3>1. /\ link' \in [Servers -> [id : Nat, up : BOOLEAN]]
          /\ wire' \in [Servers -> Seq(Accounts)]
      <4>1. link \in [Servers -> [id : Nat, up : BOOLEAN]] /\ wire \in [Servers -> Seq(Accounts)]
        BY DEF TypeOK
      <4>2. [link[k] EXCEPT !.up = FALSE] \in [id : Nat, up : BOOLEAN]
        BY <4>1
      <4> QED BY <1>3, <4>1, <4>2 DEF Disconnected
    <3> QED BY <1>3, <3>1 DEF Disconnected, TypeOK, players, monitor
  <2> QED BY <1>1, <2>1, BlocksKept
<1>4. CASE Register(k)
  <2>1. TypeOK'
    <3>1. group' \in [Servers -> Nat] /\ first' \in 0..2 /\ hung' \in BOOLEAN
      <4>1. /\ group \in [Servers -> Nat] /\ first \in 0..2 /\ hung \in BOOLEAN /\ link[k].id \in Nat
        BY DEF TypeOK
      <4>2. group' \in [Servers -> Nat] /\ first' \in 0..2
        BY <1>4, <4>1 DEF Register
      <4>3. hung' \in BOOLEAN
        BY <1>4, <4>1 DEF Register
      <4> QED BY <4>2, <4>3
    <3> QED BY <1>4, <3>1 DEF Register, TypeOK, players, monitor
  <2> QED BY <1>1, <2>1, BlocksKept
<1>5. CASE ResponseCheck(k)
  <2>1. Used \subseteq Players
    BY DEF Used, TypeOK
  <2>2. found' \in [Servers -> Players \cup {NoPlayer}] /\ crash' \in BOOLEAN
    <3>1. CASE \E p \in Used : found' = [found EXCEPT ![k] = p] /\ UNCHANGED crash
      BY <2>1, <3>1 DEF TypeOK
    <3>2. CASE UNCHANGED found /\ crash' \in BOOLEAN
      BY <3>2 DEF TypeOK
    <3> QED BY <1>5, <3>1, <3>2 DEF ResponseCheck
  <2>3. wire' \in [Servers -> Seq(Accounts)]
    BY <1>5 DEF ResponseCheck, TypeOK
  <2>4. TypeOK'
    BY <1>5, <2>2, <2>3 DEF ResponseCheck, TypeOK, players, monitor
  <2> QED BY <1>1, <2>4, BlocksKept
<1>6. CASE Respond(k)
  <2>1. TypeOK'
    BY <1>6 DEF Respond, Tell, TypeOK, players, lan, monitor
  <2> QED BY <1>1, <2>1, BlocksKept
<1> QED BY <1>2, <1>3, <1>4, <1>5, <1>6

LEMMA RegisterOtherKeeps ==
  ASSUME ConstantsOK, IInv, RegisterOther
  PROVE  IInv'
<1>1. TypeOK'
  <2>1. first' \in 0..2 /\ hung' \in BOOLEAN
    <3>1. first \in 0..2 /\ hung \in BOOLEAN
      BY DEF IInv, TypeOK
    <3>2. first' \in 0..2
      BY <3>1 DEF RegisterOther
    <3>3. hung' \in BOOLEAN
      BY <3>1 DEF RegisterOther
    <3> QED BY <3>2, <3>3
  <2> QED BY <2>1 DEF RegisterOther, IInv, TypeOK, players, monitor
<1>2. BlocksKeep
  BY DEF RegisterOther, BlocksKeep
<1> QED BY <1>1, <1>2, BlocksKept

LEMMA MonitorKeeps ==
  ASSUME ConstantsOK, IInv, Monitor
  PROVE  IInv'
<1> USE DEF IInv
<1>1. CASE MonitorRead
  <2>1. Older \in [Players -> -1..Timeout + 1]
    BY DEF Older, TypeOK, ConstantsOK
  <2>2. TypeOK'
    BY <1>1, <2>1 DEF MonitorRead, TypeOK, players, lan
  <2>3. BlocksKeep
    BY <1>1 DEF MonitorRead, BlocksKeep
  <2> QED BY <2>2, <2>3, BlocksKept
<1>2. CASE MonitorCollect
  <2>1. age' \in [Players -> -1..Timeout + 1]
    BY <1>2 DEF MonitorCollect, TypeOK, ConstantsOK
  <2>2. late' \subseteq Players
    BY <1>2 DEF MonitorCollect, Used, TypeOK
  <2>3. TypeOK'
    BY <1>2, <2>1, <2>2 DEF MonitorCollect, TypeOK, players, lan
  <2>4. BlocksKeep
    BY <1>2 DEF MonitorCollect, BlocksKeep
  <2> QED BY <2>3, <2>4, BlocksKept
<1>3. CASE MonitorDisconnect
  <2>1. CASE late = {}
    <3>1. TypeOK'
      BY <1>3, <2>1 DEF MonitorDisconnect, TypeOK, players, lan
    <3>2. BlocksKeep
      BY <1>3, <2>1 DEF MonitorDisconnect, BlocksKeep
    <3> QED BY <3>1, <3>2, BlocksKept
  <2>2. CASE late # {}
    <3>1. PICK p \in late : late' = late \ {p} /\ ClientDisconnect(owner[p]) /\ UNCHANGED mon
      BY <1>3, <2>2 DEF MonitorDisconnect
    <3>2. /\ sess' \in [Clients -> {"none", "open", "shut", "gone"}]
          /\ \A c \in Clients : sess[c] \in {"open", "shut"} <=> sess'[c] \in {"open", "shut"}
      BY <3>1 DEF ClientDisconnect, TypeOK
    <3>3. TypeOK'
      BY <1>3, <3>1, <3>2 DEF MonitorDisconnect, TypeOK, players, lan
    <3>4. BlocksKeep
      BY <1>3, <3>2 DEF MonitorDisconnect, BlocksKeep
    <3> QED BY <3>3, <3>4, BlocksKept
  <2> QED BY <2>1, <2>2
<1> QED BY <1>1, <1>2, <1>3 DEF Monitor

-----------------------------------------------------------------------------
(* The theorems *)

LEMMA InitInv ==
  ASSUME ConstantsOK, Init
  PROVE  IInv
<1>1. TypeOK
  <2>1. /\ age \in [Players -> -1..Timeout + 1] /\ req \in 0..MaxRequests
        /\ link \in [Servers -> [id : Nat, up : BOOLEAN]]
        /\ wire \in [Servers -> Seq(Accounts)] /\ group \in [Servers -> Nat]
    BY DEF Init, ConstantsOK, Nobody
  <2>2. first \in 0..2 /\ loginWait \in Nat /\ late \subseteq Players
    BY DEF Init
  <2>3. hung \in BOOLEAN /\ crash \in BOOLEAN
    BY DEF Init
  <2> QED BY <2>1, <2>2, <2>3 DEF Init, TypeOK
<1>2. MapExact /\ Asking
  BY DEF Init, MapExact, Asking
<1>3. WaitEnough
  <2>1. Waiters = {} /\ loginWait = 0
    BY DEF Init, Waiters
  <2> QED BY <2>1, FS_EmptySet DEF WaitEnough
<1> QED BY <1>1, <1>2, <1>3 DEF IInv

LEMMA StepInv ==
  ASSUME ConstantsOK, IInv, [Next]_vars
  PROVE  IInv'
<1>1. CASE UNCHANGED vars
  <2>1. TypeOK'
    BY <1>1 DEF vars, players, lan, monitor, IInv, TypeOK
  <2>2. BlocksKeep
    BY <1>1 DEF vars, players, BlocksKeep
  <2> QED BY <2>1, <2>2, BlocksKept
<1>2. ASSUME NEW c \in Clients,
             InsertPlayer(c) \/ Ends(c) \/ Refused(c) \/ ReqLogin(c) \/ Handler(c)
      PROVE  IInv'
  BY <1>2, InsertKeeps, ClientKeeps, RequestKeeps, ServerGroupKeeps, LeaveKeeps DEF Handler, OnSend
<1>3. ASSUME NEW k \in Servers,
             Connect(k) \/ Disconnected(k) \/ Register(k) \/ ResponseCheck(k) \/ Respond(k)
      PROVE  IInv'
  BY <1>3, ServerKeeps
<1> QED BY <1>1, <1>2, <1>3, RegisterOtherKeeps, MonitorKeeps DEF Next

\* In every behaviour of the login server the player map, the requests under way and the count
\* of those who wait agree.
THEOREM Invariance == Spec => []IInv
<1>1. Init => IInv
  BY InitInv, ConstantsOK
<1>2. IInv /\ [Next]_vars => IInv'
  BY StepInv, ConstantsOK
<1> QED BY <1>1, <1>2, PTL DEF Spec

\* Every variable of the login server keeps its type: _Monitor_LoginWait, which is
\* decremented at OnClientLeave, never goes below zero.
THEOREM TypeCorrect == Spec => []TypeOK
BY Invariance, PTL DEF IInv

\* The player map has exactly one block of the pool for each client between OnClientJoin
\* and OnClientLeave, and the block says that client.
THEOREM MapAlways == Spec => []MapExact
BY Invariance, PTL DEF IInv

\* _Monitor_LoginWait is never lower than the number of clients that asked and have not
\* left: OnClientLeave takes off only clients that were counted.
THEOREM WaitAlways == Spec => []WaitEnough
BY Invariance, PTL DEF IInv
=============================================================================
