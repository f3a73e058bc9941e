----------------------------- MODULE LoginServer -----------------------------
(***************************************************************************)
(* CLoginServer and CLanServer_Login (LoginServer/LoginServer), with what  *)
(* the chat and the game server answer (LanClient_Chat.cpp,                *)
(* LanClient_Login.cpp). A client asks; the account database is read; its  *)
(* key goes to the servers of group 1; their answers are matched to a      *)
(* player by account number; whatever has been sent, the client is         *)
(* disconnected. The monitor thread disconnects who has waited too long.   *)
(*                                                                         *)
(* The network is what NetSession promises: OnClientJoin, then OnRecv one  *)
(* at a time, then OnClientLeave, with no call of the client in progress.  *)
(* A step is one critical section of _srwLock or of the LAN server's lock, *)
(* with what its thread alone looks at before and after. ResponseCheck and *)
(* the monitor use an st_PLAYER after they gave the lock back: by then it  *)
(* may be in the pool, or another client's. _bGameServerRecv and           *)
(* _bChatServerRecv, which are set and never read, are left out.           *)
(* A definition marked Mutant stands for a plausible mistake in the one    *)
(* that follows it.                                                        *)
(***************************************************************************)
EXTENDS Integers, Sequences, FiniteSets

CONSTANTS
  Clients, NoClient,
  Accounts, NoAccount,    \* NoAccount is -1
  Players, NoPlayer,      \* st_PLAYERs of _playerPool; NULL
  Servers,                \* the servers of group 1: chat and game
  Timeout,                \* dfPLAYER_TIMEOUT_TICK, in rounds of the monitor thread
  MaxRequests, MaxLinks   \* bounds: requests, connections of a server

ASSUME ConstantsOK ==
  /\ IsFiniteSet(Clients) /\ NoClient \notin Clients
  /\ NoAccount \notin Accounts
  /\ IsFiniteSet(Servers) /\ IsFiniteSet(Players) /\ NoPlayer \notin Players /\ Cardinality(Players) >= Cardinality(Clients)
  /\ Timeout \in Nat
  /\ MaxRequests \in Nat /\ MaxLinks \in Nat

VARIABLES
  sess,                   \* the session of each client
  map,                    \* _playerMap
  owner, account, recvFlag, \* _clientID, _accountNo, _bRecvFlag of st_PLAYER
  age,                    \* rounds since _timeoutTick (-1: after currTick)
  loginWait,              \* _Monitor_LoginWait
  req, op,                \* requests so far; where PacketProc_ReqLogin is
  first, group,           \* number of the first of _sessionSetList; the ids in the set of group 1
  link, wire,             \* of each server: its connection, requests and answers under way
  found,                  \* ResponseCheck: pPlayer, per server
  mon, late,              \* the monitor thread: step, disconnectClient
  hung, crash,            \* a thread is in FindSessionSet for ever; the process has ended
  told                    \* ghost: the last status a client was sent

players == <<map, owner, account, recvFlag>>
lan     == <<first, group, link, wire>>
monitor == <<mon, late>>
vars    == <<sess, players, age, loginWait, req, op, lan, found, monitor, hung, crash, told>>

Nobody == 0     \* an id that was never set

TypeOK ==
  /\ sess \in [Clients -> {"none", "open", "shut", "gone"}]
  /\ map \in [Clients -> Players \cup {NoPlayer}]
  /\ owner \in [Players -> Clients \cup {NoClient}] /\ account \in [Players -> Accounts \cup {NoAccount}]
  /\ recvFlag \in [Players -> BOOLEAN] /\ age \in [Players -> -1..Timeout + 1]
  /\ loginWait \in Nat /\ req \in 0..MaxRequests
  /\ op \in [Clients -> {"idle", "asked"}]
  /\ first \in 0..2 /\ group \in [Servers -> Nat] /\ link \in [Servers -> [id : Nat, up : BOOLEAN]]
  /\ wire \in [Servers -> Seq(Accounts)]
  /\ found \in [Servers -> Players \cup {NoPlayer}]
  /\ mon \in {"sleep", "read", "disconnect"} /\ late \subseteq Players
  /\ hung \in BOOLEAN /\ crash \in BOOLEAN
  /\ told \in [Clients -> {"nothing", "fail", "ok"}]

Init ==
  /\ sess = [c \in Clients |-> "none"] /\ map = [c \in Clients |-> NoPlayer]
  /\ owner = [p \in Players |-> NoClient] /\ account = [p \in Players |-> NoAccount]
  /\ recvFlag = [p \in Players |-> FALSE] /\ age = [p \in Players |-> 0]
  /\ loginWait = 0 /\ req = 0
  /\ op = [c \in Clients |-> "idle"]
  /\ first = 0 /\ group = [k \in Servers |-> Nobody]
  /\ link = [k \in Servers |-> [id |-> Nobody, up |-> FALSE]]
  /\ wire = [k \in Servers |-> <<>>]
  /\ found = [k \in Servers |-> NoPlayer]
  /\ mon = "sleep" /\ late = {}
  /\ hung = FALSE /\ crash = FALSE
  /\ told = [c \in Clients |-> "nothing"]

Used == {map[c] : c \in Clients} \ {NoPlayer}

-----------------------------------------------------------------------------
(* Clients come and go *)

\* What InsertPlayer sets. Nobody looks at it in a block of the pool, but at _clientID.
Fresh(p) ==
  /\ account' = [account EXCEPT ![p] = NoAccount] /\ recvFlag' = [recvFlag EXCEPT ![p] = FALSE]

\* _timeoutTick = GetTickCount64(), perhaps a tick after the monitor read the clock.
Stamp(p) == \E t \in IF mon = "read" THEN {-1, 0} ELSE {0} : age' = [age EXCEPT ![p] = t]

\* OnClientJoin, InsertPlayer: any block of the pool.
InsertPlayer(c) ==
  /\ sess[c] = "none" /\ sess' = [sess EXCEPT ![c] = "open"]
  /\ \E p \in Players \ Used :
       map' = [map EXCEPT ![c] = p] /\ owner' = [owner EXCEPT ![p] = c] /\ Fresh(p) /\ Stamp(p)
  /\ UNCHANGED <<loginWait, req, op, lan, found, monitor, hung, crash, told>>

\* ClientDisconnect, with an id that may be of a client that has left
ClientDisconnect(c) ==
  sess' = IF c = NoClient THEN sess ELSE [sess EXCEPT ![c] = IF @ = "open" THEN "shut" ELSE @]

\* The client closes the connection, or OnSend: something was sent.
Ends(c) ==
  /\ sess[c] = "open" /\ ClientDisconnect(c)
  /\ UNCHANGED <<players, age, loginWait, req, op, lan, found, monitor, hung, crash, told>>

OnSend(c) == told[c] # "nothing" /\ Ends(c)

\* Mutant: the block goes back to the pool, the entry of the map stays.
ForgetBlock(c) ==
  /\ sess' = [sess EXCEPT ![c] = "gone"] /\ told' = [told EXCEPT ![c] = "nothing"]
  /\ UNCHANGED map /\ Fresh(map[c]) /\ age' = [age EXCEPT ![map[c]] = 0]

\* What RemovePlayer does
Forget(c) ==
  /\ sess' = [sess EXCEPT ![c] = "gone"] /\ told' = [told EXCEPT ![c] = "nothing"]
  /\ map' = [map EXCEPT ![c] = NoPlayer] /\ Fresh(map[c]) /\ age' = [age EXCEPT ![map[c]] = 0]

\* The last reference is dropped: the player is found, its flag read, and it is removed.
OnClientLeave(c) ==
  /\ sess[c] = "shut" /\ op[c] = "idle"
  /\ IF map[c] = NoPlayer THEN crash' = TRUE /\ UNCHANGED <<sess, told, map, account, recvFlag, age, loginWait>>
     ELSE /\ Forget(c) /\ UNCHANGED crash
          /\ loginWait' = IF recvFlag[map[c]] THEN loginWait - 1 ELSE loginWait
  /\ UNCHANGED <<owner, req, op, lan, found, monitor, hung>>

-----------------------------------------------------------------------------
(* PacketProc_ReqLogin *)

\* A packet was received. OnRecv goes on with what was received when the client is being
\* disconnected, by OnSend or by the monitor, and OnClientLeave waits for it.
Received(c) == sess[c] \in {"open", "shut"} /\ op[c] = "idle" /\ req < MaxRequests /\ req' = req + 1

\* SendPacket to a client
Tell(c, status) == told' = IF sess[c] = "open" THEN [told EXCEPT ![c] = status] ELSE told

\* The database has another key for the account, or the account is in use.
Refused(c) ==
  /\ Received(c) /\ Tell(c, "fail")
  /\ UNCHANGED <<sess, players, age, loginWait, op, lan, found, monitor, hung, crash>>

\* The key is right: the player is found, and filled in outside the lock.
ReqLogin(c) ==
  /\ Received(c) /\ loginWait' = loginWait + 1
  /\ IF map[c] = NoPlayer THEN UNCHANGED <<account, age, op>>
     ELSE /\ \E a \in Accounts : account' = [account EXCEPT ![map[c]] = a]
          /\ Stamp(map[c]) /\ op' = [op EXCEPT ![c] = "asked"]
  /\ UNCHANGED <<sess, map, owner, recvFlag, lan, found, monitor, hung, crash, told>>

\* SendPacket over the LAN: dropped unless the id is that of the connection.
LanSend(a) ==
  [k \in Servers |-> IF link[k].up /\ group[k] = link[k].id THEN Append(wire[k], a) ELSE wire[k]]

\* SendPacket_ServerGroup(1): FindSessionSet does not get past the first set of the list. An
\* id of the set that was never set may be the index of anything.
ServerGroup(c) ==
  /\ op[c] = "asked" /\ ~hung
  /\ IF first = 2 THEN hung' = TRUE /\ UNCHANGED <<op, wire, crash, recvFlag>>
     ELSE /\ op' = [op EXCEPT ![c] = "idle"] /\ recvFlag' = [recvFlag EXCEPT ![map[c]] = TRUE] /\ UNCHANGED hung
          /\ wire' = IF first = 1 THEN LanSend(account[map[c]]) ELSE wire
          /\ crash' \in {FALSE, first = 1 /\ \E k \in Servers : group[k] = Nobody}
  /\ UNCHANGED <<sess, map, owner, account, age, loginWait, req, first, group, link, found, monitor, told>>

-----------------------------------------------------------------------------
(* The servers behind the LAN. They keep the key and answer at once with the account number:  *)
(* a request and its answer are one thing on the wire.                                        *)

\* CLanClient connects, and says so (OnEnterJoinServer); Register is its packet's turn.
Connect(k) ==
  /\ ~link[k].up /\ link[k].id < MaxLinks /\ link' = [link EXCEPT ![k] = [id |-> @.id + 1, up |-> TRUE]]
  /\ UNCHANGED <<sess, players, age, loginWait, req, op, first, group, wire, found, monitor, hung, crash, told>>

\* The connection is lost with all that is under way. CLanServer does not call OnClientLeave.
Disconnected(k) ==
  /\ link[k].up /\ link' = [link EXCEPT ![k].up = FALSE]
  /\ wire' = [wire EXCEPT ![k] = <<>>]
  /\ UNCHANGED <<sess, players, age, loginWait, req, op, first, group, found, monitor, hung, crash, told>>

\* PacketProc_LoginServerLogin of a server of group 1, under the exclusive lock
Register(k) ==
  /\ ~hung /\ link[k].up /\ group[k] # link[k].id
  /\ IF first = 2 THEN hung' = TRUE /\ UNCHANGED <<first, group>>
     ELSE first' = 1 /\ group' = [group EXCEPT ![k] = link[k].id] /\ UNCHANGED hung
  /\ UNCHANGED <<sess, players, age, loginWait, req, op, link, wire, found, monitor, crash, told>>

\* A server of group 2 does the same.
RegisterOther ==
  /\ ~hung /\ first # 2
  /\ IF first = 0 THEN first' = 2 /\ UNCHANGED hung ELSE hung' = TRUE /\ UNCHANGED first
  /\ UNCHANGED <<sess, players, age, loginWait, req, op, group, link, wire, found, monitor, crash, told>>

\* PacketProc_NewClientLogin and the search of ResponseCheck: a player with the account, or
\* else the last of the map. The map is empty: pPlayer is NULL, and so may _playerMap.end()
\* say; if it does not, NULL is followed.
ResponseCheck(k) ==
  LET having == {p \in Used : account[p] = Head(wire[k])} IN
  /\ ~hung /\ found[k] = NoPlayer /\ wire[k] # <<>> /\ wire' = [wire EXCEPT ![k] = Tail(@)]
  /\ \/ \E p \in IF having # {} THEN having ELSE Used : found' = [found EXCEPT ![k] = p] /\ UNCHANGED crash
     \/ Used = {} /\ UNCHANGED found /\ crash' \in BOOLEAN
  /\ UNCHANGED <<sess, players, age, loginWait, req, op, first, group, link, monitor, hung, told>>

\* SendPacket_ResponseLogin, to whoever has the st_PLAYER now
Respond(k) ==
  /\ found[k] # NoPlayer /\ found' = [found EXCEPT ![k] = NoPlayer]
  /\ Tell(owner[found[k]], "ok")
  /\ UNCHANGED <<sess, map, owner, account, recvFlag, age, loginWait, req, op, lan, monitor, hung, crash>>

-----------------------------------------------------------------------------
(* Time, and the monitor thread *)

Older == [p \in Players |-> IF p \in Used /\ age[p] <= Timeout THEN age[p] + 1 ELSE age[p]]

\* Sleep, and currTick = GetTickCount64()
MonitorRead ==
  /\ mon = "sleep" /\ mon' = "read" /\ age' = Older
  /\ UNCHANGED <<sess, players, loginWait, req, op, lan, found, late, hung, crash, told>>

\* Mutant: the difference has a sign, and the comparison is the wrong way round.
TimedOutNever(p) == age[p] < 0

\* currTick - _timeoutTick, unsigned: a tick after currTick is long ago.
TimedOut(p) == age[p] > Timeout \/ age[p] < 0

\* Under the lock; fewer than 50.
MonitorCollect ==
  /\ mon = "read" /\ mon' = "disconnect"
  /\ late' = {p \in Used : TimedOut(p)}
  /\ age' = [p \in Players |-> IF age[p] < 0 THEN 0 ELSE age[p]]
  /\ UNCHANGED <<sess, players, loginWait, req, op, lan, found, hung, crash, told>>

\* Outside the lock, with what the st_PLAYERs say now.
MonitorDisconnect ==
  /\ mon = "disconnect"
  /\ IF late = {} THEN mon' = "sleep" /\ UNCHANGED <<sess, late>>
     ELSE \E p \in late : late' = late \ {p} /\ ClientDisconnect(owner[p]) /\ UNCHANGED mon
  /\ UNCHANGED <<players, age, loginWait, req, op, lan, found, hung, crash, told>>

-----------------------------------------------------------------------------
Handler(c) == ServerGroup(c) \/ OnSend(c) \/ OnClientLeave(c)

Monitor == MonitorRead \/ MonitorCollect \/ MonitorDisconnect

Next ==
  /\ ~crash
  /\ \/ \E c \in Clients : InsertPlayer(c) \/ Ends(c) \/ Refused(c) \/ ReqLogin(c) \/ Handler(c)
     \/ \E k \in Servers : \/ Connect(k) \/ Disconnected(k) \/ Register(k)
                           \/ ResponseCheck(k) \/ Respond(k)
     \/ RegisterOther \/ Monitor

Spec == Init /\ [][Next]_vars

\* Calls go on, the monitor thread loops, and time passes while it sleeps. Nothing is assumed
\* of clients, of connections or of the servers behind the LAN.
FairSpec ==
  /\ Spec
  /\ \A c \in Clients : WF_vars(~crash /\ Handler(c))
  /\ WF_vars(~crash /\ Monitor)

-----------------------------------------------------------------------------
(* Properties *)

\* The map has one st_PLAYER for each client between its join and its leave, and it says
\* that client: OnClientLeave and PacketProc_ReqLogin never miss it.
MapExact ==
  /\ \A c \in Clients : map[c] # NoPlayer <=> sess[c] \in {"open", "shut"}
  /\ \A c \in Clients : map[c] # NoPlayer => owner[map[c]] = c

\* Clients that have asked and not left. _Monitor_LoginWait is meant to be their number
\* ("clients that wait after their login packet was received", LoginServer.h:133), but a
\* client that asks twice is counted twice and taken off once: it is never too low.
Waiters == {c \in Clients : map[c] # NoPlayer /\ (recvFlag[map[c]] \/ op[c] = "asked")}
WaitEnough == Cardinality(Waiters) <= loginWait

\* Whoever connects leaves, answered or not, once it stops asking (each request starts its time
\* anew, bound MaxRequests): the monitor misses nobody, although the st_PLAYERs it has collected
\* change hands before it uses them. Unless the LAN lock is held for ever.
EveryoneLeaves == \A c \in Clients : sess[c] = "open" ~> (sess[c] = "gone" \/ hung \/ crash)
=============================================================================
