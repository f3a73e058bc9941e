------------------------------ MODULE ChatServer ------------------------------
(***************************************************************************)
(* CChatServer (NetServer/NetServer/ChatServer.cpp). Network threads put   *)
(* the events of the sessions into an inbox; one update thread takes them  *)
(* out and keeps the players and the sectors. The connection to the login  *)
(* server (CLanClient_Chat) adds session keys under a lock.                *)
(*                                                                         *)
(* The events of an id come in the order NetSession promises (EventOrder), *)
(* and the inbox is taken to be first in, first out (see LockFreeQueue).   *)
(* A message is handled in one step: no other thread sees players or       *)
(* sectors, and the keys are looked up once. A definition marked Mutant    *)
(* stands for a plausible mistake in the one that follows it.              *)
(***************************************************************************)
EXTENDS Integers, Sequences, FiniteSets

CONSTANTS
  Clients,              \* client ids, each used for one connection
  Objs, NoObj,          \* st_PLAYER objects of _MemoryPool_Player
  Accounts, NoAccount,  \* NoAccount stands for a negative number
  Keys, NoKey,
  MaxX, MaxY,           \* dfSECTOR_X_MAX, dfSECTOR_Y_MAX
  Packets,              \* packets as the update thread reads them
  MaxInbox,             \* bound: messages that wait in the inbox
  MaxPackets, MaxKeys   \* bounds: packets; times one key is given for one account

ASSUME ConstantsOK ==
  /\ NoObj \notin Objs /\ NoAccount \notin Accounts /\ NoKey \notin Keys
  /\ IsFiniteSet(Clients) /\ IsFiniteSet(Objs)
  /\ MaxX \in Nat \ {0} /\ MaxY \in Nat \ {0}
  /\ MaxInbox \in Nat \ {0} /\ MaxPackets \in Nat /\ MaxKeys \in Nat
  /\ Packets \subseteq [op : {"login", "move", "chat", "heartbeat", "unknown"},
                       account : Accounts \cup {NoAccount}, key : Keys, x : Int, y : Int,
                       long : BOOLEAN, room : {"none", "word", "number", "key"}]

VARIABLES
  joined, left,         \* ids the session layer has reported
  inbox,                \* _UpdateMessageQueue
  player,               \* _PlayerMap
  account, pos,         \* AccountNo and Sector of every st_PLAYER
  sector,               \* _Sector: the list of every sector
  key,                  \* _sessionKeyMap
  cut,                  \* ids ClientDisconnect was called for
  down,                 \* the process has ended
  \* ghosts: whom the last step sent a chat message, packets whose player was not found,
  \* how often each key was given; packets so far
  sent, lost, given, packets

netVars == <<joined, left, inbox, packets>>
content == <<player, account, pos, sector>>
vars    == <<netVars, content, key, cut, down, sent, lost, given>>

Sectors == (0..MaxX - 1) \X (0..MaxY - 1)
Default == <<-1, -1>>   \* dfSECTOR_X_DEFAULT, dfSECTOR_Y_DEFAULT
Messages == [type : {"JOIN", "LEAVE"}, id : Clients]
              \cup [type : {"PACKET"}, id : Clients, packet : Packets]

TypeOK ==
  /\ joined \subseteq Clients /\ left \subseteq joined
  /\ inbox \in Seq(Messages)
  /\ player \in [Clients -> Objs \cup {NoObj}]
  /\ account \in [Objs -> Accounts \cup {NoAccount}]
  /\ pos \in [Objs -> Sectors \cup {Default}]
  /\ sector \in [Sectors -> Seq(Clients)]
  /\ key \in [Accounts -> Keys \cup {NoKey}]
  /\ cut \subseteq Clients /\ down \in BOOLEAN
  /\ lost \in Nat /\ packets \in Nat
  /\ sent \subseteq Clients
  /\ given \in [Accounts \X Keys -> Nat]

\* A new st_PLAYER is not initialised: its AccountNo may be any number.
Init ==
  /\ joined = {} /\ left = {} /\ inbox = <<>> /\ packets = 0
  /\ player = [c \in Clients |-> NoObj]
  /\ account \in [Objs -> Accounts \cup {NoAccount}] /\ pos = [o \in Objs |-> Default]
  /\ sector = [s \in Sectors |-> <<>>]
  /\ key = [a \in Accounts |-> NoKey]
  /\ cut = {} /\ down = FALSE /\ sent = {} /\ lost = 0
  /\ given = [x \in Accounts \X Keys |-> 0]

-----------------------------------------------------------------------------
(* Network threads *)

NoSend == sent' = {}

EnqueueMessage(m) == Len(inbox) < MaxInbox /\ inbox' = Append(inbox, m)

OnClientJoin(c) ==
  /\ c \notin joined
  /\ joined' = joined \cup {c}
  /\ EnqueueMessage([type |-> "JOIN", id |-> c])
  /\ NoSend /\ UNCHANGED <<left, packets, content, key, cut, down, lost, given>>

OnRecv(c) ==
  /\ c \in joined \ left /\ packets < MaxPackets
  /\ \E p \in Packets : EnqueueMessage([type |-> "PACKET", id |-> c, packet |-> p])
  /\ packets' = packets + 1
  /\ NoSend /\ UNCHANGED <<joined, left, content, key, cut, down, lost, given>>

OnClientLeave(c) ==
  /\ c \in joined \ left
  /\ left' = left \cup {c}
  /\ EnqueueMessage([type |-> "LEAVE", id |-> c])
  /\ NoSend /\ UNCHANGED <<joined, packets, content, key, cut, down, lost, given>>

\* CLanClient_Chat: the login server announces a client.
AddSessionKey(a, k) ==
  /\ given[<<a, k>>] < MaxKeys
  /\ key' = [key EXCEPT ![a] = k]
  /\ given' = [given EXCEPT ![<<a, k>>] = @ + 1]
  /\ NoSend /\ UNCHANGED <<netVars, content, cut, down, lost>>

-----------------------------------------------------------------------------
(* Sectors *)

ValidSector(s) == s \in Sectors

Without(q, c) == LET i == CHOOSE i \in DOMAIN q : q[i] = c
                 IN  SubSeq(q, 1, i - 1) \o SubSeq(q, i + 1, Len(q))

Listed(c, s) == ValidSector(s) /\ \E i \in DOMAIN sector[s] : sector[s][i] = c

\* The result of LeaveSector, and the sectors and the position it leaves behind.
CanLeave(c, s)    == s = Default \/ Listed(c, s)
SectorsLess(c, s) == IF Listed(c, s) THEN [sector EXCEPT ![s] = Without(@, c)] ELSE sector

\* Mutant: the last column is taken for the outside.
AroundNarrow(s) ==
  {t \in Sectors : t[1] \in s[1] - 1 .. s[1] + 1 /\ t[2] \in s[2] - 1 .. s[2] + 1 /\ t[1] < MaxX - 1}

\* GetSectorAround: the three by three sectors around s that exist.
Around(s) ==
  {<<s[1] - 1 + i, s[2] - 1 + j>> : i \in 0..2, j \in 0..2} \cap Sectors

-----------------------------------------------------------------------------
(* The update thread *)

\* A player gets an object that keeps the AccountNo of its last use.
JoinPlayer(c) ==
  /\ \E o \in Objs \ {player[d] : d \in Clients} :
       /\ player' = [player EXCEPT ![c] = o]
       /\ pos' = [pos EXCEPT ![o] = Default]
  /\ UNCHANGED <<account, sector>>

\* Mutant: the player is erased, its sector keeps it.
LeavePlayerOnly(c) ==
  /\ player' = [player EXCEPT ![c] = NoObj]
  /\ UNCHANGED <<account, pos, sector>>

\* Mutant: a player that never entered a sector is not erased.
LeavePlayerPlaced(c) ==
  IF player[c] # NoObj /\ Listed(c, pos[player[c]])
    THEN /\ sector' = SectorsLess(c, pos[player[c]])
         /\ pos' = [pos EXCEPT ![player[c]] = Default]
         /\ player' = [player EXCEPT ![c] = NoObj]
         /\ UNCHANGED account
    ELSE UNCHANGED content

LeavePlayer(c) ==
  IF player[c] # NoObj
    THEN /\ sector' = SectorsLess(c, pos[player[c]])
         /\ pos' = [pos EXCEPT ![player[c]] = IF Listed(c, @) THEN Default ELSE @]
         /\ player' = [player EXCEPT ![c] = NoObj]
         /\ UNCHANGED account
    ELSE UNCHANGED content

\* CheckSessionKey: the right key is good once; any other leaves the map alone.
CheckSessionKey(a, k) ==
  IF k = key[a]
    THEN key' = [key EXCEPT ![a] = NoKey]
    ELSE UNCHANGED key

NoCheck == UNCHANGED key

Disconnect(c) == cut' = cut \cup {c} /\ UNCHANGED down
Keep          == UNCHANGED <<cut, down>>

\* CPacket::Dequeue raises exception_PacketOut when a field is larger than the room that
\* is left in the buffer BEHIND the packet; it does not look at what is left OF the packet.
\* So a packet that ends early is read on into what an earlier use of the buffer left
\* there, which may be anything, and a packet that fills its buffer is refused, although
\* it has all its fields.
HasType(p)   == p.room # "none"               \* room for a WORD
HasNumber(p) == p.room \in {"number", "key"}  \* for the account, and so for the WORDs after it
HasKey(p)    == p.room = "key"                \* for szID, szNick and the session key

\* The account is the player's from the moment it is read, also when no key follows or
\* the key is refused.
LoginRequest(c, p) ==
  /\ \/ /\ ~HasNumber(p) \/ p.account = NoAccount
        /\ Disconnect(c) /\ NoCheck /\ UNCHANGED account
     \/ /\ HasNumber(p) /\ p.account # NoAccount
        /\ account' = [account EXCEPT ![player[c]] = p.account]
        /\ IF HasKey(p) THEN CheckSessionKey(p.account, p.key) /\ Keep
                        ELSE NoCheck /\ Disconnect(c)
  /\ NoSend /\ UNCHANGED <<player, pos, sector>>

OwnAccount(c, p) == HasNumber(p) /\ p.account = account[player[c]]

\* Leave the old sector, then enter the new one if it exists.
MoveSector(c, p) ==
  LET o == player[c]
      s == <<p.x, p.y>>
      less == SectorsLess(c, pos[o])
      ok == OwnAccount(c, p) /\ CanLeave(c, pos[o])
  IN
  /\ \/ /\ ok /\ ValidSector(s)
        /\ sector' = [less EXCEPT ![s] = Append(@, c)]
        /\ pos' = [pos EXCEPT ![o] = s]
        /\ Keep
     \/ /\ ok /\ ~ValidSector(s)
        /\ sector' = less /\ pos' = [pos EXCEPT ![o] = Default]
        /\ Disconnect(c)
     \/ ~ok /\ Disconnect(c) /\ UNCHANGED <<sector, pos>>
  /\ NoSend /\ NoCheck /\ UNCHANGED <<player, account>>

\* SendPacket_Around: to every id in the lists of the sectors around, the sender's too.
Deliver(c) ==
  sent' = {d \in Clients : \E s \in Around(pos[player[c]]) : Listed(d, s)}

\* wMessageLen is the client's. If the reply gets longer than its buffer, Enqueue raises
\* exception_PacketIn, which nobody catches: the process ends.
ChatMessage(c, p) ==
  /\ \/ OwnAccount(c, p) /\ ~p.long /\ Deliver(c) /\ Keep
     \/ OwnAccount(c, p) /\ p.long /\ down' = TRUE /\ NoSend /\ UNCHANGED cut
     \/ ~OwnAccount(c, p) /\ NoSend /\ Disconnect(c)
  /\ NoCheck /\ UNCHANGED content

Heartbeat(c) == NoSend /\ NoCheck /\ Keep /\ UNCHANGED content

\* exception_PacketOut before the type is known.
NoType(c) == NoSend /\ NoCheck /\ Disconnect(c) /\ UNCHANGED content

\* The default case breaks with bFailed still true: the packet is dropped, and the
\* client stays, although the comment there has it disconnected.
Unknown(c) == NoSend /\ NoCheck /\ Keep /\ UNCHANGED content

PacketProc(c, p) ==
  IF player[c] = NoObj
    THEN /\ lost' = lost + 1 /\ Disconnect(c)
         /\ NoSend /\ NoCheck /\ UNCHANGED content
    ELSE /\ \/ ~HasType(p) /\ NoType(c)
            \/ /\ HasType(p)
               /\ \/ p.op = "login" /\ LoginRequest(c, p)
                  \/ p.op = "move" /\ MoveSector(c, p)
                  \/ p.op = "chat" /\ ChatMessage(c, p)
                  \/ p.op = "heartbeat" /\ Heartbeat(c)
                  \/ p.op = "unknown" /\ Unknown(c)
         /\ UNCHANGED lost

\* UpdateThread_update: the oldest message.
Update ==
  /\ inbox # <<>>
  /\ inbox' = Tail(inbox)
  /\ LET m == Head(inbox) IN
     \/ m.type = "PACKET" /\ PacketProc(m.id, m.packet)
     \/ /\ \/ m.type = "JOIN" /\ JoinPlayer(m.id)
           \/ m.type = "LEAVE" /\ LeavePlayer(m.id)
        /\ NoSend /\ NoCheck /\ Keep /\ UNCHANGED lost
  /\ UNCHANGED <<joined, left, packets, given>>

-----------------------------------------------------------------------------
Next ==
  /\ ~down
  /\ \/ \E c \in Clients : OnClientJoin(c) \/ OnRecv(c) \/ OnClientLeave(c)
     \/ \E a \in Accounts, k \in Keys : AddSessionKey(a, k)
     \/ Update

Spec == Init /\ [][Next]_vars

\* While the process lives the update thread polls its inbox, and a session that was
\* disconnected is released.
Fairness ==
  /\ WF_vars(~down /\ Update)
  /\ \A c \in Clients : WF_vars(~down /\ c \in cut /\ OnClientLeave(c))
FairSpec == Spec /\ Fairness

-----------------------------------------------------------------------------
(* Properties *)

\* An id is in the list of the sector where its player stands, once, and in no other;
\* ids without a player are in no list.
SectorExact ==
  \A s \in Sectors, c \in Clients :
    Cardinality({i \in DOMAIN sector[s] : sector[s][i] = c})
      = IF player[c] # NoObj /\ pos[player[c]] = s THEN 1 ELSE 0

Waiting(type, c) == \E i \in DOMAIN inbox : inbox[i].type = type /\ inbox[i].id = c

\* There is a player, with an object of its own, for each id whose join has been
\* handled and whose leave has not, and no packet came before the one or after the
\* other ("Can not find player" is never logged).
PlayersExact ==
  /\ lost = 0
  /\ \A c \in Clients :
       /\ player[c] # NoObj <=> /\ c \in joined /\ ~Waiting("JOIN", c)
                                /\ c \in left => Waiting("LEAVE", c)
       /\ \A d \in Clients : player[c] = player[d] /\ player[c] # NoObj => c = d

Near(s, r) == s[1] - r[1] \in -1..1 /\ s[2] - r[2] \in -1..1

\* A chat message reaches exactly those who stand at most one sector away from the
\* sender, where a sender who has not moved yet stands outside the corner (-1, -1); or
\* it reaches nobody, and its sender is cut off or the process ends.
ChatReach ==
  [][ LET m == Head(inbox)
          from == pos[player[m.id]]
      IN
      Update /\ m.type = "PACKET" /\ player[m.id] # NoObj /\ m.packet.op = "chat" =>
        \/ sent' = {} /\ (m.id \in cut' \/ down')
        \/ sent' = {c \in Clients : /\ player[c] # NoObj /\ pos[player[c]] # Default
                                    /\ Near(pos[player[c]], from)} ]_vars

\* A client that was disconnected, or that left, is forgotten unless the process ends
\* before: its player is erased and no sector sends to it any more.
Forgotten ==
  \A c \in Clients :
    c \in joined /\ c \in left \cup cut
      ~> \/ c \in left /\ player[c] = NoObj /\ \A s \in Sectors : ~Listed(c, s)
         \/ down
=============================================================================
