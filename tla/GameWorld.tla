------------------------------ MODULE GameWorld ------------------------------
(***************************************************************************)
(* The world of the game server (MMOServerModule/MMOServerModule): the     *)
(* players (Player.cpp), the tiles they stand on (Field.h), the sectors    *)
(* that say who sees whom (Sector.cpp) and the packets that tell them.     *)
(*                                                                         *)
(* Only the game thread touches this state, so a handler is one step. How  *)
(* a session comes into the game and leaves it is the matter of MMOServer. *)
(* Time is left out: a move or an attack that is due may happen or wait.   *)
(* FindPath is taken from JumpPointSearch.cpp by its result: a shortest    *)
(* path of one or two legs, or none. CCrashDump::Crash, and an access the  *)
(* process does not survive, end the behaviour and set crash.              *)
(* A definition marked Mutant stands for a plausible mistake in the one    *)
(* that follows it.                                                        *)
(***************************************************************************)
EXTENDS Integers, Sequences, FiniteSets

CONSTANTS
  Slots,          \* indices of _pPlayerArray
  MaxIds,         \* bound: clients that join in a behaviour
  Width, Height,  \* dfMAP_TILE_X_MAX, dfMAP_TILE_Y_MAX
  SectorSize,     \* dfSECTOR_TILE_WIDTH, dfSECTOR_TILE_HEIGHT
  Walls,          \* obstacles of CField
  Blocks,         \* obstacles of CJumpPointSearch
  Dests,          \* bound: tiles that clients ask to go to
  Spawns,         \* where a player appears: a set of tiles
  Kinds,          \* [party, elf]: what a player may choose to be
  ErrorRange,     \* dfPOSITON_ERROR_RANGE in tiles
  Reach,          \* g_Pattern_AttackRange
  MaxHp, Blow,    \* dfHP_MAX, g_Pattern_AttackPower
  MaxPackets      \* bound: packets that clients send

Tiles   == (0..Width - 1) \X (0..Height - 1)
Nowhere == <<-1, -1>>

SectorOf(t) == <<t[1] \div SectorSize, t[2] \div SectorSize>>
Sectors == {SectorOf(t) : t \in Tiles}

ASSUME ConstantsOK ==
  /\ IsFiniteSet(Slots) /\ MaxIds \in Nat /\ MaxPackets \in Nat
  /\ Width \in Nat \ {0} /\ Height \in Nat \ {0} /\ SectorSize \in Nat \ {0}
  /\ ErrorRange \in 0..SectorSize /\ Reach \in Nat
  /\ MaxHp \in Nat \ {0} /\ Blow \in Nat \ {0}
  /\ Spawns \subseteq Tiles /\ Dests \subseteq Tiles /\ Walls \subseteq Tiles /\ Blocks \subseteq Tiles
  /\ Kinds \subseteq [party : {1, 2}, elf : BOOLEAN]

Ids  == Slots \X (1..MaxIds)    \* MAKECLIENTID(index, _iClientID)
NoId == <<>>                    \* -1
NoKind == <<>>

VARIABLES
  \* CPlayer, per slot
  mode, id, kind, tile, prev, hp, die, target, attack,
  walking,          \* _pPath # NULL
  points, count,    \* _path as far as it was ever written, and _pathCount
  index, goal,      \* _path_curr, _goal_X and _goal_Y
  objects,          \* _tileMap: the ids on every tile
  members,          \* _sector: the players of every sector
  known,            \* the players a client has been told to show
  nextId, packets, crash

places == <<tile, prev, objects, members, known>>
body   == <<mode, id, kind, hp, die, nextId>>
path   == <<walking, points, count, index, goal>>
aim    == <<target, attack>>
vars   == <<places, body, path, aim, packets, crash>>

TypeOK ==
  /\ mode \in [Slots -> {"none", "game", "logout"}]
  /\ id \in [Slots -> Ids \cup {NoId}] /\ kind \in [Slots -> Kinds \cup {NoKind}]
  /\ tile \in [Slots -> Tiles \cup {Nowhere}] /\ prev \in [Slots -> Tiles \cup {Nowhere}]
  /\ hp \in [Slots -> Int] /\ die \in [Slots -> BOOLEAN]
  /\ target \in [Slots -> Ids \cup {NoId}] /\ attack \in [Slots -> {1, 2}]
  /\ walking \in [Slots -> BOOLEAN] /\ points \in [Slots -> Seq(Tiles)]
  /\ count \in [Slots -> Nat] /\ index \in [Slots -> Nat] /\ goal \in [Slots -> Tiles \cup {Nowhere}]
  /\ objects \in [Tiles -> SUBSET Ids] /\ members \in [Sectors -> SUBSET Slots]
  /\ known \in [Slots -> SUBSET Ids]
  /\ nextId \in 1..MaxIds + 1 /\ packets \in 0..MaxPackets
  /\ crash \in {"no", "tile", "dead", "edge", "left", "area", "direction"}

Init ==
  /\ mode = [s \in Slots |-> "none"] /\ id = [s \in Slots |-> NoId]
  /\ kind = [s \in Slots |-> NoKind]
  /\ tile = [s \in Slots |-> Nowhere] /\ prev = [s \in Slots |-> Nowhere]
  /\ hp = [s \in Slots |-> 0] /\ die = [s \in Slots |-> FALSE]
  /\ target = [s \in Slots |-> NoId] /\ attack = [s \in Slots |-> 1]
  /\ walking = [s \in Slots |-> FALSE] /\ points = [s \in Slots |-> <<>>]
  /\ count = [s \in Slots |-> 0] /\ index = [s \in Slots |-> 0] /\ goal = [s \in Slots |-> Nowhere]
  /\ objects = [t \in Tiles |-> {}] /\ members = [c \in Sectors |-> {}]
  /\ known = [s \in Slots |-> {}]
  /\ nextId = 1 /\ packets = 0 /\ crash = "no"

Playing(s) == crash = "no" /\ mode[s] = "game"
Crash(why) == crash' = why /\ UNCHANGED <<places, body, path, aim>>
Alive      == crash' = crash

-----------------------------------------------------------------------------
(* Field and sectors *)

\* MoveTileObject: out of one tile, into the next; Nowhere is (-1, -1).
MoveTileObject(objs, i, from, to) ==
  [t \in Tiles |-> IF t = to THEN objs[t] \cup {i}
                   ELSE IF t = from THEN objs[t] \ {i} ELSE objs[t]]

\* DelTileObject or AddTileObject returns false.
FieldFails(i, from, to) ==
  \/ from # Nowhere /\ i \notin objects[from]
  \/ to \notin Tiles
  \/ to # from /\ i \in objects[to]

Around(c) == {d \in Sectors : d[1] - c[1] \in -1..1 /\ d[2] - c[2] \in -1..1}

Crowd(cs) == UNION {members[c] : c \in cs}

\* CreateOtherCharacter of the players in news, RemoveObject of those in olds.
Tell(view, news, olds) == (view \ {id[q] : q \in olds}) \cup {id[q] : q \in news}

\* What everyone is told when s joins, leaves, or goes from sector a to sector b:
\* s is removed from the sectors only a has around it, and they from s; s is created
\* in those only b has around it, and they for s.
ViewsAfter(views, s, gone, come) ==
  [q \in Slots |->
     IF q = s THEN Tell(views[q], Crowd(come) \ {s}, Crowd(gone) \ {s})
     ELSE IF q \in Crowd(come) THEN views[q] \cup {id[s]}
     ELSE IF q \in Crowd(gone) THEN views[q] \ {id[s]}
     ELSE views[q]]

\* Mutant: the player is told, the others are not.
SendPacket_MoveSectorToSelf(s, a, b) ==
  LET gone == Around(a) \ Around(b) come == Around(b) \ Around(a)
  IN  /\ known' = [known EXCEPT ![s] = Tell(@, Crowd(come) \ {s}, Crowd(gone) \ {s})]

\* GetUpdateSector and SendPacket_MoveSector
SendPacket_MoveSector(s, a, b) ==
  LET gone == Around(a) \ Around(b) come == Around(b) \ Around(a)
  IN  /\ known' = ViewsAfter(known, s, gone, come)

MoveSector(s, a, b) ==
  members' = [c \in Sectors |-> IF c = b THEN members[c] \cup {s} ELSE members[c] \ {s}]

-----------------------------------------------------------------------------
(* Moving *)

\* Player s is put on tile t.
Put(s, t) ==
  LET a == SectorOf(tile[s]) b == SectorOf(t)
  IN  /\ prev' = [prev EXCEPT ![s] = tile[s]]
      /\ tile' = [tile EXCEPT ![s] = t]
      /\ IF a = b THEN UNCHANGED <<members, known>>
                  ELSE MoveSector(s, a, b) /\ SendPacket_MoveSector(s, a, b)

\* CPlayer::Move compares with the tile before this one, so a step back is ignored.
Ignored(s, t) == prev[s] = t

MoveFails(s, t) == ~Ignored(s, t) /\ FieldFails(id[s], tile[s], t)
CrashMove(s, t) == Crash(IF die[s] THEN "dead" ELSE IF t \notin Tiles THEN "edge" ELSE "tile")

Move(s, t) ==
  IF Ignored(s, t) THEN UNCHANGED places
  ELSE Put(s, t) /\ objects' = MoveTileObject(objects, id[s], tile[s], t)

MoveStop(s) ==
  /\ walking' = [walking EXCEPT ![s] = FALSE]
  /\ count' = [count EXCEPT ![s] = 0] /\ index' = [index EXCEPT ![s] = 0]
  /\ UNCHANGED points

-----------------------------------------------------------------------------
(* Paths *)

Abs(n) == IF n < 0 THEN -n ELSE n
Sign(n) == IF n > 0 THEN 1 ELSE IF n < 0 THEN -1 ELSE 0
Larger(m, n) == IF m > n THEN m ELSE n

Span(a, b) == Larger(Abs(a[1] - b[1]), Abs(a[2] - b[2]))
Aligned(a, b) == a[1] = b[1] \/ a[2] = b[2] \/ Abs(a[1] - b[1]) = Abs(a[2] - b[2])

\* MoveDirection and MoveTile: one tile on the way from a to b.
NextTile(a, b) == <<a[1] + Sign(b[1] - a[1]), a[2] + Sign(b[2] - a[2])>>

Leg(a, b) == {<<a[1] + k * Sign(b[1] - a[1]), a[2] + k * Sign(b[2] - a[2])>> : k \in 0..Span(a, b)}

\* The paths FindPath may give: one leg, or two with a turn between them; none fails.
Paths(a, b) ==
  IF a = b THEN {<<a>> : x \in {a} \ Blocks}
  ELSE {p \in {<<a, b>>} \cup {<<a, c, b>> : c \in Tiles \ {a, b}} :
          /\ \A i \in 1..Len(p) - 1 : Aligned(p[i], p[i + 1]) /\ Leg(p[i], p[i + 1]) \cap Blocks = {}
          /\ Len(p) = 3 => ~Aligned(a, b) /\ Span(a, p[2]) + Span(p[2], b) = Span(a, b)}

\* CompleteFind writes the new points over the old ones.
Write(s, p) ==
  /\ points' = [points EXCEPT ![s] = p \o SubSeq(@, Len(p) + 1, Len(@))]
  /\ count' = [count EXCEPT ![s] = Len(p)]

-----------------------------------------------------------------------------
(* Coming and going *)

\* OnAuth_ClientJoin to OnGame_ClientJoin. The path index and the goal of the slot's
\* last player stay.
Join(s) ==
  /\ crash = "no" /\ mode[s] = "none" /\ nextId <= MaxIds
  /\ \E k \in Kinds, t \in Spawns \ Walls :
       LET i == <<s, nextId>> c == SectorOf(t) crowd == Crowd(Around(c)) IN
       /\ id' = [id EXCEPT ![s] = i] /\ kind' = [kind EXCEPT ![s] = k]
       /\ tile' = [tile EXCEPT ![s] = t] /\ prev' = [prev EXCEPT ![s] = Nowhere]
       /\ objects' = MoveTileObject(objects, i, Nowhere, t)
       /\ members' = [members EXCEPT ![c] = @ \cup {s}]
       /\ known' = [q \in Slots |-> IF q = s THEN {id[r] : r \in crowd}
                                    ELSE IF q \in crowd THEN known[q] \cup {i} ELSE known[q]]
  /\ mode' = [mode EXCEPT ![s] = "game"] /\ nextId' = nextId + 1
  /\ hp' = [hp EXCEPT ![s] = MaxHp] /\ die' = [die EXCEPT ![s] = FALSE]
  /\ walking' = [walking EXCEPT ![s] = FALSE]
  /\ target' = [target EXCEPT ![s] = NoId]
  /\ Alive /\ UNCHANGED <<attack, points, count, index, goal, packets>>

\* bLogout and no send pending: MODE_LOGOUT_IN_GAME, until the end of the update.
Logout(s) ==
  /\ Playing(s) /\ mode' = [mode EXCEPT ![s] = "logout"]
  /\ Alive /\ UNCHANGED <<places, path, aim, id, kind, hp, die, nextId, packets>>

\* Mutant: a player that has died is not taken out of the sector either.
LeaveSectorIfAlive(s) ==
  IF die[s] THEN UNCHANGED members
  ELSE members' = [members EXCEPT ![SectorOf(tile[s])] = @ \ {s}]

LeaveSector(s) == members' = [members EXCEPT ![SectorOf(tile[s])] = @ \ {s}]

\* OnGame_ClientLeave and OnGame_ClientRelease
Leave(s) ==
  LET i == id[s] crowd == Crowd(Around(SectorOf(tile[s]))) \ {s} IN
  /\ crash = "no" /\ mode[s] = "logout"
  /\ mode' = [mode EXCEPT ![s] = "none"] /\ id' = [id EXCEPT ![s] = NoId]
  /\ objects' = IF die[s] THEN objects ELSE MoveTileObject(objects, i, tile[s], Nowhere)
  /\ LeaveSector(s)
  /\ known' = [q \in Slots |-> IF q = s THEN {} ELSE IF q \in crowd THEN known[q] \ {i} ELSE known[q]]
  /\ Alive /\ UNCHANGED <<tile, prev, aim, path, kind, hp, die, nextId, packets>>

-----------------------------------------------------------------------------
(* OnGame_PacketProc *)

Packet(s) == Playing(s) /\ packets < MaxPackets /\ packets' = packets + 1

Near(s, t) == Abs(t[1] - tile[s][1]) <= ErrorRange /\ Abs(t[2] - tile[s][2]) <= ErrorRange

\* The tile the player is on when Move(t) has returned, if the client's claim is accepted.
Stands(s, t) == IF Near(s, t) /\ ~Ignored(s, t) THEN t ELSE tile[s]

PacketProc_MoveCharacter(s) ==
  /\ Packet(s) /\ ~die[s]
  /\ \E start \in Tiles, dest \in Dests :
       IF Near(s, start) /\ MoveFails(s, start) THEN CrashMove(s, start)
       ELSE /\ IF Near(s, start) THEN Move(s, start) ELSE UNCHANGED places
            /\ \/ \E p \in Paths(Stands(s, start), dest) :
                    /\ walking' = [walking EXCEPT ![s] = TRUE]
                    /\ Write(s, p) /\ index' = [index EXCEPT ![s] = 0]
                    /\ goal' = [goal EXCEPT ![s] = dest]
               \/ Paths(Stands(s, start), dest) = {} /\ MoveStop(s) /\ UNCHANGED goal
            /\ target' = [target EXCEPT ![s] = NoId]
            /\ Alive /\ UNCHANGED <<body, attack>>

\* A player that is dead is not refused.
PacketProc_StopCharacter(s) ==
  /\ Packet(s)
  /\ \E t \in Tiles :
       IF Near(s, t) /\ MoveFails(s, t) THEN CrashMove(s, t)
       ELSE /\ IF Near(s, t) THEN Move(s, t) ELSE UNCHANGED places
            /\ MoveStop(s) /\ Alive /\ UNCHANGED <<body, aim, goal>>

\* Who has left since s came: s may have been told of it, and its packet be on the way.
Left(s) == {i \in Ids : id[s][2] < i[2] /\ i[2] < nextId /\ id[i[1]] # i}

\* PacketProc_Attack1 and 2
PacketProc_Attack(s) ==
  /\ Packet(s)
  /\ \E i \in known[s] \cup {id[s]} \cup Left(s), type \in {1, 2} :
       IF id[i[1]] # i THEN Crash("left")
       ELSE /\ IF kind[s].party # kind[i[1]].party \/ kind[s].elf
                 THEN target' = [target EXCEPT ![s] = i] /\ attack' = [attack EXCEPT ![s] = type]
                 ELSE UNCHANGED aim
            /\ Alive /\ UNCHANGED <<places, body, path>>

-----------------------------------------------------------------------------
(* OnGame_Update *)

\* A point that was never written is zero, which is a tile below the map.
Point(s, n) == IF n < Len(points[s]) THEN points[s][n + 1] ELSE <<0, Height>>

\* One tile towards d. Without a direction MoveTile leaves the next tile uninitialised; off
\* the map it gives -1.
Step(s, d) ==
  \/ (d = tile[s] \/ NextTile(tile[s], d) \notin Tiles) /\ Crash("direction")
  \/ \E t \in IF d = tile[s] THEN Tiles ELSE {NextTile(tile[s], d)} \cap Tiles :
       IF MoveFails(s, t) THEN CrashMove(s, t)
       ELSE Move(s, t) /\ Alive /\ UNCHANGED <<body, aim, walking, points, count, goal>>

Arrive(s) ==
  /\ walking' = [walking EXCEPT ![s] = FALSE]
  /\ Alive /\ UNCHANGED <<places, body, aim, points, count, goal>>

Walk(s) ==
  LET n == IF tile[s] = Point(s, index[s]) THEN index[s] + 1 ELSE index[s] IN
  /\ IF n # index[s] /\ n = count[s] THEN Arrive(s) ELSE Step(s, Point(s, n))
  /\ index' = [index EXCEPT ![s] = IF crash' = "no" THEN n ELSE @]

Action_Move(s) == Playing(s) /\ walking[s] /\ ~die[s] /\ Walk(s) /\ UNCHANGED packets

\* AttackPushPos: 0.8 away from the attacker on a vector of a half tile each, so two, one
\* or no tile on either axis; in any direction from the same place.
Pushed(v) == LET far == v[1] * v[1] + v[2] * v[2]
                 On(n) == Sign(n) * Cardinality({k \in {5, 15} : 256 * n * n >= k * k * far})
             IN  <<On(v[1]), On(v[2])>>

PushTiles(s, q) ==
  LET v == <<tile[q][1] - tile[s][1], tile[q][2] - tile[s][2]>> IN
  {<<tile[q][1] + d[1], tile[q][2] + d[2]>> :
     d \in IF v # <<0, 0>> THEN {Pushed(v)}
           ELSE {Pushed(w) : w \in ((-5..4) \X (-5..4)) \ {<<0, 0>>}}}

InReach(s, q) ==
  LET dx == tile[s][1] - tile[q][1] dy == tile[s][2] - tile[q][2]
  IN  dx * dx + dy * dy <= Reach * Reach

Forget(s) == target' = [target EXCEPT ![s] = NoId] /\ UNCHANGED attack

\* Mutant: the dead keep their place on the tile.
HurtInPlace(s, q, n, t, objs) ==
  LET dead == hp[q] - n < 0 IN
  /\ hp' = [hp EXCEPT ![q] = IF dead THEN 0 ELSE @ - n]
  /\ die' = [die EXCEPT ![q] = dead]
  /\ objects' = objs
  /\ IF dead THEN Forget(s) ELSE UNCHANGED aim

\* q loses n points; with less than none left it dies and is taken off its tile t.
Hurt(s, q, n, t, objs) ==
  LET dead == hp[q] - n < 0 IN
  /\ hp' = [hp EXCEPT ![q] = IF dead THEN 0 ELSE @ - n]
  /\ die' = [die EXCEPT ![q] = dead]
  /\ objects' = IF dead THEN MoveTileObject(objs, id[q], t, Nowhere) ELSE objs
  /\ IF dead THEN Forget(s) ELSE UNCHANGED aim

\* Attack 1 on q: the blow moves q unless a wall stands there, or the attacker is an elf,
\* who heals (bound: up to MaxHp + Blow). CheckTileMove does not check the range: off the
\* map it reads anything.
AttackOne(s, q) ==
  IF kind[s].elf
    THEN /\ hp[q] <= MaxHp /\ Hurt(s, q, -Blow, tile[q], objects) /\ MoveStop(s)
         /\ Alive /\ UNCHANGED <<tile, prev, members, known, mode, id, kind, nextId, goal>>
    ELSE \E t \in PushTiles(s, q), free \in BOOLEAN :
           /\ t \in Tiles => free = (t \notin Walls)
           /\ IF free /\ MoveFails(q, t) THEN CrashMove(q, t)
              ELSE /\ IF free /\ ~Ignored(q, t)
                        THEN Put(q, t) /\ Hurt(s, q, Blow, t, MoveTileObject(objects, id[q], tile[q], t))
                        ELSE /\ Hurt(s, q, Blow, tile[q], objects)
                             /\ UNCHANGED <<tile, prev, members, known>>
                   /\ MoveStop(s)
                   /\ Alive /\ UNCHANGED <<mode, id, kind, nextId, goal>>

\* The target is out of reach and not where the path leads. FindPath gives a new path, or
\* counts no point, or touches nothing when an end is blocked; the path index is kept.
Chase(s, q) ==
  /\ goal[s] # tile[q]
  /\ \/ \E p \in Paths(tile[s], tile[q]) : Write(s, p)
     \/ /\ Paths(tile[s], tile[q]) = {} /\ UNCHANGED points
        /\ count' = [count EXCEPT ![s] = IF {tile[s], tile[q]} \cap Blocks = {} THEN 0 ELSE @]
  /\ walking' = [walking EXCEPT ![s] = TRUE]
  /\ goal' = [goal EXCEPT ![s] = tile[q]]
  /\ Alive /\ UNCHANGED <<places, body, aim, index>>

GiveUp(s) == MoveStop(s) /\ Forget(s) /\ Alive /\ UNCHANGED <<places, body, goal>>

\* Mutant: a dead target is struck again.
Action_AttackDead(s) ==
  LET q == target[s][1] IN
  /\ Playing(s) /\ target[s] # NoId /\ ~die[s] /\ UNCHANGED packets
  /\ IF id[q] # target[s] THEN GiveUp(s)
     ELSE IF ~InReach(s, q) THEN Chase(s, q)
     ELSE IF attack[s] = 1 THEN AttackOne(s, q)
     ELSE Crash("area")

\* Attack 2 hands GetTileObject a null list.
Action_Attack(s) ==
  LET q == target[s][1] IN
  /\ Playing(s) /\ target[s] # NoId /\ ~die[s] /\ UNCHANGED packets
  /\ IF id[q] # target[s] \/ die[q] THEN GiveUp(s)
     ELSE IF ~InReach(s, q) THEN Chase(s, q)
     ELSE IF attack[s] = 1 THEN AttackOne(s, q)
     ELSE Crash("area")

-----------------------------------------------------------------------------

Next ==
  \E s \in Slots :
    \/ Join(s) \/ Logout(s) \/ Leave(s)
    \/ PacketProc_MoveCharacter(s) \/ PacketProc_StopCharacter(s) \/ PacketProc_Attack(s)
    \/ Action_Move(s) \/ Action_Attack(s)

Spec == Init /\ [][Next]_vars

-----------------------------------------------------------------------------
(* Properties *)

InWorld(s) == mode[s] \in {"game", "logout"}

\* Every living player is in the list of the tile it stands on and in no other, the dead
\* and those who left in none (Move, Action_Attack, OnGame_ClientLeave).
FieldExact ==
  \A t \in Tiles : objects[t] = {id[s] : s \in {s \in Slots : InWorld(s) /\ ~die[s] /\ tile[s] = t}}

\* Every sector holds exactly the players whose tile lies in it, alive or dead.
SectorExact ==
  \A c \in Sectors : members[c] = {s \in Slots : InWorld(s) /\ SectorOf(tile[s]) = c}

\* A client shows exactly the other players in the nine sectors around its own, after any
\* walk, push, death or departure of either (SendPacket_MoveSector and its kind).
ViewExact ==
  \A s \in Slots : InWorld(s) =>
    known[s] = {id[q] : q \in {q \in Slots \ {s} :
                   InWorld(q) /\ SectorOf(tile[q]) \in Around(SectorOf(tile[s]))}}

\* A dead player stays where it fell until its session ends: no blow, chase or packet moves
\* it, hurts it or brings it back.
DeadStay ==
  [][\A s \in Slots : die[s] /\ id'[s] = id[s] /\ InWorld(s) =>
       /\ tile'[s] = tile[s] /\ hp'[s] = hp[s] /\ die'[s]]_vars
=============================================================================
