-------------------------- MODULE JumpPointSearch --------------------------
(***************************************************************************)
(* CJumpPointSearch (MMOServerModule/JumpPointSearch.cpp): the path search *)
(* the game thread runs for a player who chases another one.               *)
(*                                                                         *)
(* A state is a point of FindPath's loop: one action starts a search, one  *)
(* takes a node from the open list and jumps from it.  The open list       *)
(* outlives a search: only CompleteFind empties it.                        *)
(*                                                                         *)
(* A node is the trail of positions its parent pointers reach, its         *)
(* direction and its fitness.  The close list, which is only kept to free  *)
(* its nodes, is left out, and so are the map-edge cases of the jumps: the *)
(* game's map (Map.txt) has a border of obstacles two tiles deep, which no *)
(* jump leaves, so outside the map and obstacle are one.                   *)
(***************************************************************************)
EXTENDS Integers, FiniteSetsExt, SequencesExt

CONSTANTS
    Maps,       \* sets of obstacle blocks, one of which is the map
    Requests,   \* the pairs <<start, end>> a search is asked for
    Cols, Rows, \* the blocks of the map, across and down
    OpenMax,    \* dfPATH_OPEN_MAX
    PointMax,   \* dfPATH_POINT_MAX
    MaxStale    \* bound: searches in a row that begin with nodes of another

\* The tiles of the map, two by two to a block.
Board == (0 .. 2 * Cols - 1) \X (0 .. 2 * Rows - 1)

ASSUME SearchAssumption ==
    /\ Cols \in Nat \ {0} /\ Rows \in Nat \ {0}
    /\ \A w \in Maps, b \in (0 .. Cols - 1) \X (0 .. Rows - 1) :
           b[1] \in {0, Cols - 1} \/ b[2] \in {0, Rows - 1} => b \in w
    /\ Requests \subseteq Board \X Board
    /\ OpenMax \in Nat \ {0} /\ PointMax \in Nat \ {0} /\ MaxStale \in Nat

VARIABLES
    walls,      \* the map
    start,      \* _iStartX, _iStartY
    end,        \* _iEndX, _iEndY
    openList,   \* _openList, sorted by fitness
    loop,       \* the loop counter of FindPath
    result,     \* what the last search did
    pOut,       \* the points the caller is given
    stale       \* history: the searches before this one that gave up since the
                \* last one that found a path

searchVars == <<walls, start, end, openList, loop, result, pOut, stale>>

Vec == [UU |-> <<0, -1>>, RU |-> <<1, -1>>, RR |-> <<1, 0>>,  RD |-> <<1, 1>>,
        DD |-> <<0, 1>>,  LD |-> <<-1, 1>>, LL |-> <<-1, 0>>, LU |-> <<-1, -1>>]

\* The two straight directions of a diagonal one, in the order it tries them.
Parts == [RU |-> <<"UU", "RR">>, RD |-> <<"RR", "DD">>,
          LD |-> <<"DD", "LL">>, LU |-> <<"LL", "UU">>]

\* The two diagonal directions of a straight one, in the order it tries them.
Sides == [UU |-> <<"LU", "RU">>, RR |-> <<"RU", "RD">>,
          DD |-> <<"RD", "LD">>, LL |-> <<"LD", "LU">>]

Plus(p, v) == <<p[1] + v[1], p[2] + v[2]>>
Minus(p, v) == <<p[1] - v[1], p[2] - v[2]>>
Go(p, d, k) == <<p[1] + k * Vec[d][1], p[2] + k * Vec[d][2]>>
Far(a, b) == IF a < b THEN b - a ELSE a - b
Dist(p, q) == Far(p[1], q[1]) + Far(p[2], q[2])

\* SetTileProperty: a block of the client's map is two by two tiles.
Free(p) == <<p[1] \div 2, p[2] \div 2>> \notin walls
FreeAt(p, d) == Free(Plus(p, Vec[d]))
Steps == 1 .. 2 * (IF Cols < Rows THEN Rows ELSE Cols)

-----------------------------------------------------------------------------
(* The jumps: each yields the nodes it creates, in order.                  *)

\* CreateNode: the cost is that of the last leg only, not of the trail.
Node(trail, dir) ==
    LET pos == Last(trail)
        parent == trail[Len(trail) - 1]
        goal == IF Len(trail) = 1 THEN 0
                ELSE Dist(parent, pos) *
                     (IF parent[1] = pos[1] \/ parent[2] = pos[2] THEN 10 ELSE 14)
    IN  [trail |-> trail, dir |-> dir, fitness |-> goal + 10 * Dist(end, pos)]

\* push_front and a stable sort: before the nodes that are as good.
Insert(list, node) ==
    InsertAt(list, Cardinality({i \in DOMAIN list : list[i].fitness < node.fitness}) + 1, node)

\* The nodes a jump creates, one after the other.
InsertAll(list, new) ==
    LET after[n \in 0 .. Len(new)] == IF n = 0 THEN list ELSE Insert(after[n - 1], new[n])
    IN  after[Len(new)]


\* A straight jump stops at the end, or beside an obstacle that ends there.
Turn(p, d) == \E i \in 1 .. 2 : LET q == Plus(p, Vec[Sides[d][i]])
                                IN  Free(q) /\ ~Free(Minus(q, Vec[d]))

Halts(p, d) == ~Free(p) \/ p = end \/ Turn(p, d)

\* Jump_DirUU, _DirRR, _DirDD, _DirLL: where the jump stops; nothing is there if it
\* is in a wall.
Stop(p, d) == Go(p, d, Min({k \in Steps : Halts(Go(p, d, k), d)}))

\* The forced neighbour of a diagonal jump: the wall beside it, the two tiles
\* that must be open, and the node that is created.
Forced == [RU |-> [wall |-> "DD", open |-> {"RR", "RD"}, at |-> "RD", dir |-> "RD"],
           RD |-> [wall |-> "UU", open |-> {"RR", "RU"}, at |-> "RD", dir |-> "RU"],
           LD |-> [wall |-> "RR", open |-> {"RD", "DD"}, at |-> "LU", dir |-> "RD"],
           LU |-> [wall |-> "DD", open |-> {"LD", "LL"}, at |-> "LU", dir |-> "LD"]]

IsForced(p, d) == ~FreeAt(p, Forced[d].wall) /\ \A o \in Forced[d].open : FreeAt(p, o)

\* Where the straight jumps from a tile of a diagonal jump stop.
Hits(p, d) == {q \in {Stop(p, Parts[d][1]), Stop(p, Parts[d][2])} : Free(q)}

\* Mutant: a diagonal jump slips between two obstacles that touch.
BlockedOnly(p, d, k) == ~Free(Go(p, d, k))

\* The tile p + k * d of a diagonal jump cannot be entered.
Blocked(p, d, k) ==
    LET q == Go(p, d, k - 1)
    IN  \/ ~FreeAt(q, Parts[d][1]) /\ ~FreeAt(q, Parts[d][2])
        \/ ~Free(Go(p, d, k))

\* A diagonal jump stops before the tile it cannot enter, at the end, or where a
\* straight jump from it reaches the end or, but for bLoop, anything.
Wall(p, d) == Min({k \in Steps : Blocked(p, d, k)})
Stops(q, d, bLoop) == q = end \/ end \in Hits(q, d) \/ (~bLoop /\ Hits(q, d) # {})
Reached(p, d, bLoop) ==
    Min({k \in 1 .. Wall(p, d) - 1 : Stops(Go(p, d, k), d, bLoop)} \cup {Wall(p, d) - 1})

\* It puts a node of its own direction on a tile where it may have to turn.
Corner(q, d) == q # end /\ (IsForced(q, d) \/ Hits(q, d) # {})

\* The trail before the (k + 1)-th tile: the corners are its nodes.
Trails(trail, d, last) ==
    LET upTo[k \in 0 .. last] ==
            IF k = 0 THEN trail
            ELSE LET q == Go(Last(trail), d, k)
                 IN  IF Corner(q, d) THEN Append(upTo[k - 1], q) ELSE upTo[k - 1]
    IN  upTo

\* A straight jump from the tile reaches the end.  But for bLoop, the second is not
\* tried when the first has hit anything.
Reaches(q, d, bLoop) ==
    LET first == Stop(q, Parts[d][1])
    IN  end \in Hits(q, d) /\ (bLoop \/ first = end \/ ~Free(first))

\* The nodes of a tile of a diagonal jump: the end, or a corner, its forced
\* neighbour and the end if a straight jump from the corner reaches it.
TileNodes(here, d, bLoop) ==
    LET q == Last(here)
    IN  IF q = end THEN <<Node(here, "NN")>>
        ELSE IF ~Corner(q, d) THEN <<>>
        ELSE <<Node(here, d)>>
             \o (IF IsForced(q, d)
                 THEN <<Node(Append(here, Plus(q, Vec[Forced[d].at])), Forced[d].dir)>>
                 ELSE <<>>)
             \o (IF Reaches(q, d, bLoop) THEN <<Node(Append(here, end), "NN")>> ELSE <<>>)

\* Jump_DirRU, _DirRD, _DirLD, _DirLU
Diagonal(node, d, bLoop) ==
    LET p == Last(node.trail)
        last == Reached(p, d, bLoop)
    IN  FlattenSeq([k \in 1 .. last |->
            TileNodes(Append(Trails(node.trail, d, last)[k - 1], Go(p, d, k)), d, bLoop)])

\* Jump, one case per direction of the node.  The node an upward jump creates
\* from an upward node is given the direction RR.
StraightNodes(node, d, dir) ==
    LET q == Stop(Last(node.trail), d)
    IN  IF Free(q) THEN <<Node(Append(node.trail, q), dir)>> ELSE <<>>

Jump(node) ==
    LET d == node.dir
        OnStraight(e) == StraightNodes(node, e, e)
    IN  IF d = "NN"
        THEN OnStraight("UU") \o OnStraight("RR") \o OnStraight("DD") \o OnStraight("LL")
             \o Diagonal(node, "RU", FALSE) \o Diagonal(node, "RD", FALSE)
             \o Diagonal(node, "LD", FALSE) \o Diagonal(node, "LU", FALSE)
        ELSE IF d \in DOMAIN Sides
        THEN StraightNodes(node, d, IF d = "UU" THEN "RR" ELSE d)
             \o Diagonal(node, Sides[d][1], TRUE) \o Diagonal(node, Sides[d][2], TRUE)
        ELSE OnStraight(Parts[d][1]) \o OnStraight(Parts[d][2])
             \o Diagonal(node, d, TRUE)

-----------------------------------------------------------------------------
SearchInit ==
    /\ walls \in Maps
    /\ start = <<0, 0>> /\ end = <<0, 0>>
    /\ openList = <<>> /\ loop = 0
    /\ result = "none" /\ pOut = <<>>
    /\ stale = 0

\* FindPath up to its loop.  A start or an end in a wall is refused, and the
\* caller's count of points is left as it was.
FindPath(from, to) ==
    /\ result \notin {"searching", "crashed"}
    /\ result = "gave up" => stale < MaxStale
    /\ stale' = IF result = "found" THEN 0
                ELSE IF result = "gave up" THEN stale + 1 ELSE stale
    /\ pOut' = <<>> /\ loop' = 0
    /\ IF Free(from) /\ Free(to)
       THEN /\ start' = from /\ end' = to
            /\ openList' = Insert(openList, [trail |-> <<from>>, dir |-> "NN",
                                             fitness |-> 10 * Dist(from, to)])
            /\ result' = "searching"
       ELSE result' = "refused" /\ UNCHANGED <<start, end, openList>>
    /\ UNCHANGED walls

\* Mutant: the lists are not emptied.
CompleteFindUncleared(node) ==
    /\ pOut' = SubSeq(node.trail, 1, Min({PointMax, Len(node.trail)}))
    /\ result' = "found"
    /\ UNCHANGED <<walls, start, end, openList, loop, stale>>

\* CompleteFind: the first points of the trail, and both lists emptied.
CompleteFind(node) ==
    /\ pOut' = SubSeq(node.trail, 1, Min({PointMax, Len(node.trail)}))
    /\ openList' = <<>>
    /\ result' = "found"
    /\ UNCHANGED <<walls, start, end, loop, stale>>

\* An iteration of FindPath's loop that is not the last of a found path.
Expand(node) ==
    /\ openList' = InsertAll(Tail(openList), Jump(node))
    /\ loop' = loop + 1
    /\ UNCHANGED <<walls, start, end, result, pOut, stale>>

\* begin() of an empty list: FindPath reads its sentinel as a node.
EmptyList ==
    /\ result' = "crashed"
    /\ UNCHANGED <<walls, start, end, openList, loop, pOut, stale>>

\* The loop ended without a path: no point, and the nodes are left in the list.
LoopEnds ==
    /\ result' = "gave up"
    /\ UNCHANGED <<walls, start, end, openList, loop, pOut, stale>>

Search ==
    /\ result = "searching"
    /\ IF loop = OpenMax THEN LoopEnds
       ELSE IF openList = <<>> THEN EmptyList
       ELSE IF Last(Head(openList).trail) = end THEN CompleteFind(Head(openList))
       ELSE Expand(Head(openList))

SearchNext == Search \/ \E r \in Requests : FindPath(r[1], r[2])

SearchSpec == SearchInit /\ [][SearchNext]_searchVars

-----------------------------------------------------------------------------
(* Properties                                                              *)

Dirs == DOMAIN Vec

\* A tile one step away that no wall and no touching corners close off.
Open(p, d) == /\ FreeAt(p, d)
              /\ d \in DOMAIN Parts => \E i \in 1 .. 2 : FreeAt(p, Parts[d][i])

\* The tiles that can be reached from a tile in n rounds of single steps.
Reachable(from, rounds) ==
    LET Grow(S) == S \cup UNION {{Plus(p, Vec[d]) : d \in {e \in Dirs : Open(p, e)}} : p \in S}
        R[n \in 0 .. rounds] == IF n = 0 THEN {from} ELSE Grow(R[n - 1])
    IN  R[rounds]

\* A path that is not cut off ends at the end. Its legs are lines in one of the eight
\* directions, all that a player's direction byte can name, enter no obstacle and never
\* slip between two that touch at a corner, although three of the four forced nodes are
\* created on a tile nobody checked: a wall is two tiles wide, and beside one that wide
\* no node is forced.
Walkable ==
    result = "found" =>
        /\ Len(pOut) < PointMax => Last(pOut) = end
        /\ \A i \in 1 .. Len(pOut) - 1 :
               \E d \in Dirs, k \in Steps :
                   /\ pOut[i + 1] = Go(pOut[i], d, k)
                   /\ \A j \in 0 .. k - 1 : Open(Go(pOut[i], d, j), d)

\* Unless a search before this one gave up, the path begins where this one did.
StartsHere == (result = "found" /\ stale = 0) => pOut[1] = start


=============================================================================
