-------------------------- MODULE GameWorld_proofs --------------------------
(***************************************************************************)
(* Proofs about GameWorld, for any map, number of players, packets and     *)
(* clients: the tile lists, the sectors and what every client has been     *)
(* told agree with where the players stand, and a dead player stays where  *)
(* it is.                                                                  *)
(*                                                                         *)
(* The three invariants are about one change each: the player that is put  *)
(* somewhere, hurt or taken out. FieldStep, SectorStep and the lemmas on   *)
(* views say what that change must be; the handlers are then instances.    *)
(* Around is symmetric: who sees me is whom I see (AroundSymmetric).       *)
(*                                                                         *)
(* The second half is about JumpPointSearch, which finds the paths that    *)
(* the players walk: see "The path search" below.                          *)
(***************************************************************************)
EXTENDS GameWorld, JumpPointSearch, SequenceTheorems, FiniteSetTheorems,
        WellFoundedInduction, TLAPS

\* A player in the world has an id of its own and a tile; other slots have no id.
Bodies ==
  \A s \in Slots :
    IF InWorld(s)
      THEN id[s] \in Ids /\ id[s][1] = s /\ id[s][2] < nextId /\ tile[s] \in Tiles
      ELSE id[s] = NoId

World == Bodies /\ FieldExact /\ SectorExact /\ ViewExact

IInv == TypeOK /\ World

\* What DeadStay says of a step.
DeadStep ==
  \A s \in Slots : die[s] /\ id'[s] = id[s] /\ InWorld(s) =>
    tile'[s] = tile[s] /\ hp'[s] = hp[s] /\ die'[s]

-----------------------------------------------------------------------------
(* Types by group of variables *)

TypePlaces ==
  /\ tile \in [Slots -> Tiles \cup {Nowhere}] /\ prev \in [Slots -> Tiles \cup {Nowhere}]
  /\ objects \in [Tiles -> SUBSET Ids] /\ members \in [Sectors -> SUBSET Slots]
  /\ known \in [Slots -> SUBSET Ids]

TypeBody ==
  /\ mode \in [Slots -> {"none", "game", "logout"}]
  /\ id \in [Slots -> Ids \cup {NoId}] /\ kind \in [Slots -> Kinds \cup {NoKind}]
  /\ hp \in [Slots -> Int] /\ die \in [Slots -> BOOLEAN] /\ nextId \in 1..MaxIds + 1

TypePath ==
  /\ walking \in [Slots -> BOOLEAN] /\ points \in [Slots -> Seq(Tiles)]
  /\ count \in [Slots -> Nat] /\ index \in [Slots -> Nat] /\ goal \in [Slots -> Tiles \cup {Nowhere}]

TypeAim == target \in [Slots -> Ids \cup {NoId}] /\ attack \in [Slots -> {1, 2}]

TypeEnd ==
  packets \in 0..MaxPackets /\ crash \in {"no", "tile", "dead", "edge", "left", "area", "direction"}

LEMMA TypeParts == TypeOK <=> TypePlaces /\ TypeBody /\ TypePath /\ TypeAim /\ TypeEnd
BY DEF TypeOK, TypePlaces, TypeBody, TypePath, TypeAim, TypeEnd

LEMMA TypeWhole ==
  ASSUME TypePlaces', TypeBody', TypePath', TypeAim', TypeEnd'
  PROVE  TypeOK'
BY DEF TypeOK, TypePlaces, TypeBody, TypePath, TypeAim, TypeEnd

LEMMA NoIdIsNone == NoId \notin Ids
<1> SUFFICES ASSUME NoId \in Ids PROVE FALSE
  OBVIOUS
<1>1. PICK s \in Slots, n \in 1..MaxIds : <<>> = <<s, n>>
  BY DEF Ids, NoId
<1> QED BY <1>1

-----------------------------------------------------------------------------
(* Sectors and ids *)

LEMMA SectorsOfTiles ==
  ASSUME ConstantsOK, NEW t \in Tiles
  PROVE  SectorOf(t) \in Sectors
BY DEF Sectors

LEMMA SectorsArePairs ==
  ASSUME ConstantsOK, NEW a \in Sectors
  PROVE  a \in Int \X Int
<1>1. PICK t \in Tiles : a = SectorOf(t)
  BY DEF Sectors
<1>2. t[1] \in Int /\ t[2] \in Int /\ SectorSize \in Nat \ {0}
  BY DEF Tiles, ConstantsOK
<1>3. t[1] \div SectorSize \in Int /\ t[2] \div SectorSize \in Int
  BY <1>2
<1> QED BY <1>1, <1>3 DEF SectorOf

LEMMA AroundSymmetric ==
  ASSUME ConstantsOK, NEW a \in Sectors, NEW b \in Sectors
  PROVE  (a \in Around(b) <=> b \in Around(a)) /\ a \in Around(a)
<1>1. a[1] \in Int /\ a[2] \in Int /\ b[1] \in Int /\ b[2] \in Int
  BY SectorsArePairs
<1> QED BY <1>1 DEF Around

LEMMA OwnId ==
  ASSUME Bodies, NEW s \in Slots, NEW q \in Slots, InWorld(s), id[q] = id[s]
  PROVE  q = s
BY DEF Bodies, Ids, NoId

\* The players of some sectors, by SectorExact.
LEMMA CrowdIs ==
  ASSUME SectorExact, NEW cs, cs \subseteq Sectors
  PROVE  Crowd(cs) = {q \in Slots : InWorld(q) /\ SectorOf(tile[q]) \in cs}
BY DEF SectorExact, Crowd

-----------------------------------------------------------------------------
(* What a change of one player must do to the tiles, the sectors and the views *)

\* Nothing is said of s; the others stay who, where and what they are.
OthersStay(s) ==
  \A q \in Slots \ {s} :
    id'[q] = id[q] /\ tile'[q] = tile[q] /\ die'[q] = die[q] /\ (InWorld(q)' <=> InWorld(q))

LEMMA FieldStep ==
  ASSUME Bodies, FieldExact, NEW s \in Slots, OthersStay(s),
         \A t \in Tiles : objects'[t] = (objects[t] \ {id[s]})
           \cup (IF InWorld(s)' /\ ~die'[s] /\ tile'[s] = t THEN {id'[s]} ELSE {})
  PROVE  FieldExact'
<1> SUFFICES ASSUME NEW t \in Tiles
             PROVE  objects'[t] = {id'[q] : q \in {q \in Slots : InWorld(q)' /\ ~die'[q] /\ tile'[q] = t}}
  BY DEF FieldExact
<1> DEFINE Here == {q \in Slots : InWorld(q) /\ ~die[q] /\ tile[q] = t}
           Next2 == {q \in Slots : InWorld(q)' /\ ~die'[q] /\ tile'[q] = t}
<1>1. objects[t] = {id[q] : q \in Here}
  BY DEF FieldExact
<1>2. Next2 \ {s} = Here \ {s}
  BY DEF OthersStay
<1>3. objects[t] \ {id[s]} = {id[q] : q \in Here \ {s}}
  <2>1. \A q \in Here \ {s} : id[q] # id[s]
    BY OwnId
  <2> QED BY <1>1, <2>1
<1>4. {id'[q] : q \in Next2 \ {s}} = {id[q] : q \in Here \ {s}}
  <2>1. \A q \in Here \ {s} : id'[q] = id[q]
    BY DEF OthersStay
  <2> QED BY <1>2, <2>1
<1>5. CASE s \in Next2
  <2>1. objects'[t] = {id[q] : q \in Here \ {s}} \cup {id'[s]}
    BY <1>3, <1>5
  <2>2. {id'[q] : q \in Next2} = {id'[q] : q \in Next2 \ {s}} \cup {id'[s]}
    BY <1>5
  <2> QED BY <1>4, <2>1, <2>2
<1>6. CASE s \notin Next2
  <2>1. objects'[t] = {id[q] : q \in Here \ {s}}
    BY <1>3, <1>6
  <2>2. Next2 = Next2 \ {s}
    BY <1>6
  <2> QED BY <1>4, <2>1, <2>2
<1> QED BY <1>5, <1>6

LEMMA SectorStep ==
  ASSUME SectorExact, NEW s \in Slots, OthersStay(s),
         \A c \in Sectors : members'[c] = (members[c] \ {s})
           \cup (IF InWorld(s)' /\ SectorOf(tile'[s]) = c THEN {s} ELSE {})
  PROVE  SectorExact'
<1> SUFFICES ASSUME NEW c \in Sectors
             PROVE  members'[c] = {q \in Slots : InWorld(q)' /\ SectorOf(tile'[q]) = c}
  BY DEF SectorExact, SectorOf
<1>1. members[c] = {q \in Slots : InWorld(q) /\ SectorOf(tile[q]) = c}
  BY DEF SectorExact
<1>2. \A q \in Slots \ {s} : InWorld(q)' /\ SectorOf(tile'[q]) = c <=> InWorld(q) /\ SectorOf(tile[q]) = c
  BY DEF OthersStay
<1> QED BY <1>1, <1>2

\* What s sees and who sees s: the players of some sectors, without itself.
Seen(s) == {q \in Slots \ {s} : InWorld(q) /\ SectorOf(tile[q]) \in Around(SectorOf(tile[s]))}

LEMMA ViewIs ==
  ViewExact <=> \A s \in Slots : InWorld(s) => known[s] = {id[q] : q \in Seen(s)}
BY DEF ViewExact, Seen

LEMMA SeenSame ==
  ASSUME NEW s \in Slots, NEW q \in Slots \ {s}, OthersStay(s), InWorld(q)'
  PROVE  (Seen(q))' = (Seen(q) \ {s})
           \cup (IF InWorld(s)' /\ SectorOf(tile'[s]) \in Around(SectorOf(tile[q])) THEN {s} ELSE {})
<1>1. tile'[q] = tile[q]
  BY DEF OthersStay
<1>2. (Seen(q))' = {r \in Slots \ {q} : InWorld(r)' /\ SectorOf(tile'[r]) \in Around(SectorOf(tile[q]))}
  BY <1>1 DEF Seen, SectorOf, Around, Sectors, Tiles
<1>3. \A r \in Slots \ {q, s} : InWorld(r)' /\ SectorOf(tile'[r]) \in Around(SectorOf(tile[q]))
                         <=> InWorld(r) /\ SectorOf(tile[r]) \in Around(SectorOf(tile[q]))
  BY DEF OthersStay
<1> QED BY <1>2, <1>3 DEF Seen

\* The view of another player changes by s alone.
LEMMA OtherView ==
  ASSUME Bodies, ViewExact, NEW s \in Slots, NEW q \in Slots \ {s}, OthersStay(s), InWorld(q)',
         IF InWorld(s)' /\ SectorOf(tile'[s]) \in Around(SectorOf(tile[q]))
           THEN known'[q] = (known[q] \ {id[s]}) \cup {id'[s]}
           ELSE known'[q] = known[q] \ {id[s]}
  PROVE  known'[q] = {id'[r] : r \in (Seen(q))'}
<1> DEFINE Rest == Seen(q) \ {s}
<1>1. InWorld(q) /\ known[q] = {id[r] : r \in Seen(q)}
  BY ViewIs DEF OthersStay
<1>2. \A r \in Rest : id'[r] = id[r] /\ id[r] # id[s]
  BY OwnId DEF OthersStay, Seen
<1>3. known[q] \ {id[s]} = {id[r] : r \in Rest}
  BY <1>1, <1>2
<1>4. {id'[r] : r \in Rest} = {id[r] : r \in Rest}
  BY <1>2
<1>5. CASE InWorld(s)' /\ SectorOf(tile'[s]) \in Around(SectorOf(tile[q]))
  <2>1. (Seen(q))' = Rest \cup {s}
    BY <1>5, SeenSame
  <2>2. {id'[r] : r \in Rest \cup {s}} = {id'[r] : r \in Rest} \cup {id'[s]}
    OBVIOUS
  <2> QED BY <1>3, <1>4, <1>5, <2>1, <2>2
<1>6. CASE ~(InWorld(s)' /\ SectorOf(tile'[s]) \in Around(SectorOf(tile[q])))
  <2>1. (Seen(q))' = Rest
    BY <1>6, SeenSame
  <2> QED BY <1>3, <1>4, <1>6, <2>1
<1> QED BY <1>5, <1>6

\* Who has been told to show a player, and where its id is listed.
LEMMA SeesMe ==
  ASSUME Bodies, ViewExact, NEW s \in Slots, InWorld(s), NEW q \in Slots \ {s}, InWorld(q)
  PROVE  SectorOf(tile[s]) \in Around(SectorOf(tile[q])) <=> id[s] \in known[q]
<1>1. known[q] = {id[r] : r \in Seen(q)}
  BY ViewIs
<1>2. id[s] \in known[q] => s \in Seen(q)
  BY <1>1, OwnId DEF Seen
<1> QED BY <1>1, <1>2 DEF Seen

LEMMA Listed ==
  ASSUME Bodies, FieldExact, NEW s \in Slots, InWorld(s), NEW u \in Tiles
  PROVE  id[s] \in objects[u] <=> ~die[s] /\ tile[s] = u
<1>1. id[s] \in objects[u] => ~die[s] /\ tile[s] = u
  <2> SUFFICES ASSUME id[s] \in objects[u] PROVE ~die[s] /\ tile[s] = u
    OBVIOUS
  <2>1. PICK q \in Slots : InWorld(q) /\ ~die[q] /\ tile[q] = u /\ id[s] = id[q]
    BY DEF FieldExact
  <2> QED BY <2>1, OwnId
<1>2. ~die[s] /\ tile[s] = u => id[s] \in objects[u]
  BY DEF FieldExact
<1> QED BY <1>1, <1>2

-----------------------------------------------------------------------------
(* Put *)

LEMMA PutSees ==
  ASSUME ConstantsOK, TypePlaces, Bodies, SectorExact, ViewExact, NEW s \in Slots, NEW t \in Tiles,
         InWorld(s), Put(s, t), UNCHANGED <<mode, id>>, \A q \in Slots \ {s} : die'[q] = die[q]
  PROVE  OthersStay(s) /\ SectorExact' /\ ViewExact'
<1> DEFINE a == SectorOf(tile[s])
           b == SectorOf(t)
           At(q) == SectorOf(tile[q])
<1>1. tile' = [tile EXCEPT ![s] = t] /\ tile'[s] = t /\ tile[s] \in Tiles
  BY DEF Put, TypePlaces, Bodies
<1>2. a \in Sectors /\ b \in Sectors /\ \A q \in Slots : InWorld(q) => At(q) \in Sectors
  BY <1>1, SectorsOfTiles DEF Bodies
<1>3. OthersStay(s)
  BY <1>1 DEF OthersStay, InWorld, TypePlaces
<1>4. \A q \in Slots : InWorld(q)' <=> InWorld(q)
  BY DEF InWorld
<1>5. SectorOf(tile'[s]) = b
  BY <1>1
<1>6. s \in members[a] /\ members \in [Sectors -> SUBSET Slots]
  BY <1>2 DEF SectorExact, TypePlaces
<1>7. \A q \in Slots \ {s} : InWorld(q) => (a \in Around(At(q)) <=> id[s] \in known[q])
  BY SeesMe
<1>8. (Seen(s))' = {q \in Slots \ {s} : InWorld(q) /\ At(q) \in Around(b)}
  BY <1>3, <1>4, <1>5 DEF Seen, OthersStay, SectorOf, Around, Sectors, Tiles
<1>9. known[s] = {id[q] : q \in Seen(s)} /\ known \in [Slots -> SUBSET Ids]
  BY ViewIs DEF TypePlaces
<1> HIDE DEF a, b, At
<1>10. CASE a = b
  <2>1. members' = members /\ known' = known
    BY <1>10 DEF Put, a, b
  <2>2. SectorExact'
    <3>1. \A c \in Sectors : s \in members[c] <=> c = a
      BY DEF SectorExact, a
    <3>2. \A c \in Sectors : members'[c] = (members[c] \ {s}) \cup (IF c = a THEN {s} ELSE {})
      BY <2>1, <3>1
    <3> QED BY <1>3, <1>4, <1>5, <1>10, <3>2, SectorStep
  <2>3. ASSUME NEW q \in Slots, InWorld(q)'
        PROVE  known'[q] = {id'[r] : r \in (Seen(q))'}
    <3>1. CASE q = s
      <4>1. (Seen(s))' = Seen(s)
        BY <1>8, <1>10 DEF Seen, a, b, At
      <4> QED BY <1>9, <2>1, <3>1, <4>1
    <3>2. CASE q # s
      <4>1. InWorld(q)
        BY <1>4, <2>3
      <4>2. b \in Around(At(q)) <=> id[s] \in known[q]
        BY <1>7, <1>10, <3>2, <4>1
      <4>3. IF InWorld(s)' /\ SectorOf(tile'[s]) \in Around(At(q))
              THEN known'[q] = (known[q] \ {id[s]}) \cup {id'[s]}
              ELSE known'[q] = known[q] \ {id[s]}
        BY <1>4, <1>5, <2>1, <4>2
      <4> QED BY <1>3, <2>3, <3>2, <4>3, OtherView DEF At
    <3> QED BY <3>1, <3>2
  <2>4. ViewExact'
    BY <2>3, ViewIs DEF ViewExact, Seen
  <2> QED BY <1>3, <2>2, <2>4
<1>11. CASE a # b
  <2> DEFINE gone == Around(a) \ Around(b)
             come == Around(b) \ Around(a)
             G == Crowd(gone) \ {s}
             C == Crowd(come) \ {s}
  <2>1. MoveSector(s, a, b) /\ SendPacket_MoveSector(s, a, b)
    BY <1>11 DEF Put, a, b
  <2>2. SectorExact'
    <3>1. \A c \in Sectors : members'[c] = (members[c] \ {s}) \cup (IF c = b THEN {s} ELSE {})
      BY <2>1 DEF MoveSector
    <3> QED BY <1>3, <1>4, <1>5, <3>1, SectorStep
  <2>3. gone \subseteq Sectors /\ come \subseteq Sectors
    BY DEF Around
  <2>4. /\ Crowd(gone) = {q \in Slots : InWorld(q) /\ At(q) \in gone}
        /\ Crowd(come) = {q \in Slots : InWorld(q) /\ At(q) \in come}
    BY <2>3, CrowdIs DEF At
  <2>5. known' = ViewsAfter(known, s, gone, come)
    BY <2>1 DEF SendPacket_MoveSector
  <2>6. ASSUME NEW q \in Slots, InWorld(q)'
        PROVE  known'[q] = {id'[r] : r \in (Seen(q))'}
    <3>1. CASE q = s
      <4>1. known'[s] = (known[s] \ {id[r] : r \in G}) \cup {id[r] : r \in C}
        BY <2>5 DEF ViewsAfter, Tell
      <4>2. (Seen(s))' = (Seen(s) \ G) \cup C
        BY <1>8, <2>4 DEF Seen, a, At
      <4>3. \A r \in Seen(s) \ G, x \in G : id[r] # id[x]
        BY <2>4, OwnId DEF Seen
      <4>4. known[s] \ {id[r] : r \in G} = {id[r] : r \in Seen(s) \ G}
        <5> HIDE DEF G
        <5> QED BY <1>9, <4>3
      <4> QED BY <3>1, <4>1, <4>2, <4>4
    <3>2. CASE q # s
      <4>1. InWorld(q) /\ At(q) \in Sectors
        BY <1>2, <1>4, <2>6
      <4>2. (a \in Around(At(q)) <=> At(q) \in Around(a)) /\ (b \in Around(At(q)) <=> At(q) \in Around(b))
        BY <1>2, <4>1, AroundSymmetric
      <4>3. a \in Around(At(q)) <=> id[s] \in known[q]
        BY <1>7, <3>2, <4>1
      <4>4. known'[q] = IF At(q) \in come THEN known[q] \cup {id[s]}
                        ELSE IF At(q) \in gone THEN known[q] \ {id[s]} ELSE known[q]
        BY <2>4, <2>5, <3>2, <4>1 DEF ViewsAfter
      <4>5. IF InWorld(s)' /\ SectorOf(tile'[s]) \in Around(At(q))
              THEN known'[q] = (known[q] \ {id[s]}) \cup {id'[s]}
              ELSE known'[q] = known[q] \ {id[s]}
        BY <1>4, <1>5, <4>2, <4>3, <4>4
      <4> QED BY <1>3, <2>6, <3>2, <4>5, OtherView DEF At
    <3> QED BY <3>1, <3>2
  <2>7. ViewExact'
    BY <2>6 DEF ViewExact, Seen
  <2> QED BY <1>3, <2>2, <2>7
<1> QED BY <1>10, <1>11

\* Player s stands on the tile that objs says it stands on.
Moved(objs, s, t) == \A u \in Tiles : objs[u] = (objects[u] \ {id[s]}) \cup (IF t = u THEN {id[s]} ELSE {})

LEMMA MoveObject ==
  ASSUME TypePlaces, Bodies, FieldExact, NEW s \in Slots, InWorld(s), NEW t, ~FieldFails(id[s], tile[s], t)
  PROVE  /\ t \in Tiles /\ ~die[s]
         /\ Moved(MoveTileObject(objects, id[s], tile[s], t), s, t)
         /\ MoveTileObject(objects, id[s], tile[s], t) \in [Tiles -> SUBSET Ids]
<1>1. tile[s] \in Tiles /\ id[s] \in Ids /\ t \in Tiles
  BY DEF Bodies, FieldFails
<1>2. id[s] \in objects[tile[s]]
  BY <1>1 DEF FieldFails, Nowhere, Tiles
<1>3. \A u \in Tiles : id[s] \in objects[u] => ~die[s] /\ tile[s] = u
  BY Listed
<1>4. Moved(MoveTileObject(objects, id[s], tile[s], t), s, t)
  BY <1>1, <1>3 DEF Moved, MoveTileObject
<1>5. MoveTileObject(objects, id[s], tile[s], t) \in [Tiles -> SUBSET Ids]
  BY <1>1 DEF MoveTileObject, TypePlaces
<1> QED BY <1>1, <1>2, <1>3, <1>4, <1>5

\* Where a living player stands, the lists have it already.
LEMMA StandsThere ==
  ASSUME TypePlaces, Bodies, FieldExact, NEW s \in Slots, InWorld(s), ~die[s]
  PROVE  Moved(objects, s, tile[s])
BY Listed DEF Moved

LEMMA PutTypes ==
  ASSUME ConstantsOK, TypePlaces, NEW s \in Slots, NEW t \in Tiles, Put(s, t), id \in [Slots -> Ids \cup {NoId}],
         Bodies, SectorExact, InWorld(s)
  PROVE  /\ tile' \in [Slots -> Tiles \cup {Nowhere}] /\ prev' \in [Slots -> Tiles \cup {Nowhere}]
         /\ members' \in [Sectors -> SUBSET Slots] /\ known' \in [Slots -> SUBSET Ids]
<1> DEFINE a == SectorOf(tile[s])
           b == SectorOf(t)
<1>1. tile' \in [Slots -> Tiles \cup {Nowhere}] /\ prev' \in [Slots -> Tiles \cup {Nowhere}]
  BY DEF Put, TypePlaces
<1>2. CASE a = b
  BY <1>1, <1>2 DEF Put, TypePlaces
<1>3. CASE a # b
  <2> DEFINE gone == Around(a) \ Around(b)
             come == Around(b) \ Around(a)
  <2>1. MoveSector(s, a, b) /\ known' = ViewsAfter(known, s, gone, come)
    BY <1>3 DEF Put, SendPacket_MoveSector
  <2>2. members' \in [Sectors -> SUBSET Slots]
    BY <2>1 DEF MoveSector, TypePlaces
  <2>3. come \subseteq Sectors /\ gone \subseteq Sectors
    BY DEF Around
  <2> HIDE DEF gone, come
  <2>4. \A q \in Crowd(come) : q \in Slots /\ id[q] \in Ids
    BY <2>3, CrowdIs DEF Bodies
  <2>5. id[s] \in Ids
    BY DEF Bodies
  <2>6. ASSUME NEW q \in Slots PROVE ViewsAfter(known, s, gone, come)[q] \subseteq Ids
    <3>1. known[q] \subseteq Ids
      BY DEF TypePlaces
    <3>2. \A x \in {id[r] : r \in Crowd(come) \ {s}} : x \in Ids
      BY <2>4
    <3>3. Tell(known[q], Crowd(come) \ {s}, Crowd(gone) \ {s}) \subseteq Ids
      BY <3>1, <3>2 DEF Tell
    <3> QED BY <2>5, <3>1, <3>3 DEF ViewsAfter
  <2>7. known' \in [Slots -> SUBSET Ids]
    BY <2>1, <2>6 DEF ViewsAfter
  <2> QED BY <1>1, <2>2, <2>7
<1> QED BY <1>2, <1>3

LEMMA MoveKeeps ==
  ASSUME ConstantsOK, TypePlaces, TypeBody, World, NEW s \in Slots, InWorld(s), NEW t,
         ~MoveFails(s, t), Move(s, t), UNCHANGED <<mode, id, die, nextId>>
  PROVE  /\ TypePlaces' /\ World'
         /\ UNCHANGED tile \/ (~die[s] /\ tile' = [tile EXCEPT ![s] = t])
<1>1. CASE Ignored(s, t)
  <2>1. UNCHANGED places
    BY <1>1 DEF Move
  <2>2. \A q \in Slots : InWorld(q)' <=> InWorld(q)
    BY DEF InWorld
  <2>3. Bodies' /\ FieldExact' /\ SectorExact' /\ ViewExact'
    BY <2>1, <2>2 DEF World, places, Bodies, FieldExact, SectorExact, ViewExact
  <2>4. TypePlaces'
    BY <2>1 DEF places, TypePlaces
  <2>5. World'
    BY <2>3 DEF World
  <2>6. UNCHANGED tile
    BY <2>1 DEF places
  <2> QED BY <2>4, <2>5, <2>6
<1>2. CASE ~Ignored(s, t)
  <2>1. Put(s, t) /\ objects' = MoveTileObject(objects, id[s], tile[s], t)
    BY <1>2 DEF Move
  <2>2. /\ t \in Tiles /\ ~die[s] /\ Moved(objects', s, t) /\ objects' \in [Tiles -> SUBSET Ids]
    BY <1>2, <2>1, MoveObject DEF World, MoveFails
  <2>3. tile' = [tile EXCEPT ![s] = t]
    BY <2>1 DEF Put
  <2>4. TypePlaces'
    BY <2>1, <2>2, PutTypes DEF World, TypePlaces, TypeBody
  <2>5. OthersStay(s) /\ SectorExact' /\ ViewExact'
    BY <2>1, <2>2, PutSees DEF World
  <2>6. Bodies'
    BY <2>2, <2>3 DEF World, Bodies, InWorld, TypePlaces
  <2>7. tile'[s] = t /\ InWorld(s)' /\ ~die'[s] /\ id'[s] = id[s]
    BY <2>2, <2>3 DEF InWorld, TypePlaces
  <2>8. FieldExact'
    BY <2>2, <2>5, <2>7, FieldStep DEF World, Moved
  <2>9. World'
    BY <2>5, <2>6, <2>8 DEF World
  <2> QED BY <2>2, <2>3, <2>4, <2>9
<1> QED BY <1>1, <1>2

LEMMA HurtField ==
  ASSUME TypePlaces, TypeBody, Bodies, FieldExact, NEW s \in Slots, NEW q \in Slots, InWorld(q),
         NEW n \in Int, NEW objs \in [Tiles -> SUBSET Ids], NEW t \in Tiles, tile'[q] = t, OthersStay(q) \/ UNCHANGED tile,
         Hurt(s, q, n, t, objs), Moved(objs, q, t), UNCHANGED <<mode, id>>
  PROVE  FieldExact' /\ objects' \in [Tiles -> SUBSET Ids] /\ hp' \in [Slots -> Int] /\ die' \in [Slots -> BOOLEAN]
<1> DEFINE dead == hp[q] - n < 0
<1>1. die' = [die EXCEPT ![q] = dead] /\ die'[q] = dead
  BY DEF Hurt, TypeBody
<1>2. hp' \in [Slots -> Int]
  BY DEF Hurt, TypeBody
<1>3. die' \in [Slots -> BOOLEAN]
  BY <1>1 DEF TypeBody
<1>4. objects' = IF dead THEN MoveTileObject(objs, id[q], t, Nowhere) ELSE objs
  BY DEF Hurt
<1>5. objects' \in [Tiles -> SUBSET Ids]
  <2>1. Nowhere \notin Tiles
    BY DEF Nowhere, Tiles
  <2> QED BY <1>4, <2>1 DEF MoveTileObject
<1>6. \A u \in Tiles : objects'[u] = (objects[u] \ {id[q]}) \cup (IF ~dead /\ t = u THEN {id[q]} ELSE {})
  <2>1. Nowhere \notin Tiles
    BY DEF Nowhere, Tiles
  <2> QED BY <1>4, <2>1 DEF Moved, MoveTileObject
<1>7. OthersStay(q)
  BY <1>1 DEF OthersStay, InWorld, TypeBody
<1>8. InWorld(q)' /\ id'[q] = id[q]
  BY DEF InWorld
<1>9. FieldExact'
  BY <1>1, <1>6, <1>7, <1>8, FieldStep
<1> QED BY <1>2, <1>3, <1>5, <1>9

-----------------------------------------------------------------------------
(* Steps that change nobody's place *)

WorldKeeps ==
  /\ UNCHANGED <<id, tile, die, objects, members, known, nextId>>
  /\ \A s \in Slots : InWorld(s)' <=> InWorld(s)

LEMMA WorldKept ==
  ASSUME World, WorldKeeps
  PROVE  World'
<1>1. Bodies'
  BY DEF World, WorldKeeps, Bodies
<1>2. FieldExact'
  BY DEF World, WorldKeeps, FieldExact
<1>3. SectorExact'
  BY DEF World, WorldKeeps, SectorExact
<1>4. ViewExact'
  BY DEF World, WorldKeeps, ViewExact
<1> QED BY <1>1, <1>2, <1>3, <1>4 DEF World

LEMMA CrashKeeps ==
  ASSUME IInv, NEW why \in {"tile", "dead", "edge", "left", "area", "direction"},
         Crash(why), packets' \in 0..MaxPackets
  PROVE  IInv' /\ DeadStep
<1>1. TypeOK'
  <2>1. TypePlaces' /\ TypeBody'
    BY DEF IInv, Crash, TypeOK, TypePlaces, TypeBody, places, body
  <2>2. TypePath' /\ TypeAim' /\ TypeEnd'
    BY DEF IInv, Crash, TypeOK, TypePath, TypeAim, TypeEnd, path, aim
  <2> QED BY <2>1, <2>2, TypeWhole
<1>2. WorldKeeps
  BY DEF Crash, WorldKeeps, InWorld, places, body
<1>3. DeadStep
  BY DEF Crash, DeadStep, places, body
<1> QED BY <1>1, <1>2, <1>3, WorldKept DEF IInv

LEMMA CrashMoveKeeps ==
  ASSUME IInv, NEW s, NEW t, CrashMove(s, t), packets' \in 0..MaxPackets
  PROVE  IInv' /\ DeadStep
<1>1. PICK why \in {"tile", "dead", "edge"} : Crash(why)
  BY DEF CrashMove
<1> QED BY <1>1, CrashKeeps

-----------------------------------------------------------------------------
(* Coming and going *)

LEMMA JoinKeeps ==
  ASSUME ConstantsOK, IInv, NEW s \in Slots, Join(s)
  PROVE  IInv' /\ DeadStep
<1> USE DEF IInv, World
<1>a. PICK k \in Kinds, t \in Spawns \ Walls :
        LET i == <<s, nextId>> c == SectorOf(t) crowd == Crowd(Around(c)) IN
          /\ id' = [id EXCEPT ![s] = i] /\ kind' = [kind EXCEPT ![s] = k]
          /\ tile' = [tile EXCEPT ![s] = t] /\ prev' = [prev EXCEPT ![s] = Nowhere]
          /\ objects' = MoveTileObject(objects, i, Nowhere, t)
          /\ members' = [members EXCEPT ![c] = @ \cup {s}]
          /\ known' = [q \in Slots |-> IF q = s THEN {id[r] : r \in crowd}
                                       ELSE IF q \in crowd THEN known[q] \cup {i} ELSE known[q]]
  BY DEF Join
<1> DEFINE i == <<s, nextId>>
           b == SectorOf(t)
           crowd == Crowd(Around(b))
           At(q) == SectorOf(tile[q])
<1>b. /\ mode[s] = "none" /\ nextId <= MaxIds /\ nextId' = nextId + 1
      /\ mode' = [mode EXCEPT ![s] = "game"]
      /\ hp' = [hp EXCEPT ![s] = MaxHp] /\ die' = [die EXCEPT ![s] = FALSE]
      /\ walking' = [walking EXCEPT ![s] = FALSE] /\ target' = [target EXCEPT ![s] = NoId]
      /\ Alive /\ UNCHANGED <<attack, points, count, index, goal, packets>>
  BY DEF Join
<1>1. TypePlaces /\ TypeBody /\ TypePath /\ TypeAim /\ TypeEnd
  BY TypeParts
<1>2. t \in Tiles /\ i \in Ids /\ ~InWorld(s) /\ id[s] = NoId /\ b \in Sectors
  <2>1. t \in Tiles
    BY DEF ConstantsOK
  <2>2. i \in Ids
    BY <1>b, <1>1 DEF Ids, TypeBody, ConstantsOK
  <2> QED BY <1>b, <2>1, <2>2, SectorsOfTiles DEF InWorld, Bodies
<1>3. id'[s] = i /\ tile'[s] = t /\ ~die'[s] /\ InWorld(s)'
  BY <1>a, <1>b, <1>1 DEF InWorld, TypePlaces, TypeBody
<1>4. OthersStay(s)
  BY <1>a, <1>b, <1>1 DEF OthersStay, InWorld, TypePlaces, TypeBody
<1>5. Bodies'
  <2>1. nextId \in Nat /\ \A q \in Slots : InWorld(q) => id[q][2] < nextId
    BY <1>1 DEF Bodies, TypeBody, ConstantsOK
  <2>2. ASSUME NEW q \in Slots
        PROVE  IF InWorld(q)' THEN id'[q] \in Ids /\ id'[q][1] = q /\ id'[q][2] < nextId' /\ tile'[q] \in Tiles
                              ELSE id'[q] = NoId
    <3>1. CASE q = s
      BY <1>2, <1>3, <1>b, <2>1, <3>1
    <3>2. CASE q # s
      <4>1. InWorld(q) => id[q][2] < nextId + 1
        <5>1. InWorld(q) => id[q][2] \in Nat
          BY DEF Bodies, Ids
        <5> QED BY <2>1, <5>1
      <4> QED BY <1>4, <1>b, <4>1, <3>2 DEF OthersStay, Bodies
    <3> QED BY <3>1, <3>2
  <2> QED BY <2>2 DEF Bodies
<1>6. FieldExact'
  <2>1. \A u \in Tiles : NoId \notin objects[u]
    BY <1>1, NoIdIsNone DEF TypePlaces
  <2>2. Nowhere \notin Tiles
    BY DEF Nowhere, Tiles
  <2>3. \A u \in Tiles : objects'[u] = (objects[u] \ {id[s]}) \cup (IF t = u THEN {i} ELSE {})
    BY <1>a, <1>2, <2>1, <2>2 DEF MoveTileObject
  <2> QED BY <1>3, <1>4, <2>3, FieldStep
<1>7. SectorExact'
  <2>1. \A c \in Sectors : s \notin members[c]
    BY <1>2 DEF SectorExact
  <2>2. \A c \in Sectors : members'[c] = (members[c] \ {s}) \cup (IF b = c THEN {s} ELSE {})
    BY <1>a, <1>1, <1>2, <2>1 DEF TypePlaces
  <2> QED BY <1>3, <1>4, <2>2, SectorStep
<1>8. crowd = {q \in Slots : InWorld(q) /\ At(q) \in Around(b)}
  BY CrowdIs DEF Around
<1>9. ViewExact'
  <2>1. ASSUME NEW q \in Slots, InWorld(q)'
        PROVE  known'[q] = {id'[r] : r \in (Seen(q))'}
    <3>1. CASE q = s
      <4>1. (Seen(s))' = crowd
        BY <1>2, <1>3, <1>4, <1>8 DEF Seen, OthersStay, SectorOf, Around, Sectors, Tiles
      <4>2. known'[s] = {id[r] : r \in crowd}
        BY <1>a
      <4>3. \A r \in crowd : id'[r] = id[r]
        BY <1>2, <1>4, <1>8 DEF OthersStay
      <4> QED BY <3>1, <4>1, <4>2, <4>3
    <3>2. CASE q # s
      <4>1. InWorld(q) /\ At(q) \in Sectors
        BY <1>4, <2>1, <3>2, SectorsOfTiles DEF OthersStay, Bodies
      <4>2. b \in Around(At(q)) <=> At(q) \in Around(b)
        BY <1>2, <4>1, AroundSymmetric
      <4>3. id[s] \notin known[q]
        BY <1>1, <1>2, NoIdIsNone DEF TypePlaces
      <4>4. known'[q] = IF At(q) \in Around(b) THEN known[q] \cup {i} ELSE known[q]
        BY <1>a, <1>8, <3>2, <4>1
      <4>5. IF InWorld(s)' /\ SectorOf(tile'[s]) \in Around(At(q))
              THEN known'[q] = (known[q] \ {id[s]}) \cup {id'[s]}
              ELSE known'[q] = known[q] \ {id[s]}
        BY <1>3, <4>2, <4>3, <4>4
      <4> QED BY <1>4, <2>1, <3>2, <4>5, OtherView
    <3> QED BY <3>1, <3>2
  <2> QED BY <2>1 DEF ViewExact, Seen
<1>10. TypePlaces'
  <2>1. objects' \in [Tiles -> SUBSET Ids]
    BY <1>a, <1>1, <1>2 DEF MoveTileObject, TypePlaces
  <2>2. \A q \in Slots : known'[q] \subseteq Ids
    BY <1>a, <1>1, <1>2, <1>8 DEF TypePlaces, Bodies
  <2>3. known' \in [Slots -> SUBSET Ids]
    BY <1>a, <2>2
  <2>4. /\ tile' \in [Slots -> Tiles \cup {Nowhere}] /\ prev' \in [Slots -> Tiles \cup {Nowhere}]
        /\ members' \in [Sectors -> SUBSET Slots]
    BY <1>a, <1>1, <1>2 DEF TypePlaces
  <2> QED BY <2>1, <2>3, <2>4 DEF TypePlaces
<1>11. TypeBody'
  <2>1. nextId' \in 1..MaxIds + 1
    BY <1>b, <1>1 DEF TypeBody, ConstantsOK
  <2>2. hp' \in [Slots -> Int] /\ die' \in [Slots -> BOOLEAN]
    BY <1>b, <1>1 DEF TypeBody, ConstantsOK
  <2> QED BY <1>a, <1>b, <1>1, <1>2, <2>1, <2>2 DEF TypeBody
<1>12. TypePath' /\ TypeAim' /\ TypeEnd'
  BY <1>b, <1>1 DEF TypePath, TypeAim, TypeEnd, Alive
<1>13. DeadStep
  <2>1. \A q \in Slots \ {s} : tile'[q] = tile[q] /\ hp'[q] = hp[q] /\ die'[q] = die[q]
    BY <1>a, <1>b, <1>1 DEF TypePlaces, TypeBody
  <2> QED BY <1>2, <2>1 DEF DeadStep
<1>14. World'
  BY <1>5, <1>6, <1>7, <1>9
<1> QED BY <1>10, <1>11, <1>12, <1>13, <1>14, TypeWhole

LEMMA LogoutKeeps ==
  ASSUME IInv, NEW s \in Slots, Logout(s)
  PROVE  IInv' /\ DeadStep
<1>1. TypePlaces /\ TypeBody /\ TypePath /\ TypeAim /\ TypeEnd
  BY TypeParts DEF IInv
<1>2. TypePlaces' /\ TypeBody'
  BY <1>1 DEF Logout, TypePlaces, TypeBody, places
<1>3. TypePath' /\ TypeAim' /\ TypeEnd'
  BY <1>1 DEF Logout, TypePath, TypeAim, TypeEnd, Alive, path, aim
<1>4. WorldKeeps
  BY <1>1 DEF Logout, WorldKeeps, InWorld, Playing, TypeBody, places
<1>5. DeadStep
  BY DEF Logout, DeadStep, places
<1> QED BY <1>2, <1>3, <1>4, <1>5, TypeWhole, WorldKept DEF IInv

\* OnGame_ClientLeave takes the player off its tile, out of its sector and out of the views.
LEMMA LeaveKeeps ==
  ASSUME ConstantsOK, IInv, NEW s \in Slots, Leave(s)
  PROVE  IInv' /\ DeadStep
<1> USE DEF IInv, World
<1> DEFINE a == SectorOf(tile[s])
           crowd == Crowd(Around(a)) \ {s}
           At(q) == SectorOf(tile[q])
<1>a. /\ mode[s] = "logout" /\ mode' = [mode EXCEPT ![s] = "none"] /\ id' = [id EXCEPT ![s] = NoId]
      /\ objects' = IF die[s] THEN objects ELSE MoveTileObject(objects, id[s], tile[s], Nowhere)
      /\ members' = [members EXCEPT ![a] = @ \ {s}]
      /\ known' = [q \in Slots |-> IF q = s THEN {} ELSE IF q \in crowd THEN known[q] \ {id[s]} ELSE known[q]]
      /\ Alive /\ UNCHANGED <<tile, prev, aim, path, kind, hp, die, nextId, packets>>
  BY DEF Leave, LeaveSector
<1>1. TypePlaces /\ TypeBody /\ TypePath /\ TypeAim /\ TypeEnd
  BY TypeParts
<1>2. InWorld(s) /\ tile[s] \in Tiles /\ id[s] \in Ids /\ a \in Sectors
  BY <1>a, SectorsOfTiles DEF InWorld, Bodies
<1>3. ~InWorld(s)' /\ id'[s] = NoId
  BY <1>a, <1>1 DEF InWorld, TypeBody
<1>4. OthersStay(s)
  BY <1>a, <1>1 DEF OthersStay, InWorld, TypeBody
<1>5. Bodies'
  BY <1>a, <1>3, <1>4 DEF Bodies, OthersStay
<1>6. FieldExact'
  <2>1. Nowhere \notin Tiles
    BY DEF Nowhere, Tiles
  <2>2. \A u \in Tiles : id[s] \in objects[u] <=> ~die[s] /\ tile[s] = u
    BY <1>2, Listed
  <2>3. \A u \in Tiles : objects'[u] = (objects[u] \ {id[s]}) \cup {}
    BY <1>a, <2>1, <2>2 DEF MoveTileObject
  <2> QED BY <1>3, <1>4, <2>3, FieldStep
<1>7. SectorExact'
  <2>1. \A c \in Sectors : s \in members[c] <=> c = a
    BY <1>2 DEF SectorExact
  <2>2. \A c \in Sectors : members'[c] = (members[c] \ {s}) \cup {}
    BY <1>a, <1>1, <2>1 DEF TypePlaces
  <2> QED BY <1>3, <1>4, <2>2, SectorStep
<1>8. ViewExact'
  <2>1. crowd = {q \in Slots : InWorld(q) /\ At(q) \in Around(a)} \ {s}
    BY CrowdIs DEF Around
  <2>2. ASSUME NEW q \in Slots, InWorld(q)'
        PROVE  known'[q] = {id'[r] : r \in (Seen(q))'}
    <3>1. q # s /\ InWorld(q)
      BY <1>3, <1>4, <2>2 DEF OthersStay
    <3>2. At(q) \in Sectors
      BY <3>1, SectorsOfTiles DEF Bodies
    <3>3. q \in crowd <=> a \in Around(At(q))
      BY <1>2, <2>1, <3>1, <3>2, AroundSymmetric
    <3>4. a \in Around(At(q)) <=> id[s] \in known[q]
      BY <1>2, <3>1, SeesMe
    <3>5. known'[q] = known[q] \ {id[s]}
      BY <1>a, <3>1, <3>3, <3>4
    <3> QED BY <1>3, <1>4, <2>2, <3>1, <3>5, OtherView
  <2> QED BY <2>2 DEF ViewExact, Seen
<1>9. World'
  BY <1>5, <1>6, <1>7, <1>8
<1>10. TypePlaces'
  <2>1. objects' \in [Tiles -> SUBSET Ids]
    <3>1. Nowhere \notin Tiles
      BY DEF Nowhere, Tiles
    <3> QED BY <1>a, <1>1, <3>1 DEF MoveTileObject, TypePlaces
  <2>2. known' \in [Slots -> SUBSET Ids]
    BY <1>a, <1>1 DEF TypePlaces
  <2> QED BY <1>a, <1>1, <2>1, <2>2 DEF TypePlaces
<1>11. TypeBody'
  BY <1>a, <1>1 DEF TypeBody
<1>12. TypePath' /\ TypeAim' /\ TypeEnd'
  BY <1>a, <1>1 DEF TypePath, TypeAim, TypeEnd, Alive, path, aim
<1>13. DeadStep
  BY <1>a DEF DeadStep
<1> QED BY <1>9, <1>10, <1>11, <1>12, <1>13, TypeWhole

-----------------------------------------------------------------------------
(* OnGame_PacketProc *)

\* Move, if the client's claim is near enough to be taken.
LEMMA ClaimKeeps ==
  ASSUME ConstantsOK, IInv, NEW s \in Slots, InWorld(s), NEW t, ~(Near(s, t) /\ MoveFails(s, t)),
         IF Near(s, t) THEN Move(s, t) ELSE UNCHANGED places, UNCHANGED body
  PROVE  TypePlaces' /\ TypeBody' /\ World' /\ DeadStep
<1>1. TypePlaces /\ TypeBody /\ World
  BY TypeParts DEF IInv
<1>2. TypeBody' /\ UNCHANGED <<mode, id, hp, die, nextId>>
  BY <1>1 DEF TypeBody, body
<1>3. CASE Near(s, t)
  <2>1. TypePlaces' /\ World' /\ (UNCHANGED tile \/ (~die[s] /\ tile' = [tile EXCEPT ![s] = t]))
    BY <1>1, <1>2, <1>3, MoveKeeps
  <2>2. DeadStep
    BY <1>1, <1>2, <2>1 DEF DeadStep, TypePlaces
  <2> QED BY <1>2, <2>1, <2>2
<1>4. CASE ~Near(s, t)
  <2>1. TypePlaces'
    BY <1>1, <1>4 DEF TypePlaces, places
  <2>2. WorldKeeps
    BY <1>2, <1>4 DEF WorldKeeps, InWorld, places
  <2>3. DeadStep
    BY <1>2, <1>4 DEF DeadStep, places
  <2> QED BY <1>1, <1>2, <2>1, <2>2, <2>3, WorldKept
<1> QED BY <1>3, <1>4

LEMMA PacketCounts ==
  ASSUME ConstantsOK, IInv, NEW s \in Slots, Packet(s)
  PROVE  packets' \in 0..MaxPackets /\ InWorld(s) /\ crash = "no"
<1>1. packets \in 0..MaxPackets /\ MaxPackets \in Nat
  BY DEF IInv, TypeOK, ConstantsOK
<1> QED BY <1>1 DEF Packet, Playing, InWorld

LEMMA StopTypes ==
  ASSUME TypePath, NEW s \in Slots, MoveStop(s), UNCHANGED goal
  PROVE  TypePath'
BY DEF MoveStop, TypePath

LEMMA WriteTypes ==
  ASSUME TypePath, NEW s \in Slots, NEW p \in Seq(Tiles), Write(s, p)
  PROVE  points' \in [Slots -> Seq(Tiles)] /\ count' \in [Slots -> Nat]
<1>1. points[s] \in Seq(Tiles)
  BY DEF TypePath
<1>2. Len(p) \in Nat /\ Len(points[s]) \in Nat
  BY <1>1
<1>3. SubSeq(points[s], Len(p) + 1, Len(points[s])) \in Seq(Tiles)
  BY <1>1, <1>2, SubSeqProperties
<1>4. p \o SubSeq(points[s], Len(p) + 1, Len(points[s])) \in Seq(Tiles)
  BY <1>3, ConcatProperties
<1>5. points' \in [Slots -> Seq(Tiles)]
  BY <1>4 DEF Write, TypePath
<1>6. count' \in [Slots -> Nat]
  BY <1>2 DEF Write, TypePath
<1> QED BY <1>5, <1>6

LEMMA PathsTypes ==
  ASSUME NEW a \in Tiles, NEW b \in Tiles
  PROVE  Paths(a, b) \subseteq Seq(Tiles)
<1> SUFFICES ASSUME NEW p \in Paths(a, b) PROVE p \in Seq(Tiles)
  OBVIOUS
<1>1. CASE a = b
  <2>1. p = <<a>>
    BY <1>1 DEF Paths
  <2> QED BY <2>1
<1>2. CASE a # b
  <2>1. p = <<a, b>> \/ \E c \in Tiles : p = <<a, c, b>>
    BY <1>2 DEF Paths
  <2>2. <<a, b>> \in Seq(Tiles)
    OBVIOUS
  <2>3. \A c \in Tiles : <<a, c, b>> \in Seq(Tiles)
    OBVIOUS
  <2> QED BY <2>1, <2>2, <2>3
<1> QED BY <1>1, <1>2

LEMMA MoveCharacterKeeps ==
  ASSUME ConstantsOK, IInv, NEW s \in Slots, PacketProc_MoveCharacter(s)
  PROVE  IInv' /\ DeadStep
<1>1. TypePlaces /\ TypeBody /\ TypePath /\ TypeAim /\ TypeEnd
  BY TypeParts DEF IInv
<1>2. packets' \in 0..MaxPackets /\ InWorld(s)
  BY PacketCounts DEF PacketProc_MoveCharacter
<1>3. PICK origin \in Tiles, dest \in Dests :
        IF Near(s, origin) /\ MoveFails(s, origin) THEN CrashMove(s, origin)
        ELSE /\ IF Near(s, origin) THEN Move(s, origin) ELSE UNCHANGED places
             /\ \/ \E p \in Paths(Stands(s, origin), dest) :
                     /\ walking' = [walking EXCEPT ![s] = TRUE]
                     /\ Write(s, p) /\ index' = [index EXCEPT ![s] = 0]
                     /\ goal' = [goal EXCEPT ![s] = dest]
                \/ Paths(Stands(s, origin), dest) = {} /\ MoveStop(s) /\ UNCHANGED goal
             /\ target' = [target EXCEPT ![s] = NoId]
             /\ Alive /\ UNCHANGED <<body, attack>>
  BY DEF PacketProc_MoveCharacter
<1>4. CASE Near(s, origin) /\ MoveFails(s, origin)
  BY <1>2, <1>3, <1>4, CrashMoveKeeps
<1>5. CASE ~(Near(s, origin) /\ MoveFails(s, origin))
  <2>1. TypePlaces' /\ TypeBody' /\ World' /\ DeadStep
    BY <1>2, <1>3, <1>5, ClaimKeeps
  <2>2. TypePath'
    <3>1. CASE MoveStop(s) /\ UNCHANGED goal
      BY <1>1, <3>1, StopTypes
    <3>2. ASSUME NEW p \in Paths(Stands(s, origin), dest), Write(s, p),
                 walking' = [walking EXCEPT ![s] = TRUE],
                 index' = [index EXCEPT ![s] = 0], goal' = [goal EXCEPT ![s] = dest]
          PROVE  TypePath'
      <4>1. Stands(s, origin) \in Tiles /\ dest \in Tiles
        BY <1>2 DEF Stands, IInv, World, Bodies, ConstantsOK
      <4>2. p \in Seq(Tiles)
        BY <4>1, PathsTypes
      <4>3. points' \in [Slots -> Seq(Tiles)] /\ count' \in [Slots -> Nat]
        BY <1>1, <3>2, <4>2, WriteTypes
      <4>4. index' \in [Slots -> Nat] /\ goal' \in [Slots -> Tiles \cup {Nowhere}]
        BY <1>1, <3>2, <4>1 DEF TypePath
      <4>5. walking' \in [Slots -> BOOLEAN]
        BY <1>1, <3>2 DEF TypePath
      <4> QED BY <4>3, <4>4, <4>5 DEF TypePath
    <3> QED BY <1>3, <1>5, <3>1, <3>2
  <2>3. TypeAim'
    BY <1>1, <1>3, <1>5 DEF TypeAim
  <2>4. TypeEnd'
    BY <1>1, <1>2, <1>3, <1>5 DEF TypeEnd, Alive
  <2> QED BY <2>1, <2>2, <2>3, <2>4, TypeWhole DEF IInv
<1> QED BY <1>4, <1>5

LEMMA StopCharacterKeeps ==
  ASSUME ConstantsOK, IInv, NEW s \in Slots, PacketProc_StopCharacter(s)
  PROVE  IInv' /\ DeadStep
<1>1. TypePlaces /\ TypeBody /\ TypePath /\ TypeAim /\ TypeEnd
  BY TypeParts DEF IInv
<1>2. packets' \in 0..MaxPackets /\ InWorld(s)
  BY PacketCounts DEF PacketProc_StopCharacter
<1>3. PICK t \in Tiles :
        IF Near(s, t) /\ MoveFails(s, t) THEN CrashMove(s, t)
        ELSE /\ IF Near(s, t) THEN Move(s, t) ELSE UNCHANGED places
             /\ MoveStop(s) /\ Alive /\ UNCHANGED <<body, aim, goal>>
  BY DEF PacketProc_StopCharacter
<1>4. CASE Near(s, t) /\ MoveFails(s, t)
  BY <1>2, <1>3, <1>4, CrashMoveKeeps
<1>5. CASE ~(Near(s, t) /\ MoveFails(s, t))
  <2>1. TypePlaces' /\ TypeBody' /\ World' /\ DeadStep
    BY <1>2, <1>3, <1>5, ClaimKeeps
  <2>2. TypePath'
    BY <1>1, <1>3, <1>5, StopTypes
  <2>3. TypeAim' /\ TypeEnd'
    BY <1>1, <1>2, <1>3, <1>5 DEF TypeAim, TypeEnd, Alive, aim
  <2> QED BY <2>1, <2>2, <2>3, TypeWhole DEF IInv
<1> QED BY <1>4, <1>5

\* An attack packet only picks a target.
LEMMA AttackPacketKeeps ==
  ASSUME ConstantsOK, IInv, NEW s \in Slots, PacketProc_Attack(s)
  PROVE  IInv' /\ DeadStep
<1>1. TypePlaces /\ TypeBody /\ TypePath /\ TypeAim /\ TypeEnd
  BY TypeParts DEF IInv
<1>2. packets' \in 0..MaxPackets /\ InWorld(s)
  BY PacketCounts DEF PacketProc_Attack
<1>3. PICK i \in known[s] \cup {id[s]} \cup Left(s), type \in {1, 2} :
        IF id[i[1]] # i THEN Crash("left")
        ELSE /\ IF kind[s].party # kind[i[1]].party \/ kind[s].elf
                  THEN target' = [target EXCEPT ![s] = i] /\ attack' = [attack EXCEPT ![s] = type]
                  ELSE UNCHANGED aim
             /\ Alive /\ UNCHANGED <<places, body, path>>
  BY DEF PacketProc_Attack
<1>4. i \in Ids
  BY <1>1, <1>2 DEF TypePlaces, Left, IInv, World, Bodies
<1>5. CASE id[i[1]] # i
  BY <1>2, <1>3, <1>5, CrashKeeps
<1>6. CASE id[i[1]] = i
  <2>1. TypeAim'
    BY <1>1, <1>3, <1>4, <1>6 DEF TypeAim, aim
  <2>2. TypePlaces' /\ TypeBody'
    BY <1>1, <1>3, <1>6 DEF TypePlaces, TypeBody, places, body
  <2>3. TypePath' /\ TypeEnd'
    BY <1>1, <1>2, <1>3, <1>6 DEF TypePath, TypeEnd, Alive, path
  <2>4. WorldKeeps
    BY <1>3, <1>6 DEF WorldKeeps, InWorld, places, body
  <2>5. DeadStep
    BY <1>3, <1>6 DEF DeadStep, places, body
  <2> QED BY <2>1, <2>2, <2>3, <2>4, <2>5, TypeWhole, WorldKept DEF IInv
<1> QED BY <1>5, <1>6

-----------------------------------------------------------------------------
(* OnGame_Update *)

LEMMA StepKeeps ==
  ASSUME ConstantsOK, IInv, NEW s \in Slots, InWorld(s), NEW d, Step(s, d), UNCHANGED packets,
         \/ crash' = "no" /\ index' \in [Slots -> Nat]
         \/ UNCHANGED index
  PROVE  IInv' /\ DeadStep
<1>1. TypePlaces /\ TypeBody /\ TypePath /\ TypeAim /\ TypeEnd /\ World
  BY TypeParts DEF IInv
<1>2. packets' \in 0..MaxPackets
  BY <1>1 DEF TypeEnd
<1>3. CASE Crash("direction")
  BY <1>2, <1>3, CrashKeeps
<1>4. ASSUME NEW t, MoveFails(s, t), CrashMove(s, t)
      PROVE  IInv' /\ DeadStep
  BY <1>2, <1>4, CrashMoveKeeps
<1>5. ASSUME NEW t, ~MoveFails(s, t), Move(s, t), Alive,
             UNCHANGED <<body, aim, walking, points, count, goal>>
      PROVE  IInv' /\ DeadStep
  <2>1. TypeBody' /\ UNCHANGED <<mode, id, hp, die, nextId>>
    BY <1>1, <1>5 DEF TypeBody, body
  <2>2. TypePlaces' /\ World' /\ (UNCHANGED tile \/ (~die[s] /\ tile' = [tile EXCEPT ![s] = t]))
    BY <1>1, <1>5, <2>1, MoveKeeps
  <2>3. DeadStep
    BY <1>1, <2>1, <2>2 DEF DeadStep, TypePlaces
  <2>4. TypePath'
    BY <1>1, <1>5 DEF TypePath
  <2>5. TypeAim' /\ TypeEnd'
    BY <1>1, <1>5 DEF TypeAim, TypeEnd, Alive, aim
  <2> QED BY <2>1, <2>2, <2>3, <2>4, <2>5, TypeWhole DEF IInv
<1> QED BY <1>3, <1>4, <1>5 DEF Step

LEMMA ActionMoveKeeps ==
  ASSUME ConstantsOK, IInv, NEW s \in Slots, Action_Move(s)
  PROVE  IInv' /\ DeadStep
<1> DEFINE n == IF tile[s] = Point(s, index[s]) THEN index[s] + 1 ELSE index[s]
<1>1. TypePlaces /\ TypeBody /\ TypePath /\ TypeAim /\ TypeEnd /\ World
  BY TypeParts DEF IInv
<1>2. InWorld(s) /\ UNCHANGED packets /\ Walk(s)
  BY DEF Action_Move, Playing, InWorld
<1>3. index' = [index EXCEPT ![s] = IF crash' = "no" THEN n ELSE @]
  BY <1>2 DEF Walk
<1>4. n \in Nat
  BY <1>1 DEF TypePath
<1> HIDE DEF n
<1>5. index' \in [Slots -> Nat] /\ (crash' # "no" => UNCHANGED index)
  BY <1>1, <1>3, <1>4 DEF TypePath
<1>6. CASE Arrive(s)
  <2>1. TypePlaces' /\ TypeBody'
    BY <1>1, <1>6 DEF Arrive, TypePlaces, TypeBody, places, body
  <2>2. TypePath'
    BY <1>1, <1>5, <1>6 DEF Arrive, TypePath
  <2>3. TypeAim' /\ TypeEnd'
    BY <1>1, <1>2, <1>6 DEF Arrive, TypeAim, TypeEnd, Alive, aim
  <2>4. WorldKeeps
    BY <1>6 DEF Arrive, WorldKeeps, InWorld, places, body
  <2>5. DeadStep
    BY <1>6 DEF Arrive, DeadStep, places, body
  <2> QED BY <1>1, <2>1, <2>2, <2>3, <2>4, <2>5, TypeWhole, WorldKept DEF IInv
<1>7. ASSUME NEW d, Step(s, d)
      PROVE  IInv' /\ DeadStep
  BY <1>2, <1>5, <1>7, StepKeeps
<1> QED BY <1>2, <1>6, <1>7 DEF Walk

\* A blow lands on q, alive until then, that stands on t when it does.
LEMMA BlowKeeps ==
  ASSUME ConstantsOK, IInv, NEW s \in Slots, NEW q \in Slots, InWorld(q), ~die[q],
         NEW n \in Int, NEW objs \in [Tiles -> SUBSET Ids], NEW t \in Tiles,
         Moved(objs, q, t), Hurt(s, q, n, t, objs),
         Put(q, t) \/ (t = tile[q] /\ UNCHANGED <<tile, prev, members, known>>),
         MoveStop(s), Alive, UNCHANGED <<mode, id, kind, nextId, goal, packets>>
  PROVE  IInv' /\ DeadStep
<1>1. TypePlaces /\ TypeBody /\ TypePath /\ TypeAim /\ TypeEnd /\ World
  BY TypeParts DEF IInv
<1>2. \A r \in Slots \ {q} : die'[r] = die[r] /\ hp'[r] = hp[r]
  BY <1>1 DEF Hurt, TypeBody
<1>3. tile' = [tile EXCEPT ![q] = t] /\ tile'[q] = t
  BY <1>1 DEF Put, TypePlaces
<1>4. OthersStay(q) /\ SectorExact' /\ ViewExact'
  <2>1. CASE Put(q, t)
    BY <1>1, <1>2, <2>1, PutSees DEF World
  <2>2. CASE t = tile[q] /\ UNCHANGED <<tile, prev, members, known>>
    <3>1. OthersStay(q)
      BY <1>2, <2>2 DEF OthersStay, InWorld
    <3>2. \A r \in Slots : InWorld(r)' <=> InWorld(r)
      BY DEF InWorld
    <3>3. SectorExact'
      BY <1>1, <2>2, <3>2 DEF World, SectorExact
    <3>4. ViewExact'
      BY <1>1, <2>2, <3>2 DEF World, ViewExact
    <3> QED BY <3>1, <3>3, <3>4
  <2> QED BY <2>1, <2>2
<1>5. FieldExact' /\ objects' \in [Tiles -> SUBSET Ids] /\ hp' \in [Slots -> Int] /\ die' \in [Slots -> BOOLEAN]
  BY <1>1, <1>3, <1>4, HurtField DEF World
<1>6. Bodies'
  BY <1>1, <1>3 DEF World, Bodies, InWorld, TypePlaces
<1>7. World'
  BY <1>4, <1>5, <1>6 DEF World
<1>8. TypePlaces'
  <2>1. CASE Put(q, t)
    <3>1. id \in [Slots -> Ids \cup {NoId}]
      BY <1>1 DEF TypeBody
    <3> QED BY <1>1, <1>5, <2>1, <3>1, PutTypes DEF World, TypePlaces
  <2>2. CASE UNCHANGED <<tile, prev, members, known>>
    BY <1>1, <1>5, <2>2 DEF TypePlaces
  <2> QED BY <2>1, <2>2
<1>9. TypeBody'
  BY <1>1, <1>5 DEF TypeBody
<1>10. TypePath'
  BY <1>1, StopTypes
<1>11. TypeAim'
  BY <1>1 DEF Hurt, Forget, TypeAim, aim
<1>12. TypeEnd'
  BY <1>1 DEF TypeEnd, Alive
<1>13. DeadStep
  BY <1>2, <1>4 DEF DeadStep, OthersStay
<1> QED BY <1>7, <1>8, <1>9, <1>10, <1>11, <1>12, <1>13, TypeWhole DEF IInv

LEMMA AttackOneKeeps ==
  ASSUME ConstantsOK, IInv, NEW s \in Slots, NEW q \in Slots, InWorld(q), ~die[q],
         AttackOne(s, q), UNCHANGED packets
  PROVE  IInv' /\ DeadStep
<1>1. TypePlaces /\ TypeBody /\ TypePath /\ TypeAim /\ TypeEnd /\ World
  BY TypeParts DEF IInv
<1>2. objects \in [Tiles -> SUBSET Ids] /\ tile[q] \in Tiles /\ Moved(objects, q, tile[q])
  BY <1>1, StandsThere DEF World, TypePlaces, Bodies
<1>3. Blow \in Int /\ -Blow \in Int
  BY DEF ConstantsOK
<1>4. CASE kind[s].elf
  <2>1. /\ Hurt(s, q, -Blow, tile[q], objects) /\ MoveStop(s) /\ Alive
        /\ UNCHANGED <<tile, prev, members, known, mode, id, kind, nextId, goal>>
    BY <1>4 DEF AttackOne
  <2> QED BY <1>2, <1>3, <2>1, BlowKeeps
<1>5. CASE ~kind[s].elf
  <2>1. PICK t \in PushTiles(s, q), free \in BOOLEAN :
           IF free /\ MoveFails(q, t) THEN CrashMove(q, t)
           ELSE /\ IF free /\ ~Ignored(q, t)
                     THEN Put(q, t) /\ Hurt(s, q, Blow, t, MoveTileObject(objects, id[q], tile[q], t))
                     ELSE /\ Hurt(s, q, Blow, tile[q], objects)
                          /\ UNCHANGED <<tile, prev, members, known>>
                /\ MoveStop(s)
                /\ Alive /\ UNCHANGED <<mode, id, kind, nextId, goal>>
    BY <1>5 DEF AttackOne
  <2>2. CASE free /\ MoveFails(q, t)
    <3>1. packets' \in 0..MaxPackets
      BY <1>1 DEF TypeEnd
    <3> QED BY <2>1, <2>2, <3>1, CrashMoveKeeps
  <2>3. CASE ~MoveFails(q, t) /\ free /\ ~Ignored(q, t)
    <3> DEFINE objs == MoveTileObject(objects, id[q], tile[q], t)
    <3>1. t \in Tiles /\ Moved(objs, q, t) /\ objs \in [Tiles -> SUBSET Ids]
      BY <1>1, <2>3, MoveObject DEF World, MoveFails
    <3>2. Put(q, t) /\ Hurt(s, q, Blow, t, objs) /\ MoveStop(s) /\ Alive /\ UNCHANGED <<mode, id, kind, nextId, goal>>
      BY <2>1, <2>3
    <3> HIDE DEF objs
    <3> QED BY <1>3, <3>1, <3>2, BlowKeeps
  <2>4. CASE ~(free /\ MoveFails(q, t)) /\ ~(free /\ ~Ignored(q, t))
    <3>1. /\ Hurt(s, q, Blow, tile[q], objects) /\ MoveStop(s) /\ Alive
          /\ UNCHANGED <<tile, prev, members, known, mode, id, kind, nextId, goal>>
      BY <2>1, <2>4
    <3> QED BY <1>2, <1>3, <3>1, BlowKeeps
  <2> QED BY <2>2, <2>3, <2>4
<1> QED BY <1>4, <1>5

LEMMA ActionAttackKeeps ==
  ASSUME ConstantsOK, IInv, NEW s \in Slots, Action_Attack(s)
  PROVE  IInv' /\ DeadStep
<1> DEFINE q == target[s][1]
<1>1. TypePlaces /\ TypeBody /\ TypePath /\ TypeAim /\ TypeEnd /\ World
  BY TypeParts DEF IInv
<1>2. /\ Playing(s) /\ target[s] # NoId /\ UNCHANGED packets
      /\ IF id[q] # target[s] \/ die[q] THEN GiveUp(s)
         ELSE IF ~InReach(s, q) THEN Chase(s, q)
         ELSE IF attack[s] = 1 THEN AttackOne(s, q)
         ELSE Crash("area")
  BY DEF Action_Attack
<1>3. target[s] \in Ids /\ q \in Slots /\ InWorld(s)
  BY <1>1, <1>2 DEF TypeAim, Ids, Playing, InWorld
<1>4. packets' \in 0..MaxPackets
  BY <1>1, <1>2 DEF TypeEnd
<1>5. id[q] = target[s] => InWorld(q) /\ tile[q] \in Tiles
  BY <1>1, <1>2, <1>3, NoIdIsNone DEF World, Bodies
<1> HIDE DEF q
<1>6. CASE GiveUp(s) /\ (id[q] # target[s] \/ die[q])
  <2>1. TypePath'
    BY <1>1, <1>6, StopTypes DEF GiveUp
  <2>2. TypeAim' /\ TypeEnd'
    BY <1>1, <1>2, <1>6 DEF GiveUp, Forget, TypeAim, TypeEnd, Alive
  <2>3. TypePlaces' /\ TypeBody'
    BY <1>1, <1>6 DEF GiveUp, TypePlaces, TypeBody, places, body
  <2>4. WorldKeeps
    BY <1>6 DEF GiveUp, WorldKeeps, InWorld, places, body
  <2>5. DeadStep
    BY <1>6 DEF GiveUp, DeadStep, places, body
  <2> QED BY <1>1, <2>1, <2>2, <2>3, <2>4, <2>5, TypeWhole, WorldKept DEF IInv
<1>7. CASE Chase(s, q) /\ id[q] = target[s]
  <2>1. points' \in [Slots -> Seq(Tiles)] /\ count' \in [Slots -> Nat]
    <3>1. ASSUME NEW p \in Paths(tile[s], tile[q]), Write(s, p)
          PROVE  points' \in [Slots -> Seq(Tiles)] /\ count' \in [Slots -> Nat]
      <4>1. tile[s] \in Tiles
        BY <1>1, <1>3 DEF World, Bodies
      <4>2. p \in Seq(Tiles)
        BY <1>5, <1>7, <4>1, PathsTypes
      <4> QED BY <1>1, <3>1, <4>2, WriteTypes
    <3>2. ASSUME UNCHANGED points,
                 count' = [count EXCEPT ![s] = IF {tile[s], tile[q]} \cap Blocks = {} THEN 0 ELSE @]
          PROVE  points' \in [Slots -> Seq(Tiles)] /\ count' \in [Slots -> Nat]
      BY <1>1, <3>2 DEF TypePath
    <3> QED BY <1>7, <3>1, <3>2 DEF Chase
  <2>2. TypePath'
    <3>1. goal' \in [Slots -> Tiles \cup {Nowhere}]
      BY <1>1, <1>5, <1>7 DEF Chase, TypePath
    <3>2. walking' \in [Slots -> BOOLEAN] /\ index' \in [Slots -> Nat]
      BY <1>1, <1>7 DEF Chase, TypePath
    <3> QED BY <2>1, <3>1, <3>2 DEF TypePath
  <2>3. TypePlaces' /\ TypeBody'
    BY <1>1, <1>7 DEF Chase, TypePlaces, TypeBody, places, body
  <2>4. TypeAim' /\ TypeEnd'
    BY <1>1, <1>2, <1>7 DEF Chase, TypeAim, TypeEnd, Alive, aim
  <2>5. WorldKeeps
    BY <1>7 DEF Chase, WorldKeeps, InWorld, places, body
  <2>6. DeadStep
    BY <1>7 DEF Chase, DeadStep, places, body
  <2> QED BY <1>1, <2>2, <2>3, <2>4, <2>5, <2>6, TypeWhole, WorldKept DEF IInv
<1>8. CASE AttackOne(s, q) /\ id[q] = target[s] /\ ~die[q]
  BY <1>2, <1>3, <1>5, <1>8, AttackOneKeeps DEF q
<1>9. CASE Crash("area")
  BY <1>4, <1>9, CrashKeeps
<1> QED BY <1>2, <1>6, <1>7, <1>8, <1>9

-----------------------------------------------------------------------------

LEMMA InitInv ==
  ASSUME ConstantsOK, Init
  PROVE  IInv
<1>1. TypePlaces /\ TypeBody /\ TypePath /\ TypeAim /\ TypeEnd
  <2>1. TypePlaces
    BY DEF Init, TypePlaces
  <2>2. TypeBody
    BY DEF Init, TypeBody, ConstantsOK
  <2>3. TypePath
    <3>1. <<>> \in Seq(Tiles)
      OBVIOUS
    <3> QED BY <3>1 DEF Init, TypePath
  <2>4. TypeAim /\ TypeEnd
    BY DEF Init, TypeAim, TypeEnd, ConstantsOK
  <2> QED BY <2>1, <2>2, <2>3, <2>4
<1>2. \A s \in Slots : ~InWorld(s)
  BY DEF Init, InWorld
<1>3. Bodies
  BY <1>2 DEF Init, Bodies
<1>4. FieldExact
  BY <1>2 DEF Init, FieldExact
<1>5. SectorExact
  BY <1>2 DEF Init, SectorExact
<1>6. ViewExact
  BY <1>2 DEF ViewExact
<1> QED BY <1>1, <1>3, <1>4, <1>5, <1>6, TypeParts DEF IInv, World

LEMMA NextInv ==
  ASSUME ConstantsOK, IInv, Next
  PROVE  IInv' /\ DeadStep
<1>1. PICK s \in Slots :
        \/ Join(s) \/ Logout(s) \/ Leave(s)
        \/ PacketProc_MoveCharacter(s) \/ PacketProc_StopCharacter(s) \/ PacketProc_Attack(s)
        \/ Action_Move(s) \/ Action_Attack(s)
  BY DEF Next
<1>2. CASE Join(s) \/ Logout(s) \/ Leave(s)
  BY <1>2, JoinKeeps, LogoutKeeps, LeaveKeeps
<1>3. CASE PacketProc_MoveCharacter(s) \/ PacketProc_StopCharacter(s) \/ PacketProc_Attack(s)
  BY <1>3, MoveCharacterKeeps, StopCharacterKeeps, AttackPacketKeeps
<1>4. CASE Action_Move(s) \/ Action_Attack(s)
  BY <1>4, ActionMoveKeeps, ActionAttackKeeps
<1> QED BY <1>1, <1>2, <1>3, <1>4

LEMMA StutterInv ==
  ASSUME IInv, UNCHANGED vars
  PROVE  IInv' /\ DeadStep
<1>1. TypePlaces /\ TypeBody /\ TypePath /\ TypeAim /\ TypeEnd /\ World
  BY TypeParts DEF IInv
<1>2. TypePlaces' /\ TypeBody'
  BY <1>1 DEF vars, TypePlaces, TypeBody, places, body
<1>3. TypePath' /\ TypeAim' /\ TypeEnd'
  BY <1>1 DEF vars, TypePath, TypeAim, TypeEnd, path, aim
<1>4. WorldKeeps
  BY DEF vars, WorldKeeps, InWorld, places, body
<1>5. DeadStep
  BY DEF vars, DeadStep, places, body
<1> QED BY <1>1, <1>2, <1>3, <1>4, <1>5, TypeWhole, WorldKept DEF IInv

\* In every behaviour of the game, the tiles, the sectors and the views of the clients agree
\* with where the players stand: the invariant all the handlers of CPlayer keep.
THEOREM Invariance == Spec => []IInv
<1> USE ConstantsOK
<1>1. IInv /\ [Next]_vars => IInv'
  BY NextInv, StutterInv
<1> QED BY <1>1, InitInv, PTL DEF Spec

\* The variables of the game keep their types.
THEOREM TypeCorrect == Spec => []TypeOK
BY Invariance, PTL DEF IInv

\* The list of every tile is exactly the living players that stand there, whoever was moved,
\* pushed, killed or disconnected in whatever order (Field.h, Player.cpp).
THEOREM FieldAlways == Spec => []FieldExact
<1>1. IInv => FieldExact
  BY DEF IInv, World
<1> QED BY <1>1, Invariance, PTL

\* Every sector holds exactly the players whose tile lies in it (Sector.cpp).
THEOREM SectorAlways == Spec => []SectorExact
<1>1. IInv => SectorExact
  BY DEF IInv, World
<1> QED BY <1>1, Invariance, PTL

\* Every client shows exactly the other players in the nine sectors around its own: no ghost
\* stays, nobody is missing (SendPacket_MoveSector, OnGame_ClientJoin, OnGame_ClientLeave).
THEOREM ViewAlways == Spec => []ViewExact
<1>1. IInv => ViewExact
  BY DEF IInv, World
<1> QED BY <1>1, Invariance, PTL

\* No step moves, hurts or revives a dead player before its session ends.
THEOREM DeadAlways == Spec => DeadStay
<1> USE ConstantsOK
<1>1. IInv /\ [Next]_vars =>
        [\A s \in Slots : die[s] /\ id'[s] = id[s] /\ InWorld(s) =>
           /\ tile'[s] = tile[s] /\ hp'[s] = hp[s] /\ die'[s]]_vars
  BY NextInv DEF DeadStep
<1> QED BY <1>1, Invariance, PTL DEF Spec, DeadStay

-----------------------------------------------------------------------------
(* The path search                                                         *)
(*                                                                         *)
(* The nodes of the open list carry trails of open tiles, each on an open  *)
(* line with the one before. A jump keeps that: it meets a wall before it  *)
(* leaves the map (Meets), stops before that wall (StopLine, WallIs), and  *)
(* creates no node on a tile it has not been to, because beside a wall two *)
(* tiles wide nothing is forced (NoForced).                                *)

-----------------------------------------------------------------------------
(* Numbers: the least-number principle, and induction up to a number. The  *)
(* induction theorems of the library take a predicate; these take a set.   *)

LEMMA Least ==
  ASSUME NEW S \in SUBSET Nat, S # {}
  PROVE  \E n \in S : \A m \in S : n <= m
<1>1. PICK n \in S : \A y \in S : ~(<<y, n>> \in OpToRel(<, Nat))
  BY WFMin, NatLessThanWellFounded
<1>2. \A m \in S : ~(m < n)
  BY <1>1 DEF OpToRel
<1> QED BY <1>2

Inductive(K, n) == 0 \in K /\ \A k \in 1 .. n : k - 1 \in K => k \in K

LEMMA UpTo ==
  ASSUME NEW n \in Nat, NEW K, Inductive(K, n)
  PROVE  n \in K /\ \A k \in 0 .. n : k \in K
<1> USE DEF Inductive
<1> DEFINE Bad == {k \in 0 .. n : k \notin K}
<1> SUFFICES ASSUME Bad # {} PROVE FALSE
  OBVIOUS
<1>0. Bad \in SUBSET Nat
  OBVIOUS
<1>1. PICK m \in Bad : \A x \in Bad : m <= x
  <2> HIDE DEF Bad
  <2> QED BY <1>0, Least
<1>2. m \in 1 .. n /\ m - 1 \in 0 .. n /\ m - 1 \notin Bad
  BY <1>1
<1> QED BY <1>1, <1>2

\* A function that is defined from one number to the next exists.
Rules(n, S) == [(1 .. n) \X S -> S]
Follows(f, n, S, s0, step) ==
  /\ f \in [0 .. n -> S] /\ f[0] = s0
  /\ \A k \in 1 .. n : f[k] = step[<<k, f[k - 1]>>]

LEMMA Recursion ==
  ASSUME NEW n \in Nat, NEW S, NEW s0 \in S, NEW step \in Rules(n, S)
  PROVE  \E f : Follows(f, n, S, s0, step)
<1> USE DEF Rules, Follows
<1> DEFINE F(f, m) == Follows(f, m, S, s0, step)
           K == {m \in 0 .. n : \E f : F(f, m)}
<1>1. 0 \in K
  <2> DEFINE g == [k \in 0 .. 0 |-> s0]
  <2>1. F(g, 0)
    OBVIOUS
  <2> HIDE DEF F, g, Follows
  <2> QED BY <2>1
<1>2. ASSUME NEW m \in 1 .. n, m - 1 \in K PROVE m \in K
  <2>1. PICK g : F(g, m - 1)
    BY <1>2
  <2> DEFINE h == [k \in 0 .. m |-> IF k < m THEN g[k] ELSE step[<<m, g[m - 1]>>]]
  <2>2. m - 1 \in 0 .. m - 1 /\ g[m - 1] \in S
    BY <2>1
  <2>3. step[<<m, g[m - 1]>>] \in S
    BY <2>2
  <2>4. h \in [0 .. m -> S] /\ h[0] = s0
    BY <2>1, <2>3
  <2>5. ASSUME NEW k \in 1 .. m PROVE h[k] = step[<<k, h[k - 1]>>]
    <3>1. CASE k < m
      BY <3>1, <2>1
    <3>2. CASE k = m
      BY <3>2, <2>1
    <3> QED BY <3>1, <3>2
  <2>6. F(h, m)
    BY <2>4, <2>5
  <2> HIDE DEF F, h, Follows
  <2> QED BY <2>6
<1>3. n \in K
  <2> HIDE DEF K
  <2>1. Inductive(K, n)
    BY <1>1, <1>2 DEF Inductive
  <2> QED BY <2>1, UpTo
<1> HIDE DEF Follows, Rules
<1> QED BY <1>3

LEMMA MinIs ==
  ASSUME NEW S \in SUBSET Nat, S # {}
  PROVE  Min(S) \in S /\ \A n \in S : Min(S) <= n
BY Least DEF Min

-----------------------------------------------------------------------------
(* Sequences put together from sequences *)

LEMMA InsertIn ==
  ASSUME NEW X, NEW list \in Seq(X), NEW node \in X
  PROVE  Insert(list, node) \in Seq(X)
<1> DEFINE S == {i \in DOMAIN list : list[i].fitness < node.fitness}
           c == Cardinality(S)
<1>1. DOMAIN list = 1 .. Len(list) /\ Len(list) \in Nat
  OBVIOUS
<1>2. IsFiniteSet(1 .. Len(list)) /\ Cardinality(1 .. Len(list)) = Len(list)
  BY <1>1, FS_Interval
<1>3. S \subseteq 1 .. Len(list)
  OBVIOUS
<1>4. c \in Nat /\ c <= Len(list)
  BY <1>2, <1>3, FS_Subset, FS_CardinalityType
<1>5. Insert(list, node) = SubSeq(list, 1, (c + 1) - 1) \o <<node>> \o SubSeq(list, c + 1, Len(list))
  BY DEF Insert, InsertAt
<1> HIDE DEF c
<1>6. SubSeq(list, 1, (c + 1) - 1) \in Seq(X)
  <2>1. (c + 1) - 1 = c
    BY <1>4
  <2>2. \A i \in 1 .. c : list[i] \in X
    BY <1>4
  <2> QED BY <2>1, <2>2, <1>4, SubSeqProperties
<1>7. SubSeq(list, c + 1, Len(list)) \in Seq(X)
  <2>2. \A i \in c + 1 .. Len(list) : list[i] \in X
    BY <1>4
  <2> QED BY <2>2, <1>4, SubSeqProperties
<1> QED BY <1>5, <1>6, <1>7, ConcatProperties

LEMMA InsertAllIn ==
  ASSUME NEW X, NEW list \in Seq(X), NEW new \in Seq(X)
  PROVE  InsertAll(list, new) \in Seq(X)
<1> DEFINE n == Len(new)
           G(f) == f = [k \in 0 .. n |-> IF k = 0 THEN list ELSE Insert(f[k - 1], new[k])]
           after == CHOOSE f : G(f)
           T == Seq(X)
           step == [x \in (1 .. n) \X T |-> Insert(x[2], new[x[1]])]
<1>1. n \in Nat
  OBVIOUS
<1>2. step \in Rules(n, T)
  <2>1. ASSUME NEW x \in (1 .. n) \X Seq(X) PROVE Insert(x[2], new[x[1]]) \in Seq(X)
    <3>1. x[2] \in Seq(X) /\ new[x[1]] \in X
      OBVIOUS
    <3> QED BY <3>1, InsertIn
  <2> QED BY <2>1 DEF Rules
<1>3. PICK f : Follows(f, n, T, list, step)
  <2>1. list \in T
    OBVIOUS
  <2> HIDE DEF step, n, T
  <2> QED BY <2>1, <1>1, <1>2, Recursion
<1>4. ASSUME NEW k \in 1 .. n PROVE f[k] = Insert(f[k - 1], new[k])
  <2>1. f[k] = step[<<k, f[k - 1]>>] /\ f[k - 1] \in T
    <3> HIDE DEF step, n, T
    <3> QED BY <1>1, <1>3 DEF Follows
  <2> QED BY <2>1
<1>5. G(f)
  <2> HIDE DEF n, step
  <2>1. \A k \in 0 .. n : f[k] = IF k = 0 THEN list ELSE Insert(f[k - 1], new[k])
    BY <1>1, <1>3, <1>4 DEF Follows
  <2> QED BY <2>1, <1>3 DEF Follows
<1>6. G(after)
  BY <1>5
<1>7. InsertAll(list, new) = after[n]
  BY DEF InsertAll
<1> DEFINE K == {k \in 0 .. n : after[k] \in Seq(X)}
<1>8. 0 \in K
  <2> HIDE DEF after, step, n
  <2> QED BY <1>6, <1>1
<1>9. ASSUME NEW k \in 1 .. n, k - 1 \in K PROVE k \in K
  <2> HIDE DEF after, step
  <2>1. after[k] = Insert(after[k - 1], new[k])
    <3> HIDE DEF n
    <3> QED BY <1>6, <1>1
  <2>2. after[k - 1] \in Seq(X) /\ new[k] \in X
    BY <1>9
  <2>3. after[k] \in Seq(X)
    <3> HIDE DEF K, n
    <3> QED BY <2>1, <2>2, InsertIn
  <2> QED BY <2>3
<1>10. n \in K
  <2> HIDE DEF K, n
  <2>1. Inductive(K, n)
    BY <1>8, <1>9 DEF Inductive
  <2> QED BY <1>1, <2>1, UpTo
<1> QED BY <1>7, <1>10

LEMMA FlattenIn ==
  ASSUME NEW X, NEW seqs \in Seq(Seq(X))
  PROVE  FlattenSeq(seqs) \in Seq(X)
<1> DEFINE n == Len(seqs)
           G(f) == f = [i \in 1 .. n |-> IF i = 1 THEN seqs[i] ELSE f[i - 1] \o seqs[i]]
           flatten == CHOOSE f : G(f)
           T == Seq(X)
           step == [x \in (1 .. n) \X T |-> x[2] \o seqs[x[1]]]
<1>1. n \in Nat /\ <<>> \in Seq(X)
  OBVIOUS
<1>2. CASE n = 0
  <2>1. seqs = <<>>
    BY <1>2, EmptySeq
  <2> QED BY <1>2, <2>1, <1>1 DEF FlattenSeq
<1>3. CASE n # 0
  <2>1. FlattenSeq(seqs) = flatten[n]
    BY <1>3 DEF FlattenSeq
  <2>2. step \in Rules(n, T)
    <3>1. ASSUME NEW x \in (1 .. n) \X Seq(X) PROVE x[2] \o seqs[x[1]] \in Seq(X)
      <4>1. x[2] \in Seq(X) /\ seqs[x[1]] \in Seq(X)
        OBVIOUS
      <4> QED BY <4>1, ConcatProperties
    <3> QED BY <3>1 DEF Rules
  <2>3. PICK f : Follows(f, n, T, <<>>, step)
    <3>1. <<>> \in T
      OBVIOUS
    <3> HIDE DEF step, n, T
    <3> QED BY <3>1, <1>1, <2>2, Recursion
  <2>4. ASSUME NEW k \in 1 .. n PROVE f[k] = f[k - 1] \o seqs[k]
    <3>1. f[k] = step[<<k, f[k - 1]>>] /\ f[k - 1] \in T
      <4> HIDE DEF step, n, T
      <4> QED BY <1>1, <2>3 DEF Follows
    <3> QED BY <3>1
  <2> DEFINE g == [i \in 1 .. n |-> f[i]]
  <2>5. G(g)
    <3>1. ASSUME NEW i \in 1 .. n PROVE g[i] = IF i = 1 THEN seqs[i] ELSE g[i - 1] \o seqs[i]
      <4>1. CASE i = 1
        <5>1. seqs[1] \in Seq(X)
          BY <4>1
        <5>3. f[0] = <<>> /\ f[i] = f[i - 1] \o seqs[i] /\ g[i] = f[i] /\ i - 1 = 0
          <6> HIDE DEF step, n
          <6>1. f[i] = f[i - 1] \o seqs[i]
            BY <2>4
          <6>2. f[0] = <<>> /\ g[i] = f[i]
            BY <2>3, <1>1 DEF Follows
          <6>3. i - 1 = 0
            BY <4>1
          <6> HIDE DEF g
          <6> QED BY <6>1, <6>2, <6>3, Zenon
        <5>2. <<>> \o seqs[1] = seqs[1]
          BY <5>1, ConcatEmptySeq
        <5> HIDE DEF g
        <5> QED BY <5>2, <5>3, <4>1, Zenon
      <4>2. CASE i # 1
        <5>1. f[i] = f[i - 1] \o seqs[i]
          <6> HIDE DEF n
          <6> QED BY <2>4
        <5>2. g[i] = f[i] /\ g[i - 1] = f[i - 1]
          <6> HIDE DEF step, n
          <6> QED BY <4>2, <1>1
        <5> HIDE DEF g, n, step
        <5> QED BY <4>2, <5>1, <5>2, Zenon
      <4> QED BY <4>1, <4>2
    <3> QED BY <3>1
  <2>6. G(flatten)
    BY <2>5
  <2> DEFINE K == {k \in 0 .. n : k = 0 \/ flatten[k] \in Seq(X)}
  <2>7. 0 \in K
    BY <1>1
  <2>8. ASSUME NEW k \in 1 .. n, k - 1 \in K PROVE k \in K
    <3> HIDE DEF flatten, step
    <3>1. flatten[k] = IF k = 1 THEN seqs[k] ELSE flatten[k - 1] \o seqs[k]
      <4> HIDE DEF n
      <4> QED BY <2>6
    <3>2. seqs[k] \in Seq(X)
      OBVIOUS
    <3>3. CASE k = 1
      BY <3>1, <3>2, <3>3
    <3>4. CASE k # 1
      <4>1. flatten[k - 1] \in Seq(X)
        BY <2>8, <3>4
      <4>2. flatten[k - 1] \o seqs[k] \in Seq(X)
        BY <4>1, <3>2, ConcatProperties
      <4>3. flatten[k] \in Seq(X)
        BY <3>1, <3>4, <4>2, Zenon
      <4> QED BY <4>3
    <3> QED BY <3>3, <3>4
  <2>9. n \in K
    <3> HIDE DEF K, n
    <3>1. Inductive(K, n)
      BY <2>7, <2>8 DEF Inductive
    <3> QED BY <1>1, <3>1, UpTo
  <2> QED BY <2>1, <2>9, <1>3
<1> QED BY <1>2, <1>3

-----------------------------------------------------------------------------
(* The map: from an open tile every direction meets a wall                 *)

Inside(p) == p \in Board /\ Free(p)

\* The lines a player walks: open tiles in one direction.
OpenLine(p, q) ==
  \E d \in Dirs, k \in Steps : q = Go(p, d, k) /\ \A j \in 0 .. k - 1 : Open(Go(p, d, j), d)

LEMMA VecIs ==
  /\ Dirs = {"UU", "RU", "RR", "RD", "DD", "LD", "LL", "LU"}
  /\ DOMAIN Sides = {"UU", "RR", "DD", "LL"} /\ DOMAIN Parts = {"RU", "RD", "LD", "LU"}
  /\ \A d \in Dirs : Vec[d] \in (-1 .. 1) \X (-1 .. 1) /\ Vec[d] # <<0, 0>>
BY DEF Dirs, Vec, Sides, Parts

LEMMA GoIs ==
  ASSUME NEW p \in Int \X Int, NEW d \in Dirs, NEW k \in Int
  PROVE  /\ Go(p, d, k) \in Int \X Int /\ Go(p, d, 0) = p
         /\ \A j \in Int : Go(Go(p, d, k), d, j) = Go(p, d, k + j)
         /\ Plus(Go(p, d, k), Vec[d]) = Go(p, d, k + 1)
<1>1. Vec[d][1] \in Int /\ Vec[d][2] \in Int /\ Vec[d] = <<Vec[d][1], Vec[d][2]>>
  BY VecIs
<1>2. PICK x, y \in Int : p = <<x, y>>
  OBVIOUS
<1> DEFINE a == Vec[d][1]
           b == Vec[d][2]
<1> HIDE DEF a, b
<1>3. a \in {-1, 0, 1} /\ b \in {-1, 0, 1}
  BY VecIs DEF a, b
<1>4. \A j \in Int, v, w \in Int : Go(<<v, w>>, d, j) = <<v + j * a, w + j * b>>
  BY DEF Go, a, b
<1>5. k * a \in Int /\ k * b \in Int
  BY <1>3
<1>6. Go(p, d, k) = <<x + k * a, y + k * b>>
  BY <1>2, <1>4
<1>7. Go(p, d, k) \in Int \X Int
  BY <1>5, <1>6
<1>8. Go(p, d, 0) = p
  <2>1. 0 * a = 0 /\ 0 * b = 0
    BY <1>3
  <2> QED BY <2>1, <1>2, <1>4
<1>9. ASSUME NEW j \in Int PROVE Go(Go(p, d, k), d, j) = Go(p, d, k + j)
  <2>1. (k + j) * a = k * a + j * a /\ (k + j) * b = k * b + j * b
    BY <1>3
  <2>2. Go(Go(p, d, k), d, j) = <<(x + k * a) + j * a, (y + k * b) + j * b>>
    BY <1>6 DEF Go, a, b
  <2>3. Go(p, d, k + j) = <<x + (k + j) * a, y + (k + j) * b>>
    BY <1>2 DEF Go, a, b
  <2>4. j * a \in Int /\ j * b \in Int
    BY <1>3
  <2> QED BY <2>1, <2>2, <2>3, <2>4, <1>5
<1>10. Plus(Go(p, d, k), Vec[d]) = Go(p, d, k + 1)
  <2>1. Plus(Go(p, d, k), Vec[d]) = <<(x + k * a) + a, (y + k * b) + b>>
    BY <1>5, <1>6 DEF Plus, a, b
  <2>2. Go(p, d, k + 1) = <<x + (k + 1) * a, y + (k + 1) * b>>
    BY <1>2 DEF Go, a, b
  <2>3. (k + 1) * a = k * a + a /\ (k + 1) * b = k * b + b
    BY <1>3
  <2> QED BY <2>1, <2>2, <2>3, <1>5, <1>3
<1> QED BY <1>7, <1>8, <1>9, <1>10

\* The tiles of the border are walls, so a step from an open tile stays on the map.
LEMMA StepStays ==
  ASSUME walls \in Maps, NEW p, Inside(p), NEW d \in Dirs
  PROVE  Plus(p, Vec[d]) \in Board
<1>1. PICK x, y \in Int : p = <<x, y>> /\ x \in 0 .. 2 * Cols - 1 /\ y \in 0 .. 2 * Rows - 1
  BY SearchAssumption DEF Inside, Board
<1> DEFINE i == x \div 2
           j == y \div 2
<1>2. i \in Int /\ j \in Int /\ x \in 2 * i .. 2 * i + 1 /\ y \in 2 * j .. 2 * j + 1
  BY <1>1
<1>3. <<i, j>> \notin walls
  BY <1>1 DEF Inside, Free
<1> HIDE DEF i, j
<1>4. i \in 0 .. Cols - 1 /\ j \in 0 .. Rows - 1
  BY <1>1, <1>2, SearchAssumption
<1>5. i \notin {0, Cols - 1} /\ j \notin {0, Rows - 1}
  <2>1. <<i, j>> \in (0 .. Cols - 1) \X (0 .. Rows - 1)
    BY <1>4
  <2>2. \A b \in (0 .. Cols - 1) \X (0 .. Rows - 1) :
          b[1] \in {0, Cols - 1} \/ b[2] \in {0, Rows - 1} => b \in walls
    BY SearchAssumption
  <2> QED BY <2>1, <2>2, <1>3
<1>6. x - 1 \in 0 .. 2 * Cols - 1 /\ x + 1 \in 0 .. 2 * Cols - 1
  BY <1>1, <1>2, <1>4, <1>5, SearchAssumption
<1>7. y - 1 \in 0 .. 2 * Rows - 1 /\ y + 1 \in 0 .. 2 * Rows - 1
  BY <1>1, <1>2, <1>4, <1>5, SearchAssumption
<1>8. Plus(p, Vec[d]) = <<x + Vec[d][1], y + Vec[d][2]>> /\ Vec[d][1] \in {-1, 0, 1} /\ Vec[d][2] \in {-1, 0, 1}
  BY <1>1, VecIs DEF Plus
<1> QED BY <1>1, <1>6, <1>7, <1>8 DEF Board

LEMMA Meets ==
  ASSUME walls \in Maps, NEW p, Inside(p), NEW d \in Dirs
  PROVE  \E n \in Steps : ~Free(Go(p, d, n)) /\ \A k \in 0 .. n - 1 : Inside(Go(p, d, k))
<1> DEFINE Out == {k \in Nat : ~Inside(Go(p, d, k))}
           m == 2 * (IF Cols < Rows THEN Rows ELSE Cols)
<1>1. PICK x, y \in Int : p = <<x, y>> /\ x \in 0 .. 2 * Cols - 1 /\ y \in 0 .. 2 * Rows - 1
  BY SearchAssumption DEF Inside, Board
<1>2. p \in Int \X Int
  BY <1>1
<1>3. m \in Nat /\ m >= 2 * Cols /\ m >= 2 * Rows /\ Steps = 1 .. m
  BY SearchAssumption DEF Steps
<1> HIDE DEF m
<1>4. m \in Out
  <2>1. Go(p, d, m) = <<x + m * Vec[d][1], y + m * Vec[d][2]>>
    BY <1>1 DEF Go
  <2>2. /\ Vec[d][1] \in {-1, 0, 1} /\ Vec[d][2] \in {-1, 0, 1}
        /\ Vec[d][1] # 0 \/ Vec[d][2] # 0
    BY VecIs DEF Vec, Dirs
  <2>3. m * (-1) = -m /\ m * 1 = m
    BY <1>3
  <2>4. x + m * Vec[d][1] \notin 0 .. 2 * Cols - 1 \/ y + m * Vec[d][2] \notin 0 .. 2 * Rows - 1
    <3>1. CASE Vec[d][1] = -1
      BY <3>1, <2>3, <1>1, <1>3, SearchAssumption
    <3>2. CASE Vec[d][1] = 1
      BY <3>2, <2>3, <1>1, <1>3, SearchAssumption
    <3>3. CASE Vec[d][2] = -1
      BY <3>3, <2>3, <1>1, <1>3, SearchAssumption
    <3>4. CASE Vec[d][2] = 1
      BY <3>4, <2>3, <1>1, <1>3, SearchAssumption
    <3> QED BY <2>2, <3>1, <3>2, <3>3, <3>4
  <2>5. Go(p, d, m) \notin Board
    BY <2>1, <2>4 DEF Board
  <2> QED BY <2>5, <1>3 DEF Inside
<1>5. Out \in SUBSET Nat /\ Out # {}
  BY <1>4
<1>6. PICK n \in Out : \A k \in Out : n <= k
  <2> HIDE DEF Out
  <2> QED BY <1>5, Least
<1>7. n <= m
  BY <1>4, <1>6
<1>8. n # 0
  BY <1>2, GoIs
<1>9. \A k \in 0 .. n - 1 : Inside(Go(p, d, k))
  BY <1>6
<1>10. n \in Steps /\ n - 1 \in 0 .. n - 1
  BY <1>3, <1>7, <1>8
<1>11. Inside(Go(p, d, n - 1))
  BY <1>9, <1>10
<1>12. Plus(Go(p, d, n - 1), Vec[d]) = Go(p, d, n)
  BY <1>2, GoIs
<1>13. Go(p, d, n) \in Board
  BY <1>11, <1>12, StepStays
<1>14. ~Free(Go(p, d, n))
  BY <1>13 DEF Inside
<1> QED BY <1>9, <1>10, <1>14

-----------------------------------------------------------------------------
(* The jumps stay on open tiles                                            *)

LEMMA StopLine ==
  ASSUME walls \in Maps, NEW p, Inside(p), NEW d \in DOMAIN Sides, Free(Stop(p, d))
  PROVE  Inside(Stop(p, d)) /\ OpenLine(p, Stop(p, d))
<1> DEFINE H == {k \in Steps : Halts(Go(p, d, k), d)}
           n == Min(H)
<1>0. d \in Dirs /\ d \notin DOMAIN Parts /\ p \in Int \X Int /\ Steps \in SUBSET Nat
  BY VecIs, SearchAssumption DEF Inside, Board, Steps
<1>1. PICK w \in Steps : ~Free(Go(p, d, w)) /\ \A k \in 0 .. w - 1 : Inside(Go(p, d, k))
  BY <1>0, Meets
<1>2. w \in H /\ H \in SUBSET Nat
  BY <1>0, <1>1 DEF Halts
<1>3. n \in H /\ n <= w
  <2> HIDE DEF H
  <2> QED BY <1>2, MinIs
<1>4. Stop(p, d) = Go(p, d, n)
  BY DEF Stop
<1> HIDE DEF n
<1>5. n \in Steps /\ n \in Nat /\ w \in Nat /\ n < w
  <2>1. n # w
    BY <1>1, <1>4
  <2>2. n \in Steps /\ n \in Nat /\ w \in Nat
    BY <1>0, <1>1, <1>3
  <2> HIDE DEF H
  <2> QED BY <2>1, <2>2, <1>3
<1>6. Inside(Go(p, d, n))
  BY <1>1, <1>5
<1>7. ASSUME NEW j \in 0 .. n - 1 PROVE Open(Go(p, d, j), d)
  <2>1. Plus(Go(p, d, j), Vec[d]) = Go(p, d, j + 1)
    BY <1>0, GoIs
  <2>2. Inside(Go(p, d, j + 1))
    BY <1>1, <1>5
  <2> QED BY <1>0, <2>1, <2>2 DEF Open, FreeAt, Inside
<1> QED BY <1>0, <1>4, <1>5, <1>6, <1>7 DEF OpenLine

\* The tiles before the wall of a diagonal jump.
LEMMA WallIs ==
  ASSUME walls \in Maps, NEW p, Inside(p), NEW d \in DOMAIN Parts
  PROVE  /\ Wall(p, d) \in Steps /\ Wall(p, d) \in Nat
         /\ \A k \in 0 .. Wall(p, d) - 1 : Inside(Go(p, d, k))
         /\ \A k \in 0 .. Wall(p, d) - 2 : Open(Go(p, d, k), d)
<1> DEFINE B == {k \in Steps : Blocked(p, d, k)}
           n == Min(B)
<1>0. d \in Dirs /\ p \in Int \X Int /\ Steps \in SUBSET Nat /\ 0 \notin Steps
  BY VecIs, SearchAssumption DEF Inside, Board, Steps
<1>1. PICK w \in Steps : ~Free(Go(p, d, w)) /\ \A k \in 0 .. w - 1 : Inside(Go(p, d, k))
  BY <1>0, Meets
<1>2. w \in B /\ B \in SUBSET Nat
  BY <1>0, <1>1 DEF Blocked
<1>3. n \in B /\ n <= w /\ \A k \in B : n <= k
  <2> HIDE DEF B
  <2> QED BY <1>2, MinIs
<1>4. Wall(p, d) = n
  BY DEF Wall
<1> HIDE DEF n
<1>5. n \in Steps /\ n \in Nat /\ w \in Nat /\ n >= 1
  BY <1>0, <1>1, <1>3
<1>6. \A k \in 0 .. n - 1 : Inside(Go(p, d, k))
  <2> HIDE DEF B
  <2> QED BY <1>1, <1>3, <1>5
<1>7. ASSUME NEW k \in 0 .. n - 2 PROVE Open(Go(p, d, k), d)
  <2>1. k + 1 \in Steps /\ k + 1 < n /\ k + 1 \in Nat
    BY <1>5, SearchAssumption DEF Steps
  <2>2. k + 1 \notin B
    <3> HIDE DEF B
    <3> QED BY <2>1, <1>3, <1>5
  <2>3. ~Blocked(p, d, k + 1)
    BY <2>1, <2>2
  <2>4. (k + 1) - 1 = k
    BY <1>5
  <2>5. Plus(Go(p, d, k), Vec[d]) = Go(p, d, k + 1)
    BY <1>0, GoIs
  <2> QED BY <2>3, <2>4, <2>5 DEF Blocked, Open, FreeAt
<1> QED BY <1>4, <1>5, <1>6, <1>7

\* Two tiles of a diagonal jump are on an open line.
LEMMA DiagonalLine ==
  ASSUME walls \in Maps, NEW p, Inside(p), NEW d \in DOMAIN Parts,
         NEW i \in Nat, NEW k \in Nat, i < k, k < Wall(p, d)
  PROVE  OpenLine(Go(p, d, i), Go(p, d, k))
<1> DEFINE n == Wall(p, d)
<1>0. d \in Dirs /\ p \in Int \X Int
  BY VecIs, SearchAssumption DEF Inside, Board
<1>1. n \in Steps /\ n \in Nat /\ \A j \in 0 .. n - 2 : Open(Go(p, d, j), d)
  BY WallIs
<1> HIDE DEF n
<1>2. k < n
  BY DEF n
<1>3. k - i \in Steps /\ k - i \in Int
  BY <1>1, <1>2, SearchAssumption DEF Steps
<1>4. Go(Go(p, d, i), d, k - i) = Go(p, d, k)
  <2>1. i + (k - i) = k
    OBVIOUS
  <2>2. \A j \in Int : Go(Go(p, d, i), d, j) = Go(p, d, i + j)
    BY <1>0, GoIs
  <2>3. Go(Go(p, d, i), d, k - i) = Go(p, d, i + (k - i))
    BY <2>2, <1>3
  <2> QED BY <2>1, <2>3
<1>5. ASSUME NEW j \in 0 .. (k - i) - 1 PROVE Open(Go(Go(p, d, i), d, j), d)
  <2>1. i + j \in 0 .. n - 2
    BY <1>1, <1>2
  <2>2. Go(Go(p, d, i), d, j) = Go(p, d, i + j)
    BY <1>0, GoIs
  <2> QED BY <1>1, <2>1, <2>2
<1> QED BY <1>0, <1>3, <1>4, <1>5 DEF OpenLine

\* Beside a wall two tiles wide nothing is forced: the wall beside the tile and the
\* tile that must be open are of the same block.
LEMMA NoForced ==
  ASSUME NEW p \in Int \X Int, Free(p), NEW d \in DOMAIN Parts
  PROVE  ~IsForced(Plus(p, Vec[d]), d)
<1>1. PICK x, y \in Int : p = <<x, y>>
  OBVIOUS
<1>2. d \in {"RU", "RD", "LD", "LU"}
  BY VecIs
<1>3. <<x \div 2, y \div 2>> \notin walls
  BY <1>1 DEF Free
<1>4. CASE d = "RU"
  <2>1. Plus(p, Vec[d]) = <<x + 1, y - 1>>
    BY <1>1, <1>4 DEF Plus, Vec
  <2> SUFFICES ASSUME IsForced(<<x + 1, y - 1>>, "RU") PROVE FALSE
    BY <2>1, <1>4
  <2>2. ~Free(<<(x + 1) + 0, (y - 1) + 1>>) /\ Free(<<(x + 1) + 1, (y - 1) + 1>>)
    BY DEF IsForced, Forced, FreeAt, Plus, Vec
  <2>3. (y - 1) + 1 = y /\ (x + 1) + 0 = x + 1 /\ (x + 1) + 1 = x + 2
    OBVIOUS
  <2>4. <<(x + 1) \div 2, y \div 2>> \in walls /\ <<(x + 2) \div 2, y \div 2>> \notin walls
    BY <2>2, <2>3 DEF Free
  <2>5. (x + 1) \div 2 = x \div 2 \/ (x + 1) \div 2 = (x + 2) \div 2
    OBVIOUS
  <2> QED BY <2>4, <2>5, <1>3
<1>5. CASE d = "RD"
  <2>1. Plus(p, Vec[d]) = <<x + 1, y + 1>>
    BY <1>1, <1>5 DEF Plus, Vec
  <2> SUFFICES ASSUME IsForced(<<x + 1, y + 1>>, "RD") PROVE FALSE
    BY <2>1, <1>5
  <2>2. ~Free(<<(x + 1) + 0, (y + 1) - 1>>) /\ Free(<<(x + 1) + 1, (y + 1) - 1>>)
    BY DEF IsForced, Forced, FreeAt, Plus, Vec
  <2>3. (y + 1) - 1 = y /\ (x + 1) + 0 = x + 1 /\ (x + 1) + 1 = x + 2
    OBVIOUS
  <2>4. <<(x + 1) \div 2, y \div 2>> \in walls /\ <<(x + 2) \div 2, y \div 2>> \notin walls
    BY <2>2, <2>3 DEF Free
  <2>5. (x + 1) \div 2 = x \div 2 \/ (x + 1) \div 2 = (x + 2) \div 2
    OBVIOUS
  <2> QED BY <2>4, <2>5, <1>3
<1>6. CASE d = "LD"
  <2>1. Plus(p, Vec[d]) = <<x - 1, y + 1>>
    BY <1>1, <1>6 DEF Plus, Vec
  <2> SUFFICES ASSUME IsForced(<<x - 1, y + 1>>, "LD") PROVE FALSE
    BY <2>1, <1>6
  <2>2. ~Free(<<(x - 1) + 1, (y + 1) + 0>>) /\ Free(<<(x - 1) + 1, (y + 1) + 1>>)
    BY DEF IsForced, Forced, FreeAt, Plus, Vec
  <2>3. (x - 1) + 1 = x /\ (y + 1) + 0 = y + 1 /\ (y + 1) + 1 = y + 2
    OBVIOUS
  <2>4. <<x \div 2, (y + 1) \div 2>> \in walls /\ <<x \div 2, (y + 2) \div 2>> \notin walls
    BY <2>2, <2>3 DEF Free
  <2>5. (y + 1) \div 2 = y \div 2 \/ (y + 1) \div 2 = (y + 2) \div 2
    OBVIOUS
  <2> QED BY <2>4, <2>5, <1>3
<1>7. CASE d = "LU"
  <2>1. Plus(p, Vec[d]) = <<x - 1, y - 1>>
    BY <1>1, <1>7 DEF Plus, Vec
  <2> SUFFICES ASSUME IsForced(<<x - 1, y - 1>>, "LU") PROVE FALSE
    BY <2>1, <1>7
  <2>2. ~Free(<<(x - 1) + 0, (y - 1) + 1>>) /\ Free(<<(x - 1) - 1, (y - 1) + 1>>)
    BY DEF IsForced, Forced, FreeAt, Plus, Vec
  <2>3. (y - 1) + 1 = y /\ (x - 1) + 0 = x - 1 /\ (x - 1) - 1 = x - 2
    OBVIOUS
  <2>4. <<(x - 1) \div 2, y \div 2>> \in walls /\ <<(x - 2) \div 2, y \div 2>> \notin walls
    BY <2>2, <2>3 DEF Free
  <2>5. (x - 1) \div 2 = x \div 2 \/ (x - 1) \div 2 = (x - 2) \div 2
    OBVIOUS
  <2> QED BY <2>4, <2>5, <1>3
<1> QED BY <1>2, <1>4, <1>5, <1>6, <1>7

-----------------------------------------------------------------------------
(* The nodes a jump creates                                                *)

\* A trail of open tiles, each on an open line with the one before.
Trail(t) ==
  /\ t \in Seq(Board) /\ Len(t) > 0
  /\ \A i \in 1 .. Len(t) : Free(t[i])
  /\ \A i \in 1 .. Len(t) - 1 : OpenLine(t[i], t[i + 1])

\* The nodes whose trail begins at one of the tiles of S.
NodesFrom(S) ==
  {n \in [trail : Seq(Board), dir : Dirs \cup {"NN"}, fitness : Int] :
     Trail(n.trail) /\ n.trail[1] \in S}

LEMMA BoardInt == Board \subseteq Int \X Int
BY SearchAssumption DEF Board

LEMMA TrailLast ==
  ASSUME NEW t, Trail(t)
  PROVE  Inside(Last(t)) /\ Last(t) = t[Len(t)] /\ Len(t) \in Nat \ {0}
BY DEF Trail, Inside, Last

LEMMA TrailGrows ==
  ASSUME NEW t, Trail(t), NEW q, Inside(q), OpenLine(Last(t), q)
  PROVE  Trail(Append(t, q)) /\ Append(t, q)[1] = t[1] /\ Last(Append(t, q)) = q
<1>1. t \in Seq(Board) /\ q \in Board /\ Len(t) \in Nat \ {0}
  BY DEF Trail, Inside
<1> DEFINE u == Append(t, q)
<1>2. /\ u \in Seq(Board) /\ Len(u) = Len(t) + 1 /\ u[Len(t) + 1] = q
      /\ \A i \in 1 .. Len(t) : u[i] = t[i]
  BY <1>1
<1> HIDE DEF u
<1>3. ASSUME NEW i \in 1 .. Len(u) PROVE Free(u[i])
  <2>1. CASE i = Len(t) + 1
    BY <2>1, <1>2 DEF Inside
  <2>2. CASE i # Len(t) + 1
    <3>1. i \in 1 .. Len(t)
      BY <2>2, <1>1, <1>2
    <3> QED BY <3>1, <1>2 DEF Trail
  <2> QED BY <2>1, <2>2
<1>4. ASSUME NEW i \in 1 .. Len(u) - 1 PROVE OpenLine(u[i], u[i + 1])
  <2>0. i \in 1 .. Len(t)
    BY <1>1, <1>2
  <2>1. CASE i = Len(t)
    <3>1. u[i] = Last(t) /\ u[i + 1] = q
      BY <2>0, <2>1, <1>2 DEF Last
    <3> QED BY <3>1
  <2>2. CASE i # Len(t)
    <3>1. i \in 1 .. Len(t) - 1 /\ i + 1 \in 1 .. Len(t)
      BY <2>0, <2>2, <1>1
    <3>2. u[i] = t[i] /\ u[i + 1] = t[i + 1]
      BY <3>1, <2>0, <1>2
    <3> QED BY <3>1, <3>2 DEF Trail
  <2> QED BY <2>1, <2>2
<1>5. Last(u) = q /\ u[1] = t[1]
  <2>1. 1 \in 1 .. Len(t)
    BY <1>1
  <2> QED BY <2>1, <1>2 DEF Last
<1> QED BY <1>1, <1>2, <1>3, <1>4, <1>5 DEF Trail, u

LEMMA DistIs ==
  ASSUME NEW p \in Int \X Int, NEW q \in Int \X Int
  PROVE  Dist(p, q) \in Int
BY DEF Dist, Far

LEMMA NodeIn ==
  ASSUME NEW S, NEW t, Trail(t), t[1] \in S, NEW dir \in Dirs \cup {"NN"}, end \in Board
  PROVE  Node(t, dir) \in NodesFrom(S)
<1> DEFINE pos == Last(t)
           parent == t[Len(t) - 1]
           cost == IF Len(t) = 1 THEN 0
                   ELSE Dist(parent, pos) *
                        (IF parent[1] = pos[1] \/ parent[2] = pos[2] THEN 10 ELSE 14)
           f == cost + 10 * Dist(end, pos)
<1>1. pos \in Board /\ Len(t) \in Nat \ {0} /\ t \in Seq(Board)
  BY TrailLast DEF Inside, Trail
<1>2. Dist(end, pos) \in Int
  BY <1>1, BoardInt, DistIs
<1>3. cost \in Int
  <2>1. CASE Len(t) # 1
    <3>1. parent \in Board
      <4>1. Len(t) - 1 \in 1 .. Len(t)
        <5>1. Len(t) \in Nat /\ Len(t) # 0
          BY <1>1
        <5>2. \A n \in Nat : n # 0 /\ n # 1 => n - 1 \in 1 .. n
          OBVIOUS
        <5> QED BY <5>1, <5>2, <2>1, Zenon
      <4> QED BY <4>1, <1>1
    <3>2. Dist(parent, pos) \in Int
      BY <3>1, <1>1, BoardInt, DistIs
    <3> QED BY <3>2, <2>1
  <2> QED BY <2>1
<1>4. f \in Int
  <2> HIDE DEF cost
  <2> QED BY <1>2, <1>3
<1>5. Node(t, dir) = [trail |-> t, dir |-> dir, fitness |-> f]
  BY DEF Node
<1> HIDE DEF f
<1> QED BY <1>1, <1>4, <1>5 DEF NodesFrom

LEMMA StraightIn ==
  ASSUME walls \in Maps, end \in Board, NEW S, NEW node \in NodesFrom(S),
         NEW d \in DOMAIN Sides, NEW dir \in Dirs
  PROVE  StraightNodes(node, d, dir) \in Seq(NodesFrom(S))
<1> DEFINE q == Stop(Last(node.trail), d)
<1>1. Trail(node.trail) /\ node.trail[1] \in S
  BY DEF NodesFrom
<1>2. CASE Free(q)
  <2>1. Inside(q) /\ OpenLine(Last(node.trail), q)
    BY <1>1, <1>2, TrailLast, StopLine
  <2> HIDE DEF q
  <2>2. Trail(Append(node.trail, q)) /\ Append(node.trail, q)[1] \in S
    BY <1>1, <2>1, TrailGrows
  <2>3. Node(Append(node.trail, q), dir) \in NodesFrom(S)
    BY <2>2, NodeIn
  <2> QED BY <2>3, <1>2 DEF StraightNodes, q
<1>3. CASE ~Free(q)
  BY <1>3 DEF StraightNodes
<1> QED BY <1>2, <1>3

LEMMA PartsIs ==
  ASSUME NEW d \in DOMAIN Parts
  PROVE  Parts[d][1] \in DOMAIN Sides /\ Parts[d][2] \in DOMAIN Sides
BY DEF Parts, Sides

\* The nodes of a tile of a diagonal jump.
LEMMA TileIn ==
  ASSUME walls \in Maps, end \in Board, NEW S, NEW here, Trail(here), here[1] \in S,
         NEW d \in DOMAIN Parts, NEW p \in Int \X Int, Free(p), Last(here) = Plus(p, Vec[d]),
         NEW bLoop
  PROVE  TileNodes(here, d, bLoop) \in Seq(NodesFrom(S))
<1> DEFINE q == Last(here)
           X == NodesFrom(S)
           reach == IF Reaches(q, d, bLoop) THEN <<Node(Append(here, end), "NN")>> ELSE <<>>
<1>1. d \in Dirs /\ Inside(q)
  BY VecIs, TrailLast
<1>2. ~IsForced(q, d)
  BY NoForced
<1>3. Node(here, "NN") \in X /\ Node(here, d) \in X
  BY <1>1, NodeIn
<1>4. ASSUME Reaches(q, d, bLoop) PROVE Node(Append(here, end), "NN") \in X
  <2>1. end = Stop(q, Parts[d][1]) \/ end = Stop(q, Parts[d][2])
    BY <1>4 DEF Reaches, Hits
  <2>2. Free(end)
    BY <1>4 DEF Reaches, Hits
  <2>3. Inside(end) /\ OpenLine(q, end)
    <3> HIDE DEF q
    <3> QED BY <2>1, <2>2, <1>1, PartsIs, StopLine
  <2>4. Trail(Append(here, end)) /\ Append(here, end)[1] \in S
    BY <2>3, TrailGrows
  <2> QED BY <2>4, NodeIn
<1>5. reach \in Seq(X)
  <2> HIDE DEF X, q
  <2> QED BY <1>4
<1>6. TileNodes(here, d, bLoop) = IF q = end THEN <<Node(here, "NN")>>
                           ELSE IF ~Corner(q, d) THEN <<>>
                           ELSE (<<Node(here, d)>> \o <<>>) \o reach
  BY <1>2 DEF TileNodes
<1> HIDE DEF X, q, reach
<1>7. <<Node(here, "NN")>> \in Seq(X) /\ <<Node(here, d)>> \o <<>> \in Seq(X) /\ <<>> \in Seq(X)
  BY <1>3
<1>8. (<<Node(here, d)>> \o <<>>) \o reach \in Seq(X)
  BY <1>5, <1>7, ConcatProperties
<1> QED BY <1>6, <1>7, <1>8, Zenon DEF X

LEMMA ReachedIs ==
  ASSUME walls \in Maps, NEW p, Inside(p), NEW d \in DOMAIN Parts, NEW bLoop
  PROVE  Reached(p, d, bLoop) \in Nat /\ Reached(p, d, bLoop) < Wall(p, d)
<1> DEFINE n == Wall(p, d)
           R == {k \in 1 .. n - 1 : Stops(Go(p, d, k), d, bLoop)} \cup {n - 1}
<1>1. n \in Nat /\ n \in Steps
  BY WallIs
<1>2. n >= 1
  <2> HIDE DEF n
  <2> QED BY <1>1, SearchAssumption DEF Steps
<1>3. R \in SUBSET Nat /\ R # {} /\ \A r \in R : r < n
  <2> HIDE DEF n
  <2> QED BY <1>1, <1>2
<1>4. Reached(p, d, bLoop) = Min(R)
  BY DEF Reached
<1> HIDE DEF R
<1> QED BY <1>3, <1>4, MinIs

\* The trails of a diagonal jump: the trail of its node, and the corners behind it.
LEMMA TrailsIs ==
  ASSUME walls \in Maps, NEW t, Trail(t), NEW d \in DOMAIN Parts,
         NEW last \in Nat, last < Wall(Last(t), d)
  PROVE  \A k \in 0 .. last :
           LET u == Trails(t, d, last)[k]
           IN  /\ Trail(u) /\ u[1] = t[1]
               /\ \E i \in 0 .. k : Last(u) = Go(Last(t), d, i)
<1> DEFINE p == Last(t)
           More(u, k) == IF Corner(Go(p, d, k), d) THEN Append(u, Go(p, d, k)) ELSE u
           G(f) == f = [k \in 0 .. last |-> IF k = 0 THEN t ELSE More(f[k - 1], k)]
           upTo == CHOOSE f : G(f)
           T == Seq(Int \X Int)
           step == [x \in (1 .. last) \X T |-> More(x[2], x[1])]
<1>0. d \in Dirs /\ Inside(p) /\ p \in Int \X Int
  BY VecIs, TrailLast, BoardInt DEF Inside
<1>1. t \in T
  BY BoardInt DEF Trail
<1> HIDE DEF p
<1>2. step \in Rules(last, T)
  <2>1. ASSUME NEW x \in (1 .. last) \X T PROVE More(x[2], x[1]) \in T
    <3>1. x[2] \in T /\ x[1] \in Int
      OBVIOUS
    <3>2. Go(p, d, x[1]) \in Int \X Int
      BY <1>0, <3>1, GoIs
    <3> QED BY <3>1, <3>2
  <2> HIDE DEF More, T
  <2> QED BY <2>1 DEF Rules
<1>3. PICK f : Follows(f, last, T, t, step)
  <2> HIDE DEF step, T
  <2> QED BY <1>1, <1>2, Recursion
<1>4. ASSUME NEW k \in 1 .. last PROVE f[k] = More(f[k - 1], k)
  <2>1. f[k] = step[<<k, f[k - 1]>>] /\ f[k - 1] \in T
    <3> HIDE DEF step, T
    <3> QED BY <1>3 DEF Follows
  <2> HIDE DEF More, T
  <2> QED BY <2>1
<1>5. G(f)
  <2> HIDE DEF More, step, T
  <2>1. \A k \in 0 .. last : f[k] = IF k = 0 THEN t ELSE More(f[k - 1], k)
    BY <1>3, <1>4 DEF Follows
  <2> QED BY <2>1, <1>3 DEF Follows
<1>6. G(upTo)
  <2> HIDE DEF More
  <2> QED BY <1>5
<1>7. Trails(t, d, last) = upTo
  BY DEF Trails, p
<1> HIDE DEF upTo
<1> DEFINE Fine(u, k) == /\ Trail(u) /\ u[1] = t[1]
                         /\ \E i \in 0 .. k : Last(u) = Go(p, d, i)
           K == {k \in 0 .. last : Fine(upTo[k], k)}
<1>8. 0 \in K
  <2>1. upTo[0] = t
    <3> HIDE DEF More
    <3> QED BY <1>6
  <2>2. Last(t) = Go(p, d, 0)
    BY <1>0, GoIs DEF p
  <2> QED BY <2>1, <2>2
<1>9. ASSUME NEW k \in 1 .. last, k - 1 \in K PROVE k \in K
  <2>0. k - 1 \in 0 .. last
    OBVIOUS
  <2> DEFINE u == upTo[k - 1]
             q == Go(p, d, k)
  <2>1. upTo[k] = More(u, k)
    <3> HIDE DEF More
    <3> QED BY <1>6
  <2>2. Fine(u, k - 1)
    BY <1>9
  <2> HIDE DEF u
  <2>3. PICK i \in 0 .. k - 1 : Last(u) = Go(p, d, i)
    BY <2>2
  <2>4. i \in Nat /\ k \in Nat /\ i < k /\ k < Wall(p, d)
    <3>1. Wall(p, d) \in Nat /\ last < Wall(p, d)
      BY <1>0, WallIs DEF p
    <3> QED BY <3>1
  <2>5. Inside(q) /\ OpenLine(Last(u), q)
    <3>1. k \in 0 .. Wall(p, d) - 1
      BY <2>4, <1>0, WallIs
    <3> QED BY <3>1, <2>3, <2>4, <1>0, WallIs, DiagonalLine
  <2>6. CASE Corner(q, d)
    <3>1. upTo[k] = Append(u, q)
      BY <2>1, <2>6
    <3> HIDE DEF q
    <3>2. Trail(upTo[k]) /\ upTo[k][1] = t[1] /\ Last(upTo[k]) = q
      BY <2>2, <2>5, <3>1, TrailGrows
    <3>3. Fine(upTo[k], k)
      BY <3>2 DEF q
    <3> HIDE DEF Fine
    <3> QED BY <3>3
  <2>7. CASE ~Corner(q, d)
    <3>1. upTo[k] = u
      BY <2>1, <2>7
    <3>2. Fine(upTo[k], k)
      BY <3>1, <2>2
    <3> HIDE DEF Fine
    <3> QED BY <3>2
  <2> QED BY <2>6, <2>7
<1>10. Inductive(K, last)
  <2> HIDE DEF K
  <2> QED BY <1>8, <1>9 DEF Inductive
<1>11. \A k \in 0 .. last : k \in K
  <2> HIDE DEF K
  <2> QED BY <1>10, UpTo
<1> QED BY <1>7, <1>11 DEF p

LEMMA DiagonalIn ==
  ASSUME walls \in Maps, end \in Board, NEW S, NEW node \in NodesFrom(S),
         NEW d \in DOMAIN Parts, NEW bLoop
  PROVE  Diagonal(node, d, bLoop) \in Seq(NodesFrom(S))
<1> DEFINE t == node.trail
           p == Last(t)
           last == Reached(p, d, bLoop)
           X == NodesFrom(S)
           Here(k) == Append(Trails(t, d, last)[k - 1], Go(p, d, k))
           tiles == [k \in 1 .. last |-> TileNodes(Here(k), d, bLoop)]
<1>1. Trail(t) /\ t[1] \in S
  BY DEF NodesFrom
<1>2. d \in Dirs /\ Inside(p) /\ p \in Int \X Int
  BY <1>1, VecIs, TrailLast, BoardInt DEF Inside
<1>3. last \in Nat /\ last < Wall(p, d) /\ Wall(p, d) \in Nat
  BY <1>2, ReachedIs, WallIs
<1>4. Diagonal(node, d, bLoop) = FlattenSeq(tiles)
  BY DEF Diagonal
<1> HIDE DEF last, t
<1>5. ASSUME NEW k \in 1 .. last PROVE TileNodes(Here(k), d, bLoop) \in Seq(X)
  <2> DEFINE u == Trails(t, d, last)[k - 1]
             q == Go(p, d, k)
             r == Go(p, d, k - 1)
  <2>0. k - 1 \in 0 .. last /\ k \in Nat /\ k < Wall(p, d)
    BY <1>3
  <2>1. /\ Trail(u) /\ u[1] = t[1]
        /\ \E i \in 0 .. k - 1 : Last(u) = Go(p, d, i)
    BY <1>1, <1>3, <2>0, TrailsIs
  <2> HIDE DEF u
  <2>2. PICK i \in 0 .. k - 1 : Last(u) = Go(p, d, i)
    BY <2>1
  <2>3. Inside(q) /\ Inside(r)
    <3>1. k \in 0 .. Wall(p, d) - 1 /\ k - 1 \in 0 .. Wall(p, d) - 1
      BY <2>0, <1>3
    <3> HIDE DEF p
    <3> QED BY <3>1, <1>2, WallIs
  <2>4. OpenLine(Last(u), q)
    <3>1. i \in Nat /\ i < k
      BY <2>0
    <3> HIDE DEF p
    <3> QED BY <3>1, <2>0, <2>2, <1>2, DiagonalLine
  <2>5. q = Plus(r, Vec[d])
    <3>1. (k - 1) + 1 = k /\ k - 1 \in Int
      BY <2>0
    <3>2. Plus(r, Vec[d]) = Go(p, d, (k - 1) + 1)
      <4> HIDE DEF p
      <4> QED BY <3>1, <1>2, GoIs
    <3> QED BY <3>1, <3>2
  <2>6. Here(k) = Append(u, q)
    BY DEF u
  <2> HIDE DEF q, r, p, Here, X
  <2>7. Trail(Here(k)) /\ Here(k)[1] \in S /\ Last(Here(k)) = q
    BY <2>1, <2>3, <2>4, <2>6, <1>1, TrailGrows
  <2>8. r \in Int \X Int /\ Free(r)
    BY <2>3, BoardInt DEF Inside
  <2> QED BY <2>5, <2>7, <2>8, TileIn DEF X
<1>6. tiles \in Seq(Seq(X))
  <2> HIDE DEF X, Here, p
  <2> QED BY <1>3, <1>5
<1> HIDE DEF tiles, X
<1>7. FlattenSeq(tiles) \in Seq(X)
  BY <1>6, FlattenIn
<1> QED BY <1>4, <1>7 DEF X

LEMMA JumpIn ==
  ASSUME walls \in Maps, end \in Board, NEW S, NEW node \in NodesFrom(S)
  PROVE  Jump(node) \in Seq(NodesFrom(S))
<1> DEFINE X == NodesFrom(S)
<1>1. \A e \in DOMAIN Sides, f \in Dirs : StraightNodes(node, e, f) \in Seq(X)
  BY StraightIn
<1>2. \A e \in DOMAIN Parts, b \in BOOLEAN : Diagonal(node, e, b) \in Seq(X)
  BY DiagonalIn
<1>3. node.dir \in Dirs \cup {"NN"}
  BY DEF NodesFrom
<1> HIDE DEF X
<1>4. \A a, b \in Seq(X) : a \o b \in Seq(X)
  BY ConcatProperties
<1>5. CASE node.dir = "NN"
  <2> DEFINE A(e) == StraightNodes(node, e, e)
             B(e) == Diagonal(node, e, FALSE)
  <2>1. /\ A("UU") \in Seq(X) /\ A("RR") \in Seq(X) /\ A("DD") \in Seq(X) /\ A("LL") \in Seq(X)
        /\ B("RU") \in Seq(X) /\ B("RD") \in Seq(X) /\ B("LD") \in Seq(X) /\ B("LU") \in Seq(X)
    BY <1>1, <1>2, VecIs
  <2>2. Jump(node) = A("UU") \o A("RR") \o A("DD") \o A("LL")
                     \o B("RU") \o B("RD") \o B("LD") \o B("LU")
    BY <1>5 DEF Jump
  <2> HIDE DEF A, B
  <2>3. A("UU") \o A("RR") \o A("DD") \o A("LL") \in Seq(X)
    <3>1. A("UU") \o A("RR") \in Seq(X)
      BY <2>1, <1>4, Zenon
    <3>2. A("UU") \o A("RR") \o A("DD") \in Seq(X)
      BY <3>1, <2>1, <1>4, Zenon
    <3> QED BY <3>2, <2>1, <1>4, Zenon
  <2> DEFINE C == A("UU") \o A("RR") \o A("DD") \o A("LL")
  <2> HIDE DEF C
  <2>4. C \o B("RU") \o B("RD") \in Seq(X)
    <3>1. C \o B("RU") \in Seq(X)
      BY <2>1, <2>3, <1>4, Zenon DEF C
    <3> QED BY <3>1, <2>1, <1>4, Zenon
  <2>5. C \o B("RU") \o B("RD") \o B("LD") \in Seq(X)
    BY <2>1, <2>4, <1>4, Zenon
  <2>6. C \o B("RU") \o B("RD") \o B("LD") \o B("LU") \in Seq(X)
    BY <2>1, <2>5, <1>4, Zenon
  <2> QED BY <2>2, <2>6, Zenon DEF C, X
<1>6. CASE node.dir \in DOMAIN Sides
  <2> DEFINE d == node.dir
             a == StraightNodes(node, d, IF d = "UU" THEN "RR" ELSE d)
             b == Diagonal(node, Sides[d][1], TRUE)
             c == Diagonal(node, Sides[d][2], TRUE)
  <2>1. d # "NN" /\ d \in Dirs /\ (IF d = "UU" THEN "RR" ELSE d) \in Dirs
    BY <1>6, VecIs
  <2>2. Sides[d][1] \in DOMAIN Parts /\ Sides[d][2] \in DOMAIN Parts
    BY <1>6 DEF Sides, Parts
  <2>3. a \in Seq(X) /\ b \in Seq(X) /\ c \in Seq(X)
    BY <2>1, <2>2, <1>1, <1>2, <1>6
  <2>4. Jump(node) = (a \o b) \o c
    BY <1>6, <2>1 DEF Jump
  <2> HIDE DEF a, b, c
  <2> QED BY <2>3, <2>4, <1>4, Zenon DEF X
<1>7. CASE node.dir \in DOMAIN Parts
  <2> DEFINE d == node.dir
             a == StraightNodes(node, Parts[d][1], Parts[d][1])
             b == StraightNodes(node, Parts[d][2], Parts[d][2])
             c == Diagonal(node, d, TRUE)
  <2>1. d # "NN" /\ d \notin DOMAIN Sides
    BY <1>7, VecIs
  <2>2. /\ Parts[d][1] \in DOMAIN Sides /\ Parts[d][2] \in DOMAIN Sides
        /\ Parts[d][1] \in Dirs /\ Parts[d][2] \in Dirs
    BY <1>7, PartsIs, VecIs
  <2>3. a \in Seq(X) /\ b \in Seq(X) /\ c \in Seq(X)
    BY <2>2, <1>1, <1>2, <1>7
  <2>4. Jump(node) = (a \o b) \o c
    BY <2>1 DEF Jump
  <2> HIDE DEF a, b, c
  <2> QED BY <2>3, <2>4, <1>4, Zenon DEF X
<1> QED BY <1>3, <1>5, <1>6, <1>7, VecIs

-----------------------------------------------------------------------------
(* The invariant                                                           *)

SearchTypeOK ==
  /\ walls \in Maps /\ start \in Board /\ end \in Board
  /\ loop \in Nat /\ stale \in Nat /\ pOut \in Seq(Board)
  /\ result \in {"none", "refused", "searching", "found", "gave up", "crashed"}

\* The open list outlives a search that gives up, so its trails may begin anywhere;
\* only while no search gave up does it hold nothing but this search's nodes.
SearchInv ==
  /\ SearchTypeOK
  /\ openList \in Seq(NodesFrom(Board))
  /\ result \in {"none", "found"} => openList = <<>>
  /\ result = "refused" /\ stale = 0 => openList = <<>>
  /\ result = "searching" /\ stale = 0 => openList \in Seq(NodesFrom({start}))
  /\ Walkable /\ StartsHere

LEMMA LineSame ==
  ASSUME walls' = walls
  PROVE  \A p, q : OpenLine(p, q)' <=> OpenLine(p, q)
<1>1. \A p : Free(p)' <=> Free(p)
  BY DEF Free
<1>2. \A p, d : FreeAt(p, d)' <=> FreeAt(p, d)
  BY <1>1 DEF FreeAt
<1>3. \A p, d : Open(p, d)' <=> Open(p, d)
  BY <1>2 DEF Open
<1> QED BY <1>3 DEF OpenLine

LEMMA TrailSame ==
  ASSUME walls' = walls
  PROVE  \A t : Trail(t)' <=> Trail(t)
<1>1. \A p : Free(p)' <=> Free(p)
  BY DEF Free
<1> QED BY <1>1, LineSame DEF Trail

LEMMA NodesSame ==
  ASSUME walls' = walls, NEW n
  PROVE  /\ n \in Seq(NodesFrom(Board)) => n \in Seq(NodesFrom(Board)')
         /\ start' = start /\ n \in Seq(NodesFrom({start})) => n \in Seq(NodesFrom({start})')
<1>1. NodesFrom(Board)' = NodesFrom(Board)
  BY TrailSame, Zenon DEF NodesFrom
<1>2. start' = start => NodesFrom({start})' = NodesFrom({start})
  BY TrailSame, Zenon DEF NodesFrom
<1> QED BY <1>1, <1>2

LEMMA NodesMore ==
  ASSUME NEW S \in SUBSET Board, NEW n, n \in Seq(NodesFrom(S))
  PROVE  n \in Seq(NodesFrom(Board))
<1>1. NodesFrom(S) \subseteq NodesFrom(Board)
  BY DEF NodesFrom
<1> QED BY <1>1

LEMMA SearchInit1 == SearchInit => SearchInv
<1> SUFFICES ASSUME SearchInit PROVE SearchInv
  OBVIOUS
<1>1. <<0, 0>> \in Board
  BY SearchAssumption DEF Board
<1> QED BY <1>1 DEF SearchInit, SearchInv, SearchTypeOK, Walkable, StartsHere

LEMMA FindPathInv ==
  ASSUME SearchInv, NEW from \in Board, NEW to \in Board, FindPath(from, to)
  PROVE  SearchInv'
<1>0. /\ walls \in Maps /\ start \in Board /\ end \in Board /\ stale \in Nat
      /\ result \in {"none", "refused", "searching", "found", "gave up", "crashed"}
      /\ result \in {"none", "found"} => openList = <<>>
      /\ result = "refused" /\ stale = 0 => openList = <<>>
  BY Zenon DEF SearchInv, SearchTypeOK
<1>2. walls' = walls /\ loop' = 0 /\ pOut' = <<>> /\ result \notin {"searching", "crashed"}
  BY DEF FindPath
<1>3. /\ result = "found" => stale' = 0
      /\ result = "gave up" => stale' = stale + 1
      /\ result \notin {"found", "gave up"} => stale' = stale
  BY Zenon DEF FindPath
<1>4. stale' \in Nat /\ (stale' = 0 => openList = <<>>)
  <2>1. CASE result = "found"
    BY <2>1, <1>0, <1>3
  <2>2. CASE result = "gave up"
    <3>1. stale' = stale + 1 /\ stale \in Nat
      BY <2>2, <1>0, <1>3, Zenon
    <3> QED BY <3>1
  <2>3. CASE result \in {"none", "refused"}
    <3>1. stale' = stale /\ (stale = 0 => openList = <<>>)
      BY <2>3, <1>0, <1>3, Zenon
    <3> QED BY <3>1, <1>0, Zenon
  <2> QED BY <2>1, <2>2, <2>3, <1>0, <1>2, Zenon
<1>5. CASE Free(from) /\ Free(to)
  <2> DEFINE node == [trail |-> <<from>>, dir |-> "NN", fitness |-> 10 * Dist(from, to)]
  <2>1. start' = from /\ end' = to /\ result' = "searching" /\ openList' = Insert(openList, node)
    BY <1>5 DEF FindPath
  <2>2. Trail(<<from>>)
    BY <1>5 DEF Trail
  <2>3. Dist(from, to) \in Int
    BY BoardInt, DistIs
  <2>4. node \in NodesFrom(Board) /\ node \in NodesFrom({from})
    <3>1. <<from>>[1] = from /\ <<from>> \in Seq(Board) /\ 10 * Dist(from, to) \in Int
      BY <2>3
    <3> QED BY <2>2, <3>1 DEF NodesFrom
  <2> HIDE DEF node
  <2>5. openList' \in Seq(NodesFrom(Board))
    BY <2>1, <2>4, InsertIn DEF SearchInv
  <2>6. stale' = 0 => openList' \in Seq(NodesFrom({start'}))
    <3>1. <<>> \in Seq(NodesFrom({from}))
      OBVIOUS
    <3>2. Insert(<<>>, node) \in Seq(NodesFrom({from}))
      BY <2>4, <3>1, InsertIn
    <3> QED BY <1>4, <2>1, <3>2
  <2>7. openList' \in Seq(NodesFrom(Board)')
    BY <1>2, <2>5, NodesSame
  <2>8. stale' = 0 => openList' \in Seq(NodesFrom({start})')
    <3>1. NodesFrom({start})' = NodesFrom({start'})
      BY <1>2, TrailSame, Zenon DEF NodesFrom
    <3> QED BY <2>6, <3>1
  <2>9. SearchTypeOK'
    <3>1. loop' \in Nat /\ pOut' \in Seq(Board)
      BY <1>2
    <3>2. result' \in {"none", "refused", "searching", "found", "gave up", "crashed"}
      BY <2>1
    <3>3. walls' \in Maps /\ start' \in Board /\ end' \in Board
      BY <1>0, <1>2, <2>1
    <3> QED BY <1>4, <3>1, <3>2, <3>3, Zenon DEF SearchTypeOK
  <2>10. Walkable' /\ StartsHere'
    BY <2>1 DEF Walkable, StartsHere
  <2> QED BY <2>1, <2>7, <2>8, <2>9, <2>10 DEF SearchInv
<1>6. CASE ~(Free(from) /\ Free(to))
  <2>1. start' = start /\ end' = end /\ result' = "refused" /\ openList' = openList
    BY <1>6 DEF FindPath
  <2>2. openList' \in Seq(NodesFrom(Board)')
    BY <1>2, <2>1, NodesSame DEF SearchInv
  <2>3. SearchTypeOK'
    <3>1. loop' \in Nat /\ pOut' \in Seq(Board)
      BY <1>2
    <3>2. result' \in {"none", "refused", "searching", "found", "gave up", "crashed"}
      BY <2>1
    <3>3. walls' \in Maps /\ start' \in Board /\ end' \in Board
      BY <1>0, <1>2, <2>1
    <3> QED BY <1>4, <3>1, <3>2, <3>3, Zenon DEF SearchTypeOK
  <2>4. Walkable' /\ StartsHere'
    BY <2>1 DEF Walkable, StartsHere
  <2> QED BY <1>4, <2>1, <2>2, <2>3, <2>4 DEF SearchInv
<1> QED BY <1>5, <1>6

LEMMA CompleteFindInv ==
  ASSUME SearchInv, result = "searching", openList # <<>>,
         Last(Head(openList).trail) = end, CompleteFind(Head(openList))
  PROVE  SearchInv'
<1> DEFINE node == Head(openList)
           t == node.trail
           n == Min({PointMax, Len(t)})
<1>1. node \in NodesFrom(Board) /\ (stale = 0 => node \in NodesFrom({start}))
  BY DEF SearchInv
<1>2. Trail(t) /\ (stale = 0 => t[1] = start) /\ Last(t) = end
  BY <1>1 DEF NodesFrom
<1>3. /\ pOut' = SubSeq(t, 1, n) /\ openList' = <<>> /\ result' = "found"
      /\ walls' = walls /\ start' = start /\ end' = end /\ loop' = loop /\ stale' = stale
  BY DEF CompleteFind
<1> HIDE DEF node, t
<1>4. t \in Seq(Board) /\ Len(t) \in Nat /\ Len(t) # 0
  BY <1>2 DEF Trail
<1>5. n \in Nat /\ n >= 1 /\ n <= Len(t) /\ n <= PointMax /\ (n = PointMax \/ n = Len(t))
  <2>1. {PointMax, Len(t)} \in SUBSET Nat
    BY <1>4, SearchAssumption
  <2>2. n \in {PointMax, Len(t)} /\ \A k \in {PointMax, Len(t)} : n <= k
    BY <2>1, MinIs
  <2> HIDE DEF n
  <2> QED BY <1>4, <2>2, SearchAssumption
<1> HIDE DEF n
<1>6. pOut' \in Seq(Board) /\ Len(pOut') = n /\ \A i \in 1 .. n : pOut'[i] = t[i]
  <2>1. \A i \in 1 .. n : t[i] \in Board
    BY <1>4, <1>5
  <2> QED BY <1>3, <1>5, <2>1, SubSeqProperties
<1>7. ASSUME Len(pOut') < PointMax PROVE Last(pOut') = end
  <2>1. n = Len(t)
    BY <1>5, <1>6, <1>7
  <2>2. Last(pOut') = t[n]
    BY <1>5, <1>6 DEF Last
  <2> QED BY <1>2, <2>1, <2>2 DEF Last
<1>8. ASSUME NEW i \in 1 .. Len(pOut') - 1 PROVE OpenLine(pOut'[i], pOut'[i + 1])
  <2>1. i \in 1 .. Len(t) - 1 /\ i \in 1 .. n /\ i + 1 \in 1 .. n
    BY <1>4, <1>5, <1>6
  <2>2. OpenLine(t[i], t[i + 1])
    BY <1>2, <2>1 DEF Trail
  <2> QED BY <1>6, <2>1, <2>2
<1>9. Walkable'
  <2>2. (\A i \in 1 .. Len(pOut) - 1 : OpenLine(pOut[i], pOut[i + 1]))'
    BY <1>3, <1>8, LineSame
  <2>3. Len(pOut') < PointMax => Last(pOut') = end'
    BY <1>3, <1>7
  <2> QED BY <2>2, <2>3 DEF Walkable, OpenLine
<1>10. StartsHere'
  <2>1. pOut'[1] = t[1]
    BY <1>5, <1>6
  <2> QED BY <1>2, <1>3, <2>1 DEF StartsHere
<1>11. SearchTypeOK'
  BY <1>3, <1>6 DEF SearchInv, SearchTypeOK
<1>12. openList' \in Seq(NodesFrom(Board)')
  BY <1>3
<1> QED BY <1>3, <1>9, <1>10, <1>11, <1>12 DEF SearchInv

LEMMA ExpandInv ==
  ASSUME SearchInv, result = "searching", openList # <<>>, Expand(Head(openList))
  PROVE  SearchInv'
<1> DEFINE node == Head(openList)
<1>1. /\ openList' = InsertAll(Tail(openList), Jump(node)) /\ loop' = loop + 1
      /\ walls' = walls /\ start' = start /\ end' = end /\ result' = result
      /\ pOut' = pOut /\ stale' = stale
  BY DEF Expand
<1>2. walls \in Maps /\ end \in Board /\ start \in Board
  BY DEF SearchInv, SearchTypeOK
<1>3. openList' \in Seq(NodesFrom(Board))
  <2>1. node \in NodesFrom(Board) /\ Tail(openList) \in Seq(NodesFrom(Board))
    BY DEF SearchInv
  <2> HIDE DEF node
  <2>2. Jump(node) \in Seq(NodesFrom(Board))
    BY <1>2, <2>1, JumpIn
  <2> QED BY <1>1, <2>1, <2>2, InsertAllIn
<1>4. ASSUME stale = 0 PROVE openList' \in Seq(NodesFrom({start}))
  <2>1. node \in NodesFrom({start}) /\ Tail(openList) \in Seq(NodesFrom({start}))
    BY <1>4 DEF SearchInv
  <2> HIDE DEF node
  <2>2. Jump(node) \in Seq(NodesFrom({start}))
    BY <1>2, <2>1, JumpIn
  <2> QED BY <1>1, <2>1, <2>2, InsertAllIn
<1>5. openList' \in Seq(NodesFrom(Board)') /\ (stale' = 0 => openList' \in Seq(NodesFrom({start})'))
  BY <1>1, <1>3, <1>4, NodesSame
<1>6. SearchTypeOK'
  BY <1>1 DEF SearchInv, SearchTypeOK
<1>7. Walkable' /\ StartsHere'
  BY <1>1 DEF Walkable, StartsHere
<1> QED BY <1>1, <1>5, <1>6, <1>7 DEF SearchInv

LEMMA SearchStep == SearchInv /\ [SearchNext]_searchVars => SearchInv'
<1> SUFFICES ASSUME SearchInv, [SearchNext]_searchVars PROVE SearchInv'
  OBVIOUS
<1>1. CASE Search
  <2>1. CASE loop = OpenMax
    <3>1. LoopEnds
      BY <1>1, <2>1 DEF Search
    <3>2. openList' \in Seq(NodesFrom(Board)')
      BY <3>1, NodesSame DEF LoopEnds, SearchInv
    <3>3. SearchTypeOK' /\ Walkable' /\ StartsHere'
      BY <3>1 DEF LoopEnds, SearchInv, SearchTypeOK, Walkable, StartsHere
    <3> QED BY <3>1, <3>2, <3>3 DEF LoopEnds, SearchInv
  <2>2. CASE loop # OpenMax /\ openList = <<>>
    <3>1. EmptyList
      BY <1>1, <2>2 DEF Search
    <3>2. openList' \in Seq(NodesFrom(Board)')
      BY <3>1, NodesSame DEF EmptyList, SearchInv
    <3>3. SearchTypeOK' /\ Walkable' /\ StartsHere'
      BY <3>1 DEF EmptyList, SearchInv, SearchTypeOK, Walkable, StartsHere
    <3> QED BY <3>1, <3>2, <3>3 DEF EmptyList, SearchInv
  <2>3. CASE loop # OpenMax /\ openList # <<>> /\ Last(Head(openList).trail) = end
    BY <1>1, <2>3, CompleteFindInv DEF Search
  <2>4. CASE loop # OpenMax /\ openList # <<>> /\ Last(Head(openList).trail) # end
    BY <1>1, <2>4, ExpandInv DEF Search
  <2> QED BY <2>1, <2>2, <2>3, <2>4
<1>2. CASE \E r \in Requests : FindPath(r[1], r[2])
  <2>1. PICK r \in Requests : FindPath(r[1], r[2])
    BY <1>2
  <2>2. r[1] \in Board /\ r[2] \in Board
    BY SearchAssumption
  <2> QED BY <2>1, <2>2, FindPathInv
<1>3. CASE UNCHANGED searchVars
  <2>1. /\ walls' = walls /\ start' = start /\ end' = end /\ openList' = openList
        /\ loop' = loop /\ result' = result /\ pOut' = pOut /\ stale' = stale
    BY <1>3 DEF searchVars
  <2>2. /\ openList' \in Seq(NodesFrom(Board)')
        /\ result = "searching" /\ stale = 0 => openList' \in Seq(NodesFrom({start})')
    BY <2>1, NodesSame DEF SearchInv
  <2>3. \A p, d : Open(p, d)' <=> Open(p, d)
    BY <2>1 DEF Open, FreeAt, Free
  <2>4. Walkable'
    BY <2>1, <2>3 DEF Walkable, SearchInv
  <2>5. SearchTypeOK' /\ StartsHere'
    BY <2>1 DEF SearchInv, SearchTypeOK, StartsHere
  <2> QED BY <2>1, <2>2, <2>4, <2>5 DEF SearchInv
<1> QED BY <1>1, <1>2, <1>3 DEF SearchNext

\* The open list holds trails of open tiles, each on an open line with the one before,
\* and only this search's while no search gave up: whatever map with a closed border,
\* tiles and limits FindPath is used with.
THEOREM SearchInvariance == SearchSpec => []SearchInv
BY SearchInit1, SearchStep, PTL DEF SearchSpec

\* What FindPath returns is a path the player can walk, to the tile that was asked for
\* unless PointMax cuts it off.
THEOREM SearchWalkable == SearchSpec => []Walkable
<1>1. SearchInv => Walkable
  BY DEF SearchInv
<1> QED BY SearchInvariance, <1>1, PTL

\* The path begins where the player stands, unless a search that gave up left its nodes
\* behind.
THEOREM SearchStarts == SearchSpec => []StartsHere
<1>1. SearchInv => StartsHere
  BY DEF SearchInv
<1> QED BY SearchInvariance, <1>1, PTL

=============================================================================
