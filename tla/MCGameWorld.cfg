\* Two slots, three clients, a strip of three sectors.
\* The bound on packets ends the run: no deadlock check.
CONSTANTS
  Slots = {s1, s2}
  MaxIds = 3
  Width = 5
  Height = 1
  SectorSize = 2
  Walls <- NoTiles
  Blocks <- Gate
  Spawns <- Ends
  Dests <- Ends
  Kinds <- All
  ErrorRange = 1
  Reach = 1
  MaxHp = 1
  Blow = 1
  MaxPackets = 2
SPECIFICATION Spec
SYMMETRY Symmetry
CHECK_DEADLOCK FALSE
INVARIANTS FieldExact SectorExact ViewExact
PROPERTY DeadStay
