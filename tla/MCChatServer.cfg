\* Two clients on a map of three by two sectors.
CONSTANTS
  Clients = {c1, c2}
  Objs = {o1, o2}
  NoObj = NoObj
  a1 = a1
  k1 = k1
  Accounts = {a1}
  NoAccount = NoAccount
  Keys = {k1}
  NoKey = NoKey
  MaxX = 3
  MaxY = 2
  MaxInbox = 2
  MaxPackets = 4
  MaxKeys = 1
  Packets <- AllPackets
SPECIFICATION FairSpec
CHECK_DEADLOCK FALSE
INVARIANTS SectorExact PlayersExact
PROPERTIES ChatReach Forgotten
