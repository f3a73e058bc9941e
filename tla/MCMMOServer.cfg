\* One session used twice; two workers. Every connection may be over: no deadlock check.
CONSTANTS
  Slots = {s1}
  NoSlot = NoSlot
  Conns = {1, 2}
  NoConn = 0
  Workers = {w1, w2}
  MaxIn = 1
  MaxOut = 1
SPECIFICATION FairSpec
CHECK_DEADLOCK FALSE
INVARIANTS CountersExact IndexExact OwnPackets GameLeft
PROPERTIES QuietRelease LogoutReleases
