\* One slot used twice, one worker, one content thread; no symmetry, for the liveness
\* properties.
CONSTANTS
  Slots = {s1}
  Acceptor = acceptor
  Workers = {w1}
  Apps = {a1}
  NoSlot = NoSlot
  NoId = NoId
  SendBatch = 1
  MaxClients = 2
  MaxQueue = 2
SPECIFICATION LanFairSpec
INVARIANT OneOwner
PROPERTIES DisconnectReleases QueuedIsSent
