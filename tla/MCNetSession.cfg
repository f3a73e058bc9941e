\* One slot used twice: two workers handle the receive and the send of a session at
\* once, and a content thread keeps the id of the first client while the slot is
\* released and given to the second.
CONSTANTS
  Slots = {s1}
  Acceptor = acceptor
  Workers = {w1, w2}
  Apps = {a1}
  NoSlot = NoSlot
  NoId = NoId
  SendBatch = 1
  MaxClients = 2
  MaxQueue = 1
SPECIFICATION Spec
SYMMETRY Symmetry
INVARIANTS IOCountExact LockProtects OwnPackets OneRequest
PROPERTY ServiceSpec
