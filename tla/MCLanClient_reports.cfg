\* The agent and one worker: a connection is lost and made again.
CONSTANTS
  Main = main
  Apps = {}
  Workers = {w1}
  Batch = 1
  MaxMissed = 0
  MaxLinks = 2
  MaxQueue = 1
SPECIFICATION FairSpec
CHECK_DEADLOCK FALSE
PROPERTY Reports
