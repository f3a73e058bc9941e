\* The agent, or the game server with a thread that sends; two connections, so that what
\* is left of one meets the next. The game server does not connect again: no deadlock check.
CONSTANTS
  Main = main
  Apps = {a1}
  Workers = {w1, w2}
  Batch = 1
  MaxMissed = 1
  MaxLinks = 2
  MaxQueue = 2
SPECIFICATION FairSpec
CHECK_DEADLOCK FALSE
INVARIANT QuietRelease
PROPERTIES EnterOnce ShutReleases
