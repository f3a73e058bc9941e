\* Two clients with one account between them, two requests in any hands, a server that
\* connects twice. Every client may have left: no deadlock check.
CONSTANTS
  Clients = {c1, c2}
  NoClient = NoClient
  Accounts = {a1}
  NoAccount = NoAccount
  Players = {p1, p2}
  NoPlayer = NoPlayer
  Servers = {chat}
  Timeout = 0
  MaxRequests = 2
  MaxLinks = 2
SPECIFICATION FairSpec
CHECK_DEADLOCK FALSE
INVARIANT MapExact
PROPERTY EveryoneLeaves
