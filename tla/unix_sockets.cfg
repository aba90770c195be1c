\* Calls between two clients and a server, or a publisher and two subscribers; names
\* and deaths of all three programs.
SPECIFICATION UnixSpec
CONSTANTS
  Server = server
  Clients = {c1, c2}
  Binders = {c1, c2}
  Timed = {c1}
  NoName = NoName
  OnceTos = {NoName, c1}
  QLen = 1
  MaxCalls = 2
  MaxDeaths = 2
  MaxAddrs = 2
  MaxPub = 2
INVARIANTS UnixTypeOK InStep Backlogged AtMostOnce NothingMissed
PROPERTIES DeafAfterDeath RefinesLateRpc ServerGoesOn PublishEnds
\* A client may wait for ever, for a server that has no name or for its reply.
CHECK_DEADLOCK FALSE
