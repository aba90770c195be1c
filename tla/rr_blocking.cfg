\* Blocking clients on a lossy network, a server that may crash.
SPECIFICATION FairSpec
CONSTANTS
  Server = server
  NoCallback = none
  Clients = {c1, c2}
  Setups = {f, none}
  Callbacks = {f}
  ReqSize = 2
  RepSize = 1
  ReqLens = {0, 2}
  RepLens = {1}
  MaxCalls <- ThreeCalls
  RcvBuf = 2
  Lossy = TRUE
  Duplicating = FALSE
  Timeouts = FALSE
  Crashes = TRUE
INVARIANTS TypeOK CallMatch OneCall
PROPERTIES RefinesRpc ServedCallReturns
\* The clients make MaxCalls calls, or wait for ever for an answer that is lost.
CHECK_DEADLOCK FALSE
