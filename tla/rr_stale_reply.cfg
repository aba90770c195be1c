\* test_rr.cpp:48 expects this of clients; with settimeout() it fails.
SPECIFICATION Spec
CONSTANTS
  Server = server
  NoCallback = none
  Clients = {c1}
  Setups = {f}
  Callbacks = {f}
  ReqSize = 2
  RepSize = 1
  ReqLens = {2}
  RepLens = {1}
  MaxCalls <- TwoCalls
  RcvBuf = 2
  Lossy = FALSE
  Duplicating = FALSE
  Timeouts = TRUE
  Crashes = FALSE
INVARIANT CallMatch
\* The clients make MaxCalls calls, or wait for ever for an answer that is lost.
CHECK_DEADLOCK FALSE
