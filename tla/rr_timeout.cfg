\* Clients that called settimeout(): answers may come too late.
SPECIFICATION Spec
CONSTANTS
  Server = server
  NoCallback = none
  Clients = {c1, c2}
  Setups = {f}
  Callbacks = {f}
  ReqSize = 2
  RepSize = 1
  ReqLens = {0, 2}
  RepLens = {1}
  MaxCalls <- TwoCalls
  RcvBuf = 2
  Lossy = TRUE
  Duplicating = FALSE
  Timeouts = TRUE
  Crashes = TRUE
SYMMETRY ClientSymmetry
INVARIANTS NoReplyTwice AtMostOnce OwnReply
PROPERTY RefinesLateRpc
\* The clients make MaxCalls calls, or wait for ever for an answer that is lost.
CHECK_DEADLOCK FALSE
