\* One publisher and one subscriber, both restarted at any time.
SPECIFICATION FairPubSubSpec
CONSTANTS
  Pubs = {p1}
  Subs = {s1}
  Objects <- AllObjects
  Fds = {d1, d2}
  SOCKET_ERR = SOCKET_ERR
  NotOpen = NotOpen
  Addrs = {a}
  NoAddr = NoAddr
  Callbacks = {f, g}
  Data <- Numbered
  Zero = zero
  Empty = Empty
  Msecs <- NoTimeouts
  MaxPub = 2
  RcvBuf = 2
  MaxWire = 2
  Lossy = TRUE
  Reordering = FALSE
  MaxAddrs = 1
  Restarts = TRUE
INVARIANTS PubSubTypeOK InOrder CallbacksAgree
PROPERTIES RefinesTopic ReceivedIsHeard
\* Every thread may be waiting for a message that nobody sends.
CHECK_DEADLOCK FALSE
