\* The publisher and the subscriber in any order.
SPECIFICATION PubSubSpec
CONSTANTS
  Pubs = {p1}
  Subs = {s1}
  Objects <- AllObjects
  Fds = {d1, d2}
  SOCKET_ERR = SOCKET_ERR
  NotOpen = NotOpen
  Addrs = {a}
  NoAddr = NoAddr
  Callbacks = {f, g}
  Data <- Numbered
  Zero = zero
  Empty = Empty
  Msecs <- NoTimeouts
  MaxPub = 2
  RcvBuf = 2
  MaxWire = 2
  Lossy = TRUE
  Reordering = FALSE
  MaxAddrs = 1
  Restarts = FALSE
SYMMETRY Symmetry
INVARIANTS OneWay
\* Every thread may be waiting for a message that nobody sends.
CHECK_DEADLOCK FALSE
