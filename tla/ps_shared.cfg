\* Two subscribers that may share one address, a publisher that tries again, reordering, timeouts.
SPECIFICATION PubSubSpec
CONSTANTS
  Pubs = {p1}
  Subs = {s1, s2}
  Objects <- AllObjects
  Fds = {d1, d2, d3}
  SOCKET_ERR = SOCKET_ERR
  NotOpen = NotOpen
  Addrs = {a}
  NoAddr = NoAddr
  Callbacks = {f}
  Data <- Numbered
  Zero = zero
  Empty = Empty
  Msecs <- HalfSecond
  MaxPub = 2
  RcvBuf = 1
  MaxWire = 2
  Lossy = TRUE
  Reordering = TRUE
  MaxAddrs = 2
  Restarts = FALSE
SYMMETRY Symmetry
INVARIANTS CopiesBounded
\* Every thread may be waiting for a message that nobody sends.
CHECK_DEADLOCK FALSE
