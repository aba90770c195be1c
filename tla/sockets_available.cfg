\* docs/notes.md:88 of what select() returns; available() takes it the other way round.
SPECIFICATION Spec
CONSTANTS
  Objects = {s1, s2}
  Fds = {d1, d2}
  SOCKET_ERR = SOCKET_ERR
  NotOpen = NotOpen
  Addrs = {p}
  NoAddr = NoAddr
  Data = {m}
  Zero = zero
  Empty = Empty
  Msecs = {}
  RcvBuf = 1
  MaxWire = 1
  Lossy = FALSE
  Reordering = FALSE
PROPERTY AvailableTellsTruth
\* Every thread may be waiting for a message that nobody sends.
CHECK_DEADLOCK FALSE
