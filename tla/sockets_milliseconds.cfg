\* docs/notes.md:65 of the microseconds of a timeout; get_time has another formula.
SPECIFICATION Spec
CONSTANTS
  Objects = {s1}
  Fds = {d1}
  SOCKET_ERR = SOCKET_ERR
  NotOpen = NotOpen
  Addrs = {p}
  NoAddr = NoAddr
  Data = {m, zero}
  Zero = zero
  Empty = Empty
  Msecs <- Timeouts
  RcvBuf = 1
  MaxWire = 1
  Lossy = TRUE
  Reordering = FALSE
INVARIANT TimeoutAsAsked
\* Every thread may be waiting for a message that nobody sends.
CHECK_DEADLOCK FALSE
