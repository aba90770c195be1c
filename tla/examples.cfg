\* Up to three processes of one of the programs, started in any order, in any
\* combination of roles, on a host that can open two sockets.
SPECIFICATION ExamplesSpec
CONSTANTS
  Programs = {"ps", "rr", "simple"}
  Objects = {x, y, z}
  Fds = {d1, d2}
  SOCKET_ERR = SOCKET_ERR
  NotOpen = NotOpen
  Addrs = {port}
  port = port
  NoAddr = NoAddr
  LOOP = 2
  Data <- Numbered
  Zero = zero
  Empty = Empty
  Msecs <- NoTimeouts
  RcvBuf = 2
  MaxWire = 2
  Lossy = FALSE
  Reordering = FALSE
INVARIANTS ExamplesTypeOK ResponsesMatch
PROPERTIES SubscriberEnds PairEnds
\* Processes end, or wait for a message that nobody sends.
CHECK_DEADLOCK FALSE
