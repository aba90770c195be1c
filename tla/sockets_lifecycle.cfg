\* More objects than descriptors; sockets that share an address; timeouts, options, casts.
SPECIFICATION InfoSpec
CONSTANTS
  UDPs = {s1}
  BCs = {b}
  Lookups = {l}
  Nobody = Nobody
  Objects <- AllObjects
  Fds = {d1, d2}
  SOCKET_ERR = SOCKET_ERR
  NotOpen = NotOpen
  Addrs = {p}
  NoAddr = NoAddr
  Data = {m}
  Zero = zero
  Empty = Empty
  Msecs <- Timeouts
  RcvBuf = 1
  MaxWire = 1
  Lossy = TRUE
  Reordering = TRUE
  Options = {broadcast}
  DefaultOn = {}
  BCOptions = {broadcast}
  Broadcast = broadcast
  BCPort = p
SYMMETRY Symmetry
VIEW WithoutResults
INVARIANTS InfoTypeOK OnlyLookupsLeak SharingAsked TimeoutKept
PROPERTY InfoTellsTruth
\* Every thread may be waiting for a message that nobody sends.
CHECK_DEADLOCK FALSE
