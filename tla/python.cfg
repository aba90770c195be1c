\* Two Subscribers or Reply objects that share their callbacks, one of which
\* sends replies that are too long, and a Publisher or a Request, with timeouts
\* and without; callbacks and addresses are added at any time.
SPECIFICATION Spec
CONSTANTS
  Kinds = {"ps", "rr"}
  Servers = {s, t}
  Callers = {c}
  Addrs = {a, b}
  NoAddr = NoAddr
  Callbacks = {f, g}
  ShortCb = f
  Answers <- AnswersOf
  Timeouts <- AllOrNone
  Sizes <- Messages
  MaxRequests = 3
  NUM = 2
  BufLen = 2
SYMMETRY Symmetry
INVARIANTS UdpTypeOK OwnAnswers AnswersOnce HeardByAll PublishReaches
\* Every loop may be waiting for a message that nobody sends.
CHECK_DEADLOCK FALSE
