SPECIFICATION Spec
CONSTANTS
  u1 = u1  u2 = u2  none = none
  Threads = {t1, t2, t3}
  Keys = {u1, u2, none}
  Addr = {a1, a2, a3}
  NULL = NULL
  NoThread = NoThread
  EmptyUri = none
  Garbage = Garbage
  Ignored <- IgnoredKeys
  MAX_OBJECT_SIZE = 3
  MAX_CACHE_SIZE = 4
  MAXLINE = 4
  MAXFD = 9
  Size <- ObjectSize
  Text <- AllText
  Inputs <- SameRequest
  Origins = {"serves"}
  ClientsLeave = FALSE
PROPERTY EveryRequestIsAnswered
\* every client may have been served, or be waiting for the mutex of a hit
CHECK_DEADLOCK FALSE
