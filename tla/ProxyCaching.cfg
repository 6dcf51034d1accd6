SPECIFICATION Spec
CONSTANTS
  u1 = u1  u2 = u2  none = none
  Threads = {t1, t2}
  Keys = {u1, u2, none}
  Addr = {a1, a2}
  NULL = NULL
  NoThread = NoThread
  EmptyUri = none
  Garbage = Garbage
  Ignored <- IgnoredKeys
  MAX_OBJECT_SIZE = 2
  MAX_CACHE_SIZE = 3
  MAXLINE = 2
  MAXFD = 9
  Size <- ObjectSize
  Text <- AllText
  Inputs <- TwoRequests
  Origins = {"serves", "cuts", "silent"}
  ClientsLeave = FALSE
INVARIANT CacheIsFaithful
PROPERTY AnsweredUntilAHit
\* every client may have been served, or be waiting for the mutex of a hit
CHECK_DEADLOCK FALSE
