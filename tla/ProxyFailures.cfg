SPECIFICATION Spec
CONSTANTS
  u1 = u1  u2 = u2  none = none
  Threads = {t1, t2}
  Keys = {u1, u2, none}
  Addr = {a1, a2}
  NULL = NULL
  NoThread = NoThread
  EmptyUri = none
  Garbage = Garbage
  Ignored <- IgnoredKeys
  MAX_OBJECT_SIZE = 3
  MAX_CACHE_SIZE = 4
  MAXLINE = 2
  MAXFD = 5
  Size <- ObjectSize
  Text <- U2Binary
  Inputs <- OddRequests
  Origins = {"serves", "cuts", "silent", "resets", "refuses"}
  ClientsLeave = TRUE
SYMMETRY Symmetry
INVARIANTS DescriptorsAccounted RepliesAreRight HeadersHaveCauses DescriptorsAreOwn
\* every client may have been served or wait for ever, and the process may have exited
CHECK_DEADLOCK FALSE
