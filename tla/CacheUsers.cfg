SPECIFICATION UsersSpec
CONSTANTS
  Threads = {t1, t2, t3}
  Keys = {k1, k2}
  Addr = {a1, a2, a3}
  NULL = NULL
  NoThread = NoThread
  Text <- OneByteOfText
  MAX_OBJECT_SIZE = 2
  MAX_CACHE_SIZE = 3
SYMMETRY Symmetry
INVARIANTS CacheIsWhole PointersAreValid
PROPERTIES HitFreezesCache IsLruCache
\* after a hit every thread may be waiting for the mutex for ever, and the
\* process may have exited
CHECK_DEADLOCK FALSE
