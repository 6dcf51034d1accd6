------------------------------- MODULE Cache -------------------------------
(***************************************************************************)
(* Lab/lab5/proxylab-handout/cache.c: a doubly linked list of cached       *)
(* objects behind one mutex, used by the threads of the proxy.             *)
(*                                                                         *)
(* A thread runs cache_find, and after a miss, when the object it fetched  *)
(* is not too large, cache_insert.  A step is what a thread does between   *)
(* two points where the order of the threads' steps can matter; the moves  *)
(* of pointers inside one critical section are one step each.              *)
(*                                                                         *)
(* The thread that finds its key returns from cache_find with the mutex    *)
(* locked (cache.c:41), and reads the entry afterwards.                    *)
(***************************************************************************)
EXTENDS ProxyThreads, FiniteSetsExt

CONSTANTS
  Addr,            \* where Malloc can put an entry
  NoThread,        \* the owner of a free mutex
  Text,            \* how many bytes of each object precede its first NUL
  MAX_OBJECT_SIZE,
  MAX_CACHE_SIZE

ASSUME CacheAssumption ==
  /\ NULL \notin Addr
  /\ NoThread \notin Threads
  /\ Text \in [Keys -> Nat]
  /\ MAX_OBJECT_SIZE \in Nat
  /\ MAX_CACHE_SIZE \in Nat
  /\ MAX_OBJECT_SIZE <= MAX_CACHE_SIZE      \* cache.h:2-3

VARIABLES
  entry,         \* the entries; "live" between Malloc and Free
  head, tail, cache_size,
  cache_mutex,   \* the thread that holds it, or NoThread
  curr           \* each thread's pointer to an entry

listVars == <<entry, head, tail, cache_size>>
cacheVars == <<listVars, cache_mutex, curr>>

Sizes == 0..MAX_OBJECT_SIZE

Bodies == [of : Uris, bytes : Seq(Bytes), len : Sizes]
Entries == [live : BOOLEAN, key : Uris, value : Seq(Bytes), size : Sizes,
            prev : Addr \cup {NULL}, next : Addr \cup {NULL}]

CachePlaces == {"find_lock", "walk", "hit", "missed",
                "insert_lock", "evict", "link", "insert_unlock", "inserted"}

\* A thread that hit goes on to these places once it has read the entry.
AfterHit == {"hit", "hit_close", "hit_done"}

\* The places at which a thread holds the mutex.
Holding == {"walk", "evict", "link", "insert_unlock"} \cup AfterHit

\* pthread_mutex_lock waits for the owner to unlock, also when it is itself.
Lock(t) == cache_mutex = NoThread /\ cache_mutex' = t
Unlock == cache_mutex' = NoThread

IsNul(byte) == byte[2] = Text[byte[1]] + 1

\* strdup copies what precedes the first NUL.
StrDup(bytes) ==
  LET nuls == {i \in DOMAIN bytes : IsNul(bytes[i])}
  IN  IF nuls = {} THEN bytes ELSE SubSeq(bytes, 1, Min(nuls) - 1)

\* What an address holds before Malloc and after Free.
NoEntry ==
  [live |-> FALSE, key |-> NULL, value |-> <<>>, size |-> 0,
   prev |-> NULL, next |-> NULL]

CacheInit ==
  /\ entry = [a \in Addr |-> NoEntry]
  /\ head = NULL
  /\ tail = NULL
  /\ cache_size = 0
  /\ cache_mutex = NoThread
  /\ curr = [t \in Threads |-> NULL]

----------------------------------------------------------------------------
(* cache_find *)

FindLock(t) ==
  /\ pc[t] = "find_lock"
  /\ Lock(t)
  /\ curr' = [curr EXCEPT ![t] = head]
  /\ GoTo(t, "walk")
  /\ UNCHANGED <<listVars, alive, arg>>

\* (a bug to catch) strcmp's result is taken for "equal"
MatchesOther(t) == curr[t] # NULL /\ entry[curr[t]].key # arg[t].of

Matches(t) == curr[t] # NULL /\ entry[curr[t]].key = arg[t].of

\* (a bug to catch) the entry before the old tail does not become the tail
MoveToFrontKeepsTail(c) ==
  LET before == entry[c].prev
      after == entry[c].next
  IN /\ entry' = [a \in Addr |-> [entry[a] EXCEPT
                     !.next = IF a = c THEN head ELSE IF a = before THEN after ELSE @,
                     !.prev = IF a = c THEN NULL ELSE IF a = head THEN c
                              ELSE IF a = after THEN before ELSE @]]
     /\ head' = c
     /\ tail' = tail

\* Unlinks entry c, which is not the head, and links it in front of the head.
MoveToFront(c) ==
  LET before == entry[c].prev
      after == entry[c].next
  IN /\ entry' = [a \in Addr |-> [entry[a] EXCEPT
                     !.next = IF a = c THEN head ELSE IF a = before THEN after ELSE @,
                     !.prev = IF a = c THEN NULL ELSE IF a = head THEN c
                              ELSE IF a = after THEN before ELSE @]]
     /\ head' = c
     /\ tail' = IF c = tail THEN before ELSE tail

\* (a bug to catch) the mutex is unlocked before the entry is read
FindHitUnlocks(t) ==
  /\ pc[t] = "walk"
  /\ Matches(t)
  /\ IF curr[t] # head THEN MoveToFront(curr[t])
                       ELSE UNCHANGED <<entry, head, tail>>
  /\ Unlock
  /\ GoTo(t, "hit")
  /\ UNCHANGED <<cache_size, alive, arg, curr>>

\* (a bug to catch) a hit leaves the entry where it is
FindHitNoMove(t) ==
  /\ pc[t] = "walk"
  /\ Matches(t)
  /\ GoTo(t, "hit")
  /\ UNCHANGED <<listVars, cache_mutex, alive, arg, curr>>

\* Returns with the mutex locked.
FindHit(t) ==
  /\ pc[t] = "walk"
  /\ Matches(t)
  /\ IF curr[t] # head THEN MoveToFront(curr[t])
                       ELSE UNCHANGED <<entry, head, tail>>
  /\ GoTo(t, "hit")
  /\ UNCHANGED <<cache_size, cache_mutex, alive, arg, curr>>

FindNext(t) ==
  /\ pc[t] = "walk"
  /\ curr[t] # NULL
  /\ ~Matches(t)
  /\ curr' = [curr EXCEPT ![t] = entry[curr[t]].next]
  /\ UNCHANGED <<listVars, cache_mutex, alive, pc, arg>>

\* (a bug to catch) the mutex is not unlocked after a miss either
FindMissKeepsLock(t) ==
  /\ pc[t] = "walk"
  /\ curr[t] = NULL
  /\ GoTo(t, "missed")
  /\ UNCHANGED <<listVars, cache_mutex, alive, arg, curr>>

FindMiss(t) ==
  /\ pc[t] = "walk"
  /\ curr[t] = NULL
  /\ Unlock
  /\ GoTo(t, "missed")
  /\ UNCHANGED <<listVars, alive, arg, curr>>

CacheFind(t) == FindLock(t) \/ FindHit(t) \/ FindNext(t) \/ FindMiss(t)

----------------------------------------------------------------------------
(* cache_insert and cache_evict *)

TooFull(size) == cache_size + size > MAX_CACHE_SIZE

InsertLock(t) ==
  /\ pc[t] = "insert_lock"
  /\ Lock(t)
  /\ GoTo(t, IF TooFull(arg[t].len) THEN "evict" ELSE "link")
  /\ UNCHANGED <<listVars, alive, arg, curr>>

\* One turn of cache_evict's loop: the tail is freed.
EvictTail(t) ==
  /\ pc[t] = "evict"
  /\ TooFull(arg[t].len)
  /\ tail # NULL
  /\ LET last == tail
         before == entry[last].prev
         freed == [entry EXCEPT ![last] = NoEntry]
     IN /\ cache_size' = cache_size - entry[last].size
        /\ tail' = before
        /\ IF before # NULL
           THEN /\ entry' = [freed EXCEPT ![before].next = NULL]
                /\ head' = head
           ELSE /\ entry' = freed
                /\ head' = NULL
  /\ UNCHANGED <<cache_mutex, alive, pc, arg, curr>>

EvictEnd(t) ==
  /\ pc[t] = "evict"
  /\ ~(TooFull(arg[t].len) /\ tail # NULL)
  /\ GoTo(t, "link")
  /\ UNCHANGED <<listVars, cache_mutex, alive, arg, curr>>

\* The new entry at address a becomes the head.
Link(t) ==
  /\ pc[t] = "link"
  /\ \E a \in Addr :
       /\ ~entry[a].live
       /\ LET added == [entry EXCEPT ![a] =
                          [live |-> TRUE, key |-> arg[t].of,
                           value |-> StrDup(arg[t].bytes), size |-> arg[t].len,
                           prev |-> NULL, next |-> head]]
          IN IF head # NULL
             THEN /\ entry' = [added EXCEPT ![head].prev = a]
                  /\ tail' = tail
             ELSE /\ entry' = added
                  /\ tail' = a
       /\ head' = a
  /\ cache_size' = cache_size + arg[t].len
  /\ GoTo(t, "insert_unlock")
  /\ UNCHANGED <<cache_mutex, alive, arg, curr>>

\* Malloc finds no memory and calls exit.
LinkNoMemory(t) ==
  /\ pc[t] = "link"
  /\ \A a \in Addr : entry[a].live
  /\ alive' = FALSE
  /\ UNCHANGED <<listVars, cache_mutex, pc, arg, curr>>

InsertUnlock(t) ==
  /\ pc[t] = "insert_unlock"
  /\ Unlock
  /\ GoTo(t, "inserted")
  /\ UNCHANGED <<listVars, alive, arg, curr>>

CacheInsert(t) ==
  InsertLock(t) \/ EvictTail(t) \/ EvictEnd(t) \/ Link(t) \/ LinkNoMemory(t)
    \/ InsertUnlock(t)

----------------------------------------------------------------------------
(* The list, read from the head. *)

Live == {a \in Addr : entry[a].live}

\* node[n] is what n next pointers after head lead to.
Nodes ==
  LET node[n \in 0..Cardinality(Addr)] ==
        IF n = 0 THEN head
        ELSE IF node[n-1] = NULL THEN NULL ELSE entry[node[n-1]].next
  IN node

ListLength == Cardinality({n \in DOMAIN Nodes : Nodes[n] # NULL})

List == [n \in 1..ListLength |-> Nodes[n-1]]

----------------------------------------------------------------------------

CacheTypeOK ==
  /\ entry \in [Addr -> Entries]
  /\ head \in Addr \cup {NULL}
  /\ tail \in Addr \cup {NULL}
  /\ cache_size \in 0..MAX_CACHE_SIZE
  /\ cache_mutex \in Threads \cup {NoThread}
  /\ alive \in BOOLEAN
  /\ arg \in [Threads -> Bodies]
  /\ curr \in [Threads -> Addr \cup {NULL}]

\* The mutex belongs to the one thread that is inside cache_find or
\* cache_insert or that has hit (cache.c:21-48, 53-75, 41), and to nobody when
\* there is none: no two threads ever work on the list together.
MutexIsOwned == \A t \in Threads : cache_mutex = t <=> pc[t] \in Holding

\* The next pointers from head pass through every live entry once and end in
\* NULL; prev runs the other way; tail is the last; cache_size is the sum of
\* the entries' sizes (cache.c:27-38, 64-73, 84-96).
ListIsWhole ==
  /\ \A m, n \in 1..ListLength : List[m] = List[n] => m = n
  /\ {List[n] : n \in 1..ListLength} = Live
  /\ \A n \in 1..ListLength :
       entry[List[n]].prev = IF n = 1 THEN NULL ELSE List[n-1]
  /\ tail = IF ListLength = 0 THEN NULL ELSE List[ListLength]
  /\ cache_size = MapThenSumSet(LAMBDA a : entry[a].size, Live)

\* A pointer into the list is used, inside cache_find and after it returned,
\* only while the entry it points to exists, and until it is read after a hit
\* that entry has the key asked for (cache.c:19-49, proxy.c:233-235).
PointersAreValid ==
  \A t \in Threads :
    /\ pc[t] \in {"walk", "hit"} /\ curr[t] # NULL => entry[curr[t]].live
    /\ pc[t] = "hit" => curr[t] # NULL /\ entry[curr[t]].key = arg[t].of

\* Nothing is looked up, moved, inserted or evicted once a look-up has hit:
\* the mutex of a hit is never unlocked (cache.c:41).
HitFreezesCache ==
  [][(\E t \in Threads : pc[t] \in AfterHit)
       => UNCHANGED <<listVars, cache_mutex>>]_<<cacheVars, pc>>

Object(a) == [key |-> entry[a].key, size |-> entry[a].size]

\* The cache is an LRU list whose insertions are atomic: a hit moves what it
\* found to the front, evictions drop the least recently used object and happen
\* only to make room for the object being inserted (cache.c:19-99).
Lru == INSTANCE LruCache WITH
  lru <- [n \in 1..ListLength |-> Object(List[n])],
  want <- IF \E t \in Threads : pc[t] \in {"evict", "link"}
          THEN LET t == CHOOSE t \in Threads : pc[t] \in {"evict", "link"}
               IN <<[key |-> arg[t].of, size |-> arg[t].len]>>
          ELSE <<>>,
  found <- IF \E t \in Threads : pc[t] \in AfterHit
           THEN <<Object(curr[CHOOSE t \in Threads : pc[t] \in AfterHit])>>
           ELSE <<>>

IsLruCache == Lru!Spec

=============================================================================
