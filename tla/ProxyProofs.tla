------------------------------ MODULE ProxyProofs ------------------------------
(***************************************************************************)
(* Proofs about the proxy and its cache, for any set of clients and any    *)
(* requests, objects, limits and numbers of descriptors.                   *)
(*                                                                         *)
(* The first part is about cache.c, whatever program calls it: CacheInv,   *)
(* what each step of cache_find and cache_insert preserves of it, the      *)
(* theorems about the closed system CacheUsers, and its refinement of      *)
(* LruCache.                                                               *)
(*                                                                         *)
(* ProxyInv is the inductive invariant of the proxy: that of the cache     *)
(* with its sizes, and                                                     *)
(*   - NetInv, of main and the descriptors: each open one is the one       *)
(*     descriptor of the connection it is open on, wherever it is kept     *)
(*     (an int of main's, connfd or clientfd);                             *)
(*   - BytesInv, of each thread: where the bytes of its object are;        *)
(*   - EntryInv and HitInv: what the list stores, and what is written from *)
(*     it, is what an origin answered to a thread that has inserted it.    *)
(* HeaderInv, inductive relative to NetInv, follows the headers a thread   *)
(* has kept line by line.                                                  *)
(***************************************************************************)
EXTENDS Proxy, CacheUsers, FiniteSetTheorems, SequenceTheorems,
        WellFoundedInduction, TLAPS

(***************************************************************************)
(* The cache                                                               *)
(***************************************************************************)

\* The types that the pointers need.  cache_size is left out.
PointerTypes ==
  /\ entry \in [Addr -> Entries]
  /\ head \in Addr \cup {NULL}
  /\ tail \in Addr \cup {NULL}
  /\ cache_mutex \in Threads \cup {NoThread}
  /\ pc = [t \in Threads |-> pc[t]]
  /\ arg \in [Threads -> Bodies]
  /\ curr \in [Threads -> Addr \cup {NULL}]

\* next and prev of live entries lead to live entries and are each other's
\* inverse; only the head has no prev and only the tail has no next.  (That no
\* live entry is on a cycle apart from the list is not needed.)
Linked ==
  /\ head = NULL <=> tail = NULL
  /\ head # NULL => entry[head].live /\ entry[head].prev = NULL
  /\ tail # NULL => entry[tail].live /\ entry[tail].next = NULL
  /\ \A a \in Live :
       /\ entry[a].next # NULL =>
            entry[a].next \in Live /\ entry[entry[a].next].prev = a
       /\ entry[a].prev # NULL =>
            entry[a].prev \in Live /\ entry[entry[a].prev].next = a
       /\ entry[a].next = NULL => a = tail
       /\ entry[a].prev = NULL => a = head

\* A thread that walks the list has a list to walk.
WalkInv ==
  \A t \in Threads : pc[t] = "walk" /\ curr[t] # NULL => head # NULL

\* The inductive invariant of the cache.
CacheInv ==
  /\ WalkInv
  /\ PointerTypes
  /\ MutexIsOwned
  /\ Linked
  /\ PointersAreValid

USE CacheAssumption

\* A non-empty set of naturals has a least element.
LEMMA LeastNatural ==
  ASSUME NEW T \in SUBSET Nat, T # {}
  PROVE  \E x \in T : \A y \in T : x <= y
<1>1. PICK x \in T : \A y \in T : ~ (<<y, x>> \in OpToRel(<, Nat))
  <2> DEFINE R == OpToRel(<, Nat)
  <2>1. IsWellFoundedOn(R, Nat)
    BY NatLessThanWellFounded
  <2> HIDE DEF R
  <2>2. \E x \in T : \A y \in T : ~ (<<y, x>> \in R)
    BY ONLY <2>1, WFMin, T \in SUBSET Nat, T # {}
  <2> QED
    BY <2>2 DEF R
<1>2. ASSUME NEW y \in T PROVE x <= y
  <2>1. x \in Nat /\ y \in Nat
    OBVIOUS
  <2>2. ~ (y < x)
    BY <1>1, <2>1 DEF OpToRel
  <2> QED
    BY ONLY <2>1, <2>2
<1> QED
  BY <1>2

\* What strdup copies are bytes it was given.
LEMMA DupIsBytes ==
  ASSUME NEW bytes \in Seq(Bytes) PROVE StrDup(bytes) \in Seq(Bytes)
<1> DEFINE nuls == {i \in DOMAIN bytes : IsNul(bytes[i])}
<1>1. CASE nuls = {}
  BY <1>1 DEF StrDup
<1>2. CASE nuls # {}
  <2>1. nuls \in SUBSET Nat /\ nuls \subseteq 1..Len(bytes)
    OBVIOUS
  <2>2. PICK x \in nuls : \A y \in nuls : x <= y
    BY <1>2, <2>1, LeastNatural
  <2>3. Min(nuls) \in nuls
    BY <2>2 DEF Min
  <2>4. PICK m \in 1..Len(bytes) : m = Min(nuls)
    BY <2>1, <2>3
  <2>5. StrDup(bytes) = SubSeq(bytes, 1, m - 1)
    BY <1>2, <2>4 DEF StrDup
  <2>6. SubSeq(bytes, 1, m - 1) \in Seq(Bytes)
    OBVIOUS
  <2> QED
    BY <2>5, <2>6
<1> QED
  BY <1>1, <1>2

LEMMA StretchIsBytes ==
  ASSUME NEW key \in Uris, NEW from \in Nat, NEW len \in Nat
  PROVE  /\ Stretch(key, from, len) \in Seq(Bytes)
         /\ Len(Stretch(key, from, len)) = len
  BY DEF Stretch, Bytes

LEMMA EmptyIsBytes == <<>> \in Seq(Bytes)
  OBVIOUS

LEMMA JoinBytes ==
  ASSUME NEW x \in Seq(Bytes), NEW y \in Seq(Bytes)
  PROVE  /\ x \o y \in Seq(Bytes)
         /\ Len(x) \in Nat /\ Len(y) \in Nat
         /\ Len(x \o y) = Len(x) + Len(y)
         /\ \A i \in 1..Len(x) + Len(y) :
              (x \o y)[i] = IF i <= Len(x) THEN x[i] ELSE y[i - Len(x)]
<1> DEFINE S == Bytes
<1>1. x \in Seq(S) /\ y \in Seq(S)
  OBVIOUS
<1> HIDE DEF S
<1>2. x \o y \in Seq(S)
  BY <1>1, ConcatProperties
<1>3. /\ Len(x \o y) = Len(x) + Len(y)
      /\ \A i \in 1..Len(x) + Len(y) :
           (x \o y)[i] = IF i <= Len(x) THEN x[i] ELSE y[i - Len(x)]
  BY <1>1, ConcatProperties
<1> QED
  BY <1>2, <1>3 DEF S

LEMMA SameBytes ==
  ASSUME NEW x \in Seq(Bytes), NEW y \in Seq(Bytes),
         Len(x) = Len(y), \A i \in 1..Len(x) : x[i] = y[i]
  PROVE  x = y
<1> DEFINE S == Bytes
<1>1. x \in Seq(S) /\ y \in Seq(S)
  OBVIOUS
<1> HIDE DEF S
<1> QED
  BY <1>1, SeqEqual

\* What is defined on the first len numbers is a sequence.
LEMMA TableIsSeq ==
  ASSUME NEW R, NEW len \in Nat, NEW s \in [1..len -> R]
  PROVE  s \in Seq(R) /\ Len(s) = len
  OBVIOUS

\* Whoever stands at a place where the mutex is held is alone there.
LEMMA HolderIsAlone ==
  ASSUME MutexIsOwned, NEW t \in Threads, pc[t] \in Holding,
         NEW u \in Threads, u # t
  PROVE  pc[u] \notin Holding
  BY DEF MutexIsOwned

\* A thread that moves between places outside the critical sections, and
\* changes nothing but its own arguments, disturbs nothing.
LEMMA OutsideStep ==
  ASSUME CacheInv, NEW t \in Threads, NEW place, GoTo(t, place),
         UNCHANGED <<listVars, cache_mutex>>,
         pc[t] \in Holding <=> place \in Holding,
         place \notin {"walk", "hit"},
         arg' \in [Threads -> Bodies], curr' \in [Threads -> Addr \cup {NULL}],
         \A u \in Threads \ {t} : arg'[u] = arg[u] /\ curr'[u] = curr[u]
  PROVE  CacheInv'
<1> USE DEF CacheInv, listVars
<1>1. PointerTypes'
  BY DEF PointerTypes, GoTo
<1>2. MutexIsOwned'
  BY DEF PointerTypes, GoTo, MutexIsOwned
<1>3. Linked'
  BY DEF Linked, Live
<1>4. PointersAreValid' /\ WalkInv'
  BY DEF WalkInv, PointerTypes, GoTo, PointersAreValid
<1> QED
  BY <1>1, <1>2, <1>3, <1>4

----------------------------------------------------------------------------
(* cache_find *)

LEMMA FindLockInv ==
  ASSUME CacheInv, NEW t \in Threads, FindLock(t) PROVE CacheInv'
<1> USE DEF CacheInv, FindLock, GoTo, Lock, listVars
<1>1. PointerTypes'
  BY DEF PointerTypes, CachePlaces
<1>2. MutexIsOwned'
  BY DEF PointerTypes, MutexIsOwned, Holding, AfterHit
<1>3. Linked'
  BY DEF Linked, Live
<1>4. PointersAreValid' /\ WalkInv'
  BY DEF WalkInv, PointerTypes, PointersAreValid, Linked
<1> QED
  BY <1>1, <1>2, <1>3, <1>4

LEMMA FindNextInv ==
  ASSUME CacheInv, NEW t \in Threads, FindNext(t) PROVE CacheInv'
<1> USE DEF CacheInv, FindNext, listVars
<1>1. curr[t] \in Live
  BY DEF PointersAreValid, PointerTypes, Live
<1>2. entry[curr[t]].next \in Live \cup {NULL}
  BY <1>1 DEF Linked
<1>3. PointerTypes'
  BY <1>2 DEF PointerTypes, Live
<1>4. MutexIsOwned'
  BY DEF MutexIsOwned
<1>5. Linked'
  BY DEF Linked, Live
<1>6. PointersAreValid' /\ WalkInv'
  BY <1>2 DEF WalkInv, PointerTypes, PointersAreValid, Live
<1> QED
  BY <1>3, <1>4, <1>5, <1>6

LEMMA FindMissInv ==
  ASSUME CacheInv, NEW t \in Threads, FindMiss(t) PROVE CacheInv'
<1> USE DEF CacheInv, FindMiss, GoTo, Unlock, listVars
<1>1. PointerTypes'
  BY DEF PointerTypes, CachePlaces
<1>2. MutexIsOwned'
  BY DEF PointerTypes, MutexIsOwned, Holding, AfterHit
<1>3. Linked'
  BY DEF Linked, Live
<1>4. PointersAreValid' /\ WalkInv'
  BY DEF WalkInv, PointerTypes, PointersAreValid
<1> QED
  BY <1>1, <1>2, <1>3, <1>4

\* What the list stores at an address does not change.
KeepsData(a) ==
  /\ entry'[a].live = entry[a].live
  /\ entry'[a].key = entry[a].key
  /\ entry'[a].value = entry[a].value
  /\ entry'[a].size = entry[a].size

LEMMA MoveToFrontInv ==
  ASSUME PointerTypes, Linked, NEW c \in Live, c # head, head # NULL,
         MoveToFront(c)
  PROVE  /\ entry' \in [Addr -> Entries]
         /\ head' \in Addr /\ tail' \in Addr
         /\ \A a \in Addr : KeepsData(a)
         /\ Linked'
         /\ entry[c].prev \in Live /\ entry[entry[c].prev].next = c
         /\ head' = c /\ tail' = IF c = tail THEN entry[c].prev ELSE tail
         /\ \A a \in Addr : entry'[a].next =
              IF a = c THEN head
              ELSE IF a = entry[c].prev THEN entry[c].next ELSE entry[a].next
<1> DEFINE before == entry[c].prev
           after == entry[c].next
<1>1. /\ c \in Addr /\ head \in Live /\ tail \in Addr /\ before \in Live
      /\ entry[head].prev = NULL /\ entry[before].next = c
  BY DEF Linked, PointerTypes, Live
<1>2. /\ c # tail => after \in Live /\ entry[after].prev = c /\ after # head
      /\ c = tail => after = NULL
  BY <1>1 DEF Linked, Live
<1>3. /\ entry' \in [Addr -> Entries]
      /\ \A a \in Addr :
           /\ KeepsData(a)
           /\ entry'[a].next = IF a = c THEN head
                               ELSE IF a = before THEN after ELSE entry[a].next
           /\ entry'[a].prev = IF a = c THEN NULL ELSE IF a = head THEN c
                               ELSE IF a = after THEN before ELSE entry[a].prev
  <2> DEFINE nxt(a) == IF a = c THEN head
                       ELSE IF a = before THEN after ELSE entry[a].next
             prv(a) == IF a = c THEN NULL ELSE IF a = head THEN c
                       ELSE IF a = after THEN before ELSE entry[a].prev
  <2>1. /\ entry' = [a \in Addr |-> [entry[a] EXCEPT !.next = nxt(a), !.prev = prv(a)]]
    BY DEF MoveToFront
  <2>2. before \in Addr \cup {NULL} /\ after \in Addr \cup {NULL}
    BY <1>1 DEF PointerTypes, Entries
  <2>3. ASSUME NEW a \in Addr
        PROVE  nxt(a) \in Addr \cup {NULL} /\ prv(a) \in Addr \cup {NULL}
    BY <1>1, <2>2 DEF PointerTypes, Entries, Live
  <2> HIDE DEF nxt, prv
  <2>4. ASSUME NEW a \in Addr
        PROVE  /\ entry'[a] \in Entries
               /\ KeepsData(a)
               /\ entry'[a].next = nxt(a)
               /\ entry'[a].prev = prv(a)
    <3> HIDE DEF before, after
    <3>1. entry'[a] = [entry[a] EXCEPT !.next = nxt(a), !.prev = prv(a)]
      BY <2>1
    <3>2. entry[a] \in Entries
      BY DEF PointerTypes
    <3>3. nxt(a) \in Addr \cup {NULL} /\ prv(a) \in Addr \cup {NULL}
      BY <2>3
    <3> QED
      BY ONLY <3>1, <3>2, <3>3 DEF Entries, KeepsData
  <2> QED
    BY <2>1, <2>4 DEF nxt, prv
<1>4. head' = c /\ tail' = IF c = tail THEN before ELSE tail
  BY DEF MoveToFront
<1> HIDE DEF before, after
<1>5. Linked'
  <2>1. Live' = Live
    BY <1>3 DEF Live, KeepsData
  <2>2. ASSUME NEW a \in Live
        PROVE  /\ entry'[a].next # NULL =>
                    entry'[a].next \in Live /\ entry'[entry'[a].next].prev = a
               /\ entry'[a].next = NULL => a = tail'
    BY <1>1, <1>2, <1>3, <1>4 DEF Linked, Live, KeepsData, before, after
  <2>3. ASSUME NEW a \in Live
        PROVE  /\ entry'[a].prev # NULL =>
                    entry'[a].prev \in Live /\ entry'[entry'[a].prev].next = a
               /\ entry'[a].prev = NULL => a = head'
    BY <1>1, <1>2, <1>3, <1>4 DEF Linked, Live, KeepsData, before, after
  <2>4. /\ head' # NULL /\ tail' # NULL
        /\ entry'[head'].live /\ entry'[head'].prev = NULL
        /\ entry'[tail'].live /\ entry'[tail'].next = NULL
    BY <1>1, <1>2, <1>3, <1>4 DEF Linked, Live, KeepsData, before, after
  <2> QED
    BY <2>1, <2>2, <2>3, <2>4 DEF Linked
<1> QED
  BY <1>1, <1>3, <1>4, <1>5 DEF Live, KeepsData, before, after

LEMMA FindHitInv ==
  ASSUME CacheInv, NEW t \in Threads, FindHit(t) PROVE CacheInv'
<1> USE DEF CacheInv, FindHit, GoTo
<1>1. curr[t] \in Live /\ head # NULL
  BY DEF PointersAreValid, PointerTypes, Live, Matches, WalkInv
<1>2. /\ entry' \in [Addr -> Entries]
      /\ head' \in Addr \cup {NULL} /\ tail' \in Addr \cup {NULL}
      /\ Linked'
      /\ \A a \in Addr : /\ entry'[a].live = entry[a].live
                         /\ entry'[a].key = entry[a].key
  <2>1. CASE curr[t] = head
    BY <2>1 DEF PointerTypes, Linked, Live
  <2>2. CASE curr[t] # head
    BY <1>1, <2>2, MoveToFrontInv DEF KeepsData
  <2> QED
    BY <2>1, <2>2
<1>3. PointerTypes'
  BY <1>2 DEF PointerTypes, CachePlaces
<1>4. MutexIsOwned'
  BY DEF PointerTypes, MutexIsOwned, Holding, AfterHit
<1>5. ASSUME NEW u \in Threads
      PROVE  /\ pc'[u] \in {"walk", "hit"} /\ curr'[u] # NULL => entry'[curr'[u]].live
             /\ pc'[u] = "hit" => curr'[u] # NULL /\ entry'[curr'[u]].key = arg'[u].of
             /\ pc'[u] = "walk" /\ curr'[u] # NULL => head' # NULL
  <2>1. curr[u] \in Addr \cup {NULL} /\ curr' = curr /\ arg' = arg
    BY DEF PointerTypes
  <2>2. CASE u = t
    BY <1>1, <1>2, <2>1, <2>2 DEF PointerTypes, Matches, Live
  <2>3. CASE u # t
    <3>1. pc'[u] = pc[u] /\ pc[u] # "walk"
      BY <2>3 DEF PointerTypes, MutexIsOwned, Holding
    <3> QED
      BY <1>2, <2>1, <3>1 DEF PointersAreValid
  <2> QED
    BY <2>2, <2>3
<1> QED
  BY <1>2, <1>3, <1>4, <1>5 DEF PointersAreValid, WalkInv

LEMMA CacheFindInv ==
  ASSUME CacheInv, NEW t \in Threads, CacheFind(t) PROVE CacheInv'
  BY FindLockInv, FindNextInv, FindMissInv, FindHitInv DEF CacheFind

----------------------------------------------------------------------------
(* cache_insert and cache_evict *)

\* The steps of cache_insert that leave the list alone.
LEMMA InsertQuietInv ==
  ASSUME CacheInv, NEW t \in Threads,
         InsertLock(t) \/ EvictEnd(t) \/ LinkNoMemory(t) \/ InsertUnlock(t)
  PROVE  CacheInv'
<1> USE DEF CacheInv, InsertLock, EvictEnd, LinkNoMemory, InsertUnlock, GoTo,
            Lock, Unlock, listVars
<1>1. PointerTypes'
  BY DEF PointerTypes
<1>2. MutexIsOwned'
  BY DEF PointerTypes, MutexIsOwned, Holding, AfterHit
<1>3. Linked'
  BY DEF Linked, Live
<1>4. PointersAreValid' /\ WalkInv'
  BY DEF WalkInv, PointerTypes, PointersAreValid
<1> QED
  BY <1>1, <1>2, <1>3, <1>4

\* While t inserts, nobody holds a pointer that t could invalidate.
LEMMA NoReaderWhileInserting ==
  ASSUME CacheInv, NEW t \in Threads, pc[t] \in {"evict", "link"},
         NEW u \in Threads
  PROVE  pc[u] \notin {"walk", "hit"}
  BY DEF CacheInv, MutexIsOwned, Holding, AfterHit

LEMMA EvictTailInv ==
  ASSUME CacheInv, NEW t \in Threads, EvictTail(t) PROVE CacheInv'
<1> DEFINE before == entry[tail].prev
<1>1. /\ pc[t] = "evict" /\ tail \in Live /\ entry[tail].next = NULL
      /\ head \in Live /\ entry[head].prev = NULL
      /\ UNCHANGED <<cache_mutex, pc, arg, curr>>
  BY DEF EvictTail, CacheInv, PointerTypes, Linked, Live
<1>2. NoEntry \in Entries /\ ~NoEntry.live
  BY DEF NoEntry, Entries, Sizes, Uris
<1>3. /\ entry' \in [Addr -> Entries]
      /\ head' \in Addr \cup {NULL} /\ tail' \in Addr \cup {NULL}
      /\ Linked'
  <2>1. CASE before = NULL
    <3>1. entry' = [entry EXCEPT ![tail] = NoEntry] /\ head' = NULL /\ tail' = NULL
      BY <2>1 DEF EvictTail
    <3>2. tail = head
      BY <1>1, <2>1 DEF CacheInv, Linked
    <3>3. entry' \in [Addr -> Entries]
      BY <1>1, <1>2, <3>1 DEF CacheInv, PointerTypes
    <3>4. Live' = Live \ {tail} /\ \A a \in Live' : entry'[a] = entry[a]
      BY <1>1, <1>2, <3>1 DEF CacheInv, PointerTypes, Live
    <3>5. ASSUME NEW a \in Live'
          PROVE  /\ entry[a].next # NULL =>
                      entry[a].next \in Live' /\ entry[entry[a].next].prev = a
                 /\ entry[a].prev # NULL =>
                      entry[a].prev \in Live' /\ entry[entry[a].prev].next = a
                 /\ entry[a].next # NULL /\ entry[a].prev # NULL
      BY <1>1, <2>1, <3>2, <3>4 DEF CacheInv, Linked, Live
    <3>6. Linked'
      BY <3>1, <3>4, <3>5 DEF Linked
    <3> QED
      BY <3>1, <3>3, <3>6
  <2>2. CASE before # NULL
    <3>1. /\ before \in Live /\ entry[before].next = tail /\ before # tail
          /\ head # tail
      BY <1>1, <2>2 DEF CacheInv, Linked
    <3>2. /\ entry' = [entry EXCEPT ![tail] = NoEntry,
                                    ![before] = [entry[before] EXCEPT !.next = NULL]]
          /\ head' = head /\ tail' = before
      BY <1>1, <2>2, <3>1 DEF EvictTail, CacheInv, PointerTypes, Live
    <3>3. entry[before] \in Entries
      BY <3>1 DEF CacheInv, PointerTypes, Live
    <3>4. /\ entry' \in [Addr -> Entries]
          /\ \A a \in Addr \ {tail} :
               /\ entry'[a].live = entry[a].live
               /\ entry'[a].prev = entry[a].prev
               /\ entry'[a].next = IF a = before THEN NULL ELSE entry[a].next
          /\ ~entry'[tail].live
      BY <1>1, <1>2, <3>1, <3>2, <3>3 DEF CacheInv, PointerTypes, Live, Entries
    <3>5. Live' = Live \ {tail}
      BY <1>1, <3>4 DEF Live
    <3> HIDE DEF before
    <3>6. Linked'
      BY <1>1, <3>1, <3>2, <3>4, <3>5 DEF CacheInv, Linked, Live, before
    <3> QED
      BY <3>1, <3>2, <3>4, <3>6 DEF CacheInv, PointerTypes, Live
  <2> QED
    BY <2>1, <2>2
<1>4. PointerTypes'
  BY <1>1, <1>3 DEF CacheInv, PointerTypes
<1>5. MutexIsOwned'
  BY <1>1 DEF CacheInv, MutexIsOwned
<1>6. PointersAreValid' /\ WalkInv'
  BY <1>1, NoReaderWhileInserting DEF PointersAreValid, WalkInv
<1> QED
  BY <1>3, <1>4, <1>5, <1>6 DEF CacheInv

LEMMA LinkInv ==
  ASSUME CacheInv, NEW t \in Threads, Link(t) PROVE CacheInv'
<1>1. /\ pc[t] = "link" /\ pc' = [pc EXCEPT ![t] = "insert_unlock"]
      /\ UNCHANGED <<cache_mutex, arg, curr>>
  BY DEF Link, GoTo
<1>2. PICK a \in Addr :
        /\ ~entry[a].live
        /\ head' = a
        /\ tail' = IF head # NULL THEN tail ELSE a
        /\ LET added == [entry EXCEPT ![a] =
                           [live |-> TRUE, key |-> arg[t].of,
                            value |-> StrDup(arg[t].bytes), size |-> arg[t].len,
                            prev |-> NULL, next |-> head]]
           IN entry' = IF head # NULL THEN [added EXCEPT ![head].prev = a] ELSE added
  BY DEF Link
<1> DEFINE new == [live |-> TRUE, key |-> arg[t].of, value |-> StrDup(arg[t].bytes),
                   size |-> arg[t].len, prev |-> NULL, next |-> head]
<1>3. new \in Entries
  <2>1. arg[t].bytes \in Seq(Bytes) /\ arg[t].of \in Uris /\ arg[t].len \in Sizes
    BY DEF CacheInv, PointerTypes, Bodies
  <2>2. StrDup(arg[t].bytes) \in Seq(Bytes)
    BY <2>1, DupIsBytes
  <2> QED
    BY <2>1, <2>2 DEF CacheInv, PointerTypes, Entries
<1>4. new.live /\ new.prev = NULL /\ new.next = head
  OBVIOUS
<1> HIDE DEF new
<1>5. head # NULL => head \in Live /\ head # a /\ entry[head].prev = NULL
  BY <1>2 DEF CacheInv, PointerTypes, Linked, Live
<1>6. /\ entry' \in [Addr -> Entries]
      /\ entry'[a] = new
      /\ \A b \in Addr \ {a} :
           /\ entry'[b].live = entry[b].live
           /\ entry'[b].next = entry[b].next
           /\ entry'[b].prev = IF b = head THEN a ELSE entry[b].prev
  <2>1. CASE head = NULL
    BY <1>2, <1>3, <2>1 DEF new, CacheInv, PointerTypes
  <2>2. CASE head # NULL
    <3>1. entry' = [entry EXCEPT ![a] = new, ![head] = [entry[head] EXCEPT !.prev = a]]
      BY <1>2, <1>5, <2>2 DEF new, CacheInv, PointerTypes, Live
    <3>2. entry[head] \in Entries
      BY <1>5, <2>2 DEF CacheInv, PointerTypes, Live
    <3> QED
      BY <1>3, <1>5, <2>2, <3>1, <3>2 DEF CacheInv, PointerTypes, Live, Entries
  <2> QED
    BY <2>1, <2>2
<1>7. Live' = Live \cup {a}
  BY <1>2, <1>4, <1>6 DEF Live
<1>8. Linked'
  <2>1. /\ a \notin Live /\ head' = a /\ a # NULL
        /\ tail' # NULL /\ entry'[tail'].live /\ entry'[tail'].next = NULL
    BY <1>2, <1>4, <1>5, <1>6 DEF CacheInv, PointerTypes, Linked, Live
  <2>2. ASSUME NEW b \in Live
        PROVE  /\ b # a /\ b \in Addr
               /\ entry[b].next \in Live \cup {NULL}
               /\ entry[b].prev \in Live \cup {NULL}
    BY <2>1 DEF CacheInv, Linked, Live
  <2>3. ASSUME NEW b \in Live'
        PROVE  /\ entry'[b].next # NULL =>
                    entry'[b].next \in Live' /\ entry'[entry'[b].next].prev = b
               /\ entry'[b].next = NULL => b = tail'
    <3>1. CASE b = a
      BY <1>2, <1>4, <1>5, <1>6, <1>7, <2>1, <2>2, <3>1 DEF Live
    <3>2. CASE b # a
      BY <1>2, <1>5, <1>6, <1>7, <2>1, <2>2, <3>2 DEF CacheInv, Linked
    <3> QED
      BY <3>1, <3>2
  <2>4. ASSUME NEW b \in Live'
        PROVE  /\ entry'[b].prev # NULL =>
                    entry'[b].prev \in Live' /\ entry'[entry'[b].prev].next = b
               /\ entry'[b].prev = NULL => b = head'
    <3>1. CASE b = a
      BY <1>4, <1>6, <2>1, <3>1
    <3>2. CASE b = head /\ b # a
      BY <1>4, <1>6, <1>7, <2>1, <2>2, <3>2
    <3>3. CASE b # head /\ b # a
      BY <1>6, <1>7, <2>2, <3>3 DEF CacheInv, Linked
    <3> QED
      BY <3>1, <3>2, <3>3
  <2> QED
    BY <1>4, <1>6, <2>1, <2>3, <2>4 DEF Linked
<1>9. PointerTypes'
  BY <1>1, <1>2, <1>6 DEF CacheInv, PointerTypes
<1>10. MutexIsOwned'
  BY <1>1 DEF CacheInv, PointerTypes, MutexIsOwned, Holding, AfterHit
<1>11. PointersAreValid' /\ WalkInv'
  <2>1. \A u \in Threads : pc'[u] \notin {"walk", "hit"}
    BY <1>1, NoReaderWhileInserting DEF CacheInv, PointerTypes
  <2> QED
    BY <2>1 DEF PointersAreValid, WalkInv
<1> QED
  BY <1>8, <1>9, <1>10, <1>11 DEF CacheInv

LEMMA CacheInsertInv ==
  ASSUME CacheInv, NEW t \in Threads, CacheInsert(t) PROVE CacheInv'
  BY InsertQuietInv, EvictTailInv, LinkInv DEF CacheInsert

----------------------------------------------------------------------------
(* The sum of the sizes *)

\* pos numbers the entries from the head, and sum adds up the sizes of those in
\* front of each: cache_size is then what sum reaches at the tail.  There is no
\* cycle, so the list holds every live entry.
Numbered(pos, sum) ==
  /\ head # NULL => pos[head] = 0 /\ sum[head] = 0
  /\ \A a \in Live :
       /\ head # NULL /\ pos[a] <= pos[tail]
       /\ entry[a].next # NULL =>
            /\ pos[entry[a].next] = pos[a] + 1
            /\ sum[entry[a].next] = sum[a] + entry[a].size
  /\ \A a, b \in Live : pos[a] = pos[b] => a = b
  /\ cache_size = IF tail = NULL THEN 0 ELSE sum[tail] + entry[tail].size

SizeInv ==
  /\ \E pos, sum \in [Addr -> Nat] : Numbered(pos, sum)
  /\ cache_size <= MAX_CACHE_SIZE
  /\ \A t \in Threads : pc[t] = "link" => ~TooFull(arg[t].len)

LEMMA SizeIsNatural ==
  ASSUME CacheInv, SizeInv
  PROVE  cache_size \in 0..MAX_CACHE_SIZE
<1>1. PICK pos \in [Addr -> Nat], sum \in [Addr -> Nat] : Numbered(pos, sum)
  BY DEF SizeInv
<1>2. tail # NULL => sum[tail] \in Nat /\ entry[tail].size \in Nat
  BY DEF CacheInv, PointerTypes, Entries, Sizes
<1> QED
  BY <1>1, <1>2 DEF Numbered, SizeInv

\* A step that leaves the list and its size alone, and puts no thread at "link".
LEMMA QuietSize ==
  ASSUME CacheInv, SizeInv, UNCHANGED listVars,
         \A u \in Threads : pc'[u] = "link" => pc[u] = "link" /\ arg'[u] = arg[u]
  PROVE  SizeInv'
<1>1. PICK pos \in [Addr -> Nat], sum \in [Addr -> Nat] : Numbered(pos, sum)
  BY DEF SizeInv
<1>2. Numbered(pos, sum)'
  BY <1>1 DEF Numbered, Live, listVars
<1> QED
  BY <1>2 DEF SizeInv, TooFull, listVars

LEMMA MoveToFrontSize ==
  ASSUME CacheInv, SizeInv, NEW c \in Live, c # head, MoveToFront(c),
         UNCHANGED cache_size
  PROVE  \E pos, sum \in [Addr -> Nat] : Numbered(pos, sum)'
<1>1. PICK pos \in [Addr -> Nat], sum \in [Addr -> Nat] : Numbered(pos, sum)
  BY DEF SizeInv
<1> DEFINE before == entry[c].prev
<1>2. /\ head \in Live /\ tail \in Live /\ before \in Live /\ Live \subseteq Addr
      /\ entry[before].next = c /\ c \in Addr /\ c # NULL
      /\ \A a \in Live : entry[a].next \in Live \cup {NULL} /\ entry[a].size \in Nat
      /\ \A a \in Live : entry[a].next = NULL => a = tail
      /\ entry[tail].next = NULL
      /\ \A a \in Live : entry[a].next = c => a = before
  BY <1>1 DEF CacheInv, PointerTypes, Entries, Sizes, Linked, Live, Numbered
<1>3. /\ head' = c /\ tail' = IF c = tail THEN before ELSE tail
      /\ \A a \in Addr : KeepsData(a)
      /\ \A a \in Addr : entry'[a].next =
              IF a = c THEN head
              ELSE IF a = before THEN entry[c].next ELSE entry[a].next
  BY <1>2, MoveToFrontInv DEF CacheInv
<1>4. Live' = Live
  BY <1>3 DEF Live, KeepsData
<1>5. PICK p \in [Addr -> Nat], s \in [Addr -> Nat] :
        /\ p[c] = 0 /\ s[c] = 0
        /\ \A a \in Addr \ {c} :
             /\ p[a] = IF pos[a] < pos[c] THEN pos[a] + 1 ELSE pos[a]
             /\ s[a] = IF pos[a] < pos[c] THEN sum[a] + entry[c].size ELSE sum[a]
  <2> DEFINE q == [a \in Addr |-> IF a = c THEN 0
                     ELSE IF pos[a] < pos[c] THEN pos[a] + 1 ELSE pos[a]]
             r == [a \in Addr |-> IF a = c THEN 0
                     ELSE IF pos[a] < pos[c] THEN sum[a] + entry[c].size ELSE sum[a]]
  <2>1. q \in [Addr -> Nat] /\ r \in [Addr -> Nat]
    BY <1>2
  <2>2. /\ q[c] = 0 /\ r[c] = 0
        /\ \A a \in Addr \ {c} :
             /\ q[a] = IF pos[a] < pos[c] THEN pos[a] + 1 ELSE pos[a]
             /\ r[a] = IF pos[a] < pos[c] THEN sum[a] + entry[c].size ELSE sum[a]
    BY <1>2
  <2> HIDE DEF q, r
  <2> QED
    BY <2>1, <2>2
<1> HIDE DEF before
<1>7. \A a \in Addr : pos[a] \in Nat /\ sum[a] \in Nat
  OBVIOUS
<1>8. pos[c] = pos[before] + 1 /\ sum[c] = sum[before] + entry[before].size
  BY <1>1, <1>2 DEF Numbered
<1>9. \A a, b \in Live : pos[a] = pos[b] => a = b
  BY <1>1 DEF Numbered
<1>10. before # c /\ tail' \in Live
  BY <1>2, <1>3, <1>7, <1>8
<1>11. \A a, b \in Live : p[a] = p[b] => a = b
  BY <1>2, <1>5, <1>7, <1>9
<1>12. ASSUME NEW a \in Live
       PROVE  p[a] <= p[tail']
  <2>1. pos[a] <= pos[tail]
    BY <1>1 DEF Numbered
  <2>2. CASE c # tail
    BY <1>2, <1>3, <1>5, <1>7, <1>9, <2>1, <2>2
  <2>3. CASE c = tail
    BY <1>2, <1>3, <1>5, <1>7, <1>8, <1>9, <1>10, <2>1, <2>3
  <2> QED
    BY <2>2, <2>3
<1>13. ASSUME NEW a \in Live, entry'[a].next # NULL
       PROVE  /\ p[entry'[a].next] = p[a] + 1
              /\ s[entry'[a].next] = s[a] + entry'[a].size
  <2>1. entry'[a].size = entry[a].size /\ a \in Addr
    BY <1>2, <1>3 DEF KeepsData
  <2>2. CASE a = c
    <3>1. entry'[a].next = head /\ pos[head] = 0 /\ sum[head] = 0
      BY <1>1, <1>2, <1>3, <2>1, <2>2 DEF Numbered
    <3> QED
      BY <1>2, <1>5, <1>7, <1>8, <2>1, <2>2, <3>1
  <2>3. CASE a = before
    <3>1. entry'[a].next = entry[c].next /\ entry[c].next \in Live
      BY <1>2, <1>3, <1>10, <2>1, <2>3, <1>13
    <3>2. pos[entry[c].next] = pos[c] + 1 /\ sum[entry[c].next] = sum[c] + entry[c].size
      BY <1>1, <1>2, <3>1, <1>13 DEF Numbered
    <3> QED
      BY <1>2, <1>5, <1>7, <1>8, <1>10, <2>1, <2>3, <3>1, <3>2
  <2>4. CASE a # c /\ a # before
    <3> DEFINE b == entry[a].next
    <3>1. entry'[a].next = b /\ b \in Live /\ b # c
      BY <1>2, <1>3, <2>1, <2>4, <1>13
    <3>2. pos[b] = pos[a] + 1 /\ sum[b] = sum[a] + entry[a].size
      BY <1>1, <3>1, <1>13 DEF Numbered
    <3> HIDE DEF b
    <3>3. pos[a] # pos[c] /\ pos[b] # pos[c]
      BY <1>2, <1>9, <2>4, <3>1
    <3>4. pos[a] \in Nat /\ pos[b] \in Nat /\ pos[c] \in Nat
          /\ sum[a] \in Nat /\ sum[b] \in Nat /\ entry[a].size \in Nat
          /\ entry[c].size \in Nat /\ b \in Addr \ {c} /\ a \in Addr \ {c}
      BY <1>2, <1>7, <2>1, <2>4, <3>1
    <3>5. pos[a] < pos[c] <=> pos[b] < pos[c]
      BY <3>2, <3>3, <3>4
    <3> QED
      BY <1>5, <2>1, <3>1, <3>2, <3>4, <3>5
  <2> QED
    BY <2>2, <2>3, <2>4
<1>14. cache_size' = s[tail'] + entry'[tail'].size
  <2>1. cache_size = sum[tail] + entry[tail].size /\ tail # NULL
    BY <1>1, <1>2 DEF Numbered, CacheInv, PointerTypes, Linked
  <2>2. entry'[tail'].size = entry[tail'].size
    BY <1>2, <1>3, <1>10 DEF KeepsData
  <2>3. CASE c # tail
    <3>1. pos[c] < pos[tail]
      BY <1>1, <1>2, <1>7, <1>9, <2>3 DEF Numbered
    <3> QED
      BY <1>2, <1>3, <1>5, <1>7, <2>1, <2>2, <2>3, <3>1
  <2>4. CASE c = tail
    BY <1>2, <1>3, <1>5, <1>7, <1>8, <1>10, <2>1, <2>2, <2>4
  <2> QED
    BY <2>3, <2>4
<1>15. Numbered(p, s)'
  BY <1>2, <1>3, <1>4, <1>5, <1>10, <1>11, <1>12, <1>13, <1>14
  DEF Numbered, CacheInv, PointerTypes, Linked
<1> QED
  BY <1>5, <1>15

LEMMA CacheFindSize ==
  ASSUME CacheInv, SizeInv, NEW t \in Threads, CacheFind(t) PROVE SizeInv'
<1>1. \A u \in Threads : pc'[u] = "link" => pc[u] = "link" /\ arg'[u] = arg[u]
  BY DEF CacheFind, FindLock, FindHit, FindNext, FindMiss, GoTo, CacheInv, PointerTypes
<1>2. CASE UNCHANGED listVars
  BY <1>1, <1>2, QuietSize
<1>3. CASE FindHit(t) /\ curr[t] # head
  <2>1. curr[t] \in Live /\ UNCHANGED cache_size /\ MoveToFront(curr[t])
    BY <1>3 DEF FindHit, Matches, CacheInv, PointersAreValid, PointerTypes, Live
  <2>2. \E pos, sum \in [Addr -> Nat] : Numbered(pos, sum)'
    BY <1>3, <2>1, MoveToFrontSize
  <2> QED
    BY <1>1, <2>1, <2>2 DEF SizeInv, TooFull
<1> QED
  BY <1>2, <1>3 DEF CacheFind, FindLock, FindHit, FindNext, FindMiss, listVars

\* What freeing the tail leaves of the list.
LEMMA EvictTailShape ==
  ASSUME CacheInv, NEW t \in Threads, EvictTail(t)
  PROVE  /\ tail \in Live /\ head \in Live
         /\ cache_size' = cache_size - entry[tail].size
         /\ tail' = entry[tail].prev
         /\ tail' = NULL => head' = NULL /\ tail = head
         /\ tail' # NULL => /\ head' = head /\ head # tail
                            /\ tail' \in Live /\ entry[tail'].next = tail
         /\ Live' = Live \ {tail}
         /\ \A a \in Live' : /\ KeepsData(a)
                             /\ entry'[a].next = IF a = tail' THEN NULL ELSE entry[a].next
<1> DEFINE before == entry[tail].prev
<1>1. /\ tail \in Live /\ head \in Live /\ tail \in Addr /\ head \in Addr
      /\ entry[head].prev = NULL
      /\ entry[tail].next = NULL /\ before \in Live \cup {NULL}
      /\ before # NULL => entry[before].next = tail
      /\ before = NULL => tail = head
      /\ entry \in [Addr -> Entries]
  BY DEF EvictTail, CacheInv, PointerTypes, Linked, Live
<1>2. ~NoEntry.live
  BY DEF NoEntry
<1>3. /\ cache_size' = cache_size - entry[tail].size /\ tail' = before
      /\ IF before # NULL
         THEN /\ entry' = [[entry EXCEPT ![tail] = NoEntry] EXCEPT ![before].next = NULL]
              /\ head' = head
         ELSE entry' = [entry EXCEPT ![tail] = NoEntry] /\ head' = NULL
  BY DEF EvictTail
<1> HIDE DEF before
<1>4. before # tail
  BY <1>1 DEF Live
<1>5. /\ ~entry'[tail].live
      /\ \A a \in Addr \ {tail} :
           /\ KeepsData(a)
           /\ entry'[a].next = IF a = before THEN NULL ELSE entry[a].next
  <2>1. CASE before = NULL
    BY <1>1, <1>2, <1>3, <2>1 DEF KeepsData
  <2>2. CASE before # NULL
    <3>1. before \in Addr /\ entry[before] \in Entries
      BY <1>1, <2>2 DEF Live
    <3>2. entry' = [entry EXCEPT ![tail] = NoEntry,
                                 ![before] = [entry[before] EXCEPT !.next = NULL]]
      BY <1>1, <1>3, <1>4, <2>2, <3>1
    <3> QED
      BY <1>1, <1>2, <1>4, <2>2, <3>1, <3>2 DEF KeepsData, Entries
  <2> QED
    BY <2>1, <2>2
<1>6. Live' = Live \ {tail}
  BY <1>1, <1>5 DEF Live, KeepsData
<1>7. before # NULL => head # tail
  BY <1>1 DEF before
<1> QED
  BY <1>1, <1>3, <1>5, <1>6, <1>7 DEF Live, before

LEMMA EvictTailSize ==
  ASSUME CacheInv, SizeInv, NEW t \in Threads, EvictTail(t) PROVE SizeInv'
<1>1. PICK pos \in [Addr -> Nat], sum \in [Addr -> Nat] : Numbered(pos, sum)
  BY DEF SizeInv
<1>2. /\ tail \in Live /\ head \in Live /\ NULL \notin Live
      /\ cache_size' = cache_size - entry[tail].size
      /\ tail' = NULL => head' = NULL /\ tail = head
      /\ tail' # NULL => /\ head' = head /\ head # tail
                         /\ tail' \in Live /\ entry[tail'].next = tail
      /\ Live' = Live \ {tail}
      /\ \A a \in Live' : /\ KeepsData(a)
                          /\ entry'[a].next = IF a = tail' THEN NULL ELSE entry[a].next
  BY EvictTailShape DEF Live
<1>3. /\ \A a \in Live : pos[a] \in Nat /\ sum[a] \in Nat /\ entry[a].size \in Nat
      /\ cache_size = sum[tail] + entry[tail].size
      /\ pos[head] = 0 /\ sum[head] = 0
      /\ \A a \in Live : pos[a] <= pos[tail]
      /\ \A a, b \in Live : pos[a] = pos[b] => a = b
      /\ \A a \in Live : entry[a].next # NULL =>
            /\ pos[entry[a].next] = pos[a] + 1
            /\ sum[entry[a].next] = sum[a] + entry[a].size
  BY <1>1, <1>2 DEF Numbered, CacheInv, PointerTypes, Entries, Sizes, Live
<1>4. cache_size' = sum[tail]
  BY <1>2, <1>3
<1>5. Numbered(pos, sum)'
  <2>1. CASE tail' = NULL
    <3>1. Live' = {} /\ head' = NULL /\ cache_size' = 0
      BY <1>2, <1>3, <1>4, <2>1
    <3> QED
      BY <2>1, <3>1 DEF Numbered
  <2>2. CASE tail' # NULL
    <3>1. pos[tail] = pos[tail'] + 1 /\ sum[tail] = sum[tail'] + entry[tail'].size
      BY <1>2, <1>3, <2>2
    <3>2. \A a \in Live' : a \in Live /\ a # tail /\ entry'[a].size = entry[a].size
      BY <1>2 DEF KeepsData
    <3>3. \A a \in Live' : pos[a] <= pos[tail']
      BY <1>2, <1>3, <2>2, <3>1, <3>2
    <3>4. tail' \in Live'
      BY <1>2, <1>3, <2>2, <3>1
    <3>5. cache_size' = sum[tail'] + entry'[tail'].size
      BY <1>4, <3>1, <3>2, <3>4
    <3>6. \A a \in Live' : entry'[a].next # NULL =>
              /\ pos[entry'[a].next] = pos[a] + 1
              /\ sum[entry'[a].next] = sum[a] + entry'[a].size
      BY <1>2, <1>3, <3>2
    <3>7. head' # NULL /\ pos[head'] = 0 /\ sum[head'] = 0
      BY <1>2, <1>3, <2>2
    <3> QED
      BY <1>3, <2>2, <3>2, <3>3, <3>5, <3>6, <3>7 DEF Numbered
  <2> QED
    BY <2>1, <2>2
<1>6. cache_size' <= MAX_CACHE_SIZE
  BY <1>2, <1>3 DEF SizeInv
<1>7. \A u \in Threads : pc'[u] # "link"
  BY DEF EvictTail, CacheInv, MutexIsOwned, Holding
<1> QED
  BY <1>5, <1>6, <1>7 DEF SizeInv

\* What the new entry adds to the list.
LEMMA LinkShape ==
  ASSUME CacheInv, NEW t \in Threads, Link(t)
  PROVE  \E a \in Addr :
           /\ a \notin Live /\ Live' = Live \cup {a} /\ head' = a
           /\ tail' = IF head # NULL THEN tail ELSE a
           /\ entry'[a].key = arg[t].of /\ entry'[a].value = StrDup(arg[t].bytes)
           /\ entry'[a].size = arg[t].len /\ entry'[a].next = head
           /\ \A b \in Live : KeepsData(b) /\ entry'[b].next = entry[b].next
<1>1. PICK a \in Addr :
        /\ ~entry[a].live
        /\ head' = a
        /\ tail' = IF head # NULL THEN tail ELSE a
        /\ LET added == [entry EXCEPT ![a] =
                           [live |-> TRUE, key |-> arg[t].of,
                            value |-> StrDup(arg[t].bytes), size |-> arg[t].len,
                            prev |-> NULL, next |-> head]]
           IN entry' = IF head # NULL THEN [added EXCEPT ![head].prev = a] ELSE added
  BY DEF Link
<1> DEFINE new == [live |-> TRUE, key |-> arg[t].of, value |-> StrDup(arg[t].bytes),
                   size |-> arg[t].len, prev |-> NULL, next |-> head]
<1>2. /\ new.live /\ new.key = arg[t].of /\ new.value = StrDup(arg[t].bytes)
      /\ new.size = arg[t].len /\ new.next = head
  OBVIOUS
<1> HIDE DEF new
<1>3. head # NULL => head \in Addr /\ head # a /\ entry[head] \in Entries
  BY <1>1 DEF CacheInv, PointerTypes, Linked
<1>4. entry' = IF head = NULL THEN [entry EXCEPT ![a] = new]
               ELSE [entry EXCEPT ![a] = new, ![head] = [entry[head] EXCEPT !.prev = a]]
  BY <1>1, <1>3 DEF new, CacheInv, PointerTypes
<1>5. /\ entry'[a] = new
      /\ \A b \in Addr \ {a} : KeepsData(b) /\ entry'[b].next = entry[b].next
  BY <1>3, <1>4 DEF CacheInv, PointerTypes, KeepsData, Entries
<1>6. Live' = Live \cup {a}
  <2>1. entry'[a].live /\ ~entry[a].live
    BY <1>1, <1>2, <1>5
  <2>2. \A b \in Addr \ {a} : entry'[b].live = entry[b].live
    BY <1>5 DEF KeepsData
  <2> QED
    BY <2>1, <2>2 DEF Live
<1>7. a \notin Live /\ \A b \in Live : b \in Addr \ {a}
  BY <1>1 DEF Live
<1> QED
  BY <1>1, <1>2, <1>5, <1>6, <1>7

LEMMA LinkSize ==
  ASSUME CacheInv, SizeInv, NEW t \in Threads, Link(t) PROVE SizeInv'
<1>1. PICK pos \in [Addr -> Nat], sum \in [Addr -> Nat] : Numbered(pos, sum)
  BY DEF SizeInv
<1>2. PICK a \in Addr :
           /\ a \notin Live /\ Live' = Live \cup {a} /\ head' = a
           /\ tail' = IF head # NULL THEN tail ELSE a
           /\ entry'[a].key = arg[t].of /\ entry'[a].value = StrDup(arg[t].bytes)
           /\ entry'[a].size = arg[t].len /\ entry'[a].next = head
           /\ \A b \in Live : KeepsData(b) /\ entry'[b].next = entry[b].next
  BY LinkShape
<1>3. PICK len \in Nat : len = arg[t].len
  BY DEF CacheInv, PointerTypes, Bodies, Sizes
<1>4. PICK p \in [Addr -> Nat], s \in [Addr -> Nat] :
        \A b \in Addr : /\ p[b] = IF b = a THEN 0 ELSE pos[b] + 1
                        /\ s[b] = IF b = a THEN 0 ELSE sum[b] + len
  <2> DEFINE q == [b \in Addr |-> IF b = a THEN 0 ELSE pos[b] + 1]
             r == [b \in Addr |-> IF b = a THEN 0 ELSE sum[b] + len]
  <2>1. q \in [Addr -> Nat] /\ r \in [Addr -> Nat]
    OBVIOUS
  <2>2. \A b \in Addr : /\ q[b] = IF b = a THEN 0 ELSE pos[b] + 1
                        /\ r[b] = IF b = a THEN 0 ELSE sum[b] + len
    OBVIOUS
  <2> HIDE DEF q, r
  <2> QED
    BY <2>1, <2>2
<1>5. cache_size' = cache_size + len /\ a # NULL
  BY <1>3 DEF Link
<1>6. /\ \A b \in Live : b \in Addr /\ b # a /\ entry'[b].size = entry[b].size
                        /\ pos[b] \in Nat /\ sum[b] \in Nat /\ entry[b].size \in Nat
      /\ \A b \in Live : entry[b].next \in Live \cup {NULL}
      /\ head # NULL => head \in Live /\ tail \in Live /\ tail # NULL
      /\ head = NULL => tail = NULL
  BY <1>2 DEF CacheInv, PointerTypes, Linked, Live, KeepsData, Entries, Sizes
<1>7. /\ head # NULL => pos[head] = 0 /\ sum[head] = 0
      /\ \A b \in Live :
           /\ head # NULL /\ pos[b] <= pos[tail]
           /\ entry[b].next # NULL =>
                /\ pos[entry[b].next] = pos[b] + 1
                /\ sum[entry[b].next] = sum[b] + entry[b].size
      /\ \A b, c \in Live : pos[b] = pos[c] => b = c
      /\ cache_size = IF tail = NULL THEN 0 ELSE sum[tail] + entry[tail].size
  BY <1>1 DEF Numbered
<1>8. head' # NULL => p[head'] = 0 /\ s[head'] = 0
  BY <1>2, <1>4
<1>9. ASSUME NEW b \in Live'
      PROVE  /\ head' # NULL /\ p[b] <= p[tail']
             /\ entry'[b].next # NULL =>
                  /\ p[entry'[b].next] = p[b] + 1
                  /\ s[entry'[b].next] = s[b] + entry'[b].size
  <2>1. CASE b = a
    <3>1. CASE head = NULL
      BY <1>2, <1>4, <1>5, <2>1, <3>1
    <3>2. CASE head # NULL
      <4>1. head' # NULL /\ p[b] = 0 /\ p[tail'] = pos[tail] + 1
        BY <1>2, <1>4, <1>5, <1>6, <2>1, <3>2
      <4>2. p[head] = 1 /\ s[head] = len
        BY <1>4, <1>6, <1>7, <3>2
      <4>3. entry'[b].next = head /\ entry'[b].size = len
        BY <1>2, <1>3, <2>1
      <4>4. pos[tail] \in Nat /\ s[b] = 0
        BY <1>4, <1>6, <2>1, <3>2
      <4> QED
        BY ONLY <3>2, <4>1, <4>2, <4>3, <4>4, len \in Nat
    <3> QED
      BY <3>1, <3>2
  <2>2. CASE b # a
    <3>1. b \in Live /\ head # NULL /\ tail' = tail /\ entry'[b].next = entry[b].next
      BY <1>2, <1>7, <2>2
    <3>2. head' # NULL /\ p[b] <= p[tail']
      BY <1>2, <1>4, <1>5, <1>6, <1>7, <3>1
    <3>3. ASSUME entry[b].next # NULL
          PROVE  /\ p[entry[b].next] = p[b] + 1
                 /\ s[entry[b].next] = s[b] + entry[b].size
      BY <1>4, <1>6, <1>7, <3>1, <3>3
    <3> QED
      BY <1>6, <3>1, <3>2, <3>3
  <2> QED
    BY <2>1, <2>2
<1>10. \A b, c \in Live' : p[b] = p[c] => b = c
  BY <1>2, <1>4, <1>6, <1>7
<1>11. cache_size' = IF tail' = NULL THEN 0 ELSE s[tail'] + entry'[tail'].size
  <2>1. CASE head = NULL
    BY <1>2, <1>3, <1>4, <1>5, <1>6, <1>7, <2>1
  <2>2. CASE head # NULL
    BY <1>2, <1>3, <1>4, <1>5, <1>6, <1>7, <2>2
  <2> QED
    BY <2>1, <2>2
<1>12. Numbered(p, s)'
  BY <1>8, <1>9, <1>10, <1>11 DEF Numbered
<1>13. cache_size' <= MAX_CACHE_SIZE
  <2>1. cache_size \in Nat
    BY SizeIsNatural
  <2> QED
    BY <1>3, <1>5, <2>1 DEF SizeInv, Link, TooFull
<1>14. \A u \in Threads : pc'[u] # "link"
  BY DEF Link, GoTo, CacheInv, PointerTypes, MutexIsOwned, Holding
<1> QED
  BY <1>12, <1>13, <1>14 DEF SizeInv

LEMMA CacheInsertSize ==
  ASSUME CacheInv, SizeInv, NEW t \in Threads, CacheInsert(t) PROVE SizeInv'
<1>1. CASE EvictTail(t)
  BY <1>1, EvictTailSize
<1>2. CASE Link(t)
  BY <1>2, LinkSize
<1>3. CASE InsertUnlock(t) \/ LinkNoMemory(t)
  <2>1. /\ \A u \in Threads : pc'[u] = "link" => pc[u] = "link" /\ arg'[u] = arg[u]
        /\ UNCHANGED listVars
    BY <1>3 DEF InsertUnlock, LinkNoMemory, GoTo, CacheInv, PointerTypes
  <2> QED
    BY <2>1, QuietSize
<1>4. CASE InsertLock(t) \/ EvictEnd(t)
  <2>1. PICK pos \in [Addr -> Nat], sum \in [Addr -> Nat] : Numbered(pos, sum)
    BY DEF SizeInv
  <2>2. UNCHANGED listVars /\ arg' = arg
    BY <1>4 DEF InsertLock, EvictEnd
  <2>3. Numbered(pos, sum)'
    BY <2>1, <2>2 DEF Numbered, Live, listVars
  <2>4. pc'[t] = "link" => ~TooFull(arg[t].len)
    <3>1. /\ arg[t].len \in 0..MAX_OBJECT_SIZE
          /\ tail = NULL => cache_size = 0
          /\ cache_size \in Nat
      BY <2>1, SizeIsNatural DEF Numbered, CacheInv, PointerTypes, Bodies, Sizes
    <3> QED
      BY <1>4, <3>1 DEF InsertLock, EvictEnd, GoTo, CacheInv, PointerTypes, TooFull
  <2>5. \A u \in Threads \ {t} : pc'[u] = pc[u]
    BY <1>4 DEF InsertLock, EvictEnd, GoTo, CacheInv, PointerTypes
  <2> QED
    BY <2>2, <2>3, <2>4, <2>5 DEF SizeInv, TooFull, listVars
<1> QED
  BY <1>1, <1>2, <1>3, <1>4 DEF CacheInsert

----------------------------------------------------------------------------
(* The list as a sequence: that the pointers lead from the head through    *)
(* every live entry follows from the numbers of SizeInv.                   *)

\* A set of numbers that holds 0 and goes on as far as m holds them all.
LEMMA Upwards ==
  ASSUME NEW m \in Nat, NEW T, 0 \in T,
         \A k \in 0..m : k \in T /\ k < m => k + 1 \in T
  PROVE  0..m \subseteq T
<1> DEFINE Bad == {k \in 0..m : k \notin T}
<1> SUFFICES ASSUME Bad # {} PROVE FALSE
  OBVIOUS
<1>1. PICK x \in Bad : \A y \in Bad : x <= y
  <2>1. Bad \in SUBSET Nat
    OBVIOUS
  <2> HIDE DEF Bad
  <2> QED
    BY <2>1, LeastNatural
<1>2. x \in 0..m /\ x \notin T /\ x # 0
  BY <1>1
<1>3. x - 1 \in 0..m /\ x - 1 < m /\ ~(x <= x - 1) /\ (x - 1) + 1 = x
  BY <1>2
<1>4. x - 1 \in T
  BY <1>1, <1>3
<1> QED
  BY <1>2, <1>3, <1>4

LEMMA NodesAre ==
  ASSUME Cardinality(Addr) \in Nat
  PROVE  /\ DOMAIN Nodes = 0..Cardinality(Addr)
         /\ Nodes[0] = head
         /\ \A i \in 1..Cardinality(Addr) :
              Nodes[i] = IF Nodes[i-1] = NULL THEN NULL ELSE entry[Nodes[i-1]].next
<1> DEFINE Turn(g, i) == IF g[i-1] = NULL THEN NULL ELSE entry[g[i-1]].next
           Is(g, k) == g = [i \in 0..k |-> IF i = 0 THEN head
                              ELSE IF g[i-1] = NULL THEN NULL ELSE entry[g[i-1]].next]
           Some(k) == \E g : Is(g, k)
           T == {k \in Nat : ~Some(k)}
<1>1. \A k \in Nat : Some(k)
  <2> SUFFICES ASSUME T # {} PROVE FALSE
    OBVIOUS
  <2>1. PICK x \in Nat : ~Some(x) /\ \A y \in Nat : ~Some(y) => x <= y
    <3> HIDE DEF Some
    <3>1. \E x \in T : \A y \in T : x <= y
      BY LeastNatural
    <3> QED
      BY <3>1
  <2>2. x # 0
    <3>1. Is([i \in 0..0 |-> head], 0)
      OBVIOUS
    <3> QED
      BY <2>1, <3>1
  <2>3. PICK g : Is(g, x - 1)
    <3>1. x - 1 \in Nat /\ ~(x <= x - 1)
      BY <2>2
    <3>2. Some(x - 1)
      <4> HIDE DEF Some
      <4> QED
        BY <2>1, <3>1
    <3> QED
      BY <3>2
  <2> DEFINE h == [i \in 0..x |-> IF i = x THEN Turn(g, x) ELSE g[i]]
  <2>4. Is(h, x)
    <3>1. x \in Nat \ {0}
      BY <2>2
    <3>2. ASSUME NEW i \in 0..x
          PROVE  h[i] = IF i = 0 THEN head ELSE Turn(h, i)
      <4>1. CASE i = x
        <5>1. x - 1 \in 0..x /\ x - 1 # x /\ i # 0
          BY <3>1, <4>1
        <5> QED
          BY <4>1, <5>1
      <4>2. CASE i # x
        <5>1. i \in 0..(x-1)
          BY <3>1, <4>2
        <5>2. CASE i = 0
          BY <2>3, <4>2, <5>1, <5>2
        <5>3. CASE i # 0
          <6>1. i - 1 \in 0..x /\ i - 1 # x
            BY <3>1, <5>1, <5>3
          <6>2. h[i] = g[i] /\ h[i-1] = g[i-1]
            BY <4>2, <6>1
          <6>3. g[i] = Turn(g, i)
            BY <2>3, <5>1, <5>3
          <6> QED
            BY <5>3, <6>2, <6>3
        <5> QED
          BY <5>2, <5>3
      <4> QED
        BY <4>1, <4>2
    <3>3. h = [i \in 0..x |-> h[i]]
      OBVIOUS
    <3> HIDE DEF h
    <3> QED
      BY <3>2, <3>3
  <2> QED
    BY <2>1, <2>4
<1>2. PICK c \in Nat : c = Cardinality(Addr)
  OBVIOUS
<1>3. Is(Nodes, c)
  <2>1. Some(c)
    <3> HIDE DEF Some
    <3> QED
      BY <1>1
  <2>2. Nodes = CHOOSE g : Is(g, c)
    BY <1>2 DEF Nodes
  <2> HIDE DEF Is
  <2> QED
    BY <2>1, <2>2
<1>4. PICK K : K = Nodes
  OBVIOUS
<1>5. K = [i \in 0..c |-> IF i = 0 THEN head ELSE Turn(K, i)]
  BY <1>3, <1>4
<1>6. ASSUME NEW i \in 0..c PROVE K[i] = IF i = 0 THEN head ELSE Turn(K, i)
  BY ONLY <1>5
<1>7. DOMAIN K = 0..c
  BY ONLY <1>5
<1>8. 0 \in 0..c /\ 1..c \subseteq 0..c /\ 0 \notin 1..c
  OBVIOUS
<1> QED
  BY <1>2, <1>4, <1>6, <1>7, <1>8

\* The next pointers reach the entry numbered k after k of them, and NULL
\* after the last.
LEMMA NodesAreNumbered ==
  ASSUME CacheInv, IsFiniteSet(Addr), head # NULL,
         NEW pos \in [Addr -> Nat], NEW sum \in [Addr -> Nat], Numbered(pos, sum)
  PROVE  /\ pos[tail] < Cardinality(Addr)
         /\ \A k \in 0..pos[tail] : Nodes[k] \in Live /\ pos[Nodes[k]] = k
         /\ \A k \in pos[tail]+1..Cardinality(Addr) : Nodes[k] = NULL
         /\ \A a \in Live : pos[a] \in 0..pos[tail] /\ a = Nodes[pos[a]]
<1>1. PICK c \in Nat : c = Cardinality(Addr)
  BY FS_CardinalityType
<1>2. PICK N : N = Nodes
  OBVIOUS
<1>3. /\ N[0] = head
      /\ \A i \in 1..c : N[i] = IF N[i-1] = NULL THEN NULL ELSE entry[N[i-1]].next
  BY <1>1, <1>2, NodesAre
<1>4. /\ Live \subseteq Addr /\ NULL \notin Live /\ head \in Live /\ tail \in Live
      /\ pos[head] = 0
      /\ \A a \in Live : pos[a] <= pos[tail] /\ (entry[a].next = NULL => a = tail)
      /\ \A a \in Live : entry[a].next # NULL =>
                           entry[a].next \in Live /\ pos[entry[a].next] = pos[a] + 1
      /\ \A a, b \in Live : pos[a] = pos[b] => a = b
      /\ entry[tail].next = NULL
  BY DEF CacheInv, PointerTypes, Linked, Live, Numbered
<1>5. PICK last \in Nat : last = pos[tail]
  BY <1>4
<1>6. PICK m \in Nat : m = IF last <= c THEN last ELSE c
  OBVIOUS
<1>7. \A k \in 0..m : N[k] \in Live /\ pos[N[k]] = k
  <2> DEFINE T == {k \in Nat : N[k] \in Live /\ pos[N[k]] = k}
  <2>1. 0 \in T
    BY <1>3, <1>4
  <2>2. ASSUME NEW k \in 0..m, k \in T, k < m PROVE k + 1 \in T
    <3>1. k + 1 \in 1..c /\ (k + 1) - 1 = k /\ k < last
      BY <1>6, <2>2
    <3>2. N[k] \in Live /\ pos[N[k]] = k /\ N[k] # NULL
      BY <1>4, <2>2
    <3>3. N[k] # tail
      BY <1>5, <3>1, <3>2
    <3>4. N[k+1] = entry[N[k]].next
      BY <1>3, <3>1, <3>2
    <3> QED
      BY <1>4, <3>1, <3>2, <3>3, <3>4
  <2> HIDE DEF T
  <2>3. 0..m \subseteq T
    BY <2>1, <2>2, Upwards
  <2> QED
    BY <2>3 DEF T
<1>8. m < c
  <2> DEFINE f == [k \in 0..m |-> N[k]]
  <2>1. f \in Injection(0..m, Addr)
    <3>1. f \in [0..m -> Addr]
      BY <1>4, <1>7
    <3>2. \A i, j \in 0..m : f[i] = f[j] => i = j
      BY <1>7
    <3> QED
      BY <3>1, <3>2 DEF Injection, IsInjective
  <2>2. Cardinality(0..m) <= c
    BY <1>1, <2>1, FS_Injection
  <2>3. Cardinality(0..m) = m + 1
    BY FS_Interval
  <2> QED
    BY <2>2, <2>3
<1>9. m = last /\ last < c
  BY <1>6, <1>8
<1>10. \A a \in Live : pos[a] \in 0..last /\ a = N[pos[a]]
  <2> TAKE a \in Live
  <2>1. pos[a] \in 0..last
    BY <1>4, <1>5
  <2>2. N[pos[a]] \in Live /\ pos[N[pos[a]]] = pos[a]
    BY <1>7, <1>9, <2>1
  <2> QED
    BY <1>4, <2>1, <2>2
<1>11. \A k \in last+1..c : N[k] = NULL
  <2> DEFINE T == {j \in Nat : N[last + 1 + j] = NULL}
  <2>1. 0 \in T
    <3>1. last + 1 \in 1..c /\ (last + 1) - 1 = last /\ last + 1 + 0 = last + 1
      BY <1>9
    <3>2. N[last] = tail
      BY <1>4, <1>5, <1>10
    <3> QED
      BY <1>3, <1>4, <3>1, <3>2
  <2>2. ASSUME NEW k \in 0..(c - last - 1), k \in T, k < c - last - 1 PROVE k + 1 \in T
    <3>1. last + 1 + k + 1 \in 1..c /\ (last + 1 + k + 1) - 1 = last + 1 + k
          /\ last + 1 + (k + 1) = last + 1 + k + 1 /\ k + 1 \in Nat
      BY <1>9, <2>2
    <3> QED
      BY <1>3, <2>2, <3>1
  <2>3. c - last - 1 \in Nat
    BY <1>9
  <2> HIDE DEF T
  <2>4. 0..(c - last - 1) \subseteq T
    BY <2>1, <2>2, <2>3, Upwards
  <2>5. ASSUME NEW k \in last+1..c PROVE N[k] = NULL
    <3>1. k - last - 1 \in 0..(c - last - 1) /\ last + 1 + (k - last - 1) = k
      BY <1>9
    <3> QED
      BY <2>4, <3>1 DEF T
  <2> QED
    BY <2>5
<1> QED
  BY <1>1, <1>2, <1>5, <1>7, <1>9, <1>10, <1>11

\* g is the sum of f over the subsets of S, as the folds of the community
\* modules compute it: an element is chosen, and the sum of the others added.
Sums(g, f, S) ==
  g = [s \in SUBSET S |->
         IF s = {} THEN 0
         ELSE LET x == CHOOSE x \in s : TRUE IN f[x] + g[s \ {x}]]

LEMMA SumExists ==
  ASSUME NEW S, IsFiniteSet(S), NEW f
  PROVE  \E g : Sums(g, f, S)
<1> DEFINE Part(k) == {s \in SUBSET S : Cardinality(s) <= k}
           Rec(g, s) == IF s = {} THEN 0
                        ELSE f[CHOOSE x \in s : TRUE] + g[s \ {CHOOSE x \in s : TRUE}]
           Is(g, k) == g = [s \in Part(k) |-> Rec(g, s)]
           Some(k) == \E g : Is(g, k)
           T == {k \in Nat : ~Some(k)}
<1>1. \A s \in SUBSET S : /\ IsFiniteSet(s) /\ Cardinality(s) \in Nat
                          /\ s # {} => /\ s \ {CHOOSE x \in s : TRUE} \in SUBSET S
                                       /\ Cardinality(s \ {CHOOSE x \in s : TRUE})
                                            = Cardinality(s) - 1
                          /\ Cardinality(s) = 0 => s = {}
  <2> TAKE s \in SUBSET S
  <2>1. IsFiniteSet(s) /\ Cardinality(s) \in Nat
    BY FS_Subset, FS_CardinalityType
  <2>2. s # {} => (CHOOSE x \in s : TRUE) \in s
    OBVIOUS
  <2>3. s # {} => Cardinality(s \ {CHOOSE x \in s : TRUE}) = Cardinality(s) - 1
    BY <2>1, <2>2, FS_RemoveElement
  <2>4. Cardinality(s) = 0 => s = {}
    BY <2>1, FS_EmptySet
  <2> QED
    BY <2>1, <2>3, <2>4
<1>2. \A k \in Nat : Some(k)
  <2> SUFFICES ASSUME T # {} PROVE FALSE
    OBVIOUS
  <2>1. PICK k \in Nat : ~Some(k) /\ \A j \in Nat : ~Some(j) => k <= j
    <3> HIDE DEF Some
    <3>1. \E x \in T : \A y \in T : x <= y
      BY LeastNatural
    <3> QED
      BY <3>1
  <2>2. k # 0
    <3>1. ASSUME NEW s \in Part(0) PROVE s = {}
      <4>1. Cardinality(s) \in Nat /\ Cardinality(s) <= 0 /\ s \in SUBSET S
        BY <1>1
      <4>2. Cardinality(s) = 0
        BY <4>1
      <4> QED
        BY <1>1, <4>1, <4>2
    <3>2. [s \in Part(0) |-> 0] = [s \in Part(0) |-> Rec([r \in Part(0) |-> 0], s)]
      <4> HIDE DEF Part
      <4> QED
        BY <3>1
    <3>3. Some(0)
      BY <3>2
    <3> HIDE DEF Some
    <3> QED
      BY <2>1, <3>3
  <2>3. PICK g : Is(g, k - 1)
    <3>1. k - 1 \in Nat /\ ~(k <= k - 1)
      BY <2>2
    <3>2. Some(k - 1)
      <4> HIDE DEF Some
      <4> QED
        BY <2>1, <3>1
    <3> QED
      BY <3>2
  <2> DEFINE h == [s \in Part(k) |-> Rec(g, s)]
  <2>4. \A s \in Part(k - 1) : s \in Part(k) /\ h[s] = g[s]
    <3> TAKE s \in Part(k - 1)
    <3>1. Cardinality(s) \in Nat /\ Cardinality(s) <= k - 1 /\ s \in SUBSET S
      BY <1>1
    <3>2. s \in Part(k)
      BY <3>1, <2>2
    <3>3. g[s] = Rec(g, s)
      <4> HIDE DEF Rec, Part
      <4> QED
        BY <2>3
    <3>4. h[s] = Rec(g, s)
      <4> HIDE DEF Rec, Part
      <4> QED
        BY <3>2
    <3> QED
      BY <3>2, <3>3, <3>4
  <2>5. \A s \in Part(k) : Rec(h, s) = Rec(g, s)
    <3> TAKE s \in Part(k)
    <3>1. CASE s = {}
      BY <3>1
    <3>2. CASE s # {}
      <4> DEFINE r == s \ {CHOOSE x \in s : TRUE}
      <4>0. /\ r \in SUBSET S /\ Cardinality(r) = Cardinality(s) - 1
            /\ Cardinality(s) \in Nat /\ Cardinality(s) <= k
        BY <1>1, <3>2
      <4>1. r \in Part(k - 1)
        <5> HIDE DEF r
        <5> QED
          BY <4>0
      <4> HIDE DEF Part, h
      <4> QED
        BY <2>4, <3>2, <4>1
    <3> QED
      BY <3>1, <3>2
  <2>6. Is(h, k)
    <3> HIDE DEF Rec, Part
    <3> QED
      BY <2>5
  <2> QED
    BY <2>1, <2>6
<1>3. Cardinality(S) \in Nat /\ \A s \in SUBSET S : Cardinality(s) <= Cardinality(S)
  BY FS_CardinalityType, FS_Subset
<1>4. Part(Cardinality(S)) = SUBSET S
  BY <1>3
<1>5. PICK g : Is(g, Cardinality(S))
  BY <1>2, <1>3
<1> QED
  BY <1>4, <1>5 DEF Sums

\* The sum is the same whichever element is taken first.
LEMMA SumStep ==
  ASSUME NEW S, IsFiniteSet(S), NEW f, \A a \in S : f[a] \in Nat,
         NEW g, Sums(g, f, S)
  PROVE  /\ g[{}] = 0
         /\ \A s \in SUBSET S : g[s] \in Nat
         /\ \A s \in SUBSET S : \A y \in S \ s : g[s \cup {y}] = g[s] + f[y]
<1> DEFINE Good(s) == g[s] \in Nat /\ \A y \in s : g[s] = f[y] + g[s \ {y}]
           Bad == {k \in Nat : \E s \in SUBSET S : Cardinality(s) = k /\ ~Good(s)}
<1>1. g[{}] = 0
  BY DEF Sums
<1>2. \A s \in SUBSET S : \A y \in s : /\ IsFiniteSet(s) /\ Cardinality(s) \in Nat
                                       /\ s \ {y} \in SUBSET S
                                       /\ Cardinality(s \ {y}) = Cardinality(s) - 1
  BY FS_Subset, FS_CardinalityType, FS_RemoveElement
<1>3. \A s \in SUBSET S : Good(s)
  <2> SUFFICES ASSUME NEW s0 \in SUBSET S, ~Good(s0) PROVE FALSE
    OBVIOUS
  <2>1. Cardinality(s0) \in Bad
    BY FS_Subset, FS_CardinalityType
  <2>2. PICK k \in Bad : \A j \in Bad : k <= j
    <3> HIDE DEF Good
    <3>1. Bad \in SUBSET Nat /\ Bad # {}
      BY <2>1
    <3> HIDE DEF Bad
    <3> QED
      BY <3>1, LeastNatural
  <2>3. PICK s \in SUBSET S : Cardinality(s) = k /\ ~Good(s)
    BY <2>2
  <2>4. \A r \in SUBSET S : Cardinality(r) \in Nat /\ Cardinality(r) < k => Good(r)
    <3> HIDE DEF Good
    <3> QED
      BY <2>2
  <2>5. s # {}
    <3>1. Good({})
      BY ONLY <1>1
    <3> QED
      BY <2>3, <3>1
  <2> DEFINE z == CHOOSE x \in s : TRUE
  <2>6. z \in s
    BY <2>5
  <2>7. g[s] = f[z] + g[s \ {z}]
    BY <2>5 DEF Sums
  <2> HIDE DEF z
  <2>8. \A y \in s : Good(s \ {y})
    <3> TAKE y \in s
    <3>1. s \ {y} \in SUBSET S /\ Cardinality(s \ {y}) = k - 1
          /\ k \in Nat /\ Cardinality(s \ {y}) \in Nat
      BY <1>2, <2>3, FS_Subset, FS_CardinalityType
    <3> HIDE DEF Good
    <3> QED
      BY <2>4, <3>1
  <2>9. ASSUME NEW y \in s PROVE g[s] = f[y] + g[s \ {y}]
    <3>1. CASE y = z
      BY <2>7, <3>1
    <3>2. CASE y # z
      <4>1. z \in s \ {y} /\ y \in s \ {z} /\ (s \ {z}) \ {y} = (s \ {y}) \ {z}
        BY <2>6, <3>2
      <4>2. g[s \ {z}] = f[y] + g[(s \ {z}) \ {y}]
        BY <2>6, <2>8, <4>1
      <4>3. g[s \ {y}] = f[z] + g[(s \ {z}) \ {y}]
        BY ONLY <2>8, <4>1, y \in s
      <4>4. g[(s \ {z}) \ {y}] \in Nat
        <5>1. Good((s \ {z}) \ {y})
          <6> HIDE DEF Good
          <6>1. (s \ {z}) \in SUBSET S /\ Cardinality(s \ {z}) = k - 1 /\ k \in Nat
            BY <1>2, <2>3, <2>6
          <6>2. /\ Cardinality((s \ {z}) \ {y}) = Cardinality(s \ {z}) - 1
                /\ (s \ {z}) \ {y} \in SUBSET S
            BY <1>2, <4>1, <6>1
          <6>3. Cardinality((s \ {z}) \ {y}) \in Nat
            BY <6>2, FS_Subset, FS_CardinalityType
          <6>4. Cardinality((s \ {z}) \ {y}) < k
            BY ONLY <6>1, <6>2, <6>3
          <6> QED
            BY <2>4, <6>2, <6>3, <6>4
        <5> QED
          BY <5>1
      <4>5. f[y] \in Nat /\ f[z] \in Nat
        BY <2>6
      <4> QED
        BY ONLY <2>7, <4>2, <4>3, <4>4, <4>5
    <3> QED
      BY <3>1, <3>2
  <2>10. g[s] \in Nat
    <3>1. g[s \ {z}] \in Nat /\ f[z] \in Nat
      BY <2>6, <2>8
    <3> QED
      BY ONLY <2>7, <3>1
  <2> QED
    BY <2>3, <2>9, <2>10
<1>4. ASSUME NEW s \in SUBSET S, NEW y \in S \ s
      PROVE  g[s \cup {y}] = g[s] + f[y]
  <2>1. s \cup {y} \in SUBSET S /\ y \in s \cup {y} /\ (s \cup {y}) \ {y} = s
    OBVIOUS
  <2>2. g[s \cup {y}] = f[y] + g[s]
    BY <1>3, <2>1
  <2> QED
    BY <1>3, <2>2
<1> QED
  BY <1>1, <1>3, <1>4

\* The sum of the sizes that ListIsWhole names is a sum in the sense of Sums.
LEMMA SizesAreSummed ==
  ASSUME IsFiniteSet(Live), NEW f, f = [a \in Live |-> entry[a].size]
  PROVE  \E total : /\ Sums(total, f, Live)
                    /\ MapThenSumSet(LAMBDA a : entry[a].size, Live) = total[Live]
<1> DEFINE Is(g) == g = [s \in SUBSET Live |->
                           IF s = {} THEN 0
                           ELSE LET x == CHOOSE x \in s : TRUE
                                IN  entry[x].size + g[s \ {x}]]
<1>1. MapThenSumSet(LAMBDA a : entry[a].size, Live) = (CHOOSE g : Is(g))[Live]
  BY DEF MapThenSumSet, MapThenFoldSet
<1>2. ASSUME NEW g PROVE Is(g) <=> Sums(g, f, Live)
  <2>1. ASSUME NEW s \in SUBSET Live
        PROVE  s # {} => f[CHOOSE x \in s : TRUE] = entry[CHOOSE x \in s : TRUE].size
    OBVIOUS
  <2> QED
    BY <2>1 DEF Sums
<1>3. \E g : Is(g)
  <2>1. PICK g : Sums(g, f, Live)
    BY SumExists
  <2> HIDE DEF Is
  <2> QED
    BY <1>2, <2>1
<1> HIDE DEF Is
<1>4. Is(CHOOSE g : Is(g))
  BY <1>3
<1> QED
  BY <1>1, <1>2, <1>4

LEMMA WholeList ==
  ASSUME CacheInv, SizeInv, IsFiniteSet(Addr)
  PROVE  ListIsWhole
<1>1. PICK pos \in [Addr -> Nat], sum \in [Addr -> Nat] : Numbered(pos, sum)
  BY DEF SizeInv
<1>2. PICK c \in Nat : c = Cardinality(Addr)
  BY FS_CardinalityType
<1>3. PICK N : N = Nodes
  OBVIOUS
<1>4. /\ DOMAIN N = 0..c /\ N[0] = head
      /\ \A i \in 1..c : N[i] = IF N[i-1] = NULL THEN NULL ELSE entry[N[i-1]].next
  BY <1>2, <1>3, NodesAre
<1>5. /\ Live \subseteq Addr /\ NULL \notin Live
      /\ head = NULL <=> tail = NULL
      /\ \A a \in Live : head # NULL /\ entry[a].size \in Nat
      /\ cache_size = IF tail = NULL THEN 0 ELSE sum[tail] + entry[tail].size
  BY <1>1 DEF CacheInv, PointerTypes, Entries, Sizes, Linked, Live, Numbered
<1>6. IsFiniteSet(Live)
  BY <1>5, FS_Subset
<1>7. PICK f : f = [a \in Live |-> entry[a].size]
  OBVIOUS
<1>8. PICK total : /\ Sums(total, f, Live)
                   /\ MapThenSumSet(LAMBDA a : entry[a].size, Live) = total[Live]
  BY <1>6, <1>7, SizesAreSummed
<1>9. /\ total[{}] = 0 /\ \A s \in SUBSET Live : total[s] \in Nat
      /\ \A s \in SUBSET Live : \A y \in Live \ s : total[s \cup {y}] = total[s] + f[y]
  <2>1. \A a \in Live : f[a] \in Nat
    BY <1>5, <1>7
  <2>2. Sums(total, f, Live)
    BY <1>8
  <2> QED
    BY ONLY <1>6, <2>1, <2>2, SumStep
<1>10. CASE head = NULL
  <2>1. Live = {} /\ tail = NULL /\ cache_size = 0
    BY <1>5, <1>10
  <2>2. \A k \in 0..c : N[k] = NULL
    <3> DEFINE T == {k \in Nat : N[k] = NULL}
    <3>1. 0 \in T
      BY <1>4, <1>10
    <3>2. ASSUME NEW k \in 0..c, k \in T, k < c PROVE k + 1 \in T
      <4>1. k + 1 \in 1..c /\ (k + 1) - 1 = k
        BY <3>2
      <4> QED
        BY <1>4, <3>2, <4>1
    <3> HIDE DEF T
    <3>3. 0..c \subseteq T
      BY <3>1, <3>2, Upwards
    <3> QED
      BY <3>3 DEF T
  <2>3. {j \in DOMAIN N : N[j] # NULL} = {}
    BY <1>4, <2>2
  <2>4. ListLength = 0
    BY <1>3, <2>3, FS_EmptySet DEF ListLength
  <2>5. MapThenSumSet(LAMBDA a : entry[a].size, Live) = 0
    BY <1>8, <1>9, <2>1
  <2>6. 1..ListLength = {}
    BY <2>4
  <2> QED
    BY <2>1, <2>4, <2>5, <2>6 DEF ListIsWhole
<1>11. CASE head # NULL
  <2>1. PICK last \in Nat : last = pos[tail]
    BY <1>5, <1>11 DEF CacheInv, PointerTypes, Linked
  <2>2. /\ last < c
        /\ \A k \in 0..last : N[k] \in Live /\ pos[N[k]] = k
        /\ \A k \in last+1..c : N[k] = NULL
        /\ \A a \in Live : pos[a] \in 0..last /\ a = N[pos[a]]
    BY <1>1, <1>2, <1>3, <1>11, <2>1, NodesAreNumbered
  <2>3. ListLength = last + 1
    <3>1. {j \in DOMAIN N : N[j] # NULL} = 0..last
      <4>1. 0..last \subseteq 0..c /\ \A k \in 0..c : k \in 0..last \/ k \in last+1..c
        BY <2>2
      <4> QED
        BY <1>4, <1>5, <2>2, <4>1
    <3>2. Cardinality(0..last) = last + 1
      BY FS_Interval
    <3> QED
      BY <1>3, <3>1, <3>2 DEF ListLength
  <2>4. \A j \in 1..last+1 : List[j] = N[j-1] /\ j - 1 \in 0..last
    BY <1>3, <2>3 DEF List
  <2>5. \A m, j \in 1..last+1 : List[m] = List[j] => m = j
    BY <2>2, <2>4
  <2>6. {List[j] : j \in 1..last+1} = Live
    <3>1. \A j \in 1..last+1 : List[j] \in Live
      BY <2>2, <2>4
    <3>2. ASSUME NEW a \in Live PROVE \E j \in 1..last+1 : a = List[j]
      <4>1. pos[a] \in 0..last /\ a = N[pos[a]]
        BY <2>2
      <4>2. pos[a] + 1 \in 1..last+1 /\ (pos[a] + 1) - 1 = pos[a]
        BY <4>1
      <4>3. a = List[pos[a] + 1]
        BY <2>4, <4>1, <4>2
      <4> QED
        BY <4>2, <4>3
    <3> QED
      BY <3>1, <3>2
  <2>7. tail = List[last+1] /\ tail \in Live
    <3>1. tail \in Live
      BY <1>5, <1>11 DEF CacheInv, PointerTypes, Linked, Live
    <3>2. last + 1 \in 1..last+1 /\ (last + 1) - 1 = last
      OBVIOUS
    <3> QED
      BY <2>1, <2>2, <2>4, <3>1, <3>2
  <2>8. \A j \in 1..last+1 : entry[List[j]].prev = IF j = 1 THEN NULL ELSE List[j-1]
    <3> TAKE j \in 1..last+1
    <3>1. CASE j = 1
      <4>1. List[1] = head
        BY <1>4, <2>4, <3>1
      <4> QED
        BY <1>11, <3>1, <4>1 DEF CacheInv, Linked
    <3>2. CASE j # 1
      <4>1. /\ j - 1 \in 1..c /\ j - 1 \in 0..last /\ j - 2 \in 0..last
            /\ (j - 1) - 1 = j - 2 /\ j - 1 \in 1..last+1
        BY <2>2, <3>2
      <4>2. N[j-2] \in Live /\ N[j-1] \in Live /\ N[j-1] = entry[N[j-2]].next
        BY <1>4, <1>5, <2>2, <4>1
      <4>3. List[j] = N[j-1] /\ List[j-1] = N[j-2]
        BY <2>4, <4>1
      <4>4. entry[N[j-1]].prev = N[j-2]
        BY <1>5, <4>2 DEF CacheInv, Linked
      <4> QED
        BY <3>2, <4>3, <4>4
    <3> QED
      BY <3>1, <3>2
  <2>9. total[Live] = sum[tail] + entry[tail].size
    <3> DEFINE First(k) == {a \in Live : pos[a] <= k}
               T == {k \in Nat : total[First(k)] = sum[N[k]] + entry[N[k]].size}
    <3>1. 0 \in T
      <4>1. First(0) = {head} /\ head \in Live /\ N[0] = head
        <5>1. head \in Live /\ pos[head] = 0 /\ N[0] = head
          BY <1>1, <1>4, <1>11 DEF CacheInv, PointerTypes, Linked, Live, Numbered
        <5>2. \A a \in Live : pos[a] <= 0 => a = head
          BY <1>4, <2>2
        <5> QED
          BY <5>1, <5>2
      <4>2. total[{} \cup {head}] = total[{}] + f[head]
        BY <1>9, <4>1
      <4>3. total[{head}] = f[head] /\ f[head] = entry[head].size /\ entry[head].size \in Nat
        <5>1. {} \cup {head} = {head} /\ f[head] = entry[head].size /\ f[head] \in Nat
          BY <1>5, <1>7, <4>1
        <5> QED
          BY <1>9, <4>2, <5>1
      <4>4. sum[head] = 0
        BY <1>1, <1>11 DEF Numbered
      <4> HIDE DEF First
      <4>5. total[First(0)] = sum[N[0]] + entry[N[0]].size
        <5>1. total[First(0)] = entry[head].size
          BY ONLY <4>1, <4>3
        <5>2. 0 + entry[head].size = entry[head].size
          BY ONLY <4>3
        <5> QED
          BY ONLY <4>1, <4>4, <5>1, <5>2
      <4> QED
        BY <4>5
    <3>2. ASSUME NEW k \in 0..last, k \in T, k < last PROVE k + 1 \in T
      <4>1. k + 1 \in 1..c /\ k + 1 \in 0..last /\ (k + 1) - 1 = k
        BY <2>2, <3>2
      <4> DEFINE b == N[k+1]
      <4>2. /\ b \in Live /\ pos[b] = k + 1 /\ N[k] \in Live /\ b = entry[N[k]].next
        BY <1>4, <1>5, <2>2, <4>1
      <4>3. First(k + 1) = First(k) \cup {b} /\ b \notin First(k) /\ First(k) \in SUBSET Live
        <5>1. \A a \in Live : pos[a] \in Nat /\ (pos[a] = k + 1 => a = b)
          BY <2>2
        <5>2. b \notin First(k)
          BY <4>2
        <5>3. \A a \in Live : pos[a] <= k + 1 <=> pos[a] <= k \/ a = b
          BY <4>2, <5>1
        <5> QED
          BY <4>2, <5>2, <5>3
      <4>4. total[First(k + 1)] = total[First(k)] + f[b]
        <5> HIDE DEF First, b
        <5> QED
          BY <1>9, <4>2, <4>3
      <4>5. f[b] = entry[b].size
        BY <1>7, <4>2
      <4>6. sum[b] = sum[N[k]] + entry[N[k]].size
        BY <1>1, <1>5, <4>2 DEF Numbered
      <4> HIDE DEF First, b
      <4>7. total[First(k+1)] = sum[b] + entry[b].size
        BY <3>2, <4>4, <4>5, <4>6
      <4> QED
        BY <4>7, <4>1 DEF b
    <3> HIDE DEF T
    <3>3. 0..last \subseteq T
      BY <3>1, <3>2, Upwards
    <3>4. last \in T
      BY <3>3
    <3>5. First(last) = Live
      BY <2>2
    <3>6. N[last] = tail
      BY <2>1, <2>2, <2>7
    <3> QED
      BY <3>4, <3>5, <3>6 DEF T
  <2>10. cache_size = total[Live]
    <3>1. tail # NULL
      BY <1>5, <1>11
    <3> QED
      BY <1>5, <2>9, <3>1
  <2> QED
    BY <1>8, <2>3, <2>5, <2>6, <2>7, <2>8, <2>10 DEF ListIsWhole
<1> QED
  BY <1>10, <1>11

----------------------------------------------------------------------------
(* The cache under threads that look up and insert for ever. *)

LEMMA UsersInitInv == UsersInit => CacheInv
<1> SUFFICES ASSUME UsersInit PROVE CacheInv
  OBVIOUS
<1> USE DEF UsersInit, CacheInit, CacheInv
<1>1. NoEntry \in Entries /\ EmptyBody(NULL) \in Bodies
  BY DEF NoEntry, Entries, Uris, Sizes, EmptyBody, Body, Bodies
<1>2. PointerTypes
  BY <1>1 DEF PointerTypes
<1>3. MutexIsOwned
  BY DEF MutexIsOwned, Holding, AfterHit
<1>4. Live = {}
  BY DEF Live, NoEntry
<1>5. Linked
  BY <1>4 DEF Linked
<1>6. PointersAreValid /\ WalkInv
  BY DEF PointersAreValid, WalkInv
<1> QED
  BY <1>2, <1>3, <1>5, <1>6

LEMMA UserStep ==
  ASSUME CacheInv, NEW t \in Threads, User(t) PROVE CacheInv'
<1>1. CASE CacheFind(t)
  BY <1>1, CacheFindInv
<1>2. CASE CacheInsert(t)
  BY <1>2, CacheInsertInv
<1> USE DEF Holding, AfterHit, CachePlaces
<1>3. CASE Call(t)
  <2>1. /\ arg' \in [Threads -> Bodies]
        /\ \A u \in Threads \ {t} : arg'[u] = arg[u]
    BY <1>3 DEF Call, CacheInv, PointerTypes, EmptyBody, Body, Bodies, Uris, Sizes
  <2> QED
    BY <1>3, <2>1, OutsideStep DEF Call, CacheInv, PointerTypes
<1>4. CASE Fetched(t)
  <2>1. /\ arg' \in [Threads -> Bodies]
        /\ \A u \in Threads \ {t} : arg'[u] = arg[u]
    <3>1. PICK m \in Sizes :
            arg' = [arg EXCEPT ![t] = Body(arg[t].of, Stretch(arg[t].of, 0, m), m)]
      BY <1>4 DEF Fetched, CacheInv, PointerTypes
    <3>2. arg[t].of \in Uris /\ m \in Nat
      BY DEF CacheInv, PointerTypes, Bodies, Sizes
    <3>3. Body(arg[t].of, Stretch(arg[t].of, 0, m), m) \in Bodies
      BY <3>2, StretchIsBytes DEF Body, Bodies
    <3> QED
      BY <3>1, <3>3 DEF CacheInv, PointerTypes
  <2> QED
    BY <1>4, <2>1, OutsideStep DEF Fetched, CacheInv, PointerTypes
<1>5. CASE Return(t)
  <2>1. /\ arg' \in [Threads -> Bodies]
        /\ curr' \in [Threads -> Addr \cup {NULL}]
        /\ \A u \in Threads \ {t} : arg'[u] = arg[u] /\ curr'[u] = curr[u]
    BY <1>5 DEF Return, CacheInv, PointerTypes, EmptyBody, Body, Bodies, Uris, Sizes
  <2> QED
    BY <1>5, <2>1, OutsideStep DEF Return
<1>6. CASE ReadEntry(t)
  BY <1>6, OutsideStep DEF ReadEntry, CacheInv, PointerTypes
<1> QED
  BY <1>1, <1>2, <1>3, <1>4, <1>5, <1>6 DEF User

LEMMA UsersStepInv == CacheInv /\ [UsersNext]_usersVars => CacheInv'
<1>1. CacheInv /\ UsersNext => CacheInv'
  BY UserStep DEF UsersNext
<1>2. CacheInv /\ UNCHANGED usersVars => CacheInv'
  BY DEF usersVars, cacheVars, listVars, CacheInv, PointerTypes, MutexIsOwned, Linked,
         Live, PointersAreValid, WalkInv
<1> QED
  BY <1>1, <1>2

LEMMA UsersInvariance == UsersSpec => []CacheInv
  BY UsersInitInv, UsersStepInv, PTL DEF UsersSpec

\* What the users add to CacheInv: SizeInv, and the types of pc and alive.
WholeInv ==
  /\ CacheInv
  /\ SizeInv
  /\ alive \in BOOLEAN
  /\ pc \in [Threads -> CachePlaces \cup {"idle", "hit_done"}]

LEMMA UsersInitWhole == UsersInit => WholeInv
<1> SUFFICES ASSUME UsersInit PROVE WholeInv
  OBVIOUS
<1>1. CacheInv
  BY UsersInitInv
<1>2. Live = {} /\ head = NULL /\ tail = NULL /\ cache_size = 0
  BY DEF UsersInit, CacheInit, Live, NoEntry
<1>3. SizeInv
  <2> PICK z \in [Addr -> Nat] : z = [a \in Addr |-> 0]
    OBVIOUS
  <2>1. Numbered(z, z)
    BY <1>2 DEF Numbered
  <2>2. \A t \in Threads : pc[t] # "link"
    BY DEF UsersInit
  <2>3. cache_size <= MAX_CACHE_SIZE
    BY <1>2, CacheAssumption
  <2> HIDE DEF Numbered
  <2> QED
    BY <2>1, <2>2, <2>3 DEF SizeInv
<1> QED
  BY <1>1, <1>3 DEF WholeInv, UsersInit

LEMMA UserWhole ==
  ASSUME WholeInv, NEW t \in Threads, User(t) PROVE WholeInv'
<1>1. CacheInv'
  BY UserStep DEF WholeInv
<1>2. SizeInv'
  <2>1. CASE CacheFind(t)
    BY <2>1, CacheFindSize DEF WholeInv
  <2>2. CASE CacheInsert(t)
    BY <2>2, CacheInsertSize DEF WholeInv
  <2>3. CASE Call(t) \/ Fetched(t) \/ Return(t) \/ ReadEntry(t)
    <3>1. UNCHANGED listVars
      BY <2>3 DEF Call, Fetched, Return, ReadEntry
    <3>2. ASSUME NEW u \in Threads, pc'[u] = "link"
          PROVE  pc[u] = "link" /\ arg'[u] = arg[u]
      BY <2>3, <3>2 DEF Call, Fetched, Return, ReadEntry, GoTo, WholeInv, CacheInv, PointerTypes
    <3> QED
      BY <3>1, <3>2, QuietSize DEF WholeInv
  <2> QED
    BY <2>1, <2>2, <2>3 DEF User
<1>3. alive' \in BOOLEAN
  BY DEF WholeInv, User, CacheFind, CacheInsert, Call, Fetched, Return, ReadEntry,
         FindLock, FindHit, FindNext, FindMiss, InsertLock, EvictTail, EvictEnd,
         Link, LinkNoMemory, InsertUnlock
<1>4. pc' \in [Threads -> CachePlaces \cup {"idle", "hit_done"}]
  <2>1. \/ pc' = pc
        \/ \E p \in CachePlaces \cup {"idle", "hit_done"} : pc' = [pc EXCEPT ![t] = p]
    BY DEF CachePlaces, GoTo, User, CacheFind, CacheInsert, Call, Fetched, Return, ReadEntry,
           FindLock, FindHit, FindNext, FindMiss, InsertLock, EvictTail, EvictEnd,
           Link, LinkNoMemory, InsertUnlock
  <2> HIDE DEF CachePlaces
  <2> QED
    BY <2>1 DEF WholeInv
<1> QED
  BY <1>1, <1>2, <1>3, <1>4 DEF WholeInv

LEMMA UsersWhole == UsersSpec => []WholeInv
<1>1. WholeInv /\ UsersNext => WholeInv'
  BY UserWhole DEF UsersNext
<1>2. WholeInv /\ UNCHANGED usersVars => WholeInv'
  <2> SUFFICES ASSUME WholeInv, UNCHANGED usersVars PROVE WholeInv'
    OBVIOUS
  <2>1. CacheInv'
    BY UsersStepInv DEF WholeInv
  <2>2. SizeInv'
    BY QuietSize DEF WholeInv, usersVars, cacheVars
  <2> QED
    BY <2>1, <2>2 DEF WholeInv, usersVars
<1> QED
  BY UsersInitWhole, <1>1, <1>2, PTL DEF UsersSpec

----------------------------------------------------------------------------

\* Only one thread at a time works on the list, and the mutex says which
\* (cache.c:21-48, 53-75).
THEOREM Exclusion == UsersSpec => []MutexIsOwned
  BY UsersInvariance, PTL DEF CacheInv

\* No freed entry is read, neither in the list nor after a hit
\* (cache.c:19-49, 84-96, proxy.c:233-235).
THEOREM NoUseAfterFree == UsersSpec => []PointersAreValid
  BY UsersInvariance, PTL DEF CacheInv

\* The next pointers from the head pass through every live entry once and end
\* in NULL, prev runs the other way, and cache_size is the sum of the entries'
\* sizes and within the limit (cache.c:19-99).
THEOREM WholeCache ==
  ASSUME IsFiniteSet(Addr)
  PROVE  UsersSpec => []CacheIsWhole
<1>1. WholeInv => CacheIsWhole
  <2> SUFFICES ASSUME WholeInv PROVE CacheIsWhole
    OBVIOUS
  <2>1. UsersTypeOK
    BY SizeIsNatural DEF WholeInv, CacheInv, PointerTypes, UsersTypeOK, CacheTypeOK
  <2>2. ListIsWhole
    BY WholeList DEF WholeInv
  <2> QED
    BY <2>1, <2>2 DEF WholeInv, CacheInv, CacheIsWhole
<1> QED
  BY <1>1, UsersWhole, PTL

\* After the first hit nothing in the cache changes any more (cache.c:41).
THEOREM HitIsTheLast == UsersSpec => HitFreezesCache
<1>1. ASSUME CacheInv, [UsersNext]_usersVars, NEW t \in Threads, pc[t] \in AfterHit
      PROVE  UNCHANGED <<listVars, cache_mutex>>
  <2>1. cache_mutex = t /\ cache_mutex # NoThread
    BY <1>1 DEF CacheInv, MutexIsOwned, Holding
  <2>2. ASSUME NEW u \in Threads, User(u)
        PROVE  UNCHANGED <<listVars, cache_mutex>>
    <3>1. pc[u] \notin {"walk", "evict", "link", "insert_unlock"}
      BY <1>1, <2>1 DEF CacheInv, MutexIsOwned, Holding, AfterHit
    <3>2. ~CacheFind(u)
      BY <2>1, <3>1 DEF CacheFind, FindLock, FindHit, FindNext, FindMiss, Lock
    <3>3. ~CacheInsert(u)
      BY <2>1, <3>1 DEF CacheInsert, InsertLock, EvictTail, EvictEnd, Link,
                        LinkNoMemory, InsertUnlock, Lock
    <3> QED
      BY <2>2, <3>2, <3>3 DEF User, Call, Fetched, Return, ReadEntry
  <2> QED
    BY <1>1, <2>2 DEF UsersNext, usersVars, cacheVars
<1>2. CacheInv /\ [UsersNext]_usersVars =>
        [(\E t \in Threads : pc[t] \in AfterHit)
           => UNCHANGED <<listVars, cache_mutex>>]_<<cacheVars, pc>>
  BY <1>1
<1> QED
  BY <1>2, UsersInvariance, PTL DEF UsersSpec, HitFreezesCache

(***************************************************************************)
(* The cache as a sequence, and LruCache, which it implements.             *)
(***************************************************************************)

\* L is the len entries that the next pointers lead through.
Chain(len, L) ==
  /\ L \in [1..len -> Addr]
  /\ \A i, j \in 1..len : L[i] = L[j] => i = j
  /\ head = IF len = 0 THEN NULL ELSE L[1]
  /\ \A i \in 1..len : entry[L[i]].next = IF i = len THEN NULL ELSE L[i+1]

ChainIsList ==
  \A len \in Nat : \A L : Chain(len, L) => ListLength = len /\ List = L

LEMMA ChainOfList ==
  ASSUME IsFiniteSet(Addr) PROVE ChainIsList
<1> SUFFICES ASSUME NEW len \in Nat, NEW L, Chain(len, L)
             PROVE  ListLength = len /\ List = L
  BY DEF ChainIsList
<1>1. PICK c \in Nat : c = Cardinality(Addr)
  BY FS_CardinalityType
<1>2. PICK N : N = Nodes
  OBVIOUS
<1>3. /\ DOMAIN N = 0..c /\ N[0] = head
      /\ \A i \in 1..c : N[i] = IF N[i-1] = NULL THEN NULL ELSE entry[N[i-1]].next
  BY <1>1, <1>2, NodesAre
<1>4. /\ L \in [1..len -> Addr] /\ NULL \notin Addr
      /\ \A i, j \in 1..len : L[i] = L[j] => i = j
      /\ head = IF len = 0 THEN NULL ELSE L[1]
      /\ \A i \in 1..len : entry[L[i]].next = IF i = len THEN NULL ELSE L[i+1]
  BY DEF Chain
<1>5. len <= c
  <2>1. L \in Injection(1..len, Addr)
    BY <1>4 DEF Injection, IsInjective
  <2>2. Cardinality(1..len) <= c
    BY <1>1, <2>1, FS_Injection
  <2>3. Cardinality(1..len) = len
    BY FS_Interval
  <2> QED
    BY <2>2, <2>3
<1>6. ASSUME NEW k \in 0..c
      PROVE  N[k] = IF k < len THEN L[k+1] ELSE NULL
  <2> DEFINE T == {k1 \in Nat : N[k1] = IF k1 < len THEN L[k1+1] ELSE NULL}
  <2>1. 0 \in T
    BY <1>3, <1>4
  <2>2. ASSUME NEW i \in 0..c, i \in T, i < c PROVE i + 1 \in T
    <3>1. i + 1 \in 1..c /\ (i + 1) - 1 = i
      BY <2>2
    <3>2. N[i+1] = IF N[i] = NULL THEN NULL ELSE entry[N[i]].next
      BY <1>3, <3>1
    <3>3. CASE i < len
      <4>1. i + 1 \in 1..len /\ N[i] = L[i+1] /\ N[i] # NULL
        BY <1>4, <2>2, <3>3
      <4>2. N[i+1] = IF i + 1 = len THEN NULL ELSE L[i+1+1]
        BY <1>4, <3>2, <4>1
      <4>3. i + 1 = len <=> ~(i + 1 < len)
        BY <4>1
      <4> QED
        BY <2>2, <4>2, <4>3
    <3>4. CASE ~(i < len)
      <4>1. N[i] = NULL /\ ~(i + 1 < len)
        BY <2>2, <3>4
      <4> QED
        BY <3>2, <4>1
    <3> QED
      BY <3>3, <3>4
  <2> HIDE DEF T
  <2>3. 0..c \subseteq T
    BY <2>1, <2>2, Upwards
  <2> QED
    BY <2>3 DEF T
<1>7. {i \in DOMAIN N : N[i] # NULL} = 0..(len-1)
  <2>1. \A i \in 0..c : N[i] # NULL <=> i < len
    <3> TAKE i \in 0..c
    <3>1. i < len => i + 1 \in 1..len
      OBVIOUS
    <3> QED
      BY <1>4, <1>6, <3>1
  <2> QED
    BY <1>3, <1>5, <2>1
<1>8. ListLength = len
  <2>1. Cardinality(0..(len-1)) = len
    <3>1. CASE len = 0
      <4>1. 0..(len-1) = {}
        BY <3>1
      <4> QED
        BY <3>1, <4>1, FS_EmptySet
    <3>2. CASE len # 0
      <4>1. 0 <= len - 1 /\ len - 1 \in Int /\ (len - 1) - 0 + 1 = len
        BY <3>2
      <4> QED
        BY <4>1, FS_Interval
    <3> QED
      BY <3>1, <3>2
  <2> QED
    BY <1>2, <1>7, <2>1 DEF ListLength
<1>9. \A i \in 1..len : N[i-1] = L[i]
  <2> TAKE i \in 1..len
  <2>1. i - 1 \in 0..c /\ i - 1 < len /\ (i - 1) + 1 = i
    BY <1>5
  <2> QED
    BY <1>6, <2>1
<1>10. List = L
  <2>1. List = [i \in 1..len |-> N[i-1]]
    BY <1>2, <1>8 DEF List
  <2> QED
    BY <1>4, <1>9, <2>1
<1> QED
  BY <1>8, <1>10

LEMMA ChainOfListNext ==
  ASSUME IsFiniteSet(Addr) PROVE ChainIsList'
<1>1. IsFiniteSet(Addr) => ChainIsList
  BY ChainOfList
<1> QED
  BY <1>1, PTL

\* All that is known of the list as a sequence.
View(len, L) ==
  /\ Chain(len, L)
  /\ ListLength = len /\ List = L
  /\ \A i \in 1..len : /\ L[i] \in Live
                       /\ entry[L[i]].prev = IF i = 1 THEN NULL ELSE L[i-1]
  /\ \A a \in Live : \E i \in 1..len : a = L[i]
  /\ tail = IF len = 0 THEN NULL ELSE L[len]

LEMMA ListView ==
  ASSUME CacheInv, SizeInv, IsFiniteSet(Addr)
  PROVE  \E len \in Nat : View(len, List)
<1>1. ListIsWhole
  BY WholeList
<1>2. ListLength \in Nat
  <2>1. Cardinality(Addr) \in Nat
    BY FS_CardinalityType
  <2>2. DOMAIN Nodes = 0..Cardinality(Addr)
    BY <2>1, NodesAre
  <2>3. IsFiniteSet(DOMAIN Nodes)
    BY <2>1, <2>2, FS_Interval
  <2>4. IsFiniteSet({i \in DOMAIN Nodes : Nodes[i] # NULL})
    BY <2>3, FS_Subset
  <2> QED
    BY <2>4, FS_CardinalityType DEF ListLength
<1>3. PICK len \in Nat : len = ListLength
  BY <1>2
<1>4. PICK L : L = List
  OBVIOUS
<1>5. /\ \A i, j \in 1..len : L[i] = L[j] => i = j
      /\ \A i \in 1..len : L[i] \in Live
      /\ \A a \in Live : \E i \in 1..len : a = L[i]
      /\ \A i \in 1..len : entry[L[i]].prev = IF i = 1 THEN NULL ELSE L[i-1]
      /\ tail = IF len = 0 THEN NULL ELSE L[len]
      /\ L = [i \in 1..len |-> L[i]]
  <2>1. {List[j] : j \in 1..len} = Live
    BY <1>1, <1>3 DEF ListIsWhole
  <2>2. \A i \in 1..len : L[i] \in Live
    BY <1>4, <2>1
  <2>3. \A a \in Live : \E i \in 1..len : a = L[i]
    BY <1>4, <2>1
  <2>4. L = [i \in 1..len |-> L[i]]
    BY <1>3, <1>4 DEF List
  <2> QED
    BY <1>1, <1>3, <1>4, <2>2, <2>3, <2>4 DEF ListIsWhole
<1>6. L \in [1..len -> Addr]
  BY <1>5 DEF Live
<1>7. head = IF len = 0 THEN NULL ELSE L[1]
  <2>1. CASE len = 0
    BY <1>5, <2>1 DEF CacheInv, PointerTypes, Linked, Live
  <2>2. CASE len # 0
    <3>1. 1 \in 1..len
      BY <2>2
    <3>2. L[1] \in Live /\ entry[L[1]].prev = NULL
      BY <1>5, <3>1
    <3> QED
      BY <2>2, <3>2 DEF CacheInv, Linked
  <2> QED
    BY <2>1, <2>2
<1>8. ASSUME NEW i \in 1..len
      PROVE  entry[L[i]].next = IF i = len THEN NULL ELSE L[i+1]
  <2>1. L[i] \in Live /\ L[len] \in Live /\ tail = L[len] /\ tail # NULL
    BY <1>5 DEF Live
  <2>2. CASE entry[L[i]].next = NULL
    <3>1. L[i] = L[len]
      BY <2>1, <2>2 DEF CacheInv, Linked
    <3>2. i = len
      BY <1>5, <3>1
    <3> QED
      BY <2>2, <3>2
  <2>3. CASE entry[L[i]].next # NULL
    <3>1. /\ entry[L[i]].next \in Live
          /\ entry[entry[L[i]].next].prev = L[i]
          /\ L[i] # tail
      BY <2>1, <2>3 DEF CacheInv, Linked
    <3>2. PICK j \in 1..len : entry[L[i]].next = L[j]
      BY <1>5, <3>1
    <3>3. j # 1 /\ L[j-1] = L[i]
      <4>1. entry[L[j]].prev = L[i] /\ L[i] # NULL
        BY <2>1, <3>1, <3>2 DEF Live
      <4>2. entry[L[j]].prev = IF j = 1 THEN NULL ELSE L[j-1]
        BY <1>5
      <4> QED
        BY <4>1, <4>2
    <3>4. j - 1 \in 1..len
      BY <3>3
    <3>5. j - 1 = i
      BY <1>5, <3>3, <3>4
    <3>6. j = i + 1 /\ i # len
      BY <3>5
    <3> QED
      BY <3>2, <3>6
  <2> QED
    BY <2>2, <2>3
<1>9. Chain(len, L)
  BY <1>5, <1>6, <1>7, <1>8 DEF Chain
<1> HIDE DEF Chain
<1> QED
  BY <1>3, <1>4, <1>5, <1>9 DEF View

\* What the refinement maps the list to, the object being put, and the last
\* object found.
Objs == [i \in 1..ListLength |-> Object(List[i])]

Want ==
  IF \E t \in Threads : pc[t] \in {"evict", "link"}
  THEN LET t == CHOOSE t \in Threads : pc[t] \in {"evict", "link"}
       IN <<[key |-> arg[t].of, size |-> arg[t].len]>>
  ELSE <<>>

Found ==
  IF \E t \in Threads : pc[t] \in AfterHit
  THEN <<Object(curr[CHOOSE t \in Threads : pc[t] \in AfterHit])>>
  ELSE <<>>

LEMMA GreatestOf ==
  ASSUME NEW len \in Nat, NEW s \in SUBSET (1..len), s # {}
  PROVE  (CHOOSE x \in s : \A y \in s : x >= y) \in s
<1> DEFINE T == {len - k : k \in s}
<1>1. T \in SUBSET Nat /\ T # {}
  <2>1. \A k \in s : len - k \in Nat
    OBVIOUS
  <2> QED
    BY <2>1
<1> HIDE DEF T
<1>2. PICK x \in T : \A y \in T : x <= y
  BY <1>1, LeastNatural
<1>3. PICK k \in s : x = len - k
  BY DEF T
<1>4. \A y \in s : k >= y
  <2> TAKE y \in s
  <2>1. x <= len - y
    BY <1>2 DEF T
  <2> QED
    BY <1>3, <2>1
<1> QED
  BY <1>4

\* The sum of a sequence of objects is taken from the last one on; it is the
\* sum of the sizes, which does not depend on the order.
LEMMA TotalIs ==
  ASSUME CacheInv, SizeInv, IsFiniteSet(Addr)
  PROVE  Lru!Total = cache_size
<1>1. PICK len \in Nat : View(len, List)
  BY ListView
<1>2. PICK L : L = List
  OBVIOUS
<1>3. PICK S : S = Objs
  OBVIOUS
<1>4. /\ DOMAIN S = 1..len
      /\ \A i \in 1..len : S[i].size = entry[L[i]].size
  BY <1>1, <1>2, <1>3 DEF View, Objs, Object
<1>5. IsFiniteSet(Live)
  <2>1. Live \subseteq Addr
    BY DEF Live
  <2> QED
    BY <2>1, FS_Subset
<1>6. PICK f : f = [a \in Live |-> entry[a].size]
  OBVIOUS
<1>7. PICK total : /\ Sums(total, f, Live)
                   /\ MapThenSumSet(LAMBDA a : entry[a].size, Live) = total[Live]
  BY <1>5, <1>6, SizesAreSummed
<1>8. cache_size = total[Live]
  <2>1. ListIsWhole
    BY WholeList
  <2> QED
    BY <1>7, <2>1 DEF ListIsWhole
<1>9. \A a \in Live : f[a] \in Nat
  BY <1>6 DEF CacheInv, PointerTypes, Entries, Sizes, Live
<1>10. /\ total[{}] = 0
       /\ \A s \in SUBSET Live : total[s] \in Nat
       /\ \A s \in SUBSET Live : \A y \in Live \ s : total[s \cup {y}] = total[s] + f[y]
  <2>1. Sums(total, f, Live)
    BY <1>7
  <2> QED
    BY ONLY <1>5, <1>9, <2>1, SumStep
<1> DEFINE Top(s) == CHOOSE x \in s : \A y \in s : x >= y
           Is(g) == g = [s \in SUBSET DOMAIN S |->
                           IF s = {} THEN 0
                           ELSE LET x == Top(s) IN g[s \ {x}] + S[x].size]
<1>11. Lru!Total = (CHOOSE g : Is(g))[DOMAIN S]
  BY <1>3 DEF Lru!Total, Lru!FoldLeft, Lru!MapThenFoldSet, Lru!Max, Objs
<1>12. \A i \in 1..len : L[i] \in Live /\ S[i].size = f[L[i]] /\ S[i].size \in Nat
  BY <1>1, <1>2, <1>4, <1>6, <1>9 DEF View
<1>13. \E g : Is(g)
  <2>1. PICK h : h = [i \in 1..len |-> S[i].size]
    OBVIOUS
  <2>a. PICK R : R = 1..len
    OBVIOUS
  <2>b. IsFiniteSet(R)
    BY <2>a, FS_Interval
  <2>2. PICK g : Sums(g, h, R)
    BY <2>b, SumExists
  <2>3. /\ g[{}] = 0
        /\ \A s \in SUBSET (1..len) : \A y \in (1..len) \ s : g[s \cup {y}] = g[s] + h[y]
    <3>1. \A i \in R : h[i] \in Nat
      BY <1>12, <2>1, <2>a
    <3>2. /\ g[{}] = 0
          /\ \A s \in SUBSET R : \A y \in R \ s : g[s \cup {y}] = g[s] + h[y]
      BY ONLY <2>2, <2>b, <3>1, SumStep
    <3> QED
      BY <2>a, <3>2
  <2>4. g = [s \in SUBSET (1..len) |-> g[s]]
    BY <2>2, <2>a DEF Sums
  <2>5. ASSUME NEW s \in SUBSET (1..len), s # {}
        PROVE  g[s] = g[s \ {Top(s)}] + S[Top(s)].size
    <3>1. Top(s) \in s
      BY <2>5, GreatestOf
    <3> HIDE DEF Top
    <3>2. s \ {Top(s)} \in SUBSET (1..len) /\ (s \ {Top(s)}) \cup {Top(s)} = s
          /\ Top(s) \in (1..len) \ (s \ {Top(s)})
      BY <3>1
    <3>3. h[Top(s)] = S[Top(s)].size
      BY <2>1, <3>2
    <3>4. g[(s \ {Top(s)}) \cup {Top(s)}] = g[s \ {Top(s)}] + h[Top(s)]
      BY <2>3, <3>2
    <3> QED
      BY <3>2, <3>3, <3>4
  <2> HIDE DEF Top
  <2>6. \A s \in SUBSET (1..len) :
          g[s] = IF s = {} THEN 0 ELSE g[s \ {Top(s)}] + S[Top(s)].size
    BY <2>3, <2>5
  <2>7. Is(g)
    BY <1>4, <2>4, <2>6
  <2> HIDE DEF Is
  <2> QED
    BY <2>7
<1>14. PICK g : g = CHOOSE x : Is(x)
  OBVIOUS
<1>15. Is(g)
  <2> HIDE DEF Is
  <2> QED
    BY <1>13, <1>14
<1>16. \A s \in SUBSET (1..len) :
         g[s] = IF s = {} THEN 0 ELSE g[s \ {Top(s)}] + S[Top(s)].size
  <2> HIDE DEF Top
  <2>1. g = [s \in SUBSET (1..len) |->
               IF s = {} THEN 0 ELSE g[s \ {Top(s)}] + S[Top(s)].size]
    BY <1>4, <1>15
  <2> QED
    BY ONLY <2>1
<1> HIDE DEF Is
<1> DEFINE First(k) == {L[i] : i \in 1..k}
           T == {k \in Nat : g[1..k] = total[First(k)]}
<1>17. 0 \in T
  <2>1. 1..0 = {} /\ First(0) = {}
    OBVIOUS
  <2>2. g[{}] = 0
    BY <1>16
  <2> QED
    BY <1>10, <2>1, <2>2
<1>18. ASSUME NEW k \in 0..len, k \in T, k < len PROVE k + 1 \in T
  <2>1. 1..(k+1) \in SUBSET (1..len) /\ 1..(k+1) # {} /\ k + 1 \in 1..len
    BY <1>18
  <2>2. Top(1..(k+1)) = k + 1
    <3>1. Top(1..(k+1)) \in 1..(k+1) /\ \A y \in 1..(k+1) : Top(1..(k+1)) >= y
      <4>1. \A y \in 1..(k+1) : k + 1 >= y
        OBVIOUS
      <4>2. k + 1 \in 1..(k+1)
        OBVIOUS
      <4> QED
        BY <4>1, <4>2, Zenon
    <3> HIDE DEF Top
    <3> QED
      BY <3>1
  <2>3. (1..(k+1)) \ {k+1} = 1..k
    OBVIOUS
  <2> HIDE DEF Top
  <2>4. g[1..(k+1)] = g[1..k] + S[k+1].size
    BY <1>16, <2>1, <2>2, <2>3
  <2>5. First(k+1) = First(k) \cup {L[k+1]}
    <3>1. \A i \in 1..(k+1) : i \in 1..k \/ i = k + 1
      OBVIOUS
    <3>2. 1..k \subseteq 1..(k+1) /\ k + 1 \in 1..(k+1)
      OBVIOUS
    <3> QED
      BY <3>1, <3>2
  <2>6. First(k) \in SUBSET Live /\ L[k+1] \in Live \ First(k)
    <3>1. 1..k \subseteq 1..len /\ k + 1 \notin 1..k
      BY <1>18
    <3>2. \A i, j \in 1..len : L[i] = L[j] => i = j
      BY <1>1, <1>2 DEF View, Chain
    <3>3. \A i \in 1..k : L[i] \in Live /\ L[i] # L[k+1]
      BY <1>12, <2>1, <3>1, <3>2
    <3> QED
      BY <1>12, <2>1, <3>3
  <2> HIDE DEF First
  <2>7. total[First(k+1)] = total[First(k)] + f[L[k+1]]
    BY <1>10, <2>5, <2>6
  <2>8. g[1..k] = total[First(k)]
    BY <1>18
  <2>9. g[1..(k+1)] = total[First(k+1)]
    BY <1>12, <2>1, <2>4, <2>7, <2>8
  <2> QED
    BY <2>9
<1>19. len \in T
  <2> HIDE DEF T
  <2> QED
    BY <1>17, <1>18, Upwards
<1>20. First(len) = Live
  <2>1. \A a \in Live : \E i \in 1..len : a = L[i]
    BY <1>1, <1>2 DEF View
  <2> QED
    BY <1>12, <2>1
<1> QED
  BY <1>4, <1>8, <1>11, <1>14, <1>19, <1>20

----------------------------------------------------------------------------
(* What is being put, what was found, and the list after a step. *)

WantsAre ==
  /\ \A t \in Threads :
       MutexIsOwned /\ pc[t] \in {"evict", "link"}
         => Want = <<[key |-> arg[t].of, size |-> arg[t].len]>>
  /\ (\A t \in Threads : pc[t] \notin {"evict", "link"}) => Want = <<>>

FoundsAre ==
  /\ \A t \in Threads :
       MutexIsOwned /\ pc[t] \in AfterHit => Found = <<Object(curr[t])>>
  /\ (\A t \in Threads : pc[t] \notin AfterHit) => Found = <<>>

LEMMA WantIs == WantsAre
<1>1. ASSUME NEW t \in Threads, MutexIsOwned, pc[t] \in {"evict", "link"}
      PROVE  Want = <<[key |-> arg[t].of, size |-> arg[t].len]>>
  <2>1. \A u \in Threads : pc[u] \in {"evict", "link"} => u = t
    BY <1>1, HolderIsAlone DEF Holding
  <2>2. t = CHOOSE u \in Threads : pc[u] \in {"evict", "link"}
    BY <1>1, <2>1
  <2> QED
    BY <1>1, <2>2, Zenon DEF Want
<1>2. (\A t \in Threads : pc[t] \notin {"evict", "link"}) => Want = <<>>
  BY Zenon DEF Want
<1> QED
  BY <1>1, <1>2 DEF WantsAre

LEMMA FoundIs == FoundsAre
<1>1. ASSUME NEW t \in Threads, MutexIsOwned, pc[t] \in AfterHit
      PROVE  Found = <<Object(curr[t])>>
  <2>1. \A u \in Threads : pc[u] \in AfterHit => u = t
    BY <1>1, HolderIsAlone DEF Holding
  <2>2. t = CHOOSE u \in Threads : pc[u] \in AfterHit
    BY <1>1, <2>1
  <2> QED
    BY <1>1, <2>2, Zenon DEF Found
<1>2. (\A t \in Threads : pc[t] \notin AfterHit) => Found = <<>>
  BY Zenon DEF Found
<1> QED
  BY <1>1, <1>2 DEF FoundsAre

LEMMA WantIsNext == WantsAre'
  BY WantIs, PTL

LEMMA FoundIsNext == FoundsAre'
  BY FoundIs, PTL

LEMMA NewList ==
  ASSUME IsFiniteSet(Addr), NEW len \in Nat, NEW L, Chain(len, L)'
  PROVE  /\ ListLength' = len /\ List' = L
         /\ Objs' = [i \in 1..len |-> [key |-> entry'[L[i]].key, size |-> entry'[L[i]].size]]
<1>1. ListLength' = len /\ List' = L
  <2>1. ChainIsList'
    BY ChainOfListNext
  <2> QED
    BY <2>1 DEF ChainIsList
<1> QED
  BY <1>1 DEF Objs, Object

LEMMA OldList ==
  ASSUME NEW len \in Nat, View(len, List)
  PROVE  Objs = [i \in 1..len |-> [key |-> entry[List[i]].key, size |-> entry[List[i]].size]]
  BY DEF View, Objs, Object

LEMMA SameList ==
  ASSUME CacheInv, SizeInv, IsFiniteSet(Addr), UNCHANGED listVars
  PROVE  ListLength' = ListLength /\ List' = List /\ Objs' = Objs
<1>1. PICK len \in Nat : View(len, List)
  BY ListView
<1>2. PICK L : L = List
  OBVIOUS
<1>3. Chain(len, L)'
  BY <1>1, <1>2 DEF View, Chain, listVars
<1>4. ListLength' = len /\ List' = L
  BY <1>3, NewList
<1>5. Objs' = [i \in 1..len |-> [key |-> entry'[L[i]].key, size |-> entry'[L[i]].size]]
  BY <1>3, NewList
<1>6. Objs = [i \in 1..len |-> [key |-> entry[L[i]].key, size |-> entry[L[i]].size]]
  BY <1>1, <1>2, OldList
<1> QED
  BY <1>1, <1>2, <1>4, <1>5, <1>6 DEF View, listVars

----------------------------------------------------------------------------
(* Each step of the cache and what it is for LruCache. *)

LEMMA Stutters ==
  ASSUME CacheInv, SizeInv, IsFiniteSet(Addr), UNCHANGED listVars,
         Want' = Want, Found' = Found
  PROVE  UNCHANGED Lru!vars
<1>1. Objs' = Objs
  BY SameList
<1> QED
  BY <1>1, Zenon DEF Lru!vars, Objs, Want, Found

LEMMA Touches ==
  ASSUME NEW s, s = Objs, NEW j \in 1..Len(s),
         \A i \in 1..(j-1) : s[i].key # s[j].key,
         Objs' = <<s[j]>> \o RemoveAt(s, j),
         Want = <<>>, Want' = <<>>, Found' = <<s[j]>>
  PROVE  Lru!Touch(s[j].key)
  BY Zenon DEF Lru!RemoveAt, RemoveAt, Lru!Touch, Objs, Want, Found

LEMMA Begins ==
  ASSUME NEW o, Objs' = Objs, Want = <<>>, Want' = <<o>>, Found' = Found
  PROVE  Lru!Begin(o)
  BY Zenon DEF Lru!Begin, Objs, Want, Found

LEMMA Drops ==
  ASSUME CacheInv, SizeInv, IsFiniteSet(Addr),
         NEW s, s = Objs, s # <<>>, Objs' = Front(s),
         NEW o, o.size \in Nat, Want = <<o>>, Want' = <<o>>, Found' = Found,
         cache_size + o.size > MAX_CACHE_SIZE
  PROVE  Lru!Drop
<1>1. Want # <<>> /\ Want[1].size = o.size
  OBVIOUS
<1>2. Lru!Total = cache_size
  BY TotalIs
<1>3. ~(Lru!Total + Want[1].size <= MAX_CACHE_SIZE)
  <2>1. cache_size \in Nat
    BY SizeIsNatural
  <2> QED
    BY <1>1, <1>2, <2>1
<1>4. ~Lru!Fits
  BY <1>3, Zenon DEF Lru!Fits, Want
<1> QED
  BY <1>1, <1>4, Zenon DEF Lru!Drop, Lru!Front, Front, Objs, Want, Found

LEMMA Puts ==
  ASSUME CacheInv, SizeInv, IsFiniteSet(Addr),
         NEW s, s = Objs, NEW o, o.size \in Nat, Objs' = <<o>> \o s,
         Want = <<o>>, Want' = <<>>, Found' = Found,
         ~(cache_size + o.size > MAX_CACHE_SIZE)
  PROVE  Lru!Put
<1>1. Want # <<>> /\ Want[1].size = o.size
  OBVIOUS
<1>2. Lru!Total = cache_size
  BY TotalIs
<1>3. Lru!Total + Want[1].size <= MAX_CACHE_SIZE
  <2>1. cache_size \in Nat
    BY SizeIsNatural
  <2> QED
    BY <1>1, <1>2, <2>1
<1>4. Lru!Fits
  BY <1>3, Zenon DEF Lru!Fits, Want
<1> QED
  BY <1>1, <1>4, Zenon DEF Lru!Put, Objs, Want, Found

----------------------------------------------------------------------------
(* The invariant *)

\* What a thread that looks up or inserts is called with.
KeyInv == \A t \in Threads : pc[t] # "idle" => arg[t].of \in Keys

\* The entries that a walk has passed do not have the key it looks for.
Passed ==
  \A t \in Threads : pc[t] = "walk" =>
    \A j \in 1..ListLength :
      (\A i \in 1..j : List[i] # curr[t]) => entry[List[j]].key # arg[t].of

LruInv == WholeInv /\ KeyInv /\ Passed

LEMMA KeysKept ==
  ASSUME WholeInv, KeyInv, NEW t \in Threads, User(t) PROVE KeyInv'
<1> USE DEF WholeInv, CacheInv, PointerTypes, GoTo
<1>1. CASE Call(t)
  <2>1. PICK k \in Keys : arg' = [arg EXCEPT ![t] = EmptyBody(k)]
    BY <1>1 DEF Call
  <2>2. arg'[t].of = k /\ \A u \in Threads \ {t} : arg'[u] = arg[u] /\ pc'[u] = pc[u]
    BY <1>1, <2>1 DEF Call, EmptyBody, Body
  <2> QED
    BY <2>2 DEF KeyInv
<1>2. CASE Fetched(t)
  <2>1. PICK k \in Sizes : arg' = [arg EXCEPT ![t] =
                     Body(arg[t].of, Stretch(arg[t].of, 0, k), k)]
    BY <1>2 DEF Fetched
  <2>2. /\ arg'[t].of = arg[t].of /\ pc[t] # "idle"
        /\ \A u \in Threads \ {t} : arg'[u] = arg[u] /\ pc'[u] = pc[u]
    BY <1>2, <2>1 DEF Fetched, Body
  <2> QED
    BY <2>2 DEF KeyInv
<1>3. CASE Return(t)
  <2>1. /\ pc'[t] = "idle"
        /\ \A u \in Threads \ {t} : arg'[u] = arg[u] /\ pc'[u] = pc[u]
    BY <1>3 DEF Return
  <2> QED
    BY <2>1 DEF KeyInv
<1>4. CASE CacheFind(t) \/ CacheInsert(t) \/ ReadEntry(t)
  <2>1. /\ arg' = arg /\ pc[t] # "idle"
        /\ \A u \in Threads \ {t} : pc'[u] = pc[u]
    BY <1>4 DEF CacheFind, CacheInsert, ReadEntry, FindLock, FindHit, FindNext, FindMiss,
                InsertLock, EvictTail, EvictEnd, Link, LinkNoMemory, InsertUnlock
  <2> QED
    BY <2>1 DEF KeyInv
<1> QED
  BY <1>1, <1>2, <1>3, <1>4 DEF User

\* Steps that leave the list alone and take nobody further along it.
LEMMA QuietPassed ==
  ASSUME CacheInv, SizeInv, IsFiniteSet(Addr), Passed, UNCHANGED listVars,
         \A u \in Threads : pc'[u] = "walk" => /\ pc[u] = "walk"
                                              /\ arg'[u] = arg[u] /\ curr'[u] = curr[u]
  PROVE  Passed'
<1>1. ListLength' = ListLength /\ List' = List /\ entry' = entry
  BY SameList DEF listVars
<1> QED
  BY <1>1 DEF Passed

LEMMA FindLockPassed ==
  ASSUME CacheInv, SizeInv, IsFiniteSet(Addr), Passed, NEW t \in Threads, FindLock(t)
  PROVE  Passed'
<1>1. PICK len \in Nat : View(len, List)
  BY ListView
<1>2. ListLength' = len /\ List' = List /\ entry' = entry /\ ListLength = len
  BY <1>1, SameList DEF View, listVars, FindLock
<1>3. ASSUME NEW j \in 1..len PROVE \E i \in 1..j : List[i] = curr'[t]
  <2>1. List[1] = head
    BY <1>1 DEF View, Chain
  <2>2. curr'[t] = head /\ 1 \in 1..j
    BY DEF FindLock, CacheInv, PointerTypes
  <2> QED
    BY <2>1, <2>2
<1>4. \A u \in Threads \ {t} : pc'[u] = pc[u] /\ arg'[u] = arg[u] /\ curr'[u] = curr[u]
  BY DEF FindLock, GoTo, CacheInv, PointerTypes
<1> QED
  BY <1>2, <1>3, <1>4 DEF Passed

LEMMA FindNextPassed ==
  ASSUME CacheInv, SizeInv, IsFiniteSet(Addr), Passed, NEW t \in Threads, FindNext(t)
  PROVE  Passed'
<1>1. PICK len \in Nat : View(len, List)
  BY ListView
<1>2. PICK L : L = List
  OBVIOUS
<1>3. ListLength' = len /\ List' = L /\ entry' = entry /\ ListLength = len /\ arg' = arg
  BY <1>1, <1>2, SameList DEF View, listVars, FindNext
<1>4. PICK k \in 1..len : curr[t] = L[k]
  <2>1. curr[t] \in Live
    BY DEF FindNext, CacheInv, PointersAreValid, PointerTypes, Live
  <2> QED
    BY <1>1, <1>2, <2>1 DEF View
<1>5. /\ \A i, j \in 1..len : L[i] = L[j] => i = j
      /\ entry[L[k]].next = IF k = len THEN NULL ELSE L[k+1]
  BY <1>1, <1>2 DEF View, Chain
<1>6. curr'[t] = entry[L[k]].next /\ entry[L[k]].key # arg[t].of /\ pc[t] = "walk"
  BY <1>4 DEF FindNext, Matches, CacheInv, PointerTypes
<1>7. ASSUME NEW j \in 1..len, \A i \in 1..j : L[i] # curr'[t]
      PROVE  entry[L[j]].key # arg[t].of
  <2>1. CASE j < k
    <3>1. \A i \in 1..j : i \in 1..len /\ i # k
      BY <2>1
    <3>2. \A i \in 1..j : L[i] # curr[t]
      BY <1>4, <1>5, <3>1
    <3> QED
      BY <1>2, <1>3, <1>6, <3>2 DEF Passed
  <2>2. CASE j = k
    BY <1>6, <2>2
  <2>3. CASE j > k
    <3>1. k + 1 \in 1..j /\ k # len
      BY <2>3
    <3> QED
      BY <1>5, <1>6, <1>7, <3>1
  <2> QED
    BY <2>1, <2>2, <2>3
<1>8. \A u \in Threads \ {t} : pc'[u] = pc[u] /\ curr'[u] = curr[u]
  BY DEF FindNext, CacheInv, PointerTypes
<1> QED
  BY <1>2, <1>3, <1>7, <1>8 DEF Passed

LEMMA UserPassed ==
  ASSUME IsFiniteSet(Addr), LruInv, NEW t \in Threads, User(t) PROVE Passed'
<1> USE DEF LruInv, WholeInv
<1>1. CASE FindLock(t)
  BY <1>1, FindLockPassed
<1>2. CASE FindNext(t)
  BY <1>2, FindNextPassed
<1>3. CASE FindHit(t) \/ EvictTail(t) \/ Link(t)
  <2>1. \A u \in Threads : pc'[u] # "walk"
    <3>1. pc[t] \in Holding /\ pc'[t] # "walk"
      BY <1>3 DEF FindHit, EvictTail, Link, GoTo, Holding, CacheInv, PointerTypes
    <3>2. \A u \in Threads \ {t} : pc'[u] = pc[u] /\ pc[u] \notin Holding
      BY <1>3, <3>1, HolderIsAlone
         DEF FindHit, EvictTail, Link, GoTo, CacheInv, PointerTypes
    <3> QED
      BY <3>1, <3>2 DEF Holding
  <2> QED
    BY <2>1 DEF Passed
<1>4. CASE \/ FindMiss(t) \/ InsertLock(t) \/ EvictEnd(t) \/ LinkNoMemory(t)
           \/ InsertUnlock(t) \/ Call(t) \/ Fetched(t) \/ Return(t) \/ ReadEntry(t)
  <2> USE DEF FindMiss, InsertLock, EvictEnd, LinkNoMemory, InsertUnlock, Call, Fetched,
              Return, ReadEntry, GoTo, CacheInv, PointerTypes
  <2>1. UNCHANGED listVars
    BY <1>4
  <2>2. \A u \in Threads \ {t} : pc'[u] = pc[u] /\ arg'[u] = arg[u] /\ curr'[u] = curr[u]
    BY <1>4
  <2>3. pc'[t] # "walk"
    BY <1>4
  <2> QED
    BY <2>1, <2>2, <2>3, QuietPassed
<1> QED
  BY <1>1, <1>2, <1>3, <1>4 DEF User, CacheFind, CacheInsert

\* The sequence with its k-th object moved to the front.
LEMMA MovedToFront ==
  ASSUME NEW D, NEW s \in Seq(D), NEW k \in 1..Len(s)
  PROVE  <<s[k]>> \o RemoveAt(s, k)
           = [i \in 1..Len(s) |-> IF i = 1 THEN s[k] ELSE IF i <= k THEN s[i-1] ELSE s[i]]
<1> DEFINE a == SubSeq(s, 1, k-1)
           b == SubSeq(s, k+1, Len(s))
           p == [i \in 1..Len(s) |-> IF i = 1 THEN s[k] ELSE IF i <= k THEN s[i-1] ELSE s[i]]
<1>1. /\ a \in Seq(D) /\ Len(a) = k - 1 /\ \A i \in 1..(k-1) : a[i] = s[i]
      /\ b \in Seq(D) /\ Len(b) = Len(s) - k /\ \A i \in 1..(Len(s)-k) : b[i] = s[k+i]
  <2>1. a \in Seq(D) /\ Len(a) = k - 1 /\ \A i \in 1..(k-1) : a[i] = s[i]
    OBVIOUS
  <2>2. CASE k = Len(s)
    BY <2>2
  <2>3. CASE k # Len(s)
    <3>1. k + 1 \in 1..Len(s) /\ k + 1 <= Len(s) /\ Len(s) \in Nat
      BY <2>3
    <3>2. b \in Seq(D) /\ Len(b) = Len(s) - k
      BY <3>1
    <3>3. \A i \in 1..(Len(s)-k) : b[i] = s[k+i]
      <4> TAKE i \in 1..(Len(s)-k)
      <4>1. (k + 1) + i - 1 = k + i /\ i \in 1..(Len(s) - (k+1) + 1)
        BY <3>1
      <4> QED
        BY <3>1, <4>1
    <3> QED
      BY <3>2, <3>3
  <2> QED
    BY <2>1, <2>2, <2>3
<1> HIDE DEF a, b
<1>2. s[k] \in D /\ <<s[k]>> \in Seq(D) /\ Len(<<s[k]>>) = 1 /\ <<s[k]>>[1] = s[k]
  OBVIOUS
<1>3. PICK r : r = a \o b
  OBVIOUS
<1>4. /\ r \in Seq(D) /\ Len(r) = Len(s) - 1
      /\ \A i \in 1..(Len(s)-1) : r[i] = IF i <= k - 1 THEN s[i] ELSE s[i+1]
  <2>1. /\ r \in Seq(D) /\ Len(r) = Len(a) + Len(b)
        /\ \A i \in 1..Len(a) : r[i] = a[i]
        /\ \A i \in 1..Len(b) : r[Len(a) + i] = b[i]
    <3>1. a \in Seq(D) /\ b \in Seq(D)
      BY <1>1
    <3> QED
      BY ONLY <1>3, <3>1
  <2>2. Len(r) = Len(s) - 1
    BY <1>1, <2>1
  <2>3. \A i \in 1..(Len(s)-1) : r[i] = IF i <= k - 1 THEN s[i] ELSE s[i+1]
    <3> TAKE i \in 1..(Len(s)-1)
    <3>1. CASE i <= k - 1
      <4>1. i \in 1..(k-1)
        BY <3>1
      <4> QED
        BY <1>1, <2>1, <3>1, <4>1
    <3>2. CASE ~(i <= k - 1)
      <4>1. /\ i - (k - 1) \in 1..(Len(s)-k) /\ k + (i - (k - 1)) = i + 1
            /\ (k - 1) + (i - (k - 1)) = i
        BY <3>2
      <4>2. r[i] = b[i - (k - 1)]
        BY <1>1, <2>1, <4>1
      <4> QED
        BY <1>1, <3>2, <4>1, <4>2
    <3> QED
      BY <3>1, <3>2
  <2> QED
    BY <2>1, <2>2, <2>3
<1>5. PICK q : q = <<s[k]>> \o r
  OBVIOUS
<1>6. /\ q \in Seq(D) /\ Len(q) = Len(s) /\ q[1] = s[k]
      /\ \A i \in 2..Len(s) : q[i] = r[i-1]
  BY <1>2, <1>4, <1>5
<1>7. \A i \in 1..Len(s) : q[i] = p[i]
  <2> TAKE i \in 1..Len(s)
  <2>1. CASE i = 1
    BY <1>6, <2>1
  <2>2. CASE i # 1
    <3>1. i \in 2..Len(s) /\ i - 1 \in 1..(Len(s)-1) /\ (i - 1) + 1 = i
          /\ (i - 1 <= k - 1 <=> i <= k)
      BY <2>2
    <3> QED
      BY <1>4, <1>6, <2>2, <3>1
  <2> QED
    BY <2>1, <2>2
<1>8. q = [i \in 1..Len(s) |-> q[i]]
  BY <1>6
<1>9. q = p
  BY <1>7, <1>8
<1> QED
  BY <1>3, <1>5, <1>9 DEF RemoveAt, a, b

\* A hit is LruCache's look-up.
LEMMA HitTouches ==
  ASSUME IsFiniteSet(Addr), LruInv, NEW t \in Threads, FindHit(t)
  PROVE  \E k \in Keys : Lru!Touch(k)
<1> USE DEF LruInv, WholeInv
<1>1. PICK len \in Nat : View(len, List)
  BY ListView
<1>2. PICK L : L = List
  OBVIOUS
<1>3. PICK s : s = Objs
  OBVIOUS
<1>4. /\ L \in [1..len -> Addr]
      /\ \A i, j \in 1..len : L[i] = L[j] => i = j
      /\ head = IF len = 0 THEN NULL ELSE L[1]
      /\ \A i \in 1..len : entry[L[i]].next = IF i = len THEN NULL ELSE L[i+1]
      /\ \A i \in 1..len : entry[L[i]].prev = IF i = 1 THEN NULL ELSE L[i-1]
      /\ ListLength = len
  BY <1>1, <1>2 DEF View, Chain
<1>5. s = [i \in 1..len |-> [key |-> entry[L[i]].key, size |-> entry[L[i]].size]]
  BY <1>1, <1>2, <1>3, OldList
<1>6. PICK c : c = curr[t]
  OBVIOUS
<1>7. pc[t] = "walk" /\ c \in Live /\ entry[c].key = arg[t].of /\ arg[t].of \in Keys
  BY <1>6 DEF FindHit, Matches, CacheInv, PointersAreValid, PointerTypes, Live, KeyInv
<1>8. PICK k \in 1..len : c = L[k]
  BY <1>1, <1>2, <1>7 DEF View
<1>9. PICK M : M = [i \in 1..len |-> IF i = 1 THEN L[k] ELSE IF i <= k THEN L[i-1] ELSE L[i]]
  OBVIOUS
<1>10. Chain(len, M)' /\ \A a \in Addr : entry'[a].key = entry[a].key
                                        /\ entry'[a].size = entry[a].size
  <2>1. CASE c = head
    <3>1. k = 1
      <4>1. 1 \in 1..len /\ len # 0
        OBVIOUS
      <4> QED
        BY <1>4, <1>8, <2>1, <4>1
    <3>2. M = L
      <4>1. \A i \in 1..len : M[i] = L[i]
        BY <1>9, <3>1
      <4> QED
        BY <1>4, <1>9, <4>1
    <3>3. UNCHANGED <<entry, head>>
      BY <1>6, <2>1 DEF FindHit
    <3> QED
      BY <1>1, <1>2, <3>2, <3>3 DEF View, Chain
  <2>2. CASE c # head
    <3>1. k # 1 /\ k - 1 \in 1..len /\ 1 \in 1..len /\ head = L[1]
      <4>1. 1 \in 1..len /\ len # 0
        OBVIOUS
      <4> QED
        BY <1>4, <1>8, <2>2, <4>1
    <3> DEFINE before == entry[c].prev
               after == entry[c].next
    <3>2. before = L[k-1] /\ after = IF k = len THEN NULL ELSE L[k+1]
      BY <1>4, <1>8, <3>1
    <3>3. /\ entry' = [a \in Addr |-> [entry[a] EXCEPT
                         !.next = IF a = c THEN head ELSE IF a = before THEN after ELSE @,
                         !.prev = IF a = c THEN NULL ELSE IF a = head THEN c
                                  ELSE IF a = after THEN before ELSE @]]
          /\ head' = c
      BY <1>6, <2>2 DEF FindHit, MoveToFront
    <3> HIDE DEF before, after
    <3>4. \A a \in Addr :
            /\ entry'[a].next = IF a = c THEN head ELSE IF a = before THEN after
                                ELSE entry[a].next
            /\ entry'[a].key = entry[a].key /\ entry'[a].size = entry[a].size
      <4> TAKE a \in Addr
      <4>1. entry[a] \in Entries
        BY DEF CacheInv, PointerTypes
      <4> QED
        BY <3>3, <4>1 DEF Entries
    <3>5. M \in [1..len -> Addr]
      <4>1. \A i \in 1..len : M[i] \in Addr
        <5> TAKE i \in 1..len
        <5>1. i # 1 => i - 1 \in 1..len
          OBVIOUS
        <5> QED
          BY <1>4, <1>9, <5>1
      <4> QED
        BY <1>9, <4>1
    <3>6. \A i, j \in 1..len : M[i] = M[j] => i = j
      <4> DEFINE p(i) == IF i = 1 THEN k ELSE IF i <= k THEN i - 1 ELSE i
      <4>1. \A i \in 1..len : p(i) \in 1..len /\ M[i] = L[p(i)]
        BY <1>9
      <4>2. \A i, j \in 1..len : p(i) = p(j) => i = j
        OBVIOUS
      <4> HIDE DEF p
      <4> QED
        BY <1>4, <4>1, <4>2
    <3>7. head' = M[1] /\ len # 0
      <4>1. M[1] = L[k]
        BY <1>9, <3>1
      <4>2. head' = c
        BY <3>3
      <4>3. len # 0
        OBVIOUS
      <4> QED
        BY ONLY <1>8, <4>1, <4>2, <4>3
    <3>8. ASSUME NEW i \in 1..len
          PROVE  entry'[M[i]].next = IF i = len THEN NULL ELSE M[i+1]
      <4>1. CASE i = 1
        <5>1. M[1] = c /\ c \in Addr /\ len # 1 /\ 2 \in 1..len /\ M[2] = L[1]
          BY <1>4, <1>8, <1>9, <3>1
        <5> QED
          BY <3>1, <3>4, <4>1, <5>1
      <4>2. CASE i # 1 /\ i < k
        <5>1. /\ M[i] = L[i-1] /\ i - 1 \in 1..len /\ i - 1 # k /\ i - 1 # k - 1
              /\ i - 1 # len /\ (i - 1) + 1 = i /\ i # len
          BY <1>9, <4>2
        <5>2. L[i-1] \in Addr /\ L[i-1] # c /\ L[i-1] # before /\ entry[L[i-1]].next = L[i]
          BY <1>4, <1>8, <3>1, <3>2, <5>1
        <5>3. M[i+1] = L[i]
          <6>1. i + 1 \in 1..len /\ i + 1 # 1 /\ i + 1 <= k /\ (i + 1) - 1 = i
            BY <4>2
          <6> QED
            BY <1>9, <6>1
        <5> QED
          BY <3>4, <5>1, <5>2, <5>3
      <4>3. CASE i # 1 /\ i = k
        <5>1. M[i] = L[k-1]
          BY <1>9, <4>3
        <5>2. L[k-1] \in Addr /\ L[k-1] # c
          BY <1>4, <1>8, <3>1
        <5>3. entry'[M[i]].next = after
          BY <3>2, <3>4, <5>1, <5>2
        <5>4. i # len => i + 1 \in 1..len /\ i + 1 # 1 /\ ~(i + 1 <= k)
          BY <4>3
        <5>5. i # len => M[i+1] = L[k+1]
          BY <1>9, <4>3, <5>4
        <5> QED
          BY <3>2, <4>3, <5>3, <5>5
      <4>4. CASE i > k
        <5>1. M[i] = L[i] /\ i # k /\ i # k - 1
          BY <1>9, <4>4
        <5>2. L[i] \in Addr /\ L[i] # c /\ L[i] # before
          BY <1>4, <1>8, <3>1, <3>2, <5>1
        <5>3. i # len => i + 1 \in 1..len /\ i + 1 # 1 /\ ~(i + 1 <= k)
          BY <4>4
        <5>4. i # len => M[i+1] = L[i+1]
          BY <1>9, <5>3
        <5> QED
          BY <1>4, <3>4, <5>1, <5>2, <5>4
      <4> QED
        BY <4>1, <4>2, <4>3, <4>4
    <3> QED
      BY <3>4, <3>5, <3>6, <3>7, <3>8 DEF Chain
  <2> QED
    BY <2>1, <2>2
<1>11. Objs' = [i \in 1..len |-> [key |-> entry'[M[i]].key, size |-> entry'[M[i]].size]]
  BY <1>10, NewList
<1>12. s \in Seq([key : {s[i].key : i \in 1..len}, size : {s[i].size : i \in 1..len}])
       /\ Len(s) = len
  <2> DEFINE K == {s[i].key : i \in 1..len}
             Z == {s[i].size : i \in 1..len}
  <2>1. ASSUME NEW i \in 1..len PROVE s[i] \in [key : K, size : Z]
    <3>1. s[i] = [key |-> entry[L[i]].key, size |-> entry[L[i]].size]
      BY ONLY <1>5, i \in 1..len
    <3>2. s[i].key \in K /\ s[i].size \in Z
      OBVIOUS
    <3>3. s[i] = [key |-> s[i].key, size |-> s[i].size]
      BY ONLY <3>1
    <3> HIDE DEF K, Z
    <3> QED
      BY ONLY <3>2, <3>3
  <2>2. DOMAIN s = 1..len /\ s = [i \in 1..len |-> s[i]]
    BY ONLY <1>5
  <2> HIDE DEF K, Z
  <2> DEFINE R == [key : K, size : Z]
  <2>3. s \in [1..len -> R]
    BY ONLY <2>1, <2>2
  <2> HIDE DEF R
  <2>4. s \in Seq(R) /\ Len(s) = len
    BY ONLY TableIsSeq, <2>3, len \in Nat
  <2> QED
    BY <2>4 DEF K, Z, R
<1>13. Objs' = <<s[k]>> \o RemoveAt(s, k)
  <2>1. <<s[k]>> \o RemoveAt(s, k)
          = [i \in 1..len |-> IF i = 1 THEN s[k] ELSE IF i <= k THEN s[i-1] ELSE s[i]]
    BY <1>12, MovedToFront
  <2>2. ASSUME NEW i \in 1..len
        PROVE  [key |-> entry'[M[i]].key, size |-> entry'[M[i]].size]
                 = IF i = 1 THEN s[k] ELSE IF i <= k THEN s[i-1] ELSE s[i]
    <3> DEFINE j == IF i = 1 THEN k ELSE IF i <= k THEN i - 1 ELSE i
    <3>1. j \in 1..len /\ M[i] = L[j]
          /\ s[j] = IF i = 1 THEN s[k] ELSE IF i <= k THEN s[i-1] ELSE s[i]
      BY <1>9
    <3> HIDE DEF j
    <3>2. L[j] \in Addr
      BY <1>4, <3>1
    <3> QED
      BY <1>5, <1>10, <3>1, <3>2
  <2> QED
    BY <1>11, <2>1, <2>2
<1>14. MutexIsOwned /\ MutexIsOwned' /\ pc[t] \in Holding
  <2>1. CacheInv'
    BY UserStep DEF User, CacheFind
  <2> QED
    BY <1>7, <2>1 DEF CacheInv, Holding
<1>15. Want = <<>>
  <2>1. \A u \in Threads : pc[u] \notin {"evict", "link"}
    BY <1>7, <1>14, HolderIsAlone DEF Holding
  <2> QED
    BY <2>1, WantIs DEF WantsAre
<1>16. /\ pc'[t] = "hit" /\ curr' = curr
       /\ \A u \in Threads \ {t} : pc'[u] = pc[u]
  BY DEF FindHit, GoTo, CacheInv, PointerTypes
<1>17. Want' = <<>>
  <2>1. \A u \in Threads : pc'[u] \notin {"evict", "link"}
    BY <1>7, <1>14, <1>16, HolderIsAlone DEF Holding
  <2> QED
    BY <2>1, WantIsNext DEF WantsAre
<1>18. Found' = <<s[k]>>
  <2>1. Found' = <<Object(curr[t])'>>
    BY <1>14, <1>16, FoundIsNext DEF FoundsAre, AfterHit
  <2>2. Object(curr[t])' = s[k]
    <3>1. Object(curr[t])' = [key |-> entry'[c].key, size |-> entry'[c].size]
      BY <1>6, <1>16 DEF Object
    <3>2. entry'[c].key = entry[c].key /\ entry'[c].size = entry[c].size
      BY <1>4, <1>8, <1>10
    <3> QED
      BY <1>5, <1>8, <3>1, <3>2
  <2> QED
    BY <2>1, <2>2
<1>19. ASSUME NEW j \in 1..(k-1) PROVE s[j].key # s[k].key
  <2>1. j \in 1..len /\ \A i \in 1..j : i \in 1..len /\ i # k
    OBVIOUS
  <2>2. \A i \in 1..j : L[i] # c
    BY <1>4, <1>8, <2>1
  <2>3. entry[L[j]].key # arg[t].of
    BY <1>2, <1>4, <1>6, <1>7, <2>1, <2>2 DEF Passed
  <2> QED
    BY <1>5, <1>7, <1>8, <2>1, <2>3
<1>20. Lru!Touch(s[k].key)
  BY <1>3, <1>12, <1>13, <1>15, <1>17, <1>18, <1>19, Touches
<1>21. s[k].key \in Keys
  BY <1>5, <1>7, <1>8
<1> QED
  BY <1>20, <1>21

\* Freeing the tail is LruCache's drop.
LEMMA EvictDrops ==
  ASSUME IsFiniteSet(Addr), LruInv, NEW t \in Threads, EvictTail(t)
  PROVE  Lru!Drop
<1> USE DEF LruInv, WholeInv
<1>1. PICK len \in Nat : View(len, List)
  BY ListView
<1>2. PICK L : L = List
  OBVIOUS
<1>3. PICK s : s = Objs
  OBVIOUS
<1>4. /\ L \in [1..len -> Addr]
      /\ \A i, j \in 1..len : L[i] = L[j] => i = j
      /\ head = IF len = 0 THEN NULL ELSE L[1]
      /\ tail = IF len = 0 THEN NULL ELSE L[len]
      /\ \A i \in 1..len : entry[L[i]].next = IF i = len THEN NULL ELSE L[i+1]
      /\ \A i \in 1..len : entry[L[i]].prev = IF i = 1 THEN NULL ELSE L[i-1]
  BY <1>1, <1>2 DEF View, Chain
<1>5. s = [i \in 1..len |-> [key |-> entry[L[i]].key, size |-> entry[L[i]].size]]
  BY <1>1, <1>2, <1>3, OldList
<1>6. tail # NULL /\ len # 0 /\ tail = L[len] /\ len \in 1..len
  <2>1. tail # NULL
    BY DEF EvictTail
  <2> QED
    BY <1>4, <2>1
<1>7. PICK M : M = [i \in 1..(len-1) |-> L[i]]
  OBVIOUS
<1>8. \A i \in 1..(len-1) : /\ i \in 1..len /\ i # len
                            /\ M[i] = L[i] /\ L[i] \in Addr /\ L[i] # tail
  <2> TAKE i \in 1..(len-1)
  <2>1. i \in 1..len /\ i # len
    OBVIOUS
  <2> QED
    BY <1>4, <1>6, <1>7, <2>1
<1> DEFINE before == entry[tail].prev
<1>9. before = IF len = 1 THEN NULL ELSE L[len-1]
  BY <1>4, <1>6
<1>10. \A a \in Addr \ {tail} :
          /\ entry'[a].next = IF a = before THEN NULL ELSE entry[a].next
          /\ entry'[a].key = entry[a].key /\ entry'[a].size = entry[a].size
  <2>1. PICK freed : freed = [entry EXCEPT ![tail] = NoEntry]
    OBVIOUS
  <2>2. entry' = IF before # NULL THEN [freed EXCEPT ![before].next = NULL] ELSE freed
    BY <2>1 DEF EvictTail
  <2> HIDE DEF before
  <2> TAKE a \in Addr \ {tail}
  <2>3. entry[a] \in Entries /\ freed[a] = entry[a] /\ freed = [b \in Addr |-> freed[b]]
    BY <2>1 DEF CacheInv, PointerTypes
  <2>4. CASE a # before \/ before = NULL
    <3>1. entry'[a] = entry[a]
      BY <2>2, <2>3, <2>4
    <3> QED
      BY <2>4, <3>1
  <2>5. CASE a = before /\ before # NULL
    <3>1. entry'[a] = [entry[a] EXCEPT !.next = NULL]
      BY <2>2, <2>3, <2>5
    <3> QED
      BY <2>3, <2>5, <3>1 DEF Entries
  <2> QED
    BY <2>4, <2>5
<1>11. head' = IF len = 1 THEN NULL ELSE head
  <2>1. len # 1 => len - 1 \in 1..len
    BY <1>6
  <2>2. before # NULL <=> len # 1
    BY <1>4, <1>9, <2>1
  <2> HIDE DEF before
  <2>3. head' = IF before # NULL THEN head ELSE NULL
    BY DEF EvictTail, before
  <2> QED
    BY <2>2, <2>3
<1>12. Chain(len - 1, M)'
  <2>1. M \in [1..(len-1) -> Addr]
    BY <1>7, <1>8
  <2>2. \A i, j \in 1..(len-1) : M[i] = M[j] => i = j
    BY <1>4, <1>8
  <2>3. head' = IF len - 1 = 0 THEN NULL ELSE M[1]
    <3>1. len # 1 => 1 \in 1..(len-1)
      BY <1>6
    <3> QED
      BY <1>4, <1>6, <1>8, <1>11, <3>1
  <2>4. ASSUME NEW i \in 1..(len-1)
        PROVE  entry'[M[i]].next = IF i = len - 1 THEN NULL ELSE M[i+1]
    <3>1. M[i] = L[i] /\ L[i] \in Addr \ {tail}
          /\ entry[L[i]].next = L[i+1]
      BY <1>4, <1>8
    <3>2. L[i] = before <=> i = len - 1
      <4>1. len # 1 /\ len - 1 \in 1..len
        BY <1>6
      <4> QED
        BY <1>4, <1>8, <1>9, <4>1
    <3>3. i # len - 1 => i + 1 \in 1..(len-1)
      OBVIOUS
    <3> HIDE DEF before
    <3> QED
      BY <1>8, <1>10, <3>1, <3>2, <3>3
  <2> QED
    BY <2>1, <2>2, <2>3, <2>4 DEF Chain
<1>13. len - 1 \in Nat
  BY <1>6
<1>14. Objs' = [i \in 1..(len-1) |-> [key |-> entry'[M[i]].key, size |-> entry'[M[i]].size]]
  BY <1>12, <1>13, NewList
<1>15. s \in Seq([key : {s[i].key : i \in 1..len}, size : {s[i].size : i \in 1..len}])
       /\ Len(s) = len
  <2> DEFINE K == {s[i].key : i \in 1..len}
             Z == {s[i].size : i \in 1..len}
  <2>1. ASSUME NEW i \in 1..len PROVE s[i] \in [key : K, size : Z]
    <3>1. s[i] = [key |-> entry[L[i]].key, size |-> entry[L[i]].size]
      BY ONLY <1>5, i \in 1..len
    <3>2. s[i].key \in K /\ s[i].size \in Z
      OBVIOUS
    <3>3. s[i] = [key |-> s[i].key, size |-> s[i].size]
      BY ONLY <3>1
    <3> HIDE DEF K, Z
    <3> QED
      BY ONLY <3>2, <3>3
  <2>2. DOMAIN s = 1..len /\ s = [i \in 1..len |-> s[i]]
    BY ONLY <1>5
  <2> HIDE DEF K, Z
  <2> DEFINE R == [key : K, size : Z]
  <2>3. s \in [1..len -> R]
    BY ONLY <2>1, <2>2
  <2> HIDE DEF R
  <2>4. s \in Seq(R) /\ Len(s) = len
    BY ONLY TableIsSeq, <2>3, len \in Nat
  <2> QED
    BY <2>4 DEF K, Z, R
<1>16. Objs' = Front(s)
  <2>1. Front(s) = [i \in 1..(len-1) |-> s[i]]
    BY <1>13, <1>15 DEF Front
  <2>2. ASSUME NEW i \in 1..(len-1)
        PROVE  [key |-> entry'[M[i]].key, size |-> entry'[M[i]].size] = s[i]
    BY <1>5, <1>8, <1>10
  <2> QED
    BY <1>14, <2>1, <2>2
<1>17. PICK o : o = [key |-> arg[t].of, size |-> arg[t].len]
  OBVIOUS
<1>18. o.size \in Nat /\ cache_size + o.size > MAX_CACHE_SIZE
  BY <1>17 DEF EvictTail, TooFull, CacheInv, PointerTypes, Bodies, Sizes
<1>19. pc[t] = "evict" /\ pc' = pc /\ arg' = arg /\ curr' = curr
  BY DEF EvictTail
<1>20. MutexIsOwned /\ MutexIsOwned'
  <2>1. CacheInv'
    BY UserStep DEF User, CacheInsert
  <2> QED
    BY <2>1 DEF CacheInv
<1>21. Want = <<o>> /\ Want' = <<o>>
  BY <1>17, <1>19, <1>20, WantIs, WantIsNext DEF WantsAre
<1>22. Found' = Found
  <2>1. \A u \in Threads : pc[u] \notin AfterHit
    BY <1>19, <1>20, HolderIsAlone DEF Holding, AfterHit
  <2> QED
    BY <1>19, <2>1, FoundIs, FoundIsNext DEF FoundsAre
<1>23. s # <<>>
  BY <1>6, <1>15
<1> QED
  BY <1>3, <1>16, <1>18, <1>21, <1>22, <1>23, Drops

\* Linking a new entry is LruCache's put.
LEMMA LinkPuts ==
  ASSUME IsFiniteSet(Addr), LruInv, NEW t \in Threads, Link(t)
  PROVE  Lru!Put
<1> USE DEF LruInv, WholeInv
<1>1. PICK len \in Nat : View(len, List)
  BY ListView
<1>2. PICK L : L = List
  OBVIOUS
<1>3. PICK s : s = Objs
  OBVIOUS
<1>4. /\ L \in [1..len -> Addr]
      /\ \A i, j \in 1..len : L[i] = L[j] => i = j
      /\ \A i \in 1..len : L[i] \in Live
      /\ head = IF len = 0 THEN NULL ELSE L[1]
      /\ \A i \in 1..len : entry[L[i]].next = IF i = len THEN NULL ELSE L[i+1]
  BY <1>1, <1>2 DEF View, Chain
<1>5. s = [i \in 1..len |-> [key |-> entry[L[i]].key, size |-> entry[L[i]].size]]
  BY <1>1, <1>2, <1>3, OldList
<1>6. PICK a \in Addr :
        /\ ~entry[a].live /\ head' = a
        /\ entry' = LET added == [entry EXCEPT ![a] =
                          [live |-> TRUE, key |-> arg[t].of,
                           value |-> StrDup(arg[t].bytes), size |-> arg[t].len,
                           prev |-> NULL, next |-> head]]
                    IN  IF head # NULL THEN [added EXCEPT ![head].prev = a] ELSE added
  <2>1. PICK a \in Addr :
        /\ ~entry[a].live /\ head' = a
        /\ LET added == [entry EXCEPT ![a] =
                          [live |-> TRUE, key |-> arg[t].of,
                           value |-> StrDup(arg[t].bytes), size |-> arg[t].len,
                           prev |-> NULL, next |-> head]]
           IN  IF head # NULL THEN entry' = [added EXCEPT ![head].prev = a]
                              ELSE entry' = added
    BY DEF Link
  <2> QED
    BY <2>1
<1>7. a \notin Live /\ (head # NULL => head \in Live /\ head # a)
  BY <1>6 DEF CacheInv, Linked, PointerTypes, Live
<1>8. PICK o : o = [key |-> arg[t].of, size |-> arg[t].len]
  OBVIOUS
<1>9. /\ entry'[a].next = head /\ entry'[a].key = o.key /\ entry'[a].size = o.size
      /\ \A b \in Live : /\ entry'[b].next = entry[b].next
                         /\ entry'[b].key = entry[b].key /\ entry'[b].size = entry[b].size
  <2>1. PICK e : e = [live |-> TRUE, key |-> arg[t].of, value |-> StrDup(arg[t].bytes),
                      size |-> arg[t].len, prev |-> NULL, next |-> head]
    OBVIOUS
  <2>2. PICK added : added = [entry EXCEPT ![a] = e]
    OBVIOUS
  <2>3. entry' = IF head # NULL THEN [added EXCEPT ![head].prev = a] ELSE added
    BY <1>6, <2>1, <2>2
  <2>4. /\ added = [b \in Addr |-> added[b]] /\ added[a] = e
        /\ \A b \in Live : added[b] = entry[b] /\ entry[b] \in Entries /\ b \in Addr /\ b # a
    BY <1>7, <2>2 DEF CacheInv, PointerTypes, Live
  <2>5. entry'[a] = e
    BY <1>7, <2>3, <2>4
  <2>6. ASSUME NEW b \in Live
        PROVE  /\ entry'[b].next = entry[b].next
               /\ entry'[b].key = entry[b].key /\ entry'[b].size = entry[b].size
    <3>1. CASE head = NULL \/ b # head
      <4>1. entry'[b] = entry[b]
        BY <2>3, <2>4, <3>1
      <4> QED
        BY <4>1
    <3>2. CASE head # NULL /\ b = head
      <4>1. entry'[b] = [entry[b] EXCEPT !.prev = a]
        BY <2>3, <2>4, <3>2
      <4> QED
        BY <2>4, <4>1 DEF Entries
    <3> QED
      BY <3>1, <3>2
  <2> QED
    BY <1>8, <2>1, <2>5, <2>6
<1>10. PICK M : M = [i \in 1..(len+1) |-> IF i = 1 THEN a ELSE L[i-1]]
  OBVIOUS
<1>11. /\ M[1] = a
       /\ \A i \in 1..(len+1) : i # 1 => i - 1 \in 1..len /\ M[i] = L[i-1]
       /\ \A i \in 1..len : i + 1 \in 1..(len+1) /\ M[i+1] = L[i]
  <2>1. M[1] = a
    <3>1. 1 \in 1..(len+1)
      OBVIOUS
    <3> QED
      BY <1>10, <3>1
  <2>2. \A i \in 1..(len+1) : i # 1 => i - 1 \in 1..len /\ M[i] = L[i-1]
    BY <1>10
  <2>3. \A i \in 1..len : i + 1 \in 1..(len+1) /\ M[i+1] = L[i]
    <3> TAKE i \in 1..len
    <3>1. i + 1 \in 1..(len+1) /\ i + 1 # 1 /\ (i + 1) - 1 = i
      OBVIOUS
    <3> QED
      BY <1>10, <3>1
  <2> QED
    BY <2>1, <2>2, <2>3
<1>12. Chain(len + 1, M)'
  <2>1. M \in [1..(len+1) -> Addr]
    <3>1. \A i \in 1..(len+1) : M[i] \in Addr
      BY <1>4, <1>11
    <3> QED
      BY <1>10, <3>1
  <2>2. ASSUME NEW i \in 1..(len+1), NEW j \in 1..(len+1), M[i] = M[j] PROVE i = j
    <3>1. CASE i = 1
      BY <1>4, <1>7, <1>11, <2>2, <3>1
    <3>2. CASE j = 1
      BY <1>4, <1>7, <1>11, <2>2, <3>2
    <3>3. CASE i # 1 /\ j # 1
      <4>1. i - 1 = j - 1
        BY <1>4, <1>11, <2>2, <3>3
      <4> QED
        BY <4>1
    <3> QED
      BY <3>1, <3>2, <3>3
  <2>3. head' = M[1] /\ len + 1 # 0
    BY <1>6, <1>11
  <2>4. ASSUME NEW i \in 1..(len+1)
        PROVE  entry'[M[i]].next = IF i = len + 1 THEN NULL ELSE M[i+1]
    <3>1. CASE i = 1
      <4>1. entry'[M[i]].next = head
        BY <1>9, <1>11, <3>1
      <4>2. len # 0 => M[2] = L[1]
        <5>1. len # 0 => 1 \in 1..len /\ 1 + 1 = 2
          OBVIOUS
        <5> QED
          BY <1>11, <5>1
      <4> QED
        BY <1>4, <3>1, <4>1, <4>2
    <3>2. CASE i # 1
      <4>1. i - 1 \in 1..len /\ M[i] = L[i-1] /\ (i - 1) + 1 = i
            /\ (i - 1 = len <=> i = len + 1)
        BY <1>11, <3>2
      <4>2. entry'[M[i]].next = IF i - 1 = len THEN NULL ELSE L[i]
        BY <1>4, <1>9, <4>1
      <4>3. i # len + 1 => M[i+1] = L[i]
        <5>1. i # len + 1 => i \in 1..len
          OBVIOUS
        <5> QED
          BY <1>11, <5>1
      <4> QED
        BY <4>1, <4>2, <4>3
    <3> QED
      BY <3>1, <3>2
  <2> QED
    BY <2>1, <2>2, <2>3, <2>4 DEF Chain
<1>13. Objs' = [i \in 1..(len+1) |-> [key |-> entry'[M[i]].key, size |-> entry'[M[i]].size]]
  BY <1>12, NewList
<1>14. PICK D : D = {s[i] : i \in 1..len} \cup {o}
  OBVIOUS
<1>15. s \in Seq(D) /\ Len(s) = len /\ o \in D
  BY <1>5, <1>14
<1>16. Objs' = <<o>> \o s
  <2>1. PICK q : q = <<o>> \o s
    OBVIOUS
  <2>2. /\ q = [i \in 1..(len+1) |-> q[i]] /\ q[1] = o
        /\ \A i \in 1..(len+1) : i # 1 => q[i] = s[i-1]
    <3>1. <<o>> \in Seq(D) /\ Len(<<o>>) = 1 /\ <<o>>[1] = o
      BY <1>15
    <3> QED
      BY <1>15, <2>1, <3>1
  <2>3. ASSUME NEW i \in 1..(len+1)
        PROVE  [key |-> entry'[M[i]].key, size |-> entry'[M[i]].size] = q[i]
    <3>1. CASE i = 1
      BY <1>8, <1>9, <1>11, <2>2, <3>1
    <3>2. CASE i # 1
      <4>1. i - 1 \in 1..len /\ M[i] = L[i-1] /\ L[i-1] \in Live
        BY <1>4, <1>11, <3>2
      <4>2. q[i] = [key |-> entry[L[i-1]].key, size |-> entry[L[i-1]].size]
        BY <1>5, <2>2, <3>2, <4>1
      <4> QED
        BY <1>9, <4>1, <4>2
    <3> QED
      BY <3>1, <3>2
  <2>4. Objs' = [i \in 1..(len+1) |-> q[i]]
    BY <1>13, <2>3
  <2> QED
    BY <2>1, <2>2, <2>4
<1>17. o.size \in Nat /\ ~(cache_size + o.size > MAX_CACHE_SIZE)
  BY <1>8 DEF Link, SizeInv, TooFull, CacheInv, PointerTypes, Bodies, Sizes
<1>18. /\ pc[t] = "link" /\ pc'[t] = "insert_unlock" /\ arg' = arg /\ curr' = curr
       /\ \A u \in Threads \ {t} : pc'[u] = pc[u]
  BY DEF Link, GoTo, CacheInv, PointerTypes
<1>19. \A u \in Threads \ {t} : pc[u] \notin Holding
  BY <1>18, HolderIsAlone DEF CacheInv, Holding
<1>20. Want = <<o>>
  BY <1>8, <1>18, WantIs DEF WantsAre, CacheInv
<1>21. Want' = <<>>
  BY <1>18, <1>19, WantIsNext DEF WantsAre, Holding
<1>22. Found' = Found
  <2>1. \A u \in Threads : pc[u] \notin AfterHit /\ pc'[u] \notin AfterHit
    BY <1>18, <1>19 DEF Holding, AfterHit
  <2> QED
    BY <2>1, FoundIs, FoundIsNext DEF FoundsAre
<1> QED
  BY <1>3, <1>16, <1>17, <1>20, <1>21, <1>22, Puts

LEMMA SameWant ==
  ASSUME MutexIsOwned, MutexIsOwned',
         \A u \in Threads : pc'[u] \in {"evict", "link"} <=> pc[u] \in {"evict", "link"},
         \A u \in Threads : pc[u] \in {"evict", "link"} => arg'[u] = arg[u]
  PROVE  Want' = Want
<1>1. CASE \E t \in Threads : pc[t] \in {"evict", "link"}
  <2>1. PICK t \in Threads : pc[t] \in {"evict", "link"}
    BY <1>1
  <2>2. Want = <<[key |-> arg[t].of, size |-> arg[t].len]>>
    BY <2>1, WantIs DEF WantsAre
  <2>3. Want' = <<[key |-> arg'[t].of, size |-> arg'[t].len]>>
    BY <2>1, WantIsNext DEF WantsAre
  <2> QED
    BY <2>1, <2>2, <2>3
<1>2. CASE \A t \in Threads : pc[t] \notin {"evict", "link"}
  BY <1>2, WantIs, WantIsNext DEF WantsAre
<1> QED
  BY <1>1, <1>2

LEMMA SameFound ==
  ASSUME MutexIsOwned, MutexIsOwned', entry' = entry,
         \A u \in Threads : pc'[u] \in AfterHit <=> pc[u] \in AfterHit,
         \A u \in Threads : pc[u] \in AfterHit => curr'[u] = curr[u]
  PROVE  Found' = Found
<1>1. CASE \E t \in Threads : pc[t] \in AfterHit
  <2>1. PICK t \in Threads : pc[t] \in AfterHit
    BY <1>1
  <2>2. Found = <<Object(curr[t])>>
    BY <2>1, FoundIs DEF FoundsAre
  <2>3. Found' = <<Object(curr[t])'>>
    BY <2>1, FoundIsNext DEF FoundsAre
  <2>4. Object(curr[t])' = Object(curr[t])
    BY <2>1 DEF Object
  <2> QED
    BY <2>2, <2>3, <2>4
<1>2. CASE \A t \in Threads : pc[t] \notin AfterHit
  BY <1>2, FoundIs, FoundIsNext DEF FoundsAre
<1> QED
  BY <1>1, <1>2

\* Locking the mutex to insert is LruCache's begin.
LEMMA InsertBegins ==
  ASSUME IsFiniteSet(Addr), LruInv, NEW t \in Threads, InsertLock(t)
  PROVE  \E o \in Lru!Objects : Lru!Begin(o)
<1> USE DEF LruInv, WholeInv
<1>1. PICK o : o = [key |-> arg[t].of, size |-> arg[t].len]
  OBVIOUS
<1>2. o \in Lru!Objects
  <2>1. arg[t].of \in Keys
    BY DEF InsertLock, KeyInv
  <2>2. arg[t].len \in Sizes
    BY DEF CacheInv, PointerTypes, Bodies
  <2> QED
    BY <1>1, <2>1, <2>2 DEF Lru!Objects
<1>3. MutexIsOwned /\ MutexIsOwned'
  <2>1. CacheInv'
    BY UserStep DEF User, CacheInsert
  <2> QED
    BY <2>1 DEF CacheInv
<1>4. /\ pc[t] = "insert_lock" /\ pc'[t] \in {"evict", "link"} /\ arg' = arg /\ curr' = curr
      /\ \A u \in Threads \ {t} : pc'[u] = pc[u]
      /\ UNCHANGED listVars
  BY DEF InsertLock, GoTo, CacheInv, PointerTypes
<1>5. \A u \in Threads : pc[u] \notin Holding
  BY <1>3, <1>4 DEF InsertLock, Lock, MutexIsOwned, Holding, AfterHit
<1>6. Want = <<>>
  BY <1>5, WantIs DEF WantsAre, Holding
<1>7. Want' = <<o>>
  BY <1>1, <1>3, <1>4, WantIsNext DEF WantsAre
<1>8. Found' = Found
  BY <1>3, <1>4, <1>5, SameFound DEF Holding, AfterHit, listVars
<1>9. Objs' = Objs
  BY <1>4, SameList
<1> QED
  BY <1>2, <1>6, <1>7, <1>8, <1>9, Begins

\* What the other steps do, LruCache does not see.
LEMMA OthersStutter ==
  ASSUME IsFiniteSet(Addr), LruInv, NEW t \in Threads,
         \/ FindLock(t) \/ FindNext(t) \/ FindMiss(t) \/ EvictEnd(t) \/ LinkNoMemory(t)
         \/ InsertUnlock(t) \/ Call(t) \/ Fetched(t) \/ Return(t) \/ ReadEntry(t)
  PROVE  UNCHANGED Lru!vars
<1> USE DEF LruInv, WholeInv
<1>1. MutexIsOwned /\ MutexIsOwned'
  <2>1. CacheInv'
    BY UserStep DEF User, CacheInsert, CacheFind
  <2> QED
    BY <2>1 DEF CacheInv
<1>2. /\ UNCHANGED listVars
      /\ \A u \in Threads \ {t} : pc'[u] = pc[u] /\ arg'[u] = arg[u] /\ curr'[u] = curr[u]
  BY DEF FindLock, FindNext, FindMiss, EvictEnd, LinkNoMemory, InsertUnlock, Call, Fetched,
         Return, ReadEntry, GoTo, CacheInv, PointerTypes
<1>3. /\ pc'[t] \in {"evict", "link"} <=> pc[t] \in {"evict", "link"}
      /\ pc'[t] \in AfterHit <=> pc[t] \in AfterHit
      /\ pc[t] \in {"evict", "link"} => arg'[t] = arg[t]
      /\ pc[t] \in AfterHit => curr'[t] = curr[t]
  BY DEF FindLock, FindNext, FindMiss, EvictEnd, LinkNoMemory, InsertUnlock, Call, Fetched,
         Return, ReadEntry, GoTo, CacheInv, PointerTypes, AfterHit
<1>4. Want' = Want
  BY <1>1, <1>2, <1>3, SameWant
<1>5. Found' = Found
  BY <1>1, <1>2, <1>3, SameFound DEF listVars
<1> QED
  BY <1>2, <1>4, <1>5, Stutters

LEMMA LruStep ==
  ASSUME IsFiniteSet(Addr), LruInv, [UsersNext]_usersVars
  PROVE  [Lru!Next]_(Lru!vars)
<1>1. ASSUME NEW t \in Threads, User(t) PROVE Lru!Next \/ UNCHANGED Lru!vars
  <2>1. CASE FindHit(t)
    BY <2>1, HitTouches DEF Lru!Next
  <2>2. CASE InsertLock(t)
    BY <2>2, InsertBegins DEF Lru!Next
  <2>3. CASE EvictTail(t)
    BY <2>3, EvictDrops DEF Lru!Next
  <2>4. CASE Link(t)
    BY <2>4, LinkPuts DEF Lru!Next
  <2>5. CASE \/ FindLock(t) \/ FindNext(t) \/ FindMiss(t) \/ EvictEnd(t) \/ LinkNoMemory(t)
             \/ InsertUnlock(t) \/ Call(t) \/ Fetched(t) \/ Return(t) \/ ReadEntry(t)
    BY <2>5, OthersStutter
  <2> QED
    BY <1>1, <2>1, <2>2, <2>3, <2>4, <2>5 DEF User, CacheFind, CacheInsert
<1>2. CASE UNCHANGED usersVars
  <2>1. MutexIsOwned /\ MutexIsOwned'
    BY UsersStepInv DEF LruInv, WholeInv, CacheInv
  <2>2. Want' = Want
    BY <1>2, <2>1, SameWant DEF usersVars
  <2>3. Found' = Found
    BY <1>2, <2>1, SameFound DEF usersVars, cacheVars, listVars
  <2> QED
    BY <1>2, <2>2, <2>3, Stutters DEF usersVars, cacheVars, LruInv, WholeInv
<1> QED
  BY <1>1, <1>2 DEF UsersNext

LEMMA LruInvKept ==
  ASSUME IsFiniteSet(Addr), LruInv, [UsersNext]_usersVars PROVE LruInv'
<1>1. CASE UsersNext
  BY <1>1, UserWhole, KeysKept, UserPassed DEF UsersNext, LruInv
<1>2. CASE UNCHANGED usersVars
  <2>1. WholeInv'
    <3>1. CacheInv'
      BY UsersStepInv DEF LruInv, WholeInv
    <3>2. SizeInv'
      BY <1>2, QuietSize DEF LruInv, WholeInv, usersVars, cacheVars
    <3> QED
      BY <1>2, <3>1, <3>2 DEF LruInv, WholeInv, usersVars
  <2>2. KeyInv'
    BY <1>2 DEF LruInv, KeyInv, usersVars
  <2>3. Passed'
    BY <1>2, QuietPassed DEF LruInv, WholeInv, usersVars, cacheVars
  <2> QED
    BY <2>1, <2>2, <2>3 DEF LruInv
<1> QED
  BY <1>1, <1>2

LEMMA LruStart ==
  ASSUME IsFiniteSet(Addr), UsersInit
  PROVE  LruInv /\ Lru!Init
<1>1. WholeInv
  BY UsersInitWhole
<1>2. KeyInv /\ Passed
  BY DEF UsersInit, KeyInv, Passed
<1>3. PICK len \in Nat : View(len, List)
  BY <1>1, ListView DEF WholeInv
<1>4. len = 0
  <2>1. tail = NULL
    BY DEF UsersInit, CacheInit
  <2>2. len # 0 => List[len] \in Addr /\ tail = List[len]
    BY <1>3 DEF View, Chain
  <2> QED
    BY <2>1, <2>2
<1>5. Objs = <<>>
  BY <1>3, <1>4, OldList
<1>6. Want = <<>>
  BY WantIs DEF WantsAre, UsersInit
<1>7. Found = <<>>
  BY FoundIs DEF FoundsAre, UsersInit, AfterHit
<1> QED
  BY <1>1, <1>2, <1>5, <1>6, <1>7, Zenon DEF LruInv, Lru!Init, Objs, Want, Found

\* The cache implements LruCache: whatever the threads do at once, a hit moves
\* the first entry with its key to the front, and an insertion drops the least
\* recently used entries, only while the new one does not fit, and puts it in
\* front (cache.c:19-99).
THEOREM CacheIsLru ==
  ASSUME IsFiniteSet(Addr)
  PROVE  UsersSpec => IsLruCache
<1>1. UsersInit => LruInv /\ Lru!Init
  BY LruStart
<1>2. LruInv /\ [UsersNext]_usersVars => LruInv'
  BY LruInvKept
<1>3. LruInv /\ [UsersNext]_usersVars => [Lru!Next]_(Lru!vars)
  BY LruStep
<1> QED
  BY <1>1, <1>2, <1>3, PTL DEF UsersSpec, IsLruCache, Lru!Spec

(***************************************************************************)
(* The proxy                                                               *)
(***************************************************************************)

LEMMA Parameters ==
  /\ MAXLINE \in Nat \ {0} /\ MAXFD \in Nat /\ MAXFD >= 3
  /\ Size \in [Keys -> Nat]
  /\ Origins \subseteq OriginBehaviours
  BY ProxyAssumption

USE CacheAssumption, ParseAssumption, Parameters

\* The places from where a thread has reached its origin on.
Forwarding == {"send", "read", "write", "insert_lock", "evict", "link",
               "insert_unlock", "inserted", "done"}
Places == {"none", "start"} \cup ParsePlaces \cup CachePlaces \cup AfterHit
            \cup Forwarding

Listening == <<"listen">>
FdStates == {Closed, Listening} \cup {Conn(t) : t \in Threads}
              \cup {Origin(t) : t \in Threads}

OriginStates == [of : Uris, at : Nat, left : Nat, end : OriginBehaviours \cup {"none"}]

ThreadTypes ==
  /\ pc \in [Threads -> Places]
  /\ connfd \in [Threads -> FDs \cup {NoCell}]
  /\ clientfd \in [Threads -> FDs \cup {NoCell}]
  /\ buf \in [Threads -> Seq(Bytes)] /\ \A t \in Threads : Len(buf[t]) <= MAXLINE
  /\ body \in [Threads -> Seq(Bytes)] /\ \A t \in Threads : Len(body[t]) <= MAX_OBJECT_SIZE
  /\ size \in [Threads -> Nat]
  /\ reply \in [Threads -> Seq(Bytes)]
  /\ origin \in [Threads -> OriginStates]
  /\ gone \subseteq Threads
  /\ alive \in BOOLEAN

ParseTypes ==
  /\ input \in [Threads -> Inputs]
  /\ line \in [Threads -> Nat]
  /\ \A t \in Threads : line[t] \in 0..Len(input[t].hdrs)
  /\ DOMAIN extra = Threads
  /\ olds \in [buf : Threads \cup {NULL}, line : Nat, rest : {"value", "newline", "end"}]

MainTypes ==
  /\ main \in [at : {"malloc", "accept", "create"}, cell : Cells \cup {NoCell},
               conn : Threads \cup {NULL}]
  /\ cell \in [Cells -> FDs \cup {NoCell, Unset}]
  /\ vargp \in [Threads -> Cells \cup {NoCell}]
  /\ fdtab \in [FDs -> FdStates]

\* main has accepted the connection of t and not yet created its thread.
AtMain(t) == main.at = "create" /\ main.conn = t

\* The connection of a client from accept to close, and its descriptor.
HasConn(t) == AtMain(t) \/ pc[t] = "start" \/ Connected(t)
ConnFD(t) == IF AtMain(t) THEN cell[main.cell]
             ELSE IF pc[t] = "start" THEN cell[vargp[t]] ELSE connfd[t]

MainInv ==
  /\ main.at \in {"accept", "create"} => main.cell \in Cells
  /\ main.at = "accept" => cell[main.cell] = Unset
  /\ main.at = "create" => main.conn \in Threads /\ pc[main.conn] = "none"

\* Every descriptor in use is open on what it is used for, and every open one is
\* the one descriptor of what it is open on.
DescriptorInv ==
  /\ \A t \in Threads :
       /\ pc[t] = "start" => vargp[t] \in Cells
       /\ HasConn(t) => ConnFD(t) \in FDs /\ fdtab[ConnFD(t)] = Conn(t)
       /\ Forwarded(t) <=> pc[t] \in Forwarding
       /\ Forwarded(t) => fdtab[clientfd[t]] = Origin(t)
  /\ fdtab[3] = Listening
  /\ \A f \in FDs :
       /\ fdtab[f] = Listening => f = 3
       /\ \A t \in Threads :
            /\ fdtab[f] = Conn(t) => HasConn(t) /\ f = ConnFD(t)
            /\ fdtab[f] = Origin(t) => Forwarded(t) /\ f = clientfd[t]

NetInv == ThreadTypes /\ ParseTypes /\ MainTypes /\ MainInv /\ DescriptorInv

----------------------------------------------------------------------------
(* Descriptors *)

LEMMA FdStatesDiffer ==
  /\ \A t, u \in Threads : /\ Conn(t) = Conn(u) => t = u
                           /\ Origin(t) = Origin(u) => t = u
                           /\ Conn(t) # Origin(u)
  /\ \A t \in Threads : /\ Conn(t) # Closed /\ Conn(t) # Listening
                        /\ Origin(t) # Closed /\ Origin(t) # Listening
  /\ Closed # Listening
<1>1. \A t, u \in Threads : /\ Conn(t) = Conn(u) => t = u
                            /\ Origin(t) = Origin(u) => t = u
                            /\ Conn(t) # Origin(u)
  BY DEF Conn, Origin
<1>2. /\ Closed[1] = "closed" /\ Listening[1] = "listen"
      /\ \A t : Conn(t)[1] = "conn" /\ Origin(t)[1] = "origin"
  BY DEF Closed, Listening, Conn, Origin
<1> QED
  BY <1>1, <1>2

LEMMA FDsAreNatural ==
  /\ FDs \subseteq Nat /\ 3 \in FDs
  /\ NoCell \notin FDs /\ Unset \notin FDs /\ Unset # NoCell
  /\ NoCell \notin Cells /\ Cells \subseteq Int
  BY DEF FDs, NoCell, Unset, Cells

LEMMA LowestIsFree ==
  ASSUME FreeFDs # {} PROVE LowestFD \in FreeFDs
<1>1. FreeFDs \in SUBSET Nat
  BY DEF FreeFDs, FDs
<1>2. \E f \in FreeFDs : \A g \in FreeFDs : f <= g
  BY <1>1, LeastNatural
<1> QED
  BY <1>2 DEF LowestFD

\* A thread that stays between accept and close, on the same side of the
\* origin's connection, leaves the descriptors alone.
LEMMA DescriptorsKept ==
  ASSUME NetInv, NEW t \in Threads, NEW place, GoTo(t, place),
         pc[t] \notin {"none", "start", "done", "hit_done"},
         place \notin {"none", "start", "done", "hit_done"},
         pc[t] \in Forwarding <=> place \in Forwarding,
         UNCHANGED <<main, cell, vargp, fdtab, connfd, clientfd>>
  PROVE  MainInv' /\ DescriptorInv'
<1>1. /\ pc'[t] = place /\ \A u \in Threads \ {t} : pc'[u] = pc[u]
      /\ pc[t] \in Places
  BY DEF NetInv, ThreadTypes, GoTo
<1>2. \A u \in Threads : /\ HasConn(u)' <=> HasConn(u)
                         /\ HasConn(u) => ConnFD(u)' = ConnFD(u)
                         /\ Forwarded(u)' <=> Forwarded(u)
                         /\ pc'[u] = "start" <=> pc[u] = "start"
                         /\ pc'[u] \in Forwarding <=> pc[u] \in Forwarding
                         /\ pc[u] = "none" => pc'[u] = "none"
  BY <1>1 DEF HasConn, ConnFD, AtMain, Connected, Served, Forwarded
<1>3. MainInv'
  BY <1>2 DEF NetInv, MainInv
<1> HIDE DEF HasConn, ConnFD, Forwarded
<1>4. DescriptorInv'
  BY <1>2 DEF NetInv, DescriptorInv
<1> QED
  BY <1>3, <1>4

LEMMA MainMallocDescriptors ==
  ASSUME NetInv, MainMalloc PROVE MainTypes' /\ MainInv' /\ DescriptorInv'
<1>1. PICK c \in Cells :
        /\ cell[c] = NoCell
        /\ main' = [main EXCEPT !.at = "accept", !.cell = c]
        /\ cell' = [cell EXCEPT ![c] = Unset]
  BY DEF MainMalloc, FreeCells
<1>2. main.at = "malloc" /\ UNCHANGED <<pc, vargp, fdtab, connfd, clientfd>>
  BY DEF MainMalloc, netVars
<1>3. /\ main'.at = "accept" /\ main'.cell = c
      /\ cell'[c] = Unset /\ \A d \in Cells \ {c} : cell'[d] = cell[d]
  BY <1>1, FDsAreNatural DEF NetInv, MainTypes
<1>4. MainTypes'
  BY <1>1, <1>2 DEF NetInv, MainTypes
<1>5. \A u \in Threads : pc[u] = "start" => vargp[u] \in Cells /\ vargp[u] # c
  BY <1>1, <1>2, FDsAreNatural
  DEF NetInv, DescriptorInv, HasConn, ConnFD, AtMain
<1>6. \A u \in Threads : /\ HasConn(u)' <=> HasConn(u)
                         /\ HasConn(u) => ConnFD(u)' = ConnFD(u)
                         /\ Forwarded(u)' <=> Forwarded(u)
  BY <1>2, <1>3, <1>5 DEF HasConn, ConnFD, AtMain, Connected, Served, Forwarded
<1>7. MainInv'
  BY <1>3 DEF MainInv
<1> HIDE DEF HasConn, ConnFD, Forwarded
<1>8. DescriptorInv'
  BY <1>2, <1>6 DEF NetInv, DescriptorInv
<1> QED
  BY <1>4, <1>7, <1>8

LEMMA MainAcceptDescriptors ==
  ASSUME NetInv, NEW t \in Threads, MainAccept(t)
  PROVE  MainTypes' /\ MainInv' /\ DescriptorInv'
<1>1. PICK f \in FDs : f = LowestFD /\ fdtab[f] = Closed
  BY LowestIsFree DEF MainAccept, FreeFDs
<1>2. /\ main.at = "accept" /\ pc[t] = "none" /\ main.cell \in Cells
      /\ fdtab' = [fdtab EXCEPT ![f] = Conn(t)]
      /\ cell' = [cell EXCEPT ![main.cell] = f]
      /\ main' = [main EXCEPT !.at = "create", !.conn = t]
      /\ UNCHANGED <<pc, vargp, connfd, clientfd>>
      /\ cell[main.cell] = Unset
  BY <1>1 DEF MainAccept, NetInv, MainInv
<1>3. /\ main'.at = "create" /\ main'.cell = main.cell /\ main'.conn = t
      /\ cell'[main.cell] = f /\ \A d \in Cells \ {main.cell} : cell'[d] = cell[d]
      /\ fdtab'[f] = Conn(t) /\ \A g \in FDs \ {f} : fdtab'[g] = fdtab[g]
  BY <1>2 DEF NetInv, MainTypes
<1>4. MainTypes'
  BY <1>1, <1>2 DEF NetInv, MainTypes, FdStates
<1>5. \A u \in Threads : pc[u] = "start" => vargp[u] \in Cells /\ vargp[u] # main.cell
  BY <1>2, FDsAreNatural DEF NetInv, DescriptorInv, HasConn, ConnFD, AtMain
<1>6. \A u \in Threads \ {t} : /\ HasConn(u)' <=> HasConn(u)
                               /\ HasConn(u) => ConnFD(u)' = ConnFD(u)
  BY <1>2, <1>3, <1>5 DEF HasConn, ConnFD, AtMain, Connected, Served
<1>7. HasConn(t)' /\ ConnFD(t)' = f /\ ~HasConn(t)
  BY <1>2, <1>3 DEF HasConn, ConnFD, AtMain, Connected
<1>8. \A u \in Threads : Forwarded(u)' <=> Forwarded(u)
  BY <1>2 DEF Forwarded
<1>9. MainInv'
  BY <1>2, <1>3 DEF MainInv
<1> HIDE DEF HasConn, ConnFD, Forwarded
<1>10. DescriptorInv'
  <2>1. f # 3 /\ fdtab'[3] = Listening
    BY <1>1, <1>3, FdStatesDiffer, FDsAreNatural DEF NetInv, DescriptorInv
  <2>2. ASSUME NEW u \in Threads
        PROVE  /\ pc'[u] = "start" => vargp'[u] \in Cells
               /\ HasConn(u)' => ConnFD(u)' \in FDs /\ fdtab'[ConnFD(u)'] = Conn(u)
               /\ Forwarded(u)' <=> pc'[u] \in Forwarding
               /\ Forwarded(u)' => fdtab'[clientfd'[u]] = Origin(u)
    <3>1. HasConn(u)' => ConnFD(u)' \in FDs /\ fdtab'[ConnFD(u)'] = Conn(u)
      BY <1>1, <1>3, <1>6, <1>7, FdStatesDiffer DEF NetInv, DescriptorInv
    <3>2. Forwarded(u)' => fdtab'[clientfd'[u]] = Origin(u)
      BY <1>1, <1>2, <1>3, <1>8, FdStatesDiffer
      DEF NetInv, ThreadTypes, DescriptorInv, Forwarded
    <3> QED
      BY <1>2, <1>5, <1>8, <3>1, <3>2 DEF NetInv, DescriptorInv
  <2>3. ASSUME NEW g \in FDs
        PROVE  /\ fdtab'[g] = Listening => g = 3
               /\ \A u \in Threads :
                    /\ fdtab'[g] = Conn(u) => HasConn(u)' /\ g = ConnFD(u)'
                    /\ fdtab'[g] = Origin(u) => Forwarded(u)' /\ g = clientfd'[u]
    BY <1>2, <1>3, <1>6, <1>7, <1>8, FdStatesDiffer DEF NetInv, DescriptorInv
  <2> QED
    BY <2>1, <2>2, <2>3 DEF DescriptorInv
<1> QED
  BY <1>4, <1>9, <1>10

LEMMA MainCreateDescriptors ==
  ASSUME NetInv, MainCreate PROVE MainTypes' /\ MainInv' /\ DescriptorInv'
<1>1. PICK t \in Threads : t = main.conn
  BY DEF MainCreate, NetInv, MainInv
<1>2. /\ main.at = "create" /\ pc[t] = "none" /\ main.cell \in Cells
      /\ pc' = [pc EXCEPT ![t] = "start"]
      /\ vargp' = [vargp EXCEPT ![t] = main.cell]
      /\ main' = [at |-> "malloc", cell |-> NoCell, conn |-> NULL]
      /\ UNCHANGED <<cell, fdtab, connfd, clientfd>>
  BY <1>1 DEF MainCreate, GoTo, netVars, NetInv, MainInv
<1>3. /\ main'.at = "malloc" /\ pc'[t] = "start" /\ vargp'[t] = main.cell
      /\ \A u \in Threads \ {t} : pc'[u] = pc[u] /\ vargp'[u] = vargp[u]
  BY <1>2 DEF NetInv, MainTypes, ThreadTypes
<1>4. MainTypes'
  BY <1>2 DEF NetInv, MainTypes
<1>5. \A u \in Threads : /\ HasConn(u)' <=> HasConn(u)
                         /\ HasConn(u) => ConnFD(u)' = ConnFD(u)
                         /\ Forwarded(u)' <=> Forwarded(u)
                         /\ pc'[u] = "start" => vargp'[u] \in Cells
                         /\ pc'[u] \in Forwarding <=> pc[u] \in Forwarding
  BY <1>1, <1>2, <1>3
  DEF HasConn, ConnFD, AtMain, Connected, Served, Forwarded, Forwarding, NetInv, DescriptorInv
<1>6. MainInv'
  BY <1>3 DEF MainInv
<1> HIDE DEF HasConn, ConnFD, Forwarded
<1>7. DescriptorInv'
  BY <1>2, <1>5 DEF NetInv, DescriptorInv
<1> QED
  BY <1>4, <1>6, <1>7

LEMMA StartDescriptors ==
  ASSUME NetInv, NEW t \in Threads, Start(t)
  PROVE  MainTypes' /\ MainInv' /\ DescriptorInv'
<1> DEFINE c == vargp[t]
<1>1. /\ pc[t] = "start" /\ c \in Cells /\ ~AtMain(t)
      /\ cell[c] \in FDs /\ fdtab[cell[c]] = Conn(t)
  BY DEF Start, NetInv, MainInv, DescriptorInv, HasConn, ConnFD, AtMain
<1>2. /\ pc' = [pc EXCEPT ![t] = "read_line"]
      /\ connfd' = [connfd EXCEPT ![t] = cell[c]]
      /\ cell' = [cell EXCEPT ![c] = NoCell]
      /\ vargp' = [vargp EXCEPT ![t] = NoCell]
      /\ UNCHANGED <<main, fdtab, clientfd>>
  BY DEF Start, GoTo
<1>3. /\ pc'[t] = "read_line" /\ connfd'[t] = cell[c]
      /\ \A u \in Threads \ {t} :
           pc'[u] = pc[u] /\ connfd'[u] = connfd[u] /\ vargp'[u] = vargp[u]
      /\ cell'[c] = NoCell /\ \A d \in Cells \ {c} : cell'[d] = cell[d]
  BY <1>1, <1>2 DEF NetInv, MainTypes, ThreadTypes
<1>4. MainTypes'
  BY <1>1, <1>2 DEF NetInv, MainTypes
<1>5. main.at \in {"accept", "create"} => main.cell # c
  <2>1. main.at = "accept" => cell[main.cell] \notin FDs
    BY FDsAreNatural DEF NetInv, MainInv
  <2>2. main.at = "create" => fdtab[cell[main.cell]] = Conn(main.conn) /\ main.conn # t
    BY <1>1 DEF NetInv, MainInv, DescriptorInv, HasConn, ConnFD, AtMain
  <2> QED
    BY <1>1, <2>1, <2>2, FdStatesDiffer DEF NetInv, MainInv
<1>6. \A u \in Threads \ {t} : pc[u] = "start" => vargp[u] # c
  <2>1. \A u \in Threads : pc[u] = "start" => fdtab[cell[vargp[u]]] = Conn(u)
    BY DEF NetInv, MainInv, DescriptorInv, HasConn, ConnFD, AtMain
  <2> QED
    BY <1>1, <2>1, FdStatesDiffer
<1> HIDE DEF c
<1>7. \A u \in Threads \ {t} : /\ HasConn(u)' <=> HasConn(u)
                               /\ HasConn(u) => ConnFD(u)' = ConnFD(u)
  <2>1. \A u \in Threads : AtMain(u)' <=> AtMain(u)
    BY <1>2 DEF AtMain
  <2>2. ASSUME NEW u \in Threads \ {t}
        PROVE  Connected(u)' <=> Connected(u)
    BY <1>3 DEF Connected, Served
  <2>3. ASSUME NEW u \in Threads \ {t}, HasConn(u)
        PROVE  ConnFD(u)' = ConnFD(u)
    <3>1. CASE AtMain(u)
      BY <1>2, <1>3, <1>5, <2>1, <3>1 DEF ConnFD, AtMain, NetInv, MainInv
    <3>2. CASE ~AtMain(u) /\ pc[u] = "start"
      BY <1>2, <1>3, <1>6, <2>1, <3>2 DEF ConnFD, NetInv, DescriptorInv
    <3>3. CASE ~AtMain(u) /\ pc[u] # "start"
      BY <1>3, <2>1, <3>3 DEF ConnFD
    <3> QED
      BY <3>1, <3>2, <3>3
  <2> QED
    BY <1>3, <2>1, <2>2, <2>3 DEF HasConn
<1>8. HasConn(t)' /\ HasConn(t) /\ ConnFD(t)' = cell[c] /\ ConnFD(t) = cell[c]
  BY <1>1, <1>2, <1>3 DEF HasConn, ConnFD, AtMain, Connected, Served, c
<1>9. \A u \in Threads : /\ Forwarded(u)' <=> Forwarded(u)
                         /\ pc'[u] = "start" => pc[u] = "start"
                         /\ pc'[u] \in Forwarding <=> pc[u] \in Forwarding
                         /\ pc[u] = "none" => pc'[u] = "none"
  BY <1>1, <1>2, <1>3 DEF Forwarded, Forwarding
<1>10. MainInv'
  BY <1>2, <1>3, <1>5, <1>9 DEF NetInv, MainInv
<1>11. \A u \in Threads : pc'[u] = "start" => vargp'[u] \in Cells
  BY <1>3, <1>9 DEF NetInv, DescriptorInv
<1> HIDE DEF HasConn, ConnFD, Forwarded
<1>12. DescriptorInv'
  BY <1>2, <1>7, <1>8, <1>9, <1>11 DEF NetInv, DescriptorInv
<1> QED
  BY <1>4, <1>10, <1>12

LEMMA OpenDescriptors ==
  ASSUME NetInv, NEW t \in Threads, OpenClientfd(t)
  PROVE  MainTypes' /\ MainInv' /\ DescriptorInv'
<1>1. PICK f \in FDs : f = LowestFD /\ fdtab[f] = Closed
  BY LowestIsFree DEF OpenClientfd, FreeFDs
<1>2. /\ pc[t] = "missed"
      /\ pc' = [pc EXCEPT ![t] = "send"]
      /\ clientfd' = [clientfd EXCEPT ![t] = f]
      /\ fdtab' = [fdtab EXCEPT ![f] = Origin(t)]
      /\ UNCHANGED <<main, cell, vargp, connfd>>
  BY <1>1 DEF OpenClientfd, GoTo, mainVars
<1>3. /\ pc'[t] = "send" /\ clientfd'[t] = f
      /\ \A u \in Threads \ {t} : pc'[u] = pc[u] /\ clientfd'[u] = clientfd[u]
      /\ fdtab'[f] = Origin(t) /\ \A g \in FDs \ {f} : fdtab'[g] = fdtab[g]
  BY <1>1, <1>2 DEF NetInv, MainTypes, ThreadTypes
<1>4. MainTypes'
  BY <1>1, <1>2 DEF NetInv, MainTypes, FdStates
<1>5. \A u \in Threads : /\ HasConn(u)' <=> HasConn(u)
                         /\ HasConn(u) => ConnFD(u)' = ConnFD(u)
                         /\ pc'[u] = "start" <=> pc[u] = "start"
                         /\ pc[u] = "none" => pc'[u] = "none"
  BY <1>2, <1>3 DEF HasConn, ConnFD, AtMain, Connected, Served
<1>6. /\ Forwarded(t)' /\ ~Forwarded(t) /\ pc'[t] \in Forwarding
      /\ \A u \in Threads \ {t} : Forwarded(u)' <=> Forwarded(u)
  BY <1>2, <1>3, FDsAreNatural DEF NetInv, DescriptorInv, Forwarded, Forwarding
<1>7. MainInv'
  BY <1>2, <1>5 DEF NetInv, MainInv
<1> HIDE DEF HasConn, ConnFD
<1>8. DescriptorInv'
  <2>1. f # 3 /\ fdtab'[3] = Listening
    BY <1>1, <1>3, FdStatesDiffer, FDsAreNatural DEF NetInv, DescriptorInv
  <2>2. ASSUME NEW u \in Threads
        PROVE  /\ pc'[u] = "start" => vargp'[u] \in Cells
               /\ HasConn(u)' => ConnFD(u)' \in FDs /\ fdtab'[ConnFD(u)'] = Conn(u)
               /\ Forwarded(u)' <=> pc'[u] \in Forwarding
               /\ Forwarded(u)' => fdtab'[clientfd'[u]] = Origin(u)
    <3>1. HasConn(u)' => ConnFD(u)' \in FDs /\ fdtab'[ConnFD(u)'] = Conn(u)
      BY <1>1, <1>3, <1>5, FdStatesDiffer DEF NetInv, DescriptorInv
    <3>2. Forwarded(u)' => fdtab'[clientfd'[u]] = Origin(u)
      BY <1>1, <1>2, <1>3, <1>6, FdStatesDiffer
      DEF NetInv, ThreadTypes, DescriptorInv, Forwarded
    <3>3. Forwarded(u)' <=> pc'[u] \in Forwarding
      BY <1>3, <1>6 DEF NetInv, DescriptorInv
    <3>4. pc'[u] = "start" => vargp'[u] \in Cells
      BY <1>2, <1>5 DEF NetInv, DescriptorInv
    <3> QED
      BY <3>1, <3>2, <3>3, <3>4
  <2>3. ASSUME NEW g \in FDs
        PROVE  /\ fdtab'[g] = Listening => g = 3
               /\ \A u \in Threads :
                    /\ fdtab'[g] = Conn(u) => HasConn(u)' /\ g = ConnFD(u)'
                    /\ fdtab'[g] = Origin(u) => Forwarded(u)' /\ g = clientfd'[u]
    BY <1>2, <1>3, <1>5, <1>6, FdStatesDiffer DEF NetInv, DescriptorInv
  <2> QED
    BY <2>1, <2>2, <2>3 DEF DescriptorInv
<1> QED
  BY <1>4, <1>7, <1>8

LEMMA CloseDescriptors ==
  ASSUME NetInv, NEW t \in Threads, CloseConn(t)
  PROVE  MainTypes' /\ MainInv' /\ DescriptorInv'
<1>1. /\ pc[t] \in {"inserted", "hit_close"} /\ Connected(t) /\ ~AtMain(t)
      /\ HasConn(t) /\ ConnFD(t) = connfd[t]
  BY DEF CloseConn, NetInv, MainInv, Connected, Served, AtMain, HasConn, ConnFD
<1>2. PICK f \in FDs : f = connfd[t] /\ fdtab[f] = Conn(t)
  BY <1>1 DEF NetInv, DescriptorInv
<1>3. PICK place \in {"hit_done", "done"} :
        /\ pc' = [pc EXCEPT ![t] = place]
        /\ pc[t] = "hit_close" <=> place = "hit_done"
  BY <1>1 DEF CloseConn, GoTo
<1>4. /\ fdtab' = [fdtab EXCEPT ![f] = Closed]
      /\ UNCHANGED <<main, cell, vargp, connfd, clientfd>>
  BY <1>2 DEF CloseConn, mainVars
<1>5. /\ pc'[t] = place /\ \A u \in Threads \ {t} : pc'[u] = pc[u]
      /\ fdtab'[f] = Closed /\ \A g \in FDs \ {f} : fdtab'[g] = fdtab[g]
  BY <1>3, <1>4 DEF NetInv, MainTypes, ThreadTypes
<1>6. MainTypes'
  BY <1>4 DEF NetInv, MainTypes, FdStates
<1>7. \A u \in Threads \ {t} : /\ HasConn(u)' <=> HasConn(u)
                               /\ HasConn(u) => ConnFD(u)' = ConnFD(u)
  BY <1>4, <1>5 DEF HasConn, ConnFD, AtMain, Connected, Served
<1>8. ~HasConn(t)'
  BY <1>1, <1>4, <1>5 DEF HasConn, AtMain, Connected, Served
<1>9. \A u \in Threads : /\ Forwarded(u)' <=> Forwarded(u)
                         /\ pc'[u] = "start" <=> pc[u] = "start"
                         /\ pc'[u] \in Forwarding <=> pc[u] \in Forwarding
                         /\ pc[u] = "none" => pc'[u] = "none"
  BY <1>1, <1>3, <1>4, <1>5 DEF Forwarded, Forwarding
<1>10. MainInv'
  BY <1>4, <1>9 DEF NetInv, MainInv
<1> HIDE DEF HasConn, ConnFD, Forwarded, Connected
<1>11. DescriptorInv'
  <2>1. f # 3 /\ fdtab'[3] = Listening
    BY <1>2, <1>5, FdStatesDiffer, FDsAreNatural DEF NetInv, DescriptorInv
  <2>2. ASSUME NEW u \in Threads
        PROVE  /\ pc'[u] = "start" => vargp'[u] \in Cells
               /\ HasConn(u)' => ConnFD(u)' \in FDs /\ fdtab'[ConnFD(u)'] = Conn(u)
               /\ Forwarded(u)' <=> pc'[u] \in Forwarding
               /\ Forwarded(u)' => fdtab'[clientfd'[u]] = Origin(u)
    <3>1. HasConn(u)' => ConnFD(u)' \in FDs /\ fdtab'[ConnFD(u)'] = Conn(u)
      BY <1>2, <1>5, <1>7, <1>8, FdStatesDiffer DEF NetInv, DescriptorInv
    <3>2. Forwarded(u)' => fdtab'[clientfd'[u]] = Origin(u)
      BY <1>2, <1>4, <1>5, <1>9, FdStatesDiffer
      DEF NetInv, ThreadTypes, DescriptorInv, Forwarded
    <3>3. Forwarded(u)' <=> pc'[u] \in Forwarding
      BY <1>9 DEF NetInv, DescriptorInv
    <3>4. pc'[u] = "start" => vargp'[u] \in Cells
      BY <1>4, <1>9 DEF NetInv, DescriptorInv
    <3> QED
      BY <3>1, <3>2, <3>3, <3>4
  <2>3. ASSUME NEW g \in FDs
        PROVE  /\ fdtab'[g] = Listening => g = 3
               /\ \A u \in Threads :
                    /\ fdtab'[g] = Conn(u) => HasConn(u)' /\ g = ConnFD(u)'
                    /\ fdtab'[g] = Origin(u) => Forwarded(u)' /\ g = clientfd'[u]
    BY <1>2, <1>4, <1>5, <1>7, <1>9, FdStatesDiffer DEF NetInv, DescriptorInv
  <2> QED
    BY <2>1, <2>2, <2>3 DEF DescriptorInv
<1> QED
  BY <1>6, <1>10, <1>11

----------------------------------------------------------------------------
(* What a thread has read and written *)

Inserting == {"insert_lock", "evict", "link", "insert_unlock"}

\* An origin that has sent what it sends.
HasEnded(t) == origin[t].left = 0 /\ origin[t].end \in {"serves", "cuts"}

\* What t has read of its object is its beginning: what the client has got, then
\* the block that is to be written; and body holds all of it while it fits.  The
\* origin is the object's, and sends what follows.
Flow(t, key) ==
  /\ reply[t] \o buf[t] = Stretch(key, 0, size[t])
  /\ size[t] <= MAX_OBJECT_SIZE => body[t] = Stretch(key, 0, size[t])
  /\ origin[t].of = key /\ origin[t].at = size[t] /\ origin[t].end \in Origins
  /\ size[t] + origin[t].left <= Size[key]
  /\ origin[t].end = "serves" => size[t] + origin[t].left = Size[key]

BytesOf(t) ==
  /\ \/ arg[t].of \in Keys /\ arg[t].of = Asked(t)
     \/ arg[t].of = NULL /\ pc[t] \in {"none", "start", "read_line"}
  /\ pc[t] # "write" => buf[t] = <<>>
  /\ pc[t] \notin Forwarding => size[t] = 0 /\ body[t] = <<>>
  /\ pc[t] \notin Forwarding \cup {"hit_close", "hit_done"} => reply[t] = <<>>
  /\ pc[t] \in Forwarding => Flow(t, arg[t].of)
  /\ pc[t] \in Inserting =>
       arg[t].len = size[t] /\ arg[t].bytes = Stretch(arg[t].of, 0, size[t])
  /\ pc[t] \in Inserting \cup {"inserted", "done"} => HasEnded(t)

BytesInv == \A t \in Threads : BytesOf(t)

\* A thread was answered by its origin to the end, and has inserted the answer.
AnsweredTo(u, key, len) ==
  /\ pc[u] \in {"insert_unlock", "inserted", "done"}
  /\ arg[u].of = key
  /\ Len(reply[u]) = len
  /\ origin[u].end \in {"serves", "cuts"}
  /\ origin[u].end = "serves" => len = Size[key]

Answered(key, len) == \E u \in Threads : AnsweredTo(u, key, len)

\* The text of what an origin answered, and how much that was.
IsAnswer(key, value, len) ==
  /\ key \in Keys
  /\ value = StrDup(Stretch(key, 0, len))
  /\ len <= Size[key]
  /\ Answered(key, len)

\* Every entry is that of an answer.
EntryInv == \A a \in Live : IsAnswer(entry[a].key, entry[a].value, entry[a].size)

\* And what a thread wrote from the entry it found comes from one.
WroteHit(t) ==
  \E value \in Seq(Bytes), len \in Sizes :
    IsAnswer(arg[t].of, value, len) /\ reply[t] = FromString(value, len)

HitInv == \A t \in Threads : pc[t] \in {"hit_close", "hit_done"} => WroteHit(t)

ProxyInv ==
  /\ CacheInv /\ SizeInv
  /\ NetInv
  /\ BytesInv /\ EntryInv /\ HitInv

\* What no step of t changes of another thread.
Alone(t) ==
  \A u \in Threads \ {t} :
    /\ pc'[u] = pc[u] /\ arg'[u] = arg[u] /\ origin'[u] = origin[u]
    /\ buf'[u] = buf[u] /\ body'[u] = body[u] /\ size'[u] = size[u]
    /\ reply'[u] = reply[u]

\* What is shown of a step of t as far as t itself is concerned.
ThreadStep(t) ==
  /\ ThreadTypes' /\ arg' \in [Threads -> Bodies]
  /\ Alone(t) /\ BytesOf(t)' /\ input' = input
  /\ pc[t] \in {"insert_unlock", "inserted", "done"} =>
       /\ pc'[t] \in {"insert_unlock", "inserted", "done"}
       /\ arg'[t].of = arg[t].of /\ reply'[t] = reply[t]
       /\ origin'[t] = origin[t]

USE DEF NetInv, ThreadTypes, CacheInv, PointerTypes, ThreadStep, flowVars

\* What follows the first a bytes of an object, behind them.
LEMMA JoinStretches ==
  ASSUME NEW key \in Uris, NEW a \in Nat, NEW b \in Nat
  PROVE  Stretch(key, 0, a) \o Stretch(key, a, b) = Stretch(key, 0, a + b)
<1> DEFINE x == Stretch(key, 0, a)
           y == Stretch(key, a, b)
           z == Stretch(key, 0, a + b)
<1>1. /\ x \in Seq(Bytes) /\ y \in Seq(Bytes) /\ z \in Seq(Bytes)
      /\ Len(x) = a /\ Len(y) = b /\ Len(z) = a + b
  BY StretchIsBytes
<1>2. /\ x \o y \in Seq(Bytes) /\ Len(x \o y) = a + b
      /\ \A i \in 1..(a + b) : (x \o y)[i] = IF i <= a THEN x[i] ELSE y[i - a]
  <2> HIDE DEF x, y
  <2> QED
    BY <1>1, JoinBytes
<1>3. ASSUME NEW i \in 1..(a + b) PROVE (x \o y)[i] = z[i]
  <2>1. z[i] = <<key, i>>
    BY DEF Stretch
  <2>2. CASE i <= a
    BY <1>2, <2>1, <2>2 DEF Stretch
  <2>3. CASE ~(i <= a)
    <3>1. i - a \in 1..b /\ a + (i - a) = i
      BY <2>3
    <3>2. y[i - a] = <<key, i>>
      BY <3>1 DEF Stretch
    <3> QED
      BY <1>2, <2>1, <2>3, <3>2
  <2> QED
    BY <2>2, <2>3
<1> HIDE DEF x, y, z
<1>4. PICK u \in Seq(Bytes), v \in Seq(Bytes) : u = x \o y /\ v = z
  BY <1>1, <1>2
<1>5. Len(u) = Len(v) /\ \A i \in 1..Len(u) : u[i] = v[i]
  BY <1>1, <1>2, <1>3, <1>4
<1>6. u = v
  BY <1>5, SameBytes
<1> QED
  BY <1>4, <1>6 DEF x, y, z

\* The client and the origin at the other ends of a thread's descriptors.
LEMMA PeersAreOwn ==
  ASSUME NetInv, NEW t \in Threads
  PROVE  /\ pc[t] \in {"hit", "write"} => Peer(connfd[t]) = t
         /\ pc[t] = "read" => Peer(clientfd[t]) = t
<1>1. /\ Connected(t) => HasConn(t) /\ ConnFD(t) = connfd[t]
      /\ Forwarded(t) <=> pc[t] \in Forwarding
  BY DEF HasConn, ConnFD, AtMain, Connected, MainInv, DescriptorInv
<1>2. /\ Connected(t) => fdtab[connfd[t]] = Conn(t)
      /\ pc[t] \in Forwarding => fdtab[clientfd[t]] = Origin(t)
  BY <1>1 DEF DescriptorInv
<1>3. Conn(t)[2] = t /\ Origin(t)[2] = t
  BY DEF Conn, Origin
<1> QED
  BY <1>2, <1>3 DEF Peer, Connected, Served, Forwarding

LEMMA StartThread ==
  ASSUME ProxyInv, NEW t \in Threads, Start(t)
  PROVE  ThreadStep(t)
<1>1. /\ pc[t] = "start" /\ pc' = [pc EXCEPT ![t] = "read_line"]
      /\ connfd' = [connfd EXCEPT ![t] = cell[vargp[t]]]
      /\ UNCHANGED <<alive, arg, clientfd, flowVars, reply, gone, input>>
  BY DEF Start, GoTo, parseVars
<1>2. cell[vargp[t]] \in FDs
  BY <1>1 DEF ProxyInv, MainInv, DescriptorInv, HasConn, ConnFD, AtMain
<1>3. BytesOf(t)
  BY DEF ProxyInv, BytesInv
<1>4. BytesOf(t)'
  BY <1>1, <1>3 DEF ProxyInv, BytesOf, Flow, HasEnded, Asked, Forwarding, Inserting
<1>5. ThreadTypes' /\ arg' \in [Threads -> Bodies]
  BY <1>1, <1>2 DEF ProxyInv, Places, ParsePlaces
<1> QED
  BY <1>1, <1>4, <1>5 DEF ProxyInv, Alone

LEMMA ParseThread ==
  ASSUME ProxyInv, NEW t \in Threads, ParseStep(t)
  PROVE  ThreadStep(t)
<1>1. PICK place \in {"read_hdr", "strtok_key", "strtok_value", "find_lock"} :
        /\ pc' = [pc EXCEPT ![t] = place] \/ UNCHANGED pc
        /\ pc[t] \in ParsePlaces
        /\ alive' \in BOOLEAN
        /\ UNCHANGED <<connfd, clientfd, flowVars, reply, gone, input>>
  BY DEF ParseStep, Parse, ReadRequestLine, ReadHeader, EndOfHeaders, StrtokKey,
         StrtokValue, StrtokNull, GoTo, netVars, ParsePlaces, ProxyInv, parseVars
<1>2. /\ \/ arg' = arg /\ pc[t] # "read_line"
         \/ Asked(t) \in Keys /\ arg' = [arg EXCEPT ![t] = EmptyBody(Asked(t))]
  <2>1. input[t].uri \in Keys \cup {NoUri}
    BY ProxyAssumption DEF ProxyInv, ParseTypes
  <2>2. NoUri \notin Keys
    BY DEF NoUri
  <2> QED
    BY <2>1, <2>2
    DEF ParseStep, Parse, ReadRequestLine, ReadHeader, EndOfHeaders, StrtokKey,
        StrtokValue, StrtokNull, Asked
<1>3. /\ arg' \in [Threads -> Bodies]
      /\ \A u \in Threads \ {t} : arg'[u] = arg[u]
      /\ arg'[t].of \in Keys /\ arg'[t].of = Asked(t)
  <2>1. CASE arg' = arg /\ pc[t] # "read_line"
    BY <1>1, <2>1 DEF ProxyInv, BytesInv, BytesOf, ParsePlaces
  <2>2. CASE Asked(t) \in Keys /\ arg' = [arg EXCEPT ![t] = EmptyBody(Asked(t))]
    <3>1. PICK key \in Keys : key = Asked(t) /\ arg' = [arg EXCEPT ![t] = EmptyBody(key)]
      BY <2>2
    <3>2. EmptyBody(key) \in Bodies /\ EmptyBody(key).of = key
      BY EmptyIsBytes DEF EmptyBody, Body, Bodies, Uris, Sizes
    <3> QED
      BY <3>1, <3>2 DEF ProxyInv
  <2> QED
    BY <1>2, <2>1, <2>2
<1>4. ThreadTypes'
  BY <1>1 DEF ProxyInv, Places, ParsePlaces, CachePlaces
<1>5. pc'[t] \in ParsePlaces \cup {"find_lock"}
  BY <1>1 DEF ProxyInv, ParsePlaces
<1>6. BytesOf(t)
  BY DEF ProxyInv, BytesInv
<1>7. BytesOf(t)'
  BY <1>1, <1>3, <1>5, <1>6 DEF BytesOf, Flow, HasEnded, Asked, ParsePlaces, Forwarding, Inserting
<1> QED
  BY <1>1, <1>3, <1>4, <1>7 DEF ProxyInv, Alone, ParsePlaces

LEMMA CacheThread ==
  ASSUME ProxyInv, NEW t \in Threads, CacheStep(t)
  PROVE  ThreadStep(t)
<1>1. PICK place \in {"walk", "hit", "missed", "evict", "link", "insert_unlock", "inserted"} :
        /\ pc' = [pc EXCEPT ![t] = place] \/ UNCHANGED pc
        /\ place \in {"walk", "hit", "missed"} => pc[t] \in {"find_lock", "walk"}
        /\ place \in {"evict", "link", "insert_unlock", "inserted"} => pc[t] \in Inserting
        /\ alive' \in BOOLEAN
        /\ UNCHANGED <<arg, connfd, clientfd, flowVars, reply, gone, input>>
  BY DEF CacheStep, CacheFind, FindLock, FindHit, FindNext, FindMiss, CacheInsert,
         InsertLock, EvictTail, EvictEnd, Link, LinkNoMemory, InsertUnlock, GoTo,
         netVars, Inserting, ProxyInv, parseVars
<1>2. ThreadTypes' /\ arg' \in [Threads -> Bodies]
  BY <1>1 DEF ProxyInv, Places, CachePlaces, AfterHit
<1>3. BytesOf(t)
  BY DEF ProxyInv, BytesInv
<1>4. BytesOf(t)'
  BY <1>1, <1>3 DEF BytesOf, Flow, HasEnded, Asked, Forwarding, Inserting, ProxyInv
<1>5. pc[t] \in {"insert_unlock", "inserted", "done"} =>
        pc'[t] \in {"insert_unlock", "inserted", "done"}
  BY DEF CacheStep, CacheFind, FindLock, FindHit, FindNext, FindMiss, CacheInsert,
         InsertLock, EvictTail, EvictEnd, Link, LinkNoMemory, InsertUnlock, GoTo,
         ProxyInv
<1> QED
  BY <1>1, <1>2, <1>4, <1>5 DEF ProxyInv, Alone

LEMMA ForwardCachedThread ==
  ASSUME ProxyInv, NEW t \in Threads, ForwardCachedResponse(t)
  PROVE  /\ ThreadStep(t)
         /\ curr[t] \in Live /\ entry[curr[t]].key = arg[t].of
         /\ reply'[t] = FromString(entry[curr[t]].value, entry[curr[t]].size)
<1> DEFINE e == entry[curr[t]]
           bytes == FromString(e.value, e.size)
<1>1. /\ pc[t] = "hit" /\ pc' = [pc EXCEPT ![t] = "hit_close"]
      /\ reply' = [reply EXCEPT ![t] = reply[t] \o bytes]
      /\ UNCHANGED <<alive, arg, connfd, clientfd, flowVars, gone, input>>
  BY PeersAreOwn DEF ForwardCachedResponse, Write, GoTo, ProxyInv, parseVars
<1>2. curr[t] \in Live /\ e.key = arg[t].of /\ e \in Entries
  BY <1>1 DEF ProxyInv, PointersAreValid, Live
<1>3. BytesOf(t) /\ reply[t] = <<>>
  BY <1>1 DEF ProxyInv, BytesInv, BytesOf, Forwarding
<1>4. bytes \in Seq(Bytes)
  <2>1. e.size \in Nat /\ e.value \in Seq(Bytes)
    BY <1>2 DEF Entries, Sizes
  <2>2. Nul \in Bytes /\ Beyond \in Bytes
    BY DEF Nul, Beyond, Bytes, Uris
  <2>3. bytes \in [1..e.size -> Bytes]
    BY <2>1, <2>2 DEF FromString
  <2> HIDE DEF bytes, e
  <2> QED
    BY <2>1, <2>3, TableIsSeq
<1> HIDE DEF bytes, e
<1>5. reply' = [reply EXCEPT ![t] = bytes]
  BY <1>1, <1>3, <1>4
<1>6. ThreadTypes' /\ arg' \in [Threads -> Bodies]
  BY <1>1, <1>4, <1>5 DEF ProxyInv, Places, AfterHit
<1>7. BytesOf(t)'
  BY <1>1, <1>3 DEF BytesOf, Flow, HasEnded, Asked, Forwarding, Inserting, ProxyInv
<1>8. reply'[t] = bytes
  BY <1>5 DEF ProxyInv
<1> QED
  BY <1>1, <1>2, <1>5, <1>6, <1>7, <1>8 DEF ProxyInv, Alone, e, bytes

LEMMA SentIsNatural ==
  ASSUME NEW o \in Origins, NEW key \in Keys, NEW left \in Sent(o, key)
  PROVE  left \in Nat /\ left <= Size[key] /\ (o = "serves" => left = Size[key])
<1>1. Size[key] \in Nat
  OBVIOUS
<1> QED
  BY <1>1 DEF Sent

LEMMA OpenThread ==
  ASSUME ProxyInv, NEW t \in Threads, OpenClientfd(t)
  PROVE  ThreadStep(t)
<1>1. PICK o \in Origins : \E left \in Sent(o, arg[t].of) :
           origin' = [origin EXCEPT ![t] =
                        [of |-> arg[t].of, at |-> 0, left |-> left, end |-> o]]
  BY DEF OpenClientfd
<1>2. PICK left \in Sent(o, arg[t].of) :
        origin' = [origin EXCEPT ![t] =
                     [of |-> arg[t].of, at |-> 0, left |-> left, end |-> o]]
  BY <1>1
<1>3. PICK f \in FDs : clientfd' = [clientfd EXCEPT ![t] = f]
  BY LowestIsFree DEF OpenClientfd, FreeFDs
<1>4. /\ pc[t] = "missed" /\ pc' = [pc EXCEPT ![t] = "send"]
      /\ UNCHANGED <<alive, arg, connfd, buf, body, size, reply, gone, input>>
  BY DEF OpenClientfd, GoTo, parseVars
<1>5. BytesOf(t)
  BY DEF ProxyInv, BytesInv
<1>6. /\ arg[t].of \in Keys /\ size[t] = 0
      /\ buf[t] = <<>> /\ body[t] = <<>> /\ reply[t] = <<>>
  BY <1>4, <1>5 DEF BytesOf, Forwarding, ProxyInv
<1>7. left \in Nat /\ left <= Size[arg[t].of] /\ (o = "serves" => left = Size[arg[t].of])
  BY <1>6, SentIsNatural
<1>8. ThreadTypes' /\ arg' \in [Threads -> Bodies]
  <2> DEFINE new == [of |-> arg[t].of, at |-> 0, left |-> left, end |-> o]
  <2>1. new \in OriginStates
    BY <1>6, <1>7 DEF OriginStates, Uris
  <2> HIDE DEF new
  <2>2. origin' \in [Threads -> OriginStates]
    BY <1>2, <2>1 DEF ProxyInv, new
  <2> QED
    BY <1>3, <1>4, <2>2 DEF ProxyInv, Places, Forwarding
<1>9. origin'[t] = [of |-> arg[t].of, at |-> 0, left |-> left, end |-> o]
  BY <1>2 DEF ProxyInv
<1>10. Flow(t, arg[t].of)'
  <2>1. Stretch(arg[t].of, 0, 0) = <<>>
    BY DEF Stretch
  <2>2. reply'[t] \o buf'[t] = <<>>
    BY <1>4, <1>6
  <2>3. size'[t] = 0 /\ body'[t] = <<>> /\ arg' = arg
    BY <1>4, <1>6
  <2> QED
    BY <1>6, <1>7, <1>9, <2>1, <2>2, <2>3 DEF Flow
<1>11. BytesOf(t)'
  BY <1>4, <1>5, <1>6, <1>10 DEF BytesOf, Asked, Forwarding, Inserting, ProxyInv
<1> QED
  BY <1>2, <1>4, <1>8, <1>11 DEF ProxyInv, Alone

LEMMA SendThread ==
  ASSUME ProxyInv, NEW t \in Threads, SendRequest(t)
  PROVE  ThreadStep(t)
<1>1. /\ pc[t] = "send" /\ pc' = [pc EXCEPT ![t] = "read"]
      /\ UNCHANGED <<alive, arg, connfd, clientfd, flowVars, reply, gone, input>>
  BY DEF SendRequest, GoTo, netVars, parseVars
<1>2. ThreadTypes' /\ arg' \in [Threads -> Bodies]
  BY <1>1 DEF ProxyInv, Places, Forwarding
<1>3. BytesOf(t)
  BY DEF ProxyInv, BytesInv
<1>4. BytesOf(t)'
  BY <1>1, <1>3 DEF BytesOf, Flow, HasEnded, Asked, Forwarding, Inserting, ProxyInv
<1> QED
  BY <1>1, <1>2, <1>4 DEF ProxyInv, Alone

LEMMA ReadThread ==
  ASSUME ProxyInv, NEW t \in Threads, ReadBlock(t)
  PROVE  ThreadStep(t)
<1> DEFINE key == arg[t].of
<1>1. /\ pc[t] = "read" /\ pc' = [pc EXCEPT ![t] = "write"]
      /\ Peer(clientfd[t]) = t
      /\ UNCHANGED <<alive, arg, connfd, clientfd, reply, gone, input>>
  BY PeersAreOwn DEF ReadBlock, GoTo, ProxyInv, parseVars
<1>2. BytesOf(t) /\ Flow(t, key) /\ key \in Keys /\ buf[t] = <<>>
  BY <1>1 DEF ProxyInv, BytesInv, BytesOf, Forwarding
<1>3. /\ size[t] \in Nat /\ Size[key] \in Nat
      /\ origin[t] \in OriginStates /\ origin[t].left \in Nat
      /\ origin[t].of = key /\ origin[t].at = size[t]
      /\ body[t] \in Seq(Bytes) /\ reply[t] \in Seq(Bytes)
  BY <1>2 DEF ProxyInv, Flow, OriginStates
<1> DEFINE m == IF origin[t].left < MAXLINE THEN origin[t].left ELSE MAXLINE
<1>4. PICK k \in Nat : k = m
  BY <1>3
<1>5. k <= MAXLINE /\ k <= origin[t].left
  BY <1>3, <1>4
<1> DEFINE block == Stretch(key, size[t], k)
           rest == [origin[t] EXCEPT !.at = @ + k, !.left = @ - k]
<1>6. /\ buf' = [buf EXCEPT ![t] = block]
      /\ size' = [size EXCEPT ![t] = @ + k]
      /\ body' = IF size[t] + k <= MAX_OBJECT_SIZE
                 THEN [body EXCEPT ![t] = @ \o block] ELSE body
      /\ origin' = [origin EXCEPT ![t] = rest]
  BY <1>1, <1>3, <1>4 DEF ReadBlock
<1>7. block \in Seq(Bytes) /\ Len(block) = k
  BY <1>2, <1>3, StretchIsBytes DEF Uris
<1>8. Stretch(key, 0, size[t]) \o block = Stretch(key, 0, size[t] + k)
  BY <1>2, <1>3, JoinStretches DEF Uris
<1>9. /\ Stretch(key, 0, size[t] + k) \in Seq(Bytes)
      /\ Len(Stretch(key, 0, size[t] + k)) = size[t] + k
  <2>1. key \in Uris /\ size[t] + k \in Nat /\ 0 \in Nat
    BY <1>2, <1>3 DEF Uris
  <2> QED
    BY <2>1, StretchIsBytes
<1>10. /\ rest \in OriginStates /\ rest.of = key
       /\ rest.at = size[t] + k /\ rest.left = origin[t].left - k
       /\ rest.end = origin[t].end
  <2>1. origin[t].left - k \in Nat /\ origin[t].at + k \in Nat
    BY <1>3, <1>5 DEF OriginStates
  <2> QED
    BY <1>3, <2>1 DEF OriginStates
<1>11. size[t] + k \in Nat
  BY <1>3
<1>12. size[t] + k <= MAX_OBJECT_SIZE => body[t] \o block = Stretch(key, 0, size[t] + k)
  <2>1. size[t] + k <= MAX_OBJECT_SIZE => size[t] <= MAX_OBJECT_SIZE
    BY <1>3
  <2> QED
    BY <1>2, <1>8, <2>1 DEF Flow
<1>13. reply[t] \o block = Stretch(key, 0, size[t] + k)
  <2>1. reply[t] = Stretch(key, 0, size[t])
    BY <1>2, <1>3 DEF Flow
  <2> QED
    BY <1>8, <2>1
<1> HIDE DEF block, rest, m
<1>14. /\ buf'[t] = block /\ size'[t] = size[t] + k /\ origin'[t] = rest
       /\ body'[t] = IF size[t] + k <= MAX_OBJECT_SIZE THEN body[t] \o block ELSE body[t]
       /\ \A u \in Threads \ {t} : /\ buf'[u] = buf[u] /\ size'[u] = size[u]
                                   /\ origin'[u] = origin[u] /\ body'[u] = body[u]
  BY <1>6 DEF ProxyInv
<1>15. ThreadTypes' /\ arg' \in [Threads -> Bodies]
  <2>1. buf' \in [Threads -> Seq(Bytes)] /\ \A u \in Threads : Len(buf'[u]) <= MAXLINE
    BY <1>5, <1>6, <1>7, <1>14 DEF ProxyInv
  <2>2. /\ body' \in [Threads -> Seq(Bytes)]
        /\ \A u \in Threads : Len(body'[u]) <= MAX_OBJECT_SIZE
    <3>1. CASE size[t] + k <= MAX_OBJECT_SIZE
      <4>1. body' = [body EXCEPT ![t] = Stretch(key, 0, size[t] + k)]
        BY <1>6, <1>12, <3>1
      <4> QED
        BY <1>9, <3>1, <4>1 DEF ProxyInv
    <3>2. CASE ~(size[t] + k <= MAX_OBJECT_SIZE)
      BY <1>6, <3>2 DEF ProxyInv
    <3> QED
      BY <3>1, <3>2
  <2>3. size' \in [Threads -> Nat] /\ origin' \in [Threads -> OriginStates]
    BY <1>6, <1>10, <1>11 DEF ProxyInv
  <2> QED
    BY <1>1, <2>1, <2>2, <2>3 DEF ProxyInv, Places, Forwarding
<1>16. Flow(t, arg[t].of)'
  <2>1. arg' = arg /\ reply' = reply
    BY <1>1
  <2>2. reply'[t] \o buf'[t] = Stretch(key, 0, size'[t])
    BY <1>13, <1>14, <2>1
  <2>3. size'[t] <= MAX_OBJECT_SIZE => body'[t] = Stretch(key, 0, size'[t])
    BY <1>12, <1>14
  <2>4. /\ origin'[t].of = key /\ origin'[t].at = size'[t] /\ origin'[t].end = origin[t].end
        /\ size'[t] + origin'[t].left = size[t] + origin[t].left
    BY <1>3, <1>10, <1>14
  <2>5. /\ origin[t].end \in Origins
        /\ size[t] + origin[t].left <= Size[key]
        /\ origin[t].end = "serves" => size[t] + origin[t].left = Size[key]
    BY <1>2 DEF Flow
  <2> QED
    BY <2>1, <2>2, <2>3, <2>4, <2>5 DEF Flow
<1>17. BytesOf(t)'
  <2>1. pc'[t] = "write"
    BY <1>1 DEF ProxyInv
  <2> QED
    BY <1>1, <1>2, <1>16, <2>1 DEF BytesOf, Asked, Forwarding, Inserting
<1> QED
  BY <1>1, <1>14, <1>15, <1>17 DEF ProxyInv, Alone

LEMMA WriteThread ==
  ASSUME ProxyInv, NEW t \in Threads, WriteBlock(t)
  PROVE  ThreadStep(t)
<1>1. /\ pc[t] = "write" /\ pc' = [pc EXCEPT ![t] = "read"]
      /\ reply' = [reply EXCEPT ![t] = reply[t] \o buf[t]]
      /\ buf' = [buf EXCEPT ![t] = <<>>]
      /\ UNCHANGED <<alive, arg, connfd, clientfd, origin, body, size, gone, input>>
  BY PeersAreOwn DEF WriteBlock, Write, GoTo, ProxyInv, parseVars
<1>2. BytesOf(t) /\ Flow(t, arg[t].of) /\ arg[t].of \in Keys
  BY <1>1 DEF ProxyInv, BytesInv, BytesOf, Forwarding
<1>3. /\ buf[t] \in Seq(Bytes) /\ reply[t] \in Seq(Bytes)
      /\ reply[t] \o buf[t] \in Seq(Bytes) /\ <<>> \in Seq(Bytes) /\ Len(<<>>) = 0
  BY DEF ProxyInv
<1>4. reply'[t] = reply[t] \o buf[t] /\ buf'[t] = <<>> /\ pc'[t] = "read"
  BY <1>1 DEF ProxyInv
<1>5. reply'[t] \o buf'[t] = reply[t] \o buf[t]
  <2>1. PICK x \in Seq(Bytes) : x = reply[t] \o buf[t]
    BY <1>3
  <2>2. x \o <<>> = x
    OBVIOUS
  <2> QED
    BY <1>4, <2>1, <2>2
<1>6. ThreadTypes' /\ arg' \in [Threads -> Bodies]
  BY <1>1, <1>3 DEF ProxyInv, Places, Forwarding
<1>7. BytesOf(t)'
  BY <1>1, <1>2, <1>4, <1>5 DEF BytesOf, Flow, Asked, Forwarding, Inserting
<1> QED
  BY <1>1, <1>6, <1>7 DEF ProxyInv, Alone

LEMMA EndThread ==
  ASSUME ProxyInv, NEW t \in Threads, EndOfResponse(t)
  PROVE  ThreadStep(t)
<1>1. /\ pc[t] = "read" /\ HasEnded(t)
      /\ UNCHANGED <<alive, connfd, clientfd, flowVars, reply, gone, input>>
  BY PeersAreOwn DEF EndOfResponse, AtEnd, HasEnded, netVars, ProxyInv, parseVars
<1>2. BytesOf(t) /\ Flow(t, arg[t].of)
  BY <1>1 DEF ProxyInv, BytesInv, BytesOf, Forwarding
<1>3. arg[t].of \in Keys /\ size[t] \in Nat /\ body[t] \in Seq(Bytes)
  BY <1>1, <1>2 DEF BytesOf, ProxyInv
<1>4. CASE size[t] <= MAX_OBJECT_SIZE
  <2> DEFINE new == Body(arg[t].of, body[t], size[t])
  <2>1. arg' = [arg EXCEPT ![t] = new] /\ pc' = [pc EXCEPT ![t] = "insert_lock"]
    BY <1>4 DEF EndOfResponse, GoTo
  <2>2. /\ new \in Bodies /\ new.of = arg[t].of /\ new.len = size[t]
        /\ new.bytes = Stretch(arg[t].of, 0, size[t])
    BY <1>2, <1>3, <1>4 DEF Body, Bodies, Uris, Sizes, Flow
  <2> HIDE DEF new
  <2>3. /\ arg' \in [Threads -> Bodies] /\ arg'[t] = new /\ pc'[t] = "insert_lock"
        /\ \A u \in Threads \ {t} : arg'[u] = arg[u] /\ pc'[u] = pc[u]
    BY <2>1, <2>2 DEF ProxyInv
  <2>4. ThreadTypes'
    BY <1>1, <2>1 DEF ProxyInv, Places, Forwarding
  <2>5. Flow(t, arg[t].of)' /\ HasEnded(t)'
    BY <1>1, <1>2, <2>2, <2>3 DEF Flow, HasEnded
  <2>6. BytesOf(t)'
    BY <1>1, <1>2, <2>2, <2>3, <2>5 DEF BytesOf, Asked, Forwarding, Inserting, ProxyInv
  <2> QED
    BY <1>1, <2>3, <2>4, <2>6 DEF Alone
<1>5. CASE ~(size[t] <= MAX_OBJECT_SIZE)
  <2>1. arg' = arg /\ pc' = [pc EXCEPT ![t] = "inserted"]
    BY <1>5 DEF EndOfResponse, GoTo
  <2>2. ThreadTypes' /\ arg' \in [Threads -> Bodies]
    BY <1>1, <2>1 DEF ProxyInv, Places, Forwarding
  <2>3. BytesOf(t)'
    BY <1>1, <1>2, <2>1 DEF BytesOf, Flow, HasEnded, Asked, Forwarding, Inserting, ProxyInv
  <2> QED
    BY <1>1, <2>1, <2>2, <2>3 DEF ProxyInv, Alone
<1> QED
  BY <1>4, <1>5

LEMMA CloseThread ==
  ASSUME ProxyInv, NEW t \in Threads, CloseConn(t)
  PROVE  ThreadStep(t)
<1>1. PICK place \in {"done", "hit_done"} :
        /\ pc' = [pc EXCEPT ![t] = place]
        /\ pc[t] = IF place = "hit_done" THEN "hit_close" ELSE "inserted"
        /\ UNCHANGED <<alive, arg, connfd, clientfd, flowVars, reply, gone, input>>
  BY DEF CloseConn, GoTo, parseVars
<1>2. ThreadTypes' /\ arg' \in [Threads -> Bodies]
  BY <1>1 DEF ProxyInv, Places, Forwarding, AfterHit
<1>3. BytesOf(t)
  BY DEF ProxyInv, BytesInv
<1>4. BytesOf(t)'
  BY <1>1, <1>3 DEF BytesOf, Flow, HasEnded, Asked, Forwarding, Inserting, ProxyInv
<1> QED
  BY <1>1, <1>2, <1>4 DEF ProxyInv, Alone

LEMMA ThreadSteps ==
  ASSUME ProxyInv, NEW t \in Threads, ProxyThread(t)
  PROVE  ThreadStep(t)
<1> USE DEF ProxyThread
<1> HIDE DEF ThreadStep
<1> QED
  BY StartThread, ParseThread, CacheThread, ForwardCachedThread, OpenThread,
     SendThread, ReadThread, WriteThread, EndThread, CloseThread

----------------------------------------------------------------------------
(* The cache *)

USE DEF ProxyInv
HIDE DEF NetInv, CacheInv, ThreadStep

LEMMA ThreadCache ==
  ASSUME ProxyInv, NEW t \in Threads, ProxyThread(t)
  PROVE  CacheInv' /\ SizeInv'
<1> USE DEF ThreadStep, NetInv
<1>1. ThreadStep(t)
  BY ThreadSteps
<1>2. CASE CacheStep(t)
  <2>1. CASE CacheFind(t)
    BY <2>1, CacheFindInv, CacheFindSize
  <2>2. CASE CacheInsert(t)
    BY <2>2, CacheInsertInv, CacheInsertSize
  <2> QED
    BY <1>2, <2>1, <2>2 DEF CacheStep
<1>3. CASE ~CacheStep(t)
  <2>1. UNCHANGED cacheVars
    BY <1>3
    DEF ProxyThread, Start, ParseStep, ForwardCachedResponse, OpenClientfd,
        SendRequest, ReadBlock, WriteBlock, EndOfResponse, CloseConn
  <2>2. PICK place : place = pc'[t]
    OBVIOUS
  <2>3. /\ place \notin {"walk", "hit", "link"}
        /\ pc[t] \in Holding <=> place \in Holding
    <3>1. CASE ParseStep(t)
      BY <2>2, <3>1
      DEF ParseStep, Parse, ReadRequestLine, ReadHeader, EndOfHeaders, StrtokKey,
          StrtokValue, StrtokNull, GoTo, Holding, AfterHit, ThreadTypes
    <3>2. CASE ~ParseStep(t)
      BY <1>3, <2>2, <3>2
      DEF ProxyThread, Start, ForwardCachedResponse, OpenClientfd, SendRequest,
          ReadBlock, WriteBlock, EndOfResponse, CloseConn, GoTo, Holding, AfterHit,
          ThreadTypes
    <3> QED
      BY <3>1, <3>2
  <2>4. GoTo(t, place)
    BY <1>1, <2>2 DEF Alone, ThreadTypes, GoTo
  <2>5. /\ arg' \in [Threads -> Bodies] /\ curr' \in [Threads -> Addr \cup {NULL}]
        /\ \A u \in Threads \ {t} : arg'[u] = arg[u] /\ curr'[u] = curr[u]
    BY <1>1, <2>1 DEF Alone, CacheInv, PointerTypes, cacheVars
  <2>6. CacheInv'
    BY <2>1, <2>5, <2>3, <2>4, OutsideStep DEF cacheVars
  <2>7. \A u \in Threads : pc'[u] = "link" => pc[u] = "link" /\ arg'[u] = arg[u]
    BY <1>1, <2>2, <2>3 DEF Alone
  <2>8. SizeInv'
    BY <2>1, <2>7, QuietSize DEF cacheVars
  <2> QED
    BY <2>6, <2>8
<1> QED
  BY <1>2, <1>3

\* What an origin answered to a thread stays on record.
LEMMA AnswersStay ==
  ASSUME ProxyInv, NEW t \in Threads, ThreadStep(t),
         NEW key, NEW len, Answered(key, len)
  PROVE  Answered(key, len)'
<1>1. PICK u \in Threads : AnsweredTo(u, key, len)
  BY DEF Answered
<1>2. AnsweredTo(u, key, len)'
  BY <1>1 DEF ThreadStep, Alone, AnsweredTo
<1> QED
  BY <1>2 DEF Answered

LEMMA AnswerStays ==
  ASSUME ProxyInv, NEW t \in Threads, ThreadStep(t),
         NEW key, NEW value, NEW len, IsAnswer(key, value, len)
  PROVE  IsAnswer(key, value, len)'
<1>1. Answered(key, len)'
  BY AnswersStay DEF IsAnswer
<1> QED
  BY <1>1 DEF IsAnswer

\* Entries that keep their data stay as they should be.
LEMMA EntryStays ==
  ASSUME ProxyInv, NEW t \in Threads, ThreadStep(t),
         NEW a \in Live, KeepsData(a)
  PROVE  IsAnswer(entry[a].key, entry[a].value, entry[a].size)'
<1>1. PICK key, value, len :
        key = entry[a].key /\ value = entry[a].value /\ len = entry[a].size
  OBVIOUS
<1>2. IsAnswer(key, value, len)
  BY <1>1 DEF EntryInv
<1>3. IsAnswer(key, value, len)'
  BY <1>2, AnswerStays
<1>4. key = entry'[a].key /\ value = entry'[a].value /\ len = entry'[a].size
  BY <1>1 DEF KeepsData
<1> QED
  BY <1>3, <1>4

LEMMA ThreadEntries ==
  ASSUME ProxyInv, NEW t \in Threads, ProxyThread(t)
  PROVE  EntryInv'
<1>1. ThreadStep(t)
  BY ThreadSteps
<1>2. CASE \A a \in Live' : a \in Live /\ KeepsData(a)
  <2>1. ASSUME NEW a \in Live'
        PROVE  IsAnswer(entry[a].key, entry[a].value, entry[a].size)'
    BY <1>1, <1>2, EntryStays
  <2> QED
    BY <2>1 DEF EntryInv
<1>3. CASE CacheStep(t) /\ Link(t)
  <2>1. PICK a \in Addr :
          /\ Live' = Live \cup {a}
          /\ entry'[a].key = arg[t].of /\ entry'[a].value = StrDup(arg[t].bytes)
          /\ entry'[a].size = arg[t].len
          /\ \A b \in Live : KeepsData(b)
    BY <1>3, LinkShape
  <2>2. /\ pc[t] = "link" /\ pc'[t] = "insert_unlock"
        /\ UNCHANGED <<arg, reply, origin, size, buf>>
    BY <1>3 DEF Link, GoTo, CacheStep, netVars, NetInv, ThreadTypes
  <2>3. /\ BytesOf(t) /\ Flow(t, arg[t].of) /\ HasEnded(t)
        /\ arg[t].of \in Keys /\ size[t] \in Nat
    BY <2>2 DEF BytesInv, NetInv, ThreadTypes, BytesOf, Inserting, Forwarding
  <2>4. PICK key \in Keys, len \in Nat : key = arg[t].of /\ len = size[t]
    BY <2>3
  <2>5. /\ arg[t].len = len /\ arg[t].bytes = Stretch(key, 0, len)
        /\ buf[t] = <<>>
    BY <2>2, <2>3, <2>4 DEF BytesOf, Inserting
  <2>6. Len(reply[t]) = len
    <3>1. reply[t] \in Seq(Bytes)
      BY DEF NetInv, ThreadTypes
    <3>2. reply[t] \o buf[t] = reply[t]
      BY <2>5, <3>1, ConcatEmptySeq
    <3>3. reply[t] = Stretch(key, 0, len)
      BY <2>3, <2>4, <3>2 DEF Flow
    <3>4. key \in Uris /\ 0 \in Nat
      BY DEF Uris
    <3> QED
      BY <3>3, <3>4, StretchIsBytes
  <2>7. /\ origin[t].end \in {"serves", "cuts"} /\ len <= Size[key]
        /\ origin[t].end = "serves" => len = Size[key]
    BY <2>3, <2>4 DEF HasEnded, Flow
  <2>8. Answered(key, len)'
    <3>1. AnsweredTo(t, key, len)'
      BY <2>2, <2>4, <2>6, <2>7 DEF AnsweredTo
    <3> QED
      BY <3>1 DEF Answered
  <2>9. IsAnswer(entry[a].key, entry[a].value, entry[a].size)'
    <3>1. /\ entry'[a].key = key /\ entry'[a].size = len
          /\ entry'[a].value = StrDup(Stretch(key, 0, len))
      BY <2>1, <2>4, <2>5
    <3> QED
      BY <2>7, <2>8, <3>1 DEF IsAnswer
  <2>10. ASSUME NEW b \in Live
         PROVE  IsAnswer(entry[b].key, entry[b].value, entry[b].size)'
    BY <1>1, <2>1, EntryStays
  <2> QED
    BY <2>1, <2>9, <2>10 DEF EntryInv
<1>4. CASE FindHit(t)
  <2>1. CASE curr[t] = head
    <3>1. UNCHANGED entry
      BY <1>4, <2>1 DEF FindHit
    <3> QED
      BY <1>2, <3>1 DEF Live, KeepsData
  <2>2. CASE curr[t] # head
    <3>1. curr[t] \in Live /\ head # NULL /\ MoveToFront(curr[t])
      BY <1>4, <2>2 DEF FindHit, Matches, CacheInv, WalkInv, PointersAreValid, PointerTypes, Live
    <3>2. \A a \in Addr : KeepsData(a)
      BY <2>2, <3>1, MoveToFrontInv DEF CacheInv
    <3> QED
      BY <1>2, <3>2 DEF Live, KeepsData
  <2> QED
    BY <2>1, <2>2
<1>5. CASE EvictTail(t)
  <2>1. Live' = Live \ {tail} /\ \A a \in Live' : KeepsData(a)
    BY <1>5, EvictTailShape
  <2> QED
    BY <1>2, <2>1
<1>6. CASE UNCHANGED entry
  BY <1>2, <1>6 DEF Live, KeepsData
<1> QED
  BY <1>3, <1>4, <1>5, <1>6
  DEF ProxyThread, Start, ParseStep, CacheStep, CacheFind, CacheInsert, FindLock,
      FindNext, FindMiss, InsertLock, EvictEnd, LinkNoMemory, InsertUnlock,
      ForwardCachedResponse, OpenClientfd, SendRequest, ReadBlock, WriteBlock,
      EndOfResponse, CloseConn, cacheVars, listVars

LEMMA ThreadHits ==
  ASSUME ProxyInv, NEW t \in Threads, ProxyThread(t)
  PROVE  HitInv'
<1>1. ThreadStep(t)
  BY ThreadSteps
<1>2. ASSUME NEW u \in Threads, pc'[u] \in {"hit_close", "hit_done"},
             ~(u = t /\ ForwardCachedResponse(t))
      PROVE  WroteHit(u)'
  <2>1. pc[u] \in {"hit_close", "hit_done"} /\ arg'[u] = arg[u] /\ reply'[u] = reply[u]
    <3>1. CASE u = t
      BY <1>2, <3>1
      DEF ProxyThread, Start, ParseStep, Parse, ReadRequestLine, ReadHeader,
          EndOfHeaders, StrtokKey, StrtokValue, StrtokNull, CacheStep, CacheFind,
          CacheInsert, FindLock, FindHit, FindNext, FindMiss, InsertLock, EvictTail,
          EvictEnd, Link, LinkNoMemory, InsertUnlock, OpenClientfd, SendRequest,
          ReadBlock, WriteBlock, EndOfResponse, CloseConn, GoTo, netVars,
          NetInv, ThreadTypes
    <3>2. CASE u # t
      BY <1>1, <1>2, <3>2 DEF ThreadStep, Alone
    <3> QED
      BY <3>1, <3>2
  <2> PICK key : key = arg[u].of
    OBVIOUS
  <2>2. PICK value \in Seq(Bytes), len \in Sizes :
          /\ IsAnswer(key, value, len)
          /\ reply[u] = FromString(value, len)
    BY <2>1 DEF HitInv, WroteHit
  <2>3. IsAnswer(key, value, len)'
    BY <1>1, <2>2, AnswerStays
  <2>4. arg'[u].of = key /\ reply'[u] = FromString(value, len)
    BY <2>1, <2>2
  <2> QED
    BY <2>3, <2>4 DEF WroteHit
<1>3. ASSUME ForwardCachedResponse(t) PROVE WroteHit(t)'
  <2>1. /\ curr[t] \in Live /\ entry[curr[t]].key = arg[t].of
        /\ reply'[t] = FromString(entry[curr[t]].value, entry[curr[t]].size)
        /\ arg' = arg
    BY <1>3, ForwardCachedThread DEF ForwardCachedResponse
  <2>2. entry[curr[t]] \in Entries
    BY <2>1 DEF CacheInv, PointerTypes, Live
  <2> PICK key : key = arg[t].of
    OBVIOUS
  <2>3. PICK value \in Seq(Bytes), len \in Sizes :
          value = entry[curr[t]].value /\ len = entry[curr[t]].size
    BY <2>2 DEF Entries
  <2>4. IsAnswer(key, value, len)
    BY <2>1, <2>3 DEF EntryInv
  <2>5. IsAnswer(key, value, len)'
    BY <1>1, <2>4, AnswerStays
  <2>6. arg'[t].of = key /\ reply'[t] = FromString(value, len)
    BY <2>1, <2>3
  <2> QED
    BY <2>5, <2>6 DEF WroteHit
<1> QED
  BY <1>2, <1>3 DEF HitInv

----------------------------------------------------------------------------
(* Every step *)

LEMMA ThreadParses ==
  ASSUME ProxyInv, NEW t \in Threads, ProxyThread(t)
  PROVE  ParseTypes'
<1>1. /\ input' = input
      /\ \/ UNCHANGED line
         \/ /\ line[t] < Len(input[t].hdrs)
            /\ line' = [line EXCEPT ![t] = @ + 1]
  BY DEF ProxyThread, Start, ParseStep, Parse, ReadRequestLine, ReadHeader,
         EndOfHeaders, StrtokKey, StrtokValue, StrtokNull, CacheStep,
         ForwardCachedResponse, OpenClientfd, SendRequest, ReadBlock, WriteBlock,
         EndOfResponse, CloseConn, parseVars
<1>2. /\ line \in [Threads -> Nat] /\ input \in [Threads -> Inputs]
      /\ \A u \in Threads : line[u] \in 0..Len(input[u].hdrs)
      /\ \A u \in Threads : Len(input[u].hdrs) \in Nat
  <2>1. \A i \in Inputs : Len(i.hdrs) \in Nat
    BY ProxyAssumption
  <2> QED
    BY <2>1 DEF NetInv, ParseTypes
<1>3. /\ line' \in [Threads -> Nat]
      /\ \A u \in Threads : line'[u] \in 0..Len(input[u].hdrs)
  <2>1. CASE line' = line
    BY <1>2, <2>1
  <2>2. CASE line[t] < Len(input[t].hdrs) /\ line' = [line EXCEPT ![t] = @ + 1]
    <3>1. line[t] + 1 \in 0..Len(input[t].hdrs) /\ line[t] + 1 \in Nat
      BY <1>2, <2>2
    <3> QED
      BY <1>2, <2>2, <3>1
  <2> QED
    BY <1>1, <2>1, <2>2
<1>4. DOMAIN extra' = Threads
  BY DEF ProxyThread, Start, ParseStep, Parse, ReadRequestLine, ReadHeader,
         EndOfHeaders, StrtokKey, StrtokValue, StrtokNull, Keep, CacheStep,
         ForwardCachedResponse, OpenClientfd, SendRequest, ReadBlock, WriteBlock,
         EndOfResponse, CloseConn, parseVars, NetInv, ParseTypes
<1>5. olds' \in [buf : Threads \cup {NULL}, line : Nat, rest : {"value", "newline", "end"}]
  <2>1. \/ olds' = olds
        \/ olds' = [buf |-> t, line |-> line[t], rest |-> Behind(t)]
        \/ olds' = [olds EXCEPT !.rest = "newline"]
    BY DEF ProxyThread, Start, ParseStep, Parse, ReadRequestLine, ReadHeader,
           EndOfHeaders, StrtokKey, StrtokValue, StrtokNull, CacheStep,
           ForwardCachedResponse, OpenClientfd, SendRequest, ReadBlock, WriteBlock,
           EndOfResponse, CloseConn, parseVars
  <2> DEFINE Olds == [buf : Threads \cup {NULL}, line : Nat,
                      rest : {"value", "newline", "end"}]
  <2>2. olds \in Olds /\ line[t] \in Nat
    BY <1>2 DEF NetInv, ParseTypes
  <2>3. [olds EXCEPT !.rest = "newline"] \in Olds
    BY <2>2
  <2>4. [buf |-> t, line |-> line[t], rest |-> Behind(t)] \in Olds
    BY <2>2 DEF Behind
  <2> HIDE DEF Olds
  <2>5. olds' \in Olds
    BY <2>1, <2>2, <2>3, <2>4
  <2> QED
    BY <2>5 DEF Olds
<1>6. /\ input' \in [Threads -> Inputs]
      /\ \A u \in Threads : line'[u] \in 0..Len(input'[u].hdrs)
  BY <1>1, <1>2, <1>3
<1> QED
  BY <1>3, <1>4, <1>5, <1>6 DEF ParseTypes

LEMMA ThreadDescriptors ==
  ASSUME ProxyInv, NEW t \in Threads, ProxyThread(t)
  PROVE  MainTypes' /\ MainInv' /\ DescriptorInv'
<1>1. CASE Start(t)
  BY <1>1, StartDescriptors
<1>2. CASE OpenClientfd(t)
  BY <1>2, OpenDescriptors
<1>3. CASE CloseConn(t)
  BY <1>3, CloseDescriptors
<1>4. CASE ~Start(t) /\ ~OpenClientfd(t) /\ ~CloseConn(t)
  <2>1. UNCHANGED <<main, cell, vargp, fdtab, connfd, clientfd>>
    BY <1>4
    DEF ProxyThread, ParseStep, CacheStep, ForwardCachedResponse, SendRequest,
        ReadBlock, WriteBlock, EndOfResponse, mainVars, netVars
  <2>2. MainTypes'
    BY <2>1 DEF NetInv, MainTypes, FdStates
  <2>3. PICK place : place = pc'[t]
    OBVIOUS
  <2>4. GoTo(t, place)
    BY <2>3, ThreadSteps DEF ThreadStep, Alone, NetInv, ThreadTypes, GoTo
  <2>5. /\ pc[t] \notin {"none", "start", "done", "hit_done"}
        /\ place \notin {"none", "start", "done", "hit_done"}
        /\ pc[t] \in Forwarding <=> place \in Forwarding
    <3>1. CASE CacheStep(t)
      BY <2>3, <3>1
      DEF CacheStep, CacheFind, CacheInsert, FindLock, FindHit, FindNext, FindMiss,
          InsertLock, EvictTail, EvictEnd, Link, LinkNoMemory, InsertUnlock, GoTo,
          NetInv, ThreadTypes, Forwarding
    <3>2. CASE ParseStep(t)
      BY <2>3, <3>2
      DEF ParseStep, Parse, ReadRequestLine, ReadHeader, EndOfHeaders, StrtokKey,
          StrtokValue, StrtokNull, GoTo, NetInv, ThreadTypes, Forwarding
    <3>3. CASE ~CacheStep(t) /\ ~ParseStep(t)
      BY <1>4, <2>3, <3>3
      DEF ProxyThread, ForwardCachedResponse, SendRequest, ReadBlock, WriteBlock,
          EndOfResponse, GoTo, NetInv, ThreadTypes, Forwarding
    <3> QED
      BY <3>1, <3>2, <3>3
  <2>6. MainInv' /\ DescriptorInv'
    BY <2>1, <2>4, <2>5, DescriptorsKept
  <2> QED
    BY <2>2, <2>6
<1> QED
  BY <1>1, <1>2, <1>3, <1>4

LEMMA ThreadInv ==
  ASSUME ProxyInv, NEW t \in Threads, ProxyThread(t)
  PROVE  ProxyInv'
<1>1. BytesInv'
  <2>1. Alone(t) /\ BytesOf(t)' /\ input' = input
    BY ThreadSteps DEF ThreadStep
  <2>2. ASSUME NEW u \in Threads \ {t} PROVE BytesOf(u)'
    <3>1. BytesOf(u)
      BY DEF BytesInv
    <3> QED
      BY <2>1, <3>1 DEF Alone, BytesOf, Flow, HasEnded, Asked
  <2> QED
    BY <2>1, <2>2 DEF BytesInv
<1>2. ThreadTypes'
  BY ThreadSteps DEF ThreadStep
<1> QED
  BY <1>1, <1>2, ThreadCache, ThreadEntries, ThreadHits, ThreadParses, ThreadDescriptors
  DEF NetInv

\* Steps that leave the threads' data alone.
LEMMA DataStays ==
  ASSUME BytesInv, EntryInv, HitInv,
         UNCHANGED <<entry, pc, arg, input, origin, buf, body, size, reply>>
  PROVE  BytesInv' /\ EntryInv' /\ HitInv'
<1>1. ASSUME NEW t \in Threads PROVE BytesOf(t)'
  <2>1. BytesOf(t)
    BY DEF BytesInv
  <2> QED
    BY <2>1 DEF BytesOf, Flow, HasEnded, Asked
<1>2. ASSUME NEW key, NEW value, NEW len, IsAnswer(key, value, len)
      PROVE  IsAnswer(key, value, len)'
  BY <1>2 DEF IsAnswer, Answered, AnsweredTo
<1>3. EntryInv'
  BY <1>2 DEF EntryInv, Live
<1>4. HitInv'
  BY <1>2 DEF HitInv, WroteHit
<1> QED
  BY <1>1, <1>3, <1>4 DEF BytesInv

\* Steps that move no thread: the process exits, or a client leaves.
LEMMA StillInv ==
  ASSUME ProxyInv, alive' \in BOOLEAN, gone' \subseteq Threads,
         UNCHANGED <<cacheVars, parseVars, pc, arg, mainVars, fdtab, connfd, clientfd,
                     flowVars, reply>>
  PROVE  ProxyInv'
<1> USE DEF cacheVars, listVars, parseVars, mainVars
<1>1. CacheInv'
  BY DEF CacheInv, PointerTypes, MutexIsOwned, Linked, Live, PointersAreValid, WalkInv
<1>2. SizeInv'
  BY QuietSize
<1>3. NetInv'
  <2>1. ThreadTypes' /\ ParseTypes' /\ MainTypes' /\ MainInv'
    BY DEF NetInv, ThreadTypes, ParseTypes, MainTypes, MainInv, FdStates
  <2>2. \A u \in Threads : /\ HasConn(u)' <=> HasConn(u)
                           /\ ConnFD(u)' = ConnFD(u)
                           /\ Forwarded(u)' <=> Forwarded(u)
    BY DEF HasConn, ConnFD, AtMain, Connected, Served, Forwarded
  <2>3. DescriptorInv'
    BY <2>2 DEF NetInv, DescriptorInv
  <2> QED
    BY <2>1, <2>3 DEF NetInv
<1>4. BytesInv' /\ EntryInv' /\ HitInv'
  BY DataStays
<1> QED
  BY <1>1, <1>2, <1>3, <1>4

LEMMA MainMallocInv ==
  ASSUME ProxyInv, MainMalloc \/ \E t \in Threads : MainAccept(t) PROVE ProxyInv'
<1>1. UNCHANGED <<cacheVars, parseVars, alive, pc, arg, connfd, clientfd, flowVars,
                  reply, gone>>
  BY DEF MainMalloc, MainAccept, netVars
<1> USE DEF cacheVars, listVars, parseVars
<1>2. CacheInv'
  BY <1>1
  DEF CacheInv, PointerTypes, MutexIsOwned, Linked, Live, PointersAreValid, WalkInv
<1>3. SizeInv'
  BY <1>1, QuietSize
<1>4. ThreadTypes' /\ ParseTypes'
  BY <1>1 DEF NetInv, ThreadTypes, ParseTypes
<1>5. MainTypes' /\ MainInv' /\ DescriptorInv'
  BY MainMallocDescriptors, MainAcceptDescriptors
<1>6. BytesInv' /\ EntryInv' /\ HitInv'
  BY <1>1, DataStays
<1> QED
  BY <1>2, <1>3, <1>4, <1>5, <1>6 DEF NetInv

LEMMA MainCreateInv ==
  ASSUME ProxyInv, MainCreate PROVE ProxyInv'
<1> PICK t \in Threads : t = main.conn
  BY DEF MainCreate, NetInv, MainInv
<1>1. /\ pc[t] = "none" /\ GoTo(t, "start") /\ pc' = [pc EXCEPT ![t] = "start"]
      /\ UNCHANGED <<cacheVars, parseVars, alive, arg, connfd, clientfd, flowVars,
                     reply, gone>>
  BY DEF MainCreate, GoTo, netVars, NetInv, MainInv
<1> USE DEF cacheVars, listVars, parseVars
<1>2. CacheInv'
  <2>1. arg' \in [Threads -> Bodies] /\ curr' \in [Threads -> Addr \cup {NULL}]
    BY <1>1 DEF CacheInv, PointerTypes
  <2>2. pc[t] \notin Holding /\ "start" \notin Holding
    BY <1>1 DEF Holding, AfterHit
  <2> QED
    BY <1>1, <2>1, <2>2, OutsideStep
<1>3. \A u \in Threads : /\ u # t => pc'[u] = pc[u]
                         /\ u = t => pc'[u] = "start"
  BY <1>1 DEF NetInv, ThreadTypes
<1>4. SizeInv'
  BY <1>1, <1>3, QuietSize
<1>5. ThreadTypes' /\ ParseTypes'
  BY <1>1 DEF NetInv, ThreadTypes, ParseTypes, Places
<1>6. MainTypes' /\ MainInv' /\ DescriptorInv'
  BY MainCreateDescriptors
<1>7. BytesInv'
  <2>1. ASSUME NEW u \in Threads PROVE BytesOf(u)'
    <3>1. BytesOf(u)
      BY DEF BytesInv
    <3> QED
      BY <1>1, <1>3, <3>1 DEF BytesOf, Flow, HasEnded, Asked, Forwarding, Inserting
  <2> QED
    BY <2>1 DEF BytesInv
<1>8. ASSUME NEW key, NEW value, NEW len, IsAnswer(key, value, len)
      PROVE  IsAnswer(key, value, len)'
  BY <1>1, <1>3, <1>8 DEF IsAnswer, Answered, AnsweredTo
<1>9. EntryInv'
  BY <1>1, <1>8 DEF EntryInv, Live
<1>10. HitInv'
  BY <1>1, <1>3, <1>8 DEF HitInv, WroteHit
<1> QED
  BY <1>2, <1>4, <1>5, <1>6, <1>7, <1>9, <1>10 DEF NetInv

LEMMA NextInv == ProxyInv /\ [Next]_vars => ProxyInv'
<1> SUFFICES ASSUME ProxyInv, [Next]_vars PROVE ProxyInv'
  OBVIOUS
<1>1. ASSUME Exit PROVE ProxyInv'
  BY <1>1, StillInv DEF Exit, netVars, NetInv, ThreadTypes
<1>2. CASE Main
  BY <1>1, <1>2, MainMallocInv, MainCreateInv DEF Main, MainAcceptFails
<1>3. ASSUME NEW t \in Threads, Failure(t) PROVE ProxyInv'
  BY <1>1, <1>3
  DEF Failure, OpenClientfdFails, SendRequestFails, ReadFails, WriteFails
<1>4. ASSUME NEW t \in Threads, ClientLeaves(t) PROVE ProxyInv'
  BY <1>4, StillInv DEF ClientLeaves, NetInv, ThreadTypes
<1>5. CASE UNCHANGED vars
  BY <1>5, StillInv DEF vars, netVars, NetInv, ThreadTypes
<1> QED
  BY <1>2, <1>3, <1>4, <1>5, ThreadInv DEF Next

LEMMA InitInv == Init => ProxyInv
<1> SUFFICES ASSUME Init PROVE ProxyInv
  OBVIOUS
<1> USE DEF Init, CacheInit, ParseInit
<1>1. Live = {} /\ \A t \in Threads : pc[t] = "none"
  BY DEF Live, NoEntry
<1>2. CacheInv
  <2>1. NoEntry \in Entries
    BY DEF NoEntry, Entries, Sizes, Uris
  <2>2. EmptyBody(NULL) \in Bodies
    BY EmptyIsBytes DEF EmptyBody, Body, Bodies, Uris, Sizes
  <2>3. PointerTypes
    BY <2>1, <2>2 DEF PointerTypes
  <2>4. MutexIsOwned /\ Linked /\ PointersAreValid /\ WalkInv
    BY <1>1 DEF MutexIsOwned, Linked, PointersAreValid, WalkInv, Holding, AfterHit
  <2> QED
    BY <2>3, <2>4 DEF CacheInv
<1>3. SizeInv
  <2>1. PICK pos \in [Addr -> Nat] : pos = [a \in Addr |-> 0]
    OBVIOUS
  <2>2. Numbered(pos, pos)
    BY <1>1, <2>1 DEF Numbered
  <2>3. \E p, q \in [Addr -> Nat] : Numbered(p, q)
    BY <2>1, <2>2
  <2>4. cache_size <= MAX_CACHE_SIZE
    OBVIOUS
  <2> QED
    BY <1>1, <2>3, <2>4 DEF SizeInv
<1>4. ThreadTypes
  BY EmptyIsBytes DEF ThreadTypes, Places, NoCell, OriginStates, Uris
<1>5. ParseTypes
  <2>1. \A i \in Inputs : Len(i.hdrs) \in Nat
    BY ProxyAssumption
  <2>2. \A t \in Threads : line[t] \in 0..Len(input[t].hdrs)
    BY <2>1
  <2>3. line \in [Threads -> Nat] /\ DOMAIN extra = Threads
    OBVIOUS
  <2>4. olds \in [buf : Threads \cup {NULL}, line : Nat, rest : {"value", "newline", "end"}]
    BY DEF NowhereInMemory
  <2> QED
    BY <2>2, <2>3, <2>4 DEF ParseTypes
<1>6. MainTypes /\ MainInv
  BY DEF MainTypes, MainInv, FdStates, Listening
<1>7. DescriptorInv
  <2>1. \A t \in Threads : ~HasConn(t) /\ ~Forwarded(t)
    BY <1>1 DEF HasConn, AtMain, Connected, Forwarded
  <2>2. fdtab[3] = Listening /\ \A f \in FDs \ {3} : fdtab[f] = Closed
    BY FDsAreNatural DEF Listening
  <2> QED
    BY <1>1, <2>1, <2>2, FdStatesDiffer DEF DescriptorInv, Forwarding
<1>8. BytesInv /\ EntryInv /\ HitInv
  BY <1>1 DEF BytesInv, BytesOf, EntryInv, HitInv, Forwarding, Inserting, EmptyBody, Body
<1> QED
  BY <1>2, <1>3, <1>4, <1>5, <1>6, <1>7, <1>8 DEF NetInv

LEMMA ProxyInvariance == Spec => []ProxyInv
  BY InitInv, NextInv, PTL DEF Spec

----------------------------------------------------------------------------

\* Every thread reads from the connection that was accepted for it and from the
\* origin it opened itself, for any number of clients and descriptors: main
\* allocates an int for each connection (proxy.c:54-59).
THEOREM OwnDescriptors == Spec => []DescriptorsAreOwn
<1>1. ProxyInv => DescriptorsAreOwn
  <2> SUFFICES ASSUME ProxyInv, NEW t \in Threads
               PROVE  /\ Connected(t) => connfd[t] \in FDs /\ fdtab[connfd[t]] = Conn(t)
                      /\ Forwarded(t) => fdtab[clientfd[t]] = Origin(t)
    BY DEF DescriptorsAreOwn
  <2>1. Connected(t) => HasConn(t) /\ ConnFD(t) = connfd[t]
    BY DEF HasConn, ConnFD, AtMain, Connected, NetInv, MainInv
  <2> QED
    BY <2>1 DEF NetInv, DescriptorInv
<1> QED
  BY <1>1, ProxyInvariance, PTL

\* What strdup keeps of the first len bytes of an object: those before its NUL.
LEMMA DupOfStretch ==
  ASSUME NEW key \in Keys, NEW len \in Nat
  PROVE  \E k \in 0..len :
           /\ StrDup(Stretch(key, 0, len)) = Stretch(key, 0, k)
           /\ k = len \/ k = Text[key]
<1> DEFINE bytes == Stretch(key, 0, len)
           nuls == {i \in DOMAIN bytes : IsNul(bytes[i])}
<1>1. DOMAIN bytes = 1..len /\ \A i \in 1..len : bytes[i] = <<key, i>>
  BY DEF Stretch
<1>2. Text[key] \in Nat
  OBVIOUS
<1>3. nuls = {i \in 1..len : i = Text[key] + 1}
  BY <1>1 DEF IsNul
<1>4. CASE len <= Text[key]
  <2>1. nuls = {}
    BY <1>2, <1>3, <1>4
  <2> QED
    BY <2>1 DEF StrDup
<1>5. CASE Text[key] < len
  <2>1. Text[key] + 1 \in 1..len /\ nuls = {Text[key] + 1}
    BY <1>2, <1>3, <1>5
  <2>2. Min(nuls) = Text[key] + 1
    <3> HIDE DEF nuls
    <3>1. Text[key] + 1 \in Nat
      BY <1>2
    <3> QED
      BY <2>1, <3>1 DEF Min
  <2>3. StrDup(bytes) = SubSeq(bytes, 1, Text[key])
    <3>1. nuls # {} /\ Text[key] + 1 - 1 = Text[key]
      BY <1>2, <2>1
    <3>2. StrDup(bytes) = IF nuls = {} THEN bytes ELSE SubSeq(bytes, 1, Min(nuls) - 1)
      BY DEF StrDup
    <3> HIDE DEF nuls, bytes
    <3> QED
      BY <2>2, <3>1, <3>2
  <2>4. SubSeq(bytes, 1, Text[key]) = Stretch(key, 0, Text[key])
    <3>1. bytes \in Seq(Bytes) /\ Len(bytes) = len
      BY StretchIsBytes DEF Uris
    <3>2. PICK m \in Nat : m = Text[key] /\ m < len
      BY <1>2, <1>5
    <3> HIDE DEF bytes
    <3>3. /\ SubSeq(bytes, 1, m) = [i \in 1..m |-> bytes[i]]
      BY <3>1, <3>2
    <3>4. \A i \in 1..m : bytes[i] = <<key, 0 + i>>
      BY <1>1, <3>2
    <3>5. [i \in 1..m |-> bytes[i]] = [i \in 1..m |-> <<key, 0 + i>>]
      BY <3>4
    <3> QED
      BY <3>2, <3>3, <3>5 DEF Stretch
  <2> QED
    BY <1>2, <1>5, <2>3, <2>4
<1> QED
  BY <1>2, <1>4, <1>5

\* What a client gets is the object it asked for, byte for byte and from its
\* start, whichever thread fetched it, for any objects and any order of steps;
\* from the cache, up to the object's first NUL (proxy.c:185-243, cache.c:61).
THEOREM RightReplies == Spec => []RepliesAreRight
<1>1. ProxyInv => RepliesAreRight
  <2> SUFFICES ASSUME ProxyInv, NEW t \in Threads, NEW i \in DOMAIN reply[t]
               PROVE  /\ i <= Size[Asked(t)]
                      /\ \/ IsByteOf(reply[t][i], Asked(t), i)
                         \/ /\ reply[t][i] = Beyond
                            /\ pc[t] \in AfterHit /\ i > Text[Asked(t)] + 1
    BY DEF RepliesAreRight
  <2> DEFINE key == arg[t].of
  <2>1. BytesOf(t) /\ reply[t] \in Seq(Bytes) /\ i \in 1..Len(reply[t])
    BY DEF BytesInv, NetInv, ThreadTypes
  <2>2. key \in Keys /\ key = Asked(t)
    <3>1. reply[t] # <<>>
      BY <2>1
    <3> QED
      BY <2>1, <3>1 DEF BytesOf, Forwarding
  <2>3. Size[key] \in Nat /\ Text[key] \in Nat
    BY <2>2
  <2>4. CASE pc[t] \in {"hit_close", "hit_done"}
    <3>1. PICK value \in Seq(Bytes), len \in Sizes :
            IsAnswer(key, value, len) /\ reply[t] = FromString(value, len)
      BY <2>4 DEF HitInv, WroteHit
    <3>2. len \in Nat /\ len <= Size[key] /\ value = StrDup(Stretch(key, 0, len))
      BY <3>1 DEF IsAnswer, Sizes
    <3>3. PICK k \in 0..len :
            value = Stretch(key, 0, k) /\ (k = len \/ k = Text[key])
      BY <2>2, <3>2, DupOfStretch
    <3>4. i \in 1..len /\ Len(value) = k
      <4>1. DOMAIN reply[t] = 1..len
        BY <3>1 DEF FromString
      <4>2. key \in Uris /\ 0 \in Nat /\ k \in Nat
        BY <2>2 DEF Uris
      <4> HIDE DEF key
      <4> QED
        BY <3>2, <3>3, <4>1, <4>2, StretchIsBytes
    <3>5. reply[t][i] = IF i <= k THEN value[i] ELSE IF i = k + 1 THEN Nul ELSE Beyond
      BY <3>1, <3>4 DEF FromString
    <3>6. i <= k => value[i] = <<key, i>>
      <4>1. i <= k => i \in 1..k /\ 0 + i = i
        BY <3>4
      <4> HIDE DEF key
      <4> QED
        BY <3>3, <4>1 DEF Stretch
    <3>7. ~(i <= k) => k = Text[key]
      BY <3>2, <3>3, <3>4
    <3> HIDE DEF key
    <3> QED
      BY <2>2, <2>3, <2>4, <3>2, <3>3, <3>4, <3>5, <3>6, <3>7 DEF IsByteOf, AfterHit
  <2>5. CASE pc[t] \notin {"hit_close", "hit_done"}
    <3>1. pc[t] \in Forwarding /\ Flow(t, key)
      BY <2>1, <2>5 DEF BytesOf
    <3>2. buf[t] \in Seq(Bytes) /\ size[t] \in Nat /\ origin[t].left \in Nat
      BY DEF NetInv, ThreadTypes, OriginStates
    <3>3. /\ reply[t] \o buf[t] = Stretch(key, 0, size[t])
          /\ size[t] <= Size[key]
      BY <2>3, <3>1, <3>2 DEF Flow
    <3>4. Len(Stretch(key, 0, size[t])) = size[t]
      BY <2>2, <3>2, StretchIsBytes DEF Uris
    <3>5. PICK x \in Seq(Bytes), y \in Seq(Bytes) : x = reply[t] /\ y = buf[t]
      BY <2>1, <3>2
    <3>6. /\ Len(x) \in Nat /\ Len(y) \in Nat /\ Len(x \o y) = Len(x) + Len(y)
          /\ \A j \in 1..Len(x) + Len(y) :
               (x \o y)[j] = IF j <= Len(x) THEN x[j] ELSE y[j - Len(x)]
      BY JoinBytes
    <3>7. i \in 1..size[t] /\ (reply[t] \o buf[t])[i] = reply[t][i]
      <4>1. i \in 1..Len(x)
        BY <2>1, <3>5
      <4>2. i \in 1..Len(x) + Len(y) /\ i <= Len(x)
        BY ONLY <3>6, <4>1
      <4> QED
        BY <3>3, <3>4, <3>5, <3>6, <4>2
    <3>8. Stretch(key, 0, size[t])[i] = <<key, i>>
      BY <3>7 DEF Stretch
    <3> HIDE DEF key
    <3> QED
      BY <2>2, <2>3, <3>2, <3>3, <3>7, <3>8 DEF IsByteOf
  <2> QED
    BY <2>4, <2>5
<1> QED
  BY <1>1, ProxyInvariance, PTL

\* The variables keep their types, the cache its limit, whatever the threads do,
\* and an answer from the cache is one that an origin gave before (proxy.c:185-243,
\* cache.c:51-99).
THEOREM FaithfulCache == Spec => []CacheIsFaithful
<1>1. ProxyInv => TypeOK
  <2> SUFFICES ASSUME ProxyInv PROVE TypeOK
    OBVIOUS
  <2>1. CacheTypeOK
    BY SizeIsNatural DEF CacheTypeOK, CacheInv, PointerTypes, NetInv, ThreadTypes
  <2>2. pc \in [Threads -> ParsePlaces \cup CachePlaces \cup AfterHit \cup
                  {"none", "start", "send", "read", "write", "done"}]
    <3>1. Places = ParsePlaces \cup CachePlaces \cup AfterHit \cup
                     {"none", "start", "send", "read", "write", "done"}
      BY DEF Places, Forwarding, CachePlaces
    <3> QED
      BY <3>1 DEF NetInv, ThreadTypes
  <2>3. /\ line \in [Threads -> Nat]
        /\ olds.buf \in Threads \cup {NULL}
        /\ olds.rest \in {"value", "newline", "end"}
    BY DEF NetInv, ParseTypes
  <2>4. /\ main.at \in {"malloc", "accept", "create"}
        /\ cell \in [Cells -> FDs \cup {NoCell, Unset}]
        /\ vargp \in [Threads -> Cells \cup {NoCell}]
        /\ DOMAIN fdtab = FDs
    BY DEF NetInv, MainTypes
  <2>5. /\ connfd \in [Threads -> FDs \cup {NoCell}]
        /\ clientfd \in [Threads -> FDs \cup {NoCell}]
        /\ \A t \in Threads :
             /\ buf[t] \in Seq(Bytes) /\ Len(buf[t]) <= MAXLINE
             /\ body[t] \in Seq(Bytes) /\ Len(body[t]) <= MAX_OBJECT_SIZE
             /\ reply[t] \in Seq(Bytes)
        /\ size \in [Threads -> Nat]
        /\ gone \subseteq Threads
    BY DEF NetInv, ThreadTypes
  <2> QED
    BY <2>1, <2>2, <2>3, <2>4, <2>5 DEF TypeOK
<1>2. ProxyInv => CachedReplyIsAnEarlierReply
  <2> SUFFICES ASSUME ProxyInv, NEW t \in Threads, pc[t] \in {"hit_close", "hit_done"}
               PROVE  \E u \in Threads \ {t} :
                        /\ arg[u].of = arg[t].of
                        /\ Len(reply[u]) = Len(reply[t])
                        /\ Len(reply[u]) <= MAX_OBJECT_SIZE
                        /\ origin[u].end \in {"serves", "cuts"}
                        /\ origin[u].end = "serves" => Len(reply[t]) = Size[arg[t].of]
    BY DEF CachedReplyIsAnEarlierReply
  <2>1. PICK value \in Seq(Bytes), len \in Sizes :
          IsAnswer(arg[t].of, value, len) /\ reply[t] = FromString(value, len)
    BY DEF HitInv, WroteHit
  <2>2. PICK u \in Threads : AnsweredTo(u, arg[t].of, len)
    BY <2>1 DEF IsAnswer, Answered
  <2>3. len \in Nat /\ len <= MAX_OBJECT_SIZE
    BY DEF Sizes
  <2>4. Len(reply[t]) = len
    <3>1. DOMAIN reply[t] = 1..len /\ reply[t] \in Seq(Bytes)
      BY <2>1 DEF FromString, NetInv, ThreadTypes
    <3> QED
      BY <2>3, <3>1
  <2>5. u # t
    BY <2>2 DEF AnsweredTo
  <2> QED
    BY <2>2, <2>3, <2>4, <2>5 DEF AnsweredTo
<1> QED
  BY <1>1, <1>2, ProxyInvariance, PTL DEF CacheIsFaithful

----------------------------------------------------------------------------
(* Counting descriptors *)

HIDE DEF ThreadTypes, PointerTypes, flowVars

LEMMA SameCardinality ==
  ASSUME NEW S, IsFiniteSet(S), NEW T, NEW f \in [S -> T],
         \A x, y \in S : f[x] = f[y] => x = y,
         \A z \in T : \E x \in S : f[x] = z
  PROVE  IsFiniteSet(T) /\ Cardinality(T) = Cardinality(S)
<1>1. f \in Bijection(S, T)
  BY DEF Bijection, Injection, Surjection, IsInjective
<1> QED
  BY <1>1, FS_Bijection DEF ExistsBijection

LEMMA DisjointUnion ==
  ASSUME NEW S, IsFiniteSet(S), NEW T, IsFiniteSet(T), S \cap T = {}
  PROVE  /\ IsFiniteSet(S \cup T)
         /\ Cardinality(S \cup T) = Cardinality(S) + Cardinality(T)
<1>1. /\ IsFiniteSet(S \cup T)
      /\ Cardinality(S \cup T) = Cardinality(S) + Cardinality(T) - Cardinality(S \cap T)
  BY FS_Union
<1>2. Cardinality(S \cap T) = 0
  BY FS_EmptySet
<1>3. Cardinality(S) \in Nat /\ Cardinality(T) \in Nat
  BY FS_CardinalityType
<1> QED
  BY <1>1, <1>2, <1>3

\* connfd is given back, and every request forwarded keeps one descriptor for
\* good, since nobody closes clientfd (proxy.c:237-241): any finite number of
\* clients.
THEOREM DescriptorsLeak ==
  ASSUME IsFiniteSet(Threads)
  PROVE  Spec => []DescriptorsAccounted
<1>1. ProxyInv => DescriptorsAccounted
  <2> SUFFICES ASSUME ProxyInv PROVE DescriptorsAccounted
    OBVIOUS
  <2> USE DEF NetInv
  <2> DEFINE Open == FDs \ FreeFDs
             Waiting == IF main.at = "create" THEN {main.conn} ELSE {}
             Reading == {t \in Threads : Connected(t) \/ pc[t] = "start"}
             With == Waiting \cup Reading
             Out == {t \in Threads : Forwarded(t)}
             ConnFDs == {ConnFD(t) : t \in With}
             OriginFDs == {clientfd[t] : t \in Out}
  <2>1. /\ With = {t \in Threads : HasConn(t)}
        /\ Waiting \cap Reading = {} /\ Waiting \subseteq Threads
    BY DEF HasConn, AtMain, MainInv, Connected
  <2>2. /\ \A t \in With : ConnFD(t) \in FDs /\ fdtab[ConnFD(t)] = Conn(t)
        /\ \A t \in Out : clientfd[t] \in FDs /\ fdtab[clientfd[t]] = Origin(t)
    BY <2>1 DEF DescriptorInv, ThreadTypes, Forwarded
  <2>3. /\ IsFiniteSet(Waiting) /\ IsFiniteSet(Reading) /\ IsFiniteSet(Out)
        /\ Cardinality(Waiting) = IF main.at = "create" THEN 1 ELSE 0
    BY FS_Subset, FS_Singleton, FS_EmptySet
  <2>4. IsFiniteSet(With) /\ Cardinality(With) = Cardinality(Waiting) + Cardinality(Reading)
    BY <2>1, <2>3, DisjointUnion
  <2>5. Open = ({3} \cup ConnFDs) \cup OriginFDs
    <3>1. \A g \in FDs : fdtab[g] \in FdStates
      BY DEF MainTypes
    <3>2. 3 \in FDs /\ fdtab[3] = Listening
      BY FDsAreNatural DEF DescriptorInv
    <3>3. ASSUME NEW g \in FDs, fdtab[g] # Closed
          PROVE  g \in ({3} \cup ConnFDs) \cup OriginFDs
      <4>1. CASE fdtab[g] = Listening
        BY <4>1 DEF DescriptorInv
      <4>2. ASSUME NEW t \in Threads, fdtab[g] = Conn(t)
            PROVE  g \in ConnFDs
        <5>1. HasConn(t) /\ g = ConnFD(t)
          BY <4>2 DEF DescriptorInv
        <5>2. t \in With
          BY <2>1, <5>1
        <5> HIDE DEF With
        <5> QED
          BY <5>1, <5>2
      <4>3. ASSUME NEW t \in Threads, fdtab[g] = Origin(t)
            PROVE  g \in OriginFDs
        BY <4>3 DEF DescriptorInv
      <4> HIDE DEF ConnFDs, OriginFDs
      <4> QED
        BY <3>1, <3>3, <4>1, <4>2, <4>3 DEF FdStates
    <3> HIDE DEF With, Out
    <3>4. ASSUME NEW g \in ({3} \cup ConnFDs) \cup OriginFDs
          PROVE  g \in FDs /\ fdtab[g] # Closed
      <4>1. CASE g = 3
        BY <3>2, <4>1, FdStatesDiffer
      <4>2. CASE g \in ConnFDs
        BY <2>1, <2>2, <4>2, FdStatesDiffer
      <4>3. CASE g \in OriginFDs
        <5>1. PICK t \in Out : g = clientfd[t]
          BY <4>3
        <5>2. t \in Threads
          BY DEF Out
        <5> QED
          BY <2>2, <5>1, <5>2, FdStatesDiffer
      <4> QED
        BY <4>1, <4>2, <4>3
    <3> QED
      BY <3>3, <3>4 DEF FreeFDs
  <2>6. {3} \cap ConnFDs = {} /\ ({3} \cup ConnFDs) \cap OriginFDs = {}
    BY <2>1, <2>2, FdStatesDiffer DEF DescriptorInv
  <2>7. IsFiniteSet(ConnFDs) /\ Cardinality(ConnFDs) = Cardinality(With)
    <3> DEFINE f == [t \in With |-> ConnFD(t)]
    <3> HIDE DEF With, Waiting, Reading
    <3>1. f \in [With -> ConnFDs] /\ \A z \in ConnFDs : \E x \in With : f[x] = z
      OBVIOUS
    <3>2. \A x, y \in With : f[x] = f[y] => x = y
      BY <2>1, <2>2, FdStatesDiffer
    <3> HIDE DEF f, ConnFDs
    <3> QED
      BY <2>4, <3>1, <3>2, SameCardinality
  <2>8. IsFiniteSet(OriginFDs) /\ Cardinality(OriginFDs) = Cardinality(Out)
    <3> DEFINE f == [t \in Out |-> clientfd[t]]
    <3>0. Out \subseteq Threads
      OBVIOUS
    <3> HIDE DEF Out
    <3>1. f \in [Out -> OriginFDs] /\ \A z \in OriginFDs : \E x \in Out : f[x] = z
      OBVIOUS
    <3>2. \A x, y \in Out : f[x] = f[y] => x = y
      <4>1. SUFFICES ASSUME NEW x \in Out, NEW y \in Out, clientfd[x] = clientfd[y]
                     PROVE  x = y
        OBVIOUS
      <4>2. fdtab[clientfd[x]] = Origin(x) /\ fdtab[clientfd[y]] = Origin(y)
        BY <2>2
      <4>3. x \in Threads /\ y \in Threads /\ Origin(x) = Origin(y)
        BY <3>0, <4>1, <4>2
      <4> QED
        BY ONLY <4>3, FdStatesDiffer
    <3>3. IsFiniteSet(Out)
      BY <2>3
    <3> HIDE DEF f, OriginFDs
    <3> QED
      BY <3>1, <3>2, <3>3, SameCardinality
  <2>9. Cardinality(Open) = 1 + Cardinality(With) + Cardinality(Out)
    <3> HIDE DEF Open, With, Out, ConnFDs, OriginFDs
    <3>1. IsFiniteSet({3}) /\ Cardinality({3}) = 1
      BY FS_Singleton
    <3>2. /\ IsFiniteSet({3} \cup ConnFDs)
          /\ Cardinality({3} \cup ConnFDs) = 1 + Cardinality(ConnFDs)
      BY <2>6, <2>7, <3>1, DisjointUnion
    <3>3. Cardinality(({3} \cup ConnFDs) \cup OriginFDs)
            = Cardinality({3} \cup ConnFDs) + Cardinality(OriginFDs)
      BY <2>6, <2>8, <3>2, DisjointUnion
    <3> QED
      BY <2>5, <2>7, <2>8, <3>2, <3>3
  <2>10. Cardinality(Reading) \in Nat /\ Cardinality(Waiting) \in Nat /\ Cardinality(Out) \in Nat
    BY <2>3, FS_CardinalityType
  <2>11. Cardinality(Open) =
           1 + (IF main.at = "create" THEN 1 ELSE 0) + Cardinality(Reading) + Cardinality(Out)
    <3> HIDE DEF Open, Reading, Out, Waiting, With
    <3> QED
      BY <2>3, <2>4, <2>9, <2>10
  <2> QED
    BY <2>11 DEF DescriptorsAccounted
<1> QED
  BY <1>1, ProxyInvariance, PTL

----------------------------------------------------------------------------
(* Headers *)

\* What the headers kept of each prefix are.
LEMMA KeptIs ==
  ASSUME NEW H, NEW hdrs \in Seq(H)
  PROVE  /\ DOMAIN Kept(hdrs) = 0..Len(hdrs)
         /\ Kept(hdrs)[0] = <<>>
         /\ \A i \in 1..Len(hdrs) :
              Kept(hdrs)[i] = IF hdrs[i].key \in Ignored THEN Kept(hdrs)[i-1]
                              ELSE Append(Kept(hdrs)[i-1], hdrs[i])
<1> DEFINE Turn(g, i) == IF hdrs[i].key \in Ignored THEN g[i-1] ELSE Append(g[i-1], hdrs[i])
           Is(g, k) == g = [i \in 0..k |-> IF i = 0 THEN <<>> 
              ELSE IF hdrs[i].key \in Ignored THEN g[i-1] ELSE Append(g[i-1], hdrs[i])]
           Some(k) == \E g : Is(g, k)
           T == {k \in Nat : ~Some(k)}
<1>1. \A k \in Nat : Some(k)
  <2> SUFFICES ASSUME T # {} PROVE FALSE
    OBVIOUS
  <2>1. PICK x \in Nat : ~Some(x) /\ \A y \in Nat : ~Some(y) => x <= y
    <3> HIDE DEF Some
    <3>1. \E x \in T : \A y \in T : x <= y
      BY LeastNatural
    <3> QED
      BY <3>1
  <2>2. x # 0
    <3>1. Is([i \in 0..0 |-> <<>>], 0)
      OBVIOUS
    <3> QED
      BY <2>1, <3>1
  <2>3. PICK g : Is(g, x - 1)
    <3>1. x - 1 \in Nat /\ ~(x <= x - 1)
      BY <2>2
    <3>2. Some(x - 1)
      <4> HIDE DEF Some
      <4> QED
        BY <2>1, <3>1
    <3> QED
      BY <3>2
  <2> DEFINE h == [i \in 0..x |-> IF i = x THEN Turn(g, x) ELSE g[i]]
  <2>4. Is(h, x)
    <3>1. x \in Nat \ {0}
      BY <2>2
    <3>2. ASSUME NEW i \in 0..x
          PROVE  h[i] = IF i = 0 THEN <<>> ELSE Turn(h, i)
      <4>1. CASE i = x
        <5>1. x - 1 \in 0..x /\ x - 1 # x /\ i # 0
          BY <3>1, <4>1
        <5> QED
          BY <4>1, <5>1
      <4>2. CASE i # x
        <5>1. i \in 0..(x-1)
          BY <3>1, <4>2
        <5>2. CASE i = 0
          BY <2>3, <4>2, <5>1, <5>2
        <5>3. CASE i # 0
          <6>1. i - 1 \in 0..x /\ i - 1 # x
            BY <3>1, <5>1, <5>3
          <6>2. h[i] = g[i] /\ h[i-1] = g[i-1]
            BY <4>2, <6>1
          <6>3. g[i] = Turn(g, i)
            BY <2>3, <5>1, <5>3
          <6> QED
            BY <5>3, <6>2, <6>3
        <5> QED
          BY <5>2, <5>3
      <4> QED
        BY <4>1, <4>2
    <3>3. h = [i \in 0..x |-> h[i]]
      OBVIOUS
    <3> HIDE DEF h
    <3> QED
      BY <3>2, <3>3
  <2> QED
    BY <2>1, <2>4
<1>2. Is(Kept(hdrs), Len(hdrs))
  <2>1. Some(Len(hdrs))
    <3> HIDE DEF Some
    <3> QED
      BY <1>1
  <2>2. Kept(hdrs) = CHOOSE g : Is(g, Len(hdrs))
    BY DEF Kept
  <2> HIDE DEF Is
  <2> QED
    BY <2>1, <2>2
<1>3. \A i \in 0..Len(hdrs) : Kept(hdrs)[i] = IF i = 0 THEN <<>> ELSE Turn(Kept(hdrs), i)
  <2> PICK K : K = Kept(hdrs)
    OBVIOUS
  <2>1. K = [i \in 0..Len(hdrs) |-> IF i = 0 THEN <<>> ELSE Turn(K, i)]
    BY <1>2
  <2>2. ASSUME NEW i \in 0..Len(hdrs) PROVE K[i] = IF i = 0 THEN <<>> ELSE Turn(K, i)
    BY ONLY <2>1
  <2> QED
    BY <2>2
<1>4. DOMAIN Kept(hdrs) = 0..Len(hdrs)
  BY <1>2
<1>5. 0 \in 0..Len(hdrs) /\ 1..Len(hdrs) \subseteq 0..Len(hdrs) /\ 0 \notin 1..Len(hdrs)
  OBVIOUS
<1> QED
  BY <1>3, <1>4, <1>5

LEMMA KeptGrows ==
  ASSUME NEW H, NEW hdrs \in Seq(H)
  PROVE  /\ \A k \in 0..Len(hdrs) : Kept(hdrs)[k] \in Seq(H)
         /\ \A k \in 0..Len(hdrs) : \A j \in 0..k :
              /\ Len(Kept(hdrs)[j]) <= Len(Kept(hdrs)[k])
              /\ \A i \in 1..Len(Kept(hdrs)[j]) : Kept(hdrs)[k][i] = Kept(hdrs)[j][i]
<1> PICK K : K = Kept(hdrs)
  OBVIOUS
<1>1. /\ K[0] = <<>>
      /\ \A i \in 1..Len(hdrs) :
           K[i] = IF hdrs[i].key \in Ignored THEN K[i-1] ELSE Append(K[i-1], hdrs[i])
  BY KeptIs
<1>2. Len(hdrs) \in Nat /\ \A i \in 1..Len(hdrs) : hdrs[i] \in H
  OBVIOUS
<1> DEFINE Good(k) ==
             /\ K[k] \in Seq(H)
             /\ \A j \in 0..k : /\ Len(K[j]) <= Len(K[k])
                                /\ \A i \in 1..Len(K[j]) : K[k][i] = K[j][i]
           Bad == {k \in Nat : k <= Len(hdrs) /\ ~Good(k)}
<1>3. \A k \in Nat : k <= Len(hdrs) => Good(k)
  <2> SUFFICES ASSUME Bad # {} PROVE FALSE
    OBVIOUS
  <2>1. PICK x \in Nat : /\ x <= Len(hdrs) /\ ~Good(x)
                         /\ \A y \in Nat : y <= Len(hdrs) /\ ~Good(y) => x <= y
    <3> HIDE DEF Good
    <3>1. \E x \in Bad : \A y \in Bad : x <= y
      BY LeastNatural
    <3> QED
      BY <3>1
  <2>2. x # 0
    <3>1. Good(0)
      BY <1>1
    <3> QED
      BY <2>1, <3>1
  <2>3. x - 1 \in Nat /\ x - 1 <= Len(hdrs) /\ ~(x <= x - 1) /\ x \in 1..Len(hdrs)
    BY <1>2, <2>1, <2>2
  <2>4. Good(x - 1)
    <3> HIDE DEF Good
    <3> QED
      BY <2>1, <2>3
  <2>5. Good(x)
    <3>1. /\ K[x] \in Seq(H) /\ Len(K[x-1]) <= Len(K[x])
          /\ \A i \in 1..Len(K[x-1]) : K[x][i] = K[x-1][i]
      <4> PICK P \in Seq(H) : P = K[x-1]
        BY <2>4
      <4> PICK h \in H : h = hdrs[x]
        BY <1>2, <2>3
      <4>1. K[x] = P \/ K[x] = Append(P, h)
        BY <1>1, <2>3
      <4>2. CASE K[x] = P
        BY <4>2
      <4>3. CASE K[x] = Append(P, h)
        <5>1. /\ Append(P, h) \in Seq(H) /\ Len(P) <= Len(Append(P, h))
              /\ \A i \in 1..Len(P) : Append(P, h)[i] = P[i]
          OBVIOUS
        <5> QED
          BY <4>3, <5>1
      <4> QED
        BY <4>1, <4>2, <4>3
    <3>2. ASSUME NEW j \in 0..x
          PROVE  /\ Len(K[j]) <= Len(K[x])
                 /\ \A i \in 1..Len(K[j]) : K[x][i] = K[j][i]
      <4>1. CASE j = x
        BY <3>1, <4>1
      <4>2. CASE j # x
        <5>1. j \in 0..(x - 1)
          BY <2>1, <4>2
        <5>2. /\ Len(K[j]) <= Len(K[x-1])
              /\ \A i \in 1..Len(K[j]) : K[x-1][i] = K[j][i]
          BY <2>4, <5>1
        <5>3. Len(K[x-1]) \in Nat /\ Len(K[x]) \in Nat
          BY <2>4, <3>1
        <5>4. Len(K[j]) \in Nat
          <6>1. CASE j = 0
            BY <1>1, <6>1
          <6>2. CASE j # 0
            <7>1. j \in Nat /\ j <= Len(hdrs) /\ ~(x <= j)
              BY <1>2, <2>1, <2>3, <5>1
            <7>2. Good(j)
              <8> HIDE DEF Good
              <8> QED
                BY <2>1, <7>1
            <7> QED
              BY <7>2
          <6> QED
            BY <6>1, <6>2
        <5>5. \A i \in 1..Len(K[j]) : i \in 1..Len(K[x-1])
          BY <5>2, <5>3, <5>4
        <5>6. Len(K[j]) <= Len(K[x])
          BY ONLY <3>1, <5>2, <5>3, <5>4
        <5> QED
          BY <3>1, <5>2, <5>5, <5>6
      <4> QED
        BY <4>1, <4>2
    <3> QED
      BY <3>1, <3>2
  <2> QED
    BY <2>1, <2>5
<1>4. \A k \in 0..Len(hdrs) : Good(k)
  <2> HIDE DEF Good
  <2> QED
    BY <1>2, <1>3
<1> QED
  BY <1>4

\* How many of its header lines t is done with.
Done(t) == IF pc[t] \in {"strtok_key", "strtok_value"} THEN line[t] - 1 ELSE line[t]

\* t has kept the keys of those lines, and no others.
HeadersOf(t) ==
  /\ pc[t] \in {"none", "start", "read_line"} => line[t] = 0
  /\ pc[t] \in {"strtok_key", "strtok_value"} => line[t] # 0
  /\ Parsed(t) => line[t] = Len(input[t].hdrs)
  /\ Len(extra[t]) = Len(Kept(input[t].hdrs)[Done(t)])
  /\ \A i \in 1..Len(extra[t]) : extra[t][i].key = Kept(input[t].hdrs)[Done(t)][i].key

\* With one client that sends headers, it has kept their values too, and what
\* strtok continues in is its own line.
OneSender ==
  \A t, u \in Threads : input[t].hdrs # <<>> /\ input[u].hdrs # <<>> => t = u

ValuesOf(t) ==
  /\ extra[t] = Kept(input[t].hdrs)[Done(t)]
  /\ pc[t] = "strtok_value" => olds = [buf |-> t, line |-> line[t], rest |-> Behind(t)]

HeaderInv ==
  /\ \A t \in Threads : HeadersOf(t)
  /\ OneSender => \A t \in Threads : ValuesOf(t)

\* What extra_hdrs holds are records.
ExtraTypes == \A t \in Threads : \E S : extra[t] \in Seq(S)

LEMMA InputTypes ==
  ASSUME NetInv, NEW t \in Threads
  PROVE  /\ input[t].hdrs \in Seq(Headers)
         /\ Len(input[t].hdrs) \in Nat
         /\ line[t] \in 0..Len(input[t].hdrs)
         /\ pc[t] \in Places
<1>1. input[t] \in Inputs /\ line[t] \in 0..Len(input[t].hdrs) /\ pc[t] \in Places
  BY DEF NetInv, ParseTypes, ThreadTypes
<1>2. input[t].hdrs \in Seq(Headers)
  BY <1>1, ProxyAssumption
<1> QED
  BY <1>1, <1>2

\* A step that leaves t between the same two header lines.
LEMMA HeadersStay ==
  ASSUME NetInv, NEW t \in Threads, HeadersOf(t), ExtraTypes,
         input' = input, extra'[t] = extra[t], Done(t)' = Done(t),
         pc'[t] \in {"none", "start", "read_line"} => line'[t] = 0,
         pc'[t] \in {"strtok_key", "strtok_value"} => line'[t] # 0,
         Parsed(t)' => line'[t] = Len(input[t].hdrs)
  PROVE  /\ HeadersOf(t)'
         /\ extra[t] = Kept(input[t].hdrs)[Done(t)]
              => extra'[t] = Kept(input'[t].hdrs)[Done(t)']
  BY DEF HeadersOf

LEMMA ParserHeaders ==
  ASSUME NetInv, HeaderInv, ExtraTypes, NEW t \in Threads, ParseStep(t)
  PROVE  HeadersOf(t)' /\ ExtraTypes' /\ (OneSender => ValuesOf(t)')
<1> DEFINE hdrs == input[t].hdrs
<1>1. /\ HeadersOf(t) /\ input' = input
      /\ hdrs \in Seq(Headers) /\ Len(hdrs) \in Nat /\ line[t] \in 0..Len(hdrs)
      /\ DOMAIN line = Threads /\ DOMAIN extra = Threads /\ DOMAIN pc = Threads
  BY InputTypes
  DEF HeaderInv, ParseStep, Parse, ReadRequestLine, ReadHeader, EndOfHeaders,
      StrtokKey, StrtokValue, StrtokNull, parseVars, NetInv, ParseTypes, ThreadTypes
<1> HIDE DEF hdrs
<1>2. CASE ReadRequestLine(t) \/ EndOfHeaders(t) \/ StrtokNull(t)
  <2>1. UNCHANGED <<line, extra, olds>>
    BY <1>2 DEF ReadRequestLine, EndOfHeaders, StrtokNull, parseVars
  <2>2. \/ pc[t] = "read_line" /\ pc'[t] = "read_hdr"
        \/ pc[t] = "read_hdr" /\ pc'[t] = "find_lock" /\ line[t] = Len(hdrs)
        \/ pc[t] \in {"strtok_key", "strtok_value"} /\ pc'[t] = pc[t]
    BY <1>1, <1>2 DEF ReadRequestLine, EndOfHeaders, StrtokNull, GoTo, hdrs
  <2>3. /\ HeadersOf(t)'
        /\ extra[t] = Kept(hdrs)[Done(t)] => extra'[t] = Kept(hdrs)[Done(t)']
    BY <1>1, <2>1, <2>2, HeadersStay DEF HeadersOf, Done, Parsed, ParsePlaces, hdrs
  <2> QED
    BY <1>1, <2>1, <2>2, <2>3 DEF ExtraTypes, ValuesOf, Behind, Header, HeaderInv, hdrs
<1>3. CASE ReadHeader(t)
  <2>1. /\ pc[t] = "read_hdr" /\ pc'[t] = "strtok_key" /\ line'[t] = line[t] + 1
        /\ UNCHANGED <<extra, olds>>
    BY <1>1, <1>3 DEF ReadHeader, GoTo
  <2>2. /\ HeadersOf(t)'
        /\ extra[t] = Kept(hdrs)[Done(t)] => extra'[t] = Kept(hdrs)[Done(t)']
    <3>1. line[t] \in Nat
      BY <1>1
    <3>2. line'[t] # 0 /\ line'[t] - 1 = line[t]
      BY <2>1, <3>1
    <3>3. Done(t)' = Done(t) /\ ~Parsed(t)'
      BY <2>1, <3>2 DEF Done, Parsed, ParsePlaces
    <3> QED
      BY <1>1, <2>1, <3>2, <3>3, HeadersStay DEF hdrs
  <2> QED
    BY <1>1, <2>1, <2>2 DEF ExtraTypes, ValuesOf, HeaderInv, hdrs
<1>4. CASE StrtokKey(t)
  <2>1. /\ pc[t] = "strtok_key" /\ pc'[t] = "strtok_value"
        /\ UNCHANGED <<line, extra>>
        /\ olds' = [buf |-> t, line |-> line[t], rest |-> Behind(t)]
    BY <1>1, <1>4 DEF StrtokKey, GoTo
  <2>2. /\ HeadersOf(t)'
        /\ extra[t] = Kept(hdrs)[Done(t)] => extra'[t] = Kept(hdrs)[Done(t)']
    BY <1>1, <2>1, HeadersStay DEF HeadersOf, Done, Parsed, ParsePlaces, hdrs
  <2> QED
    BY <1>1, <2>1, <2>2 DEF ExtraTypes, ValuesOf, Behind, Header, HeaderInv, hdrs
<1>5. CASE StrtokValue(t)
  <2>1. /\ pc[t] = "strtok_value" /\ pc'[t] = "read_hdr"
        /\ UNCHANGED line
    BY <1>1, <1>5 DEF StrtokValue, GoTo
  <2>2. PICK k \in 1..Len(hdrs) : k = line[t] /\ k - 1 \in 0..Len(hdrs)
    BY <1>1, <2>1 DEF HeadersOf
  <2>3. /\ Done(t) = k - 1 /\ Done(t)' = k
    BY <2>1, <2>2 DEF Done
  <2>4. PICK h \in Headers : h = hdrs[k]
    BY <1>1, <2>2
  <2> DEFINE K == Kept(hdrs)
  <2>5. /\ K[k] = IF h.key \in Ignored THEN K[k-1] ELSE Append(K[k-1], h)
        /\ K[k-1] \in Seq(Headers)
    BY <1>1, <2>2, <2>4, KeptIs, KeptGrows
  <2> HIDE DEF K
  <2>6. PICK v : extra' = IF h.key \in Ignored THEN extra
                          ELSE [extra EXCEPT ![t] = Append(@, [key |-> h.key, value |-> v])]
    BY <1>5, <2>2, <2>4 DEF StrtokValue, Keep, Header, hdrs
  <2>7. PICK S : extra[t] \in Seq(S)
    BY DEF ExtraTypes
  <2> DEFINE e == [key |-> h.key, value |-> v]
  <2>8. /\ Len(extra[t]) = Len(K[k-1])
        /\ \A i \in 1..Len(extra[t]) : extra[t][i].key = K[k-1][i].key
    BY <1>1, <2>3 DEF HeadersOf, K, hdrs
  <2>9. e.key = h.key
    OBVIOUS
  <2> HIDE DEF e
  <2>10. /\ \E R : extra'[t] \in Seq(R)
         /\ Len(extra'[t]) = Len(K[k])
         /\ \A i \in 1..Len(extra'[t]) : extra'[t][i].key = K[k][i].key
    <3>1. CASE h.key \in Ignored
      BY <2>5, <2>6, <2>7, <2>8, <3>1
    <3>2. CASE h.key \notin Ignored
      <4>1. extra'[t] = Append(extra[t], e) /\ K[k] = Append(K[k-1], h)
        BY <1>1, <2>5, <2>6, <3>2 DEF e
      <4>2. PICK a \in Seq(S), b \in Seq(Headers) : a = extra[t] /\ b = K[k-1]
        BY <2>5, <2>7
      <4>3. /\ Append(a, e) \in Seq(S \cup {e})
            /\ Len(Append(a, e)) = Len(a) + 1 /\ Len(Append(b, h)) = Len(b) + 1
        OBVIOUS
      <4>4. ASSUME NEW i \in 1..(Len(a) + 1)
            PROVE  Append(a, e)[i].key = Append(b, h)[i].key
        <5>1. CASE i = Len(a) + 1
          BY <2>8, <2>9, <4>2, <5>1
        <5>2. CASE i # Len(a) + 1
          <6>1. i \in 1..Len(a) /\ i \in 1..Len(b)
            <7>1. Len(a) \in Nat /\ Len(b) = Len(a)
              BY <2>8, <4>2
            <7> QED
              BY ONLY <5>2, <7>1, i \in 1..(Len(a) + 1)
          <6>2. Append(a, e)[i] = a[i] /\ Append(b, h)[i] = b[i]
            BY ONLY a \in Seq(S), b \in Seq(Headers), <6>1
          <6> QED
            BY <2>8, <4>2, <6>1, <6>2
        <5> QED
          BY <5>1, <5>2
      <4> QED
        BY <2>8, <4>1, <4>2, <4>3, <4>4
    <3> QED
      BY <3>1, <3>2
  <2>11. HeadersOf(t)'
    <3>1. line'[t] = line[t] /\ input'[t].hdrs = hdrs /\ ~Parsed(t)'
      BY <1>1, <2>1 DEF hdrs, Parsed, ParsePlaces
    <3> QED
      BY <2>1, <2>3, <2>10, <3>1 DEF HeadersOf, K
  <2>12. ExtraTypes'
    <3>1. ASSUME NEW u \in Threads \ {t} PROVE extra'[u] = extra[u]
      BY <1>1, <2>6
    <3> QED
      BY <2>10, <3>1 DEF ExtraTypes
  <2>13. ASSUME OneSender PROVE ValuesOf(t)'
    <3>1. extra[t] = K[k-1] /\ olds = [buf |-> t, line |-> line[t], rest |-> Behind(t)]
      BY <2>1, <2>3, <2>13 DEF HeaderInv, ValuesOf, K, hdrs
    <3>2. olds.buf = t /\ olds.line = k /\ OldsIsFresh
      BY <2>1, <2>2, <3>1 DEF OldsIsFresh, ParsePlaces
    <3>3. h = [key |-> h.key, value |-> h.value]
      BY ProxyAssumption
    <3>4. extra' = IF h.key \in Ignored THEN extra
                   ELSE [extra EXCEPT ![t] = Append(@, h)]
      BY <1>5, <2>2, <2>4, <3>2, <3>3 DEF StrtokValue, Keep, Header, hdrs
    <3>5. extra'[t] = K[k]
      BY <1>1, <2>5, <3>1, <3>4
    <3> QED
      BY <1>1, <2>1, <2>3, <3>5 DEF ValuesOf, K, hdrs
  <2> QED
    BY <2>11, <2>12, <2>13
<1> QED
  BY <1>2, <1>3, <1>4, <1>5 DEF ParseStep, Parse

\* A step of the parser, as far as the other threads are concerned.
LEMMA ParserOthers ==
  ASSUME NetInv, HeaderInv, NEW t \in Threads, ParseStep(t),
         NEW u \in Threads \ {t}
  PROVE  HeadersOf(u)' /\ (OneSender => ValuesOf(u)')
<1>1. /\ input' = input /\ pc'[u] = pc[u] /\ line'[u] = line[u] /\ extra'[u] = extra[u]
      /\ \/ olds' = olds
         \/ pc[t] \in {"strtok_key", "strtok_value"}
  <2>1. DOMAIN pc = Threads /\ DOMAIN line = Threads /\ DOMAIN extra = Threads
    BY DEF NetInv, ParseTypes, ThreadTypes
  <2>2. input' = input /\ pc'[u] = pc[u] /\ line'[u] = line[u]
    BY <2>1
    DEF ParseStep, Parse, ReadRequestLine, ReadHeader, EndOfHeaders, StrtokKey,
        StrtokValue, StrtokNull, GoTo, parseVars
  <2>3. extra' = extra \/ \E e : extra' = [extra EXCEPT ![t] = e]
    BY DEF ParseStep, Parse, ReadRequestLine, ReadHeader, EndOfHeaders, StrtokKey,
           StrtokValue, StrtokNull, Keep, parseVars
  <2>4. olds' = olds \/ pc[t] \in {"strtok_key", "strtok_value"}
    BY DEF ParseStep, Parse, ReadRequestLine, ReadHeader, EndOfHeaders, StrtokKey,
           StrtokValue, StrtokNull, parseVars
  <2> QED
    BY <2>1, <2>2, <2>3, <2>4
<1>2. HeadersOf(u)'
  <2>1. HeadersOf(u) /\ Done(u)' = Done(u) /\ (Parsed(u)' <=> Parsed(u))
    BY <1>1 DEF HeaderInv, Done, Parsed
  <2> QED
    BY <1>1, <2>1 DEF HeadersOf
<1>3. ASSUME OneSender PROVE ValuesOf(u)'
  <2>1. ValuesOf(u)
    BY <1>3 DEF HeaderInv
  <2>2. \A v \in Threads : pc[v] \in {"strtok_key", "strtok_value"} => input[v].hdrs # <<>>
    <3> SUFFICES ASSUME NEW v \in Threads, pc[v] \in {"strtok_key", "strtok_value"},
                        input[v].hdrs = <<>>
                 PROVE  FALSE
      OBVIOUS
    <3>1. line[v] \in 0..Len(input[v].hdrs) /\ Len(<<>>) = 0
      BY InputTypes
    <3> QED
      BY <3>1 DEF HeaderInv, HeadersOf
  <2>3. pc[u] = "strtok_value" => olds' = olds
    BY <1>1, <1>3, <2>2 DEF OneSender
  <2> QED
    BY <1>1, <2>1, <2>3 DEF ValuesOf, Behind, Header, Done
<1> QED
  BY <1>2, <1>3

\* A step that does not parse moves between places of the same kind.
LEMMA OtherHeaders ==
  ASSUME NetInv, HeaderInv, ExtraTypes, UNCHANGED parseVars,
         \A u \in Threads :
           \/ pc'[u] = pc[u]
           \/ pc[u] \in {"none", "start"} /\ pc'[u] \in {"start", "read_line"}
           \/ Parsed(u) /\ Parsed(u)'
  PROVE  HeaderInv' /\ ExtraTypes'
<1> USE DEF parseVars
<1>1. ASSUME NEW u \in Threads PROVE HeadersOf(u)' /\ (OneSender => ValuesOf(u)')
  <2>1. HeadersOf(u) /\ (OneSender => ValuesOf(u))
    BY DEF HeaderInv
  <2>2. CASE pc'[u] = pc[u]
    BY <2>1, <2>2 DEF HeadersOf, ValuesOf, Behind, Header, Done, Parsed
  <2>3. CASE pc[u] \in {"none", "start"} /\ pc'[u] \in {"start", "read_line"}
    BY <2>1, <2>3 DEF HeadersOf, ValuesOf, Behind, Header, Done, Parsed, ParsePlaces
  <2>4. CASE Parsed(u) /\ Parsed(u)'
    BY <2>1, <2>4 DEF HeadersOf, ValuesOf, Behind, Header, Done, Parsed, ParsePlaces
  <2> QED
    BY <2>2, <2>3, <2>4
<1>2. OneSender' <=> OneSender
  BY DEF OneSender
<1> QED
  BY <1>1, <1>2 DEF HeaderInv, ExtraTypes

LEMMA ThreadHeaders ==
  ASSUME NetInv, HeaderInv, ExtraTypes, NEW t \in Threads, ProxyThread(t)
  PROVE  HeaderInv' /\ ExtraTypes'
<1>1. CASE ParseStep(t)
  <2>1. HeadersOf(t)' /\ ExtraTypes' /\ (OneSender => ValuesOf(t)')
    BY <1>1, ParserHeaders
  <2>2. \A u \in Threads \ {t} : HeadersOf(u)' /\ (OneSender => ValuesOf(u)')
    BY <1>1, ParserOthers
  <2>3. input' = input
    BY <1>1
    DEF ParseStep, Parse, ReadRequestLine, ReadHeader, EndOfHeaders, StrtokKey,
        StrtokValue, StrtokNull, parseVars
  <2>4. OneSender' <=> OneSender
    BY <2>3 DEF OneSender
  <2> QED
    BY <2>1, <2>2, <2>4 DEF HeaderInv
<1>2. CASE ~ParseStep(t)
  <2>1. UNCHANGED parseVars
    BY <1>2
    DEF ProxyThread, Start, CacheStep, ForwardCachedResponse, OpenClientfd,
        SendRequest, ReadBlock, WriteBlock, EndOfResponse, CloseConn
  <2>2. PICK p \in [Threads -> Places] : p = pc
    BY DEF NetInv, ThreadTypes
  <2>3. PICK place : pc' = [pc EXCEPT ![t] = place] \/ pc' = pc
    BY <1>2
    DEF ProxyThread, Start, CacheStep, CacheFind, CacheInsert, FindLock, FindHit,
        FindNext, FindMiss, InsertLock, EvictTail, EvictEnd, Link, LinkNoMemory,
        InsertUnlock, ForwardCachedResponse, OpenClientfd, SendRequest, ReadBlock,
        WriteBlock, EndOfResponse, CloseConn, GoTo
  <2>4. \/ pc'[t] = pc[t]
        \/ pc[t] = "start" /\ pc'[t] = "read_line"
        \/ Parsed(t) /\ Parsed(t)'
    BY <1>2, <2>2
    DEF ProxyThread, Start, CacheStep, CacheFind, CacheInsert, FindLock, FindHit,
        FindNext, FindMiss, InsertLock, EvictTail, EvictEnd, Link, LinkNoMemory,
        InsertUnlock, ForwardCachedResponse, OpenClientfd, SendRequest, ReadBlock,
        WriteBlock, EndOfResponse, CloseConn, GoTo, Parsed, ParsePlaces
  <2>5. \A u \in Threads \ {t} : pc'[u] = pc[u]
    BY <2>2, <2>3
  <2> QED
    BY <2>1, <2>4, <2>5, OtherHeaders
<1> QED
  BY <1>1, <1>2

LEMMA NextHeaders ==
  NetInv /\ HeaderInv /\ ExtraTypes /\ [Next]_vars => HeaderInv' /\ ExtraTypes'
<1> SUFFICES ASSUME NetInv, HeaderInv, ExtraTypes, [Next]_vars
             PROVE  HeaderInv' /\ ExtraTypes'
  OBVIOUS
<1>1. CASE \E t \in Threads : ProxyThread(t)
  BY <1>1, ThreadHeaders
<1>2. CASE MainCreate
  <2>1. PICK t \in Threads : t = main.conn
    BY <1>2 DEF MainCreate, NetInv, MainInv
  <2>2. pc[t] = "none" /\ pc' = [pc EXCEPT ![t] = "start"] /\ UNCHANGED parseVars
    BY <1>2, <2>1 DEF MainCreate, GoTo, NetInv, MainInv
  <2> QED
    BY <2>2, OtherHeaders DEF NetInv, ThreadTypes
<1>3. CASE UNCHANGED <<parseVars, pc>>
  BY <1>3, OtherHeaders
<1> QED
  BY <1>1, <1>2, <1>3
  DEF Next, Main, MainMalloc, MainAccept, MainAcceptFails, Exit, Failure,
      OpenClientfdFails, SendRequestFails, ReadFails, WriteFails, ClientLeaves, vars

LEMMA InitHeaders == Init => HeaderInv /\ ExtraTypes
<1> SUFFICES ASSUME Init PROVE HeaderInv /\ ExtraTypes
  OBVIOUS
<1> USE DEF Init, ParseInit
<1>1. ASSUME NEW t \in Threads
      PROVE  HeadersOf(t) /\ ValuesOf(t)
  <2>1. pc[t] = "none" /\ line[t] = 0 /\ extra[t] = <<>> /\ Done(t) = 0
    BY DEF Done
  <2>2. input[t].hdrs \in Seq(Headers)
    BY ProxyAssumption
  <2>3. Kept(input[t].hdrs)[0] = <<>>
    BY <2>2, KeptIs
  <2> QED
    BY <2>1, <2>3 DEF HeadersOf, ValuesOf, Behind, Header, Parsed
<1>2. ExtraTypes
  <2>1. <<>> \in Seq({})
    OBVIOUS
  <2> QED
    BY <2>1 DEF ExtraTypes
<1> QED
  BY <1>1, <1>2 DEF HeaderInv

\* The headers a client sends reach the origin with their keys in every
\* interleaving of the threads, and with their values when no other client
\* sends any, whatever strtok's shared position does (proxy.c:101-130).
THEOREM HeadersArrive ==
  ASSUME IsFiniteSet(Threads)
  PROVE  Spec => []HeadersHaveCauses
<1>1. NetInv /\ HeaderInv /\ ExtraTypes => HeadersHaveCauses
  <2> SUFFICES ASSUME NetInv, HeaderInv, ExtraTypes PROVE HeadersHaveCauses
    OBVIOUS
  <2>1. ASSUME NEW t \in Threads
        PROVE  /\ \A i \in DOMAIN extra[t] : extra[t][i].key = OwnHeaders(t)[i].key
               /\ Parsed(t) => Len(extra[t]) = Len(OwnHeaders(t))
    <3> DEFINE hdrs == input[t].hdrs
    <3>1. /\ hdrs \in Seq(Headers) /\ Len(hdrs) \in Nat
          /\ line[t] \in 0..Len(hdrs) /\ HeadersOf(t)
      BY InputTypes DEF HeaderInv
    <3> HIDE DEF hdrs
    <3>2. PICK k \in 0..Len(hdrs) : k = Done(t)
      <4>1. pc[t] \in {"strtok_key", "strtok_value"} => line[t] # 0
        BY <3>1 DEF HeadersOf
      <4>2. Done(t) \in 0..Len(hdrs)
        BY ONLY <3>1, <4>1 DEF Done
      <4> QED
        BY <4>2
    <3>3. Len(hdrs) \in 0..Len(hdrs) /\ k \in 0..Len(hdrs)
      BY <3>1
    <3>4. \A i \in 1..Len(Kept(hdrs)[k]) : OwnHeaders(t)[i] = Kept(hdrs)[k][i]
      <4>1. \A j \in 0..Len(hdrs) : \A i \in 1..Len(Kept(hdrs)[j]) :
              Kept(hdrs)[Len(hdrs)][i] = Kept(hdrs)[j][i]
        BY ONLY <3>1, <3>3, KeptGrows
      <4> QED
        BY <4>1 DEF OwnHeaders, hdrs
    <3>5. PICK S : extra[t] \in Seq(S)
      BY DEF ExtraTypes
    <3>6. DOMAIN extra[t] = 1..Len(extra[t])
      BY <3>5
    <3>7. /\ Len(extra[t]) = Len(Kept(hdrs)[k])
          /\ \A i \in 1..Len(extra[t]) : extra[t][i].key = Kept(hdrs)[k][i].key
      BY <3>1, <3>2 DEF HeadersOf, hdrs
    <3>8. Parsed(t) => k = Len(hdrs)
      BY <3>1, <3>2 DEF HeadersOf, Parsed, ParsePlaces, Done, hdrs
    <3> QED
      BY <3>4, <3>6, <3>7, <3>8 DEF OwnHeaders, hdrs
  <2>2. HeaderKeysAreOwn
    BY <2>1 DEF HeaderKeysAreOwn
  <2>3. OneParserIsSafe
    <3> DEFINE Senders == {t \in Threads : input[t].hdrs # <<>>}
    <3> SUFFICES ASSUME Cardinality(Senders) <= 1
                 PROVE  /\ HeadersAreOwn
                        /\ \A t \in Threads :
                             pc[t] = "strtok_value"
                               => olds = [buf |-> t, line |-> line[t], rest |-> Behind(t)]
      BY DEF OneParserIsSafe
    <3>1. IsFiniteSet(Senders) /\ Cardinality(Senders) \in Nat
      <4>1. IsFiniteSet(Senders)
        BY FS_Subset
      <4> QED
        BY <4>1, FS_CardinalityType
    <3>2. \A t, u \in Senders : t = u
      <4>1. CASE Cardinality(Senders) = 0
        BY <3>1, <4>1, FS_EmptySet
      <4>2. CASE Cardinality(Senders) = 1
        <5> HIDE DEF Senders
        <5> QED
          BY <3>1, <4>2, FS_Singleton
      <4> QED
        BY <3>1, <4>1, <4>2
    <3>3. OneSender
      BY <3>2 DEF OneSender
    <3>4. \A t \in Threads : ValuesOf(t) /\ HeadersOf(t)
      BY <3>3 DEF HeaderInv
    <3>5. ASSUME NEW t \in Threads, Parsed(t) PROVE extra[t] = OwnHeaders(t)
      <4>1. Done(t) = Len(input[t].hdrs)
        BY <3>4, <3>5 DEF HeadersOf, Parsed, ParsePlaces, Done
      <4> QED
        BY <3>4, <4>1 DEF ValuesOf, OwnHeaders
    <3> QED
      BY <3>4, <3>5 DEF HeadersAreOwn, ValuesOf
  <2> QED
    BY <2>2, <2>3 DEF HeadersHaveCauses
<1>2. Spec => [](NetInv /\ HeaderInv /\ ExtraTypes)
  <2>1. Init => HeaderInv /\ ExtraTypes
    BY InitHeaders
  <2>2. ProxyInv => NetInv
    BY DEF ProxyInv
  <2> QED
    BY <2>1, <2>2, NextHeaders, ProxyInvariance, PTL DEF Spec
<1> QED
  BY <1>1, <1>2, PTL
=============================================================================
