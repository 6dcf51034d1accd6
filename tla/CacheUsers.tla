----------------------------- MODULE CacheUsers -----------------------------
(***************************************************************************)
(* cache.c as its users drive it, without the network: a thread looks a    *)
(* URI up, reads the entry after a hit, and after a miss inserts the       *)
(* object it fetched if it is not too large (proxy.c:233-239, 207-209).    *)
(* Histories are unbounded: a thread that returns stands for the next      *)
(* connection's.  One that hit does not: its mutex is never unlocked.      *)
(***************************************************************************)
EXTENDS Cache

usersVars == <<cacheVars, alive, pc, arg>>

UsersInit ==
  /\ CacheInit
  /\ alive = TRUE
  /\ pc = [t \in Threads |-> "idle"]
  /\ arg = [t \in Threads |-> EmptyBody(NULL)]

Call(t) ==
  /\ pc[t] = "idle"
  /\ \E k \in Keys : arg' = [arg EXCEPT ![t] = EmptyBody(k)]
  /\ GoTo(t, "find_lock")
  /\ UNCHANGED <<listVars, cache_mutex, alive, curr>>

Fetched(t) ==
  /\ pc[t] = "missed"
  /\ \E n \in Sizes : arg' = [arg EXCEPT ![t] = Body(@.of, Stretch(@.of, 0, n), n)]
  /\ GoTo(t, "insert_lock")
  /\ UNCHANGED <<listVars, cache_mutex, alive, curr>>

Return(t) ==
  /\ pc[t] \in {"missed", "inserted"}     \* missed: an object too large
  /\ GoTo(t, "idle")
  /\ arg' = [arg EXCEPT ![t] = EmptyBody(NULL)]
  /\ curr' = [curr EXCEPT ![t] = NULL]
  /\ UNCHANGED <<listVars, cache_mutex, alive>>

\* The thread that hit has read cached->value and cached->size.
ReadEntry(t) ==
  /\ pc[t] = "hit"
  /\ GoTo(t, "hit_done")
  /\ UNCHANGED <<listVars, cache_mutex, alive, arg, curr>>

User(t) ==
  CacheFind(t) \/ CacheInsert(t) \/ Call(t) \/ Fetched(t) \/ Return(t)
    \/ ReadEntry(t)

UsersNext == alive /\ \E t \in Threads : User(t)

UsersSpec == UsersInit /\ [][UsersNext]_usersVars

----------------------------------------------------------------------------

UsersTypeOK ==
  /\ CacheTypeOK
  /\ pc \in [Threads -> CachePlaces \cup {"idle", "hit_done"}]

\* The cache keeps within its limits, its mutex has one owner and its list is
\* whole, whatever the threads do at once (cache.c:19-99).
CacheIsWhole == UsersTypeOK /\ MutexIsOwned /\ ListIsWhole

=============================================================================
