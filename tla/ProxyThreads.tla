---------------------------- MODULE ProxyThreads ----------------------------
(***************************************************************************)
(* What the parts of Lab/lab5/proxylab-handout share: the threads that run *)
(* proxy_thread, where each of them is, and the process they live and die  *)
(* in.  Every wrapper of csapp.c answers an error with exit.               *)
(***************************************************************************)
EXTENDS Integers, Sequences, FiniteSets

CONSTANTS
  Threads,    \* the threads created to run proxy_thread
  Keys,       \* the URIs clients ask for
  NULL        \* the null pointer

VARIABLES
  alive,      \* FALSE once the process has exited or was killed
  pc,         \* where each thread is
  arg         \* request.uri, later the body: what cache.c is called with

GoTo(t, place) == pc' = [pc EXCEPT ![t] = place]

Uris == Keys \cup {NULL}

\* A byte is known by the object it belongs to, if any, and its place in it.
Bytes == Uris \X Nat

\* The len bytes that follow the first `from' of the object at a URI.
Stretch(key, from, len) == [i \in 1..len |-> <<key, from + i>>]

\* What cache_insert is given: a URI, the bytes in body, and their number.
Body(key, bytes, len) == [of |-> key, bytes |-> bytes, len |-> len]

\* A URI alone, before its object has been fetched.
EmptyBody(key) == Body(key, <<>>, 0)

=============================================================================
