------------------------------ MODULE LruCache ------------------------------
(***************************************************************************)
(* What cache.c promises: a list of objects, most recently used first.  A  *)
(* look-up moves the object it finds to the front; an object is put in     *)
(* front after the least recently used ones are dropped, one at a time and *)
(* only while it does not fit.  Puts are atomic towards look-ups: between  *)
(* Begin and Put nothing else happens.                                     *)
(***************************************************************************)
EXTENDS Naturals, Sequences, SequencesExt

CONSTANTS Keys, Sizes, MAX_CACHE_SIZE

VARIABLES
  lru,     \* the objects, as records [key, size], most recently used first
  want,    \* the object being put, or <<>>
  found    \* what the last look-up that found something found, or <<>>

vars == <<lru, want, found>>

Objects == [key : Keys, size : Sizes]

Total == FoldLeft(LAMBDA sum, o : sum + o.size, 0, lru)

Fits == Total + want[1].size <= MAX_CACHE_SIZE

Init == lru = <<>> /\ want = <<>> /\ found = <<>>

\* Look up k: the first object with that key, if any, is moved to the front.
Touch(k) ==
  /\ want = <<>>
  /\ \E n \in 1..Len(lru) :
       /\ lru[n].key = k
       /\ \A m \in 1..(n-1) : lru[m].key # k
       /\ lru' = <<lru[n]>> \o RemoveAt(lru, n)
       /\ found' = <<lru[n]>>
  /\ want' = want

Begin(o) ==
  /\ want = <<>>
  /\ want' = <<o>>
  /\ lru' = lru
  /\ found' = found

Drop ==
  /\ want # <<>>
  /\ ~Fits
  /\ lru # <<>>
  /\ lru' = Front(lru)
  /\ want' = want
  /\ found' = found

Put ==
  /\ want # <<>>
  /\ Fits
  /\ lru' = want \o lru
  /\ want' = <<>>
  /\ found' = found

Next ==
  \/ \E k \in Keys : Touch(k)
  \/ \E o \in Objects : Begin(o)
  \/ Drop
  \/ Put

Spec == Init /\ [][Next]_vars

=============================================================================
