------------------------------ MODULE GoodCnt ------------------------------
(***************************************************************************)
(* Homework/Semaphores/goodcnt.c: main creates two threads, each of which  *)
(* runs  P(&mutex); cnt++; V(&mutex)  niters times; main joins both and    *)
(* compares cnt with 2 * niters.  cnt++ on the volatile int is a load and  *)
(* a store, with other threads running in between.                         *)
(***************************************************************************)
EXTENDS Naturals

CONSTANT niters                \* argv[1]

ASSUME NitersAssumption == niters \in Nat

Threads == {1, 2}              \* tid1, tid2

VARIABLES
  cnt,     \* the shared counter
  mutex,   \* value of the semaphore
  main,    \* where main is
  pc,      \* where each thread is; "none" before pthread_create
  i,       \* each thread's loop variable
  reg      \* the register between the load and the store of cnt++

vars == <<cnt, mutex, main, pc, i, reg>>

MainPlaces == {"create1", "create2", "join1", "join2", "check", "OK", "BOOM"}
Places == {"none", "loop", "load", "store", "V", "returned"}

\* (a bug to catch) the semaphore is created with room for both threads
InitRoomForTwo ==
  /\ cnt = 0
  /\ mutex = 2
  /\ main = "create1"
  /\ pc = [t \in Threads |-> "none"]
  /\ i = [t \in Threads |-> 0]
  /\ reg = [t \in Threads |-> 0]

Init ==
  /\ cnt = 0
  /\ mutex = 1
  /\ main = "create1"
  /\ pc = [t \in Threads |-> "none"]
  /\ i = [t \in Threads |-> 0]
  /\ reg = [t \in Threads |-> 0]

----------------------------------------------------------------------------
(* main *)

Create(t, here, next) ==
  /\ main = here
  /\ main' = next
  /\ pc' = [pc EXCEPT ![t] = "loop"]
  /\ UNCHANGED <<cnt, mutex, i, reg>>

\* (a bug to catch) main does not wait for the thread
JoinNoWait(t, here, next) ==
  /\ main = here
  /\ main' = next
  /\ UNCHANGED <<cnt, mutex, pc, i, reg>>

Join(t, here, next) ==
  /\ main = here
  /\ pc[t] = "returned"
  /\ main' = next
  /\ UNCHANGED <<cnt, mutex, pc, i, reg>>

Check ==
  /\ main = "check"
  /\ main' = IF cnt # 2 * niters THEN "BOOM" ELSE "OK"
  /\ UNCHANGED <<cnt, mutex, pc, i, reg>>

Main ==
  \/ Create(1, "create1", "create2")
  \/ Create(2, "create2", "join1")
  \/ Join(1, "join1", "join2")
  \/ Join(2, "join2", "check")
  \/ Check

----------------------------------------------------------------------------
(* thread *)

\* The loop test succeeds and P(&mutex) returns.
P(t) ==
  /\ pc[t] = "loop"
  /\ i[t] < niters
  /\ mutex > 0
  /\ mutex' = mutex - 1
  /\ pc' = [pc EXCEPT ![t] = "load"]
  /\ UNCHANGED <<cnt, main, i, reg>>

Load(t) ==
  /\ pc[t] = "load"
  /\ reg' = [reg EXCEPT ![t] = cnt]
  /\ pc' = [pc EXCEPT ![t] = "store"]
  /\ UNCHANGED <<cnt, mutex, main, i>>

Store(t) ==
  /\ pc[t] = "store"
  /\ cnt' = reg[t] + 1
  /\ pc' = [pc EXCEPT ![t] = "V"]
  /\ UNCHANGED <<mutex, main, i, reg>>

\* (a bug to catch) the thread goes round the loop without V
VForgotten(t) ==
  /\ pc[t] = "V"
  /\ i' = [i EXCEPT ![t] = @ + 1]
  /\ pc' = [pc EXCEPT ![t] = "loop"]
  /\ UNCHANGED <<cnt, mutex, main, reg>>

\* V(&mutex), then the loop's i++.
V(t) ==
  /\ pc[t] = "V"
  /\ mutex' = mutex + 1
  /\ i' = [i EXCEPT ![t] = @ + 1]
  /\ pc' = [pc EXCEPT ![t] = "loop"]
  /\ UNCHANGED <<cnt, main, reg>>

Return(t) ==
  /\ pc[t] = "loop"
  /\ i[t] >= niters
  /\ pc' = [pc EXCEPT ![t] = "returned"]
  /\ UNCHANGED <<cnt, mutex, main, i, reg>>

Thread(t) == P(t) \/ Load(t) \/ Store(t) \/ V(t) \/ Return(t)

Next == Main \/ \E t \in Threads : Thread(t)

\* The kernel schedules every runnable thread eventually.
Fairness == WF_vars(Main) /\ \A t \in Threads : WF_vars(Thread(t))

Spec == Init /\ [][Next]_vars /\ Fairness

----------------------------------------------------------------------------

TypeOK ==
  /\ cnt \in Nat
  /\ mutex \in {0, 1}
  /\ main \in MainPlaces
  /\ pc \in [Threads -> Places]
  /\ i \in [Threads -> Nat]
  /\ reg \in [Threads -> Nat]

Critical(t) == pc[t] \in {"load", "store", "V"}

\* What each thread has added to cnt so far.
added == [t \in Threads |-> IF pc[t] = "V" THEN i[t] + 1 ELSE i[t]]

Abstract == INSTANCE AtomicCounter

\* The two threads never both stand between P(&mutex) and V(&mutex), and the
\* semaphore is 0 exactly while one of them does (goodcnt.c:44-48).
MutualExclusion ==
  /\ ~(Critical(1) /\ Critical(2))
  /\ mutex = 0 <=> \E t \in Threads : Critical(t)

\* main's check (goodcnt.c:31-34) never prints BOOM, whatever the interleaving.
NeverBoom == main # "BOOM"

\* No increment is lost or duplicated: goodcnt is the counter whose additions
\* are indivisible, and all of them happen (goodcnt.c:44-48).
NoLostUpdate == Abstract!Spec

\* The program ends: no schedule leaves a thread waiting at P(&mutex) for
\* ever, so both joins return (goodcnt.c:24-25).
Terminates == <>(main \in {"OK", "BOOM"})

=============================================================================
