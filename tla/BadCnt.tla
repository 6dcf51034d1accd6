-------------------------------- MODULE BadCnt --------------------------------
(***************************************************************************)
(* Homework/Semaphores/badcnt.c: goodcnt without its semaphore.  Two       *)
(* threads run  cnt++  niters times each, a load and a store with the      *)
(* other thread's in between; main joins both and compares cnt with        *)
(* 2 * niters.                                                             *)
(***************************************************************************)
EXTENDS Naturals

CONSTANT niters                \* argv[1]

Threads == {1, 2}

VARIABLES cnt, main, pc, i, reg    \* as in GoodCnt

vars == <<cnt, main, pc, i, reg>>

Init ==
  /\ cnt = 0 /\ main = "create1"
  /\ pc = [t \in Threads |-> "none"]
  /\ i = [t \in Threads |-> 0]
  /\ reg = [t \in Threads |-> 0]

Create(t, here, next) ==
  /\ main = here /\ main' = next
  /\ pc' = [pc EXCEPT ![t] = "loop"]
  /\ UNCHANGED <<cnt, i, reg>>

\* (a bug to catch) main does not wait for the thread
JoinNoWait(t, here, next) ==
  /\ main = here /\ main' = next
  /\ UNCHANGED <<cnt, pc, i, reg>>

Join(t, here, next) ==
  /\ main = here /\ pc[t] = "returned"
  /\ main' = next
  /\ UNCHANGED <<cnt, pc, i, reg>>

Check ==
  /\ main = "check"
  /\ main' = IF cnt # 2 * niters THEN "BOOM" ELSE "OK"
  /\ UNCHANGED <<cnt, pc, i, reg>>

Main ==
  \/ Create(1, "create1", "create2") \/ Create(2, "create2", "join1")
  \/ Join(1, "join1", "join2") \/ Join(2, "join2", "check")
  \/ Check

Load(t) ==
  /\ pc[t] = "loop" /\ i[t] < niters
  /\ reg' = [reg EXCEPT ![t] = cnt]
  /\ pc' = [pc EXCEPT ![t] = "store"]
  /\ UNCHANGED <<cnt, main, i>>

\* The store, then the loop's i++.
Store(t) ==
  /\ pc[t] = "store"
  /\ cnt' = reg[t] + 1
  /\ i' = [i EXCEPT ![t] = @ + 1]
  /\ pc' = [pc EXCEPT ![t] = "loop"]
  /\ UNCHANGED <<main, reg>>

Return(t) ==
  /\ pc[t] = "loop" /\ i[t] >= niters
  /\ pc' = [pc EXCEPT ![t] = "returned"]
  /\ UNCHANGED <<cnt, main, i, reg>>

Thread(t) == Load(t) \/ Store(t) \/ Return(t)

Next == Main \/ \E t \in Threads : Thread(t)

Spec == Init /\ [][Next]_vars

-------------------------------------------------------------------------------

\* What the race can cost: cnt never exceeds the increments made, and when
\* main compares it, two of them are left if each thread made two or more,
\* however the updates overwrite one another (badcnt.c:42).
RaceIsBounded ==
  /\ cnt <= i[1] + i[2]
  /\ main \in {"check", "OK", "BOOM"} =>
       cnt >= (IF niters >= 2 THEN 2 ELSE niters) /\ cnt <= 2 * niters
===============================================================================
