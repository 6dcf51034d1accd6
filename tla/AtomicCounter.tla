--------------------------- MODULE AtomicCounter ---------------------------
(***************************************************************************)
(* What Homework/Semaphores promises of its counter: every thread adds one *)
(* to cnt exactly niters times, and no addition is ever lost.              *)
(***************************************************************************)
EXTENDS Naturals

CONSTANTS Threads, niters

VARIABLES cnt, added

vars == <<cnt, added>>

Init ==
  /\ cnt = 0
  /\ added = [t \in Threads |-> 0]

Add(t) ==
  /\ added[t] < niters
  /\ added' = [added EXCEPT ![t] = @ + 1]
  /\ cnt' = cnt + 1

Next == \E t \in Threads : Add(t)

Spec == Init /\ [][Next]_vars /\ \A t \in Threads : WF_vars(Add(t))

=============================================================================
