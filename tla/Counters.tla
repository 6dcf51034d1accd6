------------------------------- MODULE Counters -------------------------------
(***************************************************************************)
(* The two programs of Homework/Semaphores side by side, started with the  *)
(* same argument; nothing of the one is visible to the other.              *)
(***************************************************************************)
EXTENDS GoodCnt

VARIABLES bcnt, bmain, bpc, bi, breg    \* of badcnt

Bad == INSTANCE BadCnt WITH
         cnt <- bcnt, main <- bmain, pc <- bpc, i <- bi, reg <- breg

bvars == <<bcnt, bmain, bpc, bi, breg>>

CountersInit == Init /\ Bad!Init

CountersNext ==
  \/ Next /\ UNCHANGED bvars
  \/ Bad!Next /\ UNCHANGED vars

CountersSpec == CountersInit /\ [][CountersNext]_<<vars, bvars>> /\ Fairness

\* badcnt loses updates, but not all of them (badcnt.c:42).
RaceIsBounded == Bad!RaceIsBounded
===============================================================================
