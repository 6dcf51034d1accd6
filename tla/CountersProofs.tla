--------------------------- MODULE CountersProofs ---------------------------
(***************************************************************************)
(* Proofs about goodcnt and badcnt for every argument.  Of goodcnt: mutual *)
(* exclusion, the result main prints, and that no increment is lost.  Of   *)
(* badcnt: what the race can cost.  Its lower bound rests on the last      *)
(* store of the two threads: its thread loaded cnt after a store of its    *)
(* own, so cnt was then at least one.                                      *)
(***************************************************************************)
EXTENDS Counters, TLAPS

\* Where main is tells which threads exist and which have returned.
MainInv ==
  /\ pc[1] = "none" <=> main = "create1"
  /\ pc[2] = "none" <=> main \in {"create1", "create2"}
  /\ main \in {"join2", "check", "OK", "BOOM"} => pc[1] = "returned"
  /\ main \in {"check", "OK", "BOOM"} => pc[2] = "returned"

\* How far each thread is in its loop.
LoopInv ==
  \A t \in Threads :
    /\ i[t] <= niters
    /\ Critical(t) => i[t] < niters
    /\ pc[t] = "returned" => i[t] = niters

\* Between load and store nobody else writes cnt; cnt is what was added.
CountInv ==
  /\ \A t \in Threads : pc[t] = "store" => reg[t] = cnt
  /\ cnt = added[1] + added[2]

IInv ==
  /\ TypeOK
  /\ MutualExclusion
  /\ MainInv
  /\ LoopInv
  /\ CountInv
  /\ NeverBoom

USE NitersAssumption

LEMMA InitInv == Init => IInv
  BY DEF Init, IInv, TypeOK, MutualExclusion, MainInv, LoopInv, CountInv,
         NeverBoom, Critical, added, Threads, MainPlaces, Places

LEMMA MainStep == IInv /\ Main => IInv'
<1> SUFFICES ASSUME IInv, Main PROVE IInv'
  OBVIOUS
<1> USE DEF IInv, TypeOK, MutualExclusion, MainInv, LoopInv, CountInv,
            NeverBoom, Critical, added, Threads, MainPlaces, Places
<1>1. CASE Create(1, "create1", "create2")
  BY <1>1 DEF Create
<1>2. CASE Create(2, "create2", "join1")
  BY <1>2 DEF Create
<1>3. CASE Join(1, "join1", "join2")
  BY <1>3 DEF Join
<1>4. CASE Join(2, "join2", "check")
  BY <1>4 DEF Join
<1>5. CASE Check
  BY <1>5 DEF Check
<1> QED
  BY <1>1, <1>2, <1>3, <1>4, <1>5 DEF Main

LEMMA ThreadStep == ASSUME IInv, NEW t \in Threads, Thread(t) PROVE IInv'
<1> USE DEF IInv, TypeOK, MutualExclusion, MainInv, LoopInv, CountInv,
            NeverBoom, Critical, added, Threads, MainPlaces, Places
<1>1. CASE P(t)
  BY <1>1 DEF P
<1>2. CASE Load(t)
  BY <1>2 DEF Load
<1>3. CASE Store(t)
  BY <1>3 DEF Store
<1>4. CASE V(t)
  BY <1>4 DEF V
<1>5. CASE Return(t)
  BY <1>5 DEF Return
<1> QED
  BY <1>1, <1>2, <1>3, <1>4, <1>5 DEF Thread

LEMMA StutterStep == IInv /\ UNCHANGED vars => IInv'
  BY DEF vars, IInv, TypeOK, MutualExclusion, MainInv, LoopInv, CountInv,
         NeverBoom, Critical, added

LEMMA StepInv == IInv /\ [Next]_vars => IInv'
  BY MainStep, ThreadStep, StutterStep DEF Next

LEMMA Invariance == Spec => []IInv
  BY InitInv, StepInv, PTL DEF Spec

----------------------------------------------------------------------------

\* The variables keep their ranges (goodcnt.c:3-4, 37-51).
THEOREM TypeCorrect == Spec => []TypeOK
  BY Invariance, PTL DEF IInv

\* The threads never both stand between P(&mutex) and V(&mutex)
\* (goodcnt.c:44-48).
THEOREM Exclusion == Spec => []MutualExclusion
  BY Invariance, PTL DEF IInv

\* Whatever argument goodcnt is given, main prints OK (goodcnt.c:31-34).
THEOREM ResultIsRight == Spec => []NeverBoom
  BY Invariance, PTL DEF IInv

\* Each step of goodcnt is one indivisible addition to cnt or changes neither
\* cnt nor what was added: the safety half of NoLostUpdate.
THEOREM EveryStepAddsOnce ==
  Spec => Abstract!Init /\ [][Abstract!Next]_(Abstract!vars)
<1>1. Init => Abstract!Init
  BY DEF Init, Abstract!Init, added, Threads
<1>2. ASSUME IInv, [Next]_vars PROVE [Abstract!Next]_(Abstract!vars)
  <2> USE DEF IInv, TypeOK, Places, added, Abstract!vars, Threads
  <2>1. CASE Main
    BY <1>2, <2>1 DEF Main, Create, Join, Check, MainInv
  <2>2. ASSUME NEW t \in Threads, Thread(t)
        PROVE  [Abstract!Next]_(Abstract!vars)
    <3>1. CASE P(t)
      BY <1>2, <3>1 DEF P
    <3>2. CASE Load(t)
      BY <1>2, <3>2 DEF Load
    <3>3. CASE Store(t)
      <4>1. Abstract!Add(t)
        BY <1>2, <3>3 DEF Store, Abstract!Add, LoopInv, CountInv, Critical
      <4> QED
        BY <4>1 DEF Abstract!Next
    <3>4. CASE V(t)
      BY <1>2, <3>4 DEF V
    <3>5. CASE Return(t)
      BY <1>2, <3>5 DEF Return
    <3> QED
      BY <2>2, <3>1, <3>2, <3>3, <3>4, <3>5 DEF Thread
  <2>3. CASE UNCHANGED vars
    BY <2>3 DEF vars
  <2> QED
    BY <1>2, <2>1, <2>2, <2>3 DEF Next
<1> QED
  BY <1>1, <1>2, Invariance, PTL DEF Spec

----------------------------------------------------------------------------
(* badcnt *)

Stored == bi[1] + bi[2]

BadTypeOK ==
  /\ niters \in Nat
  /\ bcnt \in Nat
  /\ bmain \in {"create1", "create2", "join1", "join2", "check", "OK", "BOOM"}
  /\ bpc \in [Bad!Threads -> {"none", "loop", "store", "returned"}]
  /\ bi \in [Bad!Threads -> 0 .. niters]
  /\ breg \in [Bad!Threads -> Nat]

(* Upper bound: neither bcnt nor a value on its way to it exceeds the      *)
(* stores made.                                                            *)
AtMost == bcnt <= Stored /\ \A t \in Bad!Threads : breg[t] <= Stored

(* Lower bound: bcnt is at least one after a store, and a thread that is   *)
(* past its first store has read such a value; so while bcnt is below two  *)
(* some thread has made at most one store.                                 *)
AtLeast ==
  /\ Stored >= 1 => bcnt >= 1
  /\ \A t \in Bad!Threads : bpc[t] = "store" /\ bi[t] >= 1 => breg[t] >= 1
  /\ bcnt >= 2 \/ \E t \in Bad!Threads : bi[t] <= 1

(* main gets past a join only once the thread has returned, all its        *)
(* increments made.                                                        *)
Joins ==
  /\ \A t \in Bad!Threads : bpc[t] = "store" => bi[t] < niters
  /\ \A t \in Bad!Threads : bpc[t] = "returned" => bi[t] = niters
  /\ bmain \in {"create1", "create2"} => bpc[2] = "none"
  /\ bmain \in {"join2", "check", "OK", "BOOM"} => bpc[1] = "returned"
  /\ bmain \in {"check", "OK", "BOOM"} => bpc[2] = "returned"

BadInv == BadTypeOK /\ AtMost /\ AtLeast /\ Joins

LEMMA BadInit == Bad!Init => BadInv
BY DEF Bad!Init, BadInv, BadTypeOK, AtMost, AtLeast, Joins, Stored, Bad!Threads

LEMMA BadMainKeeps == BadInv /\ Bad!Main => BadInv'
<1> SUFFICES ASSUME BadInv, Bad!Main PROVE BadInv'
  OBVIOUS
<1> USE DEF BadInv, BadTypeOK, AtMost, AtLeast, Joins, Stored, Bad!Threads
<1>1. ASSUME NEW t \in Bad!Threads, NEW here, NEW next, Bad!Create(t, here, next),
             <<here, next, t>> \in {<<"create1", "create2", 1>>, <<"create2", "join1", 2>>}
      PROVE  BadInv'
  BY <1>1 DEF Bad!Create
<1>2. ASSUME NEW t \in Bad!Threads, NEW here, NEW next, Bad!Join(t, here, next),
             <<here, next, t>> \in {<<"join1", "join2", 1>>, <<"join2", "check", 2>>}
      PROVE  BadInv'
  BY <1>2 DEF Bad!Join
<1>3. CASE Bad!Check
  BY <1>3 DEF Bad!Check
<1> QED
  BY <1>1, <1>2, <1>3 DEF Bad!Main

LEMMA BadLoadKeeps ==
  ASSUME BadInv, NEW t \in Bad!Threads, Bad!Load(t) PROVE BadInv'
BY DEF BadInv, BadTypeOK, AtMost, AtLeast, Joins, Stored, Bad!Threads, Bad!Load

LEMMA BadStoreKeeps ==
  ASSUME BadInv, NEW t \in Bad!Threads, Bad!Store(t) PROVE BadInv'
<1> USE DEF BadInv, BadTypeOK, Bad!Threads, Bad!Store
<1>1. BadTypeOK'
  BY DEF Joins
<1>2. Stored' = Stored + 1 /\ Stored \in Nat
  BY DEF Stored
<1>3. AtMost'
  BY <1>2 DEF AtMost
<1>4. AtLeast'
  <2>1. bcnt' >= 1
    OBVIOUS
  <2>2. \A u \in Bad!Threads : (bpc[u] = "store" /\ bi[u] >= 1 => breg[u] >= 1)'
    BY DEF AtLeast
  <2>3. CASE bi[t] >= 1
    BY <2>1, <2>2, <2>3 DEF AtLeast
  <2>4. CASE bi[t] = 0
    BY <2>1, <2>2, <2>4 DEF AtLeast
  <2> QED
    BY <2>3, <2>4
<1>5. Joins'
  BY DEF Joins
<1> QED
  BY <1>1, <1>3, <1>4, <1>5

LEMMA BadReturnKeeps ==
  ASSUME BadInv, NEW t \in Bad!Threads, Bad!Return(t) PROVE BadInv'
BY DEF BadInv, BadTypeOK, AtMost, AtLeast, Joins, Stored, Bad!Threads, Bad!Return

LEMMA BadStep == BadInv /\ [Bad!Next]_(Bad!vars) => BadInv'
<1> SUFFICES ASSUME BadInv, [Bad!Next]_(Bad!vars) PROVE BadInv'
  OBVIOUS
<1>1. CASE UNCHANGED Bad!vars
  BY <1>1 DEF Bad!vars, BadInv, BadTypeOK, AtMost, AtLeast, Joins, Stored
<1> QED
  BY <1>1, BadMainKeeps, BadLoadKeeps, BadStoreKeeps, BadReturnKeeps DEF Bad!Next, Bad!Thread

\* Bad!Spec lies in every behaviour of the two programs.
LEMMA BadPart == CountersSpec => Bad!Init /\ [][Bad!Next]_(Bad!vars)
<1>1. CountersInit => Bad!Init
  BY DEF CountersInit
<1>2. [CountersNext]_<<vars, bvars>> => [Bad!Next]_(Bad!vars)
  BY DEF CountersNext, bvars, Bad!vars
<1> QED
  BY <1>1, <1>2, PTL DEF CountersSpec

LEMMA BadInvariance == CountersSpec => []BadInv
  BY BadInit, BadStep, BadPart, PTL

(* The part of the two programs that is goodcnt implements it. *)
LEMMA GoodPart == CountersSpec => Spec
<1>1. CountersInit => Init
  BY DEF CountersInit
<1>2. [CountersNext]_<<vars, bvars>> => [Next]_vars
  BY DEF CountersNext, vars
<1> QED
  BY <1>1, <1>2, PTL DEF CountersSpec, Spec

----------------------------------------------------------------------------

\* The result of badcnt lies between two (or its argument, if less) and the
\* increments made, for every argument and interleaving (badcnt.c:42).
THEOREM ResultIsBounded == CountersSpec => []RaceIsBounded
<1>1. BadInv => RaceIsBounded
  BY DEF BadInv, BadTypeOK, AtMost, AtLeast, Joins, Stored, Bad!Threads,
         RaceIsBounded, Bad!RaceIsBounded
<1> QED
  BY BadInvariance, <1>1, PTL
=============================================================================
