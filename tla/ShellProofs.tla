----------------------------- MODULE ShellProofs -----------------------------
(***************************************************************************)
(* Proofs about the tiny shell, for any set of process IDs and any length  *)
(* of its list.  First the routines of the job list: what the loops over   *)
(* the array find, and what addjob and deletejob do to a list whose job    *)
(* IDs have an upper bound.  Then the shell: ShellInv is the inductive     *)
(* invariant.  Types bounds the variables and keeps the job list well      *)
(* formed; LoopInv says what the read/eval loop holds at each place and    *)
(* that no handler runs while eval blocks the signals; FrameInv what a     *)
(* handler holds between two of its calls; ListInv ties a job to its       *)
(* process; FGInv ties the job in state FG to the place of the loop;       *)
(* ReapInv says that a change of a child is pending, or its handler is     *)
(* still looking.  The lemmas of the actions follow the order of tsh.c,    *)
(* and the theorems come last.                                             *)
(***************************************************************************)
EXTENDS Shell, JobNumbers, TLAPS, WellFoundedInduction, FiniteSetTheorems

Records == [pid : Pids \cup {0}, jid : Nat, state : States]

\* A non-empty set of naturals has a least element.
LEMMA LeastNatural ==
  ASSUME NEW T \in SUBSET Nat, T # {}
  PROVE  \E m \in T : \A n \in T : m <= n
<1>1. PICK m \in T : \A n \in T : ~ (<<n, m>> \in OpToRel(<, Nat))
  <2> DEFINE R == OpToRel(<, Nat)
  <2>1. IsWellFoundedOn(R, Nat)
    BY NatLessThanWellFounded
  <2> HIDE DEF R
  <2>2. \E x \in T : \A y \in T : ~ (<<y, x>> \in R)
    BY ONLY <2>1, WFMin, T \in SUBSET Nat, T # {}
  <2> QED
    BY <2>2 DEF R
<1>2. ASSUME NEW n \in T PROVE m <= n
  <2>1. <<n, m>> \in Nat \X Nat
    OBVIOUS
  <2>2. ~ (n < m)
    BY <1>1, <2>1 DEF OpToRel
  <2> QED
    BY <2>2
<1> QED
  BY <1>2

\* The loops over the array find a slot when there is one, and only then.
LEMMA FirstOfFinds ==
  ASSUME NEW S \in SUBSET Slots
  PROVE  /\ S = {} => FirstOf(S) = NoJob
         /\ S # {} => FirstOf(S) \in S
<1>1. ASSUME S # {} PROVE FirstOf(S) \in S
  <2>1. S \in SUBSET Nat
    BY JobTableAssumption DEF Slots
  <2>2. \E m \in S : \A n \in S : m <= n
    BY <1>1, <2>1, LeastNatural
  <2> QED
    BY <1>1, <2>2 DEF FirstOf
<1> QED
  BY <1>1 DEF FirstOf

\* maxjid returns the job ID of a slot, and no slot has a larger one.
LEMMA MaxjidIsLargest ==
  ASSUME NEW list \in [Slots -> Records], NEW bound \in Nat,
         \A i \in Slots : list[i].jid <= bound
  PROVE  /\ maxjid(list) \in Nat
         /\ \A i \in Slots : list[i].jid <= maxjid(list)
<1> DEFINE Uppers == {u \in Nat : \A i \in Slots : list[i].jid <= u}
           Jids == {list[i].jid : i \in Slots}
<1>1. \A i \in Slots : list[i].jid \in Nat
  BY DEF Records
<1>2. PICK m \in Uppers : \A u \in Uppers : m <= u
  <2>1. bound \in Uppers /\ Uppers \in SUBSET Nat
    OBVIOUS
  <2> HIDE DEF Uppers
  <2> QED
    BY <2>1, LeastNatural
<1>3. m \in Jids
  <2> SUFFICES ASSUME m \notin Jids PROVE FALSE
    OBVIOUS
  <2>1. 1 \in Slots
    BY JobTableAssumption DEF Slots
  <2>2. \A i \in Slots : list[i].jid < m
    BY <1>1, <1>2
  <2>3. m - 1 \in Uppers
    BY <1>1, <2>1, <2>2
  <2> QED
    BY <1>2, <2>3
<1>4. \E j \in Jids : \A i \in Slots : list[i].jid <= j
  BY <1>2, <1>3
<1>5. maxjid(list) \in Jids /\ \A i \in Slots : list[i].jid <= maxjid(list)
  BY <1>4 DEF maxjid
<1> QED
  BY <1>1, <1>5

----------------------------------------------------------------------------
\* The list has its type, and its job IDs an upper bound.
ListOK ==
  /\ jobs \in [Slots -> Records]
  /\ nextjid \in Nat \ {0}
  /\ \E bound \in Nat : \A i \in Slots : jobs[i].jid <= bound

LEMMA SlotsAreNotNull == NoJob \notin Slots /\ Slots \subseteq Nat /\ 1 \in Slots
  BY JobTableAssumption DEF NoJob, Slots

LEMMA InitjobsListOK == initjobs => ListOK
<1> SUFFICES ASSUME initjobs PROVE ListOK
  OBVIOUS
<1>1. Cleared \in Records /\ Cleared.jid = 0
  BY DEF Cleared, Records, States
<1>2. \A i \in Slots : jobs[i] = Cleared
  BY DEF initjobs
<1> QED
  BY <1>1, <1>2 DEF ListOK, initjobs

\* getjobpid returns a slot of the process, or none has it.
LEMMA GetjobpidFinds ==
  ASSUME NEW pid
  PROVE  \/ getjobpid(pid) = NoJob /\ \A i \in Slots : jobs[i].pid # pid
         \/ getjobpid(pid) \in Slots /\ jobs[getjobpid(pid)].pid = pid
<1> DEFINE Found == {i \in Slots : jobs[i].pid = pid}
<1>1. Found = {} => FirstOf(Found) = NoJob
  BY FirstOfFinds
<1>2. Found # {} => FirstOf(Found) \in Found
  BY FirstOfFinds
<1> QED
  BY <1>1, <1>2 DEF getjobpid

\* fgpid returns the process of a job in the foreground, or 0 without one.
LEMMA FgpidFinds ==
  \/ fgpid = 0 /\ \A i \in Slots : jobs[i].state # "FG"
  \/ \E i \in Slots : jobs[i].state = "FG" /\ fgpid = jobs[i].pid
<1> DEFINE Found == {i \in Slots : jobs[i].state = "FG"}
<1>1. Found = {} => FirstOf(Found) = NoJob
  BY FirstOfFinds
<1>2. Found # {} => FirstOf(Found) \in Found
  BY FirstOfFinds
<1> QED
  BY <1>1, <1>2, SlotsAreNotNull DEF fgpid

\* addjob fills one free slot, or leaves the list alone when it is full.
LEMMA AddjobAdds ==
  ASSUME ListOK, NEW pid \in Pids, NEW state \in States, addjob(pid, state)
  PROVE  /\ ListOK'
         /\ \/ UNCHANGED jobVars /\ \A i \in Slots : jobs[i].pid # 0
            \/ \E i \in Slots :
                 /\ jobs[i].pid = 0
                 /\ jobs' = [jobs EXCEPT ![i] =
                              [pid |-> pid, jid |-> nextjid, state |-> state]]
                 /\ nextjid' = IF nextjid + 1 > MAXJOBS THEN 1 ELSE nextjid + 1
<1> DEFINE Free == {j \in Slots : jobs[j].pid = 0}
           i == FirstOf(Free)
           job == [pid |-> pid, jid |-> nextjid, state |-> state]
<1>1. CASE i = NoJob
  <2>1. UNCHANGED jobVars
    BY <1>1 DEF addjob
  <2>2. Free = {}
    BY <1>1, FirstOfFinds, SlotsAreNotNull
  <2> QED
    BY <2>1, <2>2 DEF ListOK, jobVars
<1>2. CASE i # NoJob
  <2>1. i \in Slots /\ jobs[i].pid = 0
    <3>1. Free = {} => i = NoJob
      BY FirstOfFinds
    <3>2. Free # {} => i \in Free
      BY FirstOfFinds
    <3> QED
      BY <1>2, <3>1, <3>2
  <2>2. /\ jobs' = [jobs EXCEPT ![i] = job]
        /\ nextjid' = IF nextjid + 1 > MAXJOBS THEN 1 ELSE nextjid + 1
    BY <1>2 DEF addjob
  <2> HIDE DEF i
  <2>3. ListOK'
    <3>1. PICK b \in Nat : \A j \in Slots : jobs[j].jid <= b
      BY DEF ListOK
    <3>2. job \in Records /\ job.jid = nextjid /\ nextjid \in Nat \ {0}
      BY DEF ListOK, Records
    <3>3. \A j \in Slots : jobs'[j] = IF j = i THEN job ELSE jobs[j]
      BY <2>2 DEF ListOK
    <3>4. \A j \in Slots : jobs[j].jid \in Nat
      BY DEF ListOK, Records
    <3>5. \A j \in Slots : jobs'[j].jid <= b + nextjid
      BY <3>1, <3>2, <3>3, <3>4
    <3>6. jobs' \in [Slots -> Records] /\ nextjid' \in Nat \ {0}
      BY <2>1, <2>2, <3>2 DEF ListOK
    <3> QED
      BY <3>1, <3>2, <3>5, <3>6 DEF ListOK
  <2> QED
    BY <2>1, <2>2, <2>3
<1> QED
  BY <1>1, <1>2

\* deletejob clears a slot of the process, if it has one, and takes the next job
\* ID above all that are left.
LEMMA DeletejobDeletes ==
  ASSUME ListOK, NEW pid, deletejob(pid)
  PROVE  /\ ListOK'
         /\ \/ UNCHANGED jobVars /\ \A i \in Slots : jobs[i].pid # pid
            \/ \E i \in Slots :
                 /\ jobs[i].pid = pid
                 /\ jobs' = [jobs EXCEPT ![i] = Cleared]
                 /\ \A j \in Slots : jobs'[j].jid < nextjid'
<1> DEFINE i == getjobpid(pid)
<1>1. CASE i = NoJob
  BY <1>1, GetjobpidFinds, SlotsAreNotNull DEF deletejob, ListOK, jobVars
<1>2. CASE i # NoJob
  <2>1. i \in Slots /\ jobs[i].pid = pid
    BY <1>2, GetjobpidFinds
  <2>2. jobs' = [jobs EXCEPT ![i] = Cleared] /\ nextjid' = maxjid(jobs') + 1
    BY <1>2 DEF deletejob
  <2> HIDE DEF i
  <2>3. Cleared \in Records /\ Cleared.jid = 0
    BY DEF Cleared, Records, States
  <2>4. jobs' \in [Slots -> Records]
    BY <2>2, <2>3 DEF ListOK
  <2>5. PICK b \in Nat : \A j \in Slots : jobs'[j].jid <= b
    <3>1. PICK b \in Nat : \A j \in Slots : jobs[j].jid <= b
      BY DEF ListOK
    <3>2. \A j \in Slots : jobs'[j].jid <= b
      BY <2>1, <2>2, <2>3, <3>1 DEF ListOK
    <3> QED
      BY <3>2
  <2>6. maxjid(jobs') \in Nat /\ \A j \in Slots : jobs'[j].jid <= maxjid(jobs')
    BY <2>4, <2>5, MaxjidIsLargest
  <2>7. PICK m \in Nat : nextjid' = m + 1 /\ \A j \in Slots : jobs'[j].jid <= m
    BY <2>2, <2>6, Zenon
  <2>8. \A j \in Slots : jobs'[j].jid \in Nat
    BY <2>4 DEF Records
  <2>9. nextjid' \in Nat \ {0} /\ \A j \in Slots : jobs'[j].jid < nextjid'
    BY <2>7, <2>8
  <2> QED
    BY <2>1, <2>2, <2>4, <2>5, <2>9 DEF ListOK
<1> QED
  BY <1>1, <1>2

----------------------------------------------------------------------------
(* The job IDs of a list that grows and shrinks in any order. *)

\* What makes the properties inductive: the job IDs have an upper bound, a free
\* slot is cleared, and until the counter wraps every job ID is below it.
JidInv ==
  /\ ListOK
  /\ NumbersTypeOK
  /\ JidsAreDistinctUntilWrapped

LEMMA JidInvInit == NumbersInit => JidInv
<1> SUFFICES ASSUME NumbersInit PROVE JidInv
  OBVIOUS
<1>1. ListOK
  BY InitjobsListOK DEF NumbersInit
<1>2. \A i \in Slots : jobs[i] = Cleared
  BY DEF NumbersInit, initjobs
<1>3. NumbersTypeOK
  BY <1>1, <1>2 DEF NumbersInit, ListOK, NumbersTypeOK, JobTypeOK, Records
<1>4. JidsAreDistinctUntilWrapped
  BY <1>2 DEF Cleared, Live, JidsAreDistinctUntilWrapped, JidsAreDistinct
<1> QED
  BY <1>1, <1>3, <1>4 DEF JidInv

LEMMA AddInv ==
  ASSUME JidInv, NEW p \in Pids, Add(p)
  PROVE  JidInv' /\ Live \subseteq Live'
<1>1. /\ ListOK /\ "BG" \in States /\ addjob(p, "BG")
      /\ wrapped \in BOOLEAN /\ wrapped' = (wrapped \/ nextjid' = 1)
  BY DEF JidInv, NumbersTypeOK, Add, States
<1>2. ListOK'
  BY <1>1, AddjobAdds
<1>3. CASE UNCHANGED jobVars
  <2>1. Live' = Live /\ wrapped' \in BOOLEAN /\ (wrapped => wrapped')
    BY <1>1, <1>3 DEF Live, jobVars
  <2> QED
    BY <1>2, <1>3, <2>1 DEF JidInv, NumbersTypeOK, JobTypeOK, jobVars,
          JidsAreDistinctUntilWrapped, JidsAreDistinct
<1>4. ASSUME NEW i \in Slots, jobs[i].pid = 0,
             jobs' = [jobs EXCEPT ![i] = [pid |-> p, jid |-> nextjid, state |-> "BG"]],
             nextjid' = IF nextjid + 1 > MAXJOBS THEN 1 ELSE nextjid + 1
      PROVE  JidInv' /\ Live \subseteq Live'
  <2> DEFINE job == [pid |-> p, jid |-> nextjid, state |-> "BG"]
  <2>1. /\ job.pid = p /\ job.pid # 0 /\ job.jid = nextjid
        /\ jobs \in [Slots -> Records] /\ nextjid \in Nat \ {0}
    BY <1>1, JobTableAssumption DEF ListOK
  <2>2. jobs'[i] = job /\ \A j \in Slots \ {i} : jobs'[j] = jobs[j]
    BY <1>4, <2>1
  <2>3. Live' = Live \cup {i} /\ i \notin Live
    BY <1>4, <2>1, <2>2 DEF Live
  <2>4. NumbersTypeOK'
    <3>1. \A j \in Slots : jobs'[j].pid = 0 => jobs'[j] = Cleared
      BY <2>1, <2>2 DEF JidInv, NumbersTypeOK
    <3> QED
      BY <1>1, <1>2, <3>1 DEF NumbersTypeOK, JobTypeOK, ListOK, Records
  <2>5. JidsAreDistinctUntilWrapped'
    <3> SUFFICES ASSUME ~wrapped'
                 PROVE  JidsAreDistinct' /\ \A j \in Live' : jobs'[j].jid < nextjid'
      BY DEF JidsAreDistinctUntilWrapped
    <3>1. nextjid' = nextjid + 1 /\ ~wrapped
      BY <1>1, <1>4, <2>1
    <3>2. \A j \in Live : jobs[j].jid < nextjid /\ jobs[j].jid \in Nat
      BY <2>1, <3>1 DEF JidInv, JidsAreDistinctUntilWrapped, Live, Records
    <3>3. \A j \in Live : j \in Slots \ {i} /\ jobs'[j].jid = jobs[j].jid
      BY <2>2, <2>3 DEF Live
    <3>4. jobs'[i].jid = nextjid
      BY <2>1, <2>2
    <3>5. \A j \in Live' : jobs'[j].jid < nextjid'
      BY <2>1, <2>3, <3>1, <3>2, <3>3, <3>4
    <3>6. JidsAreDistinct
      BY <3>1 DEF JidInv, JidsAreDistinctUntilWrapped
    <3>7. JidsAreDistinct'
      BY <2>1, <2>3, <3>2, <3>3, <3>4, <3>6 DEF JidsAreDistinct
    <3> QED
      BY <3>5, <3>7
  <2> QED
    BY <1>2, <2>3, <2>4, <2>5 DEF JidInv
<1> QED
  BY <1>1, <1>3, <1>4, AddjobAdds

LEMMA DeleteInv ==
  ASSUME JidInv, NEW p \in Pids, Delete(p)
  PROVE  /\ JidInv'
         /\ jobs' = jobs \/ \A j \in Live' : jobs'[j].jid # nextjid'
<1>1. ListOK /\ deletejob(p) /\ wrapped' = wrapped
  BY DEF JidInv, Delete
<1>2. ListOK'
  BY <1>1, DeletejobDeletes
<1>3. CASE UNCHANGED jobVars
  BY <1>1, <1>2, <1>3 DEF JidInv, NumbersTypeOK, JobTypeOK, jobVars, Live,
        JidsAreDistinctUntilWrapped, JidsAreDistinct
<1>4. ASSUME NEW i \in Slots, jobs' = [jobs EXCEPT ![i] = Cleared],
             \A j \in Slots : jobs'[j].jid < nextjid'
      PROVE  JidInv' /\ \A j \in Live' : jobs'[j].jid # nextjid'
  <2>1. /\ jobs'[i] = Cleared /\ Cleared.pid = 0
        /\ \A j \in Slots \ {i} : jobs'[j] = jobs[j]
    BY <1>1, <1>4 DEF ListOK, Cleared
  <2>2. Live' = Live \ {i}
    BY <2>1 DEF Live
  <2>3. NumbersTypeOK'
    <3>1. \A j \in Slots : jobs'[j].pid = 0 => jobs'[j] = Cleared
      BY <2>1 DEF JidInv, NumbersTypeOK
    <3> QED
      BY <1>1, <1>2, <3>1 DEF JidInv, NumbersTypeOK, JobTypeOK, ListOK, Records
  <2>4. JidsAreDistinctUntilWrapped'
    <3> SUFFICES ASSUME ~wrapped' PROVE JidsAreDistinct'
      BY <1>4 DEF JidsAreDistinctUntilWrapped, Live
    <3>1. JidsAreDistinct
      BY <1>1 DEF JidInv, JidsAreDistinctUntilWrapped
    <3>2. \A j \in Live' : j \in Live /\ jobs'[j] = jobs[j]
      BY <2>1, <2>2 DEF Live
    <3> QED
      BY <3>1, <3>2 DEF JidsAreDistinct
  <2>5. \A j \in Live' : jobs'[j].jid # nextjid'
    BY <1>2, <1>4 DEF Live, ListOK, Records
  <2> QED
    BY <1>2, <2>3, <2>4, <2>5 DEF JidInv
<1>5. UNCHANGED jobVars => jobs' = jobs
  BY DEF jobVars
<1> QED
  BY <1>1, <1>3, <1>4, <1>5, DeletejobDeletes

LEMMA JidInvNext == JidInv /\ [NumbersNext]_numberVars => JidInv'
<1> SUFFICES ASSUME JidInv, [NumbersNext]_numberVars PROVE JidInv'
  OBVIOUS
<1>1. ASSUME NEW p \in Pids, Add(p) PROVE JidInv'
  BY <1>1, AddInv
<1>2. ASSUME NEW p \in Pids, Delete(p) PROVE JidInv'
  BY <1>2, DeleteInv
<1>3. CASE UNCHANGED numberVars
  BY <1>3 DEF JidInv, ListOK, NumbersTypeOK, JobTypeOK, numberVars, jobVars, Live,
        JidsAreDistinctUntilWrapped, JidsAreDistinct
<1> QED
  BY <1>1, <1>2, <1>3 DEF NumbersNext

LEMMA JidInvAlways == NumbersSpec => []JidInv
  BY JidInvInit, JidInvNext, PTL DEF NumbersSpec

\* Until the counter has wrapped, no two jobs of the list share a job ID and the
\* next one is free, whatever jobs were added and deleted (tsh.c:510-512, 535).
THEOREM JidsStayDistinct == NumbersSpec => []JidsAreDistinctUntilWrapped
<1>1. JidInv => JidsAreDistinctUntilWrapped
  BY DEF JidInv
<1> QED
  BY <1>1, JidInvAlways, PTL

\* The step that takes a job off the list leaves a next job ID that no job has,
\* also after the counter has wrapped (tsh.c:534-535).
THEOREM DeletingFrees == NumbersSpec => DeletingFreesTheNext
<1> DEFINE Frees == Cardinality(Live') < Cardinality(Live) =>
                      \A i \in Live' : jobs'[i].jid # nextjid'
<1>1. JidInv /\ [NumbersNext]_numberVars => [Frees]_numberVars
  <2> SUFFICES ASSUME JidInv, NumbersNext, Cardinality(Live') < Cardinality(Live)
               PROVE  \A i \in Live' : jobs'[i].jid # nextjid'
    BY DEF Frees
  <2>1. IsFiniteSet(Live) /\ IsFiniteSet(Live')
    <3>1. IsFiniteSet(Slots)
      BY FS_Interval, JobTableAssumption DEF Slots
    <3>2. Live \subseteq Slots /\ Live' \subseteq Slots
      BY DEF Live
    <3> QED
      BY <3>1, <3>2, FS_Subset
  <2>2. ~ (Live \subseteq Live')
    <3>1. Cardinality(Live) \in Nat /\ Cardinality(Live') \in Nat
      BY <2>1, FS_CardinalityType
    <3>2. Live \subseteq Live' => Cardinality(Live) <= Cardinality(Live')
      BY <2>1, FS_Subset
    <3> QED
      BY <3>1, <3>2
  <2>3. PICK p \in Pids : Delete(p)
    BY <2>2, AddInv DEF NumbersNext
  <2>4. jobs' # jobs
    BY <2>2 DEF Live
  <2> QED
    BY <2>3, <2>4, DeleteInv
<1> QED
  BY <1>1, JidInvAlways, PTL DEF NumbersSpec, DeletingFreesTheNext

----------------------------------------------------------------------------
(* The stack of handlers *)

FrameRecord == [sig : Signals, at : {"start", "reaped", "stopped", "kill"},
                pid : Pids \cup {0}]

\* The frames of a stack, as a set.
Frames(s) == {s[k] : k \in 1..Len(s)}

\* No two frames of a stack are of the same handler.
Distinct(s) == \A j, k \in 1..Len(s) : s[j].sig = s[k].sig => j = k

LEMMA StackTail ==
  ASSUME NEW s \in Seq(FrameRecord), s # <<>>, Distinct(s)
  PROVE  /\ Head(s) \in FrameRecord
         /\ Tail(s) \in Seq(FrameRecord) /\ Distinct(Tail(s))
         /\ Frames(s) = Frames(Tail(s)) \cup {Head(s)}
         /\ \A f \in Frames(Tail(s)) : f \in FrameRecord /\ f.sig # Head(s).sig
<1> DEFINE t == Tail(s)
<1>1. /\ Len(s) \in Nat \ {0} /\ Head(s) = s[1] /\ Head(s) \in FrameRecord
      /\ t \in Seq(FrameRecord) /\ Len(t) = Len(s) - 1
      /\ \A k \in 1..Len(t) : t[k] = s[k + 1] /\ k + 1 \in 1..Len(s)
  OBVIOUS
<1> HIDE DEF t
<1>2. Distinct(t)
  BY <1>1 DEF Distinct
<1>3. Frames(s) = Frames(t) \cup {Head(s)}
  <2>1. \A k \in 1..Len(s) : k = 1 \/ (k - 1 \in 1..Len(t) /\ s[k] = t[k - 1])
    BY <1>1
  <2> QED
    BY <1>1, <2>1 DEF Frames
<1>4. \A f \in Frames(t) : f \in FrameRecord /\ f.sig # Head(s).sig
  BY <1>1 DEF Frames, Distinct
<1> QED
  BY <1>1, <1>2, <1>3, <1>4 DEF t

LEMMA StackPush ==
  ASSUME NEW s \in Seq(FrameRecord), Distinct(s), NEW f \in FrameRecord,
         \A g \in Frames(s) : g.sig # f.sig
  PROVE  /\ <<f>> \o s \in Seq(FrameRecord) /\ Distinct(<<f>> \o s)
         /\ Frames(<<f>> \o s) = Frames(s) \cup {f}
<1> DEFINE t == <<f>> \o s
<1>1. /\ Len(s) \in Nat /\ t \in Seq(FrameRecord) /\ Len(t) = Len(s) + 1
      /\ t[1] = f /\ \A k \in 1..Len(t) : k = 1 \/ (k - 1 \in 1..Len(s) /\ t[k] = s[k - 1])
      /\ \A k \in 1..Len(s) : t[k + 1] = s[k]
  OBVIOUS
<1> HIDE DEF t
<1>2. Distinct(t)
  <2> SUFFICES ASSUME NEW j \in 1..Len(t), NEW k \in 1..Len(t), t[j].sig = t[k].sig
               PROVE  j = k
    BY DEF Distinct
  <2>1. \A m \in 1..Len(t) : m = 1 \/ (m - 1 \in 1..Len(s) /\ t[m] = s[m - 1] /\ t[m] \in Frames(s))
    BY <1>1 DEF Frames
  <2>2. j = 1 <=> k = 1
    BY <1>1, <2>1
  <2>3. j # 1 => j - 1 = k - 1
    BY <2>1, <2>2 DEF Distinct
  <2> QED
    BY <1>1, <2>2, <2>3
<1>3. Frames(t) = Frames(s) \cup {f}
  <2>1. \A g \in Frames(t) : g \in Frames(s) \cup {f}
    BY <1>1 DEF Frames
  <2>2. \A g \in Frames(s) : g \in Frames(t)
    BY <1>1 DEF Frames
  <2>3. f \in Frames(t)
    BY <1>1 DEF Frames
  <2> QED
    BY <2>1, <2>2, <2>3
<1> QED
  BY <1>1, <1>2, <1>3 DEF t

LEMMA NoFrames == Frames(<<>>) = {}
  BY DEF Frames

----------------------------------------------------------------------------
\* A signal sent along to the foreground job may reach p: the job is still
\* there, or has been stopped since.
WasForeground(p) == \E i \in Slots : jobs[i].pid = p /\ jobs[i].state \in {"FG", "ST"}

MainRecord ==
  [at : {"read", "fork", "add", "unblock", "wait", "getpid", "kill", "set", "reread"},
   pid : Pids \cup {0, -1}, slot : Slots \cup {NoJob}, state : States]

Types ==
  /\ ListOK
  /\ life \in {"up", "quit", "error", "segv"}
  /\ main \in MainRecord
  /\ blocked \in BOOLEAN
  /\ pending \subseteq Signals
  /\ stack \in Seq(FrameRecord)
  /\ Distinct(stack)
  /\ proc \in [Pids -> ProcStates]
  /\ told \subseteq Pids
  /\ doomed \subseteq Pids
  /\ keys \in 0..MaxKeys

\* The loop: what it holds where it is, and that no handler runs while eval has
\* the signals blocked.
LoopInv ==
  /\ main.at = "read" => main = AtRead
  /\ main.at # "read" => main.state \in {"FG", "BG"}
  /\ blocked <=> main.at \in {"fork", "add", "unblock"}
  /\ blocked => stack = <<>>
  /\ main.at \in {"getpid", "kill", "set", "reread"} => main.slot \in Slots
  /\ main.at = "add" /\ main.pid \in Pids =>
       proc[main.pid] # "none" /\ \A i \in Slots : jobs[i].pid # main.pid
  /\ main.at = "kill" =>
       \/ main.pid \in Pids \cup {0} /\ jobs[main.slot].pid = main.pid
       \/ main.pid \in Pids /\ proc[main.pid] = "none"
  /\ main.at = "set" => jobs[main.slot].pid \notin doomed

\* What a handler holds stays true while other handlers interrupt it.
FrameInv ==
  \A f \in Frames(stack) :
    /\ f.at \in {"reaped", "stopped"} => f.sig = "CHLD" /\ f.pid \in Pids
    /\ f.at = "kill" => f.sig \in {"INT", "TSTP"} /\ f.pid \in Pids
    /\ f.at = "reaped" => proc[f.pid] = "none"
    /\ f.at = "stopped" => proc[f.pid] = "stopped"
    /\ f.at = "kill" => main.at \in {"wait", "reread"}
    /\ f.at = "kill" => proc[f.pid] = "none" \/ WasForeground(f.pid)

\* The list: every job is of one child, which is there or has just been reaped;
\* a stopped job is stopped; a child about to be killed was in the foreground.
ListInv ==
  /\ \A i, j \in Slots : jobs[i].pid = jobs[j].pid /\ jobs[i].pid # 0 => i = j
  /\ \A i \in Slots : jobs[i].pid \in Pids /\ proc[jobs[i].pid] = "none" =>
       \E f \in Frames(stack) : f.at = "reaped" /\ f.pid = jobs[i].pid
  /\ \A i \in Slots : jobs[i].state = "ST" =>
       /\ jobs[i].pid \in Pids
       /\ proc[jobs[i].pid] = "stopped" \/ (main.at = "set" /\ main.slot = i)
  /\ \A p \in doomed : proc[p] = "stopped" /\ WasForeground(p)

\* One job is in the foreground at most, and only while main waits for it or is
\* about to.
FGInv ==
  /\ \A i, j \in Slots : jobs[i].state = "FG" /\ jobs[j].state = "FG" => i = j
  /\ \A i \in Slots : jobs[i].state = "FG" =>
       /\ main.at \in {"unblock", "wait", "reread"}
       /\ main.at \in {"unblock", "wait"} => jobs[i].pid = main.pid
       /\ main.at = "reread" => i = main.slot
       /\ main.at = "unblock" => main.state = "FG"

\* A child that waitpid has something to say of has its SIGCHLD on the way or in
\* a handler's hands.
ReapInv ==
  (\E p \in Pids : Reportable(p)) =>
     "CHLD" \in pending \/ \E f \in Frames(stack) : f.sig = "CHLD"

ShellInv == Types /\ LoopInv /\ FrameInv /\ ListInv /\ FGInv /\ ReapInv

----------------------------------------------------------------------------
\* The frame a handler runs in, and what is left when it returns or goes on.
LEMMA TopFrame ==
  ASSUME ShellInv, NEW sigs, NEW here, HandlerAt(sigs, here)
  PROVE  /\ Head(stack) \in FrameRecord /\ Head(stack) \in Frames(stack)
         /\ Head(stack).sig \in sigs /\ Head(stack).at = here
         /\ \A f \in Frames(stack) : f = Head(stack) \/ f.sig # Head(stack).sig
         /\ main.at \notin {"fork", "add", "unblock"}
<1>1. stack \in Seq(FrameRecord) /\ stack # <<>> /\ Distinct(stack)
  BY DEF HandlerAt, ShellInv, Types
<1>2. Head(stack).sig \in sigs /\ Head(stack).at = here
  BY DEF HandlerAt
<1>3. main.at \notin {"fork", "add", "unblock"}
  BY <1>1 DEF ShellInv, LoopInv
<1> QED
  BY <1>1, <1>2, <1>3, StackTail

LEMMA FramesTyped == ShellInv => \A f \in Frames(stack) : f \in FrameRecord
  BY DEF ShellInv, Types, Frames

LEMMA FramePopped ==
  ASSUME ShellInv, stack # <<>>, stack' = Tail(stack)
  PROVE  /\ stack' \in Seq(FrameRecord) /\ Distinct(stack')
         /\ Frames(stack') = Frames(stack) \ {Head(stack)}
BY StackTail DEF ShellInv, Types

LEMMA FrameChanged ==
  ASSUME ShellInv, stack # <<>>, NEW at \in {"start", "reaped", "stopped", "kill"},
         NEW p \in Pids \cup {0}, Frame(at, p)
  PROVE  /\ stack' \in Seq(FrameRecord) /\ Distinct(stack')
         /\ Frames(stack') = (Frames(stack) \ {Head(stack)})
                              \cup {[sig |-> Head(stack).sig, at |-> at, pid |-> p]}
<1> DEFINE f == [sig |-> Head(stack).sig, at |-> at, pid |-> p]
<1>1. stack \in Seq(FrameRecord) /\ stack # <<>> /\ Distinct(stack)
  BY DEF ShellInv, Types
<1>2. /\ Head(stack) \in FrameRecord
      /\ Tail(stack) \in Seq(FrameRecord) /\ Distinct(Tail(stack))
      /\ Frames(Tail(stack)) = Frames(stack) \ {Head(stack)}
      /\ \A g \in Frames(Tail(stack)) : g.sig # Head(stack).sig
  BY <1>1, StackTail
<1>3. f \in FrameRecord /\ f.sig = Head(stack).sig
  BY <1>2 DEF FrameRecord
<1>4. ASSUME NEW g, g = [Head(stack) EXCEPT !.at = at, !.pid = p] PROVE g = f
  <2>1. g \in FrameRecord /\ g.sig = f.sig /\ g.at = f.at /\ g.pid = f.pid
    BY <1>2, <1>4 DEF FrameRecord
  <2> QED
    BY <1>3, <2>1 DEF FrameRecord
<1>5. stack' = <<f>> \o Tail(stack)
  BY <1>4 DEF Frame
<1> QED
  BY <1>2, <1>3, <1>5, StackPush

----------------------------------------------------------------------------
(* The read/eval loop. *)

\* A step of the loop alone: no handler holds anything, so what it has to keep
\* is said of main, of blocked and of the jobs in the foreground.
LEMMA LoopAlone ==
  ASSUME ShellInv, life = "up", stack = <<>>, main.at # "set",
         UNCHANGED <<jobVars, life, sigVars, procVars, keys>>,
         main' \in MainRecord, blocked' \in BOOLEAN, LoopInv', FGInv'
  PROVE  ShellInv'
<1>1. Types'
  BY DEF ShellInv, Types, ListOK, jobVars, sigVars, procVars
<1>2. FrameInv'
  BY NoFrames DEF FrameInv, sigVars
<1>3. ListInv'
  BY DEF ShellInv, ListInv, WasForeground, jobVars, sigVars, procVars
<1>4. ReapInv'
  BY DEF ShellInv, ReapInv, Reportable, sigVars, procVars
<1> QED
  BY <1>1, <1>2, <1>3, <1>4 DEF ShellInv

LEMMA EvalKeeps ==
  ASSUME ShellInv, NEW state \in {"FG", "BG"}, Eval(state) PROVE ShellInv'
<1> USE DEF Eval, MainAt, ShellInv, Types, procVars, sigVars, jobVars
<1>1. main' \in MainRecord /\ blocked' \in BOOLEAN
  BY DEF MainRecord, States
<1>2. LoopInv'
  BY DEF LoopInv, MainRecord
<1>3. FGInv'
  BY DEF FGInv, MainRecord
<1> QED
  BY <1>1, <1>2, <1>3, LoopAlone

LEMMA ForkFailsKeeps == ASSUME ShellInv, ForkFails PROVE ShellInv'
<1> USE DEF ForkFails, MainAt, ShellInv, Types, procVars, sigVars, jobVars
<1>1. main' \in MainRecord
  BY DEF MainRecord
<1>2. LoopInv'
  BY JobTableAssumption DEF LoopInv, MainRecord
<1>3. FGInv'
  BY DEF FGInv, MainRecord
<1> QED
  BY <1>1, <1>2, <1>3, LoopAlone

LEMMA UnblockKeeps == ASSUME ShellInv, Unblock PROVE ShellInv'
<1> USE DEF Unblock, MainAt, ShellInv, Types, procVars, sigVars, jobVars
<1>1. main' \in MainRecord /\ blocked' \in BOOLEAN
  BY DEF MainRecord, AtRead, States
<1>2. LoopInv'
  BY DEF LoopInv, MainRecord, AtRead
<1>3. FGInv'
  BY DEF FGInv, MainRecord, AtRead
<1> QED
  BY <1>1, <1>2, <1>3, LoopAlone

\* waitfg returns once no job is in the foreground: the only one there could be
\* is the one it waits for.
LEMMA WaitfgKeeps == ASSUME ShellInv, Waitfg PROVE ShellInv'
<1> USE DEF Waitfg, MainAt, ShellInv, Types, procVars, sigVars, jobVars
<1>1. main' = AtRead /\ main' \in MainRecord
  BY DEF MainRecord, AtRead, States
<1>2. LoopInv'
  BY DEF LoopInv, AtRead
<1>3. \A i \in Slots : jobs[i].state # "FG"
  BY FgpidFinds DEF FGInv
<1>4. FGInv'
  BY <1>3 DEF FGInv
<1> QED
  BY <1>1, <1>2, <1>4, LoopAlone

LEMMA BgfgKeeps ==
  ASSUME ShellInv, NEW state \in {"FG", "BG"}, Bgfg(state) PROVE ShellInv'
<1> USE DEF MainAt, ShellInv, Types, procVars, sigVars, jobVars
<1>1. PICK i \in Slots : main' = [main EXCEPT !.at = "getpid", !.slot = i, !.state = state]
  <2>1. \A jid : getjobjid(jid) \in Slots \cup {NoJob}
    BY FirstOfFinds DEF getjobjid
  <2>2. \A pid : getjobpid(pid) \in Slots \cup {NoJob}
    BY FirstOfFinds DEF getjobpid
  <2> QED
    BY <2>1, <2>2 DEF Bgfg
<1>2. main' \in MainRecord /\ main'.at = "getpid" /\ main'.slot = i /\ main'.state = state
  BY <1>1 DEF MainRecord, States
<1>3. LoopInv'
  BY <1>2 DEF Bgfg, LoopInv
<1>4. FGInv'
  BY DEF Bgfg, FGInv
<1> QED
  BY <1>2, <1>3, <1>4, LoopAlone DEF Bgfg

LEMMA BgfgPidKeeps == ASSUME ShellInv, BgfgPid PROVE ShellInv'
<1> USE DEF BgfgPid, MainAt, ShellInv, Types, procVars, sigVars, jobVars
<1>1. main.slot \in Slots /\ jobs[main.slot].pid \in Pids \cup {0}
  BY DEF LoopInv, ListOK, Records
<1>2. /\ main' \in MainRecord /\ main'.at = "kill" /\ main'.pid = jobs[main.slot].pid
      /\ main'.slot = main.slot /\ main'.state = main.state
  BY <1>1 DEF MainRecord
<1>3. LoopInv'
  BY <1>1, <1>2 DEF LoopInv
<1>4. FGInv'
  BY DEF FGInv
<1> QED
  BY <1>2, <1>3, <1>4, LoopAlone

LEMMA BgfgWaitKeeps == ASSUME ShellInv, BgfgWait PROVE ShellInv'
<1> USE DEF BgfgWait, MainAt, ShellInv, Types, procVars, sigVars, jobVars
<1>1. main.slot \in Slots /\ jobs[main.slot].pid \in Pids \cup {0}
  BY DEF LoopInv, ListOK, Records
<1>2. /\ main' \in MainRecord /\ main'.at = "wait" /\ main'.pid = jobs[main.slot].pid
      /\ main'.state = main.state
  BY <1>1 DEF MainRecord
<1>3. LoopInv'
  BY <1>2 DEF LoopInv
<1>4. FGInv'
  BY <1>2 DEF FGInv
<1> QED
  BY <1>2, <1>3, <1>4, LoopAlone

\* The child of a new process ID has no job yet: the list holds only children,
\* and those just reaped, whose handler would have to be running.
LEMMA ForkKeeps ==
  ASSUME ShellInv, NEW p \in Pids, Fork(p) PROVE ShellInv'
<1> USE DEF Fork, MainAt, ShellInv, Types, procVars, sigVars, jobVars
<1>1. /\ main' \in MainRecord /\ main'.at = "add" /\ main'.pid = p
      /\ main'.state = main.state
  BY DEF MainRecord
<1>2. Frames(stack) = {} /\ stack' = stack
  BY NoFrames
<1>3. \A i \in Slots : jobs[i].pid # p
  BY <1>2 DEF ListInv
<1>4. proc' = [proc EXCEPT ![p] = "forked"] /\ proc' \in [Pids -> ProcStates]
  BY DEF ProcStates
<1>5. Types'
  BY <1>1, <1>4 DEF ListOK
<1>6. LoopInv'
  BY <1>1, <1>3, <1>4 DEF LoopInv
<1>7. FrameInv'
  BY <1>2 DEF FrameInv
<1>8. ListInv'
  BY <1>2, <1>3, <1>4 DEF ListInv, WasForeground
<1>9. FGInv'
  BY DEF FGInv
<1>10. ReapInv'
  BY <1>4 DEF ReapInv, Reportable, Dead
<1> QED
  BY <1>5, <1>6, <1>7, <1>8, <1>9, <1>10

LEMMA AddjobKeeps == ASSUME ShellInv, Addjob PROVE ShellInv'
<1> USE DEF MainAt, ShellInv, Types, procVars, sigVars
<1>1. /\ main \in MainRecord /\ main.at = "add" /\ main.state \in {"FG", "BG"}
      /\ main' \in MainRecord /\ main'.at = "unblock" /\ main'.pid = main.pid
      /\ main'.state = main.state
      /\ UNCHANGED <<life, blocked, sigVars, procVars, keys>>
  BY DEF Addjob, LoopInv, MainRecord
<1>2. Frames(stack) = {} /\ stack = <<>>
  BY NoFrames DEF Addjob
<1>3. FrameInv'
  BY <1>1, <1>2 DEF FrameInv
<1>4. ReapInv'
  BY <1>1 DEF ReapInv, Reportable
<1>5. CASE UNCHANGED jobVars
  <2>1. Types'
    BY <1>1, <1>5 DEF ListOK, jobVars
  <2>2. LoopInv'
    BY <1>1, <1>5 DEF LoopInv, jobVars
  <2>3. ListInv' /\ FGInv'
    BY <1>1, <1>5 DEF ListInv, FGInv, WasForeground, jobVars
  <2> QED
    BY <1>3, <1>4, <2>1, <2>2, <2>3
<1>6. ASSUME NEW i \in Slots, ListOK', main.pid \in Pids, jobs[i].pid = 0,
             jobs' = [jobs EXCEPT ![i] =
                       [pid |-> main.pid, jid |-> nextjid, state |-> main.state]]
      PROVE  ShellInv'
  <2>1. /\ jobs'[i].pid = main.pid /\ jobs'[i].state = main.state
        /\ \A j \in Slots \ {i} : jobs'[j] = jobs[j]
    BY <1>6 DEF ListOK
  <2>2. proc[main.pid] # "none" /\ \A j \in Slots : jobs[j].pid # main.pid
    BY <1>1, <1>6 DEF LoopInv
  <2>3. Types'
    BY <1>1, <1>6
  <2>4. LoopInv'
    BY <1>1 DEF LoopInv
  <2>5. ListInv'
    <3>1. \A j, k \in Slots : jobs'[j].pid = jobs'[k].pid /\ jobs'[j].pid # 0 => j = k
      BY <2>1, <2>2 DEF ListInv
    <3>2. \A j \in Slots : jobs'[j].pid \in Pids => proc'[jobs'[j].pid] # "none"
      BY <1>1, <1>2, <2>1, <2>2 DEF ListInv
    <3>3. \A j \in Slots : jobs'[j].state = "ST" =>
            jobs'[j].pid \in Pids /\ proc'[jobs'[j].pid] = "stopped"
      BY <1>1, <2>1 DEF ListInv
    <3>4. \A p \in doomed' : proc'[p] = "stopped" /\ WasForeground(p)'
      <4> SUFFICES ASSUME NEW p \in doomed PROVE proc[p] = "stopped" /\ WasForeground(p)'
        BY <1>1
      <4>1. proc[p] = "stopped" /\ p \in Pids
        BY DEF ListInv
      <4>2. PICK j \in Slots : jobs[j].pid = p /\ jobs[j].state \in {"FG", "ST"}
        BY DEF ListInv, WasForeground
      <4>3. j # i
        BY <1>6, <4>1, <4>2, JobTableAssumption
      <4> QED
        BY <2>1, <4>1, <4>2, <4>3 DEF WasForeground
    <3> QED
      BY <3>1, <3>2, <3>3, <3>4 DEF ListInv
  <2>6. FGInv'
    BY <1>1, <2>1 DEF FGInv
  <2> QED
    BY <1>3, <1>4, <2>3, <2>4, <2>5, <2>6
<1>7. main.pid \notin Pids => UNCHANGED jobVars
  BY DEF Addjob, addjob
<1>8. addjob(main.pid, main.state) /\ ListOK /\ main.state \in States
  BY DEF Addjob, MainRecord
<1> QED
  BY <1>5, <1>6, <1>7, <1>8, AddjobAdds

\* The SIGCONT reaches the job's child, if the handler has not reaped it: then
\* the group is gone and the shell ends.
LEMMA BgfgKillKeeps == ASSUME ShellInv, BgfgKill PROVE ShellInv'
<1> USE DEF MainAt, ShellInv, Types, procVars, sigVars, jobVars
<1>1. main \in MainRecord /\ main.at = "kill" /\ stack = <<>> /\ Frames(stack) = {}
  BY NoFrames DEF BgfgKill
<1>2. CASE main.pid # 0 /\ ~GroupExists(main.pid)
  <2>1. UNCHANGED <<jobVars, main, blocked, sigVars, procVars, keys>> /\ life' = "error"
    BY <1>2 DEF BgfgKill, End
  <2> QED
    BY <2>1 DEF ListOK, LoopInv, FrameInv, ListInv, FGInv, ReapInv, Reportable, WasForeground
<1>3. CASE main.pid = 0 \/ GroupExists(main.pid)
  <2>1. /\ main' \in MainRecord /\ main'.at = "set" /\ main'.slot = main.slot
        /\ main'.state = main.state
        /\ UNCHANGED <<jobVars, life, blocked, stack, keys>>
    BY <1>1, <1>3 DEF BgfgKill, MainRecord
  <2>2. FrameInv'
    BY <1>1, <2>1 DEF FrameInv
  <2>3. FGInv'
    BY <1>1, <2>1 DEF FGInv
  <2>4. jobs[main.slot].pid = main.pid /\ main.pid \in Pids \cup {0}
    BY <1>1, <1>3, JobTableAssumption DEF LoopInv, GroupExists
  <2>5. /\ proc' \in [Pids -> ProcStates] /\ pending' \subseteq Signals
        /\ doomed' = doomed \ {main.pid} /\ told' = told
        /\ \A q \in Pids : \/ proc'[q] = proc[q]
                          \/ /\ q = main.pid /\ proc[q] = "stopped" /\ "CHLD" \in pending'
                             /\ proc'[q] \in {"killed", "running"}
        /\ pending \subseteq pending'
    <3>1. CASE main.pid = 0
      BY <1>3, <2>4, <3>1, JobTableAssumption DEF BgfgKill
    <3>2. CASE main.pid # 0
      <4>1. Resume(main.pid) /\ main.pid \in Pids
        BY <1>3, <2>4, <3>2 DEF BgfgKill
      <4> QED
        BY <4>1 DEF Resume, Becomes, ProcStates, Dead, Signals
    <3> QED
      BY <3>1, <3>2
  <2>6. Types'
    BY <2>1, <2>5 DEF ListOK
  <2>7. LoopInv'
    BY <1>1, <2>1, <2>4, <2>5 DEF LoopInv
  <2>8. ListInv'
    <3>1. \A i \in Slots : proc'[jobs[i].pid] = "none" /\ jobs[i].pid \in Pids
                           => proc[jobs[i].pid] = "none"
      BY <2>5
    <3>2. \A i \in Slots : jobs[i].state = "ST" => jobs[i].pid \in Pids
                           /\ (proc'[jobs[i].pid] = "stopped" \/ i = main.slot)
      BY <1>1, <2>4, <2>5, JobTableAssumption DEF ListInv, LoopInv
    <3>3. \A p \in doomed' : proc'[p] = "stopped" /\ WasForeground(p)
      BY <2>5 DEF ListInv
    <3> QED
      BY <2>1, <3>1, <3>2, <3>3 DEF ListInv, WasForeground
  <2>9. ReapInv'
    BY <1>1, <2>1, <2>5 DEF ReapInv, Reportable, Dead
  <2> QED
    BY <2>2, <2>3, <2>6, <2>7, <2>8, <2>9
<1> QED
  BY <1>2, <1>3

LEMMA BgfgStateKeeps == ASSUME ShellInv, BgfgState PROVE ShellInv'
<1> USE DEF MainAt, ShellInv, Types, procVars, sigVars
<1>1. /\ main \in MainRecord /\ main.at = "set" /\ main.slot \in Slots
      /\ main.state \in {"FG", "BG"} /\ Frames(stack) = {}
      /\ UNCHANGED <<life, blocked, sigVars, procVars, keys, nextjid>>
      /\ jobs' = [jobs EXCEPT ![main.slot].state = main.state]
  BY NoFrames DEF BgfgState, LoopInv, SetState
<1>2. /\ jobs' \in [Slots -> Records]
      /\ \A i \in Slots : /\ jobs'[i].pid = jobs[i].pid /\ jobs'[i].jid = jobs[i].jid
                          /\ jobs'[i].state = IF i = main.slot THEN main.state ELSE jobs[i].state
  BY <1>1 DEF ListOK, Records, States
<1>3. /\ main' \in MainRecord
      /\ \/ main.state = "FG" /\ main' = [main EXCEPT !.at = "reread"]
         \/ main.state = "BG" /\ main' = AtRead
  BY <1>1 DEF BgfgState, MainRecord, AtRead, States
<1>4. Types'
  BY <1>1, <1>2, <1>3 DEF ListOK
<1>5. LoopInv'
  BY <1>1, <1>3 DEF LoopInv, AtRead, MainRecord
<1>6. FrameInv'
  BY <1>1 DEF FrameInv
<1>7. ListInv'
  <2>1. \A p \in doomed : proc[p] = "stopped" /\ WasForeground(p)'
    <3> SUFFICES ASSUME NEW p \in doomed PROVE proc[p] = "stopped" /\ WasForeground(p)'
      OBVIOUS
    <3>1. PICK i \in Slots : jobs[i].pid = p /\ jobs[i].state \in {"FG", "ST"}
      BY DEF ListInv, WasForeground
    <3>2. i # main.slot
      BY <1>1, <3>1 DEF LoopInv
    <3> QED
      BY <1>2, <3>1, <3>2 DEF ListInv, WasForeground
  <2> QED
    BY <1>1, <1>2, <2>1 DEF ListInv
<1>8. FGInv'
  BY <1>1, <1>2, <1>3 DEF FGInv, AtRead, MainRecord
<1>9. ReapInv'
  BY <1>1 DEF ReapInv, Reportable
<1> QED
  BY <1>4, <1>5, <1>6, <1>7, <1>8, <1>9

----------------------------------------------------------------------------
(* The children, the keyboard and the end of the shell. *)

LEMMA ChildKeeps == ASSUME ShellInv, NEW p \in Pids, Child(p) PROVE ShellInv'
<1> USE DEF ShellInv, Types, LoopInv, FrameInv, ListInv, FGInv, ReapInv, WasForeground,
            Reportable, Dead, ProcStates, jobVars, sigVars, ListOK
<1>1. CASE Setpgid(p)
  BY <1>1 DEF Setpgid
<1>2. CASE Execve(p)
  BY <1>2 DEF Execve
<1>3. CASE ChildExits(p)
  BY <1>3 DEF ChildExits, Becomes, Signals
<1>4. CASE ChildStops(p)
  BY <1>4 DEF ChildStops, Becomes, Signals
<1> QED
  BY <1>1, <1>2, <1>3, <1>4 DEF Child

LEMMA KeyKeeps ==
  ASSUME ShellInv, NEW sig \in {"INT", "TSTP"}, Key(sig) PROVE ShellInv'
<1> USE DEF Key, ShellInv, jobVars, procVars
<1>1. keys' \in 0..MaxKeys /\ pending' \subseteq Signals /\ pending \subseteq pending'
  BY ShellAssumption DEF Types, Signals
<1>2. Types'
  BY <1>1 DEF Types, ListOK
<1>3. LoopInv' /\ FrameInv' /\ ListInv' /\ FGInv'
  BY DEF LoopInv, FrameInv, ListInv, FGInv, WasForeground
<1>4. ReapInv'
  BY <1>1 DEF ReapInv, Reportable
<1> QED
  BY <1>2, <1>3, <1>4

LEMMA EndKeeps ==
  ASSUME ShellInv, NEW how \in {"quit", "error", "segv"}, End(how) PROVE ShellInv'
BY DEF End, ShellInv, Types, LoopInv, FrameInv, ListInv, FGInv, ReapInv, WasForeground,
       Reportable, jobVars, procVars, sigVars, ListOK

----------------------------------------------------------------------------
(* The handlers. *)

LEMMA DeliverKeeps ==
  ASSUME ShellInv, NEW sig \in Signals, Deliver(sig) PROVE ShellInv'
<1> DEFINE f == [sig |-> sig, at |-> "start", pid |-> 0]
<1> USE DEF ShellInv, jobVars, procVars
<1>1. /\ UNCHANGED <<jobVars, life, main, blocked, procVars, keys>>
      /\ pending' = pending \ {sig} /\ ~blocked
      /\ f.sig = sig /\ f.at = "start"
  BY DEF Deliver
<1>2. stack' \in Seq(FrameRecord) /\ Distinct(stack') /\ Frames(stack') = Frames(stack) \cup {f}
  <2>1. stack \in Seq(FrameRecord) /\ Distinct(stack) /\ f \in FrameRecord
    BY DEF Types, FrameRecord
  <2>2. \A g \in Frames(stack) : g.sig # f.sig
    BY DEF Frames, Deliver
  <2> QED
    BY <2>1, <2>2, StackPush DEF Deliver
<1> HIDE DEF f
<1>3. Types'
  BY <1>1, <1>2 DEF Types, ListOK
<1>4. LoopInv' /\ FGInv'
  BY <1>1 DEF LoopInv, FGInv
<1>5. FrameInv'
  BY <1>1, <1>2 DEF FrameInv, WasForeground
<1>6. ListInv'
  BY <1>1, <1>2 DEF ListInv, WasForeground
<1>7. ReapInv'
  BY <1>1, <1>2 DEF ReapInv, Reportable
<1> QED
  BY <1>3, <1>4, <1>5, <1>6, <1>7

\* While a child is in the handler's hands, the loop cannot move: what waitpid
\* has said of it stays true until the handler uses it.
LEMMA WaitpidKeeps ==
  ASSUME ShellInv, NEW p \in Pids, Waitpid(p) PROVE ShellInv'
<1> DEFINE h == Head(stack)
           f(at) == [sig |-> h.sig, at |-> at, pid |-> p]
<1> USE DEF ShellInv, jobVars
<1>1. /\ h.sig = "CHLD" /\ h.at = "start" /\ h \in Frames(stack) /\ stack # <<>>
      /\ \A g \in Frames(stack) : g = h \/ g.sig # h.sig
      /\ main.at \notin {"fork", "add", "unblock"}
      /\ UNCHANGED <<jobVars, life, main, blocked, pending, doomed, keys>>
  BY TopFrame DEF Waitpid, HandlerAt
<1>2. /\ proc \in [Pids -> ProcStates] /\ told \subseteq Pids
      /\ \A q \in doomed : proc[q] = "stopped"
  BY DEF Types, ListInv
<1>3. ASSUME proc[p] = "stopped" PROVE ShellInv'
  <2>1. /\ stack' \in Seq(FrameRecord) /\ Distinct(stack')
        /\ Frames(stack') = (Frames(stack) \ {h}) \cup {f("stopped")}
    BY <1>1, <1>3, FrameChanged DEF Waitpid
  <2>2. told' = told \cup {p} /\ proc' = proc
    BY <1>3 DEF Waitpid
  <2>3. f("stopped").sig = "CHLD" /\ f("stopped").at = "stopped" /\ f("stopped").pid = p
    BY <1>1
  <2> HIDE DEF h, f
  <2>4. Types'
    BY <1>1, <2>1, <2>2 DEF Types, ListOK
  <2>5. LoopInv' /\ FGInv'
    BY <1>1, <2>2 DEF LoopInv, FGInv
  <2>6. FrameInv'
    BY <1>1, <1>3, <2>1, <2>2, <2>3 DEF FrameInv, WasForeground
  <2>7. ListInv'
    BY <1>1, <2>1, <2>2 DEF ListInv, WasForeground
  <2>8. ReapInv'
    BY <2>1, <2>3 DEF ReapInv
  <2> QED
    BY <2>4, <2>5, <2>6, <2>7, <2>8
<1>4. ASSUME proc[p] # "stopped" PROVE ShellInv'
  <2>1. /\ stack' \in Seq(FrameRecord) /\ Distinct(stack')
        /\ Frames(stack') = (Frames(stack) \ {h}) \cup {f("reaped")}
    BY <1>1, <1>4, FrameChanged DEF Waitpid
  <2>2. told' = told /\ proc' = [proc EXCEPT ![p] = "none"] /\ proc[p] \in Dead
    BY <1>4 DEF Waitpid, Reportable
  <2>3. f("reaped").sig = "CHLD" /\ f("reaped").at = "reaped" /\ f("reaped").pid = p
    BY <1>1
  <2> HIDE DEF h, f
  <2>4. Types'
    BY <1>1, <1>2, <2>1, <2>2 DEF Types, ListOK, ProcStates
  <2>5. LoopInv' /\ FGInv'
    BY <1>1, <1>2, <2>2 DEF LoopInv, FGInv
  <2>6. FrameInv'
    BY <1>1, <1>2, <2>1, <2>2, <2>3 DEF FrameInv, WasForeground, Dead
  <2>7. ListInv'
    BY <1>1, <1>2, <2>1, <2>2, <2>3 DEF ListInv, WasForeground, Dead
  <2>8. ReapInv'
    BY <2>1, <2>3 DEF ReapInv
  <2> QED
    BY <2>4, <2>5, <2>6, <2>7, <2>8
<1> QED
  BY <1>3, <1>4

LEMMA WaitpidNoneKeeps == ASSUME ShellInv, WaitpidNone PROVE ShellInv'
<1> DEFINE h == Head(stack)
<1> USE DEF ShellInv, jobVars, procVars
<1>1. /\ h.at = "start" /\ stack # <<>>
      /\ UNCHANGED <<jobVars, life, main, blocked, pending, procVars, keys>>
  BY TopFrame DEF WaitpidNone, HandlerAt
<1>2. /\ stack' \in Seq(FrameRecord) /\ Distinct(stack')
      /\ Frames(stack') = Frames(stack) \ {h}
  BY <1>1, FramePopped DEF WaitpidNone
<1> HIDE DEF h
<1>3. Types'
  BY <1>1, <1>2 DEF Types, ListOK
<1>4. LoopInv' /\ FGInv'
  BY <1>1 DEF LoopInv, FGInv
<1>5. FrameInv'
  BY <1>1, <1>2 DEF FrameInv, WasForeground
<1>6. ListInv'
  BY <1>1, <1>2 DEF ListInv, WasForeground
<1>7. ReapInv'
  BY <1>1 DEF ReapInv, Reportable, WaitpidNone
<1> QED
  BY <1>3, <1>4, <1>5, <1>6, <1>7

LEMMA ChildStoppedKeeps == ASSUME ShellInv, ChildStopped PROVE ShellInv'
<1> DEFINE h == Head(stack)
           f == [sig |-> h.sig, at |-> "start", pid |-> 0]
<1> USE DEF ShellInv, procVars
<1>1. /\ h.sig = "CHLD" /\ h.at = "stopped" /\ h \in Frames(stack) /\ stack # <<>>
      /\ main.at \notin {"fork", "add", "unblock"}
  BY TopFrame DEF ChildStopped, HandlerAt
<1>2. proc[h.pid] = "stopped" /\ h.pid \in Pids
  BY <1>1 DEF FrameInv
<1>3. CASE getjobpid(h.pid) = NoJob
  BY <1>3, EndKeeps DEF ChildStopped
<1>4. ASSUME NEW i \in Slots, jobs[i].pid = h.pid, SetState(i, "ST"), Frame("start", 0),
             UNCHANGED <<life, main, blocked, pending, procVars, keys>>
      PROVE  ShellInv'
  <2>1. /\ stack' \in Seq(FrameRecord) /\ Distinct(stack')
        /\ Frames(stack') = (Frames(stack) \ {h}) \cup {f}
    BY <1>1, <1>4, FrameChanged
  <2>2. f.sig = "CHLD" /\ f.at = "start"
    BY <1>1
  <2> HIDE DEF h, f
  <2>3. /\ jobs' \in [Slots -> Records] /\ nextjid' = nextjid
        /\ \A j \in Slots : /\ jobs'[j].pid = jobs[j].pid /\ jobs'[j].jid = jobs[j].jid
                            /\ jobs'[j].state = IF j = i THEN "ST" ELSE jobs[j].state
    BY <1>4 DEF SetState, Types, ListOK, Records, States
  <2>4. Types'
    BY <1>4, <2>1, <2>3 DEF Types, ListOK
  <2>5. LoopInv'
    BY <1>1, <1>4, <2>3 DEF LoopInv
  <2>6. \A p : WasForeground(p) => WasForeground(p)'
    BY <2>3 DEF WasForeground
  <2>7. FrameInv'
    BY <1>1, <1>4, <2>1, <2>2, <2>6 DEF FrameInv
  <2>8. ListInv'
    BY <1>1, <1>2, <1>4, <2>1, <2>3, <2>6 DEF ListInv
  <2>9. FGInv'
    BY <1>4, <2>3 DEF FGInv
  <2>10. ReapInv'
    BY <2>1, <2>2 DEF ReapInv
  <2> QED
    BY <2>4, <2>5, <2>7, <2>8, <2>9, <2>10
<1>5. CASE getjobpid(h.pid) # NoJob
  BY <1>4, <1>5, GetjobpidFinds DEF ChildStopped
<1> QED
  BY <1>3, <1>5

LEMMA ChildReapedKeeps == ASSUME ShellInv, ChildReaped PROVE ShellInv'
<1> DEFINE h == Head(stack)
           f == [sig |-> h.sig, at |-> "start", pid |-> 0]
<1> USE DEF ShellInv, procVars
<1>1. /\ h.sig = "CHLD" /\ h.at = "reaped" /\ h \in Frames(stack) /\ stack # <<>>
      /\ \A g \in Frames(stack) : g = h \/ g.sig # h.sig
      /\ main.at \notin {"fork", "add", "unblock"}
      /\ UNCHANGED <<life, main, blocked, pending, procVars, keys>>
  BY TopFrame DEF ChildReaped, HandlerAt
<1>2. proc[h.pid] = "none" /\ h.pid \in Pids
  BY <1>1 DEF FrameInv
<1>3. /\ stack' \in Seq(FrameRecord) /\ Distinct(stack')
      /\ Frames(stack') = (Frames(stack) \ {h}) \cup {f}
      /\ f.sig = "CHLD" /\ f.at = "start"
  BY <1>1, FrameChanged DEF ChildReaped
<1>4. deletejob(h.pid) /\ ListOK
  BY DEF ChildReaped, Types
<1> HIDE DEF h, f
<1>5. Types'
  BY <1>1, <1>3, <1>4, DeletejobDeletes DEF Types
<1>6. ReapInv'
  BY <1>3 DEF ReapInv
\* The job that was of the reaped child is cleared; the others stay.
<1>7. /\ \A i \in Slots : jobs'[i] = jobs[i] \/ (jobs'[i] = Cleared /\ jobs[i].pid = h.pid)
      /\ \A i \in Slots : jobs'[i].pid # h.pid
  <2>1. CASE UNCHANGED jobVars /\ \A i \in Slots : jobs[i].pid # h.pid
    BY <2>1 DEF jobVars
  <2>2. ASSUME NEW i \in Slots, jobs[i].pid = h.pid, jobs' = [jobs EXCEPT ![i] = Cleared]
        PROVE  <1>7!:
    <3>1. \A j \in Slots : jobs'[j] = IF j = i THEN Cleared ELSE jobs[j]
      BY <1>4, <2>2 DEF ListOK
    <3>2. \A j \in Slots : jobs[j].pid = h.pid => j = i
      BY <1>2, <2>2, JobTableAssumption DEF ListInv
    <3>3. Cleared.pid # h.pid
      BY <1>2, JobTableAssumption DEF Cleared
    <3> QED
      BY <2>2, <3>1, <3>2, <3>3
  <2> QED
    BY <1>4, <2>1, <2>2, DeletejobDeletes
<1>8. Cleared.pid = 0 /\ Cleared.state = "UNDEF"
  BY DEF Cleared
<1>9. LoopInv'
  BY <1>1, <1>2, <1>5, <1>7, <1>8, JobTableAssumption DEF LoopInv, Types
<1>10. \A p : WasForeground(p) /\ p # h.pid => WasForeground(p)'
  BY <1>7 DEF WasForeground
<1>11. FrameInv'
  <2> SUFFICES ASSUME NEW g \in Frames(stack'), g.at # "start"
               PROVE  /\ g.at = "kill" /\ g.sig \in {"INT", "TSTP"} /\ g.pid \in Pids
                      /\ main.at \in {"wait", "reread"}
                      /\ proc[g.pid] = "none" \/ WasForeground(g.pid)'
    BY <1>1 DEF FrameInv
  <2>1. g \in Frames(stack) /\ g.sig # "CHLD"
    BY <1>1, <1>3
  <2>2. g.at = "kill"
    BY <2>1, FramesTyped DEF FrameInv, FrameRecord
  <2>3. /\ g.sig \in {"INT", "TSTP"} /\ g.pid \in Pids
        /\ main.at \in {"wait", "reread"}
        /\ proc[g.pid] = "none" \/ WasForeground(g.pid)
    BY <2>1, <2>2 DEF FrameInv
  <2> QED
    BY <1>2, <1>10, <2>2, <2>3
<1>12. ListInv'
  BY <1>1, <1>2, <1>3, <1>7, <1>8, <1>10, JobTableAssumption DEF ListInv
<1>13. FGInv'
  BY <1>1, <1>7, <1>8 DEF FGInv
<1> QED
  BY <1>5, <1>6, <1>9, <1>11, <1>12, <1>13

LEMMA FindForegroundKeeps == ASSUME ShellInv, FindForeground PROVE ShellInv'
<1> DEFINE h == Head(stack)
           f == [sig |-> h.sig, at |-> "kill", pid |-> fgpid]
<1> USE DEF ShellInv, jobVars, procVars
<1>1. /\ h.sig \in {"INT", "TSTP"} /\ h.at = "start" /\ h \in Frames(stack) /\ stack # <<>>
      /\ main.at \notin {"fork", "add", "unblock"}
      /\ UNCHANGED <<jobVars, life, main, blocked, pending, procVars, keys>>
  BY TopFrame DEF FindForeground, HandlerAt
<1>2. LoopInv' /\ FGInv'
  BY <1>1 DEF LoopInv, FGInv
<1>3. CASE fgpid = 0
  <2>1. /\ stack' \in Seq(FrameRecord) /\ Distinct(stack')
        /\ Frames(stack') = Frames(stack) \ {h}
    BY <1>1, <1>3, FramePopped DEF FindForeground
  <2> HIDE DEF h
  <2>2. Types'
    BY <1>1, <2>1 DEF Types, ListOK
  <2>3. FrameInv' /\ ListInv'
    BY <1>1, <2>1 DEF FrameInv, ListInv, WasForeground
  <2>4. ReapInv'
    BY <1>1, <2>1 DEF ReapInv, Reportable
  <2> QED
    BY <1>2, <2>2, <2>3, <2>4
<1>4. CASE fgpid # 0
  <2>1. /\ fgpid \in Pids /\ WasForeground(fgpid) /\ main.at \in {"wait", "reread"}
    BY <1>1, <1>4, FgpidFinds DEF Types, ListOK, Records, WasForeground, FGInv
  <2>2. /\ stack' \in Seq(FrameRecord) /\ Distinct(stack')
        /\ Frames(stack') = (Frames(stack) \ {h}) \cup {f}
    BY <1>1, <1>4, <2>1, FrameChanged DEF FindForeground
  <2>3. f.sig = h.sig /\ f.at = "kill" /\ f.pid = fgpid
    OBVIOUS
  <2> HIDE DEF h, f
  <2>4. Types'
    BY <1>1, <2>2 DEF Types, ListOK
  <2>5. FrameInv'
    BY <1>1, <2>1, <2>2, <2>3 DEF FrameInv, WasForeground
  <2>6. ListInv'
    BY <1>1, <2>2 DEF ListInv, WasForeground
  <2>7. ReapInv'
    BY <1>1, <2>2 DEF ReapInv, Reportable
  <2> QED
    BY <1>2, <2>4, <2>5, <2>6, <2>7
<1> QED
  BY <1>3, <1>4

\* What a signal to the foreground job may do to its child.
LEMMA KillForegroundKeeps == ASSUME ShellInv, KillForeground PROVE ShellInv'
<1> DEFINE h == Head(stack)
<1> USE DEF ShellInv, jobVars
<1>1. /\ h.sig \in {"INT", "TSTP"} /\ h.at = "kill" /\ h \in Frames(stack) /\ stack # <<>>
      /\ main.at \notin {"fork", "add", "unblock"}
  BY TopFrame DEF KillForeground, HandlerAt
<1>2. /\ h.pid \in Pids /\ main.at \in {"wait", "reread"}
      /\ proc[h.pid] = "none" \/ WasForeground(h.pid)
  BY <1>1 DEF FrameInv
<1>3. CASE ~GroupExists(h.pid)
  BY <1>3, EndKeeps DEF KillForeground
<1>4. CASE GroupExists(h.pid)
  <2>1. /\ stack' = Tail(stack) /\ UNCHANGED <<jobVars, life, main, blocked, keys>>
        /\ IF h.sig = "INT" THEN Interrupt(h.pid) ELSE Suspend(h.pid)
    BY <1>4 DEF KillForeground
  <2>2. /\ stack' \in Seq(FrameRecord) /\ Distinct(stack')
        /\ Frames(stack') = Frames(stack) \ {h}
    BY <1>1, <2>1, FramePopped
  <2> HIDE DEF h
  <2>3. /\ proc' \in [Pids -> ProcStates] /\ told' \subseteq Pids
        /\ pending' \subseteq Signals /\ pending \subseteq pending'
        /\ \A q \in Pids :
             \/ proc'[q] = proc[q] /\ (q \in told' <=> q \in told)
             \/ /\ q = h.pid /\ proc[q] = "running" /\ "CHLD" \in pending'
                /\ proc'[q] \in {"killed", "stopped"}
        /\ \A q \in doomed' : q \in doomed \/ (q = h.pid /\ proc[q] = "stopped")
    BY <1>2, <2>1 DEF Types, Interrupt, Suspend, Becomes, ProcStates, Dead, Signals
  <2>4. WasForeground(h.pid)
    BY <1>2, <1>4 DEF GroupExists
  <2>5. Types'
    BY <1>2, <2>1, <2>2, <2>3 DEF Types, ListOK
  <2>6. LoopInv'
    BY <1>1, <1>2, <2>1, <2>3 DEF LoopInv
  <2>7. FrameInv'
    BY <2>1, <2>2, <2>3 DEF FrameInv, WasForeground
  <2>8. ListInv'
    <3>1. \A f \in Frames(stack) : f.at = "reaped" => f \in Frames(stack')
      BY <1>1, <2>2
    <3>2. \A i \in Slots : proc'[jobs[i].pid] = "none" /\ jobs[i].pid \in Pids
                           => proc[jobs[i].pid] = "none"
      BY <2>3
    <3>3. \A q \in Pids : proc[q] = "stopped" => proc'[q] = "stopped"
      BY <2>3
    <3>4. \A q \in doomed' : proc'[q] = "stopped" /\ WasForeground(q)
      BY <1>2, <2>3, <2>4, <3>3 DEF ListInv, Types
    <3> QED
      BY <2>1, <3>1, <3>2, <3>3, <3>4 DEF ListInv, WasForeground
  <2>9. FGInv'
    BY <2>1 DEF FGInv
  <2>10. ReapInv'
    BY <1>1, <2>2, <2>3 DEF ReapInv, Reportable, Dead
  <2> QED
    BY <2>5, <2>6, <2>7, <2>8, <2>9, <2>10
<1> QED
  BY <1>3, <1>4

----------------------------------------------------------------------------
LEMMA ShellInvInit == Init => ShellInv
<1> SUFFICES ASSUME Init PROVE ShellInv
  OBVIOUS
<1>1. /\ main = AtRead /\ AtRead \in MainRecord /\ stack = <<>> /\ Frames(stack) = {}
      /\ \A i \in Slots : jobs[i].pid = 0 /\ jobs[i].state = "UNDEF"
  BY NoFrames DEF Init, initjobs, Cleared, AtRead, MainRecord, States
<1>2. Types
  <2>1. stack \in Seq(FrameRecord) /\ Distinct(stack)
    BY <1>1 DEF Distinct
  <2>2. ListOK
    BY InitjobsListOK DEF Init
  <2>3. keys \in 0..MaxKeys
    BY ShellAssumption DEF Init
  <2>4. /\ life = "up" /\ blocked = FALSE /\ pending = {} /\ told = {} /\ doomed = {}
        /\ proc \in [Pids -> ProcStates]
    BY DEF Init, ProcStates
  <2> QED
    BY <1>1, <2>1, <2>2, <2>3, <2>4 DEF Types
<1>3. LoopInv
  BY <1>1 DEF Init, LoopInv, AtRead
<1>4. FrameInv /\ ListInv /\ FGInv
  BY <1>1, JobTableAssumption DEF Init, FrameInv, ListInv, FGInv
<1>5. ReapInv
  BY DEF Init, ReapInv, Reportable, Dead
<1> QED
  BY <1>2, <1>3, <1>4, <1>5 DEF ShellInv

LEMMA StutterKeeps == ShellInv /\ UNCHANGED vars => ShellInv'
BY DEF vars, ShellInv, Types, LoopInv, FrameInv, ListInv, FGInv, ReapInv, WasForeground,
       Reportable, jobVars, procVars, sigVars, ListOK

LEMMA ShellInvNext == ShellInv /\ [Next]_vars => ShellInv'
<1> SUFFICES ASSUME ShellInv, [Next]_vars PROVE ShellInv'
  OBVIOUS
<1>1. CASE Main
  BY <1>1, ForkKeeps, ForkFailsKeeps, AddjobKeeps, UnblockKeeps, WaitfgKeeps,
     BgfgPidKeeps, BgfgKillKeeps, BgfgStateKeeps, BgfgWaitKeeps DEF Main
<1>2. CASE Handler
  BY <1>2, WaitpidKeeps, WaitpidNoneKeeps, ChildStoppedKeeps, ChildReapedKeeps,
     FindForegroundKeeps, KillForegroundKeeps DEF Handler
<1>3. CASE Command
  BY <1>3, EvalKeeps, BgfgKeeps, EndKeeps DEF Command, Quit
<1> QED
  BY <1>1, <1>2, <1>3, DeliverKeeps, ChildKeeps, KeyKeeps, StutterKeeps DEF Next, Shell

LEMMA ShellInvAlways == Spec => []ShellInv
  BY ShellInvInit, ShellInvNext, PTL DEF Spec, SafeSpec

\* However fg, bg and the handlers interleave, at most one job is in state FG
\* (tsh.c:35, 215-223, 373-379, 414-426).
THEOREM OneForeground == Spec => []AtMostOneFG
<1>1. ShellInv => AtMostOneFG
  <2> SUFFICES ASSUME ShellInv PROVE AtMostOneFG
    OBVIOUS
  <2> DEFINE FG == {i \in Slots : jobs[i].state = "FG"}
  <2>1. FG = {} \/ \E i : FG = {i}
    BY DEF ShellInv, FGInv
  <2> HIDE DEF FG
  <2>2. Cardinality(FG) = 0 \/ Cardinality(FG) = 1
    BY <2>1, FS_EmptySet, FS_Singleton, Zenon
  <2> QED
    BY <2>2 DEF AtMostOneFG, FG
<1> QED
  BY <1>1, ShellInvAlways, PTL

\* A job shown as stopped is stopped, unless fg or bg is restarting it
\* (tsh.c:363-378, 413-416).
THEOREM StoppedAreStopped == Spec => []StoppedJobsAreStopped
<1>1. ShellInv => StoppedJobsAreStopped
  BY DEF ShellInv, ListInv, StoppedJobsAreStopped
<1> QED
  BY <1>1, ShellInvAlways, PTL

\* Signals are not counted, yet no child is left a zombie or its stop unseen
\* once SIGCHLD has been handled (tsh.c:398-429).
THEOREM ChildrenAreReaped == Spec => []EveryChildIsReaped
<1>1. ShellInv => EveryChildIsReaped
  BY DEF ShellInv, ReapInv, EveryChildIsReaped, NoChildSignal, Frames
<1> QED
  BY <1>1, ShellInvAlways, PTL

\* ctrl-c kills no job in the background: whichever step kills a child, its job
\* is in the foreground or has been stopped there (tsh.c:160-163, 436-445).
THEOREM BackgroundSurvives == Spec => BackgroundIsSpared
<1> DEFINE Killed(p) == proc'[p] = "killed" /\ proc[p] # "killed"
           Spared == \A p \in Pids : Killed(p) => jobs[getjobpid(p)].state \in {"FG", "ST"}
<1>1. ASSUME ShellInv, NEW p \in Pids, WasForeground(p)
      PROVE  jobs[getjobpid(p)].state \in {"FG", "ST"}
  <2>1. PICK i \in Slots : jobs[i].pid = p /\ jobs[i].state \in {"FG", "ST"}
    BY <1>1 DEF WasForeground
  <2>2. getjobpid(p) \in Slots /\ jobs[getjobpid(p)].pid = p
    BY <2>1, GetjobpidFinds
  <2>3. getjobpid(p) = i
    BY <1>1, <2>1, <2>2, JobTableAssumption DEF ShellInv, ListInv
  <2> QED
    BY <2>1, <2>3
<1>2. ASSUME ShellInv, Next, NEW p \in Pids, Killed(p) PROVE WasForeground(p)
  <2> USE DEF procVars
  <2>1. proc \in [Pids -> ProcStates]
    BY <1>2 DEF ShellInv, Types
  <2>2. CASE KillForeground
    <3>1. Head(stack).at = "kill" /\ Head(stack) \in Frames(stack)
      BY <1>2, <2>2, TopFrame DEF KillForeground
    <3>2. CASE GroupExists(Head(stack).pid)
      <4>1. Head(stack).pid \in Pids /\ WasForeground(Head(stack).pid)
        BY <1>2, <3>1, <3>2 DEF ShellInv, FrameInv, GroupExists
      <4>2. Interrupt(Head(stack).pid) \/ Suspend(Head(stack).pid)
        BY <2>2, <3>2 DEF KillForeground
      <4>3. p = Head(stack).pid
        BY <1>2, <2>1, <4>1, <4>2 DEF Interrupt, Suspend, Becomes
      <4> QED
        BY <4>1, <4>3
    <3> QED
      BY <1>2, <2>2, <3>2 DEF KillForeground, End
  <2>3. CASE BgfgKill
    <3>1. Resume(main.pid) /\ main.pid # 0
      BY <1>2, <2>3 DEF BgfgKill, End
    <3>2. p = main.pid /\ p \in doomed
      BY <1>2, <2>1, <3>1 DEF Resume, Becomes
    <3> QED
      BY <1>2, <3>2 DEF ShellInv, ListInv
  <2>4. CASE Main /\ ~BgfgKill
    BY <1>2, <2>1, <2>4 DEF Main, Fork, ForkFails, Addjob, Unblock, Waitfg, BgfgPid,
                       BgfgState, BgfgWait
  <2>5. CASE Handler /\ ~KillForeground
    BY <1>2, <2>1, <2>5 DEF Handler, Waitpid, WaitpidNone, ChildStopped, ChildReaped,
                       FindForeground, End
  <2>6. CASE Command
    BY <1>2, <2>6 DEF Command, Quit, Eval, Bgfg, End
  <2>7. CASE \E q \in Pids : Child(q)
    BY <1>2, <2>1, <2>7 DEF Child, Setpgid, Execve, ChildExits, ChildStops, Becomes
  <2>8. CASE \E sig \in {"INT", "TSTP"} : Key(sig)
    BY <1>2, <2>8 DEF Key
  <2>9. CASE \E sig \in Signals : Deliver(sig)
    BY <1>2, <2>9 DEF Deliver
  <2> QED
    BY <1>2, <2>2, <2>3, <2>4, <2>5, <2>6, <2>7, <2>8, <2>9 DEF Next, Shell
<1>3. ShellInv /\ [Next]_vars => [Spared]_vars
  BY <1>1, <1>2
<1> QED
  BY <1>3, ShellInvAlways, PTL DEF BackgroundIsSpared, Spec, SafeSpec

----------------------------------------------------------------------------
(* While there are no more children than slots, the list holds them all. *)

HasJob(p) == \E i \in Slots : jobs[i].pid = p
Held(p) == \E f \in Frames(stack) : f.at = "reaped" /\ f.pid = p
IsChild(p) == proc[p] # "none" \/ Held(p)

ChildrenAreListed ==
  /\ life # "segv"
  /\ \A p \in Pids : IsChild(p) => HasJob(p) \/ (main.at = "add" /\ main.pid = p)

\* What a step must not do to leave the children listed: take a job off the list,
\* or make a child.
LEMMA ListedStays ==
  ASSUME ChildrenAreListed, main.at # "add", life' # "segv",
         \A p \in Pids : HasJob(p) => HasJob(p)',
         \A p \in Pids : IsChild(p)' => IsChild(p)
  PROVE  ChildrenAreListed'
BY DEF ChildrenAreListed

LEMMA LoopLists ==
  ASSUME IsFiniteSet(Pids), Cardinality(Pids) <= MAXJOBS,
         ShellInv, ChildrenAreListed, Main \/ Command
  PROVE  ChildrenAreListed'
<1> USE DEF MainAt, procVars, sigVars, jobVars
<1>1. main \in MainRecord /\ proc \in [Pids -> ProcStates] /\ jobs \in [Slots -> Records]
  BY DEF ShellInv, Types, ListOK
<1>2. ASSUME NEW p \in Pids, Fork(p) PROVE ChildrenAreListed'
  <2>1. /\ main.at = "fork" /\ main'.at = "add" /\ main'.pid = p
        /\ proc' = [proc EXCEPT ![p] = "forked"] /\ UNCHANGED <<jobVars, stack, life>>
    BY <1>1, <1>2 DEF Fork, MainRecord
  <2> QED
    BY <1>1, <2>1 DEF ChildrenAreListed, HasJob, IsChild, Held
<1>3. CASE Addjob
  <2>1. /\ addjob(main.pid, main.state) /\ main.at = "add" /\ main'.at = "unblock"
        /\ main.state \in States /\ UNCHANGED <<life, stack, proc>>
    BY <1>1, <1>3 DEF Addjob, MainRecord
  <2>2. CASE main.pid \notin Pids
    BY <2>1, <2>2 DEF addjob, ChildrenAreListed, HasJob, IsChild, Held
  <2>3. CASE main.pid \in Pids
    <3> DEFINE Others == Pids \ {main.pid}
               pidOf == [i \in Slots |-> jobs[i].pid]
    <3>1. ~ \A i \in Slots : jobs[i].pid # 0
      <4> SUFFICES ASSUME \A i \in Slots : jobs[i].pid # 0 PROVE FALSE
        OBVIOUS
      <4>1. IsFiniteSet(Slots) /\ Cardinality(Slots) = MAXJOBS
        BY FS_Interval, JobTableAssumption DEF Slots
      <4>2. IsFiniteSet(Others) /\ Cardinality(Others) = Cardinality(Pids) - 1
        BY <2>3, FS_RemoveElement
      <4>3. Cardinality(Others) < Cardinality(Slots)
        BY <4>1, <4>2, FS_CardinalityType, JobTableAssumption
      <4>4. pidOf \in [Slots -> Others]
        BY <1>1, <2>1, <2>3 DEF ShellInv, LoopInv, Records
      <4> HIDE DEF Others, pidOf
      <4>5. \E x, y \in Slots : x # y /\ pidOf[x] = pidOf[y]
        BY <4>1, <4>2, <4>3, <4>4, FS_PigeonHole
      <4> QED
        BY <4>5 DEF pidOf, ShellInv, ListInv
    <3>2. PICK i \in Slots :
            /\ jobs[i].pid = 0
            /\ jobs' = [jobs EXCEPT ![i] =
                         [pid |-> main.pid, jid |-> nextjid, state |-> main.state]]
      BY <2>1, <2>3, <3>1, AddjobAdds DEF ShellInv, Types
    <3>3. jobs'[i].pid = main.pid /\ \A j \in Slots \ {i} : jobs'[j] = jobs[j]
      BY <1>1, <3>2
    <3> QED
      BY <2>1, <3>2, <3>3, JobTableAssumption DEF ChildrenAreListed, HasJob, IsChild, Held
  <2> QED
    BY <2>2, <2>3
<1>4. CASE Main /\ ~Addjob /\ \A p \in Pids : ~Fork(p)
  <2>1. main.at # "add" /\ life' # "segv" /\ stack' = stack
    BY <1>4 DEF Main, ForkFails, Unblock, Waitfg, BgfgPid, BgfgKill, BgfgState, BgfgWait, End
  <2>2. \A p \in Pids : proc'[p] # "none" => proc[p] # "none"
    BY <1>1, <1>4 DEF Main, ForkFails, Unblock, Waitfg, BgfgPid, BgfgKill, BgfgState, BgfgWait,
                     End, Resume, Becomes
  <2>3. \A i \in Slots : jobs'[i].pid = jobs[i].pid
    <3>1. CASE BgfgState
      BY <1>1, <3>1 DEF BgfgState, SetState, Records
    <3>2. CASE ~BgfgState
      BY <1>4, <3>2 DEF Main, ForkFails, Unblock, Waitfg, BgfgPid, BgfgKill, BgfgWait, End
    <3> QED
      BY <3>1, <3>2
  <2> QED
    BY <2>1, <2>2, <2>3, ListedStays DEF HasJob, IsChild, Held
<1>5. CASE Command
  <2>1. main.at # "add" /\ life' # "segv" /\ UNCHANGED <<stack, proc, jobs>>
    BY <1>5 DEF Command, Quit, Eval, Bgfg, End
  <2> QED
    BY <2>1, ListedStays DEF HasJob, IsChild, Held
<1> QED
  BY <1>2, <1>3, <1>4, <1>5

LEMMA HandlerLists ==
  ASSUME ShellInv, ChildrenAreListed, Handler PROVE ChildrenAreListed'
<1> DEFINE h == Head(stack)
<1> USE DEF jobVars, procVars
<1>1. /\ proc \in [Pids -> ProcStates] /\ jobs \in [Slots -> Records]
      /\ stack # <<>> /\ h \in Frames(stack) /\ main.at # "add"
      /\ \A f \in Frames(stack) : f = h \/ f.sig # h.sig
  <2>1. \E here : HandlerAt(Signals, here)
    BY DEF Handler, Waitpid, WaitpidNone, ChildStopped, ChildReaped, FindForeground,
           KillForeground, HandlerAt, Signals
  <2> QED
    BY <2>1, TopFrame DEF HandlerAt, ShellInv, Types, ListOK
\* A popped frame, or one that is not of a reaped child, holds no child.
<1>2. ASSUME NEW p \in Pids,
             \/ stack' = Tail(stack)
             \/ \E at \in {"start", "stopped", "kill"}, q \in Pids \cup {0} : Frame(at, q)
             \/ stack' = stack
      PROVE  Held(p)' => Held(p)
  <2>1. CASE stack' = Tail(stack)
    BY <1>1, <2>1, FramePopped DEF Held
  <2>2. ASSUME NEW at \in {"start", "stopped", "kill"}, NEW q \in Pids \cup {0}, Frame(at, q)
        PROVE  Held(p)' => Held(p)
    <3> DEFINE f == [sig |-> h.sig, at |-> at, pid |-> q]
    <3>1. Frames(stack') = (Frames(stack) \ {h}) \cup {f} /\ f.at # "reaped"
      BY <1>1, <2>2, FrameChanged
    <3> HIDE DEF h, f
    <3> QED
      BY <3>1 DEF Held
  <2> QED
    BY <1>2, <2>1, <2>2 DEF Held
<1>3. ASSUME NEW p \in Pids, Waitpid(p) PROVE ChildrenAreListed'
  <2>1. UNCHANGED jobVars /\ life' # "segv" /\ \A q \in Pids : HasJob(q) => HasJob(q)'
    BY <1>3 DEF Waitpid, ChildrenAreListed, HasJob
  <2>2. CASE proc[p] = "stopped"
    <3>1. Frame("stopped", p) /\ proc' = proc
      BY <1>3, <2>2 DEF Waitpid
    <3> QED
      BY <1>1, <1>2, <2>1, <3>1, ListedStays DEF IsChild
  <2>3. CASE proc[p] # "stopped"
    <3> DEFINE f == [sig |-> h.sig, at |-> "reaped", pid |-> p]
    <3>1. Frame("reaped", p) /\ proc' = [proc EXCEPT ![p] = "none"] /\ IsChild(p)
      BY <1>3, <2>3 DEF Waitpid, Reportable, Dead, IsChild
    <3>2. Frames(stack') = (Frames(stack) \ {h}) \cup {f} /\ f.pid = p
      BY <1>1, <3>1, FrameChanged
    <3> HIDE DEF h, f
    <3>3. \A q \in Pids : IsChild(q)' => IsChild(q)
      BY <1>1, <3>1, <3>2 DEF IsChild, Held
    <3> QED
      BY <1>1, <2>1, <3>3, ListedStays
  <2> QED
    BY <2>2, <2>3
<1>4. CASE WaitpidNone \/ FindForeground
  <2>1. UNCHANGED <<jobVars, proc, life>>
    BY <1>4 DEF WaitpidNone, FindForeground
  <2>2. fgpid # 0 => fgpid \in Pids
    BY <1>1, FgpidFinds DEF Records
  <2>3. stack' = Tail(stack) \/ \E q \in Pids \cup {0} : Frame("kill", q)
    BY <1>4, <2>2 DEF WaitpidNone, FindForeground
  <2>4. \A p \in Pids : Held(p)' => Held(p)
    BY <1>2, <2>3
  <2> QED
    BY <1>1, <2>1, <2>4, ListedStays DEF ChildrenAreListed, HasJob, IsChild
<1>5. CASE KillForeground
  <2>1. UNCHANGED jobVars /\ life' # "segv" /\ (stack' = Tail(stack) \/ stack' = stack)
    BY <1>5 DEF KillForeground, End, sigVars, ChildrenAreListed
  <2>2. \A p \in Pids : proc'[p] # "none" => proc[p] # "none"
    BY <1>1, <1>5 DEF KillForeground, End, Interrupt, Suspend, Becomes
  <2>3. \A p \in Pids : Held(p)' => Held(p)
    BY <1>2, <2>1
  <2> QED
    BY <1>1, <2>1, <2>2, <2>3, ListedStays DEF HasJob, IsChild
\* A stopped child is on the list, so that its job is found.
<1>6. CASE ChildStopped
  <2>1. h.pid \in Pids /\ proc[h.pid] = "stopped"
    BY <1>1, <1>6 DEF ChildStopped, HandlerAt, ShellInv, FrameInv
  <2>2. HasJob(h.pid)
    BY <1>1, <2>1 DEF ChildrenAreListed, IsChild
  <2>3. getjobpid(h.pid) \in Slots
    BY <2>2, GetjobpidFinds DEF HasJob
  <2>4. /\ SetState(getjobpid(h.pid), "ST") /\ Frame("start", 0)
        /\ UNCHANGED <<life, procVars>>
    BY <1>6, <2>3, SlotsAreNotNull DEF ChildStopped
  <2>5. \A i \in Slots : jobs'[i].pid = jobs[i].pid
    BY <1>1, <2>3, <2>4 DEF SetState, Records
  <2>6. \A p \in Pids : Held(p)' => Held(p)
    BY <1>2, <2>4
  <2> QED
    BY <1>1, <2>4, <2>5, <2>6, ListedStays DEF ChildrenAreListed, HasJob, IsChild
<1>7. CASE ChildReaped
  <2> DEFINE f == [sig |-> h.sig, at |-> "start", pid |-> 0]
  <2>1. /\ h.at = "reaped" /\ h.sig = "CHLD" /\ h.pid \in Pids /\ proc[h.pid] = "none"
        /\ deletejob(h.pid) /\ Frame("start", 0) /\ UNCHANGED <<life, main, procVars>>
    BY <1>1, <1>7 DEF ChildReaped, HandlerAt, ShellInv, FrameInv
  <2>2. Frames(stack') = (Frames(stack) \ {h}) \cup {f} /\ f.at = "start"
    BY <1>1, <2>1, FrameChanged
  <2> HIDE DEF h, f
  <2>3. \A g \in Frames(stack') : g.at # "reaped"
    <3>1. \A g \in Frames(stack') : g.at = "reaped" => g \in Frames(stack) /\ g # h
      BY <2>2
    <3> QED
      BY <1>1, <2>1, <3>1 DEF ShellInv, FrameInv
  <2>4. \A p \in Pids \ {h.pid} : HasJob(p) => HasJob(p)'
    <3>1. \/ UNCHANGED jobVars
          \/ \E i \in Slots : jobs[i].pid = h.pid /\ jobs' = [jobs EXCEPT ![i] = Cleared]
      BY <2>1, DeletejobDeletes DEF ShellInv, Types
    <3>2. \A i \in Slots : jobs'[i] = jobs[i] \/ jobs[i].pid = h.pid
      BY <1>1, <3>1
    <3> QED
      BY <3>2 DEF HasJob
  <2>5. \A p \in Pids : IsChild(p)' => IsChild(p)
    BY <2>1, <2>2 DEF IsChild, Held
  <2>6. ASSUME NEW p \in Pids, IsChild(p)' PROVE HasJob(p)'
    <3>1. ~ Held(p)'
      BY <2>3 DEF Held
    <3>2. p # h.pid /\ HasJob(p)
      BY <1>1, <2>1, <2>5, <2>6, <3>1 DEF ChildrenAreListed, IsChild
    <3> QED
      BY <2>4, <3>2
  <2> QED
    BY <2>1, <2>6 DEF ChildrenAreListed
<1> QED
  BY <1>3, <1>4, <1>5, <1>6, <1>7 DEF Handler

LEMMA RestLists ==
  ASSUME ShellInv, ChildrenAreListed,
         \/ \E p \in Pids : Child(p)
         \/ \E sig \in Signals : Key(sig) \/ Deliver(sig)
         \/ UNCHANGED vars
  PROVE  ChildrenAreListed'
<1> USE DEF jobVars, procVars, sigVars
<1>1. proc \in [Pids -> ProcStates]
  BY DEF ShellInv, Types
<1>2. CASE \E p \in Pids : Child(p)
  BY <1>1, <1>2 DEF Child, Setpgid, Execve, ChildExits, ChildStops, Becomes,
                  ChildrenAreListed, HasJob, IsChild, Held
<1>3. CASE UNCHANGED vars \/ \E sig \in Signals : Key(sig)
  BY <1>3 DEF vars, Key, ChildrenAreListed, HasJob, IsChild, Held
<1>4. ASSUME NEW sig \in Signals, Deliver(sig) PROVE ChildrenAreListed'
  <2> DEFINE f == [sig |-> sig, at |-> "start", pid |-> 0]
  <2>1. stack \in Seq(FrameRecord) /\ Distinct(stack) /\ f \in FrameRecord
    BY DEF ShellInv, Types, FrameRecord
  <2>2. \A g \in Frames(stack) : g.sig # f.sig
    BY <1>4 DEF Frames, Deliver
  <2>3. Frames(stack') = Frames(stack) \cup {f} /\ f.at = "start"
    BY <1>4, <2>1, <2>2, StackPush DEF Deliver
  <2> HIDE DEF f
  <2>4. \A p \in Pids : Held(p)' <=> Held(p)
    BY <2>3 DEF Held
  <2> QED
    BY <1>4, <2>4 DEF Deliver, ChildrenAreListed, HasJob, IsChild
<1> QED
  BY <1>2, <1>3, <1>4

\* The variables keep their types and, while the list is large enough, it is that
\* of the shell's children, so that the stop branch of sigchld_handler finds its
\* job (tsh.c:165-230, 405-461).
THEOREM ListOfChildren ==
  ASSUME IsFiniteSet(Pids), Cardinality(Pids) <= MAXJOBS
  PROVE  Spec => []ListIsOfChildren
<1>1. Init => ChildrenAreListed
  BY NoFrames DEF Init, ChildrenAreListed, IsChild, Held
<1>2. ShellInv /\ ChildrenAreListed /\ [Next]_vars => ChildrenAreListed'
  BY LoopLists, HandlerLists, RestLists DEF Next, Shell, Signals
<1>3. ShellInv => TypeOK
  <2> SUFFICES ASSUME ShellInv PROVE TypeOK
    OBVIOUS
  <2>1. Len(stack) <= Cardinality(Signals)
    <3> DEFINE sigOf == [k \in 1..Len(stack) |-> stack[k].sig]
    <3>1. Len(stack) \in Nat /\ stack \in Seq(FrameRecord) /\ Distinct(stack)
      BY DEF ShellInv, Types
    <3>2. sigOf \in [1..Len(stack) -> Signals]
      <4>1. \A k \in 1..Len(stack) : stack[k] \in FrameRecord
        BY <3>1
      <4> QED
        BY <4>1 DEF FrameRecord
    <3>3. IsFiniteSet(Signals) /\ Cardinality(Signals) \in Nat
      <4>1. Signals = (({} \cup {"CHLD"}) \cup {"INT"}) \cup {"TSTP"}
        BY DEF Signals
      <4>2. IsFiniteSet(Signals)
        BY <4>1, FS_EmptySet, FS_AddElement
      <4> QED
        BY <4>2, FS_CardinalityType
    <3>4. IsFiniteSet(1..Len(stack)) /\ Cardinality(1..Len(stack)) = Len(stack)
      BY <3>1, FS_Interval
    <3> HIDE DEF sigOf
    <3>5. ~ (Cardinality(Signals) < Cardinality(1..Len(stack)))
      <4>1. \A j, k \in 1..Len(stack) : sigOf[j] = sigOf[k] => j = k
        BY <3>1 DEF sigOf, Distinct
      <4> QED
        BY <3>2, <3>3, <3>4, <4>1, FS_PigeonHole
    <3> QED
      BY <3>1, <3>3, <3>4, <3>5
  <2> QED
    BY <2>1 DEF ShellInv, Types, ListInv, ListOK, Records, MainRecord, FrameRecord,
                TypeOK, JobTypeOK
<1>4. ShellInv /\ ChildrenAreListed => JobsAreChildren /\ JobIsFound
  <2> SUFFICES ASSUME ShellInv, ChildrenAreListed, NEW p \in Pids
               PROVE  (proc[p] # "none" \/ HandlerHas("reaped", p))
                        <=> (getjobpid(p) # NoJob \/ (main.at = "add" /\ main.pid = p))
    BY DEF JobsAreChildren, ChildrenAreListed, JobIsFound
  <2>1. Held(p) <=> HandlerHas("reaped", p)
    BY DEF Held, HandlerHas, Frames
  <2>2. HasJob(p) <=> getjobpid(p) # NoJob
    BY GetjobpidFinds, SlotsAreNotNull DEF HasJob
  <2>3. HasJob(p) => IsChild(p)
    BY DEF ShellInv, ListInv, HasJob, IsChild, Held
  <2>4. main.at = "add" /\ main.pid = p => proc[p] # "none"
    BY DEF ShellInv, LoopInv
  <2> QED
    BY <2>1, <2>2, <2>3, <2>4 DEF ChildrenAreListed, IsChild
<1> QED
  BY <1>1, <1>2, <1>3, <1>4, ShellInvAlways, PTL DEF ListIsOfChildren, Spec, SafeSpec
=============================================================================
