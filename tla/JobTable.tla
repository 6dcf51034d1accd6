------------------------------ MODULE JobTable ------------------------------
(***************************************************************************)
(* The job list of the tiny shell: the array jobs and the counter nextjid  *)
(* of tsh.c with the routines that read and change them.  The shell's      *)
(* actions are built from these; each runs to its end as far as other code *)
(* can tell (the signals whose handlers use the list are blocked, or their *)
(* handler cannot run, whenever a routine is half done and it matters).    *)
(***************************************************************************)
EXTENDS Integers, FiniteSets

CONSTANTS
  MAXJOBS,       \* slots of the array
  Pids,          \* process IDs that fork may return
  MaxJid         \* bound: no job is added once nextjid is past it

ASSUME JobTableAssumption ==
  MAXJOBS \in Nat \ {0} /\ 0 \notin Pids /\ -1 \notin Pids /\ MaxJid \in Nat

VARIABLES jobs, nextjid

jobVars == <<jobs, nextjid>>

Slots == 1..MAXJOBS
NoJob == 0                       \* the null pointer to a slot
States == {"UNDEF", "FG", "BG", "ST"}
Cleared == [pid |-> 0, jid |-> 0, state |-> "UNDEF"]

JobTypeOK ==
  /\ jobs \in [Slots -> [pid : Pids \cup {0}, jid : Nat, state : States]]
  /\ nextjid \in Nat \ {0}

initjobs ==
  /\ jobs = [i \in Slots |-> Cleared]
  /\ nextjid = 1

\* The first of a set of slots, as the loops over the array find it.
FirstOf(S) ==
  IF S = {} THEN NoJob ELSE CHOOSE i \in S : \A j \in S : i <= j

getjobpid(pid) == FirstOf({i \in Slots : jobs[i].pid = pid})

getjobjid(jid) == FirstOf({i \in Slots : jobs[i].jid = jid})

\* (a bug to catch) any live job will do
fgpidAny ==
  LET i == FirstOf({j \in Slots : jobs[j].state # "UNDEF"})
  IN  IF i = NoJob THEN 0 ELSE jobs[i].pid

fgpid ==
  LET i == FirstOf({j \in Slots : jobs[j].state = "FG"})
  IN  IF i = NoJob THEN 0 ELSE jobs[i].pid

\* The largest jid of a list, 0 when it is empty.
maxjid(list) ==
  CHOOSE m \in {list[i].jid : i \in Slots} : \A i \in Slots : list[i].jid <= m

\* The list is full: the message is printed and the process is not recorded.
addjob(pid, state) ==
  LET i == FirstOf({j \in Slots : jobs[j].pid = 0})
  IN  IF pid \notin Pids \/ i = NoJob
      THEN UNCHANGED jobVars
      ELSE /\ jobs' = [jobs EXCEPT ![i] = [pid |-> pid, jid |-> nextjid, state |-> state]]
           /\ nextjid' = IF nextjid + 1 > MAXJOBS THEN 1 ELSE nextjid + 1

\* (a bug to catch) the next jid is left as it was
deletejobKeepsNext(pid) ==
  /\ jobs' = [i \in Slots |-> IF i = getjobpid(pid) THEN Cleared ELSE jobs[i]]
  /\ UNCHANGED nextjid

\* (a bug to catch) the next jid counts the jobs
deletejobCounts(pid) ==
  /\ jobs' = [i \in Slots |-> IF i = getjobpid(pid) THEN Cleared ELSE jobs[i]]
  /\ nextjid' = Cardinality({i \in Slots : jobs'[i].pid # 0}) + 1

deletejob(pid) ==
  IF getjobpid(pid) = NoJob
  THEN UNCHANGED jobVars
  ELSE /\ jobs' = [jobs EXCEPT ![getjobpid(pid)] = Cleared]
       /\ nextjid' = maxjid(jobs') + 1

SetState(i, state) ==
  /\ jobs' = [jobs EXCEPT ![i].state = state]
  /\ UNCHANGED nextjid
=============================================================================
