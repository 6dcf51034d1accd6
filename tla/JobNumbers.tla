----------------------------- MODULE JobNumbers -----------------------------
(***************************************************************************)
(* The job IDs that the list of tsh.c gives out when jobs come and go in   *)
(* any order.  The state of a job plays no part: all are BG.               *)
(***************************************************************************)
EXTENDS JobTable

VARIABLE wrapped                 \* history: nextjid has gone back to 1

numberVars == <<jobVars, wrapped>>

NumbersInit == initjobs /\ wrapped = FALSE

\* A child is added, or is not because the list is full.
Add(p) ==
  /\ nextjid <= MaxJid
  /\ getjobpid(p) = NoJob
  /\ addjob(p, "BG")
  /\ wrapped' = (wrapped \/ nextjid' = 1)

\* A child of the list, or one that was not recorded, ends.
Delete(p) ==
  /\ deletejob(p)
  /\ UNCHANGED wrapped

NumbersNext == \E p \in Pids : Add(p) \/ Delete(p)

NumbersSpec == NumbersInit /\ [][NumbersNext]_numberVars

----------------------------------------------------------------------------
Live == {i \in Slots : jobs[i].pid # 0}

NumbersTypeOK ==
  /\ JobTypeOK
  /\ wrapped \in BOOLEAN
  /\ \A i \in Slots : jobs[i].pid = 0 => jobs[i] = Cleared

JidsAreDistinct == \A i, j \in Live : jobs[i].jid = jobs[j].jid => i = j

\* No two jobs share a job ID, and the next one is free, until the counter
\* wraps, whatever is deleted (tsh.c:510-512, 535).
JidsAreDistinctUntilWrapped ==
  ~wrapped => JidsAreDistinct /\ \A i \in Live : jobs[i].jid < nextjid

\* After a deletion the next job ID is free again, wrapped or not
\* (tsh.c:534-535).
DeletingFreesTheNext ==
  [][Cardinality(Live') < Cardinality(Live) => \A i \in Live' : jobs'[i].jid # nextjid']_numberVars

=============================================================================
