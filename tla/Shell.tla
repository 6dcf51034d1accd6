------------------------------- MODULE Shell -------------------------------
(***************************************************************************)
(* The tiny shell of Lab 2 (Lab/lab2/shlab/tsh.c): the read/eval loop, the *)
(* builtins fg and bg, and the handlers of SIGCHLD, SIGINT and SIGTSTP,    *)
(* which may interrupt the loop, and one another, between any two steps    *)
(* unless their signal is blocked.  Children are single processes.  The    *)
(* keyboard's signals reach the shell alone, as sdriver.pl sends them.     *)
(***************************************************************************)
EXTENDS JobTable, Sequences

CONSTANT
  MaxKeys        \* bound: keystrokes ctrl-c and ctrl-z

ASSUME ShellAssumption == MaxKeys \in Nat

VARIABLES
  life,      \* "up", or how the shell ended
  main,      \* the read/eval loop: where it is, and its locals
  blocked,   \* whether SIGCHLD, SIGINT and SIGTSTP are blocked (eval only)
  pending,   \* the shell's pending signals
  stack,     \* frames of the running handlers, the innermost first
  proc,      \* what each process ID is
  told,      \* stopped children whose stop waitpid has reported
  doomed,    \* stopped children with SIGINT pending
  keys       \* keystrokes so far

procVars == <<proc, told, doomed>>
sigVars == <<pending, stack>>
vars == <<jobVars, life, main, blocked, sigVars, procVars, keys>>

Signals == {"CHLD", "INT", "TSTP"}
\* "forked" is still in the shell's process group, "grouped" has its own group
\* but still the shell's program, with the shell's handlers.
Dead == {"exited", "killed"}
ProcStates == {"none", "forked", "grouped", "running", "stopped"} \cup Dead

AtRead == [at |-> "read", pid |-> 0, slot |-> NoJob, state |-> "UNDEF"]

Init ==
  /\ initjobs
  /\ life = "up"
  /\ main = AtRead
  /\ blocked = FALSE
  /\ pending = {}
  /\ stack = <<>>
  /\ proc = [p \in Pids |-> "none"]
  /\ told = {}
  /\ doomed = {}
  /\ keys = 0

End(how) ==
  /\ life' = how
  /\ UNCHANGED <<jobVars, main, blocked, sigVars, procVars, keys>>

----------------------------------------------------------------------------
(* The kernel: processes and signals. *)

\* The child tells its parent of a change.
Becomes(p, state) ==
  /\ proc' = [proc EXCEPT ![p] = state]
  /\ pending' = pending \cup {"CHLD"}

Setpgid(p) ==
  /\ life = "up"
  /\ proc[p] = "forked"
  /\ proc' = [proc EXCEPT ![p] = "grouped"]
  /\ UNCHANGED <<jobVars, life, main, blocked, sigVars, told, doomed, keys>>

Execve(p) ==
  /\ life = "up"
  /\ proc[p] = "grouped"
  /\ proc' = [proc EXCEPT ![p] = "running"]
  /\ UNCHANGED <<jobVars, life, main, blocked, sigVars, told, doomed, keys>>

\* The program ends by itself, or was not found.
ChildExits(p) ==
  /\ life = "up"
  /\ proc[p] \in {"grouped", "running"}
  /\ Becomes(p, "exited")
  /\ UNCHANGED <<jobVars, life, main, blocked, stack, told, doomed, keys>>

\* The program stops itself, as mystop.c does.
ChildStops(p) ==
  /\ life = "up"
  /\ proc[p] = "running"
  /\ Becomes(p, "stopped")
  /\ told' = told \ {p}
  /\ UNCHANGED <<jobVars, life, main, blocked, stack, doomed, keys>>

Child(p) == Setpgid(p) \/ Execve(p) \/ ChildExits(p) \/ ChildStops(p)

\* kill(-p, ...) fails when no process is in group p.
GroupExists(p) == proc[p] \notin {"none", "forked"}

\* The effect of a signal on the group of child p.  A child that has not
\* called execve yet has the shell's handlers, which find no job of theirs.
Interrupt(p) ==
  /\ IF proc[p] = "running" THEN Becomes(p, "killed") ELSE UNCHANGED <<proc, pending>>
  /\ doomed' = IF proc[p] = "stopped" THEN doomed \cup {p} ELSE doomed
  /\ UNCHANGED told

Suspend(p) ==
  /\ IF proc[p] = "running" THEN Becomes(p, "stopped") ELSE UNCHANGED <<proc, pending>>
  /\ told' = IF proc[p] = "running" THEN told \ {p} ELSE told
  /\ UNCHANGED doomed

Resume(p) ==
  /\ IF proc[p] = "stopped"
     THEN Becomes(p, IF p \in doomed THEN "killed" ELSE "running")
     ELSE UNCHANGED <<proc, pending>>
  /\ doomed' = doomed \ {p}
  /\ UNCHANGED told

\* ctrl-c or ctrl-z.
Key(sig) ==
  /\ life = "up"
  /\ keys < MaxKeys
  /\ keys' = keys + 1
  /\ pending' = pending \cup {sig}
  /\ UNCHANGED <<jobVars, life, main, blocked, stack, procVars>>

----------------------------------------------------------------------------
(* The read/eval loop: it runs when no handler does. *)

MainAt(here) == life = "up" /\ stack = <<>> /\ main.at = here

\* (a bug to catch) the signals are not blocked before the fork
EvalUnblocked(state) ==
  /\ MainAt("read")
  /\ nextjid <= MaxJid
  /\ main' = [main EXCEPT !.at = "fork", !.state = state]
  /\ UNCHANGED <<jobVars, life, blocked, sigVars, procVars, keys>>

\* A command line that runs a program, in state FG or BG.
Eval(state) ==
  /\ MainAt("read")
  /\ nextjid <= MaxJid
  /\ main' = [main EXCEPT !.at = "fork", !.state = state]
  /\ blocked' = TRUE
  /\ UNCHANGED <<jobVars, life, sigVars, procVars, keys>>

Fork(p) ==
  /\ MainAt("fork")
  /\ proc[p] = "none"
  /\ proc' = [proc EXCEPT ![p] = "forked"]
  /\ main' = [main EXCEPT !.at = "add", !.pid = p]
  /\ UNCHANGED <<jobVars, life, blocked, sigVars, told, doomed, keys>>

\* The -1 of a fork that fails is taken for a process ID.
ForkFails ==
  /\ MainAt("fork")
  /\ main' = [main EXCEPT !.at = "add", !.pid = -1]
  /\ UNCHANGED <<jobVars, life, blocked, sigVars, procVars, keys>>

Addjob ==
  /\ MainAt("add")
  /\ addjob(main.pid, main.state)
  /\ main' = [main EXCEPT !.at = "unblock"]
  /\ UNCHANGED <<life, blocked, sigVars, procVars, keys>>

Unblock ==
  /\ MainAt("unblock")
  /\ blocked' = FALSE
  /\ main' = IF main.state = "FG" THEN [main EXCEPT !.at = "wait"] ELSE AtRead
  /\ UNCHANGED <<jobVars, life, sigVars, procVars, keys>>

\* (a bug to catch) waitfg returns at once
WaitfgAtOnce ==
  /\ MainAt("wait")
  /\ main' = AtRead
  /\ UNCHANGED <<jobVars, life, blocked, sigVars, procVars, keys>>

\* waitfg returns; until then it only sleeps and looks again.
Waitfg ==
  /\ MainAt("wait")
  /\ main.pid # fgpid
  /\ main' = AtRead
  /\ UNCHANGED <<jobVars, life, blocked, sigVars, procVars, keys>>

\* The builtin fg (state FG) or bg (state BG), its job named by jid or by pid.
\* An argument that names no job changes nothing.
Bgfg(state) ==
  /\ MainAt("read")
  /\ \E i \in {getjobjid(j) : j \in 1..maxjid(jobs)} \cup {getjobpid(p) : p \in Pids} :
       /\ i # NoJob
       /\ main' = [main EXCEPT !.at = "getpid", !.slot = i, !.state = state]
  /\ UNCHANGED <<jobVars, life, blocked, sigVars, procVars, keys>>

BgfgPid ==
  /\ MainAt("getpid")
  /\ main' = [main EXCEPT !.at = "kill", !.pid = jobs[main.slot].pid]
  /\ UNCHANGED <<jobVars, life, blocked, sigVars, procVars, keys>>

\* A slot cleared meanwhile has pid 0: kill(-0, SIGCONT) signals the shell's
\* own group, where nothing is stopped.
BgfgKill ==
  /\ MainAt("kill")
  /\ IF main.pid # 0 /\ ~GroupExists(main.pid)
     THEN End("error")
     ELSE /\ IF main.pid = 0 THEN UNCHANGED <<procVars, pending>> ELSE Resume(main.pid)
          /\ main' = [main EXCEPT !.at = "set"]
          /\ UNCHANGED <<jobVars, life, blocked, stack, keys>>

BgfgState ==
  /\ MainAt("set")
  /\ SetState(main.slot, main.state)
  /\ main' = IF main.state = "FG" THEN [main EXCEPT !.at = "reread"] ELSE AtRead
  /\ UNCHANGED <<life, blocked, sigVars, procVars, keys>>

BgfgWait ==
  /\ MainAt("reread")
  /\ main' = [main EXCEPT !.at = "wait", !.pid = jobs[main.slot].pid]
  /\ UNCHANGED <<jobVars, life, blocked, sigVars, procVars, keys>>

\* quit, or the end of the input.
Quit == MainAt("read") /\ End("quit")

Command == Quit \/ \E state \in {"FG", "BG"} : Eval(state) \/ Bgfg(state)

Main ==
  \/ \E p \in Pids : Fork(p)
  \/ ForkFails \/ Addjob \/ Unblock \/ Waitfg
  \/ BgfgPid \/ BgfgKill \/ BgfgState \/ BgfgWait

----------------------------------------------------------------------------
(* The handlers. *)

\* A handler runs with its own signal blocked, the others may interrupt it.
Deliver(sig) ==
  /\ life = "up"
  /\ sig \in pending
  /\ ~blocked
  /\ \A k \in 1..Len(stack) : stack[k].sig # sig
  /\ pending' = pending \ {sig}
  /\ stack' = <<[sig |-> sig, at |-> "start", pid |-> 0]>> \o stack
  /\ UNCHANGED <<jobVars, life, main, blocked, procVars, keys>>

HandlerAt(sigs, here) ==
  /\ life = "up"
  /\ stack # <<>>
  /\ Head(stack).sig \in sigs
  /\ Head(stack).at = here

Frame(here, p) == stack' = <<[Head(stack) EXCEPT !.at = here, !.pid = p]>> \o Tail(stack)

\* (a bug to catch) waitpid without WUNTRACED
ReportableTerminated(p) == proc[p] \in Dead

Reportable(p) == proc[p] \in Dead \/ (proc[p] = "stopped" /\ p \notin told)

\* waitpid reaps a child, or reports that it has stopped.
Waitpid(p) ==
  /\ HandlerAt({"CHLD"}, "start")
  /\ Reportable(p)
  /\ IF proc[p] = "stopped"
     THEN told' = told \cup {p} /\ UNCHANGED proc /\ Frame("stopped", p)
     ELSE /\ proc' = [proc EXCEPT ![p] = "none"]
          /\ UNCHANGED told
          /\ Frame("reaped", p)
  /\ UNCHANGED <<jobVars, life, main, blocked, pending, doomed, keys>>

WaitpidNone ==
  /\ HandlerAt({"CHLD"}, "start")
  /\ \A p \in Pids : ~Reportable(p)
  /\ stack' = Tail(stack)
  /\ UNCHANGED <<jobVars, life, main, blocked, pending, procVars, keys>>

\* The job found for a stopped child is used without a look: a null pointer
\* ends the shell.
ChildStopped ==
  /\ HandlerAt({"CHLD"}, "stopped")
  /\ LET i == getjobpid(Head(stack).pid)
     IN  IF i = NoJob
         THEN End("segv")
         ELSE /\ SetState(i, "ST")
              /\ Frame("start", 0)
              /\ UNCHANGED <<life, main, blocked, pending, procVars, keys>>

\* (a bug to catch) a terminated child is taken for a stopped one
ChildReapedStopped ==
  /\ HandlerAt({"CHLD"}, "reaped")
  /\ IF getjobpid(Head(stack).pid) = NoJob
     THEN UNCHANGED jobVars
     ELSE SetState(getjobpid(Head(stack).pid), "ST")
  /\ Frame("start", 0)
  /\ UNCHANGED <<life, main, blocked, pending, procVars, keys>>

\* (a bug to catch) one child per signal
ChildReapedOnce ==
  /\ HandlerAt({"CHLD"}, "reaped")
  /\ deletejob(Head(stack).pid)
  /\ stack' = Tail(stack)
  /\ UNCHANGED <<life, main, blocked, pending, procVars, keys>>

ChildReaped ==
  /\ HandlerAt({"CHLD"}, "reaped")
  /\ deletejob(Head(stack).pid)
  /\ Frame("start", 0)
  /\ UNCHANGED <<life, main, blocked, pending, procVars, keys>>

\* sigint_handler and sigtstp_handler look for the foreground job ...
FindForeground ==
  /\ HandlerAt({"INT", "TSTP"}, "start")
  /\ IF fgpid = 0 THEN stack' = Tail(stack) ELSE Frame("kill", fgpid)
  /\ UNCHANGED <<jobVars, life, main, blocked, pending, procVars, keys>>

\* ... and send the signal along.
KillForeground ==
  /\ HandlerAt({"INT", "TSTP"}, "kill")
  /\ LET p == Head(stack).pid
     IN  IF ~GroupExists(p)
         THEN End("error")
         ELSE /\ IF Head(stack).sig = "INT" THEN Interrupt(p) ELSE Suspend(p)
              /\ stack' = Tail(stack)
              /\ UNCHANGED <<jobVars, life, main, blocked, keys>>

Handler ==
  \/ \E p \in Pids : Waitpid(p)
  \/ WaitpidNone \/ ChildStopped \/ ChildReaped
  \/ FindForeground \/ KillForeground

----------------------------------------------------------------------------
\* What the shell does by itself.
Shell == Main \/ Handler \/ \E sig \in Signals : Deliver(sig)

Next ==
  \/ Shell
  \/ Command
  \/ \E p \in Pids : Child(p)
  \/ \E sig \in {"INT", "TSTP"} : Key(sig)

\* The shell is scheduled; its user and its children need never do anything.
Fairness == WF_vars(Shell)

SafeSpec == Init /\ [][Next]_vars
Spec == SafeSpec /\ Fairness

----------------------------------------------------------------------------
(* Properties *)

TypeOK ==
  /\ JobTypeOK
  /\ life \in {"up", "quit", "error", "segv"}
  /\ main \in [at : {"read", "fork", "add", "unblock", "wait", "getpid", "kill",
                     "set", "reread"},
               pid : Pids \cup {0, -1}, slot : Slots \cup {NoJob}, state : States]
  /\ blocked \in BOOLEAN
  /\ pending \subseteq Signals
  /\ stack \in Seq([sig : Signals, at : {"start", "reaped", "stopped", "kill"},
                    pid : Pids \cup {0}])
  /\ Len(stack) <= Cardinality(Signals)
  /\ proc \in [Pids -> ProcStates]
  /\ told \subseteq Pids
  /\ doomed \subseteq {p \in Pids : proc[p] = "stopped"}
  /\ keys \in 0..MaxKeys

\* "At most 1 job can be in the FG state" (tsh.c:35), whatever fg and the
\* handlers do (tsh.c:215-223, 373-379, 414-426).
AtMostOneFG == Cardinality({i \in Slots : jobs[i].state = "FG"}) <= 1

HandlerHas(here, p) ==
  \E k \in 1..Len(stack) : stack[k].at = here /\ stack[k].pid = p

\* The list is that of the shell's children: a job is added before its child
\* can be reaped and is deleted when it has been (tsh.c:191-230, 411-427).
JobsAreChildren ==
  \A p \in Pids :
    (proc[p] # "none" \/ HandlerHas("reaped", p))
      <=> (getjobpid(p) # NoJob \/ (main.at = "add" /\ main.pid = p))

\* A job shown as stopped is stopped, unless fg or bg is restarting it
\* (tsh.c:363-378, 413-416).
StoppedJobsAreStopped ==
  \A i \in Slots :
    jobs[i].state = "ST" /\ ~(main.at = "set" /\ main.slot = i)
      => proc[jobs[i].pid] = "stopped"

NoChildSignal == "CHLD" \notin pending /\ \A k \in 1..Len(stack) : stack[k].sig # "CHLD"

\* Signals are not counted, yet no child is left a zombie or its stop unseen
\* once SIGCHLD has been handled (tsh.c:398-429).
EveryChildIsReaped == NoChildSignal => \A p \in Pids : ~Reportable(p)

\* The stop branch of sigchld_handler always finds its job, while the list is
\* large enough (tsh.c:414-415).
JobIsFound == life # "segv"

\* The variables keep their types and the list is that of the children, so
\* that the handlers find what they look for (tsh.c:165-230, 405-461).
ListIsOfChildren == TypeOK /\ JobsAreChildren /\ JobIsFound

\* ctrl-c kills no job in the background, not even one sent along late
\* (tsh.c:160-163, 436-445).
BackgroundIsSpared ==
  [][\A p \in Pids :
       proc'[p] = "killed" /\ proc[p] # "killed"
         => jobs[getjobpid(p)].state \in {"FG", "ST"}]_vars

Over(p) == proc[p] \in Dead \cup {"stopped"}

\* eval and fg return from waitfg once the child they wait for has ended, and
\* eval once it has stopped (tsh.c:223, 379, 386-392, 405-429).  fg may wait
\* for ever otherwise: for process 0, if the handler deleted the job before
\* line 379 read its pid, or for a job that stopped before line 378 wrote FG.
ForegroundReturns ==
  \A p \in Pids :
    (/\ main.at = "wait" /\ main.pid = p
     /\ proc[p] \in Dead \/ (proc[p] = "stopped" /\ main.slot = NoJob))
      ~> (main.at # "wait" \/ life # "up")

=============================================================================
