--------------------------------- MODULE Ptree ---------------------------------
(***************************************************************************)
(* The ptree module of lab 4 (dbfs_ptree.c): writing a process ID to       *)
(* debugfs's ptree/input fills the blob ptree/ptree with the line of each  *)
(* process from init down to that one.  curr and data are variables of the *)
(* module, shared by all who write at once, with no lock.                  *)
(*                                                                         *)
(* A process is its ID, a line of the blob too.  At every access the       *)
(* compiled code may load the shared curr again or use the value it still  *)
(* has in a register (Seen).                                               *)
(***************************************************************************)
EXTENDS Integers, Sequences

CONSTANTS Callers,
          Parent,       \* pid |-> pid, of the processes there are
          Mm,           \* pid |-> page table, or NULL for a kernel thread
          Pids,         \* process IDs callers ask for
          DataSize,     \* lines that fit data
          NULL

ASSUME PtreeAssumption ==
  /\ 1 \in DOMAIN Parent /\ DOMAIN Mm = DOMAIN Parent
  /\ Parent \in [DOMAIN Parent -> DOMAIN Parent]
  /\ NULL \notin DOMAIN Parent \cup Nat
  /\ DataSize \in Nat

VARIABLES mod,          \* how far dbfs_module_init or _exit has come
          input,        \* the file ptree/input is there
          allocated,    \* data and blob are
          curr, data,
          wpc,          \* where each caller is in write_pid_to_input
          pid,          \* input_pid
          reg,          \* the caller's own copy of curr
          temp,         \* temp_buffer
          alone,        \* no other call has overlapped the caller's
          shown,        \* the process whose tree data should be, if any
          crash         \* what went wrong in the kernel

ptreevars == <<mod, input, allocated, curr, data, wpc, pid, reg, temp, alone,
               shown, crash>>
modvars == <<mod, input, allocated>>

(* pid_task(find_get_pid(p), PIDTYPE_PID); the idle process is not found.  *)
Task(p) == IF p \in DOMAIN Parent \ {0} THEN p ELSE NULL

PtreeInit ==
  /\ mod = "unloaded" /\ input = FALSE /\ allocated = FALSE
  /\ curr = NULL /\ data = << >>
  /\ wpc = [c \in Callers |-> "idle"]
  /\ pid = [c \in Callers |-> NULL] /\ reg = [c \in Callers |-> NULL]
  /\ temp = [c \in Callers |-> << >>] /\ alone = [c \in Callers |-> TRUE]
  /\ shown = NULL /\ crash = "none"

-------------------------------------------------------------------------------
(* dbfs_module_init and dbfs_module_exit                                   *)

callvars == <<curr, data, wpc, pid, reg, temp, alone, shown, crash>>

(* One call of the initialisation; those that may fail leave what the      *)
(* earlier ones have made.                                                 *)
CreateDir ==
  /\ mod = "unloaded" /\ mod' \in {"dir", "failed"}
  /\ UNCHANGED <<input, allocated, callvars>>

CreateInput ==
  /\ mod = "dir"
  /\ \/ mod' = "input" /\ input' = TRUE
     \/ mod' = "failed" /\ UNCHANGED input
  /\ UNCHANGED <<allocated, callvars>>

Kmalloc ==
  /\ mod = "input" /\ mod' = "alloc" /\ allocated' = TRUE
  /\ UNCHANGED <<input, callvars>>

CreateBlob ==
  /\ mod = "alloc" /\ mod' \in {"loaded", "failed"}
  /\ UNCHANGED <<input, allocated, callvars>>

(* debugfs_remove_recursive waits for the calls in progress.               *)
RemoveFiles ==
  /\ mod = "loaded" /\ \A c \in Callers : wpc[c] = "idle"
  /\ mod' = "removed" /\ input' = FALSE
  /\ UNCHANGED <<allocated, callvars>>

Kfree ==
  /\ mod = "removed" /\ mod' = "unloaded again"
  /\ allocated' = FALSE
  /\ UNCHANGED <<input, callvars>>

Module == CreateDir \/ CreateInput \/ Kmalloc \/ CreateBlob \/ RemoveFiles \/ Kfree

-------------------------------------------------------------------------------
(* write_pid_to_input                                                      *)

Seen(c) == {curr, reg[c]}

At(c, here) == wpc[c] = here
Goto(c, there) == wpc' = [wpc EXCEPT ![c] = there]

(* The call returns: with its length, after the loop.                      *)
Done(c) ==
  /\ Goto(c, "idle") /\ reg' = [reg EXCEPT ![c] = NULL]
  /\ shown' = IF alone[c] THEN pid[c] ELSE NULL

Crashes(what) ==
  /\ crash' = what
  /\ UNCHANGED <<modvars, curr, data, wpc, pid, reg, temp, alone, shown>>

(* sscanf and pid_task.  In a module whose initialisation has failed the   *)
(* code itself is gone.                                                    *)
WritePid(c, p) ==
  /\ At(c, "idle") /\ input /\ mod # "failed"
  /\ pid' = [pid EXCEPT ![c] = p]
  /\ curr' = Task(p) /\ reg' = [reg EXCEPT ![c] = Task(p)]
  /\ Goto(c, "found")
  /\ LET others == {d \in Callers \ {c} : wpc[d] # "idle"}
     IN  alone' = [d \in Callers |->
                     IF d = c THEN others = {} ELSE alone[d] /\ d \notin others]
  /\ UNCHANGED <<modvars, data, temp, shown, crash>>

WriteToNothing(c) ==
  /\ At(c, "idle") /\ input /\ mod = "failed"
  /\ Crashes("no module")

Refuse(c) ==
  /\ At(c, "found") /\ NULL \in Seen(c)
  /\ Goto(c, "idle") /\ reg' = [reg EXCEPT ![c] = NULL]
  /\ UNCHANGED <<modvars, curr, data, pid, temp, alone, shown, crash>>

\* (a bug to catch) an unknown process is noticed only by the loop.
FoundUnchecked(c) ==
  /\ At(c, "found")
  /\ Goto(c, "memset")
  /\ UNCHANGED <<modvars, curr, data, pid, reg, temp, alone, shown, crash>>

Found(c) ==
  /\ At(c, "found")
  /\ \E t \in Seen(c) \ {NULL} : reg' = [reg EXCEPT ![c] = t]
  /\ Goto(c, "memset")
  /\ UNCHANGED <<modvars, curr, data, pid, temp, alone, shown, crash>>

Memset(c) ==
  /\ At(c, "memset")
  /\ IF allocated
       THEN /\ data' = << >> /\ Goto(c, "while")
            /\ UNCHANGED <<modvars, curr, pid, reg, temp, alone, shown, crash>>
       ELSE Crashes("no data")

While(c) ==
  /\ At(c, "while")
  /\ \E t \in Seen(c) :
       IF t = NULL THEN Done(c)
       ELSE /\ Goto(c, "sprintf") /\ reg' = [reg EXCEPT ![c] = t]
            /\ UNCHANGED shown
  /\ UNCHANGED <<modvars, curr, data, pid, temp, alone, crash>>

(* What t points to is read.                                               *)
Sprintf(c) ==
  /\ At(c, "sprintf")
  /\ \E t \in Seen(c) :
       IF t = NULL THEN Crashes("null curr")
       ELSE /\ temp' = [temp EXCEPT ![c] = <<t>>]
            /\ reg' = [reg EXCEPT ![c] = t]
            /\ Goto(c, "strcat")
            /\ UNCHANGED <<modvars, curr, data, pid, alone, shown, crash>>

Strcat(c) ==
  /\ At(c, "strcat")
  /\ IF Len(data) < DataSize
       THEN /\ temp' = [temp EXCEPT ![c] = @ \o data] /\ Goto(c, "strcpy")
            /\ UNCHANGED <<modvars, curr, data, pid, reg, alone, shown, crash>>
       ELSE Crashes("overrun")

Strcpy(c) ==
  /\ At(c, "strcpy")
  /\ data' = temp[c] /\ temp' = [temp EXCEPT ![c] = << >>]
  /\ Goto(c, "pid")
  /\ UNCHANGED <<modvars, curr, pid, reg, alone, shown, crash>>

\* (a bug to catch) the walk goes on past init.
IsInitNever(c) ==
  /\ At(c, "pid")
  /\ \E t \in Seen(c) :
       IF t = NULL THEN Crashes("null curr")
       ELSE /\ Goto(c, "parent") /\ reg' = [reg EXCEPT ![c] = t]
            /\ UNCHANGED <<modvars, curr, data, pid, temp, alone, shown, crash>>

IsInit(c) ==
  /\ At(c, "pid")
  /\ \E t \in Seen(c) :
       IF t = NULL THEN Crashes("null curr")
       ELSE /\ IF t = 1 THEN Done(c)
               ELSE /\ Goto(c, "parent") /\ reg' = [reg EXCEPT ![c] = t]
                    /\ UNCHANGED shown
            /\ UNCHANGED <<modvars, curr, data, pid, temp, alone, crash>>

ToParent(c) ==
  /\ At(c, "parent")
  /\ \E t \in Seen(c) :
       IF t = NULL THEN Crashes("null curr")
       ELSE /\ curr' = Parent[t] /\ reg' = [reg EXCEPT ![c] = Parent[t]]
            /\ Goto(c, "while")
            /\ UNCHANGED <<modvars, data, pid, temp, alone, shown, crash>>

Write(c) ==
  \/ Refuse(c) \/ Found(c) \/ Memset(c) \/ While(c) \/ Sprintf(c) \/ Strcat(c)
  \/ Strcpy(c) \/ IsInit(c) \/ ToParent(c)

-------------------------------------------------------------------------------
Writing == {c \in Callers : wpc[c] # "idle"}

(* The lines from init to p                                                *)
IsTreeOf(lines, p) ==
  /\ lines # << >> /\ lines[1] = 1 /\ lines[Len(lines)] = p
  /\ \A n \in 1 .. Len(lines) - 1 : lines[n] = Parent[lines[n + 1]]

\* While nobody is writing, data is the tree of the process written last, if
\* that write overlapped no other; a write that is refused leaves it alone
\* (dbfs_ptree.c:33-59).
QuietDataIsATree ==
  mod = "loaded" /\ Writing = {} /\ shown # NULL => IsTreeOf(data, shown)

(* The tree of p has no more lines than data has room for; that of a       *)
(* kernel thread does not exist: its ancestors lead to process 0.          *)
Fits(p) ==
  \E k \in 1 .. DataSize : \E lines \in [1 .. k -> DOMAIN Parent] : IsTreeOf(lines, p)

KernelThreads == {p \in DOMAIN Parent : Mm[p] = NULL}

\* What can go wrong in the kernel does so only for these reasons: somebody's
\* unknown process made curr NULL during a write that overlapped; the tree of
\* the process written does not fit, or writes overlapped, so that the walk
\* went past init; the file was written to before data was there
\* (dbfs_ptree.c:85-91), or after the initialisation had failed
\* (dbfs_ptree.c:103-106).
CrashesHaveCauses ==
  /\ crash = "null curr" =>
       \E c \in Writing : ~ alone[c] /\ \E d \in Callers \ {c} : Task(pid[d]) = NULL
  /\ crash = "overrun" => \E c \in Writing : ~ alone[c] \/ ~ Fits(pid[c])
  /\ crash = "no data" => mod = "input"
  /\ crash = "no module" => mod = "failed" /\ input
================================================================================
