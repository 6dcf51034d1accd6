--------------------------------- MODULE Kernel --------------------------------
(***************************************************************************)
(* Both kernel modules and the processes that use their files, each in one *)
(* system call at a time.                                                  *)
(***************************************************************************)
EXTENDS Paddr

CONSTANT MaxCalls      \* bound: calls of all processes together

VARIABLE calls

Init == PtreeInit /\ PaddrInit /\ calls = 0

Idle(c) == wpc[c] = "idle" /\ rpc[c] = "idle"

StartWrite(c) ==
  /\ Idle(c) /\ calls < MaxCalls /\ calls' = calls + 1
  /\ WriteToNothing(c) \/ \E p \in Pids : WritePid(c, p)
  /\ UNCHANGED paddrvars

StartRead(c) ==
  /\ Idle(c) /\ calls < MaxCalls /\ calls' = calls + 1
  /\ \E p \in Pids, a \in Addresses : ReadOutput(c, p, a)
  /\ UNCHANGED ptreevars

(* A behaviour is followed up to the first oops.                           *)
Next ==
  /\ crash = "none" /\ oops = "none"
  /\ \/ Module /\ UNCHANGED <<paddrvars, calls>>
     \/ \E c \in Callers :
          \/ StartWrite(c) \/ StartRead(c)
          \/ Write(c) /\ UNCHANGED <<paddrvars, calls>>
          \/ Read(c) /\ UNCHANGED <<ptreevars, calls>>

Spec == Init /\ [][Next]_<<ptreevars, paddrvars, calls>>

\* Types; the memory of data is never freed under a write (dbfs_ptree.c:116).
TypeOK ==
  /\ mod \in {"unloaded", "dir", "input", "alloc", "loaded", "failed",
              "removed", "unloaded again"}
  /\ {input, allocated} \subseteq BOOLEAN
  /\ curr \in DOMAIN Parent \cup {NULL} /\ task \in DOMAIN Parent \cup {NULL}
  /\ Len(data) <= DataSize
  /\ alone \in [Callers -> BOOLEAN] /\ met \in [Callers -> SUBSET (DOMAIN Parent \cup {NULL})]
  /\ \A c \in Callers :
       /\ Writing # {} /\ mod # "input" => allocated
       /\ wpc[c] = "idle" \/ rpc[c] = "idle"
       /\ ret[c] \in {0, 1, EINVAL}

\* Types, and what can go wrong in the kernel does so only for the reasons of
\* CrashesHaveCauses and OopsesHaveCauses (dbfs_ptree.c:33-59, 85-106;
\* dbfs_paddr.c:48-55).
FaultsHaveCauses == TypeOK /\ CrashesHaveCauses /\ OopsesHaveCauses
================================================================================
