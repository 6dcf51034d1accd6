--------------------------------- MODULE Paddr ---------------------------------
(***************************************************************************)
(* The paddr module of lab 4 (dbfs_paddr.c): a read of debugfs's           *)
(* paddr/output takes a process ID and a virtual address from the reader's *)
(* buffer and puts the physical address there.  task is a variable of the  *)
(* module, shared by all who read at once.  app.c is such a reader.        *)
(*                                                                         *)
(* A page table maps a page to the kinds of the entries on the way, pgd,   *)
(* p4d, pud, pmd (a huge page is a bad pmd), and the pte as the processor  *)
(* and the kernel lay it out: whether the page is present, the flags below *)
(* the frame number (the present one among them), the frame number, and    *)
(* the bits above it.  When the page is not present the kernel keeps in    *)
(* those fields what it needs, such as where on the swap device it is; a   *)
(* pte of value zero is none.                                              *)
(***************************************************************************)
EXTENDS Ptree

CONSTANTS PAGE_SIZE,    \* 4096
          Mask,         \* mask + 1, 2^48
          Addresses     \* virtual addresses asked for

Ptes == [present : BOOLEAN, flags : 0 .. PAGE_SIZE - 1,
         frame : 0 .. (Mask \div PAGE_SIZE) - 1, high : Nat]
Levels == {"pgd", "p4d", "pud", "pmd"}

ASSUME PaddrAssumption ==
  /\ PAGE_SIZE \in Nat \ {0} /\ Mask \in Nat \ {0}
  /\ Mask % PAGE_SIZE = 0 /\ Addresses \subseteq Nat
  /\ \A t \in DOMAIN Mm : Mm[t] # NULL =>
       \A a \in Addresses :
         LET e == Mm[t][a \div PAGE_SIZE]
         IN  e.pte \in Ptes /\ (e.pte.present => e.pte.flags # 0)

VARIABLES task,
          rpc,          \* where each caller is in read_output
          packet,       \* its packet: pid, vaddr, paddr
          own,          \* its own copy of task
          ret,          \* what its last call returned
          met,          \* what calls that began during it set task to
          oops          \* what went wrong in the kernel

paddrvars == <<task, rpc, packet, own, ret, met, oops>>

EINVAL == -22

PaddrInit ==
  /\ task = NULL
  /\ rpc = [c \in Callers |-> "idle"]
  /\ packet = [c \in Callers |-> [pid |-> NULL, vaddr |-> 0, paddr |-> 0]]
  /\ own = [c \in Callers |-> NULL] /\ ret = [c \in Callers |-> 0]
  /\ met = [c \in Callers |-> {}] /\ oops = "none"

\* (a bug to catch) the bits above the address stay.
physicalUnmasked(pte, vaddr) ==
  (pte - (pte % PAGE_SIZE)) + (vaddr % PAGE_SIZE)

(* paddr = (pte_val & PAGE_MASK) | (vaddr & ~PAGE_MASK), and the mask      *)
physical(pte, vaddr) ==
  ((pte - (pte % PAGE_SIZE)) + (vaddr % PAGE_SIZE)) % Mask

(* pte_val: the fields in one word                                         *)
pte_val(e) == (e.pte.high * Mask) + (e.pte.frame * PAGE_SIZE) + e.pte.flags

(* The walk's tests: no entry on the way none or bad, and the pte not none *)
Walkable(e) == (\A l \in Levels : e[l] = "table") /\ pte_val(e) # 0

Walk(mm, vaddr) ==
  LET e == mm[vaddr \div PAGE_SIZE]
  IN  IF Walkable(e) THEN physical(pte_val(e), vaddr) ELSE EINVAL

(* copy_from_user and pid_task                                             *)
ReadOutput(c, p, vaddr) ==
  /\ rpc[c] = "idle"
  /\ packet' = [packet EXCEPT ![c] = [pid |-> p, vaddr |-> vaddr, paddr |-> 0]]
  /\ task' = Task(p) /\ own' = [own EXCEPT ![c] = Task(p)]
  /\ rpc' = [rpc EXCEPT ![c] = "found"]
  /\ met' = [d \in Callers |-> IF d = c THEN {}
                               ELSE IF rpc[d] # "idle" THEN met[d] \cup {Task(p)}
                               ELSE met[d]]
  /\ UNCHANGED <<ret, oops>>

Returns(c, r) ==
  /\ ret' = [ret EXCEPT ![c] = r] /\ rpc' = [rpc EXCEPT ![c] = "idle"]
  /\ own' = [own EXCEPT ![c] = NULL]

TestTask(c) ==
  /\ rpc[c] = "found"
  /\ \E t \in {task, own[c]} :
       IF t = NULL THEN Returns(c, EINVAL)
       ELSE /\ rpc' = [rpc EXCEPT ![c] = "mm"] /\ own' = [own EXCEPT ![c] = t]
            /\ UNCHANGED ret
  /\ UNCHANGED <<task, packet, met, oops>>

(* mm = task->mm, the walk and the answer; a kernel thread has no mm.      *)
Translate(c) ==
  /\ rpc[c] = "mm"
  /\ \E t \in {task, own[c]} :
       IF t = NULL \/ (t # NULL /\ Mm[t] = NULL)
         THEN /\ oops' = IF t = NULL THEN "null task" ELSE "null mm"
              /\ UNCHANGED <<rpc, packet, ret, own>>
         ELSE LET w == Walk(Mm[t], packet[c].vaddr)
              IN  /\ IF w = EINVAL
                       THEN Returns(c, EINVAL) /\ UNCHANGED packet
                       ELSE /\ packet' = [packet EXCEPT ![c].paddr = w]
                            /\ Returns(c, 1)
                  /\ UNCHANGED oops
  /\ UNCHANGED <<task, met>>

Read(c) == TestTask(c) \/ Translate(c)

-------------------------------------------------------------------------------
Reading == {c \in Callers : rpc[c] # "idle"}

\* The processes a call may answer for: its own, or one that a call begun
\* meanwhile has put in task.
Asked(c) == {Task(packet[c].pid)} \cup met[c]

\* What can go wrong in the kernel does so only when a call begun meanwhile
\* asked for a process there is not, or for a kernel thread, asked for by
\* the call or by one begun meanwhile (dbfs_paddr.c:48-55).
OopsesHaveCauses ==
  /\ oops = "null task" => \E c \in Reading : NULL \in met[c]
  /\ oops = "null mm" =>
       \E c \in Reading : \E t \in Asked(c) \ {NULL} : Mm[t] = NULL

\* Where the processor finds the page of e: in its frame, when every level
\* has a table and the pte says that the page is present.  (A huge page has
\* no table at one level: the module answers -EINVAL for it, a bad entry.)
Reached(e) == \A l \in Levels : e[l] = "table"
InMemory(e) == Reached(e) /\ e.pte.present

\* What a call may answer for its address in the process t.  The address is
\* that of the page's frame when the page is in memory, and -EINVAL when
\* nothing is there; a pte that holds something but is not present (the page
\* is swapped out, or may not be touched) passes for a page all the same.
IsAnswer(c, t) ==
  IF t = NULL THEN ret[c] = EINVAL
  ELSE /\ Mm[t] # NULL
       /\ LET vaddr == packet[c].vaddr
              e == Mm[t][vaddr \div PAGE_SIZE]
          IN  IF InMemory(e)
                THEN /\ ret[c] = 1
                     /\ packet[c].paddr =
                          (e.pte.frame * PAGE_SIZE) + (vaddr % PAGE_SIZE)
                ELSE ret[c] = EINVAL \/ (Reached(e) /\ pte_val(e) # 0)

\* A read is answered for its own process, as the page table has it (the
\* assertion of app.c:43, for every process, page and offset), or for one
\* that a read begun meanwhile asked for, but for no other, and never with
\* a mixture of two.
TranslationIsRight ==
  \A c \in Callers : rpc[c] = "idle" /\ ret[c] # 0 =>
    \E t \in Asked(c) : IsAnswer(c, t)
================================================================================
