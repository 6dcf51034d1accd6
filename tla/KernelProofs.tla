---------------------------- MODULE KernelProofs ----------------------------
(***************************************************************************)
(* Proofs about the kernel modules, for any processes, page tables, size   *)
(* of data and callers, however their calls overlap.  KernelInv is the     *)
(* inductive invariant: ModuleInv about the loading of the module,         *)
(* WriteInv and ReadInv about what a call past its test holds, AloneInv    *)
(* about a write that no other has overlapped, whose lines are always the  *)
(* end of the tree, ShownInv about what data shows.  A step of one call    *)
(* concerns that call alone, since two that run at once have overlapped.   *)
(***************************************************************************)
EXTENDS Kernel, TLAPS

USE PtreeAssumption, PaddrAssumption

Procs == DOMAIN Parent

\* Processes that callers ask for.
Known == Pids \cap Procs

----------------------------------------------------------------------------
(* The walk from a process up to init, and the lines it has written. *)

Links(lines) == \A k \in 1 .. Len(lines) - 1 : lines[k] = Parent[lines[k + 1]]

\* lines end with the line of p, and are no longer than the tree of p, if there
\* is one, whose last lines they are.
EndsWith(lines, p) ==
  /\ lines # << >> /\ Links(lines) /\ lines[Len(lines)] = p
  /\ \A tree \in Seq(Procs) : IsTreeOf(tree, p) =>
       Len(lines) <= Len(tree) /\ lines[1] = tree[Len(tree) - Len(lines) + 1]

\* The line of top comes next, above lines.
IsAbove(top, lines, p) ==
  /\ lines = << >> => top = p
  /\ lines # << >> => EndsWith(lines, p) /\ top = Parent[lines[1]] /\ lines[1] # 1

----------------------------------------------------------------------------
WritePlaces == {"idle", "found", "memset", "while", "sprintf", "strcat", "strcpy", "pid",
                "parent"}

Types ==
  /\ mod \in {"unloaded", "dir", "input", "alloc", "loaded", "failed", "removed",
              "unloaded again"}
  /\ input \in BOOLEAN /\ allocated \in BOOLEAN
  /\ curr \in Procs \cup {NULL} /\ task \in Known \cup {NULL}
  /\ data \in Seq(Procs) /\ Len(data) <= DataSize
  /\ wpc \in [Callers -> WritePlaces]
  /\ pid \in [Callers -> Pids \cup {NULL}]
  /\ reg \in [Callers -> Procs \cup {NULL}]
  /\ temp \in [Callers -> Seq(Procs)]
  /\ alone \in [Callers -> BOOLEAN] /\ met \in [Callers -> SUBSET (Known \cup {NULL})]
  /\ rpc \in [Callers -> {"idle", "found", "mm"}]
  /\ packet \in [Callers -> [pid : Pids \cup {NULL}, vaddr : Addresses \cup {0}, paddr : Nat]]
  /\ own \in [Callers -> Known \cup {NULL}]
  /\ ret \in [Callers -> {0, 1, EINVAL}]
  /\ \A c \in Callers : wpc[c] = "idle" \/ rpc[c] = "idle"

\* The module: what is there while a call is in progress.
ModuleInv ==
  /\ input => mod \in {"input", "alloc", "loaded", "failed"}
  /\ Writing # {} => input
  /\ mod \in {"alloc", "loaded"} => allocated
  /\ mod = "failed" /\ Writing # {} => allocated

\* A write past its test has a process in its register; curr is NULL only for an
\* unknown process, another's if the write is past its test.
WriteOK(c) ==
  /\ pid[c] \in Pids
  /\ IF wpc[c] = "found" THEN reg[c] = Task(pid[c]) ELSE reg[c] # NULL
  /\ curr = NULL =>
       \/ wpc[c] = "found" /\ Task(pid[c]) = NULL
       \/ ~ alone[c] /\ \E d \in Callers \ {c} : Task(pid[d]) = NULL
  /\ wpc[c] = "strcat" => Len(temp[c]) = 1
  /\ wpc[c] = "strcpy" => Len(temp[c]) <= DataSize

\* What a write that no other has overlapped finds in curr and in data.
AloneOK(c) ==
  /\ Writing = {c} /\ curr = reg[c]
  /\ wpc[c] = "memset" => curr = pid[c]
  /\ wpc[c] \in {"while", "sprintf", "strcat"} => IsAbove(curr, data, pid[c])
  /\ wpc[c] = "strcat" => temp[c] = <<curr>>
  /\ wpc[c] = "strcpy" => EndsWith(temp[c], pid[c]) /\ temp[c][1] = curr
  /\ wpc[c] \in {"pid", "parent"} => EndsWith(data, pid[c]) /\ data[1] = curr
  /\ wpc[c] = "parent" => curr # 1

WriteInv == \A c \in Writing : WriteOK(c)
AloneInv == \A c \in Writing : alone[c] => AloneOK(c)

\* data is the tree it should be, or is being written.
ShownInv ==
  shown # NULL => \/ IsTreeOf(data, shown)
                  \/ \E c \in Writing : wpc[c] \notin {"found", "memset"}

\* What a read has to do with: its own process, or those of the reads begun
\* meanwhile, the last of which is in task.
ReadInv ==
  \A c \in Callers :
    /\ rpc[c] # "idle" => packet[c].pid \in Pids /\ packet[c].vaddr \in Addresses
    /\ rpc[c] # "idle" =>
         /\ own[c] \in Asked(c)
         /\ task \in met[c] \/ (met[c] = {} /\ task = Task(packet[c].pid))
    /\ rpc[c] = "mm" => own[c] # NULL

KernelInv ==
  /\ Types /\ ModuleInv /\ WriteInv /\ AloneInv /\ ShownInv /\ ReadInv
  /\ TranslationIsRight /\ CrashesHaveCauses /\ OopsesHaveCauses

----------------------------------------------------------------------------
LEMMA PutAbove ==
  ASSUME NEW top \in Procs, NEW lines \in Seq(Procs), NEW p, IsAbove(top, lines, p)
  PROVE  /\ <<top>> \o lines \in Seq(Procs) /\ (<<top>> \o lines)[1] = top
         /\ Len(<<top>> \o lines) = Len(lines) + 1
         /\ EndsWith(<<top>> \o lines, p)
<1> DEFINE new == <<top>> \o lines
<1>1. /\ Len(lines) \in Nat /\ new \in Seq(Procs) /\ Len(new) = Len(lines) + 1
      /\ new[1] = top /\ \A k \in 1 .. Len(lines) : new[k + 1] = lines[k]
      /\ \A k \in 2 .. Len(new) : k - 1 \in 1 .. Len(lines) /\ new[k] = lines[k - 1]
  OBVIOUS
<1> HIDE DEF new
<1>2. new # << >>
  BY <1>1
<1>3. CASE lines = << >>
  <2>1. Len(new) = 1 /\ new[1] = p
    BY <1>1, <1>3 DEF IsAbove
  <2>2. \A tree \in Seq(Procs) : IsTreeOf(tree, p) => Len(tree) >= 1 /\ tree[Len(tree)] = p
    BY DEF IsTreeOf
  <2> QED
    BY <1>1, <1>2, <2>1, <2>2 DEF EndsWith, Links, new
<1>4. CASE lines # << >>
  <2>1. EndsWith(lines, p) /\ top = Parent[lines[1]] /\ lines[1] # 1 /\ Len(lines) >= 1
    BY <1>1, <1>4 DEF IsAbove
  <2>2. Links(new)
    <3> SUFFICES ASSUME NEW k \in 1 .. Len(new) - 1 PROVE new[k] = Parent[new[k + 1]]
      BY DEF Links
    <3>1. k \in 1 .. Len(lines) /\ new[k + 1] = lines[k]
      BY <1>1
    <3>2. CASE k = 1
      BY <1>1, <2>1, <3>1, <3>2
    <3>3. CASE k # 1
      <4>1. k - 1 \in 1 .. Len(lines) - 1 /\ new[k] = lines[k - 1] /\ (k - 1) + 1 = k
        BY <1>1, <3>1, <3>3
      <4>2. lines[k - 1] = Parent[lines[(k - 1) + 1]]
        BY <2>1, <4>1 DEF EndsWith, Links
      <4> QED
        BY <3>1, <4>1, <4>2
    <3> QED
      BY <3>2, <3>3
  <2>3. ASSUME NEW tree \in Seq(Procs), IsTreeOf(tree, p)
        PROVE  Len(new) <= Len(tree) /\ new[1] = tree[Len(tree) - Len(new) + 1]
    <3> DEFINE k == Len(tree) - Len(lines)
    <3>1. Len(tree) \in Nat /\ k >= 0 /\ lines[1] = tree[k + 1] /\ k \in Int
      BY <1>1, <2>1, <2>3 DEF EndsWith
    <3>2. k # 0
      BY <2>1, <2>3, <3>1 DEF IsTreeOf
    <3>3. k \in 1 .. Len(tree) - 1
      BY <1>1, <2>1, <3>1, <3>2
    <3> HIDE DEF k
    <3>4. tree[k] = Parent[tree[k + 1]]
      BY <2>3, <3>3 DEF IsTreeOf
    <3>5. top = tree[k] /\ k >= 1
      BY <1>1, <2>1, <3>1, <3>3, <3>4
    <3> QED
      BY <1>1, <3>1, <3>5 DEF k
  <2>4. new[Len(new)] = p
    BY <1>1, <2>1 DEF EndsWith
  <2> QED
    BY <1>1, <1>2, <2>2, <2>3, <2>4 DEF EndsWith, new
<1> QED
  BY <1>3, <1>4

LEMMA TreeAtInit ==
  ASSUME NEW lines \in Seq(Procs), NEW p, EndsWith(lines, p), lines[1] = 1
  PROVE  IsTreeOf(lines, p)
BY DEF EndsWith, Links, IsTreeOf

\* When data is full and the walk not yet at its end, the tree does not fit.
LEMMA FullDoesNotFit ==
  ASSUME NEW top \in Procs, NEW lines \in Seq(Procs), NEW p, IsAbove(top, lines, p),
         Len(lines) >= DataSize
  PROVE  ~ Fits(p)
<1> SUFFICES ASSUME NEW k \in 1 .. DataSize, NEW tree \in [1 .. k -> Procs], IsTreeOf(tree, p)
             PROVE  FALSE
  BY DEF Fits, Procs
<1> DEFINE new == <<top>> \o lines
<1>1. tree \in Seq(Procs) /\ Len(tree) = k
  OBVIOUS
<1>2. EndsWith(new, p) /\ Len(new) = Len(lines) + 1 /\ Len(lines) \in Nat
  BY PutAbove
<1> QED
  BY <1>1, <1>2 DEF EndsWith

----------------------------------------------------------------------------
LEMMA PaddrKept ==
  ASSUME KernelInv, UNCHANGED paddrvars
  PROVE  ReadInv' /\ TranslationIsRight' /\ OopsesHaveCauses'
<1> USE DEF paddrvars, Reading, Asked, IsAnswer
<1>1. ReadInv'
  BY DEF KernelInv, ReadInv
<1>2. TranslationIsRight'
  BY DEF KernelInv, TranslationIsRight
<1>3. OopsesHaveCauses'
  BY DEF KernelInv, OopsesHaveCauses
<1> QED
  BY <1>1, <1>2, <1>3

LEMMA PtreeKept ==
  ASSUME KernelInv, UNCHANGED ptreevars
  PROVE  ModuleInv' /\ WriteInv' /\ AloneInv' /\ ShownInv' /\ CrashesHaveCauses'
<1> USE DEF ptreevars, Writing
<1>1. ModuleInv' /\ ShownInv'
  BY DEF KernelInv, ModuleInv, ShownInv
<1>2. WriteInv' /\ AloneInv'
  BY DEF KernelInv, WriteInv, WriteOK, AloneInv, AloneOK
<1>3. CrashesHaveCauses'
  BY DEF KernelInv, CrashesHaveCauses
<1> QED
  BY <1>1, <1>2, <1>3

\* What a step of the write of c may change.
Writes(c) ==
  /\ wpc' \in [Callers -> WritePlaces]
  /\ reg' \in [Callers -> Procs \cup {NULL}]
  /\ temp' \in [Callers -> Seq(Procs)]
  /\ curr' \in Procs \cup {NULL}
  /\ data' \in Seq(Procs) /\ Len(data') <= DataSize
  /\ \A d \in Callers \ {c} : wpc'[d] = wpc[d] /\ reg'[d] = reg[d] /\ temp'[d] = temp[d]

\* A step of a write concerns the writer alone: any other has been overlapped.
LEMMA WriterStep ==
  ASSUME KernelInv, NEW c \in Writing, Writes(c), crash' = crash, crash = "none",
         UNCHANGED <<modvars, pid, alone, paddrvars>>,
         curr' = curr \/ curr' # NULL,
         wpc'[c] # "idle" => WriteOK(c)' /\ (alone[c] => AloneOK(c)'),
         \/ shown' # NULL => IsTreeOf(data', shown')
         \/ wpc'[c] \notin {"idle", "found", "memset"}
         \/ wpc[c] \in {"found", "memset"} /\ UNCHANGED <<data, shown>>
  PROVE  KernelInv'
<1> USE DEF modvars, paddrvars, Writes
<1>0. Types'
  <2>1. \A d \in Callers : wpc'[d] = "idle" \/ rpc'[d] = "idle"
    BY DEF KernelInv, Types, Writing
  <2> QED
    BY <2>1 DEF KernelInv, Types
<1>1. c \in Callers /\ \A d \in Callers \ {c} : d \in Writing' <=> d \in Writing
  BY DEF Writing
<1>2. \A d \in Writing \ {c} : ~ alone[d]
  BY DEF KernelInv, AloneInv, AloneOK
<1>3. ModuleInv'
  BY <1>1 DEF KernelInv, ModuleInv, Writing
<1>4. WriteInv'
  BY <1>1, <1>2 DEF KernelInv, WriteInv, WriteOK, Writing
<1>5. AloneInv'
  BY <1>1, <1>2 DEF AloneInv, Writing
<1>6. ShownInv'
  BY <1>1 DEF KernelInv, ShownInv, Writing
<1>7. ReadInv' /\ TranslationIsRight' /\ OopsesHaveCauses'
  BY PaddrKept
<1>8. CrashesHaveCauses'
  BY DEF CrashesHaveCauses
<1> QED
  BY <1>0, <1>3, <1>4, <1>5, <1>6, <1>7, <1>8 DEF KernelInv

LEMMA CrashStep ==
  ASSUME KernelInv, NEW what, Crashes(what), UNCHANGED paddrvars, CrashesHaveCauses'
  PROVE  KernelInv'
<1> USE DEF Crashes, modvars, paddrvars, KernelInv, Writing, Reading
<1>1. Types' /\ ModuleInv' /\ ShownInv'
  BY DEF Types, ModuleInv, ShownInv
<1>2. WriteInv' /\ AloneInv'
  BY DEF WriteInv, WriteOK, AloneInv, AloneOK
<1>3. ReadInv' /\ TranslationIsRight' /\ OopsesHaveCauses'
  BY PaddrKept
<1> QED
  BY <1>1, <1>2, <1>3

LEMMA WriteStep ==
  ASSUME KernelInv, crash = "none", NEW c \in Callers, Write(c), UNCHANGED paddrvars
  PROVE  KernelInv'
<1> USE DEF At, Goto, modvars
<1>1. /\ wpc[c] # "idle" /\ c \in Writing /\ WriteOK(c) /\ (alone[c] => AloneOK(c))
      /\ wpc \in [Callers -> WritePlaces]
      /\ reg \in [Callers -> Procs \cup {NULL}] /\ temp \in [Callers -> Seq(Procs)]
      /\ curr \in Procs \cup {NULL} /\ pid[c] \in Pids
      /\ data \in Seq(Procs) /\ Len(data) <= DataSize
  BY DEF KernelInv, Types, WriteInv, AloneInv, Writing, WriteOK, Write, Refuse, Found, Memset,
         While, Sprintf, Strcat, Strcpy, IsInit, ToParent
<1>2. CASE Refuse(c)
  <2>1. Writes(c) /\ wpc'[c] = "idle" /\ UNCHANGED <<data, shown, curr, pid, alone, crash>>
    BY <1>1, <1>2 DEF Refuse, Writes, WritePlaces
  <2> QED
    BY <1>1, <1>2, <2>1, WriterStep DEF Refuse
<1>3. CASE Found(c)
  <2>1. Writes(c) /\ wpc'[c] = "memset" /\ UNCHANGED <<data, shown, curr, pid, alone, crash>>
    BY <1>1, <1>3 DEF Found, Seen, Writes, WritePlaces
  <2>2. wpc[c] = "found" /\ reg'[c] \in {curr, reg[c]} \ {NULL}
    BY <1>1, <1>3 DEF Found, Seen
  <2>3. WriteOK(c)'
    BY <1>1, <2>1, <2>2 DEF WriteOK
  <2>4. alone[c] => AloneOK(c)'
    <3> SUFFICES ASSUME alone[c] PROVE AloneOK(c)'
      OBVIOUS
    <3>1. curr = pid[c]
      BY <1>1, <2>2 DEF AloneOK, WriteOK, Task
    <3>2. Writing' = {c}
      BY <1>1, <2>1 DEF AloneOK, Writing, Writes
    <3> QED
      BY <1>1, <2>1, <2>2, <3>1, <3>2 DEF AloneOK
  <2> QED
    BY <1>1, <1>3, <2>1, <2>2, <2>3, <2>4, WriterStep DEF Found
<1>4. CASE Memset(c)
  <2>1. CASE allocated
    <3>0. << >> \in Seq(Procs) /\ Len(<< >>) <= DataSize
      OBVIOUS
    <3>1. Writes(c) /\ wpc'[c] = "while" /\ data' = << >>
          /\ UNCHANGED <<shown, curr, pid, reg, temp, alone, crash, modvars>>
      BY <1>1, <1>4, <2>1, <3>0 DEF Memset, Writes, WritePlaces
    <3>2. WriteOK(c)'
      BY <1>1, <1>4, <3>1 DEF WriteOK, Memset
    <3>3. alone[c] => AloneOK(c)'
      BY <1>1, <1>4, <3>1 DEF AloneOK, IsAbove, Writing, Writes, Memset
    <3> QED
      BY <1>1, <3>1, <3>2, <3>3, WriterStep
  <2>2. CASE ~ allocated
    <3>1. Crashes("no data") /\ mod = "input"
      BY <1>1, <1>4, <2>2 DEF Memset, KernelInv, ModuleInv, Types
    <3>2. CrashesHaveCauses'
      BY <3>1 DEF Crashes, CrashesHaveCauses
    <3> QED
      BY <3>1, <3>2, CrashStep
  <2> QED
    BY <2>1, <2>2
\* curr is NULL for a write past its test.
<1>5. ASSUME wpc[c] \in {"sprintf", "pid", "parent"}, NULL \in Seen(c), Crashes("null curr")
      PROVE  KernelInv'
  <2>1. curr = NULL /\ ~ alone[c] /\ \E d \in Callers \ {c} : Task(pid[d]) = NULL
    BY <1>1, <1>5 DEF WriteOK, Seen
  <2>2. CrashesHaveCauses'
    BY <1>1, <1>5, <2>1 DEF Crashes, CrashesHaveCauses, Writing
  <2> QED
    BY <1>5, <2>2, CrashStep
\* What the writer sees is curr, when it is alone.
<1>6. ASSUME NEW t \in Seen(c), t # NULL
      PROVE  t \in Procs /\ (alone[c] => t = curr)
  BY <1>1, <1>6 DEF Seen, AloneOK
<1>7. CASE While(c)
  <2>1. PICK t \in Seen(c) :
          /\ IF t = NULL THEN Done(c)
             ELSE Goto(c, "sprintf") /\ reg' = [reg EXCEPT ![c] = t] /\ UNCHANGED shown
          /\ wpc[c] = "while"
          /\ UNCHANGED <<modvars, curr, data, pid, temp, alone, crash>>
    BY <1>7 DEF While
  <2>2. CASE t = NULL
    <3>1. Writes(c) /\ wpc'[c] = "idle"
      BY <1>1, <2>1, <2>2 DEF Done, Writes, WritePlaces
    <3>2. shown' = NULL
      BY <1>1, <2>1, <2>2 DEF Done, Seen, AloneOK, WriteOK
    <3> QED
      BY <1>1, <2>1, <3>1, <3>2, WriterStep
  <2>3. CASE t # NULL
    <3>1. Writes(c) /\ wpc'[c] = "sprintf" /\ reg'[c] = t /\ UNCHANGED shown
      BY <1>1, <1>6, <2>1, <2>3 DEF Writes, WritePlaces
    <3>2. WriteOK(c)'
      BY <1>1, <2>1, <2>3, <3>1 DEF WriteOK
    <3>3. alone[c] => AloneOK(c)'
      BY <1>1, <1>6, <2>1, <2>3, <3>1 DEF AloneOK, Writing
    <3> QED
      BY <1>1, <2>1, <3>1, <3>2, <3>3, WriterStep
  <2> QED
    BY <2>2, <2>3
<1>8. CASE Sprintf(c)
  <2>1. CASE NULL \in Seen(c) /\ Crashes("null curr")
    BY <1>5, <1>8, <2>1 DEF Sprintf
  <2>2. ASSUME NEW t \in Seen(c), t # NULL,
               /\ temp' = [temp EXCEPT ![c] = <<t>>]
               /\ reg' = [reg EXCEPT ![c] = t]
               /\ Goto(c, "strcat")
               /\ UNCHANGED <<modvars, curr, data, pid, alone, shown, crash>>
        PROVE  KernelInv'
    <3>1. Writes(c) /\ wpc'[c] = "strcat" /\ reg'[c] = t /\ temp'[c] = <<t>>
      BY <1>1, <1>6, <2>2 DEF Writes, WritePlaces
    <3>2. WriteOK(c)'
      BY <1>1, <1>8, <2>2, <3>1 DEF WriteOK, Sprintf
    <3>3. alone[c] => AloneOK(c)'
      BY <1>1, <1>6, <1>8, <2>2, <3>1 DEF AloneOK, Writing, Sprintf
    <3> QED
      BY <1>1, <2>2, <3>1, <3>2, <3>3, WriterStep
  <2> QED
    BY <1>8, <2>1, <2>2 DEF Sprintf
<1>9. CASE Strcat(c)
  <2>1. CASE Len(data) < DataSize
    <3>1. /\ wpc[c] = "strcat" /\ wpc'[c] = "strcpy" /\ temp'[c] = temp[c] \o data
          /\ Len(temp[c]) = 1 /\ temp[c] \in Seq(Procs)
          /\ UNCHANGED <<modvars, curr, data, pid, reg, alone, shown, crash>>
      BY <1>1, <1>9, <2>1 DEF Strcat, WriteOK
    <3>5. temp[c] \o data \in Seq(Procs) /\ Len(temp[c] \o data) = 1 + Len(data)
      <4>1. \A s, u \in Seq(Procs) : s \o u \in Seq(Procs) /\ Len(s \o u) = Len(s) + Len(u)
        OBVIOUS
      <4> QED
        BY <1>1, <3>1, <4>1
    <3>2. Writes(c)
      BY <1>1, <1>9, <2>1, <3>1, <3>5 DEF Strcat, Writes, WritePlaces
    <3>3. WriteOK(c)'
      BY <1>1, <2>1, <3>1, <3>5 DEF WriteOK
    <3>4. alone[c] => AloneOK(c)'
      <4> SUFFICES ASSUME alone[c] PROVE AloneOK(c)'
        OBVIOUS
      <4>1. curr \in Procs /\ temp[c] = <<curr>> /\ IsAbove(curr, data, pid[c])
        BY <1>1, <3>1 DEF AloneOK, WriteOK
      <4>2. EndsWith(temp'[c], pid[c]) /\ temp'[c][1] = curr
        BY <1>1, <3>1, <4>1, PutAbove
      <4> QED
        BY <1>1, <3>1, <3>2, <4>2 DEF AloneOK, Writing, Writes
    <3> QED
      BY <1>1, <3>1, <3>2, <3>3, <3>4, WriterStep
  <2>2. CASE ~ (Len(data) < DataSize)
    <3>1. Crashes("overrun") /\ wpc[c] = "strcat"
      BY <1>9, <2>2 DEF Strcat
    <3>2. ~ alone[c] \/ ~ Fits(pid[c])
      BY <1>1, <2>2, <3>1, FullDoesNotFit DEF AloneOK, WriteOK
    <3>3. CrashesHaveCauses'
      BY <1>1, <3>1, <3>2 DEF Crashes, CrashesHaveCauses, Writing, Fits
    <3> QED
      BY <3>1, <3>3, CrashStep
  <2> QED
    BY <2>1, <2>2
<1>10. CASE Strcpy(c)
  <2>1. /\ wpc[c] = "strcpy" /\ wpc'[c] = "pid" /\ data' = temp[c] /\ Len(temp[c]) <= DataSize
        /\ temp' \in [Callers -> Seq(Procs)]
        /\ UNCHANGED <<modvars, curr, pid, reg, alone, shown, crash>>
    BY <1>1, <1>10 DEF Strcpy, WriteOK
  <2>2. Writes(c)
    BY <1>1, <1>10, <2>1 DEF Strcpy, Writes, WritePlaces
  <2>3. WriteOK(c)'
    BY <1>1, <2>1 DEF WriteOK
  <2>4. alone[c] => AloneOK(c)'
    BY <1>1, <2>1, <2>2 DEF AloneOK, Writing, Writes
  <2> QED
    BY <1>1, <2>1, <2>2, <2>3, <2>4, WriterStep
<1>11. CASE IsInit(c)
  <2>1. CASE NULL \in Seen(c) /\ Crashes("null curr")
    BY <1>5, <1>11, <2>1 DEF IsInit
  <2>2. ASSUME NEW t \in Seen(c), t # NULL,
               /\ IF t = 1 THEN Done(c)
                  ELSE Goto(c, "parent") /\ reg' = [reg EXCEPT ![c] = t] /\ UNCHANGED shown
               /\ UNCHANGED <<modvars, curr, data, pid, temp, alone, crash>>
        PROVE  KernelInv'
    <3>1. CASE t = 1
      <4>1. Writes(c) /\ wpc'[c] = "idle"
        BY <1>1, <2>2, <3>1 DEF Done, Writes, WritePlaces
      <4>2. shown' # NULL => IsTreeOf(data', shown')
        BY <1>1, <1>6, <1>11, <2>2, <3>1, TreeAtInit DEF Done, AloneOK, IsInit
      <4> QED
        BY <1>1, <2>2, <4>1, <4>2, WriterStep
    <3>2. CASE t # 1
      <4>1. Writes(c) /\ wpc'[c] = "parent" /\ reg'[c] = t /\ UNCHANGED shown
        BY <1>1, <1>6, <2>2, <3>2 DEF Writes, WritePlaces
      <4>2. WriteOK(c)'
        BY <1>1, <1>11, <2>2, <4>1 DEF WriteOK, IsInit
      <4>3. alone[c] => AloneOK(c)'
        BY <1>1, <1>6, <1>11, <2>2, <3>2, <4>1 DEF AloneOK, Writing, IsInit
      <4> QED
        BY <1>1, <2>2, <4>1, <4>2, <4>3, WriterStep
    <3> QED
      BY <3>1, <3>2
  <2> QED
    BY <1>11, <2>1, <2>2 DEF IsInit
<1>12. CASE ToParent(c)
  <2>1. CASE NULL \in Seen(c) /\ Crashes("null curr")
    BY <1>5, <1>12, <2>1 DEF ToParent
  <2>2. ASSUME NEW t \in Seen(c), t # NULL,
               /\ curr' = Parent[t] /\ reg' = [reg EXCEPT ![c] = Parent[t]]
               /\ Goto(c, "while")
               /\ UNCHANGED <<modvars, data, pid, temp, alone, shown, crash>>
        PROVE  KernelInv'
    <3>1. Writes(c) /\ wpc'[c] = "while" /\ reg'[c] = Parent[t]
          /\ curr' # NULL /\ curr' = Parent[t]
      BY <1>1, <1>6, <2>2 DEF Writes, WritePlaces, Procs
    <3>2. WriteOK(c)'
      BY <1>1, <2>2, <3>1 DEF WriteOK
    <3>3. alone[c] => AloneOK(c)'
      BY <1>1, <1>6, <1>12, <2>2, <3>1 DEF AloneOK, Writing, ToParent, IsAbove, EndsWith
    <3> QED
      BY <1>1, <2>2, <3>1, <3>2, <3>3, WriterStep
  <2> QED
    BY <1>12, <2>1, <2>2 DEF ToParent
<1> QED
  BY <1>2, <1>3, <1>4, <1>7, <1>8, <1>9, <1>10, <1>11, <1>12 DEF Write

----------------------------------------------------------------------------
\* Another process or none is looked up: the writes in progress are overlapped.
LEMMA WritePidStep ==
  ASSUME KernelInv, crash = "none", NEW c \in Callers, NEW p \in Pids, Idle(c), WritePid(c, p),
         UNCHANGED paddrvars
  PROVE  KernelInv'
<1> USE DEF At, Goto, modvars, paddrvars
<1>1. /\ wpc' = [wpc EXCEPT ![c] = "found"] /\ pid' = [pid EXCEPT ![c] = p]
      /\ curr' = Task(p) /\ reg' = [reg EXCEPT ![c] = Task(p)]
      /\ Task(p) \in Procs \cup {NULL} /\ input /\ mod # "failed"
      /\ UNCHANGED <<modvars, data, temp, shown, crash>>
  BY DEF WritePid, Task, Procs
<1>2. /\ wpc \in [Callers -> WritePlaces] /\ wpc' \in [Callers -> WritePlaces]
      /\ pid \in [Callers -> Pids \cup {NULL}] /\ pid' \in [Callers -> Pids \cup {NULL}]
      /\ reg \in [Callers -> Procs \cup {NULL}] /\ reg' \in [Callers -> Procs \cup {NULL}]
  BY <1>1 DEF KernelInv, Types, WritePlaces
<1>3. /\ Writing' = Writing \cup {c} /\ c \notin Writing
      /\ alone' \in [Callers -> BOOLEAN]
      /\ alone'[c] => Writing' = {c}
      /\ \A d \in Callers : alone'[d] => d = c \/ d \notin Writing
  <2>1. Writing' = Writing \cup {c} /\ c \notin Writing
    BY <1>1, <1>2 DEF Writing, WritePid
  <2>2. alone' = [d \in Callers |-> IF d = c THEN Writing \ {c} = {}
                                    ELSE alone[d] /\ d \notin Writing \ {c}]
    BY DEF WritePid, Writing
  <2> QED
    BY <2>1, <2>2 DEF KernelInv, Types
<1>4. Types'
  <2>1. \A d \in Callers : wpc'[d] = "idle" \/ rpc'[d] = "idle"
    BY <1>1, <1>2 DEF KernelInv, Types, Idle
  <2> QED
    BY <1>1, <1>2, <1>3, <2>1 DEF KernelInv, Types
<1>5. ModuleInv'
  BY <1>1, <1>3 DEF KernelInv, ModuleInv
<1>6. WriteInv'
  <2>1. WriteOK(c)'
    BY <1>1, <1>2 DEF WriteOK
  <2>2. ASSUME NEW d \in Writing PROVE WriteOK(d)'
    <3>1. d # c /\ d \in Callers /\ ~ alone'[d]
      BY <1>3 DEF Writing
    <3>2. WriteOK(d) /\ pid'[c] = p /\ pid'[d] = pid[d] /\ reg'[d] = reg[d] /\ wpc'[d] = wpc[d]
      BY <1>1, <1>2, <3>1 DEF KernelInv, WriteInv
    <3> QED
      BY <1>1, <3>1, <3>2 DEF WriteOK
  <2> QED
    BY <1>3, <2>1, <2>2 DEF WriteInv
<1>7. AloneInv'
  <2>1. alone'[c] => AloneOK(c)'
    BY <1>1, <1>2, <1>3 DEF AloneOK
  <2> QED
    BY <1>3, <2>1 DEF AloneInv, Writing
<1>8. ShownInv'
  BY <1>1, <1>2, <1>3 DEF KernelInv, ShownInv, Writing
<1>9. ReadInv' /\ TranslationIsRight' /\ OopsesHaveCauses'
  BY PaddrKept
<1>10. CrashesHaveCauses'
  BY <1>1 DEF CrashesHaveCauses
<1> QED
  BY <1>4, <1>5, <1>6, <1>7, <1>8, <1>9, <1>10 DEF KernelInv

LEMMA WriteToNothingStep ==
  ASSUME KernelInv, NEW c \in Callers, WriteToNothing(c), UNCHANGED paddrvars
  PROVE  KernelInv'
<1>1. CrashesHaveCauses'
  BY DEF WriteToNothing, Crashes, modvars, CrashesHaveCauses
<1> QED
  BY <1>1, CrashStep DEF WriteToNothing

LEMMA ModuleStep ==
  ASSUME KernelInv, crash = "none", Module, UNCHANGED paddrvars
  PROVE  KernelInv'
<1> USE DEF callvars, paddrvars, KernelInv
<1>1. UNCHANGED <<callvars, paddrvars>> /\ Writing' = Writing
  BY DEF Module, CreateDir, CreateInput, Kmalloc, CreateBlob, RemoveFiles, Kfree, Writing
<1>2. Types'
  <2>1. /\ mod' \in {"unloaded", "dir", "input", "alloc", "loaded", "failed", "removed",
                    "unloaded again"}
        /\ input' \in BOOLEAN /\ allocated' \in BOOLEAN
    BY DEF Types, Module, CreateDir, CreateInput, Kmalloc, CreateBlob, RemoveFiles, Kfree
  <2> QED
    BY <1>1, <2>1 DEF Types
<1>3. ModuleInv'
  <2> USE <1>1 DEF ModuleInv
  <2>1. CASE CreateDir \/ CreateInput
    BY <2>1 DEF CreateDir, CreateInput
  <2>2. CASE Kmalloc \/ CreateBlob
    BY <2>2 DEF Kmalloc, CreateBlob
  <2>3. CASE RemoveFiles
    BY <2>3 DEF RemoveFiles, Writing
  <2>4. CASE Kfree
    BY <2>4 DEF Kfree
  <2> QED
    BY <2>1, <2>2, <2>3, <2>4 DEF Module
<1>4. WriteInv' /\ AloneInv' /\ ShownInv'
  BY <1>1 DEF WriteInv, WriteOK, AloneInv, AloneOK, ShownInv
<1>5. ReadInv' /\ TranslationIsRight' /\ OopsesHaveCauses'
  BY PaddrKept
<1>6. CrashesHaveCauses'
  BY <1>1 DEF CrashesHaveCauses
<1> QED
  BY <1>2, <1>3, <1>4, <1>5, <1>6

----------------------------------------------------------------------------
(* The address of a translation. *)

LEMMA DivMod ==
  ASSUME NEW a \in Nat, NEW b \in Nat \ {0}
  PROVE  a \div b \in Nat /\ a % b \in 0 .. b - 1 /\ a = b * (a \div b) + (a % b)
<1>1. a \div b \in Nat /\ a % b \in 0 .. b - 1
  OBVIOUS
<1>2. a = b * (a \div b) + (a % b)
  BY ONLY a \in Nat, b \in Nat \ {0}
<1> QED
  BY <1>1, <1>2

LEMMA ModUnique ==
  ASSUME NEW q \in Nat, NEW b \in Nat \ {0}, NEW r \in 0 .. b - 1
  PROVE  (b * q + r) % b = r
<1> DEFINE a == b * q + r
           e == a \div b
           s == a % b
<1>1. a \in Nat
  OBVIOUS
<1>2. e \in Nat /\ s \in 0 .. b - 1 /\ a = b * e + s
  BY <1>1, DivMod
<1>3. b * q + r = b * e + s
  BY <1>2
<1> HIDE DEF a, e, s
<1>4. b * (e - q) = r - s
  BY <1>2, <1>3
<1>5. CASE e - q >= 1
  <2>1. b * (e - q) >= b
    BY <1>2, <1>5
  <2> QED
    BY <1>2, <1>4, <2>1
<1>6. CASE e - q <= -1
  <2>1. b * (e - q) <= -b
    BY <1>2, <1>6
  <2> QED
    BY <1>2, <1>4, <2>1
<1>7. CASE e = q
  <2>1. s = r
    BY <1>2, <1>3, <1>7
  <2> QED
    BY <2>1 DEF s, a
<1> QED
  BY <1>2, <1>5, <1>6, <1>7

\* Masking the flag bits and what is above the address leaves the page's frame.
LEMMA PhysicalIsRight ==
  ASSUME NEW e, e.pte \in Ptes, NEW vaddr \in Nat
  PROVE  /\ physical(pte_val(e), vaddr) = (e.pte.frame * PAGE_SIZE) + (vaddr % PAGE_SIZE)
         /\ physical(pte_val(e), vaddr) \in Nat
         /\ pte_val(e) = 0 => e.pte.flags = 0
<1> DEFINE pages == Mask \div PAGE_SIZE
           off == vaddr % PAGE_SIZE
<1>1. /\ pages \in Nat /\ Mask = PAGE_SIZE * pages
      /\ off \in 0 .. PAGE_SIZE - 1
  <2>1. off \in 0 .. PAGE_SIZE - 1
    BY DivMod
  <2>2. pages \in Nat /\ Mask = PAGE_SIZE * pages + (Mask % PAGE_SIZE)
    BY DivMod
  <2> HIDE DEF pages
  <2>3. Mask = PAGE_SIZE * pages
    BY <2>2
  <2> QED
    BY <2>1, <2>2, <2>3
<1>2. PICK high \in Nat, frame \in 0 .. pages - 1, flags \in 0 .. PAGE_SIZE - 1 :
        e.pte.high = high /\ e.pte.frame = frame /\ e.pte.flags = flags
  <2>1. e.pte.high \in Nat /\ e.pte.frame \in 0 .. pages - 1 /\ e.pte.flags \in 0 .. PAGE_SIZE - 1
    BY DEF Ptes
  <2> QED
    BY <2>1
<1>3. PICK v : v = pte_val(e)
  OBVIOUS
<1>4. v = (high * Mask) + (frame * PAGE_SIZE) + flags
  BY <1>2, <1>3 DEF pte_val
<1> HIDE DEF pages, off
<1>5. PICK u \in Nat : u = high * pages
  BY <1>1
<1>6. high * Mask = PAGE_SIZE * u
  BY <1>1, <1>5
<1>7. u + frame \in Nat /\ frame \in Nat
  BY <1>1
<1>8. v = PAGE_SIZE * (u + frame) + flags /\ v \in Nat
  BY <1>4, <1>6, <1>7
<1>9. v % PAGE_SIZE = flags
  BY <1>7, <1>8, ModUnique
<1>10. PAGE_SIZE * frame + off \in 0 .. Mask - 1
  <2>1. PAGE_SIZE * (frame + 1) <= PAGE_SIZE * pages
    BY <1>1, <1>7
  <2> QED
    BY <1>1, <1>7, <2>1
<1>11. (v - flags) + off = Mask * high + (PAGE_SIZE * frame + off)
  BY <1>1, <1>6, <1>7, <1>8
<1>12. physical(v, vaddr) = PAGE_SIZE * frame + off
  <2>1. physical(v, vaddr) = ((v - flags) + off) % Mask
    BY <1>9 DEF physical, off
  <2> QED
    BY <1>10, <1>11, <2>1, ModUnique
<1>13. PAGE_SIZE * frame = frame * PAGE_SIZE /\ PAGE_SIZE * frame + off \in Nat
  BY <1>1, <1>7
<1>14. v = 0 => flags = 0
  BY <1>9
<1> QED
  BY <1>2, <1>3, <1>12, <1>13, <1>14 DEF off

\* What a read finds in the page table of a user process.
LEMMA WalkIsRight ==
  ASSUME NEW t \in Known, Mm[t] # NULL, NEW a \in Addresses
  PROVE  LET e == Mm[t][a \div PAGE_SIZE]
             w == Walk(Mm[t], a)
         IN  /\ w = EINVAL \/ w \in Nat
             /\ InMemory(e) => /\ w # EINVAL
                               /\ w = (e.pte.frame * PAGE_SIZE) + (a % PAGE_SIZE)
             /\ w # EINVAL => Reached(e) /\ pte_val(e) # 0
<1>1. PICK e : e = Mm[t][a \div PAGE_SIZE]
  OBVIOUS
<1>2. a \in Nat /\ e.pte \in Ptes /\ (e.pte.present => e.pte.flags # 0)
  BY <1>1 DEF Known, Procs
<1>3. PICK w : w = Walk(Mm[t], a)
  OBVIOUS
<1>4. w = IF Walkable(e) THEN physical(pte_val(e), a) ELSE EINVAL
  BY <1>1, <1>3 DEF Walk
<1>5. Walkable(e) <=> Reached(e) /\ pte_val(e) # 0
  BY DEF Walkable, Reached
<1>6. InMemory(e) => Walkable(e)
  BY <1>2, <1>5, PhysicalIsRight DEF InMemory
<1>7. /\ physical(pte_val(e), a) = (e.pte.frame * PAGE_SIZE) + (a % PAGE_SIZE)
      /\ physical(pte_val(e), a) \in Nat
  BY <1>2, PhysicalIsRight
<1>8. \A n \in Nat : n # EINVAL
  BY DEF EINVAL
<1> QED
  BY <1>1, <1>3, <1>4, <1>5, <1>6, <1>7, <1>8

----------------------------------------------------------------------------
\* The answer that a caller has been given last.
AnswerOK(c) == \E t \in Asked(c) : IsAnswer(c, t)

LEMMA ReadOutputStep ==
  ASSUME KernelInv, oops = "none", NEW c \in Callers, NEW p \in Pids, NEW a \in Addresses,
         Idle(c), ReadOutput(c, p, a), UNCHANGED ptreevars
  PROVE  KernelInv'
<1> USE DEF ptreevars
<1> DEFINE k == [pid |-> p, vaddr |-> a, paddr |-> 0]
<1>1. /\ rpc' = [rpc EXCEPT ![c] = "found"] /\ packet' = [packet EXCEPT ![c] = k]
      /\ task' = Task(p) /\ own' = [own EXCEPT ![c] = Task(p)]
      /\ Task(p) \in Known \cup {NULL}
      /\ UNCHANGED <<ret, oops>>
  BY DEF ReadOutput, Task, Known, Procs
<1>2. /\ k \in [pid : Pids \cup {NULL}, vaddr : Addresses \cup {0}, paddr : Nat]
      /\ k.pid = p /\ k.vaddr = a
  OBVIOUS
<1> HIDE DEF k
<1>3. /\ met' \in [Callers -> SUBSET (Known \cup {NULL})]
      /\ met'[c] = {}
      /\ \A d \in Callers \ {c} : met'[d] = IF rpc[d] # "idle" THEN met[d] \cup {Task(p)}
                                            ELSE met[d]
  BY <1>1 DEF ReadOutput, KernelInv, Types
<1>4. /\ \A d \in Callers \ {c} : /\ rpc'[d] = rpc[d] /\ packet'[d] = packet[d]
                                 /\ own'[d] = own[d] /\ ret'[d] = ret[d]
      /\ rpc'[c] = "found" /\ packet'[c].pid = p /\ packet'[c].vaddr = a /\ own'[c] = Task(p)
  BY <1>1, <1>2 DEF KernelInv, Types
<1>5. Types'
  <2>1. \A d \in Callers : wpc'[d] = "idle" \/ rpc'[d] = "idle"
    BY <1>4 DEF KernelInv, Types, Idle
  <2> QED
    BY <1>1, <1>2, <1>3, <2>1 DEF KernelInv, Types
<1>6. ReadInv'
  BY <1>1, <1>3, <1>4 DEF KernelInv, ReadInv, Asked
<1>7. TranslationIsRight'
  <2> SUFFICES ASSUME NEW d \in Callers, rpc'[d] = "idle", ret'[d] # 0
               PROVE  \E t \in Asked(d)' : IsAnswer(d, t)'
    BY DEF TranslationIsRight
  <2>1. /\ d # c /\ rpc[d] = "idle" /\ ret[d] # 0 /\ met'[d] = met[d]
        /\ packet'[d] = packet[d] /\ ret'[d] = ret[d]
    BY <1>3, <1>4
  <2>2. PICK t \in Asked(d) : IsAnswer(d, t)
    BY <2>1 DEF KernelInv, TranslationIsRight
  <2>3. t \in Asked(d)' /\ IsAnswer(d, t)'
    BY <2>1, <2>2 DEF Asked, IsAnswer
  <2> QED
    BY <2>3
<1>8. OopsesHaveCauses'
  BY <1>1 DEF OopsesHaveCauses
<1>9. ModuleInv' /\ WriteInv' /\ AloneInv' /\ ShownInv' /\ CrashesHaveCauses'
  BY PtreeKept
<1> QED
  BY <1>5, <1>6, <1>7, <1>8, <1>9 DEF KernelInv

\* A step of a read concerns the reader alone.
LEMMA ReaderStep ==
  ASSUME KernelInv, NEW c \in Reading, UNCHANGED <<task, met, ptreevars>>,
         rpc' \in [Callers -> {"idle", "found", "mm"}],
         own' \in [Callers -> Known \cup {NULL}],
         ret' \in [Callers -> {0, 1, EINVAL}],
         packet' \in [Callers -> [pid : Pids \cup {NULL}, vaddr : Addresses \cup {0}, paddr : Nat]],
         \A d \in Callers \ {c} :
           rpc'[d] = rpc[d] /\ own'[d] = own[d] /\ ret'[d] = ret[d] /\ packet'[d] = packet[d],
         packet'[c].pid = packet[c].pid, packet'[c].vaddr = packet[c].vaddr,
         rpc'[c] \in {"idle", "mm"},
         rpc'[c] = "mm" => own'[c] # NULL /\ own'[c] \in Asked(c),
         rpc'[c] = "idle" => AnswerOK(c)',
         OopsesHaveCauses'
  PROVE  KernelInv'
<1> USE DEF ptreevars
<1>1. c \in Callers /\ rpc[c] # "idle" /\ \A d \in Callers \ {c} : d \in Reading' <=> d \in Reading
  BY DEF Reading
<1>2. Types'
  <2>1. \A d \in Callers : wpc'[d] = "idle" \/ rpc'[d] = "idle"
    BY <1>1 DEF KernelInv, Types
  <2> QED
    BY <2>1 DEF KernelInv, Types
<1>3. ReadInv'
  BY <1>1 DEF KernelInv, ReadInv, Asked
<1>4. TranslationIsRight'
  <2> SUFFICES ASSUME NEW d \in Callers, rpc'[d] = "idle", ret'[d] # 0
               PROVE  \E t \in Asked(d)' : IsAnswer(d, t)'
    BY DEF TranslationIsRight
  <2>1. CASE d = c
    BY <2>1 DEF AnswerOK
  <2>2. CASE d # c
    <3>1. /\ rpc[d] = "idle" /\ ret[d] # 0 /\ packet'[d] = packet[d] /\ ret'[d] = ret[d]
      BY <2>2
    <3>2. PICK t \in Asked(d) : IsAnswer(d, t)
      BY <3>1 DEF KernelInv, TranslationIsRight
    <3>3. t \in Asked(d)' /\ IsAnswer(d, t)'
      BY <3>1, <3>2 DEF Asked, IsAnswer
    <3> QED
      BY <3>3
  <2> QED
    BY <2>1, <2>2
<1>5. ModuleInv' /\ WriteInv' /\ AloneInv' /\ ShownInv' /\ CrashesHaveCauses'
  BY PtreeKept
<1> QED
  BY <1>2, <1>3, <1>4, <1>5 DEF KernelInv

LEMMA ReadStep ==
  ASSUME KernelInv, oops = "none", NEW c \in Callers, Read(c), UNCHANGED ptreevars
  PROVE  KernelInv'
<1>1. /\ c \in Reading /\ rpc[c] \in {"found", "mm"}
      /\ packet[c].pid \in Pids /\ packet[c].vaddr \in Addresses
      /\ task \in Known \cup {NULL} /\ own[c] \in Known \cup {NULL}
      /\ own[c] \in Asked(c)
      /\ task \in met[c] \/ (met[c] = {} /\ task = Task(packet[c].pid))
      /\ rpc \in [Callers -> {"idle", "found", "mm"}]
      /\ own \in [Callers -> Known \cup {NULL}]
      /\ ret \in [Callers -> {0, 1, EINVAL}]
      /\ packet \in [Callers -> [pid : Pids \cup {NULL}, vaddr : Addresses \cup {0}, paddr : Nat]]
  BY DEF Read, TestTask, Translate, Reading, KernelInv, ReadInv, Types
<1>2. ASSUME NEW t \in {task, own[c]}
      PROVE  t \in Asked(c)
  BY <1>1, <1>2 DEF Asked
<1>3. ASSUME NEW r \in {1, EINVAL}, Returns(c, r), UNCHANGED <<task, met, oops>>,
             AnswerOK(c)',
             packet' = packet \/ \E w \in Nat : packet' = [packet EXCEPT ![c].paddr = w]
      PROVE  KernelInv'
  <2>1. /\ ret' \in [Callers -> {0, 1, EINVAL}] /\ rpc' \in [Callers -> {"idle", "found", "mm"}]
        /\ own' \in [Callers -> Known \cup {NULL}] /\ rpc'[c] = "idle"
        /\ \A d \in Callers \ {c} : rpc'[d] = rpc[d] /\ own'[d] = own[d] /\ ret'[d] = ret[d]
    BY <1>1, <1>3 DEF Returns
  <2>2. /\ packet' \in [Callers -> [pid : Pids \cup {NULL}, vaddr : Addresses \cup {0}, paddr : Nat]]
        /\ \A d \in Callers \ {c} : packet'[d] = packet[d]
        /\ packet'[c].pid = packet[c].pid /\ packet'[c].vaddr = packet[c].vaddr
    BY <1>1, <1>3
  <2>3. OopsesHaveCauses'
    BY <1>3 DEF OopsesHaveCauses
  <2> QED
    BY <1>1, <1>3, <2>1, <2>2, <2>3, ReaderStep
<1>4. CASE TestTask(c)
  <2>1. PICK t \in {task, own[c]} :
          /\ IF t = NULL THEN Returns(c, EINVAL)
             ELSE /\ rpc' = [rpc EXCEPT ![c] = "mm"] /\ own' = [own EXCEPT ![c] = t]
                  /\ UNCHANGED ret
          /\ UNCHANGED <<task, packet, met, oops>>
    BY <1>4 DEF TestTask
  <2>2. CASE t = NULL
    <3>1. Returns(c, EINVAL)
      BY <2>1, <2>2
    <3>2. AnswerOK(c)'
      <4>1. ret'[c] = EINVAL /\ NULL \in Asked(c)'
        BY <1>1, <1>2, <2>1, <2>2, <3>1 DEF Returns, Asked
      <4> QED
        BY <4>1 DEF AnswerOK, IsAnswer
    <3> QED
      BY <1>3, <2>1, <3>1, <3>2
  <2>3. CASE t # NULL
    <3>1. /\ rpc' = [rpc EXCEPT ![c] = "mm"] /\ own' = [own EXCEPT ![c] = t] /\ UNCHANGED ret
          /\ t \in Asked(c)
      BY <1>2, <2>1, <2>3
    <3>2. OopsesHaveCauses'
      BY <2>1 DEF OopsesHaveCauses
    <3> QED
      BY <1>1, <2>1, <2>3, <3>1, <3>2, ReaderStep
  <2> QED
    BY <2>2, <2>3
<1>5. CASE Translate(c)
  <2>1. rpc[c] = "mm" /\ own[c] # NULL /\ UNCHANGED <<task, met>>
    BY <1>1, <1>5 DEF Translate, KernelInv, ReadInv
  \* The oops.
  <2>4. ASSUME UNCHANGED <<rpc, packet, ret, own>>, OopsesHaveCauses' PROVE KernelInv'
    <3>1. Types'
      BY <2>1, <2>4 DEF KernelInv, Types, ptreevars
    <3>2. ReadInv' /\ TranslationIsRight'
      BY <2>1, <2>4 DEF KernelInv, ReadInv, TranslationIsRight, Reading, Asked, IsAnswer
    <3> QED
      BY <2>4, <3>1, <3>2, PtreeKept DEF KernelInv
  <2>2. ASSUME NEW t \in {task, own[c]}, t = NULL \/ Mm[t] = NULL,
               oops' = IF t = NULL THEN "null task" ELSE "null mm",
               UNCHANGED <<rpc, packet, ret, own>>
        PROVE  KernelInv'
    <3>1. CASE t = NULL
      <4>1. NULL \in met[c] /\ oops' = "null task"
        <5>1. task = NULL /\ own[c] # NULL
          BY <2>1, <3>1
        <5>2. ~ (met[c] = {} /\ task = Task(packet[c].pid))
          BY <1>1, <5>1 DEF Asked
        <5> QED
          BY <1>1, <2>2, <3>1, <5>1, <5>2
      <4>3. OopsesHaveCauses'
        BY <1>1, <2>1, <2>2, <4>1 DEF OopsesHaveCauses, Reading
      <4> QED
        BY <2>2, <2>4, <4>3
    <3>2. CASE t # NULL
      <4>1. oops' = "null mm" /\ t \in Asked(c) \ {NULL} /\ Mm[t] = NULL
        BY <1>2, <2>2, <3>2
      <4>3. OopsesHaveCauses'
        BY <1>1, <2>1, <2>2, <4>1 DEF OopsesHaveCauses, Reading, Asked
      <4> QED
        BY <2>2, <2>4, <4>3
    <3> QED
      BY <3>1, <3>2
  <2>3. ASSUME NEW t \in {task, own[c]}, t # NULL, Mm[t] # NULL, NEW w,
               w = Walk(Mm[t], packet[c].vaddr), UNCHANGED oops,
               IF w = EINVAL THEN Returns(c, EINVAL) /\ UNCHANGED packet
               ELSE packet' = [packet EXCEPT ![c].paddr = w] /\ Returns(c, 1)
        PROVE  KernelInv'
    <3>0. t \in Known
      BY <1>1, <2>3
    <3>1. PICK e : e = Mm[t][packet[c].vaddr \div PAGE_SIZE]
      OBVIOUS
    <3>2. /\ w = EINVAL \/ w \in Nat
          /\ InMemory(e) => /\ w # EINVAL
                            /\ w = (e.pte.frame * PAGE_SIZE) + (packet[c].vaddr % PAGE_SIZE)
          /\ w # EINVAL => Reached(e) /\ pte_val(e) # 0
      BY <1>1, <2>3, <3>0, <3>1, WalkIsRight
    <3>3. ASSUME packet'[c].vaddr = packet[c].vaddr, packet'[c].pid = packet[c].pid,
                 w = EINVAL => ret'[c] = EINVAL,
                 w # EINVAL => ret'[c] = 1 /\ packet'[c].paddr = w
          PROVE  AnswerOK(c)'
      <4>1. t \in Asked(c)'
        BY <1>2, <2>1, <2>3, <3>3 DEF Asked
      <4>2. IsAnswer(c, t)'
        BY <2>3, <3>1, <3>2, <3>3 DEF IsAnswer
      <4> QED
        BY <4>1, <4>2 DEF AnswerOK
    <3>4. CASE w = EINVAL
      <4>1. Returns(c, EINVAL) /\ packet' = packet
        BY <2>3, <3>4
      <4>2. ret'[c] = EINVAL
        BY <1>1, <4>1 DEF Returns, Reading
      <4>3. AnswerOK(c)'
        BY <3>3, <3>4, <4>1, <4>2
      <4> QED
        BY <1>3, <2>1, <2>3, <4>1, <4>3
    <3>5. CASE w # EINVAL
      <4>1. Returns(c, 1) /\ packet' = [packet EXCEPT ![c].paddr = w]
        BY <2>3, <3>5
      <4>2. ret'[c] = 1 /\ packet'[c] = [packet[c] EXCEPT !.paddr = w]
        BY <1>1, <4>1 DEF Returns, Reading
      <4>3. /\ packet'[c].vaddr = packet[c].vaddr /\ packet'[c].pid = packet[c].pid
            /\ packet'[c].paddr = w
        <5>1. packet[c] \in [pid : Pids \cup {NULL}, vaddr : Addresses \cup {0}, paddr : Nat]
          BY <1>1 DEF Reading
        <5> QED
          BY <4>2, <5>1
      <4>4. AnswerOK(c)'
        BY <3>3, <3>5, <4>2, <4>3
      <4> QED
        BY <1>1, <1>3, <2>1, <2>3, <3>2, <3>5, <4>1, <4>4
    <3> QED
      BY <3>4, <3>5
  <2> QED
    BY <1>5, <2>2, <2>3 DEF Translate
<1> QED
  BY <1>4, <1>5 DEF Read

----------------------------------------------------------------------------
LEMMA KernelInvInit == Init => KernelInv
<1> SUFFICES ASSUME Init PROVE KernelInv
  OBVIOUS
<1> USE DEF Init, PtreeInit, PaddrInit
<1>1. Task(NULL) = NULL /\ Writing = {} /\ Reading = {}
  BY DEF Task, Writing, Reading
<1>2. Types
  <2>1. << >> \in Seq(Procs) /\ Len(<< >>) <= DataSize
    OBVIOUS
  <2>2. packet \in [Callers -> [pid : Pids \cup {NULL}, vaddr : Addresses \cup {0}, paddr : Nat]]
    OBVIOUS
  <2>3. /\ wpc \in [Callers -> WritePlaces] /\ rpc \in [Callers -> {"idle", "found", "mm"}]
        /\ temp \in [Callers -> Seq(Procs)] /\ data \in Seq(Procs) /\ Len(data) <= DataSize
        /\ \A c \in Callers : wpc[c] = "idle"
    BY <2>1 DEF WritePlaces
  <2>4. /\ pid \in [Callers -> Pids \cup {NULL}] /\ reg \in [Callers -> Procs \cup {NULL}]
        /\ alone \in [Callers -> BOOLEAN] /\ met \in [Callers -> SUBSET (Known \cup {NULL})]
        /\ own \in [Callers -> Known \cup {NULL}] /\ ret \in [Callers -> {0, 1, EINVAL}]
    OBVIOUS
  <2>5. /\ mod = "unloaded" /\ input \in BOOLEAN /\ allocated \in BOOLEAN
        /\ curr = NULL /\ task = NULL
    OBVIOUS
  <2> QED
    BY <2>2, <2>3, <2>4, <2>5 DEF Types
<1>3. ModuleInv /\ WriteInv /\ AloneInv /\ ShownInv
  BY <1>1 DEF ModuleInv, WriteInv, AloneInv, ShownInv
<1>4. ReadInv
  BY <1>1 DEF ReadInv
<1>5. TranslationIsRight /\ CrashesHaveCauses /\ OopsesHaveCauses
  BY DEF TranslationIsRight, CrashesHaveCauses, OopsesHaveCauses
<1> QED
  BY <1>2, <1>3, <1>4, <1>5 DEF KernelInv

LEMMA KernelInvNext ==
  KernelInv /\ [Next]_<<ptreevars, paddrvars, calls>> => KernelInv'
<1> SUFFICES ASSUME KernelInv, [Next]_<<ptreevars, paddrvars, calls>> PROVE KernelInv'
  OBVIOUS
<1>1. CASE UNCHANGED <<ptreevars, paddrvars, calls>>
  <2>1. Types'
    BY <1>1 DEF KernelInv, Types, ptreevars, paddrvars
  <2> QED
    BY <1>1, <2>1, PtreeKept, PaddrKept DEF KernelInv
<1>2. CASE Next
  <2>1. crash = "none" /\ oops = "none"
    BY <1>2 DEF Next
  <2>2. CASE Module /\ UNCHANGED <<paddrvars, calls>>
    BY <2>1, <2>2, ModuleStep
  <2>3. ASSUME NEW c \in Callers, StartWrite(c) PROVE KernelInv'
    BY <2>1, <2>3, WritePidStep, WriteToNothingStep DEF StartWrite
  <2>4. ASSUME NEW c \in Callers, StartRead(c) PROVE KernelInv'
    BY <2>1, <2>4, ReadOutputStep DEF StartRead
  <2>5. ASSUME NEW c \in Callers, Write(c), UNCHANGED paddrvars PROVE KernelInv'
    BY <2>1, <2>5, WriteStep
  <2>6. ASSUME NEW c \in Callers, Read(c), UNCHANGED ptreevars PROVE KernelInv'
    BY <2>1, <2>6, ReadStep
  <2> QED
    BY <1>2, <2>2, <2>3, <2>4, <2>5, <2>6 DEF Next
<1> QED
  BY <1>1, <1>2

LEMMA KernelInvAlways == Spec => []KernelInv
  BY KernelInvInit, KernelInvNext, PTL DEF Spec

\* However the calls overlap, the kernel faults for the reasons given and for no
\* other, and data is there while a write uses it (dbfs_ptree.c:33-59, 85-106;
\* dbfs_paddr.c:48-55).
THEOREM Faults == Spec => []FaultsHaveCauses
<1>1. KernelInv => FaultsHaveCauses
  <2> SUFFICES ASSUME KernelInv PROVE TypeOK
    BY DEF KernelInv, FaultsHaveCauses
  <2> QED
    BY DEF KernelInv, Types, ModuleInv, TypeOK, Procs, Known, Writing
<1> QED
  BY <1>1, KernelInvAlways, PTL

\* The blob that a write leaves which no other overlapped is the tree of its
\* process, and stays it until data is overwritten (dbfs_ptree.c:33-59).
THEOREM DataIsATree == Spec => []QuietDataIsATree
<1>1. KernelInv => QuietDataIsATree
  BY DEF KernelInv, ShownInv, QuietDataIsATree
<1> QED
  BY <1>1, KernelInvAlways, PTL

\* A read is answered for its own process or for one that a read begun
\* meanwhile asked for, with the frame of every page in memory and -EINVAL where
\* there is nothing (dbfs_paddr.c:37-89, app.c:43).
THEOREM Translation == Spec => []TranslationIsRight
<1>1. KernelInv => TranslationIsRight
  BY DEF KernelInv
<1> QED
  BY <1>1, KernelInvAlways, PTL
=============================================================================
