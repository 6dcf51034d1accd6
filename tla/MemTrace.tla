------------------------------- MODULE MemTrace -------------------------------
(***************************************************************************)
(* The memory tracer of the link lab (part1, part2 and part3 memtrace.c):  *)
(* a preloaded library whose malloc, calloc, realloc and free call the C   *)
(* library's and keep statistics.  Part 2 adds the list of blocks, part 3  *)
(* the detection of bad frees.  The traced program calls in any order, and *)
(* may free what it should not; the C library may refuse any request, the  *)
(* tracer's own for its list and its items included.                       *)
(***************************************************************************)
EXTENDS MemList, FiniteSetsExt

CONSTANTS Addr,        \* addresses the C library may return
          Requests,    \* sizes a program asks for
          SizeRange,   \* size_t values are below it
          MaxCalls,    \* bound: requests for memory
          Below        \* bound: how far below zero a count is followed

ASSUME MemTraceAssumption ==
  /\ Addr \subseteq Nat \ {NULL} /\ IsFiniteSet(Addr)
  /\ SizeRange \in Nat /\ Requests \subseteq 1 .. SizeRange - 1
  /\ MaxCalls \in Nat /\ Below \in Nat

VARIABLES part,      \* which of the three libraries is loaded
          libc,      \* the C library: the size of every allocated block
          list,      \* the list of blocks
          n_alloc,   \* n_malloc + n_calloc + n_realloc
          n_allocb,
          n_freeb,
          status,    \* of the process
          last,      \* the last call, and what the log says of it
          refused,   \* some request of the program was refused
          lacks,     \* what the tracer itself was refused: "list", "item"
          resized    \* bytes by which blocks grew in place

vars == <<part, libc, list, n_alloc, n_allocb, n_freeb, status, last, refused, lacks, resized>>

Live == DOMAIN libc
Without(p) == [a \in Live \ {p} |-> libc[a]]
With(p, size) == [a \in Live \cup {p} |-> IF a = p THEN size ELSE libc[a]]

Call(f, ptr, says) == [call |-> f, ptr |-> ptr, says |-> says]

(* init: a new list, unless its dummy element is refused (then list is     *)
(* NULL, and has no item), and all statistics zero.                        *)
Init ==
  /\ part \in 1 .. 3
  /\ libc = [a \in {} |-> 0] /\ list = new_list
  /\ n_alloc = 0 /\ n_allocb = 0 /\ n_freeb = 0
  /\ status = "running" /\ last = Call("none", NULL, "none")
  /\ refused = FALSE /\ lacks \in {{}, {"list"}} /\ resized = 0

Calling(f, ptr, says) ==
  /\ status = "running" /\ last' = Call(f, ptr, says) /\ UNCHANGED part

(* Recorded in the list l whatever the C library answered, NULL included.  *)
Record(l, p, bytes) ==
  /\ list' = IF part = 1 \/ "list" \in lacks THEN l ELSE alloc(l, p, bytes)
  /\ n_alloc' = n_alloc + 1 /\ n_allocb' = n_allocb + bytes
  /\ UNCHANGED lacks

(* alloc asks for an element on every call and writes through the answer:  *)
(* when it is NULL the process fails there, before anything is counted.    *)
NoItem(l) ==
  /\ part > 1 /\ "list" \notin lacks
  /\ lacks' = lacks \cup {"item"} /\ status' = "crashed" /\ list' = l
  /\ UNCHANGED <<n_alloc, n_allocb, n_freeb>>

-------------------------------------------------------------------------------

malloc(size) ==
  \E p \in (Addr \ Live) \cup {NULL} :
    /\ Calling("malloc", p, "none")
    /\ libc' = IF p = NULL THEN libc ELSE With(p, size)
    /\ refused' = (refused \/ p = NULL)
    /\ \/ Record(list, p, size) /\ UNCHANGED <<n_freeb, status>>
       \/ NoItem(list)
    /\ UNCHANGED resized

Product(nmemb, size) == (nmemb * size) % SizeRange

(* The wrapper multiplies in size_t; the C library refuses what overflows. *)
calloc(nmemb, size) ==
  LET bytes == Product(nmemb, size)
  IN  \E p \in (IF bytes = nmemb * size THEN Addr \ Live ELSE {}) \cup {NULL} :
        /\ Calling("calloc", p, "none")
        /\ libc' = IF p = NULL THEN libc ELSE With(p, bytes)
        /\ refused' = (refused \/ p = NULL)
        /\ \/ Record(list, p, bytes) /\ UNCHANGED <<n_freeb, status>>
           \/ NoItem(list)
        /\ UNCHANGED resized

(* What realloc of the C library does: a block for NULL; a free for size   *)
(* zero; else in place, to a new place, or refused.                        *)
LibcRealloc(ptr, size, p) ==
  \/ /\ ptr # NULL /\ size = 0 /\ p = NULL
     /\ libc' = Without(ptr) /\ UNCHANGED <<refused, resized>>
  \/ /\ size > 0 /\ p = NULL
     /\ refused' = TRUE /\ UNCHANGED <<libc, resized>>
  \/ /\ ptr # NULL /\ size > 0 /\ p = ptr
     /\ libc' = With(p, size) /\ resized' = resized + size - libc[ptr]
     /\ UNCHANGED refused
  \/ /\ size > 0 /\ p \in Addr \ Live
     /\ libc' = [a \in (Live \cup {p}) \ {ptr} |-> IF a = p THEN size ELSE libc[a]]
     /\ UNCHANGED <<refused, resized>>

(* The list after realloc's dealloc, and the size of the item it found,    *)
(* read after the new block is recorded.                                   *)
Dealloced(ptr) ==
  LET k == Where(list, ptr) IN IF k = 0 THEN list ELSE dealloc(list, k)

FreedSize(l, ptr) == l[Where(l, ptr)].size

(* There is no item to read for a block the list does not know.            *)
realloc(ptr, size) ==
  \E p \in Addr \cup {NULL} :
    /\ Calling("realloc", ptr, "none")
    /\ LibcRealloc(ptr, size, p)
    /\ \/ /\ part = 1
          /\ Record(list, p, size) /\ UNCHANGED <<n_freeb, status>>
       \/ NoItem(Dealloced(ptr))
       \/ /\ part > 1 /\ Where(list, ptr) = 0
          /\ Record(list, p, size)
          /\ status' = "crashed" /\ UNCHANGED n_freeb
       \/ /\ part > 1 /\ Where(list, ptr) # 0
          /\ Record(Dealloced(ptr), p, size)
          /\ n_freeb' = n_freeb + FreedSize(list', ptr)
          /\ UNCHANGED status

(* free of the C library aborts the process on a pointer it does not know. *)
LibcFree(ptr) ==
  /\ libc' = IF ptr \in Live THEN Without(ptr) ELSE libc
  /\ status' = IF ptr \in Live \cup {NULL} THEN status ELSE "aborted"

Freed(ptr, k) ==
  /\ LibcFree(ptr) /\ list[k].cnt > -Below
  /\ list' = dealloc(list, k) /\ n_freeb' = n_freeb + list[k].size

free1(ptr) ==
  /\ part = 1 /\ Calling("free", ptr, "none")
  /\ LibcFree(ptr) /\ UNCHANGED <<list, n_freeb>>

free2(ptr) ==
  LET k == Where(list, ptr)
  IN  /\ part = 2 /\ Calling("free", ptr, "none")
      /\ IF k # 0 THEN Freed(ptr, k)
         ELSE status' = "crashed" /\ UNCHANGED <<libc, list, n_freeb>>

\* (a bug to catch) a block with one count is taken for a freed one
VerdictLate(ptr, k) ==
  IF ptr = NULL \/ (k # 0 /\ list[k].cnt <= 1) THEN "double free"
  ELSE IF k = 0 THEN "illegal free" ELSE "none"

(* The search begins at the dummy element, which holds a null pointer;     *)
(* without it nothing is found.                                            *)
Verdict(ptr, k) ==
  IF "list" \in lacks THEN "illegal free"
  ELSE IF ptr = NULL THEN (IF dummy.cnt = 0 THEN "double free" ELSE "none")
  ELSE IF k = 0 THEN "illegal free"
  ELSE IF list[k].cnt = 0 THEN "double free"
  ELSE "none"

free3(ptr) ==
  LET k == Where(list, ptr)
  IN  /\ part = 3 /\ Calling("free", ptr, Verdict(ptr, k))
      /\ IF Verdict(ptr, k) = "none" THEN Freed(ptr, k)
         ELSE UNCHANGED <<libc, status, list, n_freeb>>

free(ptr) ==
  /\ free1(ptr) \/ free2(ptr) \/ free3(ptr)
  /\ UNCHANGED <<n_alloc, n_allocb, refused, lacks, resized>>

(* The blocks fini lists as not freed, and the average it prints.          *)
NonFreed == {list[k] : k \in {j \in DOMAIN list : list[j].cnt > 0}}
avg_allocb == IF n_alloc > 0 THEN n_allocb \div n_alloc ELSE 0

(* Parts 2 and 3 walk the list from its dummy element.                     *)
fini ==
  /\ Calling("fini", NULL, "none")
  /\ status' = IF part > 1 /\ "list" \in lacks THEN "crashed" ELSE "stopped"
  /\ UNCHANGED <<libc, list, n_alloc, n_allocb, n_freeb, refused, lacks, resized>>

Ended == status # "running" /\ UNCHANGED vars

Next ==
  \/ n_alloc < MaxCalls /\ \E size \in Requests : malloc(size)
  \/ n_alloc < MaxCalls /\ \E nmemb, size \in Requests : calloc(nmemb, size)
  \/ n_alloc < MaxCalls
     /\ \E ptr \in Live \cup {NULL}, size \in Requests \cup {0} : realloc(ptr, size)
  \/ \E ptr \in Addr \cup {NULL} : free(ptr)
  \/ fini
  \/ Ended

Spec == Init /\ [][Next]_vars

-------------------------------------------------------------------------------

(* Every variable keeps its type.                                          *)
TypeOK ==
  /\ part \in 1 .. 3
  /\ Live \subseteq Addr
  /\ \A k \in DOMAIN list :
       /\ list[k].ptr \in Addr \cup {NULL}
       /\ list[k].size \in 0 .. SizeRange - 1
  /\ {n_allocb, n_freeb, avg_allocb} \subseteq Nat
  /\ status \in {"running", "stopped", "crashed", "aborted"}

(* The list is the set of live blocks: a block is counted, with its size,  *)
(* exactly while the C library has it allocated, through reuse of its      *)
(* address and resizing; at fini the blocks listed as not freed are those  *)
(* the program leaks.                                                      *)
ListIsLive ==
  part > 1 /\ ~ refused /\ lacks = {} /\ status \in {"running", "stopped"} =>
    {it \in NonFreed : it.ptr # NULL} = {Item(p, libc[p]) : p \in Live}

(* The searches of alloc and find stop at the first item not before their  *)
(* address, dealloc's does not: they agree, since the list keeps its order *)
(* and holds no address twice.                                             *)
FindAgrees == \A p \in Addr \cup {NULL} : find(list, p) = Where(list, p)

(* The list keeps its types and its order, and says what is allocated      *)
(* (memlist.c:54-121).                                                     *)
ListIsRight == TypeOK /\ FindAgrees /\ ListIsLive

(* The statistics account for every byte: what was allocated and not freed *)
(* is live, but for the bytes of blocks resized in place, which realloc    *)
(* counts as freed with their new size.                                    *)
BytesBalance ==
  part > 1 /\ ~ refused /\ lacks = {} /\ status = "running" =>
    n_allocb - n_freeb + resized = MapThenSumSet(LAMBDA p : libc[p], Live)

(* Part 3 never hands the C library a pointer it would abort on, whatever  *)
(* the program frees, until a realloc is refused.                          *)
BadFreesAreStopped == part = 3 /\ ~ refused => status # "aborted"

(* A free that part 3 reports, and does not pass on, is not one of a live  *)
(* block, until a realloc is refused; a block it calls illegal never was   *)
(* allocated, whatever the program was refused, unless the tracer has no   *)
(* list to look in.                                                        *)
ReportsAreTrue ==
  last.call = "free" =>
    /\ last.says = "double free" /\ ~ refused => last.ptr \notin Live
    /\ last.says = "illegal free" /\ "list" \notin lacks =>
         last.ptr \notin Live /\ \A k \in DOMAIN list : list[k].ptr # last.ptr

(* Part 3 tells good frees from bad ones (part3/memtrace.c:158-190).       *)
VerdictsAreRight == BadFreesAreStopped /\ ReportsAreTrue

(* The tracer itself fails the program only by reading the item of a block *)
(* it has no item for (part 2 on a bad free, parts 2 and 3 on              *)
(* realloc(NULL, n), which C allows); in the very call for which the C     *)
(* library refuses it an item; or, having been refused its list, by the    *)
(* first call that reads an item, which may be of a live block, or at the  *)
(* latest at fini.                                                         *)
CrashesAreMissingItems ==
  status = "crashed" =>
    /\ part > 1
    /\ \/ part = 2 /\ last.call = "free" /\ last.ptr \notin Live
       \/ last.call = "realloc" /\ last.ptr = NULL
       \/ lacks = {"item"} /\ last.call \in {"malloc", "calloc", "realloc"}
       \/ lacks = {"list"} /\ last.call \in {"realloc", "fini"}
       \/ lacks = {"list"} /\ part = 2 /\ last.call = "free"
===============================================================================
