------------------------------- MODULE AnyDriver -------------------------------
(***************************************************************************)
(* mdriver around an allocator of which nothing is known: it may answer a  *)
(* request with any address, may or may not copy on realloc, and may       *)
(* refuse.  What the driver accepts is then all that is certain.           *)
(***************************************************************************)
EXTENDS Driver

(* Addresses an allocator may answer: NULL, in the heap, or beyond it.     *)
Answers == {NULL} \cup Words \cup {mem_max_addr}

(* The heap after a call: larger perhaps, and the new block holds what the *)
(* old one held, or not.                                                   *)
Heaps(op, p) ==
  {[h EXCEPT !.brk = b] : h \in {heap, memset(heap, p, Fill(op.index), op.size)},
                          b \in {heap.brk, mem_max_addr}}

Fresh == {[p |-> p, heap |-> [mem_reset_brk(heap) EXCEPT !.brk = mem_max_addr]] :
            p \in {-1, 0}}

Valid(op) ==
  \E p \in Answers : \E h \in Heaps(op, p) :
    LET r == [p |-> p, heap |-> h]
    IN  ValidAlloc(op, r) \/ ValidRealloc(op, r) \/ ValidFree(op, h)

Later ==
  /\ i < Len(trace)
  /\ \E p \in Answers : \E h \in Heaps(trace[i + 1], p) :
       Replay([p |-> p, heap |-> h])

Main ==
  \/ \E r \in Fresh : StartValid(r) \/ StartUtil(r) \/ StartSpeed(r)
  \/ \E op \in Requests : Valid(op)
  \/ Later
  \/ EndTrace
  \/ Report

Ended == phase \in {"perf index", "errors", "exit"} /\ UNCHANGED vars

Next == Main \/ Ended

Spec == Init /\ [][Next]_vars

-------------------------------------------------------------------------------

Apart(r, s) == r.hi < s.lo \/ s.hi < r.lo

(* mdriver.c:409 claims of the blocks it accepts that no payload overlaps  *)
(* another; the ends alone are compared.                                   *)
PayloadsAreDisjoint == \A r, s \in ranges : r = s \/ Apart(r, s)

(* What the comparison of the ends does ensure: of two accepted payloads   *)
(* that meet, one lies strictly inside the other.                          *)
Inside(r, s) == s.lo < r.lo /\ r.hi < s.hi

PayloadsNest ==
  \A r, s \in ranges : r = s \/ Apart(r, s) \/ Inside(r, s) \/ Inside(s, r)
===============================================================================
