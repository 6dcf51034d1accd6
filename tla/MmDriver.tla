------------------------------- MODULE MmDriver -------------------------------
(***************************************************************************)
(* mdriver around the allocator of mm.c: the traces exercise the           *)
(* allocator, and the driver's own books are compared with its heap.       *)
(***************************************************************************)
EXTENDS Mm, Driver

(* The call of mm.c for a request, and the start of a pass.                *)
Answer(op) ==
  CASE op.type = "ALLOC" -> mm_malloc(heap, op.size)
    [] op.type = "REALLOC" -> mm_realloc(heap, blocks[op.index], op.size)
    [] op.type = "FREE" -> [p |-> NULL, heap |-> mm_free(heap, blocks[op.index])]

Fresh == mm_init(mem_reset_brk(heap))

Valid(op) ==
  /\ phase = "valid" /\ used + Len(trace) < MaxOps
  /\ \E r \in {Answer(op)} :
       ValidAlloc(op, r) \/ ValidRealloc(op, r) \/ ValidFree(op, r.heap)

Later ==
  /\ phase \in {"util", "speed"} /\ i < Len(trace)
  /\ \E r \in {Answer(trace[i + 1])} : Replay(r)

Main ==
  \/ \E r \in {Fresh} : StartValid(r) \/ StartUtil(r) \/ StartSpeed(r)
  \/ \E op \in Requests : Valid(op)
  \/ Later
  \/ EndTrace
  \/ Report

Ended == phase \in {"perf index", "errors", "exit"} /\ UNCHANGED vars

Next == Main \/ Ended

Spec == Init /\ [][Next]_vars

-------------------------------------------------------------------------------

Started == phase \in {"valid", "util", "speed"}
LiveNow == IF Started THEN Live(i) ELSE {}

(* Every variable keeps its type.                                          *)
TypeOK ==
  /\ heap.brk \in mem_start_brk .. mem_max_addr
  /\ phase \in {"next trace", "valid", "util", "speed", "perf index", "errors", "exit"}
  /\ i \in 0 .. Len(trace) /\ used + Len(trace) <= 2 * MaxOps
  /\ round \in 0 .. Rounds
  /\ \A id \in Ids : blocks[id] \in Words \cup {NULL}
  /\ total >= 0 /\ max_total >= total
  /\ Len(stats) <= NumTraces

(* The heap of mm.c is whole after every request: mm_check finds no fault, *)
(* the blocks from the prologue to the epilogue have equal headers and     *)
(* footers and fill the heap, and the links of the free list agree both    *)
(* ways, through all four cases of coalesce and the splitting in place.    *)
HeapIsWhole ==
  Started =>
    /\ mm_check(heap)
    /\ LET all == Blocks(heap)
       IN  /\ \A b \in all :
                /\ GET_SIZE(heap, HDRP(b)) >= 2 * DSIZE
                /\ GET(heap, HDRP(b)) = GET(heap, FTRP(heap, b))
           /\ \E b \in all : NEXT_BLKP(heap, b) = heap.brk
    /\ PREV_FREE_BLKP(heap, heap.head) = NULL
    /\ \A b \in FreeList(heap) :
         PREV_FREE_BLKP(heap, NEXT_FREE_BLKP(heap, b)) = b

(* Coalescing leaves nothing behind: once all blocks are freed the heap is *)
(* one free block again, whatever was allocated before.                    *)
AllFreedIsOneBlock ==
  Started /\ Live(i) = {} =>
    /\ \A b \in Blocks(heap) : GET_ALLOC(heap, HDRP(b)) = 1 => b = heap.listp
    /\ \A b, c \in FreeList(heap) : b = c

(* The allocated blocks of the heap are exactly those of the trace: none   *)
(* is lost by realloc or free, none is marked free while in use.           *)
NoBlockIsLost ==
  Started =>
    {b \in Blocks(heap) : GET_ALLOC(heap, HDRP(b)) = 1}
      = {heap.listp} \cup {blocks[id] : id \in LiveNow}

(* The heap as a whole: types, its shape, and the trace's blocks in it     *)
(* (mm.c:101-463).                                                         *)
HeapIsRight == TypeOK /\ HeapIsWhole /\ NoBlockIsLost /\ AllFreedIsOneBlock

(* The range list of the first pass holds the payload of every live block  *)
(* and nothing else, whatever was freed, moved or left by a failed trace.  *)
RangesAreLive ==
  phase = "valid" =>
    ranges = {Extent(blocks[id], block_sizes[id]) : id \in LiveNow}

(* What mdriver holds against this allocator: an error is a heap that is   *)
(* used up, or a block number whose low byte reads back as a negative      *)
(* char; and a trace that passed the check is measured to the end.         *)
ErrorsAreNotTheAllocators ==
  /\ msg \in {"none", "mm_init failed", "mm_malloc failed", "mm_realloc failed",
              "not preserved"}
  /\ (phase = "next trace" /\ stats # << >> /\ msg = "not preserved") =>
       \/ stats[Len(stats)]
       \/ LowByte(trace[Len(trace)].index) >= 128
  /\ phase # "exit"

(* The utilization eval_mm_util reports never exceeds one.  eval_mm_speed  *)
(* starts over with a heap of its own, which max_total says nothing about. *)
UtilizationIsAShare == phase = "util" => max_total <= mem_heapsize(heap)

(* The driver's own books agree with the heap it drives (mdriver.c:375-465,*)
(* 699-779).                                                               *)
BooksAreRight == RangesAreLive /\ UtilizationIsAShare

(* mm.c under mdriver behaves as the allocator of Allocator: blocks stay   *)
(* apart and keep their contents, through coalescing and splitting.        *)
SizeNow(id) ==
  LET k == CHOOSE k \in 1 .. i :
             /\ trace[k].index = id
             /\ \A l \in k + 1 .. i : trace[l].index # id
  IN  trace[k].size

BlockOf(id) ==
  LET size == SizeNow(id)
  IN  [lo |-> blocks[id], size |-> size,
       data |-> [c \in 0 .. (size \div WSIZE) - 1 |-> GET(heap, blocks[id] + WSIZE * c)]]

A == INSTANCE Allocator WITH
       Unit <- WSIZE, Alignment <- 8, Low <- mem_start_brk, High <- mem_max_addr,
       live <- [id \in LiveNow |-> BlockOf(id)]

IsAllocator == A!Spec
===============================================================================
