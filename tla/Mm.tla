---------------------------------- MODULE Mm ----------------------------------
(***************************************************************************)
(* The allocator of the malloc lab (mm.c): boundary tags, an explicit      *)
(* doubly linked free list, first fit, immediate coalescing.  Each C       *)
(* function is an operator on the heap of MemLib; what returns a pointer   *)
(* gives [p, heap].  The prologue block is allocated and ends the free     *)
(* list, so that no list is ever without an element.                       *)
(***************************************************************************)
EXTENDS MemLib

CONSTANT ChunkSize    \* CHUNKSIZE

ASSUME ChunkSizeAssumption ==
  ChunkSize \in Nat /\ ChunkSize % DSIZE = 0 /\ ChunkSize >= 2 * DSIZE

Larger(x, y) == IF x > y THEN x ELSE y
ALIGN(size) == size + ((-size) % DSIZE)

(* Headers and footers: a multiple of eight plus the allocated bit.        *)
GET_SIZE(h, a) == GET(h, a) - (GET(h, a) % DSIZE)
GET_ALLOC(h, a) == GET(h, a) % 2
HDRP(bp) == bp - WSIZE
FTRP(h, bp) == bp + GET_SIZE(h, HDRP(bp)) - DSIZE
NEXT_BLKP(h, bp) == bp + GET_SIZE(h, HDRP(bp))
PREV_BLKP(h, bp) == bp - GET_SIZE(h, bp - DSIZE)

NEXT_FREE_BLKP(h, bp) == GET(h, bp)
PREV_FREE_BLKP(h, bp) == GET(h, bp + WSIZE)

(* The header first: FTRP finds the footer through it.                     *)
Mark(h, bp, size, alloc) ==
  LET g == PUT(h, HDRP(bp), size + alloc) IN PUT(g, FTRP(g, bp), size + alloc)

-------------------------------------------------------------------------------

insert_free_block(h, bp) ==
  LET g == PUT(PUT(h, bp + WSIZE, NULL), bp, h.head)
  IN  [(IF h.head # NULL THEN PUT(g, h.head + WSIZE, bp) ELSE g)
         EXCEPT !.head = bp]

\* (a bug to catch) the next block keeps its link back
remove_free_blockOneWay(h, bp) ==
  LET prev == PREV_FREE_BLKP(h, bp)
  IN  IF prev # NULL THEN PUT(h, prev, NEXT_FREE_BLKP(h, bp))
                     ELSE [h EXCEPT !.head = NEXT_FREE_BLKP(h, bp)]

remove_free_block(h, bp) ==
  LET prev == PREV_FREE_BLKP(h, bp)
      g == IF prev # NULL THEN PUT(h, prev, NEXT_FREE_BLKP(h, bp))
                          ELSE [h EXCEPT !.head = NEXT_FREE_BLKP(h, bp)]
      next == NEXT_FREE_BLKP(g, bp)
  IN  IF next # NULL THEN PUT(g, next + WSIZE, PREV_FREE_BLKP(g, bp)) ELSE g

\* (a bug to catch) a free block before is left alone
coalesceNextOnly(h, bp) ==
  LET next == NEXT_BLKP(h, bp)
      next_free == GET_ALLOC(h, HDRP(next)) = 0
      size == GET_SIZE(h, HDRP(bp)) + GET_SIZE(h, HDRP(next))
      merged == IF next_free THEN Mark(remove_free_block(h, next), bp, size, 0)
                ELSE h
  IN  [p |-> bp, heap |-> insert_free_block(merged, bp)]

(* The block bp and its free neighbours become one block, at the head of   *)
(* the free list.                                                          *)
coalesce(h, bp) ==
  LET prev == PREV_BLKP(h, bp)
      next == NEXT_BLKP(h, bp)
      prev_free == GET_ALLOC(h, FTRP(h, prev)) = 0
      next_free == GET_ALLOC(h, HDRP(next)) = 0
      size == GET_SIZE(h, HDRP(bp))
              + (IF prev_free THEN GET_SIZE(h, HDRP(prev)) ELSE 0)
              + (IF next_free THEN GET_SIZE(h, HDRP(next)) ELSE 0)
      g == IF prev_free THEN remove_free_block(h, prev) ELSE h
      k == IF next_free THEN remove_free_block(g, next) ELSE g
      p == IF prev_free THEN prev ELSE bp
      merged == IF prev_free \/ next_free THEN Mark(k, p, size, 0) ELSE k
  IN  [p |-> p, heap |-> insert_free_block(merged, p)]

(* words, rounded up to an even number, from mem_sbrk: the old epilogue    *)
(* becomes the new block's header.                                         *)
extend_heap(h, words) ==
  LET size == WSIZE * (words + (words % 2))
      r == mem_sbrk(h, size)
      g == Mark(r.heap, r.p, size, 0)
  IN  IF r.p = -1 THEN [p |-> NULL, heap |-> h]
      ELSE coalesce(PUT(g, HDRP(NEXT_BLKP(g, r.p)), 1), r.p)

\* No list has more elements than double words fit into the heap.
MaxSteps == MaxHeap \div DSIZE
Outside(bp) == ~ {HDRP(bp), bp} \subseteq Words

(* The first block of the free list that is large enough; the prologue     *)
(* stops the search.                                                       *)
find_fit(h, size) ==
  LET fit[n \in 0 .. MaxSteps] ==
        [bp \in Int |->
           IF n = 0 \/ Outside(bp) THEN NULL
           ELSE IF GET_ALLOC(h, HDRP(bp)) # 0 THEN NULL
           ELSE IF GET_SIZE(h, HDRP(bp)) >= size THEN bp
           ELSE fit[n - 1][NEXT_FREE_BLKP(h, bp)]]
  IN  fit[MaxSteps][h.head]

(* A block is split when what is left can hold a block of its own.         *)
place(h, bp, asize) ==
  LET csize == GET_SIZE(h, HDRP(bp))
      g == remove_free_block(h, bp)
      k == Mark(g, bp, asize, 1)
      rest == NEXT_BLKP(k, bp)
  IN  IF csize - asize >= 2 * DSIZE
        THEN insert_free_block(Mark(k, rest, csize - asize, 0), rest)
        ELSE Mark(g, bp, csize, 1)

-------------------------------------------------------------------------------

(* Padding, the prologue with two null links, the epilogue, and a first    *)
(* chunk.                                                                  *)
mm_init(h) ==
  LET r == mem_sbrk(h, 6 * WSIZE)
      a == r.p
      g == [PUT(PUT(PUT(PUT(PUT(PUT(r.heap, a, 0), a + 1 * WSIZE, 2 * DSIZE + 1),
              a + 2 * WSIZE, NULL), a + 3 * WSIZE, NULL),
              a + 4 * WSIZE, 2 * DSIZE + 1), a + 5 * WSIZE, 1)
             EXCEPT !.listp = a + 2 * WSIZE, !.head = a + 2 * WSIZE]
      e == extend_heap(g, ChunkSize \div WSIZE)
  IN  IF r.p = -1 THEN [p |-> -1, heap |-> [h EXCEPT !.listp = -1]]
      ELSE [p |-> IF e.p = NULL THEN -1 ELSE 0, heap |-> e.heap]

mm_malloc(h, size) ==
  LET asize == ALIGN(size + DSIZE)
      fit == find_fit(h, asize)
      e == IF fit # NULL THEN [p |-> fit, heap |-> h]
           ELSE extend_heap(h, Larger(asize, ChunkSize) \div WSIZE)
  IN  IF size = 0 \/ e.p = NULL THEN [p |-> NULL, heap |-> h]
      ELSE [p |-> e.p, heap |-> place(e.heap, e.p, asize)]

mm_free(h, ptr) ==
  coalesce(Mark(h, ptr, GET_SIZE(h, HDRP(ptr)), 0), ptr).heap

\* (a bug to catch) header and footer are taken off the new size as well
mm_reallocShort(h, ptr, size) ==
  LET r == mm_malloc(h, size)
      old == GET_SIZE(r.heap, HDRP(ptr))
      copied == memcpy(r.heap, r.p, ptr, (IF size < old THEN size ELSE old) - DSIZE)
  IN  IF ptr = NULL \/ r.p = NULL THEN r
      ELSE [p |-> r.p, heap |-> mm_free(copied, ptr)]

(* Always a new block: the old one is copied, as far as the new size goes, *)
(* and freed.                                                              *)
mm_realloc(h, ptr, size) ==
  LET r == mm_malloc(h, size)
      old == GET_SIZE(r.heap, HDRP(ptr))
      copied == memcpy(r.heap, r.p, ptr, IF size < old THEN size ELSE old)
  IN  IF ptr = NULL THEN r
      ELSE IF size = 0 THEN [p |-> NULL, heap |-> mm_free(h, ptr)]
      ELSE IF r.p = NULL THEN r
      ELSE [p |-> r.p, heap |-> mm_free(copied, ptr)]

-------------------------------------------------------------------------------
(* What mm_check walks: the blocks from heap_listp to the epilogue, and    *)
(* the free list from freelist_head to the prologue.                       *)

IsEpilogue(h, bp) == HDRP(bp) \in Words /\ GET_SIZE(h, HDRP(bp)) = 0
IsPrologue(h, bp) == bp \in Words /\ NEXT_FREE_BLKP(h, bp) = NULL

Reach(h, first, next(_, _), last(_, _)) ==
  LET from[n \in 0 .. MaxSteps] ==
        [b \in Int |->
           IF last(h, b) THEN {}
           ELSE IF n = 0 \/ Outside(b) THEN {b}
           ELSE {b} \cup from[n - 1][next(h, b)]]
  IN  from[MaxSteps][first]

(* Pointers to the blocks, the prologue among them and the epilogue not.   *)
Blocks(h) == Reach(h, h.listp, NEXT_BLKP, IsEpilogue)

(* Pointers to the blocks of the free list, without the prologue.          *)
FreeList(h) == Reach(h, h.head, NEXT_FREE_BLKP, IsPrologue)

in_heap(h, ptr) == mem_heap_lo <= ptr /\ ptr <= mem_heap_hi(h)
aligned(ptr) == ptr % DSIZE = 0

(* mm_check, the check the functions call when it is switched on.          *)
mm_check(h) ==
  LET free(b) == GET_ALLOC(h, HDRP(b)) = 0
      blocks == Blocks(h)
      list == FreeList(h)
  IN  /\ \A b \in blocks \cup list : in_heap(h, b) /\ aligned(b)
      /\ \A b \in list : free(b)
      /\ \A b \in blocks : ~ (free(b) /\ free(NEXT_BLKP(h, b)))
      /\ \A b \in blocks : free(b) => b \in list
===============================================================================
