-------------------------------- MODULE MemLib --------------------------------
(***************************************************************************)
(* The simulated memory of the malloc lab (memlib.c), as operators on a    *)
(* record that holds the process's view of the heap:                      *)
(*                                                                         *)
(*   mem     one integer for each word of four bytes, by its address       *)
(*   brk     mem_brk, the first address past the heap                      *)
(*   listp   heap_listp of mm.c                                            *)
(*   head    freelist_head of mm.c                                         *)
(*                                                                         *)
(* The program is built with -m32: a word holds a header, a footer, a      *)
(* pointer or four bytes of payload.                                       *)
(***************************************************************************)
EXTENDS Integers

CONSTANT MaxHeap    \* MAX_HEAP of config.h, in bytes

ASSUME MaxHeapAssumption == MaxHeap \in Nat /\ MaxHeap % 8 = 0

NULL == 0
WSIZE == 4
DSIZE == 8

(* malloc gives mem_init a region aligned to a double word, not at NULL.   *)
mem_start_brk == DSIZE
mem_max_addr == mem_start_brk + MaxHeap

Words == {mem_start_brk + WSIZE * i : i \in 0 .. (MaxHeap \div WSIZE) - 1}

(* The region malloc returned holds whatever was there before.             *)
mem_init(garbage) ==
  [mem |-> [a \in Words |-> garbage], brk |-> mem_start_brk,
   listp |-> NULL, head |-> NULL]

(* The words keep their contents: the next trace finds them as left.       *)
mem_reset_brk(h) == [h EXCEPT !.brk = mem_start_brk]

(* Moves mem_brk up, and returns where it was or -1; it never moves down.  *)
mem_sbrk(h, incr) ==
  IF incr < 0 \/ h.brk + incr > mem_max_addr
    THEN [p |-> -1, heap |-> h]
    ELSE [p |-> h.brk, heap |-> [h EXCEPT !.brk = @ + incr]]

mem_heap_lo == mem_start_brk
mem_heap_hi(h) == h.brk - 1
mem_heapsize(h) == h.brk - mem_start_brk

GET(h, a) == h.mem[a]
PUT(h, a, v) == [h EXCEPT !.mem[a] = v]

(* memset and memcpy of whole words.                                       *)
Span(p, size) == {a \in Words : p <= a /\ a < p + size}

memset(h, p, v, size) ==
  [h EXCEPT !.mem = [a \in Words |-> IF a \in Span(p, size) THEN v ELSE @[a]]]

memcpy(h, to, from, size) ==
  [h EXCEPT !.mem = [a \in Words |->
      IF a \in Span(to, size) THEN @[from + (a - to)] ELSE @[a]]]
===============================================================================
