----------------------------- MODULE MallocProofs -----------------------------
(***************************************************************************)
(* The allocator of mm.c under mdriver is right for every heap, chunk size *)
(* and trace: its heap stays whole, the driver's books agree with it, the  *)
(* errors the driver reports are not the allocator's, and to its clients   *)
(* it is the allocator of Allocator.                                       *)
(*                                                                         *)
(* The proof goes by shapes.  A shape is what the tags and the links of    *)
(* the heap spell: the blocks and their sizes, the free ones, and a rank   *)
(* that orders the free list.  Each operation of mm.c is first done to     *)
(* shapes, where a block is a number in a set; that it does the same to    *)
(* the words of the heap is a lemma of its own (Shaped, Rested).  The      *)
(* books of the driver tell of the used blocks of the shape (Holds), and   *)
(* where a trace leads is the same in every pass, because what mm.c        *)
(* answers depends on the shape alone (InStep).                            *)
(*                                                                         *)
(*   1  words, tags and links            6  the trace and the books        *)
(*   2  marking, merging, splitting      7  the requests of a trace        *)
(*   3  coalesce and extend_heap         8  the inductive invariant        *)
(*   4  walks: find_fit, mm_check        9  what it implies                *)
(*   5  place, mm_malloc, mm_free,      10  the refinement of Allocator    *)
(*      mm_realloc, mm_init             11  any allocator at all           *)
(***************************************************************************)
EXTENDS MmDriver, FiniteSetTheorems, WellFoundedInduction, TLAPS

-------------------------------------------------------------------------------
(* 1  Words, tags and links                                                *)

USE DEF NULL, WSIZE, DSIZE

(* A heap of mm.c: an integer for each word, the break and the two roots.  *)
Heaps == [mem : [Words -> Int], brk : Int, listp : Int, head : Int]

(* The words of the heap, by arithmetic.                                   *)
LEMMA WordsAre ==
  ASSUME NEW a \in Int
  PROVE  a \in Words <=> a % 4 = 0 /\ 8 <= a /\ a < 8 + MaxHeap
<1>1. PICK m \in Nat : MaxHeap = 8 * m
  <2>1. MaxHeap \div 8 \in Nat /\ MaxHeap = 8 * (MaxHeap \div 8)
    BY MaxHeapAssumption
  <2> QED
    BY <2>1
<1>2. MaxHeap \div 4 = 2 * m
  BY <1>1
<1>3. ASSUME a % 4 = 0, 8 <= a, a < 8 + MaxHeap PROVE a \in Words
  <2>1. PICK k \in Int : a = 8 + 4 * k
    <3>1. (a - 8) \div 4 \in Int /\ a = 8 + 4 * ((a - 8) \div 4)
      BY <1>3
    <3> QED
      BY <3>1
  <2>2. k \in 0 .. (MaxHeap \div WSIZE) - 1
    BY <1>1, <1>2, <1>3, <2>1
  <2> QED
    BY <2>1, <2>2 DEF Words, mem_start_brk
<1>4. ASSUME a \in Words PROVE a % 4 = 0 /\ 8 <= a /\ a < 8 + MaxHeap
  <2>1. PICK k \in 0 .. (MaxHeap \div WSIZE) - 1 : a = 8 + 4 * k
    BY <1>4 DEF Words, mem_start_brk
  <2>2. k \in Int /\ 0 <= k /\ k <= 2 * m - 1
    BY <1>2, <2>1
  <2> QED
    BY <1>1, <2>1, <2>2
<1> QED
  BY <1>3, <1>4

(* Addresses are integers.                                                 *)
LEMMA WordsAreInt == Words \subseteq Int
BY MaxHeapAssumption DEF Words, mem_start_brk

(* g is the heap h but for the word at a, which holds v.                   *)
Wrote(h, g, a, v) ==
  /\ g \in Heaps /\ g.brk = h.brk /\ g.listp = h.listp /\ g.head = h.head
  /\ GET(g, a) = v
  /\ \A c \in Words \ {a} : GET(g, c) = GET(h, c)

(* What a write of one word does to a heap.                                *)
LEMMA PutWrites ==
  ASSUME NEW h \in Heaps, NEW a \in Words, NEW v \in Int
  PROVE  Wrote(h, PUT(h, a, v), a, v)
  BY DEF Heaps, PUT, GET, Wrote

(* A word holds an integer.                                                *)
LEMMA GetIsInt ==
  ASSUME NEW h \in Heaps, NEW a \in Words
  PROVE  GET(h, a) \in Int
  BY DEF Heaps, GET

(* What GET_SIZE and GET_ALLOC read of a tag that PACK wrote.              *)
LEMMA TagRead ==
  ASSUME NEW size \in Nat, size % 8 = 0, NEW bit \in {0, 1}
  PROVE  /\ (size + bit) - ((size + bit) % 8) = size
         /\ (size + bit) % 2 = bit
  OBVIOUS

(* Mark writes the header and the footer of a block, and nothing else.     *)
Marked(h, g, bp, size, bit) ==
  /\ g \in Heaps /\ g.brk = h.brk /\ g.listp = h.listp /\ g.head = h.head
  /\ GET(g, bp - 4) = size + bit /\ GET(g, bp + size - 8) = size + bit
  /\ \A c \in Words \ {bp - 4, bp + size - 8} : GET(g, c) = GET(h, c)

(* Mark finds the footer by the header it has just written.                *)
LEMMA MarkMarks ==
  ASSUME NEW h \in Heaps, NEW bp \in Int, NEW size \in Nat, size % 8 = 0,
         NEW bit \in {0, 1}, bp - 4 \in Words, bp + size - 8 \in Words
  PROVE  Marked(h, Mark(h, bp, size, bit), bp, size, bit)
<1> DEFINE g == PUT(h, bp - 4, size + bit)
           k == PUT(g, bp + size - 8, size + bit)
<1>1. Wrote(h, g, bp - 4, size + bit)
  BY PutWrites
<1>2. g \in Heaps
  BY <1>1 DEF Wrote
<1>3. Wrote(g, k, bp + size - 8, size + bit)
  BY <1>2, PutWrites
<1>4. FTRP(g, bp) = bp + size - 8
  <2>1. GET(g, HDRP(bp)) = size + bit
    BY <1>1 DEF HDRP, Wrote
  <2>2. GET_SIZE(g, HDRP(bp)) = size
    BY <2>1, TagRead DEF GET_SIZE
  <2> QED
    BY <2>2 DEF FTRP
<1>5. Mark(h, bp, size, bit) = k
  <2>1. HDRP(bp) = bp - 4
    BY DEF HDRP
  <2> QED
    BY <1>4, <2>1, Zenon DEF Mark
<1> HIDE DEF g, k
<1>6. Marked(h, k, bp, size, bit)
  BY <1>1, <1>3 DEF Wrote, Marked
<1> QED
  BY <1>5, <1>6

(* The first block of every heap, which is never free.                     *)
Prologue == 16

(* What the tags and links of a heap spell: its blocks with their sizes,   *)
(* the free ones, their order on the free list, and the break.             *)
Shapes == [blocks : SUBSET Int, size : [Int -> Int], free : SUBSET Int,
           rank : [Int -> Int], brk : Int]

(* The blocks fill the heap from the prologue to the break: each begins    *)
(* where another ends, aligned, with room for two tags and two links.      *)
Tiled(S) ==
  /\ Prologue \in S.blocks /\ S.size[Prologue] = 16
  /\ \A b \in S.blocks :
       /\ b >= 16 /\ b % 8 = 0 /\ S.size[b] >= 16 /\ S.size[b] % 8 = 0
       /\ b + S.size[b] <= S.brk
       /\ b + S.size[b] \in S.blocks \cup {S.brk}
  /\ \A b, c \in S.blocks : b < c => b + S.size[b] <= c
  /\ \A b \in (S.blocks \cup {S.brk}) \ {Prologue} :
       \E c \in S.blocks : c + S.size[c] = b
  /\ S.brk % 8 = 0 /\ S.brk <= 8 + MaxHeap

(* The free list ends with the prologue.                                   *)
Chain(S) == S.free \cup {Prologue}

(* Ranks order the free list, and the prologue comes last.                 *)
Ranked(S) ==
  /\ S.free \subseteq S.blocks \ {Prologue}
  /\ \A b, c \in Chain(S) : S.rank[b] = S.rank[c] => b = c
  /\ \A b \in S.free : S.rank[b] < S.rank[Prologue]

(* The header and the footer of block b, when the blocks of T are tagged   *)
(* free.                                                                   *)
Tag(S, T, b) == S.size[b] + (IF b \in T THEN 0 ELSE 1)

(* The heap h has the tags of S, and its roots and its epilogue are where  *)
(* they belong.                                                            *)
Tagged(h, S, T) ==
  /\ h.brk = S.brk /\ h.listp = Prologue /\ GET(h, S.brk - 4) = 1
  /\ T \subseteq S.blocks \ {Prologue}
  /\ \A b \in S.blocks : /\ GET(h, b - 4) = Tag(S, T, b)
                         /\ GET(h, b + S.size[b] - 8) = Tag(S, T, b)

(* On the free list c comes next after b.                                  *)
Follows(S, b, c) ==
  /\ S.rank[b] < S.rank[c]
  /\ \A d \in Chain(S) : S.rank[d] <= S.rank[b] \/ S.rank[c] <= S.rank[d]

(* The links of the free list agree with the ranks, both ways.             *)
Linked(h, S) ==
  /\ h.head \in Chain(S) /\ \A c \in Chain(S) : S.rank[h.head] <= S.rank[c]
  /\ GET(h, Prologue) = 0 /\ GET(h, h.head + 4) = 0
  /\ \A b \in S.free :
       /\ GET(h, b) \in Chain(S) \ {h.head}
       /\ Follows(S, b, GET(h, b))
       /\ GET(h, GET(h, b) + 4) = b
  /\ \A c \in Chain(S) \ {h.head} :
       GET(h, c + 4) \in S.free /\ GET(h, GET(h, c + 4)) = c

(* The heap h has the shape S, but the blocks of T are tagged free: within *)
(* an operation of mm.c they are more than those of the list.              *)
Shaped(h, S, T) ==
  /\ h \in Heaps /\ S \in Shapes /\ S.free \subseteq T
  /\ Tiled(S) /\ Ranked(S) /\ Tagged(h, S, T) /\ Linked(h, S)

(* The words of a used block between its tags.                             *)
Payload(S, b) == {a \in Words : b <= a /\ a < b + S.size[b] - 8}

(* The used blocks of S, those of T apart, hold in g what they hold in h.  *)
Kept(h, g, S, T) ==
  \A b \in S.blocks \ (T \cup {Prologue}) :
    \A a \in Payload(S, b) : GET(g, a) = GET(h, a)

(* The types of the parts of a shape.                                      *)
LEMMA ShapeTypes ==
  ASSUME NEW S \in Shapes
  PROVE  /\ S.blocks \subseteq Int /\ S.free \subseteq Int /\ S.brk \in Int
         /\ S.size \in [Int -> Int] /\ S.rank \in [Int -> Int]
         /\ \A b \in Int : S.size[b] \in Int /\ S.rank[b] \in Int
  BY DEF Shapes

(* The words a block needs are words of the heap.                          *)
LEMMA BlockWords ==
  ASSUME NEW S \in Shapes, Tiled(S), NEW b \in S.blocks
  PROVE  /\ b \in Int /\ S.size[b] \in Nat /\ S.brk \in Int
         /\ b >= 16 /\ b % 8 = 0 /\ S.size[b] >= 16 /\ S.size[b] % 8 = 0
         /\ b + S.size[b] <= S.brk /\ S.brk <= 8 + MaxHeap /\ S.brk % 8 = 0
         /\ {b - 4, b, b + 4, b + S.size[b] - 8, S.brk - 4} \subseteq Words
<1>1. /\ b \in Int /\ S.size[b] \in Int /\ S.brk \in Int
  BY ShapeTypes
<1>2. /\ b >= 16 /\ b % 8 = 0 /\ S.size[b] >= 16 /\ S.size[b] % 8 = 0
      /\ b + S.size[b] <= S.brk /\ S.brk <= 8 + MaxHeap /\ S.brk % 8 = 0
  BY DEF Tiled
<1>3. \A a \in Int : a % 4 = 0 /\ 8 <= a /\ a < 8 + MaxHeap => a \in Words
  BY WordsAre
<1>4. b - 4 \in Words /\ b \in Words /\ b + 4 \in Words
  BY <1>1, <1>2, <1>3, MaxHeapAssumption
<1>5. b + S.size[b] - 8 \in Words
  <2>1. (b + S.size[b] - 8) % 4 = 0
    BY <1>1, <1>2
  <2> QED
    BY <1>1, <1>2, <1>3, <2>1, MaxHeapAssumption
<1>6. S.brk - 4 \in Words
  BY <1>1, <1>2, <1>3, MaxHeapAssumption
<1> QED
  BY <1>1, <1>2, <1>4, <1>5, <1>6

(* No word belongs to two blocks, and none of a block is the epilogue.     *)
LEMMA WordsApart ==
  ASSUME NEW S \in Shapes, Tiled(S), NEW b \in S.blocks, NEW c \in S.blocks,
         NEW x \in Int, NEW y \in Int,
         b - 4 <= x, x < b + S.size[b] - 4, c - 4 <= y, y < c + S.size[c] - 4
  PROVE  /\ b # c => x # y
         /\ x # S.brk - 4
<1>1. /\ b \in Int /\ S.size[b] \in Nat /\ c \in Int /\ S.size[c] \in Nat
      /\ S.brk \in Int /\ b + S.size[b] <= S.brk
  BY BlockWords
<1>2. b < c => b + S.size[b] <= c
  BY DEF Tiled
<1>3. c < b => c + S.size[c] <= b
  BY DEF Tiled
<1> QED
  BY <1>1, <1>2, <1>3

(* Links of a block are no tags, and the links of two blocks are apart.    *)
LEMMA LinksApart ==
  ASSUME NEW S \in Shapes, Tiled(S), NEW b \in S.blocks, NEW c \in S.blocks
  PROVE  /\ b # c - 4 /\ b + 4 # c - 4
         /\ b # c + S.size[c] - 8 /\ b + 4 # c + S.size[c] - 8
         /\ b # S.brk - 4 /\ b + 4 # S.brk - 4
         /\ b # c + 4
         /\ b # c => b + 4 # c + 4
<1>1. /\ b \in Int /\ S.size[b] \in Nat /\ c \in Int /\ S.size[c] \in Nat
      /\ S.brk \in Int /\ b + S.size[b] <= S.brk
      /\ S.size[b] >= 16 /\ S.size[c] >= 16 /\ b % 8 = 0 /\ c % 8 = 0
  BY BlockWords
<1>2. b < c => b + S.size[b] <= c
  BY DEF Tiled
<1>3. c < b => c + S.size[c] <= b
  BY DEF Tiled
<1> QED
  BY <1>1, <1>2, <1>3

(* The heap g is h with another head of the free list.                     *)
HeadSet(h, g, p) ==
  /\ g \in Heaps /\ g.brk = h.brk /\ g.listp = h.listp /\ g.head = p
  /\ \A c \in Words : GET(g, c) = GET(h, c)

(* The head of the free list is set.                                       *)
LEMMA SetHead ==
  ASSUME NEW h \in Heaps, NEW p \in Int
  PROVE  HeadSet(h, [h EXCEPT !.head = p], p)
  BY DEF Heaps, GET, HeadSet

(* What insert_free_block writes: two links of the block, one of the head. *)
Inserts(h, g, bp) ==
  /\ g \in Heaps /\ g.brk = h.brk /\ g.listp = h.listp /\ g.head = bp
  /\ GET(g, bp) = h.head /\ GET(g, bp + 4) = 0 /\ GET(g, h.head + 4) = bp
  /\ \A c \in Words \ {bp, bp + 4, h.head + 4} : GET(g, c) = GET(h, c)

(* insert_free_block writes the links of the block and of the old head.    *)
LEMMA InsertInserts ==
  ASSUME NEW h \in Heaps, NEW bp \in Words, h.head # 0, h.head # bp, h.head # bp - 4,
         bp + 4 \in Words, h.head + 4 \in Words
  PROVE  Inserts(h, insert_free_block(h, bp), bp)
<1> DEFINE f == PUT(h, bp + 4, 0)
           g == PUT(f, bp, h.head)
           k == PUT(g, h.head + 4, bp)
           e == [k EXCEPT !.head = bp]
<1>0. h.head \in Int /\ bp \in Int
  BY WordsAreInt DEF Heaps
<1>1. Wrote(h, f, bp + 4, 0)
  BY PutWrites
<1>2. Wrote(f, g, bp, h.head)
  BY <1>0, <1>1, PutWrites DEF Wrote
<1>3. Wrote(g, k, h.head + 4, bp)
  BY <1>0, <1>2, PutWrites DEF Wrote
<1>4. insert_free_block(h, bp) = e
  BY Zenon DEF insert_free_block
<1> HIDE DEF f, g, k
<1>5. k \in Heaps
  BY <1>3 DEF Wrote
<1>6. HeadSet(k, e, bp)
  BY <1>0, <1>5, SetHead
<1> HIDE DEF e
<1>7. Inserts(h, e, bp)
  BY <1>0, <1>1, <1>2, <1>3, <1>6 DEF Wrote, Inserts, HeadSet
<1> QED
  BY <1>4, <1>7

(* What remove_free_block writes: the links of the two neighbours.         *)
Removes(h, g, bp) ==
  LET prev == GET(h, bp + 4)
      next == GET(h, bp)
  IN  /\ g \in Heaps /\ g.brk = h.brk /\ g.listp = h.listp
      /\ g.head = IF prev = 0 THEN next ELSE h.head
      /\ prev # 0 => GET(g, prev) = next
      /\ GET(g, next + 4) = prev
      /\ \A c \in Words : c # next + 4 /\ (prev # 0 => c # prev) => GET(g, c) = GET(h, c)

(* remove_free_block writes the links of the neighbours on the list.       *)
LEMMA RemoveRemoves ==
  ASSUME NEW h \in Heaps, NEW bp \in Words, bp + 4 \in Words,
         GET(h, bp) # 0, GET(h, bp) + 4 \in Words,
         GET(h, bp + 4) # 0 => /\ GET(h, bp + 4) \in Words
                              /\ GET(h, bp + 4) # GET(h, bp) + 4
                              /\ GET(h, bp + 4) # bp /\ GET(h, bp + 4) # bp + 4
  PROVE  Removes(h, remove_free_block(h, bp), bp)
<1> DEFINE prev == GET(h, bp + 4)
           next == GET(h, bp)
           g == IF prev # 0 THEN PUT(h, prev, next) ELSE [h EXCEPT !.head = next]
           k == PUT(g, next + 4, prev)
<1>0. prev \in Int /\ next \in Int /\ bp \in Int
  BY WordsAreInt, GetIsInt
<1>1. ASSUME prev # 0 PROVE Wrote(h, g, prev, next)
  BY <1>0, <1>1, PutWrites
<1>2. /\ g \in Heaps /\ g.brk = h.brk /\ g.listp = h.listp
      /\ g.head = IF prev = 0 THEN next ELSE h.head
      /\ prev # 0 => GET(g, prev) = next
      /\ \A c \in Words : (prev # 0 => c # prev) => GET(g, c) = GET(h, c)
  <2>1. CASE prev # 0
    BY <1>1, <2>1 DEF Wrote
  <2>2. CASE prev = 0
    <3>1. g = [h EXCEPT !.head = next]
      BY <2>2
    <3>2. next \in Int
      BY <1>0
    <3> HIDE DEF next
    <3>3. HeadSet(h, g, next)
      BY <3>1, <3>2, SetHead
    <3> QED
      BY <2>2, <3>3 DEF HeadSet
  <2> QED
    BY <2>1, <2>2
<1>3. GET(g, bp + 4) = prev /\ GET(g, bp) = next
  BY <1>0, <1>2
<1>4. Wrote(g, k, next + 4, prev)
  BY <1>0, <1>2, PutWrites
<1>5. remove_free_block(h, bp) = k
  <2>1. /\ PREV_FREE_BLKP(h, bp) = prev /\ NEXT_FREE_BLKP(h, bp) = next
        /\ PREV_FREE_BLKP(g, bp) = prev /\ NEXT_FREE_BLKP(g, bp) = next
    BY <1>3 DEF PREV_FREE_BLKP, NEXT_FREE_BLKP
  <2> HIDE DEF prev, next
  <2> QED
    BY <2>1, next # 0, Zenon DEF remove_free_block, next
<1> HIDE DEF g, k
<1>6. Removes(h, k, bp)
  BY <1>0, <1>2, <1>4 DEF Wrote, Removes
<1> QED
  BY <1>5, <1>6

(* The ranks of a free list are below any that it has.                     *)
Below(S) == CHOOSE r \in Int : \A c \in Chain(S) : r < S.rank[c]

(* insert_free_block, of a shape.                                          *)
Inserted(S, b) ==
  [S EXCEPT !.free = @ \cup {b}, !.rank = [@ EXCEPT ![b] = Below(S)]]

(* The free list is made of blocks.                                        *)
LEMMA ChainIsBlocks ==
  ASSUME NEW S \in Shapes, Tiled(S), Ranked(S)
  PROVE  /\ Chain(S) \subseteq S.blocks /\ S.free \subseteq Chain(S)
         /\ S.free \subseteq S.blocks /\ Prologue \in Chain(S) /\ Prologue \in S.blocks
         /\ Prologue \notin S.free
  BY DEF Chain, Ranked, Tiled

(* insert_free_block does to the heap what Inserted does to its shape.     *)
LEMMA InsertShaped ==
  ASSUME NEW h, NEW S, NEW T, Shaped(h, S, T), NEW b \in T \ S.free
  PROVE  /\ Shaped(insert_free_block(h, b), Inserted(S, b), T)
         /\ Kept(h, insert_free_block(h, b), S, T)
<1> DEFINE g == insert_free_block(h, b)
           U == Inserted(S, b)
<1>1. h \in Heaps /\ S \in Shapes /\ Tiled(S) /\ Ranked(S) /\ Tagged(h, S, T)
      /\ Linked(h, S) /\ S.free \subseteq T
  BY DEF Shaped
<1>2. b \in S.blocks /\ b # Prologue /\ b \notin Chain(S) /\ T \subseteq S.blocks
  BY <1>1 DEF Tagged, Chain
<1>3. h.head \in Chain(S) /\ h.head \in S.blocks /\ h.head # b
  BY <1>1, <1>2, ChainIsBlocks DEF Linked
<1>4. \A c \in S.blocks : c \in Int /\ c >= 16 /\ c \in Words /\ c + 4 \in Words /\ c - 4 \in Words
                          /\ c + S.size[c] - 8 \in Words
  BY <1>1, BlockWords
<1>5. Inserts(h, g, b)
  <2>1. h.head # b - 4
    BY <1>1, <1>2, <1>3, <1>4, LinksApart
  <2>2. h.head # 0
    BY <1>3, <1>4
  <2> QED
    BY <1>1, <1>2, <1>3, <1>4, <2>1, <2>2, InsertInserts
<1> HIDE DEF g
<1>6. /\ U \in Shapes /\ U.blocks = S.blocks /\ U.size = S.size /\ U.brk = S.brk
      /\ U.free = S.free \cup {b} /\ Chain(U) = Chain(S) \cup {b}
      /\ U.rank[b] < U.rank[h.head]
      /\ \A c \in Chain(S) : U.rank[c] = S.rank[c] /\ U.rank[b] < U.rank[c]
  <2>1. \A c \in Chain(S) : S.rank[h.head] <= S.rank[c]
    BY <1>1 DEF Linked
  <2>2. \A c \in S.blocks : S.rank[c] \in Int
    BY <1>1, <1>4, ShapeTypes
  <2>3. Chain(S) \subseteq S.blocks
    BY <1>1, ChainIsBlocks
  <2>4. \E r \in Int : \A c \in Chain(S) : r < S.rank[c]
    <3>1. S.rank[h.head] - 1 \in Int
      BY <1>3, <2>2
    <3>2. \A c \in Chain(S) : S.rank[h.head] - 1 < S.rank[c]
      BY <1>3, <2>1, <2>2, <2>3
    <3> QED
      BY <3>1, <3>2
  <2>5. Below(S) \in Int /\ \A c \in Chain(S) : Below(S) < S.rank[c]
    BY <2>4 DEF Below
  <2>6. /\ U \in Shapes /\ U.blocks = S.blocks /\ U.size = S.size /\ U.brk = S.brk
        /\ U.free = S.free \cup {b} /\ U.rank = [S.rank EXCEPT ![b] = Below(S)]
    BY <1>1, <1>2, <1>4, <2>5 DEF Inserted, Shapes
  <2>7. Chain(U) = Chain(S) \cup {b}
    BY <2>6 DEF Chain
  <2>8. U.rank[b] = Below(S) /\ \A c \in Chain(S) : U.rank[c] = S.rank[c]
    <3>1. S.rank \in [Int -> Int] /\ b \in Int /\ \A c \in Chain(S) : c \in Int /\ c # b
      BY <1>1, <1>2, <1>4, <2>3, ShapeTypes
    <3> QED
      BY <2>6, <3>1
  <2> QED
    BY <1>3, <2>5, <2>6, <2>7, <2>8
<1> HIDE DEF U
<1>7. \A c \in S.blocks : /\ c # b => GET(g, c) = GET(h, c)
                          /\ c # b /\ c # h.head => GET(g, c + 4) = GET(h, c + 4)
                          /\ GET(g, c - 4) = GET(h, c - 4)
                          /\ GET(g, c + S.size[c] - 8) = GET(h, c + S.size[c] - 8)
  <2> SUFFICES ASSUME NEW c \in S.blocks
               PROVE  /\ c # b => GET(g, c) = GET(h, c)
                      /\ c # b /\ c # h.head => GET(g, c + 4) = GET(h, c + 4)
                      /\ GET(g, c - 4) = GET(h, c - 4)
                      /\ GET(g, c + S.size[c] - 8) = GET(h, c + S.size[c] - 8)
    OBVIOUS
  <2>1. /\ b # c - 4 /\ b + 4 # c - 4 /\ b # c + S.size[c] - 8 /\ b + 4 # c + S.size[c] - 8
        /\ b # c + 4 /\ (b # c => b + 4 # c + 4)
    BY <1>1, <1>2, LinksApart
  <2>2. /\ h.head + 4 # c - 4 /\ h.head + 4 # c + S.size[c] - 8
        /\ (h.head # c => h.head + 4 # c + 4)
    BY <1>1, <1>3, LinksApart
  <2>3. c # b + 4 /\ c # h.head + 4
    BY <1>1, <1>2, <1>3, LinksApart
  <2>4. c \in Words /\ c + 4 \in Words /\ c - 4 \in Words /\ c + S.size[c] - 8 \in Words
    BY <1>4
  <2>5. \A a \in Words : a # b /\ a # b + 4 /\ a # h.head + 4 => GET(g, a) = GET(h, a)
    BY <1>5 DEF Inserts
  <2> QED
    BY <2>1, <2>2, <2>3, <2>4, <2>5
<1>8. Tiled(U)
  BY <1>1, <1>6 DEF Tiled
<1>9. Ranked(U)
  <2>1. U.free \subseteq U.blocks \ {Prologue}
    BY <1>1, <1>2, <1>6 DEF Ranked
  <2>2. \A c \in Chain(U) : U.rank[c] \in Int
    BY <1>1, <1>2, <1>6, ShapeTypes, ChainIsBlocks
  <2>3. \A c, d \in Chain(U) : U.rank[c] = U.rank[d] => c = d
    BY <1>1, <1>6, <2>2 DEF Ranked
  <2>4. \A c \in U.free : U.rank[c] < U.rank[Prologue]
    BY <1>1, <1>6, ChainIsBlocks DEF Ranked
  <2> QED
    BY <2>1, <2>3, <2>4 DEF Ranked
<1>10. Tagged(g, U, T)
  <2>1. g.brk = U.brk /\ g.listp = Prologue
    BY <1>1, <1>5, <1>6 DEF Tagged, Inserts
  <2>2. GET(g, U.brk - 4) = 1
    <3>1. b # S.brk - 4 /\ b + 4 # S.brk - 4 /\ h.head + 4 # S.brk - 4
      BY <1>1, <1>2, <1>3, LinksApart
    <3>2. S.brk - 4 \in Words
      BY <1>1, <1>2, BlockWords
    <3>3. \A a \in Words : a # b /\ a # b + 4 /\ a # h.head + 4 => GET(g, a) = GET(h, a)
      BY <1>5 DEF Inserts
    <3> QED
      BY <1>1, <1>6, <3>1, <3>2, <3>3 DEF Tagged
  <2>3. \A c \in U.blocks : GET(g, c - 4) = Tag(U, T, c) /\ GET(g, c + U.size[c] - 8) = Tag(U, T, c)
    BY <1>1, <1>6, <1>7 DEF Tagged, Tag
  <2> QED
    BY <1>1, <1>6, <2>1, <2>2, <2>3 DEF Tagged
<1>11. Linked(g, U)
  <2>0. Chain(S) \subseteq S.blocks /\ S.free \subseteq Chain(S) /\ Prologue \in Chain(S)
        /\ Prologue \in S.blocks
    BY <1>1, ChainIsBlocks
  <2>1. g.head = b /\ GET(g, b) = h.head /\ GET(g, b + 4) = 0 /\ GET(g, h.head + 4) = b
    BY <1>5 DEF Inserts
  <2>2. \A c \in Chain(U) : U.rank[g.head] <= U.rank[c]
    <3>1. U.rank[b] \in Int /\ \A c \in Chain(S) : U.rank[c] \in Int
      BY <1>2, <1>4, <1>6, <2>0, ShapeTypes
    <3> QED
      BY <1>6, <2>1, <3>1
  <2>3. GET(g, Prologue) = 0
    BY <1>1, <1>2, <1>7, <2>0 DEF Linked
  <2>4. ASSUME NEW x \in U.free
        PROVE  /\ GET(g, x) \in Chain(U) \ {g.head}
               /\ Follows(U, x, GET(g, x))
               /\ GET(g, GET(g, x) + 4) = x
    <3>1. CASE x = b
      <4>1. Follows(U, b, h.head)
        <5>1. \A d \in Chain(S) : U.rank[h.head] <= U.rank[d]
          BY <1>1, <1>3, <1>6 DEF Linked
        <5>2. U.rank[b] \in Int
          BY <1>2, <1>4, <1>6, ShapeTypes
        <5> QED
          BY <1>6, <5>1, <5>2 DEF Follows
      <4> QED
        BY <1>3, <1>6, <2>1, <3>1, <4>1
    <3>2. CASE x \in S.free
      <4>1. x # b /\ x \in S.blocks /\ x \in Chain(S)
        BY <1>2, <2>0, <3>2
      <4>2. GET(g, x) = GET(h, x)
        BY <1>7, <4>1
      <4>3. GET(h, x) \in Chain(S) \ {h.head} /\ Follows(S, x, GET(h, x)) /\ GET(h, GET(h, x) + 4) = x
        BY <1>1, <3>2 DEF Linked
      <4>4. PICK n : n = GET(h, x)
        OBVIOUS
      <4>5. GET(g, n + 4) = x
        BY <1>2, <1>7, <2>0, <4>3, <4>4
      <4>6. Follows(U, x, n)
        <5>1. U.rank[b] < U.rank[x] /\ U.rank[b] \in Int /\ U.rank[x] \in Int
          BY <1>2, <1>4, <1>6, <2>0, <4>1, ShapeTypes
        <5> QED
          BY <1>6, <4>1, <4>3, <4>4, <5>1 DEF Follows
      <4> QED
        BY <1>2, <1>6, <2>1, <4>2, <4>3, <4>4, <4>5, <4>6
    <3> QED
      BY <1>6, <3>1, <3>2
  <2>5. ASSUME NEW c \in Chain(U) \ {g.head}
        PROVE  GET(g, c + 4) \in U.free /\ GET(g, GET(g, c + 4)) = c
    <3>1. CASE c = h.head
      BY <1>6, <2>1, <3>1
    <3>2. CASE c # h.head
      <4>1. c \in Chain(S) /\ c \in S.blocks /\ c # b
        BY <1>6, <2>0, <2>1
      <4>2. GET(g, c + 4) = GET(h, c + 4)
        BY <1>7, <3>2, <4>1
      <4>3. GET(h, c + 4) \in S.free /\ GET(h, GET(h, c + 4)) = c
        BY <1>1, <3>2, <4>1 DEF Linked
      <4>4. GET(g, GET(h, c + 4)) = c
        BY <1>2, <1>7, <2>0, <4>3
      <4> QED
        BY <1>6, <4>2, <4>3, <4>4
    <3> QED
      BY <3>1, <3>2
  <2> QED
    BY <1>6, <2>1, <2>2, <2>3, <2>4, <2>5 DEF Linked
<1>12. Kept(h, g, S, T)
  <2> SUFFICES ASSUME NEW c \in S.blocks \ (T \cup {Prologue}), NEW a \in Payload(S, c)
               PROVE  GET(g, a) = GET(h, a)
    BY DEF Kept
  <2>1. a \in Words /\ c <= a /\ a < c + S.size[c] - 8 /\ a \in Int
    BY WordsAreInt DEF Payload
  <2>2. c \in S.blocks /\ c # b /\ c # h.head
    BY <1>1, <1>3 DEF Chain
  <2>3. a # b /\ a # b + 4 /\ a # h.head + 4
    <3>1. /\ c \in Int /\ b \in Int /\ h.head \in Int /\ S.size[c] \in Nat /\ S.size[b] >= 16
          /\ S.size[h.head] >= 16 /\ S.size[b] \in Nat /\ S.size[h.head] \in Nat
      BY <1>1, <1>2, <1>3, <2>2, BlockWords
    <3>2. a # b
      BY <1>1, <1>2, <2>1, <2>2, <3>1, WordsApart
    <3>3. a # b + 4
      BY <1>1, <1>2, <2>1, <2>2, <3>1, WordsApart
    <3>4. a # h.head + 4
      BY <1>1, <1>3, <2>1, <2>2, <3>1, WordsApart
    <3> QED
      BY <3>2, <3>3, <3>4
  <2> QED
    BY <1>5, <2>1, <2>3 DEF Inserts
<1>13. Inserts(h, g, b) => g \in Heaps
  BY DEF Inserts
<1> QED
  BY <1>1, <1>2, <1>5, <1>6, <1>8, <1>9, <1>10, <1>11, <1>12, <1>13 DEF Shaped, g, U

(* remove_free_block, of a shape.                                          *)
Removed(S, b) == [S EXCEPT !.free = @ \ {b}]

(* remove_free_block does to the heap what Removed does to its shape.      *)
LEMMA RemoveShaped ==
  ASSUME NEW h, NEW S, NEW T, Shaped(h, S, T), NEW b \in S.free
  PROVE  /\ Shaped(remove_free_block(h, b), Removed(S, b), T)
         /\ Kept(h, remove_free_block(h, b), S, T)
<1> DEFINE g == remove_free_block(h, b)
           U == Removed(S, b)
<1>1. h \in Heaps /\ S \in Shapes /\ Tiled(S) /\ Ranked(S) /\ Tagged(h, S, T)
      /\ Linked(h, S) /\ S.free \subseteq T
  BY DEF Shaped
<1>2. /\ Chain(S) \subseteq S.blocks /\ S.free \subseteq Chain(S)
      /\ S.free \subseteq S.blocks /\ Prologue \in Chain(S) /\ Prologue \in S.blocks
      /\ Prologue \notin S.free /\ T \subseteq S.blocks
  BY <1>1, ChainIsBlocks DEF Tagged
<1>3. \A c \in S.blocks : c \in Int /\ c >= 16 /\ c \in Words /\ c + 4 \in Words /\ c - 4 \in Words
                          /\ c + S.size[c] - 8 \in Words /\ S.rank[c] \in Int
  BY <1>1, BlockWords, ShapeTypes
<1>4. PICK next : next = GET(h, b)
  OBVIOUS
<1>5. PICK prev : prev = GET(h, b + 4)
  OBVIOUS
<1>6. /\ next \in Chain(S) /\ next # h.head /\ GET(h, next + 4) = b /\ next # b
      /\ S.rank[b] < S.rank[next]
      /\ \A d \in Chain(S) : S.rank[d] <= S.rank[b] \/ S.rank[next] <= S.rank[d]
  BY <1>1, <1>2, <1>3, <1>4 DEF Linked, Follows
<1>7. b = h.head => prev = 0
  BY <1>1, <1>5 DEF Linked
<1>8. b # h.head => /\ prev \in S.free /\ GET(h, prev) = b /\ prev # 0 /\ prev # b /\ prev # next
                    /\ S.rank[prev] < S.rank[b]
                    /\ \A d \in Chain(S) : S.rank[d] <= S.rank[prev] \/ S.rank[b] <= S.rank[d]
  <2> SUFFICES ASSUME b # h.head
               PROVE  /\ prev \in S.free /\ GET(h, prev) = b /\ prev # 0 /\ prev # b /\ prev # next
                      /\ S.rank[prev] < S.rank[b]
                      /\ \A d \in Chain(S) : S.rank[d] <= S.rank[prev] \/ S.rank[b] <= S.rank[d]
    OBVIOUS
  <2>1. prev \in S.free /\ GET(h, prev) = b
    BY <1>1, <1>2, <1>5 DEF Linked
  <2>2. Follows(S, prev, b)
    BY <1>1, <2>1 DEF Linked
  <2>3. prev \in S.blocks /\ next \in S.blocks /\ b \in S.blocks
    BY <1>2, <1>6, <2>1
  <2> QED
    BY <1>3, <1>6, <2>1, <2>2, <2>3 DEF Follows
<1>9. h.head \in Chain(S) /\ \A c \in Chain(S) : S.rank[h.head] <= S.rank[c]
  BY <1>1 DEF Linked
<1>10. Removes(h, g, b)
  <2>1. GET(h, b) # 0 /\ GET(h, b) + 4 \in Words
    BY <1>2, <1>3, <1>4, <1>6
  <2>2. GET(h, b + 4) # 0 => /\ GET(h, b + 4) \in Words
                             /\ GET(h, b + 4) # GET(h, b) + 4
                             /\ GET(h, b + 4) # b /\ GET(h, b + 4) # b + 4
    <3>1. CASE b = h.head
      BY <1>5, <1>7, <3>1
    <3>2. CASE b # h.head
      <4>1. prev \in S.blocks /\ next \in S.blocks /\ b \in S.blocks
        BY <1>2, <1>6, <1>8, <3>2
      <4>2. prev # next + 4 /\ prev # b + 4
        BY <1>1, <4>1, LinksApart
      <4> QED
        BY <1>3, <1>4, <1>5, <1>8, <3>2, <4>1, <4>2
    <3> QED
      BY <3>1, <3>2
  <2> QED
    BY <1>1, <1>2, <1>3, <2>1, <2>2, RemoveRemoves
<1>11. /\ g \in Heaps /\ g.brk = h.brk /\ g.listp = h.listp
       /\ g.head = IF b = h.head THEN next ELSE h.head
       /\ b # h.head => GET(g, prev) = next
       /\ GET(g, next + 4) = prev
       /\ \A a \in Words : a # next + 4 /\ (b # h.head => a # prev) => GET(g, a) = GET(h, a)
  BY <1>4, <1>5, <1>7, <1>8, <1>10 DEF Removes
<1> HIDE DEF g
<1>12. /\ U \in Shapes /\ U.blocks = S.blocks /\ U.size = S.size /\ U.brk = S.brk
       /\ U.free = S.free \ {b} /\ Chain(U) = Chain(S) \ {b} /\ U.rank = S.rank
  <2>1. /\ U \in Shapes /\ U.blocks = S.blocks /\ U.size = S.size /\ U.brk = S.brk
        /\ U.free = S.free \ {b} /\ U.rank = S.rank
    BY <1>1 DEF Removed, Shapes
  <2> QED
    BY <1>2, <2>1 DEF Chain
<1> HIDE DEF U
<1>13. \A c \in S.blocks : /\ (b # h.head => c # prev) => GET(g, c) = GET(h, c)
                           /\ c # next => GET(g, c + 4) = GET(h, c + 4)
                           /\ GET(g, c - 4) = GET(h, c - 4)
                           /\ GET(g, c + S.size[c] - 8) = GET(h, c + S.size[c] - 8)
  <2> SUFFICES ASSUME NEW c \in S.blocks
               PROVE  /\ (b # h.head => c # prev) => GET(g, c) = GET(h, c)
                      /\ c # next => GET(g, c + 4) = GET(h, c + 4)
                      /\ GET(g, c - 4) = GET(h, c - 4)
                      /\ GET(g, c + S.size[c] - 8) = GET(h, c + S.size[c] - 8)
    OBVIOUS
  <2>1. b # h.head => prev # c - 4 /\ prev # c + S.size[c] - 8 /\ prev # c + 4
    BY <1>1, <1>2, <1>8, LinksApart
  <2>2. /\ next + 4 # c - 4 /\ next + 4 # c + S.size[c] - 8 /\ next + 4 # c
        /\ (c # next => next + 4 # c + 4)
    BY <1>1, <1>2, <1>6, LinksApart
  <2>4. c \in Words /\ c + 4 \in Words /\ c - 4 \in Words /\ c + S.size[c] - 8 \in Words
    BY <1>3
  <2> QED
    BY <1>11, <2>1, <2>2, <2>4
<1>14. Tiled(U)
  BY <1>1, <1>12 DEF Tiled
<1>15. Ranked(U)
  BY <1>1, <1>2, <1>12 DEF Ranked
<1>16. Tagged(g, U, T)
  <2>1. g.brk = U.brk /\ g.listp = Prologue
    BY <1>1, <1>11, <1>12 DEF Tagged
  <2>2. GET(g, U.brk - 4) = 1
    <3>1. next + 4 # S.brk - 4 /\ (b # h.head => prev # S.brk - 4)
      BY <1>1, <1>2, <1>6, <1>8, LinksApart
    <3>2. S.brk - 4 \in Words
      BY <1>1, <1>2, BlockWords
    <3> QED
      BY <1>1, <1>11, <1>12, <3>1, <3>2 DEF Tagged
  <2>3. \A c \in U.blocks : GET(g, c - 4) = Tag(U, T, c) /\ GET(g, c + U.size[c] - 8) = Tag(U, T, c)
    BY <1>1, <1>12, <1>13 DEF Tagged, Tag
  <2> QED
    BY <1>1, <1>12, <2>1, <2>2, <2>3 DEF Tagged
<1>17. Linked(g, U)
  <2>1. g.head \in Chain(U) /\ \A c \in Chain(U) : U.rank[g.head] <= U.rank[c]
    <3>1. CASE b = h.head
      <4>1. \A c \in Chain(S) \ {b} : S.rank[next] <= S.rank[c]
        BY <1>1, <1>2, <1>3, <1>6, <1>9, <3>1 DEF Ranked
      <4> QED
        BY <1>6, <1>11, <1>12, <3>1, <4>1
    <3>2. CASE b # h.head
      BY <1>9, <1>11, <1>12, <3>2
    <3> QED
      BY <3>1, <3>2
  <2>2. GET(g, Prologue) = 0 /\ GET(g, g.head + 4) = 0
    <3>1. GET(g, Prologue) = 0
      <4>1. b # h.head => prev # Prologue
        BY <1>2, <1>8
      <4> QED
        BY <1>1, <1>2, <1>13, <4>1 DEF Linked
    <3>2. CASE b = h.head
      BY <1>7, <1>11, <3>1, <3>2
    <3>3. CASE b # h.head
      <4>1. g.head = h.head /\ h.head \in S.blocks /\ h.head # next /\ GET(h, h.head + 4) = 0
        BY <1>1, <1>2, <1>6, <1>11, <3>3 DEF Linked
      <4> QED
        BY <1>13, <3>1, <4>1
    <3> QED
      BY <3>1, <3>2, <3>3
  <2>3. ASSUME NEW x \in U.free
        PROVE  /\ GET(g, x) \in Chain(U) \ {g.head}
               /\ Follows(U, x, GET(g, x))
               /\ GET(g, GET(g, x) + 4) = x
    <3>0. x \in S.free /\ x # b /\ x \in S.blocks /\ x \in Chain(S)
      BY <1>2, <1>12
    <3>1. CASE b # h.head /\ x = prev
      <4>1. GET(g, x) = next /\ GET(g, next + 4) = x
        BY <1>11, <3>1
      <4>2. next \in Chain(U) \ {g.head}
        BY <1>6, <1>11, <1>12, <3>1
      <4>3. Follows(U, x, next)
        <5>1. S.rank[prev] \in Int /\ S.rank[b] \in Int /\ S.rank[next] \in Int
          BY <1>2, <1>3, <1>6, <3>0, <3>1
        <5>2. S.rank[prev] < S.rank[next]
          BY <1>6, <1>8, <3>1, <5>1
        <5>3. ASSUME NEW d \in Chain(S) \ {b}
              PROVE  S.rank[d] <= S.rank[prev] \/ S.rank[next] <= S.rank[d]
          <6>1. S.rank[d] \in Int /\ b \in Chain(S)
            BY <1>2, <1>3
          <6>2. S.rank[d] # S.rank[b]
            BY <1>1, <6>1 DEF Ranked
          <6>3. S.rank[d] <= S.rank[prev] \/ S.rank[b] <= S.rank[d]
            BY <1>8, <3>1
          <6>4. S.rank[d] <= S.rank[b] \/ S.rank[next] <= S.rank[d]
            BY <1>6
          <6> QED
            BY <5>1, <6>1, <6>2, <6>3, <6>4
        <5> QED
          BY <1>12, <3>1, <5>2, <5>3 DEF Follows
      <4> QED
        BY <4>1, <4>2, <4>3
    <3>2. CASE ~ (b # h.head /\ x = prev)
      <4>1. PICK n : n = GET(h, x)
        OBVIOUS
      <4>2. n \in Chain(S) \ {h.head} /\ Follows(S, x, n) /\ GET(h, n + 4) = x
        BY <1>1, <3>0, <4>1 DEF Linked
      <4>3. GET(g, x) = n
        BY <1>13, <3>0, <3>2, <4>1
      <4>4. n # b
        BY <1>5, <1>7, <3>2, <4>2
      <4>5. n # next
        BY <1>6, <3>0, <4>2
      <4>6. GET(g, n + 4) = x
        BY <1>2, <1>13, <4>2, <4>5
      <4>7. Follows(U, x, n)
        BY <1>12, <4>2 DEF Follows
      <4> QED
        BY <1>11, <1>12, <4>2, <4>3, <4>4, <4>5, <4>6, <4>7
    <3> QED
      BY <3>1, <3>2
  <2>4. ASSUME NEW c \in Chain(U) \ {g.head}
        PROVE  GET(g, c + 4) \in U.free /\ GET(g, GET(g, c + 4)) = c
    <3>0. c \in Chain(S) /\ c # b /\ c \in S.blocks
      BY <1>2, <1>12
    <3>1. CASE c = next
      <4>1. b # h.head
        BY <1>11, <3>1
      <4> QED
        BY <1>8, <1>11, <1>12, <3>1, <4>1
    <3>2. CASE c # next
      <4>1. c # h.head
        BY <1>11, <3>0
      <4>2. PICK p : p = GET(h, c + 4)
        OBVIOUS
      <4>3. p \in S.free /\ GET(h, p) = c
        BY <1>1, <3>0, <4>1, <4>2 DEF Linked
      <4>4. GET(g, c + 4) = p
        BY <1>13, <3>0, <3>2, <4>2
      <4>5. p # b
        BY <1>4, <3>2, <4>3
      <4>6. b # h.head => p # prev
        BY <1>8, <3>0, <4>3
      <4>7. GET(g, p) = c
        BY <1>2, <1>13, <4>3, <4>6
      <4> QED
        BY <1>12, <4>3, <4>4, <4>5, <4>7
    <3> QED
      BY <3>1, <3>2
  <2> QED
    BY <2>1, <2>2, <2>3, <2>4 DEF Linked
<1>18. Kept(h, g, S, T)
  <2> SUFFICES ASSUME NEW c \in S.blocks \ (T \cup {Prologue}), NEW a \in Payload(S, c)
               PROVE  GET(g, a) = GET(h, a)
    BY DEF Kept
  <2>1. a \in Words /\ c <= a /\ a < c + S.size[c] - 8 /\ a \in Int
    BY WordsAreInt DEF Payload
  <2>2. c \in S.blocks /\ c \notin Chain(S)
    BY <1>1 DEF Chain
  <2>3. a # next + 4
    <3>1. /\ c \in Int /\ next \in Int /\ S.size[c] \in Nat /\ S.size[next] >= 16
          /\ S.size[next] \in Nat /\ next \in S.blocks /\ next # c
      BY <1>1, <1>2, <1>6, <2>2, BlockWords
    <3> QED
      BY <1>1, <2>1, <2>2, <3>1, WordsApart
  <2>4. b # h.head => a # prev
    <3> SUFFICES ASSUME b # h.head PROVE a # prev
      OBVIOUS
    <3>1. prev \in S.blocks /\ prev # c
      BY <1>2, <1>8, <2>2
    <3>2. /\ c \in Int /\ prev \in Int /\ S.size[c] \in Nat /\ S.size[prev] >= 16
          /\ S.size[prev] \in Nat
      BY <1>1, <2>2, <3>1, BlockWords
    <3> QED
      BY <1>1, <2>1, <2>2, <3>1, <3>2, WordsApart
  <2> QED
    BY <1>11, <2>1, <2>3, <2>4
<1>19. U.free \subseteq T
  BY <1>1, <1>12
<1> QED
  BY <1>11, <1>12, <1>14, <1>15, <1>16, <1>17, <1>18, <1>19 DEF Shaped, g, U

-------------------------------------------------------------------------------
(* 2  Marking, merging, splitting                                          *)

(* Links and ranks that stay keep a free list, whatever becomes of tags.   *)
LEMMA SameLinks ==
  ASSUME NEW h, NEW S, NEW T, Shaped(h, S, T), NEW g, NEW U, NEW V,
         g \in Heaps, U \in Shapes, Tiled(U), Tagged(g, U, V), S.free \subseteq V,
         U.free = S.free, U.rank = S.rank, g.head = h.head,
         \A c \in Chain(S) : GET(g, c) = GET(h, c) /\ GET(g, c + 4) = GET(h, c + 4)
  PROVE  Shaped(g, U, V)
<1>1. Chain(U) = Chain(S) /\ Ranked(S) /\ Linked(h, S)
  BY DEF Chain, Shaped
<1>2. Ranked(U)
  <2>1. U.free \subseteq U.blocks \ {Prologue}
    BY DEF Tagged
  <2> QED
    BY <1>1, <2>1 DEF Ranked
<1>3. Linked(g, U)
  <2>1. \A b, c : Follows(S, b, c) => Follows(U, b, c)
    BY <1>1 DEF Follows
  <2>2. S.free \subseteq Chain(S) /\ Prologue \in Chain(S)
    BY DEF Chain
  <2>3. \A b \in S.free : /\ GET(g, b) \in Chain(U) \ {g.head}
                          /\ Follows(U, b, GET(g, b))
                          /\ GET(g, GET(g, b) + 4) = b
    BY <1>1, <2>1, <2>2 DEF Linked
  <2>4. \A c \in Chain(S) \ {h.head} :
          GET(g, c + 4) \in S.free /\ GET(g, GET(g, c + 4)) = c
    BY <1>1, <2>2 DEF Linked
  <2>5. g.head \in Chain(U) /\ (\A c \in Chain(U) : U.rank[g.head] <= U.rank[c])
    BY <1>1 DEF Linked
  <2>6. GET(g, Prologue) = 0 /\ GET(g, g.head + 4) = 0
    BY <1>1, <2>2 DEF Linked
  <2> QED
    BY <1>1, <2>3, <2>4, <2>5, <2>6 DEF Linked
<1> QED
  BY <1>2, <1>3 DEF Shaped

(* A block's tags are written once more, with another bit perhaps.         *)
LEMMA MarkShaped ==
  ASSUME NEW h, NEW S, NEW T, Shaped(h, S, T), NEW b \in S.blocks \ Chain(S),
         NEW bit \in {0, 1}
  PROVE  LET V == IF bit = 0 THEN T \cup {b} ELSE T \ {b}
         IN  /\ Shaped(Mark(h, b, S.size[b], bit), S, V)
             /\ Kept(h, Mark(h, b, S.size[b], bit), S, {})
<1> DEFINE V == IF bit = 0 THEN T \cup {b} ELSE T \ {b}
           g == Mark(h, b, S.size[b], bit)
<1>1. h \in Heaps /\ S \in Shapes /\ Tiled(S) /\ Ranked(S) /\ Tagged(h, S, T)
      /\ Linked(h, S) /\ S.free \subseteq T
  BY DEF Shaped
<1>2. /\ Chain(S) \subseteq S.blocks /\ S.free \subseteq Chain(S)
      /\ Prologue \in Chain(S) /\ T \subseteq S.blocks \ {Prologue} /\ b # Prologue
  BY <1>1, ChainIsBlocks DEF Tagged
<1>3. \A c \in S.blocks : c \in Int /\ c \in Words /\ c + 4 \in Words /\ c - 4 \in Words
                          /\ c + S.size[c] - 8 \in Words /\ S.size[c] \in Nat /\ S.size[c] % 8 = 0
                          /\ S.size[c] >= 16
  BY <1>1, BlockWords
<1>4. Marked(h, g, b, S.size[b], bit)
  BY <1>1, <1>3, MarkMarks
<1> HIDE DEF g
<1>5. ASSUME NEW c \in S.blocks, c # b
      PROVE  GET(g, c - 4) = GET(h, c - 4) /\ GET(g, c + S.size[c] - 8) = GET(h, c + S.size[c] - 8)
  <2>1. c - 4 # b - 4 /\ c - 4 # b + S.size[b] - 8
    BY <1>1, <1>3, <1>5, WordsApart
  <2>2. c + S.size[c] - 8 # b - 4 /\ c + S.size[c] - 8 # b + S.size[b] - 8
    BY <1>1, <1>3, <1>5, WordsApart
  <2> QED
    BY <1>3, <1>4, <2>1, <2>2 DEF Marked
<1>6. Tagged(g, S, V)
  <2>1. V \subseteq S.blocks \ {Prologue}
    BY <1>2
  <2>2. b \in V <=> bit = 0
    OBVIOUS
  <2>3. \A c : c # b => (c \in V <=> c \in T)
    OBVIOUS
  <2> HIDE DEF V
  <2>4. GET(g, S.brk - 4) = 1
    <3>1. S.brk - 4 # b - 4 /\ S.brk - 4 # b + S.size[b] - 8
      <4>1. S.brk \in Int /\ b + S.size[b] <= S.brk /\ b \in Int /\ S.size[b] \in Nat
            /\ S.size[b] >= 16
        BY <1>1, BlockWords
      <4> QED
        BY <4>1
    <3>2. S.brk - 4 \in Words
      BY <1>1, BlockWords
    <3> QED
      BY <1>1, <1>4, <3>1, <3>2 DEF Tagged, Marked
  <2>5. ASSUME NEW c \in S.blocks
        PROVE  GET(g, c - 4) = Tag(S, V, c) /\ GET(g, c + S.size[c] - 8) = Tag(S, V, c)
    <3>1. CASE c = b
      <4>1. Tag(S, V, b) = S.size[b] + bit
        BY <2>2 DEF Tag
      <4> QED
        BY <1>4, <3>1, <4>1 DEF Marked
    <3>2. CASE c # b
      <4>1. Tag(S, V, c) = Tag(S, T, c)
        BY <2>3, <3>2 DEF Tag
      <4> QED
        BY <1>1, <1>5, <3>2, <4>1 DEF Tagged
    <3> QED
      BY <3>1, <3>2
  <2>6. g.brk = S.brk /\ g.listp = Prologue
    BY <1>1, <1>4 DEF Tagged, Marked
  <2> QED
    BY <2>1, <2>4, <2>5, <2>6 DEF Tagged
<1>7. \A c \in Chain(S) : GET(g, c) = GET(h, c) /\ GET(g, c + 4) = GET(h, c + 4)
  <2> SUFFICES ASSUME NEW c \in Chain(S)
               PROVE  GET(g, c) = GET(h, c) /\ GET(g, c + 4) = GET(h, c + 4)
    OBVIOUS
  <2>1. c # b - 4 /\ c + 4 # b - 4 /\ c # b + S.size[b] - 8 /\ c + 4 # b + S.size[b] - 8
    BY <1>1, <1>2, LinksApart
  <2> QED
    BY <1>2, <1>3, <1>4, <2>1 DEF Marked
<1>8. Kept(h, g, S, {})
  <2> SUFFICES ASSUME NEW c \in S.blocks \ ({} \cup {Prologue}), NEW a \in Payload(S, c)
               PROVE  GET(g, a) = GET(h, a)
    BY DEF Kept
  <2>1. a \in Words /\ c <= a /\ a < c + S.size[c] - 8 /\ a \in Int
    BY WordsAreInt DEF Payload
  <2>2. a # b - 4 /\ a # b + S.size[b] - 8
    <3>1. CASE c = b
      BY <1>3, <2>1, <3>1
    <3>2. CASE c # b
      <4>1. /\ c \in Int /\ b \in Int /\ S.size[c] \in Nat /\ S.size[b] \in Nat /\ S.size[b] >= 16
        BY <1>3
      <4>2. a # b - 4
        BY <1>1, <2>1, <3>2, <4>1, WordsApart
      <4>3. a # b + S.size[b] - 8
        BY <1>1, <2>1, <3>2, <4>1, WordsApart
      <4> QED
        BY <4>2, <4>3
    <3> QED
      BY <3>1, <3>2
  <2> QED
    BY <1>4, <2>1, <2>2 DEF Marked
<1>9. S.free \subseteq V /\ g \in Heaps /\ g.head = h.head
  BY <1>1, <1>2, <1>4 DEF Marked
<1>10. Shaped(g, S, V)
  BY <1>1, <1>6, <1>7, <1>9, SameLinks
<1> QED
  BY <1>8, <1>10 DEF g

(* The blocks from b up to e become one.                                   *)
Merged(S, b, e) ==
  [S EXCEPT !.blocks = {x \in @ : x <= b \/ e <= x}, !.size = [@ EXCEPT ![b] = e - b]]

(* The geometry of a run of blocks that become one.                        *)
LEMMA MergeTiled ==
  ASSUME NEW S \in Shapes, Tiled(S), NEW b \in S.blocks \ {Prologue},
         NEW e \in S.blocks \cup {S.brk}, b < e
  PROVE  /\ Merged(S, b, e) \in Shapes /\ Tiled(Merged(S, b, e))
         /\ e % 8 = 0 /\ b + 16 <= e /\ e <= S.brk /\ e \in Int
<1> DEFINE U == Merged(S, b, e)
<1>1. \A c \in S.blocks : c \in Int /\ S.size[c] \in Nat /\ c >= 16 /\ c % 8 = 0
                          /\ S.size[c] >= 16 /\ S.size[c] % 8 = 0 /\ c + S.size[c] <= S.brk
  BY BlockWords
<1>2. S.brk \in Int /\ S.brk % 8 = 0 /\ S.brk <= 8 + MaxHeap
  BY BlockWords
<1>3. e \in Int /\ e % 8 = 0 /\ e <= S.brk
  <2>1. CASE e = S.brk
    BY <1>2, <2>1
  <2>2. CASE e \in S.blocks
    BY <1>1, <1>2, <2>2
  <2> QED
    BY <2>1, <2>2
<1>4. \A c \in S.blocks : c < e => c + S.size[c] <= e
  BY <1>1, <1>2 DEF Tiled
<1>5. b + 16 <= e
  BY <1>1, <1>3, <1>4
<1>6. /\ U \in Shapes /\ U.blocks = {x \in S.blocks : x <= b \/ e <= x}
      /\ U.brk = S.brk /\ U.size[b] = e - b
      /\ \A c \in S.blocks \ {b} : U.size[c] = S.size[c]
  <2>1. /\ U \in Shapes /\ U.blocks = {x \in S.blocks : x <= b \/ e <= x}
        /\ U.brk = S.brk /\ U.size = [S.size EXCEPT ![b] = e - b]
    <3>1. e - b \in Int
      BY <1>1, <1>3
    <3> QED
      BY <3>1 DEF Merged, Shapes
  <2>2. S.size \in [Int -> Int] /\ b \in Int
    BY <1>1, ShapeTypes
  <2> QED
    BY <1>1, <2>1, <2>2
<1> HIDE DEF U
<1>7. b \in U.blocks /\ b \in Int
  BY <1>1, <1>6
<1>8. ASSUME NEW c \in U.blocks
      PROVE  /\ c >= 16 /\ c % 8 = 0 /\ U.size[c] >= 16 /\ U.size[c] % 8 = 0
             /\ c + U.size[c] <= U.brk
             /\ c + U.size[c] \in U.blocks \cup {U.brk}
  <2>1. CASE c = b
    <3>1. (e - b) % 8 = 0
      BY <1>1, <1>3
    <3>2. b + (e - b) = e
      BY <1>1, <1>3
    <3>3. e \in U.blocks \cup {U.brk}
      BY <1>1, <1>3, <1>6
    <3> QED
      BY <1>1, <1>3, <1>5, <1>6, <2>1, <3>1, <3>2, <3>3
  <2>2. CASE c # b
    <3>1. c \in S.blocks /\ U.size[c] = S.size[c]
      BY <1>6, <2>2
    <3>2. c + S.size[c] \in U.blocks \cup {U.brk}
      <4>1. c + S.size[c] \in S.blocks \cup {S.brk}
        BY <3>1 DEF Tiled
      <4>2. c < b => c + S.size[c] <= b
        BY <3>1 DEF Tiled
      <4>3. c < b \/ e <= c
        BY <1>1, <1>6, <2>2, <3>1
      <4> QED
        BY <1>1, <1>3, <1>6, <3>1, <4>1, <4>2, <4>3
    <3> QED
      BY <1>1, <1>6, <3>1, <3>2
  <2> QED
    BY <2>1, <2>2
<1>9. ASSUME NEW c \in U.blocks, NEW d \in U.blocks, c < d
      PROVE  c + U.size[c] <= d
  <2>0. c \in S.blocks /\ d \in S.blocks
    BY <1>6
  <2>1. CASE c = b
    BY <1>1, <1>3, <1>6, <1>9, <2>0, <2>1
  <2>2. CASE c # b
    BY <1>6, <1>9, <2>0, <2>2 DEF Tiled
  <2> QED
    BY <2>1, <2>2
<1>10. ASSUME NEW c \in (U.blocks \cup {U.brk}) \ {Prologue}
       PROVE  \E d \in U.blocks : d + U.size[d] = c
  <2>1. c \in (S.blocks \cup {S.brk}) \ {Prologue}
    BY <1>6
  <2>2. PICK d \in S.blocks : d + S.size[d] = c
    BY <2>1 DEF Tiled
  <2>3. CASE d < b \/ e <= d
    <3>1. d \in U.blocks /\ d # b
      BY <1>1, <1>3, <1>6, <2>3
    <3> QED
      BY <1>6, <2>2, <3>1
  <2>4. CASE b <= d /\ d < e
    <3>1. d + S.size[d] <= e
      BY <1>4, <2>4
    <3>2. b < c
      BY <1>1, <2>2, <2>4
    <3>3. c \in Int /\ (c <= b \/ e <= c)
      BY <1>1, <1>2, <1>3, <1>6
    <3>4. c = e
      BY <1>1, <1>3, <2>2, <3>1, <3>2, <3>3
    <3> QED
      BY <1>1, <1>3, <1>6, <1>7, <3>4
  <2> QED
    BY <1>1, <1>3, <2>3, <2>4
<1>11. Prologue \in U.blocks /\ U.size[Prologue] = 16
  <2>1. Prologue \in S.blocks /\ S.size[Prologue] = 16 /\ Prologue <= b
    BY <1>1 DEF Tiled, Prologue
  <2> QED
    BY <1>6, <2>1
<1>12. Tiled(U)
  BY <1>2, <1>6, <1>8, <1>9, <1>10, <1>11 DEF Tiled
<1> QED
  BY <1>3, <1>5, <1>6, <1>12 DEF U

(* A run of blocks that are free, but on no list, becomes one of them.     *)
LEMMA MergeShaped ==
  ASSUME NEW h, NEW S, NEW T, Shaped(h, S, T), NEW b \in T,
         NEW e \in S.blocks \cup {S.brk}, b < e,
         \A x \in S.blocks : b <= x /\ x < e => x \in T \ S.free
  PROVE  LET g == Mark(h, b, e - b, 0)
             U == Merged(S, b, e)
             V == {x \in T : x <= b \/ e <= x}
         IN  /\ Shaped(g, U, V)
             /\ Kept(h, g, S, T)
             /\ U.blocks \ V = S.blocks \ T
             /\ \A c \in S.blocks \ T : U.size[c] = S.size[c]
<1> DEFINE g == Mark(h, b, e - b, 0)
           U == Merged(S, b, e)
           V == {x \in T : x <= b \/ e <= x}
<1>1. h \in Heaps /\ S \in Shapes /\ Tiled(S) /\ Ranked(S) /\ Tagged(h, S, T)
      /\ Linked(h, S) /\ S.free \subseteq T
  BY DEF Shaped
<1>2. /\ Chain(S) \subseteq S.blocks /\ S.free \subseteq Chain(S)
      /\ Prologue \in Chain(S) /\ T \subseteq S.blocks \ {Prologue} /\ b # Prologue
      /\ b \in S.blocks
  BY <1>1, ChainIsBlocks DEF Tagged
<1>3. \A c \in S.blocks : c \in Int /\ c \in Words /\ c + 4 \in Words /\ c - 4 \in Words
                          /\ c + S.size[c] - 8 \in Words /\ S.size[c] \in Nat /\ S.size[c] % 8 = 0
                          /\ S.size[c] >= 16 /\ c % 8 = 0 /\ c >= 16
  BY <1>1, BlockWords
<1>4. /\ U \in Shapes /\ Tiled(U) /\ e % 8 = 0 /\ b + 16 <= e /\ e <= S.brk /\ e \in Int
  BY <1>1, <1>2, MergeTiled
<1>5. S.brk \in Int /\ S.brk % 8 = 0 /\ S.brk <= 8 + MaxHeap /\ S.brk - 4 \in Words
  BY <1>1, <1>2, BlockWords
<1>6. Marked(h, g, b, e - b, 0)
  <2>1. e - b \in Nat /\ (e - b) % 8 = 0
    BY <1>2, <1>3, <1>4
  <2>2. b + (e - b) - 8 \in Words
    <3>1. e - 8 \in Words
      BY <1>2, <1>3, <1>4, <1>5, WordsAre, MaxHeapAssumption
    <3>2. b + (e - b) - 8 = e - 8
      BY <1>2, <1>3, <1>4
    <3> QED
      BY <3>1, <3>2
  <2> QED
    BY <1>1, <1>2, <1>3, <2>1, <2>2, MarkMarks
<1> HIDE DEF g
<1>7. /\ g \in Heaps /\ g.brk = h.brk /\ g.listp = h.listp /\ g.head = h.head
      /\ GET(g, b - 4) = e - b /\ GET(g, e - 8) = e - b
      /\ \A a \in Words : a # b - 4 /\ a # e - 8 => GET(g, a) = GET(h, a)
  <2>1. b + (e - b) - 8 = e - 8 /\ (e - b) + 0 = e - b
    BY <1>2, <1>3, <1>4
  <2> QED
    BY <1>6, <2>1 DEF Marked
<1>8. /\ U.blocks = {x \in S.blocks : x <= b \/ e <= x} /\ U.free = S.free
      /\ U.brk = S.brk /\ U.size[b] = e - b /\ U.rank = S.rank
      /\ \A c \in S.blocks \ {b} : U.size[c] = S.size[c]
  <2>1. /\ U.blocks = {x \in S.blocks : x <= b \/ e <= x} /\ U.rank = S.rank
        /\ U.free = S.free /\ U.brk = S.brk /\ U.size = [S.size EXCEPT ![b] = e - b]
    BY <1>1 DEF Merged, Shapes
  <2>2. S.size \in [Int -> Int] /\ b \in Int
    BY <1>1, <1>2, <1>3, ShapeTypes
  <2> QED
    BY <1>3, <2>1, <2>2
<1> HIDE DEF U
<1>9. \A c \in S.blocks : c \notin T \ S.free => c < b \/ e <= c
  BY <1>2, <1>3, <1>4
<1>10. \A c \in S.blocks : c < b => c + S.size[c] <= b
  BY <1>1, <1>2 DEF Tiled
<1>11. Tagged(g, U, V)
  <2>1. V \subseteq U.blocks \ {Prologue} /\ b \in V
    BY <1>2, <1>3, <1>8
  <2>2. g.brk = U.brk /\ g.listp = Prologue
    BY <1>1, <1>7, <1>8 DEF Tagged
  <2>3. GET(g, U.brk - 4) = 1
    <3>1. S.brk - 4 # b - 4 /\ S.brk - 4 # e - 8
      BY <1>2, <1>3, <1>4, <1>5
    <3> QED
      BY <1>1, <1>5, <1>7, <1>8, <3>1 DEF Tagged
  <2>4. ASSUME NEW c \in U.blocks
        PROVE  GET(g, c - 4) = Tag(U, V, c) /\ GET(g, c + U.size[c] - 8) = Tag(U, V, c)
    <3>0. c \in S.blocks /\ c \in Int /\ b \in Int /\ (c <= b \/ e <= c)
      BY <1>2, <1>3, <1>8
    <3>1. CASE c = b
      <4>1. Tag(U, V, b) = e - b
        BY <1>2, <1>3, <1>4, <1>8, <2>1 DEF Tag
      <4>2. b + (e - b) - 8 = e - 8
        BY <1>4, <3>0
      <4> QED
        BY <1>7, <1>8, <3>1, <4>1, <4>2
    <3>2. CASE c # b
      <4>1. Tag(U, V, c) = Tag(S, T, c)
        BY <1>8, <3>0, <3>2 DEF Tag
      <4>2. U.size[c] = S.size[c]
        BY <1>8, <3>0, <3>2
      <4>3. c - 4 # b - 4 /\ c - 4 # e - 8
        BY <1>3, <1>4, <1>10, <3>0, <3>2
      <4>4. c + S.size[c] - 8 # b - 4 /\ c + S.size[c] - 8 # e - 8
        BY <1>3, <1>4, <1>10, <3>0, <3>2
      <4> QED
        BY <1>1, <1>3, <1>7, <3>0, <4>1, <4>2, <4>3, <4>4 DEF Tagged
    <3> QED
      BY <3>1, <3>2
  <2> QED
    BY <2>1, <2>2, <2>3, <2>4 DEF Tagged
<1>12. \A c \in Chain(S) : GET(g, c) = GET(h, c) /\ GET(g, c + 4) = GET(h, c + 4)
  <2> SUFFICES ASSUME NEW c \in Chain(S)
               PROVE  GET(g, c) = GET(h, c) /\ GET(g, c + 4) = GET(h, c + 4)
    OBVIOUS
  <2>1. c \in S.blocks /\ c \notin T \ S.free
    BY <1>2 DEF Chain
  <2>2. c # b - 4 /\ c # e - 8 /\ c + 4 # b - 4 /\ c + 4 # e - 8
    BY <1>2, <1>3, <1>4, <1>9, <1>10, <2>1
  <2> QED
    BY <1>3, <1>7, <2>1, <2>2
<1>13. Kept(h, g, S, T)
  <2> SUFFICES ASSUME NEW c \in S.blocks \ (T \cup {Prologue}), NEW a \in Payload(S, c)
               PROVE  GET(g, a) = GET(h, a)
    BY DEF Kept
  <2>1. a \in Words /\ c <= a /\ a < c + S.size[c] - 8 /\ a \in Int
    BY WordsAreInt DEF Payload
  <2>2. c < b \/ e <= c
    BY <1>9
  <2>3. a # b - 4 /\ a # e - 8
    BY <1>2, <1>3, <1>4, <1>10, <2>1, <2>2
  <2> QED
    BY <1>7, <2>1, <2>3
<1>14. S.free \subseteq V
  BY <1>1, <1>2, <1>3, <1>9
<1>15. Shaped(g, U, V)
  BY <1>4, <1>7, <1>8, <1>11, <1>12, <1>14, SameLinks
<1>16. U.blocks \ V = S.blocks \ T
  <2>1. ASSUME NEW x \in S.blocks \ T PROVE x \in U.blocks \ V
    <3>1. x < b \/ e <= x
      BY <1>9
    <3>2. x <= b \/ e <= x
      BY <1>2, <1>3, <3>1
    <3> QED
      BY <1>8, <3>2
  <2>2. ASSUME NEW x \in U.blocks \ V PROVE x \in S.blocks \ T
    BY <1>8
  <2> QED
    BY <2>1, <2>2
<1>17. \A c \in S.blocks \ T : U.size[c] = S.size[c]
  BY <1>8
<1> QED
  BY <1>13, <1>15, <1>16, <1>17 DEF g, U

(* Block b keeps m bytes, and the rest is a block.                         *)
Split(S, b, m) ==
  [S EXCEPT !.blocks = @ \cup {b + m},
            !.size = [@ EXCEPT ![b] = m, ![b + m] = S.size[b] - m]]

(* The blocks still fill the heap when one is split.                       *)
LEMMA SplitTiled ==
  ASSUME NEW S \in Shapes, Tiled(S), NEW b \in S.blocks \ {Prologue},
         NEW m \in Nat, m % 8 = 0, m >= 16, S.size[b] - m >= 16
  PROVE  LET U == Split(S, b, m)
         IN  /\ U \in Shapes /\ Tiled(U)
             /\ U.blocks = S.blocks \cup {b + m} /\ U.brk = S.brk
             /\ U.free = S.free /\ U.rank = S.rank
             /\ U.size[b] = m /\ U.size[b + m] = S.size[b] - m
             /\ \A c \in S.blocks \ {b} : U.size[c] = S.size[c]
             /\ b + m \notin S.blocks
<1> DEFINE U == Split(S, b, m)
           d == b + m
           s == S.size[b]
<1>1. \A c \in S.blocks : c \in Int /\ S.size[c] \in Nat /\ c >= 16 /\ c % 8 = 0
                          /\ S.size[c] >= 16 /\ S.size[c] % 8 = 0 /\ c + S.size[c] <= S.brk
  BY BlockWords
<1>2. S.brk \in Int /\ S.brk % 8 = 0 /\ S.brk <= 8 + MaxHeap
  BY BlockWords
<1>3. d \in Int /\ d % 8 = 0 /\ b < d /\ d < b + s /\ d >= 16 /\ b \in Int /\ s \in Nat
  BY <1>1
<1>4. \A c \in S.blocks : c <= b \/ b + s <= c
  BY <1>1 DEF Tiled
<1>5. d \notin S.blocks
  BY <1>3, <1>4
<1>6. /\ U \in Shapes /\ U.blocks = S.blocks \cup {d} /\ U.brk = S.brk
      /\ U.free = S.free /\ U.rank = S.rank
      /\ U.size[b] = m /\ U.size[d] = s - m
      /\ \A c \in S.blocks \ {b} : U.size[c] = S.size[c]
  <2>1. /\ U \in Shapes /\ U.blocks = S.blocks \cup {d} /\ U.brk = S.brk
        /\ U.free = S.free /\ U.rank = S.rank
        /\ U.size = [S.size EXCEPT ![b] = m, ![d] = s - m]
    <3>1. m \in Int /\ s - m \in Int
      BY <1>3
    <3>2. PICK f : f = [S.size EXCEPT ![b] = m, ![d] = s - m]
      OBVIOUS
    <3>3. f \in [Int -> Int]
      BY <3>1, <3>2, ShapeTypes
    <3>4. U = [S EXCEPT !.blocks = S.blocks \cup {d}, !.size = f]
      BY <3>2 DEF Split
    <3>5. S.blocks \cup {d} \in SUBSET Int
      BY <1>1, <1>3
    <3> HIDE DEF U, d, s
    <3> QED
      BY <3>2, <3>3, <3>4, <3>5 DEF Shapes
  <2>2. S.size \in [Int -> Int]
    BY ShapeTypes
  <2> QED
    BY <1>1, <1>3, <1>5, <2>1, <2>2
<1> HIDE DEF U
<1>7. ASSUME NEW c \in U.blocks
      PROVE  /\ c >= 16 /\ c % 8 = 0 /\ U.size[c] >= 16 /\ U.size[c] % 8 = 0
             /\ c + U.size[c] <= U.brk
             /\ c + U.size[c] \in U.blocks \cup {U.brk}
  <2>1. CASE c = b
    BY <1>1, <1>2, <1>3, <1>6, <2>1
  <2>2. CASE c = d
    <3>1. d + (s - m) = b + s /\ (s - m) % 8 = 0
      BY <1>1, <1>3
    <3>2. b + s \in S.blocks \cup {S.brk} /\ b + s <= S.brk
      BY DEF Tiled
    <3> QED
      BY <1>3, <1>6, <2>2, <3>1, <3>2
  <2>3. CASE c # b /\ c # d
    BY <1>6, <2>3 DEF Tiled
  <2> QED
    BY <2>1, <2>2, <2>3
<1>8. ASSUME NEW c \in U.blocks, NEW e \in U.blocks, c < e
      PROVE  c + U.size[c] <= e
  <2>1. CASE c = b
    BY <1>1, <1>3, <1>4, <1>6, <1>8, <2>1
  <2>2. CASE c = d
    BY <1>1, <1>3, <1>4, <1>6, <1>8, <2>2
  <2>3. CASE c # b /\ c # d
    <3>1. c \in S.blocks /\ U.size[c] = S.size[c]
      BY <1>6, <2>3
    <3>2. CASE e = d
      <4>1. c < b
        BY <1>1, <1>3, <1>4, <1>8, <2>3, <3>1, <3>2
      <4>2. c + S.size[c] <= b
        BY <3>1, <4>1 DEF Tiled
      <4> QED
        BY <1>1, <1>3, <3>1, <3>2, <4>2
    <3>3. CASE e # d
      BY <1>6, <1>8, <3>1, <3>3 DEF Tiled
    <3> QED
      BY <3>2, <3>3
  <2> QED
    BY <2>1, <2>2, <2>3
<1>9. ASSUME NEW c \in (U.blocks \cup {U.brk}) \ {Prologue}
      PROVE  \E e \in U.blocks : e + U.size[e] = c
  <2>1. CASE c = d
    BY <1>6, <2>1
  <2>2. CASE c # d
    <3>1. PICK e \in S.blocks : e + S.size[e] = c
      BY <1>6, <2>2 DEF Tiled
    <3>2. CASE e = b
      <4>1. d + (s - m) = c
        BY <1>3, <3>1, <3>2
      <4> QED
        BY <1>6, <4>1
    <3>3. CASE e # b
      BY <1>6, <3>1, <3>3
    <3> QED
      BY <3>2, <3>3
  <2> QED
    BY <2>1, <2>2
<1>10. Prologue \in U.blocks /\ U.size[Prologue] = 16
  BY <1>6 DEF Tiled
<1>11. Tiled(U)
  BY <1>2, <1>6, <1>7, <1>8, <1>9, <1>10 DEF Tiled
<1> QED
  BY <1>5, <1>6, <1>11 DEF U

(* A free block, on no list, becomes a used one and a free rest.           *)
LEMMA SplitShaped ==
  ASSUME NEW h, NEW S, NEW T, Shaped(h, S, T), NEW b \in T \ S.free,
         NEW m \in Nat, m % 8 = 0, m >= 16, S.size[b] - m >= 16
  PROVE  LET g == Mark(Mark(h, b, m, 1), b + m, S.size[b] - m, 0)
             V == (T \ {b}) \cup {b + m}
         IN  /\ Shaped(g, Split(S, b, m), V)
             /\ Kept(h, g, S, T)
<1> DEFINE k == Mark(h, b, m, 1)
           g == Mark(k, b + m, S.size[b] - m, 0)
           U == Split(S, b, m)
           V == (T \ {b}) \cup {b + m}
<1>1. h \in Heaps /\ S \in Shapes /\ Tiled(S) /\ Ranked(S) /\ Tagged(h, S, T)
      /\ Linked(h, S) /\ S.free \subseteq T
  BY DEF Shaped
<1>2. /\ Chain(S) \subseteq S.blocks /\ S.free \subseteq Chain(S)
      /\ Prologue \in Chain(S) /\ T \subseteq S.blocks \ {Prologue} /\ b # Prologue
      /\ b \in S.blocks /\ b \notin Chain(S)
  BY <1>1, ChainIsBlocks DEF Tagged, Chain
<1>3. \A c \in S.blocks : c \in Int /\ c \in Words /\ c + 4 \in Words /\ c - 4 \in Words
                          /\ c + S.size[c] - 8 \in Words /\ S.size[c] \in Nat /\ S.size[c] % 8 = 0
                          /\ S.size[c] >= 16 /\ c % 8 = 0 /\ c >= 16
  BY <1>1, BlockWords
<1>4. PICK s \in Nat : s = S.size[b]
  BY <1>2, <1>3
<1>5. /\ S.brk \in Int /\ S.brk <= 8 + MaxHeap /\ S.brk - 4 \in Words /\ b + s <= S.brk
      /\ s % 8 = 0 /\ s - m >= 16 /\ b \in Int /\ b >= 16 /\ b % 8 = 0
  BY <1>1, <1>2, <1>3, <1>4, BlockWords
<1>6. \A a \in Int : a % 4 = 0 /\ b - 4 <= a /\ a < b + s => a \in Words
  BY <1>5, WordsAre, MaxHeapAssumption
<1>7. /\ b - 4 \in Words /\ b + m - 8 \in Words /\ b + m - 4 \in Words
      /\ (b + m) + (s - m) - 8 \in Words
  <2>1. (b + m) + (s - m) - 8 = b + s - 8 /\ (b + s - 8) % 4 = 0 /\ b + s - 8 \in Int
    BY <1>5
  <2>2. b + s - 8 \in Words
    BY <1>5, <1>6, <2>1
  <2>3. b + m - 8 \in Words /\ b + m - 4 \in Words
    BY <1>5, <1>6
  <2> QED
    BY <1>2, <1>3, <2>1, <2>2, <2>3
<1>8. Marked(h, k, b, m, 1)
  BY <1>1, <1>5, <1>7, MarkMarks
<1>9. Marked(k, g, b + m, s - m, 0)
  <2>1. k \in Heaps
    BY <1>8 DEF Marked
  <2>2. s - m \in Nat /\ (s - m) % 8 = 0 /\ b + m \in Int
    BY <1>5
  <2> HIDE DEF k
  <2>3. PICK q \in Int : q = b + m
    BY <2>2
  <2>4. PICK r \in Nat : r = s - m
    BY <2>2
  <2>5. r % 8 = 0 /\ q - 4 \in Words /\ q + r - 8 \in Words
    BY <1>5, <1>7, <2>2, <2>3, <2>4
  <2>6. Marked(k, Mark(k, q, r, 0), q, r, 0)
    BY <2>1, <2>5, MarkMarks
  <2> QED
    BY <1>4, <2>3, <2>4, <2>6
<1> HIDE DEF k, g
<1>10. /\ g \in Heaps /\ g.brk = h.brk /\ g.listp = h.listp /\ g.head = h.head
       /\ GET(g, b - 4) = m + 1 /\ GET(g, b + m - 8) = m + 1
       /\ GET(g, b + m - 4) = s - m /\ GET(g, b + s - 8) = s - m
       /\ \A a \in Words : a # b - 4 /\ a # b + m - 8 /\ a # b + m - 4 /\ a # b + s - 8
                             => GET(g, a) = GET(h, a)
  <2>1. (b + m) + (s - m) - 8 = b + s - 8 /\ (s - m) + 0 = s - m
    BY <1>5
  <2>2. b - 4 # b + m - 4 /\ b - 4 # b + s - 8 /\ b + m - 8 # b + m - 4 /\ b + m - 8 # b + s - 8
    BY <1>5
  <2>3. /\ GET(k, b - 4) = m + 1 /\ GET(k, b + m - 8) = m + 1
        /\ k.brk = h.brk /\ k.listp = h.listp /\ k.head = h.head
        /\ \A a \in Words : a # b - 4 /\ a # b + m - 8 => GET(k, a) = GET(h, a)
    BY <1>8 DEF Marked
  <2>4. /\ g \in Heaps /\ g.brk = k.brk /\ g.listp = k.listp /\ g.head = k.head
        /\ GET(g, b + m - 4) = s - m /\ GET(g, b + s - 8) = s - m
        /\ \A a \in Words : a # b + m - 4 /\ a # b + s - 8 => GET(g, a) = GET(k, a)
    <3>1. /\ g \in Heaps /\ g.brk = k.brk /\ g.listp = k.listp /\ g.head = k.head
          /\ GET(g, b + m - 4) = (s - m) + 0 /\ GET(g, (b + m) + (s - m) - 8) = (s - m) + 0
          /\ \A a \in Words \ {b + m - 4, (b + m) + (s - m) - 8} : GET(g, a) = GET(k, a)
      BY <1>5, <1>9 DEF Marked
    <3> QED
      BY <2>1, <3>1
  <2> QED
    BY <1>5, <1>7, <2>2, <2>3, <2>4
<1>11. /\ U \in Shapes /\ Tiled(U)
       /\ U.blocks = S.blocks \cup {b + m} /\ U.brk = S.brk
       /\ U.free = S.free /\ U.rank = S.rank
       /\ U.size[b] = m /\ U.size[b + m] = s - m
       /\ \A c \in S.blocks \ {b} : U.size[c] = S.size[c]
       /\ b + m \notin S.blocks
  BY <1>1, <1>2, <1>4, SplitTiled
<1> HIDE DEF U
<1>12. \A c \in S.blocks \ {b} : c + S.size[c] <= b \/ b + s <= c
  BY <1>1, <1>2, <1>3, <1>4 DEF Tiled
<1>13. ASSUME NEW c \in S.blocks \ {b}, NEW a \in Words, c - 4 <= a, a < c + S.size[c] - 4
       PROVE  GET(g, a) = GET(h, a)
  <2>1. a \in Int /\ c \in Int /\ S.size[c] \in Nat
    BY <1>3, WordsAreInt
  <2>2. a # b - 4 /\ a # b + m - 8 /\ a # b + m - 4 /\ a # b + s - 8
    BY <1>5, <1>12, <1>13, <2>1
  <2> QED
    BY <1>10, <2>2
<1>14. Tagged(g, U, V)
  <2>1. V \subseteq U.blocks \ {Prologue} /\ b \notin V /\ b + m \in V
    BY <1>2, <1>5, <1>11
  <2>2. \A c : c # b /\ c # b + m => (c \in V <=> c \in T)
    OBVIOUS
  <2> HIDE DEF V
  <2>3. g.brk = U.brk /\ g.listp = Prologue
    BY <1>1, <1>10, <1>11 DEF Tagged
  <2>4. GET(g, U.brk - 4) = 1
    <3>1. S.brk - 4 # b - 4 /\ S.brk - 4 # b + m - 8 /\ S.brk - 4 # b + m - 4
          /\ S.brk - 4 # b + s - 8
      BY <1>5
    <3> QED
      BY <1>1, <1>5, <1>10, <1>11, <3>1 DEF Tagged
  <2>5. ASSUME NEW c \in U.blocks
        PROVE  GET(g, c - 4) = Tag(U, V, c) /\ GET(g, c + U.size[c] - 8) = Tag(U, V, c)
    <3>1. CASE c = b
      <4>1. Tag(U, V, b) = m + 1
        BY <1>11, <2>1 DEF Tag
      <4> QED
        BY <1>10, <1>11, <3>1, <4>1
    <3>2. CASE c = b + m
      <4>1. Tag(U, V, b + m) = s - m
        BY <1>5, <1>11, <2>1 DEF Tag
      <4>2. b + m + (s - m) - 8 = b + s - 8
        BY <1>5
      <4> QED
        <5>1. U.size[c] = s - m
          BY <1>11, <3>2
        <5>2. GET(g, c - 4) = s - m
          BY <1>5, <1>10, <3>2
        <5>3. c + U.size[c] - 8 = b + s - 8
          BY <3>2, <4>2, <5>1
        <5>4. GET(g, c + U.size[c] - 8) = s - m
          BY <1>10, <5>3
        <5> QED
          BY <3>2, <4>1, <5>2, <5>4
    <3>3. CASE c # b /\ c # b + m
      <4>1. c \in S.blocks \ {b} /\ U.size[c] = S.size[c]
        BY <1>11, <3>3
      <4>2. Tag(U, V, c) = Tag(S, T, c)
        BY <2>2, <3>3, <4>1 DEF Tag
      <4>3. GET(g, c - 4) = GET(h, c - 4)
        BY <1>3, <1>13, <4>1
      <4>4. GET(g, c + S.size[c] - 8) = GET(h, c + S.size[c] - 8)
        BY <1>3, <1>13, <4>1
      <4> QED
        BY <1>1, <4>1, <4>2, <4>3, <4>4 DEF Tagged
    <3> QED
      BY <3>1, <3>2, <3>3
  <2> QED
    BY <2>1, <2>3, <2>4, <2>5 DEF Tagged
<1>15. \A c \in Chain(S) : GET(g, c) = GET(h, c) /\ GET(g, c + 4) = GET(h, c + 4)
  <2> SUFFICES ASSUME NEW c \in Chain(S)
               PROVE  GET(g, c) = GET(h, c) /\ GET(g, c + 4) = GET(h, c + 4)
    OBVIOUS
  <2>1. c \in S.blocks \ {b}
    BY <1>2
  <2>2. c \in Int /\ c \in Words /\ c + 4 \in Words /\ S.size[c] \in Nat /\ S.size[c] >= 16
    BY <1>3, <2>1
  <2>3. GET(g, c) = GET(h, c)
    BY <1>13, <2>1, <2>2
  <2>4. GET(g, c + 4) = GET(h, c + 4)
    BY <1>13, <2>1, <2>2
  <2> QED
    BY <2>3, <2>4
<1>16. Kept(h, g, S, T)
  <2> SUFFICES ASSUME NEW c \in S.blocks \ (T \cup {Prologue}), NEW a \in Payload(S, c)
               PROVE  GET(g, a) = GET(h, a)
    BY DEF Kept
  <2>1. a \in Words /\ c <= a /\ a < c + S.size[c] - 8 /\ a \in Int
    BY WordsAreInt DEF Payload
  <2>2. c \in S.blocks \ {b} /\ c - 4 <= a /\ a < c + S.size[c] - 4
    BY <1>3, <2>1
  <2> QED
    BY <1>13, <2>1, <2>2
<1>17. S.free \subseteq V
  BY <1>1
<1>18. Shaped(g, U, V)
  BY <1>10, <1>11, <1>14, <1>15, <1>17, SameLinks
<1> QED
  BY <1>16, <1>18 DEF g, U, k

(* The heap grows by a block of n bytes.                                   *)
Extended(S, n) ==
  [S EXCEPT !.blocks = @ \cup {S.brk}, !.size = [@ EXCEPT ![S.brk] = n], !.brk = @ + n]

(* The blocks still fill the heap when it grows.                           *)
LEMMA ExtendTiled ==
  ASSUME NEW S \in Shapes, Tiled(S), NEW n \in Nat, n % 8 = 0, n >= 16,
         S.brk + n <= 8 + MaxHeap
  PROVE  LET U == Extended(S, n)
         IN  /\ U \in Shapes /\ Tiled(U)
             /\ U.blocks = S.blocks \cup {S.brk} /\ U.brk = S.brk + n
             /\ U.free = S.free /\ U.rank = S.rank
             /\ U.size[S.brk] = n
             /\ \A c \in S.blocks : U.size[c] = S.size[c]
             /\ S.brk \notin S.blocks
<1> DEFINE U == Extended(S, n)
<1>1. \A c \in S.blocks : c \in Int /\ S.size[c] \in Nat /\ c >= 16 /\ c % 8 = 0
                          /\ S.size[c] >= 16 /\ S.size[c] % 8 = 0 /\ c + S.size[c] <= S.brk
  BY BlockWords
<1>2. S.brk \in Int /\ S.brk % 8 = 0 /\ S.brk >= 32
  <2>1. Prologue \in S.blocks
    BY DEF Tiled
  <2> QED
    BY <1>1, <2>1, BlockWords DEF Prologue
<1>3. S.brk \notin S.blocks
  BY <1>1, <1>2
<1>4. /\ U \in Shapes /\ U.blocks = S.blocks \cup {S.brk} /\ U.brk = S.brk + n
      /\ U.free = S.free /\ U.rank = S.rank /\ U.size[S.brk] = n
      /\ \A c \in S.blocks : U.size[c] = S.size[c]
  <2>1. PICK f : f = [S.size EXCEPT ![S.brk] = n]
    OBVIOUS
  <2>2. f \in [Int -> Int] /\ f[S.brk] = n /\ \A c \in S.blocks : f[c] = S.size[c]
    BY <1>1, <1>2, <1>3, <2>1, ShapeTypes
  <2>3. U = [S EXCEPT !.blocks = S.blocks \cup {S.brk}, !.size = f, !.brk = S.brk + n]
    BY <2>1 DEF Extended
  <2>4. S.blocks \cup {S.brk} \in SUBSET Int /\ S.brk + n \in Int
    BY <1>1, <1>2
  <2> HIDE DEF U
  <2> QED
    BY <2>2, <2>3, <2>4 DEF Shapes
<1> HIDE DEF U
<1>5. ASSUME NEW c \in U.blocks
      PROVE  /\ c >= 16 /\ c % 8 = 0 /\ U.size[c] >= 16 /\ U.size[c] % 8 = 0
             /\ c + U.size[c] <= U.brk
             /\ c + U.size[c] \in U.blocks \cup {U.brk}
  <2>1. CASE c = S.brk
    BY <1>2, <1>4, <2>1
  <2>2. CASE c # S.brk
    <3>1. c + S.size[c] \in S.blocks \cup {S.brk} /\ c \in S.blocks
      BY <1>4, <2>2 DEF Tiled
    <3> QED
      BY <1>1, <1>2, <1>4, <3>1
  <2> QED
    BY <2>1, <2>2
<1>6. ASSUME NEW c \in U.blocks, NEW e \in U.blocks, c < e
      PROVE  c + U.size[c] <= e
  <2>1. CASE c = S.brk
    BY <1>1, <1>2, <1>4, <1>6, <2>1
  <2>2. CASE c # S.brk /\ e = S.brk
    BY <1>1, <1>4, <2>2
  <2>3. CASE c # S.brk /\ e # S.brk
    BY <1>4, <1>6, <2>3 DEF Tiled
  <2> QED
    BY <2>1, <2>2, <2>3
<1>7. ASSUME NEW c \in (U.blocks \cup {U.brk}) \ {Prologue}
      PROVE  \E e \in U.blocks : e + U.size[e] = c
  <2>1. CASE c = U.brk
    BY <1>2, <1>4, <2>1
  <2>2. CASE c # U.brk
    <3>1. PICK e \in S.blocks : e + S.size[e] = c
      BY <1>4, <2>2 DEF Tiled
    <3> QED
      BY <1>4, <3>1
  <2> QED
    BY <2>1, <2>2
<1>8. Prologue \in U.blocks /\ U.size[Prologue] = 16
  BY <1>4 DEF Tiled
<1>9. U.brk % 8 = 0 /\ U.brk <= 8 + MaxHeap
  BY <1>2, <1>4
<1>10. Tiled(U)
  BY <1>5, <1>6, <1>7, <1>8, <1>9 DEF Tiled
<1> QED
  BY <1>3, <1>4, <1>10 DEF U

-------------------------------------------------------------------------------
(* 3  coalesce and extend_heap                                             *)

(* One Mark makes one free block of a run of blocks that no list holds.    *)
LEMMA MergeShapes ==
  ASSUME NEW h, NEW S, NEW T, Shaped(h, S, T), NEW b, b \in T,
         NEW e, e \in S.blocks \cup {S.brk}, b < e,
         \A x \in S.blocks : b <= x /\ x < e => x \in T \ S.free,
         NEW V, V = {x \in T : x <= b \/ e <= x}
  PROVE  /\ Shaped(Mark(h, b, e - b, 0), Merged(S, b, e), V)
         /\ Kept(h, Mark(h, b, e - b, 0), S, T)
         /\ Merged(S, b, e).blocks \ V = S.blocks \ T
BY MergeShaped

(* What the macros read in a heap with a shape.                            *)
LEMMA ShapeRead ==
  ASSUME NEW h, NEW S, NEW T, Shaped(h, S, T), NEW c \in S.blocks
  PROVE  /\ GET_SIZE(h, HDRP(c)) = S.size[c]
         /\ GET_ALLOC(h, HDRP(c)) = IF c \in T THEN 0 ELSE 1
         /\ FTRP(h, c) = c + S.size[c] - 8
         /\ GET_SIZE(h, FTRP(h, c)) = S.size[c]
         /\ GET_ALLOC(h, FTRP(h, c)) = IF c \in T THEN 0 ELSE 1
         /\ NEXT_BLKP(h, c) = c + S.size[c]
         /\ PREV_BLKP(h, c + S.size[c]) = c
<1>1. h \in Heaps /\ S \in Shapes /\ Tiled(S) /\ Tagged(h, S, T)
  BY DEF Shaped
<1>2. c \in Int /\ S.size[c] \in Nat /\ S.size[c] % 8 = 0
  BY <1>1, BlockWords
<1>3. PICK bit \in {0, 1} : bit = IF c \in T THEN 0 ELSE 1
  OBVIOUS
<1>4. GET(h, c - 4) = S.size[c] + bit /\ GET(h, c + S.size[c] - 8) = S.size[c] + bit
  BY <1>1, <1>3 DEF Tagged, Tag
<1>5. /\ (S.size[c] + bit) - ((S.size[c] + bit) % 8) = S.size[c]
      /\ (S.size[c] + bit) % 2 = bit
  BY <1>2, TagRead
<1>6. HDRP(c) = c - 4
  BY DEF HDRP
<1>7. GET_SIZE(h, HDRP(c)) = S.size[c] /\ GET_ALLOC(h, HDRP(c)) = bit
  BY <1>4, <1>5, <1>6 DEF GET_SIZE, GET_ALLOC
<1>8. FTRP(h, c) = c + S.size[c] - 8 /\ NEXT_BLKP(h, c) = c + S.size[c]
  BY <1>7 DEF FTRP, NEXT_BLKP
<1>9. GET_SIZE(h, FTRP(h, c)) = S.size[c] /\ GET_ALLOC(h, FTRP(h, c)) = bit
  BY <1>4, <1>5, <1>8 DEF GET_SIZE, GET_ALLOC
<1>10. PREV_BLKP(h, c + S.size[c]) = c
  <2>1. GET_SIZE(h, c + S.size[c] - 8) = S.size[c]
    BY <1>8, <1>9
  <2>2. (c + S.size[c]) - DSIZE = c + S.size[c] - 8
    BY <1>2
  <2>3. PREV_BLKP(h, c + S.size[c]) = (c + S.size[c]) - S.size[c]
    BY <2>1, <2>2 DEF PREV_BLKP
  <2> QED
    BY <1>2, <2>3
<1> QED
  BY <1>3, <1>7, <1>8, <1>9, <1>10

(* What the macros read of the epilogue.                                   *)
LEMMA EpilogueRead ==
  ASSUME NEW h, NEW S, NEW T, Shaped(h, S, T)
  PROVE  GET_ALLOC(h, HDRP(S.brk)) = 1 /\ GET_SIZE(h, HDRP(S.brk)) = 0
<1>1. GET(h, S.brk - 4) = 1
  BY DEF Shaped, Tagged
<1>2. HDRP(S.brk) = S.brk - 4
  BY DEF HDRP
<1> QED
  BY <1>1, <1>2 DEF GET_ALLOC, GET_SIZE

(* The block before b.                                                     *)
Prev(S, b) == CHOOSE c \in S.blocks : c + S.size[c] = b

(* coalesce, of a shape.                                                   *)
Coalesced(S, b) ==
  LET prev == Prev(S, b)
      next == b + S.size[b]
      prev_free == prev \in S.free
      next_free == next \in S.free
      size == S.size[b] + (IF prev_free THEN S.size[prev] ELSE 0)
                        + (IF next_free THEN S.size[next] ELSE 0)
      G == IF prev_free THEN Removed(S, prev) ELSE S
      K == IF next_free THEN Removed(G, next) ELSE G
      p == IF prev_free THEN prev ELSE b
      M == IF prev_free \/ next_free THEN Merged(K, p, p + size) ELSE K
  IN  [p |-> p, shape |-> Inserted(M, p)]

(* No two free blocks meet: coalesce has left nothing to merge.            *)
Lonely(S) == \A b \in S.free : b + S.size[b] \notin S.free

(* Between two calls of mm.c: the free blocks are those of the list, and   *)
(* no two of them meet.                                                    *)
Rested(h, S) == Shaped(h, S, S.free) /\ Lonely(S)

(* The blocks that are in use.                                             *)
Used(S) == S.blocks \ Chain(S)

(* Every block but the prologue has one before it, and only one.           *)
LEMMA PrevIs ==
  ASSUME NEW S \in Shapes, Tiled(S), NEW b \in (S.blocks \cup {S.brk}) \ {Prologue}
  PROVE  /\ Prev(S, b) \in S.blocks /\ Prev(S, b) + S.size[Prev(S, b)] = b
         /\ \A c \in S.blocks : c + S.size[c] = b => c = Prev(S, b)
<1>1. \E c \in S.blocks : c + S.size[c] = b
  BY DEF Tiled
<1>2. Prev(S, b) \in S.blocks /\ Prev(S, b) + S.size[Prev(S, b)] = b
  BY <1>1 DEF Prev
<1>3. PICK p \in S.blocks : p = Prev(S, b) /\ p + S.size[p] = b
  BY <1>2
<1>4. ASSUME NEW c \in S.blocks, c + S.size[c] = b
      PROVE  c = p
  <2>1. /\ c \in Int /\ p \in Int /\ S.size[c] \in Nat /\ S.size[p] \in Nat
        /\ S.size[c] >= 16 /\ S.size[p] >= 16
    BY BlockWords
  <2>2. (c < p => c + S.size[c] <= p) /\ (p < c => p + S.size[p] <= c)
    BY DEF Tiled
  <2> QED
    BY <1>3, <1>4, <2>1, <2>2
<1> QED
  BY <1>2, <1>3, <1>4

(* The parts of a shape when a block leaves the free list.                 *)
LEMMA RemovedIs ==
  ASSUME NEW S \in Shapes, NEW b
  PROVE  LET U == Removed(S, b)
         IN  /\ U \in Shapes /\ U.blocks = S.blocks /\ U.size = S.size /\ U.brk = S.brk
             /\ U.free = S.free \ {b} /\ U.rank = S.rank
  BY DEF Removed, Shapes

(* The block and its free neighbours become one free block.                *)
LEMMA CoalesceShaped ==
  ASSUME NEW h, NEW S, NEW b \in Used(S), Shaped(h, S, S.free \cup {b}), Lonely(S)
  PROVE  LET r == coalesce(h, b)
             c == Coalesced(S, b)
             U == c.shape
         IN  /\ r.p = c.p /\ Rested(r.heap, U)
             /\ Kept(h, r.heap, S, S.free \cup {b})
             /\ c.p \in U.free /\ U.size[c.p] >= S.size[b] /\ U.brk = S.brk
             /\ Used(U) = Used(S) \ {b}
             /\ \A x \in Used(U) : U.size[x] = S.size[x]
<1> DEFINE T == S.free \cup {b}
           prev == Prev(S, b)
           next == b + S.size[b]
           prev_free == prev \in S.free
           next_free == next \in S.free
           size == S.size[b] + (IF prev_free THEN S.size[prev] ELSE 0)
                             + (IF next_free THEN S.size[next] ELSE 0)
           G == IF prev_free THEN Removed(S, prev) ELSE S
           K == IF next_free THEN Removed(G, next) ELSE G
           p == IF prev_free THEN prev ELSE b
           M == IF prev_free \/ next_free THEN Merged(K, p, p + size) ELSE K
           U == Inserted(M, p)
           g == IF prev_free THEN remove_free_block(h, prev) ELSE h
           k == IF next_free THEN remove_free_block(g, next) ELSE g
           m == IF prev_free \/ next_free THEN Mark(k, p, size, 0) ELSE k
           e == insert_free_block(m, p)
<1>1. h \in Heaps /\ S \in Shapes /\ Tiled(S) /\ Ranked(S)
  BY DEF Shaped
<1>2. /\ b \in S.blocks \ {Prologue} /\ b \notin S.free /\ b \notin Chain(S)
      /\ S.free \subseteq S.blocks
  BY <1>1, ChainIsBlocks DEF Used, Chain
<1>3. prev \in S.blocks /\ prev + S.size[prev] = b
  BY <1>1, <1>2, PrevIs
<1>4. next \in S.blocks \cup {S.brk}
  BY <1>1, <1>2 DEF Tiled
<1>5. \A c \in S.blocks : c \in Int /\ S.size[c] \in Nat /\ S.size[c] >= 16
                          /\ c + S.size[c] <= S.brk /\ S.brk \in Int
  BY <1>1, BlockWords
<1>6. coalesce(h, b) = [p |-> p, heap |-> e]
  <2>1. PREV_BLKP(h, b) = prev
    BY <1>3, ShapeRead
  <2>2. NEXT_BLKP(h, b) = next /\ GET_SIZE(h, HDRP(b)) = S.size[b]
    BY <1>2, ShapeRead
  <2>3. /\ (GET_ALLOC(h, FTRP(h, prev)) = 0) = prev_free
        /\ GET_SIZE(h, HDRP(prev)) = S.size[prev]
    <3>1. prev # b
      BY <1>2, <1>3, <1>5
    <3> QED
      BY <1>3, <3>1, ShapeRead
  <2>4. (GET_ALLOC(h, HDRP(next)) = 0) = next_free
    <3>1. CASE next = S.brk
      <4>1. S.brk \notin S.free
        BY <1>2, <1>5
      <4>2. GET_ALLOC(h, HDRP(next)) = 1
        BY <3>1, EpilogueRead
      <4> QED
        BY <3>1, <4>1, <4>2
    <3>2. CASE next \in S.blocks
      <4>1. next # b
        BY <1>2, <1>5
      <4> QED
        BY <3>2, <4>1, ShapeRead
    <3> QED
      BY <1>4, <3>1, <3>2
  <2>5. next_free => GET_SIZE(h, HDRP(next)) = S.size[next]
    BY <1>2, ShapeRead
  <2> HIDE DEF prev, next
  <2> QED
    BY <2>1, <2>2, <2>3, <2>4, <2>5, Zenon DEF coalesce
<1>7. Coalesced(S, b) = [p |-> p, shape |-> U]
  BY DEF Coalesced
<1> HIDE DEF prev, next
<1>8. /\ Shaped(g, G, T) /\ Kept(h, g, S, T)
      /\ G \in Shapes /\ G.blocks = S.blocks /\ G.size = S.size /\ G.brk = S.brk
      /\ G.free = (IF prev_free THEN S.free \ {prev} ELSE S.free) /\ G.rank = S.rank
  <2>1. CASE prev_free
    BY <1>1, <2>1, RemoveShaped, RemovedIs
  <2>2. CASE ~ prev_free
    BY <1>1, <2>2 DEF Kept
  <2> QED
    BY <2>1, <2>2
<1> HIDE DEF g, G
<1>9. /\ Shaped(k, K, T) /\ Kept(g, k, S, T)
      /\ K \in Shapes /\ K.blocks = S.blocks /\ K.size = S.size /\ K.brk = S.brk
      /\ K.free = (IF next_free THEN G.free \ {next} ELSE G.free) /\ K.rank = S.rank
  <2>1. CASE next_free
    <3>1. next \in G.free
      <4>1. next # prev
        BY <1>2, <1>3, <1>5, <2>1 DEF next
      <4> QED
        BY <1>8, <2>1, <4>1
    <3>2. /\ Shaped(remove_free_block(g, next), Removed(G, next), T)
          /\ Kept(g, remove_free_block(g, next), G, T)
      BY <1>8, <3>1, RemoveShaped
    <3> QED
      BY <1>8, <2>1, <3>2, RemovedIs DEF Kept, Payload
  <2>2. CASE ~ next_free
    BY <1>8, <2>2 DEF Kept
  <2> QED
    BY <2>1, <2>2
<1> HIDE DEF k, K
<1>10. /\ p \in T /\ p \in Int /\ size \in Nat /\ size >= S.size[b] /\ b < p + size
       /\ p \in S.blocks /\ p # Prologue /\ p <= b /\ size >= 16
       /\ p + size = (IF next_free THEN next + S.size[next] ELSE next)
  BY <1>1, <1>2, <1>3, <1>5 DEF next, Ranked
<1>11. \A c, d \in S.blocks : c < d => c + S.size[c] <= d
  BY <1>1 DEF Tiled
<1>12. \A x \in S.blocks : p <= x /\ x < p + size =>
           x = b \/ (prev_free /\ x = prev) \/ (next_free /\ x = next)
  <2> SUFFICES ASSUME NEW x \in S.blocks, p <= x, x < p + size
               PROVE  x = b \/ (prev_free /\ x = prev) \/ (next_free /\ x = next)
    OBVIOUS
  <2>1. CASE x < b
    <3>1. x + S.size[x] <= b
      BY <1>2, <1>11, <2>1
    <3>2. p # b
      BY <1>2, <1>5, <1>10, <2>1
    <3>3. p = prev /\ prev_free
      BY <3>2
    <3>4. x = prev
      BY <1>3, <1>5, <1>11, <2>1, <3>3
    <3> QED
      BY <3>3, <3>4
  <2>2. CASE b < x
    <3>1. next <= x
      BY <1>2, <1>11, <2>2 DEF next
    <3>2. CASE next_free
      <4>1. next < x => next + S.size[next] <= x
        BY <1>2, <1>11, <3>2
      <4> QED
        BY <1>2, <1>5, <1>10, <3>1, <3>2, <4>1
    <3>3. CASE ~ next_free
      BY <1>2, <1>5, <1>10, <3>1, <3>3 DEF next
    <3> QED
      BY <3>2, <3>3
  <2> QED
    BY <1>2, <1>5, <2>1, <2>2
<1>13. p + size \in S.blocks \cup {S.brk}
  <2>1. CASE next_free
    BY <1>1, <1>2, <1>10, <2>1 DEF Tiled
  <2>2. CASE ~ next_free
    BY <1>4, <1>10, <2>2
  <2> QED
    BY <2>1, <2>2
<1>14. K.free = {x \in S.free : ~ (p <= x /\ x < p + size)}
  <2>1. ASSUME NEW x \in S.free, p <= x, x < p + size PROVE x \notin K.free
    BY <1>2, <1>8, <1>9, <1>12, <2>1
  <2>2. ASSUME NEW x \in S.free, ~ (p <= x /\ x < p + size) PROVE x \in K.free
    <3>1. prev_free => x # prev
      BY <1>2, <1>3, <1>5, <1>10, <2>2
    <3>2. next_free => x # next
      BY <1>2, <1>5, <1>10, <2>2 DEF next
    <3> QED
      BY <1>8, <1>9, <3>1, <3>2
  <2>3. K.free \subseteq S.free
    BY <1>8, <1>9
  <2> QED
    BY <2>1, <2>2, <2>3
<1>15. \A x \in S.blocks : p <= x /\ x < p + size => x \in T \ K.free
  BY <1>12, <1>14
<1>16. /\ Shaped(m, M, M.free \cup {p}) /\ p \notin M.free /\ Kept(k, m, S, T)
       /\ M.free = K.free /\ M.brk = S.brk /\ M.size[p] = size
       /\ M.blocks \ (M.free \cup {p}) = S.blocks \ T
       /\ \A c \in S.blocks \ {p} : M.size[c] = S.size[c]
  <2>1. CASE prev_free \/ next_free
    <3> DEFINE V == {x \in T : x <= p \/ p + size <= x}
    <3>1. (p + size) - p = size /\ p < p + size
      BY <1>10
    <3>2. /\ Shaped(m, Merged(K, p, p + size), V)
          /\ Kept(k, m, K, T)
          /\ Merged(K, p, p + size).blocks \ V = K.blocks \ T
      <4>1. \A x \in K.blocks : p <= x /\ x < p + size => x \in T \ K.free
        BY <1>9, <1>15
      <4>2. p + size \in K.blocks \cup {K.brk}
        BY <1>9, <1>13
      <4>3. PICK ee : ee = p + size
        OBVIOUS
      <4>4. m = Mark(k, p, ee - p, 0)
        BY <2>1, <3>1, <4>3
      <4>5. PICK pp : pp = p
        OBVIOUS
      <4> DEFINE Vee == {x \in T : x <= pp \/ ee <= x}
      <4>8. PICK vv : vv = Vee
        OBVIOUS
      <4>6. /\ Shaped(Mark(k, pp, ee - pp, 0), Merged(K, pp, ee), Vee)
            /\ Kept(k, Mark(k, pp, ee - pp, 0), K, T)
            /\ Merged(K, pp, ee).blocks \ Vee = K.blocks \ T
        <5>1. \A x \in K.blocks : pp <= x /\ x < ee => x \in T \ K.free
          BY <4>1, <4>3, <4>5, Zenon
        <5>2. ee \in K.blocks \cup {K.brk}
          BY <4>2, <4>3, Zenon
        <5>3. pp \in T /\ pp < ee
          BY <1>10, <3>1, <4>3, <4>5, Zenon
        <5>4. Shaped(k, K, T)
          BY <1>9
        <5> HIDE DEF p, size, T, m
        <5>5. /\ Shaped(Mark(k, pp, ee - pp, 0), Merged(K, pp, ee), vv)
              /\ Kept(k, Mark(k, pp, ee - pp, 0), K, T)
              /\ Merged(K, pp, ee).blocks \ vv = K.blocks \ T
          BY ONLY <4>8, <5>1, <5>2, <5>3, <5>4, MergeShapes
        <5> QED
          BY <4>8, <5>5
      <4>7. V = Vee
        BY <4>3, <4>5, Zenon
      <4> HIDE DEF m, p, size, V, Vee
      <4> QED
        BY <4>3, <4>4, <4>5, <4>6, <4>7, Zenon
    <3>3. M = Merged(K, p, p + size)
      BY <2>1
    <3>4. V = M.free \cup {p} /\ M.free = K.free /\ M.brk = S.brk
      <4>1. M.free = K.free /\ M.brk = K.brk
        BY <1>9, <3>3 DEF Merged, Shapes
      <4>2. p \in V
        BY <1>10
      <4>3. K.free \subseteq V
        BY <1>1, <1>2, <1>5, <1>9, <1>10, <1>14
      <4>4. ASSUME NEW x \in V, x # p PROVE x \in K.free
        <5>1. x \in Int
          BY <1>2, <1>5
        <5>2. ~ (p <= x /\ x < p + size)
          BY <1>10, <4>4, <5>1
        <5>3. x # b
          BY <1>2, <1>5, <1>10, <5>2
        <5> QED
          BY <1>14, <5>2, <5>3
      <4> QED
        BY <1>9, <4>1, <4>2, <4>3, <4>4
    <3>5. M.size[p] = size /\ \A c \in S.blocks \ {p} : M.size[c] = S.size[c]
      <4>1. M.size = [S.size EXCEPT ![p] = (p + size) - p]
        BY <1>9, <3>3 DEF Merged, Shapes
      <4> QED
        BY <1>1, <1>5, <1>10, <3>1, <4>1, ShapeTypes
    <3>6. p \notin M.free
      BY <1>10, <1>14, <3>1, <3>4
    <3>7. Kept(k, m, S, T)
      BY <1>9, <3>2 DEF Kept, Payload
    <3> HIDE DEF m, M, V
    <3> QED
      BY <1>9, <3>2, <3>3, <3>4, <3>5, <3>6, <3>7, Zenon
  <2>2. CASE ~ (prev_free \/ next_free)
    <3>1. m = k /\ M = K /\ p = b /\ K.free = S.free /\ size = S.size[b]
      BY <1>2, <1>5, <1>8, <1>9, <2>2
    <3> HIDE DEF m, M, p, size
    <3> QED
      BY <1>2, <1>9, <3>1 DEF Kept
  <2> QED
    BY <2>1, <2>2, Zenon
<1> HIDE DEF m, M
<1>17. Shaped(e, U, M.free \cup {p}) /\ Kept(m, e, M, M.free \cup {p})
  <2>1. p \in (M.free \cup {p}) \ M.free
    BY <1>16
  <2> HIDE DEF p
  <2> QED
    BY <1>16, <2>1, InsertShaped
<1>18. U.free = M.free \cup {p} /\ U.blocks = M.blocks /\ U.size = M.size /\ U.brk = M.brk
  <2>1. M \in Shapes
    BY <1>16 DEF Shaped
  <2> QED
    BY <2>1 DEF Inserted, Shapes
<1> HIDE DEF U, e, p, size
<1>19. Kept(h, e, S, T)
  <2>1. \A c \in S.blocks \ (T \cup {Prologue}) : c \in M.blocks /\ c \notin M.free \cup {p} /\ c # p
    BY <1>16
  <2>2. \A c \in S.blocks \ (T \cup {Prologue}) : M.size[c] = S.size[c]
    BY <1>16, <2>1
  <2> QED
    BY <1>8, <1>9, <1>16, <1>17, <2>1, <2>2 DEF Kept, Payload
<1>20. Lonely(U)
  <2> SUFFICES ASSUME NEW x \in U.free, x + U.size[x] \in U.free
               PROVE  FALSE
    BY DEF Lonely
  <2>1. PICK y \in U.free : y = x + U.size[x]
    OBVIOUS
  <2>2. \A z \in U.free :
          z = p \/ (z \in S.free /\ z # p /\ U.size[z] = S.size[z] /\ ~ (p <= z /\ z < p + size))
    BY <1>2, <1>14, <1>16, <1>18
  <2>3. U.size[p] = size
    BY <1>16, <1>18
  <2>4. CASE x = p /\ y = p
    BY <1>10, <2>1, <2>3, <2>4
  <2>5. CASE x = p /\ y # p
    <3>1. y = p + size /\ y \in S.free
      BY <2>1, <2>2, <2>3, <2>5
    <3>2. next_free => y = next + S.size[next]
      BY <1>10, <3>1
    <3>3. ~ next_free => y = next
      BY <1>10, <3>1
    <3> QED
      BY <3>1, <3>2, <3>3 DEF Lonely
  <2>6. CASE x # p /\ y = p
    <3>1. x \in S.free /\ x + S.size[x] = p
      BY <2>1, <2>2, <2>6
    <3>2. CASE prev_free
      BY <3>1, <3>2 DEF Lonely, p
    <3>3. CASE ~ prev_free
      <4>1. p = b
        BY <3>3 DEF p
      <4>2. x = prev
        BY <1>1, <1>2, <3>1, <4>1, PrevIs DEF prev
      <4> QED
        BY <3>1, <3>3, <4>2
    <3> QED
      BY <3>2, <3>3
  <2>7. CASE x # p /\ y # p
    BY <2>1, <2>2, <2>7 DEF Lonely
  <2> QED
    BY <2>4, <2>5, <2>6, <2>7
<1>21. Used(U) = Used(S) \ {b}
  <2>1. U.blocks \ U.free = S.blocks \ T
    BY <1>16, <1>18
  <2> QED
    BY <2>1 DEF Used, Chain
<1>22. \A x \in Used(U) : U.size[x] = S.size[x]
  <2>1. \A x \in Used(U) : x \in S.blocks /\ x # p
    BY <1>18, <1>21 DEF Used, Chain
  <2> QED
    BY <1>16, <1>18, <2>1
<1>23. p \in U.free /\ U.size[p] >= S.size[b] /\ U.brk = S.brk /\ Shaped(e, U, U.free)
  BY <1>10, <1>16, <1>17, <1>18
<1>24. coalesce(h, b).p = p /\ coalesce(h, b).heap = e /\ Coalesced(S, b).p = p
       /\ Coalesced(S, b).shape = U
  BY <1>6, <1>7
<1> QED
  BY <1>19, <1>20, <1>21, <1>22, <1>23, <1>24 DEF Rested

(* The heap ends n bytes further up: a block, and then the epilogue.       *)
Lengthened(h, brk, n) ==
  LET g == Mark([h EXCEPT !.brk = @ + n], brk, n, 0)
  IN  PUT(g, brk + n - 4, 1)

(* The header over the old epilogue and the new epilogue give the heap the *)
(* shape Extended.                                                         *)
LEMMA ExtendShaped ==
  ASSUME NEW h, NEW S, NEW T, Shaped(h, S, T),
         NEW n \in Nat, n % 8 = 0, n >= 16, S.brk + n <= 8 + MaxHeap
  PROVE  /\ Shaped(Lengthened(h, S.brk, n), Extended(S, n), T \cup {S.brk})
         /\ Kept(h, Lengthened(h, S.brk, n), S, T)
         /\ GET_SIZE(Mark([h EXCEPT !.brk = @ + n], S.brk, n, 0), S.brk - 4) = n
<1> DEFINE j == [h EXCEPT !.brk = @ + n]
           k == Mark(j, S.brk, n, 0)
           g == PUT(k, S.brk + n - 4, 1)
           U == Extended(S, n)
           V == T \cup {S.brk}
<1>1. h \in Heaps /\ S \in Shapes /\ Tiled(S) /\ Ranked(S) /\ Tagged(h, S, T)
      /\ Linked(h, S) /\ S.free \subseteq T
  BY DEF Shaped
<1>2. /\ Chain(S) \subseteq S.blocks /\ S.free \subseteq Chain(S)
      /\ Prologue \in S.blocks /\ T \subseteq S.blocks \ {Prologue}
  BY <1>1, ChainIsBlocks DEF Tagged, Chain
<1>3. \A c \in S.blocks : c \in Int /\ c \in Words /\ c + 4 \in Words /\ c - 4 \in Words
                          /\ c + S.size[c] - 8 \in Words /\ S.size[c] \in Nat
                          /\ S.size[c] >= 16 /\ c + S.size[c] <= S.brk
  BY <1>1, BlockWords
<1>4. PICK e \in Int : e = S.brk
  BY <1>1, ShapeTypes
<1>5. e % 8 = 0 /\ e >= 32 /\ e + n <= 8 + MaxHeap
  <2>1. S.brk % 8 = 0 /\ S.brk >= 32
    BY <1>1, <1>2, <1>3 DEF Tiled
  <2> QED
    BY <1>4, <2>1
<1>6. \A a \in Int : a % 4 = 0 /\ 8 <= a /\ a < e + n => a \in Words
  BY <1>5, WordsAre, MaxHeapAssumption
<1>7. e - 4 \in Words /\ e + n - 8 \in Words /\ e + n - 4 \in Words
  BY <1>5, <1>6
<1>8. /\ j \in Heaps /\ j.brk = e + n /\ j.listp = h.listp /\ j.head = h.head
      /\ \A c \in Words : GET(j, c) = GET(h, c)
  <2>1. h.brk = e
    BY <1>1, <1>4 DEF Tagged
  <2> QED
    BY <1>1, <2>1 DEF Heaps, GET
<1>9. Marked(j, k, e, n, 0)
  <2> HIDE DEF j
  <2> QED
    BY <1>4, <1>5, <1>7, <1>8, MarkMarks
<1>10. Wrote(k, g, e + n - 4, 1)
  <2>1. k \in Heaps
    BY <1>9 DEF Marked
  <2> HIDE DEF k
  <2> QED
    BY <1>4, <1>7, <2>1, PutWrites
<1> HIDE DEF j, k, g
<1>11. /\ g \in Heaps /\ g.brk = e + n /\ g.listp = h.listp /\ g.head = h.head
       /\ GET(g, e - 4) = n /\ GET(g, e + n - 8) = n /\ GET(g, e + n - 4) = 1
       /\ \A a \in Words : a # e - 4 /\ a # e + n - 8 /\ a # e + n - 4
                             => GET(g, a) = GET(h, a)
  <2>1. e - 4 # e + n - 4 /\ e + n - 8 # e + n - 4 /\ n + 0 = n
    BY <1>5
  <2>2. /\ k.brk = e + n /\ k.listp = h.listp /\ k.head = h.head
        /\ GET(k, e - 4) = n /\ GET(k, e + n - 8) = n
        /\ \A a \in Words : a # e - 4 /\ a # e + n - 8 => GET(k, a) = GET(h, a)
    BY <1>8, <1>9, <2>1 DEF Marked
  <2> QED
    BY <1>7, <1>10, <2>1, <2>2 DEF Wrote
<1>12. /\ U \in Shapes /\ Tiled(U)
       /\ U.blocks = S.blocks \cup {e} /\ U.brk = e + n
       /\ U.free = S.free /\ U.rank = S.rank /\ U.size[e] = n
       /\ \A c \in S.blocks : U.size[c] = S.size[c]
       /\ e \notin S.blocks
  BY <1>1, <1>4, ExtendTiled
<1> HIDE DEF U
<1>13. ASSUME NEW c \in S.blocks, NEW a \in Words, c - 4 <= a, a < c + S.size[c] - 4
       PROVE  GET(g, a) = GET(h, a)
  <2>1. a \in Int /\ c \in Int /\ S.size[c] \in Nat /\ c + S.size[c] <= e
    BY <1>3, <1>4, WordsAreInt
  <2>2. a # e - 4 /\ a # e + n - 8 /\ a # e + n - 4
    BY <1>5, <1>13, <2>1
  <2> QED
    BY <1>11, <2>2
<1>14. Tagged(g, U, V)
  <2>1. V \subseteq U.blocks \ {Prologue} /\ e \in V
    BY <1>2, <1>4, <1>12
  <2>2. \A c : c # e => (c \in V <=> c \in T)
    BY <1>4
  <2> HIDE DEF V
  <2>3. g.brk = U.brk /\ g.listp = Prologue /\ GET(g, U.brk - 4) = 1
    BY <1>1, <1>11, <1>12 DEF Tagged
  <2>4. ASSUME NEW c \in U.blocks
        PROVE  GET(g, c - 4) = Tag(U, V, c) /\ GET(g, c + U.size[c] - 8) = Tag(U, V, c)
    <3>1. CASE c = e
      <4>1. Tag(U, V, e) = n
        BY <1>12, <2>1 DEF Tag
      <4> QED
        BY <1>11, <1>12, <3>1, <4>1
    <3>2. CASE c # e
      <4>1. c \in S.blocks /\ U.size[c] = S.size[c]
        BY <1>12, <3>2
      <4>2. Tag(U, V, c) = Tag(S, T, c)
        BY <2>2, <3>2, <4>1 DEF Tag
      <4>3. GET(g, c - 4) = GET(h, c - 4)
        BY <1>3, <1>13, <4>1
      <4>4. GET(g, c + S.size[c] - 8) = GET(h, c + S.size[c] - 8)
        BY <1>3, <1>13, <4>1
      <4> QED
        BY <1>1, <4>1, <4>2, <4>3, <4>4 DEF Tagged
    <3> QED
      BY <3>1, <3>2
  <2> QED
    BY <2>1, <2>3, <2>4 DEF Tagged
<1>15. \A c \in Chain(S) : GET(g, c) = GET(h, c) /\ GET(g, c + 4) = GET(h, c + 4)
  <2> SUFFICES ASSUME NEW c \in Chain(S)
               PROVE  GET(g, c) = GET(h, c) /\ GET(g, c + 4) = GET(h, c + 4)
    OBVIOUS
  <2>1. c \in Int /\ c \in Words /\ c + 4 \in Words /\ S.size[c] \in Nat /\ S.size[c] >= 16
        /\ c \in S.blocks
    BY <1>2, <1>3
  <2> QED
    BY <1>13, <2>1
<1>16. Kept(h, g, S, T)
  <2> SUFFICES ASSUME NEW c \in S.blocks \ (T \cup {Prologue}), NEW a \in Payload(S, c)
               PROVE  GET(g, a) = GET(h, a)
    BY DEF Kept
  <2>1. a \in Words /\ c <= a /\ a < c + S.size[c] - 8 /\ a \in Int
    BY WordsAreInt DEF Payload
  <2>2. c \in S.blocks /\ c - 4 <= a /\ a < c + S.size[c] - 4
    BY <1>3, <2>1
  <2> QED
    BY <1>13, <2>1, <2>2
<1>17. S.free \subseteq V
  BY <1>1
<1>18. Shaped(g, U, V)
  BY <1>1, <1>11, <1>12, <1>14, <1>15, <1>17, SameLinks
<1>19. g = Lengthened(h, S.brk, n)
  BY <1>4 DEF g, k, j, Lengthened
<1>20. GET_SIZE(k, e - 4) = n
  <2>1. GET(k, e - 4) = n
    BY <1>9 DEF Marked
  <2> QED
    BY <2>1 DEF GET_SIZE
<1>21. k = Mark([h EXCEPT !.brk = @ + n], e, n, 0)
  BY <1>4 DEF k, j
<1> QED
  BY <1>4, <1>16, <1>18, <1>19, <1>20, <1>21 DEF U

(* What extend_heap adds, the shape it leaves, and whether it fails.       *)
Grown(S, n) ==
  IF S.brk + n > 8 + MaxHeap THEN [p |-> 0, shape |-> S]
  ELSE Coalesced(Extended(S, n), S.brk)

(* The heap g of shape U follows the heap h of shape S: the used blocks    *)
(* but for those of gone keep their sizes and what they hold.              *)
Leads(h, S, g, U, gone) ==
  /\ Rested(g, U)
  /\ S.brk <= U.brk
  /\ \A b \in Used(S) \ gone :
       /\ b \in Used(U) /\ U.size[b] = S.size[b]
       /\ \A a \in Payload(S, b) : GET(g, a) = GET(h, a)

(* extend_heap does to the heap what Grown does to its shape.              *)
LEMMA ExtendHeapShaped ==
  ASSUME NEW h, NEW S, Rested(h, S), NEW words \in Nat,
         NEW n \in Nat, n = 4 * (words + (words % 2)), n >= 16
  PROVE  LET r == extend_heap(h, words)
             c == Grown(S, n)
             U == c.shape
         IN  /\ r.p = c.p /\ Leads(h, S, r.heap, U, {}) /\ Used(U) = Used(S)
             /\ c.p = 0 => r.heap = h /\ U = S
             /\ c.p # 0 => c.p \in U.free /\ U.size[c.p] >= n
<1> DEFINE q == mem_sbrk(h, n)
           j == [h EXCEPT !.brk = @ + n]
           g == Mark(j, S.brk, n, 0)
           k == Lengthened(h, S.brk, n)
           r == extend_heap(h, words)
           c == Grown(S, n)
           U == Extended(S, n)
<1>1. /\ Shaped(h, S, S.free) /\ Lonely(S) /\ h \in Heaps /\ S \in Shapes /\ Tiled(S)
      /\ h.brk = S.brk /\ S.brk \in Int /\ Ranked(S)
  BY ShapeTypes DEF Rested, Shaped, Tagged
<1>2. n % 8 = 0 /\ 4 * (words + (words % 2)) = n
  OBVIOUS
<1>3. q = IF S.brk + n > 8 + MaxHeap THEN [p |-> -1, heap |-> h]
          ELSE [p |-> S.brk, heap |-> j]
  BY <1>1 DEF mem_sbrk, mem_max_addr, mem_start_brk
<1>4. S.brk >= 32 /\ \A x \in S.blocks : x \in Int /\ x # S.brk /\ x # 0
  <2>1. Prologue \in S.blocks /\ S.size[Prologue] = 16
    BY <1>1 DEF Tiled
  <2>2. Prologue + 16 <= S.brk
    BY <1>1, <2>1, BlockWords
  <2>3. ASSUME NEW x \in S.blocks PROVE x \in Int /\ x # S.brk /\ x # 0
    BY <1>1, BlockWords
  <2>4. S.brk >= 32
    BY <1>1, <2>2 DEF Prologue
  <2> QED
    BY <2>3, <2>4
<1>5. CASE S.brk + n > 8 + MaxHeap
  <2>1. r = [p |-> 0, heap |-> h]
    <3>1. q.p = -1
      BY <1>3, <1>5
    <3> QED
      BY <1>2, <3>1, Zenon DEF extend_heap
  <2>2. c = [p |-> 0, shape |-> S]
    BY <1>5 DEF Grown
  <2>3. r.p = 0 /\ r.heap = h /\ c.p = 0 /\ c.shape = S
    BY <2>1, <2>2
  <2>4. Leads(h, S, h, S, {})
    BY <1>1 DEF Leads
  <2> QED
    BY <2>3, <2>4
<1>6. CASE S.brk + n <= 8 + MaxHeap
  <2>1. /\ Shaped(k, U, S.free \cup {S.brk}) /\ Kept(h, k, S, S.free)
        /\ GET_SIZE(g, S.brk - 4) = n
    BY <1>1, <1>2, <1>6, ExtendShaped, ZenonT(60)
  <2>2. /\ U \in Shapes /\ Tiled(U)
        /\ U.blocks = S.blocks \cup {S.brk} /\ U.brk = S.brk + n
        /\ U.free = S.free /\ U.rank = S.rank /\ U.size[S.brk] = n
        /\ \A x \in S.blocks : U.size[x] = S.size[x]
        /\ S.brk \notin S.blocks
    BY <1>1, <1>2, <1>6, ExtendTiled
  <2>3. r = coalesce(k, S.brk)
    <3>1. q.p = S.brk /\ q.heap = j /\ S.brk # -1
      BY <1>1, <1>3, <1>4, <1>6, MaxHeapAssumption
    <3>2. HDRP(NEXT_BLKP(g, S.brk)) = S.brk + n - 4
      <4>1. HDRP(S.brk) = S.brk - 4
        BY <1>1 DEF HDRP
      <4> HIDE DEF g
      <4> QED
        BY <1>1, <2>1, <4>1 DEF HDRP, NEXT_BLKP
    <3>3. k = PUT(g, HDRP(NEXT_BLKP(g, S.brk)), 1)
      BY <3>2, Zenon DEF Lengthened
    <3> HIDE DEF q, k, j
    <3> QED
      BY <1>2, <3>1, <3>3, Zenon DEF extend_heap, q, j
  <2> HIDE DEF U, k, r
  <2>4. c = Coalesced(U, S.brk)
    BY <1>1, <1>6, MaxHeapAssumption DEF Grown, U
  <2>5. S.brk \in Used(U) /\ Used(U) = Used(S) \cup {S.brk}
    <3>1. S.brk \notin Chain(S) /\ Chain(U) = Chain(S)
      <4>1. Chain(S) \subseteq S.blocks
        BY <1>1, ChainIsBlocks
      <4> QED
        BY <2>2, <4>1 DEF Chain
    <3> QED
      BY <2>2, <3>1 DEF Used
  <2>6. Lonely(U)
    <3>1. S.free \subseteq S.blocks
      BY <1>1, ChainIsBlocks
    <3> QED
      BY <1>1, <2>2, <3>1 DEF Lonely
  <2>7. PICK e : e = S.brk
    OBVIOUS
  <2> HIDE DEF c
  <2>8. PICK W : W = c.shape
    OBVIOUS
  <2>9. /\ r.p = c.p /\ Rested(r.heap, W)
        /\ Kept(k, r.heap, U, U.free \cup {e})
        /\ c.p \in W.free /\ W.size[c.p] >= U.size[e] /\ W.brk = U.brk
        /\ Used(W) = Used(U) \ {e}
        /\ \A x \in Used(W) : W.size[x] = U.size[x]
    BY <2>1, <2>2, <2>3, <2>4, <2>5, <2>6, <2>7, <2>8, CoalesceShaped
  <2>10. Used(W) = Used(S)
    <3>1. S.brk \notin Used(S)
      BY <2>2 DEF Used
    <3> QED
      BY <2>5, <2>7, <2>9, <3>1
  <2>11. Leads(h, S, r.heap, W, {})
    <3>1. S.brk <= W.brk
      BY <1>1, <2>2, <2>9
    <3>2. ASSUME NEW b \in Used(S)
          PROVE  /\ b \in Used(W) /\ W.size[b] = S.size[b]
                 /\ \A a \in Payload(S, b) : GET(r.heap, a) = GET(h, a)
      <4>1. b \in S.blocks /\ b \notin S.free /\ b # Prologue /\ b \in U.blocks /\ b # e
        BY <2>2, <2>7 DEF Used, Chain
      <4>2. b \in Used(W) /\ W.size[b] = S.size[b] /\ U.size[b] = S.size[b]
        BY <2>2, <2>9, <2>10, <4>1
      <4>3. ASSUME NEW a \in Payload(S, b) PROVE GET(r.heap, a) = GET(h, a)
        <5>1. a \in Payload(U, b)
          BY <4>2 DEF Payload
        <5>2. GET(k, a) = GET(h, a)
          BY <2>1, <4>1 DEF Kept
        <5>3. GET(r.heap, a) = GET(k, a)
          BY <2>2, <2>9, <4>1, <5>1 DEF Kept
        <5> QED
          BY <5>2, <5>3
      <4> QED
        BY <4>2, <4>3
    <3> QED
      BY <2>9, <3>1, <3>2 DEF Leads
  <2>12. c.p # 0 /\ c.p \in W.free /\ W.size[c.p] >= n
    <3>1. c.p \in W.blocks /\ W \in Shapes /\ Tiled(W)
      BY <2>9, ChainIsBlocks DEF Rested, Shaped
    <3>2. c.p >= 16 /\ c.p \in Int
      BY <3>1, BlockWords
    <3> QED
      BY <2>2, <2>7, <2>9, <3>2
  <2> QED
    BY <2>8, <2>9, <2>10, <2>11, <2>12 DEF c, r
<1> QED
  BY <1>1, <1>5, <1>6, MaxHeapAssumption

-------------------------------------------------------------------------------
(* 4  Walks: find_fit and mm_check                                         *)

(* Induction up to N, for a set of numbers.                                *)
LEMMA NatInduces ==
  ASSUME NEW N \in Nat, NEW P, 0 \in P,
         \A n \in 0 .. N : n \in P /\ n < N => n + 1 \in P
  PROVE  0 .. N \subseteq P
<1> SUFFICES ASSUME ~ (0 .. N \subseteq P)
             PROVE  FALSE
  OBVIOUS
<1> DEFINE T == (0 .. N) \ P
<1>1. T \in SUBSET Nat /\ T # {}
  OBVIOUS
<1>2. IsWellFoundedOn(OpToRel(<, Nat), Nat)
  BY NatLessThanWellFounded
<1> HIDE DEF T
<1>3. \E x \in T : \A y \in T : ~ (<<y, x>> \in OpToRel(<, Nat))
  BY ONLY <1>1, <1>2, WFMin
<1>4. PICK x \in T : \A y \in T : ~ (<<y, x>> \in OpToRel(<, Nat))
  BY <1>3
<1>5. \A y \in T : ~ (y < x)
  BY <1>1, <1>4 DEF OpToRel
<1>6. x \in 0 .. N /\ x \notin P /\ x # 0
  BY <1>4 DEF T
<1>7. x - 1 \in 0 .. N /\ x - 1 < N /\ x - 1 < x /\ (x - 1) + 1 = x
  BY <1>6
<1>8. x - 1 \in P
  BY <1>5, <1>7 DEF T
<1> QED
  BY <1>6, <1>7, <1>8

(* A step of the walk leads from any place of X to a place of X.           *)
Steps(X, z, step) == z \in X /\ step \in [X -> X]

(* N steps from z, one after the other.                                    *)
Reached(N, X, z, step) ==
  \E w \in [0 .. N -> X] : w[0] = z /\ \A k \in 1 .. N : w[k] = step[w[k - 1]]

(* The recursive functions of the model exist: a value after each step.    *)
LEMMA Recursion ==
  ASSUME NEW N \in Nat, NEW X, NEW z, NEW step, Steps(X, z, step)
  PROVE  Reached(N, X, z, step)
<1> USE DEF Steps, Reached
<1> DEFINE Good(m, w) == w \in [0 .. m -> X] /\ w[0] = z
                         /\ \A k \in 1 .. m : w[k] = step[w[k - 1]]
           P == {m \in 0 .. N : \E w : Good(m, w)}
<1>1. 0 \in P
  <2>1. Good(0, [n \in 0 .. 0 |-> z])
    OBVIOUS
  <2> HIDE DEF Good
  <2>2. \E w : Good(0, w)
    BY <2>1
  <2> QED
    BY <2>2
<1>2. ASSUME NEW n \in 0 .. N, n \in P, n < N PROVE n + 1 \in P
  <2>1. PICK w : Good(n, w)
    BY <1>2
  <2> DEFINE v == [k \in 0 .. n + 1 |-> IF k = n + 1 THEN step[w[n]] ELSE w[k]]
  <2>2. step[w[n]] \in X
    BY <2>1
  <2>3. v \in [0 .. n + 1 -> X] /\ v[0] = z /\ v[n + 1] = step[w[n]]
        /\ \A k \in 0 .. n : v[k] = w[k]
    BY <2>1, <2>2
  <2> HIDE DEF v
  <2>4. ASSUME NEW k \in 1 .. n + 1 PROVE v[k] = step[v[k - 1]]
    <3>1. CASE k = n + 1
      BY <2>3, <3>1
    <3>2. CASE k # n + 1
      <4>1. k \in 1 .. n /\ k \in 0 .. n /\ k - 1 \in 0 .. n
        BY <3>2
      <4> QED
        BY <2>1, <2>3, <4>1
    <3> QED
      BY <3>1, <3>2
  <2>5. Good(n + 1, v)
    BY <2>3, <2>4
  <2> HIDE DEF Good
  <2> QED
    BY <1>2, <2>5
<1>3. 0 .. N \subseteq P
  <2> HIDE DEF P
  <2> QED
    BY ONLY <1>1, <1>2, NatInduces, N \in Nat
<1>4. \E w : Good(N, w)
  BY <1>3
<1> QED
  BY <1>4

(* The free blocks from b on.                                              *)
From(S, b) == {c \in S.free : S.rank[b] <= S.rank[c]}

(* The free list behind each block is shorter by one: the recursion along  *)
(* the list has steps enough.                                              *)
LEMMA FromCounts ==
  ASSUME NEW h, NEW S, NEW T, Shaped(h, S, T)
  PROVE  /\ MaxSteps \in Nat
         /\ \A b \in Chain(S) : /\ IsFiniteSet(From(S, b))
                                /\ Cardinality(From(S, b)) \in 0 .. MaxSteps
         /\ From(S, Prologue) = {} /\ From(S, h.head) = S.free
         /\ \A b \in S.free : /\ GET(h, b) \in Chain(S)
                              /\ b \in From(S, b)
                              /\ From(S, GET(h, b)) = From(S, b) \ {b}
                              /\ Cardinality(From(S, GET(h, b)))
                                   = Cardinality(From(S, b)) - 1
<1>1. h \in Heaps /\ S \in Shapes /\ Tiled(S) /\ Ranked(S) /\ Linked(h, S)
  BY DEF Shaped
<1>2. /\ Chain(S) \subseteq S.blocks /\ S.free \subseteq Chain(S)
      /\ Prologue \in Chain(S) /\ S.free \subseteq S.blocks /\ Prologue \notin S.free
  BY <1>1, ChainIsBlocks
<1>3. \A b \in S.blocks : b \in Int /\ S.rank[b] \in Int
  BY <1>1, ShapeTypes
<1>4. MaxSteps \in Nat /\ MaxHeap = 8 * MaxSteps
  BY MaxHeapAssumption DEF MaxSteps
<1>5. IsFiniteSet(S.free) /\ Cardinality(S.free) <= MaxSteps
  <2> DEFINE f == [b \in S.free |-> b \div 8]
  <2>1. \A b \in S.free : b \div 8 \in 1 .. MaxSteps /\ b = 8 * (b \div 8)
    <3> SUFFICES ASSUME NEW b \in S.free
                 PROVE  b \div 8 \in 1 .. MaxSteps /\ b = 8 * (b \div 8)
      OBVIOUS
    <3>1. /\ b \in Int /\ S.size[b] \in Nat /\ b >= 16 /\ b % 8 = 0 /\ S.size[b] >= 16
          /\ b + S.size[b] <= S.brk /\ S.brk <= 8 + MaxHeap /\ S.brk \in Int
      BY <1>1, <1>2, BlockWords
    <3>2. b <= MaxHeap
      BY <3>1, <1>4
    <3> QED
      BY <1>4, <3>1, <3>2
  <2>2. f \in Injection(S.free, 1 .. MaxSteps)
    BY <2>1 DEF Injection, IsInjective
  <2>3. IsFiniteSet(1 .. MaxSteps) /\ Cardinality(1 .. MaxSteps) = MaxSteps
    BY <1>4, FS_Interval
  <2> QED
    BY <2>2, <2>3, FS_Injection
<1>6. \A b \in Chain(S) : IsFiniteSet(From(S, b)) /\ Cardinality(From(S, b)) \in 0 .. MaxSteps
  <2> SUFFICES ASSUME NEW b \in Chain(S)
               PROVE  IsFiniteSet(From(S, b)) /\ Cardinality(From(S, b)) \in 0 .. MaxSteps
    OBVIOUS
  <2>1. From(S, b) \in SUBSET S.free
    BY DEF From
  <2>2. IsFiniteSet(From(S, b)) /\ Cardinality(From(S, b)) <= Cardinality(S.free)
    BY <1>5, <2>1, FS_Subset
  <2>3. Cardinality(From(S, b)) \in Nat /\ Cardinality(S.free) \in Nat
    BY <1>5, <2>2, FS_CardinalityType
  <2> QED
    BY <1>4, <1>5, <2>2, <2>3
<1>7. From(S, Prologue) = {}
  BY <1>1, <1>2, <1>3 DEF From, Ranked
<1>8. From(S, h.head) = S.free
  BY <1>1, <1>2 DEF From, Linked
<1>9. ASSUME NEW b \in S.free
      PROVE  /\ GET(h, b) \in Chain(S)
             /\ b \in From(S, b)
             /\ From(S, GET(h, b)) = From(S, b) \ {b}
             /\ Cardinality(From(S, GET(h, b))) = Cardinality(From(S, b)) - 1
  <2>1. PICK next : next = GET(h, b)
    OBVIOUS
  <2>2. /\ next \in Chain(S) /\ S.rank[b] < S.rank[next]
        /\ \A d \in Chain(S) : S.rank[d] <= S.rank[b] \/ S.rank[next] <= S.rank[d]
    BY <1>1, <2>1 DEF Linked, Follows
  <2>3. b \in From(S, b)
    BY <1>2, <1>3 DEF From
  <2>4. From(S, next) = From(S, b) \ {b}
    <3>1. ASSUME NEW d \in From(S, next) PROVE d \in From(S, b) /\ d # b
      BY <1>2, <1>3, <2>2 DEF From
    <3>2. ASSUME NEW d \in From(S, b), d # b PROVE d \in From(S, next)
      <4>1. d \in Chain(S) /\ S.rank[b] <= S.rank[d] /\ S.rank[d] # S.rank[b]
        BY <1>1, <1>2, <3>2 DEF From, Ranked
      <4>2. S.rank[next] <= S.rank[d]
        BY <1>2, <1>3, <2>2, <4>1
      <4> QED
        BY <4>2 DEF From
    <3> QED
      BY <3>1, <3>2
  <2>5. Cardinality(From(S, b) \ {b}) = Cardinality(From(S, b)) - 1
    BY <1>2, <1>6, <2>3, FS_RemoveElement
  <2> QED
    BY <2>1, <2>2, <2>3, <2>4, <2>5
<1> QED
  BY <1>4, <1>6, <1>7, <1>8, <1>9

(* A block lies inside the heap, and its header is a word.                 *)
LEMMA InsideAre ==
  ASSUME NEW S \in Shapes, Tiled(S), NEW b \in S.blocks
  PROVE  ~ Outside(b) /\ HDRP(b) \in Words
<1>1. b \in Int /\ b \in Words /\ b - 4 \in Words
  BY BlockWords
<1>2. HDRP(b) = b - 4
  BY DEF HDRP
<1> QED
  BY <1>1, <1>2 DEF Outside

(* find_fit                                                                *)

(* One unfolding of the recursive function of find_fit.                    *)
FitStep(h, size, f, n) ==
  [bp \in Int |->
     IF n = 0 \/ Outside(bp) THEN NULL
     ELSE IF GET_ALLOC(h, HDRP(bp)) # 0 THEN NULL
     ELSE IF GET_SIZE(h, HDRP(bp)) >= size THEN bp
     ELSE f[n - 1][NEXT_FREE_BLKP(h, bp)]]

(* A function that unfolds so is the one of the model.                     *)
IsFit(h, size, f) == f = [n \in 0 .. MaxSteps |-> FitStep(h, size, f, n)]

(* There is one.                                                           *)
TheFit(h, size) == CHOOSE f : IsFit(h, size, f)

(* The recursive function of find_fit has a value at each step.            *)
LEMMA FitExists ==
  ASSUME NEW h \in Heaps, NEW size
  PROVE  /\ \A n \in 0 .. MaxSteps : TheFit(h, size)[n] = FitStep(h, size, TheFit(h, size), n)
         /\ find_fit(h, size) = TheFit(h, size)[MaxSteps][h.head]
<1> DEFINE X == [Int -> Int]
           nxt == [bp \in Int |-> IF Outside(bp) THEN 0 ELSE GET(h, bp)]
           End(bp) == Outside(bp) \/ GET_ALLOC(h, HDRP(bp)) # 0
           step == [f \in X |-> [bp \in Int |->
                      IF Outside(bp) THEN 0
                      ELSE IF GET_ALLOC(h, HDRP(bp)) # 0 THEN 0
                      ELSE IF GET_SIZE(h, HDRP(bp)) >= size THEN bp
                      ELSE f[nxt[bp]]]]
           z == [bp \in Int |-> 0]
<1>0. MaxSteps \in Nat
  BY MaxHeapAssumption DEF MaxSteps
<1>1. nxt \in [Int -> Int]
  BY GetIsInt DEF Outside
<1> HIDE DEF nxt
<1>2. z \in X /\ step \in [X -> X]
  BY <1>1
<1>3. PICK w \in [0 .. MaxSteps -> X] :
        w[0] = z /\ \A k \in 1 .. MaxSteps : w[k] = step[w[k - 1]]
  <2>1. Steps(X, z, step)
    BY <1>2 DEF Steps
  <2> HIDE DEF X, z, step
  <2>2. Reached(MaxSteps, X, z, step)
    BY <1>0, <2>1, Recursion
  <2> QED
    BY <2>2 DEF Reached
<1>4. ASSUME NEW n \in 0 .. MaxSteps PROVE w[n] = FitStep(h, size, w, n)
  <2>1. CASE n = 0
    BY <1>3, <2>1 DEF FitStep
  <2>2. CASE n # 0
    <3>1. n \in 1 .. MaxSteps /\ n - 1 \in 0 .. MaxSteps
      BY <1>0, <2>2
    <3>2. PICK f : f = w[n - 1]
      OBVIOUS
    <3>3. f \in X /\ w[n] = step[f]
      BY <1>3, <3>1, <3>2
    <3>4. \A bp \in Int : ~ Outside(bp) => nxt[bp] = NEXT_FREE_BLKP(h, bp)
      BY DEF nxt, NEXT_FREE_BLKP
    <3>5. w[n] = [bp \in Int |->
                      IF Outside(bp) THEN 0
                      ELSE IF GET_ALLOC(h, HDRP(bp)) # 0 THEN 0
                      ELSE IF GET_SIZE(h, HDRP(bp)) >= size THEN bp
                      ELSE f[nxt[bp]]]
      BY <3>3
    <3>6. FitStep(h, size, w, n) = [bp \in Int |->
                      IF Outside(bp) THEN 0
                      ELSE IF GET_ALLOC(h, HDRP(bp)) # 0 THEN 0
                      ELSE IF GET_SIZE(h, HDRP(bp)) >= size THEN bp
                      ELSE f[NEXT_FREE_BLKP(h, bp)]]
      BY <2>2, <3>2 DEF FitStep
    <3> QED
      BY <3>4, <3>5, <3>6
  <2> QED
    BY <2>1, <2>2
<1>5. IsFit(h, size, w)
  BY <1>3, <1>4 DEF IsFit
<1>6. IsFit(h, size, TheFit(h, size))
  BY <1>5, Zenon DEF TheFit
<1>7. find_fit(h, size) = TheFit(h, size)[MaxSteps][h.head]
  BY Zenon DEF find_fit, TheFit, IsFit, FitStep
<1>8. PICK f : f = TheFit(h, size)
  OBVIOUS
<1>9. f = [n \in 0 .. MaxSteps |-> FitStep(h, size, f, n)]
  BY <1>6, <1>8 DEF IsFit
<1>10. \A n \in 0 .. MaxSteps : f[n] = FitStep(h, size, f, n)
  BY <1>9, Zenon
<1> QED
  BY <1>7, <1>8, <1>10

(* The free blocks from b on that are large enough.                        *)
Fits(S, size, b) == {c \in From(S, b) : S.size[c] >= size}

(* The first of the blocks F on the free list, or 0.                       *)
First(S, F, x) == \/ F = {} /\ x = 0
                  \/ x \in F /\ \A c \in F : S.rank[x] <= S.rank[c]

(* find_fit, of a shape.                                                   *)
FirstFit(S, size) == CHOOSE x \in S.free \cup {0} :
                       First(S, {c \in S.free : S.size[c] >= size}, x)

(* find_fit returns the first block of the free list that is large enough. *)
LEMMA FindFitIs ==
  ASSUME NEW h, NEW S, Shaped(h, S, S.free), NEW size \in Int
  PROVE  /\ find_fit(h, size) = FirstFit(S, size)
         /\ FirstFit(S, size) # 0 =>
              FirstFit(S, size) \in S.free /\ S.size[FirstFit(S, size)] >= size
<1> DEFINE f == TheFit(h, size)
           Found(n, b) == First(S, Fits(S, size, b), f[n][b])
           P == {n \in 0 .. MaxSteps :
                   \A b \in Chain(S) : Cardinality(From(S, b)) <= n => Found(n, b)}
<1>1. h \in Heaps /\ S \in Shapes /\ Tiled(S) /\ Ranked(S) /\ Linked(h, S)
  BY DEF Shaped
<1>2. /\ Chain(S) \subseteq S.blocks /\ S.free \subseteq Chain(S)
      /\ Prologue \in Chain(S) /\ S.free \subseteq S.blocks /\ Prologue \notin S.free
  BY <1>1, ChainIsBlocks
<1>3. /\ \A b \in S.blocks : b \in Int /\ S.rank[b] \in Int /\ S.size[b] \in Int
      /\ \A b \in S.blocks : b >= 16
  BY <1>1, ShapeTypes, BlockWords
<1>4. /\ MaxSteps \in Nat
      /\ \A b \in Chain(S) : /\ IsFiniteSet(From(S, b))
                             /\ Cardinality(From(S, b)) \in 0 .. MaxSteps
      /\ From(S, Prologue) = {} /\ From(S, h.head) = S.free
      /\ \A b \in S.free : /\ GET(h, b) \in Chain(S)
                           /\ b \in From(S, b)
                           /\ From(S, GET(h, b)) = From(S, b) \ {b}
                           /\ Cardinality(From(S, GET(h, b)))
                                = Cardinality(From(S, b)) - 1
  BY FromCounts
<1>5. /\ \A n \in 0 .. MaxSteps : f[n] = FitStep(h, size, f, n)
      /\ find_fit(h, size) = f[MaxSteps][h.head]
  BY <1>1, FitExists
<1> HIDE DEF f
<1>6. ASSUME NEW n \in 0 .. MaxSteps
      PROVE  f[n][Prologue] = 0
  <2>1. ~ Outside(Prologue)
    BY <1>1, <1>2, InsideAre
  <2>2. GET_ALLOC(h, HDRP(Prologue)) = 1
    BY <1>2, ShapeRead
  <2>3. Prologue \in Int
    BY DEF Prologue
  <2>4. FitStep(h, size, f, n)[Prologue] = 0
    BY <2>1, <2>2, <2>3 DEF FitStep
  <2> QED
    BY <1>5, <2>4
<1>7. ASSUME NEW n \in 0 .. MaxSteps, n # 0, NEW b \in S.free
      PROVE  f[n][b] = IF S.size[b] >= size THEN b ELSE f[n - 1][GET(h, b)]
  <2>1. ~ Outside(b)
    BY <1>1, <1>2, InsideAre
  <2>2. GET_ALLOC(h, HDRP(b)) = 0 /\ GET_SIZE(h, HDRP(b)) = S.size[b]
    BY <1>2, ShapeRead
  <2>3. b \in Int
    BY <1>2, <1>3
  <2>4. FitStep(h, size, f, n)[b] =
          IF S.size[b] >= size THEN b ELSE f[n - 1][NEXT_FREE_BLKP(h, b)]
    BY <1>7, <2>1, <2>2, <2>3 DEF FitStep
  <2>5. NEXT_FREE_BLKP(h, b) = GET(h, b)
    BY DEF NEXT_FREE_BLKP
  <2> QED
    BY <1>5, <2>4, <2>5
<1>8. \A n \in 0 .. MaxSteps : Found(n, Prologue)
  BY <1>4, <1>6 DEF First, Fits
<1>9. 0 \in P
  <2>1. ASSUME NEW b \in Chain(S), Cardinality(From(S, b)) <= 0
        PROVE  b = Prologue
    <3>1. Cardinality(From(S, b)) = 0
      BY <1>4, <2>1
    <3>2. From(S, b) = {}
      BY <1>4, <3>1, FS_EmptySet
    <3> QED
      BY <1>4, <3>2 DEF Chain
  <2> QED
    BY <1>4, <1>8, <2>1
<1>10. ASSUME NEW m \in 0 .. MaxSteps, m \in P, m < MaxSteps PROVE m + 1 \in P
  <2> SUFFICES ASSUME NEW b \in S.free, Cardinality(From(S, b)) <= m + 1
               PROVE  Found(m + 1, b)
    BY <1>4, <1>8, <1>10 DEF Chain
  <2>1. PICK n \in 0 .. MaxSteps : n = m + 1 /\ n - 1 = m /\ n # 0
    BY <1>4, <1>10
  <2>2. CASE S.size[b] >= size
    <3>1. f[n][b] = b
      BY <1>7, <2>1, <2>2
    <3>2. b \in Fits(S, size, b) /\ \A c \in Fits(S, size, b) : S.rank[b] <= S.rank[c]
      BY <1>4, <2>2 DEF Fits, From
    <3> QED
      BY <2>1, <3>1, <3>2 DEF First
  <2>3. CASE ~ (S.size[b] >= size)
    <3>1. PICK next \in Chain(S) : next = GET(h, b)
      BY <1>4
    <3>2. f[n][b] = f[m][next]
      BY <1>7, <2>1, <2>3, <3>1
    <3>3. Found(m, next)
      <4>1. Cardinality(From(S, next)) <= m
        <5>1. /\ Cardinality(From(S, next)) = Cardinality(From(S, b)) - 1
              /\ Cardinality(From(S, b)) \in Int /\ m \in Int
              /\ Cardinality(From(S, b)) <= m + 1
          BY <1>2, <1>4, <3>1
        <5> QED
          BY ONLY <5>1
      <4> QED
        BY <1>10, <4>1
    <3>4. Fits(S, size, next) = Fits(S, size, b)
      BY <1>4, <2>3, <3>1 DEF Fits
    <3> QED
      BY <2>1, <3>2, <3>3, <3>4
  <2> QED
    BY <2>2, <2>3
<1>11. 0 .. MaxSteps \subseteq P
  <2> HIDE DEF P
  <2> QED
    BY <1>4, <1>9, <1>10, NatInduces
<1>12. First(S, {c \in S.free : S.size[c] >= size}, f[MaxSteps][h.head])
  <2>1. h.head \in Chain(S)
    BY <1>1 DEF Linked
  <2>2. Found(MaxSteps, h.head)
    BY <1>4, <1>11, <2>1
  <2> QED
    BY <1>4, <2>2 DEF Fits
<1> DEFINE F == {c \in S.free : S.size[c] >= size}
<1>13. PICK x : x = f[MaxSteps][h.head]
  OBVIOUS
<1>14. ASSUME NEW y \in S.free \cup {0}, First(S, F, y) PROVE y = x
  <2>1. First(S, F, x)
    BY <1>12, <1>13
  <2>2. CASE F = {}
    BY <1>14, <2>1, <2>2 DEF First
  <2>3. CASE F # {}
    <3>1. x \in F /\ y \in F /\ S.rank[x] <= S.rank[y] /\ S.rank[y] <= S.rank[x]
      BY <1>14, <2>1, <2>3 DEF First
    <3>2. x \in Chain(S) /\ y \in Chain(S) /\ S.rank[x] \in Int /\ S.rank[y] \in Int
      BY <1>2, <1>3, <3>1
    <3> QED
      BY <1>1, <3>1, <3>2 DEF Ranked
  <2> QED
    BY <2>2, <2>3
<1>15. x \in S.free \cup {0} /\ First(S, F, x)
  BY <1>12, <1>13 DEF First
<1> HIDE DEF F
<1>16. FirstFit(S, size) = x
  <2>1. FirstFit(S, size) = CHOOSE y \in S.free \cup {0} : First(S, F, y)
    BY DEF FirstFit, F
  <2> QED
    BY <1>14, <1>15, <2>1
<1>17. x # 0 => x \in F
  BY <1>15 DEF First
<1> QED
  BY <1>5, <1>13, <1>16, <1>17 DEF F

(* The walks of mm_check.                                                  *)

\* The blocks from b on, in their order in the heap.

(* The blocks from b on.                                                   *)
Up(S, b) == {c \in S.blocks : b <= c}

(* One unfolding of the walk over all blocks.                              *)
UpStep(h, f, n) ==
  [b \in Int |->
     IF IsEpilogue(h, b) THEN {}
     ELSE IF n = 0 \/ Outside(b) THEN {b}
     ELSE {b} \cup f[n - 1][NEXT_BLKP(h, b)]]
IsUp(h, f) == f = [n \in 0 .. MaxSteps |-> UpStep(h, f, n)]
TheUp(h) == CHOOSE f : IsUp(h, f)

(* One unfolding of the walk along the free list.                          *)
AlongStep(h, f, n) ==
  [b \in Int |->
     IF IsPrologue(h, b) THEN {}
     ELSE IF n = 0 \/ Outside(b) THEN {b}
     ELSE {b} \cup f[n - 1][NEXT_FREE_BLKP(h, b)]]
IsAlong(h, f) == f = [n \in 0 .. MaxSteps |-> AlongStep(h, f, n)]
TheAlong(h) == CHOOSE f : IsAlong(h, f)

(* The walk over all blocks has a value at each step.                      *)
LEMMA UpExists ==
  ASSUME NEW h \in Heaps
  PROVE  /\ \A n \in 0 .. MaxSteps : TheUp(h)[n] = UpStep(h, TheUp(h), n)
         /\ Blocks(h) = TheUp(h)[MaxSteps][h.listp]
<1> DEFINE X == [Int -> SUBSET Int]
           nxt == [b \in Int |-> IF Outside(b) THEN 0 ELSE NEXT_BLKP(h, b)]
           step == [f \in X |-> [b \in Int |->
                      IF IsEpilogue(h, b) THEN {}
                      ELSE IF Outside(b) THEN {b}
                      ELSE {b} \cup f[nxt[b]]]]
           z == [b \in Int |-> IF IsEpilogue(h, b) THEN {} ELSE {b}]
<1>0. MaxSteps \in Nat
  BY MaxHeapAssumption DEF MaxSteps
<1>1. nxt \in [Int -> Int]
  <2>1. ASSUME NEW b \in Int, ~ Outside(b) PROVE NEXT_BLKP(h, b) \in Int
    <3>1. GET(h, HDRP(b)) \in Int
      BY <2>1, GetIsInt DEF Outside
    <3> QED
      BY <3>1 DEF NEXT_BLKP, GET_SIZE
  <2> QED
    BY <2>1
<1> HIDE DEF nxt
<1>2. z \in X /\ step \in [X -> X]
  <2>1. z \in X
    OBVIOUS
  <2>2. ASSUME NEW f \in X PROVE step[f] \in X
    BY <1>1
  <2> QED
    BY <2>1, <2>2
<1>3. PICK w \in [0 .. MaxSteps -> X] :
        w[0] = z /\ \A k \in 1 .. MaxSteps : w[k] = step[w[k - 1]]
  <2>1. Steps(X, z, step)
    BY <1>2 DEF Steps
  <2> HIDE DEF X, z, step
  <2>2. Reached(MaxSteps, X, z, step)
    BY <1>0, <2>1, Recursion
  <2> QED
    BY <2>2 DEF Reached
<1>4. ASSUME NEW n \in 0 .. MaxSteps PROVE w[n] = UpStep(h, w, n)
  <2>1. CASE n = 0
    BY <1>3, <2>1 DEF UpStep
  <2>2. CASE n # 0
    <3>1. n \in 1 .. MaxSteps /\ n - 1 \in 0 .. MaxSteps
      BY <1>0, <2>2
    <3>2. PICK f : f = w[n - 1]
      OBVIOUS
    <3>3. f \in X /\ w[n] = step[f]
      BY <1>3, <3>1, <3>2
    <3>4. \A b \in Int : ~ Outside(b) => nxt[b] = NEXT_BLKP(h, b)
      BY DEF nxt
    <3>5. w[n] = [b \in Int |->
                      IF IsEpilogue(h, b) THEN {}
                      ELSE IF Outside(b) THEN {b}
                      ELSE {b} \cup f[nxt[b]]]
      BY <3>3
    <3>6. UpStep(h, w, n) = [b \in Int |->
                      IF IsEpilogue(h, b) THEN {}
                      ELSE IF Outside(b) THEN {b}
                      ELSE {b} \cup f[NEXT_BLKP(h, b)]]
      BY <2>2, <3>2 DEF UpStep
    <3> QED
      BY <3>4, <3>5, <3>6
  <2> QED
    BY <2>1, <2>2
<1>5. IsUp(h, w)
  BY <1>3, <1>4 DEF IsUp
<1>6. IsUp(h, TheUp(h))
  BY <1>5, Zenon DEF TheUp
<1>7. Blocks(h) = TheUp(h)[MaxSteps][h.listp]
  BY Zenon DEF Blocks, Reach, TheUp, IsUp, UpStep
<1>8. PICK f : f = TheUp(h)
  OBVIOUS
<1>9. f = [n \in 0 .. MaxSteps |-> UpStep(h, f, n)]
  BY <1>6, <1>8 DEF IsUp
<1>10. \A n \in 0 .. MaxSteps : f[n] = UpStep(h, f, n)
  BY <1>9, Zenon
<1> QED
  BY <1>7, <1>8, <1>10

(* The walk along the free list has a value at each step.                  *)
LEMMA AlongExists ==
  ASSUME NEW h \in Heaps
  PROVE  /\ \A n \in 0 .. MaxSteps : TheAlong(h)[n] = AlongStep(h, TheAlong(h), n)
         /\ FreeList(h) = TheAlong(h)[MaxSteps][h.head]
<1> DEFINE X == [Int -> SUBSET Int]
           nxt == [b \in Int |-> IF Outside(b) THEN 0 ELSE GET(h, b)]
           step == [f \in X |-> [b \in Int |->
                      IF IsPrologue(h, b) THEN {}
                      ELSE IF Outside(b) THEN {b}
                      ELSE {b} \cup f[nxt[b]]]]
           z == [b \in Int |-> IF IsPrologue(h, b) THEN {} ELSE {b}]
<1>0. MaxSteps \in Nat
  BY MaxHeapAssumption DEF MaxSteps
<1>1. nxt \in [Int -> Int]
  BY GetIsInt DEF Outside
<1> HIDE DEF nxt
<1>2. z \in X /\ step \in [X -> X]
  <2>1. z \in X
    OBVIOUS
  <2>2. ASSUME NEW f \in X PROVE step[f] \in X
    BY <1>1
  <2> QED
    BY <2>1, <2>2
<1>3. PICK w \in [0 .. MaxSteps -> X] :
        w[0] = z /\ \A k \in 1 .. MaxSteps : w[k] = step[w[k - 1]]
  <2>1. Steps(X, z, step)
    BY <1>2 DEF Steps
  <2> HIDE DEF X, z, step
  <2>2. Reached(MaxSteps, X, z, step)
    BY <1>0, <2>1, Recursion
  <2> QED
    BY <2>2 DEF Reached
<1>4. ASSUME NEW n \in 0 .. MaxSteps PROVE w[n] = AlongStep(h, w, n)
  <2>1. CASE n = 0
    BY <1>3, <2>1 DEF AlongStep
  <2>2. CASE n # 0
    <3>1. n \in 1 .. MaxSteps /\ n - 1 \in 0 .. MaxSteps
      BY <1>0, <2>2
    <3>2. PICK f : f = w[n - 1]
      OBVIOUS
    <3>3. f \in X /\ w[n] = step[f]
      BY <1>3, <3>1, <3>2
    <3>4. \A b \in Int : ~ Outside(b) => nxt[b] = NEXT_FREE_BLKP(h, b)
      BY DEF nxt, NEXT_FREE_BLKP
    <3>5. w[n] = [b \in Int |->
                      IF IsPrologue(h, b) THEN {}
                      ELSE IF Outside(b) THEN {b}
                      ELSE {b} \cup f[nxt[b]]]
      BY <3>3
    <3>6. AlongStep(h, w, n) = [b \in Int |->
                      IF IsPrologue(h, b) THEN {}
                      ELSE IF Outside(b) THEN {b}
                      ELSE {b} \cup f[NEXT_FREE_BLKP(h, b)]]
      BY <2>2, <3>2 DEF AlongStep
    <3> QED
      BY <3>4, <3>5, <3>6
  <2> QED
    BY <2>1, <2>2
<1>5. IsAlong(h, w)
  BY <1>3, <1>4 DEF IsAlong
<1>6. IsAlong(h, TheAlong(h))
  BY <1>5, Zenon DEF TheAlong
<1>7. FreeList(h) = TheAlong(h)[MaxSteps][h.head]
  BY Zenon DEF FreeList, Reach, TheAlong, IsAlong, AlongStep
<1>8. PICK f : f = TheAlong(h)
  OBVIOUS
<1>9. f = [n \in 0 .. MaxSteps |-> AlongStep(h, f, n)]
  BY <1>6, <1>8 DEF IsAlong
<1>10. \A n \in 0 .. MaxSteps : f[n] = AlongStep(h, f, n)
  BY <1>9, Zenon
<1> QED
  BY <1>7, <1>8, <1>10

(* The walk over the heap finds its blocks.                                *)
LEMMA BlocksAre ==
  ASSUME NEW h, NEW S, NEW T, Shaped(h, S, T)
  PROVE  Blocks(h) = S.blocks
<1> DEFINE f == TheUp(h)
           P == {n \in 0 .. MaxSteps :
                   \A b \in S.blocks \cup {S.brk} : S.brk - b <= 8 * n => f[n][b] = Up(S, b)}
<1>1. h \in Heaps /\ S \in Shapes /\ Tiled(S) /\ Tagged(h, S, T)
  BY DEF Shaped
<1>2. \A b \in S.blocks : /\ b \in Int /\ S.size[b] \in Nat /\ S.size[b] >= 16 /\ b >= 16
                          /\ b + S.size[b] <= S.brk
                          /\ b + S.size[b] \in S.blocks \cup {S.brk}
  BY <1>1, BlockWords DEF Tiled
<1>3. MaxSteps \in Nat /\ MaxHeap = 8 * MaxSteps
  BY MaxHeapAssumption DEF MaxSteps
<1>4. Prologue \in S.blocks /\ Prologue \in Int /\ S.brk \in Int /\ S.brk <= 8 + MaxHeap
      /\ S.brk - 4 \in Words
  BY <1>1, BlockWords DEF Tiled, Prologue
<1>5. /\ \A n \in 0 .. MaxSteps : f[n] = UpStep(h, f, n)
      /\ Blocks(h) = f[MaxSteps][h.listp]
  BY <1>1, UpExists
<1> HIDE DEF f
<1>6. ASSUME NEW n \in 0 .. MaxSteps PROVE f[n][S.brk] = Up(S, S.brk)
  <2>1. IsEpilogue(h, S.brk)
    <3>1. HDRP(S.brk) = S.brk - 4
      BY DEF HDRP
    <3> QED
      BY <1>4, <3>1, EpilogueRead DEF IsEpilogue
  <2>2. UpStep(h, f, n)[S.brk] = {}
    BY <1>4, <2>1 DEF UpStep
  <2>3. Up(S, S.brk) = {}
    <3>1. ASSUME NEW c \in S.blocks, S.brk <= c PROVE FALSE
      BY <1>2, <1>4, <3>1
    <3> QED
      BY <3>1 DEF Up
  <2> QED
    BY <1>5, <2>2, <2>3
<1>7. ASSUME NEW n \in 0 .. MaxSteps, n # 0, NEW b \in S.blocks
      PROVE  f[n][b] = {b} \cup f[n - 1][b + S.size[b]]
  <2>1. ~ Outside(b)
    BY <1>1, InsideAre
  <2>2. GET_SIZE(h, HDRP(b)) = S.size[b] /\ NEXT_BLKP(h, b) = b + S.size[b]
    BY ShapeRead
  <2>3. ~ IsEpilogue(h, b)
    BY <1>2, <2>2 DEF IsEpilogue
  <2>4. UpStep(h, f, n)[b] = {b} \cup f[n - 1][NEXT_BLKP(h, b)]
    BY <1>2, <1>7, <2>1, <2>3 DEF UpStep
  <2> QED
    BY <1>5, <2>2, <2>4
<1>8. 0 \in P
  <2>1. ASSUME NEW b \in S.blocks \cup {S.brk}, S.brk - b <= 8 * 0 PROVE b = S.brk
    BY <1>2, <1>4, <2>1
  <2> QED
    BY <1>3, <1>6, <2>1
<1>9. ASSUME NEW m \in 0 .. MaxSteps, m \in P, m < MaxSteps PROVE m + 1 \in P
  <2>1. PICK n \in 0 .. MaxSteps : n = m + 1 /\ n - 1 = m /\ n # 0
    BY <1>3, <1>9
  <2>2. ASSUME NEW b \in S.blocks, S.brk - b <= 8 * n PROVE f[n][b] = Up(S, b)
    <3>1. PICK next \in S.blocks \cup {S.brk} : next = b + S.size[b]
      BY <1>2
    <3>2. S.brk - next <= 8 * m
      BY <1>2, <1>4, <2>1, <2>2, <3>1
    <3>3. f[m][next] = Up(S, next)
      BY <1>9, <3>2
    <3>4. Up(S, b) = {b} \cup Up(S, next)
      <4>1. \A c \in S.blocks : b < c => next <= c
        BY <1>1, <3>1 DEF Tiled
      <4>2. b < next /\ next \in Int /\ b \in Int /\ \A c \in S.blocks : c \in Int
        BY <1>2, <1>4, <3>1
      <4> QED
        BY <4>1, <4>2 DEF Up
    <3> QED
      BY <1>7, <2>1, <3>1, <3>3, <3>4
  <2>3. \A b \in S.blocks \cup {S.brk} : S.brk - b <= 8 * n => f[n][b] = Up(S, b)
    BY <1>6, <2>2
  <2> QED
    BY <2>1, <2>3
<1>10. 0 .. MaxSteps \subseteq P
  <2> HIDE DEF P
  <2> QED
    BY <1>3, <1>8, <1>9, NatInduces
<1>11. S.brk - Prologue <= 8 * MaxSteps
  BY <1>3, <1>4 DEF Prologue
<1>12. f[MaxSteps][Prologue] = Up(S, Prologue)
  BY <1>3, <1>4, <1>10, <1>11
<1>13. Up(S, Prologue) = S.blocks
  BY <1>2 DEF Up, Prologue
<1>14. h.listp = Prologue
  BY <1>1 DEF Tagged
<1> QED
  BY <1>5, <1>12, <1>13, <1>14

(* The walk along the free list finds the free blocks.                     *)
LEMMA FreeListIs ==
  ASSUME NEW h, NEW S, NEW T, Shaped(h, S, T)
  PROVE  FreeList(h) = S.free
<1> DEFINE f == TheAlong(h)
           P == {n \in 0 .. MaxSteps :
                   \A b \in Chain(S) : Cardinality(From(S, b)) <= n => f[n][b] = From(S, b)}
<1>1. h \in Heaps /\ S \in Shapes /\ Tiled(S) /\ Ranked(S) /\ Linked(h, S)
  BY DEF Shaped
<1>2. /\ Chain(S) \subseteq S.blocks /\ S.free \subseteq Chain(S)
      /\ Prologue \in Chain(S) /\ S.free \subseteq S.blocks /\ Prologue \notin S.free
  BY <1>1, ChainIsBlocks
<1>3. \A b \in S.blocks : b \in Int /\ b >= 16 /\ b \in Words
  BY <1>1, BlockWords
<1>4. /\ MaxSteps \in Nat
      /\ \A b \in Chain(S) : /\ IsFiniteSet(From(S, b))
                             /\ Cardinality(From(S, b)) \in 0 .. MaxSteps
      /\ From(S, Prologue) = {} /\ From(S, h.head) = S.free
      /\ \A b \in S.free : /\ GET(h, b) \in Chain(S)
                           /\ b \in From(S, b)
                           /\ From(S, GET(h, b)) = From(S, b) \ {b}
                           /\ Cardinality(From(S, GET(h, b)))
                                = Cardinality(From(S, b)) - 1
  BY FromCounts
<1>5. /\ \A n \in 0 .. MaxSteps : f[n] = AlongStep(h, f, n)
      /\ FreeList(h) = f[MaxSteps][h.head]
  BY <1>1, AlongExists
<1> HIDE DEF f
<1>6. ASSUME NEW n \in 0 .. MaxSteps
      PROVE  f[n][Prologue] = {}
  <2>1. IsPrologue(h, Prologue)
    BY <1>1, <1>2, <1>3 DEF IsPrologue, NEXT_FREE_BLKP, Linked
  <2>2. AlongStep(h, f, n)[Prologue] = {}
    BY <1>2, <1>3, <2>1 DEF AlongStep
  <2> QED
    BY <1>5, <2>2
<1>7. ASSUME NEW n \in 0 .. MaxSteps, n # 0, NEW b \in S.free
      PROVE  f[n][b] = {b} \cup f[n - 1][GET(h, b)]
  <2>1. ~ Outside(b)
    BY <1>1, <1>2, InsideAre
  <2>2. NEXT_FREE_BLKP(h, b) = GET(h, b) /\ GET(h, b) # 0
    BY <1>2, <1>3, <1>4 DEF NEXT_FREE_BLKP
  <2>3. ~ IsPrologue(h, b)
    BY <2>2 DEF IsPrologue
  <2>4. AlongStep(h, f, n)[b] = {b} \cup f[n - 1][NEXT_FREE_BLKP(h, b)]
    BY <1>2, <1>3, <1>7, <2>1, <2>3 DEF AlongStep
  <2> QED
    BY <1>5, <2>2, <2>4
<1>8. 0 \in P
  <2>1. ASSUME NEW b \in Chain(S), Cardinality(From(S, b)) <= 0
        PROVE  b = Prologue
    <3>1. Cardinality(From(S, b)) = 0
      BY <1>4, <2>1
    <3>2. From(S, b) = {}
      BY <1>4, <3>1, FS_EmptySet
    <3> QED
      BY <1>4, <3>2 DEF Chain
  <2>2. 0 \in 0 .. MaxSteps
    BY <1>4
  <2>3. f[0][Prologue] = From(S, Prologue)
    BY <1>4, <1>6, <2>2
  <2>4. \A b \in Chain(S) : Cardinality(From(S, b)) <= 0 => f[0][b] = From(S, b)
    BY <2>1, <2>3
  <2> QED
    BY <2>2, <2>4
<1>9. ASSUME NEW m \in 0 .. MaxSteps, m \in P, m < MaxSteps PROVE m + 1 \in P
  <2>1. PICK n \in 0 .. MaxSteps : n = m + 1 /\ n - 1 = m /\ n # 0
    BY <1>4, <1>9
  <2>2. ASSUME NEW b \in S.free, Cardinality(From(S, b)) <= n PROVE f[n][b] = From(S, b)
    <3>1. PICK next \in Chain(S) : next = GET(h, b)
      BY <1>4
    <3>2. Cardinality(From(S, next)) <= m
      <4>1. /\ Cardinality(From(S, next)) = Cardinality(From(S, b)) - 1
            /\ Cardinality(From(S, b)) \in Int /\ m \in Int
            /\ Cardinality(From(S, b)) <= m + 1
        BY <1>2, <1>4, <2>1, <2>2, <3>1
      <4> QED
        BY ONLY <4>1
    <3>3. f[m][next] = From(S, next)
      BY <1>9, <3>2
    <3>4. From(S, b) = {b} \cup From(S, next)
      BY <1>4, <3>1
    <3> QED
      BY <1>7, <2>1, <3>1, <3>3, <3>4
  <2>3. \A b \in Chain(S) : Cardinality(From(S, b)) <= n => f[n][b] = From(S, b)
    BY <1>4, <1>6, <2>2 DEF Chain
  <2> QED
    BY <2>1, <2>3
<1>10. 0 .. MaxSteps \subseteq P
  <2> HIDE DEF P
  <2> QED
    BY <1>4, <1>8, <1>9, NatInduces
<1>11. h.head \in Chain(S)
  BY <1>1 DEF Linked
<1>12. f[MaxSteps][h.head] = From(S, h.head)
  BY <1>4, <1>10, <1>11
<1> QED
  BY <1>4, <1>5, <1>12

-------------------------------------------------------------------------------
(* 5  place, mm_malloc, mm_free, mm_realloc, mm_init                       *)

(* A block of no list is tagged used or free.                              *)
LEMMA MarkBit ==
  ASSUME NEW h, NEW S, NEW T, Shaped(h, S, T), NEW b, b \in S.blocks \ Chain(S)
  PROVE  /\ Shaped(Mark(h, b, S.size[b], 1), S, T \ {b})
         /\ Kept(h, Mark(h, b, S.size[b], 1), S, {})
         /\ Shaped(Mark(h, b, S.size[b], 0), S, T \cup {b})
         /\ Kept(h, Mark(h, b, S.size[b], 0), S, {})
<1>1. 0 \in {0, 1} /\ 1 \in {0, 1}
  OBVIOUS
<1>2. LET V == IF 1 = 0 THEN T \cup {b} ELSE T \ {b}
      IN  Shaped(Mark(h, b, S.size[b], 1), S, V) /\ Kept(h, Mark(h, b, S.size[b], 1), S, {})
  BY <1>1, MarkShaped
<1>3. LET V == IF 0 = 0 THEN T \cup {b} ELSE T \ {b}
      IN  Shaped(Mark(h, b, S.size[b], 0), S, V) /\ Kept(h, Mark(h, b, S.size[b], 0), S, {})
  BY <1>1, MarkShaped
<1> QED
  BY <1>2, <1>3

(* place, of a shape.                                                      *)
Placed(S, b, asize) ==
  IF S.size[b] - asize >= 16
    THEN Inserted(Split(Removed(S, b), b, asize), b + asize)
    ELSE Removed(S, b)

(* What an operation keeps, it leads on.                                   *)
LEMMA LeadsKept ==
  ASSUME NEW h, NEW S, NEW g, NEW U, Rested(g, U), S.brk <= U.brk,
         Kept(h, g, S, S.free),
         \A b \in Used(S) : b \in Used(U) /\ U.size[b] = S.size[b]
  PROVE  Leads(h, S, g, U, {})
<1>1. \A b \in Used(S) : b \in S.blocks \ (S.free \cup {Prologue})
  BY DEF Used, Chain
<1> QED
  BY <1>1 DEF Kept, Leads

(* place does to the heap what Placed does to its shape.                   *)
LEMMA PlaceShaped ==
  ASSUME NEW h, NEW S, Rested(h, S), NEW b \in S.free,
         NEW asize \in Nat, asize % 8 = 0, asize >= 16, asize <= S.size[b]
  PROVE  /\ Leads(h, S, place(h, b, asize), Placed(S, b, asize), {})
         /\ Used(Placed(S, b, asize)) = Used(S) \cup {b}
         /\ Placed(S, b, asize).size[b] >= asize
<1> DEFINE g == remove_free_block(h, b)
           k == Mark(g, b, asize, 1)
           G == Removed(S, b)
           csize == S.size[b]
           r == place(h, b, asize)
<1>0. 2 * 8 = 16
  OBVIOUS
<1>1. /\ Shaped(h, S, S.free) /\ Lonely(S) /\ h \in Heaps /\ S \in Shapes /\ Tiled(S)
      /\ Ranked(S)
  BY DEF Rested, Shaped
<1>2. /\ Chain(S) \subseteq S.blocks /\ S.free \subseteq S.blocks
      /\ Prologue \notin S.free /\ b \in S.blocks
  BY <1>1, ChainIsBlocks
<1>3. \A c \in S.blocks : c \in Int /\ S.size[c] \in Nat /\ S.size[c] >= 16
                          /\ c + S.size[c] <= S.brk /\ S.brk \in Int
  BY <1>1, BlockWords
<1>4. Shaped(g, G, S.free) /\ Kept(h, g, S, S.free)
  BY <1>1, RemoveShaped
<1>5. /\ G \in Shapes /\ G.blocks = S.blocks /\ G.size = S.size /\ G.brk = S.brk
      /\ G.free = S.free \ {b} /\ G.rank = S.rank
  BY <1>1, RemovedIs
<1>6. g \in Heaps /\ Tiled(G) /\ Ranked(G)
  BY <1>4 DEF Shaped
<1>7. GET_SIZE(h, HDRP(b)) = csize
  BY <1>1, <1>2, ShapeRead
<1>8. NEXT_BLKP(k, b) = b + asize
  <2>1. b - 4 \in Words /\ b + asize - 8 \in Words
    <3>1. b + csize - 8 \in Words /\ b - 4 \in Words /\ b % 8 = 0 /\ b >= 16 /\ csize \in Nat
          /\ b + csize <= S.brk /\ S.brk <= 8 + MaxHeap /\ b \in Int /\ S.brk \in Int
      BY <1>1, <1>2, BlockWords
    <3>2. (b + asize - 8) % 4 = 0 /\ 8 <= b + asize - 8 /\ b + asize - 8 < 8 + MaxHeap
          /\ b + asize - 8 \in Int
      BY <3>1, MaxHeapAssumption
    <3> QED
      BY <3>1, <3>2, WordsAre
  <2>2. Marked(g, k, b, asize, 1)
    BY <1>2, <1>3, <1>6, <2>1, MarkMarks
  <2>3. GET(k, b - 4) = asize + 1 /\ HDRP(b) = b - 4
    BY <2>2 DEF Marked, HDRP
  <2>4. (asize + 1) - ((asize + 1) % 8) = asize
    BY TagRead
  <2> HIDE DEF k
  <2> QED
    BY <2>3, <2>4 DEF NEXT_BLKP, GET_SIZE
<1>9. CASE csize - asize >= 16
  <2> DEFINE H == Split(G, b, asize)
             q == b + asize
             j == Mark(k, q, csize - asize, 0)
             V == (S.free \ {b}) \cup {q}
             U == Inserted(H, q)
             e == insert_free_block(j, q)
  <2>1. r = e
    BY <1>0, <1>7, <1>8, <1>9, Zenon DEF place
  <2>2. Placed(S, b, asize) = U
    BY <1>9, Zenon DEF Placed
  <2>3. Shaped(j, H, V) /\ Kept(g, j, G, S.free)
    BY <1>4, <1>5, <1>9, SplitShaped
  <2>4. /\ H.blocks = S.blocks \cup {q} /\ H.brk = S.brk
        /\ H.free = S.free \ {b} /\ H \in Shapes
        /\ H.size[b] = asize /\ H.size[q] = csize - asize
        /\ \A c \in S.blocks \ {b} : H.size[c] = S.size[c]
        /\ q \notin S.blocks
    <3>1. b # Prologue
      BY <1>2
    <3> QED
      BY <1>2, <1>5, <1>6, <1>9, <3>1, SplitTiled
  <2>5. q \in V /\ q \notin H.free
    BY <1>2, <2>4
  <2> HIDE DEF j, H, V, q
  <2>6. Shaped(e, U, V) /\ Kept(j, e, H, V)
    BY <2>3, <2>5, InsertShaped
  <2>7. U.free = V /\ U.blocks = H.blocks /\ U.size = H.size /\ U.brk = H.brk
    <3>1. U.free = H.free \cup {q} /\ U.blocks = H.blocks /\ U.size = H.size /\ U.brk = H.brk
      BY <2>4 DEF Inserted, Shapes
    <3> QED
      BY <2>4, <3>1 DEF V
  <2> HIDE DEF e, U
  <2>8. Lonely(U)
    <3> SUFFICES ASSUME NEW x \in V, x + U.size[x] \in V
                 PROVE  FALSE
      BY <2>7 DEF Lonely
    <3>1. CASE x = q
      <4>1. x + U.size[x] = b + csize
        BY <1>2, <1>3, <2>4, <2>7, <3>1 DEF q
      <4>2. b + csize # q
        BY <1>2, <1>3, <1>9 DEF q
      <4>3. b + S.size[b] \in S.free
        BY <4>1, <4>2 DEF V
      <4> QED
        BY <1>1, <4>3 DEF Lonely
    <3>2. CASE x # q
      <4>1. x \in S.free /\ x # b /\ U.size[x] = S.size[x]
        BY <1>2, <2>4, <2>7, <3>2 DEF V
      <4>2. x + S.size[x] \in S.blocks \cup {S.brk}
        BY <1>1, <1>2, <4>1 DEF Tiled
      <4>3. q # S.brk
        BY <1>2, <1>3, <1>9 DEF q
      <4>4. x + S.size[x] \in S.free
        BY <2>4, <4>1, <4>2, <4>3 DEF V
      <4> QED
        BY <1>1, <4>1, <4>4 DEF Lonely
    <3> QED
      BY <3>1, <3>2
  <2>9. Used(U) = Used(S) \cup {b}
    BY <1>2, <2>4, <2>7 DEF Used, Chain, V
  <2>10. \A c \in Used(S) : U.size[c] = S.size[c] /\ c \in H.blocks /\ c \notin S.free
                            /\ c # Prologue /\ c \notin V /\ c \in S.blocks
    BY <1>2, <2>4, <2>7 DEF Used, Chain, V
  <2>11. Kept(h, e, S, S.free)
    <3>1. \A c \in S.blocks \ (S.free \cup {Prologue}) : c \in Used(S)
      BY DEF Used, Chain
    <3>2. \A c \in Used(S) : Payload(G, c) = Payload(S, c) /\ Payload(H, c) = Payload(S, c)
      BY <1>5, <2>7, <2>10 DEF Payload
    <3>3. ASSUME NEW c \in Used(S), NEW a \in Payload(S, c) PROVE GET(e, a) = GET(h, a)
      <4>1. GET(g, a) = GET(h, a)
        BY <1>4, <2>10 DEF Kept
      <4>2. GET(j, a) = GET(g, a)
        BY <1>5, <2>3, <2>10, <3>2 DEF Kept
      <4>3. GET(e, a) = GET(j, a)
        BY <2>6, <2>10, <3>2 DEF Kept
      <4> QED
        BY <4>1, <4>2, <4>3
    <3> QED
      BY <3>1, <3>3 DEF Kept
  <2>12. Rested(e, U) /\ S.brk <= U.brk
    BY <1>2, <1>3, <2>4, <2>6, <2>7, <2>8 DEF Rested
  <2>13. Leads(h, S, e, U, {})
    BY <2>9, <2>10, <2>11, <2>12, LeadsKept
  <2>14. U.size[b] >= asize
    BY <2>4, <2>7
  <2> HIDE DEF r
  <2> QED
    BY <2>1, <2>2, <2>9, <2>13, <2>14 DEF r
<1>10. CASE ~ (csize - asize >= 16)
  <2> DEFINE e == Mark(g, b, csize, 1)
  <2>1. r = e
    BY <1>0, <1>7, <1>10, Zenon DEF place
  <2>2. Placed(S, b, asize) = G
    BY <1>10, Zenon DEF Placed
  <2>3. b \in G.blocks \ Chain(G)
    BY <1>2, <1>5 DEF Chain
  <2>4. Shaped(e, G, S.free \ {b}) /\ Kept(g, e, G, {})
    <3>1. Mark(g, b, G.size[b], 1) = e
      BY <1>5
    <3> HIDE DEF e, G
    <3>2. Shaped(Mark(g, b, G.size[b], 1), G, S.free \ {b})
          /\ Kept(g, Mark(g, b, G.size[b], 1), G, {})
      BY <1>4, <2>3, MarkBit
    <3> QED
      BY <3>1, <3>2
  <2>5. Lonely(G)
    BY <1>1, <1>5 DEF Lonely
  <2>6. Used(G) = Used(S) \cup {b}
    BY <1>2, <1>5 DEF Used, Chain
  <2> HIDE DEF e, G
  <2>7. Rested(e, G) /\ S.brk <= G.brk
    BY <1>2, <1>3, <1>5, <2>4, <2>5 DEF Rested
  <2>8. Kept(h, e, S, S.free)
    BY <1>4, <1>5, <2>4 DEF Kept, Payload
  <2>9. Leads(h, S, e, G, {})
    BY <1>5, <2>6, <2>7, <2>8, LeadsKept
  <2>10. G.size[b] >= asize
    BY <1>2, <1>3, <1>5
  <2> QED
    BY <2>1, <2>2, <2>6, <2>9, <2>10
<1> QED
  BY <1>9, <1>10

(* mm_malloc and mm_free, of a shape.                                      *)
Malloced(S, size) ==
  LET asize == ALIGN(size + DSIZE)
      fit == FirstFit(S, asize)
      e == IF fit # 0 THEN [p |-> fit, shape |-> S]
           ELSE Grown(S, Larger(asize, ChunkSize))
  IN  IF e.p = 0 THEN [p |-> 0, shape |-> S]
      ELSE [p |-> e.p, shape |-> Placed(e.shape, e.p, asize)]

(* mm_free, of a shape.                                                    *)
Freed(S, b) == Coalesced(S, b).shape

(* The size that mm_malloc looks for: aligned, with room for the tags.     *)
LEMMA AlignIs ==
  ASSUME NEW size \in Nat, size > 0
  PROVE  /\ ALIGN(size + 8) \in Nat /\ ALIGN(size + 8) % 8 = 0
         /\ ALIGN(size + 8) >= size + 8 /\ ALIGN(size + 8) >= 16
<1>1. PICK x \in Nat : x = size + 8
  OBVIOUS
<1>2. (-x) % 8 \in 0 .. 7 /\ (x + ((-x) % 8)) % 8 = 0
  BY <1>1
<1>3. x > 8
  BY <1>1
<1>4. x + ((-x) % 8) >= 16
  BY <1>2, <1>3
<1> QED
  BY <1>1, <1>2, <1>4 DEF ALIGN

(* Two operations, one after the other.                                    *)
LEMMA LeadsOn ==
  ASSUME NEW h, NEW S, NEW g, NEW U, NEW k, NEW V, S.brk \in Int, U.brk \in Int, V.brk \in Int,
         Leads(h, S, g, U, {}), Leads(g, U, k, V, {})
  PROVE  Leads(h, S, k, V, {})
  BY DEF Leads, Payload

(* mm_malloc does to the heap what Malloced does to its shape; refused, it *)
(* leaves both as they were.                                               *)
LEMMA MallocShaped ==
  ASSUME NEW h, NEW S, Rested(h, S), NEW size \in Nat, size > 0
  PROVE  LET r == mm_malloc(h, size)
             c == Malloced(S, size)
             U == c.shape
         IN  /\ r.p = c.p /\ Leads(h, S, r.heap, U, {})
             /\ c.p = 0 => r.heap = h /\ U = S
             /\ c.p # 0 => /\ Used(U) = Used(S) \cup {c.p} /\ c.p \notin Used(S)
                           /\ U.size[c.p] >= size + 8
<1> DEFINE asize == ALIGN(size + 8)
           n == Larger(asize, ChunkSize)
           fit == FirstFit(S, asize)
           x == extend_heap(h, n \div 4)
           y == Grown(S, n)
           e == IF fit # 0 THEN [p |-> fit, heap |-> h] ELSE x
           d == IF fit # 0 THEN [p |-> fit, shape |-> S] ELSE y
           r == mm_malloc(h, size)
           c == Malloced(S, size)
<1>1. /\ asize \in Nat /\ asize % 8 = 0 /\ asize >= size + 8 /\ asize >= 16
  BY AlignIs
<1> HIDE DEF asize
<1>2. /\ n \in Nat /\ n % 8 = 0 /\ n >= asize
  BY <1>1, ChunkSizeAssumption DEF Larger
<1> HIDE DEF n
<1>3. n \div 4 \in Nat /\ n = 4 * ((n \div 4) + ((n \div 4) % 2)) /\ n >= 16
  BY <1>1, <1>2
<1>4. /\ find_fit(h, asize) = fit
      /\ fit # 0 => fit \in S.free /\ S.size[fit] >= asize
  BY <1>1, FindFitIs DEF Rested
<1>5. /\ x.p = y.p /\ Leads(h, S, x.heap, y.shape, {}) /\ Used(y.shape) = Used(S)
      /\ y.p = 0 => x.heap = h /\ y.shape = S
      /\ y.p # 0 => y.p \in y.shape.free /\ y.shape.size[y.p] >= n
  <2> HIDE DEF x, y
  <2>1. PICK words \in Nat : words = n \div 4
    BY <1>3
  <2>2. n = 4 * (words + (words % 2))
    BY <1>3, <2>1
  <2>3. x = extend_heap(h, words)
    BY <2>1 DEF x
  <2>4. n >= 16 /\ n \in Nat
    BY <1>2, <1>3
  <2> QED
    BY <2>2, <2>3, <2>4, ExtendHeapShaped DEF y
<1>6. r = IF e.p = 0 THEN [p |-> 0, heap |-> h]
          ELSE [p |-> e.p, heap |-> place(e.heap, e.p, asize)]
  <2>1. size # 0 /\ size + DSIZE = size + 8
    OBVIOUS
  <2> HIDE DEF fit, x, e
  <2>2. e = IF find_fit(h, asize) # 0 THEN [p |-> find_fit(h, asize), heap |-> h]
            ELSE extend_heap(h, Larger(asize, ChunkSize) \div 4)
    BY <1>4, Zenon DEF e, x, n
  <2>3. asize = ALIGN(size + DSIZE)
    BY DEF asize
  <2> QED
    BY <2>1, <2>2, <2>3, Zenon DEF mm_malloc
<1>7. c = IF d.p = 0 THEN [p |-> 0, shape |-> S]
          ELSE [p |-> d.p, shape |-> Placed(d.shape, d.p, asize)]
  BY Zenon DEF Malloced, asize, n
<1> HIDE DEF x, y, fit, r, c
<1>8. /\ e.p = d.p /\ Leads(h, S, e.heap, d.shape, {}) /\ Used(d.shape) = Used(S)
      /\ d.p # 0 => d.p \in d.shape.free /\ d.shape.size[d.p] >= asize
  <2>1. CASE fit # 0
    <3>1. e.p = fit /\ e.heap = h /\ d.p = fit /\ d.shape = S
      BY <2>1
    <3>2. Leads(h, S, h, S, {})
      <4>1. S.brk \in Int
        BY ShapeTypes DEF Rested, Shaped
      <4> QED
        BY <4>1 DEF Leads
    <3> HIDE DEF e, d
    <3> QED
      BY <1>4, <2>1, <3>1, <3>2
  <2>2. CASE fit = 0
    <3>1. e = x /\ d = y
      BY <2>2
    <3>2. y.p # 0 => y.shape.size[y.p] >= asize
      <4>1. y.shape \in Shapes
        BY <1>5 DEF Leads, Rested, Shaped
      <4>2. ASSUME y.p # 0 PROVE y.p \in Int
        BY <1>5, <4>1, <4>2, ShapeTypes
      <4>3. ASSUME y.p # 0 PROVE y.shape.size[y.p] \in Int
        BY <4>1, <4>2, <4>3, ShapeTypes
      <4> QED
        BY <1>1, <1>2, <1>5, <4>3
    <3> HIDE DEF e, d
    <3> QED
      BY <1>5, <3>1, <3>2
  <2> QED
    BY <2>1, <2>2
<1> HIDE DEF e, d
<1>9. CASE d.p = 0
  <2>1. r.p = 0 /\ r.heap = h /\ c.p = 0 /\ c.shape = S
    BY <1>6, <1>7, <1>8, <1>9
  <2>2. Leads(h, S, h, S, {})
    <3>1. S.brk \in Int
      BY ShapeTypes DEF Rested, Shaped
    <3> QED
      BY <3>1 DEF Leads
  <2> QED
    BY <2>1, <2>2 DEF r, c
<1>10. CASE d.p # 0
  <2>1. PICK b : b = d.p
    OBVIOUS
  <2>2. PICK g : g = e.heap
    OBVIOUS
  <2>3. PICK D : D = d.shape
    OBVIOUS
  <2>4. r.p = b /\ r.heap = place(g, b, asize) /\ c.p = b /\ c.shape = Placed(D, b, asize)
    BY <1>6, <1>7, <1>8, <1>10, <2>1, <2>2, <2>3
  <2>5. Leads(h, S, g, D, {}) /\ Used(D) = Used(S) /\ b \in D.free /\ D.size[b] >= asize
    BY <1>8, <1>10, <2>1, <2>2, <2>3
  <2>6. Rested(g, D)
    BY <2>5 DEF Leads
  <2>7. asize <= D.size[b]
    <3>1. D.size[b] \in Int
      BY <2>5, <2>6, ShapeTypes DEF Rested, Shaped
    <3> QED
      BY <1>1, <2>5, <3>1
  <2>8. PICK W : W = Placed(D, b, asize)
    OBVIOUS
  <2>9. /\ Leads(g, D, r.heap, W, {}) /\ Used(W) = Used(D) \cup {b} /\ W.size[b] >= asize
    BY <1>1, <2>4, <2>5, <2>6, <2>7, <2>8, PlaceShaped
  <2>10. W \in Shapes /\ D \in Shapes /\ S \in Shapes
    BY <2>6, <2>9 DEF Leads, Rested, Shaped
  <2>11. Leads(h, S, r.heap, W, {})
    BY <2>5, <2>9, <2>10, LeadsOn, ShapeTypes
  <2>12. b \notin Used(S)
    BY <2>5 DEF Used, Chain
  <2>13. W.size[b] >= size + 8
    <3>1. b \in Int
      BY <2>5, <2>10, ShapeTypes
    <3>2. W.size[b] \in Int
      BY <2>10, <3>1, ShapeTypes
    <3> QED
      BY <1>1, <2>9, <3>2
  <2>14. c.shape = W /\ c.p # 0
    BY <1>10, <2>1, <2>4, <2>8
  <2> QED
    BY <2>4, <2>5, <2>9, <2>11, <2>12, <2>13, <2>14 DEF r, c
<1> QED
  BY <1>9, <1>10

(* mm_free does to the heap what Freed does to its shape.                  *)
LEMMA FreeShaped ==
  ASSUME NEW h, NEW S, Rested(h, S), NEW b \in Used(S)
  PROVE  /\ Leads(h, S, mm_free(h, b), Freed(S, b), {b})
         /\ Used(Freed(S, b)) = Used(S) \ {b}
<1> DEFINE g == Mark(h, b, S.size[b], 0)
           U == Coalesced(S, b).shape
           r == coalesce(g, b)
<1>1. Shaped(h, S, S.free) /\ Lonely(S) /\ S \in Shapes /\ Tiled(S)
  BY DEF Rested, Shaped
<1>2. b \in S.blocks /\ b \notin Chain(S)
  BY DEF Used
<1>3. Shaped(g, S, S.free \cup {b}) /\ Kept(h, g, S, {})
  BY <1>1, <1>2, MarkBit
<1>4. mm_free(h, b) = r.heap
  <2>1. GET_SIZE(h, HDRP(b)) = S.size[b]
    BY <1>1, <1>2, ShapeRead
  <2> QED
    BY <2>1, Zenon DEF mm_free
<1> HIDE DEF g
<1>5. /\ Rested(r.heap, U) /\ Kept(g, r.heap, S, S.free \cup {b}) /\ U.brk = S.brk
      /\ Used(U) = Used(S) \ {b}
      /\ \A x \in Used(U) : U.size[x] = S.size[x]
  <2>1. PICK rr : rr = coalesce(g, b)
    OBVIOUS
  <2>2. PICK cc : cc = Coalesced(S, b)
    OBVIOUS
  <2>3. /\ Rested(rr.heap, cc.shape) /\ Kept(g, rr.heap, S, S.free \cup {b})
        /\ cc.shape.brk = S.brk /\ Used(cc.shape) = Used(S) \ {b}
        /\ \A x \in Used(cc.shape) : cc.shape.size[x] = S.size[x]
    BY <1>1, <1>3, <2>1, <2>2, CoalesceShaped
  <2> QED
    BY <2>1, <2>2, <2>3
<1> HIDE DEF U, r
<1>6. ASSUME NEW x \in Used(S), x # b, NEW a \in Payload(S, x)
      PROVE  GET(r.heap, a) = GET(h, a)
  <2>1. x \in S.blocks \ (S.free \cup {b} \cup {Prologue})
    BY <1>6 DEF Used, Chain
  <2>2. GET(g, a) = GET(h, a)
    BY <1>3, <2>1 DEF Kept
  <2>3. GET(r.heap, a) = GET(g, a)
    BY <1>5, <2>1 DEF Kept
  <2> QED
    BY <2>2, <2>3
<1>7. S.brk <= U.brk
  BY <1>1, <1>5, ShapeTypes
<1>8. Leads(h, S, r.heap, U, {b})
  BY <1>5, <1>6, <1>7 DEF Leads
<1>9. Freed(S, b) = U
  BY DEF Freed, U
<1> QED
  BY <1>4, <1>5, <1>8, <1>9

(* g is h but for words of the payload of b.                               *)
Filled(h, g, S, b) ==
  /\ g \in Heaps /\ g.brk = h.brk /\ g.listp = h.listp /\ g.head = h.head
  /\ \A a \in Words \ Payload(S, b) : GET(g, a) = GET(h, a)

(* A payload may be written at will: the shape stays, and so do the other  *)
(* payloads.                                                               *)
LEMMA FillShaped ==
  ASSUME NEW h, NEW S, Rested(h, S), NEW b \in Used(S), NEW g, Filled(h, g, S, b)
  PROVE  /\ Rested(g, S)
         /\ \A c \in Used(S) \ {b} : \A a \in Payload(S, c) : GET(g, a) = GET(h, a)
<1>1. /\ Shaped(h, S, S.free) /\ Lonely(S) /\ S \in Shapes /\ Tiled(S) /\ Ranked(S)
      /\ Tagged(h, S, S.free)
  BY DEF Rested, Shaped
<1>2. /\ Chain(S) \subseteq S.blocks /\ b \in S.blocks /\ b \notin Chain(S)
      /\ Prologue \in S.blocks
  BY <1>1, ChainIsBlocks DEF Used
<1>3. \A c \in S.blocks : c \in Int /\ c \in Words /\ c + 4 \in Words /\ c - 4 \in Words
                          /\ c + S.size[c] - 8 \in Words /\ S.size[c] \in Nat
                          /\ S.size[c] >= 16 /\ S.brk - 4 \in Words /\ S.brk \in Int
  BY <1>1, BlockWords
<1>4. ASSUME NEW c \in S.blocks, NEW a \in Words, c - 4 <= a, a < c + S.size[c] - 4,
             c # b \/ a < b \/ b + S.size[b] - 8 <= a
      PROVE  GET(g, a) = GET(h, a)
  <2>1. a \in Int
    BY WordsAreInt
  <2>2. a \notin Payload(S, b)
    <3>1. CASE c # b
      <4>1. ASSUME a \in Payload(S, b) PROVE FALSE
        <5>1. b - 4 <= a /\ a < b + S.size[b] - 4
          BY <1>2, <1>3, <2>1, <4>1 DEF Payload
        <5> QED
          BY <1>1, <1>2, <1>4, <2>1, <3>1, <5>1, WordsApart
      <4> QED
        BY <4>1
    <3>2. CASE c = b
      BY <1>2, <1>3, <1>4, <2>1, <3>2 DEF Payload
    <3> QED
      BY <3>1, <3>2
  <2> QED
    BY <2>2 DEF Filled
<1>5. Tagged(g, S, S.free)
  <2>1. ASSUME NEW c \in S.blocks
        PROVE  GET(g, c - 4) = GET(h, c - 4)
               /\ GET(g, c + S.size[c] - 8) = GET(h, c + S.size[c] - 8)
    <3>1. GET(g, c - 4) = GET(h, c - 4)
      BY <1>2, <1>3, <1>4
    <3>2. GET(g, c + S.size[c] - 8) = GET(h, c + S.size[c] - 8)
      <4>1. PICK a \in Words : a = c + S.size[c] - 8
        BY <1>3
      <4>2. c - 4 <= a /\ a < c + S.size[c] - 4
            /\ (c # b \/ a < b \/ b + S.size[b] - 8 <= a)
        BY <1>2, <1>3, <4>1
      <4> QED
        BY <1>4, <4>1, <4>2
    <3> QED
      BY <3>1, <3>2
  <2>2. GET(g, S.brk - 4) = GET(h, S.brk - 4)
    <3>1. S.brk - 4 \in Words /\ S.brk - 4 \notin Payload(S, b)
      <4>1. b + S.size[b] <= S.brk
        BY <1>1, <1>2, BlockWords
      <4> QED
        BY <1>2, <1>3, <4>1 DEF Payload
    <3> QED
      BY <3>1 DEF Filled
  <2> QED
    BY <1>1, <2>1, <2>2 DEF Tagged, Filled
<1>6. \A c \in Chain(S) : GET(g, c) = GET(h, c) /\ GET(g, c + 4) = GET(h, c + 4)
  <2> SUFFICES ASSUME NEW c \in Chain(S)
               PROVE  GET(g, c) = GET(h, c) /\ GET(g, c + 4) = GET(h, c + 4)
    OBVIOUS
  <2>1. c \in S.blocks /\ c # b
    BY <1>2
  <2> QED
    BY <1>3, <1>4, <2>1
<1>7. Shaped(g, S, S.free)
  BY <1>1, <1>5, <1>6, SameLinks DEF Filled
<1>8. ASSUME NEW c \in Used(S), c # b, NEW a \in Payload(S, c)
      PROVE  GET(g, a) = GET(h, a)
  <2>1. c \in S.blocks /\ a \in Words /\ c <= a /\ a < c + S.size[c] - 8 /\ a \in Int
    BY WordsAreInt DEF Payload, Used
  <2> QED
    BY <1>3, <1>4, <1>8, <2>1
<1> QED
  BY <1>1, <1>7, <1>8 DEF Rested

(* Where a used block is.                                                  *)
LEMMA UsedIs ==
  ASSUME NEW h, NEW S, Rested(h, S), NEW b \in Used(S)
  PROVE  /\ b \in Int /\ S.size[b] \in Nat /\ b % 8 = 0 /\ b >= 16 /\ S.size[b] % 8 = 0
         /\ S.size[b] >= 16 /\ b + S.size[b] <= S.brk /\ S.brk \in Int
         /\ S.brk <= 8 + MaxHeap /\ h.brk = S.brk /\ h \in Heaps
         /\ \A a \in Int : a % 4 = 0 /\ b <= a /\ a < b + S.size[b] => a \in Words
<1>1. S \in Shapes /\ Tiled(S) /\ h \in Heaps /\ h.brk = S.brk /\ b \in S.blocks
  BY DEF Rested, Shaped, Tagged, Used
<1>2. /\ b \in Int /\ S.size[b] \in Nat /\ b % 8 = 0 /\ b >= 16 /\ S.size[b] % 8 = 0
      /\ S.size[b] >= 16 /\ b + S.size[b] <= S.brk /\ S.brk \in Int
      /\ S.brk <= 8 + MaxHeap
  BY <1>1, BlockWords
<1>3. \A a \in Int : a % 4 = 0 /\ b <= a /\ a < b + S.size[b] => a \in Words
  BY <1>2, WordsAre, MaxHeapAssumption
<1> QED
  BY <1>1, <1>2, <1>3

(* memset, of a payload.                                                   *)
LEMMA MemsetFills ==
  ASSUME NEW h, NEW S, Rested(h, S), NEW b \in Used(S), NEW v \in Int,
         NEW n \in Nat, n + 8 <= S.size[b]
  PROVE  /\ Filled(h, memset(h, b, v, n), S, b)
         /\ \A a \in Span(b, n) : GET(memset(h, b, v, n), a) = v
<1>1. /\ b \in Int /\ S.size[b] \in Nat /\ h \in Heaps
  BY UsedIs
<1>2. Span(b, n) \subseteq Payload(S, b)
  <2> SUFFICES ASSUME NEW a \in Span(b, n) PROVE a \in Payload(S, b)
    OBVIOUS
  <2>1. a \in Words /\ a \in Int /\ b <= a /\ a < b + n
    BY WordsAreInt DEF Span
  <2> QED
    BY <1>1, <2>1 DEF Payload
<1>3. PICK X : X = Span(b, n)
  OBVIOUS
<1>4. memset(h, b, v, n) = [h EXCEPT !.mem = [a \in Words |-> IF a \in X THEN v ELSE h.mem[a]]]
  BY <1>3 DEF memset
<1>5. X \subseteq Words
  BY <1>3 DEF Span
<1> QED
  BY <1>1, <1>2, <1>3, <1>4, <1>5 DEF Filled, Heaps, GET

(* memcpy, between the payloads of two used blocks.                        *)
LEMMA MemcpyFills ==
  ASSUME NEW h, NEW S, Rested(h, S), NEW to \in Used(S), NEW b \in Used(S),
         NEW n \in Nat, n + 8 <= S.size[to], n <= S.size[b]
  PROVE  /\ Filled(h, memcpy(h, to, b, n), S, to)
         /\ \A a \in Span(to, n) : GET(memcpy(h, to, b, n), a) = GET(h, b + (a - to))
<1>1. /\ to \in Int /\ S.size[to] \in Nat /\ h \in Heaps /\ to % 8 = 0
      /\ b \in Int /\ S.size[b] \in Nat /\ b % 8 = 0
      /\ \A a \in Int : a % 4 = 0 /\ b <= a /\ a < b + S.size[b] => a \in Words
  BY UsedIs
<1>2. \A a \in Span(to, n) : a \in Int /\ a % 4 = 0 /\ to <= a /\ a < to + n
  <2> SUFFICES ASSUME NEW a \in Span(to, n)
               PROVE  a \in Int /\ a % 4 = 0 /\ to <= a /\ a < to + n
    OBVIOUS
  <2>1. a \in Words /\ a \in Int /\ to <= a /\ a < to + n
    BY WordsAreInt DEF Span
  <2> QED
    BY <2>1, WordsAre
<1>3. Span(to, n) \subseteq Payload(S, to)
  BY <1>1, <1>2 DEF Payload, Span
<1>4. ASSUME NEW a \in Span(to, n) PROVE b + (a - to) \in Words
  <2>1. /\ b + (a - to) \in Int /\ (b + (a - to)) % 4 = 0
        /\ b <= b + (a - to) /\ b + (a - to) < b + S.size[b]
    BY <1>1, <1>2
  <2> QED
    BY <1>1, <2>1
<1>5. PICK X : X = Span(to, n)
  OBVIOUS
<1>6. memcpy(h, to, b, n) =
        [h EXCEPT !.mem = [a \in Words |-> IF a \in X THEN h.mem[b + (a - to)] ELSE h.mem[a]]]
  BY <1>5 DEF memcpy
<1>7. X \subseteq Words
  BY <1>5 DEF Span
<1>8. \A a \in X : h.mem[b + (a - to)] \in Int
  BY <1>1, <1>4, <1>5 DEF Heaps
<1> QED
  BY <1>1, <1>3, <1>5, <1>6, <1>7, <1>8 DEF Filled, Heaps, GET

(* mm_realloc, of a shape.                                                 *)
Realloced(S, b, size) ==
  LET m == Malloced(S, size)
  IN  IF m.p = 0 THEN [p |-> 0, shape |-> S]
      ELSE [p |-> m.p, shape |-> Freed(m.shape, b)]

(* The heap and the shape after a realloc that is granted: the new block   *)
(* takes the place of the old one, and begins with what that held.         *)
Reallocs(h, S, b, size, r, c) ==
  /\ r.p = c.p /\ Leads(h, S, r.heap, c.shape, {b})
  /\ c.p = 0 => r.heap = h /\ c.shape = S
  /\ c.p # 0 =>
       /\ Used(c.shape) = (Used(S) \ {b}) \cup {c.p} /\ c.p \notin Used(S)
       /\ c.shape.size[c.p] >= size + 8
       /\ \A a \in Span(c.p, size) : a < c.p + S.size[b] - 8 =>
            GET(r.heap, a) = GET(h, b + (a - c.p))

(* mm_realloc allocates, copies and frees: what it answers begins with what*)
(* the block held.                                                         *)
LEMMA ReallocShaped ==
  ASSUME NEW h, NEW S, Rested(h, S), NEW b \in Used(S), NEW size \in Nat, size > 0,
         NEW r, r = mm_realloc(h, b, size), NEW c, c = Realloced(S, b, size)
  PROVE  Reallocs(h, S, b, size, r, c)
<1>1. PICK m : m = mm_malloc(h, size)
  OBVIOUS
<1>2. PICK d : d = Malloced(S, size)
  OBVIOUS
<1>3. PICK p : p = d.p
  OBVIOUS
<1>4. PICK M : M = d.shape
  OBVIOUS
<1>5. PICK g : g = m.heap
  OBVIOUS
<1>6. /\ m.p = p /\ Leads(h, S, g, M, {})
      /\ p = 0 => g = h /\ M = S
      /\ p # 0 => /\ Used(M) = Used(S) \cup {p} /\ p \notin Used(S)
                  /\ M.size[p] >= size + 8
  BY <1>1, <1>2, <1>3, <1>4, <1>5, MallocShaped
<1>7. /\ b \in Int /\ S.size[b] \in Nat /\ b % 8 = 0 /\ b >= 16 /\ S.size[b] >= 16
      /\ S.brk \in Int
      /\ \A a \in Int : a % 4 = 0 /\ b <= a /\ a < b + S.size[b] => a \in Words
  BY UsedIs
<1>8. CASE p = 0
  <2>1. r = m
    <3>1. b # 0 /\ size # 0 /\ m.p = 0
      BY <1>6, <1>7, <1>8
    <3> QED
      BY <1>1, <3>1, Zenon DEF mm_realloc
  <2>2. c = [p |-> 0, shape |-> S]
    BY <1>2, <1>3, <1>8, Zenon DEF Realloced
  <2>3. r.p = 0 /\ r.heap = h /\ c.p = 0 /\ c.shape = S
    BY <1>5, <1>6, <1>8, <2>1, <2>2
  <2>4. Leads(h, S, h, S, {b})
    BY <1>7 DEF Leads
  <2> QED
    BY <1>8, <2>3, <2>4 DEF Reallocs
<1>9. CASE p # 0
  <2> DEFINE n == IF size < S.size[b] THEN size ELSE S.size[b]
             k == memcpy(g, p, b, n)
  <2>1. Rested(g, M) /\ b \in Used(M) /\ M.size[b] = S.size[b] /\ p \in Used(M) /\ b # p
    BY <1>6, <1>9 DEF Leads
  <2>2. r = [p |-> p, heap |-> mm_free(k, b)]
    <3>1. b # 0 /\ size # 0 /\ m.p # 0
      BY <1>6, <1>7, <1>9
    <3>2. GET_SIZE(m.heap, HDRP(b)) = S.size[b]
      <4>1. b \in M.blocks /\ Shaped(g, M, M.free)
        BY <2>1 DEF Used, Rested
      <4> QED
        BY <1>5, <2>1, <4>1, ShapeRead
    <3>3. r = [p |-> m.p, heap |-> mm_free(memcpy(m.heap, m.p, b, n), b)]
      BY <1>1, <3>1, <3>2, Zenon DEF mm_realloc
    <3> QED
      BY <1>5, <1>6, <3>3, Zenon
  <2>3. c = [p |-> p, shape |-> Freed(M, b)]
    BY <1>2, <1>3, <1>4, <1>9, Zenon DEF Realloced
  <2>4. p \in Int /\ M.size[p] \in Nat /\ p % 8 = 0 /\ M.brk \in Int
    BY <2>1, UsedIs
  <2>5. n \in Nat /\ n + 8 <= M.size[p] /\ n <= M.size[b] /\ n <= size
    BY <1>6, <1>7, <1>9, <2>1, <2>4
  <2> HIDE DEF n
  <2>6. Filled(g, k, M, p) /\ \A a \in Span(p, n) : GET(k, a) = GET(g, b + (a - p))
    BY <2>1, <2>5, MemcpyFills
  <2> HIDE DEF k
  <2>7. /\ Rested(k, M)
        /\ \A x \in Used(M) \ {p} : \A a \in Payload(M, x) : GET(k, a) = GET(g, a)
    BY <2>1, <2>6, FillShaped
  <2>8. PICK f : f = mm_free(k, b)
    OBVIOUS
  <2>9. PICK W : W = Freed(M, b)
    OBVIOUS
  <2>10. Leads(k, M, f, W, {b}) /\ Used(W) = Used(M) \ {b}
    BY <2>1, <2>7, <2>8, <2>9, FreeShaped
  <2>11. r.p = p /\ r.heap = f /\ c.p = p /\ c.shape = W
    BY <2>2, <2>3, <2>8, <2>9
  <2>12. Leads(h, S, f, W, {b})
    <3>1. Rested(f, W) /\ S.brk <= W.brk
      <4>1. W.brk \in Int
        BY <2>10, ShapeTypes DEF Leads, Rested, Shaped
      <4> QED
        BY <1>6, <1>7, <2>4, <2>10, <4>1 DEF Leads
    <3>2. ASSUME NEW x \in Used(S) \ {b}
          PROVE  /\ x \in Used(W) /\ W.size[x] = S.size[x]
                 /\ \A a \in Payload(S, x) : GET(f, a) = GET(h, a)
      <4>1. x \in Used(M) /\ M.size[x] = S.size[x] /\ x # p
        BY <1>6, <1>9 DEF Leads
      <4>2. x \in Used(W) /\ W.size[x] = S.size[x]
        BY <2>10, <4>1 DEF Leads
      <4>3. ASSUME NEW a \in Payload(S, x) PROVE GET(f, a) = GET(h, a)
        <5>1. a \in Payload(M, x)
          BY <4>1 DEF Payload
        <5>2. GET(g, a) = GET(h, a)
          BY <1>6 DEF Leads
        <5>3. GET(k, a) = GET(g, a)
          BY <2>7, <4>1, <5>1
        <5>4. GET(f, a) = GET(k, a)
          BY <2>10, <4>1, <5>1 DEF Leads
        <5> QED
          BY <5>2, <5>3, <5>4
      <4> QED
        BY <4>2, <4>3
    <3> QED
      BY <3>1, <3>2 DEF Leads
  <2>13. /\ Used(W) = (Used(S) \ {b}) \cup {p} /\ p \notin Used(S)
         /\ W.size[p] >= size + 8
    <3>1. W.size[p] = M.size[p]
      BY <2>1, <2>10 DEF Leads
    <3> QED
      BY <1>6, <1>9, <2>1, <2>10, <3>1
  <2>14. ASSUME NEW a \in Span(p, size), a < p + S.size[b] - 8
         PROVE  GET(f, a) = GET(h, b + (a - p))
    <3>1. a \in Words /\ p <= a /\ a < p + size /\ a \in Int
      BY WordsAreInt DEF Span
    <3>2. a \in Span(p, n)
      BY <1>7, <2>4, <2>14, <3>1 DEF Span, n
    <3>3. a \in Payload(M, p)
      <4>1. a < p + M.size[p] - 8
        BY <1>6, <1>9, <2>4, <3>1
      <4> QED
        BY <3>1, <4>1 DEF Payload
    <3>4. GET(f, a) = GET(k, a)
      BY <2>1, <2>10, <3>3 DEF Leads
    <3>5. GET(k, a) = GET(g, b + (a - p))
      BY <2>6, <3>2
    <3>6. b + (a - p) \in Payload(S, b)
      <4>1. a % 4 = 0
        BY <3>1, WordsAre
      <4>2. b + (a - p) \in Int /\ (b + (a - p)) % 4 = 0
        BY <1>7, <2>4, <3>1, <4>1
      <4>3. b <= b + (a - p) /\ b + (a - p) < b + S.size[b] - 8
        BY <1>7, <2>4, <2>14, <3>1
      <4>4. b + (a - p) \in Words
        BY <1>7, <4>2, <4>3
      <4> QED
        BY <4>3, <4>4 DEF Payload
    <3>7. GET(g, b + (a - p)) = GET(h, b + (a - p))
      BY <1>6, <3>6 DEF Leads
    <3> QED
      BY <3>4, <3>5, <3>7
  <2> QED
    BY <1>9, <2>11, <2>12, <2>13, <2>14 DEF Reallocs
<1> QED
  BY <1>8, <1>9

(* What mm_init builds before it asks for the first chunk.                 *)
Base == [blocks |-> {Prologue}, size |-> [x \in Int |-> 16], free |-> {},
         rank |-> [x \in Int |-> 0], brk |-> 32]

(* mm_init, of a shape.                                                    *)
Inited ==
  IF MaxHeap < 24 THEN [p |-> -1, shape |-> Base]
  ELSE LET e == Grown(Base, ChunkSize)
       IN  [p |-> IF e.p = 0 THEN -1 ELSE 0, shape |-> e.shape]

(* The words that mm_init writes have the shape Base.                      *)
LEMMA BaseShaped ==
  ASSUME NEW g \in Heaps, MaxHeap >= 24, g.brk = 32, g.listp = 16, g.head = 16,
         GET(g, 12) = 17, GET(g, 16) = 0, GET(g, 20) = 0, GET(g, 24) = 17, GET(g, 28) = 1
  PROVE  Rested(g, Base) /\ Used(Base) = {}
<1>1. /\ Base.blocks = {16} /\ Base.free = {} /\ Base.brk = 32
      /\ \A x \in Int : Base.size[x] = 16 /\ Base.rank[x] = 0
      /\ Base \in Shapes
  BY DEF Base, Shapes, Prologue
<1> HIDE DEF Base
<1>2. Tiled(Base)
  <2>1. Base.size[16] = 16
    BY <1>1
  <2>2. \A b \in (Base.blocks \cup {Base.brk}) \ {16} : b = 32
    BY <1>1
  <2> QED
    BY <1>1, <2>1, <2>2, MaxHeapAssumption DEF Tiled, Prologue
<1>3. Chain(Base) = {16}
  BY <1>1 DEF Chain, Prologue
<1>4. Ranked(Base)
  BY <1>1, <1>3 DEF Ranked, Prologue
<1>5. Tagged(g, Base, {})
  <2>1. Base.size[16] = 16
    BY <1>1
  <2>2. Tag(Base, {}, 16) = 17
    BY <2>1 DEF Tag
  <2>3. 16 - 4 = 12 /\ 16 + 16 - 8 = 24 /\ 32 - 4 = 28
    OBVIOUS
  <2> QED
    BY <1>1, <2>1, <2>2, <2>3 DEF Tagged, Prologue
<1>6. Linked(g, Base)
  <2>1. Base.rank[16] = 0
    BY <1>1
  <2> QED
    BY <1>1, <1>3, <2>1 DEF Linked, Prologue
<1>7. Shaped(g, Base, Base.free) /\ Lonely(Base)
  BY <1>1, <1>2, <1>4, <1>5, <1>6 DEF Shaped, Lonely
<1> QED
  BY <1>1, <1>3, <1>7 DEF Rested, Used

(* mm_init answers with the shape Inited, or with -1.                      *)
LEMMA InitShaped ==
  ASSUME NEW h \in Heaps, h.brk = 8
  PROVE  LET r == mm_init(h)
         IN  /\ r.p = Inited.p /\ r.heap \in Heaps /\ Inited.p \in {-1, 0}
             /\ 8 <= r.heap.brk /\ r.heap.brk <= 8 + MaxHeap
             /\ Inited.p = 0 => Rested(r.heap, Inited.shape) /\ Used(Inited.shape) = {}
<1> DEFINE q == mem_sbrk(h, 6 * WSIZE)
           h1 == [h EXCEPT !.brk = @ + 24]
           g1 == PUT(h1, 8, 0)
           g2 == PUT(g1, 12, 17)
           g3 == PUT(g2, 16, 0)
           g4 == PUT(g3, 20, 0)
           g5 == PUT(g4, 24, 17)
           g6 == PUT(g5, 28, 1)
           g == [g6 EXCEPT !.listp = 16, !.head = 16]
           e == extend_heap(g, ChunkSize \div 4)
           y == Grown(Base, ChunkSize)
           r == mm_init(h)
<1>1. q = IF MaxHeap < 24 THEN [p |-> -1, heap |-> h] ELSE [p |-> 8, heap |-> h1]
  <2>1. 6 * 4 = 24 /\ ~ (24 < 0) /\ (8 + 24 > 8 + MaxHeap <=> MaxHeap < 24)
    BY MaxHeapAssumption
  <2> QED
    BY <2>1 DEF mem_sbrk, mem_max_addr, mem_start_brk
<1>2. CASE MaxHeap < 24
  <2>1. q.p = -1
    BY <1>1, <1>2
  <2>2. r = [p |-> -1, heap |-> [h EXCEPT !.listp = -1]]
    BY <2>1, Zenon DEF mm_init
  <2>3. [h EXCEPT !.listp = -1] \in Heaps /\ [h EXCEPT !.listp = -1].brk = 8
    BY DEF Heaps
  <2>4. Inited.p = -1
    BY <1>2 DEF Inited
  <2>5. r.p = -1 /\ r.heap \in Heaps /\ r.heap.brk = 8
    <3>1. PICK k : k = [h EXCEPT !.listp = -1]
      OBVIOUS
    <3>2. r = [p |-> -1, heap |-> k]
      BY <2>2, <3>1, Zenon
    <3>3. k \in Heaps /\ k.brk = 8
      BY <2>3, <3>1, Zenon
    <3> HIDE DEF r
    <3> QED
      BY <3>2, <3>3
  <2> HIDE DEF r
  <2>6. Inited.p # 0 /\ Inited.p \in {-1, 0} /\ 8 <= 8 + MaxHeap /\ 8 <= 8
    BY <2>4, MaxHeapAssumption
  <2> QED
    BY <2>4, <2>5, <2>6 DEF r
<1>3. CASE ~ (MaxHeap < 24)
  <2>1. q.p = 8 /\ q.heap = h1 /\ q.p # -1
    BY <1>1, <1>3
  <2>2. /\ 8 + 1 * 4 = 12 /\ 8 + 2 * 4 = 16 /\ 8 + 3 * 4 = 20 /\ 8 + 4 * 4 = 24
        /\ 8 + 5 * 4 = 28 /\ 2 * 8 + 1 = 17
    OBVIOUS
  <2>3. r = [p |-> IF e.p = 0 THEN -1 ELSE 0, heap |-> e.heap]
    <3>1. g = [PUT(PUT(PUT(PUT(PUT(PUT(q.heap, q.p, 0), q.p + 1 * 4, 2 * 8 + 1),
                 q.p + 2 * 4, 0), q.p + 3 * 4, 0), q.p + 4 * 4, 2 * 8 + 1), q.p + 5 * 4, 1)
                 EXCEPT !.listp = q.p + 2 * 4, !.head = q.p + 2 * 4]
      BY <2>1, <2>2, Zenon
    <3> HIDE DEF g, q
    <3> QED
      BY <2>1, <3>1, Zenon DEF mm_init, q
  <2>4. /\ 8 \in Words /\ 12 \in Words /\ 16 \in Words /\ 20 \in Words
        /\ 24 \in Words /\ 28 \in Words
    <3> SUFFICES \A a \in {8, 12, 16, 20, 24, 28} : a \in Words
      OBVIOUS
    <3> SUFFICES ASSUME NEW a \in {8, 12, 16, 20, 24, 28} PROVE a \in Words
      OBVIOUS
    <3>1. a \in Int /\ a % 4 = 0 /\ 8 <= a /\ a < 8 + MaxHeap
      BY <1>3, MaxHeapAssumption
    <3> QED
      BY <3>1, WordsAre
  <2>5. h1 \in Heaps /\ h1.brk = 32
    BY DEF Heaps
  <2> HIDE DEF h1
  <2>6. Wrote(h1, g1, 8, 0)
    BY <2>4, <2>5, PutWrites
  <2> HIDE DEF g1
  <2>7. Wrote(g1, g2, 12, 17)
    <3>1. g1 \in Heaps
      BY <2>6 DEF Wrote
    <3> QED
      BY <2>4, <3>1, PutWrites
  <2> HIDE DEF g2
  <2>8. Wrote(g2, g3, 16, 0)
    <3>1. g2 \in Heaps
      BY <2>7 DEF Wrote
    <3> QED
      BY <2>4, <3>1, PutWrites
  <2> HIDE DEF g3
  <2>9. Wrote(g3, g4, 20, 0)
    <3>1. g3 \in Heaps
      BY <2>8 DEF Wrote
    <3> QED
      BY <2>4, <3>1, PutWrites
  <2> HIDE DEF g4
  <2>10. Wrote(g4, g5, 24, 17)
    <3>1. g4 \in Heaps
      BY <2>9 DEF Wrote
    <3> QED
      BY <2>4, <3>1, PutWrites
  <2> HIDE DEF g5
  <2>11. Wrote(g5, g6, 28, 1)
    <3>1. g5 \in Heaps
      BY <2>10 DEF Wrote
    <3> QED
      BY <2>4, <3>1, PutWrites
  <2> HIDE DEF g6
  <2>12. g6.brk = 32 /\ g6 \in Heaps
    BY <2>5, <2>6, <2>7, <2>8, <2>9, <2>10, <2>11 DEF Wrote
  <2>13. GET(g6, 12) = 17
    BY <2>4, <2>7, <2>8, <2>9, <2>10, <2>11 DEF Wrote
  <2>14. GET(g6, 16) = 0
    BY <2>4, <2>8, <2>9, <2>10, <2>11 DEF Wrote
  <2>15. GET(g6, 20) = 0
    BY <2>4, <2>9, <2>10, <2>11 DEF Wrote
  <2>16. GET(g6, 24) = 17 /\ GET(g6, 28) = 1
    BY <2>4, <2>10, <2>11 DEF Wrote
  <2>17. /\ g \in Heaps /\ g.brk = 32 /\ g.listp = 16 /\ g.head = 16
         /\ \A a : GET(g, a) = GET(g6, a)
    <3> DEFINE k == [g6 EXCEPT !.listp = 16]
    <3>1. k \in Heaps /\ k.brk = 32 /\ k.listp = 16 /\ k.mem = g6.mem
      BY <2>12 DEF Heaps
    <3>2. g = [k EXCEPT !.head = 16]
      OBVIOUS
    <3> HIDE DEF k, g
    <3>3. g \in Heaps /\ g.brk = 32 /\ g.listp = 16 /\ g.head = 16 /\ g.mem = k.mem
      BY <3>1, <3>2 DEF Heaps
    <3> QED
      BY <3>1, <3>3 DEF GET
  <2> HIDE DEF g
  <2>18. Rested(g, Base) /\ Used(Base) = {}
    BY <1>3, <2>13, <2>14, <2>15, <2>16, <2>17, BaseShaped, MaxHeapAssumption
  <2>19. /\ e.p = y.p /\ Leads(g, Base, e.heap, y.shape, {}) /\ Used(y.shape) = Used(Base)
         /\ y.p = 0 => e.heap = g
    <3>1. PICK words \in Nat : words = ChunkSize \div 4
      BY ChunkSizeAssumption
    <3>2. ChunkSize \in Nat /\ ChunkSize = 4 * (words + (words % 2)) /\ ChunkSize >= 16
      BY <3>1, ChunkSizeAssumption
    <3>3. e = extend_heap(g, words)
      BY <3>1
    <3> HIDE DEF e, y
    <3> QED
      BY <2>18, <3>2, <3>3, ExtendHeapShaped DEF y
  <2>20. Inited = [p |-> IF y.p = 0 THEN -1 ELSE 0, shape |-> y.shape]
    BY <1>3, Zenon DEF Inited
  <2> HIDE DEF e, y, r
  <2>21. r.p = Inited.p /\ Inited.shape = y.shape /\ r.heap = e.heap /\ Inited.p \in {-1, 0}
    BY <2>3, <2>19, <2>20
  <2>22. Rested(e.heap, y.shape) /\ Used(y.shape) = {}
    BY <2>18, <2>19 DEF Leads
  <2>23. e.heap \in Heaps /\ 8 <= e.heap.brk /\ e.heap.brk <= 8 + MaxHeap
    <3>1. /\ e.heap \in Heaps /\ y.shape \in Shapes /\ Tiled(y.shape)
          /\ e.heap.brk = y.shape.brk /\ y.shape.brk <= 8 + MaxHeap /\ y.shape.brk \in Int
          /\ Base.brk <= y.shape.brk
      BY <2>19, <2>22, ShapeTypes DEF Leads, Rested, Shaped, Tagged, Tiled
    <3>2. Base.brk = 32
      BY DEF Base
    <3> QED
      BY <3>1, <3>2
  <2> QED
    BY <2>21, <2>22, <2>23 DEF r
<1> QED
  BY <1>2, <1>3

(* What the invariants of the runs say of a heap, of one with a shape.     *)
LEMMA RestedIsWhole ==
  ASSUME NEW h, NEW S, Rested(h, S)
  PROVE  /\ mm_check(h)
         /\ \A b \in Blocks(h) :
              /\ GET_SIZE(h, HDRP(b)) >= 2 * DSIZE
              /\ GET(h, HDRP(b)) = GET(h, FTRP(h, b))
         /\ \E b \in Blocks(h) : NEXT_BLKP(h, b) = h.brk
         /\ PREV_FREE_BLKP(h, h.head) = NULL
         /\ \A b \in FreeList(h) : PREV_FREE_BLKP(h, NEXT_FREE_BLKP(h, b)) = b
<1>1. /\ Shaped(h, S, S.free) /\ Lonely(S) /\ S \in Shapes /\ Tiled(S) /\ Ranked(S)
      /\ Tagged(h, S, S.free) /\ Linked(h, S)
  BY DEF Rested, Shaped
<1>2. Blocks(h) = S.blocks /\ FreeList(h) = S.free
  BY <1>1, BlocksAre, FreeListIs
<1>3. /\ Chain(S) \subseteq S.blocks /\ S.free \subseteq S.blocks /\ Prologue \notin S.free
      /\ Prologue \in S.blocks
  BY <1>1, ChainIsBlocks
<1>4. \A b \in S.blocks : b \in Int /\ S.size[b] \in Nat /\ S.size[b] >= 16 /\ b >= 16
                          /\ b % 8 = 0 /\ b + S.size[b] <= S.brk /\ S.brk \in Int
                          /\ b + S.size[b] \in S.blocks \cup {S.brk}
  BY <1>1, BlockWords DEF Tiled
<1>5. \A b \in S.blocks : /\ GET_SIZE(h, HDRP(b)) = S.size[b]
                          /\ GET_ALLOC(h, HDRP(b)) = IF b \in S.free THEN 0 ELSE 1
                          /\ NEXT_BLKP(h, b) = b + S.size[b]
                          /\ FTRP(h, b) = b + S.size[b] - 8
  BY <1>1, ShapeRead
<1>6. GET_ALLOC(h, HDRP(S.brk)) = 1 /\ h.brk = S.brk
  BY <1>1, EpilogueRead DEF Tagged
<1>7. mm_check(h)
  <2>1. \A b \in S.blocks : in_heap(h, b) /\ aligned(b)
    BY <1>4, <1>6 DEF in_heap, aligned, mem_heap_lo, mem_heap_hi, mem_start_brk
  <2>2. \A b \in S.free : GET_ALLOC(h, HDRP(b)) = 0
    BY <1>3, <1>5
  <2>3. ASSUME NEW b \in S.blocks, GET_ALLOC(h, HDRP(b)) = 0,
               GET_ALLOC(h, HDRP(NEXT_BLKP(h, b))) = 0
        PROVE  FALSE
    <3>1. b \in S.free
      BY <1>5, <2>3
    <3>2. PICK c : c = b + S.size[b]
      OBVIOUS
    <3>3. GET_ALLOC(h, HDRP(c)) = 0
      BY <1>5, <2>3, <3>2
    <3>4. c \in S.blocks
      BY <1>4, <1>6, <3>2, <3>3
    <3>5. c \in S.free
      BY <1>5, <3>3, <3>4
    <3> QED
      BY <1>1, <3>1, <3>2, <3>5 DEF Lonely
  <2>4. \A b \in S.blocks : GET_ALLOC(h, HDRP(b)) = 0 => b \in S.free
    BY <1>5
  <2> QED
    BY <1>2, <1>3, <2>1, <2>2, <2>3, <2>4 DEF mm_check
<1>8. \A b \in S.blocks : /\ GET_SIZE(h, HDRP(b)) >= 2 * DSIZE
                          /\ GET(h, HDRP(b)) = GET(h, FTRP(h, b))
  <2> SUFFICES ASSUME NEW b \in S.blocks
               PROVE  /\ GET_SIZE(h, HDRP(b)) >= 2 * DSIZE
                      /\ GET(h, HDRP(b)) = GET(h, FTRP(h, b))
    OBVIOUS
  <2>1. GET(h, b - 4) = GET(h, b + S.size[b] - 8)
    BY <1>1 DEF Tagged
  <2>2. HDRP(b) = b - 4
    BY DEF HDRP
  <2> QED
    BY <1>4, <1>5, <2>1, <2>2
<1>9. \E b \in S.blocks : NEXT_BLKP(h, b) = h.brk
  <2>1. S.brk # Prologue
    BY <1>3, <1>4 DEF Prologue
  <2>2. PICK c \in S.blocks : c + S.size[c] = S.brk
    BY <1>1, <2>1 DEF Tiled
  <2> QED
    BY <1>5, <1>6, <2>2
<1>10. PREV_FREE_BLKP(h, h.head) = NULL
  BY <1>1 DEF Linked, PREV_FREE_BLKP
<1>11. \A b \in S.free : PREV_FREE_BLKP(h, NEXT_FREE_BLKP(h, b)) = b
  BY <1>1 DEF Linked, PREV_FREE_BLKP, NEXT_FREE_BLKP
<1> QED
  BY <1>2, <1>7, <1>8, <1>9, <1>10, <1>11

(* Between two calls the allocated blocks of the heap are the prologue and *)
(* the used ones; with none of these, all else is one free block.          *)
LEMMA RestedIsUsed ==
  ASSUME NEW h, NEW S, Rested(h, S)
  PROVE  /\ {b \in Blocks(h) : GET_ALLOC(h, HDRP(b)) = 1} = {h.listp} \cup Used(S)
         /\ Used(S) = {} =>
              /\ \A b \in Blocks(h) : GET_ALLOC(h, HDRP(b)) = 1 => b = h.listp
              /\ \A b, c \in FreeList(h) : b = c
<1>1. /\ Shaped(h, S, S.free) /\ Lonely(S) /\ S \in Shapes /\ Tiled(S) /\ Ranked(S)
      /\ h.listp = Prologue
  BY DEF Rested, Shaped, Tagged
<1>2. Blocks(h) = S.blocks /\ FreeList(h) = S.free
  BY <1>1, BlocksAre, FreeListIs
<1>3. /\ Chain(S) \subseteq S.blocks /\ S.free \subseteq S.blocks /\ Prologue \notin S.free
      /\ Prologue \in S.blocks
  BY <1>1, ChainIsBlocks
<1>4. \A b \in S.blocks : GET_ALLOC(h, HDRP(b)) = IF b \in S.free THEN 0 ELSE 1
  BY <1>1, ShapeRead
<1>5. {b \in S.blocks : GET_ALLOC(h, HDRP(b)) = 1} = {Prologue} \cup Used(S)
  BY <1>3, <1>4 DEF Used, Chain
<1>6. ASSUME Used(S) = {}, NEW b \in S.free, NEW c \in S.free, b < c
      PROVE  FALSE
  <2>1. /\ b \in Int /\ c \in Int /\ S.size[b] \in Nat /\ S.size[c] \in Nat /\ S.brk \in Int
        /\ b >= 16 /\ S.size[b] >= 16 /\ S.size[c] >= 16 /\ c + S.size[c] <= S.brk
    BY <1>1, <1>3, <1>6, BlockWords
  <2>2. b + S.size[b] <= c /\ b + S.size[b] \in S.blocks \cup {S.brk}
    BY <1>1, <1>3, <1>6 DEF Tiled
  <2>3. b + S.size[b] \in S.blocks /\ b + S.size[b] # Prologue
    BY <2>1, <2>2 DEF Prologue
  <2>4. b + S.size[b] \in S.free
    BY <1>6, <2>3 DEF Used, Chain
  <2> QED
    BY <1>1, <2>4 DEF Lonely
<1>7. ASSUME Used(S) = {}, NEW b \in S.free, NEW c \in S.free PROVE b = c
  <2>1. b \in Int /\ c \in Int
    BY <1>1, <1>3, BlockWords
  <2>2. ~ (b < c) /\ ~ (c < b)
    BY <1>6, <1>7
  <2> QED
    BY <2>1, <2>2
<1>8. Used(S) = {} => \A b \in S.blocks : GET_ALLOC(h, HDRP(b)) = 1 => b = Prologue
  BY <1>5
<1> QED
  BY <1>1, <1>2, <1>5, <1>7, <1>8

-------------------------------------------------------------------------------
(* 6  The trace and the books                                              *)

(* Live and SizeNow, of any trace.                                         *)
LiveIn(t, n) ==
  {id \in Ids : \E k \in 1 .. n :
      /\ t[k].index = id /\ t[k].type # "FREE"
      /\ \A l \in k + 1 .. n : t[l].index = id => t[l].type # "FREE"}

(* The size a block was last asked for, as SizeNow.                        *)
SizeIn(t, n, id) ==
  LET k == CHOOSE k \in 1 .. n :
             /\ t[k].index = id
             /\ \A l \in k + 1 .. n : t[l].index # id
  IN  t[k].size

(* Request k is the last of the first n about block id.                    *)
IsLast(t, n, id, k) ==
  k \in 1 .. n /\ t[k].index = id /\ \A l \in k + 1 .. n : t[l].index # id

(* Before the first request no block is allocated.                         *)
LEMMA LiveZero ==
  ASSUME NEW t
  PROVE  LiveIn(t, 0) = {}
  BY DEF LiveIn

(* A request adds its block to the live ones, or takes it away.            *)
LEMMA LiveStep ==
  ASSUME NEW t, NEW n \in Nat, t[n + 1].index \in Ids
  PROVE  LiveIn(t, n + 1) = IF t[n + 1].type = "FREE"
                              THEN LiveIn(t, n) \ {t[n + 1].index}
                              ELSE LiveIn(t, n) \cup {t[n + 1].index}
<1>1. PICK m : m = n + 1
  OBVIOUS
<1>2. m \in 1 .. m /\ m \in Nat /\ \A k \in 1 .. n : k \in 1 .. m /\ k # m
  BY <1>1
<1>3. \A k \in 1 .. m : k = m \/ k \in 1 .. n
  BY <1>1
<1>4. \A k \in 1 .. n : \A l \in k + 1 .. m : l = m \/ l \in k + 1 .. n
  BY <1>1
<1>5. \A k \in 1 .. n : m \in k + 1 .. m /\ \A l \in k + 1 .. n : l \in k + 1 .. m
  BY <1>1
<1>6. \A l \in m + 1 .. m : FALSE
  BY <1>1
<1>7. ASSUME NEW id \in LiveIn(t, m)
      PROVE  \/ t[m].type # "FREE" /\ id = t[m].index
             \/ id \in LiveIn(t, n) /\ (t[m].type = "FREE" => id # t[m].index)
  <2>1. PICK k \in 1 .. m :
          /\ t[k].index = id /\ t[k].type # "FREE"
          /\ \A l \in k + 1 .. m : t[l].index = id => t[l].type # "FREE"
    BY <1>7 DEF LiveIn
  <2>2. CASE k = m
    BY <2>1, <2>2
  <2>3. CASE k # m
    <3>1. k \in 1 .. n
      BY <1>3, <2>3
    <3>2. \A l \in k + 1 .. n : t[l].index = id => t[l].type # "FREE"
      BY <1>5, <2>1, <3>1
    <3>3. t[m].index = id => t[m].type # "FREE"
      BY <1>5, <2>1, <3>1
    <3>4. id \in LiveIn(t, n)
      BY <1>7, <2>1, <3>1, <3>2 DEF LiveIn
    <3> QED
      BY <3>3, <3>4
  <2> QED
    BY <2>2, <2>3
<1>8. ASSUME t[m].type # "FREE" PROVE t[m].index \in LiveIn(t, m)
  BY <1>1, <1>2, <1>6, <1>8 DEF LiveIn
<1>9. ASSUME NEW id \in LiveIn(t, n), t[m].type = "FREE" => id # t[m].index
      PROVE  id \in LiveIn(t, m)
  <2>1. PICK k \in 1 .. n :
          /\ t[k].index = id /\ t[k].type # "FREE"
          /\ \A l \in k + 1 .. n : t[l].index = id => t[l].type # "FREE"
    BY <1>9 DEF LiveIn
  <2>2. \A l \in k + 1 .. m : t[l].index = id => t[l].type # "FREE"
    BY <1>4, <1>9, <2>1
  <2>3. k \in 1 .. m
    BY <1>2
  <2> QED
    BY <1>9, <2>1, <2>2, <2>3 DEF LiveIn
<1> QED
  BY <1>1, <1>7, <1>8, <1>9

(* Only the first n requests count.                                        *)
LEMMA LiveSame ==
  ASSUME NEW t, NEW u, NEW n \in Nat, \A k \in 1 .. n : u[k] = t[k]
  PROVE  LiveIn(u, n) = LiveIn(t, n)
<1>1. \A k \in 1 .. n : \A l \in k + 1 .. n : l \in 1 .. n
  OBVIOUS
<1> QED
  BY <1>1 DEF LiveIn

(* The last request about a block tells its size.                          *)
LEMMA SizeIs ==
  ASSUME NEW t, NEW n \in Nat, NEW id, NEW k, IsLast(t, n, id, k)
  PROVE  SizeIn(t, n, id) = t[k].size
<1> DEFINE P(j) == t[j].index = id /\ \A l \in j + 1 .. n : t[l].index # id
           c == CHOOSE j \in 1 .. n : P(j)
<1>1. k \in 1 .. n /\ P(k)
  BY DEF IsLast
<1>2. c \in 1 .. n /\ P(c)
  BY <1>1
<1>3. SizeIn(t, n, id) = t[c].size
  BY DEF SizeIn
<1> HIDE DEF c
<1>4. c = k
  <2>1. c < k => k \in c + 1 .. n
    BY <1>1, <1>2
  <2>2. k < c => c \in k + 1 .. n
    BY <1>1, <1>2
  <2>3. ~ (c < k) /\ ~ (k < c)
    BY <1>1, <1>2, <2>1, <2>2
  <2> QED
    BY <1>1, <1>2, <2>3
<1> QED
  BY <1>3, <1>4

(* A live block has a last request.                                        *)
LEMMA LiveHasLast ==
  ASSUME NEW t, NEW n \in Nat, \A k \in 1 .. n : t[k].index \in Ids,
         NEW id \in LiveIn(t, n)
  PROVE  \E k : IsLast(t, n, id, k)
<1> DEFINE P == {m \in 0 .. n : \A x \in LiveIn(t, m) : \E k : IsLast(t, m, x, k)}
<1>1. 0 \in P
  BY LiveZero
<1>2. ASSUME NEW m \in 0 .. n, m \in P, m < n PROVE m + 1 \in P
  <2> SUFFICES ASSUME NEW x \in LiveIn(t, m + 1) PROVE \E k : IsLast(t, m + 1, x, k)
    BY <1>2
  <2>1. m \in Nat /\ m + 1 \in 1 .. n /\ t[m + 1].index \in Ids
    BY <1>2
  <2>2. CASE x = t[m + 1].index
    <3>1. IsLast(t, m + 1, x, m + 1)
      BY <2>1, <2>2 DEF IsLast
    <3> QED
      BY <3>1
  <2>3. CASE x # t[m + 1].index
    <3>0. LiveIn(t, m + 1) = IF t[m + 1].type = "FREE"
                               THEN LiveIn(t, m) \ {t[m + 1].index}
                               ELSE LiveIn(t, m) \cup {t[m + 1].index}
      BY <2>1, LiveStep
    <3>1. x \in LiveIn(t, m)
      <4> HIDE DEF P
      <4> QED
        BY <2>3, <3>0
    <3>2. PICK k : IsLast(t, m, x, k)
      BY <1>2, <3>1
    <3>3. IsLast(t, m + 1, x, k)
      <4>1. k \in 1 .. m /\ k \in 1 .. m + 1
        BY <2>1, <3>2 DEF IsLast
      <4>2. \A l \in k + 1 .. m + 1 : l = m + 1 \/ l \in k + 1 .. m
        BY <2>1, <4>1
      <4> QED
        BY <2>3, <3>2, <4>1, <4>2 DEF IsLast
    <3> QED
      BY <3>3
  <2> QED
    BY <2>2, <2>3
<1>3. n \in P
  <2>1. 0 .. n \subseteq P
    <3> HIDE DEF P
    <3> QED
      BY <1>1, <1>2, NatInduces
  <2>2. n \in 0 .. n
    OBVIOUS
  <2> QED
    BY <2>1, <2>2
<1> QED
  BY <1>3

(* A request changes the size of its own block.                            *)
LEMMA SizeStep ==
  ASSUME NEW t, NEW n \in Nat, \A k \in 1 .. n : t[k].index \in Ids
  PROVE  /\ SizeIn(t, n + 1, t[n + 1].index) = t[n + 1].size
         /\ \A id \in LiveIn(t, n) : id # t[n + 1].index =>
              SizeIn(t, n + 1, id) = SizeIn(t, n, id)
<1>1. PICK m \in Nat : m = n + 1
  OBVIOUS
<1>2. IsLast(t, m, t[m].index, m)
  BY <1>1 DEF IsLast
<1>3. SizeIn(t, m, t[m].index) = t[m].size
  BY <1>2, SizeIs
<1>4. ASSUME NEW id \in LiveIn(t, n), id # t[m].index
      PROVE  SizeIn(t, m, id) = SizeIn(t, n, id)
  <2>1. PICK k : IsLast(t, n, id, k)
    BY LiveHasLast
  <2>2. IsLast(t, m, id, k)
    <3>1. k \in 1 .. n /\ k \in 1 .. m
      BY <1>1, <2>1 DEF IsLast
    <3>2. \A l \in k + 1 .. m : l = m \/ l \in k + 1 .. n
      BY <1>1, <3>1
    <3> QED
      BY <1>4, <2>1, <3>1, <3>2 DEF IsLast
  <2> QED
    BY <2>1, <2>2, SizeIs
<1> QED
  BY <1>1, <1>3, <1>4

(* Only the first n requests count.                                        *)
LEMMA SizeSame ==
  ASSUME NEW t, NEW u, NEW n \in Nat, \A k \in 1 .. n : u[k] = t[k],
         \A k \in 1 .. n : t[k].index \in Ids, NEW id \in LiveIn(t, n)
  PROVE  SizeIn(u, n, id) = SizeIn(t, n, id)
<1>1. PICK k : IsLast(t, n, id, k)
  BY LiveHasLast
<1>2. k \in 1 .. n
  BY <1>1 DEF IsLast
<1>3. IsLast(u, n, id, k)
  <2>1. \A l \in k + 1 .. n : l \in 1 .. n
    BY <1>2
  <2> QED
    BY <1>1, <1>2, <2>1 DEF IsLast
<1> QED
  BY <1>1, <1>2, <1>3, SizeIs

(* A request that may follow when the blocks of L are allocated.           *)
OpLegal(op, L) ==
  /\ op.index \in Ids
  /\ \/ op.type = "ALLOC" /\ op.index \notin L /\ op.size \in Sizes
     \/ op.type = "REALLOC" /\ op.index \in L /\ op.size \in Sizes
     \/ op.type = "FREE" /\ op.index \in L

(* The used blocks of the heap are those that the books at and sz tell of, *)
(* one for each number of L, and large enough.                             *)
Holds(h, S, L, at, sz) ==
  /\ Rested(h, S) /\ Used(S) = {at[id] : id \in L}
  /\ \A x, y \in L : at[x] = at[y] => x = y
  /\ \A id \in L : sz[id] \in Sizes /\ sz[id] + 8 <= S.size[at[id]]

(* The answer of mm.c to a request, of a heap and of its shape; b is the   *)
(* block that the request is about.                                        *)
Answered(h, b, op) ==
  CASE op.type = "ALLOC" -> mm_malloc(h, op.size)
    [] op.type = "REALLOC" -> mm_realloc(h, b, op.size)
    [] op.type = "FREE" -> [p |-> NULL, heap |-> mm_free(h, b)]

(* The same, of a shape.                                                   *)
Served(S, b, op) ==
  CASE op.type = "ALLOC" -> Malloced(S, op.size)
    [] op.type = "REALLOC" -> Realloced(S, b, op.size)
    [] op.type = "FREE" -> [p |-> b, shape |-> Freed(S, b)]

(* The blocks that are allocated after a request.                          *)
After(L, op) == IF op.type = "FREE" THEN L \ {op.index} ELSE L \cup {op.index}

(* The books at2 and sz2 after a request that was answered with p.         *)
Booked(op, p, L, at, sz, at2, sz2) ==
  /\ \A id \in L \ {op.index} : at2[id] = at[id] /\ sz2[id] = sz[id]
  /\ op.type # "FREE" => at2[op.index] = p /\ sz2[op.index] = op.size

(* The payloads of the blocks of L hold in g what they hold in h.          *)
Untouched(h, g, L, at, sz) ==
  \A id \in L : \A a \in Span(at[id], sz[id]) : GET(g, a) = GET(h, a)

(* Sizes are positive multiples of a word (DriverAssumption).              *)
LEMMA SizesAre ==
  ASSUME NEW s \in Sizes
  PROVE  s \in Nat /\ s > 0 /\ s % 4 = 0
  BY DriverAssumption

(* Only the numbers that are in L count.                                   *)
LEMMA HoldsSame ==
  ASSUME NEW h, NEW S, NEW L, NEW at, NEW sz, NEW at2, NEW sz2, Holds(h, S, L, at, sz),
         \A id \in L : at2[id] = at[id] /\ sz2[id] = sz[id]
  PROVE  Holds(h, S, L, at2, sz2)
<1>1. {at2[id] : id \in L} = {at[id] : id \in L}
  OBVIOUS
<1> QED
  BY <1>1 DEF Holds

(* The place of a block that the books tell of.                            *)
LEMMA HoldsIs ==
  ASSUME NEW h, NEW S, NEW L, NEW at, NEW sz, Holds(h, S, L, at, sz), NEW id \in L
  PROVE  /\ at[id] \in Used(S) /\ at[id] \in Int /\ at[id] % 8 = 0 /\ at[id] >= 16
         /\ sz[id] \in Nat /\ sz[id] > 0 /\ sz[id] % 4 = 0
         /\ sz[id] + 8 <= S.size[at[id]] /\ S.size[at[id]] \in Nat
         /\ at[id] + sz[id] + 8 <= h.brk /\ h.brk \in Int /\ h.brk <= 8 + MaxHeap
         /\ at[id] \in Words
         /\ Span(at[id], sz[id]) \subseteq Payload(S, at[id])
<1> PICK b : b = at[id]
  OBVIOUS
<1> PICK s : s = sz[id]
  OBVIOUS
<1>1. b \in Used(S) /\ s \in Sizes /\ s + 8 <= S.size[b] /\ Rested(h, S)
  BY DEF Holds
<1>2. s \in Nat /\ s > 0 /\ s % 4 = 0
  BY <1>1, SizesAre
<1>3. /\ b \in Int /\ S.size[b] \in Nat /\ b % 8 = 0 /\ b >= 16
      /\ b + S.size[b] <= S.brk /\ S.brk \in Int
      /\ S.brk <= 8 + MaxHeap /\ h.brk = S.brk /\ S.size[b] >= 16
      /\ \A a \in Int : a % 4 = 0 /\ b <= a /\ a < b + S.size[b] => a \in Words
  BY <1>1, UsedIs
<1>4. PICK z \in Int : z = S.size[b]
  BY <1>3
<1>5. b + s + 8 <= h.brk
  BY <1>1, <1>2, <1>3, <1>4, MaxHeapAssumption
<1>6. b \in Words
  BY <1>3, <1>4
<1>7. Span(b, s) \subseteq Payload(S, b)
  <2> SUFFICES ASSUME NEW a \in Words, b <= a, a < b + s
               PROVE  a < b + S.size[b] - 8
    BY DEF Span, Payload
  <2>1. a \in Int
    BY WordsAreInt
  <2>2. s + 8 <= z
    BY <1>1, <1>4
  <2>3. a < b + z - 8
    BY ONLY <1>2, <1>3, <1>4, <2>1, <2>2, a < b + s
  <2> QED
    BY <1>4, <2>3
<1> QED
  BY <1>1, <1>2, <1>3, <1>5, <1>6, <1>7

(* Two blocks share no byte.                                               *)
LEMMA HoldsApart ==
  ASSUME NEW h, NEW S, NEW L, NEW at, NEW sz, Holds(h, S, L, at, sz),
         NEW x \in L, NEW y \in L, x # y
  PROVE  at[x] + sz[x] + 8 <= at[y] \/ at[y] + sz[y] + 8 <= at[x]
<1>1. /\ at[x] \in Used(S) /\ at[x] \in Int /\ sz[x] \in Nat
      /\ sz[x] + 8 <= S.size[at[x]] /\ S.size[at[x]] \in Nat
  BY HoldsIs
<1>2. /\ at[y] \in Used(S) /\ at[y] \in Int /\ sz[y] \in Nat
      /\ sz[y] + 8 <= S.size[at[y]] /\ S.size[at[y]] \in Nat
  BY HoldsIs
<1>3. at[x] # at[y] /\ Rested(h, S)
  BY DEF Holds
<1>4. at[x] \in S.blocks /\ at[y] \in S.blocks
  BY <1>1, <1>2 DEF Used
<1>5. \A b, c \in S.blocks : b < c => b + S.size[b] <= c
  BY <1>3 DEF Rested, Shaped, Tiled
<1>6. /\ at[x] < at[y] => at[x] + S.size[at[x]] <= at[y]
      /\ at[y] < at[x] => at[y] + S.size[at[y]] <= at[x]
  BY <1>4, <1>5
<1> QED
  BY <1>1, <1>2, <1>3, <1>6

(* The heap itself, and that it only grows.                                *)
LEMMA RestedHeap ==
  ASSUME NEW h, NEW S, Rested(h, S)
  PROVE  /\ h \in Heaps /\ h.brk = S.brk /\ S.brk \in Int
         /\ 8 <= h.brk /\ h.brk <= 8 + MaxHeap
<1>1. S \in Shapes /\ Tiled(S) /\ h \in Heaps /\ h.brk = S.brk
  BY DEF Rested, Shaped, Tagged
<1>2. Prologue \in S.blocks
  BY <1>1 DEF Tiled
<1>3. /\ Prologue \in Int /\ S.size[Prologue] \in Nat /\ S.brk \in Int
      /\ Prologue >= 16 /\ Prologue + S.size[Prologue] <= S.brk /\ S.brk <= 8 + MaxHeap
  BY <1>1, <1>2, BlockWords
<1>4. 8 <= S.brk
  BY <1>3
<1> QED
  BY <1>1, <1>3, <1>4

(* The heap never shrinks within a pass.                                   *)
LEMMA LeadsUp ==
  ASSUME NEW h, NEW S, Rested(h, S), NEW g, NEW U, NEW gone, Leads(h, S, g, U, gone)
  PROVE  h.brk <= g.brk
<1>1. Rested(g, U) /\ S.brk <= U.brk
  BY DEF Leads
<1>2. h.brk = S.brk /\ g.brk = U.brk
  BY <1>1, RestedHeap
<1> QED
  BY <1>1, <1>2

(* The used blocks that stay and perhaps one that is new.                  *)
LEMMA HoldsNext ==
  ASSUME NEW h, NEW S, NEW L, NEW at, NEW sz, Holds(h, S, L, at, sz),
         NEW g, NEW U, NEW gone, Leads(h, S, g, U, gone),
         NEW M, M \subseteq L, \A id \in M : at[id] \notin gone
  PROVE  /\ Rested(g, U)
         /\ \A id \in M : at[id] \in Used(U) /\ U.size[at[id]] = S.size[at[id]]
         /\ Untouched(h, g, M, at, sz)
<1>1. Rested(g, U)
  BY DEF Leads
<1>2. ASSUME NEW id \in M
      PROVE  /\ at[id] \in Used(U) /\ U.size[at[id]] = S.size[at[id]]
             /\ \A a \in Span(at[id], sz[id]) : GET(g, a) = GET(h, a)
  <2>1. PICK b : b = at[id]
    OBVIOUS
  <2>2. b \in Used(S) \ gone /\ Span(b, sz[id]) \subseteq Payload(S, b)
    BY <2>1, HoldsIs
  <2>3. /\ b \in Used(U) /\ U.size[b] = S.size[b]
        /\ \A a \in Payload(S, b) : GET(g, a) = GET(h, a)
    BY <2>2 DEF Leads
  <2> QED
    BY <2>1, <2>2, <2>3
<1> QED
  BY <1>1, <1>2 DEF Untouched

(* The books with one block more.                                          *)
LEMMA HoldsNew ==
  ASSUME NEW h, NEW S, NEW L, NEW at, NEW sz, Holds(h, S, L, at, sz),
         NEW g, NEW U, NEW gone, Leads(h, S, g, U, gone),
         NEW M, M \subseteq L, \A id \in M : at[id] \notin gone,
         NEW x, x \notin M, NEW p, NEW size \in Sizes,
         Used(U) = {at[id] : id \in M} \cup {p}, \A id \in M : at[id] # p,
         U.size[p] >= size + 8,
         NEW at2, NEW sz2, at2[x] = p, sz2[x] = size,
         \A id \in M : at2[id] = at[id] /\ sz2[id] = sz[id]
  PROVE  Holds(g, U, M \cup {x}, at2, sz2) /\ Untouched(h, g, M, at, sz)
<1>1. /\ Rested(g, U)
      /\ \A id \in M : at[id] \in Used(U) /\ U.size[at[id]] = S.size[at[id]]
      /\ Untouched(h, g, M, at, sz)
  BY HoldsNext
<1>2. Used(U) = {at2[id] : id \in M \cup {x}}
  OBVIOUS
<1>3. \A y, z \in M \cup {x} : at2[y] = at2[z] => y = z
  BY DEF Holds
<1>4. ASSUME NEW id \in M \cup {x}
      PROVE  sz2[id] \in Sizes /\ sz2[id] + 8 <= U.size[at2[id]]
  <2>1. CASE id = x
    <3>1. U.size[p] \in Nat
      BY <1>1, UsedIs
    <3>2. size \in Nat
      BY SizesAre
    <3> QED
      BY <2>1, <3>1, <3>2
  <2>2. CASE id \in M
    BY <1>1, <2>2 DEF Holds
  <2> QED
    BY <2>1, <2>2
<1> QED
  BY <1>1, <1>2, <1>3, <1>4 DEF Holds

(* The books with one block less.                                          *)
LEMMA HoldsLess ==
  ASSUME NEW h, NEW S, NEW L, NEW at, NEW sz, Holds(h, S, L, at, sz),
         NEW x \in L, NEW g, NEW U, Leads(h, S, g, U, {at[x]}),
         Used(U) = Used(S) \ {at[x]}
  PROVE  Holds(g, U, L \ {x}, at, sz) /\ Untouched(h, g, L \ {x}, at, sz)
<1>0. /\ \A y, z \in L : at[y] = at[z] => y = z
      /\ Used(S) = {at[id] : id \in L}
  BY DEF Holds
<1>1. PICK M : M = L \ {x}
  OBVIOUS
<1>2. M \subseteq L /\ \A id \in M : at[id] \notin {at[x]}
  BY <1>0, <1>1
<1>3. /\ Rested(g, U)
      /\ \A id \in M : at[id] \in Used(U) /\ U.size[at[id]] = S.size[at[id]]
      /\ Untouched(h, g, M, at, sz)
  BY <1>2, HoldsNext
<1>4. Used(U) = {at[id] : id \in M}
  BY <1>0, <1>1
<1>5. \A id \in M : sz[id] \in Sizes /\ sz[id] + 8 <= U.size[at[id]]
  BY <1>1, <1>3 DEF Holds
<1>6. \A y, z \in M : at[y] = at[z] => y = z
  BY <1>0, <1>1
<1> QED
  BY <1>1, <1>3, <1>4, <1>5, <1>6 DEF Holds

-------------------------------------------------------------------------------
(* 7  The requests of a trace                                              *)

(* What the lemmas on malloc, realloc and free say of an answer.           *)
Mallocs(h, S, size, r, c) ==
  /\ r.p = c.p /\ Leads(h, S, r.heap, c.shape, {})
  /\ c.p = 0 => r.heap = h /\ c.shape = S
  /\ c.p # 0 => /\ Used(c.shape) = Used(S) \cup {c.p} /\ c.p \notin Used(S)
                /\ c.shape.size[c.p] >= size + 8

(* What Freed promises of mm_free.                                         *)
Frees(h, S, b, g, U) == Leads(h, S, g, U, {b}) /\ Used(U) = Used(S) \ {b}

(* The same lemmas, of answers that have a name.                           *)
LEMMA MallocOf ==
  ASSUME NEW h, NEW S, Rested(h, S), NEW size, size \in Sizes,
         NEW r, r = mm_malloc(h, size), NEW c, c = Malloced(S, size)
  PROVE  Mallocs(h, S, size, r, c)
<1>1. size \in Nat /\ size > 0
  BY SizesAre
<1>2. Mallocs(h, S, size, mm_malloc(h, size), Malloced(S, size))
  BY <1>1, MallocShaped, Zenon DEF Mallocs
<1> QED
  BY <1>2

(* mm_realloc keeps what Reallocs promises, for the sizes of a trace.      *)
LEMMA ReallocOf ==
  ASSUME NEW h, NEW S, Rested(h, S), NEW b, b \in Used(S), NEW size, size \in Sizes,
         NEW r, r = mm_realloc(h, b, size), NEW c, c = Realloced(S, b, size)
  PROVE  Reallocs(h, S, b, size, r, c)
<1>1. size \in Nat /\ size > 0
  BY SizesAre
<1> QED
  BY <1>1, ReallocShaped

(* mm_free keeps what Frees promises.                                      *)
LEMMA FreeOf ==
  ASSUME NEW h, NEW S, Rested(h, S), NEW b, b \in Used(S),
         NEW g, g = mm_free(h, b), NEW U, U = Freed(S, b)
  PROVE  Frees(h, S, b, g, U)
<1>1. Frees(h, S, b, mm_free(h, b), Freed(S, b))
  BY FreeShaped, Zenon DEF Frees
<1> QED
  BY <1>1

(* A request is answered with what its shape tells; a refusal leaves the   *)
(* heap alone.                                                             *)
LEMMA ServedAnswers ==
  ASSUME NEW h, NEW S, NEW L, NEW at, NEW sz, Holds(h, S, L, at, sz),
         NEW op, OpLegal(op, L)
  PROVE  LET r == Answered(h, at[op.index], op)
             c == Served(S, at[op.index], op)
         IN  /\ op.type # "FREE" => r.p = c.p
             /\ op.type # "FREE" /\ c.p = 0 => r.heap = h /\ c.shape = S
             /\ op.type = "FREE" => c.p = at[op.index] /\ c.p # 0
<1> PICK x : x = op.index
  OBVIOUS
<1> PICK b : b = at[x]
  OBVIOUS
<1> PICK r : r = Answered(h, b, op)
  OBVIOUS
<1> PICK c : c = Served(S, b, op)
  OBVIOUS
<1>0. Rested(h, S)
  BY DEF Holds
<1>1. CASE op.type = "ALLOC"
  <2>1. op.size \in Sizes
    BY <1>1 DEF OpLegal
  <2>2. r = mm_malloc(h, op.size) /\ c = Malloced(S, op.size)
    BY <1>1 DEF Answered, Served
  <2>3. Mallocs(h, S, op.size, r, c)
    BY <1>0, <2>1, <2>2, MallocOf
  <2> QED
    BY <1>1, <2>3 DEF Mallocs
<1>2. CASE op.type = "REALLOC"
  <2>1. op.size \in Sizes /\ x \in L
    BY <1>2 DEF OpLegal
  <2>2. b \in Used(S)
    BY <2>1, HoldsIs
  <2>3. r = mm_realloc(h, b, op.size) /\ c = Realloced(S, b, op.size)
    BY <1>2 DEF Answered, Served
  <2>4. Reallocs(h, S, b, op.size, r, c)
    BY <1>0, <2>1, <2>2, <2>3, ReallocOf
  <2> QED
    BY <1>2, <2>4 DEF Reallocs
<1>3. CASE op.type = "FREE"
  <2>1. c.p = b
    BY <1>3 DEF Served
  <2>2. b \in Int /\ b >= 16
    BY <1>3, HoldsIs DEF OpLegal
  <2> QED
    BY <1>3, <2>1, <2>2
<1> QED
  BY <1>1, <1>2, <1>3 DEF OpLegal

(* A request that is granted: the heap holds the blocks of the books that  *)
(* follow, and the other payloads are what they were.                      *)
LEMMA ServedHolds ==
  ASSUME NEW h, NEW S, NEW L, NEW at, NEW sz, Holds(h, S, L, at, sz),
         NEW op, OpLegal(op, L), NEW x, x = op.index,
         NEW r, r = Answered(h, at[x], op), NEW c, c = Served(S, at[x], op), c.p # 0,
         NEW at2, NEW sz2, Booked(op, c.p, L, at, sz, at2, sz2)
  PROVE  /\ Holds(r.heap, c.shape, After(L, op), at2, sz2)
         /\ Untouched(h, r.heap, L \ {x}, at, sz)
         /\ h.brk <= r.heap.brk
<1>0. /\ Rested(h, S) /\ Used(S) = {at[id] : id \in L}
      /\ \A y, z \in L : at[y] = at[z] => y = z
  BY DEF Holds
<1> PICK U : U = c.shape
  OBVIOUS
<1> PICK g : g = r.heap
  OBVIOUS
<1> PICK p : p = c.p
  OBVIOUS
<1> PICK M : M = L \ {x}
  OBVIOUS
<1>4. \A id \in M : at2[id] = at[id] /\ sz2[id] = sz[id]
  BY DEF Booked
<1>1. CASE op.type = "ALLOC"
  <2>1. x \notin L /\ M = L /\ After(L, op) = M \cup {x}
    BY <1>1 DEF OpLegal, After
  <2>2. op.size \in Sizes /\ op.size \in Nat /\ op.size > 0
    BY <1>1, SizesAre DEF OpLegal
  <2>3. r = mm_malloc(h, op.size) /\ c = Malloced(S, op.size)
    BY <1>1 DEF Answered, Served
  <2>0. Mallocs(h, S, op.size, r, c)
    BY <1>0, <2>2, <2>3, MallocOf
  <2>4. /\ Leads(h, S, g, U, {}) /\ Used(U) = Used(S) \cup {p} /\ p \notin Used(S)
        /\ U.size[p] >= op.size + 8
    BY <2>0 DEF Mallocs
  <2>5. Used(U) = {at[id] : id \in M} \cup {p} /\ \A id \in M : at[id] # p
    BY <1>0, <2>1, <2>4
  <2>6. at2[x] = p /\ sz2[x] = op.size
    BY <1>1 DEF Booked
  <2>7. Holds(g, U, M \cup {x}, at2, sz2) /\ Untouched(h, g, M, at, sz)
    <3>1. PICK gone : gone = {} /\ Leads(h, S, g, U, gone)
      BY <2>4
    <3>2. PICK size \in Sizes : size = op.size
      BY <2>2
    <3>3. /\ U.size[p] >= size + 8 /\ sz2[x] = size /\ at2[x] = p /\ M \subseteq L
          /\ \A id \in M : at[id] \notin gone
      BY <2>1, <2>4, <2>6, <3>1, <3>2
    <3> QED
      BY ONLY <1>4, <2>1, <2>5, <3>1, <3>2, <3>3, Holds(h, S, L, at, sz), HoldsNew
  <2>8. h.brk <= g.brk
    BY <1>0, <2>4, LeadsUp
  <2> QED
    BY <2>1, <2>7, <2>8
<1>2. CASE op.type = "REALLOC"
  <2>1. x \in L /\ x \notin M /\ M \subseteq L /\ After(L, op) = M \cup {x}
    BY <1>2 DEF OpLegal, After
  <2>2. op.size \in Sizes /\ op.size \in Nat /\ op.size > 0
    BY <1>2, SizesAre DEF OpLegal
  <2>3. r = mm_realloc(h, at[x], op.size) /\ c = Realloced(S, at[x], op.size)
    BY <1>2 DEF Answered, Served
  <2>4. PICK b : b = at[x] /\ b \in Used(S)
    BY <2>1, HoldsIs
  <2>0. Reallocs(h, S, b, op.size, r, c)
    BY <1>0, <2>2, <2>3, <2>4, ReallocOf
  <2>5. /\ Leads(h, S, g, U, {b}) /\ Used(U) = (Used(S) \ {b}) \cup {p}
        /\ p \notin Used(S) /\ U.size[p] >= op.size + 8
    BY <2>0 DEF Reallocs
  <2>6. Used(U) = {at[id] : id \in M} \cup {p} /\ \A id \in M : at[id] # p
    BY <1>0, <2>1, <2>4, <2>5
  <2>7. at2[x] = p /\ sz2[x] = op.size
    BY <1>2 DEF Booked
  <2>8. \A id \in M : at[id] \notin {b}
    BY <1>0, <2>1, <2>4
  <2>9. Holds(g, U, M \cup {x}, at2, sz2) /\ Untouched(h, g, M, at, sz)
    <3>1. PICK gone : gone = {b} /\ Leads(h, S, g, U, gone)
      BY <2>5
    <3>2. PICK size \in Sizes : size = op.size
      BY <2>2
    <3>3. /\ U.size[p] >= size + 8 /\ sz2[x] = size /\ at2[x] = p
          /\ \A id \in M : at[id] \notin gone
      BY <2>5, <2>7, <2>8, <3>1, <3>2
    <3> QED
      BY ONLY <1>4, <2>1, <2>6, <3>1, <3>2, <3>3, Holds(h, S, L, at, sz), HoldsNew
  <2>10. h.brk <= g.brk
    BY <1>0, <2>5, LeadsUp
  <2> QED
    BY <2>1, <2>9, <2>10
<1>3. CASE op.type = "FREE"
  <2>1. x \in L /\ After(L, op) = M
    BY <1>3 DEF OpLegal, After
  <2>2. r.heap = mm_free(h, at[x]) /\ U = Freed(S, at[x])
    BY <1>3 DEF Answered, Served
  <2>3. at[x] \in Used(S)
    BY <2>1, HoldsIs
  <2>0. Frees(h, S, at[x], g, U)
    BY <1>0, <2>2, <2>3, FreeOf
  <2>4. Leads(h, S, g, U, {at[x]}) /\ Used(U) = Used(S) \ {at[x]}
    BY <2>0 DEF Frees
  <2>5. Holds(g, U, M, at, sz) /\ Untouched(h, g, M, at, sz)
    <3>1. /\ Holds(g, U, L \ {x}, at, sz)
          /\ Untouched(h, g, L \ {x}, at, sz)
      BY ONLY <2>1, <2>4, Holds(h, S, L, at, sz), HoldsLess, Zenon
    <3> QED
      BY <3>1
  <2>6. Holds(g, U, M, at2, sz2)
    BY <1>4, <2>5, HoldsSame
  <2>7. h.brk <= g.brk
    BY <1>0, <2>4, LeadsUp
  <2> QED
    BY <2>1, <2>5, <2>6, <2>7
<1> QED
  BY <1>1, <1>2, <1>3 DEF OpLegal

(* realloc copies as much as there is and as much as there is room for.    *)
LEMMA ServedCopies ==
  ASSUME NEW h, NEW S, NEW L, NEW at, NEW sz, Holds(h, S, L, at, sz),
         NEW op, OpLegal(op, L), op.type = "REALLOC", NEW x, x = op.index,
         NEW r, r = Answered(h, at[x], op), NEW c, c = Served(S, at[x], op), c.p # 0,
         NEW n \in Nat, n <= op.size, n <= sz[x], NEW a \in Span(c.p, n)
  PROVE  /\ GET(r.heap, a) = GET(h, at[x] + (a - c.p))
         /\ at[x] + (a - c.p) \in Span(at[x], sz[x])
<1>1. op.size \in Nat /\ op.size > 0 /\ x \in L
  BY SizesAre DEF OpLegal
<1> PICK b : b = at[x]
  OBVIOUS
<1>2. /\ b \in Used(S) /\ b \in Int /\ b % 8 = 0 /\ sz[x] \in Nat
      /\ sz[x] + 8 <= S.size[b] /\ S.size[b] \in Nat /\ Rested(h, S)
  <2>1. Rested(h, S)
    BY DEF Holds
  <2> QED
    BY <1>1, <2>1, HoldsIs
<1>3. r = mm_realloc(h, b, op.size) /\ c = Realloced(S, b, op.size)
  BY DEF Answered, Served
<1> PICK p : p = c.p
  OBVIOUS
<1>4. PICK U : U = c.shape
  OBVIOUS
<1>0. Reallocs(h, S, b, op.size, r, c)
  <2>1. op.size \in Sizes
    BY DEF OpLegal
  <2> QED
    BY <1>2, <1>3, <2>1, ReallocOf
<1>5. /\ Leads(h, S, r.heap, U, {b}) /\ Used(U) = (Used(S) \ {b}) \cup {p}
      /\ \A d \in Span(p, op.size) : d < p + S.size[b] - 8 =>
           GET(r.heap, d) = GET(h, b + (d - p))
  BY <1>0, <1>4 DEF Reallocs
<1>6. p \in Int /\ p % 8 = 0
  <2>1. Rested(r.heap, U) /\ p \in Used(U)
    BY <1>5 DEF Leads
  <2> QED
    BY <2>1, UsedIs
<1>7. a \in Words /\ a \in Int /\ p <= a /\ a < p + n
  BY WordsAreInt DEF Span
<1>8. PICK y \in Int : y = sz[x]
  BY <1>2
<1>9. PICK z \in Int : z = S.size[b]
  BY <1>2
<1>10. a < p + op.size /\ a < p + z - 8 /\ a < p + y
  BY <1>1, <1>2, <1>6, <1>7, <1>8, <1>9
<1>11. a \in Span(p, op.size)
  BY <1>7, <1>10 DEF Span
<1>12. GET(r.heap, a) = GET(h, b + (a - p))
  BY <1>5, <1>9, <1>10, <1>11
<1>13. PICK d \in Int : d = b + (a - p)
  BY <1>2, <1>6, <1>7
<1>14. b <= d /\ d < b + y
  BY <1>2, <1>6, <1>7, <1>8, <1>10, <1>13
<1>15. d % 4 = 0
  <2>1. a % 4 = 0
    BY <1>7, WordsAre
  <2> QED
    BY <1>2, <1>6, <1>7, <1>13, <2>1
<1>16. d \in Words
  <2>1. \A e \in Int : e % 4 = 0 /\ b <= e /\ e < b + S.size[b] => e \in Words
    BY <1>2, UsedIs
  <2>2. d < b + z
    BY <1>2, <1>8, <1>9, <1>14
  <2> QED
    BY <1>9, <1>13, <1>14, <1>15, <2>1, <2>2
<1> QED
  BY <1>8, <1>12, <1>13, <1>14, <1>16 DEF Span

(* The heap g is h with v in every word of block x.                        *)
FillsOne(h, g, S, L, at, sz, x, v) ==
  /\ Holds(g, S, L, at, sz) /\ Untouched(h, g, L \ {x}, at, sz)
  /\ \A a \in Span(at[x], sz[x]) : GET(g, a) = v

(* The driver fills a block: the heap holds what it held.                  *)
LEMMA FilledHolds ==
  ASSUME NEW h, NEW S, NEW L, NEW at, NEW sz, Holds(h, S, L, at, sz),
         NEW x, x \in L, NEW v, v \in Int, NEW g, g = memset(h, at[x], v, sz[x])
  PROVE  FillsOne(h, g, S, L, at, sz, x, v)
<1>1. /\ Rested(h, S) /\ Used(S) = {at[id] : id \in L}
      /\ \A y, z \in L : at[y] = at[z] => y = z
  BY DEF Holds
<1>2. PICK b : b = at[x]
  OBVIOUS
<1>3. PICK n : n = sz[x]
  OBVIOUS
<1>4. b \in Used(S) /\ n \in Nat /\ n + 8 <= S.size[b]
  BY <1>2, <1>3, HoldsIs
<1>5. Filled(h, g, S, b) /\ \A a \in Span(b, n) : GET(g, a) = v
  BY <1>1, <1>2, <1>3, <1>4, MemsetFills
<1>6. /\ Rested(g, S)
      /\ \A c \in Used(S) \ {b} : \A a \in Payload(S, c) : GET(g, a) = GET(h, a)
  BY <1>1, <1>4, <1>5, FillShaped
<1>7. Holds(g, S, L, at, sz)
  BY <1>6 DEF Holds
<1>8. ASSUME NEW y \in L \ {x}, NEW a \in Span(at[y], sz[y])
      PROVE  GET(g, a) = GET(h, a)
  <2>1. at[y] \in Used(S) /\ at[y] # b
    BY <1>1, <1>2
  <2>2. Span(at[y], sz[y]) \subseteq Payload(S, at[y])
    BY HoldsIs
  <2> QED
    BY <1>6, <2>1, <2>2
<1> QED
  BY <1>2, <1>3, <1>5, <1>7, <1>8 DEF Untouched, FillsOne

(* The requests of a trace, and a trace that the driver may read.          *)
Ops == [type : {"ALLOC", "REALLOC", "FREE"}, index : Ids, size : Nat]

(* A trace that the driver may read.                                       *)
TraceOK(t) == t \in Seq(Ops) /\ \A k \in 1 .. Len(t) : OpLegal(t[k], LiveIn(t, k - 1))

(* The sizes of all blocks after n requests.                               *)
SizesAt(t, n) == [id \in Ids |-> SizeIn(t, n, id)]

(* What mm.c does with a trace, from mm_init on, depends on the trace      *)
(* alone: hist[n] is the shape of the heap and the place of every block    *)
(* after n requests, none of which was refused.                            *)
Play(s, op, u) ==
  LET c == Served(s.shape, s.at[op.index], op)
  IN  /\ c.p # 0 /\ u.shape = c.shape /\ u.at[op.index] = c.p
      /\ \A id \in Ids \ {op.index} : u.at[id] = s.at[id]

(* The first n requests of t, from mm_init on.                             *)
Plays(hist, t, n) ==
  hist[0].shape = Inited.shape /\ \A k \in 1 .. n : Play(hist[k - 1], t[k], hist[k])

(* The heap h and the books bl are where n requests of t lead.             *)
InStep(h, t, n, bl, hist) ==
  /\ Plays(hist, t, Len(t))
  /\ Holds(h, hist[n].shape, LiveIn(t, n), bl, SizesAt(t, n))
  /\ \A id \in LiveIn(t, n) : bl[id] = hist[n].at[id]

(* The trace u is t and one more request.                                  *)
Grows(t, op, u) == op \in Ops /\ OpLegal(op, LiveIn(t, Len(t))) /\ u = Append(t, op)

(* The requests of a trace are legal ones.                                 *)
LEMMA TraceIs ==
  ASSUME NEW t, TraceOK(t)
  PROVE  /\ Len(t) \in Nat /\ t \in Seq(Ops)
         /\ \A k \in 1 .. Len(t) : t[k] \in Ops /\ t[k].index \in Ids
                                   /\ OpLegal(t[k], LiveIn(t, k - 1))
<1>1. t \in Seq(Ops)
  BY DEF TraceOK
<1>2. Len(t) \in Nat /\ \A k \in 1 .. Len(t) : t[k] \in Ops
  BY <1>1
<1> QED
  BY <1>1, <1>2 DEF TraceOK, Ops

(* One more request.                                                       *)
LEMMA TraceGrows ==
  ASSUME NEW t, TraceOK(t), NEW op, NEW u, Grows(t, op, u)
  PROVE  /\ TraceOK(u) /\ Len(u) = Len(t) + 1 /\ u[Len(t) + 1] = op
         /\ \A k \in 1 .. Len(t) : u[k] = t[k]
         /\ \A k \in 0 .. Len(t) : LiveIn(u, k) = LiveIn(t, k)
<1>1. t \in Seq(Ops) /\ Len(t) \in Nat
  BY TraceIs
<1>0. op \in Ops /\ OpLegal(op, LiveIn(t, Len(t))) /\ u = Append(t, op)
  BY DEF Grows
<1>2. /\ u \in Seq(Ops) /\ Len(u) = Len(t) + 1 /\ u[Len(t) + 1] = op
      /\ \A k \in 1 .. Len(t) : u[k] = t[k]
  BY <1>0, <1>1
<1>3. ASSUME NEW k \in 0 .. Len(t) PROVE LiveIn(u, k) = LiveIn(t, k)
  <2>1. k \in Nat /\ \A l \in 1 .. k : l \in 1 .. Len(t)
    BY <1>1
  <2>2. \A l \in 1 .. k : u[l] = t[l]
    BY <1>2, <2>1
  <2> QED
    BY <2>1, <2>2, LiveSame
<1>4. ASSUME NEW k \in 1 .. Len(u) PROVE OpLegal(u[k], LiveIn(u, k - 1))
  <2>1. k - 1 \in 0 .. Len(t)
    BY <1>1, <1>2
  <2>2. LiveIn(u, k - 1) = LiveIn(t, k - 1)
    BY <1>3, <2>1
  <2>3. CASE k = Len(t) + 1
    <3>1. u[k] = op /\ k - 1 = Len(t)
      BY <1>1, <1>2, <2>3
    <3> QED
      BY <1>0, <2>2, <3>1
  <2>4. CASE k # Len(t) + 1
    <3>1. k \in 1 .. Len(t)
      BY <1>1, <1>2, <2>4
    <3>2. u[k] = t[k] /\ OpLegal(t[k], LiveIn(t, k - 1))
      BY <1>2, <3>1, TraceIs
    <3> QED
      BY <2>2, <3>2
  <2> QED
    BY <2>3, <2>4
<1> QED
  BY <1>2, <1>3, <1>4 DEF TraceOK

(* The blocks and sizes after one request more.                            *)
LEMMA BooksStep ==
  ASSUME NEW t, TraceOK(t), NEW n \in Nat, n < Len(t), NEW op, op = t[n + 1],
         NEW m, m = n + 1
  PROVE  /\ LiveIn(t, m) = After(LiveIn(t, n), op)
         /\ \A id \in LiveIn(t, n) \ {op.index} : SizeIn(t, m, id) = SizeIn(t, n, id)
         /\ SizeIn(t, m, op.index) = op.size
<1>1. Len(t) \in Nat /\ m \in 1 .. Len(t)
  BY TraceIs
<1>2. \A k \in 1 .. n : k \in 1 .. Len(t)
  BY <1>1
<1>3. (\A k \in 1 .. n : t[k].index \in Ids) /\ op.index \in Ids
  BY <1>1, <1>2, TraceIs
<1>4. LiveIn(t, n + 1) = IF op.type = "FREE" THEN LiveIn(t, n) \ {op.index}
                         ELSE LiveIn(t, n) \cup {op.index}
  BY <1>3, LiveStep
<1>5. /\ SizeIn(t, n + 1, op.index) = op.size
      /\ \A id \in LiveIn(t, n) : id # op.index => SizeIn(t, n + 1, id) = SizeIn(t, n, id)
  BY <1>3, SizeStep
<1> QED
  BY <1>4, <1>5 DEF After

(* Sizes of live blocks do not depend on the requests to come.             *)
LEMMA StaysInStep ==
  ASSUME NEW t, TraceOK(t), NEW h, NEW bl, NEW hist, InStep(h, t, Len(t), bl, hist),
         NEW op, NEW u, Grows(t, op, u),
         Served(hist[Len(t)].shape, bl[op.index], op).p # 0
  PROVE  \E more : InStep(h, u, Len(t), bl, more)
                   /\ more[Len(t)].shape = hist[Len(t)].shape
<1> PICK n : n = Len(t)
  OBVIOUS
<1> PICK x : x = op.index
  OBVIOUS
<1> PICK c : c = Served(hist[n].shape, bl[x], op)
  OBVIOUS
<1>1. /\ n \in Nat /\ Len(u) = n + 1 /\ u[n + 1] = op /\ \A k \in 1 .. n : u[k] = t[k]
      /\ LiveIn(u, n) = LiveIn(t, n) /\ x \in Ids
  <2>1. n \in Nat /\ n \in 0 .. n
    BY TraceIs
  <2>2. /\ Len(u) = Len(t) + 1 /\ u[Len(t) + 1] = op
        /\ \A k \in 1 .. Len(t) : u[k] = t[k]
        /\ \A k \in 0 .. Len(t) : LiveIn(u, k) = LiveIn(t, k)
    BY TraceGrows
  <2>3. x \in Ids
    BY DEF Grows, OpLegal
  <2> QED
    BY <2>1, <2>2, <2>3
<1> DEFINE new == [shape |-> c.shape,
                   at |-> [id \in Ids |-> IF id = x THEN c.p ELSE hist[n].at[id]]]
           more == [k \in Nat |-> IF k <= n THEN hist[k] ELSE new]
<1>2. (\A k \in 0 .. n : more[k] = hist[k]) /\ more[n + 1] = new
  BY <1>1
<1>3. Served(hist[n].shape, hist[n].at[x], op) = c
  <2>1. CASE op.type = "ALLOC"
    BY <2>1 DEF Served
  <2>2. CASE op.type # "ALLOC"
    <3>1. x \in LiveIn(t, n)
      BY <2>2 DEF Grows, OpLegal
    <3>2. bl[x] = hist[n].at[x]
      BY <3>1 DEF InStep
    <3> QED
      BY <3>2
  <2> QED
    BY <2>1, <2>2
<1>4. Play(hist[n], op, new)
  <2>1. c.p # 0 /\ new.shape = c.shape /\ new.at[x] = c.p
    BY <1>1
  <2>2. \A id \in Ids \ {x} : new.at[id] = hist[n].at[id]
    OBVIOUS
  <2> HIDE DEF new
  <2> QED
    BY <1>3, <2>1, <2>2 DEF Play
<1> HIDE DEF new, more
<1>5. Plays(more, u, Len(u))
  <2>1. Plays(hist, t, n)
    BY DEF InStep
  <2>2. more[0].shape = Inited.shape
    BY <1>1, <1>2, <2>1 DEF Plays
  <2>3. ASSUME NEW k \in 1 .. n + 1 PROVE Play(more[k - 1], u[k], more[k])
    <3>1. CASE k = n + 1
      <4>1. k - 1 = n /\ n \in 0 .. n
        BY <1>1, <3>1
      <4> QED
        BY <1>1, <1>2, <1>4, <3>1, <4>1
    <3>2. CASE k # n + 1
      <4>1. k \in 1 .. n /\ k - 1 \in 0 .. n /\ k \in 0 .. n
        BY <1>1, <3>2
      <4>2. Play(hist[k - 1], t[k], hist[k])
        BY <2>1, <4>1 DEF Plays
      <4> QED
        BY <1>1, <1>2, <4>1, <4>2
    <3> QED
      BY <3>1, <3>2
  <2> QED
    BY <1>1, <2>2, <2>3 DEF Plays
<1>6. more[n] = hist[n]
  BY <1>1, <1>2
<1>7. \A id \in LiveIn(t, n) : SizesAt(u, n)[id] = SizesAt(t, n)[id]
  <2>1. \A k \in 1 .. n : t[k].index \in Ids
    BY TraceIs
  <2>2. \A id \in LiveIn(t, n) : SizeIn(u, n, id) = SizeIn(t, n, id)
    BY <1>1, <2>1, SizeSame
  <2>3. LiveIn(t, n) \subseteq Ids
    BY DEF LiveIn
  <2> QED
    BY <2>2, <2>3 DEF SizesAt
<1>8. Holds(h, hist[n].shape, LiveIn(t, n), bl, SizesAt(u, n))
  <2>1. Holds(h, hist[n].shape, LiveIn(t, n), bl, SizesAt(t, n))
    BY DEF InStep
  <2> QED
    BY <1>7, <2>1, HoldsSame
<1>9. InStep(h, u, n, bl, more)
  BY <1>1, <1>5, <1>6, <1>8, SMTT(60) DEF InStep
<1> QED
  BY <1>6, <1>9

(* The answer r to the request op of a trace in step, and what follows.    *)
Advances(h, t, n, m, bl, hist, op, x, r) ==
  /\ op.type # "FREE" => r.p # 0
  /\ OpLegal(op, LiveIn(t, n)) /\ op.type \in {"ALLOC", "REALLOC", "FREE"}
  /\ Untouched(h, r.heap, LiveIn(t, n) \ {x}, bl, SizesAt(t, n))
  /\ h.brk <= r.heap.brk
  /\ \A bl2 : Booked(op, r.p, LiveIn(t, n), bl, SizesAt(t, n), bl2, SizesAt(t, m))
       => InStep(r.heap, t, m, bl2, hist)

(* The answer to the next request of a trace that is known to succeed.     *)
LEMMA NextInStep ==
  ASSUME NEW t, TraceOK(t), NEW n \in Nat, n < Len(t), NEW m, m = n + 1,
         NEW h, NEW bl, NEW hist, InStep(h, t, n, bl, hist),
         NEW op, op = t[m], NEW x, x = op.index, NEW r, r = Answered(h, bl[x], op)
  PROVE  Advances(h, t, n, m, bl, hist, op, x, r)
<1>1. /\ Len(t) \in Nat /\ m \in 1 .. Len(t) /\ op \in Ops /\ x \in Ids
      /\ OpLegal(op, LiveIn(t, n))
  <2>1. Len(t) \in Nat
    BY TraceIs
  <2>2. m \in 1 .. Len(t) /\ m - 1 = n
    BY <2>1
  <2> QED
    BY <2>1, <2>2, TraceIs
<1> PICK L : L = LiveIn(t, n)
  OBVIOUS
<1> PICK S : S = hist[n].shape
  OBVIOUS
<1> PICK sz : sz = SizesAt(t, n)
  OBVIOUS
<1> PICK c : c = Served(S, bl[x], op)
  OBVIOUS
<1>2. Holds(h, S, L, bl, sz) /\ OpLegal(op, L)
  BY <1>1 DEF InStep
<1>3. /\ c.p # 0 /\ hist[m].shape = c.shape /\ hist[m].at[x] = c.p
      /\ \A id \in Ids \ {x} : hist[m].at[id] = hist[n].at[id]
  <2>1. m - 1 = n
    OBVIOUS
  <2>2. Play(hist[n], op, hist[m])
    BY <1>1, <2>1 DEF InStep, Plays
  <2>3. Served(S, hist[n].at[x], op) = c
    <3>1. CASE op.type = "ALLOC"
      BY <3>1 DEF Served
    <3>2. CASE op.type # "ALLOC"
      <4>1. x \in LiveIn(t, n)
        BY <1>1, <3>2 DEF OpLegal
      <4>2. bl[x] = hist[n].at[x]
        BY <4>1 DEF InStep
      <4> QED
        BY <4>2
    <3> QED
      BY <3>1, <3>2
  <2> QED
    BY <2>2, <2>3 DEF Play
<1>4. /\ op.type # "FREE" => r.p = c.p
      /\ op.type = "FREE" => c.p = bl[x]
  BY <1>2, ServedAnswers
<1>5. LiveIn(t, m) = After(L, op)
  BY BooksStep
<1>6. Untouched(h, r.heap, L \ {x}, bl, sz) /\ h.brk <= r.heap.brk
  <2> DEFINE a2 == [id \in Ids |-> IF id = x THEN c.p ELSE bl[id]]
             s2 == [id \in Ids |-> IF id = x THEN op.size ELSE sz[id]]
  <2>1. L \subseteq Ids
    BY DEF LiveIn
  <2>2. \A id \in L \ {x} : a2[id] = bl[id] /\ s2[id] = sz[id]
    BY <2>1
  <2>3. a2[x] = c.p /\ s2[x] = op.size
    BY <1>1
  <2> HIDE DEF a2, s2
  <2>4. Booked(op, c.p, L, bl, sz, a2, s2)
    BY <2>2, <2>3 DEF Booked
  <2> QED
    BY <1>2, <1>3, <2>4, ServedHolds
<1>7. ASSUME NEW bl2, Booked(op, r.p, L, bl, sz, bl2, SizesAt(t, m))
      PROVE  InStep(r.heap, t, m, bl2, hist)
  <2>1. Booked(op, c.p, L, bl, sz, bl2, SizesAt(t, m))
    BY <1>4, <1>7 DEF Booked
  <2>2. Holds(r.heap, hist[m].shape, LiveIn(t, m), bl2, SizesAt(t, m))
    <3>1. PICK z : z = SizesAt(t, m)
      OBVIOUS
    <3>2. Booked(op, c.p, L, bl, sz, bl2, z)
      BY <2>1, <3>1
    <3>3. Holds(r.heap, c.shape, After(L, op), bl2, z)
      BY <1>2, <1>3, <3>2, ServedHolds
    <3> QED
      BY <1>3, <1>5, <3>1, <3>3
  <2>3. ASSUME NEW id \in LiveIn(t, m) PROVE bl2[id] = hist[m].at[id]
    <3>1. CASE id # x
      <4>1. id \in L /\ id \in Ids
        BY <1>5, <3>1 DEF After, LiveIn
      <4>2. bl2[id] = bl[id]
        BY <1>7, <3>1, <4>1 DEF Booked
      <4>3. bl[id] = hist[n].at[id]
        BY <4>1 DEF InStep
      <4> QED
        BY <1>3, <3>1, <4>1, <4>2, <4>3
    <3>2. CASE id = x
      <4>1. op.type # "FREE"
        BY <1>5, <3>2 DEF After
      <4> QED
        BY <1>3, <2>1, <3>2, <4>1 DEF Booked
    <3> QED
      BY <3>1, <3>2
  <2>4. Plays(hist, t, Len(t))
    BY DEF InStep
  <2> QED
    BY <2>2, <2>3, <2>4 DEF InStep
<1>8. op.type \in {"ALLOC", "REALLOC", "FREE"}
  BY <1>1 DEF OpLegal
<1> QED
  BY <1>1, <1>3, <1>4, <1>6, <1>7, <1>8 DEF Advances

(* The ranges of the blocks of L, and the addresses in them.               *)
RangesOf(L, at, sz) == {Extent(at[id], sz[id]) : id \in L}

(* The bytes of their payloads.                                            *)
Covered(L, at, sz) ==
  {a \in Int : \E id \in L : at[id] <= a /\ a < at[id] + sz[id]}

(* add_range accepts every block of this allocator.                        *)
LEMMA NoRangeError ==
  ASSUME NEW h, NEW S, NEW L, NEW at, NEW sz, Holds(h, S, L, at, sz), NEW x \in L
  PROVE  RangeError(RangesOf(L \ {x}, at, sz), h, at[x], sz[x]) = "none"
<1> PICK p : p = at[x]
  OBVIOUS
<1> PICK n : n = sz[x]
  OBVIOUS
<1>1. /\ p \in Int /\ p % 8 = 0 /\ p >= 16 /\ n \in Nat /\ n > 0
      /\ p + n + 8 <= h.brk /\ h.brk \in Int
  BY HoldsIs
<1> PICK R : R = RangesOf(L \ {x}, at, sz)
  OBVIOUS
<1>2. Extent(p, n).lo = p /\ Extent(p, n).hi = p + n - 1
  BY DEF Extent
<1>3. ~ OutsideHeap(h, Extent(p, n))
  BY <1>1, <1>2 DEF OutsideHeap, mem_heap_lo, mem_heap_hi, mem_start_brk
<1>4. ASSUME NEW q \in R PROVE ~ Overlaps(Extent(p, n), q)
  <2>1. PICK y \in L \ {x} : q = Extent(at[y], sz[y])
    BY DEF RangesOf
  <2>2. q.lo = at[y] /\ q.hi = at[y] + sz[y] - 1
    BY <2>1 DEF Extent
  <2>3. at[y] \in Int /\ sz[y] \in Nat
    BY HoldsIs
  <2>4. p + n + 8 <= at[y] \/ at[y] + sz[y] + 8 <= p
    BY HoldsApart
  <2> QED
    BY <1>1, <1>2, <2>2, <2>3, <2>4 DEF Overlaps
<1>5. IS_ALIGNED(p)
  BY <1>1 DEF IS_ALIGNED
<1>6. RangeError(R, h, p, n) = "none"
  BY <1>3, <1>4, <1>5, Zenon DEF RangeError
<1> QED
  BY <1>6

(* add_range adds the range of a new block.                                *)
LEMMA RangesAdd ==
  ASSUME NEW L, NEW x \in L, NEW at, NEW sz, NEW R, R = RangesOf(L \ {x}, at, sz)
  PROVE  add_range(R, at[x], sz[x]) = RangesOf(L, at, sz)
  BY DEF add_range, RangesOf

(* remove_range takes out the range of one block, and no other.            *)
LEMMA RangesRemove ==
  ASSUME NEW h, NEW S, NEW L, NEW at, NEW sz, Holds(h, S, L, at, sz), NEW x \in L
  PROVE  remove_range(RangesOf(L, at, sz), at[x]) = RangesOf(L \ {x}, at, sz)
<1>1. \A y, z \in L : at[y] = at[z] => y = z
  BY DEF Holds
<1>2. \A y \in L : Extent(at[y], sz[y]).lo = at[y]
  BY DEF Extent
<1> QED
  BY <1>1, <1>2 DEF remove_range, RangesOf

(* Only the numbers that are in L count.                                   *)
LEMMA RangesSame ==
  ASSUME NEW L, NEW at, NEW sz, NEW at2, NEW sz2,
         \A id \in L : at2[id] = at[id] /\ sz2[id] = sz[id]
  PROVE  /\ RangesOf(L, at2, sz2) = RangesOf(L, at, sz)
         /\ Covered(L, at2, sz2) = Covered(L, at, sz)
<1>1. RangesOf(L, at2, sz2) = RangesOf(L, at, sz)
  BY DEF RangesOf
<1>2. Covered(L, at2, sz2) = Covered(L, at, sz)
  BY DEF Covered
<1> QED
  BY <1>1, <1>2

(* The payloads fit into the heap, headers and footers aside.              *)
LEMMA CoveredFits ==
  ASSUME NEW h, NEW S, NEW L, NEW at, NEW sz, Holds(h, S, L, at, sz),
         h.brk \in Int, h.brk >= 8
  PROVE  /\ IsFiniteSet(Covered(L, at, sz)) /\ Cardinality(Covered(L, at, sz)) \in Nat
         /\ Cardinality(Covered(L, at, sz)) <= h.brk - 8
<1> PICK C : C = Covered(L, at, sz)
  OBVIOUS
<1> PICK e \in Int : e = h.brk - 1
  OBVIOUS
<1>1. C \subseteq 8 .. e
  <2> SUFFICES ASSUME NEW a \in C PROVE a \in 8 .. e
    OBVIOUS
  <2>1. PICK y \in L : at[y] <= a /\ a < at[y] + sz[y] /\ a \in Int
    BY DEF Covered
  <2>2. at[y] \in Int /\ at[y] >= 16 /\ sz[y] \in Nat /\ at[y] + sz[y] + 8 <= h.brk
    BY HoldsIs
  <2> QED
    BY <2>1, <2>2
<1>2. IsFiniteSet(8 .. e) /\ Cardinality(8 .. e) = IF 8 > e THEN 0 ELSE e - 8 + 1
  BY ONLY 8 \in Int, e \in Int, FS_Interval, Zenon
<1>3. IsFiniteSet(C) /\ Cardinality(C) <= Cardinality(8 .. e)
  BY <1>1, <1>2, FS_Subset
<1>4. Cardinality(C) \in Nat
  BY <1>3, FS_CardinalityType
<1> QED
  BY <1>2, <1>3, <1>4

(* Every block counts for its size.                                        *)
LEMMA CoveredAdds ==
  ASSUME NEW h, NEW S, NEW L, NEW at, NEW sz, Holds(h, S, L, at, sz), NEW x \in L,
         h.brk \in Int, h.brk >= 8
  PROVE  /\ Cardinality(Covered(L, at, sz)) = Cardinality(Covered(L \ {x}, at, sz)) + sz[x]
         /\ Cardinality(Covered(L \ {x}, at, sz)) \in Nat
<1> PICK p : p = at[x]
  OBVIOUS
<1> PICK n : n = sz[x]
  OBVIOUS
<1>1. p \in Int /\ n \in Nat /\ n > 0
  BY HoldsIs
<1> PICK e \in Int : e = p + n - 1
  BY <1>1
<1> PICK C : C = Covered(L, at, sz)
  OBVIOUS
<1> PICK D : D = Covered(L \ {x}, at, sz)
  OBVIOUS
<1>2. C = D \cup (p .. e)
  <2>1. ASSUME NEW a \in C PROVE a \in D \cup (p .. e)
    <3>1. PICK y \in L : at[y] <= a /\ a < at[y] + sz[y] /\ a \in Int
      BY DEF Covered
    <3>2. CASE y = x
      BY <1>1, <3>1, <3>2
    <3>3. CASE y # x
      BY <3>1, <3>3 DEF Covered
    <3> QED
      BY <3>2, <3>3
  <2>2. ASSUME NEW a \in p .. e PROVE a \in C
    <3>1. a \in Int /\ at[x] <= a /\ a < at[x] + sz[x]
      BY <1>1
    <3> QED
      BY <3>1 DEF Covered
  <2>3. D \subseteq C
    BY DEF Covered
  <2> QED
    BY <2>1, <2>2, <2>3
<1>3. D \cap (p .. e) = {}
  <2> SUFFICES ASSUME NEW a \in D, a \in p .. e PROVE FALSE
    OBVIOUS
  <2>1. PICK y \in L \ {x} : at[y] <= a /\ a < at[y] + sz[y] /\ a \in Int
    BY DEF Covered
  <2>2. at[y] \in Int /\ sz[y] \in Nat
    BY HoldsIs
  <2>3. p + n + 8 <= at[y] \/ at[y] + sz[y] + 8 <= p
    BY HoldsApart
  <2> QED
    BY <1>1, <2>1, <2>2, <2>3
<1> PICK T : T = p .. e
  OBVIOUS
<1>4. IsFiniteSet(T) /\ Cardinality(T) = n
  <2>1. IsFiniteSet(p .. e) /\ Cardinality(p .. e) = IF p > e THEN 0 ELSE e - p + 1
    BY <1>1, FS_Interval, Zenon
  <2>2. PICK k : k = Cardinality(p .. e)
    OBVIOUS
  <2>3. k = n
    BY <1>1, <2>1, <2>2
  <2> QED
    BY <2>1, <2>2, <2>3
<1>5. IsFiniteSet(C)
  BY CoveredFits
<1>6. IsFiniteSet(D) /\ Cardinality(D) \in Nat
  <2>1. D \subseteq C
    BY <1>2
  <2>2. IsFiniteSet(D)
    BY <1>5, <2>1, FS_Subset
  <2> QED
    BY <2>2, FS_CardinalityType
<1>7. Cardinality(D \cup T) = Cardinality(D) + Cardinality(T) - Cardinality(D \cap T)
  BY ONLY <1>4, <1>6, FS_Union, Zenon
<1>8. Cardinality({}) = 0
  BY FS_EmptySet
<1>9. C = D \cup T /\ D \cap T = {}
  BY <1>2, <1>3
<1>10. Cardinality(C) = Cardinality(D) + n - 0
  BY <1>4, <1>7, <1>8, <1>9
<1> QED
  BY <1>1, <1>6, <1>10

(* What a live block holds after the first pass has filled it.             *)
LEMMA FillIs ==
  ASSUME NEW id \in Nat
  PROVE  /\ Fill(id) \in Int /\ LowByte(id) \in 0 .. 255
         /\ LowByte(id) < 128 => ReadsBack(Fill(id), id)
<1>1. LowByte(id) \in 0 .. 255
  BY DEF LowByte
<1> PICK b \in 0 .. 255 : b = LowByte(id)
  BY <1>1
<1>2. b * 65793 + (IF b < 128 THEN b ELSE b - 256) * 16777216 \in Int
  OBVIOUS
<1>3. Fill(id) = b * 65793 + (IF b < 128 THEN b ELSE b - 256) * 16777216
  BY DEF Fill
<1> QED
  BY <1>1, <1>2, <1>3 DEF ReadsBack

(* The books agree with the trace t after n requests.                      *)
SizesKept(t, n, bs) == \A id \in LiveIn(t, n) : bs[id] = SizeIn(t, n, id)

(* Every block of L holds its number.                                      *)
Marks(h, L, bl, bs) ==
  \A id \in L : \A a \in Span(bl[id], bs[id]) : GET(h, a) = Fill(id)

(* The first pass has come to the end of the trace t.                      *)
Checked(h, t, bl, bs, R) ==
  /\ TraceOK(t) /\ \E hist : InStep(h, t, Len(t), bl, hist)
  /\ SizesKept(t, Len(t), bs)
  /\ R = RangesOf(LiveIn(t, Len(t)), bl, bs)
  /\ Marks(h, LiveIn(t, Len(t)), bl, bs)

(* Live blocks are blocks.                                                 *)
LEMMA LiveIsIds ==
  ASSUME NEW t, NEW n
  PROVE  LiveIn(t, n) \subseteq Ids
  BY DEF LiveIn

(* The heap of any moment of a pass.                                       *)
LEMMA InStepHeap ==
  ASSUME NEW h, NEW t, NEW n, NEW bl, NEW hist, InStep(h, t, n, bl, hist)
  PROVE  /\ h \in Heaps /\ 8 <= h.brk /\ h.brk <= 8 + MaxHeap /\ h.brk \in Int
         /\ \A id \in LiveIn(t, n) : bl[id] \in Words
<1>1. PICK S : Holds(h, S, LiveIn(t, n), bl, SizesAt(t, n))
  BY DEF InStep
<1>2. Rested(h, S)
  BY <1>1 DEF Holds
<1> QED
  BY <1>1, <1>2, RestedHeap, HoldsIs

(* The books that agree with the trace hold the heap.                      *)
LEMMA BooksHold ==
  ASSUME NEW h, NEW t, NEW n, NEW bl, NEW hist, InStep(h, t, n, bl, hist),
         NEW bs, SizesKept(t, n, bs)
  PROVE  Holds(h, hist[n].shape, LiveIn(t, n), bl, bs)
<1>1. Holds(h, hist[n].shape, LiveIn(t, n), bl, SizesAt(t, n))
  BY DEF InStep
<1>2. \A id \in LiveIn(t, n) : bs[id] = SizesAt(t, n)[id]
  BY LiveIsIds DEF SizesAt, SizesKept
<1> QED
  BY <1>1, <1>2, HoldsSame

(* An entry for each block, after a request has brought its block a new one. *)
Moved(op, L, new, f, f2) ==
  /\ \A id \in L \ {op.index} : f2[id] = f[id]
  /\ op.type # "FREE" => f2[op.index] = new

(* The books of the next request.                                          *)
LEMMA BooksNext ==
  ASSUME NEW t, TraceOK(t), NEW n \in Nat, n < Len(t), NEW m, m = n + 1,
         NEW op, op = t[m], op.index \in Ids,
         NEW p, NEW bl, NEW bl2, Moved(op, LiveIn(t, n), p, bl, bl2),
         NEW bs, SizesKept(t, n, bs), NEW bs2, Moved(op, LiveIn(t, n), op.size, bs, bs2)
  PROVE  /\ Booked(op, p, LiveIn(t, n), bl, SizesAt(t, n), bl2, SizesAt(t, m))
         /\ SizesKept(t, m, bs2)
<1> PICK x : x = op.index
  OBVIOUS
<1>1. /\ LiveIn(t, m) = After(LiveIn(t, n), op)
      /\ \A id \in LiveIn(t, n) \ {x} : SizeIn(t, m, id) = SizeIn(t, n, id)
      /\ SizeIn(t, m, x) = op.size
  BY BooksStep
<1>2. \A id \in LiveIn(t, n) \ {x} :
        SizesAt(t, n)[id] = SizeIn(t, n, id) /\ SizesAt(t, m)[id] = SizeIn(t, m, id)
  BY LiveIsIds DEF SizesAt
<1>3. SizesAt(t, m)[x] = op.size
  BY <1>1 DEF SizesAt
<1>4. Booked(op, p, LiveIn(t, n), bl, SizesAt(t, n), bl2, SizesAt(t, m))
  BY <1>1, <1>2, <1>3 DEF Booked, Moved
<1>5. SizesKept(t, m, bs2)
  <2> SUFFICES ASSUME NEW id \in LiveIn(t, m) PROVE bs2[id] = SizeIn(t, m, id)
    BY DEF SizesKept
  <2>1. CASE id = x
    BY <1>1, <2>1 DEF After, Moved
  <2>2. CASE id # x
    BY <1>1, <2>2 DEF After, SizesKept, Moved
  <2> QED
    BY <2>1, <2>2
<1> QED
  BY <1>4, <1>5

(* The same, when the size of the block is left alone.                     *)
LEMMA BooksMove ==
  ASSUME NEW t, TraceOK(t), NEW n \in Nat, n < Len(t), NEW m, m = n + 1,
         NEW op, op = t[m], op.index \in Ids,
         NEW p, NEW bl, NEW bl2, Moved(op, LiveIn(t, n), p, bl, bl2)
  PROVE  Booked(op, p, LiveIn(t, n), bl, SizesAt(t, n), bl2, SizesAt(t, m))
<1> PICK bs : bs = SizesAt(t, n)
  OBVIOUS
<1> PICK bs2 : bs2 = [id \in Ids |-> IF id = op.index THEN op.size ELSE bs[id]]
  OBVIOUS
<1>1. SizesKept(t, n, bs)
  BY LiveIsIds DEF SizesKept, SizesAt
<1>2. Moved(op, LiveIn(t, n), op.size, bs, bs2)
  BY LiveIsIds DEF Moved
<1> QED
  BY <1>1, <1>2, BooksNext

(* The driver's entry for block x is set to v.                             *)
SetTo(f, x, v, f2) == (\A id \in Ids \ {x} : f2[id] = f[id]) /\ f2[x] = v

(* The range of the block that a request replaces is taken out.            *)
Lifted(op, bl, R, R0) ==
  R0 = IF op.type = "ALLOC" THEN R ELSE remove_range(R, bl[op.index])

(* The driver finds nothing wrong with the block it is given, and has its  *)
(* books right when it has filled it.                                      *)
Granted(h, t, u, bl, bs, R0, x, size, r, bl2, bs2, g) ==
  /\ RangeError(R0, r.heap, r.p, size) = "none"
  /\ Checked(g, u, bl2, bs2, add_range(R0, r.p, size))
  /\ Untouched(h, g, LiveIn(t, Len(t)) \ {x}, bl, bs)
  /\ r.p \in Words
  /\ r.heap \in Heaps /\ 8 <= r.heap.brk /\ r.heap.brk <= 8 + MaxHeap

(* In the first pass the allocator grants a request.                       *)
LEMMA ValidGranted ==
  ASSUME NEW h, NEW t, NEW bl, NEW bs, NEW R, Checked(h, t, bl, bs, R),
         NEW op, NEW u, Grows(t, op, u), op.type # "FREE", NEW x, x = op.index,
         NEW r, r = Answered(h, bl[x], op), r.p # 0,
         NEW R0, Lifted(op, bl, R, R0),
         NEW bl2, SetTo(bl, x, r.p, bl2), NEW bs2, SetTo(bs, x, op.size, bs2),
         NEW g, g = memset(r.heap, r.p, Fill(x), op.size)
  PROVE  Granted(h, t, u, bl, bs, R0, x, op.size, r, bl2, bs2, g)
<1>00. /\ R0 = IF op.type = "ALLOC" THEN R ELSE remove_range(R, bl[x])
       /\ \A id \in Ids \ {x} : bl2[id] = bl[id] /\ bs2[id] = bs[id]
       /\ bl2[x] = r.p /\ bs2[x] = op.size
  BY DEF SetTo, Lifted
<1>0. PICK hist : InStep(h, t, Len(t), bl, hist)
  BY DEF Checked
<1> PICK n : n = Len(t)
  OBVIOUS
<1> PICK m : m = n + 1
  OBVIOUS
<1> PICK L : L = LiveIn(t, n)
  OBVIOUS
<1>1. /\ TraceOK(t) /\ n \in Nat /\ SizesKept(t, n, bs) /\ R = RangesOf(L, bl, bs)
      /\ Marks(h, L, bl, bs)
  BY TraceIs DEF Checked
<1>2. op \in Ops /\ OpLegal(op, L) /\ x \in Ids /\ op.size \in Sizes /\ x \in Nat
  BY DriverAssumption DEF Grows, OpLegal
<1>3. /\ TraceOK(u) /\ Len(u) = m /\ u[m] = op /\ LiveIn(u, n) = L
      /\ \A k \in 1 .. n : u[k] = t[k]
  <2>1. /\ TraceOK(u) /\ Len(u) = Len(t) + 1 /\ u[Len(t) + 1] = op
        /\ \A k \in 1 .. Len(t) : u[k] = t[k]
        /\ \A k \in 0 .. Len(t) : LiveIn(u, k) = LiveIn(t, k)
    BY <1>1, TraceGrows
  <2>2. n \in 0 .. n
    BY <1>1
  <2> QED
    BY <2>1, <2>2
<1>4. Holds(h, hist[n].shape, L, bl, bs)
  BY <1>0, <1>1, BooksHold
<1> PICK S : S = hist[n].shape
  OBVIOUS
<1> PICK c : c = Served(S, bl[x], op)
  OBVIOUS
<1>5. c.p # 0 /\ r.p = c.p
  BY <1>2, <1>4, ServedAnswers
<1>6. PICK more : InStep(h, u, n, bl, more)
  BY <1>0, <1>1, <1>5, StaysInStep
<1>7. SizesKept(u, n, bs)
  <2>1. \A k \in 1 .. n : t[k].index \in Ids
    BY <1>1, TraceIs
  <2>2. \A id \in LiveIn(t, n) : SizeIn(u, n, id) = SizeIn(t, n, id)
    BY <1>1, <1>3, <2>1, SizeSame
  <2> QED
    BY <1>1, <1>3, <2>2 DEF SizesKept
<1>8. /\ Booked(op, r.p, L, bl, SizesAt(u, n), bl2, SizesAt(u, m))
      /\ SizesKept(u, m, bs2)
  <2>1. n < Len(u)
    BY <1>1, <1>3
  <2>2. Moved(op, L, r.p, bl, bl2) /\ Moved(op, L, op.size, bs, bs2)
    BY <1>00, LiveIsIds DEF Moved
  <2>3. /\ Moved(op, LiveIn(u, n), r.p, bl, bl2) /\ Moved(op, LiveIn(u, n), op.size, bs, bs2)
        /\ op.index \in Ids
    BY <1>2, <1>3, <2>2
  <2>4. PICK p : p = r.p
    OBVIOUS
  <2>5. /\ Booked(op, p, LiveIn(u, n), bl, SizesAt(u, n), bl2, SizesAt(u, m))
        /\ SizesKept(u, m, bs2)
    BY <1>1, <1>3, <1>7, <2>1, <2>3, <2>4, BooksNext
  <2> QED
    BY <1>3, <2>4, <2>5
<1>9. /\ InStep(r.heap, u, m, bl2, more) /\ h.brk <= r.heap.brk
      /\ Untouched(h, r.heap, L \ {x}, bl, SizesAt(u, n))
  <2>1. n < Len(u)
    BY <1>1, <1>3
  <2>2. Advances(h, u, n, m, bl, more, op, x, r)
    BY <1>1, <1>3, <1>6, <2>1, NextInStep
  <2> QED
    BY <1>3, <1>8, <2>2 DEF Advances
<1>10. Untouched(h, r.heap, L \ {x}, bl, bs)
  <2>1. \A id \in L : bs[id] = SizesAt(u, n)[id]
    BY <1>3, <1>7, LiveIsIds DEF SizesKept, SizesAt
  <2> QED
    BY <1>9, <2>1 DEF Untouched
<1> PICK M : M = LiveIn(u, m)
  OBVIOUS
<1>11. M = L \cup {x} /\ x \in M /\ M \ {x} = L \ {x}
  <2>1. n < Len(u)
    BY <1>1, <1>3
  <2>2. M = After(L, op)
    BY <1>1, <1>3, <2>1, BooksStep
  <2> QED
    BY <2>2 DEF After
<1>12. PICK W : W = more[m].shape /\ Holds(r.heap, W, M, bl2, bs2)
  BY <1>8, <1>9, BooksHold
<1>13. R0 = RangesOf(M \ {x}, bl2, bs2)
  <2>1. RangesOf(L \ {x}, bl2, bs2) = RangesOf(L \ {x}, bl, bs)
    <3>1. \A id \in L \ {x} : bl2[id] = bl[id] /\ bs2[id] = bs[id]
      BY <1>00, LiveIsIds
    <3> QED
      BY <3>1, RangesSame
  <2>2. CASE op.type = "ALLOC"
    <3>1. L \ {x} = L
      BY <1>2, <2>2 DEF OpLegal
    <3> QED
      BY <1>00, <1>1, <1>11, <2>1, <2>2, <3>1
  <2>3. CASE op.type # "ALLOC"
    <3>1. x \in L
      BY <1>2, <2>3 DEF OpLegal
    <3>2. PICK V : Holds(h, V, L, bl, bs)
      BY <1>4
    <3>3. remove_range(RangesOf(L, bl, bs), bl[x]) = RangesOf(L \ {x}, bl, bs)
      BY ONLY <3>1, <3>2, RangesRemove
    <3> QED
      BY <1>00, <1>1, <1>11, <2>1, <2>3, <3>3
  <2> QED
    BY <2>2, <2>3
<1>14. RangeError(R0, r.heap, r.p, op.size) = "none"
  <2>1. RangeError(RangesOf(M \ {x}, bl2, bs2), r.heap, bl2[x], bs2[x]) = "none"
    BY ONLY <1>11, <1>12, NoRangeError
  <2> QED
    BY <1>00, <1>13, <2>1
<1>15. add_range(R0, r.p, op.size) = RangesOf(M, bl2, bs2)
  <2>1. add_range(R0, bl2[x], bs2[x]) = RangesOf(M, bl2, bs2)
    BY ONLY <1>11, <1>13, RangesAdd
  <2> QED
    BY <1>00, <2>1
<1>16. Fill(x) \in Int
  BY <1>2, FillIs
<1>17. /\ Holds(g, W, M, bl2, bs2) /\ Untouched(r.heap, g, M \ {x}, bl2, bs2)
       /\ \A a \in Span(bl2[x], bs2[x]) : GET(g, a) = Fill(x)
  <2>1. PICK v \in Int : v = Fill(x)
    BY <1>16
  <2>2. PICK f : f = r.heap
    OBVIOUS
  <2>3. g = memset(f, bl2[x], v, bs2[x])
    BY <1>00, <2>1, <2>2
  <2>4. x \in M /\ Holds(f, W, M, bl2, bs2)
    BY <1>11, <1>12, <2>2
  <2>5. FillsOne(f, g, W, M, bl2, bs2, x, v)
    BY ONLY <2>1, <2>3, <2>4, FilledHolds
  <2> QED
    BY <1>00, <2>1, <2>2, <2>5 DEF FillsOne
<1>18. InStep(g, u, m, bl2, more)
  <2>1. Holds(g, W, M, bl2, SizesAt(u, m))
    <3>1. \A id \in M : bs2[id] = SizesAt(u, m)[id]
      BY <1>8, LiveIsIds DEF SizesKept, SizesAt
    <3> QED
      BY <1>17, <3>1, HoldsSame
  <2> QED
    BY <1>9, <1>12, <2>1 DEF InStep
<1>19. Untouched(h, g, L \ {x}, bl, bs)
  <2>1. \A id \in L \ {x} : bl2[id] = bl[id] /\ bs2[id] = bs[id]
    BY <1>00, LiveIsIds
  <2> QED
    BY <1>10, <1>11, <1>17, <2>1 DEF Untouched
<1>20. Marks(g, M, bl2, bs2)
  <2>1. \A id \in L \ {x} : bl2[id] = bl[id] /\ bs2[id] = bs[id]
    BY <1>00, LiveIsIds
  <2>2. ASSUME NEW id \in L \ {x}, NEW a \in Span(bl2[id], bs2[id]) PROVE GET(g, a) = Fill(id)
    <3>1. a \in Span(bl[id], bs[id])
      BY <2>1
    <3> QED
      BY <1>1, <1>19, <3>1 DEF Untouched, Marks
  <2> QED
    BY <1>11, <1>17, <2>2 DEF Marks
<1>21. Checked(g, u, bl2, bs2, add_range(R0, r.p, op.size))
  BY <1>3, <1>8, <1>15, <1>18, <1>20 DEF Checked
<1>22. r.p \in Words
  BY <1>00, <1>11, <1>12, HoldsIs
<1>24. r.heap \in Heaps /\ 8 <= r.heap.brk /\ r.heap.brk <= 8 + MaxHeap
  BY <1>9, InStepHeap
<1> QED
  BY <1>14, <1>19, <1>21, <1>22, <1>24 DEF Granted

(* The comparison after realloc finds the block as it was filled, unless   *)
(* the number reads back as another.                                       *)
LEMMA ValidCopies ==
  ASSUME NEW h, NEW t, NEW bl, NEW bs, NEW R, Checked(h, t, bl, bs, R),
         NEW op, NEW u, Grows(t, op, u), op.type = "REALLOC", NEW x, x = op.index,
         NEW r, r = Answered(h, bl[x], op), r.p # 0,
         NEW k \in Int, k <= op.size, k <= bs[x], LowByte(x) < 128,
         NEW a \in Span(r.p, k)
  PROVE  ReadsBack(GET(r.heap, a), x)
<1>0. PICK hist : InStep(h, t, Len(t), bl, hist)
  BY DEF Checked
<1> PICK L : L = LiveIn(t, Len(t))
  OBVIOUS
<1> PICK S : S = hist[Len(t)].shape
  OBVIOUS
<1>1. Holds(h, S, L, bl, bs) /\ Marks(h, L, bl, bs)
  BY <1>0, BooksHold DEF Checked
<1>2. OpLegal(op, L) /\ x \in L /\ x \in Nat /\ op.size \in Nat
  BY DriverAssumption, SizesAre DEF Grows, OpLegal
<1> PICK c : c = Served(S, bl[x], op)
  OBVIOUS
<1>3. c.p # 0 /\ r.p = c.p
  BY <1>1, <1>2, ServedAnswers
<1>4. bs[x] \in Nat
  BY <1>1, <1>2, HoldsIs
<1>5. CASE k \in Nat
  <2> PICK d : d = bl[x] + (a - c.p)
    OBVIOUS
  <2>0. a \in Span(c.p, k)
    BY <1>3
  <2>1. GET(r.heap, a) = GET(h, d) /\ d \in Span(bl[x], bs[x])
    <3>1. k <= op.size /\ k <= bs[x] /\ k \in Nat
      BY <1>5
    <3>2. Holds(h, S, L, bl, bs) /\ OpLegal(op, L) /\ op.type = "REALLOC"
      BY <1>1, <1>2
    <3>3. /\ GET(r.heap, a) = GET(h, bl[x] + (a - c.p))
          /\ bl[x] + (a - c.p) \in Span(bl[x], bs[x])
      BY ONLY <1>3, <2>0, <3>1, <3>2, x = op.index, r = Answered(h, bl[x], op),
              c = Served(S, bl[x], op), ServedCopies
    <3> QED
      BY <3>3
  <2>2. GET(r.heap, a) = Fill(x)
    BY <1>1, <1>2, <2>1 DEF Marks
  <2> QED
    BY <1>2, <2>2, FillIs
<1>6. CASE k \notin Nat
  <2>1. k < 0
    BY <1>6
  <2>2. r.p \in Int
    <3>4. PICK b2 : b2 = [id \in Ids |-> IF id = x THEN c.p ELSE bl[id]]
      OBVIOUS
    <3>5. PICK s2 : s2 = [id \in Ids |-> IF id = x THEN op.size ELSE bs[id]]
      OBVIOUS
    <3>6. Booked(op, c.p, L, bl, bs, b2, s2)
      BY <1>2, <3>4, <3>5, LiveIsIds DEF Booked
    <3>7. Holds(r.heap, c.shape, After(L, op), b2, s2)
      BY <1>1, <1>2, <1>3, <3>6, ServedHolds
    <3>8. b2[x] \in Int
      BY <1>2, <3>7, HoldsIs DEF After
    <3> QED
      BY <1>2, <1>3, <3>4, <3>8, LiveIsIds
  <2>3. a \in Int /\ r.p <= a /\ a < r.p + k
    BY WordsAreInt DEF Span
  <2> QED
    BY <2>1, <2>2, <2>3
<1> QED
  BY <1>5, <1>6

(* In the first pass a block is freed.                                     *)
LEMMA ValidFreed ==
  ASSUME NEW h, NEW t, NEW bl, NEW bs, NEW R, Checked(h, t, bl, bs, R),
         NEW op, NEW u, Grows(t, op, u), op.type = "FREE", NEW x, x = op.index,
         NEW g, g = mm_free(h, bl[x])
  PROVE  /\ Checked(g, u, bl, bs, remove_range(R, bl[x]))
         /\ Untouched(h, g, LiveIn(t, Len(t)) \ {x}, bl, bs)
         /\ h.brk <= g.brk
<1>0. PICK hist : InStep(h, t, Len(t), bl, hist)
  BY DEF Checked
<1> PICK n : n = Len(t)
  OBVIOUS
<1> PICK m : m = n + 1
  OBVIOUS
<1> PICK L : L = LiveIn(t, n)
  OBVIOUS
<1> PICK r : r = Answered(h, bl[x], op)
  OBVIOUS
<1>1. /\ TraceOK(t) /\ n \in Nat /\ SizesKept(t, n, bs) /\ R = RangesOf(L, bl, bs)
      /\ Marks(h, L, bl, bs) /\ r.heap = g
  BY TraceIs DEF Checked, Answered
<1>2. op \in Ops /\ OpLegal(op, L) /\ x \in Ids /\ x \in L
  BY DEF Grows, OpLegal
<1>3. /\ TraceOK(u) /\ Len(u) = m /\ u[m] = op /\ LiveIn(u, n) = L
      /\ \A k \in 1 .. n : u[k] = t[k]
  <2>1. /\ TraceOK(u) /\ Len(u) = Len(t) + 1 /\ u[Len(t) + 1] = op
        /\ \A k \in 1 .. Len(t) : u[k] = t[k]
        /\ \A k \in 0 .. Len(t) : LiveIn(u, k) = LiveIn(t, k)
    BY <1>1, TraceGrows
  <2>2. n \in 0 .. n
    BY <1>1
  <2> QED
    BY <2>1, <2>2
<1>4. PICK S : S = hist[n].shape /\ Holds(h, S, L, bl, bs)
  BY <1>0, <1>1, BooksHold
<1> PICK c : c = Served(S, bl[x], op)
  OBVIOUS
<1>5. c.p # 0
  BY <1>2, <1>4, ServedAnswers
<1>6. PICK more : InStep(h, u, n, bl, more)
  BY <1>0, <1>1, <1>4, <1>5, StaysInStep
<1>7. SizesKept(u, n, bs)
  <2>1. \A k \in 1 .. n : t[k].index \in Ids
    BY <1>1, TraceIs
  <2>2. \A id \in LiveIn(t, n) : SizeIn(u, n, id) = SizeIn(t, n, id)
    BY <1>1, <1>3, <2>1, SizeSame
  <2> QED
    BY <1>1, <1>3, <2>2 DEF SizesKept
<1>8. n < Len(u) /\ n \in Nat
  BY <1>1, <1>3
<1>9. /\ Booked(op, r.p, LiveIn(u, n), bl, SizesAt(u, n), bl, SizesAt(u, m))
      /\ SizesKept(u, m, bs)
  <2>1. PICK p : p = r.p
    OBVIOUS
  <2>2. Moved(op, LiveIn(u, n), p, bl, bl) /\ Moved(op, LiveIn(u, n), op.size, bs, bs)
    BY DEF Moved
  <2>3. /\ Booked(op, p, LiveIn(u, n), bl, SizesAt(u, n), bl, SizesAt(u, m))
        /\ SizesKept(u, m, bs)
    BY <1>2, <1>3, <1>7, <1>8, <2>2, BooksNext
  <2> QED
    BY <2>1, <2>3
<1>10. /\ InStep(r.heap, u, m, bl, more) /\ h.brk <= r.heap.brk
       /\ Untouched(h, r.heap, LiveIn(u, n) \ {x}, bl, SizesAt(u, n))
  <2>1. Advances(h, u, n, m, bl, more, op, x, r)
    BY <1>3, <1>6, <1>8, NextInStep
  <2> QED
    BY <1>9, <2>1 DEF Advances
<1>11. Untouched(h, g, L \ {x}, bl, bs)
  <2>1. \A id \in L : bs[id] = SizesAt(u, n)[id]
    BY <1>3, <1>7, LiveIsIds DEF SizesKept, SizesAt
  <2> QED
    BY <1>1, <1>3, <1>10, <2>1 DEF Untouched
<1>12. LiveIn(u, m) = L \ {x}
  <2>1. LiveIn(u, m) = After(LiveIn(u, n), op)
    BY <1>3, <1>8, BooksStep
  <2> QED
    BY <1>3, <2>1 DEF After
<1>13. remove_range(R, bl[x]) = RangesOf(L \ {x}, bl, bs)
  <2>1. remove_range(RangesOf(L, bl, bs), bl[x]) = RangesOf(L \ {x}, bl, bs)
    BY ONLY <1>2, <1>4, RangesRemove
  <2> QED
    BY <1>1, <2>1
<1>14. Marks(g, L \ {x}, bl, bs)
  BY <1>1, <1>11 DEF Marks, Untouched
<1>15. Checked(g, u, bl, bs, remove_range(R, bl[x]))
  BY <1>1, <1>3, <1>9, <1>10, <1>12, <1>13, <1>14 DEF Checked
<1> QED
  BY <1>1, <1>10, <1>11, <1>15

(* The books of the second pass, after n requests: the high-water mark     *)
(* never exceeds the heap.                                                 *)
Measured(h, t, n, bl, bs, tot, high) ==
  /\ SizesKept(t, n, bs)
  /\ tot = Cardinality(Covered(LiveIn(t, n), bl, bs))
  /\ high \in Nat /\ tot <= high /\ high <= h.brk - 8

(* The totals after a request.                                             *)
Counted(change, tot, high, tot2, high2) ==
  tot2 = tot + change /\ high2 = IF tot2 > high THEN tot2 ELSE high

(* A request leaves the books of the second pass right.                    *)
LEMMA MeasuredStep ==
  ASSUME NEW h, NEW t, TraceOK(t), NEW n \in Nat, n < Len(t), NEW m, m = n + 1,
         NEW bl, NEW hist, InStep(h, t, n, bl, hist),
         NEW bs, NEW tot, NEW high, Measured(h, t, n, bl, bs, tot, high),
         NEW op, op = t[m], NEW x, x = op.index, NEW r, r = Answered(h, bl[x], op),
         NEW bl2, Moved(op, LiveIn(t, n), r.p, bl, bl2),
         NEW bs2, Moved(op, LiveIn(t, n), op.size, bs, bs2),
         InStep(r.heap, t, m, bl2, hist), h.brk <= r.heap.brk,
         NEW tot2, NEW high2, Counted(Change(op, bs[x]), tot, high, tot2, high2)
  PROVE  Measured(r.heap, t, m, bl2, bs2, tot2, high2) /\ tot2 \in Nat
<1>0. /\ tot2 = tot + Change(op, bs[x])
      /\ high2 = IF tot2 > high THEN tot2 ELSE high
  BY DEF Counted
<1> PICK L : L = LiveIn(t, n)
  OBVIOUS
<1> PICK M : M = LiveIn(t, m)
  OBVIOUS
<1>1. op \in Ops /\ OpLegal(op, L) /\ x \in Ids
  <2>1. Len(t) \in Nat
    BY TraceIs
  <2>2. m \in 1 .. Len(t) /\ m - 1 = n
    BY <2>1
  <2> QED
    BY <2>2, TraceIs
<1>2. M = After(L, op)
  BY BooksStep
<1>3. SizesKept(t, m, bs2)
  <2>1. PICK p : p = r.p
    OBVIOUS
  <2>2. Moved(op, LiveIn(t, n), p, bl, bl2) /\ op.index \in Ids /\ SizesKept(t, n, bs)
    BY <1>1, <2>1 DEF Measured
  <2> QED
    BY <2>2, BooksNext
<1>4. PICK S : Holds(h, S, L, bl, bs)
  BY BooksHold DEF Measured
<1>5. PICK W : Holds(r.heap, W, M, bl2, bs2)
  BY <1>3, BooksHold
<1>6. /\ h.brk \in Int /\ r.heap.brk \in Int /\ 8 <= h.brk /\ 8 <= r.heap.brk
  BY InStepHeap
<1>7. /\ Cardinality(Covered(M, bl2, bs2)) \in Nat
      /\ Cardinality(Covered(M, bl2, bs2)) <= r.heap.brk - 8
  BY <1>5, <1>6, CoveredFits
<1> PICK rest : rest = Cardinality(Covered(L \ {x}, bl, bs))
  OBVIOUS
<1>8. Covered(L \ {x}, bl2, bs2) = Covered(L \ {x}, bl, bs)
  <2>1. \A id \in L \ {x} : bl2[id] = bl[id] /\ bs2[id] = bs[id]
    BY DEF Moved
  <2> QED
    BY <2>1, RangesSame, SMTT(60)
<1>9. x \in L => /\ Cardinality(Covered(L, bl, bs)) = rest + bs[x] /\ rest \in Nat
                 /\ bs[x] \in Nat
  <2> SUFFICES ASSUME x \in L
               PROVE  /\ Cardinality(Covered(L, bl, bs)) = rest + bs[x] /\ rest \in Nat
                      /\ bs[x] \in Nat
    OBVIOUS
  <2>1. bs[x] \in Nat
    BY <1>4, HoldsIs
  <2>2. /\ Cardinality(Covered(L, bl, bs)) = Cardinality(Covered(L \ {x}, bl, bs)) + bs[x]
        /\ Cardinality(Covered(L \ {x}, bl, bs)) \in Nat
    BY ONLY <1>4, <1>6, x \in L, CoveredAdds
  <2> QED
    BY <2>1, <2>2
<1>10. x \in M => /\ Cardinality(Covered(M, bl2, bs2))
                       = Cardinality(Covered(M \ {x}, bl2, bs2)) + bs2[x]
                  /\ Cardinality(Covered(M \ {x}, bl2, bs2)) \in Nat
                  /\ bs2[x] \in Nat
  <2> SUFFICES ASSUME x \in M
               PROVE  /\ Cardinality(Covered(M, bl2, bs2))
                           = Cardinality(Covered(M \ {x}, bl2, bs2)) + bs2[x]
                      /\ Cardinality(Covered(M \ {x}, bl2, bs2)) \in Nat
                      /\ bs2[x] \in Nat
    OBVIOUS
  <2>1. bs2[x] \in Nat
    BY <1>5, HoldsIs
  <2>2. PICK f : f = r.heap
    OBVIOUS
  <2>3. /\ Cardinality(Covered(M, bl2, bs2))
             = Cardinality(Covered(M \ {x}, bl2, bs2)) + bs2[x]
        /\ Cardinality(Covered(M \ {x}, bl2, bs2)) \in Nat
    <3>1. Holds(f, W, M, bl2, bs2) /\ f.brk \in Int /\ f.brk >= 8
      BY <1>5, <1>6, <2>2
    <3> QED
      BY ONLY <3>1, x \in M, CoveredAdds
  <2> QED
    BY <2>1, <2>3
<1>11. tot2 = Cardinality(Covered(M, bl2, bs2))
  <2>1. CASE op.type = "ALLOC"
    <3>1. x \notin L /\ L \ {x} = L /\ M = L \cup {x} /\ M \ {x} = L \ {x} /\ x \in M
      BY <1>1, <1>2, <2>1 DEF OpLegal, After
    <3>2. Change(op, bs[x]) = op.size /\ bs2[x] = op.size
      BY <2>1 DEF Change, Moved
    <3>3. tot = rest
      BY <3>1 DEF Measured
    <3>4. Cardinality(Covered(M, bl2, bs2)) = rest + bs2[x] /\ rest \in Nat /\ bs2[x] \in Nat
      BY <1>8, <1>10, <3>1
    <3> QED
      BY <1>0, <3>2, <3>3, <3>4
  <2>2. CASE op.type = "REALLOC"
    <3>1. x \in L /\ M = L /\ x \in M
      BY <1>1, <1>2, <2>2 DEF OpLegal, After
    <3>2. Change(op, bs[x]) = op.size - bs[x] /\ bs2[x] = op.size
      BY <2>2 DEF Change, Moved
    <3>3. tot = rest + bs[x] /\ rest \in Nat /\ bs[x] \in Nat
      BY <1>9, <3>1 DEF Measured
    <3>4. Cardinality(Covered(M, bl2, bs2)) = rest + bs2[x] /\ bs2[x] \in Nat
      BY <1>8, <1>10, <3>1
    <3> QED
      BY <1>0, <3>2, <3>3, <3>4
  <2>3. CASE op.type = "FREE"
    <3>1. x \in L /\ M = L \ {x}
      BY <1>1, <1>2, <2>3 DEF OpLegal, After
    <3>2. Change(op, bs[x]) = -bs[x]
      BY <2>3 DEF Change
    <3>3. tot = rest + bs[x] /\ rest \in Nat /\ bs[x] \in Nat
      BY <1>9, <3>1 DEF Measured
    <3>4. Cardinality(Covered(M, bl2, bs2)) = rest
      BY <1>8, <3>1
    <3> QED
      BY <1>0, <3>2, <3>3, <3>4
  <2> QED
    BY <1>1, <2>1, <2>2, <2>3 DEF OpLegal
<1>12. /\ tot2 \in Nat /\ high2 \in Nat /\ tot2 <= high2 /\ high2 <= r.heap.brk - 8
  <2>1. high \in Nat /\ high <= h.brk - 8
    BY DEF Measured
  <2> QED
    BY <1>0, <1>6, <1>7, <1>11, <2>1
<1> QED
  BY <1>3, <1>11, <1>12 DEF Measured

(* A pass begins: mm_init has succeeded, and no block is there.            *)
LEMMA StartsInStep ==
  ASSUME NEW h, Rested(h, Inited.shape), Used(Inited.shape) = {},
         NEW t, NEW bl, NEW hist, Plays(hist, t, Len(t))
  PROVE  /\ InStep(h, t, 0, bl, hist)
         /\ \A bs : SizesKept(t, 0, bs) /\ RangesOf(LiveIn(t, 0), bl, bs) = {}
                    /\ Marks(h, LiveIn(t, 0), bl, bs) /\ Measured(h, t, 0, bl, bs, 0, 0)
<1>1. LiveIn(t, 0) = {}
  BY LiveZero
<1>2. hist[0].shape = Inited.shape
  BY DEF Plays
<1>3. Holds(h, Inited.shape, {}, bl, SizesAt(t, 0))
  BY DEF Holds
<1>4. InStep(h, t, 0, bl, hist)
  BY <1>1, <1>2, <1>3 DEF InStep
<1>5. h.brk >= 8 /\ h.brk \in Int
  BY RestedHeap
<1>6. ASSUME NEW bs
      PROVE  /\ SizesKept(t, 0, bs) /\ RangesOf(LiveIn(t, 0), bl, bs) = {}
             /\ Marks(h, LiveIn(t, 0), bl, bs) /\ Measured(h, t, 0, bl, bs, 0, 0)
  <2>1. SizesKept(t, 0, bs) /\ RangesOf({}, bl, bs) = {} /\ Marks(h, {}, bl, bs)
    BY <1>1 DEF SizesKept, RangesOf, Marks
  <2>2. Covered({}, bl, bs) = {}
    BY DEF Covered
  <2>3. Cardinality({}) = 0
    BY FS_EmptySet
  <2>4. 0 = Cardinality(Covered(LiveIn(t, 0), bl, bs))
    BY <1>1, <2>2, <2>3
  <2>5. PICK e \in Int : e = h.brk
    BY <1>5
  <2>6. 0 <= e - 8 /\ 0 \in Nat /\ 0 <= 0
    BY <1>5, <2>5
  <2>7. SizesKept(t, 0, bs)
    BY <1>1, <2>1
  <2>8. Measured(h, t, 0, bl, bs, 0, 0)
    BY ONLY <2>4, <2>5, <2>6, <2>7 DEF Measured
  <2> QED
    BY <1>1, <2>1, <2>8
<1> QED
  BY <1>4, <1>6

-------------------------------------------------------------------------------
(* 8  The inductive invariant                                              *)

(* The variables have their types, and what bounds the traces holds.       *)
Sound ==
  /\ heap \in Heaps /\ 8 <= heap.brk /\ heap.brk <= 8 + MaxHeap
  /\ trace \in Seq(Ops) /\ Len(trace) <= MaxOps /\ i \in 0 .. Len(trace)
  /\ used \in Nat /\ used <= MaxOps /\ (Started => used + Len(trace) <= MaxOps)
  /\ round \in 0 .. Rounds
  /\ blocks \in [Ids -> Words \cup {NULL}] /\ block_sizes \in [Ids -> Nat]
  /\ stats \in Seq(BOOLEAN) /\ Len(stats) <= NumTraces
  /\ Started => Len(stats) < NumTraces
  /\ total \in Nat /\ max_total \in Nat /\ total <= max_total
  /\ phase \in {"next trace", "valid", "util", "speed", "perf index", "errors"}

(* In a pass the heap and the block table are where the trace leads.       *)
InPass ==
  Started => /\ TraceOK(trace) /\ Inited.p = 0
             /\ \E hist : InStep(heap, trace, i, blocks, hist)

(* In the first pass the ranges, the sizes and the contents are, too.      *)
InCheck ==
  phase = "valid" =>
    i = Len(trace) /\ Checked(heap, trace, blocks, block_sizes, ranges)

(* In the second pass the sizes and the totals are.                        *)
InMeasure ==
  phase = "util" => Measured(heap, trace, i, blocks, block_sizes, total, max_total)

(* The inductive invariant.                                                *)
IInv == Sound /\ InPass /\ InCheck /\ InMeasure /\ ErrorsAreNotTheAllocators

(* A list that grows by one element.                                       *)
LEMMA Appends ==
  ASSUME NEW T, NEW s \in Seq(T), NEW e \in T, NEW z, z = Append(s, e)
  PROVE  z \in Seq(T) /\ Len(z) = Len(s) + 1 /\ Len(s) \in Nat /\ z[Len(z)] = e
         /\ z # << >>
  OBVIOUS

(* The bounds of the driver.                                               *)
LEMMA Bounds == NumTraces \in Nat /\ MaxOps \in Nat /\ Rounds \in Nat
  BY DriverAssumption

(* The heap at the start of a pass is mm_init's, whatever the last pass    *)
(* left in its words.                                                      *)
LEMMA FreshIs ==
  ASSUME NEW h \in Heaps, NEW r, r = mm_init(mem_reset_brk(h))
  PROVE  /\ r.p = Inited.p /\ r.heap \in Heaps /\ Inited.p \in {-1, 0}
         /\ 8 <= r.heap.brk /\ r.heap.brk <= 8 + MaxHeap
         /\ Inited.p = 0 => Rested(r.heap, Inited.shape) /\ Used(Inited.shape) = {}
<1>1. PICK g : g = mem_reset_brk(h)
  OBVIOUS
<1>2. g \in Heaps /\ g.brk = 8
  BY <1>1 DEF mem_reset_brk, mem_start_brk, Heaps
<1> QED
  BY <1>1, <1>2, InitShaped

(* The program begins in the invariant.                                    *)
LEMMA InitInv == ASSUME Init PROVE IInv
<1>1. heap \in Heaps /\ heap.brk = 8
  <2>1. PICK garbage \in {0, 255} : heap = mem_init(garbage)
    BY DEF Init
  <2> QED
    BY <2>1 DEF mem_init, Heaps, mem_start_brk
<1>2. Len(<< >>) = 0 /\ << >> \in Seq(Ops) /\ << >> \in Seq(BOOLEAN)
  OBVIOUS
<1>3. ~ Started /\ phase = "next trace"
  BY DEF Init, Started
<1>4. Sound
  <2>1. /\ trace = << >> /\ i = 0 /\ round = 0 /\ used = 0 /\ stats = << >>
        /\ total = 0 /\ max_total = 0 /\ phase = "next trace"
        /\ blocks = [id \in Ids |-> NULL] /\ block_sizes = [id \in Ids |-> 0]
    BY DEF Init
  <2>2. blocks \in [Ids -> Words \cup {NULL}] /\ block_sizes \in [Ids -> Nat]
    BY <2>1
  <2>3. /\ Len(trace) = 0 /\ Len(trace) <= MaxOps /\ i \in 0 .. Len(trace)
        /\ used \in Nat /\ used <= MaxOps /\ round \in 0 .. Rounds
        /\ Len(stats) <= NumTraces /\ total \in Nat /\ max_total \in Nat
        /\ total <= max_total /\ 8 <= heap.brk /\ heap.brk <= 8 + MaxHeap
    <3>1. Len(trace) = 0 /\ Len(stats) = 0
      BY <1>2, <2>1
    <3>2. 8 <= heap.brk /\ heap.brk <= 8 + MaxHeap
      BY <1>1, MaxHeapAssumption
    <3>3. 0 <= MaxOps /\ 0 <= NumTraces /\ 0 \in 0 .. Rounds /\ 0 \in 0 .. 0
      BY Bounds
    <3>4. i = 0 /\ round = 0 /\ used = 0 /\ total = 0 /\ max_total = 0
      BY <2>1
    <3>5. Len(trace) <= MaxOps /\ i \in 0 .. Len(trace) /\ Len(stats) <= NumTraces
      BY ONLY <3>1, <3>3, <3>4
    <3> QED
      BY ONLY <3>1, <3>2, <3>3, <3>4, <3>5
  <2>4. trace \in Seq(Ops) /\ stats \in Seq(BOOLEAN)
    BY <1>2, <2>1
  <2> QED
    BY <1>1, <1>3, <2>2, <2>3, <2>4 DEF Sound
<1>5. InPass /\ InCheck /\ InMeasure
  BY <1>3 DEF InPass, InCheck, InMeasure
<1>6. ErrorsAreNotTheAllocators
  BY DEF Init, ErrorsAreNotTheAllocators
<1> QED
  BY <1>4, <1>5, <1>6 DEF IInv

(* The first pass over the next trace.                                     *)
LEMMA StartValidInv ==
  ASSUME IInv, NEW r, r = Fresh, StartValid(r)
  PROVE  IInv'
<1>1. heap \in Heaps
  BY DEF IInv, Sound
<1>2. /\ r.p = Inited.p /\ r.heap \in Heaps /\ Inited.p \in {-1, 0}
      /\ 8 <= r.heap.brk /\ r.heap.brk <= 8 + MaxHeap
      /\ Inited.p = 0 => Rested(r.heap, Inited.shape) /\ Used(Inited.shape) = {}
  BY <1>1, FreshIs DEF Fresh
<1>3. /\ heap' = r.heap /\ ranges' = {} /\ trace' = << >> /\ i' = 0
      /\ round' = round /\ blocks' = blocks /\ block_sizes' = block_sizes
      /\ total' = total /\ max_total' = max_total
      /\ Len(stats) < NumTraces /\ used < MaxOps
  BY DEF StartValid, clear_ranges
<1>4. /\ used \in Nat /\ round \in 0 .. Rounds
      /\ blocks \in [Ids -> Words \cup {NULL}] /\ block_sizes \in [Ids -> Nat]
      /\ stats \in Seq(BOOLEAN) /\ total \in Nat /\ max_total \in Nat
      /\ total <= max_total /\ {NumTraces, MaxOps, Rounds} \subseteq Nat
  BY DriverAssumption DEF IInv, Sound
<1>5. Len(<< >>) = 0 /\ << >> \in Seq(Ops) /\ 0 \in 0 .. 0
  OBVIOUS
<1>6. CASE r.p < 0
  <2>1. /\ phase' = "next trace" /\ msg' = "mm_init failed" /\ stats' = Append(stats, FALSE)
        /\ used' = used + Len(<< >>)
    BY <1>3, <1>6 DEF StartValid, Invalid
  <2>2. stats' \in Seq(BOOLEAN) /\ Len(stats') <= NumTraces
    <3>1. stats' \in Seq(BOOLEAN) /\ Len(stats') = Len(stats) + 1 /\ Len(stats) \in Nat
      <4>1. PICK T : T = BOOLEAN
        OBVIOUS
      <4>2. FALSE \in T /\ stats \in Seq(T)
        BY <1>4, <4>1
      <4>3. PICK e \in T : e = FALSE
        BY <4>2
      <4>4. stats' \in Seq(T) /\ Len(stats') = Len(stats) + 1 /\ Len(stats) \in Nat
        BY <2>1, <4>2, <4>3, Appends
      <4> QED
        BY <4>1, <4>4
    <3> QED
      BY <1>3, <3>1, Bounds
  <2>3. ~ Started'
    BY <2>1 DEF Started
  <2>4. Sound'
    <3>1. /\ heap' \in Heaps /\ 8 <= heap'.brk /\ heap'.brk <= 8 + MaxHeap
          /\ trace' \in Seq(Ops) /\ Len(trace') = 0 /\ i' = 0
      BY <1>2, <1>3, <1>5
    <3>2. used' = used /\ Len(trace') <= MaxOps /\ i' \in 0 .. Len(trace') /\ used' <= MaxOps
      <4>0. used' = used + Len(<< >>) /\ used \in Nat
        BY <1>4, <2>1
      <4>1. used' = used
        BY ONLY <1>5, <4>0
      <4>2. 0 <= MaxOps /\ 0 \in 0 .. 0 /\ used <= MaxOps
        BY <1>3, <1>4, Bounds
      <4> QED
        BY <3>1, <4>1, <4>2
    <3> QED
      BY <1>3, <1>4, <2>1, <2>2, <2>3, <3>1, <3>2 DEF Sound
  <2>5. InPass' /\ InCheck' /\ InMeasure'
    BY <2>1, <2>3 DEF InPass, InCheck, InMeasure
  <2>6. ErrorsAreNotTheAllocators'
    BY <2>1 DEF ErrorsAreNotTheAllocators
  <2> QED
    BY <2>4, <2>5, <2>6 DEF IInv
<1>7. CASE ~ (r.p < 0)
  <2>1. phase' = "valid" /\ stats' = stats /\ msg' = msg /\ used' = used
    BY <1>7 DEF StartValid
  <2>2. Sound'
    BY <1>2, <1>3, <1>4, <1>5, <2>1 DEF Sound, Started
  <2>3. Inited.p = 0
    BY <1>2, <1>7
  <2>4. PICK t : t = << >>
    OBVIOUS
  <2>5. PICK hist : hist = [k \in {0} |-> [shape |-> Inited.shape]]
    OBVIOUS
  <2>6. Len(t) = 0 /\ TraceOK(t) /\ Plays(hist, t, Len(t))
    <3>1. Len(t) = 0 /\ t \in Seq(Ops) /\ 1 .. 0 = {}
      BY <2>4
    <3>2. hist[0].shape = Inited.shape
      BY <2>5
    <3> QED
      BY <3>1, <3>2 DEF TraceOK, Plays
  <2>7. PICK h : h = r.heap
    OBVIOUS
  <2>8. /\ InStep(h, t, 0, blocks, hist) /\ SizesKept(t, 0, block_sizes)
        /\ RangesOf(LiveIn(t, 0), blocks, block_sizes) = {}
        /\ Marks(h, LiveIn(t, 0), blocks, block_sizes)
    BY <1>2, <2>3, <2>6, <2>7, StartsInStep
  <2>9. Checked(h, t, blocks, block_sizes, {})
    BY <2>6, <2>8 DEF Checked
  <2>10. heap' = h /\ trace' = t /\ i' = 0
    BY <1>3, <2>4, <2>7
  <2>11. InPass'
    BY <1>3, <2>3, <2>6, <2>8, <2>10 DEF InPass
  <2>12. InCheck'
    BY <1>3, <2>6, <2>9, <2>10 DEF InCheck
  <2>13. InMeasure'
    BY <2>1 DEF InMeasure
  <2>14. ErrorsAreNotTheAllocators'
    BY <2>1 DEF ErrorsAreNotTheAllocators, IInv
  <2> QED
    BY <2>2, <2>11, <2>12, <2>13, <2>14 DEF IInv
<1> QED
  BY <1>6, <1>7

(* A later pass begins.                                                    *)
LEMMA StartPassInv ==
  ASSUME IInv, Started, NEW r, r = Fresh, NEW next \in {"util", "speed"},
         StartPass(next, r), round' \in 0 .. Rounds
  PROVE  IInv'
<1>1. /\ heap \in Heaps /\ trace \in Seq(Ops) /\ Len(trace) \in Nat /\ Len(trace) <= MaxOps
      /\ used \in Nat /\ used <= MaxOps /\ used + Len(trace) <= MaxOps
      /\ blocks \in [Ids -> Words \cup {NULL}] /\ block_sizes \in [Ids -> Nat]
      /\ stats \in Seq(BOOLEAN) /\ Len(stats) < NumTraces
      /\ total \in Nat /\ max_total \in Nat /\ total <= max_total
      /\ Len(stats) \in Nat
  <2>1. Sound
    BY DEF IInv
  <2>2. trace \in Seq(Ops) /\ stats \in Seq(BOOLEAN)
    BY <2>1 DEF Sound
  <2>3. Len(trace) \in Nat /\ Len(stats) \in Nat
    BY <2>2
  <2> QED
    BY <2>1, <2>2, <2>3, Zenon DEF Sound
<1>2. /\ r.p = Inited.p /\ r.heap \in Heaps
      /\ 8 <= r.heap.brk /\ r.heap.brk <= 8 + MaxHeap
      /\ Inited.p = 0 => Rested(r.heap, Inited.shape) /\ Used(Inited.shape) = {}
  BY <1>1, FreshIs DEF Fresh
<1>3. TraceOK(trace) /\ Inited.p = 0 /\ \E hist : Plays(hist, trace, Len(trace))
  BY DEF IInv, InPass, InStep
<1>4. /\ heap' = r.heap /\ i' = 0 /\ phase' = next /\ stats' = stats /\ used' = used
      /\ total' = (IF next = "util" THEN 0 ELSE total)
      /\ max_total' = (IF next = "util" THEN 0 ELSE max_total)
      /\ trace' = trace /\ blocks' = blocks /\ block_sizes' = block_sizes
      /\ ranges' = ranges /\ msg' = msg
  BY <1>2, <1>3 DEF StartPass
<1>5. Sound'
  <2>1. 0 \in 0 .. Len(trace)
    BY <1>1
  <2>2. total' \in Nat /\ max_total' \in Nat /\ total' <= max_total'
    BY <1>1, <1>4
  <2> QED
    <3>1. /\ heap' \in Heaps /\ 8 <= heap'.brk /\ heap'.brk <= 8 + MaxHeap
      BY <1>2, <1>4
    <3>2. used' + Len(trace') <= MaxOps /\ Len(trace') <= MaxOps /\ i' \in 0 .. Len(trace')
      BY <1>1, <1>4, <2>1
    <3>3. Len(stats') <= NumTraces /\ Len(stats') < NumTraces
      BY <1>1, <1>4, Bounds
    <3> QED
      BY <1>1, <1>4, <2>2, <3>1, <3>2, <3>3 DEF Sound
<1>6. PICK h : h = r.heap
  OBVIOUS
<1>7. PICK t : t = trace
  OBVIOUS
<1>8. PICK hist : Plays(hist, t, Len(t))
  BY <1>3, <1>7
<1>9. /\ InStep(h, t, 0, blocks, hist) /\ Measured(h, t, 0, blocks, block_sizes, 0, 0)
  BY <1>2, <1>3, <1>6, <1>8, StartsInStep
<1>10. heap' = h /\ trace' = t
  BY <1>4, <1>6, <1>7
<1>11. InPass'
  BY <1>3, <1>4, <1>9, <1>10 DEF InPass
<1>12. InCheck'
  BY <1>4 DEF InCheck
<1>13. InMeasure'
  BY <1>4, <1>9, <1>10 DEF InMeasure
<1>14. ErrorsAreNotTheAllocators'
  BY <1>4 DEF ErrorsAreNotTheAllocators, IInv
<1> QED
  BY <1>5, <1>11, <1>12, <1>13, <1>14 DEF IInv

(* The second pass begins.                                                 *)
LEMMA StartUtilInv ==
  ASSUME IInv, NEW r, r = Fresh, StartUtil(r)
  PROVE  IInv'
<1>1. Started /\ StartPass("util", r) /\ round' = 0
  BY DEF StartUtil, Started
<1>2. round' \in 0 .. Rounds
  BY <1>1, DriverAssumption
<1> QED
  BY <1>1, <1>2, StartPassInv

(* A run of the speed pass begins.                                         *)
LEMMA StartSpeedInv ==
  ASSUME IInv, NEW r, r = Fresh, StartSpeed(r)
  PROVE  IInv'
<1>1. Started /\ StartPass("speed", r) /\ round' = round + 1 /\ round < Rounds
  BY DEF StartSpeed, Started
<1>2. round' \in 0 .. Rounds
  <2>1. round \in 0 .. Rounds
    BY DEF IInv, Sound
  <2> QED
    BY <1>1, <2>1, Bounds
<1> QED
  BY <1>1, <1>2, StartPassInv

(* A heap with its bounds.                                                 *)
GoodHeap(h) == h \in Heaps /\ 8 <= h.brk /\ h.brk <= 8 + MaxHeap

(* The heap of the first pass has its bounds.                              *)
LEMMA CheckedHeap ==
  ASSUME NEW h, NEW t, NEW bl, NEW bs, NEW R, Checked(h, t, bl, bs, R)
  PROVE  GoodHeap(h)
  BY InStepHeap DEF Checked, GoodHeap

(* A request of the first pass.                                            *)
LEMMA RequestGrows ==
  ASSUME IInv, NEW op, NextRequest(op)
  PROVE  /\ Grows(trace, op, trace') /\ trace' \in Seq(Ops) /\ Len(trace) \in Nat
         /\ Len(trace') = Len(trace) + 1 /\ i' = Len(trace')
         /\ trace'[Len(trace')] = op /\ op.index \in Ids /\ op.size \in Nat
         /\ op.index \in Nat /\ used + Len(trace') <= MaxOps
         /\ TraceOK(trace') /\ Inited.p = 0
         /\ Checked(heap, trace, blocks, block_sizes, ranges)
<1>1. /\ phase = "valid" /\ op \in Requests /\ used + Len(trace) < MaxOps
      /\ trace' = Append(trace, op) /\ i' = i + 1
  BY DEF NextRequest
<1>2. i = Len(trace) /\ Checked(heap, trace, blocks, block_sizes, ranges)
  BY <1>1 DEF IInv, InCheck
<1>3. Started /\ Inited.p = 0 /\ TraceOK(trace)
  BY <1>1 DEF IInv, InPass, Started
<1>4. Len(trace) \in Nat /\ trace \in Seq(Ops)
  BY <1>3, TraceIs
<1>5. Live(i) = LiveIn(trace, i)
  BY DEF Live, LiveIn
<1>6. op \in Ops /\ OpLegal(op, LiveIn(trace, i)) /\ op.index \in Ids
  <2>1. CASE \E id \in Ids \ Live(i), size \in Sizes : op = Op("ALLOC", id, size)
    <3>1. PICK id \in Ids \ Live(i), size \in Sizes : op = Op("ALLOC", id, size)
      BY <2>1
    <3>2. op.type = "ALLOC" /\ op.index = id /\ op.size = size /\ size \in Nat
      BY <3>1, SizesAre DEF Op
    <3> QED
      BY <1>5, <3>1, <3>2 DEF Ops, OpLegal, Op
  <2>2. CASE \E id \in Live(i), size \in Sizes : op = Op("REALLOC", id, size)
    <3>1. PICK id \in Live(i), size \in Sizes : op = Op("REALLOC", id, size)
      BY <2>2
    <3>2. /\ op.type = "REALLOC" /\ op.index = id /\ op.size = size /\ size \in Nat
          /\ id \in Ids
      BY <1>5, <3>1, SizesAre, LiveIsIds DEF Op
    <3> QED
      BY <1>5, <3>1, <3>2 DEF Ops, OpLegal, Op
  <2>3. CASE \E id \in Live(i) : op = Op("FREE", id, 0)
    <3>1. PICK id \in Live(i) : op = Op("FREE", id, 0)
      BY <2>3
    <3>2. op.type = "FREE" /\ op.index = id /\ op.size = 0 /\ id \in Ids
      BY <1>5, <3>1, LiveIsIds DEF Op
    <3> QED
      BY <1>5, <3>1, <3>2 DEF Ops, OpLegal, Op
  <2> QED
    BY <1>1, <2>1, <2>2, <2>3 DEF Requests
<1>7. Grows(trace, op, trace')
  BY <1>1, <1>2, <1>6 DEF Grows
<1>8. PICK u : u = trace'
  OBVIOUS
<1>9. PICK t : t = trace
  OBVIOUS
<1>10. TraceOK(u) /\ Len(u) = Len(t) + 1 /\ u[Len(t) + 1] = op
  BY <1>3, <1>7, <1>8, <1>9, TraceGrows
<1>11. u \in Seq(Ops)
  BY <1>10, TraceIs
<1>12. op.size \in Nat /\ op.index \in Nat
  BY <1>6, DriverAssumption DEF Ops
<1>13. used \in Nat
  BY DEF IInv, Sound
<1>14. Len(u) = Len(t) + 1 /\ i' = Len(u) /\ used + Len(u) <= MaxOps
  BY <1>1, <1>2, <1>4, <1>9, <1>10, <1>13, Bounds
<1> QED
  BY <1>2, <1>3, <1>4, <1>6, <1>7, <1>8, <1>9, <1>10, <1>11, <1>12, <1>14

(* The types after a request of the first pass.                            *)
LEMMA ValidSound ==
  ASSUME IInv, NEW op, NextRequest(op), GoodHeap(heap'),
         blocks' \in [Ids -> Words \cup {NULL}], block_sizes' \in [Ids -> Nat],
         \/ phase' = phase /\ stats' = stats /\ used' = used
         \/ /\ phase' = "next trace" /\ stats' = Append(stats, FALSE)
            /\ used' = used + Len(trace')
  PROVE  Sound'
<1>1. /\ trace' \in Seq(Ops) /\ Len(trace) \in Nat /\ Len(trace') = Len(trace) + 1
      /\ i' = Len(trace') /\ used + Len(trace') <= MaxOps
  BY RequestGrows
<1> PICK n : n = Len(trace')
  OBVIOUS
<1>8. n \in Nat /\ i' = n /\ used + n <= MaxOps
  <2>1. PICK k : k = Len(trace)
    OBVIOUS
  <2>2. k \in Nat /\ n = k + 1 /\ i' = n /\ used + n <= MaxOps
    BY <1>1, <2>1
  <2> QED
    BY ONLY <2>2
<1>2. /\ round' = round /\ total' = total /\ max_total' = max_total /\ phase = "valid"
  BY DEF NextRequest
<1>3. /\ used \in Nat /\ round \in 0 .. Rounds /\ total \in Nat /\ max_total \in Nat
      /\ total <= max_total
  BY DEF IInv, Sound
<1>0. stats \in Seq(BOOLEAN) /\ Len(stats) < NumTraces /\ Len(stats) \in Nat
  <2>1. stats \in Seq(BOOLEAN) /\ Len(stats) < NumTraces
    BY <1>2 DEF IInv, Sound, Started
  <2>2. Len(stats) \in Nat
    BY ONLY <2>1
  <2> QED
    BY <2>1, <2>2
<1>4. i' \in 0 .. Len(trace') /\ Len(trace') <= MaxOps
  <2>1. i' \in 0 .. n /\ n <= MaxOps
    BY ONLY <1>3, <1>8, Bounds
  <2> QED
    BY <2>1
<1>5. /\ heap' \in Heaps /\ 8 <= heap'.brk /\ heap'.brk <= 8 + MaxHeap
  BY DEF GoodHeap
<1>6. CASE phase' = phase /\ stats' = stats /\ used' = used
  <2>1. used' = used /\ stats' = stats
    BY <1>6
  <2>2. /\ used' \in Nat /\ used' <= MaxOps /\ used' + Len(trace') <= MaxOps
        /\ Len(stats') <= NumTraces /\ Len(stats') < NumTraces
    <3>1. used' \in Nat /\ used' <= MaxOps /\ used' + n <= MaxOps
      BY ONLY <1>3, <1>8, <2>1, Bounds
    <3>2. Len(stats) <= NumTraces
      BY ONLY <1>0, Bounds
    <3> QED
      BY <1>0, <2>1, <3>1, <3>2
  <2> QED
    BY <1>0, <1>1, <1>2, <1>3, <1>4, <1>5, <1>6, <2>2 DEF Sound
<1>7. CASE /\ phase' = "next trace" /\ stats' = Append(stats, FALSE)
           /\ used' = used + Len(trace')
  <2>1. stats' \in Seq(BOOLEAN) /\ Len(stats') <= NumTraces
    <3>1. PICK T : T = BOOLEAN
      OBVIOUS
    <3>2. FALSE \in T /\ stats \in Seq(T)
      BY <1>0, <3>1
    <3>3. PICK e \in T : e = FALSE
      BY <3>2
    <3>4. stats' \in Seq(T) /\ Len(stats') = Len(stats) + 1 /\ Len(stats) \in Nat
      BY <1>7, <3>2, <3>3, Appends
    <3>5. Len(stats') <= NumTraces
      BY ONLY <1>0, <3>4, Bounds
    <3> QED
      BY <3>1, <3>4, <3>5
  <2>2. used' \in Nat /\ used' <= MaxOps
    <3>1. used' = used + n
      BY <1>7
    <3> QED
      BY ONLY <1>3, <1>8, <3>1
  <2>3. ~ Started' /\ phase' = "next trace"
    BY <1>7 DEF Started
  <2> QED
    BY <1>0, <1>1, <1>2, <1>3, <1>4, <1>5, <2>1, <2>2, <2>3 DEF Sound
<1> QED
  BY <1>6, <1>7

(* The allocator refuses, or the driver finds fault.                       *)
LEMMA InvalidInv ==
  ASSUME IInv, NEW op, NextRequest(op), GoodHeap(heap'), NEW why, Invalid(why),
         UNCHANGED <<blocks, block_sizes>>,
         \/ why \in {"mm_malloc failed", "mm_realloc failed"}
         \/ why = "not preserved" /\ LowByte(op.index) >= 128
  PROVE  IInv'
<1>1. /\ phase' = "next trace" /\ msg' = why /\ stats' = Append(stats, FALSE)
      /\ used' = used + Len(trace')
  BY DEF Invalid
<1>2. blocks' \in [Ids -> Words \cup {NULL}] /\ block_sizes' \in [Ids -> Nat]
  BY DEF IInv, Sound
<1>3. Sound'
  BY <1>1, <1>2, ValidSound
<1>4. InPass' /\ InCheck' /\ InMeasure'
  BY <1>1 DEF InPass, InCheck, InMeasure, Started
<1>5. trace'[Len(trace')] = op
  BY RequestGrows
<1>6. ErrorsAreNotTheAllocators'
  <2>1. phase' # "exit" /\ msg' = why
    BY <1>1
  <2>2. msg' = "not preserved" => LowByte(trace'[Len(trace')].index) >= 128
    BY <1>5, <2>1
  <2>3. msg' \in {"none", "mm_init failed", "mm_malloc failed", "mm_realloc failed",
                  "not preserved"}
    BY <2>1
  <2> QED
    BY <2>1, <2>2, <2>3 DEF ErrorsAreNotTheAllocators
<1> QED
  BY <1>3, <1>4, <1>6 DEF IInv

(* The request has passed the check.                                       *)
LEMMA PassedInv ==
  ASSUME IInv, NEW op, NextRequest(op),
         blocks' \in [Ids -> Words \cup {NULL}], block_sizes' \in [Ids -> Nat],
         UNCHANGED <<phase, stats, errors, msg, used>>,
         Checked(heap', trace', blocks', block_sizes', ranges')
  PROVE  IInv'
<1>1. phase = "valid" /\ phase' = "valid"
  BY DEF NextRequest
<1>2. GoodHeap(heap')
  BY CheckedHeap
<1>3. Sound'
  BY <1>2, ValidSound
<1>4. TraceOK(trace') /\ Inited.p = 0 /\ i' = Len(trace')
  BY RequestGrows
<1>5. InPass'
  BY <1>4 DEF InPass, Checked
<1>6. InCheck'
  BY <1>4 DEF InCheck
<1>7. InMeasure'
  BY <1>1 DEF InMeasure
<1>8. ErrorsAreNotTheAllocators'
  BY <1>1 DEF IInv, ErrorsAreNotTheAllocators
<1> QED
  BY <1>3, <1>5, <1>6, <1>7, <1>8 DEF IInv

(* A refused request leaves the heap as it was.                            *)
LEMMA RefusedHeap ==
  ASSUME NEW h, NEW t, NEW bl, NEW bs, NEW R, Checked(h, t, bl, bs, R),
         NEW op, NEW u, Grows(t, op, u), op.type # "FREE",
         NEW r, r = Answered(h, bl[op.index], op), r.p = 0
  PROVE  GoodHeap(r.heap)
<1>1. PICK hist : InStep(h, t, Len(t), bl, hist) /\ SizesKept(t, Len(t), bs)
  BY DEF Checked
<1>2. PICK S : Holds(h, S, LiveIn(t, Len(t)), bl, bs)
  BY <1>1, BooksHold
<1>3. OpLegal(op, LiveIn(t, Len(t)))
  BY DEF Grows
<1>4. r.heap = h
  BY <1>2, <1>3, ServedAnswers
<1> QED
  BY <1>4, CheckedHeap

(* The answer of mm.c, as the constant operator says it.                   *)
LEMMA AnswerIs ==
  ASSUME NEW op
  PROVE  Answer(op) = Answered(heap, blocks[op.index], op)
  BY Zenon DEF Answer, Answered

(* What the driver does of a request that the other blocks do not notice.  *)
Unnoticed(op) ==
  Untouched(heap, heap', LiveIn(trace, i) \ {op.index}, blocks, block_sizes)

(* case ALLOC of the first pass.                                           *)
LEMMA ValidAllocInv ==
  ASSUME IInv, NEW op, NEW r, r = Answer(op), ValidAlloc(op, r)
  PROVE  IInv' /\ (phase' = "valid" => Unnoticed(op))
<1>1. op.type = "ALLOC" /\ NextRequest(op)
  BY DEF ValidAlloc
<1>2. /\ Grows(trace, op, trace') /\ op.index \in Ids /\ op.size \in Nat
      /\ Checked(heap, trace, blocks, block_sizes, ranges)
  BY <1>1, RequestGrows
<1>3. r = Answered(heap, blocks[op.index], op)
  BY AnswerIs
<1>4. blocks \in [Ids -> Words \cup {NULL}] /\ block_sizes \in [Ids -> Nat]
  BY DEF IInv, Sound
<1>5. CASE r.p = 0
  <2>1. /\ Invalid("mm_malloc failed") /\ heap' = r.heap
        /\ UNCHANGED <<blocks, block_sizes, ranges>>
    BY <1>5 DEF ValidAlloc
  <2>2. GoodHeap(heap')
    BY <1>1, <1>2, <1>3, <1>5, <2>1, RefusedHeap
  <2>3. phase' = "next trace"
    BY <2>1 DEF Invalid
  <2>4. UNCHANGED <<blocks, block_sizes>>
    BY <2>1
  <2> QED
    BY <1>1, <2>1, <2>2, <2>3, <2>4, InvalidInv
<1>6. CASE r.p # 0
  <2> PICK x : x = op.index
    OBVIOUS
  <2> PICK h : h = heap
    OBVIOUS
  <2> PICK t : t = trace
    OBVIOUS
  <2> PICK u : u = trace'
    OBVIOUS
  <2> PICK bl : bl = blocks
    OBVIOUS
  <2> PICK bs : bs = block_sizes
    OBVIOUS
  <2> PICK R : R = ranges
    OBVIOUS
  <2> PICK bl2 : bl2 = [bl EXCEPT ![x] = r.p]
    OBVIOUS
  <2> PICK bs2 : bs2 = [bs EXCEPT ![x] = op.size]
    OBVIOUS
  <2> PICK g : g = memset(r.heap, r.p, Fill(x), op.size)
    OBVIOUS
  <2>1. /\ \A id \in Ids \ {x} : bl2[id] = bl[id] /\ bs2[id] = bs[id]
        /\ bl2[x] = r.p /\ bs2[x] = op.size
    BY <1>2, <1>4
  <2>2. /\ RangeError(R, r.heap, r.p, op.size) = "none"
        /\ Checked(g, u, bl2, bs2, add_range(R, r.p, op.size))
        /\ Untouched(h, g, LiveIn(t, Len(t)) \ {x}, bl, bs)
        /\ r.p \in Words
    <3>1. /\ Checked(h, t, bl, bs, R) /\ Grows(t, op, u) /\ op.type # "FREE"
          /\ r = Answered(h, bl[x], op)
      BY <1>1, <1>2, <1>3
    <3>2. /\ Lifted(op, bl, R, R) /\ SetTo(bl, x, r.p, bl2)
          /\ SetTo(bs, x, op.size, bs2)
      BY <1>1, <2>1 DEF Lifted, SetTo
    <3>3. Granted(h, t, u, bl, bs, R, x, op.size, r, bl2, bs2, g)
      BY <1>6, <3>1, <3>2, ValidGranted
    <3> QED
      BY <3>3 DEF Granted
  <2>3. /\ heap' = g /\ blocks' = bl2 /\ block_sizes' = bs2
        /\ ranges' = add_range(R, r.p, op.size)
        /\ UNCHANGED <<phase, stats, errors, msg, used>>
    BY <1>6, <2>2 DEF ValidAlloc
  <2>4. blocks' \in [Ids -> Words \cup {NULL}] /\ block_sizes' \in [Ids -> Nat]
    BY <1>2, <1>4, <2>2, <2>3
  <2>5. Checked(heap', trace', blocks', block_sizes', ranges')
    BY <2>2, <2>3
  <2>6. IInv'
    BY <1>1, <2>3, <2>4, <2>5, PassedInv
  <2>7. Unnoticed(op)
    <3>1. i = Len(trace)
      BY <1>1 DEF NextRequest, IInv, InCheck
    <3> QED
      BY <2>2, <2>3, <3>1 DEF Unnoticed
  <2> QED
    BY <2>6, <2>7
<1> QED
  BY <1>5, <1>6

(* case REALLOC of the first pass; that the contents are not preserved is  *)
(* found only of a block whose low byte reads back negative.               *)
LEMMA ValidReallocInv ==
  ASSUME IInv, NEW op, NEW r, r = Answer(op), ValidRealloc(op, r)
  PROVE  IInv' /\ (phase' = "valid" => Unnoticed(op))
<1>1. op.type = "REALLOC" /\ NextRequest(op)
  BY DEF ValidRealloc
<1>2. /\ Grows(trace, op, trace') /\ op.index \in Ids /\ op.size \in Nat
      /\ Checked(heap, trace, blocks, block_sizes, ranges)
  BY <1>1, RequestGrows
<1>3. r = Answered(heap, blocks[op.index], op)
  BY AnswerIs
<1>4. blocks \in [Ids -> Words \cup {NULL}] /\ block_sizes \in [Ids -> Nat]
  BY DEF IInv, Sound
<1>5. CASE r.p = 0
  <2>1. /\ Invalid("mm_realloc failed") /\ heap' = r.heap
        /\ UNCHANGED <<blocks, block_sizes>>
    BY <1>5 DEF ValidRealloc
  <2>2. GoodHeap(heap')
    BY <1>1, <1>2, <1>3, <1>5, <2>1, RefusedHeap
  <2>3. phase' = "next trace"
    BY <2>1 DEF Invalid
  <2> QED
    BY <1>1, <2>1, <2>2, <2>3, InvalidInv
<1>6. CASE r.p # 0
  <2> PICK x : x = op.index
    OBVIOUS
  <2> PICK h : h = heap
    OBVIOUS
  <2> PICK t : t = trace
    OBVIOUS
  <2> PICK u : u = trace'
    OBVIOUS
  <2> PICK bl : bl = blocks
    OBVIOUS
  <2> PICK bs : bs = block_sizes
    OBVIOUS
  <2> PICK R : R = ranges
    OBVIOUS
  <2> PICK R0 : R0 = remove_range(R, bl[x])
    OBVIOUS
  <2> PICK bl2 : bl2 = [bl EXCEPT ![x] = r.p]
    OBVIOUS
  <2> PICK bs2 : bs2 = [bs EXCEPT ![x] = op.size]
    OBVIOUS
  <2> PICK g : g = memset(r.heap, r.p, Fill(x), op.size)
    OBVIOUS
  <2>1. /\ \A id \in Ids \ {x} : bl2[id] = bl[id] /\ bs2[id] = bs[id]
        /\ bl2[x] = r.p /\ bs2[x] = op.size
    BY <1>2, <1>4
  <2>0. /\ Checked(h, t, bl, bs, R) /\ Grows(t, op, u) /\ op.type # "FREE"
        /\ r = Answered(h, bl[x], op)
    BY <1>1, <1>2, <1>3
  <2>2. /\ RangeError(R0, r.heap, r.p, op.size) = "none"
        /\ Checked(g, u, bl2, bs2, add_range(R0, r.p, op.size))
        /\ Untouched(h, g, LiveIn(t, Len(t)) \ {x}, bl, bs)
        /\ r.p \in Words /\ GoodHeap(r.heap)
    <3>1. /\ Lifted(op, bl, R, R0) /\ SetTo(bl, x, r.p, bl2)
          /\ SetTo(bs, x, op.size, bs2)
      BY <1>1, <2>1 DEF Lifted, SetTo
    <3>2. Granted(h, t, u, bl, bs, R0, x, op.size, r, bl2, bs2, g)
      BY <1>6, <2>0, <3>1, ValidGranted
    <3> QED
      BY <3>2 DEF Granted, GoodHeap
  <2>3. ranges' = add_range(R0, r.p, op.size)
    BY <1>6, <2>2 DEF ValidRealloc
  <2>4. CASE Preserved(op, r)
    <3>3. /\ heap' = g /\ blocks' = bl2 /\ block_sizes' = bs2
          /\ UNCHANGED <<phase, stats, errors, msg, used>>
      BY <1>6, <2>2, <2>4 DEF ValidRealloc
    <3>4. blocks' \in [Ids -> Words \cup {NULL}] /\ block_sizes' \in [Ids -> Nat]
      BY <1>2, <1>4, <2>2, <3>3
    <3>5. Checked(heap', trace', blocks', block_sizes', ranges')
      BY <2>2, <2>3, <3>3
    <3>6. IInv'
      BY <1>1, <3>3, <3>4, <3>5, PassedInv
    <3>7. Unnoticed(op)
      <4>1. i = Len(trace)
        BY <1>1 DEF NextRequest, IInv, InCheck
      <4> QED
        BY <2>2, <3>3, <4>1 DEF Unnoticed
    <3> QED
      BY <3>6, <3>7
  <2>5. CASE ~ Preserved(op, r)
    <3>1. /\ Invalid("not preserved") /\ heap' = r.heap
          /\ UNCHANGED <<blocks, block_sizes>>
      BY <1>6, <2>2, <2>5 DEF ValidRealloc
    <3>2. GoodHeap(heap')
      BY <2>2, <3>1
    <3>3. LowByte(op.index) >= 128
      <4> PICK k : k = IF op.size < bs[x] THEN op.size ELSE bs[x]
        OBVIOUS
      <4>1. k \in Int /\ k <= op.size /\ k <= bs[x]
        <5>1. bs[x] \in Nat
          BY <1>2, <1>4
        <5> QED
          BY <1>2, <5>1
      <4>2. PICK a \in Span(r.p, k) : ~ ReadsBack(GET(r.heap, a), x)
        BY <2>5, Zenon DEF Preserved
      <4>3. ~ (LowByte(x) < 128)
        BY <1>1, <1>6, <2>0, <4>1, <4>2, ValidCopies
      <4>4. LowByte(x) \in 0 .. 255
        BY <1>1, RequestGrows, FillIs
      <4> QED
        BY <4>3, <4>4
    <3>4. phase' = "next trace"
      BY <3>1 DEF Invalid
    <3> QED
      BY <1>1, <3>1, <3>2, <3>3, <3>4, InvalidInv
  <2> QED
    BY <2>4, <2>5
<1> QED
  BY <1>5, <1>6

(* case FREE of the first pass.                                            *)
LEMMA ValidFreeInv ==
  ASSUME IInv, NEW op, NEW r, r = Answer(op), ValidFree(op, r.heap)
  PROVE  IInv' /\ Unnoticed(op) /\ phase' = "valid"
<1>1. op.type = "FREE" /\ NextRequest(op)
  BY DEF ValidFree
<1>2. /\ Grows(trace, op, trace') /\ op.index \in Ids
      /\ Checked(heap, trace, blocks, block_sizes, ranges)
  BY <1>1, RequestGrows
<1>3. r.heap = mm_free(heap, blocks[op.index])
  BY <1>1 DEF Answer
<1>4. /\ heap' = r.heap /\ ranges' = remove_range(ranges, blocks[op.index])
      /\ blocks' = blocks /\ block_sizes' = block_sizes
      /\ UNCHANGED <<phase, stats, errors, msg, used>>
  BY DEF ValidFree
<1> PICK x : x = op.index
  OBVIOUS
<1> PICK h : h = heap
  OBVIOUS
<1> PICK t : t = trace
  OBVIOUS
<1> PICK u : u = trace'
  OBVIOUS
<1> PICK bl : bl = blocks
  OBVIOUS
<1> PICK bs : bs = block_sizes
  OBVIOUS
<1> PICK R : R = ranges
  OBVIOUS
<1> PICK g : g = r.heap
  OBVIOUS
<1>5. /\ Checked(g, u, bl, bs, remove_range(R, bl[x]))
      /\ Untouched(h, g, LiveIn(t, Len(t)) \ {x}, bl, bs)
  <2>1. /\ Checked(h, t, bl, bs, R) /\ Grows(t, op, u) /\ g = mm_free(h, bl[x])
    BY <1>2, <1>3
  <2> QED
    BY <1>1, <2>1, ValidFreed
<1>6. Checked(heap', trace', blocks', block_sizes', ranges')
  BY <1>4, <1>5
<1>7. blocks' \in [Ids -> Words \cup {NULL}] /\ block_sizes' \in [Ids -> Nat]
  BY <1>4 DEF IInv, Sound
<1>8. IInv'
  BY <1>1, <1>4, <1>6, <1>7, PassedInv
<1>9. i = Len(trace) /\ phase = "valid"
  BY <1>1, SMTT(60) DEF NextRequest, IInv, InCheck
<1> QED
  BY <1>4, <1>5, <1>8, <1>9 DEF Unnoticed

(* A request of a later pass leads the heap and the block table one step   *)
(* on, and is not refused.                                                 *)
Replays(h, t, n, bl, hist, op, r, g, bl2) ==
  /\ n \in Nat /\ n < Len(t) /\ op = t[n + 1] /\ TraceOK(t)
  /\ r = Answered(h, bl[op.index], op) /\ g = r.heap
  /\ InStep(h, t, n, bl, hist) /\ InStep(g, t, n + 1, bl2, hist)
  /\ Moved(op, LiveIn(t, n), r.p, bl, bl2)
  /\ Untouched(h, g, LiveIn(t, n) \ {op.index}, bl, SizesAt(t, n))
  /\ op.type # "FREE" => r.p # 0
  /\ op.index \in Ids /\ op.type \in {"ALLOC", "REALLOC", "FREE"}
  /\ OpLegal(op, LiveIn(t, n)) /\ h.brk <= g.brk

(* The driver's table after it.                                            *)
Entered(op, p, bl) ==
  IF op.type = "FREE" THEN bl ELSE [bl EXCEPT ![op.index] = p]

(* The request of a pass that has not come to its end.                     *)
LEMMA ReplaysOn ==
  ASSUME NEW h, NEW t, TraceOK(t), NEW n \in Nat, n < Len(t), NEW bl, NEW hist,
         InStep(h, t, n, bl, hist), bl \in [Ids -> Words \cup {NULL}],
         NEW op, op = t[n + 1], NEW r, r = Answered(h, bl[op.index], op),
         NEW bl2, bl2 = Entered(op, r.p, bl)
  PROVE  /\ Replays(h, t, n, bl, hist, op, r, r.heap, bl2)
         /\ bl2 \in [Ids -> Words \cup {NULL}]
<1> PICK m : m = n + 1
  OBVIOUS
<1> PICK x : x = op.index
  OBVIOUS
<1>1. m \in 1 .. Len(t) /\ op = t[m] /\ op.index \in Ids
  <2>1. Len(t) \in Nat
    BY TraceIs
  <2>2. m \in 1 .. Len(t)
    BY <2>1
  <2> QED
    BY <2>2, TraceIs
<1>2. Moved(op, LiveIn(t, n), r.p, bl, bl2)
  BY <1>1, LiveIsIds DEF Moved, Entered
<1>3. Booked(op, r.p, LiveIn(t, n), bl, SizesAt(t, n), bl2, SizesAt(t, m))
  <2>1. PICK p : p = r.p
    OBVIOUS
  <2>2. Moved(op, LiveIn(t, n), p, bl, bl2)
    BY <1>2, <2>1
  <2>3. Booked(op, p, LiveIn(t, n), bl, SizesAt(t, n), bl2, SizesAt(t, m))
    BY <1>1, <2>2, BooksMove
  <2> QED
    BY <2>1, <2>3
<1>7. r = Answered(h, bl[x], op)
  OBVIOUS
<1>4. /\ op.type # "FREE" => r.p # 0
      /\ OpLegal(op, LiveIn(t, n)) /\ op.type \in {"ALLOC", "REALLOC", "FREE"}
      /\ Untouched(h, r.heap, LiveIn(t, n) \ {x}, bl, SizesAt(t, n))
      /\ h.brk <= r.heap.brk
      /\ InStep(r.heap, t, m, bl2, hist)
  <2>1. Advances(h, t, n, m, bl, hist, op, x, r)
    BY <1>1, <1>7, NextInStep, SMTT(60)
  <2> QED
    BY <1>3, <2>1 DEF Advances
<1>5. Replays(h, t, n, bl, hist, op, r, r.heap, bl2)
  BY <1>1, <1>2, <1>4 DEF Replays
<1>6. bl2 \in [Ids -> Words \cup {NULL}]
  <2>1. CASE op.type = "FREE"
    BY <2>1 DEF Entered
  <2>2. CASE op.type # "FREE"
    <3>1. op.index \in After(LiveIn(t, n), op)
      BY <2>2 DEF After
    <3>2. LiveIn(t, m) = After(LiveIn(t, n), op)
      BY BooksStep
    <3>3. bl2[op.index] \in Words
      BY <1>4, <3>1, <3>2, InStepHeap
    <3>4. bl2 = [bl EXCEPT ![op.index] = r.p] /\ bl2[op.index] = r.p
      BY <1>1, <2>2 DEF Entered
    <3> QED
      BY <3>3, <3>4
  <2> QED
    BY <2>1, <2>2
<1> QED
  BY <1>5, <1>6

(* What else a later pass does.                                            *)
Passes(op) ==
  /\ Count(Change(op, block_sizes[op.index]))
  /\ block_sizes' = IF op.type = "FREE" \/ phase = "speed" THEN block_sizes
                    ELSE [block_sizes EXCEPT ![op.index] = op.size]
  /\ i' = i + 1
  /\ UNCHANGED <<trace, round, ranges, errors, msg, phase, stats, used>>

(* A request of a later pass is not refused: where the first pass led, this*)
(* one does.                                                               *)
LEMMA ReplayIs ==
  ASSUME IInv, NEW op, op = trace[i + 1], NEW r, r = Answer(op), Replay(r)
  PROVE  /\ \E hist : Replays(heap, trace, i, blocks, hist, op, r, heap', blocks')
         /\ blocks' \in [Ids -> Words \cup {NULL}]
         /\ Passes(op) /\ phase \in {"util", "speed"}
<1>1. /\ phase \in {"util", "speed"} /\ i < Len(trace) /\ i' = i + 1 /\ heap' = r.heap
      /\ UNCHANGED <<trace, round, ranges, errors, msg>>
  BY DEF Replay
<1>2. PICK hist : InStep(heap, trace, i, blocks, hist) /\ TraceOK(trace)
  BY <1>1 DEF IInv, InPass, Started
<1>3. r = Answered(heap, blocks[op.index], op)
  BY AnswerIs
<1>4. blocks \in [Ids -> Words \cup {NULL}] /\ i \in Nat
  <2>1. blocks \in [Ids -> Words \cup {NULL}] /\ i \in 0 .. Len(trace)
    BY Zenon DEF IInv, Sound
  <2>2. Len(trace) \in Nat
    BY <1>2, TraceIs
  <2> QED
    BY <2>1, <2>2
<1> PICK h : h = heap
  OBVIOUS
<1> PICK t : t = trace
  OBVIOUS
<1> PICK n : n = i
  OBVIOUS
<1> PICK bl : bl = blocks
  OBVIOUS
<1> PICK bl2 : bl2 = Entered(op, r.p, bl)
  OBVIOUS
<1>5. /\ Replays(h, t, n, bl, hist, op, r, r.heap, bl2)
      /\ bl2 \in [Ids -> Words \cup {NULL}]
  <2>1. /\ TraceOK(t) /\ n \in Nat /\ n < Len(t) /\ InStep(h, t, n, bl, hist)
        /\ bl \in [Ids -> Words \cup {NULL}] /\ op = t[n + 1]
        /\ r = Answered(h, bl[op.index], op)
    BY <1>1, <1>2, <1>3, <1>4, SMTT(60)
  <2> QED
    BY <2>1, ReplaysOn
<1>6. ~ (op.type # "FREE" /\ r.p = NULL)
  BY <1>5 DEF Replays
<1>7. /\ blocks' = bl2 /\ Passes(op)
  <2>1. /\ Count(Change(op, block_sizes[op.index]))
        /\ blocks' = IF op.type = "FREE" THEN blocks
                     ELSE [blocks EXCEPT ![op.index] = r.p]
        /\ block_sizes' = IF op.type = "FREE" \/ phase = "speed"
                            THEN block_sizes
                            ELSE [block_sizes EXCEPT ![op.index] = op.size]
        /\ UNCHANGED <<phase, stats, used>>
    BY <1>6, Zenon DEF Replay
  <2> QED
    BY <1>1, <2>1 DEF Passes, Entered
<1> QED
  BY <1>1, <1>5, <1>7

(* The books of the second pass.                                           *)
LEMMA UtilInv ==
  ASSUME IInv, NEW op, op = trace[i + 1], NEW r, NEW hist,
         Replays(heap, trace, i, blocks, hist, op, r, heap', blocks'),
         Passes(op), phase = "util"
  PROVE  /\ Measured(heap', trace', i', blocks', block_sizes', total', max_total')
         /\ total' \in Nat /\ block_sizes' \in [Ids -> Nat]
<1> PICK h : h = heap
  OBVIOUS
<1> PICK t : t = trace
  OBVIOUS
<1> PICK n : n = i
  OBVIOUS
<1> PICK m : m = n + 1
  OBVIOUS
<1> PICK x : x = op.index
  OBVIOUS
<1> PICK bl : bl = blocks
  OBVIOUS
<1> PICK bs : bs = block_sizes
  OBVIOUS
<1> PICK tot : tot = total
  OBVIOUS
<1> PICK high : high = max_total
  OBVIOUS
<1> PICK bl2 : bl2 = blocks'
  OBVIOUS
<1> PICK bs2 : bs2 = block_sizes'
  OBVIOUS
<1> PICK tot2 : tot2 = total'
  OBVIOUS
<1> PICK high2 : high2 = max_total'
  OBVIOUS
<1>1. /\ TraceOK(t) /\ n \in Nat /\ n < Len(t) /\ InStep(h, t, n, bl, hist)
      /\ r = Answered(h, bl[x], op) /\ Moved(op, LiveIn(t, n), r.p, bl, bl2)
      /\ InStep(r.heap, t, m, bl2, hist) /\ h.brk <= r.heap.brk /\ op = t[m]
      /\ heap' = r.heap /\ op.index \in Ids
  BY DEF Replays
<1>2. Measured(h, t, n, bl, bs, tot, high)
  BY DEF IInv, InMeasure
<1>3. bs \in [Ids -> Nat]
  BY DEF IInv, Sound
<1>4. Counted(Change(op, bs[x]), tot, high, tot2, high2)
  BY DEF Passes, Count, Counted
<1>5. bs2 = IF op.type = "FREE" THEN bs ELSE [bs EXCEPT ![x] = op.size]
  BY DEF Passes
<1>6. Moved(op, LiveIn(t, n), op.size, bs, bs2)
  BY <1>1, <1>3, <1>5, LiveIsIds DEF Moved
<1>7. Measured(r.heap, t, m, bl2, bs2, tot2, high2) /\ tot2 \in Nat
  BY <1>1, <1>2, <1>4, <1>6, MeasuredStep
<1>8. op.size \in Nat
  <2>1. m \in 1 .. Len(t)
    <3>1. Len(t) \in Nat
      BY <1>1, TraceIs
    <3> QED
      BY <1>1, <3>1
  <2>2. op \in Ops
    BY <1>1, <2>1, TraceIs
  <2> QED
    BY <2>2 DEF Ops
<1>9. bs2 \in [Ids -> Nat]
  BY <1>3, <1>5, <1>8
<1>10. trace' = t /\ i' = m
  BY DEF Passes
<1> QED
  BY <1>1, <1>7, <1>9, <1>10

(* A request of a later pass.                                              *)
LEMMA ReplayInv ==
  ASSUME IInv, NEW op, op = trace[i + 1], NEW r, r = Answer(op), Replay(r)
  PROVE  IInv'
<1>1. PICK hist : Replays(heap, trace, i, blocks, hist, op, r, heap', blocks')
  BY ReplayIs
<1>2. /\ blocks' \in [Ids -> Words \cup {NULL}] /\ Passes(op) /\ phase \in {"util", "speed"}
  BY ReplayIs
<1>3. /\ i' = i + 1 /\ trace' = trace /\ round' = round /\ ranges' = ranges /\ msg' = msg
      /\ phase' = phase /\ stats' = stats /\ used' = used
  BY <1>2 DEF Passes
<1>4. GoodHeap(heap') /\ TraceOK(trace) /\ InStep(heap', trace', i', blocks', hist)
  <2>1. InStep(heap', trace, i + 1, blocks', hist) /\ TraceOK(trace)
    BY <1>1 DEF Replays
  <2>2. PICK g : g = heap'
    OBVIOUS
  <2>3. PICK n : n = i + 1
    OBVIOUS
  <2>4. PICK bl2 : bl2 = blocks'
    OBVIOUS
  <2>5. GoodHeap(g)
    BY <2>1, <2>2, <2>3, <2>4, InStepHeap DEF GoodHeap
  <2> QED
    BY <1>3, <2>1, <2>2, <2>5
<1>5. /\ total' \in Nat /\ max_total' \in Nat /\ total' <= max_total'
      /\ block_sizes' \in [Ids -> Nat]
      /\ phase = "util" =>
           Measured(heap', trace', i', blocks', block_sizes', total', max_total')
  <2>1. CASE phase = "util"
    <3>1. /\ Measured(heap', trace', i', blocks', block_sizes', total', max_total')
          /\ total' \in Nat /\ block_sizes' \in [Ids -> Nat]
      BY <1>1, <1>2, <2>1, UtilInv
    <3> QED
      BY <3>1 DEF Measured
  <2>2. CASE phase # "util"
    <3>1. total' = total /\ max_total' = max_total /\ block_sizes' = block_sizes
      BY <1>2, <2>2 DEF Passes, Count
    <3> QED
      BY <2>2, <3>1 DEF IInv, Sound
  <2> QED
    BY <2>1, <2>2
<1>6. Sound'
  <2>1. i' \in 0 .. Len(trace')
    <3>1. i \in Nat /\ i < Len(trace) /\ Len(trace) \in Nat
      <4>1. Len(trace) \in Nat
        BY <1>4, TraceIs
      <4> QED
        BY <1>1, <4>1 DEF Replays
    <3> QED
      BY <1>3, <3>1
  <2>2. /\ trace \in Seq(Ops) /\ Len(trace) <= MaxOps /\ used \in Nat /\ used <= MaxOps
        /\ (Started => used + Len(trace) <= MaxOps) /\ round \in 0 .. Rounds
        /\ stats \in Seq(BOOLEAN) /\ Len(stats) <= NumTraces
        /\ (Started => Len(stats) < NumTraces)
        /\ phase \in {"next trace", "valid", "util", "speed", "perf index", "errors"}
    BY Zenon DEF IInv, Sound
  <2>3. heap' \in Heaps /\ 8 <= heap'.brk /\ heap'.brk <= 8 + MaxHeap
    BY <1>4 DEF GoodHeap
  <2>4. Started' = Started
    BY <1>3 DEF Started
  <2> QED
    BY <1>2, <1>3, <1>5, <2>1, <2>2, <2>3, <2>4, Zenon DEF Sound
<1>7. InPass'
  BY <1>2, <1>3, <1>4 DEF IInv, InPass, Started
<1>8. InCheck' /\ InMeasure'
  BY <1>2, <1>3, <1>5 DEF InCheck, InMeasure
<1>9. ErrorsAreNotTheAllocators'
  BY <1>2, <1>3 DEF IInv, ErrorsAreNotTheAllocators
<1> QED
  BY <1>6, <1>7, <1>8, <1>9 DEF IInv

-------------------------------------------------------------------------------
(* 9  What it implies                                                      *)

(* A trace is done, or main goes on to its report.                         *)
LEMMA EndTraceInv ==
  ASSUME IInv, EndTrace
  PROVE  IInv'
<1>1. /\ phase = "speed" /\ phase' = "next trace" /\ round' = 0
      /\ stats' = Append(stats, TRUE) /\ used' = used + Len(trace)
      /\ UNCHANGED <<heap, trace, i, blocks, block_sizes, total, max_total, msg>>
  BY DEF EndTrace
<1>2. Started /\ ~ Started'
  BY <1>1 DEF Started
<1>3. /\ trace \in Seq(Ops) /\ Len(trace) <= MaxOps /\ used \in Nat
      /\ used + Len(trace) <= MaxOps /\ stats \in Seq(BOOLEAN) /\ Len(stats) < NumTraces
  BY <1>2, Zenon DEF IInv, Sound
<1>4. Len(trace) \in Nat
  BY ONLY <1>3
<1>5. /\ stats' \in Seq(BOOLEAN) /\ Len(stats') <= NumTraces /\ stats'[Len(stats')] = TRUE
  <2>1. PICK T : T = BOOLEAN
    OBVIOUS
  <2>2. TRUE \in T /\ stats \in Seq(T)
    BY <1>3, <2>1
  <2>3. PICK e \in T : e = TRUE
    BY <2>2
  <2>4. /\ stats' \in Seq(T) /\ Len(stats') = Len(stats) + 1 /\ Len(stats) \in Nat
        /\ stats'[Len(stats')] = e
    BY <1>1, <2>2, <2>3, Appends
  <2>5. Len(stats) < NumTraces
    BY <1>3
  <2>6. Len(stats') <= NumTraces
    BY ONLY <2>4, <2>5, Bounds
  <2> QED
    BY <2>1, <2>3, <2>4, <2>6
<1>6. used' \in Nat /\ used' <= MaxOps /\ 0 \in 0 .. Rounds
  <2>1. PICK n : n = Len(trace)
    OBVIOUS
  <2>2. used' = used + n /\ n \in Nat /\ used \in Nat /\ used + n <= MaxOps
    BY <1>1, <1>3, <1>4, <2>1
  <2>3. used' \in Nat /\ used' <= MaxOps
    BY ONLY <2>2
  <2>4. 0 \in 0 .. Rounds
    BY Bounds
  <2> QED
    BY <2>3, <2>4
<1>7. Sound'
  <2>1. /\ heap \in Heaps /\ 8 <= heap.brk /\ heap.brk <= 8 + MaxHeap
        /\ i \in 0 .. Len(trace)
        /\ blocks \in [Ids -> Words \cup {NULL}] /\ block_sizes \in [Ids -> Nat]
        /\ total \in Nat /\ max_total \in Nat /\ total <= max_total
    BY Zenon DEF IInv, Sound
  <2> QED
    BY <1>1, <1>2, <1>3, <1>5, <1>6, <2>1, Zenon DEF Sound
<1>8. InPass' /\ InCheck' /\ InMeasure'
  BY <1>1, <1>2 DEF InPass, InCheck, InMeasure
<1>9. ErrorsAreNotTheAllocators'
  BY <1>1, <1>5 DEF IInv, ErrorsAreNotTheAllocators
<1> QED
  BY <1>7, <1>8, <1>9 DEF IInv

(* main reports.                                                           *)
LEMMA ReportInv ==
  ASSUME IInv, Report
  PROVE  IInv'
<1>1. /\ phase' \in {"perf index", "errors"} /\ phase = "next trace"
      /\ UNCHANGED <<heap, trace, i, round, blocks, block_sizes, total, max_total,
                     stats, msg, used>>
  BY DEF Report
<1>2. ~ Started'
  BY <1>1 DEF Started
<1>3. Sound'
  BY <1>1, <1>2, Zenon DEF IInv, Sound
<1>4. InPass' /\ InCheck' /\ InMeasure'
  BY <1>1, <1>2 DEF InPass, InCheck, InMeasure
<1>5. ErrorsAreNotTheAllocators'
  BY <1>1 DEF IInv, ErrorsAreNotTheAllocators
<1> QED
  BY <1>3, <1>4, <1>5 DEF IInv

(* Nothing happens any more.                                               *)
LEMMA StillInv ==
  ASSUME IInv, UNCHANGED vars
  PROVE  IInv'
<1>1. UNCHANGED <<heap, trace, i, phase, round, blocks, block_sizes, ranges, total,
                  max_total, stats, errors, msg, used>>
  BY DEF vars
<1>2. Sound' /\ InCheck' /\ InMeasure'
  BY <1>1 DEF IInv, Sound, InCheck, InMeasure, Started
<1>3. InPass'
  BY <1>1 DEF IInv, InPass, Started
<1>4. ErrorsAreNotTheAllocators'
  BY <1>1 DEF IInv, ErrorsAreNotTheAllocators
<1> QED
  BY <1>2, <1>3, <1>4 DEF IInv

(* Every step of main keeps the invariant.                                 *)
LEMMA NextInv ==
  ASSUME IInv, [Next]_vars
  PROVE  IInv'
<1>1. CASE \E r \in {Fresh} : StartValid(r) \/ StartUtil(r) \/ StartSpeed(r)
  BY <1>1, StartValidInv, StartUtilInv, StartSpeedInv
<1>2. ASSUME NEW op \in Requests, Valid(op)
      PROVE  IInv'
  <2>1. PICK r : r = Answer(op) /\ (ValidAlloc(op, r) \/ ValidRealloc(op, r) \/ ValidFree(op, r.heap))
    BY <1>2 DEF Valid
  <2> QED
    BY <2>1, ValidAllocInv, ValidReallocInv, ValidFreeInv
<1>3. CASE Later
  <2>1. PICK op : op = trace[i + 1]
    OBVIOUS
  <2>2. PICK r : r = Answer(op) /\ Replay(r)
    BY <1>3, <2>1 DEF Later
  <2> QED
    BY <2>1, <2>2, ReplayInv
<1>4. CASE EndTrace
  BY <1>4, EndTraceInv
<1>5. CASE Report
  BY <1>5, ReportInv
<1>6. CASE UNCHANGED vars
  BY <1>6, StillInv
<1> QED
  BY <1>1, <1>2, <1>3, <1>4, <1>5, <1>6 DEF Next, Main, Ended

(* Every state that mdriver reaches with mm.c satisfies the invariant.     *)
THEOREM Inductive == Spec => []IInv
<1>1. Init => IInv
  BY InitInv
<1>2. IInv /\ [Next]_vars => IInv'
  BY NextInv
<1> QED
  BY <1>1, <1>2, PTL DEF Spec

(* The blocks of a moment of a pass, as the model names them.              *)
LEMMA LiveNowIs ==
  /\ Live(i) = LiveIn(trace, i)
  /\ Started => LiveNow = LiveIn(trace, i)
<1>1. Live(i) = LiveIn(trace, i)
  BY DEF Live, LiveIn
<1> QED
  BY <1>1 DEF LiveNow

(* The invariant implies the types,                                        *)
LEMMA InvTypes == ASSUME IInv PROVE TypeOK
<1>1. Sound
  BY DEF IInv
<1>2. /\ heap.brk \in mem_start_brk .. mem_max_addr /\ round \in 0 .. Rounds
      /\ total >= 0 /\ max_total >= total
      /\ \A id \in Ids : blocks[id] \in Words \cup {NULL}
  <2>1. /\ heap \in Heaps /\ 8 <= heap.brk /\ heap.brk <= 8 + MaxHeap
        /\ round \in 0 .. Rounds /\ total \in Nat /\ max_total \in Nat /\ total <= max_total
        /\ blocks \in [Ids -> Words \cup {NULL}]
    BY <1>1, Zenon DEF Sound
  <2>2. heap.brk \in Int
    BY <2>1 DEF Heaps
  <2> QED
    BY <2>1, <2>2 DEF mem_start_brk, mem_max_addr
<1>3. used + Len(trace) <= 2 * MaxOps
  <2>1. used \in Nat /\ used <= MaxOps /\ trace \in Seq(Ops) /\ Len(trace) <= MaxOps
    BY <1>1, Zenon DEF Sound
  <2>2. PICK n : n = Len(trace)
    OBVIOUS
  <2>3. n \in Nat /\ n <= MaxOps
    BY <2>1, <2>2
  <2>4. used + n <= 2 * MaxOps
    BY ONLY <2>1, <2>3, Bounds
  <2> QED
    BY <2>2, <2>4
<1>4. /\ phase \in {"next trace", "valid", "util", "speed", "perf index", "errors", "exit"}
      /\ i \in 0 .. Len(trace) /\ Len(stats) <= NumTraces
  BY <1>1, Zenon DEF Sound
<1> QED
  BY <1>2, <1>3, <1>4 DEF TypeOK

(* the shape of the heap,                                                  *)
LEMMA InvHeap == ASSUME IInv PROVE HeapIsRight
<1>1. TypeOK
  BY InvTypes
<1>2. ASSUME Started
      PROVE  \E S : Rested(heap, S) /\ Used(S) = {blocks[id] : id \in LiveNow}
  <2>1. PICK hist : InStep(heap, trace, i, blocks, hist)
    BY <1>2 DEF IInv, InPass
  <2>2. Holds(heap, hist[i].shape, LiveIn(trace, i), blocks, SizesAt(trace, i))
    BY <2>1 DEF InStep
  <2> QED
    BY <1>2, <2>2, LiveNowIs DEF Holds
<1>3. HeapIsWhole
  <2> SUFFICES ASSUME Started
               PROVE  /\ mm_check(heap)
                      /\ LET all == Blocks(heap)
                         IN  /\ \A b \in all :
                                  /\ GET_SIZE(heap, HDRP(b)) >= 2 * DSIZE
                                  /\ GET(heap, HDRP(b)) = GET(heap, FTRP(heap, b))
                             /\ \E b \in all : NEXT_BLKP(heap, b) = heap.brk
                      /\ PREV_FREE_BLKP(heap, heap.head) = NULL
                      /\ \A b \in FreeList(heap) :
                           PREV_FREE_BLKP(heap, NEXT_FREE_BLKP(heap, b)) = b
    BY Zenon DEF HeapIsWhole
  <2>1. PICK S : Rested(heap, S)
    BY <1>2
  <2>2. PICK h : h = heap
    OBVIOUS
  <2>3. /\ mm_check(h)
        /\ \A b \in Blocks(h) :
             /\ GET_SIZE(h, HDRP(b)) >= 2 * DSIZE
             /\ GET(h, HDRP(b)) = GET(h, FTRP(h, b))
        /\ \E b \in Blocks(h) : NEXT_BLKP(h, b) = h.brk
        /\ PREV_FREE_BLKP(h, h.head) = NULL
        /\ \A b \in FreeList(h) : PREV_FREE_BLKP(h, NEXT_FREE_BLKP(h, b)) = b
    BY <2>1, <2>2, RestedIsWhole, Zenon
  <2> QED
    BY <2>2, <2>3, Zenon
<1>4. NoBlockIsLost /\ AllFreedIsOneBlock
  <2> SUFFICES ASSUME Started
               PROVE  /\ {b \in Blocks(heap) : GET_ALLOC(heap, HDRP(b)) = 1}
                           = {heap.listp} \cup {blocks[id] : id \in LiveNow}
                      /\ Live(i) = {} =>
                           /\ \A b \in Blocks(heap) :
                                GET_ALLOC(heap, HDRP(b)) = 1 => b = heap.listp
                           /\ \A b, c \in FreeList(heap) : b = c
    BY Zenon DEF NoBlockIsLost, AllFreedIsOneBlock
  <2>1. PICK S : Rested(heap, S) /\ Used(S) = {blocks[id] : id \in LiveNow}
    BY <1>2
  <2>2. PICK h : h = heap
    OBVIOUS
  <2>3. /\ {b \in Blocks(h) : GET_ALLOC(h, HDRP(b)) = 1} = {h.listp} \cup Used(S)
        /\ Used(S) = {} =>
             /\ \A b \in Blocks(h) : GET_ALLOC(h, HDRP(b)) = 1 => b = h.listp
             /\ \A b, c \in FreeList(h) : b = c
    BY <2>1, <2>2, RestedIsUsed, Zenon
  <2>4. Live(i) = {} => Used(S) = {}
    BY <2>1, LiveNowIs
  <2> QED
    BY <2>1, <2>2, <2>3, <2>4, Zenon
<1> QED
  BY <1>1, <1>3, <1>4 DEF HeapIsRight

(* and the books of the driver.                                            *)
LEMMA InvBooks == ASSUME IInv PROVE BooksAreRight
<1>1. RangesAreLive
  <2> SUFFICES ASSUME phase = "valid"
               PROVE  ranges = {Extent(blocks[id], block_sizes[id]) : id \in LiveNow}
    BY DEF RangesAreLive
  <2>1. i = Len(trace) /\ Checked(heap, trace, blocks, block_sizes, ranges) /\ Started
    BY DEF IInv, InCheck, Started
  <2> QED
    BY <2>1, LiveNowIs DEF Checked, RangesOf
<1>2. UtilizationIsAShare
  <2> SUFFICES ASSUME phase = "util"
               PROVE  max_total <= mem_heapsize(heap)
    BY DEF UtilizationIsAShare
  <2>1. max_total <= heap.brk - 8
    BY DEF IInv, InMeasure, Measured
  <2> QED
    BY <2>1 DEF mem_heapsize, mem_start_brk
<1> QED
  BY <1>1, <1>2 DEF BooksAreRight

(* The heap of mm.c is whole between any two requests of any trace:        *)
(* mm_check finds nothing, headers and footers agree, no allocated block is*)
(* lost and freed blocks coalesce (mm.c:101-463).                          *)
THEOREM HeapRight == Spec => []HeapIsRight
BY Inductive, InvHeap, PTL

(* The range list of eval_mm_valid is that of the live payloads, and the   *)
(* utilization of eval_mm_util never exceeds one (mdriver.c:375-465,       *)
(* 699-779).                                                               *)
THEOREM BooksRight == Spec => []BooksAreRight
BY Inductive, InvBooks, PTL

(* mdriver never finds fault with mm.c but for a heap that is used up or a *)
(* block number that reads back as a negative char, and never exits in a   *)
(* later pass.                                                             *)
THEOREM ErrorsRight == Spec => []ErrorsAreNotTheAllocators
<1>1. IInv => ErrorsAreNotTheAllocators
  BY DEF IInv
<1> QED
  BY <1>1, Inductive, PTL

-------------------------------------------------------------------------------
(* 10  The refinement of Allocator                                         *)

(* The blocks of L as the allocator's clients see them: the refinement     *)
(* mapping of MmDriver, for any heap and books.                            *)
View(h, at, sz, id) ==
  [lo |-> at[id], size |-> sz[id],
   data |-> [c \in 0 .. (sz[id] \div WSIZE) - 1 |-> GET(h, at[id] + WSIZE * c)]]

(* All the blocks of L.                                                    *)
AbsOf(h, L, at, sz) == [id \in L |-> View(h, at, sz, id)]

(* A step of Allocator from the blocks a to the blocks b, for a request.   *)
Mimics(a, b, op) ==
  /\ \A o \in DOMAIN a \ {op.index} : b[o] = a[o]
  /\ \/ /\ op.type = "ALLOC" /\ op.index \notin DOMAIN a
        /\ DOMAIN b = DOMAIN a \cup {op.index} /\ A!Placed(op.index, b)
     \/ /\ op.type = "REALLOC" /\ op.index \in DOMAIN a
        /\ DOMAIN b = DOMAIN a /\ A!Placed(op.index, b)
        /\ \A c \in A!Cells(A!Min2(a[op.index].size, b[op.index].size)) :
             b[op.index].data[c] = a[op.index].data[c]
     \/ /\ op.type = "FREE" /\ op.index \in DOMAIN a
        /\ DOMAIN b = DOMAIN a \ {op.index}

(* What a request does to the heap h and the books at and sz.              *)
Copied(h, at, sz, g, at2, sz2, x) ==
  \A c \in Nat : WSIZE * c + 4 <= sz[x] /\ WSIZE * c + 4 <= sz2[x]
    => GET(g, at2[x] + WSIZE * c) = GET(h, at[x] + WSIZE * c)

(* What a request does to the clients' view: the other blocks stay, and a  *)
(* resized one begins with what it held.                                   *)
Turns(h, L, at, sz, g, M, at2, sz2, op) ==
  /\ \E S : Holds(h, S, L, at, sz)
  /\ \E W : Holds(g, W, M, at2, sz2)
  /\ OpLegal(op, L) /\ M = After(L, op)
  /\ Untouched(h, g, L \ {op.index}, at, sz)
  /\ \A id \in L \ {op.index} : at2[id] = at[id] /\ sz2[id] = sz[id]
  /\ op.type = "REALLOC" => Copied(h, at, sz, g, at2, sz2, op.index)

(* A cell of contents lies within the size.                                *)
LEMMA CellFits ==
  ASSUME NEW size \in Nat, NEW c \in 0 .. (size \div WSIZE) - 1
  PROVE  c \in Nat /\ WSIZE * c + 4 <= size
<1>1. size \div 4 \in Int /\ 4 * (size \div 4) <= size
  OBVIOUS
<1>2. PICK q \in Int : q = size \div 4
  BY <1>1
<1>3. 4 * q <= size /\ c \in 0 .. q - 1
  BY <1>1, <1>2
<1> QED
  BY ONLY <1>3, q \in Int, size \in Nat

(* A cell lies within the payload.                                         *)
LEMMA CellIs ==
  ASSUME NEW h, NEW S, NEW L, NEW at, NEW sz, Holds(h, S, L, at, sz), NEW id \in L,
         NEW c \in Nat, NEW k \in Int, WSIZE * c + 4 <= k, k <= sz[id]
  PROVE  at[id] + WSIZE * c \in Span(at[id], k)
<1>1. /\ at[id] \in Int /\ at[id] % 8 = 0 /\ at[id] >= 16 /\ sz[id] \in Nat
      /\ at[id] + sz[id] + 8 <= h.brk /\ h.brk \in Int /\ h.brk <= 8 + MaxHeap
  BY HoldsIs
<1>2. PICK b \in Int : b = at[id]
  BY <1>1
<1>3. PICK s \in Int : s = sz[id]
  BY <1>1
<1>4. PICK e \in Int : e = h.brk
  BY <1>1
<1>5. PICK a \in Int : a = b + 4 * c
  OBVIOUS
<1>6. a % 4 = 0 /\ 8 <= a /\ a < 8 + MaxHeap /\ b <= a /\ a < b + k
  <2>1. b % 8 = 0 /\ b >= 16 /\ b + s + 8 <= e /\ e <= 8 + MaxHeap
    BY <1>1, <1>2, <1>3, <1>4
  <2>2. 4 * c + 4 <= k /\ k <= s
    BY <1>3
  <2>3. a % 4 = 0
    BY ONLY <2>1, <1>5, c \in Nat, b \in Int
  <2> QED
    BY ONLY <1>5, <2>1, <2>2, <2>3, c \in Nat, b \in Int, k \in Int, s \in Int, e \in Int,
            MaxHeapAssumption
<1>7. a \in Words
  BY <1>6, WordsAre
<1> QED
  BY <1>2, <1>5, <1>6, <1>7 DEF Span

(* A block that no one touched looks the same.                             *)
LEMMA ViewSame ==
  ASSUME NEW h, NEW S, NEW L, NEW at, NEW sz, Holds(h, S, L, at, sz),
         NEW g, NEW M, Untouched(h, g, M, at, sz), NEW id \in L, id \in M,
         NEW at2, NEW sz2, at2[id] = at[id], sz2[id] = sz[id]
  PROVE  View(g, at2, sz2, id) = View(h, at, sz, id)
<1>1. sz[id] \in Nat
  BY HoldsIs
<1>2. ASSUME NEW c \in 0 .. (sz[id] \div WSIZE) - 1
      PROVE  GET(g, at[id] + WSIZE * c) = GET(h, at[id] + WSIZE * c)
  <2>1. c \in Nat /\ WSIZE * c + 4 <= sz[id]
    BY <1>1, CellFits
  <2>2. at[id] + WSIZE * c \in Span(at[id], sz[id])
    BY <1>1, <2>1, CellIs
  <2> QED
    BY <2>2 DEF Untouched
<1>3. PICK b : b = at[id]
  OBVIOUS
<1>4. PICK s : s = sz[id]
  OBVIOUS
<1>5. \A c \in 0 .. (s \div WSIZE) - 1 : GET(g, b + WSIZE * c) = GET(h, b + WSIZE * c)
  BY <1>2, <1>3, <1>4
<1>6. [c \in 0 .. (s \div WSIZE) - 1 |-> GET(g, b + WSIZE * c)]
        = [c \in 0 .. (s \div WSIZE) - 1 |-> GET(h, b + WSIZE * c)]
  BY <1>5
<1>7. View(g, at2, sz2, id)
        = [lo |-> b, size |-> s,
           data |-> [c \in 0 .. (s \div WSIZE) - 1 |-> GET(g, b + WSIZE * c)]]
  BY <1>3, <1>4 DEF View
<1>8. View(h, at, sz, id)
        = [lo |-> b, size |-> s,
           data |-> [c \in 0 .. (s \div WSIZE) - 1 |-> GET(h, b + WSIZE * c)]]
  BY <1>3, <1>4 DEF View
<1> QED
  BY <1>6, <1>7, <1>8

(* A block of the heap is where Allocator lets it be.                      *)
LEMMA ViewPlaced ==
  ASSUME NEW h, NEW S, NEW L, NEW at, NEW sz, Holds(h, S, L, at, sz), NEW x \in L,
         NEW b, b = AbsOf(h, L, at, sz)
  PROVE  A!Placed(x, b)
<1>1. /\ at[x] \in Int /\ at[x] % 8 = 0 /\ at[x] >= 16 /\ sz[x] \in Nat
      /\ at[x] + sz[x] + 8 <= h.brk /\ h.brk \in Int /\ h.brk <= 8 + MaxHeap
  BY HoldsIs
<1>2. sz[x] \in Sizes
  BY DEF Holds
<1>3. /\ DOMAIN b = L
      /\ \A id \in L : b[id].lo = at[id] /\ b[id].size = sz[id]
      /\ DOMAIN b[x].data = 0 .. (sz[x] \div WSIZE) - 1
  BY DEF AbsOf, View
<1>4. 8 <= at[x] /\ at[x] + sz[x] <= 8 + MaxHeap
  BY <1>1, MaxHeapAssumption
<1>5. ASSUME NEW o \in L \ {x}
      PROVE  A!Disjoint(b[x], b[o])
  <2>1. at[x] + sz[x] + 8 <= at[o] \/ at[o] + sz[o] + 8 <= at[x]
    BY HoldsApart
  <2>2. at[o] \in Int /\ sz[o] \in Nat
    BY HoldsIs
  <2>3. at[x] + sz[x] <= at[o] \/ at[o] + sz[o] <= at[x]
    BY <1>1, <2>1, <2>2
  <2> QED
    BY <1>3, <2>3 DEF A!Disjoint
<1> QED
  BY <1>1, <1>2, <1>3, <1>4, <1>5 DEF A!Placed, A!Cells, mem_start_brk, mem_max_addr

(* A request of the driver is a step of Allocator.                         *)
LEMMA TurnsMimic ==
  ASSUME NEW h, NEW L, NEW at, NEW sz, NEW g, NEW M, NEW at2, NEW sz2, NEW op,
         Turns(h, L, at, sz, g, M, at2, sz2, op),
         NEW a, a = AbsOf(h, L, at, sz), NEW b, b = AbsOf(g, M, at2, sz2)
  PROVE  Mimics(a, b, op)
<1> PICK x : x = op.index
  OBVIOUS
<1>1. PICK S : Holds(h, S, L, at, sz)
  BY DEF Turns
<1>2. PICK W : Holds(g, W, M, at2, sz2)
  BY DEF Turns
<1>3. /\ OpLegal(op, L) /\ M = After(L, op) /\ Untouched(h, g, L \ {x}, at, sz)
      /\ \A id \in L \ {x} : at2[id] = at[id] /\ sz2[id] = sz[id]
      /\ op.type = "REALLOC" => Copied(h, at, sz, g, at2, sz2, x)
  BY DEF Turns
<1>4. /\ DOMAIN a = L /\ DOMAIN b = M
      /\ \A id \in L : a[id] = View(h, at, sz, id)
      /\ \A id \in M : b[id] = View(g, at2, sz2, id)
  BY DEF AbsOf
<1>5. \A o \in L \ {x} : b[o] = a[o]
  <2> SUFFICES ASSUME NEW o \in L \ {x} PROVE b[o] = a[o]
    OBVIOUS
  <2>1. o \in M
    BY <1>3 DEF After
  <2>2. at2[o] = at[o] /\ sz2[o] = sz[o]
    BY <1>3
  <2>3. View(g, at2, sz2, o) = View(h, at, sz, o)
    BY <1>1, <1>3, <2>2, ViewSame
  <2> QED
    BY <1>4, <2>1, <2>3
<1>6. x \in M => A!Placed(x, b)
  BY <1>2, ViewPlaced
<1>7. CASE op.type = "ALLOC"
  <2>1. x \notin L /\ M = L \cup {x}
    BY <1>3, <1>7 DEF OpLegal, After
  <2> QED
    BY <1>4, <1>5, <1>6, <1>7, <2>1 DEF Mimics
<1>8. CASE op.type = "REALLOC"
  <2>1. x \in L /\ M = L
    BY <1>3, <1>8 DEF OpLegal, After
  <2>2. sz[x] \in Nat /\ sz2[x] \in Nat
    BY <1>1, <1>2, <2>1, HoldsIs
  <2>3. PICK s \in Nat : s = sz[x]
    BY <2>2
  <2>4. PICK s2 \in Nat : s2 = sz2[x]
    BY <2>2
  <2>5. ASSUME NEW k \in Nat, k <= s, k <= s2, NEW c \in 0 .. (k \div WSIZE) - 1
        PROVE  b[x].data[c] = a[x].data[c]
    <3>1. c \in Nat /\ 4 * c + 4 <= k
      BY CellFits
    <3>2. 4 * c + 4 <= s /\ 4 * c + 4 <= s2
      BY ONLY <2>5, <3>1, s \in Nat, s2 \in Nat, k \in Nat
    <3>3. c \in 0 .. (s \div 4) - 1 /\ c \in 0 .. (s2 \div 4) - 1
      <4>1. ASSUME NEW z \in Nat, 4 * c + 4 <= z PROVE c \in 0 .. (z \div 4) - 1
        BY ONLY <3>1, <4>1
      <4> QED
        BY <3>2, <4>1
    <3>4. GET(g, at2[x] + WSIZE * c) = GET(h, at[x] + WSIZE * c)
      BY <1>3, <1>8, <2>3, <2>4, <3>1, <3>2 DEF Copied
    <3>5. a[x].data[c] = GET(h, at[x] + WSIZE * c)
      <4>1. a[x].data = [d \in 0 .. (s \div WSIZE) - 1 |-> GET(h, at[x] + WSIZE * d)]
        <5>1. a[x] = View(h, at, sz, x)
          BY <1>4, <2>1
        <5> QED
          BY <5>1, <2>3 DEF View
      <4> QED
        BY <3>3, <4>1
    <3>6. b[x].data[c] = GET(g, at2[x] + WSIZE * c)
      <4>1. b[x].data = [d \in 0 .. (s2 \div WSIZE) - 1 |-> GET(g, at2[x] + WSIZE * d)]
        <5>1. b[x] = View(g, at2, sz2, x)
          BY <1>4, <2>1
        <5> QED
          BY <5>1, <2>4 DEF View
      <4> QED
        BY <3>3, <4>1
    <3> QED
      BY <3>4, <3>5, <3>6
  <2>6. ASSUME NEW c \in A!Cells(A!Min2(a[x].size, b[x].size))
        PROVE  b[x].data[c] = a[x].data[c]
    <3>1. a[x].size = s /\ b[x].size = s2
      BY <1>4, <2>1, <2>3, <2>4 DEF View
    <3>2. PICK k \in Nat : k = A!Min2(s, s2) /\ k <= s /\ k <= s2
      BY DEF A!Min2
    <3>3. c \in 0 .. (k \div WSIZE) - 1
      BY <3>1, <3>2 DEF A!Cells
    <3> QED
      BY <2>5, <3>2, <3>3
  <2> QED
    BY <1>4, <1>5, <1>6, <1>8, <2>1, <2>6 DEF Mimics
<1>9. CASE op.type = "FREE"
  <2>1. x \in L /\ M = L \ {x}
    BY <1>3, <1>9 DEF OpLegal, After
  <2> QED
    BY <1>4, <1>5, <1>9, <2>1 DEF Mimics
<1> QED
  BY <1>3, <1>7, <1>8, <1>9 DEF OpLegal

(* The refinement mapping of MmDriver, in terms of the heap and the trace. *)
LEMMA SizeNowIs ==
  ASSUME NEW id
  PROVE  SizeNow(id) = SizeIn(trace, i, id)
  BY Zenon DEF SizeNow, SizeIn

(* The refinement mapping, in a pass.                                      *)
LEMMA LiveIsView ==
  ASSUME Started
  PROVE  [id \in LiveNow |-> BlockOf(id)]
           = AbsOf(heap, LiveIn(trace, i), blocks, SizesAt(trace, i))
<1> PICK h : h = heap
  OBVIOUS
<1> PICK L : L = LiveIn(trace, i)
  OBVIOUS
<1> PICK bl : bl = blocks
  OBVIOUS
<1> PICK sz : sz = SizesAt(trace, i)
  OBVIOUS
<1>1. LiveNow = L
  BY LiveNowIs
<1>2. ASSUME NEW id \in L
      PROVE  BlockOf(id) = View(h, bl, sz, id)
  <2>1. id \in Ids
    BY LiveIsIds
  <2>2. SizeNow(id) = sz[id]
    BY <2>1, SizeNowIs DEF SizesAt
  <2>3. PICK s : s = sz[id]
    OBVIOUS
  <2>4. BlockOf(id) = [lo |-> bl[id], size |-> s,
          data |-> [c \in 0 .. (s \div WSIZE) - 1 |-> GET(h, bl[id] + WSIZE * c)]]
    BY <2>2, <2>3, Zenon DEF BlockOf
  <2> QED
    BY <2>3, <2>4, Zenon DEF View
<1> QED
  BY <1>1, <1>2 DEF AbsOf

(* A step after which no block is left is Allocator's Reset.               *)
LEMMA ResetStep ==
  ASSUME LiveNow' = {}
  PROVE  A!Next
<1>1. DOMAIN ([id \in LiveNow |-> BlockOf(id)])' = {}
  OBVIOUS
<1> QED
  BY <1>1 DEF A!Next, A!Reset

(* A step between two views that mimics a request is Allocator's.          *)
LEMMA MimicStep ==
  ASSUME NEW a, [id \in LiveNow |-> BlockOf(id)] = a,
         NEW b, ([id \in LiveNow |-> BlockOf(id)])' = b,
         NEW op, op.index \in Ids, Mimics(a, b, op)
  PROVE  A!Next
<1> PICK x : x = op.index
  OBVIOUS
<1>1. A!Malloc(x) \/ A!Realloc(x) \/ A!Free(x)
  BY DEF Mimics, A!Malloc, A!Realloc, A!Free, A!Others
<1> QED
  BY <1>1 DEF A!Next

(* A request of a later pass, as the clients see it: what realloc copies   *)
(* is what the block held.                                                 *)
LEMMA ReplayTurns ==
  ASSUME NEW h, NEW t, NEW n, NEW m, m = n + 1, NEW bl, NEW hist, NEW op, NEW r,
         NEW g, NEW bl2, Replays(h, t, n, bl, hist, op, r, g, bl2)
  PROVE  Turns(h, LiveIn(t, n), bl, SizesAt(t, n),
               g, LiveIn(t, m), bl2, SizesAt(t, m), op)
<1> PICK x : x = op.index
  OBVIOUS
<1> PICK L : L = LiveIn(t, n)
  OBVIOUS
<1> PICK M : M = LiveIn(t, m)
  OBVIOUS
<1> PICK sz : sz = SizesAt(t, n)
  OBVIOUS
<1> PICK sz2 : sz2 = SizesAt(t, m)
  OBVIOUS
<1>1. /\ n \in Nat /\ n < Len(t) /\ op = t[m] /\ TraceOK(t)
      /\ r = Answered(h, bl[x], op) /\ g = r.heap
      /\ InStep(h, t, n, bl, hist) /\ InStep(g, t, m, bl2, hist)
      /\ Moved(op, L, r.p, bl, bl2) /\ Untouched(h, g, L \ {x}, bl, sz)
      /\ op.type # "FREE" => r.p # 0
      /\ x \in Ids /\ OpLegal(op, L)
  BY DEF Replays
<1> PICK S : S = hist[n].shape
  OBVIOUS
<1> PICK W : W = hist[m].shape
  OBVIOUS
<1>2. Holds(h, S, L, bl, sz) /\ Holds(g, W, M, bl2, sz2)
  BY <1>1 DEF InStep
<1>3. /\ M = After(L, op) /\ sz2[x] = op.size
      /\ \A id \in L \ {x} : sz2[id] = sz[id]
  <2>1. /\ M = After(L, op)
        /\ \A id \in L \ {x} : SizeIn(t, m, id) = SizeIn(t, n, id)
        /\ SizeIn(t, m, x) = op.size
    BY <1>1, BooksStep
  <2> QED
    BY <1>1, <2>1, LiveIsIds DEF SizesAt
<1>4. \A id \in L \ {x} : bl2[id] = bl[id]
  BY <1>1 DEF Moved
<1>5. ASSUME op.type = "REALLOC"
      PROVE  Copied(h, bl, sz, g, bl2, sz2, x)
  <2>1. x \in L /\ x \in M /\ op.size \in Nat
    BY <1>1, <1>3, <1>5, SizesAre DEF OpLegal, After
  <2> PICK c : c = Served(S, bl[x], op)
    OBVIOUS
  <2>2. c.p = r.p /\ c.p # 0
    BY <1>1, <1>2, <1>5, ServedAnswers
  <2>3. bl2[x] = r.p
    BY <1>1, <1>5 DEF Moved
  <2>4. bl2[x] \in Int /\ sz2[x] \in Nat /\ sz[x] \in Nat
    BY <1>2, <2>1, HoldsIs
  <2> SUFFICES ASSUME NEW d \in Nat, 4 * d + 4 <= sz[x], 4 * d + 4 <= sz2[x]
               PROVE  GET(g, bl2[x] + 4 * d) = GET(h, bl[x] + 4 * d)
    BY DEF Copied
  <2> PICK k \in Nat : k = 4 * d + 4
    OBVIOUS
  <2>5. bl2[x] + 4 * d \in Span(bl2[x], k)
    BY <1>2, <2>1, CellIs
  <2> PICK a : a = bl2[x] + 4 * d
    OBVIOUS
  <2>6. a \in Span(c.p, k) /\ a - c.p = 4 * d
    BY <2>2, <2>3, <2>4, <2>5
  <2>7. k <= op.size /\ k <= sz[x]
    BY <1>3
  <2>8. GET(r.heap, a) = GET(h, bl[x] + (a - c.p))
    BY <1>1, <1>2, <1>5, <2>2, <2>6, <2>7, ServedCopies
  <2> QED
    BY <1>1, <2>6, <2>8
<1> QED
  BY <1>1, <1>2, <1>3, <1>4, <1>5 DEF Turns

(* A request of the first pass, as the clients see it: the driver has      *)
(* filled the block it resizes with the block's number, and fills what it  *)
(* gets with the same.                                                     *)
LEMMA ValidTurns ==
  ASSUME NEW h, NEW t, NEW bl, NEW bs, NEW R, Checked(h, t, bl, bs, R),
         NEW op, NEW u, Grows(t, op, u), NEW x, x = op.index,
         NEW g, NEW bl2, NEW bs2, NEW R2, Checked(g, u, bl2, bs2, R2),
         Untouched(h, g, LiveIn(t, Len(t)) \ {x}, bl, bs),
         \A id \in Ids \ {x} : bl2[id] = bl[id],
         NEW n, n = Len(t), NEW m, m = Len(u)
  PROVE  Turns(h, LiveIn(t, n), bl, SizesAt(t, n),
               g, LiveIn(u, m), bl2, SizesAt(u, m), op)
<1> PICK L : L = LiveIn(t, n)
  OBVIOUS
<1> PICK M : M = LiveIn(u, m)
  OBVIOUS
<1> PICK sz : sz = SizesAt(t, n)
  OBVIOUS
<1> PICK sz2 : sz2 = SizesAt(u, m)
  OBVIOUS
<1>1. /\ TraceOK(t) /\ TraceOK(u) /\ n \in Nat /\ SizesKept(t, n, bs) /\ SizesKept(u, m, bs2)
      /\ Marks(h, L, bl, bs) /\ Marks(g, M, bl2, bs2)
  BY TraceIs DEF Checked
<1>2. PICK hist : InStep(h, t, n, bl, hist)
  BY DEF Checked
<1>3. PICK more : InStep(g, u, m, bl2, more)
  BY DEF Checked
<1> PICK S : S = hist[n].shape
  OBVIOUS
<1> PICK W : W = more[m].shape
  OBVIOUS
<1>4. Holds(h, S, L, bl, sz) /\ Holds(g, W, M, bl2, sz2)
  BY <1>2, <1>3 DEF InStep
<1>5. op \in Ops /\ OpLegal(op, L) /\ x \in Ids
  BY DEF Grows, OpLegal
<1>6. /\ m = n + 1 /\ n < m /\ u[m] = op /\ LiveIn(u, n) = L
      /\ \A k \in 1 .. n : u[k] = t[k]
  <2>1. /\ Len(u) = Len(t) + 1 /\ u[Len(t) + 1] = op
        /\ \A k \in 1 .. Len(t) : u[k] = t[k]
        /\ \A k \in 0 .. Len(t) : LiveIn(u, k) = LiveIn(t, k)
    BY <1>1, TraceGrows
  <2>2. n \in 0 .. n
    BY <1>1
  <2>3. m = n + 1
    BY <2>1
  <2>4. n < m
    BY ONLY <1>1, <2>3
  <2> QED
    BY <2>1, <2>2, <2>3, <2>4
<1>7. /\ \A id \in L : sz[id] = bs[id]
      /\ \A id \in M : sz2[id] = bs2[id]
  BY <1>1, LiveIsIds DEF SizesKept, SizesAt
<1>8. /\ M = After(L, op) /\ \A id \in L \ {x} : sz2[id] = sz[id]
  <2>1. /\ M = After(L, op)
        /\ \A id \in L \ {x} : SizeIn(u, m, id) = SizeIn(u, n, id)
    <3>1. n < Len(u) /\ op = u[m] /\ op = u[n + 1]
      BY <1>6
    <3>2. /\ LiveIn(u, m) = After(LiveIn(u, n), op)
          /\ \A id \in LiveIn(u, n) \ {op.index} : SizeIn(u, m, id) = SizeIn(u, n, id)
      <4>1. TraceOK(u) /\ n \in Nat /\ m = n + 1
        BY <1>1, <1>6
      <4> QED
        BY ONLY <3>1, <4>1, BooksStep
    <3> QED
      BY <1>6, <3>2
  <2>2. \A id \in L : SizeIn(u, n, id) = SizeIn(t, n, id)
    <3>1. \A k \in 1 .. n : t[k].index \in Ids
      BY <1>1, TraceIs
    <3> QED
      BY <1>1, <1>6, <3>1, SizeSame
  <2> QED
    BY <2>1, <2>2, LiveIsIds DEF SizesAt
<1>9. Untouched(h, g, L \ {x}, bl, sz)
  BY <1>7 DEF Untouched
<1>10. \A id \in L \ {x} : bl2[id] = bl[id]
  BY LiveIsIds
<1>11. ASSUME op.type = "REALLOC"
       PROVE  Copied(h, bl, sz, g, bl2, sz2, x)
  <2>1. x \in L /\ x \in M
    BY <1>5, <1>8, <1>11 DEF OpLegal, After
  <2>2. sz2[x] \in Nat /\ sz[x] \in Nat
    BY <1>4, <2>1, HoldsIs
  <2> SUFFICES ASSUME NEW d \in Nat, 4 * d + 4 <= sz[x], 4 * d + 4 <= sz2[x]
               PROVE  GET(g, bl2[x] + 4 * d) = GET(h, bl[x] + 4 * d)
    BY DEF Copied
  <2>3. bl2[x] + 4 * d \in Span(bl2[x], sz2[x])
    BY <1>4, <2>1, <2>2, CellIs
  <2>4. bl[x] + 4 * d \in Span(bl[x], sz[x])
    BY <1>4, <2>1, <2>2, CellIs
  <2>5. GET(g, bl2[x] + 4 * d) = Fill(x)
    BY <1>1, <1>7, <2>1, <2>3 DEF Marks
  <2>6. GET(h, bl[x] + 4 * d) = Fill(x)
    BY <1>1, <1>7, <2>1, <2>4 DEF Marks
  <2> QED
    BY <2>5, <2>6
<1> QED
  BY <1>4, <1>5, <1>8, <1>9, <1>10, <1>11 DEF Turns

(* No block is left outside the passes and at the start of one.            *)
LEMMA NoneLive ==
  /\ ~ Started => LiveNow = {}
  /\ i = 0 => LiveNow = {}
<1>1. i = 0 => Live(i) = {}
  BY DEF Live
<1> QED
  BY <1>1 DEF LiveNow

(* The same after a step.                                                  *)
LEMMA NoneLiveNext ==
  /\ ~ Started' => LiveNow' = {}
  /\ i' = 0 => LiveNow' = {}
<1>1. (/\ ~ Started => LiveNow = {}
       /\ i = 0 => LiveNow = {})'
  BY NoneLive, PTL
<1> QED
  BY <1>1

(* The refinement mapping before and after a step.                         *)
LEMMA ViewNow ==
  Started => [id \in LiveNow |-> BlockOf(id)]
               = AbsOf(heap, LiveIn(trace, i), blocks, SizesAt(trace, i))
  BY LiveIsView

(* The same after a step.                                                  *)
LEMMA ViewNext ==
  Started' => ([id \in LiveNow |-> BlockOf(id)])'
                = AbsOf(heap', LiveIn(trace', i'), blocks', SizesAt(trace', i'))
<1>1. (Started => [id \in LiveNow |-> BlockOf(id)]
                    = AbsOf(heap, LiveIn(trace, i), blocks, SizesAt(trace, i)))'
  BY ViewNow, PTL
<1> QED
  BY <1>1

(* The step of the driver that turns one view into the next.               *)
LEMMA TurnsStep ==
  ASSUME NEW op, Started, Started', op.index \in Ids,
         Turns(heap, LiveIn(trace, i), blocks, SizesAt(trace, i),
               heap', LiveIn(trace', i'), blocks', SizesAt(trace', i'), op)
  PROVE  A!Next
<1> PICK a : a = AbsOf(heap, LiveIn(trace, i), blocks, SizesAt(trace, i))
  OBVIOUS
<1> PICK b : b = AbsOf(heap', LiveIn(trace', i'), blocks', SizesAt(trace', i'))
  OBVIOUS
<1>1. Mimics(a, b, op)
  BY TurnsMimic
<1>2. [id \in LiveNow |-> BlockOf(id)] = a
  BY LiveIsView
<1>3. ([id \in LiveNow |-> BlockOf(id)])' = b
  BY ViewNext
<1> QED
  BY <1>1, <1>2, <1>3, MimicStep

(* The steps that begin a pass leave no block.                             *)
LEMMA StartStep ==
  ASSUME IInv, NEW r, StartValid(r) \/ StartUtil(r) \/ StartSpeed(r)
  PROVE  A!Next
<1>1. i' = 0
  BY DEF StartValid, StartUtil, StartSpeed, StartPass
<1>2. LiveNow' = {}
  BY <1>1, NoneLiveNext
<1> QED
  BY <1>2, ResetStep

(* The steps that end a pass leave no block.                               *)
LEMMA StopStep ==
  ASSUME phase' \in {"next trace", "perf index", "errors", "exit"}
  PROVE  A!Next
<1>1. ~ Started'
  BY DEF Started
<1>2. LiveNow' = {}
  BY <1>1, NoneLiveNext
<1> QED
  BY <1>2, ResetStep

(* A request of the first pass is a step of Allocator.                     *)
LEMMA ValidStep ==
  ASSUME IInv, NEW op, NEW r, r = Answer(op),
         ValidAlloc(op, r) \/ ValidRealloc(op, r) \/ ValidFree(op, r.heap)
  PROVE  A!Next
<1>1. NextRequest(op)
  BY DEF ValidAlloc, ValidRealloc, ValidFree
<1>2. IInv' /\ (phase' = "valid" => Unnoticed(op))
  BY ValidAllocInv, ValidReallocInv, ValidFreeInv
<1>3. CASE phase' = "valid"
  <2>1. /\ Grows(trace, op, trace') /\ i' = Len(trace') /\ op.index \in Ids
        /\ Checked(heap, trace, blocks, block_sizes, ranges)
    BY <1>1, RequestGrows
  <2>2. Checked(heap', trace', blocks', block_sizes', ranges')
    BY <1>2, <1>3 DEF IInv, InCheck
  <2>3. i = Len(trace) /\ Started /\ Started'
    BY <1>1, <1>3 DEF NextRequest, IInv, InCheck, Started
  <2>4. \A id \in Ids \ {op.index} : blocks'[id] = blocks[id]
    <3>1. blocks' = blocks \/ blocks' = [blocks EXCEPT ![op.index] = r.p]
      BY <1>3 DEF ValidAlloc, ValidRealloc, ValidFree, Invalid
    <3>2. blocks \in [Ids -> Words \cup {NULL}]
      BY DEF IInv, Sound
    <3> QED
      BY <3>1, <3>2
  <2> PICK h : h = heap
    OBVIOUS
  <2> PICK t : t = trace
    OBVIOUS
  <2> PICK bl : bl = blocks
    OBVIOUS
  <2> PICK bs : bs = block_sizes
    OBVIOUS
  <2> PICK R : R = ranges
    OBVIOUS
  <2> PICK n : n = i
    OBVIOUS
  <2> PICK g : g = heap'
    OBVIOUS
  <2> PICK u : u = trace'
    OBVIOUS
  <2> PICK bl2 : bl2 = blocks'
    OBVIOUS
  <2> PICK bs2 : bs2 = block_sizes'
    OBVIOUS
  <2> PICK R2 : R2 = ranges'
    OBVIOUS
  <2> PICK m : m = i'
    OBVIOUS
  <2> PICK x : x = op.index
    OBVIOUS
  <2>5. Untouched(h, g, LiveIn(t, Len(t)) \ {x}, bl, bs)
    BY <1>2, <1>3, <2>3 DEF Unnoticed
  <2>6. /\ Checked(h, t, bl, bs, R) /\ Checked(g, u, bl2, bs2, R2) /\ Grows(t, op, u)
        /\ n = Len(t) /\ m = Len(u)
    BY <2>1, <2>2, <2>3
  <2>7. \A id \in Ids \ {x} : bl2[id] = bl[id]
    BY <2>4
  <2>8. Turns(h, LiveIn(t, n), bl, SizesAt(t, n), g, LiveIn(u, m), bl2, SizesAt(u, m), op)
    BY <2>5, <2>6, <2>7, ValidTurns
  <2> QED
    BY <2>1, <2>3, <2>8, TurnsStep
<1>4. CASE phase' # "valid"
  <2>1. phase' = "next trace"
    BY <1>1, <1>4 DEF ValidAlloc, ValidRealloc, ValidFree, Invalid, NextRequest
  <2> QED
    BY <2>1, StopStep
<1> QED
  BY <1>3, <1>4

(* A request of a later pass is a step of Allocator.                       *)
LEMMA ReplayStep ==
  ASSUME IInv, NEW op, op = trace[i + 1], NEW r, r = Answer(op), Replay(r)
  PROVE  A!Next
<1>1. PICK hist : Replays(heap, trace, i, blocks, hist, op, r, heap', blocks')
  BY ReplayIs
<1>2. Passes(op) /\ phase \in {"util", "speed"}
  BY ReplayIs
<1>3. trace' = trace /\ i' = i + 1 /\ phase' = phase
  BY <1>2 DEF Passes
<1>4. Started /\ Started'
  BY <1>2, <1>3 DEF Started
<1> PICK h : h = heap
  OBVIOUS
<1> PICK t : t = trace
  OBVIOUS
<1> PICK n : n = i
  OBVIOUS
<1> PICK m : m = n + 1
  OBVIOUS
<1> PICK bl : bl = blocks
  OBVIOUS
<1> PICK g : g = heap'
  OBVIOUS
<1> PICK bl2 : bl2 = blocks'
  OBVIOUS
<1>5. Turns(h, LiveIn(t, n), bl, SizesAt(t, n), g, LiveIn(t, m), bl2, SizesAt(t, m), op)
  BY <1>1, ReplayTurns
<1>6. op.index \in Ids
  BY <1>1 DEF Replays
<1> QED
  BY <1>3, <1>4, <1>5, <1>6, TurnsStep

(* Nothing changes.                                                        *)
LEMMA SameView ==
  ASSUME UNCHANGED vars
  PROVE  UNCHANGED [id \in LiveNow |-> BlockOf(id)]
<1>1. UNCHANGED <<heap, trace, i, phase, blocks>>
  BY DEF vars
<1>2. LiveNow' = LiveNow
  BY <1>1 DEF LiveNow, Live, Started
<1>3. ASSUME NEW id PROVE BlockOf(id)' = BlockOf(id)
  <2>1. SizeNow(id)' = SizeNow(id)
    BY <1>1, Zenon DEF SizeNow
  <2> QED
    BY <1>1, <2>1, Zenon DEF BlockOf
<1> QED
  BY <1>2, <1>3

(* Every step of mdriver is one of Allocator or changes nothing of it.     *)
LEMMA StepRefines ==
  ASSUME IInv, [Next]_vars
  PROVE  A!Next \/ UNCHANGED [id \in LiveNow |-> BlockOf(id)]
<1>1. CASE \E r \in {Fresh} : StartValid(r) \/ StartUtil(r) \/ StartSpeed(r)
  BY <1>1, StartStep
<1>2. ASSUME NEW op \in Requests, Valid(op)
      PROVE  A!Next
  <2>1. PICK r : r = Answer(op) /\ (ValidAlloc(op, r) \/ ValidRealloc(op, r) \/ ValidFree(op, r.heap))
    BY <1>2 DEF Valid
  <2> QED
    BY <2>1, ValidStep
<1>3. CASE Later
  <2>1. PICK op : op = trace[i + 1]
    OBVIOUS
  <2>2. PICK r : r = Answer(op) /\ Replay(r)
    BY <1>3, <2>1 DEF Later
  <2> QED
    BY <2>1, <2>2, ReplayStep
<1>4. CASE EndTrace \/ Report
  <2>1. phase' \in {"next trace", "perf index", "errors"}
    BY <1>4 DEF EndTrace, Report
  <2> QED
    BY <2>1, StopStep
<1>5. CASE UNCHANGED vars
  BY <1>5, SameView
<1> QED
  BY <1>1, <1>2, <1>3, <1>4, <1>5 DEF Next, Main, Ended

(* To the clients of malloc, realloc and free, mm.c under mdriver is the   *)
(* allocator of Allocator: blocks are aligned, lie in the heap, share no   *)
(* byte and keep what was written to them until they are freed, and a      *)
(* resized block begins with what the old one held (mm.c:142-318).         *)
THEOREM ImplementsAllocator == Spec => IsAllocator
<1>1. Init => A!Init
  <2> SUFFICES ASSUME Init PROVE A!Init
    OBVIOUS
  <2>1. LiveNow = {}
    BY NoneLive DEF Init
  <2> QED
    BY <2>1 DEF A!Init
<1>2. IInv /\ [Next]_vars => [A!Next]_([id \in LiveNow |-> BlockOf(id)])
  BY StepRefines
<1> QED
  BY <1>1, <1>2, Inductive, PTL DEF Spec, IsAllocator, A!Spec

-------------------------------------------------------------------------------
(* 11  Any allocator at all                                                *)

(* mdriver around an allocator of which nothing is known.                  *)
Any == INSTANCE AnyDriver

(* A range with its ends in order.                                         *)
IsRange(r) == r \in [lo : Int, hi : Int] /\ r.lo <= r.hi

(* The inductive invariant of any allocator under mdriver.                 *)
RangesInv == Any!PayloadsNest /\ \A r \in ranges : IsRange(r)

(* A list that is well nested stays so when a range is accepted: neither   *)
(* of its ends lies in an old one.                                         *)
LEMMA AcceptedNests ==
  ASSUME NEW rs, \A r \in rs : IsRange(r),
         \A r, s \in rs : r = s \/ Any!Apart(r, s) \/ Any!Inside(r, s) \/ Any!Inside(s, r),
         NEW h, NEW lo \in Int, NEW size \in Nat, size > 0,
         Any!RangeError(rs, h, lo, size) = "none"
  PROVE  /\ \A r \in Any!add_range(rs, lo, size) : IsRange(r)
         /\ \A r, s \in Any!add_range(rs, lo, size) :
              r = s \/ Any!Apart(r, s) \/ Any!Inside(r, s) \/ Any!Inside(s, r)
<1> DEFINE n == Any!Extent(lo, size)
<1>1. n = [lo |-> lo, hi |-> lo + size - 1] /\ IsRange(n)
  BY DEF Any!Extent, IsRange
<1>2. \A p \in rs : ~ Any!Overlaps(n, p)
  BY DEF Any!RangeError
<1>3. ASSUME NEW p \in rs
      PROVE  Any!Apart(n, p) \/ Any!Inside(p, n)
  <2>1. IsRange(p) /\ ~ Any!Overlaps(n, p)
    BY <1>2
  <2>2. /\ ~ (p.lo <= n.lo /\ n.lo <= p.hi)
        /\ ~ (p.lo <= n.hi /\ n.hi <= p.hi)
    BY <2>1 DEF Any!Overlaps
  <2> QED
    BY <1>1, <2>1, <2>2 DEF IsRange, Any!Apart, Any!Inside
<1>4. \A r \in Any!add_range(rs, lo, size) : r \in rs \/ r = n
  BY DEF Any!add_range
<1>5. \A r \in Any!add_range(rs, lo, size) : IsRange(r)
  BY <1>1, <1>4
<1>6. ASSUME NEW r \in Any!add_range(rs, lo, size), NEW s \in Any!add_range(rs, lo, size)
      PROVE  r = s \/ Any!Apart(r, s) \/ Any!Inside(r, s) \/ Any!Inside(s, r)
  <2>1. CASE r \in rs /\ s \in rs
    BY <2>1
  <2>2. CASE r = n /\ s \in rs
    BY <1>3, <2>2
  <2>3. CASE r \in rs /\ s = n
    BY <1>3, <2>3 DEF Any!Apart
  <2> QED
    BY <1>4, <2>1, <2>2, <2>3
<1> QED
  BY <1>5, <1>6

(* Removing ranges from a well nested list leaves one.                     *)
LEMMA FewerNest ==
  ASSUME RangesInv, NEW rs, rs \subseteq ranges
  PROVE  /\ \A r \in rs : IsRange(r)
         /\ \A r, s \in rs : r = s \/ Any!Apart(r, s) \/ Any!Inside(r, s) \/ Any!Inside(s, r)
BY DEF RangesInv, Any!PayloadsNest

(* The sizes of requests.                                                  *)
LEMMA SizesAreWhole ==
  ASSUME NEW op \in Any!Requests
  PROVE  op.type \in {"ALLOC", "REALLOC"} => op.size \in Nat /\ op.size > 0
BY DriverAssumption DEF Any!Requests, Any!Op

(* The list is empty at first.                                             *)
LEMMA NestInit == Any!Init => RangesInv
BY DEF Any!Init, RangesInv, Any!PayloadsNest

(* A list that loses ranges.                                               *)
LEMMA NestFewer ==
  ASSUME RangesInv, ranges' \subseteq ranges
  PROVE  RangesInv'
BY DEF RangesInv, Any!PayloadsNest

(* case ALLOC of the first pass, whatever is answered.                     *)
LEMMA NestAlloc ==
  ASSUME RangesInv, NEW op \in Any!Requests, NEW p \in Int, NEW h,
         Any!ValidAlloc(op, [p |-> p, heap |-> h])
  PROVE  RangesInv'
<1>1. op.size \in Nat /\ op.size > 0
  BY SizesAreWhole DEF Any!ValidAlloc
<1>2. \/ ranges' = ranges
      \/ /\ Any!RangeError(ranges, h, p, op.size) = "none"
         /\ ranges' = Any!add_range(ranges, p, op.size)
  BY DEF Any!ValidAlloc
<1>3. CASE ranges' = ranges
  BY <1>3, NestFewer
<1>4. CASE /\ Any!RangeError(ranges, h, p, op.size) = "none"
           /\ ranges' = Any!add_range(ranges, p, op.size)
  BY <1>1, <1>4, AcceptedNests DEF RangesInv, Any!PayloadsNest
<1> QED
  BY <1>2, <1>3, <1>4

(* case REALLOC of the first pass, whatever is answered.                   *)
LEMMA NestRealloc ==
  ASSUME RangesInv, NEW op \in Any!Requests, NEW p \in Int, NEW h,
         Any!ValidRealloc(op, [p |-> p, heap |-> h])
  PROVE  RangesInv'
<1> DEFINE others == Any!remove_range(ranges, blocks[op.index])
<1>1. op.size \in Nat /\ op.size > 0
  BY SizesAreWhole DEF Any!ValidRealloc
<1>2. others \subseteq ranges
  BY DEF Any!remove_range
<1>3. \/ ranges' = ranges
      \/ ranges' = others
      \/ /\ Any!RangeError(others, h, p, op.size) = "none"
         /\ ranges' = Any!add_range(others, p, op.size)
  BY DEF Any!ValidRealloc
<1>4. CASE ranges' = ranges \/ ranges' = others
  BY <1>2, <1>4, NestFewer
<1>5. CASE /\ Any!RangeError(others, h, p, op.size) = "none"
           /\ ranges' = Any!add_range(others, p, op.size)
  <2>1. /\ \A r \in others : IsRange(r)
        /\ \A r, s \in others : r = s \/ Any!Apart(r, s) \/ Any!Inside(r, s) \/ Any!Inside(s, r)
    BY <1>2, FewerNest
  <2> HIDE DEF others
  <2> QED
    BY <1>1, <1>5, <2>1, AcceptedNests DEF RangesInv, Any!PayloadsNest
<1> QED
  BY <1>3, <1>4, <1>5

(* What an allocator may answer is a number.                               *)
LEMMA AnswersAreAddresses == Any!Answers \subseteq Int
BY MaxHeapAssumption DEF Any!Answers, Any!Words, Any!mem_start_brk, Any!mem_max_addr,
                         Any!NULL, Any!WSIZE, Any!DSIZE

(* Every step of mdriver keeps the list nested.                            *)
LEMMA NestStep == RangesInv /\ [Any!Next]_(Any!vars) => RangesInv'
<1> SUFFICES ASSUME RangesInv, [Any!Next]_(Any!vars) PROVE RangesInv'
  OBVIOUS
<1>1. ASSUME NEW r, Any!StartValid(r) PROVE RangesInv'
  BY <1>1, NestFewer DEF Any!StartValid, Any!clear_ranges
<1>2. ASSUME NEW r, Any!StartUtil(r) \/ Any!StartSpeed(r) PROVE RangesInv'
  BY <1>2, NestFewer DEF Any!StartUtil, Any!StartSpeed, Any!StartPass
<1>3. ASSUME NEW op \in Any!Requests, Any!Valid(op) PROVE RangesInv'
  <2>1. PICK p \in Any!Answers : \E h \in Any!Heaps(op, p) :
          LET r == [p |-> p, heap |-> h]
          IN  Any!ValidAlloc(op, r) \/ Any!ValidRealloc(op, r) \/ Any!ValidFree(op, h)
    BY <1>3 DEF Any!Valid
  <2>6. PICK h \in Any!Heaps(op, p) :
          LET r == [p |-> p, heap |-> h]
          IN  Any!ValidAlloc(op, r) \/ Any!ValidRealloc(op, r) \/ Any!ValidFree(op, h)
    BY <2>1
  <2>2. p \in Int
    BY AnswersAreAddresses
  <2>3. CASE Any!ValidAlloc(op, [p |-> p, heap |-> h])
    BY <2>2, <2>3, NestAlloc
  <2>4. CASE Any!ValidRealloc(op, [p |-> p, heap |-> h])
    BY <2>2, <2>4, NestRealloc
  <2>5. CASE Any!ValidFree(op, h)
    BY <2>5, NestFewer DEF Any!ValidFree, Any!remove_range
  <2> QED
    BY <2>6, <2>3, <2>4, <2>5
<1>4. ASSUME Any!Later PROVE RangesInv'
  BY <1>4, NestFewer DEF Any!Later, Any!Replay
<1>5. ASSUME Any!EndTrace \/ Any!Report \/ Any!Ended \/ UNCHANGED Any!vars PROVE RangesInv'
  BY <1>5, NestFewer DEF Any!EndTrace, Any!Report, Any!Ended, Any!vars
<1> QED
  BY <1>1, <1>2, <1>3, <1>4, <1>5 DEF Any!Next, Any!Main

(* Whatever the allocator answers, mdriver's range list never holds two    *)
(* payloads that meet unless one lies strictly inside the other: what the  *)
(* check of add_range is worth.                                                *)
THEOREM AcceptedPayloadsNest == Any!Spec => []Any!PayloadsNest
<1>1. RangesInv => Any!PayloadsNest
  BY DEF RangesInv
<1> QED
  BY NestInit, NestStep, <1>1, PTL DEF Any!Spec
===============================================================================
