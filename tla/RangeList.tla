------------------------------- MODULE RangeList -------------------------------
(***************************************************************************)
(* The list of payload extents that mdriver keeps to check an allocator:   *)
(* add_range, remove_range and clear_ranges of mdriver.c.  It is a set:    *)
(* the order of the list decides nothing, since no two ranges that         *)
(* add_range accepts begin at the same address.                            *)
(***************************************************************************)
EXTENDS MemLib

IS_ALIGNED(p) == p % 8 = 0

Extent(lo, size) == [lo |-> lo, hi |-> lo + size - 1]

OutsideHeap(h, r) ==
  \E end \in {r.lo, r.hi} : end < mem_heap_lo \/ end > mem_heap_hi(h)

(* The check looks for an end of the new payload inside an old one.        *)
Overlaps(r, p) ==
  \E end \in {r.lo, r.hi} : p.lo <= end /\ end <= p.hi

(* What add_range reports of a new block, or "none" when it accepts it.    *)
RangeError(ranges, h, lo, size) ==
  LET r == Extent(lo, size)
  IN  IF ~ IS_ALIGNED(lo) THEN "not aligned"
      ELSE IF OutsideHeap(h, r) THEN "outside heap"
      ELSE IF \E p \in ranges : Overlaps(r, p) THEN "overlaps"
      ELSE "none"

add_range(ranges, lo, size) == ranges \cup {Extent(lo, size)}

\* (a bug to catch) a freed block's range stays
remove_rangeForgotten(ranges, lo) == ranges

remove_range(ranges, lo) == {p \in ranges : p.lo # lo}

clear_ranges == {}
===============================================================================
