-------------------------------- MODULE MemList --------------------------------
(***************************************************************************)
(* The tracer's list of blocks (linklab utils/memlist.c): items [ptr,      *)
(* size, cnt] in the order of their addresses, after a dummy element that  *)
(* calloc left with a null pointer and no count.  Items are never removed: *)
(* cnt says whether the block is allocated.                                *)
(***************************************************************************)
EXTENDS Integers, SequencesExt

NULL == 0

Item(ptr, size) == [ptr |-> ptr, size |-> size, cnt |-> 1]

dummy == [ptr |-> NULL, size |-> 0, cnt |-> 0]
new_list == << >>

(* Where alloc's search ends: the first item not before ptr.               *)
Place(list, ptr) ==
  LET k == SelectInSeq(list, LAMBDA it : it.ptr >= ptr)
  IN  IF k = 0 THEN Len(list) + 1 ELSE k

\* (a bug to catch) the size of a reused address is not adjusted
allocOldSize(list, ptr, size) ==
  LET k == Place(list, ptr)
  IN  IF k <= Len(list) /\ list[k].ptr = ptr
        THEN [list EXCEPT ![k].cnt = @ + 1]
        ELSE InsertAt(list, k, Item(ptr, size))

(* Once callocp has answered with an element (a refusal is the fault of    *)
(* its caller's step): a new item in its place; or, for an address seen    *)
(* before, the new size and one count more, and the element freed again.   *)
alloc(list, ptr, size) ==
  LET k == Place(list, ptr)
  IN  IF k <= Len(list) /\ list[k].ptr = ptr
        THEN [list EXCEPT ![k].size = size, ![k].cnt = @ + 1]
        ELSE InsertAt(list, k, Item(ptr, size))

\* (a bug to catch) the search begins at the second item
WhereFromSecond(list, ptr) ==
  LET k == SelectInSeq(SubSeq(list, 2, Len(list)), LAMBDA it : it.ptr = ptr)
  IN  IF k = 0 THEN 0 ELSE k + 1

(* The item of ptr, by its place, or 0 where the code returns NULL.        *)
Where(list, ptr) == SelectInSeq(list, LAMBDA it : it.ptr = ptr)

\* (a bug to catch) the count stays
deallocNot(list, k) == list

dealloc(list, k) == [list EXCEPT ![k].cnt = @ - 1]

(* find stops at the first item not before ptr: it needs the order.        *)
find(list, ptr) ==
  LET k == Place(list, ptr)
  IN  IF k <= Len(list) /\ list[k].ptr = ptr THEN k ELSE 0
===============================================================================
