------------------------------- MODULE Allocator -------------------------------
(***************************************************************************)
(* What the driver's clients are promised by malloc, realloc and free: a   *)
(* live block keeps its place, its size and its contents until the block   *)
(* itself is given back; a new block is aligned, lies in the memory there  *)
(* is and shares no byte with another; a resized block begins with the     *)
(* contents of the old one.  A call may fail, and then changes nothing.    *)
(***************************************************************************)
EXTENDS Integers

CONSTANTS Ids,        \* names of blocks
          Sizes,      \* sizes asked for, in bytes, multiples of Unit
          Unit,       \* bytes of a cell of contents
          Alignment,  \* every block begins at a multiple of it
          Low, High   \* the memory: addresses from Low up to, not with, High

VARIABLE live    \* live[id]: where id's block is, its size and its contents

Min2(x, y) == IF x < y THEN x ELSE y
Cells(size) == 0 .. (size \div Unit) - 1

Disjoint(b, c) == b.lo + b.size <= c.lo \/ c.lo + c.size <= b.lo

(* The block of id may be placed among the others.                         *)
Placed(id, blocks) ==
  LET b == blocks[id]
  IN  /\ b.size \in Sizes /\ DOMAIN b.data = Cells(b.size)
      /\ b.lo % Alignment = 0 /\ Low <= b.lo /\ b.lo + b.size <= High
      /\ \A o \in DOMAIN blocks \ {id} : Disjoint(b, blocks[o])

Others(id) == \A o \in DOMAIN live \ {id} : live'[o] = live[o]

Malloc(id) ==
  /\ id \notin DOMAIN live
  /\ DOMAIN live' = DOMAIN live \cup {id}
  /\ Others(id) /\ Placed(id, live')

Realloc(id) ==
  /\ id \in DOMAIN live
  /\ DOMAIN live' = DOMAIN live
  /\ Others(id) /\ Placed(id, live')
  /\ \A c \in Cells(Min2(live[id].size, live'[id].size)) :
        live'[id].data[c] = live[id].data[c]

Free(id) ==
  /\ id \in DOMAIN live
  /\ DOMAIN live' = DOMAIN live \ {id}
  /\ Others(id)

(* The driver resets the allocator: no block is left.                      *)
Reset == DOMAIN live' = {}

Init == DOMAIN live = {}
Next == Reset \/ \E id \in Ids : Malloc(id) \/ Realloc(id) \/ Free(id)
Spec == Init /\ [][Next]_live
===============================================================================
