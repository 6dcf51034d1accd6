---------------------------- MODULE MemTraceProofs ----------------------------
(***************************************************************************)
(* The tracer's list and what its wrappers say, for any addresses, request *)
(* sizes and numbers of calls.                                             *)
(***************************************************************************)
EXTENDS MemTrace, SequenceTheorems, FiniteSetTheorems, WellFoundedInduction, TLAPS

USE DEF NULL

Pointers == Addr \cup {NULL}
Counted == [ptr : Pointers, size : 0 .. SizeRange - 1, cnt : Int]

(* The list keeps the order of addresses, and holds none twice.            *)
Sorted(l) == \A j, k \in 1 .. Len(l) : j < k => l[j].ptr < l[k].ptr

Items(l) == {l[k] : k \in 1 .. Len(l)}

(* The counts of an address: none while there is no item.                  *)
Count(l, p) == IF Where(l, p) = 0 THEN 0 ELSE l[Where(l, p)].cnt

LEMMA PointersAreNatural ==
  /\ Pointers \subseteq Nat /\ Addr \subseteq Pointers /\ NULL \in Pointers
  /\ NULL \notin Addr /\ SizeRange \in Nat /\ Requests \subseteq 1 .. SizeRange - 1
  BY MemTraceAssumption DEF Pointers

(* A non-empty set of naturals has a least element.                        *)
LEMMA LeastNatural ==
  ASSUME NEW T \in SUBSET Nat, T # {}
  PROVE  \E x \in T : \A y \in T : x <= y
<1>1. PICK x \in T : \A y \in T : ~ (<<y, x>> \in OpToRel(<, Nat))
  <2> DEFINE R == OpToRel(<, Nat)
  <2>1. IsWellFoundedOn(R, Nat)
    BY NatLessThanWellFounded
  <2> HIDE DEF R
  <2>2. \E x \in T : \A y \in T : ~ (<<y, x>> \in R)
    BY ONLY <2>1, WFMin, T \in SUBSET Nat, T # {}
  <2> QED
    BY <2>2 DEF R
<1>2. ASSUME NEW y \in T PROVE x <= y
  <2>1. x \in Nat /\ y \in Nat
    OBVIOUS
  <2>2. ~ (y < x)
    BY <1>1, <2>1 DEF OpToRel
  <2> QED
    BY ONLY <2>1, <2>2
<1> QED
  BY <1>2

LEMMA WhereIs ==
  ASSUME NEW l \in Seq(Counted), Sorted(l), NEW p \in Pointers
  PROVE  /\ Where(l, p) \in 0 .. Len(l)
         /\ Where(l, p) # 0 => l[Where(l, p)].ptr = p
         /\ \A k \in 1 .. Len(l) : l[k].ptr = p <=> k = Where(l, p)
<1> USE PointersAreNatural
<1> DEFINE I == {k \in 1 .. Len(l) : l[k].ptr = p}
<1>1. Where(l, p) = IF I # {} THEN Min(I) ELSE 0
  BY DEF Where, SelectInSeq
<1>2. \A j, k \in I : j = k
  <2> SUFFICES ASSUME NEW j \in I, NEW k \in I, j < k PROVE FALSE
    OBVIOUS
  <2>1. l[j].ptr < l[k].ptr
    BY DEF Sorted
  <2> QED
    BY <2>1
<1>3. I # {} => Min(I) \in I
  <2> SUFFICES ASSUME I # {} PROVE Min(I) \in I
    OBVIOUS
  <2>1. \E x \in I : \A y \in I : x <= y
    BY <1>2
  <2> HIDE DEF I
  <2> QED
    BY <2>1 DEF Min
<1>4. Len(l) \in Nat
  OBVIOUS
<1>5. CASE I = {}
  BY <1>1, <1>4, <1>5
<1>6. CASE I # {}
  <2>1. Where(l, p) \in I
    BY <1>1, <1>3, <1>6
  <2> QED
    BY <1>2, <1>4, <2>1
<1> QED
  BY <1>5, <1>6

LEMMA PlaceIs ==
  ASSUME NEW l \in Seq(Counted), Sorted(l), NEW p \in Pointers
  PROVE  /\ Place(l, p) \in 1 .. Len(l) + 1
         /\ \A k \in 1 .. Len(l) : l[k].ptr < p <=> k < Place(l, p)
<1> USE PointersAreNatural
<1> DEFINE I == {k \in 1 .. Len(l) : l[k].ptr >= p}
           F == IF I # {} THEN Min(I) ELSE 0
<1>1. Place(l, p) = IF F = 0 THEN Len(l) + 1 ELSE F
  BY DEF Place, SelectInSeq
<1>2. I # {} => Min(I) \in I /\ \A j \in I : Min(I) <= j
  <2> SUFFICES ASSUME I # {} PROVE Min(I) \in I /\ \A j \in I : Min(I) <= j
    OBVIOUS
  <2>1. \E x \in I : \A y \in I : x <= y
    <3>1. I \in SUBSET Nat
      OBVIOUS
    <3> HIDE DEF I
    <3> QED
      BY <3>1, LeastNatural
  <2> HIDE DEF I
  <2> QED
    BY <2>1 DEF Min
<1>3. Len(l) \in Nat /\ \A k \in 1 .. Len(l) : l[k].ptr \in Nat
  <2>1. \A k \in 1 .. Len(l) : l[k] \in Counted
    OBVIOUS
  <2>2. \A it \in Counted : it.ptr \in Nat
    BY DEF Counted
  <2> QED
    BY <2>1, <2>2
<1>4. CASE I = {}
  <2>1. Place(l, p) = Len(l) + 1
    BY <1>1, <1>4
  <2>2. \A k \in 1 .. Len(l) : l[k].ptr < p /\ k < Len(l) + 1
    BY <1>3, <1>4
  <2> QED
    BY <1>3, <2>1, <2>2
<1>5. CASE I # {}
  <2>1. /\ Place(l, p) = Min(I) /\ Min(I) \in 1 .. Len(l) /\ l[Min(I)].ptr >= p
        /\ \A j \in I : Min(I) <= j
    BY <1>1, <1>2, <1>5
  <2>2. PICK m \in 1 .. Len(l) : m = Place(l, p)
    BY <2>1
  <2>3. l[m].ptr >= p /\ \A j \in 1 .. Len(l) : l[j].ptr >= p => m <= j
    BY <2>1, <2>2
  <2>4. \A k \in 1 .. Len(l) : l[k].ptr < p <=> k < m
    <3> TAKE k \in 1 .. Len(l)
    <3>1. CASE k < m
      BY <1>3, <2>3, <3>1
    <3>2. CASE k >= m
      <4>1. k = m \/ l[m].ptr < l[k].ptr
        BY <3>2 DEF Sorted
      <4> QED
        BY <1>3, <2>3, <3>2, <4>1
    <3> QED
      BY <3>1, <3>2
  <2> QED
    BY <1>3, <2>2, <2>4
<1> QED
  BY <1>4, <1>5

(* The search that stops early finds what a search to the end finds.       *)
LEMMA FindIsWhere ==
  ASSUME NEW l \in Seq(Counted), Sorted(l), NEW p \in Pointers
  PROVE  find(l, p) = Where(l, p)
<1>1. PICK m \in 1 .. Len(l) + 1 : m = Place(l, p)
  BY PlaceIs
<1>2. \A k \in 1 .. Len(l) : l[k].ptr < p <=> k < m
  BY <1>1, PlaceIs
<1>3. find(l, p) = IF m <= Len(l) /\ l[m].ptr = p THEN m ELSE 0
  BY <1>1 DEF find
<1>4. PICK w \in 0 .. Len(l) : w = Where(l, p)
  BY WhereIs
<1>5. /\ w # 0 => l[w].ptr = p
      /\ \A k \in 1 .. Len(l) : l[k].ptr = p <=> k = w
  BY <1>4, WhereIs
<1>6. CASE w = 0
  <2>1. ~ (m <= Len(l) /\ l[m].ptr = p)
    BY <1>5, <1>6
  <2> QED
    BY <1>3, <1>4, <1>6, <2>1
<1>7. CASE w # 0
  <2>1. w \in 1 .. Len(l) /\ l[w].ptr = p
    BY <1>5, <1>7
  <2>2. ~ (w < m)
    BY <1>2, <2>1, PointersAreNatural
  <2>3. m <= Len(l)
    BY <2>1, <2>2
  <2>4. ~ (m < w)
    <3> SUFFICES ASSUME m < w PROVE FALSE
      OBVIOUS
    <3>1. l[m].ptr < l[w].ptr
      BY <2>1, <2>3 DEF Sorted
    <3>2. ~ (l[m].ptr < p)
      BY <1>2, <2>3
    <3> QED
      BY <2>1, <3>1, <3>2
  <2>5. m = w
    BY <2>1, <2>2, <2>4
  <2> QED
    BY <1>3, <1>4, <2>1, <2>3, <2>5
<1> QED
  BY <1>6, <1>7

(* Where an item is put in.                                                *)
LEMMA InsertIs ==
  ASSUME NEW S, NEW l \in Seq(S), NEW e \in S, NEW k \in 1 .. Len(l) + 1
  PROVE  /\ InsertAt(l, k, e) \in Seq(S)
         /\ Len(InsertAt(l, k, e)) = Len(l) + 1
         /\ \A j \in 1 .. Len(l) + 1 :
              InsertAt(l, k, e)[j] = IF j < k THEN l[j] ELSE IF j = k THEN e ELSE l[j - 1]
<1>0. Len(l) \in Nat
  OBVIOUS
<1>1. /\ SubSeq(l, 1, k - 1) \in Seq(S)
      /\ Len(SubSeq(l, 1, k - 1)) = k - 1
      /\ \A j \in 1 .. k - 1 : SubSeq(l, 1, k - 1)[j] = l[j]
  <2>1. PICK n \in Int : n = k - 1
    OBVIOUS
  <2>2. \A i \in 1 .. n : l[i] \in S
    BY <1>0, <2>1
  <2>3. /\ SubSeq(l, 1, n) \in Seq(S)
        /\ Len(SubSeq(l, 1, n)) = IF 1 <= n THEN n - 1 + 1 ELSE 0
        /\ \A j \in 1 .. n - 1 + 1 : SubSeq(l, 1, n)[j] = l[1 + j - 1]
    <3> HIDE <2>1
    <3> QED
      BY ONLY <2>2, n \in Int, 1 \in Int, SubSeqProperties
  <2>4. n \in Nat /\ n - 1 + 1 = n /\ Len(SubSeq(l, 1, n)) = n
    BY <1>0, <2>1, <2>3
  <2>5. \A j \in 1 .. n : SubSeq(l, 1, n)[j] = l[j]
    <3> TAKE j \in 1 .. n
    <3>1. 1 + j - 1 = j
      OBVIOUS
    <3> QED
      BY <2>3, <2>4, <3>1
  <2> QED
    BY <2>1, <2>3, <2>4, <2>5
<1>2. /\ SubSeq(l, k, Len(l)) \in Seq(S)
      /\ Len(SubSeq(l, k, Len(l))) = Len(l) - k + 1
      /\ \A j \in 1 .. Len(l) - k + 1 : SubSeq(l, k, Len(l))[j] = l[k + j - 1]
  <2>1. PICK n \in Int : n = Len(l)
    BY <1>0
  <2>2. k \in Int /\ \A i \in k .. n : l[i] \in S
    BY <1>0, <2>1
  <2>3. /\ SubSeq(l, k, n) \in Seq(S)
        /\ Len(SubSeq(l, k, n)) = IF k <= n THEN n - k + 1 ELSE 0
        /\ \A j \in 1 .. n - k + 1 : SubSeq(l, k, n)[j] = l[k + j - 1]
    BY ONLY <2>2, n \in Int, SubSeqProperties
  <2> QED
    BY <1>0, <2>1, <2>3
<1>3. PICK a \in Seq(S) : a = SubSeq(l, 1, k - 1)
  BY <1>1
<1>4. Len(a) = k - 1 /\ \A j \in 1 .. k - 1 : a[j] = l[j]
  BY <1>1, <1>3
<1>5. PICK c \in Seq(S) : c = SubSeq(l, k, Len(l))
  BY <1>2
<1>6. Len(c) = Len(l) - k + 1 /\ \A j \in 1 .. Len(l) - k + 1 : c[j] = l[k + j - 1]
  BY <1>2, <1>5
<1>7. PICK b \in Seq(S) : b = <<e>> /\ Len(b) = 1 /\ b[1] = e
  <2>1. <<e>> \in Seq(S) /\ Len(<<e>>) = 1 /\ <<e>>[1] = e
    BY ONLY e \in S
  <2> QED
    BY <2>1
<1>8. PICK ab \in Seq(S) : ab = a \o b
  BY ConcatProperties
<1>9. /\ Len(ab) = k
      /\ \A j \in 1 .. k : ab[j] = IF j < k THEN l[j] ELSE e
  <2>1. Len(ab) = k /\ \A j \in 1 .. k : ab[j] = IF j <= k - 1 THEN a[j] ELSE b[j - (k - 1)]
    <3>1. k - 1 \in Nat /\ Len(a) + Len(b) = k
      BY <1>0, <1>4, <1>7
    <3> QED
      BY <1>4, <1>8, <3>1, ConcatProperties
  <2>2. ASSUME NEW j \in 1 .. k PROVE ab[j] = IF j < k THEN l[j] ELSE e
    <3>1. CASE j < k
      BY <1>4, <2>1, <3>1
    <3>2. CASE j = k
      <4>1. j - (k - 1) = 1 /\ ~ (j <= k - 1)
        BY <3>2
      <4>2. ab[j] = b[j - (k - 1)]
        BY <2>1, <4>1
      <4> QED
        BY <1>7, <3>2, <4>1, <4>2
    <3> QED
      BY <3>1, <3>2
  <2> QED
    BY <2>1, <2>2
<1>10. InsertAt(l, k, e) = ab \o c
  BY <1>3, <1>5, <1>7, <1>8 DEF InsertAt
<1>11. /\ ab \o c \in Seq(S)
       /\ Len(ab \o c) = k + Len(c)
       /\ \A j \in 1 .. k + Len(c) : (ab \o c)[j] = IF j <= k THEN ab[j] ELSE c[j - k]
  BY <1>9, ConcatProperties
<1>12. k + Len(c) = Len(l) + 1
  BY <1>0, <1>6
<1>13. ASSUME NEW j \in 1 .. Len(l) + 1
       PROVE  (ab \o c)[j] = IF j < k THEN l[j] ELSE IF j = k THEN e ELSE l[j - 1]
  <2>1. CASE j <= k
    BY <1>9, <1>11, <1>12, <2>1
  <2>2. CASE j > k
    <3>1. j - k \in 1 .. Len(l) - k + 1 /\ k + (j - k) - 1 = j - 1
      BY <1>0, <2>2
    <3> QED
      BY <1>6, <1>11, <1>12, <2>2, <3>1
  <2>3. j <= k \/ j > k
    BY <1>0
  <2> QED
    BY ONLY <2>1, <2>2, <2>3
<1> QED
  BY <1>10, <1>11, <1>12, <1>13

(* alloc keeps the order, and changes or adds the one item of the address. *)
LEMMA AllocIs ==
  ASSUME NEW l \in Seq(Counted), Sorted(l), NEW p \in Pointers,
         NEW size \in 0 .. SizeRange - 1
  PROVE  /\ alloc(l, p, size) \in Seq(Counted)
         /\ Sorted(alloc(l, p, size))
         /\ Items(alloc(l, p, size)) =
              {it \in Items(l) : it.ptr # p}
                \cup {[ptr |-> p, size |-> size, cnt |-> Count(l, p) + 1]}
<1>0. /\ Len(l) \in Nat
      /\ \A j \in 1 .. Len(l) : l[j] \in Counted /\ l[j].ptr \in Nat /\ l[j].cnt \in Int
      /\ p \in Nat
  <2>1. \A it \in Counted : it.ptr \in Nat /\ it.cnt \in Int
    BY PointersAreNatural DEF Counted
  <2> QED
    BY <2>1, PointersAreNatural
<1>1. PICK k \in 1 .. Len(l) + 1 : k = Place(l, p)
  BY PlaceIs
<1>2. \A j \in 1 .. Len(l) : l[j].ptr < p <=> j < k
  BY <1>1, PlaceIs
<1>3. PICK w \in 0 .. Len(l) : w = Where(l, p)
  BY WhereIs
<1>4. /\ w # 0 => l[w].ptr = p
      /\ \A j \in 1 .. Len(l) : l[j].ptr = p <=> j = w
  BY <1>3, WhereIs
<1>5. CASE k <= Len(l) /\ l[k].ptr = p
  <2>1. w = k
    BY <1>4, <1>5
  <2> DEFINE e == [ptr |-> p, size |-> size, cnt |-> Count(l, p) + 1]
  <2>2. Count(l, p) = l[k].cnt
    BY <1>3, <2>1 DEF Count
  <2>3. e \in Counted
    BY <1>0, <1>5, <2>2 DEF Counted
  <2>4. [l[k] EXCEPT !.size = size, !.cnt = @ + 1] = e
    <3>1. ASSUME NEW it \in Counted
          PROVE  [it EXCEPT !.size = size, !.cnt = @ + 1]
                   = [ptr |-> it.ptr, size |-> size, cnt |-> it.cnt + 1]
      <4>1. PICK a : a = [it EXCEPT !.size = size]
        OBVIOUS
      <4>2. a = [ptr |-> it.ptr, size |-> size, cnt |-> it.cnt]
        BY <4>1 DEF Counted
      <4>3. [a EXCEPT !.cnt = it.cnt + 1] = [ptr |-> it.ptr, size |-> size, cnt |-> it.cnt + 1]
        BY ONLY <4>2
      <4> QED
        BY ONLY <4>1, <4>3, Zenon
    <3>2. l[k] \in Counted
      BY <1>5
    <3> QED
      BY <1>5, <2>2, <3>1, <3>2
  <2>5. alloc(l, p, size) = [l EXCEPT ![k] = e]
    <3>1. alloc(l, p, size) = [l EXCEPT ![k].size = size, ![k].cnt = @ + 1]
      BY <1>1, <1>5 DEF alloc
    <3>2. [l EXCEPT ![k].size = size, ![k].cnt = @ + 1]
            = [l EXCEPT ![k] = [l[k] EXCEPT !.size = size, !.cnt = @ + 1]]
      BY <1>0, <1>5 DEF Counted
    <3> QED
      BY <2>4, <3>1, <3>2
  <2> PICK f \in Counted : f = e
    BY <2>3
  <2> HIDE DEF e
  <2> PICK m \in Seq(Counted) : /\ m = [l EXCEPT ![k] = f]
                               /\ Len(m) = Len(l)
                               /\ \A j \in 1 .. Len(l) : m[j] = IF j = k THEN f ELSE l[j]
    <3>1. k \in 1 .. Len(l)
      BY <1>0, <1>5
    <3>2. /\ [l EXCEPT ![k] = f] \in Seq(Counted)
          /\ Len([l EXCEPT ![k] = f]) = Len(l)
          /\ \A j \in 1 .. Len(l) : [l EXCEPT ![k] = f][j] = IF j = k THEN f ELSE l[j]
      BY ONLY l \in Seq(Counted), f \in Counted, <3>1, ExceptSeq
    <3> QED
      BY <3>2
  <2>6. f.ptr = p
    BY DEF e
  <2>7. \A j \in 1 .. Len(l) : m[j].ptr = l[j].ptr
    BY <1>5, <2>6
  <2>8. Sorted(m)
    BY <2>7 DEF Sorted
  <2>9. Items(m) = {it \in Items(l) : it.ptr # p} \cup {f}
    BY <1>4, <1>5, <2>1 DEF Items
  <2> QED
    BY <2>5, <2>8, <2>9 DEF e
<1>6. CASE ~ (k <= Len(l) /\ l[k].ptr = p)
  <2>1. \A j \in 1 .. Len(l) : l[j].ptr # p
    <3> SUFFICES ASSUME NEW j \in 1 .. Len(l), l[j].ptr = p PROVE FALSE
      OBVIOUS
    <3>1. k < j
      <4>1. ~ (j < k)
        BY <1>0, <1>2
      <4> QED
        BY <1>6, <4>1
    <3>2. l[k].ptr < l[j].ptr /\ k \in 1 .. Len(l)
      BY <3>1 DEF Sorted
    <3> QED
      BY <1>0, <1>2, <3>2
  <2>2. w = 0
    BY <1>4, <2>1
  <2> PICK f \in Counted : f = Item(p, size)
    <3>1. Item(p, size) \in Counted
      BY DEF Item, Counted
    <3> QED
      BY <3>1
  <2>3. [ptr |-> p, size |-> size, cnt |-> Count(l, p) + 1] = f
    BY <1>3, <2>2 DEF Count, Item
  <2> PICK m \in Seq(Counted) :
             /\ m = InsertAt(l, k, f) /\ Len(m) = Len(l) + 1
             /\ \A j \in 1 .. Len(l) + 1 :
                  m[j] = IF j < k THEN l[j] ELSE IF j = k THEN f ELSE l[j - 1]
    <3>1. /\ InsertAt(l, k, f) \in Seq(Counted)
          /\ Len(InsertAt(l, k, f)) = Len(l) + 1
          /\ \A j \in 1 .. Len(l) + 1 :
               InsertAt(l, k, f)[j] = IF j < k THEN l[j] ELSE IF j = k THEN f ELSE l[j - 1]
      BY ONLY l \in Seq(Counted), f \in Counted, k \in 1 .. Len(l) + 1, InsertIs
    <3> QED
      BY <3>1
  <2>4. alloc(l, p, size) = m
    BY <1>1, <1>6 DEF alloc
  <2>5. f.ptr = p
    BY DEF Item
  <2>6. Sorted(m)
    <3> SUFFICES ASSUME NEW i \in 1 .. Len(l) + 1, NEW j \in 1 .. Len(l) + 1, i < j
                 PROVE  m[i].ptr < m[j].ptr
      BY DEF Sorted
    <3>1. CASE j < k
      <4>1. i \in 1 .. Len(l) /\ j \in 1 .. Len(l) /\ m[i] = l[i] /\ m[j] = l[j]
        BY <3>1
      <4> QED
        BY <4>1 DEF Sorted
    <3>2. CASE j = k
      <4>1. i \in 1 .. Len(l) /\ m[i] = l[i] /\ m[j] = f /\ i < k
        BY <3>2
      <4> QED
        BY <1>2, <2>5, <4>1
    <3>3. CASE j > k /\ i < k
      <4>1. i \in 1 .. Len(l) /\ j - 1 \in 1 .. Len(l) /\ m[i] = l[i] /\ m[j] = l[j - 1]
            /\ i < j - 1
        BY <3>3
      <4> QED
        BY <4>1 DEF Sorted
    <3>4. CASE j > k /\ i = k
      <4>1. j - 1 \in 1 .. Len(l) /\ m[i] = f /\ m[j] = l[j - 1] /\ ~ (j - 1 < k)
        BY <3>4
      <4>2. ~ (l[j - 1].ptr < p) /\ l[j - 1].ptr # p
        BY <1>2, <2>1, <4>1
      <4> QED
        BY <1>0, <2>5, <4>1, <4>2
    <3>5. CASE j > k /\ i > k
      <4>1. i - 1 \in 1 .. Len(l) /\ j - 1 \in 1 .. Len(l)
            /\ m[i] = l[i - 1] /\ m[j] = l[j - 1] /\ i - 1 < j - 1
        BY <3>5
      <4> QED
        BY <4>1 DEF Sorted
    <3> QED
      BY <3>1, <3>2, <3>3, <3>4, <3>5
  <2>7. Items(m) = {it \in Items(l) : it.ptr # p} \cup {f}
    <3>1. ASSUME NEW j \in 1 .. Len(m)
          PROVE  m[j] = f \/ \E i \in 1 .. Len(l) : m[j] = l[i]
      <4>1. CASE j < k
        BY <4>1
      <4>2. CASE j = k
        BY <4>2
      <4>3. CASE j > k
        <5>1. j - 1 \in 1 .. Len(l) /\ m[j] = l[j - 1]
          BY <4>3
        <5> QED
          BY <5>1
      <4> QED
        BY <4>1, <4>2, <4>3
    <3>2. ASSUME NEW j \in 1 .. Len(l)
          PROVE  \E i \in 1 .. Len(m) : l[j] = m[i]
      <4>1. CASE j < k
        <5>1. j \in 1 .. Len(m) /\ m[j] = l[j]
          BY <1>0, <4>1
        <5> QED
          BY <5>1
      <4>2. CASE j >= k
        <5>1. j + 1 \in 1 .. Len(m) /\ ~ (j + 1 < k) /\ j + 1 # k /\ (j + 1) - 1 = j
          BY <4>2
        <5> QED
          BY <5>1
      <4> QED
        BY <4>1, <4>2
    <3>3. k \in 1 .. Len(m) /\ m[k] = f
      OBVIOUS
    <3> QED
      BY <2>1, <3>1, <3>2, <3>3 DEF Items
  <2> QED
    BY <2>3, <2>4, <2>6, <2>7
<1> QED
  BY <1>5, <1>6

(* dealloc changes the count of one item, and nothing else.                *)
LEMMA DeallocIs ==
  ASSUME NEW l \in Seq(Counted), Sorted(l), NEW k \in 1 .. Len(l)
  PROVE  /\ dealloc(l, k) \in Seq(Counted)
         /\ Sorted(dealloc(l, k))
         /\ Items(dealloc(l, k)) =
              {it \in Items(l) : it.ptr # l[k].ptr} \cup {[l[k] EXCEPT !.cnt = @ - 1]}
<1>1. PICK e \in Counted : e = [l[k] EXCEPT !.cnt = @ - 1] /\ e.ptr = l[k].ptr
  <2>1. ASSUME NEW it \in Counted
        PROVE  [it EXCEPT !.cnt = @ - 1] \in Counted /\ [it EXCEPT !.cnt = @ - 1].ptr = it.ptr
    <3>1. it.cnt - 1 \in Int
      BY DEF Counted
    <3>2. PICK c \in Int : c = it.cnt - 1
      BY <3>1
    <3>3. [it EXCEPT !.cnt = c] \in Counted /\ [it EXCEPT !.cnt = c].ptr = it.ptr
      BY ONLY it \in Counted, c \in Int DEF Counted
    <3> QED
      BY <3>2, <3>3
  <2>2. l[k] \in Counted
    OBVIOUS
  <2> QED
    BY <2>1, <2>2
<1>2. dealloc(l, k) = [l EXCEPT ![k] = e]
  BY <1>1 DEF dealloc
<1> PICK m \in Seq(Counted) : /\ m = [l EXCEPT ![k] = e]
                             /\ Len(m) = Len(l)
                             /\ \A j \in 1 .. Len(l) : m[j] = IF j = k THEN e ELSE l[j]
  <2>1. /\ [l EXCEPT ![k] = e] \in Seq(Counted)
        /\ Len([l EXCEPT ![k] = e]) = Len(l)
        /\ \A j \in 1 .. Len(l) : [l EXCEPT ![k] = e][j] = IF j = k THEN e ELSE l[j]
    BY ONLY l \in Seq(Counted), e \in Counted, k \in 1 .. Len(l), ExceptSeq
  <2> QED
    BY <2>1
<1>3. \A j \in 1 .. Len(l) : m[j].ptr = l[j].ptr
  BY <1>1
<1>4. Sorted(m)
  BY <1>3 DEF Sorted
<1>5. \A j \in 1 .. Len(l) : l[j].ptr = l[k].ptr <=> j = k
  <2>1. l[k].ptr \in Pointers
    <3>1. l[k] \in Counted
      OBVIOUS
    <3> QED
      BY <3>1 DEF Counted
  <2> QED
    BY <2>1, WhereIs
<1>6. Items(m) = {it \in Items(l) : it.ptr # l[k].ptr} \cup {e}
  BY <1>5 DEF Items
<1> QED
  BY <1>1, <1>2, <1>4, <1>6


(* What the list knows of an address.                                      *)
Known(l) == {it.ptr : it \in Items(l)}

(* An item of l is right about the blocks m: those counted once are the    *)
(* blocks, and the item of NULL has no bytes.                              *)
Right(it, m) ==
  IF it.ptr \in DOMAIN m THEN it.cnt = 1 /\ it.size = m[it.ptr]
  ELSE IF it.ptr = NULL THEN it.size = 0
  ELSE it.cnt = 0

Booked(l, m) == \A it \in Items(l) : Right(it, m)

(* The blocks m with one more at p, unless p is NULL; and with one less.   *)
Grown(n, m, p, size) ==
  /\ DOMAIN n = DOMAIN m \cup ({p} \ {NULL})
  /\ \A a \in DOMAIN n : n[a] = IF a = p THEN size ELSE m[a]

Shrunk(n, m, p) ==
  /\ DOMAIN n = DOMAIN m \ {p}
  /\ \A a \in DOMAIN n : n[a] = m[a]

LEMMA ItemsAre ==
  ASSUME NEW l \in Seq(Counted), Sorted(l)
  PROVE  /\ Items(l) \subseteq Counted /\ Known(l) \subseteq Pointers
         /\ \A a, b \in Items(l) : a.ptr = b.ptr => a = b
         /\ \A k \in 1 .. Len(l) : l[k] \in Items(l)
         /\ \A p \in Pointers :
              /\ Where(l, p) # 0 <=> p \in Known(l)
              /\ Where(l, p) # 0 => /\ Where(l, p) \in 1 .. Len(l)
                                    /\ l[Where(l, p)] \in Items(l)
                                    /\ l[Where(l, p)].ptr = p
              /\ \A it \in Items(l) : it.ptr = p => Count(l, p) = it.cnt
              /\ p \notin Known(l) => Count(l, p) = 0
              /\ Count(l, p) \in Int
<1>1. Items(l) \subseteq Counted
  BY DEF Items
<1>2. \A it \in Counted : it.ptr \in Pointers /\ it.cnt \in Int
  BY DEF Counted
<1>3. Known(l) \subseteq Pointers
  BY <1>1, <1>2 DEF Known
<1>4. \A k \in 1 .. Len(l) : l[k] \in Items(l)
  BY DEF Items
<1>5. ASSUME NEW p \in Pointers
      PROVE  /\ \A a, b \in Items(l) : a.ptr = p /\ b.ptr = p => a = b
             /\ Where(l, p) # 0 <=> p \in Known(l)
             /\ Where(l, p) # 0 => /\ Where(l, p) \in 1 .. Len(l)
                                   /\ l[Where(l, p)] \in Items(l)
                                   /\ l[Where(l, p)].ptr = p
             /\ \A it \in Items(l) : it.ptr = p => Count(l, p) = it.cnt
             /\ p \notin Known(l) => Count(l, p) = 0
             /\ Count(l, p) \in Int
  <2>1. PICK w \in 0 .. Len(l) : w = Where(l, p)
    BY WhereIs
  <2>2. /\ w # 0 => l[w].ptr = p
        /\ \A k \in 1 .. Len(l) : l[k].ptr = p <=> k = w
    BY <2>1, WhereIs
  <2>3. \A it \in Items(l) : it.ptr = p => w \in 1 .. Len(l) /\ it = l[w]
    BY <2>2 DEF Items
  <2>4. w # 0 => w \in 1 .. Len(l) /\ l[w] \in Items(l)
    BY <1>4
  <2>5. Count(l, p) = IF w = 0 THEN 0 ELSE l[w].cnt
    BY <2>1 DEF Count
  <2>6. w # 0 <=> p \in Known(l)
    BY <2>2, <2>3, <2>4 DEF Known
  <2>7. Count(l, p) \in Int
    BY <1>1, <1>2, <2>4, <2>5
  <2>8. \A it \in Items(l) : it.ptr = p => Count(l, p) = it.cnt
    BY <2>3, <2>5
  <2>9. \A a, b \in Items(l) : a.ptr = p /\ b.ptr = p => a = b
    BY <2>3
  <2> QED
    BY <2>1, <2>2, <2>4, <2>5, <2>6, <2>7, <2>8, <2>9
<1>6. \A a, b \in Items(l) : a.ptr = b.ptr => a = b
  BY <1>1, <1>2, <1>5
<1> QED
  BY <1>1, <1>3, <1>4, <1>5, <1>6

(* What alloc and dealloc do to a list that is right about the blocks.     *)
LEMMA AllocBooks ==
  ASSUME NEW l \in Seq(Counted), Sorted(l), NEW p \in Pointers,
         NEW size \in 0 .. SizeRange - 1
  PROVE  /\ alloc(l, p, size) \in Seq(Counted) /\ Sorted(alloc(l, p, size))
         /\ Known(alloc(l, p, size)) = Known(l) \cup {p}
         /\ \A it \in Items(alloc(l, p, size)) : it.ptr = p => it.size = size
         /\ \A it \in Items(alloc(l, p, size)) : it.ptr # p => it \in Items(l)
         /\ \A m, n : /\ Booked(l, m) /\ DOMAIN m \subseteq Addr
                      /\ p \notin DOMAIN m /\ (p = NULL => size = 0)
                      /\ Grown(n, m, p, size)
                      => Booked(alloc(l, p, size), n)
<1> DEFINE e == [ptr |-> p, size |-> size, cnt |-> Count(l, p) + 1]
<1>0. alloc(l, p, size) \in Seq(Counted) /\ Sorted(alloc(l, p, size))
  BY AllocIs
<1>1. PICK I : I = Items(alloc(l, p, size))
  OBVIOUS
<1>2. I = {it \in Items(l) : it.ptr # p} \cup {e}
  BY <1>1, AllocIs
<1>3. e.ptr = p /\ e.size = size /\ e.cnt = Count(l, p) + 1
  OBVIOUS
<1> HIDE DEF e
<1>4. Known(alloc(l, p, size)) = Known(l) \cup {p}
  <2>1. {it.ptr : it \in I} = {it.ptr : it \in Items(l)} \cup {p}
    BY <1>2, <1>3
  <2> QED
    BY <1>1, <2>1 DEF Known
<1>5. ASSUME NEW m, NEW n, Booked(l, m), DOMAIN m \subseteq Addr,
             p \notin DOMAIN m, p = NULL => size = 0, Grown(n, m, p, size)
      PROVE  \A it \in I : Right(it, n)
  <2>1. ASSUME NEW it \in Items(l), it.ptr # p PROVE Right(it, n)
    <3>1. Right(it, m)
      BY <1>5 DEF Booked
    <3> QED
      BY <1>5, <2>1, <3>1 DEF Right, Grown
  <2>2. Right(e, n)
    <3>1. CASE p = NULL
      <4>1. p \notin DOMAIN n
        BY <1>5, <3>1 DEF Grown
      <4> QED
        BY <1>3, <1>5, <3>1, <4>1 DEF Right
    <3>2. CASE p # NULL
      <4>1. p \in DOMAIN n /\ n[p] = size
        BY <1>5, <3>2 DEF Grown
      <4>2. Count(l, p) = 0
        <5>1. CASE p \in Known(l)
          <6>1. PICK it \in Items(l) : it.ptr = p
            BY <5>1 DEF Known
          <6>2. it.cnt = 0
            BY <1>5, <3>2, <6>1 DEF Booked, Right
          <6> QED
            BY <6>1, <6>2, ItemsAre
        <5>2. CASE p \notin Known(l)
          BY <5>2, ItemsAre
        <5> QED
          BY <5>1, <5>2
      <4> QED
        BY <1>3, <4>1, <4>2 DEF Right
    <3> QED
      BY <3>1, <3>2
  <2> QED
    BY <1>2, <2>1, <2>2
<1>6. /\ \A it \in I : it.ptr = p => it.size = size
      /\ \A it \in I : it.ptr # p => it \in Items(l)
  BY <1>2, <1>3
<1>7. \A m, n : /\ Booked(l, m) /\ DOMAIN m \subseteq Addr
                /\ p \notin DOMAIN m /\ (p = NULL => size = 0)
                /\ Grown(n, m, p, size)
                => Booked(alloc(l, p, size), n)
  BY <1>1, <1>5 DEF Booked
<1> QED
  BY <1>0, <1>1, <1>4, <1>6, <1>7

LEMMA DeallocBooks ==
  ASSUME NEW l \in Seq(Counted), Sorted(l), NEW k \in 1 .. Len(l)
  PROVE  /\ dealloc(l, k) \in Seq(Counted) /\ Sorted(dealloc(l, k))
         /\ Known(dealloc(l, k)) = Known(l)
         /\ \A it \in Items(dealloc(l, k)) :
              IF it.ptr = l[k].ptr THEN it.size = l[k].size ELSE it \in Items(l)
         /\ \A m, n : /\ Booked(l, m) /\ DOMAIN m \subseteq Addr
                      /\ l[k].ptr \in DOMAIN m \cup {NULL}
                      /\ Shrunk(n, m, l[k].ptr)
                      => Booked(dealloc(l, k), n)
<1>0. dealloc(l, k) \in Seq(Counted) /\ Sorted(dealloc(l, k))
  BY DeallocIs
<1>1. PICK I : I = Items(dealloc(l, k))
  OBVIOUS
<1>2. l[k] \in Items(l) /\ l[k] \in Counted
  BY ItemsAre
<1>3. PICK e : e = [l[k] EXCEPT !.cnt = @ - 1]
  OBVIOUS
<1>4. I = {it \in Items(l) : it.ptr # l[k].ptr} \cup {e}
  BY <1>1, <1>3, DeallocIs
<1>5. e.ptr = l[k].ptr /\ e.size = l[k].size /\ e.cnt = l[k].cnt - 1
  <2>1. ASSUME NEW it \in Counted, NEW c
        PROVE  LET x == [it EXCEPT !.cnt = c]
               IN  x.ptr = it.ptr /\ x.size = it.size /\ x.cnt = c
    BY DEF Counted
  <2> QED
    BY <1>2, <1>3, <2>1
<1>6. Known(dealloc(l, k)) = Known(l)
  <2>1. {it.ptr : it \in I} = {it.ptr : it \in Items(l)}
    BY <1>2, <1>4, <1>5
  <2> QED
    BY <1>1, <2>1 DEF Known
<1>7. ASSUME NEW m, NEW n, Booked(l, m), DOMAIN m \subseteq Addr,
             l[k].ptr \in DOMAIN m \cup {NULL}, Shrunk(n, m, l[k].ptr)
      PROVE  \A it \in I : Right(it, n)
  <2>1. ASSUME NEW it \in Items(l), it.ptr # l[k].ptr PROVE Right(it, n)
    <3>1. Right(it, m)
      BY <1>7 DEF Booked
    <3> QED
      BY <1>7, <2>1, <3>1 DEF Right, Shrunk
  <2>2. Right(e, n)
    <3>1. Right(l[k], m)
      BY <1>2, <1>7 DEF Booked
    <3>2. l[k].ptr \notin DOMAIN n
      BY <1>7 DEF Shrunk
    <3>3. CASE l[k].ptr = NULL
      <4>1. NULL \notin DOMAIN m
        BY <1>7, PointersAreNatural
      <4> QED
        BY <1>5, <3>1, <3>2, <3>3, <4>1 DEF Right
    <3>4. CASE l[k].ptr # NULL
      <4>1. l[k].cnt = 1
        BY <1>7, <3>1, <3>4 DEF Right
      <4>2. e.cnt = 0
        BY <1>5, <4>1
      <4> QED
        BY <1>5, <3>2, <3>4, <4>2 DEF Right
    <3> QED
      BY <3>3, <3>4
  <2> QED
    BY <1>4, <2>1, <2>2
<1>8. \A it \in I : IF it.ptr = l[k].ptr THEN it.size = l[k].size ELSE it \in Items(l)
  BY <1>4, <1>5
<1>9. \A m, n : /\ Booked(l, m) /\ DOMAIN m \subseteq Addr
                /\ l[k].ptr \in DOMAIN m \cup {NULL}
                /\ Shrunk(n, m, l[k].ptr)
                => Booked(dealloc(l, k), n)
  BY <1>1, <1>7 DEF Booked
<1> QED
  BY <1>0, <1>1, <1>6, <1>8, <1>9

-------------------------------------------------------------------------------

TraceTypes ==
  /\ part \in 1 .. 3
  /\ list \in Seq(Counted)
  /\ Sorted(list)
  /\ Live \subseteq Addr
  /\ \A p \in Live : libc[p] \in 0 .. SizeRange - 1
  /\ n_alloc \in Nat
  /\ n_allocb \in Nat
  /\ n_freeb \in Nat
  /\ resized \in Int
  /\ refused \in BOOLEAN
  /\ lacks \in {{}, {"list"}, {"item"}}
  /\ status # "crashed" => "item" \notin lacks
  /\ status \in {"running", "stopped", "crashed", "aborted"}

(* The list, if there is one, knows every block until the tracer fails,    *)
(* whatever the program was refused; until a request is refused, and while *)
(* the program runs, it is right about each of them.                       *)
ListBooks ==
  /\ part = 1 => list = << >>
  /\ part > 1 /\ lacks = {} /\ status # "crashed" => Live \subseteq Known(list)
  /\ part > 1 /\ ~ refused /\ lacks = {} /\ status \in {"running", "stopped"} =>
       Booked(list, libc)

Verdicts ==
  /\ BadFreesAreStopped
  /\ ReportsAreTrue
  /\ CrashesAreMissingItems

TraceInv == TraceTypes /\ ListBooks /\ Verdicts

LEMMA TraceInitInv == Init => TraceInv
<1> SUFFICES ASSUME Init PROVE TraceInv
  OBVIOUS
<1>1. list = << >> /\ Live = {}
  BY DEF Init, new_list, Live
<1>2. list \in Seq(Counted) /\ Len(list) = 0
  BY <1>1
<1>3. Items(list) = {}
  BY <1>2 DEF Items
<1>4. TraceTypes
  <2>1. Sorted(list)
    BY <1>2 DEF Sorted
  <2>2. n_alloc = 0 /\ n_allocb = 0 /\ n_freeb = 0 /\ resized = 0
    BY DEF Init
  <2>3. part \in 1 .. 3 /\ status = "running"
    BY DEF Init
  <2>4. refused \in BOOLEAN /\ lacks \in {{}, {"list"}}
    BY DEF Init
  <2>5. Live \subseteq Addr /\ \A p \in Live : libc[p] \in 0 .. SizeRange - 1
    BY <1>1
  <2> QED
    BY <1>2, <2>1, <2>2, <2>3, <2>4, <2>5 DEF TraceTypes
<1>5. ListBooks
  BY <1>1, <1>3 DEF ListBooks, Booked
<1>6. Verdicts
  BY DEF Init, Verdicts, BadFreesAreStopped, ReportsAreTrue, CrashesAreMissingItems, Call
<1> QED
  BY <1>4, <1>5, <1>6 DEF TraceInv

(* A call that frees nothing reports nothing.                              *)
LEMMA QuietVerdicts ==
  ASSUME Verdicts, NEW f \in {"malloc", "calloc", "realloc"}, NEW p,
         Calling(f, p, "none"), UNCHANGED status
  PROVE  Verdicts'
<1>1. last'.call = f /\ status' = "running"
  BY DEF Calling, Call
<1> QED
  BY <1>1 DEF Verdicts, BadFreesAreStopped, ReportsAreTrue, CrashesAreMissingItems

(* A call that reaches the C library and then is refused its item.         *)
LEMMA NoItemInv ==
  ASSUME TraceInv, NEW f \in {"malloc", "calloc", "realloc"}, NEW q,
         Calling(f, q, "none"), NEW l \in Seq(Counted), Sorted(l), NoItem(l),
         Live' \subseteq Addr, \A a \in Live' : libc'[a] \in 0 .. SizeRange - 1,
         refused' \in BOOLEAN, resized' \in Int
  PROVE  TraceInv'
<1>1. /\ part > 1 /\ part' = part /\ status = "running" /\ status' = "crashed"
      /\ list' = l /\ last'.call = f /\ last'.ptr = q
      /\ lacks' = lacks \cup {"item"} /\ "list" \notin lacks
      /\ UNCHANGED <<n_alloc, n_allocb, n_freeb>>
  BY DEF NoItem, Calling, Call
<1>2. lacks' = {"item"}
  BY <1>1 DEF TraceInv, TraceTypes
<1>3. TraceTypes'
  <2>1. /\ part \in 1 .. 3
        /\ n_alloc \in Nat /\ n_allocb \in Nat /\ n_freeb \in Nat
    BY DEF TraceInv, TraceTypes
  <2> QED
    BY <1>1, <1>2, <2>1 DEF TraceTypes
<1>4. ListBooks'
  BY <1>1 DEF ListBooks
<1>5. Verdicts'
  BY <1>1, <1>2 DEF Verdicts, BadFreesAreStopped, ReportsAreTrue, CrashesAreMissingItems
<1> QED
  BY <1>3, <1>4, <1>5 DEF TraceInv

(* malloc and calloc: a block of a size the list records, or NULL.         *)
LEMMA RequestInv ==
  ASSUME TraceInv, NEW p \in (Addr \ Live) \cup {NULL}, NEW size \in 0 .. SizeRange - 1,
         NEW f \in {"malloc", "calloc"},
         Calling(f, p, "none"),
         libc' = IF p = NULL THEN libc ELSE With(p, size),
         refused' = (refused \/ p = NULL), UNCHANGED resized,
         \/ Record(list, p, size) /\ UNCHANGED <<n_freeb, status>>
         \/ NoItem(list)
  PROVE  TraceInv'
<1> USE PointersAreNatural
<1>1. p \in Pointers /\ p \notin Live
  BY DEF TraceInv, TraceTypes
<1>2. PICK m : m = libc
  OBVIOUS
<1>3. PICK n : n = libc'
  OBVIOUS
<1>4. Grown(n, m, p, size)
  <2>1. CASE p = NULL
    BY <1>1, <1>2, <1>3, <2>1 DEF Grown, Live
  <2>2. CASE p # NULL
    BY <1>2, <1>3, <2>2 DEF Grown, With, Live
  <2> QED
    BY <2>1, <2>2
<1>5. status = "running" /\ part' = part
  BY DEF Calling
<1>6. PICK l \in Seq(Counted) : l = list /\ Sorted(l)
  BY DEF TraceInv, TraceTypes
<1>8. Live' = Live \cup ({p} \ {NULL}) /\ Live' \subseteq Addr
      /\ \A a \in Live' : libc'[a] \in 0 .. SizeRange - 1
  BY <1>2, <1>3, <1>4 DEF Grown, Live, TraceInv, TraceTypes
<1>12. refused' \in BOOLEAN /\ resized' \in Int
  BY DEF TraceInv, TraceTypes
<1>13. CASE NoItem(list)
  <2>1. NoItem(l)
    BY <1>6, <1>13
  <2>2. f \in {"malloc", "calloc", "realloc"}
    OBVIOUS
  <2> QED
    BY ONLY TraceInv, <1>6, <1>8, <1>12, <2>1, <2>2, Calling(f, p, "none"), NoItemInv
<1> SUFFICES ASSUME Record(list, p, size), UNCHANGED <<n_freeb, status>> PROVE TraceInv'
  BY <1>13
<1>7. /\ list' = IF part = 1 \/ "list" \in lacks THEN l ELSE alloc(l, p, size)
      /\ list' \in Seq(Counted) /\ Sorted(list')
      /\ n_alloc' = n_alloc + 1 /\ n_allocb' = n_allocb + size /\ lacks' = lacks
  BY <1>1, <1>6, AllocBooks DEF Record
<1>9. TraceTypes'
  <2>1. n_alloc' \in Nat /\ n_allocb' \in Nat /\ n_freeb' \in Nat
    BY <1>7 DEF TraceInv, TraceTypes
  <2>2. /\ lacks' \in {{}, {"list"}, {"item"}}
        /\ "item" \notin lacks' /\ part' \in 1 .. 3
    BY <1>5, <1>7 DEF TraceInv, TraceTypes
  <2> QED
    BY <1>5, <1>7, <1>8, <1>12, <2>1, <2>2 DEF TraceTypes
<1>10. ListBooks'
  <2>1. part = 1 => list' = << >>
    BY <1>6, <1>7 DEF TraceInv, ListBooks
  <2>2. CASE part > 1 /\ lacks = {}
    <3>1. part # 1 /\ lacks' = {}
      BY <1>7, <2>2
    <3>2. list' = alloc(l, p, size)
      BY <1>7, <2>2, <3>1
    <3>3. Live' \subseteq Known(list')
      <4>1. Known(list') = Known(l) \cup {p}
        BY <1>1, <1>6, <3>2, AllocBooks
      <4>2. Live \subseteq Known(l)
        BY <1>5, <1>6, <2>2 DEF TraceInv, ListBooks
      <4> QED
        BY <1>8, <4>1, <4>2
    <3>4. ASSUME ~ refused' PROVE Booked(list', n)
      <4>1. ~ refused /\ p # NULL
        BY <3>4
      <4>2. Booked(l, m)
        BY <1>2, <1>5, <1>6, <2>2, <4>1 DEF TraceInv, ListBooks
      <4>3. DOMAIN m \subseteq Addr /\ p \notin DOMAIN m
        BY <1>1, <1>2 DEF Live, TraceInv, TraceTypes
      <4> QED
        BY <1>1, <1>4, <1>6, <3>2, <4>1, <4>2, <4>3, AllocBooks
    <3> QED
      BY <1>3, <1>5, <3>1, <3>3, <3>4 DEF ListBooks
  <2>3. CASE ~ (part > 1 /\ lacks = {})
    BY <1>5, <1>7, <2>1, <2>3 DEF ListBooks
  <2> QED
    BY <2>2, <2>3
<1>11. Verdicts'
  BY QuietVerdicts DEF TraceInv
<1> QED
  BY <1>9, <1>10, <1>11 DEF TraceInv

LEMMA MallocInv ==
  ASSUME TraceInv, NEW size \in Requests, malloc(size)
  PROVE  TraceInv'
<1>1. size \in 0 .. SizeRange - 1
  BY PointersAreNatural
<1> QED
  BY <1>1, RequestInv DEF malloc

(* calloc multiplies in size_t.                                            *)
LEMMA ProductIsSize ==
  ASSUME NEW size \in Requests, NEW nmemb \in Requests
  PROVE  Product(nmemb, size) \in 0 .. SizeRange - 1
<1>1. size \in Nat /\ nmemb \in Nat /\ SizeRange \in Nat /\ SizeRange > 0
  BY PointersAreNatural
<1>2. nmemb * size \in Nat
  BY <1>1
<1>3. PICK x \in Nat : x = nmemb * size
  BY <1>2
<1>4. x % SizeRange \in 0 .. SizeRange - 1
  BY ONLY <1>1, x \in Nat
<1> QED
  BY <1>3, <1>4 DEF Product

LEMMA CallocInv ==
  ASSUME TraceInv, NEW size \in Requests, NEW nmemb \in Requests, calloc(nmemb, size)
  PROVE  TraceInv'
<1>1. PICK b \in 0 .. SizeRange - 1 : b = Product(nmemb, size)
  BY ProductIsSize
<1>2. PICK p \in (Addr \ Live) \cup {NULL} :
        /\ Calling("calloc", p, "none")
        /\ libc' = IF p = NULL THEN libc ELSE With(p, b)
        /\ refused' = (refused \/ p = NULL)
        /\ \/ Record(list, p, b) /\ UNCHANGED <<n_freeb, status>>
           \/ NoItem(list)
        /\ UNCHANGED resized
  BY <1>1 DEF calloc
<1> QED
  BY <1>2, RequestInv

(* The ways in which realloc goes on after the C library's.                *)
ReallocPlain(p, size) ==
  part = 1 /\ Record(list, p, size) /\ UNCHANGED <<n_freeb, status>>

ReallocUnknown(ptr, p, size) ==
  /\ part > 1 /\ Where(list, ptr) = 0
  /\ Record(list, p, size)
  /\ status' = "crashed" /\ UNCHANGED n_freeb

ReallocKnown(ptr, p, size) ==
  /\ part > 1 /\ Where(list, ptr) # 0
  /\ Record(Dealloced(ptr), p, size)
  /\ n_freeb' = n_freeb + FreedSize(list', ptr)
  /\ UNCHANGED status

(* realloc: the new block may be the old one, and the old one may be NULL. *)
LEMMA ReallocInv ==
  ASSUME TraceInv, NEW ptr \in Live \cup {NULL}, NEW size \in Requests \cup {0},
         realloc(ptr, size)
  PROVE  TraceInv'
<1> USE PointersAreNatural
<1>1. PICK p \in Addr \cup {NULL} :
        /\ Calling("realloc", ptr, "none")
        /\ LibcRealloc(ptr, size, p)
        /\ \/ ReallocPlain(p, size)
           \/ NoItem(Dealloced(ptr))
           \/ ReallocUnknown(ptr, p, size)
           \/ ReallocKnown(ptr, p, size)
  BY DEF realloc, ReallocPlain, ReallocUnknown, ReallocKnown
<1>2. PICK m : m = libc
  OBVIOUS
<1>3. PICK n : n = libc'
  OBVIOUS
<1>4. PICK l \in Seq(Counted) : l = list /\ Sorted(l)
  BY DEF TraceInv, TraceTypes
<1>5. /\ p \in Pointers /\ ptr \in Pointers /\ size \in 0 .. SizeRange - 1
      /\ DOMAIN m = Live /\ DOMAIN n = Live' /\ Live \subseteq Addr
  <2>1. size \in 0 .. SizeRange - 1
    <3>1. SizeRange > 0
      BY <1>1 DEF LibcRealloc, TraceInv, TraceTypes
    <3> QED
      BY <3>1
  <2> QED
    BY <1>2, <1>3, <2>1 DEF Live, TraceInv, TraceTypes, Pointers
<1>6. status = "running" /\ part' = part /\ last'.call = "realloc" /\ last'.ptr = ptr
  BY <1>1 DEF Calling, Call
(* What the C library did, in terms of what the list is told.              *)
<1>7. /\ DOMAIN n \subseteq DOMAIN m \cup {p}
      /\ DOMAIN n \subseteq Addr
      /\ \A a \in DOMAIN n : n[a] \in 0 .. SizeRange - 1
      /\ resized' \in Int
      /\ refused' \in BOOLEAN
      /\ ~ refused' => /\ ~ refused
                       /\ p \notin DOMAIN m \ {ptr}
                       /\ p = NULL => size = 0
                       /\ DOMAIN n = (DOMAIN m \ {ptr}) \cup ({p} \ {NULL})
                       /\ \A a \in DOMAIN n : n[a] = IF a = p THEN size ELSE m[a]
  <2>0. /\ \A a \in DOMAIN m : m[a] \in 0 .. SizeRange - 1
        /\ resized \in Int /\ refused \in BOOLEAN
    BY <1>2, <1>5 DEF TraceInv, TraceTypes
  <2>1. CASE ptr # NULL /\ size = 0 /\ p = NULL
             /\ libc' = Without(ptr) /\ UNCHANGED <<refused, resized>>
    <3>1. DOMAIN n = DOMAIN m \ {ptr} /\ \A a \in DOMAIN n : n[a] = m[a]
      BY <1>2, <1>3, <1>5, <2>1 DEF Without
    <3> QED
      BY <1>5, <2>0, <2>1, <3>1
  <2>2. CASE size > 0 /\ p = NULL /\ refused' = TRUE /\ UNCHANGED <<libc, resized>>
    BY <1>2, <1>3, <1>5, <2>0, <2>2
  <2>3. CASE ptr # NULL /\ size > 0 /\ p = ptr /\ libc' = With(p, size)
             /\ resized' = resized + size - libc[ptr] /\ UNCHANGED refused
    <3>1. DOMAIN n = DOMAIN m \cup {p} /\ \A a \in DOMAIN n : n[a] = IF a = p THEN size ELSE m[a]
      BY <1>2, <1>3, <1>5, <2>3 DEF With
    <3>2. ptr \in DOMAIN m /\ libc[ptr] \in Int
      BY <1>2, <1>5, <2>0, <2>3
    <3> QED
      BY <1>5, <2>0, <2>3, <3>1, <3>2
  <2>4. CASE size > 0 /\ p \in Addr \ Live
             /\ libc' = [a \in (Live \cup {p}) \ {ptr} |-> IF a = p THEN size ELSE libc[a]]
             /\ UNCHANGED <<refused, resized>>
    <3>1. DOMAIN n = (DOMAIN m \cup {p}) \ {ptr}
          /\ \A a \in DOMAIN n : n[a] = IF a = p THEN size ELSE m[a]
      BY <1>2, <1>3, <1>5, <2>4
    <3>2. p # ptr /\ p # NULL /\ p \notin DOMAIN m
      BY <1>5, <2>4
    <3> QED
      BY <1>5, <2>0, <2>4, <3>1, <3>2
  <2> QED
    BY <1>1, <2>1, <2>2, <2>3, <2>4 DEF LibcRealloc
<1>8. CASE ReallocPlain(p, size)
  <2>1. /\ part = 1 /\ n_freeb' = n_freeb /\ status' = status
        /\ list' = list /\ lacks' = lacks
        /\ n_alloc' = n_alloc + 1 /\ n_allocb' = n_allocb + size
    BY <1>8 DEF ReallocPlain, Record
  <2>2. TraceTypes'
    <3>1. n_alloc' \in Nat /\ n_allocb' \in Nat /\ n_freeb' \in Nat
      BY <1>5, <2>1 DEF TraceInv, TraceTypes
    <3>2. Live' \subseteq Addr /\ \A a \in Live' : libc'[a] \in 0 .. SizeRange - 1
      BY <1>3, <1>5, <1>7
    <3>3. part' \in 1 .. 3 /\ list' = l
      BY <1>4, <1>6, <2>1 DEF TraceInv, TraceTypes
    <3>4. /\ lacks' \in {{}, {"list"}, {"item"}} /\ "item" \notin lacks'
      BY <1>6, <2>1 DEF TraceInv, TraceTypes
    <3> QED
      BY <1>4, <1>6, <1>7, <2>1, <3>1, <3>2, <3>3, <3>4 DEF TraceTypes
  <2>3. ListBooks'
    BY <1>6, <2>1 DEF TraceInv, ListBooks
  <2>4. Verdicts'
    BY <1>1, <2>1, QuietVerdicts DEF TraceInv
  <2> QED
    BY <2>2, <2>3, <2>4 DEF TraceInv
<1>9. CASE NoItem(Dealloced(ptr))
  <2>1. Dealloced(ptr) \in Seq(Counted) /\ Sorted(Dealloced(ptr))
    <3>1. CASE Where(l, ptr) = 0
      BY <1>4, <3>1 DEF Dealloced
    <3>2. CASE Where(l, ptr) # 0
      <4>1. PICK k \in 1 .. Len(l) : k = Where(l, ptr)
        BY <1>4, <1>5, <3>2, ItemsAre
      <4>2. Dealloced(ptr) = dealloc(l, k)
        BY <1>4, <3>2, <4>1 DEF Dealloced
      <4> QED
        BY <1>4, <4>2, DeallocBooks
    <3> QED
      BY <3>1, <3>2
  <2>2. Live' \subseteq Addr /\ \A a \in Live' : libc'[a] \in 0 .. SizeRange - 1
    BY <1>3, <1>5, <1>7
  <2>3. refused' \in BOOLEAN /\ resized' \in Int
    BY <1>7
  <2>4. Calling("realloc", ptr, "none")
    BY <1>1
  <2> QED
    BY ONLY TraceInv, <1>9, <2>1, <2>2, <2>3, <2>4, NoItemInv
<1>10. CASE ReallocUnknown(ptr, p, size)
  <2>1. /\ part > 1 /\ part # 1 /\ Where(l, ptr) = 0
        /\ status' = "crashed" /\ n_freeb' = n_freeb /\ lacks' = lacks
        /\ list' = IF "list" \in lacks THEN l ELSE alloc(l, p, size)
        /\ n_alloc' = n_alloc + 1 /\ n_allocb' = n_allocb + size
    BY <1>4, <1>10 DEF ReallocUnknown, Record
  <2>2. lacks \in {{}, {"list"}}
    BY <1>6 DEF TraceInv, TraceTypes
  <2>3. ptr = NULL \/ lacks = {"list"}
    <3>1. ASSUME lacks = {} PROVE ptr = NULL
      <4>1. Live \subseteq Known(l)
        BY <1>4, <1>6, <2>1, <3>1 DEF TraceInv, ListBooks
      <4> QED
        BY <1>4, <1>5, <2>1, <4>1, ItemsAre
    <3> QED
      BY <2>2, <3>1
  <2>4. list' \in Seq(Counted) /\ Sorted(list')
    <3>1. alloc(l, p, size) \in Seq(Counted) /\ Sorted(alloc(l, p, size))
      BY <1>4, <1>5, AllocBooks
    <3> QED
      BY <1>4, <2>1, <3>1
  <2>5. TraceTypes'
    <3>1. n_alloc' \in Nat /\ n_allocb' \in Nat /\ n_freeb' \in Nat
      BY <1>5, <2>1 DEF TraceInv, TraceTypes
    <3>2. Live' \subseteq Addr /\ \A a \in Live' : libc'[a] \in 0 .. SizeRange - 1
      BY <1>3, <1>5, <1>7
    <3>3. part' \in 1 .. 3
      BY <1>6 DEF TraceInv, TraceTypes
    <3> QED
      BY <1>7, <2>1, <2>2, <2>4, <3>1, <3>2, <3>3 DEF TraceTypes
  <2>6. ListBooks'
    BY <1>6, <2>1 DEF ListBooks
  <2>7. Verdicts'
    <3>1. CrashesAreMissingItems'
      BY <1>6, <2>1, <2>3 DEF CrashesAreMissingItems
    <3> QED
      BY <1>6, <2>1, <3>1 DEF Verdicts, BadFreesAreStopped, ReportsAreTrue
  <2> QED
    BY <2>5, <2>6, <2>7 DEF TraceInv
<1>11. CASE ReallocKnown(ptr, p, size)
  <2>1. part > 1 /\ part # 1 /\ Where(l, ptr) # 0 /\ status' = status /\ lacks' = lacks
        /\ n_alloc' = n_alloc + 1 /\ n_allocb' = n_allocb + size
    BY <1>4, <1>11 DEF ReallocKnown, Record
  <2>2. PICK k \in 1 .. Len(l) : k = Where(l, ptr) /\ l[k].ptr = ptr /\ ptr \in Known(l)
    BY <1>4, <1>5, <2>1, ItemsAre
  <2>3. PICK l1 \in Seq(Counted) : l1 = dealloc(l, k) /\ Sorted(l1) /\ Known(l1) = Known(l)
    BY <1>4, DeallocBooks
  <2>4. PICK l2 \in Seq(Counted) :
          /\ l2 = IF "list" \in lacks THEN l1 ELSE alloc(l1, p, size)
          /\ Sorted(l2) /\ Known(l1) \subseteq Known(l2)
          /\ "list" \notin lacks => Known(l2) = Known(l1) \cup {p}
    <3>1. /\ alloc(l1, p, size) \in Seq(Counted) /\ Sorted(alloc(l1, p, size))
          /\ Known(alloc(l1, p, size)) = Known(l1) \cup {p}
      BY <1>5, <2>3, AllocBooks
    <3> QED
      BY <2>3, <3>1
  <2>5. Dealloced(ptr) = l1
    BY <1>4, <2>1, <2>2, <2>3 DEF Dealloced
  <2>6. list' = l2 /\ n_freeb' = n_freeb + l2[Where(l2, ptr)].size
    BY <1>11, <2>1, <2>4, <2>5 DEF ReallocKnown, Record, FreedSize
  <2>7. TraceTypes'
    <3>1. l2[Where(l2, ptr)] \in Counted
      BY <1>5, <2>2, <2>3, <2>4, ItemsAre
    <3>2. PICK s \in Nat : s = l2[Where(l2, ptr)].size
      BY <3>1 DEF Counted
    <3>3. n_alloc' \in Nat /\ n_allocb' \in Nat /\ n_freeb' \in Nat
      <4>1. n_alloc' \in Nat /\ n_allocb' \in Nat
        BY <1>5, <2>1 DEF TraceInv, TraceTypes
      <4>2. n_freeb' = n_freeb + s /\ n_freeb \in Nat
        BY <2>6, <3>2 DEF TraceInv, TraceTypes
      <4> QED
        BY <4>1, <4>2
    <3>4. Live' \subseteq Addr /\ \A a \in Live' : libc'[a] \in 0 .. SizeRange - 1
      BY <1>3, <1>5, <1>7
    <3>5. part' \in 1 .. 3 /\ lacks' \in {{}, {"list"}, {"item"}} /\ "item" \notin lacks'
      BY <1>6, <2>1 DEF TraceInv, TraceTypes
    <3> QED
      BY <1>6, <1>7, <2>1, <2>4, <2>6, <3>3, <3>4, <3>5 DEF TraceTypes
  <2>8. ASSUME lacks = {} PROVE Live' \subseteq Known(list')
    <3>1. Live \subseteq Known(l)
      BY <1>4, <1>6, <2>1, <2>8 DEF TraceInv, ListBooks
    <3> QED
      BY <1>5, <1>7, <2>3, <2>4, <2>6, <2>8, <3>1
  <2>9. ASSUME ~ refused', lacks = {} PROVE Booked(list', n)
    <3>1. Booked(l, m)
      BY <1>2, <1>4, <1>6, <1>7, <2>1, <2>9 DEF TraceInv, ListBooks
    <3> DEFINE r == [a \in DOMAIN m \ {ptr} |-> m[a]]
    <3>2. Shrunk(r, m, ptr)
      BY DEF Shrunk
    <3>3. DOMAIN r = DOMAIN m \ {ptr}
      OBVIOUS
    <3>4. Grown(n, r, p, size)
      BY <1>7, <2>9 DEF Grown
    <3> HIDE DEF r
    <3>5. Booked(l1, r)
      <4>1. l[k].ptr \in DOMAIN m \cup {NULL} /\ DOMAIN m \subseteq Addr
        BY <1>5, <2>2
      <4>2. Shrunk(r, m, l[k].ptr)
        BY <2>2, <3>2
      <4>3. Booked(dealloc(l, k), r)
        BY ONLY <1>4, <3>1, <4>1, <4>2, k \in 1 .. Len(l), DeallocBooks
      <4> QED
        BY <2>3, <4>3
    <3>6. DOMAIN r \subseteq Addr /\ p \notin DOMAIN r /\ (p = NULL => size = 0)
      BY <1>5, <1>7, <2>9, <3>3
    <3>7. l2 = alloc(l1, p, size)
      BY <2>4, <2>9
    <3> QED
      BY <1>5, <2>3, <2>6, <3>4, <3>5, <3>6, <3>7, AllocBooks
  <2>10. ListBooks'
    BY <1>3, <1>6, <2>1, <2>8, <2>9 DEF ListBooks
  <2>11. Verdicts'
    BY <1>1, <2>1, QuietVerdicts DEF TraceInv
  <2> QED
    BY <2>7, <2>10, <2>11 DEF TraceInv
<1> QED
  BY <1>1, <1>8, <1>9, <1>10, <1>11

(* A free that reaches the C library, of an item of the list.              *)
LEMMA FreedInv ==
  ASSUME TraceInv, part > 1, status = "running", NEW ptr \in Pointers,
         Where(list, ptr) # 0, Freed(ptr, Where(list, ptr)),
         part' = part, last' = Call("free", ptr, "none"),
         UNCHANGED <<n_alloc, n_allocb, refused, lacks, resized>>,
         part = 3 => lacks = {} /\ ptr # NULL /\ list[Where(list, ptr)].cnt # 0
  PROVE  TraceInv'
<1> USE PointersAreNatural
<1>1. PICK l \in Seq(Counted) : l = list /\ Sorted(l)
  BY DEF TraceInv, TraceTypes
<1>2. PICK m : m = libc
  OBVIOUS
<1>3. PICK n : n = libc'
  OBVIOUS
<1>4. PICK k \in 1 .. Len(l) : k = Where(l, ptr) /\ l[k].ptr = ptr /\ l[k] \in Items(l)
  BY <1>1, ItemsAre
<1>5. /\ list' = dealloc(l, k) /\ n_freeb' = n_freeb + l[k].size
      /\ libc' = IF ptr \in Live THEN Without(ptr) ELSE libc
      /\ status' = IF ptr \in Live \cup {NULL} THEN status ELSE "aborted"
  BY <1>1, <1>4 DEF Freed, LibcFree
<1>6. /\ list' \in Seq(Counted) /\ Sorted(list') /\ Known(list') = Known(l)
  BY <1>1, <1>5, DeallocBooks
<1>7. /\ DOMAIN m = Live /\ DOMAIN n = Live' /\ Live \subseteq Addr
      /\ Shrunk(n, m, ptr)
  <2>1. CASE ptr \in Live
    BY <1>2, <1>3, <1>5, <2>1 DEF Without, Shrunk, Live, TraceInv, TraceTypes
  <2>2. CASE ptr \notin Live
    BY <1>2, <1>3, <1>5, <2>2 DEF Shrunk, Live, TraceInv, TraceTypes
  <2> QED
    BY <2>1, <2>2
<1>8. TraceTypes'
  <2>1. l[k].size \in Nat
    <3>1. l[k] \in Counted
      OBVIOUS
    <3> QED
      BY <3>1 DEF Counted
  <2>2. n_alloc' \in Nat /\ n_allocb' \in Nat /\ n_freeb' \in Nat
    BY <1>5, <2>1 DEF TraceInv, TraceTypes
  <2>3. Live' \subseteq Addr /\ \A a \in Live' : libc'[a] \in 0 .. SizeRange - 1
    BY <1>2, <1>3, <1>7 DEF Shrunk, TraceInv, TraceTypes
  <2>4. /\ part' \in 1 .. 3 /\ refused' \in BOOLEAN /\ resized' \in Int
        /\ lacks' \in {{}, {"list"}, {"item"}} /\ "item" \notin lacks'
    BY DEF TraceInv, TraceTypes
  <2>5. status' \in {"running", "stopped", "crashed", "aborted"}
    BY <1>5
  <2> QED
    BY <1>6, <2>2, <2>3, <2>4, <2>5 DEF TraceTypes
<1>9. ~ refused /\ lacks = {} => Booked(l, m)
  BY <1>1, <1>2 DEF TraceInv, ListBooks
<1>10. ListBooks'
  <2>1. lacks = {} => Live' \subseteq Known(list')
    BY <1>1, <1>6, <1>7 DEF Shrunk, TraceInv, ListBooks
  <2>2. ASSUME ~ refused, lacks = {}, status' \in {"running", "stopped"} PROVE Booked(list', n)
    <3>1. l[k].ptr \in DOMAIN m \cup {NULL} /\ DOMAIN m \subseteq Addr
      BY <1>4, <1>5, <1>7, <2>2
    <3>2. Booked(l, m) /\ Shrunk(n, m, l[k].ptr)
      BY <1>4, <1>7, <1>9, <2>2
    <3>3. Booked(dealloc(l, k), n)
      BY ONLY <1>1, <3>1, <3>2, k \in 1 .. Len(l), DeallocBooks
    <3> QED
      BY <1>5, <3>3
  <2>3. part' # 1
    OBVIOUS
  <2> QED
    BY <1>3, <2>1, <2>2, <2>3 DEF ListBooks
<1>11. Verdicts'
  <2>1. part = 3 /\ ~ refused => ptr \in Live
    <3> SUFFICES ASSUME part = 3, ~ refused PROVE ptr \in Live
      OBVIOUS
    <3>1. Right(l[k], m)
      BY <1>4, <1>9 DEF Booked
    <3> QED
      BY <1>1, <1>4, <1>7, <3>1 DEF Right
  <2>2. last'.call = "free" /\ last'.says = "none"
    BY DEF Call
  <2>3. BadFreesAreStopped'
    BY <1>5, <2>1 DEF BadFreesAreStopped
  <2>4. ReportsAreTrue'
    BY <2>2 DEF ReportsAreTrue
  <2>5. CrashesAreMissingItems'
    BY <1>5 DEF CrashesAreMissingItems
  <2> QED
    BY <2>3, <2>4, <2>5 DEF Verdicts
<1> QED
  BY <1>8, <1>10, <1>11 DEF TraceInv

LEMMA FreeInv ==
  ASSUME TraceInv, NEW ptr \in Addr \cup {NULL}, free(ptr)
  PROVE  TraceInv'
<1> USE PointersAreNatural
<1>1. /\ status = "running" /\ part' = part
      /\ UNCHANGED <<n_alloc, n_allocb, refused, lacks, resized>>
  BY DEF free, free1, free2, free3, Calling
<1>2. ptr \in Pointers
  BY DEF Pointers
<1>3. CASE free1(ptr)
  <2>1. /\ part = 1 /\ last' = Call("free", ptr, "none") /\ list' = list /\ n_freeb' = n_freeb
        /\ libc' = IF ptr \in Live THEN Without(ptr) ELSE libc
        /\ status' = IF ptr \in Live \cup {NULL} THEN status ELSE "aborted"
    BY <1>3 DEF free1, Calling, LibcFree
  <2>2. Live' \subseteq Addr /\ \A a \in Live' : libc'[a] \in 0 .. SizeRange - 1
    <3>1. CASE ptr \in Live
      <4>1. Live' = Live \ {ptr} /\ \A a \in Live' : libc'[a] = libc[a]
        BY <2>1, <3>1 DEF Without, Live
      <4> QED
        BY <4>1 DEF TraceInv, TraceTypes
    <3>2. CASE ptr \notin Live
      BY <2>1, <3>2 DEF Live, TraceInv, TraceTypes
    <3> QED
      BY <3>1, <3>2
  <2>3. TraceTypes'
    <3>1. /\ part' \in 1 .. 3 /\ refused' \in BOOLEAN /\ resized' \in Int
          /\ lacks' \in {{}, {"list"}, {"item"}} /\ "item" \notin lacks'
      BY <1>1 DEF TraceInv, TraceTypes
    <3>2. n_alloc' \in Nat /\ n_allocb' \in Nat /\ n_freeb' \in Nat
      BY <1>1, <2>1 DEF TraceInv, TraceTypes
    <3>3. list' \in Seq(Counted) /\ Sorted(list')
      BY <2>1 DEF TraceInv, TraceTypes
    <3>4. status' \in {"running", "stopped", "crashed", "aborted"}
      BY <1>1, <2>1
    <3> QED
      BY <2>2, <3>1, <3>2, <3>3, <3>4 DEF TraceTypes
  <2>4. ListBooks'
    BY <1>1, <2>1 DEF TraceInv, ListBooks
  <2>5. Verdicts'
    BY <1>1, <2>1 DEF Verdicts, Call, BadFreesAreStopped, ReportsAreTrue, CrashesAreMissingItems
  <2> QED
    BY <2>3, <2>4, <2>5 DEF TraceInv
<1>4. CASE part # 1 /\ UNCHANGED <<libc, list, n_freeb>> /\ status' \in {"running", "crashed"} /\ Verdicts'
  <2>1. TraceTypes'
    BY <1>1, <1>4 DEF TraceInv, TraceTypes, Live
  <2>2. ListBooks'
    BY <1>1, <1>4 DEF TraceInv, ListBooks, Live
  <2> QED
    BY <1>4, <2>1, <2>2 DEF TraceInv
<1>5. CASE free2(ptr)
  <2>1. part = 2 /\ last' = Call("free", ptr, "none")
    BY <1>5 DEF free2, Calling
  <2>2. CASE Where(list, ptr) # 0
    <3>1. Freed(ptr, Where(list, ptr))
      BY <1>5, <2>2 DEF free2
    <3>2. part > 1 /\ part # 3
      BY <2>1
    <3> QED
      BY ONLY TraceInv, <1>1, <1>2, <2>1, <2>2, <3>1, <3>2, FreedInv
  <2>3. CASE Where(list, ptr) = 0
    <3>1. status' = "crashed" /\ UNCHANGED <<libc, list, n_freeb>>
      BY <1>5, <2>3 DEF free2
    <3>0. lacks \in {{}, {"list"}} /\ lacks' = lacks
      BY <1>1 DEF TraceInv, TraceTypes
    <3>2. ASSUME lacks = {} PROVE ptr \notin Live
      <4>1. part # 1 /\ part > 1
        BY <2>1
      <4>2. PICK l \in Seq(Counted) : l = list /\ Sorted(l) /\ Live \subseteq Known(l)
        BY <1>1, <3>2, <4>1 DEF TraceInv, TraceTypes, ListBooks
      <4>3. Where(l, ptr) = 0
        BY <2>3, <4>2
      <4>4. ptr \notin Known(l)
        BY ONLY <1>2, <4>2, <4>3, ItemsAre
      <4> QED
        BY <4>2, <4>4
    <3>3. Verdicts'
      <4>1. last'.call = "free" /\ last'.ptr = ptr /\ last'.says = "none" /\ Live' = Live
        BY <2>1, <3>1 DEF Call, Live
      <4>2. CrashesAreMissingItems'
        BY <1>1, <2>1, <3>0, <3>2, <4>1 DEF CrashesAreMissingItems
      <4>3. BadFreesAreStopped' /\ ReportsAreTrue'
        BY <1>1, <2>1, <3>1, <4>1 DEF BadFreesAreStopped, ReportsAreTrue
      <4> QED
        BY <4>2, <4>3 DEF Verdicts
    <3> QED
      BY <1>4, <2>1, <3>1, <3>3
  <2> QED
    BY <2>2, <2>3
<1>6. CASE free3(ptr)
  <2>1. part = 3 /\ last' = Call("free", ptr, Verdict(ptr, Where(list, ptr)))
    BY <1>6 DEF free3, Calling
  <2>2. CASE Verdict(ptr, Where(list, ptr)) = "none"
    <3>1. Freed(ptr, Where(list, ptr))
      BY <1>6, <2>2 DEF free3
    <3>2. ptr # NULL /\ Where(list, ptr) # 0 /\ list[Where(list, ptr)].cnt # 0
      BY <2>2 DEF Verdict, dummy
    <3>4. lacks = {}
      <4>1. "list" \notin lacks
        BY <2>2 DEF Verdict
      <4> QED
        BY <1>1, <4>1 DEF TraceInv, TraceTypes
    <3>3. last' = Call("free", ptr, "none")
      BY <2>1, <2>2
    <3>5. part > 1
      BY <2>1
    <3> QED
      BY ONLY TraceInv, <1>1, <1>2, <3>1, <3>2, <3>3, <3>4, <3>5, FreedInv
  <2>3. CASE Verdict(ptr, Where(list, ptr)) # "none"
    <3>1. UNCHANGED <<libc, status, list, n_freeb>>
      BY <1>6, <2>3 DEF free3
    <3>2. PICK l \in Seq(Counted) : l = list /\ Sorted(l)
      BY DEF TraceInv, TraceTypes
    <3>0. /\ "list" \notin lacks => /\ ~ refused => Booked(l, libc)
                                   /\ Live \subseteq Known(l)
          /\ Live \subseteq Addr
      <4>1. part # 1 /\ part > 1
        BY <2>1
      <4>2. lacks \in {{}, {"list"}}
        BY <1>1 DEF TraceInv, TraceTypes
      <4> QED
        BY <1>1, <3>2, <4>1, <4>2 DEF TraceInv, TraceTypes, ListBooks
    <3>3. /\ last'.call = "free" /\ last'.ptr = ptr
          /\ last'.says = Verdict(ptr, Where(l, ptr))
          /\ Live' = Live /\ list' = l
      BY <2>1, <3>1, <3>2 DEF Call, Live
    <3>4. last'.says = "double free" /\ ~ refused => ptr \notin Live
      <4> SUFFICES ASSUME last'.says = "double free", ~ refused, ptr \in Live PROVE FALSE
        OBVIOUS
      <4>0. Verdict(ptr, Where(l, ptr)) = "double free"
        BY <3>3
      <4>1. ptr # NULL /\ "list" \notin lacks
        BY <3>0, <4>0 DEF Verdict
      <4>2. Where(l, ptr) # 0 /\ list[Where(l, ptr)].cnt = 0
        BY <4>0, <4>1 DEF Verdict
      <4>3. PICK k \in 1 .. Len(l) : k = Where(l, ptr) /\ l[k] \in Items(l) /\ l[k].ptr = ptr
        BY ONLY <1>2, <3>2, <4>2, ItemsAre
      <4>4. l[k].cnt = 0
        BY <3>2, <4>2, <4>3
      <4>5. Right(l[k], libc)
        BY <3>0, <4>1, <4>3 DEF Booked
      <4>6. l[k].ptr \in DOMAIN libc
        BY <4>3 DEF Live
      <4>7. l[k].cnt = 1
        BY ONLY <4>5, <4>6 DEF Right
      <4> QED
        BY ONLY <4>4, <4>7
    <3>5. last'.says = "illegal free" /\ "list" \notin lacks =>
            ptr \notin Live /\ ptr \notin Known(l)
      <4> SUFFICES ASSUME last'.says = "illegal free", "list" \notin lacks
                   PROVE  ptr \notin Live /\ ptr \notin Known(l)
        OBVIOUS
      <4>1. Where(l, ptr) = 0
        BY <3>3 DEF Verdict
      <4>2. ptr \notin Known(l)
        BY <1>2, <3>2, <4>1, ItemsAre
      <4> QED
        BY <3>0, <4>2
    <3>6. \A k \in DOMAIN l : l[k].ptr \in Known(l)
      BY <3>2, ItemsAre DEF Known
    <3>7. Verdicts'
      <4>1. BadFreesAreStopped'
        BY <1>1, <3>1 DEF BadFreesAreStopped
      <4>2. CrashesAreMissingItems'
        BY <1>1, <3>1 DEF CrashesAreMissingItems
      <4>3. ReportsAreTrue'
        BY <1>1, <3>3, <3>4, <3>5, <3>6 DEF ReportsAreTrue
      <4> QED
        BY <4>1, <4>2, <4>3 DEF Verdicts
    <3> QED
      BY <1>1, <1>4, <2>1, <3>1, <3>7
  <2> QED
    BY <2>2, <2>3
<1> QED
  BY <1>3, <1>5, <1>6 DEF free

LEMMA TraceStepInv == TraceInv /\ [Next]_vars => TraceInv'
<1> SUFFICES ASSUME TraceInv, [Next]_vars PROVE TraceInv'
  OBVIOUS
<1>1. ASSUME NEW size \in Requests, malloc(size) PROVE TraceInv'
  BY <1>1, MallocInv
<1>2. ASSUME NEW size \in Requests, NEW nmemb \in Requests, calloc(nmemb, size) PROVE TraceInv'
  BY <1>2, CallocInv
<1>3. ASSUME NEW ptr \in Live \cup {NULL}, NEW size \in Requests \cup {0}, realloc(ptr, size)
      PROVE  TraceInv'
  BY <1>3, ReallocInv
<1>4. ASSUME NEW ptr \in Addr \cup {NULL}, free(ptr) PROVE TraceInv'
  BY <1>4, FreeInv
<1>5. CASE fini
  <2>1. TraceTypes'
    BY <1>5 DEF fini, Calling, TraceInv, TraceTypes, Live
  <2>2. ListBooks'
    BY <1>5 DEF fini, Calling, TraceInv, ListBooks, Live
  <2>0. /\ last'.call = "fini" /\ lacks' = lacks /\ part' = part
        /\ status' = IF part > 1 /\ "list" \in lacks THEN "crashed" ELSE "stopped"
        /\ lacks \in {{}, {"list"}}
    BY <1>5 DEF fini, Calling, Call, TraceInv, TraceTypes
  <2>3. Verdicts'
    BY <2>0 DEF Verdicts, BadFreesAreStopped, ReportsAreTrue, CrashesAreMissingItems
  <2> QED
    BY <2>1, <2>2, <2>3 DEF TraceInv
<1>6. CASE UNCHANGED vars
  <2>1. TraceTypes'
    BY <1>6 DEF vars, TraceInv, TraceTypes, Live
  <2>2. ListBooks'
    BY <1>6 DEF vars, TraceInv, ListBooks, Live
  <2>3. Verdicts'
    BY <1>6 DEF vars, TraceInv, Verdicts, BadFreesAreStopped, ReportsAreTrue,
                CrashesAreMissingItems, Live
  <2> QED
    BY <2>1, <2>2, <2>3 DEF TraceInv
<1> QED
  BY <1>1, <1>2, <1>3, <1>4, <1>5, <1>6 DEF Next, Ended

LEMMA TraceInvariance == Spec => []TraceInv
<1> QED
  BY TraceInitInv, TraceStepInv, PTL DEF Spec

(* The list is in order and says what is allocated.                        *)
THEOREM RightList == Spec => []ListIsRight
<1>1. TraceInv => ListIsRight
  <2> SUFFICES ASSUME TraceInv PROVE ListIsRight
    OBVIOUS
  <2> USE PointersAreNatural
  <2>1. PICK l \in Seq(Counted) : l = list /\ Sorted(l)
    BY DEF TraceInv, TraceTypes
  <2>2. TypeOK
    <3>1. \A k \in 1 .. Len(l) : /\ l[k].ptr \in Addr \cup {NULL}
                                 /\ l[k].size \in 0 .. SizeRange - 1
      <4>1. \A it \in Counted : it.ptr \in Addr \cup {NULL} /\ it.size \in 0 .. SizeRange - 1
        BY DEF Counted, Pointers
      <4> QED
        BY <4>1
    <3>2. avg_allocb \in Nat
      <4>1. n_alloc \in Nat /\ n_allocb \in Nat
        BY DEF TraceInv, TraceTypes
      <4> QED
        BY <4>1 DEF avg_allocb
    <3>3. DOMAIN list = 1 .. Len(l)
      BY <2>1
    <3> QED
      BY <2>1, <3>1, <3>2, <3>3 DEF TypeOK, TraceInv, TraceTypes
  <2>3. FindAgrees
    BY <2>1, FindIsWhere DEF FindAgrees, Pointers
  <2>4. ListIsLive
    <3> SUFFICES ASSUME part > 1, ~ refused, lacks = {}, status \in {"running", "stopped"}
                 PROVE  {it \in NonFreed : it.ptr # NULL} = {Item(p, libc[p]) : p \in Live}
      BY DEF ListIsLive
    <3>1. Booked(l, libc) /\ Live \subseteq Known(l) /\ Live \subseteq Addr
      BY <2>1 DEF TraceInv, TraceTypes, ListBooks
    <3>2. NonFreed = {it \in Items(l) : it.cnt > 0}
      <4>1. DOMAIN list = 1 .. Len(l)
        BY <2>1
      <4> QED
        BY <2>1, <4>1 DEF NonFreed, Items
    <3>3. ASSUME NEW it \in Items(l), it.cnt > 0, it.ptr # NULL
          PROVE  it.ptr \in Live /\ it = Item(it.ptr, libc[it.ptr])
      <4>1. Right(it, libc)
        BY <3>1 DEF Booked
      <4>2. it.ptr \in Live /\ it.cnt = 1 /\ it.size = libc[it.ptr]
        BY <3>3, <4>1 DEF Right, Live
      <4>3. it \in Counted
        BY <2>1, ItemsAre
      <4>4. it = [ptr |-> it.ptr, size |-> it.size, cnt |-> it.cnt]
        BY <4>3 DEF Counted
      <4> QED
        BY <4>2, <4>4 DEF Item
    <3>4. ASSUME NEW p \in Live
          PROVE  \E it \in Items(l) : it.cnt > 0 /\ it.ptr # NULL /\ it = Item(p, libc[p])
      <4>1. PICK it \in Items(l) : it.ptr = p
        BY <3>1 DEF Known
      <4>2. Right(it, libc)
        BY <3>1 DEF Booked
      <4>3. it.cnt = 1
        BY <4>1, <4>2 DEF Right, Live
      <4> QED
        BY <3>1, <3>3, <4>1, <4>3
    <3> QED
      BY <3>2, <3>3, <3>4
  <2> QED
    BY <2>2, <2>3, <2>4 DEF ListIsRight
<1> QED
  BY <1>1, TraceInvariance, PTL

(* What part 3 says of a free is true, and no bad free reaches the C       *)
(* library, while nothing has been refused.                                *)
THEOREM TrueVerdicts == Spec => []VerdictsAreRight
<1>1. TraceInv => VerdictsAreRight
  BY DEF TraceInv, Verdicts, VerdictsAreRight
<1> QED
  BY <1>1, TraceInvariance, PTL

(* The tracer crashes the program for want of an item, and only then: one  *)
(* the list never had, one it is refused, or any, when it has no list.     *)
THEOREM MissingItems == Spec => []CrashesAreMissingItems
<1>1. TraceInv => CrashesAreMissingItems
  BY DEF TraceInv, Verdicts
<1> QED
  BY <1>1, TraceInvariance, PTL

-------------------------------------------------------------------------------

(* g is the sum of f over the subsets of S, as the folds of the community  *)
(* modules compute it: an element is chosen, and the sum of the others     *)
(* added.                                                                  *)
Sums(g, f, S) ==
  g = [s \in SUBSET S |->
         IF s = {} THEN 0
         ELSE LET x == CHOOSE x \in s : TRUE IN f[x] + g[s \ {x}]]

(* There is one: no size of a set is the least for which there is none.    *)
LEMMA SumExists ==
  ASSUME NEW S, IsFiniteSet(S), NEW f
  PROVE  \E g : Sums(g, f, S)
<1> DEFINE Part(k) == {s \in SUBSET S : Cardinality(s) <= k}
           Rec(g, s) == IF s = {} THEN 0
                        ELSE f[CHOOSE x \in s : TRUE] + g[s \ {CHOOSE x \in s : TRUE}]
           Is(g, k) == g = [s \in Part(k) |-> Rec(g, s)]
           Some(k) == \E g : Is(g, k)
           T == {k \in Nat : ~Some(k)}
<1>1. \A s \in SUBSET S : /\ IsFiniteSet(s) /\ Cardinality(s) \in Nat
                          /\ s # {} => /\ s \ {CHOOSE x \in s : TRUE} \in SUBSET S
                                       /\ Cardinality(s \ {CHOOSE x \in s : TRUE})
                                            = Cardinality(s) - 1
                          /\ Cardinality(s) = 0 => s = {}
  <2> TAKE s \in SUBSET S
  <2>1. IsFiniteSet(s) /\ Cardinality(s) \in Nat
    BY FS_Subset, FS_CardinalityType
  <2>2. s # {} => (CHOOSE x \in s : TRUE) \in s
    OBVIOUS
  <2>3. s # {} => Cardinality(s \ {CHOOSE x \in s : TRUE}) = Cardinality(s) - 1
    BY <2>1, <2>2, FS_RemoveElement
  <2>4. Cardinality(s) = 0 => s = {}
    BY <2>1, FS_EmptySet
  <2> QED
    BY <2>1, <2>3, <2>4
<1>2. \A k \in Nat : Some(k)
  <2> SUFFICES ASSUME T # {} PROVE FALSE
    OBVIOUS
  <2>1. PICK k \in Nat : ~Some(k) /\ \A j \in Nat : ~Some(j) => k <= j
    <3> HIDE DEF Some
    <3>1. \E x \in T : \A y \in T : x <= y
      BY LeastNatural
    <3> QED
      BY <3>1
  <2>2. k # 0
    <3>1. ASSUME NEW s \in Part(0) PROVE s = {}
      <4>1. Cardinality(s) \in Nat /\ Cardinality(s) <= 0 /\ s \in SUBSET S
        BY <1>1
      <4>2. Cardinality(s) = 0
        BY <4>1
      <4> QED
        BY <1>1, <4>1, <4>2
    <3>2. [s \in Part(0) |-> 0] = [s \in Part(0) |-> Rec([r \in Part(0) |-> 0], s)]
      <4> HIDE DEF Part
      <4> QED
        BY <3>1
    <3>3. Some(0)
      BY <3>2
    <3> HIDE DEF Some
    <3> QED
      BY <2>1, <3>3
  <2>3. PICK g : Is(g, k - 1)
    <3>1. k - 1 \in Nat /\ ~(k <= k - 1)
      BY <2>2
    <3>2. Some(k - 1)
      <4> HIDE DEF Some
      <4> QED
        BY <2>1, <3>1
    <3> QED
      BY <3>2
  <2> DEFINE h == [s \in Part(k) |-> Rec(g, s)]
  <2>4. \A s \in Part(k - 1) : s \in Part(k) /\ h[s] = g[s]
    <3> TAKE s \in Part(k - 1)
    <3>1. Cardinality(s) \in Nat /\ Cardinality(s) <= k - 1 /\ s \in SUBSET S
      BY <1>1
    <3>2. s \in Part(k)
      BY <3>1, <2>2
    <3>3. g[s] = Rec(g, s)
      <4> HIDE DEF Rec, Part
      <4> QED
        BY <2>3
    <3>4. h[s] = Rec(g, s)
      <4> HIDE DEF Rec, Part
      <4> QED
        BY <3>2
    <3> QED
      BY <3>2, <3>3, <3>4
  <2>5. \A s \in Part(k) : Rec(h, s) = Rec(g, s)
    <3> TAKE s \in Part(k)
    <3>1. CASE s = {}
      BY <3>1
    <3>2. CASE s # {}
      <4> DEFINE r == s \ {CHOOSE x \in s : TRUE}
      <4>0. /\ r \in SUBSET S /\ Cardinality(r) = Cardinality(s) - 1
            /\ Cardinality(s) \in Nat /\ Cardinality(s) <= k
        BY <1>1, <3>2
      <4>1. r \in Part(k - 1)
        <5> HIDE DEF r
        <5> QED
          BY <4>0
      <4> HIDE DEF Part, h
      <4> QED
        BY <2>4, <3>2, <4>1
    <3> QED
      BY <3>1, <3>2
  <2>6. Is(h, k)
    <3> HIDE DEF Rec, Part
    <3> QED
      BY <2>5
  <2> QED
    BY <2>1, <2>6
<1>3. Cardinality(S) \in Nat /\ \A s \in SUBSET S : Cardinality(s) <= Cardinality(S)
  BY FS_CardinalityType, FS_Subset
<1>4. Part(Cardinality(S)) = SUBSET S
  BY <1>3
<1>5. PICK g : Is(g, Cardinality(S))
  BY <1>2, <1>3
<1> QED
  BY <1>4, <1>5 DEF Sums

(* The sum is the same whichever element is taken first.                   *)
LEMMA SumStep ==
  ASSUME NEW S, IsFiniteSet(S), NEW f, \A a \in S : f[a] \in Nat,
         NEW g, Sums(g, f, S)
  PROVE  /\ g[{}] = 0
         /\ \A s \in SUBSET S : g[s] \in Nat
         /\ \A s \in SUBSET S : \A y \in S \ s : g[s \cup {y}] = g[s] + f[y]
<1> DEFINE Good(s) == g[s] \in Nat /\ \A y \in s : g[s] = f[y] + g[s \ {y}]
           Bad == {k \in Nat : \E s \in SUBSET S : Cardinality(s) = k /\ ~Good(s)}
<1>1. g[{}] = 0
  BY DEF Sums
<1>2. \A s \in SUBSET S : \A y \in s : /\ IsFiniteSet(s) /\ Cardinality(s) \in Nat
                                       /\ s \ {y} \in SUBSET S
                                       /\ Cardinality(s \ {y}) = Cardinality(s) - 1
  BY FS_Subset, FS_CardinalityType, FS_RemoveElement
<1>3. \A s \in SUBSET S : Good(s)
  <2> SUFFICES ASSUME NEW s0 \in SUBSET S, ~Good(s0) PROVE FALSE
    OBVIOUS
  <2>1. Cardinality(s0) \in Bad
    BY FS_Subset, FS_CardinalityType
  <2>2. PICK k \in Bad : \A j \in Bad : k <= j
    <3> HIDE DEF Good
    <3>1. Bad \in SUBSET Nat /\ Bad # {}
      BY <2>1
    <3> HIDE DEF Bad
    <3> QED
      BY <3>1, LeastNatural
  <2>3. PICK s \in SUBSET S : Cardinality(s) = k /\ ~Good(s)
    BY <2>2
  <2>4. \A r \in SUBSET S : Cardinality(r) \in Nat /\ Cardinality(r) < k => Good(r)
    <3> HIDE DEF Good
    <3> QED
      BY <2>2
  <2>5. s # {}
    <3>1. Good({})
      BY ONLY <1>1
    <3> QED
      BY <2>3, <3>1
  <2> DEFINE z == CHOOSE x \in s : TRUE
  <2>6. z \in s
    BY <2>5
  <2>7. g[s] = f[z] + g[s \ {z}]
    BY <2>5 DEF Sums
  <2> HIDE DEF z
  <2>8. \A y \in s : Good(s \ {y})
    <3> TAKE y \in s
    <3>1. s \ {y} \in SUBSET S /\ Cardinality(s \ {y}) = k - 1
          /\ k \in Nat /\ Cardinality(s \ {y}) \in Nat
      BY <1>2, <2>3, FS_Subset, FS_CardinalityType
    <3> HIDE DEF Good
    <3> QED
      BY <2>4, <3>1
  <2>9. ASSUME NEW y \in s PROVE g[s] = f[y] + g[s \ {y}]
    <3>1. CASE y = z
      BY <2>7, <3>1
    <3>2. CASE y # z
      <4>1. z \in s \ {y} /\ y \in s \ {z} /\ (s \ {z}) \ {y} = (s \ {y}) \ {z}
        BY <2>6, <3>2
      <4>2. g[s \ {z}] = f[y] + g[(s \ {z}) \ {y}]
        BY <2>6, <2>8, <4>1
      <4>3. g[s \ {y}] = f[z] + g[(s \ {z}) \ {y}]
        BY ONLY <2>8, <4>1, y \in s
      <4>4. g[(s \ {z}) \ {y}] \in Nat
        <5>1. Good((s \ {z}) \ {y})
          <6> HIDE DEF Good
          <6>1. (s \ {z}) \in SUBSET S /\ Cardinality(s \ {z}) = k - 1 /\ k \in Nat
            BY <1>2, <2>3, <2>6
          <6>2. /\ Cardinality((s \ {z}) \ {y}) = Cardinality(s \ {z}) - 1
                /\ (s \ {z}) \ {y} \in SUBSET S
            BY <1>2, <4>1, <6>1
          <6>3. Cardinality((s \ {z}) \ {y}) \in Nat
            BY <6>2, FS_Subset, FS_CardinalityType
          <6>4. Cardinality((s \ {z}) \ {y}) < k
            BY ONLY <6>1, <6>2, <6>3
          <6> QED
            BY <2>4, <6>2, <6>3, <6>4
        <5> QED
          BY <5>1
      <4>5. f[y] \in Nat /\ f[z] \in Nat
        BY <2>6
      <4> QED
        BY ONLY <2>7, <4>2, <4>3, <4>4, <4>5
    <3> QED
      BY <3>1, <3>2
  <2>10. g[s] \in Nat
    <3>1. g[s \ {z}] \in Nat /\ f[z] \in Nat
      BY <2>6, <2>8
    <3> QED
      BY ONLY <2>7, <3>1
  <2> QED
    BY <2>3, <2>9, <2>10
<1>4. ASSUME NEW s \in SUBSET S, NEW y \in S \ s
      PROVE  g[s \cup {y}] = g[s] + f[y]
  <2>1. s \cup {y} \in SUBSET S /\ y \in s \cup {y} /\ (s \cup {y}) \ {y} = s
    OBVIOUS
  <2>2. g[s \cup {y}] = f[y] + g[s]
    BY <1>3, <2>1
  <2> QED
    BY <1>3, <2>2
<1> QED
  BY <1>1, <1>3, <1>4

(* Sums of functions that agree are the same.                              *)
LEMMA SumsAgree ==
  ASSUME NEW S, IsFiniteSet(S), NEW T, IsFiniteSet(T), NEW f, NEW e,
         NEW g, Sums(g, f, S), NEW h, Sums(h, e, T), \A a \in S \cap T : f[a] = e[a]
  PROVE  \A s \in SUBSET (S \cap T) : g[s] = h[s]
<1> DEFINE Bad == {k \in Nat : \E s \in SUBSET (S \cap T) : Cardinality(s) = k /\ g[s] # h[s]}
<1> SUFFICES ASSUME NEW s0 \in SUBSET (S \cap T), g[s0] # h[s0] PROVE FALSE
  OBVIOUS
<1>1. \A s \in SUBSET (S \cap T) : IsFiniteSet(s) /\ Cardinality(s) \in Nat
  <2>1. IsFiniteSet(S \cap T)
    BY FS_Subset
  <2> QED
    BY <2>1, FS_Subset, FS_CardinalityType
<1>2. PICK k \in Bad : \A j \in Bad : k <= j
  <2>1. Bad \in SUBSET Nat /\ Bad # {}
    BY <1>1
  <2> HIDE DEF Bad
  <2> QED
    BY <2>1, LeastNatural
<1>3. PICK s \in SUBSET (S \cap T) : Cardinality(s) = k /\ g[s] # h[s]
  BY <1>2
<1>4. s # {}
  BY <1>3 DEF Sums
<1>5. PICK z \in s : /\ g[s] = f[z] + g[s \ {z}]
                     /\ h[s] = e[z] + h[s \ {z}]
  <2> DEFINE x == CHOOSE x \in s : TRUE
  <2>1. x \in s
    BY <1>4
  <2>2. g[s] = f[x] + g[s \ {x}]
    BY <1>4 DEF Sums
  <2>3. h[s] = e[x] + h[s \ {x}]
    BY <1>4 DEF Sums
  <2> HIDE DEF x
  <2> QED
    BY <2>1, <2>2, <2>3
<1>6. Cardinality(s \ {z}) = k - 1 /\ k \in Nat /\ s \ {z} \in SUBSET (S \cap T)
  BY <1>1, <1>3, FS_RemoveElement
<1>7. Cardinality(s \ {z}) \in Nat /\ ~ (k <= Cardinality(s \ {z}))
  BY <1>1, <1>6
<1>8. g[s \ {z}] = h[s \ {z}]
  BY <1>2, <1>6, <1>7
<1> QED
  BY <1>3, <1>5, <1>8

(* The bytes of the blocks m.                                              *)
Bytes(m) == MapThenSumSet(LAMBDA p : m[p], DOMAIN m)

Blocks(m) ==
  /\ DOMAIN m \subseteq Addr
  /\ \A a \in DOMAIN m : m[a] \in Nat

LEMMA BytesAre ==
  ASSUME NEW m, Blocks(m)
  PROVE  \E g : Sums(g, m, DOMAIN m) /\ Bytes(m) = g[DOMAIN m]
<1> DEFINE Is(g) == g = [s \in SUBSET DOMAIN m |->
                           IF s = {} THEN 0
                           ELSE LET x == CHOOSE x \in s : TRUE
                                IN  m[x] + g[s \ {x}]]
<1>1. Bytes(m) = (CHOOSE g : Is(g))[DOMAIN m]
  BY DEF Bytes, MapThenSumSet, MapThenFoldSet
<1>2. \A g : Is(g) <=> Sums(g, m, DOMAIN m)
  BY DEF Sums
<1>3. IsFiniteSet(DOMAIN m)
  BY MemTraceAssumption, FS_Subset DEF Blocks
<1>4. PICK g : Sums(g, m, DOMAIN m)
  BY <1>3, SumExists
<1> HIDE DEF Is
<1>5. Is(CHOOSE h : Is(h))
  BY <1>2, <1>4
<1> QED
  BY <1>1, <1>2, <1>5

LEMMA NoBytes ==
  ASSUME NEW m, DOMAIN m = {}
  PROVE  Bytes(m) = 0
<1>1. Blocks(m)
  BY DEF Blocks
<1>2. PICK g : Sums(g, m, DOMAIN m) /\ Bytes(m) = g[DOMAIN m]
  BY <1>1, BytesAre
<1> QED
  BY <1>2 DEF Sums

LEMMA BytesOfBlocks ==
  ASSUME NEW m, Blocks(m)
  PROVE  Bytes(m) \in Nat
<1>1. PICK g : Sums(g, m, DOMAIN m) /\ Bytes(m) = g[DOMAIN m]
  BY BytesAre
<1>2. IsFiniteSet(DOMAIN m) /\ \A a \in DOMAIN m : m[a] \in Nat
  BY MemTraceAssumption, FS_Subset DEF Blocks
<1>3. \A s \in SUBSET DOMAIN m : g[s] \in Nat
  BY ONLY <1>1, <1>2, SumStep
<1> QED
  BY <1>1, <1>3

LEMMA SameBytes ==
  ASSUME NEW m, NEW n, Blocks(m), DOMAIN n = DOMAIN m, \A a \in DOMAIN m : n[a] = m[a]
  PROVE  Bytes(n) = Bytes(m)
<1>1. Blocks(n) /\ IsFiniteSet(DOMAIN m)
  BY MemTraceAssumption, FS_Subset DEF Blocks
<1>2. PICK g : Sums(g, m, DOMAIN m) /\ Bytes(m) = g[DOMAIN m]
  BY BytesAre
<1>3. PICK h : Sums(h, n, DOMAIN m) /\ Bytes(n) = h[DOMAIN m]
  BY <1>1, BytesAre
<1>4. h[DOMAIN m] = g[DOMAIN m]
  BY <1>1, <1>2, <1>3, SumsAgree
<1> QED
  BY <1>2, <1>3, <1>4

LEMMA OneMore ==
  ASSUME NEW m, NEW n, Blocks(m), NEW p \in Addr, p \notin DOMAIN m,
         DOMAIN n = DOMAIN m \cup {p}, \A a \in DOMAIN m : n[a] = m[a], n[p] \in Nat
  PROVE  Bytes(n) = Bytes(m) + n[p]
<1>1. Blocks(n) /\ IsFiniteSet(DOMAIN m) /\ IsFiniteSet(DOMAIN n)
  BY MemTraceAssumption, FS_Subset DEF Blocks
<1>2. PICK g : Sums(g, m, DOMAIN m) /\ Bytes(m) = g[DOMAIN m]
  BY BytesAre
<1>3. PICK h : Sums(h, n, DOMAIN n) /\ Bytes(n) = h[DOMAIN n]
  BY <1>1, BytesAre
<1>4. \A s \in SUBSET DOMAIN n : \A y \in DOMAIN n \ s : h[s \cup {y}] = h[s] + n[y]
  <2> SUFFICES ASSUME NEW s \in SUBSET DOMAIN n, NEW y \in DOMAIN n \ s
               PROVE  h[s \cup {y}] = h[s] + n[y]
    OBVIOUS
  <2>1. PICK D : D = DOMAIN n
    OBVIOUS
  <2>2. IsFiniteSet(D) /\ Sums(h, n, D) /\ \A a \in D : n[a] \in Nat
    BY <1>1, <1>3, <2>1 DEF Blocks
  <2>3. s \in SUBSET D /\ y \in D \ s
    BY <2>1
  <2> QED
    BY ONLY <2>2, <2>3, SumStep, SMTT(30)
<1>5. h[DOMAIN n] = h[DOMAIN m] + n[p]
  BY <1>4
<1>6. h[DOMAIN m] = g[DOMAIN m]
  <2>1. DOMAIN m \in SUBSET (DOMAIN n \cap DOMAIN m)
    OBVIOUS
  <2>2. \A a \in DOMAIN n \cap DOMAIN m : n[a] = m[a]
    OBVIOUS
  <2> QED
    BY ONLY <1>1, <1>2, <1>3, <2>1, <2>2, SumsAgree
<1> QED
  BY <1>2, <1>3, <1>5, <1>6

LEMMA BytesGrown ==
  ASSUME NEW m, NEW n, Blocks(m), NEW p \in Pointers \ DOMAIN m, NEW size \in Nat,
         p = NULL => size = 0, Grown(n, m, p, size)
  PROVE  Bytes(n) = Bytes(m) + size
<1>1. CASE p = NULL
  <2>1. DOMAIN n = DOMAIN m /\ \A a \in DOMAIN m : n[a] = m[a]
    BY <1>1 DEF Grown
  <2>2. Bytes(n) = Bytes(m)
    BY <2>1, SameBytes
  <2> QED
    BY <1>1, <2>2, BytesOfBlocks
<1>2. CASE p # NULL
  <2>1. /\ DOMAIN n = DOMAIN m \cup {p} /\ n[p] = size /\ p \in Addr
        /\ \A a \in DOMAIN m : n[a] = m[a]
    BY <1>2 DEF Grown, Pointers
  <2> QED
    BY <2>1, OneMore
<1> QED
  BY <1>1, <1>2

LEMMA BytesShrunk ==
  ASSUME NEW m, NEW n, Blocks(m), NEW p, Shrunk(n, m, p)
  PROVE  Bytes(m) = Bytes(n) + (IF p \in DOMAIN m THEN m[p] ELSE 0)
<1>1. Blocks(n)
  BY DEF Blocks, Shrunk
<1>2. CASE p \in DOMAIN m
  <2>1. /\ DOMAIN m = DOMAIN n \cup {p} /\ p \notin DOMAIN n /\ m[p] \in Nat /\ p \in Addr
        /\ \A a \in DOMAIN n : m[a] = n[a]
    BY <1>2 DEF Blocks, Shrunk
  <2>2. Bytes(m) = Bytes(n) + m[p]
    BY <1>1, <2>1, OneMore
  <2> QED
    BY <1>2, <2>2
<1>3. CASE p \notin DOMAIN m
  <2>1. DOMAIN n = DOMAIN m /\ \A a \in DOMAIN m : n[a] = m[a]
    BY <1>3 DEF Shrunk
  <2>2. Bytes(n) = Bytes(m)
    BY <2>1, SameBytes
  <2> QED
    BY <1>3, <2>2, BytesOfBlocks
<1> QED
  BY <1>2, <1>3

(* BytesBalance in terms of Bytes.                                         *)
Balance ==
  part > 1 /\ ~ refused /\ lacks = {} /\ status = "running" =>
    n_allocb - n_freeb + resized = Bytes(libc)

(* malloc and calloc record the bytes the C library hands out.             *)
LEMMA RequestBytes ==
  ASSUME TraceInv, Balance, NEW p \in (Addr \ Live) \cup {NULL},
         NEW size \in 0 .. SizeRange - 1,
         status = "running",
         part' = part, libc' = IF p = NULL THEN libc ELSE With(p, size),
         refused' = (refused \/ p = NULL), UNCHANGED resized,
         \/ Record(list, p, size) /\ UNCHANGED <<n_freeb, status>>
         \/ NoItem(list)
  PROVE  Balance'
<1>0. CASE NoItem(list)
  BY <1>0 DEF Balance, NoItem
<1> SUFFICES ASSUME part > 1, ~ refused, lacks = {}, p # NULL,
                    Record(list, p, size), UNCHANGED <<n_freeb, status>>
             PROVE  n_allocb' - n_freeb' + resized' = Bytes(libc')
  BY <1>0 DEF Balance, Record
<1>1. PICK m : m = libc
  OBVIOUS
<1>2. PICK n : n = libc'
  OBVIOUS
<1>3. Blocks(m) /\ DOMAIN m = Live
  BY <1>1, PointersAreNatural DEF Blocks, Live, TraceInv, TraceTypes
<1>4. Grown(n, m, p, size)
  BY <1>1, <1>2 DEF Grown, With, Live
<1>5. p \in Pointers \ DOMAIN m /\ size \in Nat
  BY <1>3, PointersAreNatural DEF TraceInv, TraceTypes
<1>6. Bytes(n) = Bytes(m) + size
  BY ONLY <1>3, <1>4, <1>5, p # NULL, BytesGrown
<1>7. n_allocb - n_freeb + resized = Bytes(m)
  BY <1>1 DEF Balance
<1>8. n_allocb' = n_allocb + size /\ n_freeb' = n_freeb /\ resized' = resized
  BY DEF Record
<1>9. n_allocb \in Int /\ n_freeb \in Int /\ resized \in Int
  BY DEF TraceInv, TraceTypes
<1> QED
  BY <1>2, <1>5, <1>6, <1>7, <1>8, <1>9

LEMMA ReallocBytes ==
  ASSUME TraceInv, Balance, NEW ptr \in Live \cup {NULL},
         NEW size \in Requests \cup {0}, realloc(ptr, size)
  PROVE  Balance'
<1> USE PointersAreNatural
<1>1. PICK p \in Addr \cup {NULL} :
        /\ Calling("realloc", ptr, "none")
        /\ LibcRealloc(ptr, size, p)
        /\ \/ ReallocPlain(p, size)
           \/ NoItem(Dealloced(ptr))
           \/ ReallocUnknown(ptr, p, size)
           \/ ReallocKnown(ptr, p, size)
  BY DEF realloc, ReallocPlain, ReallocUnknown, ReallocKnown
<1> SUFFICES ASSUME part' > 1, ~ refused', lacks' = {}, status' = "running"
             PROVE  n_allocb' - n_freeb' + resized' = Bytes(libc')
  BY DEF Balance
<1>2. PICK m : m = libc
  OBVIOUS
<1>3. PICK n : n = libc'
  OBVIOUS
<1>4. PICK l \in Seq(Counted) : l = list /\ Sorted(l)
  BY DEF TraceInv, TraceTypes
<1>5. part > 1 /\ part # 1 /\ status = "running"
  BY <1>1 DEF Calling
<1>0. ReallocKnown(ptr, p, size) /\ lacks = {}
  <2>1. ~ ReallocPlain(p, size) /\ ~ NoItem(Dealloced(ptr)) /\ ~ ReallocUnknown(ptr, p, size)
    BY <1>5 DEF ReallocPlain, NoItem, ReallocUnknown
  <2>2. ReallocKnown(ptr, p, size)
    BY <1>1, <2>1
  <2>3. lacks' = lacks
    BY <2>2 DEF ReallocKnown, Record
  <2> QED
    BY <2>2, <2>3
<1>6. /\ Blocks(m) /\ DOMAIN m = Live /\ Live \subseteq Addr
      /\ p \in Pointers /\ ptr \in Pointers /\ size \in 0 .. SizeRange - 1 /\ size \in Nat
  <2>1. Blocks(m) /\ DOMAIN m = Live /\ Live \subseteq Addr
    BY <1>2 DEF Blocks, Live, TraceInv, TraceTypes
  <2>2. size \in 0 .. SizeRange - 1
    <3>1. SizeRange > 0
      BY <1>1 DEF LibcRealloc, TraceInv, TraceTypes
    <3> QED
      BY <3>1
  <2> QED
    BY <2>1, <2>2 DEF Pointers
<1> DEFINE r == [a \in DOMAIN m \ {ptr} |-> m[a]]
<1>7. /\ ~ refused
      /\ p \in Pointers \ DOMAIN r
      /\ p = NULL => size = 0
      /\ Grown(n, r, p, size)
      /\ IF p = ptr THEN ptr \in DOMAIN m /\ resized' = resized + size - m[ptr]
         ELSE resized' = resized
  <2>0. /\ DOMAIN r = DOMAIN m \ {ptr}
        /\ \A a \in DOMAIN r : r[a] = m[a]
    OBVIOUS
  <2> HIDE DEF r
  <2>1. CASE ptr # NULL /\ size = 0 /\ p = NULL
             /\ libc' = Without(ptr) /\ UNCHANGED <<refused, resized>>
    <3>1. DOMAIN n = DOMAIN m \ {ptr} /\ \A a \in DOMAIN n : n[a] = m[a]
      BY <1>2, <1>3, <1>6, <2>1 DEF Without
    <3> QED
      BY <1>6, <2>0, <2>1, <3>1 DEF Grown
  <2>2. CASE size > 0 /\ p = NULL /\ refused' = TRUE /\ UNCHANGED <<libc, resized>>
    BY <2>2
  <2>3. CASE ptr # NULL /\ size > 0 /\ p = ptr /\ libc' = With(p, size)
             /\ resized' = resized + size - libc[ptr] /\ UNCHANGED refused
    <3>1. DOMAIN n = DOMAIN m \cup {p} /\ \A a \in DOMAIN n : n[a] = IF a = p THEN size ELSE m[a]
      BY <1>2, <1>3, <1>6, <2>3 DEF With
    <3>2. ptr \in DOMAIN m
      BY <1>6, <2>3
    <3>3. Grown(n, r, p, size)
      BY <2>0, <2>3, <3>1, <3>2 DEF Grown
    <3> QED
      BY <1>2, <1>6, <2>0, <2>3, <3>2, <3>3
  <2>4. CASE size > 0 /\ p \in Addr \ Live
             /\ libc' = [a \in (Live \cup {p}) \ {ptr} |-> IF a = p THEN size ELSE libc[a]]
             /\ UNCHANGED <<refused, resized>>
    <3>1. DOMAIN n = (DOMAIN m \cup {p}) \ {ptr}
          /\ \A a \in DOMAIN n : n[a] = IF a = p THEN size ELSE m[a]
      BY <1>2, <1>3, <1>6, <2>4
    <3>2. p # ptr /\ p # NULL /\ p \notin DOMAIN m
      BY <1>6, <2>4
    <3>3. Grown(n, r, p, size)
      BY <2>0, <3>1, <3>2 DEF Grown
    <3> QED
      BY <1>6, <2>0, <2>4, <3>2, <3>3
  <2> QED
    BY <1>1, <2>1, <2>2, <2>3, <2>4 DEF LibcRealloc
<1>8. Shrunk(r, m, ptr)
  BY DEF Shrunk
<1> HIDE DEF r
<1>9. Booked(l, m) /\ Where(l, ptr) # 0
  <2>1. Booked(l, m)
    BY <1>0, <1>2, <1>4, <1>5, <1>7 DEF TraceInv, ListBooks
  <2> QED
    BY <1>0, <1>4, <2>1 DEF ReallocKnown
<1>10. PICK k \in 1 .. Len(l) :
         k = Where(l, ptr) /\ l[k] \in Items(l) /\ l[k].ptr = ptr /\ ptr \in Known(l)
  BY ONLY <1>4, <1>6, <1>9, ItemsAre
<1>11. l[k].size = IF ptr \in DOMAIN m THEN m[ptr] ELSE 0
  <2>1. Right(l[k], m)
    BY <1>9, <1>10 DEF Booked
  <2>2. ptr \in DOMAIN m \/ ptr = NULL
    BY <1>6
  <2> QED
    BY ONLY <1>10, <2>1, <2>2 DEF Right
<1>12. PICK l1 \in Seq(Counted) :
         /\ l1 = dealloc(l, k) /\ Sorted(l1) /\ Known(l1) = Known(l)
         /\ \A it \in Items(l1) : it.ptr = ptr => it.size = l[k].size
  <2>1. /\ dealloc(l, k) \in Seq(Counted) /\ Sorted(dealloc(l, k))
        /\ Known(dealloc(l, k)) = Known(l)
        /\ \A it \in Items(dealloc(l, k)) :
             IF it.ptr = l[k].ptr THEN it.size = l[k].size ELSE it \in Items(l)
    BY ONLY <1>4, k \in 1 .. Len(l), DeallocBooks
  <2> QED
    BY <1>10, <2>1
<1>13. PICK l2 \in Seq(Counted) :
         /\ l2 = alloc(l1, p, size) /\ Sorted(l2) /\ ptr \in Known(l2)
         /\ \A it \in Items(l2) : IF it.ptr = p THEN it.size = size ELSE it \in Items(l1)
  <2>1. /\ alloc(l1, p, size) \in Seq(Counted) /\ Sorted(alloc(l1, p, size))
        /\ Known(alloc(l1, p, size)) = Known(l1) \cup {p}
        /\ \A it \in Items(alloc(l1, p, size)) : it.ptr = p => it.size = size
        /\ \A it \in Items(alloc(l1, p, size)) : it.ptr # p => it \in Items(l1)
    BY ONLY <1>6, <1>12, AllocBooks
  <2> QED
    BY <1>10, <1>12, <2>1
<1>14. list' = l2 /\ n_freeb' = n_freeb + l2[Where(l2, ptr)].size
  <2>1. Dealloced(ptr) = l1
    BY <1>4, <1>9, <1>10, <1>12 DEF Dealloced
  <2>2. list' = l2
    BY <1>0, <1>5, <1>13, <2>1 DEF ReallocKnown, Record
  <2> QED
    BY <1>0, <2>2 DEF ReallocKnown, FreedSize
<1>15. PICK j \in 1 .. Len(l2) : j = Where(l2, ptr) /\ l2[j] \in Items(l2) /\ l2[j].ptr = ptr
  BY ONLY <1>6, <1>13, ItemsAre
<1>16. l2[j].size = IF p = ptr THEN size ELSE l[k].size
  BY <1>12, <1>13, <1>15
<1>17. n_freeb' = n_freeb + (IF p = ptr THEN size ELSE IF ptr \in DOMAIN m THEN m[ptr] ELSE 0)
  BY <1>11, <1>14, <1>15, <1>16
<1>18. PICK b \in Nat : b = Bytes(r)
  <2>1. Blocks(r)
    BY <1>6, <1>8 DEF Blocks, Shrunk
  <2> QED
    BY <2>1, BytesOfBlocks
<1>19. Bytes(m) = b + (IF ptr \in DOMAIN m THEN m[ptr] ELSE 0)
  BY <1>6, <1>8, <1>18, BytesShrunk
<1>20. Bytes(n) = b + size
  <2>1. Blocks(r)
    BY <1>6, <1>8 DEF Blocks, Shrunk
  <2>2. Bytes(n) = Bytes(r) + size
    BY ONLY <1>6, <1>7, <2>1, BytesGrown
  <2> QED
    BY <1>18, <2>2
<1>21. n_allocb - n_freeb + resized = Bytes(m)
  BY <1>0, <1>2, <1>5, <1>7 DEF Balance
<1>22. PICK old \in Nat : old = IF ptr \in DOMAIN m THEN m[ptr] ELSE 0
  BY <1>6 DEF Blocks
<1>23. n_allocb' = n_allocb + size
  BY <1>0 DEF ReallocKnown, Record
<1>24. n_allocb \in Int /\ n_freeb \in Int /\ resized \in Int
  BY DEF TraceInv, TraceTypes
<1>25. /\ n_freeb' = n_freeb + (IF p = ptr THEN size ELSE old)
       /\ resized' = IF p = ptr THEN resized + size - old ELSE resized
       /\ Bytes(m) = b + old
  BY <1>7, <1>17, <1>19, <1>22
<1>26. n_allocb' - n_freeb' + resized' = b + size
  BY ONLY <1>6, <1>21, <1>23, <1>24, <1>25, b \in Nat, old \in Nat
<1> QED
  BY <1>3, <1>20, <1>26

LEMMA FreedBytes ==
  ASSUME TraceInv, Balance, part > 1, status = "running", NEW ptr \in Pointers,
         Where(list, ptr) # 0, Freed(ptr, Where(list, ptr)),
         part' = part, UNCHANGED <<n_alloc, n_allocb, refused, lacks, resized>>
  PROVE  Balance'
<1> USE PointersAreNatural
<1> SUFFICES ASSUME ~ refused, lacks = {}, status' = "running"
             PROVE  n_allocb' - n_freeb' + resized' = Bytes(libc')
  BY DEF Balance
<1>1. PICK l \in Seq(Counted) : l = list /\ Sorted(l)
  BY DEF TraceInv, TraceTypes
<1>2. PICK m : m = libc
  OBVIOUS
<1>3. PICK n : n = libc'
  OBVIOUS
<1>4. PICK k \in 1 .. Len(l) : k = Where(l, ptr) /\ l[k].ptr = ptr /\ l[k] \in Items(l)
  BY <1>1, ItemsAre
<1>5. /\ n_freeb' = n_freeb + l[k].size
      /\ libc' = IF ptr \in Live THEN Without(ptr) ELSE libc
      /\ ptr \in Live \cup {NULL}
  BY <1>1, <1>4 DEF Freed, LibcFree
<1>6. Blocks(m) /\ DOMAIN m = Live /\ NULL \notin Live
  BY <1>2 DEF Blocks, Live, TraceInv, TraceTypes
<1>7. Shrunk(n, m, ptr)
  BY <1>2, <1>3, <1>5, <1>6 DEF Without, Shrunk, Live
<1>8. l[k].size = IF ptr \in DOMAIN m THEN m[ptr] ELSE 0
  <2>1. Booked(l, m)
    BY <1>1, <1>2 DEF TraceInv, ListBooks
  <2>2. Right(l[k], m)
    BY <1>4, <2>1 DEF Booked
  <2> QED
    BY <1>4, <1>5, <1>6, <2>2 DEF Right
<1>9. PICK old \in Nat : old = l[k].size
  BY <1>6, <1>8 DEF Blocks
<1>10. PICK b \in Nat : b = Bytes(n)
  <2>1. Blocks(n)
    BY <1>6, <1>7 DEF Blocks, Shrunk
  <2> QED
    BY <2>1, BytesOfBlocks
<1>11. Bytes(m) = b + old
  BY <1>6, <1>7, <1>8, <1>9, <1>10, BytesShrunk
<1>12. n_allocb - n_freeb + resized = Bytes(m)
  BY <1>2 DEF Balance
<1>13. n_allocb \in Int /\ n_freeb \in Int /\ resized \in Int
  BY DEF TraceInv, TraceTypes
<1>14. n_allocb' = n_allocb /\ resized' = resized /\ n_freeb' = n_freeb + old
  BY <1>5, <1>9
<1>15. n_allocb' - n_freeb' + resized' = b
  BY ONLY <1>11, <1>12, <1>13, <1>14, b \in Nat, old \in Nat
<1> QED
  BY <1>3, <1>10, <1>15

LEMMA StepBytes == TraceInv /\ Balance /\ [Next]_vars => Balance'
<1> SUFFICES ASSUME TraceInv, Balance, [Next]_vars PROVE Balance'
  OBVIOUS
<1>1. ASSUME NEW size \in Requests, malloc(size) PROVE Balance'
  <2>1. size \in 0 .. SizeRange - 1
    BY PointersAreNatural
  <2> QED
    BY <1>1, <2>1, RequestBytes DEF malloc, Calling
<1>2. ASSUME NEW size \in Requests, NEW nmemb \in Requests, calloc(nmemb, size)
      PROVE  Balance'
  <2>1. PICK b \in 0 .. SizeRange - 1 : b = Product(nmemb, size)
    BY ProductIsSize
  <2>2. PICK p \in (Addr \ Live) \cup {NULL} :
          /\ Calling("calloc", p, "none")
          /\ libc' = IF p = NULL THEN libc ELSE With(p, b)
          /\ refused' = (refused \/ p = NULL)
          /\ \/ Record(list, p, b) /\ UNCHANGED <<n_freeb, status>>
             \/ NoItem(list)
          /\ UNCHANGED resized
    BY <1>2, <2>1 DEF calloc
  <2> QED
    BY <2>2, RequestBytes DEF Calling
<1>3. ASSUME NEW ptr \in Live \cup {NULL}, NEW size \in Requests \cup {0}, realloc(ptr, size)
      PROVE  Balance'
  BY <1>3, ReallocBytes
<1>4. ASSUME NEW ptr \in Addr \cup {NULL}, free(ptr) PROVE Balance'
  <2>1. /\ status = "running" /\ part' = part
        /\ UNCHANGED <<n_alloc, n_allocb, refused, lacks, resized>>
    BY <1>4 DEF free, free1, free2, free3, Calling
  <2>2. \/ part = 1
        \/ part > 1 /\ status' = "crashed"
        \/ part > 1 /\ UNCHANGED <<libc, n_freeb, status>>
        \/ part > 1 /\ Where(list, ptr) # 0 /\ Freed(ptr, Where(list, ptr))
    <3>1. CASE free1(ptr)
      BY <3>1 DEF free1
    <3>2. CASE free2(ptr)
      BY <3>2 DEF free2
    <3>3. CASE free3(ptr)
      <4>1. part = 3
        BY <3>3 DEF free3
      <4>2. CASE Verdict(ptr, Where(list, ptr)) = "none"
        <5>1. Freed(ptr, Where(list, ptr))
          BY <3>3, <4>2 DEF free3
        <5>2. Where(list, ptr) # 0
          BY <4>2 DEF Verdict, dummy
        <5> QED
          BY <4>1, <5>1, <5>2
      <4>3. CASE Verdict(ptr, Where(list, ptr)) # "none"
        BY <3>3, <4>1, <4>3 DEF free3
      <4> QED
        BY <4>2, <4>3
    <3> QED
      BY <1>4, <3>1, <3>2, <3>3 DEF free
  <2>3. CASE part = 1
    BY <2>1, <2>3 DEF Balance
  <2>4. CASE status' = "crashed"
    BY <2>4 DEF Balance
  <2>5. CASE UNCHANGED <<libc, n_freeb, status>>
    BY <2>1, <2>5 DEF Balance
  <2>6. CASE part > 1 /\ Where(list, ptr) # 0 /\ Freed(ptr, Where(list, ptr))
    BY <2>1, <2>6, FreedBytes DEF Pointers
  <2> QED
    BY <2>2, <2>3, <2>4, <2>5, <2>6
<1>5. CASE fini
  BY <1>5 DEF fini, Balance
<1>6. CASE UNCHANGED vars
  BY <1>6 DEF vars, Balance
<1> QED
  BY <1>1, <1>2, <1>3, <1>4, <1>5, <1>6 DEF Next, Ended

(* The statistics account for every byte.                                  *)
THEOREM BalancedBytes == Spec => []BytesBalance
<1>1. Init => Balance
  <2> SUFFICES ASSUME Init PROVE Balance
    OBVIOUS
  <2>1. DOMAIN libc = {}
    BY DEF Init
  <2>2. Bytes(libc) = 0
    BY <2>1, NoBytes
  <2>3. n_allocb = 0 /\ n_freeb = 0 /\ resized = 0
    BY DEF Init
  <2> QED
    BY <2>2, <2>3 DEF Balance
<1>2. Balance => BytesBalance
  BY DEF Balance, BytesBalance, Bytes, Live
<1> QED
  BY <1>1, <1>2, StepBytes, TraceInvariance, PTL DEF Spec
===============================================================================
