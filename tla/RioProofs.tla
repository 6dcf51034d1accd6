------------------------------- MODULE RioProofs -------------------------------
(***************************************************************************)
(* The reader hands on the stream in order, whatever the buffer's size and *)
(* however read(2) cuts the stream up.                                     *)
(***************************************************************************)
EXTENDS Rio, SequenceTheorems, TLAPS

(* The inductive invariant: InOrder with the bounds that keep rio_bufptr   *)
(* inside the buffer.  Unread bytes never reach beyond its end because     *)
(* read(2) fills it from the start and rio_read moves both ends together.  *)
Bounds ==
  /\ RIO_BUFSIZE \in Nat \ {0}
  /\ stream \in Seq(Byte) /\ handed \in Seq(Byte)
  /\ taken \in 0 .. Len(stream)
  /\ rio_buf \in [1 .. RIO_BUFSIZE -> Byte]
  /\ rio_cnt \in -1 .. RIO_BUFSIZE
  /\ rio_bufptr \in 1 .. RIO_BUFSIZE + 1
  /\ rio_bufptr + Unread <= RIO_BUFSIZE + 1

IInv == Bounds /\ InOrder

(* An empty reader has nothing to keep in order.                           *)
LEMMA FreshIsInOrder ==
  ASSUME RIO_BUFSIZE \in Nat \ {0}, stream \in Seq(Byte), Fresh
  PROVE  IInv
<1>1. Len(handed) = 0 /\ handed \in Seq(Byte)
  BY DEF Fresh
<1>2. Unread = 0
  BY DEF Fresh, Unread
<1>3. Bounds
  BY <1>1, <1>2 DEF Fresh, Bounds
<1>4. InOrder
  BY <1>1, <1>2 DEF Fresh, InOrder
<1> QED
  BY <1>3, <1>4 DEF IInv

LEMMA InitIInv ==
  ASSUME RIO_BUFSIZE \in Nat \ {0}, Init
  PROVE  IInv
<1>1. stream \in Seq(Byte) /\ Fresh
  BY DEF Init
<1> QED
  BY <1>1, FreshIsInOrder

LEMMA ArriveKeeps ==
  ASSUME IInv, NEW b \in Byte, Arrive(b)
  PROVE  IInv'
<1>1. stream' \in Seq(Byte) /\ Len(stream') = Len(stream) + 1
  BY DEF IInv, Bounds, Arrive
<1>2. \A j \in 1 .. Len(stream) : stream'[j] = stream[j]
  BY DEF IInv, Bounds, Arrive
<1>3. Unread' = Unread /\ Unread \in Nat
  BY DEF IInv, Bounds, Arrive, Unread
<1>4. Bounds'
  BY <1>1, <1>3 DEF IInv, Bounds, Arrive
<1>5. Len(handed) \in Nat /\ Len(handed) + Unread <= Len(stream)
  BY DEF IInv, Bounds, InOrder
<1>6. InOrder'
  <2>1. \A j \in 1 .. Len(handed) : j \in 1 .. Len(stream)
    BY <1>3, <1>5 DEF IInv, Bounds
  <2>2. \A j \in 1 .. Unread : Len(handed) + j \in 1 .. Len(stream)
    BY <1>3, <1>5 DEF IInv, Bounds
  <2> QED
    BY <1>2, <1>3, <2>1, <2>2 DEF IInv, InOrder, Arrive
<1> QED
  BY <1>4, <1>6 DEF IInv

LEMMA NextDescriptorKeeps ==
  ASSUME IInv, NextDescriptor
  PROVE  IInv'
<1>1. handed' = << >> /\ Len(handed') = 0 /\ handed' \in Seq(Byte)
  BY DEF NextDescriptor, rio_readinitb
<1>2. Unread' = 0
  BY DEF NextDescriptor, rio_readinitb, Unread
<1>3. Bounds'
  BY <1>1, <1>2 DEF IInv, NextDescriptor, rio_readinitb, Bounds
<1>4. InOrder'
  BY <1>1, <1>2 DEF NextDescriptor, rio_readinitb, InOrder
<1> QED
  BY <1>3, <1>4 DEF IInv

LEMMA RefillKeeps ==
  ASSUME IInv, NEW k \in 1 .. RIO_BUFSIZE, Refill(k)
  PROVE  IInv'
<1>0. RIO_BUFSIZE \in Nat \ {0}
  BY DEF IInv, Bounds
<1> USE <1>0
<1>1. Unread = 0 /\ Len(handed) = taken /\ taken \in Nat
  BY DEF IInv, Bounds, InOrder, Unread, Refill
<1>2. Unread' = k
  BY DEF Refill, Unread
<1>3. \A j \in 1 .. k : stream[taken + j] \in Byte
  BY <1>1 DEF IInv, Bounds, Refill
<1>4. rio_buf' \in [1 .. RIO_BUFSIZE -> Byte]
  BY <1>3 DEF IInv, Bounds, Refill
<1>5. Bounds'
  BY <1>1, <1>2, <1>4 DEF IInv, Bounds, Refill
<1>6. \A j \in 1 .. k : rio_buf'[j] = stream[taken + j]
  BY DEF Refill
<1>7. InOrder'
  BY <1>1, <1>2, <1>6 DEF IInv, Bounds, InOrder, Refill
<1> QED
  BY <1>5, <1>7 DEF IInv

LEMMA InterruptedKeeps ==
  ASSUME IInv, Interrupted
  PROVE  IInv'
<1>1. Unread = 0 /\ Unread' = 0
  BY DEF IInv, Bounds, Interrupted, Unread
<1> QED
  BY <1>1 DEF IInv, Bounds, InOrder, Interrupted

(* A function on 1 .. m is a sequence of length m.                         *)
LEMMA FunctionIsSeq ==
  ASSUME NEW m \in Nat, NEW S, NEW f \in [1 .. m -> S]
  PROVE  f \in Seq(S) /\ Len(f) = m
<1>1. f \in Seq(S)
  BY SeqDef
<1> QED
  BY <1>1, LenProperties

LEMMA ReadKeeps ==
  ASSUME IInv, NEW n \in 1 .. RIO_BUFSIZE, rio_read(n)
  PROVE  IInv'
<1>0. RIO_BUFSIZE \in Nat \ {0}
  BY DEF IInv, Bounds
<1> USE <1>0
<1> DEFINE cnt == IF rio_cnt < n THEN rio_cnt ELSE n
           part == [j \in 1 .. cnt |-> rio_buf[rio_bufptr + j - 1]]
<1>1. cnt \in 1 .. rio_cnt /\ rio_cnt \in 1 .. RIO_BUFSIZE /\ Unread = rio_cnt
  BY DEF IInv, Bounds, rio_read, Unread
<1>2. Unread' = rio_cnt - cnt
  BY <1>1 DEF rio_read, Unread
<1>3. \A j \in 1 .. cnt : rio_bufptr + j - 1 \in 1 .. RIO_BUFSIZE
  BY <1>1 DEF IInv, Bounds
<1>4. part \in Seq(Byte) /\ Len(part) = cnt
        /\ \A j \in 1 .. cnt : part[j] = rio_buf[rio_bufptr + j - 1]
  <2>1. \A j \in 1 .. cnt : rio_buf[rio_bufptr + j - 1] \in Byte
    BY <1>3 DEF IInv, Bounds
  <2>2. part \in [1 .. cnt -> Byte] /\ cnt \in Nat
    BY <1>1, <2>1
  <2>3. \A j \in 1 .. cnt : part[j] = rio_buf[rio_bufptr + j - 1]
    OBVIOUS
  <2> HIDE DEF part, cnt
  <2> QED
    BY <2>2, <2>3, FunctionIsSeq
<1> HIDE DEF part
<1>5. handed' = handed \o part
  BY DEF rio_read, part
<1>6. /\ handed' \in Seq(Byte) /\ Len(handed') = Len(handed) + cnt
      /\ \A j \in 1 .. Len(handed) : handed'[j] = handed[j]
      /\ \A j \in 1 .. cnt : handed'[Len(handed) + j] = part[j]
  <2>1. handed \in Seq(Byte) /\ cnt \in Nat
    BY <1>1 DEF IInv, Bounds
  <2> HIDE DEF cnt
  <2>2. /\ handed \o part \in Seq(Byte)
        /\ Len(handed \o part) = Len(handed) + cnt
        /\ \A i \in 1 .. Len(handed) + cnt : (handed \o part)[i] =
             IF i <= Len(handed) THEN handed[i] ELSE part[i - Len(handed)]
    BY <1>4, <2>1, ConcatProperties
  <2>3. Len(handed) \in Nat
    BY <2>1
  <2>4. \A j \in 1 .. cnt : (handed \o part)[Len(handed) + j] = part[j]
    BY <2>1, <2>2, <2>3
  <2> QED
    BY <1>5, <2>1, <2>2, <2>3, <2>4
<1>7. Bounds'
  BY <1>1, <1>2, <1>6 DEF IInv, Bounds, rio_read
<1>8. InOrder'
  <2>1. Len(handed') + Unread' = taken'
    <3>1. Len(handed) + Unread = taken /\ taken' = taken
      BY DEF IInv, InOrder, rio_read
    <3>2. Len(handed) \in Nat
      BY DEF IInv, Bounds
    <3> HIDE DEF cnt
    <3> QED
      BY <1>1, <1>2, <1>6, <3>1, <3>2
  <2>2. ASSUME NEW j \in 1 .. Len(handed')
        PROVE  handed'[j] = stream[j]
    <3>1. CASE j <= Len(handed)
      BY <1>6, <3>1 DEF IInv, Bounds, InOrder
    <3>2. CASE j > Len(handed)
      <4> DEFINE d == j - Len(handed)
      <4>1. d \in 1 .. cnt /\ j = Len(handed) + d /\ d \in 1 .. Unread
        BY <1>1, <1>6, <3>2 DEF IInv, Bounds
      <4> HIDE DEF d
      <4>2. handed'[j] = rio_buf[rio_bufptr + d - 1]
        BY <1>4, <1>6, <4>1
      <4> QED
        BY <4>1, <4>2 DEF IInv, InOrder
    <3> QED
      BY <1>1, <1>6, <3>1, <3>2 DEF IInv, Bounds
  <2>3. ASSUME NEW j \in 1 .. Unread'
        PROVE  rio_buf[rio_bufptr' + j - 1] = stream[Len(handed') + j]
    <3> DEFINE d == cnt + j
    <3>1. /\ d \in 1 .. Unread
          /\ rio_bufptr' + j - 1 = rio_bufptr + d - 1
          /\ Len(handed') + j = Len(handed) + d
      BY <1>1, <1>2, <1>6 DEF IInv, Bounds, rio_read
    <3> HIDE DEF d
    <3> QED
      BY <3>1 DEF IInv, InOrder
  <2> QED
    BY <2>1, <2>2, <2>3 DEF InOrder, rio_read
<1> QED
  BY <1>7, <1>8 DEF IInv

LEMMA NextIInv == IInv /\ [Next]_vars => IInv'
<1> SUFFICES ASSUME IInv, [Next]_vars PROVE IInv'
  OBVIOUS
<1>1. CASE \E b \in Byte : Arrive(b)
  BY <1>1, ArriveKeeps
<1>2. CASE NextDescriptor
  BY <1>2, NextDescriptorKeeps
<1>3. CASE \E k \in 1 .. RIO_BUFSIZE : Refill(k)
  BY <1>3, RefillKeeps
<1>4. CASE Interrupted
  BY <1>4, InterruptedKeeps
<1>5. CASE \E n \in 1 .. RIO_BUFSIZE : rio_read(n)
  BY <1>5, ReadKeeps
<1>6. CASE UNCHANGED vars
  BY <1>6 DEF IInv, Bounds, InOrder, Unread, vars
<1> QED
  BY <1>1, <1>2, <1>3, <1>4, <1>5, <1>6 DEF Next

(* Every byte reaches the caller once and in the order it was sent, for    *)
(* every buffer size and every way the calls of read(2) may fall           *)
(* (csapp.c:794-820).                                                      *)
THEOREM DeliversInOrder ==
  ASSUME RIO_BUFSIZE \in Nat \ {0} PROVE Spec => []InOrder
<1>1. IInv => InOrder
  BY DEF IInv
<1>2. Init => IInv
  BY InitIInv
<1> QED
  BY <1>1, <1>2, NextIInv, PTL DEF Spec
================================================================================
