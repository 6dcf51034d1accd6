---------------------------------- MODULE Rio ----------------------------------
(***************************************************************************)
(* The buffered reader of csapp.c: rio_readinitb and rio_read, on which    *)
(* rio_readlineb (one byte at a time) and rio_readnb (as many as are left) *)
(* are built.  stream is what the other end has sent on the descriptor;    *)
(* the fields of rio_t have the source's names, rio_bufptr counting from   *)
(* 1.  Every call of read(2) may return fewer bytes than there are, and    *)
(* may be interrupted.                                                     *)
(***************************************************************************)
EXTENDS Integers, Sequences

CONSTANTS Byte, RIO_BUFSIZE

VARIABLES stream,      \* bytes sent by the other end so far
          taken,       \* how many of them read(2) has returned
          rio_buf, rio_bufptr, rio_cnt,
          handed       \* bytes copied to the callers' buffers

vars == <<stream, taken, rio_buf, rio_bufptr, rio_cnt, handed>>

(* rio_t lives on a stack: its buffer holds whatever was there.            *)
Fresh ==
  /\ taken = 0 /\ handed = << >>
  /\ rio_cnt = 0 /\ rio_bufptr = 1
  /\ rio_buf \in [1 .. RIO_BUFSIZE -> Byte]

Init == stream = << >> /\ Fresh

Arrive(b) ==
  /\ stream' = Append(stream, b)
  /\ UNCHANGED <<taken, rio_buf, rio_bufptr, rio_cnt, handed>>

rio_readinitb ==
  /\ taken' = 0 /\ handed' = << >>
  /\ rio_cnt' = 0 /\ rio_bufptr' = 1
  /\ rio_buf' \in [1 .. RIO_BUFSIZE -> Byte]

\* (a bug to catch) the pointer is left where it was.
RefillNoReset(k) ==
  /\ rio_cnt <= 0
  /\ k \in 1 .. RIO_BUFSIZE /\ taken + k <= Len(stream)
  /\ rio_buf' = [j \in 1 .. RIO_BUFSIZE |->
                   IF j <= k THEN stream[taken + j] ELSE rio_buf[j]]
  /\ rio_cnt' = k
  /\ rio_bufptr' = IF rio_bufptr > RIO_BUFSIZE THEN 1 ELSE rio_bufptr
  /\ taken' = taken + k
  /\ UNCHANGED <<stream, handed>>

(* read(2) returns k bytes to the loop of rio_read.                        *)
Refill(k) ==
  /\ rio_cnt <= 0
  /\ k \in 1 .. RIO_BUFSIZE /\ taken + k <= Len(stream)
  /\ rio_buf' = [j \in 1 .. RIO_BUFSIZE |->
                   IF j <= k THEN stream[taken + j] ELSE rio_buf[j]]
  /\ rio_cnt' = k /\ rio_bufptr' = 1
  /\ taken' = taken + k
  /\ UNCHANGED <<stream, handed>>

(* read(2) fails with EINTR: rio_cnt is -1, and the loop calls it again.   *)
Interrupted ==
  /\ rio_cnt <= 0 /\ rio_cnt' = -1
  /\ UNCHANGED <<stream, taken, rio_buf, rio_bufptr, handed>>

(* The rest of rio_read(rp, usrbuf, n): min(n, rio_cnt) bytes are copied.  *)
rio_read(n) ==
  LET cnt == IF rio_cnt < n THEN rio_cnt ELSE n
  IN  /\ rio_cnt > 0
      /\ handed' = handed \o [j \in 1 .. cnt |-> rio_buf[rio_bufptr + j - 1]]
      /\ rio_bufptr' = rio_bufptr + cnt
      /\ rio_cnt' = rio_cnt - cnt
      /\ UNCHANGED <<stream, taken, rio_buf>>

(* A caller that goes on with another descriptor.                          *)
NextDescriptor == stream' \in Seq(Byte) /\ rio_readinitb

Next ==
  \/ \E b \in Byte : Arrive(b)
  \/ NextDescriptor
  \/ \E k \in 1 .. RIO_BUFSIZE : Refill(k)
  \/ Interrupted
  \/ \E n \in 1 .. RIO_BUFSIZE : rio_read(n)    \* a larger n is like this one

Spec == Init /\ [][Next]_vars

(* What the callers have received is the beginning of the stream, in       *)
(* order, and the unread part of the buffer is what comes next: however    *)
(* read(2) cuts the stream up, nothing is lost, repeated or swapped        *)
(* (csapp.c:794-820).                                                      *)
Unread == IF rio_cnt > 0 THEN rio_cnt ELSE 0

InOrder ==
  /\ Len(handed) + Unread = taken
  /\ \A j \in 1 .. Len(handed) : handed[j] = stream[j]
  /\ \A j \in 1 .. Unread :
       rio_buf[rio_bufptr + j - 1] = stream[Len(handed) + j]
================================================================================
