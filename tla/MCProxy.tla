------------------------------ MODULE MCProxy ------------------------------
(***************************************************************************)
(* Instances of Proxy for TLC.  A byte stands for a few thousand: MAXLINE  *)
(* is 2 of them, MAX_OBJECT_SIZE 2 or 3, as it is 8192 bytes and 10970 in  *)
(* the code.  The cache gets one more, so that some pairs of objects fit,  *)
(* where cache.h has the size of one largest object.                       *)
(***************************************************************************)
EXTENDS Proxy, TLC

CONSTANTS u1, u2, none     \* URIs; none is the empty one

\* One object of one block and one of two; the larger is just too large for
\* the cache when MAX_OBJECT_SIZE is 2.
ObjectSize == (u1 :> 2) @@ (u2 :> 3) @@ (none :> 0)

\* Objects without a NUL, and u2 with a NUL after its first byte.
AllText == ObjectSize
U2Binary == [ObjectSize EXCEPT ![u2] = 1]

Request(u, hdrs, end) == [uri |-> u, hdrs |-> hdrs, end |-> end]
Bare(u) == Request(u, <<>>, "blank")

TwoRequests == {Bare(u1), Bare(u2)}
SameRequest == {Bare(u2)}

Accept1 == [key |-> "Accept", value |-> "v1"]
Cookie2 == [key |-> "Cookie", value |-> "v2"]
NoValue == [key |-> "Accept", value |-> NULL]
NoKey == [key |-> NULL, value |-> NULL]
HostHdr == [key |-> "Host", value |-> "h"]

IgnoredKeys == {"Host", "User-Agent", "Connection", "Proxy-Connection"}

HeaderRequests ==
  {Request(u1, <<HostHdr, Accept1>>, "blank"), Request(u2, <<Cookie2>>, "eof"),
   Bare(u1)}

\* Clients that stop early, or that close before the end of the headers, and
\* header lines with nothing behind the colon, or nothing but colons.
OddRequests ==
  HeaderRequests \cup
  {Request(u1, <<NoValue>>, "blank"), Request(u1, <<NoKey>>, "eof"),
   Bare(u2), Request(NoUri, <<>>, "eof"), Request(NoUri, <<>>, "silent"), Request(u1, <<>>, "eof")}

\* Threads, and addresses, are interchangeable (safety runs only).
Symmetry == Permutations(Threads) \cup Permutations(Addr)

=============================================================================
