------------------------------- MODULE Proxy -------------------------------
(***************************************************************************)
(* Lab/lab5/proxylab-handout/proxy.c: main accepts connections and starts  *)
(* a detached thread for each; the thread parses the request, answers it   *)
(* from the cache or forwards it to the origin server, copies the response *)
(* to the client block by block, and caches it when it is not too large.   *)
(*                                                                         *)
(* Thread t serves the connection of client t.  A byte is known by the     *)
(* object it belongs to and its place there, so that a byte of another     *)
(* object, or in the wrong place, shows in what the client gets.           *)
(***************************************************************************)
EXTENDS Cache, ParseRequest

CONSTANTS
  MAXLINE,      \* the size of forward_response's buf
  MAXFD,        \* the largest descriptor the process may have
  Size,         \* length of the object at each URI
  Inputs,       \* what clients may send
  Origins,      \* how origins may behave: a subset of OriginBehaviours
  ClientsLeave  \* whether clients may close before they have the response

OriginBehaviours ==
  {"serves",    \* sends the object and closes
   "cuts",      \* closes after a part of it
   "silent",    \* sends a part of it and then nothing
   "resets",    \* sends a part of it and resets the connection
   "refuses"}   \* does not accept the connection

\* The header lines of what they may send.
Headers == UNION {{i.hdrs[j] : j \in DOMAIN i.hdrs} : i \in Inputs}

ASSUME ProxyAssumption ==
  /\ MAXLINE \in Nat \ {0}
  /\ MAXFD \in Nat /\ MAXFD >= 3            \* listenfd is open
  /\ Size \in [Keys -> Nat]
  /\ \A i \in Inputs :
       /\ i.uri \in Keys \cup {NoUri}
       /\ i.hdrs \in Seq(Headers)
  /\ \A h \in Headers : h = [key |-> h.key, value |-> h.value]
  /\ Origins \subseteq OriginBehaviours
  /\ ClientsLeave \in BOOLEAN

VARIABLES
  main,       \* [at, cell, conn]: where main is and the connection it accepted
  cell,       \* the ints main mallocs for connection descriptors, by address
  vargp,      \* the address each thread was given, until it has read it
  fdtab,      \* what each descriptor is open on
  connfd,     \* each thread's descriptor of its client
  clientfd,   \* each thread's descriptor of its origin
  origin,     \* an origin's answer: [of, at, left, end]; at bytes of the
              \* object it is of have been read, left more come before the end
  buf,        \* the block a thread has read and not yet written
  body,       \* what it has kept of the response for the cache
  size,       \* how much of the response it has read
  reply,      \* the bytes each client got
  gone        \* the clients that closed early

flowVars == <<origin, buf, body, size>>
netVars == <<fdtab, connfd, clientfd, flowVars, reply, gone>>
mainVars == <<main, cell, vargp>>
vars == <<cacheVars, parseVars, alive, pc, arg, mainVars, netVars>>

FDs == 3..MAXFD
Closed == <<"closed">>
Conn(t) == <<"conn", t>>
Origin(t) == <<"origin", t>>

\* The client, or the thread whose origin it is, at the other end of f.
Peer(f) == fdtab[f][2]

\* The kernel hands out the lowest free descriptor.
FreeFDs == {f \in FDs : fdtab[f] = Closed}
LowestFD == CHOOSE f \in FreeFDs : \A g \in FreeFDs : f <= g

NoCell == 0
Cells == 1..(Cardinality(Threads) + 1)
FreeCells == {c \in Cells : cell[c] = NoCell}
Unset == -1

Init ==
  /\ CacheInit
  /\ ParseInit
  /\ alive = TRUE
  /\ pc = [t \in Threads |-> "none"]
  /\ arg = [t \in Threads |-> EmptyBody(NULL)]
  /\ input \in [Threads -> Inputs]
  /\ main = [at |-> "malloc", cell |-> NoCell, conn |-> NULL]
  /\ cell = [c \in Cells |-> NoCell]
  /\ vargp = [t \in Threads |-> NoCell]
  /\ fdtab = [f \in FDs |-> IF f = 3 THEN <<"listen">> ELSE Closed]
  /\ connfd = [t \in Threads |-> NoCell]
  /\ clientfd = [t \in Threads |-> NoCell]
  /\ origin = [t \in Threads |-> [of |-> NULL, at |-> 0, left |-> 0, end |-> "none"]]
  /\ buf = [t \in Threads |-> <<>>]
  /\ body = [t \in Threads |-> <<>>]
  /\ size = [t \in Threads |-> 0]
  /\ reply = [t \in Threads |-> <<>>]
  /\ gone = {}

Exit ==
  /\ alive' = FALSE
  /\ UNCHANGED <<cacheVars, parseVars, pc, arg, mainVars, netVars>>

----------------------------------------------------------------------------
(* main *)

\* (a bug to catch) one int for all the connections
MainMallocOnce ==
  /\ main.at = "malloc"
  /\ main' = [main EXCEPT !.at = "accept", !.cell = 1]
  /\ cell' = [cell EXCEPT ![1] = Unset]
  /\ UNCHANGED <<cacheVars, parseVars, alive, pc, arg, vargp, netVars>>

MainMalloc ==
  /\ main.at = "malloc"
  /\ \E c \in FreeCells :
       /\ \A d \in FreeCells : c <= d
       /\ main' = [main EXCEPT !.at = "accept", !.cell = c]
       /\ cell' = [cell EXCEPT ![c] = Unset]
  /\ UNCHANGED <<cacheVars, parseVars, alive, pc, arg, vargp, netVars>>

\* Accept returns the connection of a client t that has not been served yet.
MainAccept(t) ==
  /\ main.at = "accept"
  /\ pc[t] = "none"
  /\ FreeFDs # {}
  /\ fdtab' = [fdtab EXCEPT ![LowestFD] = Conn(t)]
  /\ cell' = [cell EXCEPT ![main.cell] = LowestFD]
  /\ main' = [main EXCEPT !.at = "create", !.conn = t]
  /\ UNCHANGED <<cacheVars, parseVars, alive, pc, arg, vargp, connfd, clientfd,
                 flowVars, reply, gone>>

\* Accept finds no descriptor and exits.
MainAcceptFails(t) ==
  /\ main.at = "accept"
  /\ pc[t] = "none"
  /\ FreeFDs = {}
  /\ Exit

MainCreate ==
  /\ main.at = "create"
  /\ GoTo(main.conn, "start")
  /\ vargp' = [vargp EXCEPT ![main.conn] = main.cell]
  /\ main' = [at |-> "malloc", cell |-> NoCell, conn |-> NULL]
  /\ UNCHANGED <<cacheVars, parseVars, alive, arg, cell, netVars>>

Main ==
  \/ MainMalloc
  \/ \E t \in Threads : MainAccept(t) \/ MainAcceptFails(t)
  \/ MainCreate

----------------------------------------------------------------------------
(* proxy_thread *)

\* connfd = *vargp; Free(vargp).  vargp dangles and is not read again.
Start(t) ==
  /\ pc[t] = "start"
  /\ connfd' = [connfd EXCEPT ![t] = cell[vargp[t]]]
  /\ cell' = [cell EXCEPT ![vargp[t]] = NoCell]
  /\ GoTo(t, "read_line")
  /\ vargp' = [vargp EXCEPT ![t] = NoCell]
  /\ UNCHANGED <<cacheVars, parseVars, alive, arg, main, fdtab, clientfd,
                 flowVars, reply, gone>>

ParseStep(t) == Parse(t) /\ UNCHANGED <<cacheVars, mainVars, netVars>>

CacheStep(t) ==
  (CacheFind(t) \/ CacheInsert(t)) /\ UNCHANGED <<parseVars, mainVars, netVars>>

\* What memory holds at and behind the end of a string: its NUL, and bytes
\* that are not the string's.
Nul == <<NULL, 0>>
Beyond == <<NULL, 1>>

\* What len bytes from the start of a string are.
FromString(bytes, len) ==
  [i \in 1..len |-> IF i <= Len(bytes) THEN bytes[i]
                    ELSE IF i = Len(bytes) + 1 THEN Nul ELSE Beyond]

\* Rio_writen(f, bytes): the client at the other end gets them.
Write(f, bytes) == reply' = [reply EXCEPT ![Peer(f)] = @ \o bytes]

\* Writing to a client that is gone may succeed or end the process.
WriteFails(t) ==
  /\ pc[t] \in {"hit", "write"}
  /\ t \in gone
  /\ Exit

\* cached->value is written for cached->size bytes.
ForwardCachedResponse(t) ==
  /\ pc[t] = "hit"
  /\ Write(connfd[t], FromString(entry[curr[t]].value, entry[curr[t]].size))
  /\ GoTo(t, "hit_close")
  /\ UNCHANGED <<cacheVars, parseVars, alive, arg, mainVars, fdtab, connfd,
                 clientfd, flowVars, gone>>

----------------------------------------------------------------------------
(* forward_request: Open_clientfd and the request *)

\* What an origin that behaves like o may send of the object at u.
Sent(o, u) ==
  CASE o = "serves" -> {Size[u]}
    [] o = "cuts" -> 0..(Size[u] - 1)
    [] OTHER -> 0..Size[u]

OpenClientfd(t) ==
  /\ pc[t] = "missed"
  /\ arg[t].of # EmptyUri
  /\ FreeFDs # {}
  /\ \E o \in Origins \ {"refuses"} : \E left \in Sent(o, arg[t].of) :
       origin' = [origin EXCEPT ![t] =
                    [of |-> arg[t].of, at |-> 0, left |-> left, end |-> o]]
  /\ clientfd' = [clientfd EXCEPT ![t] = LowestFD]
  /\ fdtab' = [fdtab EXCEPT ![LowestFD] = Origin(t)]
  /\ GoTo(t, "send")
  /\ UNCHANGED <<cacheVars, parseVars, alive, arg, mainVars, connfd, buf, body,
                 size, reply, gone>>

\* No such host, no connection or no descriptor: Open_clientfd exits.
OpenClientfdFails(t) ==
  /\ pc[t] = "missed"
  /\ arg[t].of = EmptyUri \/ "refuses" \in Origins \/ FreeFDs = {}
  /\ Exit

\* The request line and the headers; then forward_response starts.
SendRequest(t) ==
  /\ pc[t] = "send"
  /\ GoTo(t, "read")
  /\ UNCHANGED <<cacheVars, parseVars, alive, arg, mainVars, netVars>>

SendRequestFails(t) ==
  /\ pc[t] = "send"
  /\ origin[t].end \in {"cuts", "resets"}
  /\ Exit

----------------------------------------------------------------------------
(* forward_response *)

\* Rio_readnb returns MAXLINE bytes, or what is left when the origin closes;
\* body gets them while the whole response fits.
ReadBlock(t) ==
  /\ pc[t] = "read"
  /\ LET s == Peer(clientfd[t])
         o == origin[s]
         n == IF o.left < MAXLINE THEN o.left ELSE MAXLINE
         block == Stretch(o.of, o.at, n)
     IN /\ n > 0 /\ (n = MAXLINE \/ o.end \in {"serves", "cuts"})
        /\ buf' = [buf EXCEPT ![t] = block]
        /\ size' = [size EXCEPT ![t] = @ + n]
        /\ body' = IF size[t] + n <= MAX_OBJECT_SIZE
                   THEN [body EXCEPT ![t] = @ \o block] ELSE body
        /\ origin' = [origin EXCEPT ![s] = [o EXCEPT !.at = @ + n, !.left = @ - n]]
  /\ GoTo(t, "write")
  /\ UNCHANGED <<cacheVars, parseVars, alive, arg, mainVars, fdtab, connfd,
                 clientfd, reply, gone>>

ReadFails(t) ==
  /\ pc[t] = "read"
  /\ origin[t].end = "resets"
  /\ Exit

WriteBlock(t) ==
  /\ pc[t] = "write"
  /\ Write(connfd[t], buf[t])
  /\ buf' = [buf EXCEPT ![t] = <<>>]
  /\ GoTo(t, "read")
  /\ UNCHANGED <<cacheVars, parseVars, alive, arg, mainVars, fdtab, connfd,
                 clientfd, origin, body, size, gone>>

\* Nothing is left, and the origin has closed.
AtEnd(t) ==
  LET o == origin[Peer(clientfd[t])]
  IN  o.left = 0 /\ o.end \in {"serves", "cuts"}

\* (a bug to catch) the size of the last block is taken for the object's
EndOfResponseLastBlock(t) ==
  /\ pc[t] = "read"
  /\ AtEnd(t)
  /\ arg' = [arg EXCEPT ![t] = Body(@.of, body[t], size[t] % MAXLINE)]
  /\ GoTo(t, "insert_lock")
  /\ UNCHANGED <<cacheVars, parseVars, alive, mainVars, netVars>>

\* Rio_readnb returns 0: what fits is cached.
EndOfResponse(t) ==
  /\ pc[t] = "read"
  /\ AtEnd(t)
  /\ IF size[t] <= MAX_OBJECT_SIZE
     THEN /\ arg' = [arg EXCEPT ![t] = Body(@.of, body[t], size[t])]
          /\ GoTo(t, "insert_lock")
     ELSE /\ arg' = arg
          /\ GoTo(t, "inserted")
  /\ UNCHANGED <<cacheVars, parseVars, alive, mainVars, netVars>>

\* (a bug to catch) connfd is not closed
CloseForgotten(t) ==
  /\ pc[t] \in {"inserted", "hit_close"}
  /\ GoTo(t, IF pc[t] = "hit_close" THEN "hit_done" ELSE "done")
  /\ UNCHANGED <<cacheVars, parseVars, alive, arg, mainVars, netVars>>

\* Close(connfd).  clientfd stays open.
CloseConn(t) ==
  /\ pc[t] \in {"inserted", "hit_close"}
  /\ fdtab' = [fdtab EXCEPT ![connfd[t]] = Closed]
  /\ GoTo(t, IF pc[t] = "hit_close" THEN "hit_done" ELSE "done")
  /\ UNCHANGED <<cacheVars, parseVars, alive, arg, mainVars, connfd, clientfd,
                 flowVars, reply, gone>>

ProxyThread(t) ==
  \/ Start(t) \/ ParseStep(t) \/ CacheStep(t)
  \/ ForwardCachedResponse(t)
  \/ OpenClientfd(t) \/ SendRequest(t)
  \/ ReadBlock(t) \/ WriteBlock(t) \/ EndOfResponse(t)
  \/ CloseConn(t)

Failure(t) ==
  OpenClientfdFails(t) \/ SendRequestFails(t) \/ ReadFails(t) \/ WriteFails(t)

ClientLeaves(t) ==
  /\ ClientsLeave
  /\ pc[t] \notin {"done", "hit_done"}
  /\ gone' = gone \cup {t}
  /\ t \notin gone
  /\ UNCHANGED <<cacheVars, parseVars, alive, pc, arg, mainVars, fdtab, connfd,
                 clientfd, flowVars, reply>>

Next ==
  /\ alive
  /\ \/ Main
     \/ \E t \in Threads : ProxyThread(t) \/ Failure(t) \/ ClientLeaves(t)

\* While main or a thread can run, one of them does.  No more is needed: a
\* thread takes a bounded number of steps, so none can be overtaken for ever.
Fairness == WF_vars(alive /\ (Main \/ \E t \in Threads : ProxyThread(t)))

Spec == Init /\ [][Next]_vars /\ Fairness

----------------------------------------------------------------------------

Served(t) == pc[t] \in {"done", "hit_done"}

\* The threads whose connfd is open, and those that have opened clientfd.
Connected(t) == pc[t] \notin {"none", "start"} /\ ~Served(t)
Forwarded(t) == clientfd[t] # NoCell

TypeOK ==
  /\ CacheTypeOK
  /\ pc \in [Threads -> ParsePlaces \cup CachePlaces \cup AfterHit \cup
                {"none", "start", "send", "read", "write", "done"}]
  /\ line \in [Threads -> Nat]
  /\ olds.buf \in Threads \cup {NULL}
  /\ olds.rest \in {"value", "newline", "end"}
  /\ main.at \in {"malloc", "accept", "create"}
  /\ cell \in [Cells -> FDs \cup {NoCell, Unset}]
  /\ vargp \in [Threads -> Cells \cup {NoCell}]
  /\ DOMAIN fdtab = FDs
  /\ connfd \in [Threads -> FDs \cup {NoCell}]
  /\ clientfd \in [Threads -> FDs \cup {NoCell}]
  /\ \A t \in Threads :
       /\ buf[t] \in Seq(Bytes) /\ Len(buf[t]) <= MAXLINE
       /\ body[t] \in Seq(Bytes) /\ Len(body[t]) <= MAX_OBJECT_SIZE
       /\ reply[t] \in Seq(Bytes)
  /\ size \in [Threads -> Nat]
  /\ gone \subseteq Threads

\* Every thread reads from and writes to the connection it was created for
\* and the origin it opened itself, whatever order main and the threads run
\* in and however descriptors and ints are reused (proxy.c:54-59, 226-241).
DescriptorsAreOwn ==
  \A t \in Threads :
    /\ Connected(t) => connfd[t] \in FDs /\ fdtab[connfd[t]] = Conn(t)
    /\ Forwarded(t) => fdtab[clientfd[t]] = Origin(t)

\* connfd is given back; every request forwarded keeps one descriptor for
\* good, since nobody closes clientfd (proxy.c:237-241).
DescriptorsAccounted ==
  Cardinality(FDs \ FreeFDs) =
    1 + (IF main.at = "create" THEN 1 ELSE 0)
      + Cardinality({t \in Threads : Connected(t) \/ pc[t] = "start"})
      + Cardinality({t \in Threads : Forwarded(t)})

\* The URI a client asked for; no request line is the empty one.
Asked(t) == IF input[t].uri = NoUri THEN EmptyUri ELSE input[t].uri

\* b is the i-th byte of the object at a URI.
IsByteOf(b, uri, i) == b = <<uri, i>> \/ (b = Nul /\ i = Text[uri] + 1)

\* What a client gets is the object it asked for, byte for byte and from its
\* start, whoever fetched it: never another object's bytes, and never more
\* than it has.  Only behind the first NUL of an object, and only when it
\* comes from the cache, is it whatever memory holds (proxy.c:185-243,
\* cache.c:61).
RepliesAreRight ==
  \A t \in Threads : \A i \in DOMAIN reply[t] :
    /\ i <= Size[Asked(t)]
    /\ \/ IsByteOf(reply[t][i], Asked(t), i)
       \/ /\ reply[t][i] = Beyond
          /\ pc[t] \in AfterHit /\ i > Text[Asked(t)] + 1

\* An answer from the cache is as long as the answer some other client got
\* from the origin for the same URI, which was within the limit; if that
\* origin sent the whole object, so is this (proxy.c:207-221, cache.c:51-78).
CachedReplyIsAnEarlierReply ==
  \A t \in Threads :
    pc[t] \in {"hit_close", "hit_done"} =>
      \E u \in Threads \ {t} :
        /\ arg[u].of = arg[t].of
        /\ Len(reply[u]) = Len(reply[t])
        /\ Len(reply[u]) <= MAX_OBJECT_SIZE
        /\ origin[u].end \in {"serves", "cuts"}
        /\ origin[u].end = "serves" => Len(reply[t]) = Size[arg[t].of]

\* The variables keep their types, the cache its limits, and what it answers
\* is what an origin answered (proxy.c:185-243, cache.c:51-99).
CacheIsFaithful == TypeOK /\ CachedReplyIsAnEarlierReply

\* Kept(hdrs)[i]: what is passed on of the first i headers, the client's but
\* for those the proxy replaces.
Kept(hdrs) ==
  LET kept[i \in 0..Len(hdrs)] ==
        IF i = 0 THEN <<>>
        ELSE IF hdrs[i].key \in Ignored THEN kept[i-1]
        ELSE Append(kept[i-1], hdrs[i])
  IN kept

\* The headers the proxy passes on.
OwnHeaders(t) == Kept(input[t].hdrs)[Len(input[t].hdrs)]

Parsed(t) == pc[t] \notin ParsePlaces \cup {"none", "start"}

\* A client's headers reach the origin with the values the client gave them
\* (proxy.c:101-130).  Not with two clients sending headers at once.
HeadersAreOwn == \A t \in Threads : Parsed(t) => extra[t] = OwnHeaders(t)

\* The keys do so in every interleaving: strtok(buf, ":") reads the thread's
\* own line, only the values may be somebody else's (proxy.c:109-128).
HeaderKeysAreOwn ==
  \A t \in Threads :
    /\ \A i \in DOMAIN extra[t] : extra[t][i].key = OwnHeaders(t)[i].key
    /\ Parsed(t) => Len(extra[t]) = Len(OwnHeaders(t))

\* A value can be lost only to another thread that is parsing headers: with
\* one client sending headers, strtok always continues in its own line, and
\* finds nothing only where that line has nothing (proxy.c:109-110).
OneParserIsSafe ==
  Cardinality({t \in Threads : input[t].hdrs # <<>>}) <= 1
    => /\ HeadersAreOwn
       /\ \A t \in Threads :
            pc[t] = "strtok_value"
              => olds = [buf |-> t, line |-> line[t], rest |-> Behind(t)]

\* What strtok's shared position can do to headers, and what it cannot
\* (proxy.c:101-130).
HeadersHaveCauses == HeaderKeysAreOwn /\ OneParserIsSafe

\* Every request is answered, an origin that never answers blocking no
\* request but its own, until the first look-up that hits (proxy.c:54-59,
\* 224-243, cache.c:46).
AnsweredUntilAHit ==
  <>(\/ ~alive
     \/ \E u \in Threads : pc[u] \in AfterHit
     \/ \A t \in Threads :
          Served(t) \/ origin[t].end = "silent" \/ input[t].end = "silent")

\* Every request is answered, when clients send whole requests and origins
\* serve what they are asked for.
EveryRequestIsAnswered == <>(\A t \in Threads : Served(t))

=============================================================================
