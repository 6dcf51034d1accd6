---------------------------------- MODULE Tiny ---------------------------------
(***************************************************************************)
(* The iterative Web server of lab 5 (tiny.c) on the wrappers and the Rio  *)
(* package of its csapp.c, with the CGI program adder.c.                   *)
(*                                                                         *)
(* A byte of this module stands for a run of bytes that are read or        *)
(* written together: the words of a request line, the text of a header, a  *)
(* line of a response.  A client sends a request, byte by byte, stops      *)
(* wherever it likes, and may leave.  Files may be removed meanwhile.      *)
(*                                                                         *)
(* doit decides what to answer in one step, when it has read what it       *)
(* reads; the calls it then makes are todo, and are made one by one.       *)
(***************************************************************************)
EXTENDS Integers, SequencesExt

CONSTANTS Clients, Nobody,
          Requests,      \* per client: what it may want to send
          Parsed,        \* request line |-> its words: <<method, uri>>, or fewer
          Junk,          \* uris the stack may hold before any was written
          Files,         \* filename |-> [size, reg, rusr, xusr]
          Removable,     \* filenames that may be removed while tiny runs
          MayLeave,      \* bound: clients that may stop before the answer
          MaxAddrs,      \* bound: addresses getaddrinfo returns
          Byte, MAXLINE, RIO_BUFSIZE

ASSUME TinyAssumption ==
  /\ MAXLINE \in Nat /\ MAXLINE >= 2 /\ MaxAddrs \in Nat
  /\ RIO_BUFSIZE \in Nat \ {0} /\ "?" \in Byte
  /\ Nobody \notin Clients /\ MayLeave \subseteq Clients
  /\ \A c \in Clients : \A r \in Requests[c] :
       r \in Seq(Byte) /\ r # << >> /\ r[1] \in DOMAIN Parsed
  /\ \A l \in DOMAIN Parsed :
       /\ Len(Parsed[l]) \in 0 .. 2
       /\ Len(Parsed[l]) = 2 =>
            {Parsed[l][2].slash, Parsed[l][2].cgi} \subseteq BOOLEAN
  /\ \A u \in Junk : {u.slash, u.cgi} \subseteq BOOLEAN
  /\ \A f \in DOMAIN Files : Files[f].size \in Nat

VARIABLES want, sent,    \* per client: its request, and how much of it is sent
          fin, gone,     \* per client: it sends no more; it has closed
          got,           \* per client: what reached it
          room,          \* whether write(2) can take more for cur
          backlog,       \* clients that wait for accept
          done,          \* clients whose connection tiny has closed
          before,        \* per client: those closed before it was accepted
          disk,          \* the files there are
          pc,            \* where tiny is
          addrs,         \* addresses open_listenfd has left
          cur,           \* the client served now, or last
          line,          \* the line being read
          method, uri,   \* the words of the request line
          unset,         \* the buf of read_requesthdrs was never written
          todo,          \* calls doit will make
          fds, mapped,   \* open descriptors; whether a file is mapped
          child,         \* the CGI process
          failed,        \* a system call failed for a reason of its own
          taken, rio_buf, rio_bufptr, rio_cnt, handed    \* see Rio

clientvars == <<want, sent, fin, gone>>
riovars == <<taken, rio_buf, rio_bufptr, rio_cnt, handed>>
doitvars == <<line, method, uri, unset, todo>>
kernelvars == <<disk, fds, mapped, child>>
vars == <<clientvars, got, room, backlog, done, before, pc, addrs, cur, failed,
          riovars, doitvars, kernelvars>>

rio == INSTANCE Rio WITH stream <- IF cur = Nobody THEN << >> ELSE sent[cur]

CRLF == <<"\r", "\n">>

Init ==
  /\ want = [c \in Clients |-> << >>] /\ sent = [c \in Clients |-> << >>]
  /\ fin = {} /\ gone = {} /\ done = {}
  /\ got = [c \in Clients |-> << >>] /\ room = TRUE /\ backlog = << >>
  /\ before = [c \in Clients |-> {}]
  /\ disk = DOMAIN Files
  /\ pc = "socket" /\ addrs \in 0 .. MaxAddrs /\ cur = Nobody
  /\ line = << >> /\ method = "?" /\ uri \in Junk
  /\ unset = FALSE /\ todo = << >>
  /\ fds = {} /\ mapped = FALSE /\ child = "none" /\ failed = FALSE
  /\ taken = 0 /\ handed = << >> /\ rio_cnt = 0 /\ rio_bufptr = 1
  /\ rio_buf = [j \in 1 .. RIO_BUFSIZE |-> "?"]

-------------------------------------------------------------------------------
(* The clients, and whoever removes files                                  *)

Connect(c) ==
  /\ want[c] = << >> /\ "listening" \in fds
  /\ \E r \in Requests[c] : want' = [want EXCEPT ![c] = r]
  /\ backlog' = Append(backlog, c)
  /\ UNCHANGED <<sent, fin, gone, got, room, done, before, pc, addrs, cur,
                 failed, riovars, doitvars, kernelvars>>

Send(c) ==
  /\ c \notin fin /\ Len(sent[c]) < Len(want[c])
  /\ sent' = [sent EXCEPT ![c] = Append(@, want[c][Len(@) + 1])]
  /\ UNCHANGED <<want, fin, gone, got, room, backlog, done, before, pc, addrs,
                 cur, failed, riovars, doitvars, kernelvars>>

(* shutdown of its sending side, or close                                  *)
Leave(c) ==
  /\ want[c] # << >> /\ c \in MayLeave \ (gone \cup done)
  /\ fin' = fin \cup {c}
  /\ gone' \in {gone, gone \cup {c}}
  /\ <<fin', gone'>> # <<fin, gone>>
  /\ UNCHANGED <<want, sent, got, room, backlog, done, before, pc, addrs, cur,
                 failed, riovars, doitvars, kernelvars>>

(* The client that is served reads what was written to it.                 *)
Receive ==
  /\ ~ room /\ cur \notin gone /\ room' = TRUE
  /\ UNCHANGED <<clientvars, got, backlog, done, before, pc, addrs, cur, failed,
                 riovars, doitvars, kernelvars>>

Unlink(f) ==
  /\ f \in disk \cap Removable
  /\ disk' = disk \ {f}
  /\ UNCHANGED <<clientvars, got, room, backlog, done, before, pc, addrs, cur,
                 failed, riovars, doitvars, fds, mapped, child>>

-------------------------------------------------------------------------------
(* Wrappers: a call that fails ends the process                            *)

unix_error == pc' = "down" /\ fds' = {} /\ mapped' = FALSE

(* The call that comes next fails.                                         *)
CallFails ==
  /\ \/ pc \in {"accept", "close"}
     \/ pc = "doit" /\ todo # << >> /\ Head(todo).call # "write"
  /\ unix_error /\ failed' = TRUE
  /\ UNCHANGED <<clientvars, got, room, backlog, done, before, addrs, cur,
                 riovars, doitvars, disk, child>>

-------------------------------------------------------------------------------
(* open_listenfd                                                           *)

startvars == <<clientvars, got, room, backlog, done, before, cur, riovars,
               doitvars, disk, mapped, child>>

(* The address list is at its end, or was never got: -1 or -2, and         *)
(* Open_listenfd exits.                                                    *)
NoAddress ==
  /\ pc = "socket" /\ addrs = 0
  /\ pc' = "down" /\ failed' = TRUE
  /\ UNCHANGED <<startvars, addrs, fds>>

Socket ==
  /\ pc = "socket" /\ addrs > 0
  /\ \/ pc' = "bind" /\ fds' = fds \cup {"unbound"} /\ UNCHANGED addrs
     \/ addrs' = addrs - 1 /\ UNCHANGED <<pc, fds>>
  /\ UNCHANGED <<startvars, failed>>

(* bind, and then freeaddrinfo; or close when it fails, which may fail too *)
Bind ==
  /\ pc = "bind"
  /\ \/ pc' = "listen" /\ addrs' = 0 /\ UNCHANGED <<fds, failed>>
     \/ pc' = "socket" /\ addrs' = addrs - 1 /\ fds' = fds \ {"unbound"}
        /\ UNCHANGED failed
     \/ pc' = "down" /\ fds' = {} /\ failed' = TRUE /\ UNCHANGED addrs
  /\ UNCHANGED startvars

Listen ==
  /\ pc = "listen"
  /\ \/ pc' = "accept" /\ fds' = (fds \ {"unbound"}) \cup {"listening"}
        /\ UNCHANGED failed
     \/ pc' = "down" /\ fds' = {} /\ failed' = TRUE
  /\ UNCHANGED <<startvars, addrs>>

-------------------------------------------------------------------------------
(* What doit does with a request                                           *)

Write(data) == [call |-> "write", data |-> data]
Call(name) == [call |-> name, data |-> << >>]

clienterror(errnum) ==
  <<Write(<<errnum>>), Write(<<"type">>), Write(<<"length">>),
    Write(<<"page">>)>>

(* The name of a file is the parts that make it up: path, query (which     *)
(* stays in a static name) and whether home.html is appended.              *)
parse_uri(u) ==
  IF u.cgi
    THEN [is_static |-> FALSE, filename |-> <<u.path, "", FALSE>>,
          cgiargs |-> u.query]
    ELSE [is_static |-> TRUE, filename |-> <<u.path, u.query, u.slash>>,
          cgiargs |-> ""]

Body(f) == [j \in 1 .. Files[f].size |-> <<f, j>>]

\* (a bug to catch) the file is closed before it is mapped.
serve_staticClosesFirst(f) ==
  <<Write(<<"200static">>), Call("open"), Call("close"), Call("mmap"),
    Write(Body(f)), Call("munmap")>>

serve_static(f) ==
  <<Write(<<"200static">>), Call("open"), Call("mmap"), Call("close"),
    Write(Body(f)), Call("munmap")>>

serve_dynamic ==
  <<Write(<<"200">>), Write(<<"server">>), Call("fork"), Call("wait")>>

Answer(u) ==
  LET p == parse_uri(u)
      file == Files[p.filename]
  IN  IF p.filename \notin disk THEN clienterror("404")
      ELSE IF ~ file.reg \/ ~ (IF p.is_static THEN file.rusr ELSE file.xusr)
        THEN clienterror("403")
      ELSE IF p.is_static THEN serve_static(p.filename)
      ELSE serve_dynamic

(* What is left of a uri that parse_uri has seen: a query is cut off.      *)
Cut(u) ==
  IF u.cgi
    THEN [path |-> u.path, slash |-> u.slash, query |-> "", cgi |-> TRUE,
          args |-> FALSE]
    ELSE u

(* sscanf fills as many of method and uri as the line has words.  Each     *)
(* request finds them where the last one had them, on the stack: the words *)
(* that the line has not are an earlier request's, if nothing has          *)
(* overwritten them.                                                       *)
sscanf(l) ==
  LET words == Parsed[l[1]]
  IN  /\ IF Len(words) > 0 THEN method' = words[1] ELSE method' \in {method, "?"}
      /\ IF Len(words) = 2 THEN uri' = words[2]
           ELSE uri' \in {IF method = "GET" THEN Cut(uri) ELSE uri} \cup Junk

GotRequest(l) ==
  /\ pc = "request" /\ sscanf(l)
  /\ \/ /\ method' # "GET" /\ pc' = "doit" /\ todo' = clienterror("501")
        /\ UNCHANGED unset
     \/ /\ method' = "GET" /\ pc' = "headers" /\ unset' = TRUE
        /\ UNCHANGED todo

\* (a bug to catch) any line of two bytes ends the headers.
GotHeaderShort(l) ==
  /\ pc = "headers" /\ UNCHANGED <<method, uri>>
  /\ \/ /\ Len(l) # 2 /\ unset' = FALSE /\ UNCHANGED <<pc, todo>>
     \/ /\ Len(l) = 2 /\ pc' = "doit" /\ todo' = Answer(uri)
        /\ UNCHANGED unset

GotHeader(l) ==
  /\ pc = "headers" /\ UNCHANGED <<method, uri>>
  /\ \/ /\ l # CRLF /\ unset' = FALSE /\ UNCHANGED <<pc, todo>>
     \/ /\ l = CRLF /\ pc' = "doit" /\ todo' = Answer(uri)
        /\ UNCHANGED unset

(* A line is complete.                                                     *)
GotLine(l) == GotRequest(l) \/ GotHeader(l)

-------------------------------------------------------------------------------
(* main and doit                                                           *)

othervars == <<clientvars, got, room, backlog, done, before, addrs, cur, failed,
               kernelvars>>

\* (a bug to catch) the reader keeps what it has read from the last client.
AcceptKeepsReader ==
  /\ pc = "accept" /\ backlog # << >>
  /\ cur' = Head(backlog) /\ backlog' = Tail(backlog) /\ room' = TRUE
  /\ before' = [before EXCEPT ![cur'] = done]
  /\ pc' = "request" /\ line' = << >>
  /\ fds' = fds \cup {"conn"}
  /\ taken' = 0 /\ handed' = << >>
  /\ UNCHANGED <<clientvars, got, done, addrs, failed, method, uri,
                 unset, todo, disk,
                 mapped, child, rio_buf, rio_bufptr, rio_cnt>>

Accept ==
  /\ pc = "accept" /\ backlog # << >>
  /\ cur' = Head(backlog) /\ backlog' = Tail(backlog) /\ room' = TRUE
  /\ before' = [before EXCEPT ![cur'] = done]
  /\ pc' = "request" /\ line' = << >>
  /\ fds' = fds \cup {"conn"}
  /\ rio!rio_readinitb
  /\ rio_buf' = [j \in 1 .. RIO_BUFSIZE |-> "?"]
  /\ UNCHANGED <<clientvars, got, done, addrs, failed, method, uri,
                 unset, todo, disk,
                 mapped, child>>

Reading == pc \in {"request", "headers"}

Read ==
  /\ Reading
  /\ UNCHANGED <<othervars, pc, doitvars>>
  /\ \E k \in 1 .. RIO_BUFSIZE : rio!Refill(k)

(* One turn of the loop of rio_readlineb                                   *)
ReadByte ==
  /\ Reading
  /\ UNCHANGED othervars
  /\ rio!rio_read(1)
  /\ LET l == Append(line, Last(handed'))
     IN  IF Last(l) = "\n" \/ Len(l) = MAXLINE - 1
           THEN line' = << >> /\ GotLine(l)
           ELSE line' = l /\ UNCHANGED <<pc, method, uri, unset, todo>>

AtEof == Reading /\ rio_cnt <= 0 /\ cur \in fin /\ taken = Len(sent[cur])

(* End of file: what was read counts as a line; with nothing read doit     *)
(* returns, but read_requesthdrs goes on comparing a buf that does not     *)
(* change: the last line, or, at the first header, whatever the stack      *)
(* held, which may be the blank line of an earlier request.                *)
Eof ==
  /\ AtEof /\ UNCHANGED <<othervars, riovars>>
  /\ \/ /\ line # << >> /\ line' = << >> /\ GotLine(line)
     \/ /\ line = << >> /\ pc = "request"
        /\ pc' = "close" /\ UNCHANGED doitvars
     \/ /\ line = << >> /\ pc = "headers"
        /\ pc' = "spins" /\ UNCHANGED doitvars
     \/ /\ line = << >> /\ pc = "headers" /\ unset
        /\ pc' = "doit" /\ todo' = Answer(uri)
        /\ UNCHANGED <<line, method, uri, unset>>

Spin == pc = "spins" /\ UNCHANGED vars

(* read(2) on a connection that the client has reset                       *)
ReadFails ==
  /\ Reading /\ rio_cnt <= 0 /\ cur \in gone
  /\ unix_error
  /\ UNCHANGED <<clientvars, got, room, backlog, done, before, addrs, cur,
                 failed, riovars, doitvars, disk, child>>

Next1 == Head(todo)
callvars == <<clientvars, backlog, done, before, addrs, cur, riovars, line,
              method, uri, unset, disk>>

\* (a bug to catch) a short count is taken for the whole.
WriteOnce(k) ==
  /\ pc = "doit" /\ todo # << >> /\ Next1.call = "write"
  /\ room /\ k \in 1 .. Len(Next1.data)
  /\ got' = [got EXCEPT ![cur] = IF cur \in gone THEN @
                                 ELSE @ \o SubSeq(Next1.data, 1, k)]
  /\ todo' = Tail(todo)
  /\ room' \in BOOLEAN
  /\ UNCHANGED <<callvars, pc, failed, fds, mapped, child>>

(* write(2) inside rio_writen returns k.  It waits while what the client   *)
(* has not read fills the buffers between them.                            *)
WriteSome(k) ==
  /\ pc = "doit" /\ todo # << >> /\ Next1.call = "write"
  /\ room /\ k \in 1 .. Len(Next1.data)
  /\ got' = [got EXCEPT ![cur] = IF cur \in gone THEN @
                                 ELSE @ \o SubSeq(Next1.data, 1, k)]
  /\ todo' = IF k = Len(Next1.data)
               THEN Tail(todo)
               ELSE <<Write(SubSeq(Next1.data, k + 1, Len(Next1.data)))>>
                      \o Tail(todo)
  /\ room' \in BOOLEAN
  /\ UNCHANGED <<callvars, pc, failed, fds, mapped, child>>

(* write(2) to a client that has closed: SIGPIPE, or an error              *)
WriteFails ==
  /\ pc = "doit" /\ todo # << >> /\ Next1.call = "write" /\ cur \in gone
  /\ unix_error
  /\ UNCHANGED <<callvars, got, room, failed, todo, child>>

Does(call) ==
  /\ pc = "doit" /\ todo # << >> /\ Next1.call = call
  /\ todo' = Tail(todo)
  /\ UNCHANGED <<callvars, got, room, failed>>

Filename == parse_uri(uri).filename

Open ==
  /\ pc = "doit" /\ todo # << >> /\ Next1.call = "open"
  /\ IF Filename \in disk
       THEN fds' = fds \cup {"src"} /\ UNCHANGED <<pc, mapped>>
       ELSE unix_error
  /\ todo' = Tail(todo)
  /\ UNCHANGED <<callvars, got, room, failed, child>>

(* mmap refuses a length of zero.                                          *)
Mmap ==
  /\ pc = "doit" /\ todo # << >> /\ Next1.call = "mmap"
  /\ IF Files[Filename].size > 0 /\ "src" \in fds
       THEN mapped' = TRUE /\ UNCHANGED <<pc, fds>>
       ELSE unix_error
  /\ todo' = Tail(todo)
  /\ UNCHANGED <<callvars, got, room, failed, child>>

\* (a bug to catch) the descriptor of the file stays open.
CloseSrcForgotten ==
  Does("close") /\ UNCHANGED <<pc, mapped, child, fds>>

CloseSrc ==
  Does("close") /\ fds' = fds \ {"src"} /\ UNCHANGED <<pc, mapped, child>>

Munmap ==
  Does("munmap") /\ mapped' = FALSE /\ UNCHANGED <<pc, fds, child>>

(* The child has what tiny had printed and not yet flushed, which is       *)
(* nothing if its output is a terminal.                                    *)
Fork ==
  Does("fork") /\ child' \in {"forked", "unflushed"}
    /\ UNCHANGED <<pc, fds, mapped>>

Wait ==
  Does("wait") /\ child = "zombie" /\ child' = "none"
    /\ UNCHANGED <<pc, fds, mapped>>

Return ==
  /\ pc = "doit" /\ todo = << >> /\ pc' = "close"
  /\ UNCHANGED <<callvars, todo, got, room, failed, fds, mapped, child>>

\* (a bug to catch) the connection is not closed.
CloseForgotten ==
  /\ pc = "close" /\ pc' = "accept"
  /\ UNCHANGED <<clientvars, got, room, backlog, before, addrs, cur, failed,
                 riovars, doitvars, disk, mapped, child, fds, done>>

Close ==
  /\ pc = "close" /\ pc' = "accept"
  /\ fds' = fds \ {"conn"} /\ done' = done \cup {cur}
  /\ UNCHANGED <<clientvars, got, room, backlog, before, addrs, cur, failed,
                 riovars, doitvars, disk, mapped, child>>

-------------------------------------------------------------------------------
(* The child of serve_dynamic                                              *)

childvars == <<clientvars, room, backlog, done, before, addrs, cur, riovars,
               doitvars, disk, pc, fds, mapped>>

(* The child writes to the client, and waits as tiny does.                 *)
Sends(data) ==
  /\ data = << >> \/ room \/ cur \in gone
  /\ got' = [got EXCEPT ![cur] = IF cur \in gone THEN @ ELSE @ \o data]

Execve ==
  /\ child \in {"forked", "unflushed"} /\ Filename \in disk /\ child' = "cgi"
  /\ UNCHANGED <<childvars, got, failed>>

(* Execve fails and exits; what is not flushed is flushed to the client.   *)
ExecveFails ==
  /\ child \in {"forked", "unflushed"} /\ child' = "zombie"
  /\ failed' = (failed \/ Filename \in disk)
  /\ Sends(IF child = "forked" THEN << >> ELSE <<"log">>)
  /\ UNCHANGED childvars

(* adder.c: without an & between the arguments it writes through NULL.     *)
Cgi ==
  /\ child = "cgi" /\ child' = "zombie"
  /\ Sends(IF uri.args THEN <<"sum">> ELSE << >>)
  /\ UNCHANGED <<childvars, failed>>

-------------------------------------------------------------------------------
Server ==
  \/ NoAddress \/ Socket \/ Bind \/ Listen
  \/ Accept \/ Read \/ ReadByte \/ Eof \/ Spin \/ ReadFails
  \/ \E k \in 1 .. 2 : WriteSome(k)
  \/ WriteFails \/ Open \/ Mmap \/ CloseSrc \/ Munmap \/ Fork \/ Wait
  \/ Return \/ Close

Child == Execve \/ ExecveFails \/ Cgi

Environment ==
  \/ \E c \in Clients : Connect(c) \/ Send(c) \/ Leave(c)
  \/ Receive
  \/ \E f \in Removable : Unlink(f)
  \/ CallFails

Next == Server \/ Child \/ Environment

(* tiny and its child keep running; nobody has to do anything else.        *)
Spec == Init /\ [][Next]_vars /\ WF_vars(Server) /\ WF_vars(Child)

-------------------------------------------------------------------------------
(* Properties                                                              *)

\* Types; a line leaves room for its zero, and at most one connection and
\* one file are open at a time (tiny.c:31-39, csapp.c:865).
TypeOK ==
  /\ \A c \in Clients : IsPrefix(sent[c], want[c])
  /\ gone \subseteq fin /\ fin \subseteq Clients /\ done \subseteq Clients
  /\ pc \in {"socket", "bind", "listen", "accept", "request", "headers",
             "spins", "doit", "close", "down"}
  /\ Len(line) < MAXLINE - 1
  /\ cur \in Clients \cup {Nobody} /\ disk \subseteq DOMAIN Files
  /\ fds \subseteq {"unbound", "listening", "conn", "src"}
  /\ child \in {"none", "forked", "unflushed", "cgi", "zombie"}
  /\ addrs \in 0 .. MaxAddrs /\ {mapped, unset, failed, room} \subseteq BOOLEAN
  /\ before \in [Clients -> SUBSET Clients]
  /\ rio_cnt \in -1 .. RIO_BUFSIZE /\ rio_bufptr \in 1 .. RIO_BUFSIZE + 1

\* However the network cuts a request up, the lines tiny reads are the
\* client's bytes, in order and without a gap (csapp.c:794-820).
InOrder == rio!InOrder

\* tiny uses a reader on one connection at a time, and starts it afresh for
\* the next (tiny.c:56): what is proved of Rio holds of it.
ReaderIsRio == rio!Spec

(* The first n bytes of s end with the first blank line.                   *)
EndsHeaders(s, n) ==
  LET Blank(m) == SubSeq(s, m - 2, m) = <<"\n">> \o CRLF
  IN  n \in 3 .. Len(s) /\ Blank(n) /\ \A m \in 3 .. n - 1 : ~ Blank(m)

LinesFit(s) ==
  \A n \in 1 .. Len(s) - MAXLINE + 2 :
    \E m \in n .. n + MAXLINE - 2 : s[m] = "\n"

(* The words of c's request line                                           *)
Words(c) == Parsed[want[c][1]]

\* tiny answers a GET when it has read exactly up to the blank line, as long
\* as every line fits its buffer, or when the client has stopped
\* (tiny.c:105; a longer line may be cut so that its end looks blank).
HeadersEndAtTheBlankLine ==
  pc = "doit" /\ method = "GET" /\ LinesFit(want[cur])
    => \/ EndsHeaders(sent[cur], Len(handed))
       \/ cur \in fin /\ handed = sent[cur]

Target(u) == <<u.path, IF u.cgi THEN "" ELSE u.query, ~ u.cgi /\ u.slash>>

ErrorPage(n) == <<n, "type", "length", "page">>

(* Whole answers to a request                                              *)
Answers(r) ==
  LET f == Target(r.uri)
      file == Files[f]
      exists == f \in DOMAIN Files
      may == IF r.uri.cgi THEN file.xusr ELSE file.rusr
      cgi == (IF r.uri.args THEN {<<"sum">>} ELSE {<< >>})
               \cup (IF f \in disk /\ ~ failed THEN {} ELSE {<< >>, <<"log">>})
  IN  IF r.method # "GET" THEN {ErrorPage("501")}
      ELSE (IF f \in disk THEN {} ELSE {ErrorPage("404")})
           \cup (IF ~ exists THEN {}
                 ELSE IF ~ file.reg \/ ~ may THEN {ErrorPage("403")}
                 ELSE IF r.uri.cgi
                   THEN {<<"200", "server">> \o x : x \in cgi}
                 ELSE {<<"200static">> \o Body(f)})

(* What method and uri may be when clients S have been served              *)
Heard(S) == {d \in S : sent[d] # << >>}
MethodsOf(S) ==
  {"?"} \cup {Words(d)[1] : d \in {e \in Heard(S) : Len(Words(e)) > 0}}
UrisOf(S) ==
  LET U == Junk \cup {Words(d)[2] : d \in {e \in Heard(S) : Len(Words(e)) = 2}}
  IN  U \cup {Cut(u) : u \in U}

(* What tiny may take c's request for: for the words that its line has not *)
(* it has what clients served before c have asked, or junk.                *)
Meanings(c) ==
  [method : IF Len(Words(c)) > 0 THEN {Words(c)[1]} ELSE MethodsOf(before[c]),
   uri    : IF Len(Words(c)) = 2 THEN {Words(c)[2]} ELSE UrisOf(before[c])]

\* What reaches a client is the beginning of an answer to its own request,
\* and the whole of it once tiny has closed, unless the client left or sent
\* nothing.  Only when its request line lacks a uri, or a method too, may it
\* be the answer to what an earlier client asked for (tiny.c:47-239, 60:
\* sscanf is not checked; write may be short, files may go).
AnswersAreRight ==
  \A c \in Clients :
    got[c] # << >> \/ (c \in done \ gone /\ sent[c] # << >>) =>
      \E r \in Meanings(c) : \E a \in Answers(r) :
        IsPrefix(got[c], a) /\ (c \in done \ gone => got[c] = a)

\* Between two connections only the listening descriptor is open, no file is
\* mapped and no child is left (tiny.c:38, 168-170, 211).
NothingIsLeftOpen ==
  /\ pc = "accept" => fds = {"listening"}
  /\ pc \in {"accept", "request", "headers"} => child = "none" /\ ~ mapped
  /\ pc \in {"request", "headers", "spins"} => fds = {"listening", "conn"}

\* What the server keeps has its types, and nothing is left over from one
\* connection to the next (tiny.c:31-39).
ServerIsWhole == TypeOK /\ NothingIsLeftOpen

\* A wrapper exits the server: but not because of a client that stays and
\* asks for a file that is there, and is not empty (csapp.c:29-33, 421-428).
PatientClientsAreSafe ==
  pc = "down" /\ ~ failed =>
    \/ cur \in gone
    \/ LET f == Target(uri) IN f \notin disk \/ Files[f].size = 0

(* All tiny needs of c's request has been sent; a line without a method    *)
(* may be taken for a GET.                                                 *)
Complete(c) ==
  /\ want[c] # << >>
  /\ IF Len(Words(c)) = 0 \/ Words(c)[1] = "GET"
       THEN \E n \in 3 .. Len(sent[c]) : EndsHeaders(sent[c], n)
       ELSE \E n \in 1 .. Len(sent[c]) : sent[c][n] = "\n"

(* tiny is iterative, and one client keeps it from the others: one that    *)
(* does not finish its request, or stops in its headers (the loop of line  *)
(* 105 never ends), or does not read what tiny or the CGI program writes.  *)
Blocked ==
  \/ pc \in {"request", "headers", "spins"} /\ ~ Complete(cur)
  \/ pc = "doit" /\ ~ room /\ cur \notin gone

\* If tiny is not kept by a client for ever, every client that has sent its
\* request gets its connection served and closed (tiny.c:31-39), or some
\* call has ended the server.
ServedUnlessBlocked ==
  []<>~ Blocked =>
    \A c \in Clients : Complete(c) ~> c \in done \/ pc = "down"
================================================================================
