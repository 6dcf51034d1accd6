------------------------------- MODULE TinyProofs ------------------------------
(***************************************************************************)
(* The Web server of lab 5, for any clients and requests, any files and    *)
(* any sizes of its buffers: what is proved of the reader holds of tiny's; *)
(* from that, where the headers of a request end; and from the calls that  *)
(* doit has still to make, what reaches a client and what is left behind.  *)
(***************************************************************************)
EXTENDS Tiny, SequenceTheorems, TLAPS

R == INSTANCE RioProofs WITH stream <- IF cur = Nobody THEN << >> ELSE sent[cur]

-------------------------------------------------------------------------------
(* Sequences                                                               *)

LEMMA PrefixIs ==
  ASSUME NEW S, NEW s \in Seq(S), NEW t \in Seq(S)
  PROVE  IsPrefix(s, t) <=>
           Len(s) <= Len(t) /\ \A i \in 1 .. Len(s) : s[i] = t[i]
<1>1. /\ Len(SubSeq(s, 1, Len(s))) = Len(s) /\ SubSeq(s, 1, Len(s)) = s
  BY SubSeqFull
<1>2. ASSUME Len(s) <= Len(t)
      PROVE  /\ SubSeq(t, 1, Len(s)) \in Seq(S) /\ Len(SubSeq(t, 1, Len(s))) = Len(s)
             /\ \A i \in 1 .. Len(s) : SubSeq(t, 1, Len(s))[i] = t[i]
  <2>1. \A i \in 1 .. Len(s) : t[i] \in S
    BY <1>2
  <2>2. /\ SubSeq(t, 1, Len(s)) \in Seq(S)
        /\ Len(SubSeq(t, 1, Len(s))) = IF 1 <= Len(s) THEN Len(s) - 1 + 1 ELSE 0
        /\ \A i \in 1 .. Len(s) - 1 + 1 : SubSeq(t, 1, Len(s))[i] = t[1 + i - 1]
    BY <2>1, SubSeqProperties
  <2> QED
    BY <2>2
<1>3. CASE Len(s) <= Len(t)
  <2>1. s = SubSeq(t, 1, Len(s)) <=> \A i \in 1 .. Len(s) : s[i] = t[i]
    BY <1>2, <1>3, SeqEqual
  <2> QED
    BY <1>1, <1>3, <2>1 DEF IsPrefix
<1>4. CASE ~ Len(s) <= Len(t)
  BY <1>4 DEF IsPrefix
<1> QED
  BY <1>3, <1>4

-------------------------------------------------------------------------------
(* Types, and where the clients are                                        *)

Text ==
  {"404", "403", "501", "type", "length", "page", "200static", "200",
   "server", "sum", "log"}
    \cup UNION {{<<f, j>> : j \in 1 .. Files[f].size} : f \in DOMAIN Files}

Types ==
  /\ want \in [Clients -> Seq(Byte)] /\ sent \in [Clients -> Seq(Byte)]
  /\ got \in [Clients -> Seq(Text)]
  /\ \A c \in Clients : want[c] = << >> \/ want[c] \in Requests[c]
  /\ backlog \in Seq(Clients) /\ line \in Seq(Byte)
  /\ TypeOK

(* The bytes read are the beginning of what the client has sent.           *)
Reader == R!IInv

(* A client waits, is served or has been, once; only the client served now *)
(* can be in the middle of an answer.                                      *)
Waiting ==
  /\ \A i \in 1 .. Len(backlog) :
       want[backlog[i]] # << >> /\ backlog[i] # cur /\ backlog[i] \notin done
  /\ \A i, j \in 1 .. Len(backlog) : backlog[i] = backlog[j] => i = j
  /\ \A c \in done : want[c] # << >> /\ (sent[c] = << >> => c \in fin)
  /\ \A c \in Clients : c # cur /\ c \notin done => got[c] = << >>

Served ==
  /\ cur # Nobody => want[cur] # << >>
  /\ pc \in {"socket", "bind", "listen"} => cur = Nobody
  /\ pc = "bind" => addrs > 0
  /\ pc = "accept" => cur = Nobody \/ cur \in done
  /\ pc \in {"request", "headers", "spins", "doit", "close"}
       => cur \in Clients \ done
  /\ child # "none" => cur \in Clients \ done
  /\ pc \in {"request", "headers", "spins"} => got[cur] = << >>
  /\ pc = "close" /\ sent[cur] = << >> => got[cur] = << >> /\ cur \in fin

(* What is open outside doit                                               *)
Descriptors ==
  /\ pc = "socket" => fds = {}
  /\ pc \in {"bind", "listen"} => fds = {"unbound"}
  /\ pc = "accept" => fds = {"listening"}
  /\ pc \in {"request", "headers", "spins", "close"}
       => fds = {"listening", "conn"}
  /\ pc # "doit" => ~ mapped
  /\ pc \notin {"doit", "down"} => child = "none"

(* A newline, and a line that is blank, end at the mth byte of s.          *)
BlankAt(s, m) == s[m - 2] = "\n" /\ s[m - 1] = "\r" /\ s[m] = "\n"

(* The line being read is the end of the bytes read and has no newline;    *)
(* with lines that fit, it begins after one, and no blank line was passed. *)
Passed(n) == \A m \in 3 .. n : ~ BlankAt(handed, m)

Lines ==
  LET k == Len(line)
      n == Len(handed)
      start == n - k
      stopped == cur \in fin /\ handed = sent[cur] /\ line = << >>
  IN  /\ pc \in {"request", "headers", "spins"} =>
           k <= n /\ \A i \in 1 .. k : line[i] = handed[start + i] /\ line[i] # "\n"
      /\ pc = "request" => start = 0
      /\ pc \in {"headers", "spins"} =>
           /\ start > 0
           /\ method = "GET"
           /\ LinesFit(want[cur]) =>
                stopped \/ (handed[start] = "\n" /\ Passed(n))

-------------------------------------------------------------------------------
(* How far an answer is                                                    *)

(* What has been written, of which a client that has closed may have       *)
(* received less                                                           *)
Told(text) ==
  got[cur] = text \/ (cur \in gone /\ IsPrefix(got[cur], text))

HasOpen(more, map) ==
  pc # "down" => fds = {"listening", "conn"} \cup more /\ mapped = map

Refused(n) ==
  LET u == uri
      file == Files[Target(u)]
  IN  \/ n = "501" /\ method # "GET"
      \/ n = "404" /\ method = "GET" /\ Target(u) \notin disk
      \/ /\ n = "403" /\ method = "GET"
         /\ Target(u) \in DOMAIN Files
         /\ ~ file.reg \/ ~ IF u.cgi THEN file.xusr ELSE file.rusr

SayingNo(n) ==
  \/ todo = clienterror(n) /\ Told(<< >>)
  \/ todo = <<Write(<<"type">>), Write(<<"length">>), Write(<<"page">>)>>
     /\ Told(<<n>>)
  \/ todo = <<Write(<<"length">>), Write(<<"page">>)>> /\ Told(<<n, "type">>)
  \/ todo = <<Write(<<"page">>)>> /\ Told(<<n, "type", "length">>)
  \/ todo = << >> /\ Told(ErrorPage(n))

Refusing ==
  /\ child = "none" /\ HasOpen({}, FALSE)
  /\ \E n \in {"404", "403", "501"} : Refused(n) /\ SayingNo(n)

OK == <<"200static">>

BeforeHeader(f) ==
  todo = serve_static(f) /\ HasOpen({}, FALSE) /\ Told(<< >>)

BeforeOpen(f) ==
  /\ todo = <<Call("open"), Call("mmap"), Call("close"), Write(Body(f)),
              Call("munmap")>>
  /\ HasOpen({}, FALSE) /\ Told(OK)

BeforeMmap(f) ==
  /\ todo = <<Call("mmap"), Call("close"), Write(Body(f)), Call("munmap")>>
  /\ HasOpen({"src"}, FALSE) /\ Told(OK)

BeforeClose(f) ==
  /\ todo = <<Call("close"), Write(Body(f)), Call("munmap")>>
  /\ HasOpen({"src"}, TRUE) /\ Files[f].size > 0 /\ Told(OK)

Writing(f, k) ==
  /\ todo = <<Write(SubSeq(Body(f), k + 1, Files[f].size)), Call("munmap")>>
  /\ HasOpen({}, TRUE) /\ Told(OK \o SubSeq(Body(f), 1, k))

BeforeMunmap(f) ==
  todo = <<Call("munmap")>> /\ HasOpen({}, TRUE) /\ Told(OK \o Body(f))

Sent(f) == todo = << >> /\ HasOpen({}, FALSE) /\ Told(OK \o Body(f))

Sending(f) ==
  \/ BeforeHeader(f) \/ BeforeOpen(f) \/ BeforeMmap(f) \/ BeforeClose(f)
  \/ \E k \in 0 .. Files[f].size - 1 : Writing(f, k)
  \/ BeforeMunmap(f) \/ Sent(f)

MaySend(f) ==
  /\ child = "none" /\ ~ uri.cgi /\ method = "GET"
  /\ f \in DOMAIN Files /\ f = Target(uri) /\ Files[f].reg /\ Files[f].rusr

ServingStatic == \E f \in DOMAIN Files : MaySend(f) /\ Sending(f)

(* What the CGI program adds                                               *)
CgiOutput ==
  (IF uri.args THEN {<<"sum">>} ELSE {<< >>})
    \cup (IF Target(uri) \in disk /\ ~ failed THEN {} ELSE {<< >>, <<"log">>})

MayRun(f) ==
  /\ uri.cgi /\ method = "GET" /\ HasOpen({}, FALSE)
  /\ f \in DOMAIN Files /\ f = Target(uri) /\ Files[f].reg /\ Files[f].xusr

Ran == \E x \in CgiOutput : Told(<<"200", "server">> \o x)

Running ==
  \/ todo = serve_dynamic /\ child = "none" /\ Told(<< >>)
  \/ /\ todo = <<Write(<<"server">>), Call("fork"), Call("wait")>>
     /\ child = "none" /\ Told(<<"200">>)
  \/ /\ todo = <<Call("fork"), Call("wait")>>
     /\ child = "none" /\ Told(<<"200", "server">>)
  \/ /\ todo = <<Call("wait")>>
     /\ child \in {"forked", "unflushed", "cgi"} /\ Told(<<"200", "server">>)
  \/ todo = <<Call("wait")>> /\ child = "zombie" /\ Ran
  \/ todo = << >> /\ child = "none" /\ Ran

ServingDynamic == Running /\ \E f \in DOMAIN Files : MayRun(f)

(* doit has decided; the calls it has left tell what it has done.          *)
Decided == pc = "doit" \/ child # "none" \/ (pc = "close" /\ sent[cur] # << >>)

Stage ==
  Decided =>
    /\ sent[cur] # << >>
    /\ pc = "close" => todo = << >>
    /\ Refusing \/ ServingStatic \/ ServingDynamic

(* A uri says whether it is a program's and whether it ends with a slash.  *)
UriIsUri == {uri.slash, uri.cgi} \subseteq BOOLEAN

(* What method and uri may be once c's request line is parsed              *)
MethodIs(c) ==
  method \in IF Len(Words(c)) > 0 THEN {Words(c)[1]} ELSE MethodsOf(before[c])
UriIs(c) ==
  uri \in IF Len(Words(c)) = 2 THEN {Words(c)[2]} ELSE UrisOf(before[c])

(* From the request line to the end of the connection method and uri are   *)
(* what tiny takes the request for; before it, what is left of others.     *)
Parsing ==
  pc \in {"headers", "spins", "doit"} \/ child # "none"
    \/ (pc = "close" /\ sent[cur] # << >>)

Understood ==
  /\ \A c \in Clients : before[c] \subseteq done
  /\ cur \in Clients \ done => before[cur] = done
  /\ Parsing => MethodIs(cur) /\ UriIs(cur)
  /\ ~ Parsing /\ pc # "down" => method \in MethodsOf(done) /\ uri \in UrisOf(done)

LEMMA InitReader == Init => Reader
<1> SUFFICES ASSUME Init PROVE Reader
  OBVIOUS
<1>1. R!Init
  BY TinyAssumption DEF Init, R!Init, R!Fresh
<1>2. RIO_BUFSIZE \in Nat \ {0}
  BY TinyAssumption
<1> QED
  BY <1>1, <1>2, R!InitIInv DEF Reader

(* Every step of tiny is a step of the reader, or leaves it alone; accept  *)
(* starts it on another descriptor.                                        *)
LEMMA StepIsRio ==
  ASSUME Types, [Next]_vars
  PROVE  [R!Next]_R!vars
<1>0. RIO_BUFSIZE \in Nat \ {0} /\ "?" \in Byte /\ Nobody \notin Clients
  BY TinyAssumption
<1>1. CASE UNCHANGED <<sent, cur, riovars>>
  BY <1>1 DEF riovars, R!vars
<1>2. ASSUME NEW c \in Clients, Send(c)
      PROVE  [R!Next]_R!vars
  <2>1. /\ sent[c] \in Seq(Byte) /\ want[c] \in Seq(Byte)
        /\ Len(sent[c]) < Len(want[c])
    BY <1>2 DEF Send, Types
  <2>2. want[c][Len(sent[c]) + 1] \in Byte
    BY <2>1
  <2>3. sent' = [sent EXCEPT ![c] = Append(sent[c], want[c][Len(sent[c]) + 1])]
          /\ UNCHANGED <<cur, riovars>>
    BY <1>2 DEF Send
  <2>4. CASE cur = c
    <3>1. R!Arrive(want[c][Len(sent[c]) + 1])
      BY <1>0, <2>3, <2>4 DEF R!Arrive, riovars, Types
    <3> QED
      BY <2>2, <3>1 DEF R!Next
  <2>5. CASE cur # c
    BY <2>3, <2>5 DEF riovars, R!vars, Types
  <2> QED
    BY <2>4, <2>5
<1>3. CASE Accept
  <2>1. cur' \in Clients /\ sent' = sent
    BY <1>3, HeadTailProperties DEF Accept, Types, clientvars
  <2>2. R!NextDescriptor
    BY <1>0, <1>3, <2>1 DEF Accept, R!NextDescriptor, rio!rio_readinitb, R!rio_readinitb, Types
  <2> QED
    BY <2>2 DEF R!Next
<1>4. CASE Read
  <2>1. PICK k \in 1 .. RIO_BUFSIZE : rio!Refill(k)
    BY <1>4 DEF Read
  <2>2. R!Refill(k)
    BY <2>1 DEF rio!Refill, R!Refill
  <2> QED
    BY <2>2 DEF R!Next
<1>5. CASE ReadByte
  <2>1. R!rio_read(1)
    BY <1>5 DEF ReadByte, rio!rio_read, R!rio_read
  <2>2. 1 \in 1 .. RIO_BUFSIZE
    BY <1>0
  <2> QED
    BY <2>1, <2>2 DEF R!Next
<1>6. Next \/ UNCHANGED vars
  OBVIOUS
<1>7. CASE Server
  <2>1. ASSUME NEW k \in 1 .. 2, WriteSome(k)
        PROVE  UNCHANGED <<sent, cur, riovars>>
    BY <2>1 DEF WriteSome, callvars, clientvars
  <2>2. \/ NoAddress \/ Socket \/ Bind \/ Listen \/ Eof \/ Spin \/ ReadFails
        \/ WriteFails \/ Open \/ Mmap
        => UNCHANGED <<sent, cur, riovars>>
    BY DEF NoAddress, Socket, Bind, Listen, Eof, Spin, ReadFails, WriteFails,
           Open, Mmap, startvars, callvars, clientvars, othervars, vars
  <2>3. CloseSrc \/ Munmap \/ Fork \/ Wait \/ Return \/ Close
        => UNCHANGED <<sent, cur, riovars>>
    BY DEF CloseSrc, Munmap, Fork, Wait, Return, Close, Does, callvars,
           clientvars
  <2> QED
    BY <1>1, <1>3, <1>4, <1>5, <1>7, <2>1, <2>2, <2>3 DEF Server
<1>8. CASE Child
  BY <1>1, <1>8 DEF Child, Execve, ExecveFails, Cgi, childvars, clientvars
<1>9. CASE Environment
  <2>1. ASSUME NEW c \in Clients, Connect(c) \/ Leave(c)
        PROVE  UNCHANGED <<sent, cur, riovars>>
    BY <2>1 DEF Connect, Leave
  <2>2. ASSUME NEW f \in Removable, Unlink(f)
        PROVE  UNCHANGED <<sent, cur, riovars>>
    BY <2>2 DEF Unlink, clientvars
  <2>3. CallFails \/ Receive => UNCHANGED <<sent, cur, riovars>>
    BY DEF CallFails, Receive, clientvars
  <2> QED
    BY <1>1, <1>2, <1>9, <2>1, <2>2, <2>3 DEF Environment
<1>10. CASE UNCHANGED vars
  BY <1>1, <1>10 DEF vars, clientvars
<1> QED
  BY <1>6, <1>7, <1>8, <1>9, <1>10 DEF Next

LEMMA NextReader ==
  ASSUME Types, Reader, [Next]_vars
  PROVE  Reader'
<1>1. [R!Next]_R!vars
  BY StepIsRio
<1> QED
  BY <1>1, R!NextIInv DEF Reader

-------------------------------------------------------------------------------
(* Types                                                                   *)

LEMMA TextIsText ==
  ASSUME NEW f \in DOMAIN Files
  PROVE  /\ Body(f) \in Seq(Text) /\ Len(Body(f)) = Files[f].size
         /\ \A j \in 1 .. Files[f].size : Body(f)[j] = <<f, j>>
<1>1. Files[f].size \in Nat
  BY TinyAssumption
<1>2. \A j \in 1 .. Files[f].size : <<f, j>> \in Text
  <2> DEFINE P(g) == {<<g, j>> : j \in 1 .. Files[g].size}
  <2>1. P(f) \in {P(g) : g \in DOMAIN Files}
    OBVIOUS
  <2>2. \A j \in 1 .. Files[f].size : <<f, j>> \in P(f)
    OBVIOUS
  <2>3. UNION {P(g) : g \in DOMAIN Files} \subseteq Text
    BY DEF Text
  <2> HIDE DEF P
  <2> QED
    BY <2>1, <2>2, <2>3
<1>3. Body(f) \in [1 .. Files[f].size -> Text]
  BY <1>2 DEF Body
<1>4. \A m, S, b : m \in Nat /\ b \in [1 .. m -> S] => b \in Seq(S) /\ Len(b) = m
  BY R!FunctionIsSeq
<1> QED
  BY <1>1, <1>3, <1>4 DEF Body

(* What has been read is what the client has sent first.                   *)
LEMMA ReadIsSent ==
  ASSUME Types, Reader, cur \in Clients
  PROVE  /\ handed \in Seq(Byte) /\ sent[cur] \in Seq(Byte)
         /\ want[cur] \in Seq(Byte)
         /\ Len(handed) <= Len(sent[cur]) /\ Len(sent[cur]) <= Len(want[cur])
         /\ taken \in 0 .. Len(sent[cur]) /\ rio_cnt \in Int
         /\ Len(handed) + (IF rio_cnt > 0 THEN rio_cnt ELSE 0) = taken
         /\ \A j \in 1 .. Len(handed) : handed[j] = sent[cur][j]
         /\ \A j \in 1 .. Len(sent[cur]) : sent[cur][j] = want[cur][j]
<1>1. cur # Nobody
  BY TinyAssumption
<1>2. sent[cur] \in Seq(Byte) /\ want[cur] \in Seq(Byte)
  BY DEF Types
<1>3. /\ handed \in Seq(Byte) /\ taken \in 0 .. Len(sent[cur]) /\ rio_cnt \in Int
      /\ Len(handed) + (IF rio_cnt > 0 THEN rio_cnt ELSE 0) = taken
      /\ \A j \in 1 .. Len(handed) : handed[j] = sent[cur][j]
  BY <1>1, TinyAssumption DEF Reader, R!IInv, R!Bounds, R!InOrder, R!Unread
<1>4. /\ Len(sent[cur]) <= Len(want[cur])
      /\ \A j \in 1 .. Len(sent[cur]) : sent[cur][j] = want[cur][j]
  BY <1>2, PrefixIs DEF Types, TypeOK
<1>5. Len(handed) <= Len(sent[cur])
  BY <1>2, <1>3
<1> QED
  BY <1>2, <1>3, <1>4, <1>5

(* rio_readlineb takes one byte, the next the client has sent.             *)
LEMMA OneByte ==
  ASSUME Types, Reader, Reader', cur \in Clients, ReadByte
  PROVE  /\ handed' \in Seq(Byte) /\ Len(handed') = Len(handed) + 1
         /\ \A j \in 1 .. Len(handed) : handed'[j] = handed[j]
         /\ Last(handed') = handed'[Len(handed) + 1] /\ Last(handed') \in Byte
         /\ Last(handed') = sent[cur][Len(handed) + 1]
         /\ Len(handed) < Len(sent[cur])
<1> DEFINE part == [j \in 1 .. 1 |-> rio_buf[rio_bufptr + j - 1]]
<1>1. /\ RIO_BUFSIZE \in Nat \ {0} /\ rio_cnt \in Int
      /\ rio_buf \in [1 .. RIO_BUFSIZE -> Byte]
      /\ rio_bufptr \in 1 .. RIO_BUFSIZE + 1 /\ rio_cnt > 0
      /\ rio_bufptr + rio_cnt <= RIO_BUFSIZE + 1
  BY TinyAssumption DEF Reader, R!IInv, R!Bounds, R!Unread, ReadByte, rio!rio_read
<1>2. (IF rio_cnt < 1 THEN rio_cnt ELSE 1) = 1
  BY <1>1
<1>3. handed' = handed \o part /\ UNCHANGED <<sent, cur>>
  BY <1>2 DEF ReadByte, rio!rio_read, othervars, clientvars
<1>4. rio_buf[rio_bufptr] \in Byte
  BY <1>1
<1>5. part \in [1 .. 1 -> Byte]
  BY <1>1, <1>4
<1>6. part \in Seq(Byte) /\ Len(part) = 1
  <2> HIDE DEF part
  <2>1. \A m, S, b : m \in Nat /\ b \in [1 .. m -> S] => b \in Seq(S) /\ Len(b) = m
    BY R!FunctionIsSeq
  <2> QED
    BY <1>5, <2>1
<1> HIDE DEF part
<1>7. handed \in Seq(Byte)
  BY ReadIsSent
<1>8. /\ handed' \in Seq(Byte) /\ Len(handed') = Len(handed) + 1
      /\ \A j \in 1 .. Len(handed) : handed'[j] = handed[j]
  <2>1. /\ handed \o part \in Seq(Byte)
        /\ Len(handed \o part) = Len(handed) + Len(part)
        /\ \A i \in 1 .. Len(handed) + Len(part) : (handed \o part)[i] =
             IF i <= Len(handed) THEN handed[i] ELSE part[i - Len(handed)]
    BY <1>6, <1>7, ConcatProperties
  <2>2. \A j \in 1 .. Len(handed) : (handed \o part)[j] = handed[j]
    BY <1>6, <1>7, <2>1
  <2> QED
    BY <1>3, <1>6, <2>1, <2>2
<1>9. Last(handed') = handed'[Len(handed) + 1] /\ Last(handed') \in Byte
  BY <1>7, <1>8 DEF Last
<1>10. /\ Len(handed') <= Len(sent[cur])
       /\ \A j \in 1 .. Len(handed') : handed'[j] = sent[cur][j]
  <2>1. cur # Nobody /\ cur' = cur /\ sent' = sent
    BY <1>3, TinyAssumption
  <2>2. /\ taken' \in 0 .. Len(sent[cur]) /\ rio_cnt' \in Int
        /\ Len(handed') + (IF rio_cnt' > 0 THEN rio_cnt' ELSE 0) = taken'
        /\ \A j \in 1 .. Len(handed') : handed'[j] = sent[cur][j]
    BY <2>1, TinyAssumption DEF Reader, R!IInv, R!Bounds, R!InOrder, R!Unread
  <2>3. Len(sent[cur]) \in Nat
    BY DEF Types
  <2> QED
    BY <1>8, <2>2, <2>3
<1> QED
  BY <1>7, <1>8, <1>9, <1>10

LEMMA WordsAreText ==
  \A w \in {"404", "403", "501", "type", "length", "page", "200static",
            "200", "server", "sum", "log"} : w \in Text
BY DEF Text

LEMMA ACall ==
  /\ \A d : Write(d).call = "write" /\ Write(d).data = d
  /\ \A n : Call(n).call = n
BY DEF Write, Call

(* The calls doit has left, by the next of them                            *)
LEMMA NoCalls ==
  ASSUME NEW n, SayingNo(n), todo # << >>
  PROVE  \/ todo = clienterror(n) /\ Told(<< >>) /\ Next1 = Write(<<n>>)
         \/ /\ todo = <<Write(<<"type">>), Write(<<"length">>), Write(<<"page">>)>>
            /\ Told(<<n>>) /\ Next1 = Write(<<"type">>)
         \/ /\ todo = <<Write(<<"length">>), Write(<<"page">>)>>
            /\ Told(<<n, "type">>) /\ Next1 = Write(<<"length">>)
         \/ /\ todo = <<Write(<<"page">>)>>
            /\ Told(<<n, "type", "length">>) /\ Next1 = Write(<<"page">>)
BY DEF SayingNo, clienterror, Next1

LEMMA SendingCalls ==
  ASSUME NEW f, Sending(f), todo # << >>
  PROVE  \/ BeforeHeader(f) /\ Next1 = Write(<<"200static">>)
         \/ BeforeOpen(f) /\ Next1 = Call("open")
         \/ BeforeMmap(f) /\ Next1 = Call("mmap")
         \/ BeforeClose(f) /\ Next1 = Call("close")
         \/ \E k \in 0 .. Files[f].size - 1 :
              /\ Writing(f, k)
              /\ Next1 = Write(SubSeq(Body(f), k + 1, Files[f].size))
         \/ BeforeMunmap(f) /\ Next1 = Call("munmap")
<1>1. BeforeHeader(f) => Next1 = Write(<<"200static">>)
  BY DEF BeforeHeader, Next1, serve_static
<1>2. BeforeOpen(f) => Next1 = Call("open")
  BY DEF BeforeOpen, Next1
<1>3. BeforeMmap(f) => Next1 = Call("mmap")
  BY DEF BeforeMmap, Next1
<1>4. BeforeClose(f) => Next1 = Call("close")
  BY DEF BeforeClose, Next1
<1>5. ASSUME NEW k, Writing(f, k)
      PROVE  Next1 = Write(SubSeq(Body(f), k + 1, Files[f].size))
  BY <1>5 DEF Writing, Next1
<1>6. BeforeMunmap(f) => Next1 = Call("munmap")
  BY DEF BeforeMunmap, Next1
<1>7. ~ Sent(f)
  BY DEF Sent
<1> QED
  BY <1>1, <1>2, <1>3, <1>4, <1>5, <1>6, <1>7, Zenon DEF Sending

LEMMA RunningCalls ==
  ASSUME Running, todo # << >>
  PROVE  \/ /\ todo = serve_dynamic /\ child = "none" /\ Told(<< >>)
            /\ Next1 = Write(<<"200">>)
         \/ /\ todo = <<Write(<<"server">>), Call("fork"), Call("wait")>>
            /\ child = "none" /\ Told(<<"200">>) /\ Next1 = Write(<<"server">>)
         \/ /\ todo = <<Call("fork"), Call("wait")>> /\ child = "none"
            /\ Told(<<"200", "server">>) /\ Next1 = Call("fork")
         \/ /\ todo = <<Call("wait")>> /\ child \in {"forked", "unflushed", "cgi"}
            /\ Told(<<"200", "server">>) /\ Next1 = Call("wait")
         \/ /\ todo = <<Call("wait")>> /\ child = "zombie" /\ Ran
            /\ Next1 = Call("wait")
BY DEF Running, serve_dynamic, Next1

(* What the calls of doit write is text.                                   *)
LEMMA WrittenIsText ==
  ASSUME Types, Stage, pc = "doit", todo # << >>
  PROVE  /\ Next1.call = "write" => Next1.data \in Seq(Text)
         /\ Next1.call = "write" => child = "none"
<1>1. Refusing \/ ServingStatic \/ ServingDynamic
  BY DEF Stage, Decided
<1>0. /\ <<"404">> \in Seq(Text) /\ <<"403">> \in Seq(Text)
      /\ <<"501">> \in Seq(Text) /\ <<"type">> \in Seq(Text)
      /\ <<"length">> \in Seq(Text) /\ <<"page">> \in Seq(Text)
      /\ <<"200static">> \in Seq(Text) /\ <<"200">> \in Seq(Text)
      /\ <<"server">> \in Seq(Text)
  BY WordsAreText
<1>2. CASE Refusing
  <2>1. PICK n \in {"404", "403", "501"} : SayingNo(n)
    BY <1>2 DEF Refusing
  <2>2. \/ Next1 = Write(<<n>>) \/ Next1 = Write(<<"type">>)
        \/ Next1 = Write(<<"length">>) \/ Next1 = Write(<<"page">>)
    BY <2>1, NoCalls
  <2>3. child = "none"
    BY <1>2 DEF Refusing
  <2> QED
    BY <1>0, <2>2, <2>3, ACall
<1>3. CASE ServingStatic
  <2>1. PICK f \in DOMAIN Files : MaySend(f) /\ Sending(f)
    BY <1>3 DEF ServingStatic
  <2> DEFINE size == Files[f].size
  <2>2. /\ Body(f) \in Seq(Text) /\ Len(Body(f)) = size
        /\ \A j \in 1 .. size : Body(f)[j] \in Text
        /\ size \in Nat
    BY <2>1, TextIsText, TinyAssumption, ElementOfSeq
  <2>3. \A k \in 0 .. size - 1 : SubSeq(Body(f), k + 1, size) \in Seq(Text)
    BY <2>2, SubSeqProperties
  <2>4. child = "none"
    BY <2>1 DEF MaySend
  <2>5. CASE Next1 = Write(<<"200static">>)
    BY <1>0, <2>4, <2>5, ACall
  <2>6. CASE \E k \in 0 .. size - 1 : Next1 = Write(SubSeq(Body(f), k + 1, size))
    <3>1. PICK k \in 0 .. size - 1 : Next1 = Write(SubSeq(Body(f), k + 1, size))
      BY <2>6
    <3>2. Next1.data = SubSeq(Body(f), k + 1, size)
      BY <3>1, ACall, Zenon
    <3>3. SubSeq(Body(f), k + 1, size) \in Seq(Text)
      BY <2>3
    <3> QED
      BY <2>4, <3>2, <3>3, Zenon
  <2>7. CASE Next1 \in {Call("open"), Call("mmap"), Call("close"), Call("munmap")}
    BY <2>7, ACall
  <2> QED
    BY <2>1, <2>5, <2>6, <2>7, SendingCalls
<1>4. CASE ServingDynamic
  <2>1. \/ Next1 = Write(<<"200">>) /\ child = "none"
        \/ Next1 = Write(<<"server">>) /\ child = "none"
        \/ Next1 = Call("fork") \/ Next1 = Call("wait")
    BY <1>4, RunningCalls DEF ServingDynamic
  <2> QED
    BY <1>0, <2>1, ACall
<1> QED
  BY <1>1, <1>2, <1>3, <1>4

LEMMA InitTypes == Init => Types
<1> SUFFICES ASSUME Init PROVE Types
  OBVIOUS
<1>1. \A c \in Clients : IsPrefix(sent[c], want[c])
  BY DEF Init, IsPrefix
<1>2. /\ << >> \in Seq(Byte) /\ << >> \in Seq(Text) /\ << >> \in Seq(Clients)
      /\ Len(<< >>) = 0 /\ 0 < MAXLINE - 1
  BY TinyAssumption
<1>3. RIO_BUFSIZE \in Nat \ {0}
  BY TinyAssumption
<1>4. TypeOK
  <2>1. Len(line) < MAXLINE - 1
    BY <1>2 DEF Init
  <2>2. rio_cnt \in -1 .. RIO_BUFSIZE /\ rio_bufptr \in 1 .. RIO_BUFSIZE + 1
    BY <1>3 DEF Init
  <2> QED
    BY <1>1, <2>1, <2>2 DEF Init, TypeOK
<1> QED
  BY <1>2, <1>4 DEF Init, Types

(* What got, sent and the others may become                                *)
LEMMA GotKeeps ==
  ASSUME Types, NEW text \in Seq(Text), cur \in Clients,
         got' = [got EXCEPT ![cur] = IF cur \in gone THEN @ ELSE @ \o text]
  PROVE  got' \in [Clients -> Seq(Text)]
<1>1. got[cur] \o text \in Seq(Text)
  BY ConcatProperties DEF Types
<1> QED
  BY <1>1 DEF Types

LEMMA WriteSomeText ==
  ASSUME Types, Stage, NEW k \in 1 .. 2, WriteSome(k)
  PROVE  /\ SubSeq(Next1.data, 1, k) \in Seq(Text)
         /\ Next1.data \in Seq(Text) /\ k \in 1 .. Len(Next1.data)
<1>1. Next1.data \in Seq(Text) /\ k \in 1 .. Len(Next1.data)
  BY WrittenIsText DEF WriteSome
<1>2. \A i \in 1 .. k : Next1.data[i] \in Text
  BY <1>1
<1> QED
  BY <1>1, <1>2, SubSeqProperties

(* The reader's part of the types follows from the reader's invariant.     *)
ReaderTypes == rio_cnt \in -1 .. RIO_BUFSIZE /\ rio_bufptr \in 1 .. RIO_BUFSIZE + 1

LEMMA ReaderHasTypes == Reader => ReaderTypes
BY DEF Reader, R!IInv, R!Bounds, ReaderTypes

LEMMA NextTypes ==
  ASSUME Types, Served, Stage, Reader, Reader', [Next]_vars
  PROVE  Types'
<1>0. ReaderTypes'
  BY ReaderHasTypes, PTL
<1>1. ASSUME NEW c \in Clients, Connect(c)
      PROVE  Types'
  <2>1. PICK r \in Requests[c] : want' = [want EXCEPT ![c] = r]
    BY <1>1 DEF Connect
  <2>2. r \in Seq(Byte)
    BY <2>1, TinyAssumption
  <2>3. Append(backlog, c) \in Seq(Clients)
    BY DEF Types
  <2>4. sent[c] = << >>
    BY <1>1, PrefixIs, EmptySeq DEF Types, TypeOK, Connect
  <2>5. \A d \in Clients : IsPrefix(sent[d], want'[d])
    <3>1. IsPrefix(<< >>, r)
      <4>1. << >> \in Seq(Byte) /\ Len(<< >>) = 0 /\ Len(r) \in Nat
        BY <2>2
      <4>2. \A i \in 1 .. 0 : << >>[i] = r[i]
        OBVIOUS
      <4>3. Len(<< >>) <= Len(r)
        BY <4>1
      <4> QED
        BY ONLY <2>2, <4>1, <4>2, <4>3, PrefixIs
    <3> QED
      BY <2>1, <2>4, <3>1 DEF Types, TypeOK
  <2>6. UNCHANGED <<sent, fin, gone, got, room, done, before, pc, addrs, cur,
                    failed, riovars, doitvars, kernelvars>>
          /\ backlog' = Append(backlog, c)
    BY <1>1 DEF Connect
  <2>7. TypeOK'
    BY <1>0, <2>5, <2>6 DEF Types, TypeOK, doitvars, kernelvars, ReaderTypes
  <2> QED
    BY <2>1, <2>2, <2>3, <2>6, <2>7 DEF Types, doitvars
<1>2. ASSUME NEW c \in Clients, Send(c)
      PROVE  Types'
  <2> DEFINE b == want[c][Len(sent[c]) + 1]
  <2>1. /\ sent[c] \in Seq(Byte) /\ want[c] \in Seq(Byte)
        /\ Len(sent[c]) < Len(want[c])
    BY <1>2 DEF Send, Types
  <2>2. b \in Byte
    BY <2>1
  <2>3. sent' = [sent EXCEPT ![c] = Append(sent[c], b)]
          /\ UNCHANGED <<want, fin, gone, got, room, backlog, done, before, pc,
                         addrs, cur, failed, doitvars, kernelvars>>
    BY <1>2 DEF Send
  <2>4. IsPrefix(Append(sent[c], b), want[c])
    <3>1. \A i \in 1 .. Len(sent[c]) : sent[c][i] = want[c][i]
      BY <2>1, PrefixIs DEF Types, TypeOK
    <3>2. /\ Append(sent[c], b) \in Seq(Byte)
          /\ Len(Append(sent[c], b)) = Len(sent[c]) + 1
          /\ \A i \in 1 .. Len(sent[c]) : Append(sent[c], b)[i] = sent[c][i]
          /\ Append(sent[c], b)[Len(sent[c]) + 1] = b
      BY <2>1, <2>2, AppendProperties
    <3> DEFINE s == Append(sent[c], b)
    <3>3. s \in Seq(Byte) /\ Len(s) <= Len(want[c])
      BY <2>1, <3>2
    <3>4. \A i \in 1 .. Len(s) : s[i] = want[c][i]
      BY <2>1, <3>1, <3>2
    <3> HIDE DEF s, b
    <3>5. IsPrefix(s, want[c])
      BY <2>1, <3>3, <3>4, PrefixIs
    <3> QED
      BY <3>5 DEF s
  <2>5. Append(sent[c], b) \in Seq(Byte)
    BY <2>1, <2>2
  <2> HIDE DEF b
  <2>6. TypeOK'
    BY <1>0, <2>3, <2>4 DEF Types, TypeOK, doitvars, kernelvars, ReaderTypes
  <2> QED
    BY <2>3, <2>5, <2>6 DEF Types, doitvars
<1>3. ASSUME NEW c \in Clients, Leave(c)
      PROVE  Types'
  <2>1. gone' \subseteq fin' /\ fin' \subseteq Clients
    BY <1>3 DEF Leave, Types, TypeOK
  <2> QED
    BY <1>3, <2>1 DEF Leave, Types, TypeOK, riovars, doitvars, kernelvars
<1>4. ASSUME NEW f \in Removable, Unlink(f)
      PROVE  Types'
  BY <1>4 DEF Unlink, Types, TypeOK, clientvars, riovars, doitvars
<1>5. CASE CallFails \/ Receive
  BY <1>5 DEF CallFails, Receive, unix_error, Types, TypeOK, clientvars, riovars,
     doitvars, kernelvars
<1>6. CASE NoAddress \/ Socket \/ Bind \/ Listen
  <2>1. MaxAddrs \in Nat /\ addrs \in 0 .. MaxAddrs
    BY TinyAssumption DEF Types, TypeOK
  <2>2. CASE NoAddress
    BY <2>2 DEF NoAddress, startvars, Types, TypeOK, clientvars, riovars, doitvars
  <2>3. CASE Socket
    <3>1. addrs' \in 0 .. MaxAddrs
      BY <2>1, <2>3 DEF Socket
    <3> QED
      BY <2>3, <3>1 DEF Socket, startvars, Types, TypeOK, clientvars, riovars, doitvars
  <2>4. CASE Bind
    <3>1. addrs' \in 0 .. MaxAddrs
      BY <2>1, <2>4 DEF Bind, Served
    <3> QED
      BY <2>4, <3>1 DEF Bind, startvars, Types, TypeOK, clientvars, riovars, doitvars
  <2>5. CASE Listen
    BY <2>5 DEF Listen, startvars, Types, TypeOK, clientvars, riovars, doitvars
  <2> QED
    BY <1>6, <2>2, <2>3, <2>4, <2>5
<1>7. CASE Accept
  <2>1. Head(backlog) \in Clients /\ Tail(backlog) \in Seq(Clients)
    BY <1>7, HeadTailProperties DEF Accept, Types
  <2>2. << >> \in Seq(Byte) /\ Len(<< >>) = 0 /\ 0 < MAXLINE - 1
    BY TinyAssumption
  <2> QED
    BY <1>0, <1>7, <2>1, <2>2 DEF Accept, Types, TypeOK, clientvars, ReaderTypes
<1>8. CASE Read
  BY <1>0, <1>8 DEF Read, othervars, Types, TypeOK, clientvars, doitvars,
     kernelvars, ReaderTypes
<1>10. ASSUME NEW l, GotLine(l)
       PROVE  pc' \in {"doit", "headers"} /\ unset' \in BOOLEAN
  BY <1>10 DEF GotLine, GotRequest, GotHeader, Types, TypeOK
<1>9. CASE ReadByte
  <2>1. cur \in Clients
    BY <1>9 DEF ReadByte, Reading, Served
  <2> DEFINE l == Append(line, Last(handed'))
  <2>2. l \in Seq(Byte) /\ Len(l) = Len(line) + 1 /\ Len(line) \in Nat
    BY <1>9, <2>1, OneByte, AppendProperties DEF Types
  <2>3. << >> \in Seq(Byte) /\ Len(<< >>) = 0 /\ 0 < MAXLINE - 1 /\ MAXLINE \in Nat
    BY TinyAssumption
  <2>4. Len(line) < MAXLINE - 1
    BY DEF Types, TypeOK
  <2>5. line' \in Seq(Byte) /\ Len(line') < MAXLINE - 1
    <3>1. line' = << >> \/ (line' = l /\ Len(l) # MAXLINE - 1)
      BY <1>9 DEF ReadByte
    <3> HIDE DEF l
    <3>2. Len(l) # MAXLINE - 1 => Len(l) < MAXLINE - 1
      BY <2>2, <2>3, <2>4
    <3> QED
      BY <2>2, <2>3, <3>1, <3>2
  <2>6. pc' \in {"doit", "headers", pc} /\ unset' \in BOOLEAN
    BY <1>9, <1>10 DEF ReadByte, Types, TypeOK
  <2> HIDE DEF l
  <2>7. UNCHANGED othervars
    BY <1>9 DEF ReadByte
  <2> QED
    BY <1>0, <2>5, <2>6, <2>7 DEF Types, TypeOK, othervars, clientvars, kernelvars,
       ReaderTypes
<1>11. CASE Eof
  <2>1. << >> \in Seq(Byte) /\ Len(<< >>) = 0 /\ 0 < MAXLINE - 1
    BY TinyAssumption
  <2>2. pc' \in {"doit", "headers", "close", "spins"} /\ unset' \in BOOLEAN
          /\ line' \in {<< >>, line}
    BY <1>10, <1>11 DEF Eof, Types, TypeOK, doitvars
  <2> QED
    BY <1>11, <2>1, <2>2 DEF Eof, Types, TypeOK, othervars, clientvars, riovars,
       kernelvars
<1>12. CASE ReadFails
  BY <1>12 DEF ReadFails, unix_error, Types, TypeOK, clientvars, riovars, doitvars
<1>13. ASSUME NEW k \in 1 .. 2, WriteSome(k)
       PROVE  Types'
  <2>1. got' \in [Clients -> Seq(Text)]
    BY <1>13, GotKeeps, WriteSomeText DEF WriteSome, Served
  <2> QED
    BY <1>13, <2>1 DEF WriteSome, Types, TypeOK, callvars, clientvars, riovars
<1>14. CASE WriteFails
  BY <1>14 DEF WriteFails, unix_error, Types, TypeOK, callvars, clientvars, riovars
<1>15. CASE Open \/ Mmap
  BY <1>15 DEF Open, Mmap, unix_error, Types, TypeOK, callvars, clientvars, riovars
<1>16. CASE CloseSrc \/ Munmap \/ Fork \/ Wait
  BY <1>16 DEF CloseSrc, Munmap, Fork, Wait, Does, Types, TypeOK, callvars,
     clientvars, riovars
<1>17. CASE Return
  BY <1>17 DEF Return, Types, TypeOK, callvars, clientvars, riovars
<1>18. CASE Close
  BY <1>18 DEF Close, Served, Types, TypeOK, clientvars, riovars, doitvars
<1>19. CASE Child
  <2>1. cur \in Clients
    BY <1>19 DEF Child, Execve, ExecveFails, Cgi, Served
  <2>2. /\ << >> \in Seq(Text) /\ <<"log">> \in Seq(Text)
        /\ <<"sum">> \in Seq(Text)
    BY WordsAreText
  <2>3. got' \in [Clients -> Seq(Text)]
    <3>1. CASE Execve
      BY <3>1 DEF Execve, Types
    <3>2. CASE ExecveFails
      BY <2>1, <2>2, <3>2, GotKeeps DEF ExecveFails, Sends
    <3>3. CASE Cgi
      BY <2>1, <2>2, <3>3, GotKeeps DEF Cgi, Sends
    <3> QED
      BY <1>19, <3>1, <3>2, <3>3 DEF Child
  <2>4. child' \in {"cgi", "zombie"} /\ failed' \in BOOLEAN
    BY <1>19 DEF Child, Execve, ExecveFails, Cgi, Types, TypeOK
  <2>5. UNCHANGED childvars
    BY <1>19 DEF Child, Execve, ExecveFails, Cgi
  <2> QED
    BY <2>3, <2>4, <2>5 DEF childvars, Types, TypeOK, clientvars, riovars, doitvars
<1>20. CASE UNCHANGED vars
  BY <1>20 DEF vars, Types, TypeOK, clientvars, riovars, doitvars, kernelvars
<1> QED
  BY <1>1, <1>2, <1>3, <1>4, <1>5, <1>6, <1>7, <1>8, <1>9, <1>11, <1>12,
     <1>13, <1>14, <1>15, <1>16, <1>17, <1>18, <1>19, <1>20
  DEF Next, Server, Environment, Spin

-------------------------------------------------------------------------------
(* Where the clients are                                                   *)

InitPlaces == Waiting /\ Served /\ Descriptors

LEMMA InitHasPlaces == Init => InitPlaces
<1> SUFFICES ASSUME Init PROVE InitPlaces
  OBVIOUS
<1>1. Len(backlog) = 0
  BY DEF Init
<1> QED
  BY <1>1 DEF Init, InitPlaces, Waiting, Served, Descriptors

(* The steps that leave the clients where they are                         *)
LEMMA WaitingStays ==
  ASSUME Types, Waiting,
         UNCHANGED <<want, sent, backlog, done, cur>>, fin \subseteq fin',
         \A c \in Clients : c # cur => got'[c] = got[c]
  PROVE  Waiting'
BY DEF Waiting

LEMMA NextWaiting ==
  ASSUME Types, Types', Waiting, Served, [Next]_vars
  PROVE  Waiting'
<1>1. ASSUME NEW c \in Clients, Connect(c)
      PROVE  Waiting'
  <2>1. PICK r \in Requests[c] : want' = [want EXCEPT ![c] = r]
    BY <1>1 DEF Connect
  <2>2. r # << >> /\ want[c] = << >> /\ cur # c
    BY <1>1, <2>1, TinyAssumption DEF Connect, Served
  <2>3. \A d \in Clients : want[d] # << >> => want'[d] # << >>
    BY <2>1, <2>2 DEF Types
  <2>4. \A i \in 1 .. Len(backlog) : backlog[i] \in Clients /\ backlog[i] # c
    <3>1. \A i \in 1 .. Len(backlog) : backlog[i] \in Clients
      BY DEF Types
    <3>2. \A i \in 1 .. Len(backlog) : want[backlog[i]] # << >>
      BY DEF Waiting
    <3> QED
      BY <2>2, <3>1, <3>2
  <2>5. c \notin done
    BY <2>2 DEF Waiting
  <2>6. /\ backlog \in Seq(Clients) /\ backlog' = Append(backlog, c)
        /\ Len(backlog') = Len(backlog) + 1 /\ Len(backlog) \in Nat
        /\ \A i \in 1 .. Len(backlog) : backlog'[i] = backlog[i]
        /\ backlog'[Len(backlog) + 1] = c
    BY <1>1, AppendProperties DEF Connect, Types
  <2>7. UNCHANGED <<sent, fin, got, done, cur>> /\ done \subseteq Clients
    BY <1>1 DEF Connect, Types, TypeOK
  <2>8. want'[c] # << >>
    BY <2>1, <2>2 DEF Types
  <2>9. \A i \in 1 .. Len(backlog') :
          \/ i \in 1 .. Len(backlog) /\ backlog'[i] = backlog[i]
          \/ i = Len(backlog) + 1 /\ backlog'[i] = c
    BY <2>6
  <2>10. \A i \in 1 .. Len(backlog') :
           /\ want'[backlog'[i]] # << >>
           /\ backlog'[i] # cur /\ backlog'[i] \notin done
    BY <2>2, <2>3, <2>4, <2>5, <2>8, <2>9 DEF Waiting
  <2>11. \A i, j \in 1 .. Len(backlog') : backlog'[i] = backlog'[j] => i = j
    BY <2>4, <2>9 DEF Waiting
  <2>12. \A d \in done : want'[d] # << >>
    BY <2>3, <2>7 DEF Waiting
  <2> QED
    BY <2>7, <2>10, <2>11, <2>12 DEF Waiting
<1>2. ASSUME NEW c \in Clients, Send(c)
      PROVE  Waiting'
  <2>1. \A d \in Clients : sent'[d] = << >> => sent[d] = << >>
    <3> DEFINE b == want[c][Len(sent[c]) + 1]
    <3>1. /\ sent[c] \in Seq(Byte) /\ want[c] \in Seq(Byte)
          /\ Len(sent[c]) < Len(want[c])
      BY <1>2 DEF Send, Types
    <3>2. b \in Byte
      BY <3>1
    <3>3. sent' = [sent EXCEPT ![c] = Append(sent[c], b)]
      BY <1>2 DEF Send
    <3> HIDE DEF b
    <3>4. Append(sent[c], b) # << >>
      BY <3>1, <3>2, AppendProperties
    <3> QED
      BY <3>3, <3>4 DEF Types
  <2>2. UNCHANGED <<want, fin, got, backlog, done, cur>> /\ done \subseteq Clients
    BY <1>2 DEF Send, Types, TypeOK
  <2> QED
    BY <2>1, <2>2 DEF Waiting
<1>3. ASSUME NEW c \in Clients, Leave(c)
      PROVE  Waiting'
  BY <1>3, WaitingStays DEF Leave
<1>4. ASSUME NEW f \in Removable, Unlink(f)
      PROVE  Waiting'
  BY <1>4, WaitingStays DEF Unlink, clientvars
<1>5. CASE CallFails \/ Receive \/ ReadFails \/ WriteFails
  BY <1>5, WaitingStays DEF CallFails, Receive, ReadFails, WriteFails, callvars,
     clientvars
<1>6. CASE NoAddress \/ Socket \/ Bind \/ Listen
  BY <1>6, WaitingStays DEF NoAddress, Socket, Bind, Listen, startvars, clientvars
<1>7. CASE Accept
  <2>1. /\ backlog \in Seq(Clients) /\ backlog # << >> /\ pc = "accept"
        /\ cur' = backlog[1] /\ backlog' = Tail(backlog)
        /\ UNCHANGED <<want, sent, fin, got, done>>
    BY <1>7 DEF Accept, Types, clientvars
  <2>2. /\ Len(backlog) \in Nat \ {0} /\ Len(backlog') = Len(backlog) - 1
        /\ \A i \in 1 .. Len(backlog') :
             backlog'[i] = backlog[i + 1] /\ i + 1 \in 1 .. Len(backlog)
    BY <2>1, HeadTailProperties
  <2>3. 1 \in 1 .. Len(backlog)
    BY <2>2
  <2>4. \A i \in 1 .. Len(backlog') : backlog'[i] # cur'
    <3> SUFFICES ASSUME NEW i \in 1 .. Len(backlog'), backlog'[i] = cur'
                 PROVE  FALSE
      OBVIOUS
    <3>1. i + 1 = 1
      BY <2>1, <2>2, <2>3 DEF Waiting
    <3> QED
      BY <2>2, <3>1
  <2>5. \A c \in Clients : c # cur' /\ c \notin done => got[c] = << >>
    <3>1. cur = Nobody \/ cur \in done
      BY <2>1 DEF Served
    <3>2. \A c \in Clients : c \notin done => c # cur
      BY <3>1, TinyAssumption
    <3> QED
      BY <3>2 DEF Waiting
  <2>6. \A i, j \in 1 .. Len(backlog') : backlog'[i] = backlog'[j] => i = j
    <3> SUFFICES ASSUME NEW i \in 1 .. Len(backlog'), NEW j \in 1 .. Len(backlog'),
                        backlog'[i] = backlog'[j]
                 PROVE  i = j
      OBVIOUS
    <3>1. i + 1 = j + 1
      BY <2>2 DEF Waiting
    <3> QED
      BY <3>1
  <2> QED
    BY <2>1, <2>2, <2>4, <2>5, <2>6 DEF Waiting
<1>8. CASE Read \/ ReadByte \/ Eof
  BY <1>8, WaitingStays DEF Read, ReadByte, Eof, othervars, clientvars
<1>9. ASSUME NEW k \in 1 .. 2, WriteSome(k)
      PROVE  Waiting'
  BY <1>9, WaitingStays DEF WriteSome, callvars, clientvars, Types
<1>10. CASE Open \/ Mmap \/ CloseSrc \/ Munmap \/ Fork \/ Wait \/ Return
  BY <1>10, WaitingStays DEF Open, Mmap, CloseSrc, Munmap, Fork, Wait, Return,
     Does, callvars, clientvars
<1>11. CASE Close
  <2>1. /\ done' = done \cup {cur} /\ cur \in Clients
        /\ UNCHANGED <<want, sent, fin, got, backlog, cur>>
    BY <1>11 DEF Close, Served, clientvars
  <2>2. want[cur] # << >> /\ (sent[cur] = << >> => cur \in fin)
    BY <1>11, TinyAssumption DEF Close, Served
  <2> QED
    BY <2>1, <2>2 DEF Waiting
<1>12. CASE Child
  BY <1>12, WaitingStays DEF Child, Execve, ExecveFails, Cgi, childvars,
     clientvars, Sends, Types
<1>13. CASE UNCHANGED vars
  BY <1>13, WaitingStays DEF vars, clientvars
<1> QED
  BY <1>1, <1>2, <1>3, <1>4, <1>5, <1>6, <1>7, <1>8, <1>9, <1>10, <1>11,
     <1>12, <1>13 DEF Next, Server, Environment, Spin

(* When doit has no call left everything it opened is closed.              *)
LEMMA NothingLeft ==
  ASSUME Stage, pc = "doit", todo = << >>
  PROVE  fds = {"listening", "conn"} /\ mapped = FALSE /\ child = "none"
<1>1. Refusing \/ ServingStatic \/ ServingDynamic
  BY DEF Stage, Decided
<1>2. CASE Refusing
  BY <1>2 DEF Refusing, HasOpen
<1>3. CASE ServingStatic
  <2>1. PICK f \in DOMAIN Files : child = "none" /\ Sending(f)
    BY <1>3 DEF ServingStatic, MaySend
  <2>2. HasOpen({}, FALSE)
    <3>1. ~ BeforeHeader(f) /\ ~ BeforeOpen(f) /\ ~ BeforeMmap(f) /\ ~ BeforeClose(f)
            /\ ~ BeforeMunmap(f) /\ \A k : ~ Writing(f, k)
      BY DEF BeforeHeader, BeforeOpen, BeforeMmap, BeforeClose, BeforeMunmap,
         Writing, serve_static
    <3> QED
      BY <2>1, <3>1 DEF Sending, Sent
  <2> QED
    BY <2>1, <2>2 DEF HasOpen
<1>4. CASE ServingDynamic
  <2>1. HasOpen({}, FALSE) /\ child = "none"
    BY <1>4 DEF ServingDynamic, MayRun, Running, serve_dynamic
  <2> QED
    BY <2>1 DEF HasOpen
<1> QED
  BY <1>1, <1>2, <1>3, <1>4

LEMMA NextDescriptors ==
  ASSUME Types, Descriptors, Stage, [Next]_vars
  PROVE  Descriptors'
<1>1. CASE UNCHANGED <<pc, fds, mapped, child>>
  BY <1>1 DEF Descriptors
<1>2. CASE unix_error /\ UNCHANGED child
  BY <1>2 DEF unix_error, Descriptors
<1>3. CASE NoAddress \/ Socket \/ Bind \/ Listen
  BY <1>3 DEF NoAddress, Socket, Bind, Listen, startvars, Descriptors
<1>4. CASE Accept
  BY <1>4 DEF Accept, Descriptors
<1>5. ASSUME NEW l, GotLine(l)
      PROVE  pc' \in {"doit", "headers"} /\ pc \in {"request", "headers"}
  BY <1>5 DEF GotLine, GotRequest, GotHeader
<1>6. CASE ReadByte \/ Eof
  <2>1. pc' \in {"doit", "headers", "close", "spins", pc}
          /\ pc \in {"request", "headers"} /\ UNCHANGED <<fds, mapped, child>>
    BY <1>5, <1>6 DEF ReadByte, Eof, AtEof, Reading, othervars, kernelvars
  <2> QED
    BY <2>1 DEF Descriptors
<1>7. CASE Open \/ Mmap
  BY <1>7 DEF Open, Mmap, unix_error, Descriptors
<1>8. CASE CloseSrc \/ Munmap \/ Fork \/ Wait
  BY <1>8 DEF CloseSrc, Munmap, Fork, Wait, Does, Descriptors
<1>9. CASE Return
  BY <1>9, NothingLeft DEF Return, Descriptors
<1>10. CASE Close
  BY <1>10 DEF Close, Descriptors
<1>11. CASE Child
  BY <1>11 DEF Child, Execve, ExecveFails, Cgi, childvars, Descriptors
<1>12. ASSUME NEW k \in 1 .. 2, WriteSome(k)
       PROVE  UNCHANGED <<pc, fds, mapped, child>>
  BY <1>12 DEF WriteSome
<1>13. ASSUME NEW c \in Clients, Connect(c) \/ Send(c) \/ Leave(c)
       PROVE  UNCHANGED <<pc, fds, mapped, child>>
  BY <1>13 DEF Connect, Send, Leave, kernelvars
<1>14. ASSUME NEW f \in Removable, Unlink(f)
       PROVE  UNCHANGED <<pc, fds, mapped, child>>
  BY <1>14 DEF Unlink
<1>15. CASE CallFails \/ ReadFails \/ WriteFails
  BY <1>2, <1>15 DEF CallFails, ReadFails, WriteFails
<1>16. CASE Read \/ Receive \/ UNCHANGED vars
  BY <1>1, <1>16 DEF Read, Receive, othervars, vars, kernelvars
<1> QED
  BY <1>1, <1>3, <1>4, <1>6, <1>7, <1>8, <1>9, <1>10, <1>11, <1>12, <1>13,
     <1>14, <1>15, <1>16 DEF Next, Server, Environment, Spin

(* A step that leaves pc, the child and the client served alone            *)
LEMMA ServedStays ==
  ASSUME Types, Served, pc' = pc \/ pc' = "down",
         UNCHANGED <<want, done, cur, addrs>>, child' = "none" \/ child # "none",
         \A c \in Clients : sent'[c] = << >> => sent[c] = << >>,
         fin \subseteq fin', got'[cur] = got[cur]
  PROVE  Served'
<1>1. cur = Nobody \/ cur \in Clients
  BY DEF Types, TypeOK
<1> QED
  BY <1>1 DEF Served

LEMMA NextServed ==
  ASSUME Types, Types', Waiting, Served, Descriptors, Stage, [Next]_vars
  PROVE  Served'
<1>1. ASSUME NEW c \in Clients, Connect(c)
      PROVE  Served'
  <2>1. PICK r \in Requests[c] : want' = [want EXCEPT ![c] = r]
    BY <1>1 DEF Connect
  <2>2. r # << >>
    BY <2>1, TinyAssumption
  <2>3. \A d \in Clients : want[d] # << >> => want'[d] # << >>
    BY <2>1, <2>2 DEF Types
  <2>4. cur = Nobody \/ cur \in Clients
    BY DEF Types, TypeOK
  <2>5. UNCHANGED <<sent, fin, gone, got, done, pc, addrs, cur, child>>
    BY <1>1 DEF Connect, kernelvars
  <2> QED
    BY <2>3, <2>4, <2>5 DEF Served
<1>2. ASSUME NEW c \in Clients, Send(c)
      PROVE  Served'
  <2>1. \A d \in Clients : sent'[d] = << >> => sent[d] = << >>
    <3> DEFINE b == want[c][Len(sent[c]) + 1]
    <3>1. /\ sent[c] \in Seq(Byte) /\ want[c] \in Seq(Byte)
          /\ Len(sent[c]) < Len(want[c])
      BY <1>2 DEF Send, Types
    <3>2. b \in Byte
      BY <3>1
    <3>3. sent' = [sent EXCEPT ![c] = Append(sent[c], b)]
      BY <1>2 DEF Send
    <3> HIDE DEF b
    <3>4. Append(sent[c], b) # << >>
      BY <3>1, <3>2, AppendProperties
    <3> QED
      BY <3>3, <3>4 DEF Types
  <2>2. UNCHANGED <<want, fin, got, done, pc, addrs, cur, child>>
    BY <1>2 DEF Send, kernelvars
  <2> QED
    BY <2>1, <2>2, ServedStays
<1>3. ASSUME NEW c \in Clients, Leave(c)
      PROVE  Served'
  BY <1>3, ServedStays DEF Leave, kernelvars
<1>4. ASSUME NEW f \in Removable, Unlink(f)
      PROVE  Served'
  BY <1>4, ServedStays DEF Unlink, clientvars
<1>5. CASE CallFails \/ ReadFails \/ WriteFails
  BY <1>5, ServedStays DEF CallFails, ReadFails, WriteFails, unix_error,
     callvars, clientvars
<1>6. CASE NoAddress \/ Socket \/ Bind \/ Listen
  BY <1>6 DEF NoAddress, Socket, Bind, Listen, startvars, clientvars, Served,
     Descriptors, Types, TypeOK
<1>7. CASE Accept
  <2>1. /\ backlog \in Seq(Clients) /\ backlog # << >> /\ pc = "accept"
        /\ cur' = backlog[1] /\ pc' = "request" /\ child = "none"
        /\ UNCHANGED <<want, sent, fin, got, done, child>>
    BY <1>7 DEF Accept, Types, clientvars, Descriptors
  <2>2. 1 \in 1 .. Len(backlog)
    BY <2>1
  <2>3. backlog[1] \in Clients
    BY <2>1, <2>2
  <2> QED
    BY <2>1, <2>2, <2>3 DEF Waiting, Served
<1>8. CASE Read
  BY <1>8, ServedStays DEF Read, othervars, clientvars, kernelvars
<1>9. ASSUME NEW l, GotLine(l)
      PROVE  pc' \in {"doit", "headers"}
  BY <1>9 DEF GotLine, GotRequest, GotHeader
<1>10. CASE ReadByte \/ Eof
  <2>1. /\ UNCHANGED <<want, sent, fin, got, done, addrs, cur, child>>
        /\ pc \in {"request", "headers"}
    BY <1>10 DEF ReadByte, Eof, AtEof, Reading, othervars, clientvars, kernelvars
  <2>2. pc' \in {"doit", "headers", pc} \/ (pc' \in {"close", "spins"} /\ cur \in fin)
    BY <1>9, <1>10 DEF ReadByte, Eof, AtEof
  <2> QED
    BY <2>1, <2>2 DEF Served
<1>11. ASSUME NEW k \in 1 .. 2, WriteSome(k)
       PROVE  Served'
  BY <1>11 DEF WriteSome, callvars, clientvars, Served
<1>12. CASE Open \/ Mmap
  BY <1>12, ServedStays DEF Open, Mmap, unix_error, callvars, clientvars
<1>13. CASE CloseSrc \/ Munmap \/ Fork \/ Wait
  BY <1>13 DEF CloseSrc, Munmap, Fork, Wait, Does, callvars, clientvars, Served
<1>14. CASE Return
  <2>1. sent[cur] # << >>
    BY <1>14 DEF Return, Stage, Decided
  <2> QED
    BY <1>14, <2>1 DEF Return, callvars, clientvars, Served
<1>15. CASE Close
  <2>1. child = "none" /\ cur \in Clients
    BY <1>15 DEF Close, Descriptors, Served
  <2> QED
    BY <1>15, <2>1 DEF Close, clientvars, Served
<1>16. CASE Child
  <2>1. child # "none" /\ pc \in {"doit", "down"}
    BY <1>16 DEF Child, Execve, ExecveFails, Cgi, Descriptors
  <2>2. UNCHANGED <<want, sent, fin, done, addrs, cur, pc>>
    BY <1>16 DEF Child, Execve, ExecveFails, Cgi, childvars, clientvars
  <2> QED
    BY <2>1, <2>2 DEF Served
<1>17. CASE Receive \/ UNCHANGED vars
  BY <1>17, ServedStays DEF Receive, vars, clientvars, kernelvars
<1> QED
  BY <1>1, <1>2, <1>3, <1>4, <1>5, <1>6, <1>7, <1>8, <1>10, <1>11, <1>12,
     <1>13, <1>14, <1>15, <1>16, <1>17 DEF Next, Server, Environment, Spin

-------------------------------------------------------------------------------
(* Lines                                                                   *)

LEMMA BlankIs ==
  ASSUME NEW S, NEW s \in Seq(S), NEW m \in 3 .. Len(s)
  PROVE (SubSeq(s, m - 2, m) = <<"\n">> \o CRLF) <=> BlankAt(s, m)
<1> DEFINE T == S \cup {"\n", "\r"}
           p == SubSeq(s, m - 2, m)
           q == <<"\n", "\r", "\n">>
<1>1. <<"\n">> \o CRLF = q
  <2>1. <<"\n">> \in Seq(T) /\ CRLF \in Seq(T) /\ q \in Seq(T)
    BY DEF CRLF
  <2>2. /\ Len(<<"\n">>) = 1 /\ <<"\n">>[1] = "\n"
        /\ Len(CRLF) = 2 /\ CRLF[1] = "\r" /\ CRLF[2] = "\n"
        /\ Len(q) = 3 /\ q[1] = "\n" /\ q[2] = "\r" /\ q[3] = "\n"
    BY DEF CRLF
  <2> DEFINE a == <<"\n">>
             b == CRLF
  <2> HIDE DEF T, a, b, q
  <2>3. a \in Seq(T) /\ b \in Seq(T) /\ Len(a) = 1 /\ Len(b) = 2
    BY <2>1, <2>2 DEF a, b
  <2>4. /\ a \o b \in Seq(T) /\ Len(a \o b) = 3
        /\ \A i \in 1 .. 3 : (a \o b)[i] = IF i <= 1 THEN a[i] ELSE b[i - 1]
    <3>1. /\ a \o b \in Seq(T) /\ Len(a \o b) = Len(a) + Len(b)
          /\ \A i \in 1 .. Len(a) + Len(b) : (a \o b)[i] =
               IF i <= Len(a) THEN a[i] ELSE b[i - Len(a)]
      BY <2>3, ConcatProperties
    <3> QED
      BY <2>3, <3>1
  <2>5. (a \o b)[1] = q[1] /\ (a \o b)[2] = q[2] /\ (a \o b)[3] = q[3]
    BY <2>2, <2>4 DEF a, b
  <2>6. \A i \in 1 .. Len(a \o b) : (a \o b)[i] = q[i]
    BY <2>4, <2>5
  <2>7. a \o b = q
    BY <2>1, <2>2, <2>4, <2>6, SeqEqual
  <2> QED
    BY <2>7 DEF a, b
<1>2. /\ p \in Seq(S) /\ Len(p) = 3
      /\ p[1] = s[m - 2] /\ p[2] = s[m - 1] /\ p[3] = s[m]
  <2>1. \A i \in m - 2 .. m : s[i] \in S
    OBVIOUS
  <2>2. /\ p \in Seq(S) /\ Len(p) = m - (m - 2) + 1
        /\ \A i \in 1 .. m - (m - 2) + 1 : p[i] = s[m - 2 + i - 1]
    BY <2>1, SubSeqProperties
  <2> HIDE DEF p
  <2>3. m - (m - 2) + 1 = 3 /\ m - 2 + 1 - 1 = m - 2 /\ m - 2 + 2 - 1 = m - 1
          /\ m - 2 + 3 - 1 = m
    OBVIOUS
  <2> QED
    BY <2>2, <2>3
<1>3. q \in Seq(T) /\ Len(q) = 3 /\ q[1] = "\n" /\ q[2] = "\r" /\ q[3] = "\n"
  OBVIOUS
<1>4. p \in Seq(T)
  BY <1>2, SeqMonotonic
<1> HIDE DEF p, q, T
<1>5. (p = q) <=> BlankAt(s, m)
  <2>1. p[1] = q[1] /\ p[2] = q[2] /\ p[3] = q[3] => \A i \in 1 .. 3 : p[i] = q[i]
    OBVIOUS
  <2> QED
    BY <1>2, <1>3, <1>4, <2>1, SeqEqual DEF BlankAt
<1> QED
  BY <1>1, <1>5 DEF p

LEMMA EndsIs ==
  ASSUME NEW S, NEW s \in Seq(S), NEW n \in Nat
  PROVE  EndsHeaders(s, n) <=>
           n \in 3 .. Len(s) /\ BlankAt(s, n) /\ \A m \in 3 .. n - 1 : ~ BlankAt(s, m)
<1>1. CASE n \in 3 .. Len(s)
  <2>1. \A m \in 3 .. n : m \in 3 .. Len(s)
    BY <1>1
  <2>2. \A m \in 3 .. n : (SubSeq(s, m - 2, m) = <<"\n">> \o CRLF) <=> BlankAt(s, m)
    BY <2>1, BlankIs
  <2>3. n \in 3 .. n /\ \A m \in 3 .. n - 1 : m \in 3 .. n
    BY <1>1
  <2> QED
    BY <1>1, <2>2, <2>3 DEF EndsHeaders
<1>2. CASE n \notin 3 .. Len(s)
  BY <1>2 DEF EndsHeaders
<1> QED
  BY <1>1, <1>2

(* What the line is when rio_readlineb has taken another byte              *)
Grown(l, k, n) ==
  /\ cur \in Clients /\ k \in Nat /\ n \in Nat /\ k <= n
  /\ l \in Seq(Byte) /\ Len(l) = k + 1 /\ k + 1 <= MAXLINE - 1
  /\ Len(handed') = n + 1
  /\ \A i \in 1 .. n : handed'[i] = handed[i]
  /\ \A i \in 1 .. k + 1 : l[i] = handed'[n - k + i]
  /\ \A i \in 1 .. k : l[i] # "\n" /\ handed[n - k + i] = l[i]
  /\ Last(l) = l[k + 1]
  /\ \A i \in 1 .. n + 1 : handed'[i] = want[cur][i]
  /\ n + 1 <= Len(sent[cur]) /\ n + 1 <= Len(want[cur])
  /\ Len(want[cur]) \in Nat /\ Len(sent[cur]) \in Nat

LEMMA LineGrows ==
  ASSUME Types, Reader, Reader', Served, Lines, ReadByte,
         NEW l, l = Append(line, Last(handed')),
         NEW k, k = Len(line), NEW n, n = Len(handed)
  PROVE  Grown(l, k, n)
<1>1. cur \in Clients /\ pc \in {"request", "headers"}
  BY DEF ReadByte, Reading, Served
<1>2. /\ handed' \in Seq(Byte) /\ Len(handed') = n + 1
      /\ \A j \in 1 .. n : handed'[j] = handed[j]
      /\ Last(handed') = handed'[n + 1] /\ Last(handed') \in Byte
      /\ Last(handed') = sent[cur][n + 1]
      /\ n < Len(sent[cur])
  BY <1>1, OneByte
<1>3. /\ handed \in Seq(Byte) /\ sent[cur] \in Seq(Byte) /\ want[cur] \in Seq(Byte)
      /\ Len(sent[cur]) <= Len(want[cur])
      /\ \A j \in 1 .. n : handed[j] = sent[cur][j]
      /\ \A j \in 1 .. Len(sent[cur]) : sent[cur][j] = want[cur][j]
  BY <1>1, ReadIsSent
<1>4. line \in Seq(Byte) /\ k \in Nat /\ n \in Nat
  BY <1>3 DEF Types
<1>5. k <= n /\ \A i \in 1 .. k : line[i] = handed[n - k + i] /\ line[i] # "\n"
  BY <1>1 DEF Lines
<1>6. /\ l \in Seq(Byte) /\ Len(l) = k + 1
      /\ \A i \in 1 .. k : l[i] = line[i]
      /\ l[k + 1] = Last(handed')
  BY <1>2, <1>4, AppendProperties
<1>7. k < MAXLINE - 1 /\ MAXLINE \in Nat
  BY TinyAssumption DEF Types, TypeOK
<1>8. k + 1 <= MAXLINE - 1
  BY <1>4, <1>7
<1>9. \A i \in 1 .. k : l[i] = handed[n - k + i] /\ l[i] # "\n" /\ n - k + i \in 1 .. n
  BY <1>4, <1>5, <1>6
<1>10. \A i \in 1 .. k + 1 : l[i] = handed'[n - k + i]
  <2>1. \A i \in 1 .. k + 1 : i \in 1 .. k \/ (i = k + 1 /\ n - k + i = n + 1)
    BY <1>4
  <2> QED
    BY <1>2, <1>6, <1>9, <2>1
<1>11. \A i \in 1 .. n + 1 : handed'[i] = want[cur][i]
  <2>1. \A i \in 1 .. n + 1 : i \in 1 .. Len(sent[cur]) /\ (i \in 1 .. n \/ i = n + 1)
    BY <1>2, <1>3, <1>4
  <2> QED
    BY <1>2, <1>3, <2>1
<1>12. /\ n + 1 <= Len(sent[cur]) /\ n + 1 <= Len(want[cur])
       /\ Len(want[cur]) \in Nat /\ Len(sent[cur]) \in Nat
  BY <1>2, <1>3, <1>4
<1>13. Last(l) = l[k + 1]
  BY <1>6 DEF Last
<1> QED
  BY <1>1, <1>2, <1>3, <1>4, <1>5, <1>6, <1>8, <1>9, <1>10, <1>11, <1>12, <1>13
  DEF Grown

(* With lines that fit, a complete line ends with a newline.               *)
LEMMA LinesEnd ==
  ASSUME Types, Reader, Reader', Served, Lines, ReadByte, LinesFit(want[cur]),
         NEW l, l = Append(line, Last(handed')),
         NEW k, k = Len(line), NEW n, n = Len(handed),
         Last(l) = "\n" \/ Len(l) = MAXLINE - 1
  PROVE  Last(l) = "\n"
<1>1. /\ cur \in Clients /\ k \in Nat /\ n \in Nat /\ k <= n
      /\ Len(l) = k + 1
      /\ \A i \in 1 .. k + 1 : l[i] = handed'[n - k + i]
      /\ \A i \in 1 .. k : l[i] # "\n"
      /\ Last(l) = l[k + 1]
      /\ \A i \in 1 .. n + 1 : handed'[i] = want[cur][i]
      /\ n + 1 <= Len(want[cur]) /\ Len(want[cur]) \in Nat
  <2>1. Grown(l, k, n)
    BY LineGrows
  <2> QED
    BY <2>1 DEF Grown
<1> SUFFICES ASSUME Last(l) # "\n" PROVE FALSE
  OBVIOUS
<1>2. k + 2 = MAXLINE /\ MAXLINE \in Nat
  BY <1>1, TinyAssumption
<1>3. n - k + 1 \in 1 .. Len(want[cur]) - MAXLINE + 2
  BY <1>1, <1>2
<1>4. PICK m \in n - k + 1 .. n - k + 1 + MAXLINE - 2 : want[cur][m] = "\n"
  BY <1>3 DEF LinesFit
<1> DEFINE j == m - (n - k)
<1>5. j \in 1 .. k + 1 /\ m \in 1 .. n + 1 /\ n - k + j = m
  BY <1>1, <1>2
<1> HIDE DEF j
<1>6. l[j] = "\n"
  BY <1>1, <1>4, <1>5
<1>7. j = k + 1 \/ j \in 1 .. k
  BY <1>1, <1>5
<1> QED
  BY <1>1, <1>6, <1>7

(* The lines already passed stay as they were.                             *)
LEMMA ReadByteKeepsLines ==
  ASSUME Types, Reader, Reader', Served, Lines, ReadByte
  PROVE  Lines' /\ HeadersEndAtTheBlankLine'
<1>1. PICK l, k, n : /\ l = Append(line, Last(handed')) /\ k = Len(line) /\ n = Len(handed)
                     /\ Grown(l, k, n)
  <2> DEFINE l == Append(line, Last(handed'))
             k == Len(line)
             n == Len(handed)
  <2>1. Grown(l, k, n)
    BY LineGrows
  <2> QED
    BY <2>1
<1>2. /\ cur \in Clients /\ k \in Nat /\ n \in Nat /\ k <= n
      /\ l \in Seq(Byte) /\ Len(l) = k + 1
      /\ Len(handed') = n + 1
      /\ \A i \in 1 .. n : handed'[i] = handed[i]
      /\ \A i \in 1 .. k + 1 : l[i] = handed'[n - k + i]
      /\ \A i \in 1 .. k : l[i] # "\n" /\ handed[n - k + i] = l[i]
      /\ Last(l) = l[k + 1]
      /\ \A i \in 1 .. n + 1 : handed'[i] = want[cur][i]
      /\ n + 1 <= Len(sent[cur]) /\ n + 1 <= Len(want[cur])
      /\ Len(want[cur]) \in Nat /\ Len(sent[cur]) \in Nat
  BY <1>1 DEF Grown
<1>3. UNCHANGED <<want, sent, fin, cur>> /\ pc \in {"request", "headers"}
  BY DEF ReadByte, Reading, othervars, clientvars
<1>4. ASSUME pc = "headers", LinesFit(want[cur])
      PROVE  n - k > 0 /\ handed[n - k] = "\n" /\ Passed(n)
  <2>1. handed # sent[cur]
    BY <1>1, <1>2
  <2> QED
    BY <1>1, <1>4, <2>1 DEF Lines
<1>5. /\ pc = "request" => n = k
      /\ pc = "headers" => n - k > 0
      /\ pc = "headers" => method = "GET"
  BY <1>1, <1>2 DEF Lines
<1>6. \A m \in 3 .. n : BlankAt(handed', m) <=> BlankAt(handed, m)
  <2>1. \A m \in 3 .. n : m \in 1 .. n /\ m - 1 \in 1 .. n /\ m - 2 \in 1 .. n
    BY <1>2
  <2> QED
    BY <1>2, <2>1 DEF BlankAt
(* The bytes since the last newline hold none: only the last can end       *)
(* a blank line, and only if the line is CRLF.                             *)
<1>7. ASSUME n - k > 0 => (handed[n - k] = "\n" /\ Passed(n)), l # CRLF
      PROVE  \A m \in 3 .. n + 1 : ~ BlankAt(handed', m)
  <2> SUFFICES ASSUME NEW m \in 3 .. n + 1, BlankAt(handed', m) PROVE FALSE
    OBVIOUS
  <2>1. m - 2 \in 1 .. n /\ m - 1 \in 1 .. n
    BY <1>2
  <2>2. handed[m - 2] = "\n" /\ handed[m - 1] = "\r" /\ handed'[m] = "\n"
    BY <1>2, <2>1 DEF BlankAt
  <2>3. CASE m \in 3 .. n
    <3>1. n - k > 0
      <4> SUFFICES ASSUME n = k PROVE FALSE
        BY <1>2
      <4>1. m - 2 \in 1 .. k /\ n - k + (m - 2) = m - 2
        BY <1>2, <2>1
      <4>2. handed[m - 2] # "\n"
        BY <1>2, <4>1
      <4> QED
        BY <2>2, <4>2
    <3> QED
      BY <1>6, <1>7, <2>3, <3>1 DEF Passed
  <2>4. CASE m = n + 1
    <3>1. handed[n - 1] = "\n" /\ handed[n] = "\r" /\ handed'[n + 1] = "\n"
      BY <1>2, <2>2, <2>4
    <3>2. CASE k = 0
      <4>1. n - k = n /\ n > 0
        BY <1>2, <2>4, <3>2
      <4> QED
        BY <1>7, <3>1, <4>1
    <3>3. CASE k = 1
      <4>1. l[1] = "\r" /\ l[2] = "\n"
        <5>1. 1 \in 1 .. k /\ n - k + 1 = n /\ k + 1 = 2 /\ n - k + 2 = n + 1
                /\ 2 \in 1 .. k + 1
          BY <1>2, <3>3
        <5> QED
          BY <1>2, <3>1, <5>1
      <4>2. l = CRLF
        <5> DEFINE T == Byte \cup {"\r", "\n"}
        <5>1. CRLF \in Seq(T) /\ Len(CRLF) = 2 /\ CRLF[1] = "\r" /\ CRLF[2] = "\n"
          BY DEF CRLF
        <5>2. l \in Seq(T) /\ Len(l) = 2
          BY <1>2, <3>3, SeqMonotonic
        <5>3. \A i \in 1 .. Len(l) : l[i] = CRLF[i]
          BY <4>1, <5>1, <5>2
        <5> HIDE DEF T
        <5> QED
          BY <5>1, <5>2, <5>3, SeqEqual
      <4> QED
        BY <1>7, <4>2
    <3>4. CASE k > 1
      <4> DEFINE j == k - 1
      <4>1. j \in 1 .. k /\ n - k + j = n - 1
        BY <1>2, <3>4
      <4> HIDE DEF j
      <4>2. l[j] # "\n" /\ handed[n - k + j] = l[j]
        BY <1>2, <4>1
      <4> QED
        BY <3>1, <4>1, <4>2
    <3> QED
      BY <1>2, <3>2, <3>3, <3>4
  <2> QED
    BY <1>2, <2>3, <2>4
<1>8. ASSUME pc = "headers", LinesFit(want[cur]), l = CRLF
      PROVE  EndsHeaders(sent[cur], n + 1)
  <2>1. handed[n - k] = "\n" /\ Passed(n) /\ n - k > 0
    BY <1>4, <1>8
  <2>2. k = 1 /\ l[1] = "\r" /\ l[2] = "\n"
    BY <1>2, <1>8 DEF CRLF
  <2>3. /\ n >= 2 /\ handed[n - 1] = "\n"
        /\ handed[n] = "\r" /\ handed'[n + 1] = "\n"
    <3>1. 1 \in 1 .. k /\ n - k + 1 = n /\ k + 1 = 2 /\ n - k + 2 = n + 1
            /\ 2 \in 1 .. k + 1 /\ n - k = n - 1
      BY <1>2, <2>2
    <3> QED
      BY <1>2, <2>1, <2>2, <3>1
  <2> DEFINE s == sent[cur]
  <2>4. s \in Seq(Byte) /\ \A i \in 1 .. n + 1 : s[i] = handed'[i]
    <3>1. s \in Seq(Byte) /\ \A j \in 1 .. Len(s) : s[j] = want[cur][j]
      BY <1>2, ReadIsSent
    <3>2. \A i \in 1 .. n + 1 : i \in 1 .. Len(s)
      BY <1>2
    <3> HIDE DEF s
    <3> QED
      BY <1>2, <3>1, <3>2
  <2> HIDE DEF s
  <2>5. n + 1 \in 3 .. Len(s) /\ n - 1 \in 1 .. n + 1 /\ n \in 1 .. n + 1
          /\ n + 1 \in 1 .. n + 1 /\ n + 1 \in Nat
    BY <1>2, <2>3 DEF s
  <2>6. BlankAt(s, n + 1)
    <3>1. handed'[n - 1] = "\n" /\ handed'[n] = "\r"
      BY <1>2, <2>3
    <3>2. s[n - 1] = "\n" /\ s[n] = "\r" /\ s[n + 1] = "\n"
      BY <2>3, <2>4, <2>5, <3>1
    <3> DEFINE e == n + 1
    <3>3. e - 2 = n - 1 /\ e - 1 = n
      BY <1>2
    <3>4. s[e] = "\n"
      BY <3>2
    <3> HIDE DEF e
    <3>5. BlankAt(s, e)
      BY <3>2, <3>3, <3>4 DEF BlankAt
    <3> QED
      BY <3>5 DEF e
  <2>7. \A m \in 3 .. n + 1 - 1 : ~ BlankAt(s, m)
    <3> SUFFICES ASSUME NEW m \in 3 .. n PROVE ~ BlankAt(s, m)
      BY <1>2
    <3>1. ~ BlankAt(handed, m)
      BY <2>1 DEF Passed
    <3>2. m - 2 \in 1 .. n + 1 /\ m - 1 \in 1 .. n + 1 /\ m \in 1 .. n + 1
      BY <1>2
    <3>3. BlankAt(s, m) <=> BlankAt(handed', m)
      BY <2>4, <3>2 DEF BlankAt
    <3> QED
      BY <1>6, <3>1, <3>3
  <2>8. EndsHeaders(s, n + 1)
    BY <2>4, <2>5, <2>6, <2>7, EndsIs
  <2> QED
    BY <2>8 DEF s
<1>9. CASE ~ (Last(l) = "\n" \/ Len(l) = MAXLINE - 1)
  <2>1. line' = l /\ UNCHANGED <<pc, method, uri, unset, todo>>
    BY <1>1, <1>9 DEF ReadByte
  <2>2. n + 1 - (k + 1) = n - k
    BY <1>2
  <2>3. \A i \in 1 .. k + 1 : l[i] = handed'[n - k + i] /\ l[i] # "\n"
    <3>1. \A i \in 1 .. k + 1 : i \in 1 .. k \/ i = k + 1
      BY <1>2
    <3> QED
      BY <1>2, <1>9, <3>1
  <2>4. ASSUME pc = "headers", LinesFit(want[cur])
        PROVE  handed'[n - k] = "\n" /\ \A m \in 3 .. n + 1 : ~ BlankAt(handed', m)
    <3>1. handed[n - k] = "\n" /\ Passed(n) /\ n - k > 0
      BY <1>4, <2>4
    <3>2. n - k \in 1 .. n
      BY <1>2, <3>1
    <3>3. \A m \in 3 .. n + 1 : m \in 3 .. n \/ m = n + 1
      BY <1>2
    <3>4. handed'[n + 1] # "\n"
      BY <1>2, <1>9
    <3> QED
      BY <1>2, <1>6, <3>1, <3>2, <3>3, <3>4 DEF Passed, BlankAt
  <2>5. Lines'
    <3>2. /\ Len(line') = k + 1 /\ Len(handed') = n + 1 /\ k + 1 <= n + 1
          /\ n + 1 - (k + 1) = n - k
      BY <1>2, <2>1
    <3>3. pc \in {"headers"} /\ LinesFit(want[cur])
            => handed'[n - k] = "\n" /\ Passed(n + 1)'
      BY <2>4 DEF Passed
    <3> DEFINE k2 == k + 1
               n2 == n + 1
    <3>4. k2 <= n2 /\ n2 - k2 = n - k
            /\ \A i \in 1 .. k2 : line'[i] = handed'[n - k + i] /\ line'[i] # "\n"
      BY <1>2, <2>1, <2>3
    <3>5. pc' = "request" => n - k = 0
      BY <1>2, <1>5, <2>1
    <3>6. pc' \in {"headers", "spins"} =>
            /\ n - k > 0
            /\ method' = "GET"
            /\ LinesFit(want[cur]) => handed'[n - k] = "\n" /\ Passed(n2)'
      <4>1. pc \in {"headers", "spins"} => pc = "headers"
        BY <1>3
      <4> QED
        BY <1>5, <2>1, <3>3, <4>1
    <3> HIDE DEF k2, n2
    <3>7. /\ Len(line)' = k2 /\ Len(handed)' = n2 /\ want' = want /\ cur' = cur
      BY <1>3, <3>2 DEF k2, n2
    <3> QED
      BY <3>4, <3>5, <3>6, <3>7 DEF Lines
  <2> QED
    BY <1>3, <2>1, <2>5 DEF HeadersEndAtTheBlankLine
<1>10. CASE Last(l) = "\n" \/ Len(l) = MAXLINE - 1
  <2>1. line' = << >> /\ GotLine(l)
    BY <1>1, <1>10 DEF ReadByte
  <2>2. /\ Len(line') = 0 /\ Len(handed') = n + 1 /\ n + 1 - 0 = n + 1
        /\ n + 1 > 0
    BY <1>2, <2>1
  <2>3. LinesFit(want[cur]) => l[k + 1] = "\n" /\ handed'[n + 1] = "\n"
    <3>1. n - k + (k + 1) = n + 1 /\ k + 1 \in 1 .. k + 1
      BY <1>2
    <3>2. ASSUME LinesFit(want[cur]) PROVE Last(l) = "\n"
      BY <1>1, <1>10, <3>2, LinesEnd
    <3>3. l[k + 1] = handed'[n + 1] /\ Last(l) = l[k + 1]
      BY <1>2, <3>1
    <3> QED
      BY <3>2, <3>3
  <2>6. CASE pc' = "headers"
    <3>1. l # CRLF \/ pc = "request"
      BY <2>1, <2>6 DEF GotLine, GotRequest, GotHeader
    <3>2. method' = "GET"
      BY <1>3, <1>5, <2>1, <2>6 DEF GotLine, GotRequest, GotHeader
    <3>3. ASSUME LinesFit(want[cur])
          PROVE  \A m \in 3 .. n + 1 : ~ BlankAt(handed', m)
      <4>1. CASE pc = "headers"
        BY <1>4, <1>7, <3>1, <3>3, <4>1
      <4>2. CASE pc = "request"
        <5>1. n = k
          BY <1>5, <4>2
        <5> SUFFICES ASSUME NEW m \in 3 .. n + 1, BlankAt(handed', m) PROVE FALSE
          OBVIOUS
        <5>2. m - 2 \in 1 .. k /\ n - k + (m - 2) = m - 2 /\ m - 2 \in 1 .. n
          BY <1>2, <5>1
        <5> QED
          BY <1>2, <5>2 DEF BlankAt
      <4> QED
        BY <1>3, <4>1, <4>2
    <3>4. LinesFit(want[cur]) => handed'[n + 1] = "\n" /\ Passed(n + 1)'
      BY <2>3, <3>3 DEF Passed
    <3>5. Lines'
      BY <1>3, <2>1, <2>2, <2>6, <3>2, <3>4 DEF Lines
    <3> QED
      BY <2>6, <3>5 DEF HeadersEndAtTheBlankLine
  <2>7. CASE pc' = "doit"
    <3>1. Lines'
      BY <2>7 DEF Lines
    <3>2. CASE pc = "request"
      <4>1. method' # "GET"
        BY <2>1, <2>7, <3>2 DEF GotLine, GotRequest, GotHeader
      <4> QED
        BY <3>1, <4>1 DEF HeadersEndAtTheBlankLine
    <3>3. CASE pc = "headers"
      <4>1. l = CRLF
        BY <2>1, <2>7, <3>3 DEF GotLine, GotRequest, GotHeader
      <4>2. LinesFit(want[cur]) => EndsHeaders(sent[cur], Len(handed'))
        BY <1>2, <1>8, <3>3, <4>1
      <4> QED
        BY <1>3, <3>1, <4>2 DEF HeadersEndAtTheBlankLine
    <3> QED
      BY <1>3, <3>1, <3>2, <3>3
  <2> QED
    BY <2>1, <2>6, <2>7 DEF GotLine, GotRequest, GotHeader
<1> QED
  BY <1>9, <1>10

(* At the end of what the client sent, what was read counts as a line.     *)
LEMMA EofKeepsLines ==
  ASSUME Types, Reader, Served, Lines, Eof
  PROVE  Lines' /\ HeadersEndAtTheBlankLine'
<1>1. /\ pc \in {"request", "headers"} /\ cur \in Clients /\ cur \in fin
      /\ UNCHANGED <<want, sent, fin, cur, handed>>
  BY DEF Eof, AtEof, Reading, Served, othervars, clientvars, riovars
<1>2. handed = sent[cur]
  <2>1. /\ handed \in Seq(Byte) /\ sent[cur] \in Seq(Byte)
        /\ Len(handed) = taken /\ taken = Len(sent[cur])
        /\ \A j \in 1 .. Len(handed) : handed[j] = sent[cur][j]
    BY <1>1, ReadIsSent DEF Eof, AtEof
  <2> QED
    BY <2>1, SeqEqual
<1>3. /\ line \in Seq(Byte) /\ handed \in Seq(Byte) /\ want[cur] \in Seq(Byte)
      /\ Len(line) \in Nat /\ Len(handed) \in Nat
      /\ \A j \in 1 .. Len(handed) : handed[j] = want[cur][j]
  BY <1>1, <1>2, ReadIsSent DEF Types
<1>5. CASE line = << >> /\ pc' \in {"spins", "headers"} /\ pc = "headers" /\ UNCHANGED <<line, method>>
  BY <1>1, <1>5 DEF Lines, Passed, HeadersEndAtTheBlankLine
<1>6. CASE pc' = "close"
  BY <1>6 DEF Lines, HeadersEndAtTheBlankLine
<1>7. CASE line = << >> /\ pc = "headers" /\ pc' = "doit"
  BY <1>1, <1>2, <1>7 DEF Lines, HeadersEndAtTheBlankLine
<1>8. CASE line # << >> /\ line' = << >> /\ GotLine(line)
  <2>1. Len(line) > 0 /\ Len(line') = 0
    BY <1>3, <1>8, EmptySeq
  <2>2. Len(handed) > 0 /\ Len(handed) - 0 > 0
    BY <1>1, <1>3, <2>1 DEF Lines
  <2>4. CASE pc' = "headers"
    <3>1. method' = "GET"
      BY <1>1, <1>8, <2>4 DEF GotLine, GotRequest, GotHeader, Lines
    <3>2. Lines'
      BY <1>1, <1>2, <1>8, <2>1, <2>2, <2>4, <3>1 DEF Lines
    <3> QED
      BY <2>4, <3>2 DEF HeadersEndAtTheBlankLine
  <2>5. CASE pc' = "doit"
    BY <1>1, <1>2, <2>5 DEF Lines, HeadersEndAtTheBlankLine
  <2> QED
    BY <1>8, <2>4, <2>5 DEF GotLine, GotRequest, GotHeader
<1> QED
  BY <1>5, <1>6, <1>7, <1>8 DEF Eof, doitvars

(* A blank line stays one when more is sent.                               *)
LEMMA EndsStays ==
  ASSUME NEW s \in Seq(Byte), NEW b \in Byte, NEW n \in Nat, EndsHeaders(s, n)
  PROVE  EndsHeaders(Append(s, b), n)
<1> DEFINE t == Append(s, b)
<1>1. /\ t \in Seq(Byte) /\ Len(t) = Len(s) + 1 /\ Len(s) \in Nat
      /\ \A i \in 1 .. Len(s) : t[i] = s[i]
  BY AppendProperties
<1>2. n \in 3 .. Len(s) /\ BlankAt(s, n) /\ \A m \in 3 .. n - 1 : ~ BlankAt(s, m)
  BY EndsIs
<1> HIDE DEF t
<1>3. \A m \in 3 .. n : BlankAt(s, m) <=> BlankAt(t, m)
  <2> SUFFICES ASSUME NEW m \in 3 .. n PROVE BlankAt(s, m) <=> BlankAt(t, m)
    OBVIOUS
  <2>1. m - 2 \in 1 .. Len(s) /\ m - 1 \in 1 .. Len(s) /\ m \in 1 .. Len(s)
    BY <1>1, <1>2
  <2> QED
    BY <1>1, <2>1 DEF BlankAt
<1>4. n \in 3 .. Len(t) /\ BlankAt(t, n) /\ \A m \in 3 .. n - 1 : ~ BlankAt(t, m)
  BY <1>1, <1>2, <1>3
<1>5. EndsHeaders(t, n)
  BY <1>1, <1>4, EndsIs
<1> QED
  BY <1>5 DEF t

LEMMA LinesStay ==
  ASSUME Types, Served, Reader, Lines, HeadersEndAtTheBlankLine,
         UNCHANGED <<pc, line, handed, method, cur>>, fin \subseteq fin',
         cur \in Clients =>
           /\ want'[cur] = want[cur]
           /\ \/ sent'[cur] = sent[cur]
              \/ cur \notin fin /\ \E b \in Byte : sent'[cur] = Append(sent[cur], b)
  PROVE  Lines' /\ HeadersEndAtTheBlankLine'
<1>1. CASE pc \notin {"request", "headers", "spins", "doit"}
  BY <1>1 DEF Lines, HeadersEndAtTheBlankLine
<1>2. CASE pc \in {"request", "headers", "spins", "doit"}
  <2>1. cur \in Clients
    BY <1>2 DEF Served
  <2>2. want'[cur'] = want[cur]
    BY <2>1
  <2>3. cur \in fin => cur' \in fin' /\ sent'[cur'] = sent[cur]
    BY <2>1
  <2>4. Lines'
    BY <2>2, <2>3 DEF Lines, Passed
  <2>5. EndsHeaders(sent[cur], Len(handed)) => EndsHeaders(sent'[cur], Len(handed))
    <3>1. Len(handed) \in Nat /\ sent[cur] \in Seq(Byte)
      BY <2>1, ReadIsSent
    <3> QED
      BY <2>1, <3>1, EndsStays
  <2>6. HeadersEndAtTheBlankLine'
    BY <2>2, <2>3, <2>5 DEF HeadersEndAtTheBlankLine
  <2> QED
    BY <2>4, <2>6
<1> QED
  BY <1>1, <1>2

LEMMA NextLines ==
  ASSUME Types, Served, Reader, Reader', Lines, HeadersEndAtTheBlankLine, [Next]_vars
  PROVE  Lines' /\ HeadersEndAtTheBlankLine'
<1>1. ASSUME NEW c \in Clients, Connect(c)
      PROVE  Lines' /\ HeadersEndAtTheBlankLine'
  <2>1. cur # c
    BY <1>1, TinyAssumption DEF Connect, Served
  <2>2. cur \in Clients => want'[cur] = want[cur]
    BY <1>1, <2>1 DEF Connect, Types
  <2> QED
    BY <1>1, <2>2, LinesStay DEF Connect, doitvars, riovars
<1>2. ASSUME NEW c \in Clients, Send(c)
      PROVE  Lines' /\ HeadersEndAtTheBlankLine'
  <2> DEFINE b == want[c][Len(sent[c]) + 1]
  <2>1. /\ sent[c] \in Seq(Byte) /\ want[c] \in Seq(Byte) /\ c \notin fin
        /\ Len(sent[c]) < Len(want[c])
    BY <1>2 DEF Send, Types
  <2>2. b \in Byte
    BY <2>1
  <2>3. sent' = [sent EXCEPT ![c] = Append(sent[c], b)]
    BY <1>2 DEF Send
  <2> HIDE DEF b
  <2>4. cur \in Clients => \/ sent'[cur] = sent[cur]
                           \/ cur \notin fin /\ \E e \in Byte : sent'[cur] = Append(sent[cur], e)
    BY <2>1, <2>2, <2>3 DEF Types
  <2> QED
    BY <1>2, <2>4, LinesStay DEF Send, doitvars, riovars
<1>3. ASSUME NEW c \in Clients, Leave(c)
      PROVE  Lines' /\ HeadersEndAtTheBlankLine'
  BY <1>3, LinesStay DEF Leave, doitvars, riovars
<1>4. ASSUME NEW f \in Removable, Unlink(f)
      PROVE  Lines' /\ HeadersEndAtTheBlankLine'
  BY <1>4, LinesStay DEF Unlink, doitvars, riovars, clientvars
<1>16. CASE Receive
  BY <1>16, LinesStay DEF Receive, doitvars, riovars, clientvars
<1>5. CASE pc' \notin {"request", "headers", "spins", "doit"}
  BY <1>5 DEF Lines, HeadersEndAtTheBlankLine
<1>6. CASE CallFails \/ NoAddress \/ Socket \/ Bind \/ Listen \/ ReadFails
           \/ WriteFails \/ Return \/ Close
  BY <1>5, <1>6 DEF CallFails, unix_error, NoAddress, Socket, Bind, Listen,
     ReadFails, WriteFails, Return, Close
<1>7. CASE Accept
  <2>1. pc' = "request" /\ line' = << >> /\ handed' = << >>
    BY <1>7 DEF Accept, rio!rio_readinitb
  <2> QED
    BY <2>1 DEF Lines, HeadersEndAtTheBlankLine
<1>8. CASE Read
  <2>1. UNCHANGED handed
    BY <1>8 DEF Read, rio!Refill
  <2> QED
    BY <1>8, <2>1, LinesStay DEF Read, othervars, clientvars, doitvars
<1>9. CASE ReadByte
  BY <1>9, ReadByteKeepsLines
<1>10. CASE Eof
  BY <1>10, EofKeepsLines
<1>11. ASSUME NEW k \in 1 .. 2, WriteSome(k)
       PROVE  Lines' /\ HeadersEndAtTheBlankLine'
  BY <1>11, LinesStay DEF WriteSome, callvars, clientvars, riovars
<1>12. CASE Open \/ Mmap
  <2>1. pc' = pc \/ pc' = "down"
    BY <1>12 DEF Open, Mmap, unix_error
  <2>2. UNCHANGED <<line, handed, method, cur, want, sent, fin>>
    BY <1>12 DEF Open, Mmap, callvars, clientvars, riovars
  <2> QED
    BY <1>5, <2>1, <2>2, LinesStay
<1>13. CASE CloseSrc \/ Munmap \/ Fork \/ Wait
  BY <1>13, LinesStay DEF CloseSrc, Munmap, Fork, Wait, Does, callvars,
     clientvars, riovars
<1>14. CASE Child
  BY <1>14, LinesStay DEF Child, Execve, ExecveFails, Cgi, childvars,
     clientvars, riovars, doitvars
<1>15. CASE UNCHANGED vars
  BY <1>15, LinesStay DEF vars, clientvars, riovars, doitvars
<1> QED
  BY <1>1, <1>2, <1>3, <1>4, <1>6, <1>7, <1>8, <1>9, <1>10, <1>11,
     <1>12, <1>13, <1>14, <1>15, <1>16 DEF Next, Server, Environment, Spin

-------------------------------------------------------------------------------
(* What is written, and what of it arrives                                 *)

LEMMA Joined ==
  ASSUME NEW s, NEW x, NEW S, s \in Seq(S), x \in S, Len(s) <= 3
  PROVE  /\ s = << >> => s \o <<x>> = <<x>>
         /\ Len(s) = 1 => s \o <<x>> = <<s[1], x>>
         /\ Len(s) = 2 => s \o <<x>> = <<s[1], s[2], x>>
         /\ Len(s) = 3 => s \o <<x>> = <<s[1], s[2], s[3], x>>
<1> DEFINE t == s \o <<x>>
<1>1. <<x>> \in Seq(S) /\ Len(<<x>>) = 1 /\ <<x>>[1] = x
  OBVIOUS
<1>2. /\ t \in Seq(S) /\ Len(t) = Len(s) + 1
      /\ \A i \in 1 .. Len(s) : t[i] = s[i]
      /\ t[Len(s) + 1] = x
  <2> DEFINE y == <<x>>
  <2> HIDE DEF y
  <2>1. /\ s \o y \in Seq(S) /\ Len(s \o y) = Len(s) + Len(y)
        /\ \A i \in 1 .. Len(s) + Len(y) :
             (s \o y)[i] = IF i <= Len(s) THEN s[i] ELSE y[i - Len(s)]
    BY <1>1, ConcatProperties DEF y
  <2>2. Len(y) = 1 /\ y[1] = x /\ Len(s) \in Nat
    BY <1>1 DEF y
  <2>3. (s \o y)[Len(s) + 1] = y[1]
    BY <2>1, <2>2
  <2> QED
    BY <2>1, <2>2, <2>3 DEF y
<1> HIDE DEF t
<1>0. \A i \in 1 .. Len(s) : s[i] \in S
  BY ElementOfSeq
<1>3. ASSUME s = << >> PROVE t = <<x>>
  <2>1. Len(t) = 1 /\ t[1] = x
    BY <1>2, <1>3
  <2> QED
    BY <1>1, <1>2, <2>1, SeqEqual
<1>4. ASSUME Len(s) = 1 PROVE t = <<s[1], x>>
  <2> DEFINE r == <<s[1], x>>
  <2>1. r \in Seq(S) /\ Len(r) = 2 /\ r[1] = s[1] /\ r[2] = x
    <3>1. s[1] \in S
      BY ONLY <1>0, <1>4
    <3> QED
      BY <3>1
  <2>2. Len(t) = 2 /\ t[1] = s[1] /\ t[2] = x
    BY <1>2, <1>4
  <2> HIDE DEF r
  <2>3. t = r
    BY <1>2, <2>1, <2>2, SeqEqual
  <2> QED
    BY <2>3 DEF r
<1>5. ASSUME Len(s) = 2 PROVE t = <<s[1], s[2], x>>
  <2> DEFINE r == <<s[1], s[2], x>>
  <2>1. r \in Seq(S) /\ Len(r) = 3 /\ r[1] = s[1] /\ r[2] = s[2] /\ r[3] = x
    BY <1>5
  <2>2. Len(t) = 3 /\ t[1] = s[1] /\ t[2] = s[2] /\ t[3] = x
    BY <1>2, <1>5
  <2> HIDE DEF r
  <2>3. t = r
    BY <1>2, <2>1, <2>2, SeqEqual
  <2> QED
    BY <2>3 DEF r
<1>6. ASSUME Len(s) = 3 PROVE t = <<s[1], s[2], s[3], x>>
  <2> DEFINE r == <<s[1], s[2], s[3], x>>
  <2>1. r \in Seq(S) /\ Len(r) = 4 /\ r[1] = s[1] /\ r[2] = s[2] /\ r[3] = s[3]
          /\ r[4] = x
    <3>1. s[1] \in S /\ s[2] \in S /\ s[3] \in S
      BY ONLY <1>0, <1>6
    <3> QED
      BY <3>1
  <2>2. Len(t) = 4 /\ t[1] = s[1] /\ t[2] = s[2] /\ t[3] = s[3] /\ t[4] = x
    BY <1>2, <1>6
  <2> HIDE DEF r
  <2>3. t = r
    BY <1>2, <2>1, <2>2, SeqEqual
  <2> QED
    BY <2>3 DEF r
<1> QED
  BY <1>3, <1>4, <1>5, <1>6 DEF t

(* A beginning stays one when more is written.                             *)
LEMMA PrefixOfMore ==
  ASSUME NEW S, NEW s \in Seq(S), NEW t \in Seq(S), NEW u \in Seq(S), IsPrefix(s, t)
  PROVE  IsPrefix(s, t \o u)
<1>1. Len(s) <= Len(t) /\ \A i \in 1 .. Len(s) : s[i] = t[i]
  BY PrefixIs
<1>2. /\ t \o u \in Seq(S) /\ Len(t \o u) = Len(t) + Len(u)
      /\ \A i \in 1 .. Len(t) + Len(u) :
           (t \o u)[i] = IF i <= Len(t) THEN t[i] ELSE u[i - Len(t)]
  BY ConcatProperties
<1>3. Len(s) \in Nat /\ Len(t) \in Nat /\ Len(u) \in Nat
  OBVIOUS
<1> DEFINE v == t \o u
<1> HIDE DEF v
<1>4. v \in Seq(S) /\ Len(s) <= Len(v) /\ \A i \in 1 .. Len(s) : s[i] = v[i]
  BY <1>1, <1>2, <1>3 DEF v
<1>5. IsPrefix(s, v)
  BY <1>4, PrefixIs
<1> QED
  BY <1>5 DEF v

LEMMA PrefixOfSame ==
  ASSUME NEW S, NEW s \in Seq(S)
  PROVE  IsPrefix(s, s)
BY PrefixIs

(* A write of text, to a client that may have closed                       *)
LEMMA ToldMore ==
  ASSUME Types, cur \in Clients, NEW text \in Seq(Text), NEW more \in Seq(Text),
         Told(text), UNCHANGED <<cur, gone>>,
         got' = [got EXCEPT ![cur] = IF cur \in gone THEN @ ELSE @ \o more]
  PROVE  Told(text \o more)'
<1>1. got[cur] \in Seq(Text) /\ got'[cur'] = IF cur \in gone THEN got[cur] ELSE got[cur] \o more
  BY DEF Types
<1>2. CASE cur \in gone
  <2>1. IsPrefix(got[cur], text)
    BY <1>1, <1>2, PrefixOfSame DEF Told
  <2>2. IsPrefix(got[cur], text \o more)
    BY <1>1, <2>1, PrefixOfMore
  <2> QED
    BY <1>1, <1>2, <2>2 DEF Told
<1>3. CASE cur \notin gone
  <2>1. got[cur] = text
    BY <1>3 DEF Told
  <2> QED
    BY <1>1, <1>3, <2>1 DEF Told
<1> QED
  BY <1>2, <1>3

LEMMA ToldStays ==
  ASSUME NEW text, Told(text), cur' = cur, got'[cur] = got[cur], gone \subseteq gone'
  PROVE  Told(text)'
BY DEF Told

(* One write of a word                                                     *)
LEMMA WordIsWritten ==
  ASSUME NEW word, NEW k, WriteSome(k), Next1 = Write(<<word>>), cur \in Clients, Types,
         word \in Text
  PROVE  /\ todo' = Tail(todo)
         /\ got' = [got EXCEPT ![cur] = IF cur \in gone THEN @ ELSE @ \o <<word>>]
<1>1. Next1.data = <<word>> /\ k \in 1 .. Len(Next1.data)
  BY ACall DEF WriteSome
<1>4. <<word>> \in Seq(Text) /\ Len(<<word>>) = 1
  OBVIOUS
<1>2. k = 1 /\ k = Len(Next1.data)
  <2> DEFINE w == <<word>>
  <2>1. Next1.data = w /\ Len(w) = 1
    BY <1>1, <1>4
  <2> HIDE DEF w
  <2> QED
    BY <1>1, <2>1
<1>3. SubSeq(<<word>>, 1, 1) = <<word>>
  BY <1>4, SubSeqFull
<1> QED
  BY <1>1, <1>2, <1>3 DEF WriteSome

-------------------------------------------------------------------------------
(* How far an answer is: the steps that leave it where it is               *)

(* Files only go and calls only fail: what was decided stays decided.      *)
Onward ==
  /\ UNCHANGED <<cur, method, uri>> /\ want'[cur] = want[cur] /\ sent'[cur] # << >>
  /\ disk' \subseteq disk /\ gone \subseteq gone' /\ (failed => failed')

LEMMA OnwardRefused ==
  ASSUME NEW n, Refused(n), Onward
  PROVE  Refused(n)'
BY DEF Refused, Onward, Target

LEMMA OnwardRan ==
  ASSUME Ran, Onward, got'[cur] = got[cur]
  PROVE  Ran'
<1>1. PICK x \in CgiOutput : Told(<<"200", "server">> \o x)
  BY DEF Ran
<1>2. x \in CgiOutput'
  BY DEF CgiOutput, Onward, Target
<1>3. Told(<<"200", "server">> \o x)'
  BY <1>1, ToldStays DEF Onward
<1> QED
  BY <1>2, <1>3 DEF Ran

(* No call is made: what is left, and what was written, stays.             *)
Idle ==
  /\ Onward /\ UNCHANGED <<todo, child>> /\ got'[cur] = got[cur]
  /\ pc' # "down" => pc # "down" /\ UNCHANGED <<fds, mapped>>

LEMMA IdleOpen ==
  ASSUME Idle, NEW more, NEW map, HasOpen(more, map)
  PROVE  HasOpen(more, map)'
BY DEF Idle, HasOpen

LEMMA IdleRefusing ==
  ASSUME Idle, Refusing
  PROVE  Refusing'
<1>1. child' = "none" /\ HasOpen({}, FALSE)'
  BY IdleOpen DEF Refusing, Idle
<1>2. PICK n \in {"404", "403", "501"} : Refused(n) /\ SayingNo(n)
  BY DEF Refusing
<1>3. Refused(n)'
  BY <1>2, OnwardRefused DEF Idle
<1>4. \A text : Told(text) => Told(text)'
  BY ToldStays DEF Idle, Onward
<1>5. todo' = todo
  BY DEF Idle
<1>6. SayingNo(n)'
  BY <1>2, <1>4, <1>5 DEF SayingNo, clienterror, ErrorPage
<1> QED
  BY <1>1, <1>3, <1>6 DEF Refusing

LEMMA IdleStatic ==
  ASSUME Idle, ServingStatic
  PROVE  ServingStatic'
<1>1. PICK f \in DOMAIN Files : MaySend(f) /\ Sending(f)
  BY DEF ServingStatic
<1>2. MaySend(f)'
  BY <1>1 DEF MaySend, Idle, Onward, Target
<1>3. \A text : Told(text) => Told(text)'
  BY ToldStays DEF Idle, Onward
<1>4. todo' = todo
  BY DEF Idle
<1>5. \A more, map : HasOpen(more, map) => HasOpen(more, map)'
  BY IdleOpen
<1>6. Sending(f)'
  <2>1. BeforeHeader(f) => BeforeHeader(f)'
    BY <1>3, <1>4, <1>5 DEF BeforeHeader, serve_static, Body
  <2>2. BeforeOpen(f) => BeforeOpen(f)'
    BY <1>3, <1>4, <1>5 DEF BeforeOpen
  <2>3. BeforeMmap(f) => BeforeMmap(f)'
    BY <1>3, <1>4, <1>5 DEF BeforeMmap
  <2>4. BeforeClose(f) => BeforeClose(f)'
    BY <1>3, <1>4, <1>5 DEF BeforeClose
  <2>5. \A k : Writing(f, k) => Writing(f, k)'
    BY <1>3, <1>4, <1>5 DEF Writing
  <2>6. BeforeMunmap(f) => BeforeMunmap(f)'
    BY <1>3, <1>4, <1>5 DEF BeforeMunmap
  <2>7. Sent(f) => Sent(f)'
    BY <1>3, <1>4, <1>5 DEF Sent
  <2> QED
    BY <1>1, <2>1, <2>2, <2>3, <2>4, <2>5, <2>6, <2>7 DEF Sending
<1> QED
  BY <1>2, <1>6 DEF ServingStatic

LEMMA IdleDynamic ==
  ASSUME Idle, ServingDynamic
  PROVE  ServingDynamic'
<1>1. PICK f \in DOMAIN Files : MayRun(f)
  BY DEF ServingDynamic
<1>2. HasOpen({}, FALSE)'
  BY <1>1, IdleOpen DEF MayRun
<1>3. MayRun(f)'
  BY <1>1, <1>2 DEF MayRun, Idle, Onward, Target
<1>4. \A text : Told(text) => Told(text)'
  BY ToldStays DEF Idle, Onward
<1>5. Ran => Ran'
  BY OnwardRan DEF Idle
<1>6. UNCHANGED <<todo, child>>
  BY DEF Idle
<1>7. Running'
  BY <1>4, <1>5, <1>6 DEF Running, ServingDynamic
<1> QED
  BY <1>3, <1>7 DEF ServingDynamic

LEMMA StageStays ==
  ASSUME Stage,
         Decided' => Decided /\ Idle /\ (pc' = "close" => todo = << >>)
  PROVE  Stage'
<1> SUFFICES ASSUME Decided' PROVE Stage'
  BY DEF Stage
<1>1. Decided /\ Idle
  OBVIOUS
<1>2. Refusing' \/ ServingStatic' \/ ServingDynamic'
  BY <1>1, IdleRefusing, IdleStatic, IdleDynamic DEF Stage
<1>3. sent'[cur'] # << >>
  BY <1>1 DEF Stage, Idle, Onward
<1>4. pc' = "close" => todo' = << >>
  BY <1>1 DEF Idle
<1> QED
  BY <1>2, <1>3, <1>4 DEF Stage

-------------------------------------------------------------------------------
(* What doit decides                                                       *)

(* The file doit looks for                                                 *)
LEMMA FilenameIsTarget ==
  ASSUME NEW u, u.cgi \in BOOLEAN, u.slash \in BOOLEAN
  PROVE  /\ parse_uri(u).filename = Target(u)
         /\ parse_uri(u).is_static = ~ u.cgi
<1>1. CASE u.cgi
  BY <1>1 DEF parse_uri, Target
<1>2. CASE ~ u.cgi
  <2>1. (~ u.cgi /\ u.slash) = u.slash
    BY <1>2
  <2>2. Target(u) = <<u.path, u.query, u.slash>>
    BY <1>2, <2>1 DEF Target
  <2>3. parse_uri(u).filename = <<u.path, u.query, u.slash>>
    BY <1>2 DEF parse_uri
  <2>4. parse_uri(u).is_static = TRUE
    BY <1>2 DEF parse_uri
  <2> QED
    BY <1>2, <2>2, <2>3, <2>4
<1> QED
  BY <1>1, <1>2

MayBeUsed(u, f) == IF u.cgi THEN Files[f].xusr ELSE Files[f].rusr

LEMMA AnswerIs ==
  ASSUME NEW u, u.cgi \in BOOLEAN, u.slash \in BOOLEAN, NEW f, f = Target(u)
  PROVE  \/ Answer(u) = clienterror("404") /\ f \notin disk
         \/ /\ Answer(u) = clienterror("403") /\ f \in disk
            /\ ~ Files[f].reg \/ ~ MayBeUsed(u, f)
         \/ /\ Answer(u) = serve_static(f) /\ f \in disk /\ ~ u.cgi
            /\ Files[f].reg /\ Files[f].rusr
         \/ /\ Answer(u) = serve_dynamic /\ f \in disk /\ u.cgi
            /\ Files[f].reg /\ Files[f].xusr
<1>1. parse_uri(u).filename = f /\ parse_uri(u).is_static = ~ u.cgi
  BY FilenameIsTarget
<1>2. Answer(u) =
        IF f \notin disk THEN clienterror("404")
        ELSE IF ~ Files[f].reg
                \/ ~ (IF ~ u.cgi THEN Files[f].rusr ELSE Files[f].xusr)
          THEN clienterror("403")
        ELSE IF ~ u.cgi THEN serve_static(f)
        ELSE serve_dynamic
  BY <1>1 DEF Answer
<1> QED
  BY <1>2 DEF MayBeUsed

(* doit begins to answer.                                                  *)
LEMMA BeginsToRefuse ==
  ASSUME NEW n \in {"404", "403", "501"}, Refused(n)', todo' = clienterror(n),
         child' = "none",
         Told(<< >>)', HasOpen({}, FALSE)'
  PROVE  Refusing'
<1>1. SayingNo(n)'
  BY DEF SayingNo, clienterror
<1> QED
  BY <1>1 DEF Refusing

LEMMA DecisionIsRight ==
  ASSUME Types, Served, Descriptors, pc \in {"request", "headers"}, pc' = "doit",
         UNCHANGED othervars, sent[cur] # << >>,
         \/ method' # "GET" /\ todo' = clienterror("501")
         \/ /\ method = "GET" /\ UNCHANGED <<method, uri>> /\ UriIsUri
            /\ todo' = Answer(uri)
  PROVE  Stage'
<1>1. UNCHANGED <<want, sent, got, cur, gone, disk, fds, mapped, child>>
  BY DEF othervars, clientvars, kernelvars
<1>2. cur \in Clients /\ want[cur] # << >> /\ got[cur] = << >>
  BY TinyAssumption DEF Served
<1>3. child = "none" /\ fds = {"listening", "conn"} /\ mapped = FALSE
  BY DEF Descriptors, Types, TypeOK
<1>4. Told(<< >>)' /\ HasOpen({}, FALSE)'
  BY <1>1, <1>2, <1>3 DEF Told, HasOpen
<1>5. child' = "none" /\ disk' = disk /\ disk \subseteq DOMAIN Files
  BY <1>1, <1>3 DEF Types, TypeOK
<1>6. PICK u, f : u = uri /\ f = Target(u)
  OBVIOUS
<1>7. ASSUME NEW n \in {"404", "403", "501"}, todo' = clienterror(n), Refused(n)'
      PROVE  Refusing'
  BY ONLY <1>4, <1>5, <1>7, BeginsToRefuse
<1>8. Refusing' \/ ServingStatic' \/ ServingDynamic'
  <2>1. CASE method' # "GET" /\ todo' = clienterror("501")
    <3>1. Refused("501")'
      BY <2>1 DEF Refused
    <3> QED
      BY <1>7, <2>1, <3>1
  <2>2. CASE /\ method = "GET" /\ UNCHANGED <<method, uri>> /\ UriIsUri
             /\ todo' = Answer(uri)
    <3>1. /\ todo' = Answer(u) /\ u.cgi \in BOOLEAN /\ u.slash \in BOOLEAN
          /\ method' = "GET" /\ uri' = u /\ Target(u) = f
      BY <1>6, <2>2 DEF UriIsUri
    <3>2. CASE todo' = clienterror("404") /\ f \notin disk
      <4>1. Refused("404")'
        BY <1>5, <3>1, <3>2 DEF Refused
      <4> QED
        BY <1>7, <3>2, <4>1
    <3>3. CASE /\ todo' = clienterror("403") /\ f \in disk
               /\ ~ Files[f].reg \/ ~ MayBeUsed(u, f)
      <4>1. Refused("403")'
        BY <1>5, <3>1, <3>3 DEF Refused, MayBeUsed
      <4> QED
        BY <1>7, <3>3, <4>1
    <3>4. CASE /\ todo' = serve_static(f) /\ f \in disk /\ ~ u.cgi
               /\ Files[f].reg /\ Files[f].rusr
      <4>1. BeforeHeader(f)'
        BY <1>4, <3>4 DEF BeforeHeader, serve_static, Body
      <4>2. MaySend(f)'
        BY <1>5, <3>1, <3>4 DEF MaySend, Target
      <4> QED
        BY <1>5, <3>4, <4>1, <4>2 DEF ServingStatic, Sending
    <3>5. CASE /\ todo' = serve_dynamic /\ f \in disk /\ u.cgi
               /\ Files[f].reg /\ Files[f].xusr
      <4>1. Running'
        BY <1>4, <1>5, <3>5 DEF Running, serve_dynamic
      <4>2. MayRun(f)'
        BY <1>4, <1>5, <3>1, <3>5 DEF MayRun, Target
      <4> QED
        BY <1>5, <3>5, <4>1, <4>2 DEF ServingDynamic
    <3> QED
      BY <3>1, <3>2, <3>3, <3>4, <3>5, AnswerIs
  <2> QED
    BY <2>1, <2>2
<1> QED
  BY <1>1, <1>8 DEF Stage

-------------------------------------------------------------------------------
(* How far an answer is: the writes                                        *)

(* Part by part, the whole is written: after p and j of the n of s, k more *)
Fits(S, s, p, n, j, k) ==
  /\ Len(SubSeq(s, j + 1, n)) = n - j
  /\ SubSeq(SubSeq(s, j + 1, n), 1, k) = SubSeq(s, j + 1, j + k)
  /\ SubSeq(s, 1, j) \in Seq(S) /\ SubSeq(s, j + 1, j + k) \in Seq(S)
  /\ k < n - j =>
       SubSeq(SubSeq(s, j + 1, n), k + 1, n - j) = SubSeq(s, j + k + 1, n)
  /\ (p \o SubSeq(s, 1, j)) \o SubSeq(s, j + 1, j + k)
       = p \o SubSeq(s, 1, j + k)

LEMMA PartIsWritten ==
  ASSUME NEW S, NEW s \in Seq(S), NEW p \in Seq(S),
         NEW n, n = Len(s), NEW j \in 0 .. n - 1, NEW k \in 1 .. n - j
  PROVE  Fits(S, s, p, n, j, k)
<1>1. n \in Nat /\ j \in Nat /\ k \in Nat /\ j + k <= n /\ k >= 1
  OBVIOUS
<1>2. \A i \in 1 .. n : s[i] \in S
  BY ElementOfSeq
<1>3. \A a, b : a \in Nat /\ b \in Nat /\ 1 <= a /\ b <= n =>
        /\ SubSeq(s, a, b) \in Seq(S)
        /\ Len(SubSeq(s, a, b)) = IF a <= b THEN b - a + 1 ELSE 0
  <2> SUFFICES ASSUME NEW a \in Nat, NEW b \in Nat, 1 <= a, b <= n
               PROVE  /\ SubSeq(s, a, b) \in Seq(S)
                      /\ Len(SubSeq(s, a, b)) = IF a <= b THEN b - a + 1 ELSE 0
    OBVIOUS
  <2>1. \A i \in a .. b : s[i] \in S
    BY <1>1, <1>2
  <2> QED
    BY <2>1, SubSeqProperties
<1>4. Len(SubSeq(s, j + 1, n)) = n - j
  BY ONLY <1>1, <1>3
<1>5. SubSeq(SubSeq(s, j + 1, n), 1, k) = SubSeq(s, j + 1, j + k)
  <2>1. j + 1 \in 1 .. Len(s) /\ n \in 1 .. Len(s)
    BY <1>1
  <2>2. 1 \in 1 .. n - (j + 1) + 1 /\ k \in 1 .. n - (j + 1) + 1
    BY <1>1
  <2>3. SubSeq(SubSeq(s, j + 1, n), 1, k) = SubSeq(s, (j + 1) + 1 - 1, (j + 1) + k - 1)
    BY <2>1, <2>2, SubSeqOfSubSeq
  <2>4. (j + 1) + 1 - 1 = j + 1 /\ (j + 1) + k - 1 = j + k
    BY <1>1
  <2> QED
    BY <2>3, <2>4
<1>6. ASSUME k < n - j
      PROVE  SubSeq(SubSeq(s, j + 1, n), k + 1, n - j) = SubSeq(s, j + k + 1, n)
  <2>1. j + 1 \in 1 .. Len(s) /\ n \in 1 .. Len(s)
    BY <1>1
  <2>2. k + 1 \in 1 .. n - (j + 1) + 1 /\ n - j \in 1 .. n - (j + 1) + 1
    BY <1>1, <1>6
  <2>3. SubSeq(SubSeq(s, j + 1, n), k + 1, n - j)
          = SubSeq(s, (j + 1) + (k + 1) - 1, (j + 1) + (n - j) - 1)
    BY <2>1, <2>2, SubSeqOfSubSeq
  <2>4. (j + 1) + (k + 1) - 1 = j + k + 1 /\ (j + 1) + (n - j) - 1 = n
    BY <1>1
  <2> QED
    BY <2>3, <2>4
<1>7. SubSeq(s, 1, j) \in Seq(S) /\ SubSeq(s, j + 1, j + k) \in Seq(S)
  <2>1. 1 \in Nat /\ j \in Nat /\ 1 <= 1 /\ j <= n
    BY ONLY <1>1
  <2>2. j + 1 \in Nat /\ j + k \in Nat /\ 1 <= j + 1 /\ j + k <= n
    BY ONLY <1>1
  <2>3. SubSeq(s, 1, j) \in Seq(S)
    BY ONLY <1>3, <2>1
  <2>4. SubSeq(s, j + 1, j + k) \in Seq(S)
    BY ONLY <1>3, <2>2
  <2> QED
    BY <2>3, <2>4
<1>8. SubSeq(s, 1, j) \o SubSeq(s, j + 1, j + k) = SubSeq(s, 1, j + k)
  <2>1. 1 \in 1 .. Len(s) + 1 /\ j \in 1 - 1 .. Len(s) /\ j + k \in j .. Len(s)
    BY <1>1
  <2> QED
    BY <2>1, ConcatAdjacentSubSeq
<1>9. (p \o SubSeq(s, 1, j)) \o SubSeq(s, j + 1, j + k)
        = p \o SubSeq(s, 1, j + k)
  <2> DEFINE t == SubSeq(s, 1, j)
             u == SubSeq(s, j + 1, j + k)
  <2>1. p \in Seq(S) /\ t \in Seq(S) /\ u \in Seq(S)
    BY <1>7
  <2> HIDE DEF t, u
  <2>2. (p \o t) \o u = p \o (t \o u)
    BY ONLY <2>1, ConcatAssociative
  <2> QED
    BY <1>8, <2>2 DEF t, u
<1> QED
  BY <1>4, <1>5, <1>6, <1>7, <1>9 DEF Fits

LEMMA TextJoins ==
  ASSUME NEW a \in Text, NEW b \in Text, NEW c \in Text, NEW d \in Text
  PROVE  /\ << >> \o <<a>> = <<a>> /\ <<a>> \o <<b>> = <<a, b>>
         /\ <<a, b>> \o <<c>> = <<a, b, c>>
         /\ <<a, b, c>> \o <<d>> = <<a, b, c, d>>
<1> DEFINE s == <<a>>
           t == <<a, b>>
           u == <<a, b, c>>
<1>1. /\ << >> \in Seq(Text) /\ Len(<< >>) = 0
      /\ s \in Seq(Text) /\ Len(s) = 1 /\ s[1] = a
      /\ t \in Seq(Text) /\ Len(t) = 2 /\ t[1] = a /\ t[2] = b
      /\ u \in Seq(Text) /\ Len(u) = 3 /\ u[1] = a /\ u[2] = b /\ u[3] = c
  OBVIOUS
<1> HIDE DEF s, t, u
<1>2. << >> \o <<a>> = <<a>>
  BY <1>1, Joined
<1>3. s \o <<b>> = <<s[1], b>>
  BY <1>1, Joined
<1>4. t \o <<c>> = <<t[1], t[2], c>>
  BY <1>1, Joined
<1>5. u \o <<d>> = <<u[1], u[2], u[3], d>>
  <2>1. u \in Seq(Text) /\ d \in Text /\ Len(u) <= 3 /\ Len(u) = 3
    BY <1>1
  <2> QED
    BY ONLY <2>1, Joined, Zenon
<1> QED
  BY <1>1, <1>2, <1>3, <1>4, <1>5 DEF s, t, u

LEMMA TwoCalls ==
  ASSUME NEW a, NEW b
  PROVE  <<a>> \o <<b>> = <<a, b>>
<1> DEFINE s == <<a>>
<1>1. s \in Seq({a, b}) /\ Len(s) = 1 /\ s[1] = a /\ b \in {a, b} /\ Len(s) <= 3
  OBVIOUS
<1> HIDE DEF s
<1>2. s \o <<b>> = <<s[1], b>>
  BY <1>1, Joined
<1> QED
  BY <1>1, <1>2 DEF s

(* A word is written, and what has been written is all of this.            *)
LEMMA ToldWord ==
  ASSUME Types, cur \in Clients, NEW word \in Text, NEW k, WriteSome(k),
         Next1 = Write(<<word>>), NEW text \in Seq(Text), Told(text),
         NEW all, all = text \o <<word>>
  PROVE  todo' = Tail(todo) /\ Told(all)'
<1>1. todo' = Tail(todo)
  BY WordIsWritten
<1>2. got' = [got EXCEPT ![cur] = IF cur \in gone THEN @ ELSE @ \o <<word>>]
  BY WordIsWritten
<1>3. UNCHANGED <<cur, gone>>
  BY DEF WriteSome, callvars, clientvars
<1>4. <<word>> \in Seq(Text)
  OBVIOUS
<1>5. Told(text \o <<word>>)'
  <2> DEFINE more == <<word>>
  <2>1. more \in Seq(Text)
    BY <1>4
  <2>2. got' = [got EXCEPT ![cur] = IF cur \in gone THEN @ ELSE @ \o more]
    BY <1>2
  <2> HIDE DEF more
  <2>3. Told(text \o more)'
    BY <1>3, <2>1, <2>2, ToldMore
  <2> QED
    BY <2>3 DEF more
<1> QED
  BY <1>1, <1>5 DEF Told

LEMMA WriteKeeps ==
  ASSUME NEW k, WriteSome(k), sent[cur] # << >>
  PROVE  /\ Onward /\ UNCHANGED <<pc, child, fds, mapped, disk, cur, method, uri, want, failed>>
         /\ \A more, map : HasOpen(more, map) => HasOpen(more, map)'
<1>1. UNCHANGED <<pc, child, fds, mapped, disk, cur, method, uri, want, sent, gone,
                  failed>>
  BY DEF WriteSome, callvars, clientvars
<1> QED
  BY <1>1 DEF Onward, HasOpen

LEMMA WriteRefusing ==
  ASSUME Types, cur \in Clients, sent[cur] # << >>, Refusing, NEW k, WriteSome(k)
  PROVE  Refusing'
<1>1. PICK n \in {"404", "403", "501"} : Refused(n) /\ SayingNo(n)
  BY DEF Refusing
<1>2. child' = "none" /\ HasOpen({}, FALSE)'
  BY WriteKeeps DEF Refusing
<1>3. Refused(n)'
  BY <1>1, OnwardRefused, WriteKeeps
<1>4. todo # << >>
  BY DEF WriteSome
<1>5. /\ n \in Text /\ "type" \in Text /\ "length" \in Text /\ "page" \in Text
      /\ << >> \in Seq(Text) /\ <<n>> \in Seq(Text) /\ <<n, "type">> \in Seq(Text)
      /\ <<n, "type", "length">> \in Seq(Text)
  BY WordsAreText
<1> SUFFICES SayingNo(n)'
  BY <1>2, <1>3 DEF Refusing
<1>6. CASE todo = clienterror(n) /\ Told(<< >>) /\ Next1 = Write(<<n>>)
  <2>1. <<n>> = << >> \o <<n>>
    BY <1>5, ConcatEmptySeq
  <2>2. todo' = Tail(todo) /\ Told(<<n>>)'
    BY ONLY <1>5, <1>6, <2>1, ToldWord, Types, cur \in Clients, WriteSome(k)
  <2>3. todo' = <<Write(<<"type">>), Write(<<"length">>), Write(<<"page">>)>>
    BY <1>6, <2>2 DEF clienterror
  <2> QED
    BY <2>2, <2>3 DEF SayingNo
<1>7. CASE /\ todo = <<Write(<<"type">>), Write(<<"length">>), Write(<<"page">>)>>
           /\ Told(<<n>>) /\ Next1 = Write(<<"type">>)
  <2>1. <<n, "type">> = <<n>> \o <<"type">>
    BY <1>5, TextJoins
  <2>2. todo' = Tail(todo) /\ Told(<<n, "type">>)'
    BY ONLY <1>5, <1>7, <2>1, ToldWord, Types, cur \in Clients, WriteSome(k)
  <2>3. todo' = <<Write(<<"length">>), Write(<<"page">>)>>
    BY <1>7, <2>2
  <2> QED
    BY <2>2, <2>3 DEF SayingNo
<1>8. CASE /\ todo = <<Write(<<"length">>), Write(<<"page">>)>>
           /\ Told(<<n, "type">>) /\ Next1 = Write(<<"length">>)
  <2>1. <<n, "type", "length">> = <<n, "type">> \o <<"length">>
    BY <1>5, TextJoins
  <2>2. todo' = Tail(todo) /\ Told(<<n, "type", "length">>)'
    BY ONLY <1>5, <1>8, <2>1, ToldWord, Types, cur \in Clients, WriteSome(k)
  <2>3. todo' = <<Write(<<"page">>)>>
    BY <1>8, <2>2
  <2> QED
    BY <2>2, <2>3 DEF SayingNo
<1>9. CASE /\ todo = <<Write(<<"page">>)>>
           /\ Told(<<n, "type", "length">>) /\ Next1 = Write(<<"page">>)
  <2>1. ErrorPage(n) = <<n, "type", "length">> \o <<"page">>
    BY <1>5, TextJoins DEF ErrorPage
  <2>2. todo' = Tail(todo) /\ Told(ErrorPage(n))'
    BY ONLY <1>5, <1>9, <2>1, ToldWord, Types, cur \in Clients, WriteSome(k)
  <2>3. todo' = << >>
    BY <1>9, <2>2
  <2> QED
    BY <2>2, <2>3 DEF SayingNo
<1> QED
  BY <1>1, <1>4, <1>6, <1>7, <1>8, <1>9, NoCalls

LEMMA WriteStatic ==
  ASSUME Types, cur \in Clients, sent[cur] # << >>, ServingStatic, NEW k, WriteSome(k)
  PROVE  ServingStatic'
<1>1. PICK f \in DOMAIN Files : MaySend(f) /\ Sending(f)
  BY DEF ServingStatic
<1>0. UNCHANGED <<child, cur, method, uri, want>>
  BY WriteKeeps
<1>2. MaySend(f)'
  BY <1>0, <1>1 DEF MaySend, Target
<1>3. todo # << >> /\ Next1.call = "write"
  BY DEF WriteSome
<1>4. \A more, map : HasOpen(more, map) => HasOpen(more, map)'
  BY WriteKeeps
<1> SUFFICES Sending(f)'
  BY <1>2 DEF ServingStatic
<1>5. CASE BeforeHeader(f) /\ Next1 = Write(<<"200static">>)
  <2>1. "200static" \in Text /\ << >> \in Seq(Text)
    BY WordsAreText
  <2>2. OK = << >> \o <<"200static">>
    BY <2>1, TextJoins DEF OK
  <2>3. Told(<< >>)
    BY <1>5 DEF BeforeHeader
  <2>4. todo' = Tail(todo) /\ Told(OK)'
    BY ONLY <1>5, <2>1, <2>2, <2>3, ToldWord, Types, cur \in Clients, WriteSome(k)
  <2>5. todo' = <<Call("open"), Call("mmap"), Call("close"), Write(Body(f)),
                  Call("munmap")>>
    BY <1>5, <2>4 DEF BeforeHeader, serve_static
  <2>6. HasOpen({}, FALSE)'
    BY <1>4, <1>5 DEF BeforeHeader
  <2> QED
    BY <2>4, <2>5, <2>6 DEF BeforeOpen, Sending
<1>6. ASSUME NEW j \in 0 .. Files[f].size - 1, Writing(f, j),
             Next1 = Write(SubSeq(Body(f), j + 1, Files[f].size))
      PROVE  Sending(f)'
  <2> DEFINE n == Files[f].size
             s == Body(f)
             data == SubSeq(s, j + 1, n)
             past == SubSeq(s, 1, j)
             more == SubSeq(s, j + 1, j + k)
             last == <<Call("munmap")>>
  <2>1. s \in Seq(Text) /\ n = Len(s) /\ OK \in Seq(Text) /\ n \in Nat
    BY <1>1, TextIsText, TinyAssumption, WordsAreText DEF OK
  <2>2. Next1.data = data /\ Tail(todo) = last
    <3>1. Next1.data = data
      BY <1>6, ACall
    <3>2. todo = <<Write(data), Call("munmap")>>
      BY <1>6 DEF Writing
    <3> QED
      BY <3>1, <3>2
  <2> HIDE DEF n, s, last
  <2>3. k \in 1 .. Len(data)
    BY <2>2 DEF WriteSome
  <2>4. /\ Len(data) = n - j /\ data \in Seq(Text)
    <3>1. j \in 0 .. n - 1 /\ \A i \in j + 1 .. n : s[i] \in Text
      BY <1>6, <2>1, ElementOfSeq DEF n
    <3>2. j + 1 \in Int /\ n \in Int /\ j + 1 <= n
      BY <2>1, <3>1
    <3>3. data \in Seq(Text) /\ Len(data) = IF j + 1 <= n THEN n - (j + 1) + 1 ELSE 0
      BY <3>1, <3>2, SubSeqProperties
    <3> QED
      BY <3>1, <3>2, <3>3
  <2>5. k \in 1 .. n - j /\ j \in 0 .. n - 1
    BY <1>6, <2>3, <2>4 DEF n
  <2>6. /\ SubSeq(data, 1, k) = more
        /\ past \in Seq(Text) /\ more \in Seq(Text)
        /\ k < n - j => SubSeq(data, k + 1, n - j) = SubSeq(s, j + k + 1, n)
        /\ (OK \o past) \o more = OK \o SubSeq(s, 1, j + k)
    <3>1. Fits(Text, s, OK, n, j, k)
      BY <2>1, <2>5, PartIsWritten
    <3> QED
      BY <3>1 DEF Fits
  <2>7. /\ got' = [got EXCEPT ![cur] = IF cur \in gone THEN @ ELSE @ \o SubSeq(data, 1, k)]
        /\ todo' = IF k = Len(data) THEN last
                   ELSE <<Write(SubSeq(data, k + 1, Len(data)))>> \o last
        /\ UNCHANGED <<cur, gone>>
    <3>1. got' = [got EXCEPT ![cur] = IF cur \in gone THEN @
                                      ELSE @ \o SubSeq(Next1.data, 1, k)]
      BY DEF WriteSome
    <3>2. todo' = IF k = Len(Next1.data) THEN Tail(todo)
                  ELSE <<Write(SubSeq(Next1.data, k + 1, Len(Next1.data)))>> \o Tail(todo)
      BY DEF WriteSome
    <3>3. UNCHANGED <<cur, gone>>
      BY DEF WriteSome, callvars, clientvars
    <3> HIDE DEF data
    <3> QED
      BY <2>2, <3>1, <3>2, <3>3
  <2>8. Told(OK \o past)
    BY <1>6 DEF Writing, s
  <2> HIDE DEF data, past, more
  <2>9. got' = [got EXCEPT ![cur] = IF cur \in gone THEN @ ELSE @ \o more]
    BY <2>6, <2>7
  <2>10. OK \o past \in Seq(Text)
    BY <2>1, <2>6, ConcatProperties
  <2>11. Told((OK \o past) \o more)'
    BY <2>6, <2>7, <2>8, <2>9, <2>10, ToldMore
  <2>12. HasOpen({}, TRUE)'
    BY <1>4, <1>6 DEF Writing
  <2>13. CASE k = n - j
    <3>1. todo' = last
      BY <2>4, <2>7, <2>13
    <3>2. SubSeq(s, 1, j + k) = s
      <4>1. j + k = n
        BY <2>1, <2>5, <2>13
      <4> QED
        BY <2>1, <4>1, SubSeqFull
    <3>3. Told(OK \o s)'
      BY <2>6, <2>11, <3>2
    <3> QED
      BY <2>12, <3>1, <3>3 DEF BeforeMunmap, Sending, s, last
  <2>14. CASE k # n - j
    <3>1. j + k \in 0 .. n - 1 /\ k < n - j
      BY <2>1, <2>5, <2>14
    <3>2. todo' = <<Write(SubSeq(s, j + k + 1, n))>> \o last
      BY <2>4, <2>6, <2>7, <2>14, <3>1
    <3>3. todo' = <<Write(SubSeq(s, j + k + 1, n)), Call("munmap")>>
      BY <3>2, TwoCalls DEF last
    <3>4. Told(OK \o SubSeq(s, 1, j + k))'
      BY <2>6, <2>11
    <3>5. Writing(f, j + k)'
      BY <2>12, <3>3, <3>4 DEF Writing, s, n
    <3> QED
      BY <3>1, <3>5 DEF Sending, n
  <2> QED
    BY <2>13, <2>14
<1>7. CASE Next1 \in {Call("open"), Call("mmap"), Call("close"), Call("munmap")}
  BY <1>3, <1>7, ACall
<1> QED
  BY <1>1, <1>3, <1>5, <1>6, <1>7, SendingCalls

LEMMA WriteDynamic ==
  ASSUME Types, cur \in Clients, sent[cur] # << >>, ServingDynamic, NEW k, WriteSome(k)
  PROVE  ServingDynamic'
<1>1. PICK f \in DOMAIN Files : MayRun(f)
  BY DEF ServingDynamic
<1>2. MayRun(f)'
  BY <1>1, WriteKeeps DEF MayRun, Target
<1>3. todo # << >> /\ Next1.call = "write" /\ child' = child
  BY WriteKeeps DEF WriteSome
<1> SUFFICES Running'
  BY <1>2 DEF ServingDynamic
<1>4. "200" \in Text /\ "server" \in Text /\ << >> \in Seq(Text) /\ <<"200">> \in Seq(Text)
  BY WordsAreText
<1>5. CASE /\ todo = serve_dynamic /\ child = "none" /\ Told(<< >>)
           /\ Next1 = Write(<<"200">>)
  <2>1. <<"200">> = << >> \o <<"200">>
    BY <1>4, TextJoins
  <2>2. todo' = Tail(todo) /\ Told(<<"200">>)'
    BY ONLY <1>4, <1>5, <2>1, ToldWord, Types, cur \in Clients, WriteSome(k)
  <2>3. todo' = <<Write(<<"server">>), Call("fork"), Call("wait")>>
    BY <1>5, <2>2 DEF serve_dynamic
  <2> QED
    BY <1>3, <1>5, <2>2, <2>3 DEF Running
<1>6. CASE /\ todo = <<Write(<<"server">>), Call("fork"), Call("wait")>>
           /\ child = "none" /\ Told(<<"200">>) /\ Next1 = Write(<<"server">>)
  <2>1. <<"200", "server">> = <<"200">> \o <<"server">>
    BY <1>4, TextJoins
  <2>2. todo' = Tail(todo) /\ Told(<<"200", "server">>)'
    BY ONLY <1>4, <1>6, <2>1, ToldWord, Types, cur \in Clients, WriteSome(k)
  <2>3. todo' = <<Call("fork"), Call("wait")>>
    BY <1>6, <2>2
  <2> QED
    BY <1>3, <1>6, <2>2, <2>3 DEF Running
<1>7. CASE Next1 = Call("fork") \/ Next1 = Call("wait")
  BY <1>3, <1>7, ACall
<1> QED
  BY <1>3, <1>5, <1>6, <1>7, RunningCalls DEF ServingDynamic

LEMMA WriteStage ==
  ASSUME Types, Served, Stage, NEW k, WriteSome(k)
  PROVE  Stage'
<1>1. pc = "doit" /\ cur \in Clients /\ sent[cur] # << >>
  BY DEF WriteSome, Served, Stage, Decided
<1>2. UNCHANGED <<pc, cur, uri, want, sent>>
  BY DEF WriteSome, callvars, clientvars
<1>3. Refusing' \/ ServingStatic' \/ ServingDynamic'
  BY <1>1, WriteRefusing, WriteStatic, WriteDynamic DEF Stage, Decided
<1> QED
  BY <1>1, <1>2, <1>3 DEF Stage

-------------------------------------------------------------------------------
(* How far an answer is: the calls                                         *)

LEMMA NextCall ==
  ASSUME Stage, pc = "doit", todo # << >>
  PROVE  \/ Next1.call = "write"
         \/ Next1.call \in {"open", "mmap", "close", "munmap"} /\ ServingStatic
         \/ Next1.call \in {"fork", "wait"} /\ ServingDynamic
<1>1. CASE Refusing
  <2>1. PICK n \in {"404", "403", "501"} : SayingNo(n)
    BY <1>1 DEF Refusing
  <2>2. \/ Next1 = Write(<<n>>) \/ Next1 = Write(<<"type">>)
        \/ Next1 = Write(<<"length">>) \/ Next1 = Write(<<"page">>)
    BY <2>1, NoCalls
  <2> QED
    BY <2>2, ACall
<1>2. CASE ServingStatic
  <2>1. PICK f \in DOMAIN Files : Sending(f)
    BY <1>2 DEF ServingStatic
  <2>2. \/ \E d : Next1 = Write(d)
        \/ Next1 \in {Call("open"), Call("mmap"), Call("close"), Call("munmap")}
    BY <2>1, SendingCalls
  <2> QED
    BY <1>2, <2>2, ACall
<1>3. CASE ServingDynamic
  <2>1. \/ Next1 = Write(<<"200">>) \/ Next1 = Write(<<"server">>)
        \/ Next1 = Call("fork") \/ Next1 = Call("wait")
    BY <1>3, RunningCalls DEF ServingDynamic
  <2> QED
    BY <1>3, <2>1, ACall
<1> QED
  BY <1>1, <1>2, <1>3 DEF Stage, Decided

LEMMA TargetIsFilename ==
  ASSUME UriIsUri
  PROVE  Filename = Target(uri)
BY FilenameIsTarget DEF Filename, UriIsUri

(* A call that is no write leaves alone what was written.                  *)
LEMMA CallKeeps ==
  ASSUME Stage, pc = "doit", UNCHANGED <<callvars, got>>, failed' = failed
  PROVE  /\ UNCHANGED <<cur, method, uri, want, sent, disk>> /\ sent[cur] # << >>
         /\ \A text : Told(text) => Told(text)'
<1>1. UNCHANGED <<cur, method, uri, want, sent, disk, gone>>
  BY DEF callvars, clientvars
<1>2. \A text : Told(text) => Told(text)'
  BY <1>1, ToldStays
<1> QED
  BY <1>1, <1>2 DEF Stage, Decided

LEMMA CallSends ==
  ASSUME Types, Served, Stage, UriIsUri, Open \/ Mmap \/ CloseSrc \/ Munmap
  PROVE  Stage'
<1>1. /\ pc = "doit" /\ todo # << >> /\ todo' = Tail(todo) /\ UNCHANGED <<callvars, got>>
      /\ failed' = failed /\ child' = child
      /\ Next1.call \in {"open", "mmap", "close", "munmap"}
  BY DEF Open, Mmap, CloseSrc, Munmap, Does
<1>2. ServingStatic
  BY <1>1, NextCall
<1>3. PICK f \in DOMAIN Files : MaySend(f) /\ Sending(f)
  BY <1>2 DEF ServingStatic
<1>4. child = "none" /\ Filename = f
  BY <1>1, <1>3, TargetIsFilename DEF MaySend
<1>5. MaySend(f)'
  BY <1>1, <1>3, CallKeeps DEF MaySend, Target
<1>6. CASE pc' = "down"
  BY <1>1, <1>4, <1>6 DEF Stage, Decided
<1> SUFFICES ASSUME pc' = "doit" PROVE Sending(f)'
  <2>1. pc' \in {"doit", "down"}
    BY <1>1 DEF Open, Mmap, CloseSrc, Munmap, unix_error
  <2>2. Sending(f)' /\ pc' = "doit" => Stage'
    BY <1>1, <1>5, CallKeeps DEF Stage, Decided, ServingStatic
  <2> QED
    BY <1>6, <2>1, <2>2
<1>7. \A text : Told(text) => Told(text)'
  BY <1>1, CallKeeps
<1>8. Files[f].size \in Nat /\ Body(f) \in Seq(Text) /\ Len(Body(f)) = Files[f].size
  BY <1>3, TextIsText, TinyAssumption
<1>9. CASE BeforeOpen(f) /\ Next1 = Call("open")
  <2>1. Open
    BY <1>9, ACall DEF Mmap, CloseSrc, Munmap, Does
  <2>2. fds' = fds \cup {"src"} /\ mapped' = mapped
    BY <2>1 DEF Open, unix_error
  <2>3. HasOpen({"src"}, FALSE)'
    BY <1>1, <1>9, <2>2 DEF BeforeOpen, HasOpen
  <2>4. todo' = <<Call("mmap"), Call("close"), Write(Body(f)), Call("munmap")>>
    BY <1>1, <1>9 DEF BeforeOpen
  <2>5. BeforeMmap(f)'
    BY <1>7, <1>9, <2>3, <2>4 DEF BeforeOpen, BeforeMmap, Body
  <2> QED
    BY <2>5 DEF Sending
<1>10. CASE BeforeMmap(f) /\ Next1 = Call("mmap")
  <2>1. Mmap
    BY <1>10, ACall DEF Open, CloseSrc, Munmap, Does
  <2>2. mapped' = TRUE /\ fds' = fds /\ Files[f].size > 0
    BY <1>4, <2>1 DEF Mmap, unix_error
  <2>3. HasOpen({"src"}, TRUE)'
    BY <1>1, <1>10, <2>2 DEF BeforeMmap, HasOpen
  <2>4. todo' = <<Call("close"), Write(Body(f)), Call("munmap")>>
    BY <1>1, <1>10 DEF BeforeMmap
  <2>5. BeforeClose(f)'
    BY <1>7, <1>10, <2>2, <2>3, <2>4 DEF BeforeMmap, BeforeClose, Body
  <2> QED
    BY <2>5 DEF Sending
<1>11. CASE BeforeClose(f) /\ Next1 = Call("close")
  <2> DEFINE b == Body(f)
             n == Files[f].size
  <2>1. CloseSrc
    BY <1>11, ACall DEF Open, Mmap, Munmap, Does
  <2>2. mapped' = mapped /\ fds' = fds \ {"src"}
    BY <2>1 DEF CloseSrc
  <2>3. HasOpen({}, TRUE)'
    BY <1>1, <1>11, <2>2 DEF BeforeClose, HasOpen
  <2>4. todo' = <<Write(b), Call("munmap")>>
    BY <1>1, <1>11 DEF BeforeClose
  <2>5. OK \in Seq(Text)
    BY WordsAreText DEF OK
  <2>6. OK = OK \o SubSeq(b, 1, 0) /\ b = SubSeq(b, 0 + 1, n)
    <3>1. SubSeq(b, 1, 0) = << >>
      BY SubSeqEmpty
    <3>2. SubSeq(b, 1, n) = b
      BY <1>8, SubSeqFull
    <3> HIDE DEF b, n
    <3> QED
      BY <2>5, <3>1, <3>2, ConcatEmptySeq
  <2>7. Told(OK)' /\ Files[f].size > 0
    BY <1>7, <1>11 DEF BeforeClose
  <2>8. todo' = <<Write(SubSeq(b, 0 + 1, n)), Call("munmap")>>
    BY <2>4, <2>6, Zenon
  <2>9. Told(OK \o SubSeq(b, 1, 0))'
    <3> HIDE DEF b
    <3> QED
      BY <2>6, <2>7 DEF Told
  <2>10. Writing(f, 0)'
    BY <2>3, <2>8, <2>9 DEF Writing, Body
  <2>11. 0 \in 0 .. Files[f].size - 1
    BY <1>8, <2>7
  <2> QED
    BY <2>10, <2>11 DEF Sending
<1>12. CASE BeforeMunmap(f) /\ Next1 = Call("munmap")
  <2>1. Munmap
    BY <1>12, ACall DEF Open, Mmap, CloseSrc, Does
  <2>2. mapped' = FALSE /\ fds' = fds
    BY <2>1 DEF Munmap
  <2>3. HasOpen({}, FALSE)'
    BY <1>1, <1>12, <2>2 DEF BeforeMunmap, HasOpen
  <2>4. todo' = << >>
    BY <1>1, <1>12 DEF BeforeMunmap
  <2>5. Sent(f)'
    BY <1>7, <1>12, <2>3, <2>4 DEF BeforeMunmap, Sent, Body
  <2> QED
    BY <2>5 DEF Sending
<1>13. ASSUME NEW d, Next1 = Write(d) PROVE FALSE
  BY <1>1, <1>13, ACall
<1> QED
  BY <1>1, <1>3, <1>9, <1>10, <1>11, <1>12, <1>13, SendingCalls

LEMMA CallRuns ==
  ASSUME Types, Served, Stage, Fork \/ Wait
  PROVE  Stage'
<1>1. /\ pc = "doit" /\ todo # << >> /\ todo' = Tail(todo) /\ UNCHANGED <<callvars, got>>
      /\ failed' = failed /\ UNCHANGED <<pc, fds, mapped>>
      /\ Next1.call \in {"fork", "wait"}
  BY DEF Fork, Wait, Does
<1>2. ServingDynamic
  BY <1>1, NextCall
<1>3. PICK f \in DOMAIN Files : MayRun(f)
  BY <1>2 DEF ServingDynamic
<1>4. MayRun(f)'
  BY <1>1, <1>3, CallKeeps DEF MayRun, Target, HasOpen
<1> SUFFICES Running'
  BY <1>1, <1>4, CallKeeps DEF Stage, Decided, ServingDynamic
<1>5. \A text : Told(text) => Told(text)'
  BY <1>1, CallKeeps
<1>6. CASE /\ todo = <<Call("fork"), Call("wait")>> /\ child = "none"
           /\ Told(<<"200", "server">>) /\ Next1 = Call("fork")
  <2>1. child' \in {"forked", "unflushed"}
    BY <1>6, ACall DEF Fork, Wait, Does
  <2>2. todo' = <<Call("wait")>> /\ Told(<<"200", "server">>)'
    BY <1>1, <1>5, <1>6
  <2> QED
    BY <2>1, <2>2 DEF Running
<1>7. CASE todo = <<Call("wait")>> /\ child \in {"forked", "unflushed", "cgi"} /\ Next1 = Call("wait")
  BY <1>7, ACall DEF Fork, Wait, Does
<1>8. CASE todo = <<Call("wait")>> /\ child = "zombie" /\ Ran /\ Next1 = Call("wait")
  <2>1. child' = "none" /\ todo' = << >>
    BY <1>1, <1>8, ACall DEF Fork, Wait, Does
  <2>2. PICK x \in CgiOutput : Told(<<"200", "server">> \o x)
    BY <1>8 DEF Ran
  <2>3. x \in CgiOutput' /\ Told(<<"200", "server">> \o x)'
    BY <1>1, <1>5, <2>2, CallKeeps DEF CgiOutput, Target
  <2>4. Ran'
    BY <2>3 DEF Ran
  <2> QED
    BY <2>1, <2>4 DEF Running
<1>9. ASSUME NEW d, Next1 = Write(d) PROVE FALSE
  BY <1>1, <1>9, ACall
<1> QED
  BY <1>1, <1>2, <1>6, <1>7, <1>8, <1>9, RunningCalls DEF ServingDynamic

(* The child of serve_dynamic writes what it has to say, and is gone.      *)
LEMMA ChildStage ==
  ASSUME Types, Served, Stage, UriIsUri, Child
  PROVE  Stage'
<1>1. /\ child \in {"forked", "unflushed", "cgi"}
      /\ UNCHANGED <<want, sent, gone, cur, method, uri, disk, todo, pc, fds, mapped>>
  BY DEF Child, Execve, ExecveFails, Cgi, childvars, clientvars, doitvars
<1>2. cur \in Clients /\ sent[cur] # << >> /\ ServingDynamic
  BY <1>1 DEF Served, Stage, Decided, Refusing, ServingStatic, MaySend
<1>3. PICK f \in DOMAIN Files : MayRun(f)
  BY <1>2 DEF ServingDynamic
<1>4. MayRun(f)'
  BY <1>1, <1>3 DEF MayRun, Target, HasOpen
<1>5. todo = <<Call("wait")>> /\ Told(<<"200", "server">>)
  BY <1>1, <1>2 DEF ServingDynamic, Running
<1>6. sent'[cur'] # << >> /\ (pc' = "close" => todo' = << >>)
  BY <1>1, <1>2 DEF Stage, Decided
<1> SUFFICES Running'
  BY <1>4, <1>6 DEF Stage, ServingDynamic
<1>7. ASSUME NEW x \in Seq(Text), Sends(x), x \in CgiOutput', child' = "zombie"
      PROVE  Running'
  <2>1. <<"200", "server">> \in Seq(Text)
    BY WordsAreText
  <2>2. got' = [got EXCEPT ![cur] = IF cur \in gone THEN @ ELSE @ \o x]
    BY <1>7 DEF Sends
  <2> DEFINE text == <<"200", "server">>
  <2>3. text \in Seq(Text) /\ Told(text)
    BY <1>5, <2>1
  <2> HIDE DEF text
  <2>4. UNCHANGED <<cur, gone>>
    BY <1>1
  <2>5. Told(text \o x)'
    BY <1>2, <2>2, <2>3, <2>4, ToldMore
  <2>6. Ran'
    BY <1>7, <2>5 DEF Ran, text
  <2> QED
    BY <1>1, <1>5, <1>7, <2>6 DEF Running
<1>8. << >> \in Seq(Text) /\ <<"log">> \in Seq(Text) /\ <<"sum">> \in Seq(Text)
  BY WordsAreText
<1>9. CASE Execve
  <2>1. child' = "cgi" /\ got' = got
    BY <1>9 DEF Execve
  <2>2. Told(<<"200", "server">>)'
    BY <1>1, <1>5, <2>1, ToldStays
  <2> QED
    BY <1>1, <1>5, <2>1, <2>2 DEF Running
<1>10. CASE ExecveFails
  <2>1. /\ child' = "zombie" /\ failed' = (failed \/ Filename \in disk)
        /\ Sends(<< >>) \/ Sends(<<"log">>)
    BY <1>10 DEF ExecveFails
  <2>2. Filename = Target(uri)
    BY TargetIsFilename
  <2>3. Target(uri) \notin disk \/ failed'
    BY <2>1, <2>2
  <2>4. << >> \in CgiOutput' /\ <<"log">> \in CgiOutput'
    BY <1>1, <2>3 DEF CgiOutput, Target
  <2> QED
    BY <1>7, <1>8, <2>1, <2>4
<1>11. CASE Cgi
  <2>1. child' = "zombie" /\ Sends(IF uri.args THEN <<"sum">> ELSE << >>)
    BY <1>11 DEF Cgi
  <2>2. CASE uri.args
    <3>1. <<"sum">> \in CgiOutput'
      BY <1>1, <2>2 DEF CgiOutput
    <3> QED
      BY <1>7, <1>8, <2>1, <2>2, <3>1
  <2>3. CASE ~ uri.args
    <3>1. << >> \in CgiOutput'
      BY <1>1, <2>3 DEF CgiOutput
    <3> QED
      BY <1>7, <1>8, <2>1, <2>3, <3>1
  <2> QED
    BY <2>2, <2>3
<1> QED
  BY <1>9, <1>10, <1>11 DEF Child

(* A line is complete: what doit does with it                              *)
LEMMA LineDecides ==
  ASSUME Types, Served, Descriptors, pc \in {"request", "headers"},
         NEW l, GotLine(l), UNCHANGED othervars, sent[cur] # << >>, UriIsUri,
         pc = "headers" => method = "GET"
  PROVE  Stage'
<1>1. child' = "none"
  BY DEF Descriptors, othervars, kernelvars
<1>2. CASE pc' = "headers"
  BY <1>1, <1>2 DEF Stage, Decided
<1>3. CASE pc' = "doit"
  <2>1. \/ method' # "GET" /\ todo' = clienterror("501")
        \/ method = "GET" /\ UNCHANGED <<method, uri>> /\ todo' = Answer(uri)
    BY <1>3 DEF GotLine, GotRequest, GotHeader
  <2> QED
    BY <1>3, <2>1, DecisionIsRight
<1> QED
  BY <1>2, <1>3 DEF GotLine, GotRequest, GotHeader

LEMMA ReadByteStage ==
  ASSUME Types, Served, Descriptors, Reader, Reader', Lines, UriIsUri, ReadByte
  PROVE  Stage'
<1>1. PICK l, k, n : /\ l = Append(line, Last(handed')) /\ k = Len(line) /\ n = Len(handed)
                     /\ Grown(l, k, n)
  <2> DEFINE l == Append(line, Last(handed'))
             k == Len(line)
             n == Len(handed)
  <2>1. Grown(l, k, n)
    BY LineGrows
  <2> QED
    BY <2>1
<1>2. /\ k \in Nat /\ n \in Nat
      /\ \A i \in 1 .. k + 1 : l[i] = handed'[n - k + i]
      /\ \A i \in 1 .. n + 1 : handed'[i] = want[cur][i]
      /\ n + 1 <= Len(sent[cur])
  BY <1>1 DEF Grown
<1>3. pc \in {"request", "headers"} /\ UNCHANGED othervars
  BY DEF ReadByte, Reading
<1>4. child' = "none"
  BY <1>3 DEF Descriptors, othervars, kernelvars
<1>5. GotLine(l) \/ pc' = pc
  BY <1>1 DEF ReadByte
<1>6. CASE pc' = pc
  BY <1>3, <1>4, <1>6 DEF Stage, Decided
<1>7. CASE GotLine(l)
  <2>1. sent[cur] # << >>
    BY <1>2
  <2>2. pc = "headers" => method = "GET"
    BY DEF Lines
  <2> QED
    BY <1>3, <1>7, <2>1, <2>2, LineDecides
<1> QED
  BY <1>5, <1>6, <1>7

LEMMA EofStage ==
  ASSUME Types, Served, Descriptors, Reader, Lines, UriIsUri, Eof
  PROVE  Stage'
<1>1. /\ pc \in {"request", "headers"} /\ cur \in Clients
      /\ UNCHANGED othervars
  BY DEF Eof, AtEof, Reading, Served
<1>2. child' = "none" /\ UNCHANGED <<want, sent, cur>>
  BY <1>1 DEF Descriptors, othervars, kernelvars, clientvars
<1>3. handed = sent[cur]
  <2>1. /\ handed \in Seq(Byte) /\ sent[cur] \in Seq(Byte)
        /\ Len(handed) = taken /\ taken = Len(sent[cur])
        /\ \A j \in 1 .. Len(handed) : handed[j] = sent[cur][j]
    BY <1>1, ReadIsSent DEF Eof, AtEof
  <2> QED
    BY <2>1, SeqEqual
<1>4. /\ line \in Seq(Byte) /\ handed \in Seq(Byte)
      /\ Len(line) \in Nat /\ Len(handed) \in Nat /\ Len(line) <= Len(handed)
      /\ \A j \in 1 .. Len(handed) : handed[j] = want[cur][j]
  BY <1>1, <1>3, ReadIsSent DEF Types, Lines
<1>5. CASE line # << >> /\ GotLine(line)
  <2>1. Len(line) > 0 /\ sent[cur] # << >>
    BY <1>3, <1>4, <1>5, EmptySeq
  <2>2. pc = "headers" => method = "GET"
    BY DEF Lines
  <2> QED
    BY <1>1, <1>5, <2>1, <2>2, LineDecides
<1>6. CASE line = << >> /\ pc = "request" /\ pc' = "close"
  <2>1. Len(line) = 0 /\ Len(handed) - Len(line) = 0
    BY <1>6 DEF Lines
  <2>2. sent[cur] = << >>
    BY <1>3, <1>4, <2>1, EmptySeq
  <2> QED
    BY <1>2, <1>6, <2>2 DEF Stage, Decided
<1>7. CASE pc' = "spins"
  BY <1>2, <1>7 DEF Stage, Decided
<1>8. CASE /\ line = << >> /\ pc = "headers" /\ pc' = "doit" /\ todo' = Answer(uri)
           /\ UNCHANGED <<method, uri>>
  <2>1. Len(line) = 0 /\ Len(handed) - Len(line) > 0
    BY <1>8 DEF Lines
  <2>2. sent[cur] # << >>
    BY <1>3, <1>4, <2>1
  <2>3. method = "GET"
    BY <1>8 DEF Lines
  <2> QED
    BY <1>1, <1>8, <2>2, <2>3, DecisionIsRight
<1> QED
  BY <1>5, <1>6, <1>7, <1>8 DEF Eof

LEMMA NextStage ==
  ASSUME Types, Types', Served, Descriptors, Reader, Reader', Lines, Stage,
         UriIsUri, [Next]_vars
  PROVE  Stage'
<1>1. Decided => cur \in Clients /\ sent[cur] # << >>
  BY DEF Decided, Served, Stage
<1>2. pc \notin {"doit", "down"} => child = "none"
  BY DEF Descriptors
<1>3. pc = "close" => child = "none" /\ cur \in Clients /\ (Decided => todo = << >>)
                      /\ (~ Decided => cur \in fin)
  BY <1>2 DEF Served, Stage, Decided
<1>4. CASE ~ Decided'
  BY <1>4 DEF Stage
<1>5. ASSUME NEW c \in Clients, Connect(c) PROVE Stage'
  <2>1. (Decided' => Decided) /\ pc' = pc
    BY <1>3, <1>5 DEF Connect, Decided, doitvars, kernelvars, clientvars
  <2>2. Decided => cur # c
    BY <1>5, TinyAssumption DEF Connect, Decided, Served
  <2>3. Decided => Idle
    BY <1>1, <1>5, <2>2 DEF Connect, Idle, Onward, clientvars, doitvars, kernelvars, Types
  <2> QED
    BY <1>3, <2>1, <2>3, StageStays
<1>6. ASSUME NEW c \in Clients, Send(c) PROVE Stage'
  <2>1. /\ UNCHANGED <<want, gone, got, pc, cur, failed, method, uri, todo, disk,
                      fds, mapped, child>>
        /\ c \notin fin /\ \A d \in Clients : d # c => sent'[d] = sent[d]
    BY <1>6 DEF Send, doitvars, kernelvars, Types
  <2>2. Append(sent[c], want[c][Len(sent[c]) + 1]) # << >>
    <3>1. sent[c] \in Seq(Byte) /\ want[c][Len(sent[c]) + 1] \in Byte
      BY <1>6 DEF Send, Types
    <3> QED
      BY <3>1, AppendProperties
  <2>3. sent'[c] # << >>
    BY <1>6, <2>2 DEF Send, Types
  <2>4. Decided' => Decided
    BY <1>3, <2>1 DEF Decided
  <2>5. Decided => sent'[cur] # << >>
    BY <1>1, <2>1, <2>3
  <2>6. Decided => Idle
    BY <1>1, <2>1, <2>5 DEF Idle, Onward
  <2> QED
    BY <1>3, <2>1, <2>4, <2>6, StageStays
<1>7. CASE \/ \E c \in Clients : Leave(c)
           \/ \E f \in Removable : Unlink(f)
           \/ Receive \/ UNCHANGED vars
  <2>1. /\ UNCHANGED <<want, sent, got, pc, cur, failed, method, uri, todo, fds,
                      mapped, child>>
        /\ gone \subseteq gone' /\ disk' \subseteq disk
    BY <1>7 DEF Leave, Unlink, Receive, vars, clientvars, doitvars, kernelvars
  <2>2. (Decided' => Decided) /\ (Decided => Idle)
    BY <1>1, <2>1 DEF Decided, Idle, Onward
  <2> QED
    BY <1>3, <2>1, <2>2, StageStays
<1>8. CASE CallFails
  <2>1. /\ UNCHANGED <<want, sent, gone, got, cur, method, uri, todo, disk, child>>
        /\ failed' /\ pc' = "down"
    BY <1>8 DEF CallFails, unix_error, clientvars, doitvars
  <2>2. Decided' => Decided /\ Idle
    BY <1>1, <2>1 DEF Decided, Idle, Onward
  <2> QED
    BY <2>1, <2>2, StageStays
<1>9. CASE NoAddress \/ Socket \/ Bind \/ Listen \/ Accept \/ Read \/ Close
  <2>1. child' = "none" /\ pc' \notin {"doit", "close"}
    <3>1. CASE NoAddress \/ Socket \/ Bind \/ Listen
      BY <1>2, <3>1 DEF NoAddress, Socket, Bind, Listen, startvars
    <3>2. CASE Accept \/ Close
      BY <1>2, <3>2 DEF Accept, Close
    <3>3. CASE Read
      BY <1>2, <3>3 DEF Read, Reading, othervars, kernelvars
    <3> QED
      BY <1>9, <3>1, <3>2, <3>3
  <2> QED
    BY <2>1 DEF Stage, Decided
<1>10. CASE ReadByte
  BY <1>10, ReadByteStage
<1>11. CASE Eof
  BY <1>11, EofStage
<1>12. CASE ReadFails \/ WriteFails
  <2>1. child' = "none" /\ pc' = "down"
    BY <1>2, <1>12, WrittenIsText DEF ReadFails, WriteFails, Reading, unix_error
  <2> QED
    BY <2>1 DEF Stage, Decided
<1>13. ASSUME NEW k \in 1 .. 2, WriteSome(k) PROVE Stage'
  BY <1>13, WriteStage
<1>14. CASE Open \/ Mmap \/ CloseSrc \/ Munmap
  BY <1>14, CallSends
<1>15. CASE Fork \/ Wait
  BY <1>15, CallRuns
<1>16. CASE Return
  <2>1. /\ UNCHANGED <<want, sent, gone, got, cur, method, uri, todo, disk, child,
                      failed, fds, mapped>>
        /\ pc' = "close" /\ pc = "doit" /\ todo = << >>
    BY <1>16 DEF Return, callvars, clientvars
  <2>2. Decided /\ Idle
    BY <1>1, <2>1 DEF Decided, Idle, Onward
  <2> QED
    BY <2>1, <2>2, StageStays
<1>17. CASE Child
  BY <1>17, ChildStage
<1> QED
  BY <1>5, <1>6, <1>7, <1>8, <1>9, <1>10, <1>11, <1>12, <1>13, <1>14, <1>15,
     <1>16, <1>17 DEF Next, Server, Environment, Spin

-------------------------------------------------------------------------------
(* What reaches a client                                                   *)

(* Files only go and calls only fail: an answer stays one.                 *)
LEMMA AnswersGrow ==
  ASSUME NEW r, NEW a, a \in Answers(r), disk' \subseteq disk, failed => failed'
  PROVE  a \in Answers(r)'
<1> DEFINE f == Target(r.uri)
           may == IF r.uri.cgi THEN Files[f].xusr ELSE Files[f].rusr
           first == IF r.uri.args THEN {<<"sum">>} ELSE {<< >>}
           log == {<< >>, <<"log">>}
<1>1. Target(r.uri)' = f
  BY DEF Target
<1>2. CASE r.method # "GET"
  BY <1>2 DEF Answers
<1>3. CASE r.method = "GET" /\ f \notin disk /\ a = ErrorPage("404")
  BY <1>1, <1>3 DEF Answers
<1>4. CASE r.method = "GET" /\ f \in DOMAIN Files /\ (~ Files[f].reg \/ ~ may)
           /\ a = ErrorPage("403")
  BY <1>1, <1>4 DEF Answers
<1>5. CASE r.method = "GET" /\ f \in DOMAIN Files /\ Files[f].reg /\ may
           /\ ~ r.uri.cgi /\ a = <<"200static">> \o Body(f)
  BY <1>1, <1>5 DEF Answers, Body
<1>6. CASE /\ r.method = "GET" /\ f \in DOMAIN Files /\ Files[f].reg /\ may /\ r.uri.cgi
           /\ \E x \in first \cup (IF f \in disk /\ ~ failed THEN {} ELSE log) :
                a = <<"200", "server">> \o x
  <2>1. PICK x \in first \cup (IF f \in disk /\ ~ failed THEN {} ELSE log) :
          a = <<"200", "server">> \o x
    BY <1>6
  <2>2. x \in first \cup (IF f \in disk' /\ ~ failed' THEN {} ELSE log)
    BY <2>1
  <2> HIDE DEF first, log
  <2>3. a \in {<<"200", "server">> \o y : y \in
                 first \cup (IF f \in disk' /\ ~ failed' THEN {} ELSE log)}
    BY <2>1, <2>2
  <2> QED
    BY <1>1, <1>6, <2>3 DEF Answers, first, log
<1>7. \/ r.method # "GET"
      \/ r.method = "GET" /\ f \notin disk /\ a = ErrorPage("404")
      \/ r.method = "GET" /\ f \in DOMAIN Files /\ (~ Files[f].reg \/ ~ may)
           /\ a = ErrorPage("403")
      \/ r.method = "GET" /\ f \in DOMAIN Files /\ Files[f].reg /\ may
           /\ ~ r.uri.cgi /\ a = <<"200static">> \o Body(f)
      \/ /\ r.method = "GET" /\ f \in DOMAIN Files /\ Files[f].reg /\ may /\ r.uri.cgi
         /\ \E x \in first \cup (IF f \in disk /\ ~ failed THEN {} ELSE log) :
              a = <<"200", "server">> \o x
  <2> HIDE DEF first, log
  <2>1. a \in IF r.method # "GET" THEN {ErrorPage("501")}
              ELSE (IF f \in disk THEN {} ELSE {ErrorPage("404")})
                   \cup (IF f \notin DOMAIN Files THEN {}
                         ELSE IF ~ Files[f].reg \/ ~ may THEN {ErrorPage("403")}
                         ELSE IF r.uri.cgi
                           THEN {<<"200", "server">> \o x : x \in
                                   first \cup (IF f \in disk /\ ~ failed THEN {} ELSE log)}
                         ELSE {<<"200static">> \o Body(f)})
    BY DEF Answers, first, log
  <2> HIDE DEF f, may
  <2> QED
    BY <2>1
<1> QED
  BY <1>2, <1>3, <1>4, <1>5, <1>6, <1>7

LEMMA ToldIsPrefix ==
  ASSUME Types, cur \in Clients, NEW text \in Seq(Text), Told(text)
  PROVE  /\ IsPrefix(got[cur], text) /\ (cur \notin gone => got[cur] = text)
         /\ got[cur] \in Seq(Text)
BY PrefixOfSame DEF Types, Told

(* The rest of an answer, from any place in it                             *)
LEMMA NoIsAnAnswer ==
  ASSUME Types, cur \in Clients, NEW n \in {"404", "403", "501"}, SayingNo(n)
  PROVE  /\ IsPrefix(got[cur], ErrorPage(n))
         /\ todo = << >> /\ cur \notin gone => got[cur] = ErrorPage(n)
<1>1. /\ n \in Text /\ "type" \in Text /\ "length" \in Text /\ "page" \in Text
      /\ << >> \in Seq(Text) /\ <<n>> \in Seq(Text) /\ <<n, "type">> \in Seq(Text)
      /\ <<n, "type", "length">> \in Seq(Text) /\ ErrorPage(n) \in Seq(Text)
      /\ <<"type">> \in Seq(Text) /\ <<"length">> \in Seq(Text)
      /\ <<"page">> \in Seq(Text)
  BY WordsAreText DEF ErrorPage
<1>2. /\ << >> \o <<n>> = <<n>> /\ <<n>> \o <<"type">> = <<n, "type">>
      /\ <<n, "type">> \o <<"length">> = <<n, "type", "length">>
      /\ <<n, "type", "length">> \o <<"page">> = ErrorPage(n)
  BY <1>1, TextJoins DEF ErrorPage
<1>3. got[cur] \in Seq(Text)
  BY DEF Types
<1>4. \A t, u \in Seq(Text) : IsPrefix(got[cur], t) => IsPrefix(got[cur], t \o u)
  BY <1>3, PrefixOfMore
<1>5. IsPrefix(got[cur], << >>) => IsPrefix(got[cur], <<n>>)
  BY <1>1, <1>2, <1>4
<1>6. IsPrefix(got[cur], <<n>>) => IsPrefix(got[cur], <<n, "type">>)
  BY <1>1, <1>2, <1>4
<1>7. IsPrefix(got[cur], <<n, "type">>) => IsPrefix(got[cur], <<n, "type", "length">>)
  BY <1>1, <1>2, <1>4
<1>8. IsPrefix(got[cur], <<n, "type", "length">>) => IsPrefix(got[cur], ErrorPage(n))
  BY <1>1, <1>2, <1>4
<1>9. \A t \in Seq(Text) : Told(t) => IsPrefix(got[cur], t) /\ (cur \notin gone => got[cur] = t)
  BY ToldIsPrefix
<1>10. CASE todo = << >> /\ Told(ErrorPage(n))
  BY <1>1, <1>9, <1>10
<1>11. CASE todo # << >>
  <2>1. \/ Told(<< >>) \/ Told(<<n>>) \/ Told(<<n, "type">>) \/ Told(<<n, "type", "length">>)
    BY <1>11 DEF SayingNo
  <2> QED
    BY <1>1, <1>5, <1>6, <1>7, <1>8, <1>9, <1>11, <2>1
<1>12. todo = << >> => Told(ErrorPage(n))
  BY DEF SayingNo, clienterror
<1> QED
  BY <1>10, <1>11, <1>12

LEMMA SendingIsAnAnswer ==
  ASSUME Types, cur \in Clients, NEW f \in DOMAIN Files, Sending(f)
  PROVE  /\ IsPrefix(got[cur], OK \o Body(f))
         /\ todo = << >> /\ cur \notin gone => got[cur] = OK \o Body(f)
<1> DEFINE b == Body(f)
           n == Files[f].size
           g == got[cur]
<1>1. /\ b \in Seq(Text) /\ n = Len(b) /\ n \in Nat /\ OK \in Seq(Text)
      /\ << >> \in Seq(Text) /\ g \in Seq(Text)
  BY TextIsText, TinyAssumption, WordsAreText DEF OK, Types
<1>2. OK \o b \in Seq(Text)
  BY <1>1, ConcatProperties
<1>3. \A t \in Seq(Text) : Told(t) => IsPrefix(g, t) /\ (cur \notin gone => g = t)
  BY ToldIsPrefix
<1>4. \A t, u \in Seq(Text) : IsPrefix(g, t) => IsPrefix(g, t \o u)
  BY <1>1, PrefixOfMore
<1>5. CASE BeforeHeader(f)
  <2>1. Told(<< >>) /\ todo # << >>
    BY <1>5 DEF BeforeHeader, serve_static
  <2>2. IsPrefix(g, << >>) /\ << >> \o (OK \o b) = OK \o b
    BY <1>1, <1>2, <1>3, <2>1, ConcatEmptySeq
  <2> HIDE DEF b, g
  <2>3. IsPrefix(g, OK \o b)
    BY <1>1, <1>2, <1>4, <2>2
  <2> QED
    BY <2>1, <2>3 DEF b, g
<1>6. CASE BeforeOpen(f) \/ BeforeMmap(f) \/ BeforeClose(f)
  <2>1. Told(OK) /\ todo # << >>
    <3>1. BeforeOpen(f) => Told(OK) /\ todo # << >>
      BY DEF BeforeOpen
    <3>2. BeforeMmap(f) => Told(OK) /\ todo # << >>
      BY DEF BeforeMmap
    <3>3. BeforeClose(f) => Told(OK) /\ todo # << >>
      BY DEF BeforeClose
    <3> QED
      BY <1>6, <3>1, <3>2, <3>3
  <2> HIDE DEF b, g
  <2>2. IsPrefix(g, OK \o b)
    BY <1>1, <1>3, <1>4, <2>1
  <2> QED
    BY <2>1, <2>2 DEF b, g
<1>7. ASSUME NEW j \in 0 .. n - 1, Writing(f, j)
      PROVE  todo # << >> /\ IsPrefix(g, OK \o b)
  <2> DEFINE t == SubSeq(b, 1, j)
             u == SubSeq(b, j + 1, n)
  <2>1. Told(OK \o t) /\ todo # << >>
    BY <1>7 DEF Writing
  <2> HIDE DEF b, n
  <2>2. n - j \in 1 .. n - j /\ j + (n - j) = n
    BY <1>1, <1>7
  <2>3. t \in Seq(Text) /\ u \in Seq(Text) /\ (OK \o t) \o u = OK \o SubSeq(b, 1, n)
    <3>1. Fits(Text, b, OK, n, j, n - j)
      BY <1>1, <1>7, <2>2, PartIsWritten
    <3> QED
      BY <2>2, <3>1 DEF Fits
  <2>4. SubSeq(b, 1, n) = b
    BY <1>1, SubSeqFull
  <2> HIDE DEF t, u, g
  <2>5. OK \o t \in Seq(Text)
    BY <1>1, <2>3, ConcatProperties
  <2>6. IsPrefix(g, OK \o t)
    BY <1>3, <2>1, <2>5
  <2>7. IsPrefix(g, (OK \o t) \o u)
    BY <1>4, <2>3, <2>5, <2>6
  <2> QED
    BY <2>1, <2>3, <2>4, <2>7
<1>8. CASE BeforeMunmap(f)
  <2>1. Told(OK \o b) /\ todo # << >>
    BY <1>8 DEF BeforeMunmap
  <2> QED
    BY <1>2, <1>3, <2>1
<1>9. CASE Sent(f)
  <2>1. Told(OK \o b)
    BY <1>9 DEF Sent
  <2> QED
    BY <1>2, <1>3, <2>1
<1> QED
  BY <1>5, <1>6, <1>7, <1>8, <1>9 DEF Sending

LEMMA RunningIsAnAnswer ==
  ASSUME Types, cur \in Clients, Running
  PROVE  \E x \in CgiOutput :
           /\ IsPrefix(got[cur], <<"200", "server">> \o x)
           /\ todo = << >> /\ cur \notin gone => got[cur] = <<"200", "server">> \o x
<1> DEFINE t == <<"200", "server">>
           g == got[cur]
           y == IF uri.args THEN <<"sum">> ELSE << >>
<1>1. /\ "200" \in Text /\ "server" \in Text /\ << >> \in Seq(Text)
      /\ <<"200">> \in Seq(Text) /\ <<"server">> \in Seq(Text) /\ t \in Seq(Text)
      /\ <<"sum">> \in Seq(Text) /\ <<"log">> \in Seq(Text) /\ g \in Seq(Text)
  BY WordsAreText DEF Types
<1>2. \A x \in CgiOutput : x \in Seq(Text)
  BY <1>1 DEF CgiOutput
<1>3. \A s \in Seq(Text) : Told(s) => IsPrefix(g, s) /\ (cur \notin gone => g = s)
  BY ToldIsPrefix
<1>4. \A s, u \in Seq(Text) : IsPrefix(g, s) => IsPrefix(g, s \o u)
  BY <1>1, PrefixOfMore
<1>5. /\ << >> \o <<"200">> = <<"200">> /\ <<"200">> \o <<"server">> = t
  BY <1>1, TextJoins
<1>6. y \in CgiOutput
  BY DEF CgiOutput
<1> HIDE DEF t, g, y
<1>7. ASSUME todo # << >>, Told(<< >>) \/ Told(<<"200">>) \/ Told(t)
      PROVE  todo # << >> /\ IsPrefix(g, t \o y)
  <2>1. IsPrefix(g, << >>) => IsPrefix(g, <<"200">>)
    BY <1>1, <1>4, <1>5
  <2>2. IsPrefix(g, <<"200">>) => IsPrefix(g, t)
    BY <1>1, <1>4, <1>5
  <2>3. IsPrefix(g, t)
    BY <1>1, <1>3, <1>7, <2>1, <2>2
  <2>4. y \in Seq(Text)
    BY <1>2, <1>6
  <2>5. IsPrefix(g, t \o y)
    BY <1>1, <1>4, <2>3, <2>4
  <2> QED
    BY <1>7, <2>5
<1>8. CASE Ran
  <2>1. PICK x \in CgiOutput : Told(t \o x)
    BY <1>8 DEF Ran, t
  <2>2. t \o x \in Seq(Text)
    BY <1>1, <1>2, ConcatProperties
  <2>3. IsPrefix(g, t \o x) /\ (cur \notin gone => g = t \o x)
    BY <1>3, <2>1, <2>2
  <2> QED
    BY <2>3 DEF t, g
<1>9. ~ Ran => todo # << >> /\ (Told(<< >>) \/ Told(<<"200">>) \/ Told(t))
  <2>1. ASSUME todo = serve_dynamic PROVE todo # << >>
    BY <2>1 DEF serve_dynamic
  <2>2. ASSUME todo = <<Write(<<"server">>), Call("fork"), Call("wait")>> PROVE todo # << >>
    BY <2>2
  <2>3. ASSUME todo = <<Call("fork"), Call("wait")>> PROVE todo # << >>
    BY <2>3
  <2>4. ASSUME todo = <<Call("wait")>> PROVE todo # << >>
    BY <2>4
  <2> QED
    BY <2>1, <2>2, <2>3, <2>4 DEF Running, t
<1> QED
  BY <1>6, <1>7, <1>8, <1>9 DEF t, g

Meaning == [method |-> method, uri |-> uri]

(* From decision to close, what was received begins an answer; all of it   *)
(* has been written when doit has nothing left to do.                      *)
LEMMA StageIsAnswer ==
  ASSUME Types, Stage, Decided, cur \in Clients
  PROVE  \E a \in Answers(Meaning) :
           /\ IsPrefix(got[cur], a)
           /\ todo = << >> /\ cur \notin gone => got[cur] = a
<1>1. PICK r, f : r = Meaning /\ f = Target(r.uri)
  OBVIOUS
<1>2. uri = r.uri /\ method = r.method /\ Target(uri) = f /\ (Refusing \/ ServingStatic \/ ServingDynamic)
  BY <1>1 DEF Stage, Meaning
<1>3. CASE Refusing
  <2>1. PICK n \in {"404", "403", "501"} : Refused(n) /\ SayingNo(n)
    BY <1>3 DEF Refusing
  <2>2. ErrorPage(n) \in Answers(r)
    <3>1. CASE n = "501" /\ r.method # "GET"
      BY <3>1 DEF Answers
    <3>2. CASE n = "404" /\ r.method = "GET" /\ f \notin disk
      BY <1>1, <3>2 DEF Answers
    <3>3. CASE /\ n = "403" /\ r.method = "GET" /\ f \in DOMAIN Files
               /\ ~ Files[f].reg \/ ~ IF r.uri.cgi THEN Files[f].xusr ELSE Files[f].rusr
      BY <1>1, <3>3 DEF Answers
    <3> QED
      BY <1>1, <1>2, <2>1, <3>1, <3>2, <3>3 DEF Refused
  <2> QED
    BY <1>1, <2>1, <2>2, NoIsAnAnswer
<1>4. CASE ServingStatic
  <2>1. PICK g \in DOMAIN Files : MaySend(g) /\ Sending(g)
    BY <1>4 DEF ServingStatic
  <2>2. /\ g = f /\ ~ r.uri.cgi /\ r.method = "GET" /\ f \in DOMAIN Files
        /\ Files[f].reg /\ Files[f].rusr
    BY <1>1, <1>2, <2>1 DEF MaySend
  <2>3. OK \o Body(f) \in Answers(r)
    BY <1>1, <2>2 DEF Answers, OK
  <2> QED
    BY <1>1, <2>1, <2>2, <2>3, SendingIsAnAnswer
<1>5. CASE ServingDynamic
  <2>1. PICK g \in DOMAIN Files : MayRun(g)
    BY <1>5 DEF ServingDynamic
  <2>2. /\ g = f /\ r.uri.cgi /\ r.method = "GET" /\ f \in DOMAIN Files
        /\ Files[f].reg /\ Files[f].xusr
    BY <1>1, <1>2, <2>1 DEF MayRun
  <2>3. PICK x \in CgiOutput :
           /\ IsPrefix(got[cur], <<"200", "server">> \o x)
           /\ todo = << >> /\ cur \notin gone => got[cur] = <<"200", "server">> \o x
    BY <1>5, RunningIsAnAnswer DEF ServingDynamic
  <2>4. x \in (IF r.uri.args THEN {<<"sum">>} ELSE {<< >>})
               \cup (IF f \in disk /\ ~ failed THEN {} ELSE {<< >>, <<"log">>})
    BY <1>2, <2>3 DEF CgiOutput
  <2>5. <<"200", "server">> \o x \in Answers(r)
    BY <1>1, <2>2, <2>4 DEF Answers
  <2> QED
    BY <1>1, <2>3, <2>5
<1> QED
  BY <1>2, <1>3, <1>4, <1>5

HasAnswer ==
  \E a \in Answers(Meaning) :
    /\ IsPrefix(got[cur], a)
    /\ todo = << >> /\ cur \notin gone => got[cur] = a

Deciding == Types /\ Stage /\ Decided /\ cur \in Clients

LEMMA DecidingHasAnswer == Deciding => HasAnswer
BY StageIsAnswer DEF HasAnswer, Deciding

LEMMA StageIsAnswerNext == Deciding' => HasAnswer'
BY DecidingHasAnswer, PTL

(* No step takes back a request, a file that is gone, a failure, ...       *)
Moves ==
  /\ disk' \subseteq disk /\ (failed => failed')
  /\ gone \subseteq gone' /\ fin \subseteq fin' /\ done \subseteq done'
  /\ \A c \in Clients : want[c] # << >> => want'[c] = want[c]
  /\ \A c \in Clients : c \in fin => sent'[c] = sent[c]

LEMMA NextMoves ==
  ASSUME Types, [Next]_vars
  PROVE  Moves
<1>1. ASSUME NEW c \in Clients, Connect(c) \/ Send(c) \/ Leave(c) PROVE Moves
  <2>1. CASE Connect(c)
    BY <2>1 DEF Connect, Moves, clientvars, kernelvars, Types
  <2>2. CASE Send(c)
    BY <2>2 DEF Send, Moves, kernelvars, Types
  <2>3. CASE Leave(c)
    BY <2>3 DEF Leave, Moves, kernelvars, Types
  <2> QED
    BY <1>1, <2>1, <2>2, <2>3
<1>2. CASE (\E f \in Removable : Unlink(f)) \/ Receive \/ UNCHANGED vars
  BY <1>2 DEF Unlink, Receive, Moves, vars, clientvars, kernelvars
<1>3. CASE CallFails \/ NoAddress \/ Socket \/ Bind \/ Listen
  BY <1>3 DEF CallFails, NoAddress, Socket, Bind, Listen, startvars, Moves, clientvars
<1>4. CASE Accept \/ Read \/ ReadByte \/ Eof \/ ReadFails
  BY <1>4 DEF Accept, Read, ReadByte, Eof, ReadFails, othervars, Moves, clientvars,
     kernelvars
<1>5. CASE (\E k \in 1 .. 2 : WriteSome(k)) \/ WriteFails \/ Open \/ Mmap
           \/ CloseSrc \/ Munmap \/ Fork \/ Wait \/ Return
  BY <1>5 DEF WriteSome, WriteFails, Open, Mmap, CloseSrc, Munmap, Fork, Wait,
     Return, Does, callvars, clientvars, Moves
<1>6. CASE Close
  BY <1>6 DEF Close, Moves, clientvars
<1>7. CASE Child
  <2>1. failed => failed'
    <3>1. CASE ExecveFails
      <4>1. failed \in BOOLEAN /\ failed' = (failed \/ Filename \in disk)
        BY <3>1 DEF ExecveFails, Types, TypeOK
      <4> QED
        BY <4>1
    <3>2. CASE Execve \/ Cgi
      BY <3>2 DEF Execve, Cgi
    <3> QED
      BY <1>7, <3>1, <3>2 DEF Child
  <2>2. UNCHANGED <<want, sent, fin, gone, done, disk>>
    BY <1>7 DEF Child, Execve, ExecveFails, Cgi, childvars, clientvars
  <2> QED
    BY <2>1, <2>2 DEF Moves
<1> QED
  BY <1>1, <1>2, <1>3, <1>4, <1>5, <1>6, <1>7 DEF Next, Server, Environment, Spin

(* Only doit and its child write, to the client that is served.            *)
LEMMA WhoWrites ==
  ASSUME Types, Served, Stage, [Next]_vars, got' # got
  PROVE  /\ cur' = cur /\ done' = done /\ Decided'
         /\ \A c \in Clients : c # cur => got'[c] = got[c]
<1>1. CASE \E k \in 1 .. 2 : WriteSome(k)
  BY <1>1 DEF WriteSome, callvars, Decided, Types
<1>2. CASE Child
  <2>1. UNCHANGED <<cur, done>> /\ child' \in {"cgi", "zombie"}
    BY <1>2 DEF Child, Execve, ExecveFails, Cgi, childvars
  <2>2. \A c \in Clients : c # cur => got'[c] = got[c]
    <3>1. CASE Execve
      BY <3>1 DEF Execve
    <3>2. CASE \E x : Sends(x)
      BY <3>2 DEF Sends, Types
    <3> QED
      BY <1>2, <3>1, <3>2 DEF Child, ExecveFails, Cgi
  <2> QED
    BY <2>1, <2>2 DEF Decided
<1>3. \/ \E c \in Clients : Connect(c) \/ Send(c) \/ Leave(c)
      \/ \E f \in Removable : Unlink(f)
      \/ UNCHANGED vars \/ CallFails \/ Receive
      => got' = got
  BY DEF Connect, Send, Leave, Unlink, CallFails, Receive, vars
<1>4. NoAddress \/ Socket \/ Bind \/ Listen => got' = got
  BY DEF NoAddress, Socket, Bind, Listen, startvars
<1>5. Accept \/ Read \/ ReadByte \/ Eof \/ ReadFails => got' = got
  BY DEF Accept, Read, ReadByte, Eof, ReadFails, othervars
<1>6. WriteFails \/ Open \/ Mmap \/ CloseSrc \/ Munmap \/ Fork \/ Wait \/ Return \/ Close
      => got' = got
  BY DEF WriteFails, Open, Mmap, CloseSrc, Munmap, Fork, Wait, Return, Does, Close
<1> QED
  BY <1>1, <1>2, <1>3, <1>4, <1>5, <1>6 DEF Next, Server, Environment, Spin

(* Only Close ends a connection.                                           *)
LEMMA WhoCloses ==
  ASSUME [Next]_vars, done' # done
  PROVE  Close
<1>1. \/ \E c \in Clients : Connect(c) \/ Send(c) \/ Leave(c)
      \/ \E f \in Removable : Unlink(f)
      \/ UNCHANGED vars \/ CallFails \/ Receive
      => done' = done
  BY DEF Connect, Send, Leave, Unlink, CallFails, Receive, vars
<1>2. NoAddress \/ Socket \/ Bind \/ Listen => done' = done
  BY DEF NoAddress, Socket, Bind, Listen, startvars
<1>3. Accept \/ Read \/ ReadByte \/ Eof \/ ReadFails => done' = done
  BY DEF Accept, Read, ReadByte, Eof, ReadFails, othervars
<1>4. (\E k \in 1 .. 2 : WriteSome(k)) \/ WriteFails \/ Open \/ Mmap \/ CloseSrc
        \/ Munmap \/ Fork \/ Wait \/ Return
      => done' = done
  BY DEF WriteSome, WriteFails, Open, Mmap, CloseSrc, Munmap, Fork, Wait, Return,
     Does, callvars
<1>5. Child => done' = done
  BY DEF Child, Execve, ExecveFails, Cgi, childvars
<1> QED
  BY <1>1, <1>2, <1>3, <1>4, <1>5 DEF Next, Server, Environment, Spin

-------------------------------------------------------------------------------
(* What doit takes a request for                                           *)

(* MethodsOf and UrisOf, of any requests w and what is sent s of them      *)
MethodsIn(S, w, s) ==
  {"?"} \cup {Parsed[w[d][1]][1] : d \in {e \in {d \in S : s[d] # << >>} :
                                           Len(Parsed[w[e][1]]) > 0}}
AskedIn(S, w, s) ==
  Junk \cup {Parsed[w[d][1]][2] : d \in {e \in {d \in S : s[d] # << >>} :
                                          Len(Parsed[w[e][1]]) = 2}}
UrisIn(S, w, s) == AskedIn(S, w, s) \cup {Cut(u) : u \in AskedIn(S, w, s)}

LEMMA LeftIs ==
  ASSUME NEW S
  PROVE  MethodsOf(S) = MethodsIn(S, want, sent) /\ UrisOf(S) = UrisIn(S, want, sent)
BY Zenon DEF MethodsOf, UrisOf, Heard, Words, MethodsIn, UrisIn, AskedIn

LEMMA LeftIsNext ==
  ASSUME NEW S
  PROVE  /\ MethodsOf(S)' = MethodsIn(S, want', sent')
         /\ UrisOf(S)' = UrisIn(S, want', sent')
BY Zenon DEF MethodsOf, UrisOf, Heard, Words, MethodsIn, UrisIn, AskedIn

(* More clients that have sent something leave more.                       *)
LEMMA LeftGrows ==
  ASSUME NEW S, NEW T, NEW w, NEW s, NEW x, NEW t, S \subseteq T,
         \A d \in S : s[d] # << >> => t[d] # << >> /\ x[d] = w[d]
  PROVE  /\ MethodsIn(S, w, s) \subseteq MethodsIn(T, x, t)
         /\ UrisIn(S, w, s) \subseteq UrisIn(T, x, t)
<1>1. MethodsIn(S, w, s) \subseteq MethodsIn(T, x, t)
  BY DEF MethodsIn
<1>2. AskedIn(S, w, s) \subseteq AskedIn(T, x, t)
  BY DEF AskedIn
<1> QED
  BY <1>1, <1>2 DEF UrisIn

LEMMA CutIsLeft ==
  ASSUME NEW S, NEW u \in UrisOf(S)
  PROVE  Cut(u) \in UrisOf(S)
<1>1. \A v : Cut(Cut(v)) = Cut(v)
  BY DEF Cut
<1> QED
  BY <1>1 DEF UrisOf

LEMMA InitUnderstood ==
  ASSUME Init
  PROVE  UriIsUri /\ Understood
<1>1. UriIsUri
  BY TinyAssumption DEF Init, UriIsUri
<1>2. method \in MethodsOf(done) /\ uri \in UrisOf(done)
  BY DEF Init, MethodsOf, UrisOf
<1>3. cur \notin Clients /\ ~ Parsing
  BY TinyAssumption DEF Init, Parsing
<1> QED
  BY <1>1, <1>2, <1>3 DEF Init, Understood

(* What has been sent stays sent.                                          *)
SentStays == \A c \in Clients : sent[c] # << >> => sent'[c] # << >>

LEMMA NextSent ==
  ASSUME Types, [Next]_vars
  PROVE  SentStays
<1>1. ASSUME NEW c \in Clients, Send(c) PROVE SentStays
  <2> DEFINE b == want[c][Len(sent[c]) + 1]
  <2>1. /\ sent[c] \in Seq(Byte) /\ want[c] \in Seq(Byte)
        /\ Len(sent[c]) < Len(want[c])
    BY <1>1 DEF Send, Types
  <2>2. b \in Byte
    BY <2>1
  <2>3. sent' = [sent EXCEPT ![c] = Append(sent[c], b)]
    BY <1>1 DEF Send
  <2> HIDE DEF b
  <2>4. Append(sent[c], b) # << >>
    BY <2>1, <2>2, AppendProperties
  <2> QED
    BY <2>3, <2>4 DEF Types, SentStays
<1>2. \/ \E c \in Clients : Connect(c) \/ Leave(c)
      \/ \E f \in Removable : Unlink(f)
      \/ UNCHANGED vars \/ CallFails \/ Receive
      => sent' = sent
  BY DEF Connect, Leave, Unlink, CallFails, Receive, vars, clientvars
<1>3. NoAddress \/ Socket \/ Bind \/ Listen => sent' = sent
  BY DEF NoAddress, Socket, Bind, Listen, startvars, clientvars
<1>4. Accept \/ Read \/ ReadByte \/ Eof \/ ReadFails \/ Close => sent' = sent
  BY DEF Accept, Read, ReadByte, Eof, ReadFails, Close, othervars, clientvars
<1>5. (\E k \in 1 .. 2 : WriteSome(k)) \/ WriteFails \/ Open \/ Mmap \/ CloseSrc
        \/ Munmap \/ Fork \/ Wait \/ Return
      => sent' = sent
  BY DEF WriteSome, WriteFails, Open, Mmap, CloseSrc, Munmap, Fork, Wait, Return,
     Does, callvars, clientvars
<1>6. Child => sent' = sent
  BY DEF Child, Execve, ExecveFails, Cgi, childvars, clientvars
<1> QED
  BY <1>1, <1>2, <1>3, <1>4, <1>5, <1>6 DEF Next, Server, Environment, Spin, SentStays

(* Clients that have been served leave at least what they left.            *)
LEMMA LeftStays ==
  ASSUME Types, Waiting, Moves, SentStays, NEW S, S \subseteq done
  PROVE  /\ MethodsOf(S) \subseteq MethodsOf(S)' /\ UrisOf(S) \subseteq UrisOf(S)'
         /\ \A T : S \subseteq T => MethodsOf(S) \subseteq MethodsIn(T, want', sent')
                                      /\ UrisOf(S) \subseteq UrisIn(T, want', sent')
<1>1. \A d \in S : sent[d] # << >> => sent'[d] # << >> /\ want'[d] = want[d]
  BY DEF Waiting, Moves, SentStays, Types, TypeOK
<1>2. \A T : S \subseteq T => MethodsIn(S, want, sent) \subseteq MethodsIn(T, want', sent')
                               /\ UrisIn(S, want, sent) \subseteq UrisIn(T, want', sent')
  BY <1>1, LeftGrows
<1> QED
  BY <1>2, LeftIs, LeftIsNext

(* What a client is taken for stays, when its connection was accepted.     *)
LEMMA MeaningStays ==
  ASSUME Types, Waiting, Moves, SentStays, Understood, NEW c \in Clients,
         want[c] # << >>, before'[c] = before[c]
  PROVE  /\ Meanings(c) \subseteq Meanings(c)'
         /\ MethodIs(c) /\ method' = method => MethodIs(c)'
         /\ UriIs(c) /\ uri' = uri => UriIs(c)'
<1>1. Words(c)' = Words(c)
  BY DEF Words, Moves
<1>2. PICK S : S = before[c]
  OBVIOUS
<1>3. S \subseteq done
  BY <1>2 DEF Understood
<1>4. MethodsOf(S) \subseteq MethodsOf(S)' /\ UrisOf(S) \subseteq UrisOf(S)'
  BY <1>3, LeftStays
<1>5. MethodsOf(before[c]) \subseteq MethodsOf(before[c])'
  BY <1>2, <1>4 DEF MethodsOf, Heard, Words
<1>6. UrisOf(before[c]) \subseteq UrisOf(before[c])'
  BY <1>2, <1>4 DEF UrisOf, Heard, Words
<1>7. MethodIs(c) /\ method' = method => MethodIs(c)'
  BY <1>1, <1>5 DEF MethodIs
<1>8. UriIs(c) /\ uri' = uri => UriIs(c)'
  BY <1>1, <1>6 DEF UriIs
<1>9. Meanings(c) \subseteq Meanings(c)'
  BY <1>1, <1>5, <1>6 DEF Meanings
<1> QED
  BY <1>7, <1>8, <1>9

(* The steps that leave the stack as it is                                 *)
LEMMA UnderstoodStays ==
  ASSUME Types, Waiting, Served, Understood, Moves, SentStays,
         UNCHANGED <<method, uri, before, done, cur>>,
         Parsing' => Parsing,
         ~ Parsing' /\ pc' # "down" => ~ Parsing /\ pc # "down"
  PROVE  Understood'
<1>1. Parsing => cur \in Clients /\ want[cur] # << >>
  BY TinyAssumption DEF Parsing, Served
<1>2. Parsing' => MethodIs(cur)' /\ UriIs(cur)'
  <2> SUFFICES ASSUME Parsing' PROVE MethodIs(cur)' /\ UriIs(cur)'
    OBVIOUS
  <2>1. Parsing /\ cur \in Clients /\ want[cur] # << >> /\ before'[cur] = before[cur]
    BY <1>1
  <2>2. MethodIs(cur) /\ UriIs(cur)
    BY <2>1 DEF Understood
  <2>3. PICK c \in Clients : c = cur
    BY <2>1
  <2>4. MethodIs(c)' /\ UriIs(c)'
    BY <2>1, <2>2, <2>3, MeaningStays
  <2> QED
    BY <2>3, <2>4 DEF MethodIs, UriIs, Words
<1>3. ~ Parsing' /\ pc' # "down" => method' \in MethodsOf(done)' /\ uri' \in UrisOf(done)'
  <2> SUFFICES ASSUME ~ Parsing', pc' # "down"
               PROVE  method' \in MethodsOf(done)' /\ uri' \in UrisOf(done)'
    OBVIOUS
  <2>1. method \in MethodsOf(done) /\ uri \in UrisOf(done)
    BY DEF Understood
  <2>2. PICK S : S = done
    OBVIOUS
  <2>3. MethodsOf(S) \subseteq MethodsOf(S)' /\ UrisOf(S) \subseteq UrisOf(S)'
    BY <2>2, LeftStays
  <2> QED
    BY <2>1, <2>2, <2>3 DEF MethodsOf, UrisOf, Heard, Words
<1> QED
  BY <1>2, <1>3 DEF Understood

(* The first byte of the request line is the first that the client sent.   *)
LEMMA FirstByte ==
  ASSUME Types, Served, Descriptors, Reader, Reader', Lines, ReadByte, pc = "request"
  PROVE  Append(line, Last(handed'))[1] = want[cur][1] /\ sent[cur] # << >>
<1>1. PICK l, k, n : /\ l = Append(line, Last(handed')) /\ k = Len(line) /\ n = Len(handed)
                     /\ Grown(l, k, n)
  <2> DEFINE l == Append(line, Last(handed'))
             k == Len(line)
             n == Len(handed)
  <2>1. Grown(l, k, n)
    BY LineGrows
  <2> QED
    BY <2>1
<1>2. /\ k \in Nat /\ n \in Nat
      /\ \A i \in 1 .. k + 1 : l[i] = handed'[n - k + i]
      /\ \A i \in 1 .. n + 1 : handed'[i] = want[cur][i]
      /\ n + 1 <= Len(sent[cur])
  BY <1>1 DEF Grown
<1>3. n - k = 0
  BY <1>1 DEF Lines
<1>4. l[1] = handed'[1] /\ handed'[1] = want[cur][1]
  BY <1>2, <1>3
<1>5. sent[cur] # << >>
  BY <1>2
<1> QED
  BY <1>1, <1>4, <1>5

LEMMA FirstByteAtEof ==
  ASSUME Types, Served, Reader, Lines, AtEof, line # << >>, pc = "request"
  PROVE  line[1] = want[cur][1]
<1>1. cur \in Clients
  BY DEF Served
<1>2. \A j \in 1 .. Len(handed) : handed[j] = want[cur][j]
  BY <1>1, ReadIsSent DEF AtEof, Reading
<1>3. line \in Seq(Byte) /\ Len(line) \in Nat /\ Len(line) > 0
  <2>1. line \in Seq(Byte)
    BY DEF Types
  <2> QED
    BY <2>1, EmptySeq
<1>4. /\ Len(handed) - Len(line) = 0 /\ Len(line) <= Len(handed)
      /\ \A i \in 1 .. Len(line) : line[i] = handed[Len(handed) - Len(line) + i]
  BY DEF Lines
<1>5. handed \in Seq(Byte) /\ Len(handed) \in Nat
  BY <1>1, ReadIsSent DEF AtEof, Reading
<1>6. line[1] = handed[1] /\ 1 \in 1 .. Len(handed)
  BY <1>3, <1>4, <1>5
<1> QED
  BY <1>2, <1>6

(* The request line is parsed.                                             *)
LEMMA Scans ==
  ASSUME Types, Served, Descriptors, Understood, UriIsUri, pc = "request",
         sent[cur] # << >>, UNCHANGED othervars, pc' \in {"headers", "doit"},
         NEW l, l[1] = want[cur][1], sscanf(l)
  PROVE  UriIsUri' /\ Understood'
<1>1. /\ cur \in Clients \ done /\ want[cur] # << >> /\ child = "none"
      /\ UNCHANGED <<want, sent, before, done, cur, child>>
  BY TinyAssumption DEF Served, Descriptors, othervars, clientvars, kernelvars
<1>2. /\ before[cur] = done /\ \A c \in Clients : before[c] \subseteq done
      /\ method \in MethodsOf(done) /\ uri \in UrisOf(done)
  BY <1>1 DEF Understood, Parsing
<1>3. PICK words : words = Parsed[want[cur][1]]
  OBVIOUS
<1>4. /\ Len(words) \in 0 .. 2
      /\ Len(words) = 2 => {words[2].slash, words[2].cgi} \subseteq BOOLEAN
  <2>1. want[cur] \in Requests[cur]
    BY <1>1 DEF Types
  <2>2. want[cur][1] \in DOMAIN Parsed
    BY <1>1, <2>1, TinyAssumption
  <2> QED
    BY <1>3, <2>2, TinyAssumption
<1>5. /\ Len(words) > 0 => method' = words[1]
      /\ ~ Len(words) > 0 => method' \in {method, "?"}
      /\ Len(words) = 2 => uri' = words[2]
      /\ Len(words) # 2 => uri' = uri \/ uri' = Cut(uri) \/ uri' \in Junk
  BY <1>3 DEF sscanf
<1>6. UriIsUri'
  <2>1. CASE Len(words) = 2
    BY <1>4, <1>5, <2>1 DEF UriIsUri
  <2>2. CASE Len(words) # 2
    <3>1. uri' = uri \/ uri' = Cut(uri) \/ uri' \in Junk
      BY <1>5, <2>2
    <3>2. CASE uri' = uri
      BY <3>2 DEF UriIsUri
    <3>3. CASE uri' = Cut(uri)
      <4>1. {Cut(uri).slash, Cut(uri).cgi} \subseteq BOOLEAN
        BY DEF UriIsUri, Cut
      <4> QED
        BY <3>3, <4>1 DEF UriIsUri
    <3>4. CASE uri' \in Junk
      BY <3>4, TinyAssumption DEF UriIsUri
    <3> QED
      BY <3>1, <3>2, <3>3, <3>4
  <2> QED
    BY <2>1, <2>2
<1>7. "?" \in MethodsOf(done) /\ Junk \subseteq UrisOf(done) /\ Cut(uri) \in UrisOf(done)
  BY <1>2, CutIsLeft DEF MethodsOf, UrisOf
<1>8. PICK S : S = done
  OBVIOUS
<1>9. MethodsOf(S)' = MethodsOf(S) /\ UrisOf(S)' = UrisOf(S)
  BY <1>1 DEF MethodsOf, UrisOf, Heard, Words
<1>10. MethodIs(cur)'
  <2>1. CASE Len(words) > 0
    BY <1>1, <1>3, <1>5, <2>1 DEF MethodIs, Words
  <2>2. CASE ~ Len(words) > 0
    <3>1. method' \in MethodsOf(S)'
      BY <1>2, <1>5, <1>7, <1>8, <1>9, <2>2
    <3> QED
      BY <1>1, <1>2, <1>3, <1>8, <2>2, <3>1 DEF MethodIs, Words, MethodsOf, Heard
  <2> QED
    BY <2>1, <2>2
<1>11. UriIs(cur)'
  <2>1. CASE Len(words) = 2
    BY <1>1, <1>3, <1>5, <2>1 DEF UriIs, Words
  <2>2. CASE Len(words) # 2
    <3>1. uri' \in UrisOf(S)'
      BY <1>2, <1>5, <1>7, <1>8, <1>9, <2>2
    <3> QED
      BY <1>1, <1>2, <1>3, <1>8, <2>2, <3>1 DEF UriIs, Words, UrisOf, Heard
  <2> QED
    BY <2>1, <2>2
<1>12. Parsing'
  BY DEF Parsing
<1> QED
  BY <1>1, <1>2, <1>6, <1>10, <1>11, <1>12 DEF Understood

(* A connection is closed: what its request line left is there for others. *)
LEMMA CloseLeaves ==
  ASSUME Types, Waiting, Served, Descriptors, Understood, Moves, SentStays, Close
  PROVE  Understood'
<1>1. /\ pc = "close" /\ pc' = "accept" /\ done' = done \cup {cur}
      /\ UNCHANGED <<want, sent, before, cur, child, method, uri>>
      /\ cur \in Clients \ done /\ child = "none" /\ want[cur] # << >>
  BY TinyAssumption DEF Close, Served, Descriptors, clientvars, doitvars
<1>2. before[cur] = done /\ \A c \in Clients : before[c] \subseteq done
  BY <1>1 DEF Understood
<1>3. PICK S, T : S = done /\ T = done \cup {cur}
  OBVIOUS
<1>4. MethodsOf(S) \subseteq MethodsIn(T, want, sent) /\ UrisOf(S) \subseteq UrisIn(T, want, sent)
  BY <1>1, <1>3, LeftStays
<1>5. method \in MethodsIn(T, want, sent) /\ uri \in UrisIn(T, want, sent)
  <2>1. CASE sent[cur] = << >>
    <3>1. method \in MethodsOf(S) /\ uri \in UrisOf(S)
      BY <1>1, <1>3, <2>1 DEF Understood, Parsing
    <3> QED
      BY <1>4, <3>1
  <2>2. CASE sent[cur] # << >>
    <3>1. MethodIs(cur) /\ UriIs(cur)
      BY <1>1, <2>2 DEF Understood, Parsing
    <3>2. Words(cur) = Parsed[want[cur][1]]
      BY DEF Words
    <3>3. Len(Words(cur)) > 0 => method \in MethodsIn(T, want, sent)
      BY <1>3, <2>2, <3>1, <3>2 DEF MethodIs, MethodsIn
    <3>4. ~ Len(Words(cur)) > 0 => method \in MethodsOf(S)
      BY <1>2, <1>3, <3>1 DEF MethodIs
    <3>5. Len(Words(cur)) = 2 => uri \in UrisIn(T, want, sent)
      BY <1>3, <2>2, <3>1, <3>2 DEF UriIs, UrisIn, AskedIn
    <3>6. Len(Words(cur)) # 2 => uri \in UrisOf(S)
      BY <1>2, <1>3, <3>1 DEF UriIs
    <3> QED
      BY <1>4, <3>3, <3>4, <3>5, <3>6
  <2> QED
    BY <2>1, <2>2
<1>6. method' \in MethodsOf(done)' /\ uri' \in UrisOf(done)'
  <2>1. MethodsOf(T)' = MethodsIn(T, want, sent) /\ UrisOf(T)' = UrisIn(T, want, sent)
    BY <1>1, LeftIsNext
  <2> QED
    BY <1>1, <1>3, <1>5, <2>1 DEF MethodsOf, UrisOf, Heard, Words
<1>7. ~ Parsing' /\ cur' \in done'
  BY <1>1 DEF Parsing
<1> QED
  BY <1>1, <1>2, <1>6, <1>7 DEF Understood

(* A line that is complete, or the end of the input                        *)
LEMMA ReadUnderstood ==
  ASSUME Types, Waiting, Served, Descriptors, Reader, Reader', Lines, Understood,
         UriIsUri, Moves, SentStays, ReadByte \/ Eof
  PROVE  UriIsUri' /\ Understood'
<1>1. /\ pc \in {"request", "headers"} /\ UNCHANGED othervars
      /\ UNCHANGED <<sent, before, done, cur, child>> /\ child = "none"
  BY DEF ReadByte, Eof, AtEof, Reading, Descriptors, othervars, clientvars, kernelvars
<1>2. pc = "request" => ~ Parsing
  BY <1>1 DEF Parsing
<1>3. pc = "headers" => Parsing
  BY DEF Parsing
<1>4. ASSUME NEW l, GotRequest(l), l[1] = want[cur][1], sent[cur] # << >>
      PROVE  UriIsUri' /\ Understood'
  <2>1. pc = "request" /\ sscanf(l) /\ pc' \in {"headers", "doit"}
    BY <1>4 DEF GotRequest
  <2> QED
    BY <1>1, <1>4, <2>1, Scans
<1>5. CASE UNCHANGED <<pc, method, uri>>
  <2>1. Parsing' = Parsing
    BY <1>1, <1>5 DEF Parsing
  <2> QED
    BY <1>1, <1>5, <2>1, UnderstoodStays DEF UriIsUri
<1>6. CASE /\ pc = "headers" /\ pc' \in {"headers", "doit", "spins"}
           /\ UNCHANGED <<method, uri>>
  <2>1. Parsing' /\ Parsing
    BY <1>6 DEF Parsing
  <2> QED
    BY <1>1, <1>6, <2>1, UnderstoodStays DEF UriIsUri
<1>7. CASE ReadByte
  <2> DEFINE l == Append(line, Last(handed'))
  <2>1. GotLine(l) \/ UNCHANGED <<pc, method, uri>>
    BY <1>7 DEF ReadByte
  <2>2. CASE GotRequest(l)
    <3>1. pc = "request"
      BY <2>2 DEF GotRequest
    <3> QED
      BY <1>4, <1>7, <2>2, <3>1, FirstByte
  <2>3. CASE GotHeader(l)
    BY <1>6, <2>3 DEF GotHeader
  <2> QED
    BY <1>5, <2>1, <2>2, <2>3 DEF GotLine
<1>8. CASE Eof
  <2>1. CASE line # << >> /\ GotRequest(line)
    <3>1. pc = "request" /\ AtEof /\ cur \in Clients
      BY <1>8, <2>1 DEF GotRequest, Eof, Served
    <3>2. line[1] = want[cur][1]
      BY <2>1, <3>1, FirstByteAtEof
    <3>3. sent[cur] # << >>
      <4>1. /\ line \in Seq(Byte) /\ Len(line) <= Len(handed) /\ Len(handed) \in Nat
            /\ Len(handed) = taken /\ taken = Len(sent[cur])
        BY <3>1, ReadIsSent DEF Types, Lines, AtEof, Reading
      <4>2. Len(line) > 0
        BY <2>1, <4>1, EmptySeq
      <4> QED
        BY <4>1, <4>2
    <3> QED
      BY <1>4, <2>1, <3>2, <3>3
  <2>2. CASE GotHeader(line)
    BY <1>6, <2>2 DEF GotHeader
  <2>3. CASE line = << >> /\ pc = "request" /\ pc' = "close" /\ UNCHANGED doitvars
    <3>1. /\ handed \in Seq(Byte) /\ sent[cur] \in Seq(Byte)
          /\ Len(handed) = taken /\ taken = Len(sent[cur])
      BY <1>1, <1>8, ReadIsSent DEF Eof, AtEof, Served
    <3>2. Len(line) = 0 /\ Len(handed) - Len(line) = 0
      BY <2>3 DEF Lines
    <3>3. sent[cur] = << >>
      BY <3>1, <3>2, EmptySeq
    <3>4. ~ Parsing' /\ ~ Parsing
      BY <1>1, <2>3, <3>3 DEF Parsing
    <3>5. UNCHANGED <<method, uri>>
      BY <2>3 DEF doitvars
    <3> QED
      BY <1>1, <2>3, <3>4, <3>5, UnderstoodStays DEF UriIsUri
  <2>4. CASE /\ pc = "headers" /\ pc' \in {"doit", "spins"} /\ UNCHANGED <<method, uri>>
    BY <1>6, <2>4
  <2> QED
    BY <1>8, <2>1, <2>2, <2>3, <2>4 DEF Eof, GotLine, doitvars
<1> QED
  BY <1>7, <1>8

LEMMA NextUnderstood ==
  ASSUME Types, Waiting, Served, Descriptors, Reader, Reader', Lines, Stage,
         UriIsUri, Understood, [Next]_vars
  PROVE  UriIsUri' /\ Understood'
<1>1. Moves /\ SentStays
  BY NextMoves, NextSent
<1>2. pc \notin {"doit", "down"} => child = "none"
  BY DEF Descriptors
<1>3. ASSUME UNCHANGED <<method, uri, before, done, cur>>, Parsing' => Parsing,
             ~ Parsing' /\ pc' # "down" => ~ Parsing /\ pc # "down"
      PROVE  UriIsUri' /\ Understood'
  BY <1>1, <1>3, UnderstoodStays DEF UriIsUri
<1>4. ASSUME UNCHANGED <<method, uri, before, done, cur, pc, child>>,
             pc = "close" => (sent'[cur] = << >> <=> sent[cur] = << >>)
      PROVE  UriIsUri' /\ Understood'
  <2>1. Parsing' = Parsing
    BY <1>4 DEF Parsing
  <2> QED
    BY <1>3, <1>4, <2>1
<1>5. ASSUME UNCHANGED <<method, uri, before, done, cur, child>>, pc' = "down"
      PROVE  UriIsUri' /\ Understood'
  <2>1. Parsing' => Parsing
    BY <1>5 DEF Parsing
  <2> QED
    BY <1>3, <1>5, <2>1
<1>6. ASSUME NEW c \in Clients, Send(c) PROVE UriIsUri' /\ Understood'
  <2>1. pc = "close" => (sent'[cur] = << >> <=> sent[cur] = << >>)
    BY <1>1 DEF Moves, SentStays, Served
  <2> QED
    BY <1>4, <1>6, <2>1 DEF Send, doitvars, kernelvars
<1>7. CASE \/ \E c \in Clients : Connect(c) \/ Leave(c)
           \/ \E f \in Removable : Unlink(f)
           \/ Receive \/ UNCHANGED vars
  <2>1. UNCHANGED <<method, uri, before, done, cur, pc, child, sent>>
    BY <1>7 DEF Connect, Leave, Unlink, Receive, vars, clientvars, doitvars, kernelvars
  <2> QED
    BY <1>4, <2>1
<1>8. CASE CallFails \/ NoAddress \/ ReadFails \/ WriteFails
  <2>1. UNCHANGED <<method, uri, before, done, cur, child>> /\ pc' = "down"
    BY <1>8 DEF CallFails, NoAddress, ReadFails, WriteFails, unix_error, startvars,
       callvars, doitvars
  <2> QED
    BY <1>5, <2>1
<1>9. CASE Socket \/ Bind \/ Listen \/ Read
  <2>1. UNCHANGED <<method, uri, before, done, cur, child>>
    BY <1>9 DEF Socket, Bind, Listen, Read, startvars, othervars, doitvars, kernelvars
  <2>2. \/ pc \in {"socket", "bind", "listen"}
           /\ pc' \in {"socket", "bind", "listen", "accept", "down"}
        \/ pc' = pc /\ pc \in {"request", "headers"}
    BY <1>9 DEF Socket, Bind, Listen, Read, Reading
  <2>3. Parsing' = Parsing /\ pc # "down"
    BY <1>2, <2>1, <2>2 DEF Parsing
  <2> QED
    BY <1>3, <2>1, <2>3
<1>10. CASE Accept
  <2>1. /\ pc = "accept" /\ pc' = "request" /\ child = "none"
        /\ UNCHANGED <<want, sent, done, method, uri, child>>
        /\ before' = [before EXCEPT ![cur'] = done]
    BY <1>2, <1>10 DEF Accept, clientvars
  <2>2. ~ Parsing /\ ~ Parsing'
    BY <2>1 DEF Parsing
  <2>3. \A c \in Clients : before'[c] \subseteq done
    BY <2>1 DEF Types, TypeOK, Understood
  <2>4. cur' \in Clients => before'[cur'] = done
    BY <2>1 DEF Types, TypeOK
  <2>5. method' \in MethodsOf(done)' /\ uri' \in UrisOf(done)'
    <3>1. method \in MethodsOf(done) /\ uri \in UrisOf(done)
      BY <2>1, <2>2 DEF Understood
    <3> QED
      BY <2>1, <3>1 DEF MethodsOf, UrisOf, Heard, Words
  <2> QED
    BY <2>1, <2>2, <2>3, <2>4, <2>5 DEF Understood, UriIsUri
<1>11. CASE Close
  BY <1>1, <1>11, CloseLeaves DEF Close, doitvars, UriIsUri
<1>12. CASE ReadByte \/ Eof
  BY <1>1, <1>12, ReadUnderstood
<1>13. CASE \/ (\E k \in 1 .. 2 : WriteSome(k)) \/ Open \/ Mmap \/ CloseSrc
            \/ Munmap \/ Fork \/ Wait
  <2>1. UNCHANGED <<method, uri, before, done, cur, sent>> /\ pc = "doit"
        /\ (pc' = "doit" \/ (pc' = "down" /\ UNCHANGED child))
    BY <1>13 DEF WriteSome, Open, Mmap, CloseSrc, Munmap, Fork, Wait, Does, callvars,
       clientvars, unix_error
  <2>2. Parsing /\ (pc' = "doit" => Parsing')
    BY <2>1 DEF Parsing
  <2> QED
    BY <1>3, <1>5, <2>1, <2>2
<1>14. CASE Return
  <2>1. UNCHANGED <<method, uri, before, done, cur, sent>> /\ pc = "doit" /\ pc' = "close"
    BY <1>14 DEF Return, callvars, clientvars
  <2>2. sent[cur] # << >>
    BY <2>1 DEF Stage, Decided
  <2>3. Parsing /\ Parsing'
    BY <2>1, <2>2 DEF Parsing
  <2> QED
    BY <1>3, <2>1, <2>3
<1>15. CASE Child
  <2>1. /\ UNCHANGED <<method, uri, before, done, cur>>
        /\ child # "none" /\ child' # "none"
    BY <1>15 DEF Child, Execve, ExecveFails, Cgi, childvars, doitvars
  <2>2. Parsing /\ Parsing'
    BY <2>1 DEF Parsing
  <2> QED
    BY <1>3, <2>1, <2>2
<1> QED
  BY <1>6, <1>7, <1>8, <1>9, <1>10, <1>11, <1>12, <1>13, <1>14, <1>15
  DEF Next, Server, Environment, Spin

(* Whom tiny had served is written down once, at accept.                   *)
LEMMA BeforeStays ==
  ASSUME Types, Waiting, [Next]_vars, NEW c \in Clients, c = cur \/ c \in done
  PROVE  before'[c] = before[c]
<1>1. CASE Accept
  <2>1. /\ backlog # << >> /\ cur' = Head(backlog) /\ backlog \in Seq(Clients)
        /\ before' = [before EXCEPT ![cur'] = done]
    BY <1>1 DEF Accept, Types
  <2>2. Len(backlog) >= 1 /\ Head(backlog) = backlog[1]
    BY <2>1, EmptySeq
  <2>3. cur' # c
    BY <2>1, <2>2 DEF Waiting
  <2> QED
    BY <2>1, <2>3 DEF Types, TypeOK
<1>2. \/ \E d \in Clients : Connect(d) \/ Send(d) \/ Leave(d)
      \/ \E f \in Removable : Unlink(f)
      \/ UNCHANGED vars \/ CallFails \/ Receive
      => before' = before
  BY DEF Connect, Send, Leave, Unlink, CallFails, Receive, vars
<1>3. NoAddress \/ Socket \/ Bind \/ Listen => before' = before
  BY DEF NoAddress, Socket, Bind, Listen, startvars
<1>4. Read \/ ReadByte \/ Eof \/ ReadFails \/ Close => before' = before
  BY DEF Read, ReadByte, Eof, ReadFails, Close, othervars
<1>5. (\E k \in 1 .. 2 : WriteSome(k)) \/ WriteFails \/ Open \/ Mmap \/ CloseSrc
        \/ Munmap \/ Fork \/ Wait \/ Return
      => before' = before
  BY DEF WriteSome, WriteFails, Open, Mmap, CloseSrc, Munmap, Fork, Wait, Return,
     Does, callvars
<1>6. Child => before' = before
  BY DEF Child, Execve, ExecveFails, Cgi, childvars
<1> QED
  BY <1>1, <1>2, <1>3, <1>4, <1>5, <1>6 DEF Next, Server, Environment, Spin

-------------------------------------------------------------------------------
(* What reaches a client is an answer to what it is taken for.             *)

AnswerTo(c, meanings) ==
  \E r \in meanings : \E a \in Answers(r) :
    IsPrefix(got[c], a) /\ (c \in done \ gone => got[c] = a)

LEMMA MeaningIsMeant ==
  ASSUME MethodIs(cur), UriIs(cur)
  PROVE  Meaning \in Meanings(cur)
BY DEF MethodIs, UriIs, Meaning, Meanings

LEMMA MeaningIsMeantNext ==
  (MethodIs(cur) /\ UriIs(cur))' => (Meaning \in Meanings(cur))'
BY MeaningIsMeant, PTL

LEMMA NextAnswers ==
  ASSUME Types, Types', Waiting, Waiting', Served, Served', Stage, Stage',
         Understood, Understood', AnswersAreRight, [Next]_vars
  PROVE  AnswersAreRight'
<1> SUFFICES ASSUME NEW c \in Clients,
                    got'[c] # << >> \/ (c \in done' \ gone' /\ sent'[c] # << >>)
             PROVE  AnswerTo(c, Meanings(c))'
  BY DEF AnswersAreRight, AnswerTo
<1>1. Moves /\ SentStays
  BY NextMoves, NextSent
<1>2. ASSUME NEW r, NEW a \in Answers(r) PROVE a \in Answers(r)'
  BY <1>1, <1>2, AnswersGrow DEF Moves
(* doit and its child write.                                               *)
<1>3. CASE got'[c] # got[c]
  <2>1. cur' = c /\ Decided'
    BY <1>3, WhoWrites
  <2>2. HasAnswer'
    BY <2>1, StageIsAnswerNext DEF Deciding
  <2>3. c \notin done'
    BY <2>1 DEF Decided, Served
  <2>4. (Meaning \in Meanings(cur))'
    <3>1. Parsing'
      BY <2>1, Zenon DEF Parsing, Decided
    <3> QED
      BY <3>1, MeaningIsMeantNext DEF Understood
  <2> QED
    BY <2>1, <2>2, <2>3, <2>4 DEF HasAnswer, AnswerTo, Meanings, Words
(* The connection is closed.                                               *)
<1>4. CASE got'[c] = got[c] /\ c \in done' /\ c \notin done
  <2>1. /\ pc = "close" /\ c = cur
        /\ UNCHANGED <<want, sent, gone, got, before, cur, method, uri>>
    BY <1>4, WhoCloses DEF Close, clientvars, doitvars
  <2>2. cur \in Clients /\ cur # Nobody
    BY TinyAssumption, <2>1
  <2>3. sent[cur] # << >>
    BY <2>1 DEF Served
  <2>4. Decided /\ todo = << >>
    BY <2>1, <2>3 DEF Decided, Stage
  <2>5. PICK r, a : /\ r = Meaning /\ a \in Answers(r)
                    /\ IsPrefix(got[cur], a) /\ (cur \notin gone => got[cur] = a)
    BY <2>2, <2>4, StageIsAnswer
  <2>6. Meaning \in Meanings(cur)
    BY <2>1, <2>3, MeaningIsMeant DEF Understood, Parsing
  <2>7. r \in Meanings(c)'
    <3>1. want[c] # << >>
      BY <2>1, <2>2 DEF Served
    <3> QED
      BY <1>1, <2>1, <2>5, <2>6, <3>1, MeaningStays
  <2>8. a \in Answers(r)'
    BY <1>2, <2>5
  <2> QED
    BY <2>1, <2>5, <2>7, <2>8 DEF AnswerTo
(* Nothing new reaches c.                                                  *)
<1>5. CASE got'[c] = got[c] /\ (c \in done' => c \in done)
  <2>1. got[c] # << >> \/ (c \in done \ gone /\ sent[c] # << >>)
    <3>1. c \in done /\ sent[c] = << >> => sent'[c] = << >>
      BY <1>1 DEF Moves, Waiting
    <3> QED
      BY <1>1, <1>5, <3>1 DEF Moves
  <2>2. want[c] # << >> /\ (c = cur \/ c \in done)
    BY <2>1, TinyAssumption DEF Waiting, Served
  <2>3. PICK r \in Meanings(c) : \E a \in Answers(r) :
          IsPrefix(got[c], a) /\ (c \in done \ gone => got[c] = a)
    BY <2>1 DEF AnswersAreRight
  <2>4. PICK a : /\ a \in Answers(r) /\ IsPrefix(got[c], a)
                 /\ c \in done \ gone => got[c] = a
    BY <2>3
  <2>5. a \in Answers(r)'
    BY <1>2, <2>4
  <2>6. before'[c] = before[c]
    BY <2>2, BeforeStays
  <2>7. r \in Meanings(c)'
    BY <1>1, <2>2, <2>3, <2>6, MeaningStays
  <2>8. c \in done' \ gone' => c \in done \ gone
    BY <1>1, <1>5 DEF Moves
  <2> QED
    BY <1>5, <2>4, <2>5, <2>7, <2>8 DEF AnswerTo
<1> QED
  BY <1>3, <1>4, <1>5

-------------------------------------------------------------------------------
(* Who ends the server                                                     *)

LEMMA GoesDown ==
  ASSUME Types, Served, Descriptors, Stage, UriIsUri, [Next]_vars, pc # "down",
         pc' = "down", ~ failed'
  PROVE  /\ UNCHANGED <<cur, method, uri, gone, disk>>
         /\ \/ cur \in gone
            \/ Target(uri) \notin disk
            \/ Files[Target(uri)].size = 0
<1>1. CASE ReadFails
  BY <1>1 DEF ReadFails, doitvars, clientvars
<1>2. CASE WriteFails
  BY <1>2 DEF WriteFails, callvars, clientvars
<1>3. CASE Open
  <2>1. Filename \notin disk /\ pc = "doit" /\ UNCHANGED <<cur, method, uri, gone, disk>>
    BY <1>3 DEF Open, callvars, clientvars
  <2> QED
    BY <2>1, TargetIsFilename
<1>4. CASE Mmap
  <2>1. /\ pc = "doit" /\ UNCHANGED <<cur, method, uri, gone, disk>> /\ todo # << >>
        /\ Next1.call = "mmap" /\ ~ (Files[Filename].size > 0 /\ "src" \in fds)
    BY <1>4 DEF Mmap, callvars, clientvars
  <2>2. ServingStatic
    BY <2>1, NextCall
  <2>3. PICK f \in DOMAIN Files : MaySend(f) /\ Sending(f)
    BY <2>2 DEF ServingStatic
  <2>4. f = Target(uri) /\ Filename = f
    BY <2>1, <2>3, TargetIsFilename DEF MaySend
  <2>5. BeforeMmap(f)
    BY <2>1, <2>3, SendingCalls, ACall
  <2>6. "src" \in fds
    BY <2>1, <2>5 DEF BeforeMmap, HasOpen
  <2>7. Files[f].size \in Nat
    BY TinyAssumption
  <2> QED
    BY <2>1, <2>4, <2>6, <2>7
<1>5. CASE CallFails \/ NoAddress
  BY <1>5 DEF CallFails, NoAddress
<1>6. CASE Socket \/ Bind \/ Listen \/ Accept \/ Read \/ ReadByte \/ Eof
  BY <1>6 DEF Socket, Bind, Listen, Accept, Read, ReadByte, Eof, GotLine, GotRequest,
     GotHeader
<1>7. CASE \/ \E k \in 1 .. 2 : WriteSome(k)
           \/ CloseSrc \/ Munmap \/ Fork \/ Wait \/ Return \/ Close \/ Child
  BY <1>7 DEF WriteSome, CloseSrc, Munmap, Fork, Wait, Return, Close, Child,
     Execve, ExecveFails, Cgi, childvars
<1>8. CASE \/ \E c \in Clients : Connect(c) \/ Send(c) \/ Leave(c)
           \/ \E f \in Removable : Unlink(f)
           \/ Receive \/ UNCHANGED vars
  BY <1>8 DEF Connect, Send, Leave, Unlink, Receive, vars
<1> QED
  BY <1>1, <1>2, <1>3, <1>4, <1>5, <1>6, <1>7, <1>8 DEF Next, Server, Environment, Spin

LEMMA StaysDown ==
  ASSUME [Next]_vars, pc = "down"
  PROVE  UNCHANGED <<cur, method, uri>>
<1>1. \/ \E c \in Clients : Connect(c) \/ Send(c) \/ Leave(c)
      \/ \E f \in Removable : Unlink(f)
      \/ Receive \/ UNCHANGED vars \/ Child
  BY DEF Next, Server, Environment, Spin, NoAddress, Socket, Bind, Listen, Accept,
     Read, ReadByte, Eof, ReadFails, AtEof, Reading, WriteSome, WriteFails, Open, Mmap,
     CloseSrc, Munmap, Fork, Wait, Does, Return, Close, CallFails
<1> QED
  BY <1>1 DEF Connect, Send, Leave, Unlink, Receive, vars, Child, Execve, ExecveFails, Cgi,
     childvars, doitvars

LEMMA NextPatient ==
  ASSUME Types, Served, Descriptors, Stage, UriIsUri, PatientClientsAreSafe,
         [Next]_vars
  PROVE  PatientClientsAreSafe'
<1> SUFFICES ASSUME pc' = "down", ~ failed' PROVE PatientClientsAreSafe'
  BY DEF PatientClientsAreSafe
<1>1. Moves
  BY NextMoves
<1>2. CASE pc # "down"
  BY <1>2, GoesDown DEF PatientClientsAreSafe, Target
<1>3. CASE pc = "down"
  <2>1. UNCHANGED <<cur, method, uri>>
    BY <1>3, StaysDown
  <2>2. cur \in gone \/ Target(uri) \notin disk \/ Files[Target(uri)].size = 0
    BY <1>1, <1>3 DEF PatientClientsAreSafe, Moves
  <2> QED
    BY <1>1, <2>1, <2>2 DEF PatientClientsAreSafe, Moves, Target
<1> QED
  BY <1>2, <1>3

-------------------------------------------------------------------------------
(* What tiny does                                                          *)

(* What holds at every step: the types, where the reader is and the        *)
(* clients are, what is open, which lines were read, how far doit is, and  *)
(* what it takes the request for.                                          *)
TinyInv ==
  /\ Types /\ Reader /\ Waiting /\ Served /\ Descriptors /\ Lines /\ Stage
  /\ UriIsUri /\ Understood
  /\ HeadersEndAtTheBlankLine /\ AnswersAreRight /\ PatientClientsAreSafe

LEMMA InitTiny == Init => TinyInv
<1> SUFFICES ASSUME Init PROVE TinyInv
  OBVIOUS
<1>1. Types /\ Reader /\ Waiting /\ Served /\ Descriptors
  BY InitTypes, InitReader, InitHasPlaces DEF InitPlaces
<1>2. Lines /\ Stage /\ HeadersEndAtTheBlankLine /\ PatientClientsAreSafe
  BY DEF Init, Lines, Stage, Decided, HeadersEndAtTheBlankLine, PatientClientsAreSafe
<1>3. AnswersAreRight
  BY DEF Init, AnswersAreRight
<1>4. UriIsUri /\ Understood
  BY InitUnderstood
<1> QED
  BY <1>1, <1>2, <1>3, <1>4 DEF TinyInv

LEMMA NextTiny == TinyInv /\ [Next]_vars => TinyInv'
<1> SUFFICES ASSUME TinyInv, [Next]_vars PROVE TinyInv'
  OBVIOUS
<1>1. /\ Types /\ Reader /\ Waiting /\ Served /\ Descriptors /\ Lines /\ Stage
      /\ UriIsUri /\ Understood
      /\ HeadersEndAtTheBlankLine /\ AnswersAreRight /\ PatientClientsAreSafe
  BY DEF TinyInv
<1>2. Reader'
  BY <1>1, NextReader
<1>3. Types'
  BY <1>1, <1>2, NextTypes
<1>4. Waiting' /\ Served' /\ Descriptors'
  BY <1>1, <1>3, NextWaiting, NextServed, NextDescriptors
<1>5. Lines' /\ HeadersEndAtTheBlankLine'
  BY <1>1, <1>2, NextLines
<1>6. Stage'
  BY <1>1, <1>2, <1>3, NextStage
<1>9. UriIsUri' /\ Understood'
  BY <1>1, <1>2, NextUnderstood
<1>7. AnswersAreRight'
  BY <1>1, <1>3, <1>4, <1>6, <1>9, NextAnswers
<1>8. PatientClientsAreSafe'
  BY <1>1, NextPatient
<1> QED
  BY <1>2, <1>3, <1>4, <1>5, <1>6, <1>7, <1>8, <1>9 DEF TinyInv

LEMMA TinyAlways == Spec => []TinyInv
BY InitTiny, NextTiny, PTL DEF Spec

(* In every run of tiny, whatever its clients ask and whoever removes      *)
(* files, what it keeps has its types and nothing is left over from one    *)
(* connection to the next (tiny.c:31-39).                                  *)
THEOREM TinyIsWhole == Spec => []ServerIsWhole
<1>1. TinyInv => ServerIsWhole
  BY DEF TinyInv, Types, Descriptors, ServerIsWhole, NothingIsLeftOpen, TypeOK
<1> QED
  BY <1>1, TinyAlways, PTL

(* The bytes tiny reads are the client's, in order and without a gap,      *)
(* however they arrive (csapp.c:794-820, used at tiny.c:56-60).            *)
THEOREM TinyReadsInOrder == Spec => []InOrder
<1>1. TinyInv => InOrder
  BY DEF TinyInv, Reader, R!IInv, R!InOrder, R!Unread, InOrder, rio!InOrder,
     rio!Unread
<1> QED
  BY <1>1, TinyAlways, PTL

(* As long as every line of the request fits its buffer, tiny answers a    *)
(* GET exactly at the first blank line, or when the client has stopped     *)
(* (tiny.c:105).                                                           *)
THEOREM HeadersAreRead == Spec => []HeadersEndAtTheBlankLine
<1>1. TinyInv => HeadersEndAtTheBlankLine
  BY DEF TinyInv
<1> QED
  BY <1>1, TinyAlways, PTL

(* However short the writes are and whatever files go, what reaches a      *)
(* client is the beginning of an answer to its own request, and all of it  *)
(* when tiny has closed; a client whose request line lacks a word may get  *)
(* the answer to what one served before it has asked (tiny.c:47-239, 60).  *)
THEOREM TinyAnswersRight == Spec => []AnswersAreRight
<1>1. TinyInv => AnswersAreRight
  BY DEF TinyInv
<1> QED
  BY <1>1, TinyAlways, PTL

(* No client that stays and asks for a file that is there, and is not      *)
(* empty, ends the server, unless a call fails for a reason of its own     *)
(* (csapp.c:29-33, 421-428).                                               *)
THEOREM TinyIsPatient == Spec => []PatientClientsAreSafe
<1>1. TinyInv => PatientClientsAreSafe
  BY DEF TinyInv
<1> QED
  BY <1>1, TinyAlways, PTL

(* tiny uses its reader as Rio has it to be used: every step of tiny is a  *)
(* step of Rio on the bytes the client has sent, or leaves it alone        *)
(* (tiny.c:56).                                                            *)
THEOREM TinyUsesRio == Spec => ReaderIsRio
<1>1. Init => rio!Init
  BY TinyAssumption DEF Init, rio!Init, rio!Fresh
<1>2. TinyInv /\ [Next]_vars => [rio!Next]_rio!vars
  <2> SUFFICES ASSUME TinyInv, [Next]_vars PROVE [rio!Next]_rio!vars
    OBVIOUS
  <2>1. [R!Next]_R!vars
    BY StepIsRio DEF TinyInv
  <2> QED
    BY <2>1, Zenon DEF R!Next, R!vars, R!Arrive, R!NextDescriptor, R!rio_readinitb,
       R!Refill, R!Interrupted, R!rio_read, rio!Next, rio!vars, rio!Arrive,
       rio!NextDescriptor, rio!rio_readinitb, rio!Refill, rio!Interrupted, rio!rio_read
<1> QED
  BY <1>1, <1>2, TinyAlways, PTL DEF Spec, ReaderIsRio, rio!Spec
================================================================================
