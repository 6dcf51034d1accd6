---------------------------- MODULE ParseRequest ----------------------------
(***************************************************************************)
(* parse_request of Lab/lab5/proxylab-handout/proxy.c: a thread reads the  *)
(* request line and then one header line after the other into its own buf, *)
(* splits each with strtok(buf, ":") and strtok(NULL, "\r\n"), and keeps   *)
(* the headers it does not replace itself.                                 *)
(*                                                                         *)
(* strtok remembers where to continue in one variable of the C library,    *)
(* which all the threads share: it is the variable olds here, and the      *)
(* second call continues wherever the last call of any thread left off.    *)
(***************************************************************************)
EXTENDS ProxyThreads, SequencesExt

CONSTANTS
  EmptyUri,     \* request.uri when the client closes before a request line
  Ignored,      \* "Host", "User-Agent", "Connection", "Proxy-Connection"
  Garbage       \* a value read from memory that has been reused

\* The empty string is a URI like any other.
ASSUME ParseAssumption == EmptyUri \in Keys /\ NULL \notin Keys

VARIABLES
  input,        \* what each client sends: [uri, hdrs, end]
  line,         \* how many header lines a thread has read into its buf
  extra,        \* the headers a thread has kept: request.extra_hdrs
  olds          \* where strtok(NULL, ...) continues

parseVars == <<input, line, extra, olds>>

\* A client sends a URI (or none) and headers [key, value], and then a blank
\* line ("blank"), nothing more ("silent"), or it closes ("eof").  A value is
\* NULL when nothing follows the colon, or there is no colon; a key, when the
\* line is nothing but colons.
NoUri == NULL

\* What remains of the line strtok was called on: the value, or less.
NowhereInMemory == [buf |-> NULL, line |-> 0, rest |-> "end"]

ParsePlaces == {"read_line", "read_hdr", "strtok_key", "strtok_value"}

ParseInit ==
  /\ line = [t \in Threads |-> 0]
  /\ extra = [t \in Threads |-> <<>>]
  /\ olds = NowhereInMemory

----------------------------------------------------------------------------

\* Rio_readlineb returns the request line, or 0 when the client has closed;
\* the URI is then the empty string.
ReadRequestLine(t) ==
  /\ pc[t] = "read_line"
  /\ \/ /\ input[t].uri # NoUri
        /\ arg' = [arg EXCEPT ![t] = EmptyBody(input[t].uri)]
     \/ /\ input[t].uri = NoUri
        /\ input[t].end = "eof"
        /\ arg' = [arg EXCEPT ![t] = EmptyBody(EmptyUri)]
  /\ GoTo(t, "read_hdr")
  /\ UNCHANGED <<alive, parseVars>>

ReadHeader(t) ==
  /\ pc[t] = "read_hdr"
  /\ line[t] < Len(input[t].hdrs)
  /\ line' = [line EXCEPT ![t] = @ + 1]
  /\ GoTo(t, "strtok_key")
  /\ UNCHANGED <<alive, arg, input, extra, olds>>

\* The blank line, or the end of input, ends the loop and the function.
EndOfHeaders(t) ==
  /\ pc[t] = "read_hdr"
  /\ line[t] = Len(input[t].hdrs)
  /\ input[t].end \in {"blank", "eof"}
  /\ GoTo(t, "find_lock")
  /\ UNCHANGED <<alive, arg, parseVars>>

Header(t) == input[t].hdrs[line[t]]

\* (a bug to catch) the key is taken with strtok(NULL, ":")
StrtokKeyContinues(t) ==
  /\ pc[t] = "strtok_key"
  /\ GoTo(t, "strtok_value")
  /\ UNCHANGED <<alive, arg, parseVars>>

\* What is left of t's line behind its key: the value, or the "\r\n" at most.
Behind(t) == IF Header(t).value = NULL THEN "newline" ELSE "value"

\* strtok(buf, ":") cuts the key off t's line; the value, if any, comes next.
StrtokKey(t) ==
  /\ pc[t] = "strtok_key"
  /\ Header(t).key # NULL
  /\ olds' = [buf |-> t, line |-> line[t], rest |-> Behind(t)]
  /\ GoTo(t, "strtok_value")
  /\ UNCHANGED <<alive, arg, input, line, extra>>

Keep(t, value) ==
  extra' = IF Header(t).key \in Ignored THEN extra
           ELSE [extra EXCEPT ![t] =
                   Append(@, [key |-> Header(t).key, value |-> value])]

\* The line olds points into is still the one in the owner's buf.
OldsIsFresh ==
  /\ olds.line = line[olds.buf]
  /\ pc[olds.buf] \in ParsePlaces

\* strtok(NULL, "\r\n") returns the value of the line olds points into, be it
\* t's or another thread's, and leaves olds at that line's "\n".  When the
\* other thread's buf holds something else by now, what it returns is garbage.
StrtokValue(t) ==
  /\ pc[t] = "strtok_value"
  /\ \/ /\ OldsIsFresh
        /\ olds.rest = "value"
        /\ Keep(t, input[olds.buf].hdrs[olds.line].value)
     \/ ~OldsIsFresh /\ Keep(t, Garbage)
  /\ olds' = [olds EXCEPT !.rest = "newline"]
  /\ GoTo(t, "read_hdr")
  /\ UNCHANGED <<alive, arg, input, line>>

\* strtok finds no key, or nothing but the newline where olds points to, be
\* that the end of t's own line: it returns NULL and trim reads it.
StrtokNull(t) ==
  /\ \/ pc[t] = "strtok_key" /\ Header(t).key = NULL
     \/ pc[t] = "strtok_value" /\ (~OldsIsFresh \/ olds.rest = "newline")
  /\ alive' = FALSE
  /\ UNCHANGED <<pc, arg, parseVars>>

Parse(t) ==
  ReadRequestLine(t) \/ ReadHeader(t) \/ EndOfHeaders(t)
    \/ StrtokKey(t) \/ StrtokValue(t) \/ StrtokNull(t)

=============================================================================
