--------------------------------- MODULE MCTiny --------------------------------
EXTENDS Tiny

URI(path, slash, query, cgi, args) ==
  [path |-> path, slash |-> slash, query |-> query, cgi |-> cgi, args |-> args]

Get(u) == <<"GET", u>>

MCParsed ==
  [static  |-> Get(URI("/", TRUE, "", FALSE, FALSE)),
   missing |-> Get(URI("/home", FALSE, "?x", FALSE, FALSE)),
   empty   |-> Get(URI("/empty", FALSE, "", FALSE, FALSE)),
   secret  |-> Get(URI("/secret", FALSE, "", FALSE, FALSE)),
   adder   |-> Get(URI("/cgi-bin/adder", FALSE, "?1&2", TRUE, TRUE)),
   post    |-> <<"POST", URI("/", TRUE, "", FALSE, FALSE)>>,
   get     |-> <<"GET">>]
    @@ "\n" :> << >>

MCJunk == {URI("", FALSE, "", FALSE, FALSE)}

File(size, rusr, xusr) ==
  [size |-> size, reg |-> TRUE, rusr |-> rusr, xusr |-> xusr]

MCFiles ==
  <<"/", "", TRUE>> :> File(2, TRUE, FALSE)
    @@ <<"", "", FALSE>> :> [File(1, TRUE, TRUE) EXCEPT !.reg = FALSE]
    @@ <<"/home", "", FALSE>> :> File(1, TRUE, FALSE)
    @@ <<"/empty", "", FALSE>> :> File(0, TRUE, FALSE)
    @@ <<"/secret", "", FALSE>> :> File(1, FALSE, FALSE)
    @@ <<"/cgi-bin/adder", "", FALSE>> :> File(1, TRUE, TRUE)

MCRemovable == {<<"/", "", TRUE>>}

(* A header of two bytes and one of four, cut to three and a line that     *)
(* looks blank.                                                            *)
AnyRequest ==
  {<<"static", "\n">> \o CRLF,
   <<"adder", "\n", "h", "\n">> \o CRLF,
   <<"missing">> \o CRLF \o CRLF,
   <<"empty", "\n">> \o CRLF,
   <<"secret", "\n", "h", "h", "h">> \o CRLF,
   <<"post", "\n">>,
   <<"get", "\n">> \o CRLF}

CONSTANTS c1, c2

MCClients == {c1, c2}
MCMayLeave == {c1}
MCRequests == c1 :> AnyRequest @@ c2 :> {<<"post", "\n">>, <<"\n">> \o CRLF}

MCByte == DOMAIN MCParsed \cup {"\r", "\n", "h", "?"}
================================================================================
