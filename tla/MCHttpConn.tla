----------------------------- MODULE MCHttpConn -----------------------------
(***************************************************************************)
(* The clients of HttpConn that TLC tries: requests that are pipelined,     *)
(* carry content, start programs, are wrong, or are followed by the end of  *)
(* the connection.                                                          *)
(***************************************************************************)
EXTENDS HttpConn

Line(text) == <<text, "CR", "LF">>
Request(method, header, content) == Line(method) \o Line("Host") \o header \o <<"CR", "LF">> \o content

Get == Request("GET", << >>, << >>)
Close == Request("GET", Line("Connection"), << >>)
Post == Request("POST", Line("Len2"), <<"x", "x">>)
Cgi == Request("CGI", << >>, << >>)
CgiPost == Request("CGIPOST", Line("Len2"), <<"x", "x">>)
Missing == Request("MISSING", << >>, << >>)
NoLength == Request("POST", << >>, << >>)
TooLong == Line("GET") \o <<"Host">> \o [i \in 1..BufSize |-> "x"]

Client(bytes, requests, leaves, output) ==
  [bytes |-> bytes, requests |-> requests, leaves |-> leaves, output |-> output]

MCClients ==
  {Client(Get \o Get, 2, FALSE, 1), Client(Post \o Get, 2, FALSE, 1),
   Client(Cgi \o Get, 2, FALSE, BufSize + 2), Client(Get \o Cgi, 2, FALSE, BufSize - 1),
   Client(Get \o Cgi, 2, FALSE, BufSize),
   Client(Cgi \o Get, 2, FALSE, 0), Client(CgiPost \o Get, 2, FALSE, 1),
   Client(Close \o Get, 2, FALSE, 1), Client(Missing \o Get, 2, FALSE, 1),
   Client(NoLength, 1, FALSE, 1), Client(TooLong, 1, FALSE, 1),
   Client(Get \o Get, 2, TRUE, 1), Client(Cgi, 1, TRUE, PipeSize)}

(* A client that asks for the same file twice.                              *)
SplitClients == {Client(Get \o Get, 2, FALSE, 1)}

(* A client that leaves while the program it has asked for still prints.    *)
LeavingClients == {Client(Cgi, 1, TRUE, 2 * BufSize)}
=============================================================================
