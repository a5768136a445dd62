------------------------------ MODULE HttpConn ------------------------------
(***************************************************************************)
(* One client connection of Liso (project1/src): the round of selectEngine, *)
(* the four handlers of connHandler, the buffers and wbStatus of connObj,   *)
(* the parser and the responder, and the CGI program behind a pipe.         *)
(*                                                                         *)
(* The server is one thread: createPool, select, and then for the           *)
(* connection read, process, pipe and write in this order, each on what the *)
(* one before has left.  phase is the place in the round.  Other            *)
(* connections show only as rounds in which nothing of this one is ready.   *)
(*                                                                         *)
(* A byte stands for the text of a line ("GET", "Host", ...), for CR or LF, *)
(* or for a byte of content; what sscanf accepts is told by the byte.       *)
(* A byte of a response is the number of the response, how many bytes of    *)
(* it follow, whether it is an error's, and whether it ends the connection. *)
(*                                                                         *)
(* SIGPIPE is not ignored: a send to a client that has left may kill the    *)
(* whole server, and so may the content written to a program that has ended *)
(* without reading it.                                                      *)
(*                                                                         *)
(* Not modelled: TLS (the handshake, and records that SSL_read holds back), *)
(* the failure of read() on a pipe, execve failing in the child, and        *)
(* content too long for the pipe to a program, with which the server waits  *)
(* until the program reads.                                                 *)
(***************************************************************************)
EXTENDS Naturals, Sequences, FiniteSets

CONSTANTS
  Clients,       \* what a client does: see ClientType
  BufSize,       \* BUF_SIZE, of the read and of the write buffer
  PipeSize,      \* what the kernel holds of a program's output
  ResSizes,      \* the sizes of header and file of a response
  NULL

RequestLines == {"GET", "POST", "CGI", "CGIPOST", "MISSING"}
Headers == {"Host", "Connection", "Len0", "Len1", "Len2"}
Bytes == RequestLines \cup Headers \cup {"CR", "LF", "x", "junk"}

(* The bytes a client sends, how many requests they are, whether it then    *)
(* closes the connection, and the output of the program it asks for.        *)
ClientType == [bytes : Seq(Bytes), requests : Nat, leaves : BOOLEAN, output : Nat]

(* A response: a program's or a file's, and how much of the file is left.   *)
Responses == [isCGI : BOOLEAN, err : BOOLEAN, close : BOOLEAN, rest : Nat]

ASSUME HttpAssumption ==
  /\ Clients \subseteq ClientType
  /\ BufSize \in Nat \ {0} /\ PipeSize \in Nat \ {0}
  /\ ResSizes \subseteq Nat \ {0} /\ ResSizes # {}
  /\ NULL \notin Responses

VARIABLES
  client, pos,            \* the client, and how many of its bytes were read
  phase, ready,           \* the place in the round; what select reported
  readBuffer, curReadSize,
  thisPtr, full,          \* httpParse: what is parsed of the buffer; its flag
  req, res,               \* the request and the response under way
  writeBuffer, wbStatus,
  CGIout,                 \* the pipe is open
  cgi,                    \* the program: bytes still to print, bytes in the pipe
  isOpen,
  sent, responses         \* history: the bytes sent; the responses built

clientVars == <<client, pos>>
readVars == <<readBuffer, curReadSize>>
parseVars == <<thisPtr, full, req>>
resVars == <<res, responses>>
cgiVars == <<CGIout, cgi>>
vars == <<clientVars, phase, ready, readVars, parseVars, resVars, writeBuffer,
          wbStatus, cgiVars, isOpen, sent>>

CreateRequestObj == [curState |-> "requestLine", line |-> "none", header |-> {}, contentLength |-> 0]

Init ==
  /\ client \in Clients /\ pos = 0
  /\ phase = "select" /\ ready = {}
  /\ readBuffer = [i \in 1..BufSize |-> "junk"] /\ curReadSize = 0
  /\ thisPtr = 0 /\ full = FALSE
  /\ req = CreateRequestObj /\ res = NULL
  /\ writeBuffer = << >> /\ wbStatus = "initRes"
  /\ CGIout = FALSE /\ cgi = [left |-> 0, pipe |-> 0]
  /\ isOpen = TRUE
  /\ sent = << >> /\ responses = 0

Least(a, b) == IF a <= b THEN a ELSE b

IsFull == curReadSize = BufSize

-----------------------------------------------------------------------------
(* createPool and select *)

WriteWatchedUnlessNew ==    \* mutant: "|| isNewConnObj" is missing
  CASE wbStatus = "initRes" -> writeBuffer # << >>
    [] wbStatus \in {"writingRes", "lastRes"} -> TRUE
    [] wbStatus = "doneRes" -> FALSE

(* ! isEmptyConnObj || isNewConnObj *)
WriteWatched ==
  \/ wbStatus = "initRes" /\ writeBuffer # << >>
  \/ wbStatus \in {"writingRes", "lastRes"}
  \/ curReadSize > 0

CreatePool ==
  {fd \in {"R", "W", "C"} : \/ fd = "R" /\ ~IsFull
                            \/ fd = "W" /\ WriteWatched
                            \/ fd = "C" /\ CGIout}

(* What may be ready: there is something to read, or the end of it; the     *)
(* pipe has bytes, or no writer; a socket can always take more in the end.  *)
MayBeReady ==
  {fd \in CreatePool : /\ fd = "R" => pos < Len(client.bytes) \/ client.leaves
                       /\ fd = "C" => cgi.pipe > 0 \/ cgi.left = 0}

Select ==
  /\ phase = "select" /\ phase' = "read"
  /\ ready' \in SUBSET MayBeReady
  /\ UNCHANGED <<clientVars, readVars, parseVars, resVars, writeBuffer, wbStatus,
                 cgiVars, isOpen, sent>>

-----------------------------------------------------------------------------
(* readConnectionHandler *)

ReadConnectionIgnoresEnd ==     \* mutant: setConnObjClose is missing for retSize = 0
  /\ phase = "read" /\ phase' = "process"
  /\ IF "R" \notin ready
     THEN UNCHANGED <<pos, readVars>>
     ELSE \E n \in 0..Least(BufSize - curReadSize, Len(client.bytes) - pos) :
            /\ n = 0 => pos = Len(client.bytes)
            /\ readBuffer' = [i \in 1..BufSize |->
                 IF i \in curReadSize + 1..curReadSize + n
                 THEN client.bytes[pos + i - curReadSize] ELSE readBuffer[i]]
            /\ curReadSize' = curReadSize + n /\ pos' = pos + n
  /\ UNCHANGED <<client, ready, parseVars, resVars, writeBuffer, wbStatus, cgiVars,
                 isOpen, sent>>

(* recv returns some of the bytes; 0 or an error when the client has left.  *)
ReadConnection ==
  /\ phase = "read" /\ phase' = "process"
  /\ \/ "R" \notin ready /\ UNCHANGED <<pos, readVars, isOpen>>
     \/ /\ "R" \in ready
        /\ \E n \in 1..Least(BufSize - curReadSize, Len(client.bytes) - pos) :
             /\ readBuffer' = [i \in 1..BufSize |->
                  IF i \in curReadSize + 1..curReadSize + n
                  THEN client.bytes[pos + i - curReadSize] ELSE readBuffer[i]]
             /\ curReadSize' = curReadSize + n /\ pos' = pos + n
        /\ UNCHANGED isOpen
     \/ "R" \in ready /\ client.leaves /\ isOpen' = FALSE /\ UNCHANGED <<pos, readVars>>
  /\ UNCHANGED <<client, ready, parseVars, resVars, writeBuffer, wbStatus, cgiVars, sent>>

-----------------------------------------------------------------------------
(* processConnectionHandler: httpParse *)

ProcessConnection ==
  /\ phase = "process"
  /\ phase' = IF ~isOpen THEN "pipe"
              ELSE IF req.curState \in {"requestDone", "requestError"} THEN "respond" ELSE "parse"
  /\ full' = IsFull
  /\ UNCHANGED <<clientVars, ready, readVars, thisPtr, req, resVars, writeBuffer,
                 wbStatus, cgiVars, isOpen, sent>>

(* nextToken looks at buf[1] also where buf is the last byte received: it   *)
(* finds what an earlier request has left there, or, behind the buffer or   *)
(* where nothing was written yet, any byte: after stands for that one.      *)
ByteAt(i, after) == IF i > BufSize \/ readBuffer[i] = "junk" THEN after ELSE readBuffer[i]

NextTokens(after) ==
  {i \in thisPtr + 2..curReadSize + 1 : readBuffer[i - 1] = "CR" /\ ByteAt(i, after) = "LF"}

LineUpTo(end, after) == [i \in 1..end - thisPtr |-> ByteAt(thisPtr + i, after)]

RequestError == [req EXCEPT !.curState = "requestError"]

(* sscanf skips white space before the method.                              *)
ParseRequestLine(line) ==
  LET text == SelectSeq(line, LAMBDA b : b \notin {"CR", "LF"})
  IN IF text # << >> /\ Head(text) \in RequestLines
     THEN [req EXCEPT !.curState = "headerLine", !.line = Head(text)]
     ELSE RequestError

ContentLengths == [Len0 |-> 0, Len1 |-> 1, Len2 |-> 2]
LengthGiven == req.header \cap DOMAIN ContentLengths

IsPost == req.line \in {"POST", "CGIPOST"}

IsValidRequest == "Host" \in req.header /\ (IsPost => LengthGiven # {})

ParseHeaderLine(line) ==
  IF line = <<"CR", "LF">>
  THEN IF IsValidRequest
       THEN [req EXCEPT !.curState = IF IsPost THEN "content" ELSE "requestDone"]
       ELSE RequestError
  ELSE IF line[1] \in Headers
       THEN [req EXCEPT !.header = @ \cup {line[1]}]
       ELSE RequestError

(* removeConnObjReadSize: memmove leaves the old bytes behind the new end.  *)
EndParse(parsed, r) ==
  LET size == Least(parsed, curReadSize)
  IN /\ req' = r /\ thisPtr' = 0 /\ full' = FALSE
     /\ readBuffer' = [i \in 1..BufSize |->
          IF i <= curReadSize - size THEN readBuffer[i + size] ELSE readBuffer[i]]
     /\ curReadSize' = curReadSize - size
     /\ phase' = IF r.curState \in {"requestDone", "requestError"} THEN "respond" ELSE "pipe"

(* Prepare for the next line, or end.                                       *)
Parsed(parsed, r) ==
  IF r.curState = "requestError" THEN EndParse(thisPtr, r)
  ELSE IF parsed >= curReadSize \/ r.curState = "requestDone" THEN EndParse(parsed, r)
  ELSE req' = r /\ thisPtr' = parsed /\ full' = FALSE /\ UNCHANGED <<phase, readVars>>

ParseLine ==
  /\ phase = "parse" /\ req.curState \in {"requestLine", "headerLine"}
  /\ \E after \in {"LF", "junk"} :
       IF NextTokens(after) = {}
       THEN EndParse(thisPtr, IF full THEN RequestError ELSE req)
       ELSE LET end  == CHOOSE i \in NextTokens(after) : \A j \in NextTokens(after) : i <= j
                line == LineUpTo(end, after)
            IN Parsed(end, IF req.curState = "requestLine" THEN ParseRequestLine(line)
                                                           ELSE ParseHeaderLine(line))
  /\ UNCHANGED <<clientVars, ready, resVars, writeBuffer, wbStatus, cgiVars, isOpen, sent>>

(* All of the buffer, up to content-length.                                 *)
ParseContent ==
  /\ phase = "parse" /\ req.curState = "content"
  /\ LET length   == ContentLengths[CHOOSE h \in LengthGiven : TRUE]
         lineSize == curReadSize - thisPtr
         missing  == length - req.contentLength
     IN IF missing <= lineSize
        THEN Parsed(thisPtr + missing, [req EXCEPT !.curState = "requestDone", !.contentLength = length])
        ELSE Parsed(thisPtr + lineSize, [req EXCEPT !.contentLength = @ + lineSize])
  /\ UNCHANGED <<clientVars, ready, resVars, writeBuffer, wbStatus, cgiVars, isOpen, sent>>

-----------------------------------------------------------------------------
(* processConnectionHandler: the response *)

(* addStatusLine: the request was wrong, or its file is not there.          *)
ErrorFlag(r) == r.curState = "requestError" \/ r.line = "MISSING"

(* buildHTTPResponseObj: errors close the connection, and so does the       *)
(* client's "connection: close".                                            *)
HTTPResponses(r) ==
  LET err == ErrorFlag(r)
  IN [isCGI : {FALSE}, err : {err}, close : {err \/ "Connection" \in r.header}, rest : ResSizes]

(* writeResponse: how much goes into n free bytes, and whether it is all.   *)
DumpSizeUnbounded(n, rest) == rest                    \* mutant: maxSize is ignored
DumpSize(n, rest) == Least(n, rest)
DumpDoneAlmost(n, rest) == n > 0 /\ rest <= n + 1     \* mutant: off by one
DumpDone(n, rest) == n > 0 /\ rest <= n

(* The bytes of a response r of which k are left.                           *)
ResponseByte(r, k, no) == [no |-> no, rest |-> k, err |-> r.err, close |-> r.close]

DumpResponse(r, no) ==
  LET free == BufSize - Len(writeBuffer)
      n    == DumpSize(free, r.rest)
  IN /\ writeBuffer' = writeBuffer \o [i \in 1..n |-> ResponseByte(r, r.rest - i, no)]
     /\ res' = [r EXCEPT !.rest = @ - n]
     /\ wbStatus' = IF DumpDone(free, r.rest) THEN "lastRes" ELSE "writingRes"

(* buildCGIResponseObj.  The content, if there is any, goes into the pipe.  *)
StartProgram ==
  /\ res' = [isCGI |-> TRUE, err |-> FALSE, close |-> FALSE, rest |-> 0]
  /\ CGIout' = TRUE
  /\ cgi' = [left |-> client.output, pipe |-> 0]

IsCGIRequest == req.line \in {"CGI", "CGIPOST"} /\ req.curState = "requestDone"

(* buildResponseObj makes a response where there is none; it is an error    *)
(* when pipe, fork or the write of the content fails.  What is not a        *)
(* program's is dumped.                                                     *)
Respond ==
  /\ phase = "respond" /\ phase' = "pipe"
  /\ \/ /\ res = NULL /\ ~IsCGIRequest
        /\ \E r \in HTTPResponses(req) : DumpResponse(r, responses + 1)
        /\ responses' = responses + 1
        /\ UNCHANGED <<req, cgiVars>>
     \/ /\ res = NULL /\ IsCGIRequest
        /\ StartProgram
        /\ responses' = responses + 1
        /\ UNCHANGED <<req, writeBuffer, wbStatus>>
     \/ /\ res = NULL /\ IsCGIRequest
        /\ req' = RequestError
        /\ \E r \in HTTPResponses(RequestError) : DumpResponse(r, responses + 1)
        /\ responses' = responses + 1
        /\ UNCHANGED cgiVars
     \/ /\ res # NULL
        /\ IF res.isCGI THEN UNCHANGED <<res, writeBuffer, wbStatus>>
                        ELSE DumpResponse(res, responses)
        /\ UNCHANGED <<req, responses, cgiVars>>
  /\ UNCHANGED <<clientVars, ready, readVars, thisPtr, full, isOpen, sent>>

-----------------------------------------------------------------------------
(* pipeConnectionHandler, and the program at the other end *)

(* A program prints when the pipe has room, and ends when it has printed    *)
(* everything.                                                              *)
ProgramPrints ==
  /\ phase # "killed" /\ CGIout /\ cgi.left > 0 /\ cgi.pipe < PipeSize
  /\ cgi' = [left |-> cgi.left - 1, pipe |-> cgi.pipe + 1]
  /\ UNCHANGED <<clientVars, phase, ready, readVars, parseVars, resVars, writeBuffer,
                 wbStatus, CGIout, isOpen, sent>>

PipeConnection ==
  /\ phase = "pipe" /\ phase' = "write"
  /\ LET free == BufSize - Len(writeBuffer)
     IN IF ~CGIout \/ "C" \notin ready \/ free = 0
        THEN UNCHANGED <<writeBuffer, wbStatus, cgiVars>>
        ELSE \/ \E n \in 1..Least(free, cgi.pipe) :
                  /\ writeBuffer' = writeBuffer \o [i \in 1..n |->
                       ResponseByte(res, cgi.left + cgi.pipe - i, responses)]
                  /\ cgi' = [cgi EXCEPT !.pipe = @ - n]
                  /\ UNCHANGED <<wbStatus, CGIout>>
             \/ /\ cgi.pipe = 0 /\ cgi.left = 0
                /\ CGIout' = FALSE /\ wbStatus' = "lastRes"
                /\ UNCHANGED <<writeBuffer, cgi>>
  /\ UNCHANGED <<clientVars, ready, readVars, parseVars, resVars, isOpen, sent>>

-----------------------------------------------------------------------------
(* writeConnectionHandler *)

(* freeResponseObj waits for the program to end.                            *)
FreeResponse == res # NULL /\ res.isCGI => cgi.left = 0

PrepareNewConnAnyTime ==    \* mutant: the test for lastRes is missing
  /\ wbStatus' = "doneRes"
  /\ IF res = NULL THEN UNCHANGED <<res, req, isOpen>>
     ELSE IF res.close THEN isOpen' = FALSE /\ UNCHANGED <<res, req>>
     ELSE res' = NULL /\ req' = CreateRequestObj /\ UNCHANGED isOpen

PrepareNewConn ==
  IF wbStatus # "lastRes" THEN UNCHANGED <<wbStatus, isOpen, res, req>>
  ELSE /\ wbStatus' = "doneRes"
       /\ IF res.close
          THEN isOpen' = FALSE /\ UNCHANGED <<res, req>>
          ELSE FreeResponse /\ res' = NULL /\ req' = CreateRequestObj /\ UNCHANGED isOpen

(* send takes everything; or it is interrupted (EINTR, WANT_WRITE); or it   *)
(* fails since the client has left, also when the read handler has closed   *)
(* the connection before: see SigPipe.                                      *)
SendAll ==
  /\ phase = "write" /\ "W" \in ready
  /\ PrepareNewConn
  /\ sent' = sent \o writeBuffer
  /\ writeBuffer' = << >>

WriteConnection ==
  /\ phase' = "remove"
  /\ \/ SendAll
     \/ /\ phase = "write" /\ "W" \in ready /\ writeBuffer # << >>
        /\ \/ UNCHANGED isOpen
           \/ client.leaves /\ isOpen' = FALSE
        /\ UNCHANGED <<res, req, wbStatus, sent, writeBuffer>>
     \/ /\ phase = "write" /\ "W" \notin ready
        /\ UNCHANGED <<isOpen, res, req, wbStatus, sent, writeBuffer>>
  /\ UNCHANGED <<clientVars, ready, readVars, thisPtr, full, responses, cgiVars>>

(* mapNode removes the closed connection; freeConnObj frees the response,   *)
(* and waits there for the program to end, before it closes the pipe.       *)
RemoveClosed ==
  /\ phase = "remove"
  /\ IF isOpen
     THEN phase' = "select" /\ UNCHANGED CGIout
     ELSE /\ FreeResponse
          /\ phase' = "closed" /\ CGIout' = FALSE
  /\ ready' = {}
  /\ UNCHANGED <<clientVars, readVars, parseVars, resVars, writeBuffer, wbStatus, cgi,
                 isOpen, sent>>

(* The server is killed: in send, by a client that has left; or in the      *)
(* write of buildCGIResponseObj, by a program that has ended without        *)
(* reading the content.                                                     *)
SigPipe ==
  /\ \/ phase = "write" /\ "W" \in ready /\ writeBuffer # << >> /\ client.leaves
     \/ phase = "respond" /\ res = NULL /\ IsCGIRequest /\ req.contentLength > 0
  /\ phase' = "killed"
  /\ UNCHANGED <<clientVars, ready, readVars, parseVars, resVars, writeBuffer, wbStatus,
                 cgiVars, isOpen, sent>>

-----------------------------------------------------------------------------
Handler ==
  \/ ReadConnection \/ ProcessConnection \/ ParseLine \/ ParseContent \/ Respond
  \/ PipeConnection \/ WriteConnection \/ SigPipe \/ RemoveClosed

Next == Select \/ Handler \/ ProgramPrints

Spec == Init /\ [][Next]_vars

(* The server runs its handlers; what stays ready is reported in the end;   *)
(* a send succeeds in the end; a program that can print does.               *)
FairSpec ==
  /\ Spec
  /\ WF_vars(Handler) /\ WF_vars(ProgramPrints)
  /\ \A fd \in {"R", "W", "C"} : SF_vars(Select /\ fd \in ready')
  /\ SF_vars(WriteConnection /\ SendAll)

-----------------------------------------------------------------------------
(* Properties *)

(* The values the variables may take.                                       *)
TypeOK ==
  /\ client \in Clients /\ pos \in 0..Len(client.bytes)
  /\ phase \in {"select", "read", "process", "parse", "respond", "pipe", "write", "remove", "closed",
              "killed"}
  /\ ready \subseteq {"R", "W", "C"}
  /\ readBuffer \in [1..BufSize -> Bytes] /\ curReadSize \in 0..BufSize
  /\ thisPtr \in 0..BufSize /\ full \in BOOLEAN
  /\ req \in [curState : {"requestLine", "headerLine", "content", "requestDone", "requestError"},
              line : RequestLines \cup {"none"}, header : SUBSET Headers, contentLength : Nat]
  /\ res \in Responses \cup {NULL}
  /\ Len(writeBuffer) <= BufSize
  /\ wbStatus \in {"initRes", "writingRes", "lastRes", "doneRes"}
  /\ CGIout \in BOOLEAN /\ cgi \in [left : Nat, pipe : 0..PipeSize]
  /\ isOpen \in BOOLEAN

(* The next number that may leave: a program that prints nothing has no     *)
(* byte of its own.                                                         *)
Follows(no, next) == next = no + 1 \/ (client.output = 0 /\ next > no)

(* Responses leave the connection one after the other, each from its first  *)
(* byte to its last before the next begins, and none after one that ends    *)
(* the connection, however requests are cut into packets or pipelined.      *)
ResponsesInOrder ==
  LET out == sent \o writeBuffer
  IN \A i \in 1..Len(out) :
       IF i = 1 THEN Follows(0, out[1].no)
       ELSE \/ out[i].no = out[i-1].no /\ out[i].rest + 1 = out[i-1].rest
            \/ Follows(out[i-1].no, out[i].no) /\ out[i-1].rest = 0 /\ ~out[i-1].close

(* The server closes the connection of a client that stays only behind the  *)
(* last byte of a response that says so: not before it is sent.             *)
CloseIsEarned ==
  ~isOpen /\ ~client.leaves =>
    sent # << >> /\ writeBuffer = << >> /\ sent[Len(sent)].rest = 0 /\ sent[Len(sent)].close

(* What a response has left behind is gone before the next request: without *)
(* a response there is nothing to write, no pipe, and no status by which    *)
(* prepareNewConn would look into a response that is not there.             *)
CleanBetween ==
  res = NULL => writeBuffer = << >> /\ ~CGIout /\ wbStatus \in {"initRes", "doneRes"}

(* When the server waits for nothing but more bytes of the client, it has   *)
(* nothing left to do: all it has received is parsed, no request is without *)
(* its response, and the last response has left as a whole.                 *)
SleepsWhenDone ==
  phase = "select" /\ isOpen /\ CreatePool \subseteq {"R"} =>
    /\ curReadSize = 0 /\ req.curState \notin {"requestDone", "requestError"}
    /\ res = NULL /\ writeBuffer = << >>
    /\ sent # << >> => sent[Len(sent)].rest = 0

(* Nothing is left over from a response for the next request to find; and   *)
(* nothing is left to do when select waits for the client alone.            *)
NothingIsLeft == CleanBetween /\ SleepsWhenDone

(* The last byte of the answer is sent, or that of a later one: a program   *)
(* may print nothing.                                                       *)
Answered(n) == \E i \in 1..Len(sent) : sent[i].no >= n /\ sent[i].rest = 0

(* A program whose output has filled the write buffer of a connection that  *)
(* has answered before: its status is doneRes, select does not watch the    *)
(* connection for writing, and no more of the output is read or sent        *)
(* (connObj.c:150, against readme.txt:34).                                  *)
OutputIsStuck ==
  /\ pos = Len(client.bytes) /\ curReadSize = 0
  /\ CGIout /\ wbStatus = "doneRes" /\ Len(writeBuffer) = BufSize

(* Every request of a client that stays is answered in full, unless the     *)
(* connection was ended by an earlier answer, the server was killed by a    *)
(* program that does not read its content, or the output is stuck.          *)
AllAnswered ==
  ~client.leaves ~>
    phase \in {"closed", "killed"} \/ OutputIsStuck \/ \A n \in 1..client.requests : Answered(n)

(* A connection whose client has left, or that a response has ended, is     *)
(* removed, if the client does not kill the whole server by leaving.        *)
ClosedIsRemoved == client.leaves \/ ~isOpen ~> phase \in {"closed", "killed"}

(* readme.txt:41: lines are parsed up to their "\r\n".  A well-formed       *)
(* request for a file that is there is not answered by an error, however    *)
(* its bytes are cut into packets.                                          *)
WellFormedIsServed == res # NULL => ~res.err
=============================================================================
