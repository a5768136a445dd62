-------------------------- MODULE HttpConn_proofs --------------------------
(***************************************************************************)
(* Theorems about HttpConn, for any clients, sizes of the buffers and of    *)
(* the pipe, and sizes of responses: type correctness, that nothing is left *)
(* over between two responses nor left to do when the server waits for the  *)
(* client, that the connection is closed only behind the response that says *)
(* so, and that responses leave in order.                                   *)
(*                                                                         *)
(* The last three rest on one invariant (ConnInv): the last byte that has   *)
(* gone into the write buffer tells which response is under way and how     *)
(* much of it is left, or, before a program has printed and when there is   *)
(* no response, that the one before is complete and did not end the         *)
(* connection.  For what is left to do, WatchInv adds that a response under *)
(* way has a descriptor that select watches, and each request a response.   *)
(***************************************************************************)
EXTENDS HttpConn, SequenceTheorems, NaturalsInduction, WellFoundedInduction, TLAPS

-----------------------------------------------------------------------------
(* The parts of the state *)

States == {"requestLine", "headerLine", "content", "requestDone", "requestError"}
Requests == [curState : States, line : RequestLines \cup {"none"}, header : SUBSET Headers,
             contentLength : Nat]
ResponseBytes == [no : Nat, rest : Nat, err : BOOLEAN, close : BOOLEAN]

(* Content comes after the header, and no more of it than content-length.   *)
RequestOK(r) ==
  LET given == r.header \cap DOMAIN ContentLengths
  IN /\ r \in Requests
     /\ r.curState \in {"requestLine", "headerLine"} => r.contentLength = 0
     /\ r.curState = "content" =>
          given # {} /\ r.contentLength <= ContentLengths[CHOOSE h \in given : TRUE]

(* TypeOK, and what the parser and the buffers need to keep it.             *)
TypeInv ==
  /\ client \in Clients /\ pos \in 0..Len(client.bytes)
  /\ phase \in {"select", "read", "process", "parse", "respond", "pipe", "write", "remove", "closed",
              "killed"}
  /\ ready \subseteq {"R", "W", "C"}
  /\ readBuffer \in [1..BufSize -> Bytes] /\ curReadSize \in 0..BufSize
  /\ thisPtr \in 0..curReadSize /\ (phase # "parse" => thisPtr = 0) /\ full \in BOOLEAN
  /\ RequestOK(req)
  /\ res \in Responses \cup {NULL} /\ responses \in Nat
  /\ writeBuffer \in Seq(ResponseBytes) /\ Len(writeBuffer) <= BufSize /\ sent \in Seq(ResponseBytes)
  /\ wbStatus \in {"initRes", "writingRes", "lastRes", "doneRes"}
  /\ CGIout \in BOOLEAN /\ cgi \in [left : Nat, pipe : 0..PipeSize]
  /\ isOpen \in BOOLEAN

LEMMA Sizes ==
  /\ BufSize \in Nat /\ BufSize > 0 /\ PipeSize \in Nat /\ PipeSize > 0
  /\ \A r \in Responses : r # NULL
BY HttpAssumption

LEMMA TypeInvIsTypeOK == TypeInv => TypeOK
<1> SUFFICES ASSUME TypeInv PROVE TypeOK
  OBVIOUS
<1>1. thisPtr \in 0..BufSize
  BY Sizes DEF TypeInv
<1>2. req \in [curState : {"requestLine", "headerLine", "content", "requestDone", "requestError"},
                line : RequestLines \cup {"none"}, header : SUBSET Headers, contentLength : Nat]
  BY DEF TypeInv, RequestOK, Requests, States
<1> QED
  BY <1>1, <1>2 DEF TypeInv, TypeOK

LEMMA LengthType == \A h \in DOMAIN ContentLengths : ContentLengths[h] \in Nat
BY DEF ContentLengths

LEMMA NewRequest == RequestOK(CreateRequestObj)
BY DEF CreateRequestObj, RequestOK, Requests, States

-----------------------------------------------------------------------------
(* Type correctness *)

LEMMA TypeInit == Init => TypeInv
<1> SUFFICES ASSUME Init PROVE TypeInv
  OBVIOUS
<1>1. client \in ClientType /\ client.bytes \in Seq(Bytes)
  BY HttpAssumption DEF Init, ClientType
<1>2. Len(client.bytes) \in Nat
  BY <1>1, LenProperties
<1>3. readBuffer \in [1..BufSize -> Bytes]
  BY DEF Init, Bytes
<1>4. writeBuffer \in Seq(ResponseBytes) /\ Len(writeBuffer) = 0 /\ sent \in Seq(ResponseBytes)
  BY EmptySeq DEF Init
<1>5. RequestOK(req)
  BY NewRequest DEF Init
<1>7. cgi \in [left : Nat, pipe : 0..PipeSize]
  BY Sizes DEF Init
<1>8. pos \in 0..Len(client.bytes) /\ curReadSize \in 0..BufSize /\ thisPtr \in 0..curReadSize
  BY <1>2, Sizes DEF Init
<1>9. Len(writeBuffer) <= BufSize
  BY <1>4, Sizes
<1>10. /\ client \in Clients /\ phase = "select" /\ ready = {} /\ thisPtr = 0 /\ full = FALSE
       /\ res = NULL /\ responses = 0 /\ wbStatus = "initRes" /\ CGIout = FALSE /\ isOpen = TRUE
  BY DEF Init
<1> QED
  BY <1>3, <1>4, <1>5, <1>7, <1>8, <1>9, <1>10 DEF TypeInv

LEMMA ClientBytes ==
  ASSUME TypeInv
  PROVE  client.bytes \in Seq(Bytes) /\ Len(client.bytes) \in Nat /\ client.output \in Nat
<1>1. client \in ClientType
  BY HttpAssumption DEF TypeInv
<1> QED
  BY <1>1, LenProperties DEF ClientType

LEMMA SelectType ==
  ASSUME TypeInv, Select
  PROVE  TypeInv'
<1>1. ready' \subseteq {"R", "W", "C"}
  BY DEF Select, MayBeReady, CreatePool
<1> QED
  BY <1>1 DEF Select, TypeInv, clientVars, readVars, parseVars, resVars, cgiVars

LEMMA ReadType ==
  ASSUME TypeInv, ReadConnection
  PROVE  TypeInv'
<1>1. /\ UNCHANGED <<client, ready, thisPtr, full, req, res, responses, writeBuffer, wbStatus, CGIout, cgi, sent>>
      /\ phase = "read" /\ phase' = "process"
  BY DEF ReadConnection, parseVars, resVars, cgiVars
<1>2. pos' \in 0..Len(client.bytes) /\ readBuffer' \in [1..BufSize -> Bytes] /\ curReadSize' \in 0..BufSize
  <2>1. CASE UNCHANGED <<pos, readVars>>
    BY <2>1 DEF readVars, TypeInv
  <2>2. ASSUME NEW n \in 1..Least(BufSize - curReadSize, Len(client.bytes) - pos),
               readBuffer' = [i \in 1..BufSize |->
                  IF i \in curReadSize + 1..curReadSize + n
                  THEN client.bytes[pos + i - curReadSize] ELSE readBuffer[i]],
               curReadSize' = curReadSize + n, pos' = pos + n
        PROVE  pos' \in 0..Len(client.bytes) /\ readBuffer' \in [1..BufSize -> Bytes] /\ curReadSize' \in 0..BufSize
    <3>1. /\ pos \in Nat /\ curReadSize \in Nat /\ n \in Nat
          /\ n <= BufSize - curReadSize /\ n <= Len(client.bytes) - pos
      BY Sizes, ClientBytes DEF Least, TypeInv
    <3>2. ASSUME NEW i \in curReadSize + 1..curReadSize + n
          PROVE  client.bytes[pos + i - curReadSize] \in Bytes
      <4>1. pos + i - curReadSize \in 1..Len(client.bytes)
        BY <3>1, ClientBytes
      <4> QED
        BY <4>1, ClientBytes, ElementOfSeq
    <3> QED
      BY SMTT(30), <2>2, <3>1, <3>2, Sizes, ClientBytes DEF TypeInv
  <2> QED
    BY <2>1, <2>2 DEF ReadConnection, readVars
<1>3. isOpen' \in BOOLEAN
  BY DEF ReadConnection, TypeInv
<1> QED
  BY <1>1, <1>2, <1>3 DEF TypeInv

LEMMA ProcessType ==
  ASSUME TypeInv, ProcessConnection
  PROVE  TypeInv'
<1>1. phase' \in {"pipe", "respond", "parse"} /\ full' \in BOOLEAN
  BY DEF ProcessConnection, IsFull
<1>2. phase = "process" /\ thisPtr = 0
  BY DEF ProcessConnection, TypeInv
<1> QED
  BY <1>1, <1>2 DEF ProcessConnection, TypeInv, clientVars, readVars, resVars, cgiVars

(* nextToken finds the first end of a line.                                 *)
LEMMA FirstToken ==
  ASSUME NEW S \in SUBSET Nat, S # {}
  PROVE  (CHOOSE i \in S : \A j \in S : i <= j) \in S
<1> DEFINE Less == OpToRel(<, Nat)
<1>1. \A i, j \in Nat : i < j => <<i, j>> \in Less
  BY DEF OpToRel
<1>2. IsWellFoundedOn(Less, Nat)
  BY NatLessThanWellFounded
<1> HIDE DEF Less
<1>3. PICK i \in S : \A j \in S : <<j, i>> \notin Less
  BY <1>2, WFMin, Zenon
<1>4. \A j \in S : i <= j
  <2>1. \A j \in S : ~(j < i)
    BY <1>1, <1>3
  <2> QED
    BY <2>1
<1> QED
  BY <1>4

LEMMA TokensType ==
  ASSUME TypeInv, NEW after
  PROVE  NextTokens(after) \in SUBSET Nat /\ \A i \in NextTokens(after) : i > thisPtr
BY Sizes DEF NextTokens, TypeInv

(* What was parsed leaves the read buffer.                                  *)
LEMMA EndParseType ==
  ASSUME TypeInv, NEW parsed \in Nat, NEW r \in Requests, EndParse(parsed, r)
  PROVE  /\ req' = r /\ thisPtr' = 0 /\ full' \in BOOLEAN /\ phase' \in {"respond", "pipe"}
         /\ readBuffer' \in [1..BufSize -> Bytes] /\ curReadSize' \in 0..BufSize
<1> DEFINE size == Least(parsed, curReadSize)
<1>1. curReadSize \in Nat /\ curReadSize <= BufSize /\ size \in Nat /\ size <= curReadSize
  BY Sizes DEF TypeInv, Least
<1>2. readBuffer' = [i \in 1..BufSize |->
          IF i <= curReadSize - size THEN readBuffer[i + size] ELSE readBuffer[i]]
  BY DEF EndParse
<1>3. curReadSize' = curReadSize - size
  BY DEF EndParse
<1> HIDE DEF size
<1>4. readBuffer' \in [1..BufSize -> Bytes]
  BY <1>1, <1>2, Sizes DEF TypeInv
<1>5. curReadSize' \in 0..BufSize
  BY <1>1, <1>3, Sizes
<1> QED
  BY <1>4, <1>5 DEF EndParse

LEMMA ParsedType ==
  ASSUME TypeInv, phase = "parse", NEW parsed \in Nat, NEW r \in Requests, Parsed(parsed, r)
  PROVE  /\ req' = r /\ full' \in BOOLEAN /\ phase' \in {"respond", "pipe", "parse"}
         /\ readBuffer' \in [1..BufSize -> Bytes] /\ curReadSize' \in 0..BufSize
         /\ thisPtr' \in 0..curReadSize' /\ (phase' # "parse" => thisPtr' = 0)
<1>1. thisPtr \in Nat /\ curReadSize \in Nat
  BY Sizes DEF TypeInv
<1>2. CASE EndParse(thisPtr, r) \/ EndParse(parsed, r)
  <2>1. /\ req' = r /\ thisPtr' = 0 /\ full' \in BOOLEAN /\ phase' \in {"respond", "pipe"}
        /\ readBuffer' \in [1..BufSize -> Bytes] /\ curReadSize' \in 0..BufSize
    BY <1>1, <1>2, EndParseType
  <2> QED
    BY <2>1, Sizes
<1>3. CASE ~(parsed >= curReadSize) /\ req' = r /\ thisPtr' = parsed /\ full' = FALSE /\ UNCHANGED <<phase, readVars>>
  <2>1. phase' = "parse" /\ thisPtr' \in 0..curReadSize /\ curReadSize' = curReadSize /\ readBuffer' = readBuffer
    BY <1>1, <1>3 DEF readVars
  <2> QED
    BY <1>3, <2>1 DEF TypeInv
<1> QED
  BY <1>2, <1>3 DEF Parsed

LEMMA RequestErrorOK ==
  ASSUME TypeInv
  PROVE  RequestOK(RequestError) /\ RequestError.curState = "requestError"
BY DEF TypeInv, RequestOK, RequestError, Requests, States

LEMMA ParseRequestLineOK ==
  ASSUME TypeInv, req.curState = "requestLine", NEW line
  PROVE  RequestOK(ParseRequestLine(line))
<1>1. RequestOK(req)
  BY DEF TypeInv
<1>2. ASSUME NEW text, Head(text) \in RequestLines
      PROVE  RequestOK([req EXCEPT !.curState = "headerLine", !.line = Head(text)])
  BY <1>1, <1>2 DEF RequestOK, Requests, States
<1> QED
  BY <1>2, RequestErrorOK DEF ParseRequestLine

LEMMA ParseHeaderLineOK ==
  ASSUME TypeInv, req.curState = "headerLine", NEW line
  PROVE  RequestOK(ParseHeaderLine(line))
<1>1. RequestOK(req) /\ req \in Requests /\ req.contentLength = 0
  BY DEF TypeInv, RequestOK
<1>2. ASSUME line[1] \in Headers
      PROVE  RequestOK([req EXCEPT !.header = @ \cup {line[1]}])
  BY <1>1, <1>2 DEF RequestOK, Requests
<1>3. RequestOK([req EXCEPT !.curState = "requestDone"])
  BY <1>1 DEF RequestOK, Requests, States
<1>4. ASSUME IsValidRequest, IsPost
      PROVE  RequestOK([req EXCEPT !.curState = "content"])
  <2> DEFINE given == req.header \cap DOMAIN ContentLengths
             r     == [req EXCEPT !.curState = "content"]
  <2>1. given # {}
    BY <1>4 DEF IsValidRequest, LengthGiven
  <2>2. ContentLengths[CHOOSE h \in given : TRUE] \in Nat
    BY <2>1, LengthType
  <2>3. r \in Requests /\ r.curState = "content" /\ r.contentLength = 0 /\ r.header = req.header
    BY <1>1 DEF Requests, States
  <2> HIDE DEF r
  <2>4. RequestOK(r)
    BY <2>1, <2>2, <2>3 DEF RequestOK
  <2> QED
    BY <2>4 DEF r
<1> QED
  BY <1>2, <1>3, <1>4, RequestErrorOK DEF ParseHeaderLine

LEMMA ParseLineType ==
  ASSUME TypeInv, ParseLine
  PROVE  TypeInv'
<1>1. phase = "parse" /\ req.curState \in {"requestLine", "headerLine"}
  BY DEF ParseLine
<1>2. UNCHANGED <<client, pos, ready, res, responses, writeBuffer, wbStatus, CGIout, cgi, isOpen, sent>>
  BY DEF ParseLine, clientVars, resVars, cgiVars
<1>3. thisPtr \in Nat
  BY Sizes DEF TypeInv
<1>4. PICK after \in {"LF", "junk"} :
       IF NextTokens(after) = {}
       THEN EndParse(thisPtr, IF full THEN RequestError ELSE req)
       ELSE LET end  == CHOOSE i \in NextTokens(after) : \A j \in NextTokens(after) : i <= j
                line == LineUpTo(end, after)
            IN Parsed(end, IF req.curState = "requestLine" THEN ParseRequestLine(line)
                                                           ELSE ParseHeaderLine(line))
  BY DEF ParseLine
<1>5. PICK r : /\ RequestOK(r) /\ req' = r /\ full' \in BOOLEAN /\ phase' \in {"respond", "pipe", "parse"}
               /\ readBuffer' \in [1..BufSize -> Bytes] /\ curReadSize' \in 0..BufSize
               /\ thisPtr' \in 0..curReadSize' /\ (phase' # "parse" => thisPtr' = 0)
  <2>1. CASE NextTokens(after) = {}
    <3> DEFINE r == IF full THEN RequestError ELSE req
    <3>1. RequestOK(r) /\ EndParse(thisPtr, r)
      BY <1>4, <2>1, RequestErrorOK DEF TypeInv
    <3> HIDE DEF r
    <3>2. r \in Requests
      BY <3>1 DEF RequestOK
    <3>3. /\ req' = r /\ thisPtr' = 0 /\ full' \in BOOLEAN /\ phase' \in {"respond", "pipe"}
          /\ readBuffer' \in [1..BufSize -> Bytes] /\ curReadSize' \in 0..BufSize
      BY <1>3, <3>1, <3>2, EndParseType
    <3>4. thisPtr' \in 0..curReadSize'
      BY <3>3, Sizes
    <3> QED
      BY <3>1, <3>3, <3>4
  <2>2. CASE NextTokens(after) # {}
    <3> DEFINE end  == CHOOSE i \in NextTokens(after) : \A j \in NextTokens(after) : i <= j
               line == LineUpTo(end, after)
               r    == IF req.curState = "requestLine" THEN ParseRequestLine(line) ELSE ParseHeaderLine(line)
    <3>1. Parsed(end, r)
      BY <1>4, <2>2
    <3>2. end \in Nat
      BY <2>2, TokensType, FirstToken
    <3> HIDE DEF end, line
    <3>3. RequestOK(r)
      BY <1>1, ParseRequestLineOK, ParseHeaderLineOK
    <3> HIDE DEF r
    <3>4. r \in Requests
      BY <3>3 DEF RequestOK
    <3> QED
      BY <1>1, <3>1, <3>2, <3>3, <3>4, ParsedType
  <2> QED
    BY <2>1, <2>2
<1> QED
  BY <1>2, <1>5 DEF TypeInv

LEMMA ParseContentType ==
  ASSUME TypeInv, ParseContent
  PROVE  TypeInv'
<1> DEFINE length   == ContentLengths[CHOOSE h \in LengthGiven : TRUE]
           lineSize == curReadSize - thisPtr
           missing  == length - req.contentLength
<1>1. phase = "parse" /\ req.curState = "content"
  BY DEF ParseContent
<1>2. UNCHANGED <<client, pos, ready, res, responses, writeBuffer, wbStatus, CGIout, cgi, isOpen, sent>>
  BY DEF ParseContent, clientVars, resVars, cgiVars
<1>3. req \in Requests /\ LengthGiven # {} /\ req.contentLength <= length
  BY <1>1 DEF TypeInv, RequestOK, LengthGiven
<1>4. length \in Nat /\ req.contentLength \in Nat
  BY <1>3, LengthType DEF LengthGiven, Requests
<1>5. thisPtr \in Nat /\ curReadSize \in Nat /\ lineSize \in Nat
  BY Sizes DEF TypeInv
<1>6. PICK parsed, r : parsed \in Nat /\ RequestOK(r) /\ Parsed(parsed, r)
  <2>1. CASE missing <= lineSize
    <3>1. Parsed(thisPtr + missing, [req EXCEPT !.curState = "requestDone", !.contentLength = length])
      BY <2>1 DEF ParseContent
    <3> HIDE DEF length
    <3>2. RequestOK([req EXCEPT !.curState = "requestDone", !.contentLength = length])
      BY <1>3, <1>4 DEF RequestOK, Requests, States
    <3>3. thisPtr + missing \in Nat
      BY <1>3, <1>4, <1>5
    <3> QED
      BY <3>1, <3>2, <3>3
  <2>2. CASE ~(missing <= lineSize)
    <3> DEFINE r == [req EXCEPT !.contentLength = @ + lineSize]
    <3>1. Parsed(thisPtr + lineSize, r)
      BY <2>2 DEF ParseContent
    <3>2. /\ r \in Requests /\ r.curState = "content" /\ r.header = req.header
          /\ r.contentLength = req.contentLength + lineSize
      BY <1>1, <1>3, <1>4, <1>5 DEF Requests
    <3>3. r.contentLength <= length
      BY <1>4, <1>5, <2>2, <3>2
    <3> HIDE DEF r
    <3>4. RequestOK(r)
      BY <1>3, <3>2, <3>3 DEF RequestOK, LengthGiven
    <3>5. thisPtr + lineSize \in Nat
      BY <1>5
    <3> QED
      BY <3>1, <3>4, <3>5
  <2> QED
    BY <2>1, <2>2
<1>7. r \in Requests
  BY <1>6 DEF RequestOK
<1>8. /\ req' = r /\ full' \in BOOLEAN /\ phase' \in {"respond", "pipe", "parse"}
      /\ readBuffer' \in [1..BufSize -> Bytes] /\ curReadSize' \in 0..BufSize
      /\ thisPtr' \in 0..curReadSize' /\ (phase' # "parse" => thisPtr' = 0)
  BY <1>1, <1>6, <1>7, ParsedType
<1> QED
  BY <1>2, <1>6, <1>8 DEF TypeInv

(* n bytes of a response, the first of which k - 1 follow.                  *)
Piece(r, k, no, n) == [i \in 1..n |-> ResponseByte(r, k - i, no)]

LEMMA BytesType ==
  ASSUME NEW r \in Responses, NEW k \in Nat, NEW no \in Nat, NEW n \in Nat, n <= k
  PROVE  Piece(r, k, no, n) \in Seq(ResponseBytes) /\ Len(Piece(r, k, no, n)) = n
<1>1. \A i \in 1..n : ResponseByte(r, k - i, no) \in ResponseBytes
  BY DEF ResponseByte, ResponseBytes, Responses
<1>2. [i \in 1..n |-> ResponseByte(r, k - i, no)] \in [1..n -> ResponseBytes]
  BY <1>1
<1> QED
  BY <1>2 DEF Piece

LEMMA DumpType ==
  ASSUME TypeInv, NEW r \in Responses, NEW no \in Nat, DumpResponse(r, no)
  PROVE  \E n \in Nat :
           /\ n <= r.rest /\ (n = 0 => r.rest = 0 \/ Len(writeBuffer) = BufSize)
           /\ writeBuffer' = writeBuffer \o Piece(r, r.rest, no, n)
           /\ writeBuffer' \in Seq(ResponseBytes) /\ Len(writeBuffer') <= BufSize
           /\ res' = [r EXCEPT !.rest = r.rest - n] /\ res' \in Responses
           /\ wbStatus' \in {"lastRes", "writingRes"} /\ (wbStatus' = "lastRes" => n = r.rest)
<1> DEFINE free == BufSize - Len(writeBuffer)
           n    == DumpSize(free, r.rest)
<1>1. Len(writeBuffer) \in Nat /\ free \in Nat /\ r.rest \in Nat
  BY Sizes, LenProperties DEF TypeInv, Responses
<1>2. n \in Nat /\ n <= r.rest /\ n <= free /\ (n = free \/ n = r.rest)
  BY <1>1 DEF DumpSize, Least
<1>3. /\ writeBuffer' = writeBuffer \o Piece(r, r.rest, no, n)
      /\ res' = [r EXCEPT !.rest = @ - n]
      /\ wbStatus' = IF DumpDone(free, r.rest) THEN "lastRes" ELSE "writingRes"
  BY DEF DumpResponse, Piece
<1>4. DumpDone(free, r.rest) => n = r.rest
  BY <1>1 DEF DumpDone, DumpSize, Least
<1> HIDE DEF n
<1>5. n = 0 => r.rest = 0 \/ Len(writeBuffer) = BufSize
  BY <1>1, <1>2, Sizes
<1>6. res' = [r EXCEPT !.rest = r.rest - n] /\ res' \in Responses
  <2>1. res' = [r EXCEPT !.rest = r.rest - n]
    BY <1>3
  <2>2. r.rest - n \in Nat
    BY <1>1, <1>2
  <2>3. [r EXCEPT !.rest = r.rest - n] \in Responses
    BY <2>2 DEF Responses
  <2> QED
    BY <2>1, <2>3
<1> DEFINE bytes == Piece(r, r.rest, no, n)
<1>7. bytes \in Seq(ResponseBytes) /\ Len(bytes) = n
  <2>1. r \in Responses /\ r.rest \in Nat /\ no \in Nat /\ n \in Nat /\ n <= r.rest
    BY <1>1, <1>2
  <2> QED
    BY ZenonT(30), <2>1, BytesType
<1>8. writeBuffer' = writeBuffer \o bytes
  BY <1>3
<1> HIDE DEF bytes
<1>9. writeBuffer' \in Seq(ResponseBytes) /\ Len(writeBuffer') = Len(writeBuffer) + n
  BY <1>7, <1>8, ConcatProperties DEF TypeInv
<1>10. Len(writeBuffer') <= BufSize
  BY <1>1, <1>2, <1>9, Sizes
<1> QED
  BY <1>2, <1>3, <1>4, <1>5, <1>6, <1>9, <1>10

LEMMA NewResponsesType ==
  ASSUME TypeInv, NEW q, NEW r \in HTTPResponses(q)
  PROVE  r \in Responses /\ r.rest > 0 /\ ~r.isCGI
<1>1. r.isCGI = FALSE /\ r.err = ErrorFlag(q) /\ r.close \in BOOLEAN /\ r.rest \in ResSizes
  BY DEF HTTPResponses, ErrorFlag
<1>2. r.rest \in Nat /\ r.rest > 0
  <2>1. r.rest \in Nat \ {0}
    BY <1>1, HttpAssumption
  <2> QED
    BY <2>1
<1>3. r \in Responses
  BY <1>2 DEF HTTPResponses, ErrorFlag, Responses
<1> QED
  BY <1>1, <1>2, <1>3

LEMMA RespondType ==
  ASSUME TypeInv, Respond
  PROVE  TypeInv'
<1>1. /\ UNCHANGED <<client, pos, ready, readBuffer, curReadSize, thisPtr, full, isOpen, sent>>
      /\ phase = "respond" /\ phase' = "pipe"
  BY DEF Respond, clientVars, readVars
<1>2. ASSUME NEW r \in Responses, NEW no \in Nat, DumpResponse(r, no)
      PROVE  /\ res' \in Responses /\ writeBuffer' \in Seq(ResponseBytes) /\ Len(writeBuffer') <= BufSize
             /\ wbStatus' \in {"initRes", "writingRes", "lastRes", "doneRes"}
  BY <1>2, DumpType
<1>3. responses \in Nat /\ responses + 1 \in Nat
  BY DEF TypeInv
<1>4. CASE res = NULL /\ ~IsCGIRequest
  <2>1. PICK r \in HTTPResponses(req) : DumpResponse(r, responses + 1)
    BY <1>4 DEF Respond
  <2>2. responses' = responses + 1 /\ UNCHANGED <<req, CGIout, cgi>>
    BY <1>4 DEF Respond, cgiVars
  <2>3. r \in Responses
    BY NewResponsesType
  <2> QED
    BY <1>1, <1>2, <1>3, <2>1, <2>2, <2>3 DEF TypeInv
<1>5. CASE res = NULL /\ IsCGIRequest /\ StartProgram /\ responses' = responses + 1 /\ UNCHANGED <<req, writeBuffer, wbStatus>>
  <2>1. res' \in Responses
    BY <1>5 DEF StartProgram, Responses
  <2>2. CGIout' \in BOOLEAN /\ cgi' \in [left : Nat, pipe : 0..PipeSize]
    BY <1>5, ClientBytes, Sizes DEF StartProgram
  <2> QED
    BY <1>1, <1>3, <1>5, <2>1, <2>2 DEF TypeInv
<1>6. CASE /\ res = NULL /\ req' = RequestError /\ responses' = responses + 1 /\ UNCHANGED <<CGIout, cgi>>
           /\ \E r \in HTTPResponses(RequestError) : DumpResponse(r, responses + 1)
  <2>1. PICK r \in HTTPResponses(RequestError) : DumpResponse(r, responses + 1)
    BY <1>6
  <2>2. r \in Responses
    BY NewResponsesType
  <2>3. RequestOK(req')
    BY <1>6, RequestErrorOK
  <2> QED
    BY <1>1, <1>2, <1>3, <1>6, <2>1, <2>2, <2>3 DEF TypeInv
<1>7. CASE res # NULL
  <2>1. UNCHANGED <<req, responses, CGIout, cgi>> /\ res \in Responses
    BY <1>7 DEF Respond, cgiVars, TypeInv
  <2>2. CASE res.isCGI
    <3>1. UNCHANGED <<res, writeBuffer, wbStatus>>
      BY <1>7, <2>2 DEF Respond
    <3> QED
      BY <1>1, <2>1, <3>1 DEF TypeInv
  <2>3. CASE ~res.isCGI
    <3>1. DumpResponse(res, responses)
      BY <1>7, <2>3 DEF Respond
    <3> QED
      BY <1>1, <1>2, <1>3, <2>1, <3>1 DEF TypeInv
  <2> QED
    BY <2>2, <2>3
<1> QED
  BY <1>4, <1>5, <1>6, <1>7 DEF Respond, cgiVars

LEMMA ProgramType ==
  ASSUME TypeInv, ProgramPrints
  PROVE  TypeInv'
<1>1. cgi \in [left : Nat, pipe : 0..PipeSize] /\ cgi.left > 0 /\ cgi.pipe < PipeSize
  BY DEF TypeInv, ProgramPrints
<1>2. cgi' \in [left : Nat, pipe : 0..PipeSize]
  BY <1>1, Sizes DEF ProgramPrints
<1> QED
  BY <1>2 DEF ProgramPrints, TypeInv, clientVars, readVars, parseVars, resVars

(* What a program has printed goes into the write buffer.                   *)
LEMMA PipeMoves ==
  ASSUME TypeInv, CGIout => res # NULL, PipeConnection
  PROVE  \/ UNCHANGED <<writeBuffer, wbStatus, CGIout, cgi>>
         \/ \E n \in Nat : /\ CGIout /\ n > 0 /\ n <= cgi.pipe
                           /\ writeBuffer' = writeBuffer \o Piece(res, cgi.left + cgi.pipe, responses, n)
                           /\ writeBuffer' \in Seq(ResponseBytes) /\ Len(writeBuffer') <= BufSize
                           /\ cgi' = [cgi EXCEPT !.pipe = cgi.pipe - n] /\ UNCHANGED <<wbStatus, CGIout>>
         \/ /\ CGIout /\ cgi.pipe = 0 /\ cgi.left = 0
            /\ ~CGIout' /\ wbStatus' = "lastRes" /\ UNCHANGED <<writeBuffer, cgi>>
<1> DEFINE free == BufSize - Len(writeBuffer)
<1>1. Len(writeBuffer) \in Nat /\ free \in Nat /\ cgi.pipe \in Nat /\ cgi.left \in Nat
  BY Sizes, LenProperties DEF TypeInv
<1>2. CASE ~CGIout \/ "C" \notin ready \/ free = 0
  BY <1>2 DEF PipeConnection, cgiVars
<1>3. CASE CGIout /\ cgi.pipe = 0 /\ cgi.left = 0 /\ CGIout' = FALSE /\ wbStatus' = "lastRes" /\ UNCHANGED <<writeBuffer, cgi>>
  BY <1>3
<1>4. ASSUME CGIout, NEW n \in 1..Least(free, cgi.pipe),
             writeBuffer' = writeBuffer \o Piece(res, cgi.left + cgi.pipe, responses, n),
             cgi' = [cgi EXCEPT !.pipe = @ - n], UNCHANGED <<wbStatus, CGIout>>
      PROVE  /\ n \in Nat /\ n > 0 /\ n <= cgi.pipe
             /\ writeBuffer' \in Seq(ResponseBytes) /\ Len(writeBuffer') <= BufSize
  <2>1. n \in Nat /\ n > 0 /\ n <= free /\ n <= cgi.pipe /\ n <= cgi.left + cgi.pipe /\ cgi.left + cgi.pipe \in Nat
    BY <1>1 DEF Least
  <2>2. res \in Responses /\ responses \in Nat
    BY <1>4 DEF TypeInv
  <2> DEFINE bytes == Piece(res, cgi.left + cgi.pipe, responses, n)
  <2>3. bytes \in Seq(ResponseBytes) /\ Len(bytes) = n
    BY <2>1, <2>2, BytesType
  <2>4. writeBuffer' = writeBuffer \o bytes
    BY <1>4
  <2> HIDE DEF bytes
  <2>5. writeBuffer' \in Seq(ResponseBytes) /\ Len(writeBuffer') = Len(writeBuffer) + n
    BY <2>3, <2>4, ConcatProperties DEF TypeInv
  <2>6. Len(writeBuffer') <= BufSize
    BY <1>1, <2>1, <2>5, Sizes
  <2> QED
    BY <2>1, <2>5, <2>6
<1>5. ASSUME CGIout, NEW n \in 1..Least(free, cgi.pipe),
             writeBuffer' = writeBuffer \o Piece(res, cgi.left + cgi.pipe, responses, n),
             cgi' = [cgi EXCEPT !.pipe = @ - n], UNCHANGED <<wbStatus, CGIout>>
      PROVE  \E k \in Nat : /\ CGIout /\ k > 0 /\ k <= cgi.pipe
                           /\ writeBuffer' = writeBuffer \o Piece(res, cgi.left + cgi.pipe, responses, k)
                           /\ writeBuffer' \in Seq(ResponseBytes) /\ Len(writeBuffer') <= BufSize
                           /\ cgi' = [cgi EXCEPT !.pipe = cgi.pipe - k] /\ UNCHANGED <<wbStatus, CGIout>>
  <2>1. /\ n \in Nat /\ n > 0 /\ n <= cgi.pipe
        /\ writeBuffer' \in Seq(ResponseBytes) /\ Len(writeBuffer') <= BufSize
    BY <1>4, <1>5
  <2> QED
    BY <1>5, <2>1
<1>6. CASE CGIout /\ "C" \in ready /\ free # 0 /\ ~(cgi.pipe = 0 /\ cgi.left = 0)
  <2>1. PICK n \in 1..Least(free, cgi.pipe) :
          /\ writeBuffer' = writeBuffer \o [i \in 1..n |-> ResponseByte(res, cgi.left + cgi.pipe - i, responses)]
          /\ cgi' = [cgi EXCEPT !.pipe = @ - n]
          /\ UNCHANGED <<wbStatus, CGIout>>
    BY <1>6, Zenon DEF PipeConnection
  <2>2. writeBuffer' = writeBuffer \o Piece(res, cgi.left + cgi.pipe, responses, n)
    <3>1. Piece(res, cgi.left + cgi.pipe, responses, n)
            = [i \in 1..n |-> ResponseByte(res, cgi.left + cgi.pipe - i, responses)]
      <4>1. \A i \in 1..n : (cgi.left + cgi.pipe) - i = cgi.left + (cgi.pipe - i)
        BY <1>1
      <4> QED
        BY <4>1, Zenon DEF Piece
    <3> QED
      BY <2>1, <3>1, Zenon
  <2> QED
    BY <1>5, <1>6, <2>1, <2>2
<1>7. CASE CGIout /\ "C" \in ready /\ free # 0 /\ cgi.pipe = 0 /\ cgi.left = 0
  <2>1. Least(free, cgi.pipe) = 0
    BY <1>1, <1>7 DEF Least
  <2>2. ~ \E n \in 1..Least(free, cgi.pipe) : TRUE
    BY <2>1
  <2> QED
    BY <1>3, <1>7, <2>2, Zenon DEF PipeConnection
<1> QED
  BY <1>2, <1>6, <1>7, Zenon

LEMMA PipeType ==
  ASSUME TypeInv, CGIout => res # NULL, PipeConnection
  PROVE  TypeInv'
<1>1. /\ UNCHANGED <<client, pos, ready, readBuffer, curReadSize, thisPtr, full, req, res, responses, isOpen, sent>>
      /\ phase = "pipe" /\ phase' = "write"
  BY DEF PipeConnection, clientVars, readVars, parseVars, resVars
<1>2. /\ writeBuffer' \in Seq(ResponseBytes) /\ Len(writeBuffer') <= BufSize
      /\ wbStatus' \in {"initRes", "writingRes", "lastRes", "doneRes"}
      /\ CGIout' \in BOOLEAN /\ cgi' \in [left : Nat, pipe : 0..PipeSize]
  <2>1. ASSUME NEW n \in Nat, n <= cgi.pipe
        PROVE  [cgi EXCEPT !.pipe = cgi.pipe - n] \in [left : Nat, pipe : 0..PipeSize]
    <3>1. cgi \in [left : Nat, pipe : 0..PipeSize]
      BY DEF TypeInv
    <3>2. cgi.pipe - n \in 0..PipeSize
      BY <2>1, <3>1, Sizes
    <3> QED
      BY <3>1, <3>2
  <2>2. ~CGIout' => CGIout' \in BOOLEAN
    BY DEF PipeConnection, cgiVars, TypeInv
  <2> QED
    BY <2>1, <2>2, PipeMoves DEF TypeInv
<1> QED
  BY <1>1, <1>2 DEF TypeInv

LEMMA WriteType ==
  ASSUME TypeInv, WriteConnection
  PROVE  TypeInv'
<1>1. /\ UNCHANGED <<client, pos, ready, readBuffer, curReadSize, thisPtr, full, responses, CGIout, cgi>>
      /\ phase = "write" /\ phase' = "remove"
  BY DEF WriteConnection, SendAll, clientVars, readVars, cgiVars
<1>2. CASE SendAll
  <2>1. sent' \in Seq(ResponseBytes) /\ writeBuffer' \in Seq(ResponseBytes) /\ Len(writeBuffer') <= BufSize
    BY <1>2, ConcatProperties, EmptySeq, Sizes DEF SendAll, TypeInv
  <2>2. /\ wbStatus' \in {"initRes", "writingRes", "lastRes", "doneRes"} /\ isOpen' \in BOOLEAN
        /\ res' \in Responses \cup {NULL} /\ RequestOK(req')
    BY <1>2, NewRequest DEF SendAll, PrepareNewConn, TypeInv
  <2> QED
    BY <1>1, <2>1, <2>2 DEF TypeInv
<1>3. CASE ~SendAll
  <2>1. UNCHANGED <<res, req, wbStatus, sent, writeBuffer>> /\ isOpen' \in BOOLEAN
    BY <1>3 DEF WriteConnection, TypeInv
  <2> QED
    BY <1>1, <2>1 DEF TypeInv
<1> QED
  BY <1>2, <1>3

LEMMA RemoveType ==
  ASSUME TypeInv, RemoveClosed
  PROVE  TypeInv'
<1>1. phase' \in {"select", "closed"} /\ CGIout' \in BOOLEAN /\ ready' = {} /\ phase = "remove"
  BY DEF RemoveClosed, TypeInv
<1> QED
  BY <1>1 DEF RemoveClosed, TypeInv, clientVars, readVars, parseVars, resVars

-----------------------------------------------------------------------------
(* The responses *)

Out == sent \o writeBuffer
LastByte == Out[Len(Out)]
LastNo == IF Out = << >> THEN 0 ELSE LastByte.no

(* The responses up to number no have left.                                 *)
Reached(no) == LastNo = no \/ (client.output = 0 /\ LastNo <= no)

(* No response is cut short, and none has ended the connection.             *)
Complete == Out = << >> \/ (LastByte.rest = 0 /\ ~LastByte.close)

(* A response of which rest bytes are left, and some have left.             *)
UnderWay(rest, close) ==
  Out # << >> /\ LastByte.no = responses /\ LastByte.rest = rest /\ LastByte.close = close

NoResponse ==
  /\ writeBuffer = << >> /\ ~CGIout /\ wbStatus \in {"initRes", "doneRes"}
  /\ Complete /\ Reached(responses)

ProgramResponse ==
  /\ ~res.close /\ wbStatus # "writingRes" /\ responses > 0
  /\ wbStatus = "lastRes" => ~CGIout /\ cgi.left = 0 /\ cgi.pipe = 0
  /\ \/ Complete /\ Reached(responses - 1) /\ cgi.left + cgi.pipe = client.output
     \/ UnderWay(cgi.left + cgi.pipe, FALSE)

FileResponse ==
  /\ ~CGIout /\ wbStatus # "initRes"
  /\ wbStatus = "doneRes" => ~isOpen /\ phase \in {"remove", "closed"}
  /\ wbStatus = "lastRes" => res.rest = 0
  /\ UnderWay(res.rest, res.close)

Ended ==
  sent # << >> /\ writeBuffer = << >> /\ sent[Len(sent)].rest = 0 /\ sent[Len(sent)].close

ConnInv ==
  /\ res = NULL => NoResponse
  /\ res # NULL => IF res.isCGI THEN ProgramResponse ELSE FileResponse
  /\ ~isOpen => /\ phase \notin {"select", "read", "parse", "respond"}
                /\ client.leaves \/ (phase \in {"remove", "closed"} /\ Ended)

IInv == TypeInv /\ ConnInv /\ ResponsesInOrder

LEMMA OutType ==
  ASSUME TypeInv
  PROVE  /\ Out \in Seq(ResponseBytes) /\ Len(Out) \in Nat /\ (Out = << >> <=> Len(Out) = 0)
         /\ Out # << >> => LastByte \in ResponseBytes
         /\ LastNo \in Nat
<1>1. Out \in Seq(ResponseBytes)
  BY ConcatProperties DEF TypeInv, Out
<1>2. Len(Out) \in Nat /\ (Out = << >> <=> Len(Out) = 0)
  BY <1>1, LenProperties, EmptySeq
<1>3. ASSUME Out # << >>
      PROVE  LastByte \in ResponseBytes
  <2>1. Len(Out) \in 1..Len(Out)
    BY <1>2, <1>3
  <2> QED
    BY <1>1, <2>1, ElementOfSeq DEF LastByte
<1>4. LastNo \in Nat
  BY <1>3 DEF LastNo, ResponseBytes
<1> QED
  BY <1>1, <1>2, <1>3, <1>4

(* What is sent has been in the write buffer before.                        *)
LEMMA SameOut ==
  ASSUME TypeInv, UNCHANGED client,
         UNCHANGED <<sent, writeBuffer>> \/ (sent' = sent \o writeBuffer /\ writeBuffer' = << >>)
  PROVE  /\ Out' = Out /\ LastByte' = LastByte /\ LastNo' = LastNo /\ Complete' = Complete
         /\ ResponsesInOrder => ResponsesInOrder'
<1>1. Out' = Out
  <2>1. CASE UNCHANGED <<sent, writeBuffer>>
    BY <2>1 DEF Out
  <2>2. CASE sent' = sent \o writeBuffer /\ writeBuffer' = << >>
    <3>1. sent \o writeBuffer \in Seq(ResponseBytes)
      BY ConcatProperties DEF TypeInv
    <3> QED
      BY <2>2, <3>1, ConcatEmptySeq DEF Out
  <2> QED
    BY <2>1, <2>2
<1>2. LastByte' = LastByte
  BY <1>1 DEF LastByte
<1>3. LastNo' = LastNo
  BY <1>1, <1>2 DEF LastNo
<1>4. Complete' = Complete
  BY <1>1, <1>2 DEF Complete
<1>5. ResponsesInOrder => ResponsesInOrder'
  BY <1>1 DEF ResponsesInOrder, Follows, Out
<1> QED
  BY <1>1, <1>2, <1>3, <1>4, <1>5

(* The bytes of a response follow those of the one before, or their own.    *)
LEMMA Chain ==
  ASSUME TypeInv, ResponsesInOrder, UNCHANGED <<client, sent>>,
         NEW r \in Responses, NEW k \in Nat, NEW no \in Nat, NEW n \in Nat, n > 0, n <= k,
         writeBuffer' = writeBuffer \o Piece(r, k, no, n),
         \/ Complete /\ Follows(LastNo, no)
         \/ Out # << >> /\ LastByte.rest = k /\ LastByte.no = no
  PROVE  /\ ResponsesInOrder' /\ Out' # << >>
         /\ LastByte'.no = no /\ LastByte'.rest = k - n /\ LastByte'.close = r.close
<1>1. PICK p : p = Piece(r, k, no, n)
  OBVIOUS
<1>2. p \in Seq(ResponseBytes) /\ Len(p) = n
  BY <1>1, BytesType
<1>3. \A i \in 1..n : p[i].no = no /\ p[i].rest = k - i /\ p[i].close = r.close
  BY <1>1 DEF Piece, ResponseByte
<1>4. PICK out : out = Out
  OBVIOUS
<1>5. PICK m \in Nat : m = Len(out)
  BY <1>4, OutType
<1>6. Out' = out \o p
  <2>1. sent \in Seq(ResponseBytes) /\ writeBuffer \in Seq(ResponseBytes)
    BY DEF TypeInv
  <2>2. (sent \o writeBuffer) \o p = sent \o (writeBuffer \o p)
    BY SMTT(30), <1>2, <2>1, ConcatAssociative
  <2>3. Out' = sent \o (writeBuffer \o p)
    BY <1>1 DEF Out
  <2> QED
    BY <1>4, <2>2, <2>3, Zenon DEF Out
<1>7. out \in Seq(ResponseBytes)
  BY <1>4, OutType
<1>8. PICK new : new = out \o p
  OBVIOUS
<1>9. /\ Len(new) = m + n
      /\ \A i \in 1..m : new[i] = out[i]
      /\ \A i \in m + 1..m + n : new[i] = p[i - m]
  <2>1. /\ Len(out \o p) = Len(out) + Len(p)
        /\ \A i \in 1..(Len(out) + Len(p)) : (out \o p)[i] = IF i <= Len(out) THEN out[i] ELSE p[i - Len(out)]
    BY <1>2, <1>7, ConcatProperties
  <2> QED
    BY <1>2, <1>5, <1>8, <2>1
<1>10. Out' = new /\ Len(Out') = m + n
  BY <1>6, <1>8, <1>9
<1>11. m + n \in m + 1..m + n /\ m + n # 0
  BY <1>5
<1>12. LastByte' = p[n]
  <2>1. new[m + n] = p[(m + n) - m] /\ (m + n) - m = n
    BY <1>9, <1>11
  <2> QED
    BY <1>10, <2>1 DEF LastByte
<1>13. Out' # << >>
  BY <1>10, <1>11, EmptySeq
<1>14. ASSUME NEW i \in 1..m + n
       PROVE  IF i = 1 THEN Follows(0, new[1].no)
              ELSE \/ new[i].no = new[i-1].no /\ new[i].rest + 1 = new[i-1].rest
                   \/ Follows(new[i-1].no, new[i].no) /\ new[i-1].rest = 0 /\ ~new[i-1].close
  <2>1. CASE i <= m
    <3>1. IF i = 1 THEN Follows(0, out[1].no)
          ELSE \/ out[i].no = out[i-1].no /\ out[i].rest + 1 = out[i-1].rest
               \/ Follows(out[i-1].no, out[i].no) /\ out[i-1].rest = 0 /\ ~out[i-1].close
      <4>1. i \in 1..Len(Out)
        BY <1>4, <1>5, <2>1
      <4>2. IF i = 1 THEN Follows(0, Out[1].no)
            ELSE \/ Out[i].no = Out[i-1].no /\ Out[i].rest + 1 = Out[i-1].rest
                 \/ Follows(Out[i-1].no, Out[i].no) /\ Out[i-1].rest = 0 /\ ~Out[i-1].close
        BY <4>1, Zenon DEF ResponsesInOrder, Out
      <4> QED
        BY <1>4, <4>2
    <3>2. new[i] = out[i] /\ (i # 1 => new[i-1] = out[i-1])
      BY <1>5, <1>9, <2>1
    <3> QED
      BY <3>1, <3>2
  <2>2. CASE i = m + 1
    <3>1. new[i].no = no /\ new[i].rest = k - 1
      <4>1. new[i] = p[1]
        BY <1>5, <1>9, <2>2
      <4> QED
        BY <1>3, <4>1
    <3>2. CASE m = 0
      <4>1. LastNo = 0 /\ Out = << >>
        BY <1>4, <1>5, <3>2, OutType DEF LastNo
      <4> QED
        BY <2>2, <3>1, <3>2, <4>1
    <3>3. CASE m # 0
      <4>1. new[i-1] = LastByte /\ i # 1
        BY <1>4, <1>5, <1>9, <2>2, <3>3 DEF LastByte
      <4>2. Out # << >> /\ LastNo = LastByte.no
        BY <1>4, <1>5, <3>3, OutType DEF LastNo
      <4> QED
        BY <3>1, <4>1, <4>2 DEF Complete
    <3> QED
      BY <3>2, <3>3
  <2>3. CASE i > m + 1
    <3>1. new[i] = p[i - m] /\ new[i-1] = p[(i - 1) - m] /\ i # 1
      <4>1. i \in m + 1..m + n /\ i - 1 \in m + 1..m + n /\ i # 1
        BY <1>5, <2>3
      <4> QED
        BY <1>9, <4>1
    <3>2. i - m \in 1..n /\ (i - 1) - m \in 1..n
      BY <1>5, <2>3
    <3>3. new[i].no = no /\ new[i-1].no = no /\ new[i].rest = k - (i - m) /\ new[i-1].rest = k - ((i - 1) - m)
      BY <1>3, <3>1, <3>2
    <3> QED
      BY <1>5, <3>1, <3>3
  <2>4. i <= m \/ i = m + 1 \/ i > m + 1
    BY <1>5
  <2> QED
    BY <2>1, <2>2, <2>3, <2>4, Zenon
<1>15. ResponsesInOrder'
  BY <1>10, <1>14 DEF ResponsesInOrder, Follows, Out
<1>16. p[n].no = no /\ p[n].rest = k - n /\ p[n].close = r.close
  BY <1>3
<1> QED
  BY <1>12, <1>13, <1>15, <1>16

(* A step that leaves the response and its bytes alone.                     *)
LEMMA QuietStep ==
  ASSUME IInv, UNCHANGED <<client, res, responses, writeBuffer, wbStatus, CGIout, cgi, sent>>,
         wbStatus = "doneRes" /\ ~isOpen /\ phase \in {"remove", "closed"} =>
           ~isOpen' /\ phase' \in {"remove", "closed"},
         ~isOpen' => /\ phase' \notin {"select", "read", "parse", "respond"}
                     /\ client.leaves \/ (phase' \in {"remove", "closed"} /\ Ended)
  PROVE  ConnInv' /\ ResponsesInOrder'
<1>1. Out' = Out /\ LastByte' = LastByte /\ LastNo' = LastNo /\ Complete' = Complete /\ ResponsesInOrder'
  BY SameOut DEF IInv
<1>2. NoResponse => NoResponse'
  BY <1>1 DEF NoResponse, Reached
<1>3. ProgramResponse => ProgramResponse'
  BY <1>1 DEF ProgramResponse, Reached, UnderWay
<1>4. FileResponse => FileResponse'
  BY <1>1 DEF FileResponse, UnderWay
<1>5. Ended' = Ended
  BY DEF Ended
<1> QED
  BY <1>1, <1>2, <1>3, <1>4, <1>5 DEF IInv, ConnInv

(* A response that is not a program's is dumped, from its beginning when    *)
(* there was none.                                                          *)
LEMMA DumpStep ==
  ASSUME IInv, NEW r \in Responses, NEW no \in Nat, DumpResponse(r, no), ~r.isCGI, ~CGIout,
         UNCHANGED <<client, sent, CGIout, isOpen>>, phase = "respond", phase' = "pipe", responses' = no,
         \/ NoResponse /\ r.rest > 0 /\ no = responses + 1
         \/ Out # << >> /\ LastByte.rest = r.rest /\ LastByte.no = no /\ LastByte.close = r.close
  PROVE  ConnInv' /\ ResponsesInOrder'
<1>1. PICK n \in Nat :
           /\ n <= r.rest /\ (n = 0 => r.rest = 0 \/ Len(writeBuffer) = BufSize)
           /\ writeBuffer' = writeBuffer \o Piece(r, r.rest, no, n)
           /\ writeBuffer' \in Seq(ResponseBytes) /\ Len(writeBuffer') <= BufSize
           /\ res' = [r EXCEPT !.rest = r.rest - n] /\ res' \in Responses
           /\ wbStatus' \in {"lastRes", "writingRes"} /\ (wbStatus' = "lastRes" => n = r.rest)
  BY DumpType DEF IInv
<1>2. PICK k : k = r.rest
  OBVIOUS
<1>3. k \in Nat /\ n <= k
  BY <1>1, <1>2 DEF Responses
<1>4. res'.rest = k - n /\ res'.close = r.close /\ res'.isCGI = FALSE /\ res' # NULL
  BY <1>1, <1>2, Sizes DEF Responses
<1>5. isOpen
  BY DEF IInv, ConnInv
<1>6. ResponsesInOrder' /\ Out' # << >> /\ LastByte'.no = no /\ LastByte'.rest = k - n /\ LastByte'.close = r.close
  <2>1. CASE n > 0
    <3>1. \/ Complete /\ Follows(LastNo, no)
          \/ Out # << >> /\ LastByte.rest = k /\ LastByte.no = no
      <4>1. ASSUME NoResponse, no = responses + 1
            PROVE  Complete /\ Follows(LastNo, no)
        <5>1. Complete /\ Reached(responses) /\ responses \in Nat /\ LastNo \in Nat
          BY <4>1, OutType DEF NoResponse, IInv, TypeInv
        <5> QED
          BY <4>1, <5>1 DEF Reached, Follows
      <4> QED
        BY <1>2, <4>1
    <3>2. writeBuffer' = writeBuffer \o Piece(r, k, no, n)
      BY <1>1, <1>2
    <3>3. TypeInv /\ ResponsesInOrder /\ UNCHANGED <<client, sent>>
      BY DEF IInv
    <3>4. n \in Nat /\ n > 0 /\ n <= k /\ k \in Nat /\ r \in Responses /\ no \in Nat
      BY <1>3, <2>1
    <3> QED
      BY ZenonT(30), <3>1, <3>2, <3>3, <3>4, Chain
  <2>2. CASE n = 0
    <3>1. Len(Piece(r, k, no, n)) = 0 /\ Piece(r, k, no, n) \in Seq(ResponseBytes)
      BY <1>3, <2>2, BytesType
    <3>2. writeBuffer' = writeBuffer
      <4>1. writeBuffer \in Seq(ResponseBytes)
        BY DEF IInv, TypeInv
      <4>2. Piece(r, k, no, n) = << >>
        BY <3>1, EmptySeq
      <4> QED
        BY <1>1, <1>2, <4>1, <4>2, ConcatEmptySeq
    <3>3. Out' = Out /\ LastByte' = LastByte /\ ResponsesInOrder'
      BY <3>2, SameOut DEF IInv
    <3>4. ~NoResponse \/ ~(r.rest > 0)
      <4>1. NoResponse => Len(writeBuffer) = 0
        BY EmptySeq DEF NoResponse
      <4> QED
        BY <1>1, <2>2, <4>1, Sizes
    <3> QED
      BY <1>2, <1>3, <2>2, <3>3, <3>4
  <2> QED
    BY <1>1, <2>1, <2>2
<1>7. FileResponse'
  <2>1. UnderWay(res.rest, res.close)'
    BY <1>4, <1>6 DEF UnderWay
  <2>2. wbStatus' = "lastRes" => res'.rest = 0
    BY <1>1, <1>2, <1>3, <1>4
  <2> QED
    BY <1>1, <2>1, <2>2 DEF FileResponse
<1> QED
  BY <1>4, <1>5, <1>6, <1>7 DEF ConnInv

LEMMA RespondStep ==
  ASSUME IInv, Respond
  PROVE  ConnInv' /\ ResponsesInOrder'
<1>1. UNCHANGED <<client, sent, isOpen>> /\ phase = "respond" /\ phase' = "pipe"
  BY DEF Respond, clientVars
<1>2. TypeInv /\ responses \in Nat /\ responses + 1 \in Nat
  BY DEF IInv, TypeInv
<1>3. ASSUME NEW q, NEW r \in HTTPResponses(q), res = NULL, DumpResponse(r, responses + 1),
             responses' = responses + 1, UNCHANGED CGIout
      PROVE  ConnInv' /\ ResponsesInOrder'
  <2>1. r \in Responses /\ r.rest > 0 /\ ~r.isCGI
    BY <1>2, NewResponsesType
  <2>2. NoResponse /\ ~CGIout
    BY <1>3 DEF IInv, ConnInv, NoResponse
  <2> QED
    BY <1>1, <1>2, <1>3, <2>1, <2>2, DumpStep
<1>4. CASE res = NULL /\ ~IsCGIRequest
  BY <1>3, <1>4 DEF Respond, cgiVars
<1>5. CASE res = NULL /\ StartProgram /\ responses' = responses + 1 /\ UNCHANGED <<writeBuffer, wbStatus>>
  <2>1. NoResponse /\ isOpen
    BY <1>1, <1>5 DEF IInv, ConnInv
  <2>2. Out' = Out /\ LastByte' = LastByte /\ LastNo' = LastNo /\ Complete' = Complete /\ ResponsesInOrder'
    BY <1>1, <1>5, SameOut DEF IInv
  <2>3. res' # NULL /\ res'.isCGI /\ ~res'.close
    <3>1. res' \in Responses
      BY <1>5 DEF StartProgram, Responses
    <3> QED
      BY <1>5, <3>1, Sizes DEF StartProgram
  <2>4. cgi'.left + cgi'.pipe = client'.output
    BY <1>1, <1>2, <1>5, ClientBytes DEF StartProgram
  <2>5. Complete' /\ Reached(responses - 1)'
    BY <1>1, <1>2, <1>5, <2>1, <2>2 DEF NoResponse, Reached
  <2>6. wbStatus' \notin {"writingRes", "lastRes"} /\ responses' > 0
    BY <1>2, <1>5, <2>1 DEF NoResponse
  <2>7. ProgramResponse'
    BY <2>3, <2>4, <2>5, <2>6 DEF ProgramResponse
  <2> QED
    BY <1>1, <2>1, <2>2, <2>3, <2>7 DEF ConnInv
<1>6. CASE /\ res = NULL /\ responses' = responses + 1 /\ UNCHANGED cgiVars
           /\ \E r \in HTTPResponses(RequestError) : DumpResponse(r, responses + 1)
  BY <1>3, <1>6 DEF cgiVars
<1>7. CASE res # NULL
  <2>1. UNCHANGED <<responses, CGIout, cgi>> /\ res \in Responses
    BY <1>7 DEF Respond, cgiVars, IInv, TypeInv
  <2>2. CASE res.isCGI
    <3>1. UNCHANGED <<res, writeBuffer, wbStatus>>
      BY <1>7, <2>2 DEF Respond
    <3>2. isOpen
      BY <1>1 DEF IInv, ConnInv
    <3> QED
      BY <1>1, <2>1, <3>1, <3>2, QuietStep
  <2>3. CASE ~res.isCGI
    <3>1. DumpResponse(res, responses)
      BY <1>7, <2>3 DEF Respond
    <3>2. /\ Out # << >> /\ LastByte.rest = res.rest /\ LastByte.no = responses /\ LastByte.close = res.close
          /\ ~CGIout
      BY <1>7, <2>3 DEF IInv, ConnInv, FileResponse, UnderWay
    <3> QED
      BY <1>1, <1>2, <2>1, <2>3, <3>1, <3>2, DumpStep
  <2> QED
    BY <2>2, <2>3
<1> QED
  BY <1>4, <1>5, <1>6, <1>7 DEF Respond

(* A program writes to the pipe of a response that is its own.              *)
LEMMA PipeIsPrograms ==
  ASSUME IInv, CGIout
  PROVE  /\ res \in Responses /\ res # NULL /\ res.isCGI
         /\ ProgramResponse /\ wbStatus \notin {"writingRes", "lastRes"}
<1>1. res # NULL /\ res.isCGI /\ ProgramResponse
  BY DEF IInv, ConnInv, NoResponse, FileResponse
<1> QED
  BY <1>1 DEF ProgramResponse, IInv, TypeInv

LEMMA ProgramStep ==
  ASSUME IInv, ProgramPrints
  PROVE  ConnInv' /\ ResponsesInOrder'
<1>1. /\ UNCHANGED <<client, phase, res, responses, writeBuffer, wbStatus, CGIout, isOpen, sent>>
      /\ CGIout /\ cgi' = [left |-> cgi.left - 1, pipe |-> cgi.pipe + 1]
  BY DEF ProgramPrints, clientVars, resVars
<1>2. res # NULL /\ res.isCGI /\ ProgramResponse /\ wbStatus # "lastRes"
  BY <1>1, PipeIsPrograms
<1>3. Out' = Out /\ LastByte' = LastByte /\ LastNo' = LastNo /\ Complete' = Complete /\ ResponsesInOrder'
  BY <1>1, SameOut DEF IInv
<1>4. cgi'.left + cgi'.pipe = cgi.left + cgi.pipe
  BY <1>1 DEF IInv, TypeInv
<1>5. ProgramResponse'
  BY <1>1, <1>2, <1>3, <1>4 DEF ProgramResponse, Reached, UnderWay
<1>6. Ended' = Ended
  BY <1>1 DEF Ended
<1> QED
  BY <1>1, <1>2, <1>3, <1>5, <1>6 DEF IInv, ConnInv

LEMMA PipeStep ==
  ASSUME IInv, PipeConnection
  PROVE  ConnInv' /\ ResponsesInOrder'
<1>1. UNCHANGED <<client, res, responses, isOpen, sent>> /\ phase = "pipe" /\ phase' = "write"
  BY DEF PipeConnection, clientVars, resVars
<1>2. TypeInv /\ responses \in Nat /\ (CGIout => res # NULL) /\ cgi.left \in Nat /\ cgi.pipe \in Nat
  BY PipeIsPrograms, Sizes DEF IInv, TypeInv
<1>3. ~isOpen' => client.leaves
  BY <1>1 DEF IInv, ConnInv
<1>4. CASE UNCHANGED <<writeBuffer, wbStatus, CGIout, cgi>>
  BY <1>1, <1>3, <1>4, QuietStep
<1>5. ASSUME NEW n \in Nat, CGIout, n > 0, n <= cgi.pipe,
             writeBuffer' = writeBuffer \o Piece(res, cgi.left + cgi.pipe, responses, n),
             cgi' = [cgi EXCEPT !.pipe = cgi.pipe - n], UNCHANGED <<wbStatus, CGIout>>
      PROVE  ConnInv' /\ ResponsesInOrder'
  <2>1. /\ res \in Responses /\ res # NULL /\ res.isCGI
        /\ ProgramResponse /\ wbStatus \notin {"writingRes", "lastRes"}
    BY <1>5, PipeIsPrograms
  <2>2. PICK k \in Nat : k = cgi.left + cgi.pipe
    BY <1>2
  <2>3. n <= k /\ cgi'.left + cgi'.pipe = k - n
    BY <1>2, <1>5, <2>2 DEF IInv, TypeInv
  <2>4. \/ Complete /\ Follows(LastNo, responses)
        \/ Out # << >> /\ LastByte.rest = k /\ LastByte.no = responses
    <3>1. CASE Complete /\ Reached(responses - 1)
      <4>1. LastNo \in Nat /\ responses > 0
        BY <1>2, <2>1, OutType DEF ProgramResponse
      <4>2. Follows(LastNo, responses)
        BY <1>2, <3>1, <4>1 DEF Reached, Follows
      <4> QED
        BY <3>1, <4>2
    <3>2. CASE UnderWay(cgi.left + cgi.pipe, FALSE)
      BY <2>2, <3>2 DEF UnderWay
    <3> QED
      BY <2>1, <3>1, <3>2 DEF ProgramResponse
  <2>5. writeBuffer' = writeBuffer \o Piece(res, k, responses, n)
    BY <1>5, <2>2
  <2>6. PICK r \in Responses : r = res
    BY <2>1
  <2>7. PICK no \in Nat : no = responses
    BY <1>2
  <2>8. TypeInv /\ ResponsesInOrder /\ UNCHANGED <<client, sent>>
    BY <1>1 DEF IInv
  <2>9. writeBuffer' = writeBuffer \o Piece(r, k, no, n)
    BY <2>5, <2>6, <2>7
  <2>10. \/ Complete /\ Follows(LastNo, no)
         \/ Out # << >> /\ LastByte.rest = k /\ LastByte.no = no
    BY <2>4, <2>7
  <2>11. /\ ResponsesInOrder' /\ Out' # << >>
         /\ LastByte'.no = no /\ LastByte'.rest = k - n /\ LastByte'.close = r.close
    BY <1>5, <2>3, <2>8, <2>9, <2>10, Chain
  <2>12. r.close = FALSE /\ responses > 0
    BY <2>1, <2>6 DEF ProgramResponse, Responses
  <2>13. UnderWay(cgi.left + cgi.pipe, FALSE)'
    BY <1>1, <2>3, <2>7, <2>11, <2>12 DEF UnderWay
  <2>14. ProgramResponse'
    BY <1>1, <1>5, <2>1, <2>6, <2>12, <2>13 DEF ProgramResponse
  <2> QED
    BY <1>1, <1>3, <2>1, <2>11, <2>14 DEF ConnInv
<1>6. CASE /\ CGIout /\ cgi.pipe = 0 /\ cgi.left = 0
           /\ ~CGIout' /\ wbStatus' = "lastRes" /\ UNCHANGED <<writeBuffer, cgi>>
  <2>1. res # NULL /\ res.isCGI /\ ProgramResponse
    BY <1>6, PipeIsPrograms
  <2>2. Out' = Out /\ LastByte' = LastByte /\ LastNo' = LastNo /\ Complete' = Complete /\ ResponsesInOrder'
    BY <1>1, <1>2, <1>6, SameOut DEF IInv
  <2>3. ProgramResponse'
    BY <1>1, <1>6, <2>1, <2>2 DEF ProgramResponse, Reached, UnderWay
  <2> QED
    BY <1>1, <1>3, <2>1, <2>2, <2>3 DEF ConnInv
<1> QED
  BY <1>2, <1>4, <1>5, <1>6, PipeMoves

(* The write buffer is sent; a response that is written in full is freed,   *)
(* or ends the connection.                                                  *)
LEMMA SendStep ==
  ASSUME IInv, WriteConnection, SendAll
  PROVE  ConnInv' /\ ResponsesInOrder'
<1>1. /\ UNCHANGED <<client, responses, CGIout, cgi>> /\ phase = "write" /\ phase' = "remove"
      /\ sent' = sent \o writeBuffer /\ writeBuffer' = << >> /\ PrepareNewConn
  BY DEF WriteConnection, SendAll, clientVars, cgiVars
<1>2. Out' = Out /\ LastByte' = LastByte /\ LastNo' = LastNo /\ Complete' = Complete /\ ResponsesInOrder'
  BY <1>1, SameOut DEF IInv
<1>3. ~isOpen => client.leaves
  BY <1>1 DEF IInv, ConnInv
<1>4. CASE wbStatus # "lastRes"
  <2>1. UNCHANGED <<wbStatus, isOpen, res>>
    BY <1>1, <1>4 DEF PrepareNewConn
  <2>2. NoResponse => NoResponse'
    BY <1>1, <1>2, <2>1 DEF NoResponse, Reached
  <2>3. ProgramResponse => ProgramResponse'
    BY <1>1, <1>2, <2>1 DEF ProgramResponse, Reached, UnderWay
  <2>4. FileResponse => FileResponse'
    BY <1>1, <1>2, <2>1 DEF FileResponse, UnderWay
  <2> QED
    BY <1>1, <1>2, <1>3, <2>1, <2>2, <2>3, <2>4 DEF IInv, ConnInv
<1>5. CASE wbStatus = "lastRes"
  <2>1. wbStatus' = "doneRes" /\ res # NULL
    BY <1>1, <1>5 DEF PrepareNewConn, IInv, ConnInv, NoResponse
  <2>2. CASE res.close
    <3>1. isOpen' = FALSE /\ UNCHANGED res
      BY <1>1, <1>5, <2>2 DEF PrepareNewConn
    <3>2. ~res.isCGI /\ FileResponse /\ res.rest = 0
      BY <1>5, <2>1, <2>2 DEF IInv, ConnInv, ProgramResponse, FileResponse
    <3>3. FileResponse'
      BY <1>1, <1>2, <2>1, <3>1, <3>2 DEF FileResponse, UnderWay
    <3>4. Ended'
      <4>1. Out # << >> /\ LastByte.rest = 0 /\ LastByte.close = res.close /\ sent' = Out
        BY <1>1, <3>2 DEF FileResponse, UnderWay, Out
      <4> QED
        BY <1>1, <2>2, <4>1 DEF Ended, LastByte
    <3> QED
      BY <1>1, <1>2, <2>1, <3>1, <3>2, <3>3, <3>4 DEF ConnInv
  <2>3. CASE ~res.close
    <3>1. res' = NULL /\ UNCHANGED isOpen
      BY <1>1, <1>5, <2>3 DEF PrepareNewConn
    <3>2. Complete /\ Reached(responses) /\ ~CGIout
      <4>1. CASE res.isCGI
        <5>1. ProgramResponse /\ ~CGIout /\ cgi.left = 0 /\ cgi.pipe = 0 /\ responses > 0 /\ responses \in Nat
          BY <1>5, <2>1, <4>1 DEF IInv, TypeInv, ConnInv, ProgramResponse
        <5>2. CASE Complete /\ Reached(responses - 1) /\ client.output = 0
          <6>1. LastNo \in Nat
            BY OutType DEF IInv
          <6> QED
            BY <5>1, <5>2, <6>1 DEF Reached
        <5>3. CASE UnderWay(0, FALSE)
          BY <5>1, <5>3 DEF UnderWay, Complete, Reached, LastNo
        <5>4. cgi.left + cgi.pipe = 0
          BY <5>1
        <5>5. \/ Complete /\ Reached(responses - 1) /\ client.output = 0
              \/ UnderWay(0, FALSE)
          BY <5>1, <5>4 DEF ProgramResponse
        <5> QED
          BY <5>1, <5>2, <5>3, <5>5
      <4>2. CASE ~res.isCGI
        <5>1. FileResponse /\ res.rest = 0
          BY <1>5, <2>1, <4>2 DEF IInv, ConnInv, FileResponse
        <5> QED
          BY <2>3, <5>1 DEF FileResponse, UnderWay, Complete, Reached, LastNo
      <4> QED
        BY <4>1, <4>2
    <3>3. NoResponse'
      BY <1>1, <1>2, <2>1, <3>2 DEF NoResponse, Reached
    <3> QED
      BY <1>1, <1>2, <1>3, <3>1, <3>3 DEF ConnInv
  <2> QED
    BY <2>2, <2>3
<1> QED
  BY <1>4, <1>5

LEMMA WriteStep ==
  ASSUME IInv, WriteConnection
  PROVE  ConnInv' /\ ResponsesInOrder'
<1>1. CASE SendAll
  BY <1>1, SendStep
<1>2. CASE ~SendAll
  <2>1. /\ UNCHANGED <<client, res, responses, writeBuffer, wbStatus, CGIout, cgi, sent>>
        /\ phase = "write" /\ phase' = "remove" /\ (UNCHANGED isOpen \/ client.leaves)
    BY <1>2 DEF WriteConnection, clientVars, cgiVars
  <2>2. ~isOpen' => client.leaves
    BY <2>1 DEF IInv, ConnInv
  <2> QED
    BY <2>1, <2>2, QuietStep
<1> QED
  BY <1>1, <1>2

LEMMA RemoveStep ==
  ASSUME IInv, RemoveClosed
  PROVE  ConnInv' /\ ResponsesInOrder'
<1>1. UNCHANGED <<client, res, responses, writeBuffer, wbStatus, cgi, isOpen, sent>> /\ phase = "remove"
  BY DEF RemoveClosed, clientVars, resVars
<1>2. CASE isOpen
  <2>1. phase' = "select" /\ UNCHANGED CGIout
    BY <1>2 DEF RemoveClosed
  <2> QED
    BY <1>1, <1>2, <2>1, QuietStep
<1>3. CASE ~isOpen
  <2>1. phase' = "closed" /\ CGIout' = FALSE
    BY <1>3 DEF RemoveClosed
  <2>2. Out' = Out /\ LastByte' = LastByte /\ LastNo' = LastNo /\ Complete' = Complete /\ ResponsesInOrder'
    BY <1>1, SameOut DEF IInv
  <2>3. NoResponse => NoResponse'
    BY <1>1, <2>1, <2>2 DEF NoResponse, Reached
  <2>4. ProgramResponse => ProgramResponse'
    BY <1>1, <2>1, <2>2 DEF ProgramResponse, Reached, UnderWay
  <2>5. FileResponse => FileResponse'
    BY <1>1, <2>1, <2>2 DEF FileResponse, UnderWay
  <2>6. Ended' = Ended
    BY <1>1 DEF Ended
  <2> QED
    BY <1>1, <1>3, <2>1, <2>2, <2>3, <2>4, <2>5, <2>6 DEF IInv, ConnInv
<1> QED
  BY <1>2, <1>3

-----------------------------------------------------------------------------
(* The invariant, and what follows from it *)

LEMMA InvInit == Init => IInv
<1> SUFFICES ASSUME Init PROVE IInv
  OBVIOUS
<1>1. TypeInv
  BY TypeInit
<1>2. /\ client \in Clients /\ phase = "select" /\ res = NULL /\ responses = 0 /\ wbStatus = "initRes"
      /\ CGIout = FALSE /\ isOpen = TRUE /\ sent = << >> /\ writeBuffer = << >>
  BY DEF Init
<1>3. Out = << >> /\ Len(Out) = 0
  BY <1>2, ConcatEmptySeq, EmptySeq DEF Out
<1>4. NoResponse
  BY <1>2, <1>3 DEF NoResponse, Complete, Reached, LastNo
<1>5. ResponsesInOrder
  BY <1>3 DEF ResponsesInOrder, Out
<1> QED
  BY <1>1, <1>2, <1>4, <1>5 DEF IInv, ConnInv

LEMMA InvNext == IInv /\ [Next]_vars => IInv'
<1> SUFFICES ASSUME IInv, [Next]_vars
             PROVE  IInv'
  OBVIOUS
<1>1. TypeInv /\ (CGIout => res # NULL)
  BY PipeIsPrograms DEF IInv
<1>2. CASE Select
  <2>1. isOpen /\ UNCHANGED <<client, res, responses, writeBuffer, wbStatus, CGIout, cgi, sent, isOpen>> /\ phase = "select"
    BY <1>2 DEF Select, IInv, ConnInv, clientVars, resVars, cgiVars
  <2> QED
    BY <1>1, <1>2, <2>1, SelectType, QuietStep DEF IInv
<1>3. CASE ReadConnection
  <2>1. /\ isOpen /\ UNCHANGED <<client, res, responses, writeBuffer, wbStatus, CGIout, cgi, sent>>
        /\ phase = "read" /\ phase' = "process" /\ (UNCHANGED isOpen \/ client.leaves)
    BY <1>3 DEF ReadConnection, IInv, ConnInv, parseVars, resVars, cgiVars
  <2> QED
    BY <1>1, <1>3, <2>1, ReadType, QuietStep DEF IInv
<1>4. CASE ProcessConnection
  <2>1. /\ UNCHANGED <<client, res, responses, writeBuffer, wbStatus, CGIout, cgi, sent, isOpen>>
        /\ phase = "process" /\ (~isOpen => phase' = "pipe")
    BY <1>4 DEF ProcessConnection, clientVars, resVars, cgiVars
  <2>2. ~isOpen => client.leaves
    BY <2>1 DEF IInv, ConnInv
  <2> QED
    BY <1>1, <1>4, <2>1, <2>2, ProcessType, QuietStep DEF IInv
<1>5. CASE ParseLine \/ ParseContent
  <2>1. /\ UNCHANGED <<client, res, responses, writeBuffer, wbStatus, CGIout, cgi, sent, isOpen>>
        /\ phase = "parse"
    BY <1>5 DEF ParseLine, ParseContent, clientVars, resVars, cgiVars
  <2>2. isOpen
    BY <2>1 DEF IInv, ConnInv
  <2> QED
    BY <1>1, <1>5, <2>1, <2>2, ParseLineType, ParseContentType, QuietStep DEF IInv
<1>6. CASE Respond
  BY <1>1, <1>6, RespondType, RespondStep DEF IInv
<1>7. CASE PipeConnection
  BY <1>1, <1>7, PipeType, PipeStep DEF IInv
<1>8. CASE WriteConnection
  BY <1>1, <1>8, WriteType, WriteStep DEF IInv
<1>9. CASE RemoveClosed
  BY <1>1, <1>9, RemoveType, RemoveStep DEF IInv
<1>10. CASE ProgramPrints
  BY <1>1, <1>10, ProgramType, ProgramStep DEF IInv
<1>11. CASE UNCHANGED vars
  <2>1. UNCHANGED <<client, pos, phase, ready, readBuffer, curReadSize, thisPtr, full, req, res, responses,
                    writeBuffer, wbStatus, CGIout, cgi, isOpen, sent>>
    BY <1>11 DEF vars, clientVars, readVars, parseVars, resVars, cgiVars
  <2>2. TypeInv'
    BY <1>1, <2>1 DEF TypeInv
  <2>3. ConnInv' /\ ResponsesInOrder'
    BY <2>1, QuietStep DEF IInv, ConnInv
  <2> QED
    BY <2>2, <2>3 DEF IInv
<1>12. CASE SigPipe
  <2>1. /\ UNCHANGED <<client, pos, ready, readBuffer, curReadSize, thisPtr, full, req, res, responses,
                       writeBuffer, wbStatus, CGIout, cgi, isOpen, sent>>
        /\ phase \in {"write", "respond"} /\ phase' = "killed"
    BY <1>12 DEF SigPipe, clientVars, readVars, parseVars, resVars, cgiVars
  <2>2. TypeInv'
    BY <1>1, <2>1 DEF TypeInv
  <2>3. ~isOpen' => client.leaves
    BY <2>1 DEF IInv, ConnInv
  <2>4. ConnInv' /\ ResponsesInOrder'
    BY <2>1, <2>3, QuietStep
  <2> QED
    BY <2>2, <2>4 DEF IInv
<1> QED
  BY <1>2, <1>3, <1>4, <1>5, <1>6, <1>7, <1>8, <1>9, <1>10, <1>11, <1>12 DEF Next, Handler

LEMMA Invariant == Spec => []IInv
BY InvInit, InvNext, PTL DEF Spec

-----------------------------------------------------------------------------
(* Nothing is forgotten: a program that has been started is watched until   *)
(* its end is seen, and a request has its response from "respond" on.       *)

Done == {"requestDone", "requestError"}

WatchInv ==
  /\ res # NULL /\ res.isCGI /\ isOpen => CGIout \/ wbStatus = "lastRes"
  /\ req.curState \in Done /\ phase \notin {"respond", "killed"} => res # NULL

(* A parser that has found the end of a request, or an error, goes on to    *)
(* the response.                                                            *)
LEMMA ParsedDone ==
  ASSUME NEW parsed, NEW r, phase = "parse",
         EndParse(parsed, r) \/ Parsed(parsed, r)
  PROVE  req'.curState \in Done => phase' = "respond"
<1>1. ASSUME NEW p, EndParse(p, r)
      PROVE  req'.curState \in Done => phase' = "respond"
  BY <1>1 DEF EndParse, Done
<1>2. CASE EndParse(parsed, r) \/ EndParse(thisPtr, r)
  BY <1>1, <1>2
<1>3. CASE Parsed(parsed, r) /\ ~EndParse(parsed, r) /\ ~EndParse(thisPtr, r)
  BY <1>3 DEF Parsed, Done
<1> QED
  BY <1>2, <1>3

LEMMA ParseDone ==
  ASSUME ParseLine \/ ParseContent
  PROVE  req'.curState \in Done => phase' = "respond"
<1>1. phase = "parse"
  BY DEF ParseLine, ParseContent
<1>2. \E parsed, r : EndParse(parsed, r) \/ Parsed(parsed, r)
  <2>1. CASE ParseLine
    BY <2>1 DEF ParseLine
  <2>2. CASE ParseContent
    BY <2>2 DEF ParseContent
  <2> QED
    BY <2>1, <2>2
<1> QED
  BY <1>1, <1>2, ParsedDone

(* There is a response when processConnectionHandler ends, and its program  *)
(* is watched when it is a new one.                                         *)
LEMMA RespondHasResponse ==
  ASSUME TypeInv, Respond
  PROVE  /\ res' # NULL /\ UNCHANGED isOpen
         /\ res'.isCGI => CGIout' \/ UNCHANGED <<res, CGIout, wbStatus>>
<1>1. ASSUME NEW r \in Responses, NEW no \in Nat, DumpResponse(r, no), ~r.isCGI
      PROVE  res' # NULL /\ ~res'.isCGI
  <2>1. PICK n \in Nat : res' = [r EXCEPT !.rest = r.rest - n] /\ res' \in Responses
    BY <1>1, DumpType
  <2>2. res'.isCGI = r.isCGI
    BY <2>1 DEF Responses
  <2> QED
    BY <1>1, <2>1, <2>2, Sizes
<1>2. responses \in Nat /\ responses + 1 \in Nat /\ UNCHANGED isOpen
  BY DEF TypeInv, Respond
<1>3. ASSUME NEW q, NEW r \in HTTPResponses(q), DumpResponse(r, responses + 1)
      PROVE  res' # NULL /\ ~res'.isCGI
  BY <1>1, <1>2, <1>3, NewResponsesType
<1>4. CASE res = NULL /\ ~StartProgram
  <2>1. \E q : \E r \in HTTPResponses(q) : DumpResponse(r, responses + 1)
    BY <1>4 DEF Respond
  <2> QED
    BY <1>2, <1>3, <2>1
<1>5. CASE StartProgram
  <2>1. res' \in Responses /\ CGIout' = TRUE
    BY <1>5 DEF StartProgram, Responses
  <2> QED
    BY <1>2, <2>1, Sizes
<1>6. CASE res # NULL /\ res.isCGI
  BY <1>2, <1>6 DEF Respond, cgiVars
<1>7. CASE res # NULL /\ ~res.isCGI /\ ~StartProgram
  <2>1. DumpResponse(res, responses) /\ res \in Responses
    BY <1>7 DEF Respond, TypeInv
  <2> QED
    BY <1>1, <1>2, <1>7, <2>1
<1> QED
  BY <1>4, <1>5, <1>6, <1>7

LEMMA WatchNext == IInv /\ WatchInv /\ [Next]_vars => WatchInv'
<1> SUFFICES ASSUME IInv, WatchInv, [Next]_vars
             PROVE  WatchInv'
  OBVIOUS
<1>0. phase = "select" \/ phase = "read" \/ phase = "parse" => isOpen
  BY DEF IInv, ConnInv
<1>1. CASE Select \/ RemoveClosed
  <2>1. /\ UNCHANGED <<res, req, wbStatus, isOpen>> /\ phase' # "respond" /\ phase \notin {"respond", "killed"}
        /\ isOpen => UNCHANGED CGIout
    BY <1>0, <1>1 DEF Select, RemoveClosed, parseVars, resVars, cgiVars
  <2> QED
    BY <2>1 DEF WatchInv
<1>2. CASE ReadConnection
  <2>1. UNCHANGED <<res, req, wbStatus, CGIout>> /\ phase \notin {"respond", "killed"} /\ (isOpen' => isOpen)
    BY <1>2 DEF ReadConnection, parseVars, resVars, cgiVars
  <2> QED
    BY <2>1 DEF WatchInv
<1>3. CASE ProcessConnection
  <2>1. UNCHANGED <<res, req, wbStatus, CGIout, isOpen>> /\ phase \notin {"respond", "killed"}
    BY <1>3 DEF ProcessConnection, resVars, cgiVars
  <2> QED
    BY <2>1 DEF WatchInv
<1>4. CASE ParseLine \/ ParseContent
  <2>1. UNCHANGED <<res, wbStatus, CGIout, isOpen>>
    BY <1>4 DEF ParseLine, ParseContent, resVars, cgiVars
  <2> QED
    BY <1>4, <2>1, ParseDone DEF WatchInv
<1>5. CASE Respond
  <2>1. /\ res' # NULL /\ UNCHANGED isOpen
        /\ res'.isCGI => CGIout' \/ (UNCHANGED <<res, CGIout, wbStatus>>)
    BY <1>5, RespondHasResponse DEF IInv
  <2> QED
    BY <2>1 DEF WatchInv
<1>6. CASE PipeConnection
  <2>1. /\ UNCHANGED <<res, req, isOpen>> /\ phase \notin {"respond", "killed"}
        /\ UNCHANGED <<wbStatus, CGIout>> \/ wbStatus' = "lastRes"
    BY <1>6 DEF PipeConnection, parseVars, resVars, cgiVars
  <2> QED
    BY <2>1 DEF WatchInv
<1>7. CASE WriteConnection
  <2>1. phase = "write" /\ UNCHANGED CGIout /\ (isOpen' => isOpen \/ res' = NULL)
    BY <1>7 DEF WriteConnection, SendAll, PrepareNewConn, cgiVars
  <2>2. \/ UNCHANGED <<res, req, wbStatus>> /\ (isOpen' => isOpen)
        \/ UNCHANGED <<res, req>> /\ ~isOpen'
        \/ res' = NULL /\ req' = CreateRequestObj
    BY <1>7 DEF WriteConnection, SendAll, PrepareNewConn
  <2> QED
    BY <2>1, <2>2 DEF WatchInv, CreateRequestObj, Done
<1>8. CASE ProgramPrints \/ UNCHANGED vars
  <2>1. UNCHANGED <<res, req, wbStatus, CGIout, isOpen, phase>>
    BY <1>8 DEF ProgramPrints, vars, parseVars, resVars, cgiVars
  <2> QED
    BY <2>1 DEF WatchInv
<1>9. CASE SigPipe
  <2>1. UNCHANGED <<res, req, wbStatus, CGIout, isOpen>> /\ phase' = "killed"
    BY <1>9 DEF SigPipe, parseVars, resVars, cgiVars
  <2> QED
    BY <2>1 DEF WatchInv
<1> QED
  BY <1>1, <1>2, <1>3, <1>4, <1>5, <1>6, <1>7, <1>8, <1>9 DEF Next, Handler

LEMMA WatchHolds == Spec => [](IInv /\ WatchInv)
<1>1. Init => WatchInv
  BY DEF Init, WatchInv, CreateRequestObj, Done
<1> QED
  BY <1>1, InvInit, InvNext, WatchNext, PTL DEF Spec

(* What is under way is watched, so when only the client is waited for,     *)
(* nothing is.                                                              *)
LEMMA NothingToDo == IInv /\ WatchInv => SleepsWhenDone
<1> SUFFICES ASSUME IInv, WatchInv, phase = "select", isOpen, CreatePool \subseteq {"R"}
             PROVE  /\ curReadSize = 0 /\ req.curState \notin {"requestDone", "requestError"}
                    /\ res = NULL /\ writeBuffer = << >>
                    /\ sent # << >> => sent[Len(sent)].rest = 0
  BY DEF SleepsWhenDone
<1>1. ~WriteWatched /\ ~CGIout
  BY DEF CreatePool
<1>2. curReadSize = 0 /\ wbStatus \in {"initRes", "doneRes"}
  BY <1>1, Sizes DEF WriteWatched, IInv, TypeInv
<1>3. res = NULL
  BY <1>1, <1>2 DEF IInv, ConnInv, WatchInv, FileResponse
<1>4. NoResponse /\ req.curState \notin Done
  BY <1>3 DEF IInv, ConnInv, WatchInv
<1>5. Out = sent
  BY <1>4, ConcatEmptySeq DEF Out, NoResponse, IInv, TypeInv
<1>6. sent # << >> => sent[Len(sent)].rest = 0
  BY <1>4, <1>5 DEF NoResponse, Complete, LastByte
<1> QED
  BY <1>2, <1>3, <1>4, <1>6 DEF NoResponse, Done

-----------------------------------------------------------------------------
(* The theorems *)

(* The variables keep their types: nothing is parsed beyond what was read,  *)
(* and nothing is written beyond the write buffer.                          *)
THEOREM TypeCorrect == Spec => []TypeOK
<1>1. IInv => TypeOK
  BY TypeInvIsTypeOK DEF IInv
<1> QED
  BY <1>1, Invariant, PTL

(* What a response has left behind is gone before the next request; and     *)
(* when select waits for the client alone, all that was received is         *)
(* answered, however requests, responses and buffers fit together.          *)
THEOREM NothingIsLeftHolds == Spec => []NothingIsLeft
<1>1. IInv /\ WatchInv => CleanBetween /\ SleepsWhenDone
  BY NothingToDo DEF IInv, ConnInv, NoResponse, CleanBetween
<1> QED
  BY <1>1, WatchHolds, PTL DEF NothingIsLeft

(* A client that stays is disconnected only behind the last byte of a       *)
(* response that says so.                                                   *)
THEOREM CloseIsEarnedHolds == Spec => []CloseIsEarned
<1>1. IInv => CloseIsEarned
  BY DEF IInv, ConnInv, Ended, CloseIsEarned
<1> QED
  BY <1>1, Invariant, PTL

(* The responses leave one after the other, each as a whole, and none after *)
(* one that ends the connection, however its bytes fit into the buffers.    *)
THEOREM ResponsesInOrderHolds == Spec => []ResponsesInOrder
<1>1. IInv => ResponsesInOrder
  BY DEF IInv
<1> QED
  BY <1>1, Invariant, PTL
=============================================================================
