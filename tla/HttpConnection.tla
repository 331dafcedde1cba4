--------------------------- MODULE HttpConnection ---------------------------
(***************************************************************************)
(* One exchange of a client through the proxy: HttpConnection::process()   *)
(* with HttpRequest, HttpResponse and the two transfer loops.              *)
(*                                                                         *)
(* The thread is sequential; what makes it hard is its peers.  Any call on *)
(* a socket can fail, and once a socket takes no more data, or has no more *)
(* to read, it stays so until it is replaced.  A socket HttpServer has     *)
(* closed meanwhile behaves the same way.                                  *)
(*                                                                         *)
(* Text is one token per part: a request header, a status line with its    *)
(* headers, a chunk size line, the line end after a chunk, and the units   *)
(* of a body, numbered as their sender sent them.  servers[i] is what was  *)
(* handed to the socket of the i-th connection, toClient likewise.         *)
(***************************************************************************)
EXTENDS Naturals, SequencesExt

CONSTANTS MaxBody,      \* units in the longest body a peer sends
          MaxChunks,    \* chunks it comes in at most
          BufferSize,   \* units one recv() call takes at most
          Half,         \* numbers an int holds from 0 on: 2^31 in the programs
          NewlineUnits  \* units of a body that are line ends themselves

ASSUME SizeAssumption == MaxBody \in Nat /\ BufferSize \in Nat \ {0}
ASSUME WidthAssumption == Half \in Nat /\ Half > 1
ASSUME NewlineAssumption == NewlineUnits \subseteq Nat

\* The numbers an unsigned int holds.
Word == 2 * Half

\* What the code makes of a number in a header or a size line: where a long is
\* wider than an int the low bits are kept, elsewhere the greatest long is taken.
\* atol() into an unsigned int, sscanf("%x") and, negative or not, atoi().
ContentLength(n) == IF n < Half THEN {n} ELSE {n % Word, Half - 1}
ChunkSizes(n) == IF n < Word THEN {n} ELSE {n % Word, Word - 1}
BodyLength(n) ==
  IF n < Half THEN {n} ELSE {IF n % Word < Half THEN n % Word ELSE 0, Half - 1}

\* The length parseResponse() takes when no content-length is given: 0xffffffff / 2.
NoLength == Half - 1

\* GET stands for every method whose body, if any, is not read from the client.
Commands == {"GET", "POST", "CONNECT"}

\* known: the request names a host (parsePath() leaves it empty otherwise).
\* length: the content-length of a POST.
Requests == {r \in [command : Commands, length : 0..MaxBody, known : BOOLEAN] :
               r.command # "POST" => r.length = 0}

Header == <<"header", 0>>
Newlines == <<"newlines", 0>>
Status == <<"status", 0>>
Established == <<"established", 0>>
EndLine == <<"end", 0>>
Size(n) == <<"size", n>>
Units(first, last) == [k \in 1..(last + 1 - first) |-> <<"body", first + k - 1>>]

\* The first n chunks of a body in chunks of these sizes, on the wire.
FirstChunks(sizes) ==
  LET wire[n \in 0..Len(sizes)] ==
        IF n = 0 THEN <<>>
        ELSE LET sent == Len(wire[n - 1]) - 2 * (n - 1)
             IN wire[n - 1] \o <<Size(sizes[n])>> \o Units(sent + 1, sent + sizes[n]) \o <<EndLine>>
  IN wire

ChunkedWire(sizes) == FirstChunks(sizes)[Len(sizes)] \o <<Size(0), EndLine>>

\* Each chunk has a unit at least, and the body MaxBody at most.
Chunkings == {sizes \in BoundedSeq(1..MaxBody, MaxChunks) :
                Len(ChunkedWire(sizes)) <= 2 * Len(sizes) + 2 + MaxBody}

\* What a server may answer, and HttpResponse::contentLength for it.  The body
\* it sends need not have the length it announced: the answer to a HEAD has none
\* at all.  Where no length is announced the body may be as long as any.
Bodies == {Units(1, m) : m \in 0..MaxBody}
Announcing(n) == [framing : {"length"}, announced : {n}, length : ContentLength(n), wire : Bodies]
Replies ==
  (UNION {Announcing(n) : n \in 0..MaxBody})
  \cup [framing : {"close"}, announced : {MaxBody}, length : {NoLength}, wire : Bodies]
  \cup [framing : {"chunked"}, announced : {MaxBody}, length : {NoLength},
        wire : {ChunkedWire(s) : s \in Chunkings}]

NoReply == [framing |-> "length", announced |-> 0, length |-> 0, wire |-> <<>>]

VARIABLES
  pc,          \* where the thread is
  request,     \* HttpConnection::request
  addNewLine,  \* HttpConnection::addNewLine # 0, set from the host's rule
  servers,     \* what each remote socket was handed, in order of creation
  taken,       \* units of the request body received from the client
  reply, at,   \* what the server answers, and how much of it was received
  left,        \* the variable length of the loop under way
  toClient,    \* what the client socket was handed
  deaf,        \* peers that take no more data
  open,        \* sockets not closed: 0 is the client's, i the i-th remote one
  released,    \* DnsCache::releaseItem() was called for the host
  closed       \* HttpConnection::closed

vars == <<pc, request, addNewLine, servers, taken, reply, at, left, toClient,
          deaf, open, released, closed>>

Places == {"parse", "resolve", "connect", "newlines", "header", "body", "retry",
           "response", "status", "data", "size", "chunk", "endline", "lastline",
           "relay", "drop", "done"}

Init ==
  /\ pc = "parse"
  /\ request \in Requests
  /\ addNewLine = FALSE
  /\ servers = <<>> /\ taken = 0
  /\ reply = NoReply /\ at = 0 /\ left = 0
  /\ toClient = <<>>
  /\ deaf = {}
  /\ open = {0} /\ released = FALSE /\ closed = FALSE

Attempt == Len(servers)

-----------------------------------------------------------------------------
(* The request.                                                            *)

\* HttpRequest::parseRequest(), which fails if the client goes away first.
ParseRequest ==
  /\ pc = "parse" /\ pc' \in {"resolve", "drop"}
  /\ UNCHANGED <<request, addNewLine, servers, taken, reply, at, left, toClient,
                 deaf, open, released, closed>>

\* parseConnectHost(): the rule of the host may ask for line ends.
Resolve ==
  /\ pc = "resolve" /\ pc' = "connect"
  /\ addNewLine' \in (IF request.known THEN BOOLEAN ELSE {FALSE})
  /\ UNCHANGED <<request, servers, taken, reply, at, left, toClient, deaf,
                 open, released, closed>>

\* new HttpSocket() and connect().  A socket that cannot connect is kept until
\* the end of process(), and the host's address is forgotten.
Reach(kept) ==
  /\ servers' = Append(servers, <<>>)
  /\ deaf' = deaf \ {"remote"}
  /\ \/ /\ request.known
        /\ open' = kept \cup {Attempt + 1}
        /\ pc' = CASE request.command = "CONNECT" -> "relay"
                   [] request.command # "CONNECT" /\ addNewLine -> "newlines"
                   [] OTHER -> "header"
        /\ UNCHANGED released
     \/ /\ open' \in {kept, kept \cup {Attempt + 1}}
        /\ pc' = "drop" /\ released' = TRUE
  /\ UNCHANGED <<request, addNewLine, taken, reply, at, left, closed>>

\* A client that asked for a tunnel is told before the relay starts; whether
\* it could be told is not looked at.
Connect ==
  /\ pc = "connect"
  /\ Reach(open)
  /\ toClient' \in (IF pc' = "relay" THEN {<<>>, <<Established>>} ELSE {<<>>})

\* Faulty variant: the socket that failed is not deleted.
RetryLeaking ==
  /\ pc = "retry"
  /\ Reach(open)
  /\ UNCHANGED toClient

\* The retry deletes the socket that failed.
Retry ==
  /\ pc = "retry"
  /\ Reach(open \ {Attempt})
  /\ UNCHANGED toClient

\* send() on the current remote socket.
Hand(tokens) ==
  /\ "remote" \notin deaf
  /\ servers' = [servers EXCEPT ![Attempt] = @ \o tokens]
  /\ UNCHANGED deaf

Fail == deaf' = deaf \cup {"remote"} /\ UNCHANGED servers

\* doAddNewLine() does not look at what send() returns.
AddNewLine ==
  /\ pc = "newlines" /\ pc' = "header"
  /\ Hand(<<Newlines>>) \/ Fail
  /\ UNCHANGED <<request, addNewLine, taken, reply, at, left, toClient, open,
                 released, closed>>

\* The header of sendRequest(): if it cannot be handed over process() tries
\* once more on a new connection.
SendHeader ==
  /\ pc = "header"
  /\ \/ /\ Hand(<<Header>>)
        /\ pc' = IF request.command = "POST" THEN "body" ELSE "response"
        /\ left' \in BodyLength(request.length)
     \/ /\ Fail /\ UNCHANGED left
        /\ pc' = IF Attempt = 1 THEN "retry" ELSE "drop"
  /\ UNCHANGED <<request, addNewLine, taken, reply, at, toClient, open,
                 released, closed>>

\* One turn of the body loop of sendRequest(), which takes up to limit units;
\* n = 0 is the end of the loop, or a client that sends no more.
BodyTurn(limit, failed) ==
  /\ pc = "body"
  /\ \E n \in 0..BufferSize :
       /\ n <= limit
       /\ taken' = taken + n
       /\ \/ /\ n > 0 /\ Hand(Units(taken + 1, taken + n))
             /\ left' = left - n /\ UNCHANGED pc
          \/ n > 0 /\ Fail /\ pc' = failed /\ UNCHANGED left
          \/ n = 0 /\ pc' = "response" /\ UNCHANGED <<servers, deaf, left>>
  /\ UNCHANGED <<request, addNewLine, reply, at, toClient, open, released,
                 closed>>

\* Faulty variant: sendRequest() returns false when the body cannot be sent.
SendBodyOrRetry == BodyTurn(left, IF Attempt = 1 THEN "retry" ELSE "drop")

\* Whatever ends the loop, the answer is read next.
SendBody == BodyTurn(left, "response")

-----------------------------------------------------------------------------
(* The answer.                                                             *)

\* Faulty variant: the address is forgotten when there is no answer.
ParseOrForget ==
  /\ pc = "response"
  /\ \/ pc' = "status" /\ reply' \in Replies /\ UNCHANGED released
     \/ pc' = "drop" /\ released' = TRUE /\ UNCHANGED reply
  /\ UNCHANGED <<request, addNewLine, servers, taken, at, left, toClient, deaf,
                 open, closed>>

\* HttpResponse::parseResponse(), which fails if the server goes away first.
ParseResponse ==
  /\ pc = "response"
  /\ \/ pc' = "status" /\ reply' \in Replies
     \/ pc' = "drop" /\ UNCHANGED reply
  /\ UNCHANGED <<request, addNewLine, servers, taken, at, left, toClient, deaf,
                 open, released, closed>>

\* send() on the client socket.
Answer(tokens) ==
  /\ "client" \notin deaf
  /\ toClient' = toClient \o tokens
  /\ UNCHANGED deaf

Lost == deaf' = deaf \cup {"client"} /\ UNCHANGED toClient

\* HttpResponse::sendResponse() and the choice of the transfer loop.
SendResponse ==
  /\ pc = "status"
  /\ left' = reply.length
  /\ \/ /\ Answer(<<Status>>)
        /\ pc' = CASE reply.length = 0 -> "drop"
                   [] reply.length > 0 /\ reply.framing = "chunked" -> "size"
                   [] OTHER -> "data"
     \/ Lost /\ pc' = "drop"
  /\ UNCHANGED <<request, addNewLine, servers, taken, reply, at, open, released,
                 closed>>

\* The server's answer ends here, early or not; nothing can be read after it.
EndOfReply ==
  /\ reply' = [reply EXCEPT !.wire = SubSeq(@, 1, at)]
  /\ UNCHANGED <<at, left, toClient, deaf>>

\* One turn of a loop that moves left units from the server to the client:
\* recv() of n units and their send(), each counted as much as the code counts it.
\* The loop is left for after, and for ended if the server sends no more.
Turn(counted, after, ended) ==
  /\ \/ left = 0 /\ pc' = after /\ UNCHANGED <<reply, at, left, toClient, deaf>>
     \/ \E n \in 1..BufferSize :
          /\ n <= left /\ at + n <= Len(reply.wire)
          /\ at' = at + n
          /\ \/ /\ Answer(SubSeq(reply.wire, at + 1, at + n))
                /\ left' = left - counted * n /\ UNCHANGED pc
             \/ Lost /\ pc' = after /\ UNCHANGED left
          /\ UNCHANGED reply
     \/ left > 0 /\ EndOfReply /\ pc' = ended
  /\ UNCHANGED <<request, addNewLine, servers, taken, open, released, closed>>

\* Faulty variant: the length is not counted down.
TransferUncounted == pc = "data" /\ Turn(0, "drop", "drop")

\* Faulty variant: the loop goes on when recv() returns 0.
TransferPastEnd == pc = "data" /\ Turn(1, "drop", "data")

\* transferData().
TransferData == pc = "data" /\ Turn(1, "drop", "drop")

\* Where a line that starts at the reading position can end.
EndsLine(token) == token[1] # "body" \/ token[2] \in NewlineUnits
LineEnds == {p \in (at + 1)..Len(reply.wire) :
               /\ EndsLine(reply.wire[p])
               /\ \A q \in (at + 1)..(p - 1) : ~EndsLine(reply.wire[q])}

\* A line is empty if it is a line end alone.  sscanf("%x") finds the size in
\* a size line, none in an empty line, and anything in a line of a body.
EmptyLine(p) == p = at + 1 /\ reply.wire[p][1] # "size"
SizesIn(p) ==
  IF reply.wire[at + 1][1] = "size" THEN ChunkSizes(reply.wire[at + 1][2])
  ELSE IF EmptyLine(p) THEN {0} ELSE 0..(Word - 1)

\* The loop of transferTrunkedData(): a size line ...
ChunkSize ==
  /\ pc = "size"
  /\ \/ \E p \in LineEnds :
          /\ at' = p /\ left' \in SizesIn(p)
          /\ pc' = IF left' = 0 THEN "lastline" ELSE "chunk"
          /\ UNCHANGED <<reply, toClient, deaf>>
     \/ EndOfReply /\ pc' = "drop"
  /\ UNCHANGED <<request, addNewLine, servers, taken, open, released, closed>>

\* Faulty variant: the line end after a chunk is not read.
ChunkWithoutEnd == pc = "chunk" /\ Turn(1, "size", "size")

\* ... that many units ...
Chunk == pc = "chunk" /\ Turn(1, "endline", "endline")

\* ... and a line end.  A chunk of size 0 is the last one.
ChunkEnd ==
  /\ pc \in {"endline", "lastline"}
  /\ \/ \E p \in LineEnds :
          /\ at' = p
          /\ pc' = IF EmptyLine(p) /\ pc = "endline" THEN "size" ELSE "drop"
          /\ UNCHANGED <<reply, left, toClient, deaf>>
     \/ EndOfReply /\ pc' = "drop"
  /\ UNCHANGED <<request, addNewLine, servers, taken, open, released, closed>>

-----------------------------------------------------------------------------
\* doCONNECT() runs until a peer goes away: module Relay.
EndRelay ==
  /\ pc = "relay" /\ pc' = "drop"
  /\ UNCHANGED <<request, addNewLine, servers, taken, reply, at, left, toClient,
                 deaf, open, released, closed>>

\* What process() does after its loop.
Drop ==
  /\ pc = "drop" /\ pc' = "done"
  /\ open' = {} /\ closed' = TRUE
  /\ UNCHANGED <<request, addNewLine, servers, taken, reply, at, left, toClient,
                 deaf, released>>

Exchange ==
  \/ ParseRequest \/ Resolve \/ Connect \/ Retry \/ AddNewLine \/ SendHeader \/ SendBody
  \/ ParseResponse \/ SendResponse \/ TransferData
  \/ ChunkSize \/ Chunk \/ ChunkEnd \/ Drop

Next == Exchange \/ EndRelay

Spec == Init /\ [][Next]_vars

-----------------------------------------------------------------------------
(* Correctness.                                                            *)

TypeOK ==
  /\ pc \in Places
  /\ request \in Requests
  /\ addNewLine \in BOOLEAN
  /\ servers \in Seq(Seq({Newlines, Header} \cup Range(Units(1, MaxBody))))
  /\ taken \in 0..MaxBody /\ left \in 0..(Word - 1)
  /\ at \in 0..Len(reply.wire)
  /\ deaf \subseteq {"client", "remote"}
  /\ open \subseteq 0..Len(servers)
  /\ released \in BOOLEAN /\ closed \in BOOLEAN

\* Every server is handed the line ends of the host's rule, the header and the
\* body of the request, from the first unit on and without a gap: what a retry
\* sends is never what the attempt before it has left of the body.
WholeRequest ==
  (IF addNewLine THEN <<Newlines>> ELSE <<>>) \o <<Header>> \o Units(1, request.length)

ServersSeeTheRequest ==
  \A i \in DOMAIN servers : IsPrefix(servers[i], WholeRequest)

\* A request is handed to one server at most: the retry is for a request whose
\* header could not be sent, so a POST is never carried out twice.
Served(i) == Header \in Range(servers[i])

HandedOnce == \A i, j \in DOMAIN servers : Served(i) /\ Served(j) => i = j

Sent(n) == <<"body", n>> \in Range(reply.wire)

\* The sizes of the chunks fit an unsigned int: with others the code loses count of them.
ChunksFit == \A token \in Range(reply.wire) : token[1] = "size" => token[2] < Word

\* The client is handed the answer of a server that was handed its request: the units of
\* the body in order, none twice, none of the chunk framing, none that was not sent and
\* none beyond the announced length; unless a chunk is too long for the code to count.
ClientSeesTheAnswer ==
  \/ toClient = <<>>
  \/ /\ ChunksFit => \E n \in 0..reply.announced :
                        toClient = <<Status>> \o Units(1, n) /\ (n = 0 \/ Sent(n))
     /\ \E i \in DOMAIN servers : Served(i)
  \/ request.command = "CONNECT" /\ toClient = <<Established>>

\* The answer is one the code counts to its end: its length, announced or not, fits an
\* int, or its chunks fit.
Countable ==
  CASE reply.framing = "length" -> reply.announced < Half
    [] reply.framing = "close" -> ~Sent(Half)
    [] reply.framing = "chunked" -> ChunksFit

\* If the client took all it was sent it has, when the connection is dropped, every unit
\* of a countable answer the server sent, up to the announced length.
AnswerIsWhole ==
  pc = "done" /\ Status \in Range(toClient) /\ "client" \notin deaf /\ Countable
    => \A n \in 1..reply.announced : Sent(n) => <<"body", n>> \in Range(toClient)

\* The host's address is forgotten only if no server was handed the request.
ForgetsUnserved == released => \A i \in DOMAIN servers : ~Served(i)

\* At most one remote socket is open at a time, and none after process().
NoSocketLeaks ==
  /\ \A i, j \in open \ {0} : i = j
  /\ closed => open = {}

\* process() ends or becomes a tunnel, whatever fails on the way.
Ends == <>(pc \in {"relay", "done"})
=============================================================================
