----------------------------- MODULE HeaderList -----------------------------
(***************************************************************************)
(* HttpMessage, the list of header fields, and what parseRequest(),        *)
(* sendRequest(), parseResponse() and sendResponse() do to it.             *)
(*                                                                         *)
(* A line is a field or has no colon.  Names compare without regard to     *)
(* case (stricmp), values with it: a field has a key, the name in lower    *)
(* case, and remembers how it was spelled.  "other" is every name the      *)
(* proxy does not look at.                                                 *)
(***************************************************************************)
EXTENDS Naturals, SequencesExt

CONSTANTS Spellings,  \* ways to write a name; "Proxy" is how the proxy does
          LineLimit   \* lines of a header

Values(key) ==
  CASE key \in {"connection", "proxy-connection"} -> {"close", "keep-alive"}
    [] key = "transfer-encoding" -> {"chunked", "gzip"}
    [] key = "other" -> {"a", "b"}

Keys == {"connection", "proxy-connection", "transfer-encoding", "other"}

Fields == UNION {[key : {k}, spelling : Spellings, value : Values(k)] : k \in Keys}

NoColon == [key |-> "", spelling |-> "", value |-> ""]

Lines == Fields \cup {NoColon}

VARIABLES
  kind,       \* a request or an answer
  keepProxy,  \* HttpRequest::keepProxy, set from the host's rule
  phase,      \* where the message is
  arrived,    \* history: the lines received so far
  items,      \* HttpMessage::items
  chunked,    \* HttpResponse::chunked
  sent        \* the lists handed to the other side

vars == <<kind, keepProxy, phase, arrived, items, chunked, sent>>

TypeOK ==
  /\ kind \in {"request", "answer"} /\ keepProxy \in BOOLEAN
  /\ phase \in {"lines", "message", "ready"}
  /\ arrived \in Seq(Lines) /\ Len(arrived) <= LineLimit
  /\ items \in Seq(Fields) /\ Len(items) <= Len(arrived) + 2
  /\ chunked \in BOOLEAN
  /\ sent \in Seq(Seq(Fields)) /\ Len(sent) <= 2

Init ==
  /\ kind \in {"request", "answer"} /\ keepProxy \in BOOLEAN
  /\ kind = "answer" => ~keepProxy
  /\ phase = "lines" /\ arrived = <<>> /\ items = <<>>
  /\ chunked = FALSE /\ sent = <<>>

-----------------------------------------------------------------------------
(* The list.                                                               *)

First(list, key) == SelectInSeq(list, LAMBDA field : field.key = key)

GetHeader(list, key) == IF First(list, key) = 0 THEN "" ELSE list[First(list, key)].value

\* Faulty variant: what is set is always added.
AddHeader(list, key, new) == Append(list, [key |-> key, spelling |-> "Proxy", value |-> new])

\* The first field of the name gets the value; if there is none the field is added.
SetHeader(list, key, new) ==
  IF First(list, key) = 0
  THEN Append(list, [key |-> key, spelling |-> "Proxy", value |-> new])
  ELSE [list EXCEPT ![First(list, key)].value = new]

\* Only the first field of the name goes.
RemoveHeader(list, key) == RemoveFirstMatch(list, LAMBDA field : field.key = key)

ParseHeader(list, line) == IF line = NoColon THEN list ELSE Append(list, line)

-----------------------------------------------------------------------------
(* parseMessage().                                                         *)

ReceiveLine ==
  /\ phase = "lines" /\ Len(arrived) < LineLimit
  /\ \E line \in Lines : /\ arrived' = Append(arrived, line)
                         /\ items' = ParseHeader(items, line)
  /\ UNCHANGED <<kind, keepProxy, phase, chunked, sent>>

\* The empty line, or the end of the connection: the caller cannot tell which.
EndOfLines ==
  /\ phase = "lines" /\ phase' = "message"
  /\ UNCHANGED <<kind, keepProxy, arrived, items, chunked, sent>>

-----------------------------------------------------------------------------
(* The request.                                                            *)

ParseRequest ==
  /\ kind = "request" /\ phase = "message" /\ phase' = "ready"
  /\ items' = RemoveHeader(SetHeader(items, "connection", "close"), "proxy-connection")
  /\ UNCHANGED <<kind, keepProxy, arrived, chunked, sent>>

\* Faulty variant: the host's proxy is told again with every attempt.
SendRequestAdding ==
  /\ kind = "request" /\ phase = "ready" /\ Len(sent) < 2
  /\ items' = IF keepProxy THEN AddHeader(items, "proxy-connection", "close") ELSE items
  /\ sent' = Append(sent, items')
  /\ UNCHANGED <<kind, keepProxy, phase, arrived, chunked>>

\* process() calls sendRequest() at most twice; the list keeps what it changes.
SendRequest ==
  /\ kind = "request" /\ phase = "ready" /\ Len(sent) < 2
  /\ items' = IF keepProxy THEN SetHeader(items, "proxy-connection", "close") ELSE items
  /\ sent' = Append(sent, items')
  /\ UNCHANGED <<kind, keepProxy, phase, arrived, chunked>>

-----------------------------------------------------------------------------
(* The answer.                                                             *)

ParseResponse ==
  /\ kind = "answer" /\ phase = "message" /\ phase' = "ready"
  /\ chunked' = (GetHeader(items, "transfer-encoding") = "chunked")
  /\ items' = IF chunked' THEN RemoveHeader(items, "transfer-encoding") ELSE items
  /\ UNCHANGED <<kind, keepProxy, arrived, sent>>

SendResponse ==
  /\ kind = "answer" /\ phase = "ready" /\ sent = <<>>
  /\ sent' = <<items>>
  /\ UNCHANGED <<kind, keepProxy, phase, arrived, items, chunked>>

Next == ReceiveLine \/ EndOfLines \/ ParseRequest \/ SendRequest \/ ParseResponse \/ SendResponse

Spec == Init /\ [][Next]_vars

-----------------------------------------------------------------------------
(* Correctness.                                                            *)

\* The fields of a list with one of these keys, in their order.
Only(list, keys) ==
  LET only[n \in 0..Len(list)] ==
        IF n = 0 THEN <<>>
        ELSE IF list[n].key \in keys THEN Append(only[n - 1], list[n]) ELSE only[n - 1]
  IN only[Len(list)]
Count(list, key) == Len(Only(list, {key}))

\* Fields that mean nothing to the proxy, repeated ones like cookies among them, reach
\* the other side as they came: all of them, in their order and spelling.
OthersKept == \A n \in 1..Len(sent) : Only(sent[n], {"other"}) = Only(arrived, {"other"})

\* A server is told exactly once to close, in place of whatever the client said of the
\* connection, and nothing of the client's connection to the proxy, but "close" if it is a
\* proxy itself: if the client says each of them once at most, however it spells it.
TellsServerToClose ==
  \A n \in 1..Len(sent) :
    kind = "request" /\ Count(arrived, "connection") <= 1 /\ Count(arrived, "proxy-connection") <= 1
      => /\ Count(sent[n], "connection") = 1 /\ GetHeader(sent[n], "connection") = "close"
         /\ Count(sent[n], "proxy-connection") = IF keepProxy THEN 1 ELSE 0
         /\ keepProxy => GetHeader(sent[n], "proxy-connection") = "close"

\* The retry sends what the first attempt sent.
AttemptsAlike == \A m, n \in 1..Len(sent) : sent[m] = sent[n]

\* What the client is told of the coding is how the body will come: of an answer with at
\* most one field for it, the field is gone if and only if the proxy decodes.
CodingTold ==
  kind = "answer" /\ sent # <<>> /\ Count(arrived, "transfer-encoding") <= 1
    => Only(sent[1], {"transfer-encoding"})
         = IF chunked THEN <<>> ELSE Only(arrived, {"transfer-encoding"})

\* A header is handed on as it came but for what concerns the two connections: the parts
\* above, at every attempt.
HandedOn == OthersKept /\ TellsServerToClose /\ AttemptsAlike /\ CodingTold
=============================================================================
