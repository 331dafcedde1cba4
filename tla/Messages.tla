------------------------------ MODULE Messages ------------------------------
(***************************************************************************)
(* The messages the programs handle: the queries of the device that the    *)
(* agent passes on (DnsForwarder), the reply of a name server to a query   *)
(* of the proxy (DnsReply), and the header of a request or an answer of    *)
(* HTTP (HeaderList).  They share no state in the code: one of them is     *)
(* handled, and the variables of the others stay as they are.              *)
(***************************************************************************)
EXTENDS DnsForwarder

CONSTANTS Forms, Hosts, RecordLimit, Junk, JunkLimit,  \* of DnsReply
          Spellings, LineLimit                         \* of HeaderList

ASSUME FormsAssumption == Forms \subseteq {"pointer", "labels then pointer", "labels"}
ASSUME ByteAssumption == Hosts \cup Junk \subseteq 0..255
ASSUME LimitAssumption == RecordLimit \in 1..255 /\ JunkLimit \in Nat
ASSUME LinesAssumption == "Proxy" \in Spellings /\ LineLimit \in Nat

VARIABLES message,
          query, phase, reply, got, junk, pos, left, found, text,
          kind, keepProxy, stage, arrived, items, chunked, sent

replyVars == <<query, phase, reply, got, junk, pos, left, found, text>>
headerVars == <<kind, keepProxy, stage, arrived, items, chunked, sent>>

Answer == INSTANCE DnsReply
Header == INSTANCE HeaderList WITH phase <- stage

MessageInit ==
  /\ Init /\ Answer!Init /\ Header!Init
  /\ message \in {"query", "reply", "header"}
  /\ message # "reply" => query = Answer!A /\ junk = 0
  /\ message # "header" => kind = "answer"

ForwardQuery == message = "query" /\ Next /\ UNCHANGED <<message, replyVars, headerVars>>

ReadReply == message = "reply" /\ Answer!Next /\ UNCHANGED <<message, vars, headerVars>>

ReadHeader == message = "header" /\ Header!Next /\ UNCHANGED <<message, vars, replyVars>>

MessageNext == ForwardQuery \/ ReadReply \/ ReadHeader

messageVars == <<message, vars, replyVars, headerVars>>

MessageSpec == MessageInit /\ [][MessageNext]_messageVars

\* The forwarder's thread runs whenever it is not waiting for the name server, which
\* owes nothing.
FairMessages ==
  /\ MessageSpec
  /\ WF_messageVars(message = "query" /\ (Take \/ Forward \/ SendReply) /\ UNCHANGED <<message, replyVars, headerVars>>)

\* DnsReply's property, of queryA() and queryTXT(): what the two functions return is what
\* the name server answered.
ReadsReply == Answer!ReadsReply

\* HeaderList's property, of HttpMessage with its requests and answers: a header is
\* handed on as it came but for what concerns the two connections.
HandedOn == Header!HandedOn
=============================================================================
