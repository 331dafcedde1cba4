---------------------------- MODULE DnsForwarder ----------------------------
(***************************************************************************)
(* The DNS forwarder of the agent (DnsServer, android/agent/main.cpp): it  *)
(* takes the queries of the device from its datagram socket one at a time, *)
(* passes each to a name server on a connection of its own, with its       *)
(* length in front, and sends back what it reads into the same buffer.     *)
(*                                                                         *)
(* A cell of the buffer remembers what was written there: a unit of        *)
(* the query or of the reply of a client, a length, or nothing yet.  The   *)
(* forwarder does not look at the length of a reply it cannot hold; here   *)
(* every reply fits.                                                       *)
(***************************************************************************)
EXTENDS Naturals, Sequences

CONSTANTS Clients,     \* programs of the device, each with a socket
          Units,       \* units of the longest query or reply
          QueueLimit   \* datagrams in the forwarder's socket

ASSUME UnitsAssumption == Units \in Nat \ {0}
ASSUME QueueLimitAssumption == QueueLimit \in Nat \ {0}

VARIABLES
  pc,       \* where DnsServer::process() is
  queue,    \* queries in its socket
  addr,     \* the client of the query under way
  buffer,   \* char buffer[4000 + 4]
  size,     \* packet_size
  nread,    \* units of the reply received
  emptied,  \* history: an empty datagram was received
  heard,    \* what each client was sent for its last query
  came,     \* history: how many units of the reply had come by then
  broken    \* history: clients whose reply broke off

vars == <<pc, queue, addr, buffer, size, nread, emptied, heard, came, broken>>

Cells == 1..(Units + 2)
Query(c, n) == [k \in 1..n |-> <<"query", c, k>>]
Reply(c, n) == [k \in 1..n |-> <<"reply", c, k>>]
Length == <<"length", "", 0>>
Nothing == <<"nothing", "", 0>>
Cell == {Length, Nothing} \cup ({"query", "reply"} \X Clients \X (1..Units))

TypeOK ==
  /\ pc \in {"wait", "forward", "length", "data", "reply", "ended"}
  /\ queue \in Seq([client : Clients, size : 0..Units]) /\ Len(queue) <= QueueLimit
  /\ addr \in Clients \cup {"nobody"}
  /\ buffer \in [Cells -> Cell]
  /\ size \in 0..Units /\ nread \in 0..size
  /\ emptied \in BOOLEAN
  /\ heard \in [Clients -> Seq(Cell)] /\ came \in [Clients -> 0..Units]
  /\ broken \subseteq Clients

Init ==
  /\ pc = "wait" /\ queue = <<>> /\ addr = "nobody"
  /\ buffer = [k \in Cells |-> Nothing]
  /\ size = 0 /\ nread = 0 /\ emptied = FALSE
  /\ heard = [c \in Clients |-> <<>>] /\ came = [c \in Clients |-> 0]
  /\ broken = {}

\* The buffer with these cells written from position first on.
Written(cells, first) ==
  [k \in Cells |-> IF k - first \in 0..(Len(cells) - 1) THEN cells[k - first + 1] ELSE buffer[k]]

\* A client has one query under way, and forgets what it was sent before.
Ask(c, n) ==
  /\ Len(queue) < QueueLimit
  /\ \A k \in 1..Len(queue) : queue[k].client # c
  /\ addr # c
  /\ queue' = Append(queue, [client |-> c, size |-> n])
  /\ heard' = [heard EXCEPT ![c] = <<>>] /\ came' = [came EXCEPT ![c] = 0]
  /\ broken' = broken \ {c}
  /\ UNCHANGED <<pc, addr, buffer, size, nread, emptied>>

\* recvfrom(): an empty datagram is taken for the end of the socket.
Take ==
  /\ pc = "wait" /\ queue # <<>> /\ queue' = Tail(queue)
  /\ LET query == Head(queue)
     IN IF query.size = 0
        THEN pc' = "ended" /\ emptied' = TRUE /\ UNCHANGED <<addr, buffer, size, nread>>
        ELSE /\ pc' = "forward" /\ addr' = query.client
             /\ buffer' = Written(<<Length, Length>> \o Query(query.client, query.size), 1)
             /\ size' = query.size /\ nread' = 0
             /\ UNCHANGED emptied
  /\ UNCHANGED <<heard, came, broken>>

\* "continue": nobody is told.
NextQuery == pc' = "wait" /\ addr' = "nobody" /\ size' = 0 /\ nread' = 0

\* Faulty variant: without a connection the forwarder gives up.
ForwardOrEnd ==
  /\ pc = "forward"
  /\ \/ pc' = "length" /\ UNCHANGED <<addr, size, nread>>
     \/ pc' = "ended" /\ UNCHANGED <<addr, size, nread>>
  /\ UNCHANGED <<queue, buffer, emptied, heard, came, broken>>

\* socket(), connect() and send().
Forward ==
  /\ pc = "forward"
  /\ \/ pc' = "length" /\ UNCHANGED <<addr, size, nread>>
     \/ NextQuery
  /\ UNCHANGED <<queue, buffer, emptied, heard, came, broken>>

\* The length of the reply, or less than its two bytes.
ReceiveLength ==
  /\ pc = "length"
  /\ \/ /\ pc' = "data" /\ size' \in 0..Units
        /\ UNCHANGED <<addr, nread>>
     \/ NextQuery
  /\ UNCHANGED <<queue, buffer, emptied, heard, came, broken>>

\* Faulty variant: every part of the reply is written to the start of the buffer.
ReceiveAtStart ==
  /\ pc = "data" /\ nread < size
  /\ \E n \in 1..(size - nread) :
       /\ buffer' = Written(SubSeq(Reply(addr, size), nread + 1, nread + n), 1)
       /\ nread' = nread + n
  /\ UNCHANGED <<pc, queue, addr, size, emptied, heard, came, broken>>

\* A turn of the loop that reads the reply.
ReceiveData ==
  /\ pc = "data" /\ nread < size
  /\ \E n \in 1..(size - nread) :
       /\ buffer' = Written(SubSeq(Reply(addr, size), nread + 1, nread + n), nread + 1)
       /\ nread' = nread + n
  /\ UNCHANGED <<pc, queue, addr, size, emptied, heard, came, broken>>

\* The reply has come whole, or the name server has left in the middle of it.
EndData ==
  /\ pc = "data" /\ pc' = "reply"
  /\ UNCHANGED <<queue, addr, buffer, size, nread, emptied, heard, came, broken>>

\* sendto(): size units, however many were received.
SendReply ==
  /\ pc = "reply" /\ NextQuery
  /\ heard' = [heard EXCEPT ![addr] = SubSeq(buffer, 1, size)]
  /\ came' = [came EXCEPT ![addr] = nread]
  /\ broken' = IF nread < size THEN broken \cup {addr} ELSE broken
  /\ UNCHANGED <<queue, buffer, emptied>>

Serve == Take \/ Forward \/ ReceiveLength \/ ReceiveData \/ EndData \/ SendReply

Next == Serve \/ \E c \in Clients, n \in 0..Units : Ask(c, n)

Spec == Init /\ [][Next]_vars

-----------------------------------------------------------------------------
(* Correctness.                                                            *)

\* What a client is sent is the reply to its own query, every unit in its place, in
\* whatever parts it came and whatever the buffer held before: all of it, or, if it
\* broke off, the units that came in front of what the buffer held.
HearsItsReply ==
  \A c \in Clients :
    /\ came[c] <= Len(heard[c])
    /\ \A k \in 1..came[c] : heard[c][k] = <<"reply", c, k>>
    /\ c \notin broken => came[c] = Len(heard[c])

\* A name server that always answers, or leaves, gets the forwarder to every query: one
\* that fails in any of its calls does not keep the next one waiting.
NameServerActs == pc \in {"length", "data"} ~> pc \notin {"length", "data"}

ServesOn == NameServerActs /\ [](~emptied) => \A c \in Clients :
  (\E k \in 1..Len(queue) : queue[k].client = c) ~> (\A k \in 1..Len(queue) : queue[k].client # c)
=============================================================================
