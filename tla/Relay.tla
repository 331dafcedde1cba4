------------------------------- MODULE Relay --------------------------------
(***************************************************************************)
(* The tunnel of a CONNECT request: HttpConnection::doCONNECT().  One      *)
(* thread serves both directions with blocking calls; the peers and the    *)
(* socket buffers between them and the proxy run beside it.                *)
(***************************************************************************)
EXTENDS Naturals, SequencesExt

CONSTANTS Data,        \* what a peer can send
          BufferSize,  \* units one recv() call takes at most
          InSize,      \* units waiting to be received from a peer at most
          OutSize      \* units sent to a peer that it has not read at most

VARIABLES
  pc,      \* "select", "recv", "send" or "end"
  turn,    \* the peer recv() reads from, and send() forwards for
  ready,   \* the sockets select() found readable
  buffer,  \* the local buffer
  inbox,   \* inbox[s]: from peer s, not received by the proxy
  outbox,  \* outbox[s]: sent to peer s, not read by it
  peer     \* "open", "half" once it sends no more, "gone" once it left

proxyVars == <<pc, turn, ready, buffer>>
vars == <<proxyVars, inbox, outbox, peer>>

Sides == {"client", "server"}
Other(s) == IF s = "client" THEN "server" ELSE "client"

TypeOK ==
  /\ pc \in {"select", "recv", "send", "end"}
  /\ turn \in Sides
  /\ ready \in SUBSET Sides
  /\ buffer \in Seq(Data) /\ Len(buffer) <= BufferSize
  /\ inbox \in [Sides -> Seq(Data)]
  /\ outbox \in [Sides -> Seq(Data)]
  /\ \A s \in Sides : Len(inbox[s]) <= InSize /\ Len(outbox[s]) <= OutSize
  /\ peer \in [Sides -> {"open", "half", "gone"}]

Init ==
  /\ pc = "select" /\ turn = "client" /\ ready = {} /\ buffer = <<>>
  /\ inbox = [s \in Sides |-> <<>>]
  /\ outbox = [s \in Sides |-> <<>>]
  /\ peer = [s \in Sides |-> "open"]

-----------------------------------------------------------------------------
(* The thread.                                                             *)

\* A socket is readable if data or an end of file is waiting.
Readable == {s \in Sides : inbox[s] # <<>> \/ peer[s] # "open"}

Select ==
  /\ pc = "select" /\ Readable # {}
  /\ ready' = Readable
  /\ pc' = "recv"
  /\ turn' = IF "client" \in ready' THEN "client" ELSE "server"
  /\ UNCHANGED <<buffer, inbox, outbox, peer>>

Least(a, b) == IF a <= b THEN a ELSE b

RecvUpTo(limit) ==
  /\ pc = "recv" /\ inbox[turn] # <<>>
  /\ LET n == Least(limit, Len(inbox[turn]))
     IN /\ buffer' = SubSeq(inbox[turn], 1, n)
        /\ inbox' = [inbox EXCEPT ![turn] = SubSeq(@, n + 1, Len(@))]
  /\ pc' = "send"
  /\ UNCHANGED <<turn, ready, outbox, peer>>

Recv == RecvUpTo(BufferSize)

\* Faulty variant: an end of file is no reason to leave the loop.
SkipEof ==
  /\ pc = "recv" /\ inbox[turn] = <<>>
  /\ pc' = "select"
  /\ UNCHANGED <<turn, ready, buffer, inbox, outbox, peer>>

\* recv() returns 0 or an error: the loop is left whatever the other side has.
RecvEof ==
  /\ pc = "recv" /\ inbox[turn] = <<>>
  /\ pc' = "end"
  /\ UNCHANGED <<turn, ready, buffer, inbox, outbox, peer>>

\* Faulty variant: "else if" between the two sides.
GoBack == pc' = "select" /\ UNCHANGED turn

\* The second FD_ISSET of the same turn of the loop, then select() again.
GoOn ==
  IF turn = "client" /\ "server" \in ready
  THEN pc' = "recv" /\ turn' = "server"
  ELSE pc' = "select" /\ UNCHANGED turn

\* Faulty variant: send() does not block, and what it did not take is dropped.
SendOnce ==
  /\ pc = "send"
  /\ LET to == Other(turn)
         n == Least(OutSize - Len(outbox[to]), Len(buffer))
     IN outbox' = IF peer[to] = "gone" THEN outbox
                  ELSE [outbox EXCEPT ![to] = @ \o SubSeq(buffer, 1, n)]
  /\ buffer' = <<>>
  /\ GoOn
  /\ UNCHANGED <<ready, inbox, peer>>

\* send() blocks until the socket buffer has taken everything.  A peer that
\* has left takes nothing; what send() returns is not looked at.
Send ==
  /\ pc = "send"
  /\ LET to == Other(turn)
         n == Least(OutSize - Len(outbox[to]), Len(buffer))
     IN \/ /\ peer[to] = "gone"
           /\ buffer' = <<>> /\ UNCHANGED outbox
        \/ /\ peer[to] # "gone" /\ n > 0
           /\ outbox' = [outbox EXCEPT ![to] = @ \o SubSeq(buffer, 1, n)]
           /\ buffer' = SubSeq(buffer, n + 1, Len(buffer))
  /\ IF buffer' = <<>> THEN GoOn ELSE UNCHANGED <<pc, turn>>
  /\ UNCHANGED <<ready, inbox, peer>>

Loop == Select \/ Recv \/ RecvEof \/ Send

-----------------------------------------------------------------------------
(* The peers and the network.                                              *)

Write(s) ==
  /\ pc # "end" /\ peer[s] = "open" /\ Len(inbox[s]) < InSize
  /\ \E u \in Data : inbox' = [inbox EXCEPT ![s] = Append(@, u)]
  /\ UNCHANGED <<proxyVars, outbox, peer>>

Read(s) ==
  /\ peer[s] # "gone" /\ outbox[s] # <<>>
  /\ outbox' = [outbox EXCEPT ![s] = Tail(@)]
  /\ UNCHANGED <<proxyVars, inbox, peer>>

Shutdown(s) ==
  /\ peer[s] = "open"
  /\ peer' = [peer EXCEPT ![s] = "half"]
  /\ UNCHANGED <<proxyVars, inbox, outbox>>

Quit(s) ==
  /\ peer[s] # "gone"
  /\ peer' = [peer EXCEPT ![s] = "gone"]
  /\ outbox' = [outbox EXCEPT ![s] = <<>>]
  /\ UNCHANGED <<proxyVars, inbox>>

Next == Loop \/ \E s \in Sides : Write(s) \/ Read(s) \/ Shutdown(s) \/ Quit(s)

Spec == Init /\ [][Next]_vars

-----------------------------------------------------------------------------
(* Correctness.                                                            *)

\* What s said and the other has not heard: in the socket buffers and in hand.
Held(s) ==
  IF peer[Other(s)] = "gone" THEN <<>>
  ELSE outbox[Other(s)] \o (IF turn = s THEN buffer ELSE <<>>)
         \o (IF pc = "end" THEN <<>> ELSE inbox[s])

Pipes == INSTANCE Tunnel
           WITH pipe <- [s \in Sides |-> Held(s)], up <- pc # "end"

\* The relay is a tunnel: while it runs nothing is lost, repeated or put out of
\* order either way, and the peer whose going away ends it is heard out.
ImplementsTunnel == Pipes!Spec

\* While peers read, neither direction starves the other: what a peer sends is
\* received although the other peer never stops sending.
NeitherStarves ==
  \A s \in Sides : inbox[s] # <<>> ~> pc = "end" \/ (pc = "recv" /\ turn = s)
=============================================================================
