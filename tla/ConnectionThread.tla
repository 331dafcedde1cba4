-------------------------- MODULE ConnectionThread --------------------------
(***************************************************************************)
(* What the thread of a connection does: HttpConnection::process() with    *)
(* doCONNECT(), which it calls for a CONNECT request.  HttpConnection      *)
(* takes that call as one step; here it is all the steps of Relay, and     *)
(* process() goes on when the relay has left its loop.                     *)
(***************************************************************************)
EXTENDS HttpConnection

CONSTANTS Data,    \* what a peer of the tunnel can send
          InSize,  \* units waiting to be received from a peer at most
          OutSize  \* units sent to a peer that it has not read at most

ASSUME QueueAssumption == {InSize, OutSize} \subseteq Nat \ {0}

VARIABLES relay,  \* Relay's pc
          turn, ready, buffer, inbox, outbox, peer

relayVars == <<relay, turn, ready, buffer, inbox, outbox, peer>>
threadVars == <<vars, relayVars>>

doCONNECT == INSTANCE Relay WITH pc <- relay

ThreadInit == Init /\ doCONNECT!Init

\* A step of process(): doCONNECT() has returned if it was called.
Process ==
  /\ pc = "relay" => relay = "end"
  /\ Next
  /\ UNCHANGED relayVars

Tunnel == pc = "relay" /\ doCONNECT!Loop /\ UNCHANGED vars

\* A peer that has something to say early is heard when the tunnel stands, and may
\* still read what it was sent when the sockets are closed.
Connected == pc = "relay" \/ relay = "end"

Hear(s) == Connected /\ doCONNECT!Read(s) /\ UNCHANGED vars

Act(s) ==
  /\ Connected
  /\ doCONNECT!Write(s) \/ doCONNECT!Shutdown(s) \/ doCONNECT!Quit(s)
  /\ UNCHANGED vars

ThreadNext == Process \/ Tunnel \/ \E s \in doCONNECT!Sides : Hear(s) \/ Act(s)

ThreadSpec == ThreadInit /\ [][ThreadNext]_threadVars

\* The thread is scheduled.  Nothing in the code bounds the wait of process() for a peer:
\* that each of them sends, takes data or goes away at last is assumed of the peers, and
\* that a peer of a tunnel reads what it is sent or leaves.  A tunnel may last for ever.
FairThread ==
  /\ ThreadSpec
  /\ WF_threadVars(Process)
  /\ WF_threadVars(Tunnel)
  /\ \A s \in doCONNECT!Sides : WF_threadVars(Hear(s))

-----------------------------------------------------------------------------
(* Correctness.                                                            *)

\* The relay of a CONNECT request is a tunnel: while it runs nothing is lost, repeated or
\* put out of order either way, and the peer whose going away ends it is heard out.
ImplementsTunnel == doCONNECT!ImplementsTunnel

\* While peers read, neither direction of it starves the other.
NeitherStarves == doCONNECT!NeitherStarves

\* A peer that sends no more ends the whole exchange, however much the other one sends:
\* both sockets are closed.
EndsWithItsPeers == \A s \in doCONNECT!Sides : peer[s] # "open" ~> closed
=============================================================================
