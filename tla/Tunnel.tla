------------------------------- MODULE Tunnel -------------------------------
(***************************************************************************)
(* What a CONNECT tunnel promises its two peers: a channel each way that   *)
(* loses, repeats and reorders nothing while the tunnel stands, and that   *)
(* hands over everything said by the peer whose going away ends it.        *)
(***************************************************************************)
EXTENDS SequencesExt

CONSTANTS Data

VARIABLES pipe,  \* pipe[s]: what peer s has said and the other not heard yet
          peer,  \* "open", "half" once it says no more, "gone" once it left
          up     \* the tunnel stands

tunnelVars == <<pipe, peer, up>>

Sides == {"client", "server"}
Other(s) == IF s = "client" THEN "server" ELSE "client"

Init ==
  /\ pipe = [s \in Sides |-> <<>>]
  /\ peer = [s \in Sides |-> "open"]
  /\ up = TRUE

\* A peer that has left hears nothing more.
Say(s) ==
  /\ up /\ peer[s] = "open"
  /\ \E u \in Data : pipe' = [pipe EXCEPT ![s] = Append(@, u)]
  /\ peer[Other(s)] # "gone"
  /\ UNCHANGED <<peer, up>>

Hear(s) ==
  /\ peer[s] # "gone"
  /\ pipe[Other(s)] # <<>>
  /\ pipe' = [pipe EXCEPT ![Other(s)] = Tail(@)]
  /\ UNCHANGED <<peer, up>>

SayNoMore(s) ==
  /\ peer[s] = "open"
  /\ peer' = [peer EXCEPT ![s] = "half"]
  /\ UNCHANGED <<pipe, up>>

Leave(s) ==
  /\ peer[s] # "gone"
  /\ peer' = [peer EXCEPT ![s] = "gone"]
  /\ pipe' = [pipe EXCEPT ![Other(s)] = <<>>]
  /\ UNCHANGED up

\* The tunnel falls when a peer says no more: what it said is kept, what the
\* other peer said may be lost from some point on.
Fall ==
  /\ up /\ up' = FALSE
  /\ \E s \in Sides :
       /\ peer[s] # "open"
       /\ pipe'[s] = pipe[s]
       /\ IsPrefix(pipe'[Other(s)], pipe[Other(s)])
       /\ DOMAIN pipe' = Sides
  /\ UNCHANGED peer

Next == Fall \/ \E s \in Sides : Say(s) \/ Hear(s) \/ SayNoMore(s) \/ Leave(s)

Spec == Init /\ [][Next]_tunnelVars
=============================================================================
