--------------------------- MODULE MCAndroidAgent ---------------------------
(* AndroidAgent with two names for processes, an agent and the one that is  *)
(* started beside it or after it, on a device that can exempt the agent's    *)
(* connections and one that cannot.                                          *)
EXTENDS AndroidAgent

\* Without pkill redsocks is never ended, and nothing asks whether it runs.
BothOwners == {[pkill |-> TRUE, owner |-> FALSE], [pkill |-> TRUE, owner |-> TRUE]}
=============================================================================
