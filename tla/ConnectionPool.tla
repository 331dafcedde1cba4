--------------------------- MODULE ConnectionPool ---------------------------
(***************************************************************************)
(* What HttpServer promises of the connections it owns, without threads,   *)
(* sockets or the vector: a slot is admitted, served, finished and then    *)
(* retired, in this order, and after the pool stops it admits none.        *)
(***************************************************************************)
CONSTANT Conns

VARIABLES stage, admitting

poolVars == <<stage, admitting>>

Init == stage = [c \in Conns |-> "free"] /\ admitting = TRUE

Admit(c) ==
  /\ admitting /\ stage[c] = "free"
  /\ stage' = [stage EXCEPT ![c] = "serving"]
  /\ UNCHANGED admitting

Finish(c) ==
  /\ stage[c] = "serving"
  /\ stage' = [stage EXCEPT ![c] = "finished"]
  /\ UNCHANGED admitting

Retire(c) ==
  /\ stage[c] = "finished"
  /\ stage' = [stage EXCEPT ![c] = "free"]
  /\ UNCHANGED admitting

Stop == admitting /\ admitting' = FALSE /\ UNCHANGED stage

Next == Stop \/ \E c \in Conns : Admit(c) \/ Finish(c) \/ Retire(c)

Spec == Init /\ [][Next]_poolVars
=============================================================================
