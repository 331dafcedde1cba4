---------------------------- MODULE AgentService ----------------------------
(***************************************************************************)
(* What the Android application relies on of the agents it starts: a       *)
(* process gets the service port or ends, the one that serves takes the    *)
(* commands in order, and quit ends it.  AndroidAgent implements it.       *)
(***************************************************************************)
EXTENDS Naturals, Sequences

CONSTANTS Agents,      \* names of processes
          QueueLimit   \* datagrams in the socket of an agent

VARIABLES
  life,      \* how far each process is
  port,      \* the agent that holds the service port, or "free"
  commands   \* datagrams in its socket

serviceVars == <<life, port, commands>>

Commands == {"quit", "noop"}
Lives == {"off", "asking", "starting", "serving", "ending"}

ServiceInit ==
  /\ life = [a \in Agents |-> "off"]
  /\ port = "free" /\ commands = <<>>

Becomes(a, new) == life' = [life EXCEPT ![a] = new]

Alive(a) == life[a] # "off"

\* "su -c youagent", and what the user answers su.
Launch(a) ==
  /\ ~Alive(a) /\ Becomes(a, "asking")
  /\ UNCHANGED <<port, commands>>

SuAnswers(a) ==
  /\ life[a] = "asking"
  /\ Becomes(a, "starting") \/ Becomes(a, "off")
  /\ UNCHANGED <<port, commands>>

\* An agent may get the port even when one of its threads has given up already.
TakePort(a) ==
  /\ life[a] \in {"starting", "ending"} /\ port = "free" /\ port' = a
  /\ UNCHANGED <<life, commands>>

\* The start ends with the port, or the agent ends.
Serve(a) ==
  /\ life[a] = "starting" /\ port = a /\ Becomes(a, "serving")
  /\ UNCHANGED <<port, commands>>

GiveUp(a) ==
  /\ life[a] \in {"starting", "serving"} /\ Becomes(a, "ending")
  /\ UNCHANGED <<port, commands>>

Take(a, command) ==
  /\ port = a /\ commands # <<>> /\ Head(commands) = command
  /\ commands' = Tail(commands)
  /\ UNCHANGED port

TakeQuit(a) ==
  /\ life[a] \in {"serving", "ending"} /\ Take(a, "quit") /\ Becomes(a, "ending")

\* The agent answers: who asks models that.
TakeNoop(a) ==
  /\ life[a] \in {"serving", "ending"} /\ Take(a, "noop")
  /\ UNCHANGED life

\* A process may end at any time.
Gone(a) ==
  /\ life[a] \notin {"off", "asking"} /\ Becomes(a, "off")
  /\ IF port = a THEN port' = "free" /\ commands' = <<>> ELSE UNCHANGED <<port, commands>>

\* A datagram is lost if nobody has the port.
Send(command) ==
  /\ Len(commands) < QueueLimit
  /\ commands' = IF port = "free" THEN commands ELSE Append(commands, command)
  /\ UNCHANGED <<life, port>>

\* What a process does without an answer.
Moves(a) ==
  SuAnswers(a) \/ TakePort(a) \/ Serve(a) \/ GiveUp(a) \/ TakeQuit(a) \/ Gone(a)

Process(a) == Moves(a) \/ TakeNoop(a)

ServiceNext ==
  \/ \E a \in Agents : Launch(a) \/ Process(a)
  \/ \E command \in Commands : Send(command)

\* A start comes to an end, commands are taken, and what is ending ends.
Proceeds(a) ==
  \/ life[a] = "starting" /\ (Serve(a) \/ GiveUp(a))
  \/ life[a] = "serving" /\ (TakeQuit(a) \/ TakeNoop(a))
  \/ life[a] = "ending" /\ Gone(a)

ServiceFairness == \A a \in Agents : WF_serviceVars(Proceeds(a))

ServiceSpec == ServiceInit /\ [][ServiceNext]_serviceVars /\ ServiceFairness
=============================================================================
