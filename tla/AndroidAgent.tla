---------------------------- MODULE AndroidAgent ----------------------------
(***************************************************************************)
(* The agents of Android (android/agent) and the device they change: the   *)
(* name server, the packet filter and redsocks outlive a process.          *)
(*                                                                         *)
(* An agent has two threads that matter here: main(), which takes the      *)
(* service port, changes the device and waits for commands, and DnsServer, *)
(* which ends the whole process with err() if it does not get port 53.     *)
(* exit() runs disable_proxy() in the thread that calls it, while the      *)
(* other one goes on.  Agents are started at any time, killed at any time, *)
(* and a name of Agents stands for any number of processes in turn.        *)
(*                                                                         *)
(* The two DNS ports of two agents do not clash: both set SO_REUSEADDR on  *)
(* a datagram socket.  The filter is taken to hold no rules of others.     *)
(***************************************************************************)
EXTENDS Naturals, Sequences, FiniteSets

CONSTANTS Agents,      \* names of processes
          Devices,     \* what the device may support
          QueueLimit   \* datagrams in the socket of an agent

ASSUME DevicesAssumption == Devices \subseteq [pkill : BOOLEAN, owner : BOOLEAN]
ASSUME LimitAssumption == QueueLimit \in Nat \ {0}
ASSUME AgentsAssumption == "free" \notin Agents

Threads == {"main", "dns"}
Commands == {"quit", "noop"}
AllRules == {"root", "loopback", "http", "https"}

VARIABLES
  pc,          \* where each thread of each agent is
  old,         \* old_dns1 of each agent
  undoing,     \* enable_proxy() called disable_proxy() itself
  registered,  \* atexit() was called and exit() not yet
  dns,         \* the property net.dns1 of the device
  rules,       \* the rules of the packet filter
  redsocks,    \* redsocks runs
  device,      \* what the device supports: pkill, and matching by owner
  port,        \* the agent that holds the service port, or "free"
  commands,    \* datagrams in its socket
  faults       \* history: an agent lost what it remembered, or was refused port 53

agentVars == <<pc, old, undoing, registered>>
deviceVars == <<dns, rules, redsocks, device>>
socketVars == <<port, commands>>
vars == <<agentVars, deviceVars, socketVars, faults>>

Places == {"off", "asking", "killOld", "spawn", "bind", "register", "remember", "point",
           "redsocks", "flush", "exempt", "loopback", "http", "https", "command",
           "serve", "exit", "restore", "clean", "killSocks", "end"}

TypeOK ==
  /\ pc \in [Agents -> [Threads -> Places]]
  /\ old \in [Agents -> {"none", "network", "local"}]
  /\ undoing \in [Agents -> BOOLEAN] /\ registered \in [Agents -> BOOLEAN]
  /\ dns \in {"network", "local"}
  /\ rules \subseteq AllRules
  /\ redsocks \in BOOLEAN
  /\ device \in Devices
  /\ port \in Agents \cup {"free"}
  /\ commands \in Seq(Commands) /\ Len(commands) <= QueueLimit
  /\ faults \subseteq {"lost", "refused"}

Off == [t \in Threads |-> "off"]

Init ==
  /\ pc = [a \in Agents |-> Off]
  /\ old = [a \in Agents |-> "none"]
  /\ undoing = [a \in Agents |-> FALSE] /\ registered = [a \in Agents |-> FALSE]
  /\ dns = "network" /\ rules = {} /\ redsocks = FALSE
  /\ device \in Devices
  /\ port = "free" /\ commands = <<>>
  /\ faults = {}

Go(a, t, place) == pc' = [pc EXCEPT ![a][t] = place]

Alive(a) == pc[a].main # "off"

\* A step of main() from one place to the next that leaves processes alone.
Main(a, from, to) ==
  /\ pc[a].main = from /\ Go(a, "main", to)
  /\ UNCHANGED <<undoing, registered, socketVars>>

-----------------------------------------------------------------------------
(* Start and end of a process.                                             *)

\* "su -c youagent": su asks the user before it runs the agent.
Launch(a) ==
  /\ ~Alive(a) /\ Go(a, "main", "asking")
  /\ UNCHANGED <<old, undoing, registered, deviceVars, socketVars, faults>>

SuAnswers(a) ==
  /\ pc[a].main = "asking"
  /\ Go(a, "main", "killOld") \/ Go(a, "main", "off")
  /\ UNCHANGED <<old, undoing, registered, deviceVars, socketVars, faults>>

\* The process is gone: its socket is closed, its memory is no more.
Gone(a) ==
  /\ pc' = [pc EXCEPT ![a] = Off]
  /\ old' = [old EXCEPT ![a] = "none"]
  /\ undoing' = [undoing EXCEPT ![a] = FALSE]
  /\ registered' = [registered EXCEPT ![a] = FALSE]
  /\ IF port = a THEN port' = "free" /\ commands' = <<>> ELSE UNCHANGED <<port, commands>>
  /\ UNCHANGED deviceVars

Kill(a) ==
  /\ Alive(a) /\ pc[a].main # "asking"
  /\ Gone(a)
  /\ faults' = faults \cup {"lost"}

\* exit(): the handler is run by the thread that comes first.
Exit(a, t) ==
  /\ pc[a][t] = "exit" /\ \A u \in Threads \ {t} : pc[a][u] \notin {"restore", "clean", "killSocks"}
  /\ Go(a, t, IF registered[a] THEN "restore" ELSE "end")
  /\ registered' = [registered EXCEPT ![a] = FALSE]
  /\ UNCHANGED <<old, undoing, deviceVars, socketVars, faults>>

\* exit() while the other thread runs the handler is undefined: it waits for
\* it (the guard of Exit) or ends the process at once.
ExitAtOnce(a, t) ==
  /\ pc[a][t] = "exit" /\ \E u \in Threads \ {t} : pc[a][u] \in {"restore", "clean", "killSocks"}
  /\ Gone(a)
  /\ UNCHANGED faults

End(a, t) == pc[a][t] = "end" /\ Gone(a) /\ UNCHANGED faults

-----------------------------------------------------------------------------
(* main() and DnsServer.                                                   *)

\* system("pkill redsocks"), whosever it is.
KillOld(a) ==
  /\ Main(a, "killOld", "spawn")
  /\ redsocks' = (redsocks /\ ~device.pkill)
  /\ UNCHANGED <<old, dns, rules, device, faults>>

Spawn(a) ==
  /\ pc[a].main = "spawn"
  /\ pc' = [pc EXCEPT ![a] = [main |-> "bind", dns |-> "bind"]]
  /\ UNCHANGED <<old, undoing, registered, deviceVars, socketVars, faults>>

\* DnsServer::process(): somebody else may have port 53.
BindDns(a) ==
  /\ pc[a].dns = "bind"
  /\ \/ Go(a, "dns", "serve") /\ UNCHANGED faults
     \/ Go(a, "dns", "exit") /\ faults' = faults \cup {"refused"}
  /\ UNCHANGED <<old, undoing, registered, deviceVars, socketVars>>

\* Faulty variant: the service port is shared like the DNS port.
BindShared(a) ==
  /\ pc[a].main = "bind" /\ port' = a
  /\ Go(a, "main", "register")
  /\ UNCHANGED <<old, undoing, registered, deviceVars, commands, faults>>

\* err(2) when another agent has the service port.
Bind(a) ==
  /\ pc[a].main = "bind"
  /\ \/ port = "free" /\ port' = a /\ Go(a, "main", "register")
     \/ port # "free" /\ UNCHANGED port /\ Go(a, "main", "exit")
  /\ UNCHANGED <<old, undoing, registered, deviceVars, commands, faults>>

\* atexit(disable_proxy).
Register(a) ==
  /\ pc[a].main = "register" /\ Go(a, "main", "remember")
  /\ registered' = [registered EXCEPT ![a] = TRUE]
  /\ UNCHANGED <<old, undoing, deviceVars, socketVars, faults>>

-----------------------------------------------------------------------------
(* enable_proxy().                                                         *)

\* get_dns1(): nothing is remembered if popen() fails.
Remember(a) ==
  /\ Main(a, "remember", "point")
  /\ \/ old' = [old EXCEPT ![a] = dns] /\ UNCHANGED faults
     \/ faults' = faults \cup {"lost"} /\ UNCHANGED old
  /\ UNCHANGED deviceVars

\* set_dns1("127.0.0.1").
Point(a) ==
  /\ Main(a, "point", "redsocks")
  /\ dns' = "local"
  /\ UNCHANGED <<old, rules, redsocks, device, faults>>

\* Whether redsocks starts is not looked at.
StartRedsocks(a) ==
  /\ Main(a, "redsocks", "flush")
  /\ redsocks' \in {redsocks, TRUE}
  /\ UNCHANGED <<old, dns, rules, device, faults>>

Flush(a) ==
  /\ Main(a, "flush", "exempt")
  /\ rules' = {}
  /\ UNCHANGED <<old, dns, redsocks, device, faults>>

\* Faulty variant: the agent gives up without a call of disable_proxy(), by _exit().
ExemptOrGiveUp(a) ==
  /\ pc[a].main = "exempt"
  /\ IF device.owner THEN rules' = rules \cup {"root"} /\ Go(a, "main", "loopback")
     ELSE UNCHANGED rules /\ Go(a, "main", "end")
  /\ UNCHANGED <<old, undoing, registered, dns, redsocks, device, socketVars, faults>>

\* The agent's own connections must not be redirected; a device that cannot
\* exempt them is restored and the process ends with errx().
Exempt(a) ==
  /\ pc[a].main = "exempt"
  /\ IF device.owner
     THEN rules' = rules \cup {"root"} /\ Go(a, "main", "loopback") /\ UNCHANGED undoing
     ELSE undoing' = [undoing EXCEPT ![a] = TRUE] /\ Go(a, "main", "restore") /\ UNCHANGED rules
  /\ UNCHANGED <<old, registered, dns, redsocks, device, socketVars, faults>>

AddRule(a, rule, next) ==
  /\ Main(a, rule, next)
  /\ rules' = rules \cup {rule}
  /\ UNCHANGED <<old, dns, redsocks, device, faults>>

Redirect(a) == AddRule(a, "loopback", "http") \/ AddRule(a, "http", "https")
                 \/ AddRule(a, "https", "command")

-----------------------------------------------------------------------------
(* disable_proxy(), called by exit() or by enable_proxy().                 *)

\* With nothing remembered "setprop" lacks its argument and does nothing.
Restore(a, t) ==
  /\ pc[a][t] = "restore" /\ Go(a, t, "clean")
  /\ dns' = IF old[a] = "none" THEN dns ELSE old[a]
  /\ UNCHANGED <<old, undoing, registered, rules, redsocks, device, socketVars, faults>>

\* Faulty variant: the rules are left for the next agent to flush.
LeaveRules(a, t) ==
  /\ pc[a][t] = "clean" /\ Go(a, t, "killSocks")
  /\ UNCHANGED <<old, undoing, registered, deviceVars, socketVars, faults>>

Clean(a, t) ==
  /\ pc[a][t] = "clean" /\ Go(a, t, "killSocks")
  /\ rules' = {}
  /\ UNCHANGED <<old, undoing, registered, dns, redsocks, device, socketVars, faults>>

KillSocks(a, t) ==
  /\ pc[a][t] = "killSocks"
  /\ redsocks' = (redsocks /\ ~device.pkill)
  /\ Go(a, t, IF t = "main" /\ undoing[a] THEN "exit" ELSE "end")
  /\ undoing' = [undoing EXCEPT ![a] = FALSE]
  /\ UNCHANGED <<old, registered, dns, rules, device, socketVars, faults>>

-----------------------------------------------------------------------------
(* Commands.                                                               *)

\* Somebody sends a datagram to the service port: lost if nobody has it.
Send(command) ==
  /\ Len(commands) < QueueLimit
  /\ commands' = IF port = "free" THEN commands ELSE Append(commands, command)
  /\ UNCHANGED <<agentVars, deviceVars, port, faults>>

\* Faulty variant: the loop goes on after quit.
IgnoreQuit(a) ==
  /\ pc[a].main = "command" /\ commands # <<>>
  /\ commands' = Tail(commands)
  /\ UNCHANGED <<agentVars, deviceVars, port, faults>>

\* The loop of main(): noop is answered, which changes nothing here.
Command(a) ==
  /\ pc[a].main = "command" /\ commands # <<>>
  /\ commands' = Tail(commands)
  /\ \/ Head(commands) = "quit" /\ Go(a, "main", "exit")
     \/ Head(commands) = "noop" /\ UNCHANGED pc
  /\ UNCHANGED <<old, undoing, registered, deviceVars, port, faults>>

-----------------------------------------------------------------------------
Disable(a, t) == Restore(a, t) \/ Clean(a, t) \/ KillSocks(a, t)

Enable(a) == Remember(a) \/ Point(a) \/ StartRedsocks(a) \/ Flush(a) \/ Exempt(a) \/ Redirect(a)

MainStep(a) ==
  \/ KillOld(a) \/ Spawn(a) \/ Bind(a) \/ Register(a) \/ Enable(a) \/ Command(a)
  \/ Disable(a, "main") \/ Exit(a, "main") \/ End(a, "main")

DnsStep(a) == BindDns(a) \/ Disable(a, "dns") \/ Exit(a, "dns") \/ End(a, "dns")

Crash(a) == Kill(a) \/ \E t \in Threads : ExitAtOnce(a, t)

Agent(a) == MainStep(a) \/ DnsStep(a) \/ Crash(a)

Next ==
  \/ \E a \in Agents : Agent(a) \/ Launch(a) \/ SuAnswers(a)
  \/ \E command \in Commands : Send(command)

Spec == Init /\ [][Next]_vars

\* Threads are scheduled; nobody need start, kill or ask an agent.
Fairness == \A a \in Agents : WF_vars(MainStep(a)) /\ WF_vars(DnsStep(a))

FairSpec == Spec /\ Fairness

-----------------------------------------------------------------------------
(* Correctness.                                                            *)

\* Agents that come and go in any order, a second one beside the first or on a
\* device without the owner match, leave the device as they found it when the
\* last is gone: unless one was killed, had port 53 refused, or could not read the
\* name server.  Where pkill does not exist redsocks stays.
LeftAsFound ==
  faults = {} /\ (\A a \in Agents : ~Alive(a))
    => dns = "network" /\ rules = {} /\ (redsocks => ~device.pkill)

\* As long as an agent waits for commands the settings are those it made: no
\* other agent, however it starts, fails or is killed, undoes them.
Ending(a) == \E t \in Threads : pc[a][t] \in {"exit", "restore", "clean", "killSocks", "end"}

EnabledStands ==
  \A a \in Agents : pc[a].main = "command" /\ ~Ending(a) => dns = "local" /\ rules = AllRules

\* Two agents never change the name server or the filter at the same time.
Changing(a) == \E t \in Threads :
  pc[a][t] \in {"remember", "point", "redsocks", "flush", "exempt", "loopback", "http",
                "https", "command", "restore", "clean", "killSocks"}

OneChanges == \A a, b \in Agents : Changing(a) /\ Changing(b) => a = b

\* When the holder of the service port is about to end after the exit handler no
\* redirection is left that leads nowhere, whatever agents that were killed had left
\* behind; but for a DNS thread that is refused port 53 in the middle of enable_proxy().
QuitCleansUp ==
  \A a \in Agents : pc[a].main = "end" /\ port = a /\ "refused" \notin faults
    => rules = {} /\ (redsocks => ~device.pkill)

\* What the application sees of an agent: a process that starts, serves and ends.
Life(a) ==
  IF pc[a].main \in {"off", "asking"} THEN pc[a].main
  ELSE IF Ending(a) THEN "ending"
  ELSE IF pc[a].main = "command" THEN "serving" ELSE "starting"

Service == INSTANCE AgentService WITH life <- [a \in Agents |-> Life(a)]

\* The agents are what the application relies on: whatever their threads do, a
\* start ends, commands are taken in order, and an agent told to quit ends.
ImplementsService == Service!ServiceSpec
=============================================================================
