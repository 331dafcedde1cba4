-------------------------- MODULE AndroidAgentProofs --------------------------
(***************************************************************************)
(* Proofs about AndroidAgent, for any number of agents and any device: its *)
(* safety properties, and that its steps are steps of AgentService.        *)
(*                                                                         *)
(* The service port is what keeps agents apart.  Held says that whoever    *)
(* changes the name server or the filter has the port; so the others leave *)
(* alone what Stands, Cleans and Finds say of the holder: how far it has   *)
(* got, that its exit handler is registered, and what it remembers.        *)
(***************************************************************************)
EXTENDS AndroidAgent, SequenceTheorems, TLAPS

Waiting == {"off", "asking", "killOld", "spawn", "bind"}
Undoing == {"restore", "clean", "killSocks"}
Pointed == {"redsocks", "flush", "exempt", "loopback", "http", "https", "command"}

\* Who has the service port, and what an agent without it cannot have reached.
Held(a) ==
  /\ pc[a].dns \in {"off", "bind", "serve", "exit", "end"} \cup Undoing
  /\ pc[a].main \in {"off", "asking", "killOld", "spawn"} => pc[a].dns = "off"
  /\ pc[a].main \in Waiting => port # a
  /\ undoing[a] => pc[a].main \in Undoing
  /\ pc[a].main \notin {"exit", "end"} \cup Waiting => port = a
  /\ pc[a].dns \in Undoing => port = a
  /\ registered[a] => port = a

\* What an agent that is not about to end has set up so far.
Stands(a) == ~Ending(a) =>
  /\ pc[a].main \in Pointed => dns = "local"
  /\ pc[a].main = "exempt" => rules = {}
  /\ pc[a].main = "loopback" => rules = {"root"}
  /\ pc[a].main = "http" => rules = {"root", "loopback"}
  /\ pc[a].main = "https" => rules = {"root", "loopback", "http"}
  /\ pc[a].main = "command" => rules = AllRules

\* The exit handler will be run, or has been.
Cleans(a) == "refused" \notin faults =>
  /\ pc[a].dns \in {"off", "bind", "serve"}
  /\ port = a /\ pc[a].main \in {"remember", "point", "exit"} \cup Pointed => registered[a]
  /\ pc[a].main \in Undoing /\ undoing[a] => registered[a]
  /\ pc[a].main = "killSocks" => rules = {}
  /\ pc[a].main = "end" /\ port = a => rules = {} /\ (redsocks => ~device.pkill)

Found == dns = "network" /\ rules = {} /\ (redsocks => ~device.pkill)

\* What the holder of the port found, and what it will put back.
Finds(a) == faults = {} /\ port = a =>
  /\ pc[a].main \in {"register", "remember"} => Found
  /\ pc[a].main \in {"point", "exit"} \cup Pointed \cup Undoing => old[a] = "network"
  /\ pc[a].main \in {"clean", "killSocks", "end"} => dns = "network"

Free == faults = {} /\ port = "free" => Found

Each(a) == Held(a) /\ Stands(a) /\ Cleans(a) /\ Finds(a)

IInv == TypeOK /\ Free /\ \A a \in Agents : Each(a)

-----------------------------------------------------------------------------
\* The device is as it was, and no agent runs.
LEMMA InitIInv == Init => IInv
<1> SUFFICES ASSUME Init PROVE IInv
  OBVIOUS
<1>1. TypeOK
  <2>1. commands \in Seq(Commands) /\ Len(commands) <= QueueLimit
    BY LimitAssumption DEF Init
  <2>2. pc \in [Agents -> [Threads -> Places]]
    BY DEF Init, Off, Places
  <2> QED BY <2>1, <2>2, Zenon DEF Init, TypeOK
<1>2. ASSUME NEW a \in Agents PROVE Each(a)
  <2>1. pc[a].main = "off" /\ pc[a].dns = "off" /\ port # a /\ ~undoing[a] /\ ~registered[a]
    BY AgentsAssumption DEF Init, Off, Threads
  <2> QED BY <2>1 DEF Each, Held, Stands, Cleans, Finds, Waiting, Undoing, Pointed
<1>3. Free
  BY DEF Init, Free, Found
<1> QED BY <1>1, <1>2, <1>3 DEF IInv

\* What Go does to the places of threads.
LEMMA GoStep ==
  ASSUME TypeOK, NEW a \in Agents, NEW t \in Threads, NEW place \in Places, Go(a, t, place)
  PROVE  /\ pc'[a][t] = place
         /\ \A u \in Threads \ {t} : pc'[a][u] = pc[a][u]
         /\ \A b \in Agents \ {a} : pc'[b] = pc[b]
         /\ pc' \in [Agents -> [Threads -> Places]]
BY DEF TypeOK, Go

\* What is left of a process that is gone.
LEMMA GoneStep ==
  ASSUME IInv, NEW a \in Agents, Gone(a)
  PROVE  /\ pc'[a].main = "off" /\ pc'[a].dns = "off"
         /\ ~undoing'[a] /\ ~registered'[a] /\ port' # a
         /\ \A b \in Agents \ {a} : /\ pc'[b] = pc[b] /\ undoing'[b] = undoing[b]
                                    /\ registered'[b] = registered[b] /\ old'[b] = old[b]
                                    /\ (port' = b) <=> (port = b)
         /\ port' = "free" => port \in {a, "free"}
         /\ UNCHANGED deviceVars
BY AgentsAssumption DEF IInv, TypeOK, Gone, Off, Threads, deviceVars

-----------------------------------------------------------------------------
\* The types, one action at a time.
LEMMA TypeGone ==
  ASSUME TypeOK, NEW a \in Agents, Gone(a), faults' \subseteq {"lost", "refused"} PROVE TypeOK'
<1>1. pc' \in [Agents -> [Threads -> Places]]
  BY DEF TypeOK, Gone, Off, Places
<1>2. /\ old' \in [Agents -> {"none", "network", "local"}]
      /\ undoing' \in [Agents -> BOOLEAN] /\ registered' \in [Agents -> BOOLEAN]
  BY DEF TypeOK, Gone
<1>3. port' \in Agents \cup {"free"}
  BY DEF TypeOK, Gone
<1>4. commands' \in Seq(Commands) /\ Len(commands') <= QueueLimit
  <2>1. CASE port = a
    BY <2>1, LimitAssumption DEF Gone
  <2>2. CASE port # a
    BY <2>2 DEF TypeOK, Gone
  <2> QED BY <2>1, <2>2
<1> QED BY <1>1, <1>2, <1>3, <1>4 DEF TypeOK, Gone, deviceVars

\* The start of an agent, up to its service port and atexit().
LEMMA TypeStart ==
  ASSUME TypeOK, NEW a \in Agents,
         Launch(a) \/ SuAnswers(a) \/ KillOld(a) \/ Spawn(a) \/ BindDns(a) \/ Bind(a) \/ Register(a)
  PROVE  TypeOK'
<1>1. CASE Launch(a)
  BY <1>1 DEF TypeOK, Launch, Go, Places, deviceVars, socketVars
<1>2. CASE SuAnswers(a)
  <2>1. PICK new \in Places : Go(a, "main", new)
    BY <1>2 DEF SuAnswers, Places
  <2> QED BY <1>2, <2>1 DEF TypeOK, SuAnswers, Go, deviceVars, socketVars
<1>3. CASE KillOld(a)
  BY <1>3 DEF TypeOK, KillOld, Main, Go, Places, socketVars
<1>4. CASE Spawn(a)
  <2>1. pc' \in [Agents -> [Threads -> Places]]
    BY <1>4 DEF TypeOK, Spawn, Threads, Places
  <2> QED BY <1>4, <2>1 DEF TypeOK, Spawn, deviceVars, socketVars
<1>5. CASE BindDns(a)
  <2>1. pc' \in [Agents -> [Threads -> Places]]
    BY <1>5 DEF TypeOK, BindDns, Go, Threads, Places
  <2> QED BY <1>5, <2>1 DEF TypeOK, BindDns, deviceVars, socketVars
<1>6. CASE Bind(a)
  <2>1. pc' \in [Agents -> [Threads -> Places]]
    BY <1>6 DEF TypeOK, Bind, Go, Threads, Places
  <2>2. port' \in Agents \cup {"free"}
    BY <1>6 DEF TypeOK, Bind
  <2> QED BY <1>6, <2>1, <2>2 DEF TypeOK, Bind, deviceVars
<1>7. CASE Register(a)
  BY <1>7 DEF TypeOK, Register, Go, Places, deviceVars, socketVars
<1> QED BY <1>1, <1>2, <1>3, <1>4, <1>5, <1>6, <1>7

\* enable_proxy().
LEMMA TypeEnable ==
  ASSUME TypeOK, NEW a \in Agents, Enable(a) PROVE TypeOK'
<1>1. CASE Remember(a)
  <2>1. old' \in [Agents -> {"none", "network", "local"}] /\ faults' \subseteq {"lost", "refused"}
    BY <1>1 DEF TypeOK, Remember
  <2> QED BY <1>1, <2>1 DEF TypeOK, Remember, Main, Go, Places, deviceVars, socketVars
<1>2. CASE Point(a)
  BY <1>2 DEF TypeOK, Point, Main, Go, Places, socketVars
<1>3. CASE StartRedsocks(a)
  BY <1>3 DEF TypeOK, StartRedsocks, Main, Go, Places, socketVars
<1>4. CASE Flush(a)
  BY <1>4 DEF TypeOK, Flush, Main, Go, Places, socketVars
<1>5. CASE Exempt(a)
  <2>1. pc' \in [Agents -> [Threads -> Places]]
    BY <1>5 DEF TypeOK, Exempt, Go, Threads, Places
  <2>2. undoing' \in [Agents -> BOOLEAN] /\ rules' \subseteq AllRules
    BY <1>5 DEF TypeOK, Exempt, AllRules
  <2> QED BY <1>5, <2>1, <2>2 DEF TypeOK, Exempt, socketVars
<1>6. CASE Redirect(a)
  <2>1. PICK rule \in AllRules, next \in Places : AddRule(a, rule, next)
    BY <1>6 DEF Redirect, AllRules, Places
  <2> QED BY <2>1 DEF TypeOK, AddRule, Main, Go, Threads, socketVars
<1> QED BY <1>1, <1>2, <1>3, <1>4, <1>5, <1>6 DEF Enable

\* disable_proxy(), and exit() before it.
LEMMA TypeDisable ==
  ASSUME TypeOK, NEW a \in Agents, NEW t \in Threads, Disable(a, t) \/ Exit(a, t) PROVE TypeOK'
<1>1. CASE Restore(a, t)
  <2>1. dns' \in {"network", "local"}
    BY <1>1 DEF TypeOK, Restore
  <2> QED BY <1>1, <2>1 DEF TypeOK, Restore, Go, Places, socketVars
<1>2. CASE Clean(a, t)
  BY <1>2 DEF TypeOK, Clean, Go, Places, socketVars
<1>3. CASE KillSocks(a, t)
  <2>1. PICK new \in Places : Go(a, t, new)
    BY <1>3 DEF KillSocks, Places
  <2> QED BY <1>3, <2>1 DEF TypeOK, KillSocks, Go, socketVars
<1>4. CASE Exit(a, t)
  <2>1. PICK new \in Places : Go(a, t, new)
    BY <1>4 DEF Exit, Places
  <2> QED BY <1>4, <2>1 DEF TypeOK, Exit, Go, deviceVars, socketVars
<1> QED BY <1>1, <1>2, <1>3, <1>4 DEF Disable

\* Commands, and who sends them.
LEMMA TypeCommands ==
  ASSUME TypeOK, (\E a \in Agents : Command(a)) \/ (\E command \in Commands : Send(command))
  PROVE  TypeOK'
<1>1. ASSUME NEW a \in Agents, Command(a) PROVE TypeOK'
  <2>1. commands' \in Seq(Commands) /\ Len(commands') <= QueueLimit
    BY <1>1, LimitAssumption DEF TypeOK, Command
  <2>2. pc' \in [Agents -> [Threads -> Places]]
    <3>1. CASE Go(a, "main", "exit")
      BY <3>1, GoStep DEF Threads, Places
    <3>2. CASE UNCHANGED pc
      BY <3>2 DEF TypeOK
    <3> QED BY <1>1, <3>1, <3>2 DEF Command
  <2> QED BY <1>1, <2>1, <2>2 DEF TypeOK, Command, deviceVars
<1>2. ASSUME NEW command \in Commands, Send(command) PROVE TypeOK'
  <2>1. commands' \in Seq(Commands) /\ Len(commands') <= QueueLimit
    BY <1>2, LimitAssumption DEF TypeOK, Send
  <2> QED BY <1>2, <2>1 DEF TypeOK, Send, agentVars, deviceVars
<1> QED BY <1>1, <1>2

-----------------------------------------------------------------------------
\* What a step of an agent leaves alone: the other agents, and the settings unless
\* the agent has the service port; it may kill the redsocks of the holder.
Apart(a) ==
  /\ \A b \in Agents \ {a} : /\ pc'[b] = pc[b] /\ undoing'[b] = undoing[b]
                             /\ registered'[b] = registered[b] /\ old'[b] = old[b]
                             /\ (port' = b) <=> (port = b)
  /\ port # a => dns' = dns /\ rules' = rules /\ (redsocks' => redsocks)
  /\ device' = device /\ faults \subseteq faults'

\* A process that is gone.
LEMMA GoneApart ==
  ASSUME IInv, NEW a \in Agents, Gone(a), faults \subseteq faults' PROVE Apart(a)
BY GoneStep DEF Apart, deviceVars

\* The start of an agent.
LEMMA StartApart ==
  ASSUME IInv, NEW a \in Agents,
         Launch(a) \/ SuAnswers(a) \/ KillOld(a) \/ Spawn(a) \/ BindDns(a) \/ Bind(a) \/ Register(a)
  PROVE  Apart(a)
<1> USE DEF IInv
<1>1. CASE Launch(a)
  BY <1>1 DEF TypeOK, Launch, Go, Apart, deviceVars, socketVars
<1>2. CASE SuAnswers(a)
  BY <1>2 DEF TypeOK, SuAnswers, Go, Apart, deviceVars, socketVars
<1>3. CASE KillOld(a)
  BY <1>3 DEF TypeOK, KillOld, Main, Go, Apart, socketVars
<1>4. CASE Spawn(a)
  BY <1>4 DEF TypeOK, Spawn, Apart, deviceVars, socketVars
<1>5. CASE BindDns(a)
  BY <1>5 DEF TypeOK, BindDns, Go, Apart, deviceVars, socketVars
<1>6. CASE Bind(a)
  BY <1>6, AgentsAssumption DEF TypeOK, Bind, Go, Apart, deviceVars
<1>7. CASE Register(a)
  BY <1>7 DEF TypeOK, Register, Go, Apart, deviceVars, socketVars
<1> QED BY <1>1, <1>2, <1>3, <1>4, <1>5, <1>6, <1>7

\* enable_proxy() is run by the holder of the port.
LEMMA EnableApart ==
  ASSUME IInv, NEW a \in Agents, Enable(a) PROVE Apart(a) /\ port = a /\ port' = port
<1> USE DEF IInv
<1>0. pc[a].main \in {"remember", "point"} \cup Pointed
  BY DEF Enable, Remember, Point, StartRedsocks, Flush, Exempt, Redirect, AddRule, Main, Pointed
<1>1. port = a
  BY <1>0 DEF Each, Held, Waiting, Pointed
<1>2. CASE Remember(a)
  BY <1>1, <1>2 DEF TypeOK, Remember, Main, Go, Apart, deviceVars, socketVars
<1>3. CASE Point(a)
  BY <1>1, <1>3 DEF TypeOK, Point, Main, Go, Apart, socketVars
<1>4. CASE StartRedsocks(a)
  BY <1>1, <1>4 DEF TypeOK, StartRedsocks, Main, Go, Apart, socketVars
<1>5. CASE Flush(a)
  BY <1>1, <1>5 DEF TypeOK, Flush, Main, Go, Apart, socketVars
<1>6. CASE Exempt(a)
  BY <1>1, <1>6 DEF TypeOK, Exempt, Go, Apart, socketVars
<1>7. CASE Redirect(a)
  <2>1. PICK rule \in AllRules, next \in Places : AddRule(a, rule, next)
    BY <1>7 DEF Redirect, AllRules, Places
  <2> QED BY <1>1, <2>1 DEF TypeOK, AddRule, Main, Go, Apart, socketVars
<1> QED BY <1>1, <1>2, <1>3, <1>4, <1>5, <1>6, <1>7 DEF Enable

\* So is disable_proxy().
LEMMA DisableApart ==
  ASSUME IInv, NEW a \in Agents, NEW t \in Threads, Disable(a, t)
  PROVE  Apart(a) /\ port = a /\ port' = port /\ pc[a][t] \in Undoing
<1> USE DEF IInv
<1>1. pc[a][t] \in Undoing
  BY DEF Disable, Restore, Clean, KillSocks, Undoing
<1>2. port = a
  BY <1>1 DEF Each, Held, Waiting, Undoing, Threads
<1>3. CASE Restore(a, t)
  BY <1>1, <1>2, <1>3 DEF TypeOK, Restore, Go, Apart, socketVars
<1>4. CASE Clean(a, t)
  BY <1>1, <1>2, <1>4 DEF TypeOK, Clean, Go, Apart, socketVars
<1>5. CASE KillSocks(a, t)
  BY <1>1, <1>2, <1>5 DEF TypeOK, KillSocks, Go, Apart, socketVars
<1> QED BY <1>1, <1>2, <1>3, <1>4, <1>5 DEF Disable

\* exit().
LEMMA ExitApart ==
  ASSUME IInv, NEW a \in Agents, NEW t \in Threads, Exit(a, t) PROVE Apart(a)
BY DEF IInv, TypeOK, Exit, Go, Apart, deviceVars, socketVars

\* A command.
LEMMA CommandApart ==
  ASSUME IInv, NEW a \in Agents, Command(a) PROVE Apart(a)
BY DEF IInv, TypeOK, Command, Go, Apart, deviceVars

\* So nothing that was true of another agent becomes false.
LEMMA OthersStand ==
  ASSUME IInv, NEW a \in Agents, Apart(a), NEW b \in Agents \ {a} PROVE Each(b)'
<1> USE DEF IInv
<1>1. Each(b) /\ a # b
  OBVIOUS
<1>2. /\ pc'[b] = pc[b] /\ undoing'[b] = undoing[b]
      /\ registered'[b] = registered[b] /\ old'[b] = old[b]
      /\ (port' = b) <=> (port = b)
  BY DEF Apart
<1>3. port = b => dns' = dns /\ rules' = rules /\ (redsocks' => redsocks) /\ device' = device
  BY <1>1 DEF Apart
<1>4. faults \subseteq faults' /\ device' = device
  BY DEF Apart
<1>5. Held(b)'
  BY <1>1, <1>2 DEF Each, Held
<1>6. Stands(b)'
  <2>1. Ending(b)' = Ending(b)
    BY <1>2 DEF Ending
  <2>2. pc[b].main \in Pointed => port = b
    BY <1>1 DEF Each, Held, Pointed, Waiting
  <2> QED BY <1>1, <1>2, <1>3, <2>1, <2>2 DEF Each, Stands, Pointed
<1>7. Cleans(b)'
  <2>1. "refused" \notin faults' => "refused" \notin faults
    BY <1>4
  <2>2. pc[b].main = "killSocks" => port = b
    BY <1>1 DEF Each, Held, Waiting
  <2> QED BY <1>1, <1>2, <1>3, <2>1, <2>2 DEF Each, Cleans
<1>8. Finds(b)'
  <2>1. faults' = {} => faults = {}
    BY <1>4
  <2> QED BY <1>1, <1>2, <1>3, <2>1 DEF Each, Finds, Found
<1> QED BY <1>5, <1>6, <1>7, <1>8 DEF Each

-----------------------------------------------------------------------------
\* What a step of an agent makes of its own part of the invariant.
LEMMA OwnGone ==
  ASSUME IInv, NEW a \in Agents, Gone(a),
         faults' = {} => (\E t \in Threads : pc[a][t] = "end") /\ faults = {}
  PROVE  Each(a)' /\ Free'
<1> USE DEF IInv
<1>1. Each(a)'
  BY GoneStep DEF Each, Held, Stands, Cleans, Finds, Waiting, Undoing, Pointed
<1>2. Free'
  <2> SUFFICES ASSUME faults' = {}, port' = "free" PROVE Found'
    BY DEF Free
  <2>1. pc[a].main = "end" /\ faults = {}
    BY DEF Each, Cleans, Threads
  <2>2. Found
    <3>1. CASE port = "free"
      BY <2>1, <3>1 DEF Free
    <3>2. CASE port = a
      BY <2>1, <3>2 DEF Each, Cleans, Finds, Found
    <3> QED BY <3>1, <3>2, GoneStep
  <2> QED BY <2>2, GoneStep DEF Found, deviceVars
<1> QED BY <1>1, <1>2

\* The start: an agent that gets the port finds the device as it was.
LEMMA OwnStart ==
  ASSUME IInv, NEW a \in Agents,
         Launch(a) \/ SuAnswers(a) \/ KillOld(a) \/ Spawn(a) \/ BindDns(a) \/ Bind(a) \/ Register(a)
  PROVE  Each(a)' /\ Free'
<1> USE DEF IInv, Threads, Waiting, Undoing, Pointed
<1>1. Held(a) /\ Stands(a) /\ Cleans(a) /\ Finds(a)
  BY DEF Each
<1>2. CASE Launch(a) \/ SuAnswers(a)
  <2>1. /\ pc[a].main \in {"off", "asking"} /\ pc'[a].main \in {"off", "asking", "killOld"}
        /\ pc'[a].dns = pc[a].dns
        /\ UNCHANGED <<port, undoing, registered, dns, rules, redsocks, device, faults>>
    BY <1>2 DEF TypeOK, Launch, SuAnswers, Alive, Go, deviceVars, socketVars
  <2> QED BY <1>1, <2>1 DEF Each, Held, Stands, Cleans, Finds, Free, Found
<1>3. CASE KillOld(a)
  <2>1. /\ pc[a].main = "killOld" /\ pc'[a].main = "spawn" /\ pc'[a].dns = pc[a].dns
        /\ UNCHANGED <<port, undoing, registered, dns, rules, device, faults>>
        /\ redsocks' => redsocks
    BY <1>3 DEF TypeOK, KillOld, Main, Go, socketVars
  <2> QED BY <1>1, <2>1 DEF Each, Held, Stands, Cleans, Finds, Free, Found
<1>4. CASE Spawn(a)
  <2>1. /\ pc[a].main = "spawn" /\ pc'[a].main = "bind" /\ pc'[a].dns = "bind"
        /\ UNCHANGED <<port, undoing, registered, dns, rules, redsocks, device, faults>>
    BY <1>4 DEF TypeOK, Spawn, deviceVars, socketVars
  <2> QED BY <1>1, <2>1 DEF Each, Held, Stands, Cleans, Finds, Free, Found
<1>5. CASE BindDns(a)
  <2>1. /\ pc[a].dns = "bind" /\ pc'[a].main = pc[a].main
        /\ \/ pc'[a].dns = "serve" /\ UNCHANGED faults
           \/ pc'[a].dns = "exit" /\ "refused" \in faults'
        /\ UNCHANGED <<port, old, undoing, registered, dns, rules, redsocks, device>>
    BY <1>5 DEF TypeOK, BindDns, Go, deviceVars, socketVars
  <2>2. Ending(a) => Ending(a)'
    BY <2>1 DEF Ending
  <2>3. Held(a)' /\ Cleans(a)' /\ Finds(a)' /\ Free'
    BY <1>1, <2>1 DEF Held, Cleans, Finds, Free, Found
  <2>4. Stands(a)'
    BY <1>1, <2>1, <2>2 DEF Stands
  <2> QED BY <2>3, <2>4 DEF Each
<1>6. CASE Bind(a)
  <2>1. /\ pc[a].main = "bind" /\ pc'[a].dns = pc[a].dns /\ port # a
        /\ UNCHANGED <<undoing, registered, dns, rules, redsocks, device, faults>>
    BY <1>1, <1>6 DEF TypeOK, Held, Bind, Go, deviceVars
  <2>2. ~undoing[a] /\ ~registered[a]
    BY <1>1, <2>1 DEF Held
  <2>3. CASE port = "free" /\ port' = a /\ pc'[a].main = "register"
    BY <1>1, <2>1, <2>2, <2>3, AgentsAssumption DEF Each, Held, Stands, Cleans, Finds, Free, Found
  <2>4. CASE port # "free" /\ port' = port /\ pc'[a].main = "exit"
    <3>1. Ending(a)'
      BY <2>4 DEF Ending
    <3> QED BY <1>1, <2>1, <2>2, <2>4, <3>1 DEF Each, Held, Stands, Cleans, Finds, Free
  <2> QED BY <1>6, <2>3, <2>4 DEF TypeOK, Bind, Go
<1>7. CASE Register(a)
  <2>1. /\ pc[a].main = "register" /\ pc'[a].main = "remember" /\ pc'[a].dns = pc[a].dns
        /\ registered'[a] /\ port = a
        /\ UNCHANGED <<port, undoing, dns, rules, redsocks, device, faults>>
    BY <1>1, <1>7 DEF TypeOK, Held, Register, Go, deviceVars, socketVars
  <2> QED BY <1>1, <2>1 DEF Each, Held, Stands, Cleans, Finds, Free, Found
<1> QED BY <1>2, <1>3, <1>4, <1>5, <1>6, <1>7

\* enable_proxy(): each call sets up one more thing.
LEMMA OwnEnable ==
  ASSUME IInv, NEW a \in Agents, Enable(a) PROVE Each(a)'
<1> USE DEF IInv, Threads, Waiting, Undoing, Pointed
<1>1. Held(a) /\ Stands(a) /\ Cleans(a) /\ Finds(a) /\ port = a /\ port' = a
  BY EnableApart DEF Each
<1>2. CASE Remember(a)
  <2>1. /\ pc[a].main = "remember" /\ pc'[a].main = "point" /\ pc'[a].dns = pc[a].dns
        /\ old'[a] = dns \/ "lost" \in faults'
        /\ faults \subseteq faults'
        /\ UNCHANGED <<undoing, registered, dns, rules, redsocks, device>>
    BY <1>2 DEF TypeOK, Remember, Main, Go, deviceVars
  <2>2. Held(a)' /\ Stands(a)' /\ Cleans(a)'
    BY <1>1, <2>1 DEF Held, Stands, Cleans
  <2>3. Finds(a)'
    BY <1>1, <2>1 DEF Finds, Found
  <2> QED BY <2>2, <2>3 DEF Each
<1>3. CASE Point(a)
  <2>1. /\ pc[a].main = "point" /\ pc'[a].main = "redsocks" /\ pc'[a].dns = pc[a].dns
        /\ dns' = "local"
        /\ UNCHANGED <<old, undoing, registered, rules, redsocks, device, faults>>
    BY <1>3 DEF TypeOK, Point, Main, Go
  <2> QED BY <1>1, <2>1 DEF Each, Held, Stands, Cleans, Finds
<1>4. CASE StartRedsocks(a)
  <2>1. /\ pc[a].main = "redsocks" /\ pc'[a].main = "flush" /\ pc'[a].dns = pc[a].dns
        /\ UNCHANGED <<old, undoing, registered, dns, rules, device, faults>>
    BY <1>4 DEF TypeOK, StartRedsocks, Main, Go
  <2>2. Ending(a) => Ending(a)'
    BY <2>1 DEF Ending
  <2> QED BY <1>1, <2>1, <2>2 DEF Each, Held, Stands, Cleans, Finds
<1>5. CASE Flush(a)
  <2>1. /\ pc[a].main = "flush" /\ pc'[a].main = "exempt" /\ pc'[a].dns = pc[a].dns
        /\ rules' = {}
        /\ UNCHANGED <<old, undoing, registered, dns, redsocks, device, faults>>
    BY <1>5 DEF TypeOK, Flush, Main, Go
  <2>2. Ending(a) => Ending(a)'
    BY <2>1 DEF Ending
  <2> QED BY <1>1, <2>1, <2>2 DEF Each, Held, Stands, Cleans, Finds
<1>6. CASE Exempt(a) /\ device.owner
  <2>1. /\ pc[a].main = "exempt" /\ pc'[a].main = "loopback" /\ pc'[a].dns = pc[a].dns
        /\ rules' = rules \cup {"root"}
        /\ UNCHANGED <<old, undoing, registered, dns, redsocks, device, faults>>
    BY <1>6 DEF TypeOK, Exempt, Go
  <2>2. Ending(a) => Ending(a)'
    BY <2>1 DEF Ending
  <2> QED BY <1>1, <2>1, <2>2 DEF Each, Held, Stands, Cleans, Finds
<1>7. CASE Exempt(a) /\ ~device.owner
  <2>1. /\ pc[a].main = "exempt" /\ pc'[a].main = "restore" /\ pc'[a].dns = pc[a].dns
        /\ UNCHANGED <<old, registered, dns, rules, redsocks, device, faults>>
    BY <1>7 DEF TypeOK, Exempt, Go
  <2>2. Ending(a)'
    BY <2>1 DEF Ending
  <2> QED BY <1>1, <2>1, <2>2 DEF Each, Held, Stands, Cleans, Finds
<1>8. CASE Redirect(a)
  <2>1. PICK rule \in {"loopback", "http", "https"} :
          /\ pc[a].main = rule /\ pc'[a].dns = pc[a].dns
          /\ pc'[a].main = CASE rule = "loopback" -> "http" [] rule = "http" -> "https"
                             [] rule = "https" -> "command"
          /\ rules' = rules \cup {rule}
          /\ UNCHANGED <<old, undoing, registered, dns, redsocks, device, faults>>
    BY <1>8 DEF TypeOK, Redirect, AddRule, Main, Go
  <2>2. Ending(a) => Ending(a)'
    BY <2>1 DEF Ending
  <2>3. Stands(a)'
    BY <1>1, <2>1, <2>2 DEF Stands, AllRules
  <2>4. Held(a)' /\ Cleans(a)' /\ Finds(a)'
    BY <1>1, <2>1 DEF Held, Cleans, Finds
  <2> QED BY <2>3, <2>4 DEF Each
<1> QED BY <1>2, <1>3, <1>4, <1>5, <1>6, <1>7, <1>8 DEF Enable

\* disable_proxy(): in the DNS thread only after port 53 was refused.
LEMMA OwnDisable ==
  ASSUME IInv, NEW a \in Agents, NEW t \in Threads, Disable(a, t) PROVE Each(a)'
<1> USE DEF IInv, Threads, Waiting, Undoing, Pointed
<1>1. Held(a) /\ Stands(a) /\ Cleans(a) /\ Finds(a) /\ port = a /\ port' = a
  BY DisableApart DEF Each
<1>2. \A u \in Threads \ {t} : pc'[a][u] = pc[a][u]
  BY DEF TypeOK, Disable, Restore, Clean, KillSocks, Go
<1>3. pc'[a][t] \in {"clean", "killSocks", "exit", "end"}
  BY DEF TypeOK, Disable, Restore, Clean, KillSocks, Go
<1>4. Ending(a)'
  BY <1>3 DEF Ending
<1>5. UNCHANGED <<old, registered, device, faults>>
  BY DEF Disable, Restore, Clean, KillSocks
<1>6. CASE t = "dns"
  <2>1. "refused" \in faults /\ pc'[a].main = pc[a].main /\ pc'[a].dns = pc'[a][t]
    BY <1>1, <1>2, <1>6, DisableApart DEF Cleans
  <2>2. undoing'[a] => undoing[a]
    BY DEF TypeOK, Disable, Restore, Clean, KillSocks
  <2> QED BY <1>1, <1>3, <1>4, <1>5, <2>1, <2>2 DEF Each, Held, Stands, Cleans, Finds
<1>7. CASE t = "main" /\ Restore(a, t)
  <2>1. /\ pc[a].main = "restore" /\ pc'[a].main = "clean" /\ pc'[a].dns = pc[a].dns
        /\ dns' = IF old[a] = "none" THEN dns ELSE old[a]
        /\ UNCHANGED <<undoing, rules, redsocks>>
    BY <1>2, <1>7 DEF TypeOK, Restore, Go
  <2> QED BY <1>1, <1>4, <1>5, <2>1 DEF Each, Held, Stands, Cleans, Finds
<1>8. CASE t = "main" /\ Clean(a, t)
  <2>1. /\ pc[a].main = "clean" /\ pc'[a].main = "killSocks" /\ pc'[a].dns = pc[a].dns
        /\ rules' = {}
        /\ UNCHANGED <<undoing, dns, redsocks>>
    BY <1>2, <1>8 DEF TypeOK, Clean, Go
  <2> QED BY <1>1, <1>4, <1>5, <2>1 DEF Each, Held, Stands, Cleans, Finds
<1>9. CASE t = "main" /\ KillSocks(a, t)
  <2>1. /\ pc[a].main = "killSocks" /\ pc'[a].dns = pc[a].dns
        /\ pc'[a].main = IF undoing[a] THEN "exit" ELSE "end"
        /\ redsocks' = (redsocks /\ ~device.pkill) /\ ~undoing'[a]
        /\ UNCHANGED <<dns, rules>>
    BY <1>2, <1>9 DEF TypeOK, KillSocks, Go
  <2>2. Held(a)' /\ Stands(a)' /\ Finds(a)'
    BY <1>1, <1>4, <1>5, <2>1 DEF Held, Stands, Finds
  <2>3. Cleans(a)'
    BY <1>1, <1>5, <2>1 DEF Cleans
  <2> QED BY <2>2, <2>3 DEF Each
<1> QED BY <1>6, <1>7, <1>8, <1>9 DEF Disable

\* exit(): the holder of the port has its handler registered.
LEMMA OwnExit ==
  ASSUME IInv, NEW a \in Agents, NEW t \in Threads, Exit(a, t) PROVE Each(a)' /\ Free'
<1> USE DEF IInv, Threads, Waiting, Undoing, Pointed
<1>1. Held(a) /\ Stands(a) /\ Cleans(a) /\ Finds(a)
  BY DEF Each
<1>2. /\ pc[a][t] = "exit" /\ pc'[a][t] = IF registered[a] THEN "restore" ELSE "end"
      /\ \A u \in Threads \ {t} : pc'[a][u] = pc[a][u]
      /\ ~registered'[a]
      /\ UNCHANGED <<old, undoing, port, dns, rules, redsocks, device, faults>>
  BY DEF TypeOK, Exit, Go, deviceVars, socketVars
<1>3. Ending(a)'
  BY <1>2 DEF Ending
<1>4. CASE t = "main"
  <2>1. pc[a].main = "exit" /\ pc'[a].main = pc'[a][t] /\ pc'[a].dns = pc[a].dns
    BY <1>2, <1>4
  <2>2. CASE registered[a]
    BY <1>1, <1>2, <1>3, <2>1, <2>2 DEF Each, Held, Stands, Cleans, Finds, Free, Found
  <2>3. CASE ~registered[a]
    BY <1>1, <1>2, <1>3, <2>1, <2>3 DEF Each, Held, Stands, Cleans, Finds, Free, Found
  <2> QED BY <2>2, <2>3
<1>5. CASE t = "dns"
  <2>1. pc[a].dns = "exit" /\ pc'[a].dns = pc'[a][t] /\ pc'[a].main = pc[a].main
    BY <1>2, <1>5
  <2>2. "refused" \in faults
    BY <1>1, <2>1 DEF Cleans
  <2>3. Held(a)'
    <3>1. registered[a] => port = a
      BY <1>1 DEF Held
    <3>2. pc'[a].dns = "restore" => port = a
      BY <1>2, <2>1, <3>1
    <3>3. pc'[a].dns \in {"restore", "end"}
      BY <1>2, <2>1
    <3>4. pc[a].main \notin {"off", "asking", "killOld", "spawn"}
      BY <1>1, <2>1 DEF Held
    <3> QED BY <1>1, <1>2, <2>1, <3>2, <3>3, <3>4 DEF Held
  <2>4. Cleans(a)' /\ Finds(a)' /\ Free' /\ Stands(a)'
    BY <1>2, <1>3, <2>2 DEF Cleans, Finds, Free, Stands
  <2> QED BY <2>3, <2>4 DEF Each
<1> QED BY <1>4, <1>5

\* A command changes no settings.
LEMMA OwnCommand ==
  ASSUME IInv, NEW a \in Agents, Command(a) PROVE Each(a)' /\ Free'
<1> USE DEF IInv, Threads, Waiting, Undoing, Pointed
<1>1. Held(a) /\ Stands(a) /\ Cleans(a) /\ Finds(a)
  BY DEF Each
<1>2. /\ pc[a].main = "command" /\ pc'[a].main \in {"command", "exit"} /\ pc'[a].dns = pc[a].dns
      /\ UNCHANGED <<old, undoing, registered, port, dns, rules, redsocks, device, faults>>
  BY DEF TypeOK, Command, Go, deviceVars
<1>3. Ending(a) => Ending(a)'
  BY <1>2 DEF Ending
<1>4. pc'[a].main = "exit" => Ending(a)'
  BY DEF Ending
<1> QED BY <1>1, <1>2, <1>3, <1>4 DEF Each, Held, Stands, Cleans, Finds, Free, Found

-----------------------------------------------------------------------------
\* Kills, and an exit() beside the other thread's handler, which needs a refused port 53.
LEMMA CrashStep ==
  ASSUME IInv, NEW a \in Agents, Crash(a) PROVE Apart(a) /\ Each(a)' /\ Free' /\ TypeOK'
<1> USE DEF IInv
<1>1. CASE Kill(a)
  <2>1. Gone(a) /\ faults' = faults \cup {"lost"}
    BY <1>1 DEF Kill
  <2>2. faults' \subseteq {"lost", "refused"}
    BY <2>1 DEF TypeOK
  <2> QED BY <2>1, <2>2, GoneApart, OwnGone, TypeGone
<1>2. ASSUME NEW t \in Threads, ExitAtOnce(a, t) PROVE Gone(a) /\ UNCHANGED faults /\ faults # {}
  <2>1. Each(a) /\ Gone(a) /\ UNCHANGED faults
    BY <1>2 DEF ExitAtOnce
  <2>2. PICK u \in Threads \ {t} : pc[a][t] = "exit" /\ pc[a][u] \in Undoing
    BY <1>2 DEF ExitAtOnce, Undoing
  <2>3. pc[a].dns \in {"exit"} \cup Undoing
    BY <2>2 DEF Threads
  <2> QED BY <2>1, <2>3 DEF Each, Cleans, Undoing
<1>3. CASE \E t \in Threads : ExitAtOnce(a, t)
  <2>1. Gone(a) /\ UNCHANGED faults /\ faults # {}
    BY <1>2, <1>3
  <2>2. faults' \subseteq {"lost", "refused"}
    BY <2>1 DEF TypeOK
  <2> QED BY <2>1, <2>2, GoneApart, OwnGone, TypeGone
<1> QED BY <1>1, <1>3 DEF Crash

\* The end of exit().
LEMMA EndStep ==
  ASSUME IInv, NEW a \in Agents, NEW t \in Threads, End(a, t)
  PROVE  Apart(a) /\ Each(a)' /\ Free' /\ TypeOK'
<1>1. Gone(a) /\ UNCHANGED faults /\ pc[a][t] = "end"
  BY DEF End
<1>2. faults' \subseteq {"lost", "refused"}
  BY <1>1 DEF IInv, TypeOK
<1> QED BY <1>1, <1>2, GoneApart, OwnGone, TypeGone DEF IInv

\* A step of an agent: its own part, and then the others'.
LEMMA AgentStep ==
  ASSUME IInv, NEW a \in Agents, Agent(a) \/ Launch(a) \/ SuAnswers(a) PROVE IInv'
<1>1. "main" \in Threads /\ "dns" \in Threads
  BY DEF Threads
<1>2. Apart(a) /\ Each(a)' /\ Free' /\ TypeOK'
  <2>1. CASE \/ Launch(a) \/ SuAnswers(a) \/ KillOld(a) \/ Spawn(a)
             \/ BindDns(a) \/ Bind(a) \/ Register(a)
    BY <2>1, StartApart, OwnStart, TypeStart DEF IInv
  <2>2. CASE Enable(a)
    <3>1. Apart(a) /\ port' = a
      BY <2>2, EnableApart
    <3>2. Free'
      BY <3>1, AgentsAssumption DEF Free
    <3> QED BY <2>2, <3>1, <3>2, OwnEnable, TypeEnable DEF IInv
  <2>3. ASSUME NEW t \in Threads, Disable(a, t) PROVE Apart(a) /\ Each(a)' /\ Free' /\ TypeOK'
    <3>1. Apart(a) /\ port' = a
      BY <2>3, DisableApart
    <3>2. Free'
      BY <3>1, AgentsAssumption DEF Free
    <3> QED BY <2>3, <3>1, <3>2, OwnDisable, TypeDisable DEF IInv
  <2>4. ASSUME NEW t \in Threads, Exit(a, t) PROVE Apart(a) /\ Each(a)' /\ Free' /\ TypeOK'
    BY <2>4, ExitApart, OwnExit, TypeDisable DEF IInv
  <2>5. CASE Command(a)
    BY <2>5, CommandApart, OwnCommand, TypeCommands DEF IInv
  <2>6. CASE Crash(a)
    BY <2>6, CrashStep
  <2>7. CASE MainStep(a)
    BY <1>1, <2>1, <2>2, <2>3, <2>4, <2>5, <2>7, EndStep DEF MainStep
  <2>8. CASE DnsStep(a)
    BY <1>1, <2>1, <2>3, <2>4, <2>8, EndStep DEF DnsStep
  <2> QED BY <2>1, <2>6, <2>7, <2>8 DEF Agent
<1>3. ASSUME NEW b \in Agents PROVE Each(b)'
  BY <1>2, OthersStand
<1> QED BY <1>2, <1>3 DEF IInv

\* Every step keeps the invariant.
LEMMA NextIInv == IInv /\ [Next]_vars => IInv'
<1> SUFFICES ASSUME IInv, [Next]_vars PROVE IInv'
  OBVIOUS
<1>1. ASSUME UNCHANGED <<agentVars, deviceVars, port, faults>>, TypeOK' PROVE IInv'
  <2>1. UNCHANGED <<pc, old, undoing, registered, dns, rules, redsocks, device, port, faults>>
    BY <1>1 DEF agentVars, deviceVars
  <2> QED BY <1>1, <2>1 DEF IInv, Free, Found, Each, Held, Stands, Ending, Cleans, Finds
<1>2. CASE \E command \in Commands : Send(command)
  <2>1. TypeOK'
    BY <1>2, TypeCommands DEF IInv
  <2>2. UNCHANGED <<agentVars, deviceVars, port, faults>>
    BY <1>2 DEF Send
  <2> QED BY <1>1, <2>1, <2>2
<1>3. CASE UNCHANGED vars
  <2>1. TypeOK'
    BY <1>3 DEF IInv, TypeOK, vars, agentVars, deviceVars, socketVars
  <2> QED BY <1>1, <1>3, <2>1 DEF vars, socketVars
<1> QED BY <1>2, <1>3, AgentStep DEF Next

\* The invariant says what the properties say.
LEMMA IInvImplies ==
  ASSUME IInv PROVE LeftAsFound /\ EnabledStands /\ OneChanges /\ QuitCleansUp
<1> USE DEF IInv
<1>1. LeftAsFound
  <2> SUFFICES ASSUME faults = {}, \A a \in Agents : ~Alive(a) PROVE Found
    BY DEF LeftAsFound, Found
  <2>1. \A a \in Agents : port # a
    BY DEF Alive, Each, Held, Waiting
  <2> QED BY <2>1 DEF TypeOK, Free
<1>2. EnabledStands
  BY DEF EnabledStands, Each, Stands, Pointed
<1>3. OneChanges
  <2> SUFFICES ASSUME NEW a \in Agents, Changing(a) PROVE port = a
    BY DEF OneChanges
  <2> QED BY DEF Changing, Threads, Each, Held, Waiting, Undoing
<1>4. QuitCleansUp
  BY DEF QuitCleansUp, Each, Cleans
<1> QED BY <1>1, <1>2, <1>3, <1>4

\* The invariant of the agents of a device (android/agent/main.cpp, setproxy.cpp).
THEOREM Invariant == Spec => []IInv
<1>1. Init => IInv
  BY InitIInv
<1>2. IInv /\ [Next]_vars => IInv'
  BY NextIInv
<1> QED BY <1>1, <1>2, PTL DEF Spec

\* Every variable keeps its type, whatever the device and however many agents.
THEOREM TypeCorrect == Spec => []TypeOK
<1>1. IInv => TypeOK
  BY DEF IInv
<1> QED BY <1>1, Invariant, PTL

\* Agents that come and go in any order, but are not killed or refused port 53, leave
\* the device as it was (disable_proxy() in atexit(), setproxy.cpp:49).
THEOREM DeviceRestored == Spec => []LeftAsFound
<1>1. IInv => LeftAsFound
  BY IInvImplies
<1> QED BY <1>1, Invariant, PTL

\* No other agent undoes the settings of the one that serves (main.cpp:106).
THEOREM SettingsStand == Spec => []EnabledStands
<1>1. IInv => EnabledStands
  BY IInvImplies
<1> QED BY <1>1, Invariant, PTL

\* The service port keeps all but one agent from the name server and the filter.
THEOREM OneAgentChanges == Spec => []OneChanges
<1>1. IInv => OneChanges
  BY IInvImplies
<1> QED BY <1>1, Invariant, PTL

\* The holder of the port ends with the redirection gone, even after others were killed.
THEOREM EndsClean == Spec => []QuitCleansUp
<1>1. IInv => QuitCleansUp
  BY IInvImplies
<1> QED BY <1>1, Invariant, PTL

-----------------------------------------------------------------------------
(* What the application sees of the agents.                                *)

\* A step of one agent changes its life only, or nobody's.
LEMMA LifeStep ==
  ASSUME NEW a \in Agents, \A b \in Agents \ {a} : pc'[b] = pc[b]
  PROVE  /\ Service!Becomes(a, Life(a)')
         /\ Life(a)' = Life(a) => UNCHANGED [b \in Agents |-> Life(b)]
<1>1. \A b \in Agents \ {a} : Life(b)' = Life(b)
  BY DEF Life, Ending
<1> QED BY <1>1 DEF Service!Becomes

\* The end of a process is one for the application too.
LEMMA GoneMaps ==
  ASSUME IInv, NEW a \in Agents, pc[a].main \notin {"off", "asking"}, Gone(a)
  PROVE  Service!ServiceNext
<1>1. Life(a)' = "off" /\ Service!Becomes(a, Life(a)')
  BY GoneStep, LifeStep DEF Life, Ending
<1>2. Life(a) \notin {"off", "asking"}
  BY DEF Life, Ending
<1>3. Service!Gone(a)
  BY <1>1, <1>2 DEF Service!Gone, Gone
<1> QED BY <1>3 DEF Service!ServiceNext, Service!Process, Service!Moves

\* What an agent that has started and is not gone may do of itself.
LEMMA LifeMaps ==
  ASSUME IInv, NEW a \in Agents, \A b \in Agents \ {a} : pc'[b] = pc[b],
         UNCHANGED <<port, commands>>,
         \/ Life(a)' = Life(a)
         \/ Life(a) \in {"starting", "serving"} /\ Life(a)' = "ending"
         \/ Life(a) = "starting" /\ port = a /\ Life(a)' = "serving"
  PROVE  Service!ServiceNext \/ UNCHANGED Service!serviceVars
<1>1. CASE Life(a)' = Life(a)
  BY <1>1, LifeStep DEF Service!serviceVars
<1>2. CASE Life(a) \in {"starting", "serving"} /\ Life(a)' = "ending"
  <2>1. Service!GiveUp(a)
    BY <1>2, LifeStep DEF Service!GiveUp
  <2> QED BY <2>1 DEF Service!ServiceNext, Service!Process, Service!Moves
<1>3. CASE Life(a) = "starting" /\ port = a /\ Life(a)' = "serving"
  <2>1. Service!Serve(a)
    BY <1>3, LifeStep DEF Service!Serve
  <2> QED BY <2>1 DEF Service!ServiceNext, Service!Process, Service!Moves
<1> QED BY <1>1, <1>2, <1>3

\* At first nobody has been launched.
LEMMA InitMaps == Init => Service!ServiceInit
<1> SUFFICES ASSUME Init PROVE Service!ServiceInit
  OBVIOUS
<1>1. \A a \in Agents : Life(a) = "off"
  BY DEF Init, Off, Threads, Life, Ending
<1> QED BY <1>1 DEF Init, Service!ServiceInit

\* The steps of agents that leave the sockets alone.
LEMMA QuietMaps ==
  ASSUME IInv, NEW a \in Agents,
         \/ KillOld(a) \/ Spawn(a) \/ BindDns(a) \/ Register(a) \/ Enable(a)
         \/ \E t \in Threads : Disable(a, t) \/ Exit(a, t)
  PROVE  Service!ServiceNext \/ UNCHANGED Service!serviceVars
<1> USE DEF IInv, Threads
<1>1. Held(a)
  BY DEF Each
<1>2. ASSUME \A b \in Agents \ {a} : pc'[b] = pc[b], UNCHANGED <<port, commands>>,
             Life(a) \notin {"off", "asking"}, Life(a)' = Life(a) \/ Life(a)' = "ending"
      PROVE  Service!ServiceNext \/ UNCHANGED Service!serviceVars
  <2>1. Life(a) \in {"starting", "serving", "ending"}
    BY <1>2 DEF Life, Ending
  <2> QED BY <1>2, <2>1, LifeMaps
<1>3. CASE KillOld(a) \/ Spawn(a)
  <2>1. pc[a].main \in {"killOld", "spawn"} /\ pc[a].dns = "off"
    BY <1>1, <1>3 DEF Held, KillOld, Spawn, Main
  <2>2. pc'[a].main \in {"spawn", "bind"} /\ pc'[a].dns \in {"off", "bind"}
    BY <1>3, <2>1 DEF TypeOK, KillOld, Spawn, Main, Go
  <2>3. Life(a) = "starting" /\ Life(a)' = "starting"
    BY <2>1, <2>2 DEF Life, Ending
  <2>4. (\A b \in Agents \ {a} : pc'[b] = pc[b]) /\ UNCHANGED <<port, commands>>
    BY <1>3 DEF TypeOK, KillOld, Spawn, Main, Go, socketVars
  <2> QED BY <1>2, <2>3, <2>4
<1>4. CASE BindDns(a)
  <2>1. pc[a].dns = "bind" /\ pc'[a].dns \in {"serve", "exit"} /\ pc'[a].main = pc[a].main
    BY <1>4 DEF TypeOK, BindDns, Go
  <2>2. pc[a].main \notin {"off", "asking"}
    BY <1>1, <2>1 DEF Held
  <2>3. Life(a) \notin {"off", "asking"} /\ (Life(a)' = Life(a) \/ Life(a)' = "ending")
    BY <2>1, <2>2 DEF Life, Ending
  <2>4. (\A b \in Agents \ {a} : pc'[b] = pc[b]) /\ UNCHANGED <<port, commands>>
    BY <1>4 DEF TypeOK, BindDns, Go, socketVars
  <2> QED BY <1>2, <2>3, <2>4
<1>5. CASE Register(a)
  <2>1. pc[a].main = "register" /\ pc'[a].main = "remember" /\ pc'[a].dns = pc[a].dns
    BY <1>5 DEF TypeOK, Register, Go
  <2>2. Life(a) \notin {"off", "asking"} /\ Life(a)' = Life(a)
    BY <2>1 DEF Life, Ending
  <2>3. (\A b \in Agents \ {a} : pc'[b] = pc[b]) /\ UNCHANGED <<port, commands>>
    BY <1>5 DEF TypeOK, Register, Go, socketVars
  <2> QED BY <1>2, <2>2, <2>3
<1>6. CASE Enable(a) /\ ~Redirect(a)
  <2>1. /\ pc[a].main \in {"remember", "point", "redsocks", "flush", "exempt"}
        /\ pc'[a].main \in {"point", "redsocks", "flush", "exempt", "loopback", "restore"}
        /\ pc'[a].dns = pc[a].dns
    <3>1. PICK new \in {"point", "redsocks", "flush", "exempt", "loopback", "restore"} :
            Go(a, "main", new)
      BY <1>6 DEF Enable, Remember, Point, StartRedsocks, Flush, Exempt, Main
    <3>2. pc[a].main \in {"remember", "point", "redsocks", "flush", "exempt"}
      BY <1>6 DEF Enable, Remember, Point, StartRedsocks, Flush, Exempt, Main
    <3> QED BY <3>1, <3>2 DEF TypeOK, Go
  <2>2. Life(a) \notin {"off", "asking"} /\ (Life(a)' = Life(a) \/ Life(a)' = "ending")
    BY <2>1 DEF Life, Ending
  <2>3. UNCHANGED <<port, commands>>
    BY <1>6 DEF Enable, Remember, Point, StartRedsocks, Flush, Exempt, Main, socketVars
  <2> QED BY <1>2, <1>6, <2>2, <2>3, EnableApart DEF Apart
<1>7. CASE Redirect(a)
  <2>1. /\ pc[a].main \in {"loopback", "http", "https"}
        /\ pc'[a].main \in {"http", "https", "command"}
        /\ pc'[a].dns = pc[a].dns
    BY <1>7 DEF TypeOK, Redirect, AddRule, Main, Go
  <2>2. \/ Life(a)' = Life(a)
        \/ Life(a) = "starting" /\ Life(a)' = "serving"
    BY <2>1 DEF Life, Ending
  <2>3. UNCHANGED <<port, commands>> /\ port = a /\ Apart(a)
    BY <1>7, EnableApart DEF Enable, Redirect, AddRule, Main, socketVars
  <2> QED BY <2>2, <2>3, LifeMaps DEF Apart
<1>8. CASE \E t \in Threads : Disable(a, t) \/ Exit(a, t)
  <2>1. PICK t \in Threads : Disable(a, t) \/ Exit(a, t)
    BY <1>8
  <2>2. /\ pc[a][t] \in {"exit", "restore", "clean", "killSocks"}
        /\ pc'[a][t] \in {"restore", "clean", "killSocks", "exit", "end"}
        /\ \A u \in Threads \ {t} : pc'[a][u] = pc[a][u]
        /\ \A b \in Agents \ {a} : pc'[b] = pc[b]
    BY <2>1 DEF TypeOK, Disable, Restore, Clean, KillSocks, Exit, Go
  <2>3. pc[a].main \notin {"off", "asking"}
    BY <1>1, <2>2 DEF Held
  <2>4. pc'[a].main \notin {"off", "asking"}
    BY <2>2, <2>3
  <2>5. Life(a) = "ending" /\ Life(a)' = "ending"
    BY <2>2, <2>3, <2>4 DEF Life, Ending
  <2>6. UNCHANGED <<port, commands>>
    BY <2>1 DEF Disable, Restore, Clean, KillSocks, Exit, socketVars
  <2> QED BY <1>2, <2>2, <2>5, <2>6
<1> QED BY <1>3, <1>4, <1>5, <1>6, <1>7, <1>8 DEF Enable

\* And those that take the port, or a datagram.
LEMMA SocketMaps ==
  ASSUME IInv, NEW a \in Agents, Launch(a) \/ SuAnswers(a) \/ Bind(a) \/ Command(a)
  PROVE  Service!ServiceNext \/ UNCHANGED Service!serviceVars
<1> USE DEF IInv, Threads
<1>1. Held(a)
  BY DEF Each
<1>2. \A b \in Agents \ {a} : pc'[b] = pc[b]
  BY DEF TypeOK, Launch, SuAnswers, Bind, Command, Go
<1>3. Service!Becomes(a, Life(a)') /\ (Life(a)' = Life(a) => UNCHANGED [b \in Agents |-> Life(b)])
  BY <1>2, LifeStep
<1>4. CASE Launch(a)
  <2>1. Life(a) = "off" /\ Life(a)' = "asking"
    BY <1>4 DEF TypeOK, Launch, Alive, Go, Life, Ending
  <2>2. Service!Launch(a)
    BY <1>3, <1>4, <2>1 DEF Service!Launch, Service!Alive, Launch, socketVars
  <2> QED BY <2>2 DEF Service!ServiceNext
<1>5. CASE SuAnswers(a)
  <2>1. pc[a].dns = "off" /\ pc'[a].dns = "off" /\ pc'[a].main \in {"killOld", "off"}
    BY <1>1, <1>5 DEF TypeOK, Held, SuAnswers, Go
  <2>2. Life(a) = "asking" /\ Life(a)' \in {"starting", "off"}
    BY <1>5, <2>1 DEF SuAnswers, Life, Ending
  <2>3. Service!SuAnswers(a)
    BY <1>3, <1>5, <2>2 DEF Service!SuAnswers, SuAnswers, socketVars
  <2> QED BY <2>3 DEF Service!ServiceNext, Service!Process, Service!Moves
<1>6. CASE Bind(a)
  <2>1. pc[a].main = "bind" /\ pc'[a].main \in {"register", "exit"} /\ pc'[a].dns = pc[a].dns
    BY <1>6 DEF TypeOK, Bind, Go
  <2>2. Life(a) \in {"starting", "ending"}
    BY <2>1 DEF Life, Ending
  <2>3. CASE port = "free" /\ port' = a /\ pc'[a].main = "register"
    <3>1. Life(a)' = Life(a)
      BY <2>1, <2>3 DEF Life, Ending
    <3>2. Service!TakePort(a)
      BY <1>3, <1>6, <2>2, <2>3, <3>1 DEF Service!TakePort, Bind
    <3> QED BY <3>2 DEF Service!ServiceNext, Service!Process, Service!Moves
  <2>4. CASE port # "free" /\ port' = port /\ pc'[a].main = "exit"
    <3>1. Life(a)' = "ending"
      BY <2>1, <2>4 DEF Life, Ending
    <3> QED BY <1>2, <1>6, <2>2, <2>4, <3>1, LifeMaps DEF Bind
  <2> QED BY <1>6, <2>3, <2>4 DEF TypeOK, Bind, Go
<1>7. CASE Command(a)
  <2>1. pc[a].main = "command" /\ port = a /\ pc'[a].dns = pc[a].dns
    BY <1>1, <1>7 DEF TypeOK, Held, Command, Go, Waiting
  <2>2. Life(a) \in {"serving", "ending"}
    BY <2>1 DEF Life, Ending
  <2>3. CASE Head(commands) = "quit" /\ Go(a, "main", "exit")
    <3>1. pc'[a].main = "exit"
      BY <2>3 DEF TypeOK, Go
    <3>2. Life(a)' = "ending"
      BY <3>1 DEF Life, Ending
    <3>3. Service!TakeQuit(a)
      BY <1>3, <1>7, <2>1, <2>2, <2>3, <3>2 DEF Service!TakeQuit, Service!Take, Command
    <3> QED BY <3>3 DEF Service!ServiceNext, Service!Process, Service!Moves
  <2>4. CASE Head(commands) = "noop" /\ UNCHANGED pc
    <3>1. Life(a)' = Life(a)
      BY <2>4 DEF Life, Ending
    <3>2. Service!TakeNoop(a)
      BY <1>3, <1>7, <2>1, <2>2, <2>4, <3>1 DEF Service!TakeNoop, Service!Take, Command
    <3> QED BY <3>2 DEF Service!ServiceNext, Service!Process, Service!Moves
  <2> QED BY <1>7, <2>3, <2>4 DEF Command
<1> QED BY <1>4, <1>5, <1>6, <1>7

\* Every step is one of the service, or none of it is seen.
LEMMA NextMaps ==
  ASSUME IInv, [Next]_vars PROVE [Service!ServiceNext]_(Service!serviceVars)
<1> USE DEF Threads
<1>1. ASSUME NEW a \in Agents, NEW t \in Threads, Kill(a) \/ ExitAtOnce(a, t) \/ End(a, t)
      PROVE  Service!ServiceNext
  <2>1. Gone(a) /\ pc[a].main \notin {"off", "asking"}
    BY <1>1 DEF Kill, Alive, ExitAtOnce, End, IInv, Each, Held
  <2> QED BY <2>1, GoneMaps
<1>2. ASSUME NEW a \in Agents, Agent(a) \/ Launch(a) \/ SuAnswers(a)
      PROVE  Service!ServiceNext \/ UNCHANGED Service!serviceVars
  BY <1>1, <1>2, QuietMaps, SocketMaps DEF Agent, MainStep, DnsStep, Crash
<1>3. ASSUME UNCHANGED pc PROVE UNCHANGED [a \in Agents |-> Life(a)]
  BY <1>3 DEF Life, Ending
<1>4. ASSUME NEW command \in Commands, Send(command) PROVE Service!ServiceNext
  <2>1. Service!Send(command)
    BY <1>3, <1>4 DEF Service!Send, Send, agentVars
  <2> QED BY <2>1 DEF Service!ServiceNext, Service!Commands, Commands
<1>5. ASSUME UNCHANGED vars PROVE UNCHANGED Service!serviceVars
  BY <1>3, <1>5 DEF vars, agentVars, socketVars, Service!serviceVars
<1> QED BY <1>2, <1>4, <1>5 DEF Next

\* The agents do nothing that the application does not reckon with (but for the
\* fairness, which ImplementsService adds to this).
THEOREM StepsAreOfService == Spec => Service!ServiceInit /\ [][Service!ServiceNext]_(Service!serviceVars)
<1>1. Init => Service!ServiceInit
  BY InitMaps
<1>2. IInv /\ [Next]_vars => [Service!ServiceNext]_(Service!serviceVars)
  BY NextMaps
<1> QED BY <1>1, <1>2, Invariant, PTL DEF Spec
=============================================================================
