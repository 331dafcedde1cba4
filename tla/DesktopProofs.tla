---------------------------- MODULE DesktopProofs ----------------------------
(***************************************************************************)
(* Proofs about the proxy setting of a desktop: the tray program of        *)
(* Windows (WinTray), for any number of processes and any set of faults,   *)
(* and set_global_proxy() of the Mac (GlobalProxy), for any number of      *)
(* network services; and that a desktop (MCDesktop) is one of the two.     *)
(***************************************************************************)
EXTENDS MCDesktop, TLAPS

-----------------------------------------------------------------------------
(* The tray program: what its properties leave unsaid.                     *)

\* A server that has not agreed to the end of the session stands for the setting: those
\* that have agreed may be ended at any time.
ServerStays ==
  proxy = "own" /\ excuses \cap {"setting", "killed", "late"} = {}
    => \E i \in Instances \ asked : place[i] \in {"served", "loop", "quit"}

\* Until a second process is started there is one at most.
Alone == "second" \notin excuses => \A i, j \in Instances : place[i] # "off" /\ place[j] # "off" => i = j

\* The flag tells the setting from the start on.
FlagTold ==
  excuses \cap {"setting", "asked", "second"} = {}
    => \A i \in Instances : HasWindow(i) => (bAgentOn[i] <=> proxy = "own")

\* The icon of a process: none where there can be none, and in the loop one that is right
\* or excused.
IconAtPlace(i) ==
  /\ place[i] \in {"off", "created", "served"} \/ ~shell => icon[i] = "none"
  /\ place[i] \in {"created", "served"} => firstTime[i] /\ ~bAgentOn[i]
  /\ place[i] = "loop" =>
       /\ ~firstTime[i]
       /\ icon[i] # "none" /\ ~failed[i] => icon[i] = Picture(bAgentOn[i])
       /\ icon[i] = "none" /\ shell /\ ~told[i] => failed[i]

TrayInv == TypeOK /\ ServerStays /\ Alone /\ FlagTold /\ \A i \in Instances : IconAtPlace(i)

-----------------------------------------------------------------------------
(* set_global_proxy().                                                     *)

\* Services that a disable has still to come to are the only ones that its copy has this
\* program's proxy for; and what is stored is no worse than the copy, unless the last
\* commit failed.  While a call is under way nothing is said of the last.
CopyTells ==
  /\ call \in {"opened disable", "disable"} => \A s \in Services : mset[s] = "own" => s \in todo
  /\ call # "none" /\ tried # "failed" => \A s \in Services : stored[s] = "own" => mset[s] = "own"
  /\ call # "none" => ended = "none"

MacInv == Mac!TypeOK /\ CopyTells /\ DisabledEverywhere

-----------------------------------------------------------------------------
(* The helpers of the tray program's actions.                              *)

\* What a call that sets the proxy can come to.
LEMMA SetProxyStep ==
  ASSUME TypeOK, NEW new \in {"direct", "own"}, NEW more \in SUBSET {"asked", "late", "second"},
         SetProxy(new, more)
  PROVE  /\ proxy' \in {"direct", "own"}
         /\ excuses' \subseteq {"setting", "killed", "asked", "late", "second"}
         /\ excuses \cup more \subseteq excuses'
         /\ "setting" \in excuses' \/ proxy' = new
         /\ proxy' \in {proxy, new} /\ excuses' \subseteq excuses \cup more \cup {"setting"}
BY DEF SetProxy, TypeOK

\* And one that sets the icon.
LEMMA SetIconStep ==
  ASSUME TypeOK, NEW i \in Instances, NEW first \in BOOLEAN, NEW picture \in {"off", "on"},
         SetIcon(i, first, picture)
  PROVE  /\ icon' \in [Instances -> {"none", "off", "on"}]
         /\ firstTime' \in [Instances -> BOOLEAN] /\ failed' \in [Instances -> BOOLEAN]
         /\ ~firstTime'[i]
         /\ \A j \in Instances \ {i} :
              icon'[j] = icon[j] /\ firstTime'[j] = firstTime[j] /\ failed'[j] = failed[j]
         /\ IF shell /\ (first <=> icon[i] = "none")
            THEN (icon'[i] = picture /\ ~failed'[i]) \/ (icon'[i] = icon[i] /\ failed'[i])
            ELSE icon'[i] = icon[i] /\ failed'[i] = failed[i]
<1>1. /\ firstTime' = [firstTime EXCEPT ![i] = FALSE]
      /\ IF shell /\ (first <=> icon[i] = "none")
         THEN \/ icon' = [icon EXCEPT ![i] = picture] /\ failed' = [failed EXCEPT ![i] = FALSE]
              \/ icon' = icon /\ failed' = [failed EXCEPT ![i] = TRUE]
         ELSE icon' = icon /\ failed' = failed
  BY Zenon DEF SetIcon, iconVars
<1>2. CASE shell /\ (first <=> icon[i] = "none")
  <2>1. CASE icon' = [icon EXCEPT ![i] = picture] /\ failed' = [failed EXCEPT ![i] = FALSE]
    <3>1. firstTime' = [firstTime EXCEPT ![i] = FALSE]
      BY <1>1
    <3>2. icon'[i] = picture /\ ~failed'[i]
      BY <2>1 DEF TypeOK
    <3> QED BY <1>2, <2>1, <3>1, <3>2 DEF TypeOK
  <2>2. CASE icon' = icon /\ failed' = [failed EXCEPT ![i] = TRUE]
    BY <1>1, <1>2, <2>2 DEF TypeOK
  <2> QED BY <1>1, <1>2, <2>1, <2>2
<1>3. CASE ~(shell /\ (first <=> icon[i] = "none"))
  BY <1>1, <1>3 DEF TypeOK
<1> QED BY <1>2, <1>3

\* The end of processes.
LEMMA GoneStep ==
  ASSUME TypeOK, NEW S \in SUBSET Instances, Gone(S)
  PROVE  /\ place' \in [Instances -> {"off", "created", "served", "loop", "quit", "bye"}]
         /\ told' \in [Instances -> BOOLEAN] /\ posted' \in [Instances -> {"none", "toggle", "close"}]
         /\ icon' \in [Instances -> {"none", "off", "on"}]
         /\ asked' = asked \ S
         /\ \A j \in S : place'[j] = "off" /\ ~told'[j] /\ posted'[j] = "none" /\ icon'[j] = "none"
         /\ \A j \in Instances \ S :
              place'[j] = place[j] /\ told'[j] = told[j] /\ posted'[j] = posted[j] /\ icon'[j] = icon[j]
BY DEF Gone, TypeOK

\* A process that goes on to another place.
LEMMA GoStep ==
  ASSUME TypeOK, NEW i \in Instances, NEW new \in {"off", "created", "served", "loop", "quit", "bye"}, Go(i, new)
  PROVE  /\ place' \in [Instances -> {"off", "created", "served", "loop", "quit", "bye"}]
         /\ place'[i] = new /\ \A j \in Instances \ {i} : place'[j] = place[j]
BY DEF Go, TypeOK

-----------------------------------------------------------------------------
(* The types.                                                              *)

LEMMA TypeOfProgram == ASSUME TypeOK, NEW i \in Instances, Program(i) PROVE TypeOK'
<1>1. CASE StartServer(i)
  <2>1. CASE Go(i, "served") /\ UNCHANGED <<told, posted, icon, asked>>
    BY <1>1, <2>1, GoStep DEF StartServer, TypeOK, HasWindow, programVars
  <2>2. CASE Gone({i})
    BY <1>1, <2>2, GoneStep DEF StartServer, TypeOK, HasWindow, programVars
  <2> QED BY <1>1, <2>1, <2>2 DEF StartServer
<1>2. CASE FirstIcon(i)
  <2>1. SetIcon(i, firstTime[i], "off") /\ firstTime[i] \in BOOLEAN
    BY <1>2 DEF FirstIcon, TypeOK
  <2> QED BY <1>2, <2>1, GoStep, SetIconStep DEF FirstIcon, TypeOK, HasWindow, sessionVars
<1>3. CASE Leave(i)
  BY <1>3, GoStep, SetProxyStep DEF Leave, TypeOK, HasWindow, programVars, iconVars, sessionVars
<1>4. CASE DeleteIcon(i)
  BY <1>4, GoneStep DEF DeleteIcon, TypeOK, HasWindow, programVars
<1>5. CASE Toggle(i)
  <2>1. SetIcon(i, firstTime[i], Picture(~bAgentOn[i])) /\ firstTime[i] \in BOOLEAN
        /\ Picture(~bAgentOn[i]) \in {"off", "on"}
    BY <1>5 DEF Toggle, TypeOK, Picture
  <2>2. \/ SetProxy("direct", {})
        \/ SetProxy("own", {}) \/ SetProxy("own", {"late"})
    BY <1>5 DEF Toggle
  <2>3. proxy' \in {"direct", "own"} /\ excuses' \subseteq {"setting", "killed", "asked", "late", "second"}
    BY <2>2, SetProxyStep
  <2>4. /\ icon' \in [Instances -> {"none", "off", "on"}]
        /\ firstTime' \in [Instances -> BOOLEAN] /\ failed' \in [Instances -> BOOLEAN]
    BY <2>1, SetIconStep
  <2>5. bAgentOn' \in [Instances -> BOOLEAN] /\ posted' \in [Instances -> {"none", "toggle", "close"}]
    BY <1>5 DEF Toggle, TypeOK
  <2>6. \A j \in Instances : posted'[j] \in {"none", posted[j]}
    BY <1>5 DEF Toggle, TypeOK
  <2>7. UNCHANGED <<place, hidden, told, shell, asked, ending>>
    BY <1>5 DEF Toggle, sessionVars
  <2> QED BY <2>3, <2>4, <2>5, <2>6, <2>7 DEF TypeOK, HasWindow
<1>6. CASE Close(i)
  BY <1>6, GoStep DEF Close, TypeOK, HasWindow, programVars, iconVars
<1>7. CASE TaskbarCreated(i)
  <2>1. PICK first \in BOOLEAN : SetIcon(i, first, Picture(bAgentOn[i])) /\ Picture(bAgentOn[i]) \in {"off", "on"}
    BY <1>7 DEF TaskbarCreated, Picture
  <2> QED BY <1>7, <2>1, SetIconStep DEF TaskbarCreated, TypeOK, HasWindow, sessionVars
<1>8. CASE QueryEndSession(i)
  BY <1>8, SetProxyStep DEF QueryEndSession, TypeOK, HasWindow, programVars, iconVars
<1> QED BY <1>1, <1>2, <1>3, <1>4, <1>5, <1>6, <1>7, <1>8 DEF Program, Command

LEMMA TypeOfUser == ASSUME TypeOK, NEW i \in Instances, User(i) \/ Kill(i) PROVE TypeOK'
<1>1. CASE Start(i)
  <2>1. PICK more \in {{}, {"second"}} : SetProxy("direct", more)
    BY <1>1 DEF Start
  <2> QED BY <1>1, <2>1, GoStep, SetProxyStep DEF Start, TypeOK, HasWindow, sessionVars
<1>2. CASE Menu(i) \/ CloseWindow(i)
  <2>1. PICK command \in {"toggle", "close"} : Choose(i, command)
    BY <1>2 DEF Menu, CloseWindow
  <2> QED BY <2>1 DEF Choose, TypeOK, HasWindow, programVars, iconVars, sessionVars
<1>3. CASE HideOrShow(i)
  BY <1>3 DEF HideOrShow, TypeOK, HasWindow, iconVars, sessionVars
<1>4. CASE Kill(i)
  BY <1>4, GoneStep DEF Kill, TypeOK, HasWindow, programVars
<1> QED BY <1>1, <1>2, <1>3, <1>4 DEF User

LEMMA TypeOfSession ==
  ASSUME TypeOK, ShellCrashes \/ ShellStarts \/ Session \/ UNCHANGED vars PROVE TypeOK'
<1>1. CASE ShellCrashes
  BY <1>1 DEF ShellCrashes, TypeOK, HasWindow, programVars, sessionVars
<1>2. CASE ShellStarts
  BY <1>2 DEF ShellStarts, TypeOK, HasWindow, programVars, iconVars, sessionVars
<1>3. CASE AskSession \/ SessionGoesOn
  BY <1>3 DEF AskSession, SessionGoesOn, TypeOK, HasWindow, programVars, iconVars
<1>4. CASE SessionEnds
  <2>1. Gone(Instances) /\ UNCHANGED <<programVars, failed, proxy, excuses>> /\ shell' = FALSE /\ ending' = FALSE
    BY <1>4 DEF SessionEnds
  <2>2. \A j \in Instances : place'[j] = "off" /\ ~told'[j] /\ posted'[j] = "none"
    BY <2>1, GoneStep
  <2>3. asked' = {}
    BY <2>1, GoneStep DEF TypeOK
  <2> QED BY <2>1, <2>2, <2>3, GoneStep DEF TypeOK, HasWindow, programVars
<1>5. CASE UNCHANGED vars
  BY <1>5 DEF vars, TypeOK, HasWindow, programVars, iconVars, sessionVars
<1> QED BY <1>1, <1>2, <1>3, <1>4, <1>5 DEF Session

-----------------------------------------------------------------------------
(* The setting and the server behind it.                                   *)

\* Who enables it has not agreed to the end of the session, or that is an excuse.
LEMMA ServerStep == ASSUME TypeOK, ServerStays, [Next]_vars PROVE ServerStays'
<1> DEFINE Held(i) == i \in Instances \ asked /\ place[i] \in {"served", "loop", "quit"}
<1> SUFFICES ASSUME proxy' = "own", excuses' \cap {"setting", "killed", "late"} = {}
             PROVE  \E j \in Instances \ asked' : place'[j] \in {"served", "loop", "quit"}
  BY DEF ServerStays
<1>1. ASSUME NEW i \in Instances, Toggle(i) PROVE \E j : Held(j)'
  <2>1. CASE bAgentOn[i]
    <3>1. SetProxy("direct", {})
      BY <1>1, <2>1 DEF Toggle
    <3> QED BY <3>1, SetProxyStep
  <2>2. CASE ~bAgentOn[i]
    <3>1. i \in asked => SetProxy("own", {"late"})
      BY <1>1, <2>2 DEF Toggle
    <3>2. i \notin asked
      BY <3>1, SetProxyStep
    <3>3. place'[i] = "loop" /\ asked' = asked
      BY <1>1 DEF Toggle, sessionVars
    <3> QED BY <3>2, <3>3
  <2> QED BY <2>1, <2>2
<1>2. ASSUME NEW i \in Instances, NEW more \in SUBSET {"asked", "late", "second"}, SetProxy("direct", more)
      PROVE  FALSE
  BY <1>2, SetProxyStep
<1>3. ASSUME NEW i \in Instances, Start(i) \/ Leave(i) \/ QueryEndSession(i) PROVE FALSE
  <2>1. PICK more \in SUBSET {"asked", "late", "second"} : SetProxy("direct", more)
    BY <1>3 DEF Start, Leave, QueryEndSession
  <2> QED BY <1>2, <2>1
<1>4. ASSUME proxy' = proxy, excuses \subseteq excuses'
      PROVE  \E i : Held(i)
  BY <1>4 DEF ServerStays
<1>5. ASSUME NEW i \in Instances,
             StartServer(i) \/ FirstIcon(i) \/ DeleteIcon(i) \/ Close(i) \/ TaskbarCreated(i)
      PROVE  \E j : Held(j)'
  <2>1. PICK j : Held(j)
    BY <1>4, <1>5 DEF StartServer, FirstIcon, DeleteIcon, Close, TaskbarCreated
  <2>2. asked' \subseteq asked
    BY <1>5, GoneStep DEF StartServer, FirstIcon, DeleteIcon, Close, TaskbarCreated, sessionVars
  <2>3. place'[j] \in {"served", "loop", "quit"}
    <3>1. CASE place[i] \in {"created", "bye"} /\ Gone({i})
      BY <2>1, <3>1, GoneStep
    <3>2. CASE Go(i, "served") \/ Go(i, "loop") \/ Go(i, "quit")
      BY <2>1, <3>2, GoStep
    <3>3. CASE UNCHANGED place
      BY <2>1, <3>3
    <3> QED BY <1>5, <3>1, <3>2, <3>3 DEF StartServer, FirstIcon, DeleteIcon, Close, TaskbarCreated
  <2> QED BY <2>1, <2>2, <2>3
<1>6. ASSUME NEW i \in Instances, Menu(i) \/ CloseWindow(i) \/ HideOrShow(i) PROVE \E j : Held(j)'
  <2>1. UNCHANGED <<proxy, excuses, place, asked>>
    BY <1>6 DEF Menu, CloseWindow, Choose, HideOrShow, sessionVars
  <2> QED BY <1>4, <2>1
<1>7. ASSUME NEW i \in Instances, Kill(i) PROVE FALSE
  BY <1>7 DEF Kill
<1>8. CASE ShellCrashes \/ ShellStarts \/ AskSession \/ SessionGoesOn \/ UNCHANGED vars
  <2>1. UNCHANGED <<proxy, excuses, place>> /\ asked' \subseteq asked
    BY <1>8 DEF ShellCrashes, ShellStarts, AskSession, SessionGoesOn, sessionVars, vars
  <2> QED BY <1>4, <2>1
<1>9. CASE SessionEnds
  <2>1. PICK j : Held(j)
    BY <1>4, <1>9 DEF SessionEnds
  <2> QED BY <1>9, <2>1 DEF SessionEnds
<1> QED BY <1>1, <1>3, <1>5, <1>6, <1>7, <1>8, <1>9 DEF Next, Program, Command, User, Session

-----------------------------------------------------------------------------
(* The flag and the setting.                                               *)

LEMMA AloneStep == ASSUME TypeOK, Alone, [Next]_vars PROVE Alone'
<1> SUFFICES ASSUME "second" \notin excuses',
                    NEW i \in Instances, NEW j \in Instances, place'[i] # "off", place'[j] # "off"
             PROVE  i = j
  BY DEF Alone
<1>1. ASSUME NEW k \in Instances, Start(k) PROVE i = j
  <2>1. \A l \in Instances : place[l] = "off"
    <3>1. (\E l \in Instances : place[l] # "off") => SetProxy("direct", {"second"})
      BY <1>1 DEF Start
    <3> QED BY <3>1, SetProxyStep
  <2>2. \A l \in Instances \ {k} : place'[l] = place[l]
    BY <1>1, GoStep DEF Start
  <2> QED BY <2>1, <2>2
<1>2. ASSUME excuses \subseteq excuses', \A k \in Instances : place[k] = "off" => place'[k] = "off"
      PROVE  i = j
  BY <1>2 DEF Alone
<1>3. ASSUME NEW k \in Instances, Program(k) PROVE i = j
  <2>1. excuses \subseteq excuses'
    BY <1>3 DEF Program, Command, StartServer, FirstIcon, Leave, DeleteIcon, Toggle, Close, TaskbarCreated,
                QueryEndSession, SetProxy
  <2>2. ASSUME NEW l \in Instances, place[l] = "off" PROVE place'[l] = "off"
    <3>1. CASE Gone({k})
      BY <2>2, <3>1, GoneStep
    <3>2. CASE UNCHANGED place
      BY <2>2, <3>2
    <3>3. CASE /\ k # l
               /\ Go(k, "served") \/ Go(k, "loop") \/ Go(k, "quit") \/ Go(k, "bye")
      BY <2>2, <3>3, GoStep
    <3> QED BY <1>3, <2>2, <3>1, <3>2, <3>3
          DEF Program, Command, StartServer, FirstIcon, Leave, DeleteIcon, Toggle, Close, TaskbarCreated,
              QueryEndSession
  <2> QED BY <1>2, <2>1, <2>2
<1>4. ASSUME NEW k \in Instances, Menu(k) \/ CloseWindow(k) \/ HideOrShow(k) PROVE i = j
  BY <1>2, <1>4 DEF Menu, CloseWindow, Choose, HideOrShow
<1>5. ASSUME NEW k \in Instances, Kill(k) PROVE i = j
  <2>1. \A l \in Instances : place[l] = "off" => place'[l] = "off"
    BY <1>5, GoneStep DEF Kill
  <2> QED BY <1>2, <1>5, <2>1 DEF Kill
<1>6. CASE ShellCrashes \/ ShellStarts \/ AskSession \/ SessionGoesOn \/ UNCHANGED vars
  BY <1>2, <1>6 DEF ShellCrashes, ShellStarts, AskSession, SessionGoesOn, vars
<1>7. CASE SessionEnds
  <2>1. \A l \in Instances : place'[l] = "off"
    BY <1>7, GoneStep DEF SessionEnds
  <2> QED BY <2>1
<1> QED BY <1>1, <1>3, <1>4, <1>5, <1>6, <1>7 DEF Next, User, Session

\* A process alone sets flag and setting together; what a killed one has left is reset
\* before the window of the next is made.
LEMMA FlagStep == ASSUME TypeOK, Alone, FlagTold, [Next]_vars PROVE FlagTold'
<1> SUFFICES ASSUME excuses' \cap {"setting", "asked", "second"} = {}, NEW i \in Instances, HasWindow(i)'
             PROVE  bAgentOn'[i] <=> proxy' = "own"
  BY DEF FlagTold
<1>1. ASSUME NEW j \in Instances, Start(j) PROVE bAgentOn'[i] <=> proxy' = "own"
  <2>1. PICK more \in SUBSET {"second"} : SetProxy("direct", more)
    BY <1>1 DEF Start
  <2>2. proxy' = "direct"
    BY <2>1, SetProxyStep
  <2>3. i = j
    <3>1. Alone' /\ place'[j] # "off"
      BY <1>1, GoStep, AloneStep DEF Next, User, Start
    <3> QED BY <3>1 DEF Alone, HasWindow
  <2> QED BY <1>1, <2>2, <2>3 DEF Start, TypeOK
<1>2. ASSUME NEW j \in Instances, Toggle(j) PROVE bAgentOn'[i] <=> proxy' = "own"
  <2>1. /\ bAgentOn[j] => SetProxy("direct", {})
        /\ ~bAgentOn[j] => SetProxy("own", {}) \/ SetProxy("own", {"late"})
    BY <1>2 DEF Toggle
  <2>2. "second" \notin excuses
    BY <2>1, SetProxyStep
  <2>3. i = j
    BY <1>2, <2>2 DEF Toggle, Alone, HasWindow
  <2>4. bAgentOn'[j] <=> ~bAgentOn[j]
    BY <1>2 DEF Toggle, TypeOK
  <2> QED BY <2>1, <2>3, <2>4, SetProxyStep
<1>3. ASSUME NEW j \in Instances, Leave(j) PROVE FALSE
  <2>1. SetProxy("direct", {}) /\ HasWindow(i)
    BY <1>3, GoStep DEF Leave, HasWindow
  <2>2. "second" \notin excuses
    BY <2>1, SetProxyStep
  <2> QED BY <1>3, <2>1, <2>2 , GoStep DEF Leave, HasWindow, Alone
<1>4. ASSUME NEW j \in Instances, QueryEndSession(j) PROVE FALSE
  <2>1. SetProxy("direct", {"asked"})
    BY <1>4 DEF QueryEndSession
  <2> QED BY <2>1, SetProxyStep
<1>5. ASSUME proxy' = proxy, bAgentOn' = bAgentOn, excuses \subseteq excuses', HasWindow(i)
      PROVE  bAgentOn'[i] <=> proxy' = "own"
  BY <1>5 DEF FlagTold
<1>6. ASSUME NEW j \in Instances,
             StartServer(j) \/ FirstIcon(j) \/ DeleteIcon(j) \/ Close(j) \/ TaskbarCreated(j)
      PROVE  bAgentOn'[i] <=> proxy' = "own"
  <2>1. HasWindow(i)
    <3>1. CASE Gone({j})
      BY <3>1, GoneStep DEF HasWindow
    <3>2. CASE place[j] \in {"created", "served"} /\ (Go(j, "served") \/ Go(j, "loop") \/ Go(j, "quit"))
      BY <3>2, GoStep DEF HasWindow
    <3>3. CASE Go(j, "quit")
      BY <3>3, GoStep DEF HasWindow
    <3>4. CASE UNCHANGED place
      BY <3>4 DEF HasWindow
    <3> QED BY <1>6, <3>1, <3>2, <3>3, <3>4 DEF StartServer, FirstIcon, DeleteIcon, Close, TaskbarCreated
  <2>2. UNCHANGED <<proxy, bAgentOn, excuses>>
    BY <1>6 DEF StartServer, FirstIcon, DeleteIcon, Close, TaskbarCreated, programVars
  <2> QED BY <1>5, <2>1, <2>2
<1>7. ASSUME NEW j \in Instances, Menu(j) \/ CloseWindow(j) \/ HideOrShow(j)
      PROVE  bAgentOn'[i] <=> proxy' = "own"
  <2>1. UNCHANGED <<proxy, bAgentOn, excuses, place>>
    BY <1>7 DEF Menu, CloseWindow, Choose, HideOrShow, programVars
  <2> QED BY <1>5, <2>1 DEF HasWindow
<1>8. ASSUME NEW j \in Instances, Kill(j) PROVE bAgentOn'[i] <=> proxy' = "own"
  <2>1. HasWindow(i)
    BY <1>8, GoneStep DEF Kill, HasWindow
  <2> QED BY <1>5, <1>8, <2>1 DEF Kill, programVars
<1>9. CASE ShellCrashes \/ ShellStarts \/ AskSession \/ SessionGoesOn \/ UNCHANGED vars
  <2>1. UNCHANGED <<proxy, bAgentOn, excuses, place>>
    BY <1>9 DEF ShellCrashes, ShellStarts, AskSession, SessionGoesOn, programVars, vars
  <2> QED BY <1>5, <2>1 DEF HasWindow
<1>10. CASE SessionEnds
  <2>1. place'[i] = "off"
    BY <1>10, GoneStep DEF SessionEnds
  <2> QED BY <2>1 DEF HasWindow
<1> QED BY <1>1, <1>2, <1>3, <1>4, <1>6, <1>7, <1>8, <1>9, <1>10 DEF Next, Program, Command, User, Session

-----------------------------------------------------------------------------
(* The icon.                                                               *)

\* An icon is added where there is none and modified where there is one, but for a taskbar
\* that has come between: then its call waits.
LEMMA IconStep ==
  ASSUME TypeOK, \A i \in Instances : IconAtPlace(i), [Next]_vars, NEW i \in Instances
  PROVE  IconAtPlace(i)'
<1> DEFINE Same(j) == /\ place'[j] = place[j] /\ icon'[j] = icon[j] /\ firstTime'[j] = firstTime[j]
                      /\ bAgentOn'[j] = bAgentOn[j] /\ failed'[j] = failed[j] /\ told'[j] = told[j]
<1>1. ASSUME shell' = shell, Same(i) PROVE IconAtPlace(i)'
  BY <1>1 DEF IconAtPlace, Picture
<1>2. ASSUME NEW j \in Instances, Gone({j}), UNCHANGED <<programVars, failed, shell>> PROVE IconAtPlace(i)'
  <2>1. CASE i = j
    BY <1>2, <2>1, GoneStep DEF IconAtPlace
  <2>2. CASE i # j
    BY <1>1, <1>2, <2>2, GoneStep DEF programVars
  <2> QED BY <2>1, <2>2
<1>3. ASSUME NEW j \in Instances, NEW first \in BOOLEAN, SetIcon(j, first, Picture(bAgentOn'[j])),
             place'[j] = "loop", UNCHANGED shell,
             \/ ~first /\ place[j] = "loop" /\ told'[j] = told[j]
             \/ first /\ place[j] \in {"served", "loop"} /\ bAgentOn'[j] = bAgentOn[j],
             \A k \in Instances \ {j} :
               place'[k] = place[k] /\ bAgentOn'[k] = bAgentOn[k] /\ told'[k] = told[k]
      PROVE  IconAtPlace(i)'
  <2>1. Picture(bAgentOn'[j]) \in {"off", "on"}
    BY DEF Picture
  <2> HIDE DEF Picture
  <2>2. CASE i # j
    BY <1>1, <1>3, <2>1, <2>2, SetIconStep
  <2>3. CASE i = j
    <3> SUFFICES IconAtPlace(j)'
      BY <2>3
    <3>1. ~firstTime'[j] /\ IconAtPlace(j)
      BY <1>3, <2>1, SetIconStep
    <3>2. IF shell /\ (first <=> icon[j] = "none")
          THEN (icon'[j] = Picture(bAgentOn'[j]) /\ ~failed'[j]) \/ (icon'[j] = icon[j] /\ failed'[j])
          ELSE icon'[j] = icon[j] /\ failed'[j] = failed[j]
      BY <1>3, <2>1, SetIconStep
    <3>3. CASE ~shell
      BY <1>3, <3>1, <3>2, <3>3 DEF IconAtPlace
    <3>4. CASE shell /\ ~first
      <4>1. CASE icon[j] = "none"
        BY <1>3, <3>1, <3>2, <3>4, <4>1 DEF IconAtPlace
      <4>2. CASE icon[j] # "none"
        BY <1>3, <2>1, <3>1, <3>2, <3>4, <4>2 DEF IconAtPlace
      <4> QED BY <4>1, <4>2
    <3>5. CASE shell /\ first
      <4>1. CASE icon[j] = "none"
        BY <1>3, <2>1, <3>1, <3>2, <3>5, <4>1 DEF IconAtPlace
      <4>2. CASE icon[j] # "none"
        BY <1>3, <2>1, <3>1, <3>2, <3>5, <4>2 DEF IconAtPlace
      <4> QED BY <4>1, <4>2
    <3> QED BY <3>3, <3>4, <3>5
  <2> QED BY <2>2, <2>3
<1>4. ASSUME NEW j \in Instances, StartServer(j) PROVE IconAtPlace(i)'
  <2>1. CASE Go(j, "served") /\ UNCHANGED <<told, posted, icon, asked>>
    <3>1. UNCHANGED <<bAgentOn, firstTime, failed, shell, told, icon>> /\ place[j] = "created"
      BY <1>4, <2>1 DEF StartServer, programVars
    <3>2. CASE i = j
      BY <2>1, <3>1, <3>2, GoStep DEF IconAtPlace
    <3>3. CASE i # j
      BY <1>1, <2>1, <3>1, <3>3, GoStep
    <3> QED BY <3>2, <3>3
  <2>2. CASE Gone({j})
    BY <1>2, <1>4, <2>2 DEF StartServer
  <2> QED BY <1>4, <2>1, <2>2 DEF StartServer
<1>5. ASSUME NEW j \in Instances, DeleteIcon(j) \/ Kill(j) PROVE IconAtPlace(i)'
  BY <1>2, <1>5 DEF DeleteIcon, Kill
<1>6. ASSUME NEW j \in Instances, Leave(j) \/ Close(j) PROVE IconAtPlace(i)'
  <2>1. UNCHANGED <<bAgentOn, firstTime, failed, shell, icon>> /\ place[j] \notin {"off", "created", "served"}
    BY <1>6 DEF Leave, Close, programVars, iconVars
  <2>2. PICK new \in {"quit", "bye"} : Go(j, new)
    BY <1>6 DEF Leave, Close
  <2>3. CASE i = j
    BY <2>1, <2>2, <2>3, GoStep DEF IconAtPlace
  <2>4. CASE i # j
    <3>1. told'[i] = told[i]
      BY <1>6, <2>4 DEF Leave, Close, TypeOK
    <3> QED BY <1>1, <2>1, <2>2, <2>4, <3>1, GoStep
  <2> QED BY <2>3, <2>4
<1>7. ASSUME NEW j \in Instances, FirstIcon(j) PROVE IconAtPlace(i)'
  <2>1. firstTime[j] \in BOOLEAN /\ firstTime[j] /\ Picture(bAgentOn'[j]) = "off"
    BY <1>7 DEF FirstIcon, IconAtPlace, TypeOK, Picture
  <2>2. /\ SetIcon(j, firstTime[j], "off") /\ place[j] = "served"
        /\ UNCHANGED <<bAgentOn, told, shell>>
    BY <1>7 DEF FirstIcon
  <2> QED BY <1>3, <1>7, <2>1, <2>2, GoStep DEF FirstIcon
<1>8. ASSUME NEW j \in Instances, Toggle(j) PROVE IconAtPlace(i)'
  <2>1. firstTime[j] \in BOOLEAN /\ ~firstTime[j] /\ Picture(bAgentOn'[j]) = Picture(~bAgentOn[j])
    BY <1>8 DEF Toggle, IconAtPlace, TypeOK, Picture
  <2>2. /\ SetIcon(j, firstTime[j], Picture(~bAgentOn[j])) /\ place[j] = "loop"
        /\ UNCHANGED <<place, told, shell>> /\ \A k \in Instances \ {j} : bAgentOn'[k] = bAgentOn[k]
    BY <1>8 DEF Toggle, TypeOK
  <2> QED BY <1>3, <2>1, <2>2
<1>9. ASSUME NEW j \in Instances, TaskbarCreated(j) PROVE IconAtPlace(i)'
  <2>1. PICK first \in BOOLEAN : first /\ SetIcon(j, first, Picture(bAgentOn[j]))
    BY <1>9 DEF TaskbarCreated
  <2>2. /\ place[j] = "loop" /\ UNCHANGED <<place, bAgentOn, shell>>
        /\ \A k \in Instances \ {j} : told'[k] = told[k]
    BY <1>9 DEF TaskbarCreated, TypeOK
  <2> QED BY <1>3, <2>1, <2>2
<1>10. ASSUME NEW j \in Instances, QueryEndSession(j) \/ Menu(j) \/ CloseWindow(j) \/ HideOrShow(j)
       PROVE  IconAtPlace(i)'
  <2>1. UNCHANGED <<place, bAgentOn, firstTime, told, icon, failed, shell>>
    BY <1>10 DEF QueryEndSession, Menu, CloseWindow, Choose, HideOrShow, programVars, iconVars
  <2> QED BY <1>1, <2>1
<1>11. ASSUME NEW j \in Instances, Start(j) PROVE IconAtPlace(i)'
  <2>1. CASE i = j
    BY <1>11, <2>1, GoStep DEF Start, IconAtPlace, TypeOK
  <2>2. CASE i # j
    BY <1>1, <1>11, <2>2, GoStep DEF Start, TypeOK
  <2> QED BY <2>1, <2>2
<1>12. CASE ShellCrashes
  BY <1>12 DEF ShellCrashes, IconAtPlace, programVars
<1>13. CASE ShellStarts
  BY <1>13 DEF ShellStarts, IconAtPlace, HasWindow, programVars, iconVars, TypeOK
<1>14. CASE AskSession \/ SessionGoesOn \/ UNCHANGED vars
  <2>1. UNCHANGED <<place, bAgentOn, firstTime, told, icon, failed, shell>>
    BY <1>14 DEF AskSession, SessionGoesOn, programVars, iconVars, vars
  <2> QED BY <1>1, <2>1
<1>15. CASE SessionEnds
  BY <1>15, GoneStep DEF SessionEnds, IconAtPlace
<1> QED BY <1>4, <1>5, <1>6, <1>7, <1>8, <1>9, <1>10, <1>11, <1>12, <1>13, <1>14, <1>15
        DEF Next, Program, Command, User, Session

-----------------------------------------------------------------------------
\* No process runs yet.
LEMMA TrayInit == Init => TrayInv
<1> SUFFICES ASSUME Init PROVE TrayInv
  OBVIOUS
<1>1. TypeOK
  BY DEF Init, TypeOK, HasWindow
<1>2. ServerStays /\ Alone /\ FlagTold /\ \A i \in Instances : IconAtPlace(i)
  BY DEF Init, ServerStays, Alone, FlagTold, IconAtPlace, HasWindow
<1> QED BY <1>1, <1>2 DEF TrayInv

LEMMA TrayNext == TrayInv /\ [Next]_vars => TrayInv'
<1> SUFFICES ASSUME TrayInv, [Next]_vars PROVE TrayInv'
  OBVIOUS
<1> USE DEF TrayInv
<1>1. TypeOK'
  BY TypeOfProgram, TypeOfUser, TypeOfSession DEF Next
<1>2. ServerStays' /\ Alone' /\ FlagTold'
  BY ServerStep, AloneStep, FlagStep
<1>3. \A i \in Instances : IconAtPlace(i)'
  BY IconStep
<1> QED BY <1>1, <1>2, <1>3

\* The tray program keeps its invariant, with any number of processes and any faults.
THEOREM TrayInvariant == Spec => []TrayInv
BY TrayInit, TrayNext, PTL DEF Spec

\* Its variables have their types.
THEOREM TrayTypeCorrect == Spec => []TypeOK
<1>1. TrayInv => TypeOK
  BY DEF TrayInv
<1> QED BY <1>1, TrayInvariant, PTL

\* The system does not point to a proxy that is gone, but for the three excuses: for any
\* number of processes and any set of faults.
THEOREM ServerBehindSetting == Spec => []OwnHasServer
<1>1. TrayInv => OwnHasServer
  BY DEF TrayInv, ServerStays, OwnHasServer
<1> QED BY <1>1, TrayInvariant, PTL

\* bAgentOn is what the system has, of one process at a time and whatever was killed.
THEOREM FlagIsSetting == Spec => []FlagTells
<1>1. TrayInv => FlagTells
  BY DEF TrayInv, FlagTold, FlagTells, HasWindow
<1> QED BY <1>1, TrayInvariant, PTL

\* The icon is the one of the flag, with any number of taskbars that came and went.
THEOREM IconIsFlag == Spec => []IconTells
<1>1. TrayInv => IconTells
  BY DEF TrayInv, IconAtPlace, IconTells
<1> QED BY <1>1, TrayInvariant, PTL

-----------------------------------------------------------------------------
(* The Mac.                                                                *)

LEMMA MacInit == Mac!Init => MacInv
BY DEF Mac!Init, MacInv, Mac!TypeOK, Mac!Values, CopyTells, DisabledEverywhere, Mac!DisabledEverywhere

LEMMA MacNext == MacInv /\ [Mac!Next]_macVars => MacInv'
<1> SUFFICES ASSUME MacInv, [Mac!Next]_macVars PROVE MacInv'
  OBVIOUS
<1> USE DEF MacInv, DisabledEverywhere
<1>1. ASSUME NEW what \in {"enable", "disable"}, Mac!Open(what) PROVE MacInv'
  <2>1. Mac!TypeOK'
    BY <1>1 DEF Mac!Open, Mac!TypeOK, Mac!Values
  <2>2. CopyTells' /\ Mac!DisabledEverywhere'
    BY <1>1 DEF Mac!Open, CopyTells, Mac!DisabledEverywhere, Mac!TypeOK, Mac!Values
  <2> QED BY <2>1, <2>2
<1>2. CASE Mac!ReadPrimary
  <2>1. Mac!TypeOK'
    BY <1>2 DEF Mac!ReadPrimary, Mac!TypeOK, Mac!Values
  <2>2. CopyTells' /\ Mac!DisabledEverywhere'
    BY <1>2 DEF Mac!ReadPrimary, CopyTells, Mac!DisabledEverywhere
  <2> QED BY <2>1, <2>2
<1>3. ASSUME NEW s \in Services, Mac!SetService(s) PROVE MacInv'
  <2>1. CASE Mac!Passed(s)
    <3>1. UNCHANGED <<stored, mset, tried, primary, call, primaryService, touched, ended>> /\ todo' = todo \ {s}
      BY <1>3, <2>1 DEF Mac!SetService
    <3>2. call = "disable" => mset[s] # "own"
      BY <2>1 DEF Mac!Passed
    <3> QED BY <1>3, <3>1, <3>2 DEF Mac!SetService, Mac!TypeOK, CopyTells, Mac!DisabledEverywhere
  <2>2. CASE ~Mac!Passed(s)
    <3>1. PICK new \in {"own", "direct"} :
            mset' = [mset EXCEPT ![s] = new] /\ (call = "disable" => new = "direct")
      BY <1>3, <2>2 DEF Mac!SetService
    <3>2. /\ UNCHANGED <<primary, call, primaryService, touched, ended>> /\ todo' = todo \ {s}
          /\ call \in {"enable", "disable"}
      BY <1>3 DEF Mac!SetService
    <3>3. (stored' = mset' /\ tried' = "committed") \/ (stored' = stored /\ tried' = "failed")
      BY <1>3, <2>2 DEF Mac!SetService, Mac!Commit
    <3>4. /\ mset' \in [Services -> Mac!Values]
          /\ mset'[s] = new /\ \A t \in Services \ {s} : mset'[t] = mset[t]
      BY <3>1 DEF Mac!TypeOK, Mac!Values
    <3>5. Mac!TypeOK'
      BY <3>2, <3>3, <3>4 DEF Mac!TypeOK
    <3>6. CopyTells'
      BY <3>1, <3>2, <3>3, <3>4 DEF CopyTells
    <3>7. Mac!DisabledEverywhere'
      BY <3>2 DEF CopyTells, Mac!DisabledEverywhere
    <3> QED BY <3>5, <3>6, <3>7
  <2> QED BY <2>1, <2>2
<1>4. CASE Mac!Return
  <2>1. Mac!TypeOK'
    BY <1>4 DEF Mac!Return, Mac!TypeOK, Mac!Values
  <2>2. CopyTells' /\ Mac!DisabledEverywhere'
    BY <1>4 DEF Mac!Return, CopyTells, Mac!DisabledEverywhere
  <2> QED BY <2>1, <2>2
<1>5. ASSUME NEW s \in Services, Mac!UserSets(s) PROVE MacInv'
  <2>1. PICK new \in Mac!Values \ {"own"} : stored' = [stored EXCEPT ![s] = new]
    BY <1>5 DEF Mac!UserSets
  <2>2. Mac!TypeOK'
    BY <1>5, <2>1 DEF Mac!UserSets, Mac!TypeOK
  <2>3. \A t \in Services : stored'[t] = "own" => stored[t] = "own"
    BY <2>1 DEF Mac!TypeOK
  <2>4. CopyTells' /\ Mac!DisabledEverywhere'
    BY <1>5, <2>3 DEF Mac!UserSets, CopyTells, Mac!DisabledEverywhere
  <2> QED BY <2>2, <2>4
<1>6. CASE Mac!PrimaryChanges \/ UNCHANGED macVars
  BY <1>6 DEF Mac!PrimaryChanges, macVars, Mac!TypeOK, CopyTells, Mac!DisabledEverywhere
<1> QED BY <1>1, <1>2, <1>3, <1>4, <1>5, <1>6 DEF Mac!Next, Mac!SetSystemProxy, Mac!DisableSystemProxy

-----------------------------------------------------------------------------
(* A desktop.                                                              *)

\* A desktop of one kind is also one of the other kind on which nothing is done.
THEOREM DesktopIsBoth == DesktopSpec => Spec /\ Mac!Spec
<1>1. DesktopInit => Init /\ Mac!Init
  BY DEF DesktopInit
<1>2. [DesktopNext]_<<desktop, vars, macVars>> => [Next]_vars /\ [Mac!Next]_(Mac!vars)
  BY DEF DesktopNext, Windows, MacOS, macVars, Mac!vars
<1> QED BY <1>1, <1>2, PTL DEF DesktopSpec, Spec, Mac!Spec

\* A disable that is not refused takes this program's proxy from every service, for any
\* number of services, whatever was primary and whatever the user did meanwhile.
THEOREM DisableReachesAll == Mac!Spec => []DisabledEverywhere
<1>1. [Mac!Next]_(Mac!vars) => [Mac!Next]_macVars
  BY DEF macVars, Mac!vars
<1>2. MacInv => DisabledEverywhere
  BY DEF MacInv
<1> QED BY <1>1, <1>2, MacInit, MacNext, PTL DEF Mac!Spec

\* All four hold of a desktop of either kind.
THEOREM DesktopCorrect ==
  DesktopSpec => [](OwnHasServer /\ FlagTells /\ IconTells /\ DisabledEverywhere)
BY DesktopIsBoth, ServerBehindSetting, FlagIsSetting, IconIsFlag, DisableReachesAll, PTL
=============================================================================
