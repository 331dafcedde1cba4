------------------------------ MODULE WinTray ------------------------------
(***************************************************************************)
(* The tray program of Windows (WIN32/main.cpp): its window messages, the  *)
(* notification icon, which lives in Explorer, and the proxy setting of    *)
(* the user, which outlives every process.                                 *)
(*                                                                         *)
(* A window procedure runs one message at a time, so a message is one      *)
(* step.  Explorer may crash and start again, the session may be asked to  *)
(* end and go on, calls may fail, the program may be killed and started    *)
(* beside itself: nothing keeps it from running twice.                     *)
(*                                                                         *)
(* The setting is only "own" or not: a proxy of somebody else is "direct". *)
(* Balloon tips, the mark in the menu (it follows bAgentOn) and the menu   *)
(* entries that open web pages are left out.                               *)
(***************************************************************************)
EXTENDS FiniteSets

CONSTANTS Instances,  \* processes of the program
          Faults      \* what may go wrong in the surroundings

ASSUME FaultsAssumption == Faults \subseteq {"setting", "icon", "killed", "session", "shell"}

VARIABLES
  place,      \* where each process is
  bAgentOn,   \* the program's own idea of the setting
  firstTime,  \* firstTimeToAdd
  hidden,     \* its window is hidden
  posted,     \* the command posted to its window
  told,       \* TaskbarCreated waits for its window
  icon,       \* its icon in the taskbar
  failed,     \* history: the last call that should have changed the icon failed
  shell,      \* Explorer shows the taskbar
  proxy,      \* the user's setting
  asked,      \* windows that have answered WM_QUERYENDSESSION
  ending,     \* the session is about to end
  excuses     \* history: what has gone wrong

programVars == <<bAgentOn, firstTime, hidden>>
iconVars == <<icon, failed>>
sessionVars == <<asked, ending>>
vars == <<place, programVars, posted, told, iconVars, shell, proxy, sessionVars, excuses>>

HasWindow(i) == place[i] \in {"created", "served", "loop"}

TypeOK ==
  /\ place \in [Instances -> {"off", "created", "served", "loop", "quit", "bye"}]
  /\ bAgentOn \in [Instances -> BOOLEAN] /\ firstTime \in [Instances -> BOOLEAN]
  /\ hidden \in [Instances -> BOOLEAN] /\ told \in [Instances -> BOOLEAN]
  /\ posted \in [Instances -> {"none", "toggle", "close"}]
  /\ \A i \in Instances : (told[i] => HasWindow(i)) /\ (posted[i] # "none" => place[i] = "loop")
  /\ icon \in [Instances -> {"none", "off", "on"}]
  /\ failed \in [Instances -> BOOLEAN]
  /\ shell \in BOOLEAN /\ proxy \in {"direct", "own"}
  /\ asked \subseteq {i \in Instances : place[i] = "loop"}
  /\ ending \in BOOLEAN
  /\ excuses \subseteq {"setting", "killed", "asked", "late", "second"}

Init ==
  /\ place = [i \in Instances |-> "off"]
  /\ bAgentOn = [i \in Instances |-> FALSE] /\ firstTime = [i \in Instances |-> TRUE]
  /\ hidden = [i \in Instances |-> FALSE] /\ told = [i \in Instances |-> FALSE]
  /\ posted = [i \in Instances |-> "none"]
  /\ icon = [i \in Instances |-> "none"] /\ failed = [i \in Instances |-> FALSE]
  /\ shell \in BOOLEAN /\ proxy = "direct"
  /\ asked = {} /\ ending = FALSE
  /\ excuses = {}

Go(i, new) == place' = [place EXCEPT ![i] = new]

\* SetConnectionProxy() and RemoveConnectionProxy(): whether they succeed is not looked
\* at.  What else the step has to excuse is in more.
SetProxy(new, more) ==
  \/ proxy' = new /\ excuses' = excuses \cup more
  \/ "setting" \in Faults /\ UNCHANGED proxy /\ excuses' = excuses \cup more \cup {"setting"}

\* setIcon(): NIM_ADD the first time, which fails if there is an icon, then NIM_MODIFY,
\* which fails if there is none.  The flag is cleared in either case.
SetIcon(i, first, picture) ==
  /\ firstTime' = [firstTime EXCEPT ![i] = FALSE]
  /\ LET works == shell /\ (first <=> icon[i] = "none")
     IN \/ /\ works
           /\ icon' = [icon EXCEPT ![i] = picture] /\ failed' = [failed EXCEPT ![i] = FALSE]
        \/ works /\ "icon" \in Faults /\ UNCHANGED icon /\ failed' = [failed EXCEPT ![i] = TRUE]
        \/ ~works /\ UNCHANGED iconVars

Picture(on) == IF on THEN "on" ELSE "off"

-----------------------------------------------------------------------------
(* Start and end.                                                          *)

\* Faulty variant: the window is made without a look at the setting.
StartOnly(i) ==
  /\ place[i] = "off" /\ Go(i, "created")
  /\ excuses' = excuses \cup (IF \E j \in Instances : place[j] # "off" THEN {"second"} ELSE {})
  /\ bAgentOn' = [bAgentOn EXCEPT ![i] = FALSE]
  /\ firstTime' = [firstTime EXCEPT ![i] = TRUE]
  /\ hidden' = [hidden EXCEPT ![i] = FALSE] /\ failed' = [failed EXCEPT ![i] = FALSE]
  /\ UNCHANGED <<posted, told, icon, shell, proxy, sessionVars>>

\* WinMain(), InitWindow() and WM_CREATE.
Start(i) ==
  /\ place[i] = "off" /\ Go(i, "created")
  /\ SetProxy("direct", IF \E j \in Instances : place[j] # "off" THEN {"second"} ELSE {})
  /\ bAgentOn' = [bAgentOn EXCEPT ![i] = FALSE]
  /\ firstTime' = [firstTime EXCEPT ![i] = TRUE]
  /\ hidden' = [hidden EXCEPT ![i] = FALSE] /\ failed' = [failed EXCEPT ![i] = FALSE]
  /\ UNCHANGED <<posted, told, icon, shell, sessionVars>>

\* The process is gone, and its window and icon with it.
Gone(S) ==
  /\ place' = [i \in Instances |-> IF i \in S THEN "off" ELSE place[i]]
  /\ told' = [i \in Instances |-> told[i] /\ i \notin S]
  /\ posted' = [i \in Instances |-> IF i \in S THEN "none" ELSE posted[i]]
  /\ icon' = [i \in Instances |-> IF i \in S THEN "none" ELSE icon[i]]
  /\ asked' = asked \ S

\* The server's thread is started, or WSAStartup() fails and the program exits.
StartServer(i) ==
  /\ place[i] = "created"
  /\ \/ Go(i, "served") /\ UNCHANGED <<told, posted, icon, asked>>
     \/ Gone({i})
  /\ UNCHANGED <<programVars, failed, shell, proxy, ending, excuses>>

FirstIcon(i) ==
  /\ place[i] = "served" /\ Go(i, "loop")
  /\ SetIcon(i, firstTime[i], "off")
  /\ UNCHANGED <<bAgentOn, hidden, posted, told, shell, proxy, sessionVars, excuses>>

\* DestroyWindow() and WM_DESTROY; the loop ends.
Close(i) ==
  /\ place[i] = "loop" /\ posted[i] = "close" /\ Go(i, "quit")
  /\ posted' = [posted EXCEPT ![i] = "none"] /\ told' = [told EXCEPT ![i] = FALSE]
  /\ asked' = asked \ {i}
  /\ UNCHANGED <<programVars, iconVars, shell, proxy, ending, excuses>>

\* After the loop, whatever bAgentOn says.
Leave(i) ==
  /\ place[i] = "quit" /\ Go(i, "bye")
  /\ SetProxy("direct", {})
  /\ UNCHANGED <<programVars, posted, told, iconVars, shell, sessionVars>>

DeleteIcon(i) ==
  /\ place[i] = "bye" /\ Gone({i})
  /\ UNCHANGED <<programVars, failed, shell, proxy, ending, excuses>>

Kill(i) ==
  /\ "killed" \in Faults /\ place[i] # "off" /\ Gone({i})
  /\ excuses' = excuses \cup {"killed"}
  /\ UNCHANGED <<programVars, failed, shell, proxy, ending>>

-----------------------------------------------------------------------------
(* The user: what is chosen is posted, and handled later.                  *)

Choose(i, command) ==
  /\ place[i] = "loop" /\ posted[i] = "none"
  /\ posted' = [posted EXCEPT ![i] = command]
  /\ UNCHANGED <<place, programVars, told, iconVars, shell, proxy, sessionVars, excuses>>

\* onTray(): the menu of the icon.
Menu(i) == icon[i] # "none" /\ \E command \in {"toggle", "close"} : Choose(i, command)

\* The close button of the window.
CloseWindow(i) == ~hidden[i] /\ Choose(i, "close")

\* The button IDBT, or a double click on the icon.
HideOrShow(i) ==
  /\ place[i] = "loop" /\ (hidden[i] => icon[i] # "none")
  /\ hidden' = [hidden EXCEPT ![i] = ~hidden[i]]
  /\ UNCHANGED <<place, bAgentOn, firstTime, posted, told, iconVars, shell, proxy,
                 sessionVars, excuses>>

\* IDM_1.
Toggle(i) ==
  /\ place[i] = "loop" /\ posted[i] = "toggle"
  /\ posted' = [posted EXCEPT ![i] = "none"]
  /\ bAgentOn' = [bAgentOn EXCEPT ![i] = ~bAgentOn[i]]
  /\ IF bAgentOn[i] THEN SetProxy("direct", {})
     ELSE SetProxy("own", IF i \in asked THEN {"late"} ELSE {})
  /\ SetIcon(i, firstTime[i], Picture(~bAgentOn[i]))
  /\ UNCHANGED <<place, hidden, told, shell, sessionVars>>

-----------------------------------------------------------------------------
(* Explorer and the session.                                               *)

ShellCrashes ==
  /\ "shell" \in Faults /\ shell /\ shell' = FALSE
  /\ icon' = [i \in Instances |-> "none"]
  /\ UNCHANGED <<place, programVars, posted, told, failed, proxy, sessionVars, excuses>>

\* A new taskbar is announced to the windows there are.
ShellStarts ==
  /\ ~shell /\ shell' = TRUE
  /\ told' = [i \in Instances |-> HasWindow(i)]
  /\ UNCHANGED <<place, programVars, posted, iconVars, proxy, sessionVars, excuses>>

\* Faulty variant: the icon is modified, not added again.
TaskbarModified(i) ==
  /\ place[i] = "loop" /\ told[i] /\ told' = [told EXCEPT ![i] = FALSE]
  /\ SetIcon(i, firstTime[i], Picture(bAgentOn[i]))
  /\ UNCHANGED <<place, bAgentOn, hidden, posted, shell, proxy, sessionVars, excuses>>

\* WM_TASKBARCREATED.
TaskbarCreated(i) ==
  /\ place[i] = "loop" /\ told[i] /\ told' = [told EXCEPT ![i] = FALSE]
  /\ SetIcon(i, TRUE, Picture(bAgentOn[i]))
  /\ UNCHANGED <<place, bAgentOn, hidden, posted, shell, proxy, sessionVars, excuses>>

AskSession ==
  /\ "session" \in Faults /\ ~ending /\ ending' = TRUE
  /\ UNCHANGED <<place, programVars, posted, told, iconVars, shell, proxy, asked, excuses>>

\* Faulty variant: the question is answered, and the setting left for the next start.
AnswerOnly(i) ==
  /\ ending /\ place[i] = "loop" /\ i \notin asked /\ asked' = asked \cup {i}
  /\ excuses' = excuses \cup {"asked"}
  /\ UNCHANGED <<place, programVars, posted, told, iconVars, shell, proxy, ending>>

\* WM_QUERYENDSESSION: bAgentOn, the icon and the menu stay.
QueryEndSession(i) ==
  /\ ending /\ place[i] = "loop" /\ i \notin asked /\ asked' = asked \cup {i}
  /\ SetProxy("direct", {"asked"})
  /\ UNCHANGED <<place, programVars, posted, told, iconVars, shell, ending>>

\* Another program, or the user, stops the end of the session.
SessionGoesOn ==
  /\ ending /\ ending' = FALSE /\ asked' = {}
  /\ UNCHANGED <<place, programVars, posted, told, iconVars, shell, proxy, excuses>>

\* WM_ENDSESSION does nothing, and then the process is ended; the setting stays.
SessionEnds ==
  /\ ending /\ ending' = FALSE
  /\ \A i \in Instances : place[i] = "off" \/ i \in asked
  /\ Gone(Instances) /\ shell' = FALSE
  /\ UNCHANGED <<programVars, failed, proxy, excuses>>

-----------------------------------------------------------------------------
Command(i) == Toggle(i) \/ Close(i)

Program(i) ==
  \/ StartServer(i) \/ FirstIcon(i) \/ Leave(i) \/ DeleteIcon(i)
  \/ Command(i) \/ TaskbarCreated(i) \/ QueryEndSession(i)

User(i) == Start(i) \/ Menu(i) \/ CloseWindow(i) \/ HideOrShow(i)

Session == AskSession \/ SessionGoesOn \/ SessionEnds

Next ==
  \/ \E i \in Instances : Program(i) \/ User(i) \/ Kill(i)
  \/ ShellCrashes \/ ShellStarts \/ Session

Spec == Init /\ [][Next]_vars

-----------------------------------------------------------------------------
(* Correctness.                                                            *)

\* The system never points to a proxy that does not run, whatever end the processes
\* came to and however many there were: unless one was killed, a call failed, or the
\* user enabled it after the window had agreed to the end of the session.
OwnHasServer ==
  proxy = "own" /\ excuses \cap {"setting", "killed", "late"} = {}
    => \E i \in Instances : place[i] \in {"served", "loop", "quit"}

\* The program's flag is the system's setting, also after a process that was killed
\* with it on: unless a call failed, the session was asked to end, or it runs twice.
FlagTells ==
  excuses \cap {"setting", "asked", "second"} = {}
    => \A i \in Instances : place[i] = "loop" => (bAgentOn[i] <=> proxy = "own")

\* The icon tells what the flag says, across crashes of Explorer and clicks while it is
\* away, once TaskbarCreated is handled; unless the last call for it failed.
IconTells ==
  \A i \in Instances : place[i] = "loop" /\ shell /\ ~told[i] /\ ~failed[i]
    => icon[i] = Picture(bAgentOn[i])

=============================================================================
