----------------------------- MODULE MCDesktop -----------------------------
(* The proxy setting of a desktop: WinTray with two processes side by side, *)
(* which are alike, or GlobalProxy with two network services.  A desktop is *)
(* one of the two, and the variables of the other stay as they are.         *)
EXTENDS WinTray, TLC

CONSTANTS Services, None

VARIABLES desktop, stored, primary, call, primaryService, todo, mset, touched, tried, ended

macVars == <<stored, primary, call, primaryService, todo, mset, touched, tried, ended>>

Mac == INSTANCE GlobalProxy

AllFaults == {"setting", "icon", "killed", "session", "shell"}

Symmetry == Permutations(Instances)

DesktopInit ==
  /\ Init /\ Mac!Init
  /\ \/ desktop = "Windows" /\ primary = None /\ stored = [s \in Services |-> "absent"]
     \/ desktop = "Mac" /\ shell

Windows == desktop = "Windows" /\ Next /\ UNCHANGED macVars

MacOS == desktop = "Mac" /\ Mac!Next /\ UNCHANGED vars

DesktopNext == (Windows \/ MacOS) /\ UNCHANGED desktop

DesktopSpec == DesktopInit /\ [][DesktopNext]_<<desktop, vars, macVars>>

\* GlobalProxy's property, of set_global_proxy(): what was enabled on any service of a
\* Mac is found again when it is disabled.
DisabledEverywhere == Mac!DisabledEverywhere
============================================================================
