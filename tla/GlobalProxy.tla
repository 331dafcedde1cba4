----------------------------- MODULE GlobalProxy -----------------------------
(***************************************************************************)
(* set_global_proxy() of the Mac (systemutil.cpp): a call opens the        *)
(* preferences, reads which network service is the primary one, and goes   *)
(* through the services it found, with a commit for each one it changes.   *)
(* Meanwhile the user changes services, and another one becomes primary.   *)
(*                                                                         *)
(* A service is absent, has no dictionary of proxies, or has one without a *)
(* proxy, with the user's or with this program's.  What is committed is    *)
(* taken to be applied.  The preferences refuse a commit when somebody     *)
(* else has changed them since the call opened them.                       *)
(***************************************************************************)
CONSTANTS Services, None

VARIABLES
  stored,          \* the preferences, service by service
  primary,         \* the primary service
  call,            \* what the call under way is to do
  primaryService,  \* the primary service as the call found it
  todo,            \* services that the loop has still to come to
  mset,            \* the call's copy of the preferences
  touched,         \* services somebody else has changed since the call opened
  tried,           \* history: no change yet, or how the last commit went
  ended            \* history: the last call went through its loop

vars == <<stored, primary, call, primaryService, todo, mset, touched, tried, ended>>

Values == {"absent", "no dictionary", "direct", "user's", "own"}

TypeOK ==
  /\ stored \in [Services -> Values] /\ mset \in [Services -> Values]
  /\ primary \in Services \cup {None} /\ primaryService \in Services \cup {None}
  /\ call \in {"none", "opened enable", "opened disable", "enable", "disable"}
  /\ todo \subseteq {s \in Services : mset[s] # "absent"}
  /\ touched \subseteq Services
  /\ tried \in {"nothing", "committed", "failed"}
  /\ ended \in {"none", "enable", "disable"}

Init ==
  /\ stored \in [Services -> Values \ {"own"}] /\ mset = stored
  /\ primary \in Services \cup {None} /\ primaryService = None
  /\ call = "none" /\ todo = {} /\ touched = {}
  /\ tried = "nothing" /\ ended = "none"

-----------------------------------------------------------------------------
\* setSystemProxy() and disableSystemProxy(): the preferences are opened, and the
\* services are read.
Open(what) ==
  /\ call = "none" /\ call' = IF what = "enable" THEN "opened enable" ELSE "opened disable"
  /\ mset' = stored /\ todo' = {s \in Services : stored[s] # "absent"}
  /\ touched' = {} /\ tried' = "nothing" /\ ended' = "none"
  /\ UNCHANGED <<stored, primary, primaryService>>

SetSystemProxy == Open("enable")
DisableSystemProxy == Open("disable")

ReadPrimary ==
  /\ call \in {"opened enable", "opened disable"}
  /\ call' = IF call = "opened enable" THEN "enable" ELSE "disable"
  /\ primaryService' = primary
  /\ UNCHANGED <<stored, primary, todo, mset, touched, tried, ended>>

\* Faulty variant: both calls look for the primary service.
PassedUnlessPrimary(s) ==
  \/ primaryService # None /\ s # primaryService
  \/ call = "disable" /\ mset[s] = "no dictionary"

\* Services the loop passes over.
Passed(s) ==
  \/ call = "enable" /\ primaryService # None /\ s # primaryService
  \/ call = "disable" /\ mset[s] = "no dictionary"

\* SCPreferencesCommitChanges(), whose result is only printed: it may fail for reasons
\* of its own, and the next one then writes this change as well.
Commit ==
  \/ touched = {} /\ stored' = mset' /\ tried' = "committed"
  \/ UNCHANGED stored /\ tried' = "failed"

\* A turn of the loop, in the order the dictionary has the services.
SetService(s) ==
  /\ call \in {"enable", "disable"} /\ s \in todo /\ todo' = todo \ {s}
  /\ IF Passed(s) THEN UNCHANGED <<stored, mset, tried>>
     ELSE /\ mset' = [mset EXCEPT ![s] = IF call = "enable" THEN "own" ELSE "direct"]
          /\ Commit
  /\ UNCHANGED <<primary, call, primaryService, touched, ended>>

\* The end of the loop, or of the call where a copy cannot be made.
Return ==
  /\ call # "none" /\ call' = "none"
  /\ \/ call \in {"enable", "disable"} /\ todo = {} /\ ended' = call
     \/ todo # {} /\ ended' = "none"
  /\ primaryService' = None /\ todo' = {}
  /\ UNCHANGED <<stored, primary, mset, touched, tried>>

-----------------------------------------------------------------------------
(* The surroundings.                                                       *)

\* The user adds, removes or sets a service.
UserSets(s) ==
  /\ \E new \in Values \ {"own"} : stored' = [stored EXCEPT ![s] = new]
  /\ touched' = IF call = "none" THEN touched ELSE touched \cup {s}
  /\ UNCHANGED <<primary, call, primaryService, todo, mset, tried, ended>>

PrimaryChanges ==
  /\ primary' \in Services \cup {None}
  /\ UNCHANGED <<stored, call, primaryService, todo, mset, touched, tried, ended>>

Next ==
  \/ SetSystemProxy \/ DisableSystemProxy \/ ReadPrimary \/ Return
  \/ \E s \in Services : SetService(s) \/ UserSets(s)
  \/ PrimaryChanges

Spec == Init /\ [][Next]_vars

-----------------------------------------------------------------------------
(* Correctness.                                                            *)

\* A disable that went through its services, and whose last commit was not refused, has
\* taken this program's proxy from all of them, those that have been primary at some time
\* and those that earlier commits left out: it stays so until the next call.
DisabledEverywhere ==
  ended = "disable" /\ tried # "failed" => \A s \in Services : stored[s] # "own"
=============================================================================
