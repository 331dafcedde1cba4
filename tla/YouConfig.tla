----------------------------- MODULE YouConfig ------------------------------
(***************************************************************************)
(* The rules for hosts: YouConfig (youconfig.cpp), the loader that replaces *)
(* them once with a downloaded file, and the lookups of the connections.   *)
(*                                                                         *)
(* The rules of the constructor are there before any thread is: main()     *)
(* calls instance() first.  The loader parses what it could download, an   *)
(* error page or the first part of the file included, line by line under   *)
(* the lock; a lookup scans under the same lock and asks the name server   *)
(* after it has given the lock up.                                         *)
(*                                                                         *)
(* A line is a record: a rule for the hosts that contain its suffix, a     *)
(* line that is skipped, or one strtok() finds no word in where strcpy()   *)
(* expects one: the process ends there.                                    *)
(***************************************************************************)
EXTENDS Integers, Sequences

CONSTANTS Readers,   \* the connection threads
          Hosts,     \* host names
          Suffixes,  \* what rules match
          Contains,  \* the pairs <<host, suffix>> where the suffix is found
          Defaults,  \* the lines of loadDefaults()
          Files,     \* what a server may send for the configuration
          Versions,  \* the values fuck_ver may have
          CharMin    \* the least char of the build: -128, or 0 on ARM

Actions == [ip : BOOLEAN, dns : BOOLEAN, fuck : BOOLEAN, proxy : BOOLEAN]
Lines == [kind : {"rule"}, suffix : Suffixes, does : Actions]
           \cup [kind : {"skip", "bad"}]

ASSUME ContainsAssumption == Contains \subseteq Hosts \X Suffixes
ASSUME DefaultsAssumption ==
  Defaults \in Seq(Lines) /\ \A n \in DOMAIN Defaults : Defaults[n].kind = "rule"
ASSUME FilesAssumption == Files \subseteq Seq(Lines)
ASSUME VersionsAssumption == Versions \subseteq Int
ASSUME NamesAssumption == Readers \cap {"free", "loader"} = {}
ASSUME CharAssumption == CharMin \in {-128, 0}

VARIABLES
  ruleList,  \* YouConfig::ruleList
  version,   \* YouConfig::fuckingVersion
  lock,      \* the thread that holds the mutex, or "free"
  loader,    \* where DownloadConfig::process() is
  file,      \* what it has downloaded
  next,      \* the line parseConfig() looks at next
  pc,        \* where each lookup is
  host,      \* what it looks up
  i,         \* its iterator
  found,     \* what it found
  dead       \* the process has ended

loaderVars == <<ruleList, version, loader, file, next, dead>>
readerVars == <<pc, host, i, found>>
vars == <<loaderVars, readerVars, lock>>

LoaderPlaces == {"query", "conf", "connect", "read", "lock", "parse", "done",
                 "failed"}
ReaderPlaces == {"lock", "scan", "unlock", "done"}

\* An int put into a char: YouRule::fuck keeps the low 8 bits.
Char(n) == ((n - CharMin) % 256) + CharMin

\* The rule a line stands for: parseConfig() and the loop over its words.
Rule(line, ver) ==
  [suffix |-> line.suffix, ip |-> line.does.ip, dns |-> line.does.dns,
   fuck |-> IF line.does.fuck THEN Char(ver) ELSE 0, proxy |-> line.does.proxy]

IsRule(line) == line.kind = "rule"
Rules == [suffix : Suffixes, ip : BOOLEAN, dns : BOOLEAN, fuck : CharMin..(CharMin + 255), proxy : BOOLEAN]

NoRule == [suffix |-> "none", ip |-> FALSE, dns |-> FALSE, fuck |-> 0, proxy |-> FALSE]

TypeOK ==
  /\ ruleList \in Seq(Rules)
  /\ version \in Versions \cup {1}
  /\ lock \in Readers \cup {"free", "loader"}
  /\ loader \in LoaderPlaces
  /\ file \in Files \cup {<<>>}
  /\ next \in 1..(Len(file) + 1)
  /\ pc \in [Readers -> ReaderPlaces]
  /\ host \in [Readers -> Hosts]
  /\ i \in [Readers -> Nat \ {0}]
  /\ \A r \in Readers : pc[r] = "scan" => i[r] <= Len(ruleList) + 1
  /\ found \in [Readers -> Rules \cup {NoRule}]
  /\ dead \in BOOLEAN

Init ==
  /\ version = 1
  /\ ruleList = [n \in DOMAIN Defaults |-> Rule(Defaults[n], version)]
  /\ lock = "free"
  /\ loader = "query" /\ file = <<>> /\ next = 1
  /\ pc = [r \in Readers |-> "lock"]
  /\ host \in [Readers -> Hosts]
  /\ i = [r \in Readers |-> 1]
  /\ found = [r \in Readers |-> NoRule]
  /\ dead = FALSE

-----------------------------------------------------------------------------
(* DownloadConfig::process() and parseConfig().                            *)

\* The loader gives up if the name server for its own query is not reached.
Query ==
  /\ loader = "query" /\ loader' \in {"conf", "failed"}
  /\ UNCHANGED <<ruleList, version, file, next, dead, readerVars, lock>>

\* The TXT record may name a version; without a record nothing changes.
Conf ==
  /\ loader = "conf" /\ loader' = "connect"
  /\ version' \in Versions \cup {version}
  /\ UNCHANGED <<ruleList, file, next, dead, readerVars, lock>>

ConnectToServer ==
  /\ loader = "connect" /\ loader' \in {"read", "failed"}
  /\ UNCHANGED <<ruleList, version, file, next, dead, readerVars, lock>>

\* Whatever the connection brought before it ended is taken for the file.
Download ==
  /\ loader = "read" /\ loader' = "lock"
  /\ file' \in Files
  /\ UNCHANGED <<ruleList, version, next, dead, readerVars, lock>>

Clear(held) ==
  /\ loader = "lock" /\ loader' = "parse"
  /\ lock = "free" /\ lock' = held
  /\ ruleList' = <<>> /\ next' = 1
  /\ UNCHANGED <<version, file, dead, readerVars>>

\* Faulty variant: the list is replaced without the lock.
ClearUnlocked == Clear("free")

LockAndClear == Clear("loader")

\* One line of the loop; memset() and strtok() decide what becomes of it.
ParseLine ==
  /\ loader = "parse" /\ next <= Len(file)
  /\ LET line == file[next]
     IN /\ ruleList' = IF IsRule(line) THEN Append(ruleList, Rule(line, version)) ELSE ruleList
        /\ dead' = (line.kind = "bad")
  /\ next' = next + 1
  /\ UNCHANGED <<version, loader, file, readerVars, lock>>

UnlockConfig ==
  /\ loader = "parse" /\ next > Len(file)
  /\ loader' = "done" /\ lock' = "free"
  /\ UNCHANGED <<ruleList, version, file, next, dead, readerVars>>

-----------------------------------------------------------------------------
(* getAddressByHost().                                                     *)

StartLookup(r) ==
  /\ pc[r] = "lock" /\ lock = "free"
  /\ lock' = r
  /\ pc' = [pc EXCEPT ![r] = "scan"] /\ i' = [i EXCEPT ![r] = 1]
  /\ UNCHANGED <<loaderVars, host, found>>

Matches(h, rule) == <<h, rule.suffix>> \in Contains

ScanRule(r) ==
  /\ pc[r] = "scan" /\ i[r] <= Len(ruleList)
  /\ LET rule == ruleList[i[r]]
     IN IF Matches(host[r], rule)
        THEN /\ found' = [found EXCEPT ![r] = rule]
             /\ pc' = [pc EXCEPT ![r] = "unlock"]
             /\ UNCHANGED i
        ELSE i' = [i EXCEPT ![r] = @ + 1] /\ UNCHANGED <<pc, found>>
  /\ UNCHANGED <<loaderVars, host, lock>>

EndScan(r) ==
  /\ pc[r] = "scan" /\ i[r] > Len(ruleList)
  /\ pc' = [pc EXCEPT ![r] = "unlock"]
  /\ UNCHANGED <<loaderVars, host, i, found, lock>>

\* Faulty variant: a lookup that found an address returns under the lock.
ReturnLocked(r) ==
  /\ pc[r] = "unlock"
  /\ lock' = IF found[r].ip THEN lock ELSE "free"
  /\ pc' = [pc EXCEPT ![r] = "done"]
  /\ UNCHANGED <<loaderVars, host, i, found>>

EndLookup(r) ==
  /\ pc[r] = "unlock"
  /\ lock' = "free"
  /\ pc' = [pc EXCEPT ![r] = "done"]
  /\ UNCHANGED <<loaderVars, host, i, found>>

Load == Query \/ Conf \/ ConnectToServer \/ Download \/ LockAndClear
          \/ ParseLine \/ UnlockConfig

Lookup(r) == StartLookup(r) \/ ScanRule(r) \/ EndScan(r) \/ EndLookup(r)

Next == ~dead /\ (Load \/ \E r \in Readers : Lookup(r))

Spec == Init /\ [][Next]_vars

\* Threads are scheduled; the network of the loader may be silent for ever.
FairSpec ==
  /\ Spec
  /\ WF_vars(~dead /\ (LockAndClear \/ ParseLine \/ UnlockConfig))
  /\ \A r \in Readers : WF_vars(~dead /\ Lookup(r))

-----------------------------------------------------------------------------
(* Correctness.                                                            *)

\* The list is what the lines stand for: one rule for each line that is one, in
\* the order of the lines, place[n] being the line of the n-th rule.
IsParsed(rules, lines, ver) ==
  LET ruleLines == {n \in DOMAIN lines : IsRule(lines[n])}
  IN \E place \in [DOMAIN rules -> ruleLines] :
       /\ \A m, n \in DOMAIN rules : m < n => place[m] < place[n]
       /\ \A line \in ruleLines : \E n \in DOMAIN rules : place[n] = line
       /\ \A n \in DOMAIN rules : rules[n] = Rule(lines[place[n]], ver)

\* What the lines of a configuration say of a host: the first one that matches.
AnswerFor(h, lines, ver, answer) ==
  LET matching == {n \in DOMAIN lines : IsRule(lines[n]) /\ Matches(h, lines[n])}
  IN \/ matching = {} /\ answer = NoRule
     \/ \E n \in matching : answer = Rule(lines[n], ver) /\ \A m \in matching : n <= m

\* Whenever the loader is not in parseConfig(), the list is a whole one: that of
\* the constructor, built with version 1, or all of the download with the
\* version the TXT record set; never a part of one or a mixture.
WholeConfig ==
  lock # "loader" => IF loader = "done" THEN IsParsed(ruleList, file, version)
                     ELSE IsParsed(ruleList, Defaults, 1)

\* A lookup answers with the first match of one whole list, whatever the loader
\* did meanwhile; and a lookup that finds none found none in one whole list.
LookupFromOneConfig ==
  \A r \in Readers : pc[r] = "done" =>
    \/ AnswerFor(host[r], Defaults, 1, found[r])
    \/ loader = "done" /\ AnswerFor(host[r], file, version, found[r])

\* No lookup waits for ever for the lock of the configuration, whether it finds
\* an address, only a rule, or nothing, unless the process ends.
EveryLookupEnds == \A r \in Readers : pc[r] = "lock" ~> pc[r] = "done" \/ dead
=============================================================================
