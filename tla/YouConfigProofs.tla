---------------------------- MODULE YouConfigProofs ----------------------------
(***************************************************************************)
(* Proofs about YouConfig, for any number of lookups, any rules and any    *)
(* downloads: the types, that the list is a whole configuration whenever   *)
(* the loader does not hold the lock, and that every lookup answers from   *)
(* one whole configuration.                                                *)
(*                                                                         *)
(* Neither property is inductive.  The lock must be held by whoever reads  *)
(* or writes the list (Locking), or a scan would see it change; the list   *)
(* of the loader in parseConfig() stands for the lines it has passed,      *)
(* from the first one on (Lists, AtStart); no rule before the iterator     *)
(* matches (Scans); and what a lookup found keeps being an answer of its   *)
(* configuration (Answered).                                               *)
(***************************************************************************)
EXTENDS YouConfig, TLAPS

\* The list is what the first lines stand for.
ParsedTo(last, rules, lines, ver) ==
  \E place \in [DOMAIN rules -> {n \in 1..last : IsRule(lines[n])}] :
    /\ \A m, n \in DOMAIN rules : m < n => place[m] < place[n]
    /\ \A n \in 1..last : IsRule(lines[n]) => \E k \in DOMAIN rules : place[k] = n
    /\ \A n \in DOMAIN rules : rules[n] = Rule(lines[place[n]], ver)

Locking ==
  /\ loader = "parse" <=> lock = "loader"
  /\ \A r \in Readers : pc[r] \in {"scan", "unlock"} <=> lock = r

Lists ==
  /\ WholeConfig
  /\ loader = "parse" => ParsedTo(next - 1, ruleList, file, version)

Scans ==
  \A r \in Readers :
    /\ pc[r] \in {"lock", "scan"} => found[r] = NoRule
    /\ pc[r] = "scan" => \A k \in 1..(i[r] - 1) : ~Matches(host[r], ruleList[k])

FromOneConfig(r) ==
  \/ AnswerFor(host[r], Defaults, 1, found[r])
  \/ loader = "done" /\ AnswerFor(host[r], file, version, found[r])

Answered == \A r \in Readers : pc[r] \in {"unlock", "done"} => FromOneConfig(r)

\* Before parseConfig() no line is looked at.
AtStart == loader \notin {"parse", "done"} => next = 1

IInv == TypeOK /\ AtStart /\ Locking /\ Lists /\ Scans /\ Answered

-----------------------------------------------------------------------------
(* Rules and lines.                                                        *)

\* What fits in a char is in the range of one.
LEMMA CharType == ASSUME NEW n \in Int PROVE Char(n) \in CharMin..(CharMin + 255)
<1>1. CharMin \in Int /\ (n - CharMin) % 256 \in 0..255
  BY CharAssumption
<1> QED BY <1>1 DEF Char

\* parseConfig() makes a rule of every line that is one.
LEMMA RuleType == ASSUME NEW line \in Lines, IsRule(line), NEW ver \in Int PROVE Rule(line, ver) \in Rules
<1>1. line.suffix \in Suffixes /\ line.does \in Actions
  BY DEF IsRule, Lines
<1>2. Char(ver) \in CharMin..(CharMin + 255) /\ 0 \in CharMin..(CharMin + 255)
  BY CharType, CharAssumption
<1> QED BY <1>1, <1>2 DEF Rule, Rules, Actions

\* What the loader has downloaded is a list of lines.
LEMMA FileType == ASSUME NEW f \in Files \cup {<<>>} PROVE f \in Seq(Lines) /\ Len(f) \in Nat
<1>1. CASE f \in Files
  BY <1>1, FilesAssumption
<1>2. CASE f = <<>>
  <2>1. <<>> \in Seq(Lines) /\ Len(<<>>) = 0
    OBVIOUS
  <2> QED BY <1>2, <2>1
<1> QED BY <1>1, <1>2

\* A rule matches the hosts its line does.
LEMMA RuleMatches == ASSUME NEW h, NEW line, NEW ver PROVE Matches(h, Rule(line, ver)) <=> Matches(h, line)
BY DEF Matches, Rule

\* A list that stands for all lines is a whole configuration.
LEMMA AllParsed ==
  ASSUME NEW lines \in Seq(Lines), NEW rules \in Seq(Rules), NEW ver
  PROVE  ParsedTo(Len(lines), rules, lines, ver) <=> IsParsed(rules, lines, ver)
<1>1. DOMAIN lines = 1..Len(lines)
  OBVIOUS
<1>2. {n \in DOMAIN lines : IsRule(lines[n])} = {n \in 1..Len(lines) : IsRule(lines[n])}
  BY <1>1
<1>3. ASSUME ParsedTo(Len(lines), rules, lines, ver) PROVE IsParsed(rules, lines, ver)
  BY <1>2, <1>3 DEF ParsedTo, IsParsed
<1>4. ASSUME IsParsed(rules, lines, ver) PROVE ParsedTo(Len(lines), rules, lines, ver)
  BY <1>2, <1>4 DEF ParsedTo, IsParsed
<1> QED BY <1>3, <1>4

\* Of no lines there are no rules.
LEMMA NothingParsed == ASSUME NEW lines, NEW ver PROVE ParsedTo(0, <<>>, lines, ver)
<1> DEFINE place == [n \in {} |-> 0]
<1>1. DOMAIN <<>> = {} /\ 1..0 = {}
  OBVIOUS
<1>2. place \in [DOMAIN <<>> -> {n \in 1..0 : IsRule(lines[n])}]
  BY <1>1
<1> HIDE DEF place
<1> QED BY <1>1, <1>2 DEF ParsedTo

\* A line that is skipped adds nothing to the list.
LEMMA SkipParsed ==
  ASSUME NEW lines, NEW rules, NEW ver, NEW last \in Nat, ParsedTo(last, rules, lines, ver), ~IsRule(lines[last + 1])
  PROVE  ParsedTo(last + 1, rules, lines, ver)
<1>1. {n \in 1..(last + 1) : IsRule(lines[n])} = {n \in 1..last : IsRule(lines[n])}
  OBVIOUS
<1>2. \A n \in 1..(last + 1) : IsRule(lines[n]) => n \in 1..last
  OBVIOUS
<1> QED BY <1>1, <1>2 DEF ParsedTo

\* A line that is a rule adds that one at the end.
LEMMA RuleParsed ==
  ASSUME NEW lines, NEW rules \in Seq(Rules), NEW ver, NEW last \in Nat,
         ParsedTo(last, rules, lines, ver), IsRule(lines[last + 1]), Rule(lines[last + 1], ver) \in Rules
  PROVE  ParsedTo(last + 1, Append(rules, Rule(lines[last + 1], ver)), lines, ver)
<1> DEFINE more == Append(rules, Rule(lines[last + 1], ver))
<1> DEFINE L == Len(rules)
<1>1. /\ L \in Nat /\ DOMAIN rules = 1..L /\ DOMAIN more = 1..(L + 1)
      /\ \A n \in 1..L : more[n] = rules[n]
      /\ more[L + 1] = Rule(lines[last + 1], ver)
  OBVIOUS
<1>2. PICK place \in [1..L -> {n \in 1..last : IsRule(lines[n])}] :
        /\ \A m, n \in 1..L : m < n => place[m] < place[n]
        /\ \A n \in 1..last : IsRule(lines[n]) => \E k \in 1..L : place[k] = n
        /\ \A n \in 1..L : rules[n] = Rule(lines[place[n]], ver)
  BY <1>1 DEF ParsedTo
<1> DEFINE longer == [n \in 1..(L + 1) |-> IF n = L + 1 THEN last + 1 ELSE place[n]]
<1> HIDE DEF more, L
<1>3. /\ \A n \in 1..L : longer[n] = place[n] /\ place[n] \in 1..last
      /\ longer[L + 1] = last + 1
  BY <1>1, <1>2
<1>4. longer \in [1..(L + 1) -> {n \in 1..(last + 1) : IsRule(lines[n])}]
  BY <1>1, <1>2
<1> HIDE DEF longer
<1>5. \A m, n \in 1..(L + 1) : m < n => longer[m] < longer[n]
  <2> SUFFICES ASSUME NEW m \in 1..(L + 1), NEW n \in 1..(L + 1), m < n PROVE longer[m] < longer[n]
    OBVIOUS
  <2>1. m \in 1..L
    BY <1>1
  <2>2. CASE n = L + 1
    BY <1>3, <2>1, <2>2
  <2>3. CASE n # L + 1
    <3>1. n \in 1..L
      BY <1>1, <2>3
    <3> QED BY <1>2, <1>3, <2>1, <3>1
  <2> QED BY <2>2, <2>3
<1>6. ASSUME NEW n \in 1..(last + 1), IsRule(lines[n])
      PROVE  \E k \in 1..(L + 1) : longer[k] = n
  <2>1. CASE n = last + 1
    BY <1>1, <1>3, <2>1
  <2>2. CASE n # last + 1
    <3>1. n \in 1..last
      BY <2>2
    <3>2. PICK k \in 1..L : place[k] = n
      BY <1>2, <1>6, <3>1
    <3> QED BY <1>1, <1>3, <3>2
  <2> QED BY <2>1, <2>2
<1>7. \A n \in 1..(L + 1) : more[n] = Rule(lines[longer[n]], ver)
  <2> SUFFICES ASSUME NEW n \in 1..(L + 1) PROVE more[n] = Rule(lines[longer[n]], ver)
    OBVIOUS
  <2>1. CASE n = L + 1
    BY <1>1, <1>3, <2>1
  <2>2. CASE n # L + 1
    <3>1. n \in 1..L
      BY <1>1, <2>2
    <3> QED BY <1>1, <1>2, <1>3, <3>1
  <2> QED BY <2>1, <2>2
<1>8. ParsedTo(last + 1, more, lines, ver)
  <2>1. DOMAIN more = 1..(L + 1)
    BY <1>1
  <2>2. longer \in [DOMAIN more -> {n \in 1..(last + 1) : IsRule(lines[n])}]
    BY <1>4, <2>1
  <2>3. /\ \A m, n \in DOMAIN more : m < n => longer[m] < longer[n]
        /\ \A n \in 1..(last + 1) : IsRule(lines[n]) => \E k \in DOMAIN more : longer[k] = n
        /\ \A n \in DOMAIN more : more[n] = Rule(lines[longer[n]], ver)
    BY <1>5, <1>6, <1>7, <2>1
  <2> QED BY <2>2, <2>3 DEF ParsedTo
<1> QED BY <1>8 DEF more

\* Lines that are all rules are a configuration one for one: the constructor's.
LEMMA EachParsed ==
  ASSUME NEW lines \in Seq(Lines), \A n \in DOMAIN lines : IsRule(lines[n]), NEW ver
  PROVE  IsParsed([n \in DOMAIN lines |-> Rule(lines[n], ver)], lines, ver)
<1> DEFINE rules == [n \in DOMAIN lines |-> Rule(lines[n], ver)]
<1> DEFINE place == [n \in DOMAIN lines |-> n]
<1>1. /\ DOMAIN rules = DOMAIN lines
      /\ \A n \in DOMAIN lines : rules[n] = Rule(lines[n], ver) /\ place[n] = n
  OBVIOUS
<1>2. place \in [DOMAIN rules -> {n \in DOMAIN lines : IsRule(lines[n])}]
  OBVIOUS
<1> HIDE DEF rules, place
<1>3. IsParsed(rules, lines, ver)
  BY <1>1, <1>2 DEF IsParsed
<1> QED BY <1>3 DEF rules

\* Where no rule matches, no line does.
LEMMA NoneMatches ==
  ASSUME NEW lines \in Seq(Lines), NEW rules \in Seq(Rules), NEW ver, NEW h,
         IsParsed(rules, lines, ver), \A k \in 1..Len(rules) : ~Matches(h, rules[k])
  PROVE  AnswerFor(h, lines, ver, NoRule)
<1>1. DOMAIN rules = 1..Len(rules)
  OBVIOUS
<1>2. PICK place \in [DOMAIN rules -> {n \in DOMAIN lines : IsRule(lines[n])}] :
        /\ \A n \in DOMAIN lines : IsRule(lines[n]) => \E k \in DOMAIN rules : place[k] = n
        /\ \A k \in DOMAIN rules : rules[k] = Rule(lines[place[k]], ver)
  BY DEF IsParsed
<1>3. ASSUME NEW n \in DOMAIN lines, IsRule(lines[n]) PROVE ~Matches(h, lines[n])
  <2>1. PICK k \in DOMAIN rules : place[k] = n
    BY <1>2, <1>3
  <2>2. rules[k] = Rule(lines[n], ver) /\ ~Matches(h, rules[k])
    BY <1>1, <1>2, <2>1
  <2> QED BY <2>2, RuleMatches
<1> QED BY <1>3 DEF AnswerFor

\* The first rule that matches is that of the first line that does.
LEMMA FirstMatches ==
  ASSUME NEW lines \in Seq(Lines), NEW rules \in Seq(Rules), NEW ver, NEW h,
         IsParsed(rules, lines, ver), NEW k \in 1..Len(rules), Matches(h, rules[k]),
         \A j \in 1..(k - 1) : ~Matches(h, rules[j])
  PROVE  AnswerFor(h, lines, ver, rules[k])
<1>1. DOMAIN rules = 1..Len(rules) /\ Len(rules) \in Nat /\ DOMAIN lines = 1..Len(lines) /\ Len(lines) \in Nat
  OBVIOUS
<1>2. PICK place \in [DOMAIN rules -> {n \in DOMAIN lines : IsRule(lines[n])}] :
        /\ \A m, n \in DOMAIN rules : m < n => place[m] < place[n]
        /\ \A n \in DOMAIN lines : IsRule(lines[n]) => \E j \in DOMAIN rules : place[j] = n
        /\ \A j \in DOMAIN rules : rules[j] = Rule(lines[place[j]], ver)
  BY DEF IsParsed
<1>3. PICK n \in DOMAIN lines : n = place[k] /\ IsRule(lines[n]) /\ rules[k] = Rule(lines[n], ver)
  BY <1>1, <1>2
<1>4. Matches(h, lines[n])
  BY <1>3, RuleMatches
<1>5. ASSUME NEW m \in DOMAIN lines, IsRule(lines[m]), Matches(h, lines[m]) PROVE n <= m
  <2>1. PICK j \in DOMAIN rules : place[j] = m
    BY <1>2, <1>5
  <2>2. rules[j] = Rule(lines[m], ver)
    BY <1>2, <2>1
  <2>3. Matches(h, rules[j])
    BY <1>5, <2>2, RuleMatches
  <2>4. ~(j \in 1..(k - 1))
    BY <2>3
  <2>5. j = k \/ k < j
    BY <1>1, <2>4
  <2>6. CASE k < j
    <3>1. place[k] < place[j]
      BY <1>1, <1>2, <2>6
    <3> QED BY <1>1, <1>3, <2>1, <3>1
  <2>7. CASE j = k
    BY <1>1, <1>3, <2>1, <2>7
  <2> QED BY <2>5, <2>6, <2>7
<1> QED BY <1>3, <1>4, <1>5 DEF AnswerFor

-----------------------------------------------------------------------------
(* The inductive invariant.                                                *)

\* The constructor's list is a whole configuration, and nobody looks at it yet.
LEMMA InitIInv == Init => IInv
<1> SUFFICES ASSUME Init PROVE IInv
  OBVIOUS
<1>1. /\ Defaults \in Seq(Lines) /\ \A n \in DOMAIN Defaults : IsRule(Defaults[n])
      /\ DOMAIN Defaults = 1..Len(Defaults) /\ Len(Defaults) \in Nat
  BY DefaultsAssumption DEF IsRule
<1>2. ruleList = [n \in DOMAIN Defaults |-> Rule(Defaults[n], 1)]
  BY DEF Init
<1>3. ruleList \in Seq(Rules)
  <2>1. \A n \in 1..Len(Defaults) : Rule(Defaults[n], 1) \in Rules
    BY <1>1, RuleType
  <2> QED BY <1>1, <1>2, <2>1
<1>4. IsParsed(ruleList, Defaults, 1)
  BY <1>1, <1>2, EachParsed
<1>5. TypeOK
  <2>1. file \in Files \cup {<<>>} /\ next \in 1..(Len(file) + 1)
    BY DEF Init
  <2>2. /\ pc \in [Readers -> ReaderPlaces] /\ host \in [Readers -> Hosts]
        /\ i \in [Readers -> Nat \ {0}] /\ found \in [Readers -> Rules \cup {NoRule}]
        /\ \A r \in Readers : pc[r] # "scan"
    BY DEF Init, ReaderPlaces
  <2>3. version \in Versions \cup {1} /\ lock = "free" /\ loader \in LoaderPlaces /\ dead \in BOOLEAN
    BY DEF Init, LoaderPlaces
  <2> QED BY <1>3, <2>1, <2>2, <2>3 DEF TypeOK
<1>6. Locking /\ AtStart
  BY NamesAssumption DEF Init, Locking, AtStart
<1>7. Lists
  BY <1>4 DEF Init, Lists, WholeConfig
<1>8. Scans /\ Answered
  BY DEF Init, Scans, Answered
<1> QED BY <1>5, <1>6, <1>7, <1>8 DEF IInv

\* While the loader has not changed anything a lookup answers from, and the
\* lookups stand still, what they found is an answer still.
LEMMA StillAnswered ==
  ASSUME Answered, loader # "done", UNCHANGED readerVars
  PROVE  Answered'
BY DEF Answered, FromOneConfig, readerVars

\* The loader on its way to parseConfig().
LEMMA LoaderStep ==
  ASSUME IInv, Query \/ Conf \/ ConnectToServer \/ Download
  PROVE  IInv'
<1>1. /\ loader \in {"query", "conf", "connect", "read"} /\ loader' \in LoaderPlaces \ {"parse", "done"}
      /\ UNCHANGED <<ruleList, next, dead, readerVars, lock>>
      /\ version' \in Versions \cup {version} /\ file' \in Files \cup {file}
  BY DEF Query, Conf, ConnectToServer, Download, LoaderPlaces
<1>2. next = 1 /\ lock # "loader"
  BY <1>1 DEF IInv, AtStart, Locking
<1>3. file' \in Files \cup {<<>>} /\ next' \in 1..(Len(file') + 1)
  <2>1. file' \in Files \cup {<<>>}
    BY <1>1 DEF IInv, TypeOK
  <2>2. Len(file') \in Nat
    BY <2>1, FileType
  <2> QED BY <1>1, <1>2, <2>1, <2>2
<1>4. TypeOK'
  BY <1>1, <1>3 DEF IInv, TypeOK, LoaderPlaces, readerVars
<1>5. AtStart' /\ Locking'
  BY <1>1, <1>2 DEF IInv, AtStart, Locking, readerVars
<1>6. Lists'
  BY <1>1, <1>2 DEF IInv, Lists, WholeConfig
<1>7. Scans'
  BY <1>1 DEF IInv, Scans, readerVars
<1>8. Answered'
  BY <1>1, StillAnswered DEF IInv
<1> QED BY <1>4, <1>5, <1>6, <1>7, <1>8 DEF IInv

\* parseConfig() begins with an empty list, and nobody scans it.
LEMMA ClearStep == ASSUME IInv, LockAndClear PROVE IInv'
<1>1. /\ loader = "lock" /\ loader' = "parse" /\ lock = "free" /\ lock' = "loader"
      /\ ruleList' = <<>> /\ next' = 1
      /\ UNCHANGED <<version, file, dead, pc, host, i, found>>
  BY DEF LockAndClear, Clear, readerVars
<1>2. \A r \in Readers : pc[r] \notin {"scan", "unlock"}
  BY <1>1, NamesAssumption DEF IInv, Locking
<1>3. TypeOK'
  <2>1. Len(file) \in Nat
    BY FileType DEF IInv, TypeOK
  <2>2. next' \in 1..(Len(file') + 1)
    BY <1>1, <2>1
  <2>3. \A r \in Readers : pc'[r] = "scan" => i'[r] <= Len(ruleList') + 1
    BY <1>1, <1>2
  <2>4. ruleList' \in Seq(Rules)
    BY <1>1
  <2> QED BY <1>1, <2>2, <2>3, <2>4 DEF IInv, TypeOK, LoaderPlaces
<1>4. AtStart' /\ Locking'
  BY <1>1, <1>2, NamesAssumption DEF IInv, AtStart, Locking
<1>5. Lists'
  <2>1. ParsedTo(next' - 1, ruleList', file', version')
    BY <1>1, NothingParsed
  <2> QED BY <1>1, <2>1 DEF Lists, WholeConfig
<1>6. Scans'
  BY <1>1, <1>2 DEF IInv, Scans
<1>7. Answered'
  BY <1>1, StillAnswered DEF IInv, readerVars
<1> QED BY <1>3, <1>4, <1>5, <1>6, <1>7 DEF IInv

\* One line more, while the loader has the lock.
LEMMA ParseStep == ASSUME IInv, ParseLine PROVE IInv'
<1> DEFINE line == file[next]
<1>1. /\ loader = "parse" /\ next <= Len(file) /\ next' = next + 1
      /\ ruleList' = IF IsRule(line) THEN Append(ruleList, Rule(line, version)) ELSE ruleList
      /\ dead' \in BOOLEAN
      /\ UNCHANGED <<version, loader, file, pc, host, i, found, lock>>
  BY DEF ParseLine, readerVars
<1>2. lock = "loader" /\ \A r \in Readers : pc[r] \notin {"scan", "unlock"}
  BY <1>1, NamesAssumption DEF IInv, Locking
<1>3. file \in Seq(Lines) /\ Len(file) \in Nat /\ next \in 1..Len(file) /\ line \in Lines
  <2>1. file \in Seq(Lines) /\ Len(file) \in Nat /\ next \in 1..(Len(file) + 1)
    BY FileType DEF IInv, TypeOK
  <2> QED BY <1>1, <2>1
<1>4. version \in Int /\ ruleList \in Seq(Rules)
  BY VersionsAssumption DEF IInv, TypeOK
<1>5. IsRule(line) => Rule(line, version) \in Rules
  BY <1>3, <1>4, RuleType
<1>6. ParsedTo(next - 1, ruleList, file, version)
  BY <1>1 DEF IInv, Lists
<1> HIDE DEF line
<1>7. PICK last \in Nat : last = next - 1 /\ next = last + 1 /\ line = file[last + 1]
  BY <1>3 DEF line
<1>8. ParsedTo(last + 1, ruleList', file, version)
  <2>1. CASE IsRule(line)
    <3>1. IsRule(file[last + 1]) /\ Rule(file[last + 1], version) \in Rules /\ ParsedTo(last, ruleList, file, version)
      BY <1>5, <1>6, <1>7, <2>1
    <3>2. ParsedTo(last + 1, Append(ruleList, Rule(file[last + 1], version)), file, version)
      BY <1>4, <3>1, RuleParsed
    <3> QED BY <1>1, <1>7, <2>1, <3>2
  <2>2. CASE ~IsRule(line)
    <3>1. ~IsRule(file[last + 1]) /\ ParsedTo(last, ruleList, file, version)
      BY <1>6, <1>7, <2>2
    <3> QED BY <1>1, <2>2, <3>1, SkipParsed
  <2> QED BY <2>1, <2>2
<1>9. TypeOK'
  <2>1. ruleList' \in Seq(Rules)
    BY <1>1, <1>4, <1>5
  <2>2. next' \in 1..(Len(file') + 1)
    BY <1>1, <1>3
  <2> QED BY <1>1, <1>2, <2>1, <2>2 DEF IInv, TypeOK
<1>10. AtStart' /\ Locking'
  BY <1>1, <1>2 DEF IInv, AtStart, Locking
<1>11. Lists'
  <2>1. next' - 1 = last + 1
    BY <1>1, <1>7
  <2> QED BY <1>1, <1>2, <1>8, <2>1 DEF Lists, WholeConfig
<1>12. Scans'
  BY <1>1, <1>2 DEF IInv, Scans
<1>13. Answered'
  BY <1>1, StillAnswered DEF IInv, readerVars
<1> QED BY <1>9, <1>10, <1>11, <1>12, <1>13 DEF IInv

\* The end of parseConfig(): all lines are parsed.
LEMMA UnlockStep == ASSUME IInv, UnlockConfig PROVE IInv'
<1>1. /\ loader = "parse" /\ next > Len(file) /\ loader' = "done" /\ lock' = "free"
      /\ UNCHANGED <<ruleList, version, file, next, dead, pc, host, i, found>>
  BY DEF UnlockConfig, readerVars
<1>2. lock = "loader" /\ \A r \in Readers : pc[r] \notin {"scan", "unlock"}
  BY <1>1, NamesAssumption DEF IInv, Locking
<1>3. TypeOK'
  BY <1>1 DEF IInv, TypeOK, LoaderPlaces
<1>4. AtStart' /\ Locking'
  BY <1>1, <1>2, NamesAssumption DEF IInv, AtStart, Locking
<1>5. Lists'
  <2>1. file \in Seq(Lines) /\ Len(file) \in Nat /\ next \in 1..(Len(file) + 1) /\ ruleList \in Seq(Rules)
    BY FileType DEF IInv, TypeOK
  <2>2. next - 1 = Len(file)
    BY <1>1, <2>1
  <2>3. ParsedTo(Len(file), ruleList, file, version)
    BY <1>1, <2>2 DEF IInv, Lists
  <2>4. IsParsed(ruleList, file, version)
    BY <2>1, <2>3, AllParsed
  <2> QED BY <1>1, <2>4 DEF Lists, WholeConfig
<1>6. Scans'
  BY <1>1, <1>2 DEF IInv, Scans
<1>7. Answered'
  BY <1>1, StillAnswered DEF IInv, readerVars
<1> QED BY <1>3, <1>4, <1>5, <1>6, <1>7 DEF IInv

\* A lookup takes the lock when nobody has it.
LEMMA StartStep == ASSUME IInv, NEW r \in Readers, StartLookup(r) PROVE IInv'
<1>1. /\ pc[r] = "lock" /\ lock = "free" /\ lock' = r
      /\ pc' = [pc EXCEPT ![r] = "scan"] /\ i' = [i EXCEPT ![r] = 1]
      /\ UNCHANGED <<ruleList, version, loader, file, next, dead, host, found>>
  BY DEF StartLookup, loaderVars
<1>2. r \notin {"free", "loader"} /\ loader # "parse"
  BY <1>1, NamesAssumption DEF IInv, Locking
<1>3. TypeOK'
  <2>1. pc' \in [Readers -> ReaderPlaces] /\ lock' \in Readers
    BY <1>1 DEF IInv, TypeOK, ReaderPlaces
  <2> QED BY <1>1, <2>1 DEF IInv, TypeOK
<1>4. AtStart' /\ Locking'
  <2>1. \A q \in Readers : pc[q] \notin {"scan", "unlock"}
    BY <1>1, NamesAssumption DEF IInv, Locking
  <2>2. \A q \in Readers : pc'[q] = IF q = r THEN "scan" ELSE pc[q]
    BY <1>1 DEF IInv, TypeOK
  <2> QED BY <1>1, <1>2, <2>1, <2>2 DEF IInv, AtStart, Locking
<1>5. Lists'
  BY <1>1, <1>2 DEF IInv, Lists, WholeConfig, Locking
<1>6. Scans'
  BY <1>1 DEF IInv, Scans, TypeOK
<1>7. Answered'
  BY <1>1 DEF IInv, Answered, FromOneConfig, TypeOK
<1> QED BY <1>3, <1>4, <1>5, <1>6, <1>7 DEF IInv

\* One rule more, while the lookup has the lock: the answer, or not a match.
LEMMA ScanStep == ASSUME IInv, NEW r \in Readers, ScanRule(r) PROVE IInv'
<1> DEFINE rule == ruleList[i[r]]
<1>1. /\ pc[r] = "scan" /\ i[r] <= Len(ruleList)
      /\ UNCHANGED <<ruleList, version, loader, file, next, dead, host, lock>>
      /\ \/ /\ Matches(host[r], rule)
            /\ found' = [found EXCEPT ![r] = rule] /\ pc' = [pc EXCEPT ![r] = "unlock"]
            /\ i' = i
         \/ /\ ~Matches(host[r], rule)
            /\ i' = [i EXCEPT ![r] = @ + 1] /\ pc' = pc /\ found' = found
  BY DEF ScanRule, loaderVars
<1>2. /\ lock = r /\ lock # "loader" /\ loader # "parse"
      /\ ruleList \in Seq(Rules) /\ Len(ruleList) \in Nat /\ i[r] \in 1..Len(ruleList) /\ rule \in Rules
  <2>1. lock = r /\ lock # "loader" /\ loader # "parse"
    BY <1>1, NamesAssumption DEF IInv, Locking
  <2>2. ruleList \in Seq(Rules) /\ i[r] \in Nat \ {0}
    BY DEF IInv, TypeOK
  <2> QED BY <1>1, <2>1, <2>2
<1>3. \A k \in 1..(i[r] - 1) : ~Matches(host[r], ruleList[k])
  BY <1>1 DEF IInv, Scans
<1> HIDE DEF rule
<1>4. CASE /\ Matches(host[r], rule)
           /\ found' = [found EXCEPT ![r] = rule] /\ pc' = [pc EXCEPT ![r] = "unlock"]
           /\ i' = i
  <2>1. \A q \in Readers : /\ pc'[q] = IF q = r THEN "unlock" ELSE pc[q]
                           /\ found'[q] = IF q = r THEN rule ELSE found[q]
    BY <1>4 DEF IInv, TypeOK
  <2>2. TypeOK'
    <3>1. pc' \in [Readers -> ReaderPlaces] /\ found' \in [Readers -> Rules \cup {NoRule}]
      BY <1>2, <1>4 DEF IInv, TypeOK, ReaderPlaces
    <3>2. \A q \in Readers : pc'[q] = "scan" => i'[q] <= Len(ruleList') + 1
      BY <1>1, <1>4, <2>1 DEF IInv, TypeOK
    <3> QED BY <1>1, <1>4, <3>1, <3>2 DEF IInv, TypeOK
  <2>3. AtStart' /\ Locking'
    BY <1>1, <2>1 DEF IInv, AtStart, Locking
  <2>4. Lists'
    BY <1>1 DEF IInv, Lists, WholeConfig
  <2>5. Scans'
    BY <1>1, <1>4, <2>1 DEF IInv, Scans
  <2>6. FromOneConfig(r)'
    <3>1. PICK k \in 1..Len(ruleList) : k = i[r]
      BY <1>2
    <3>2. rule = ruleList[k] /\ Matches(host[r], ruleList[k]) /\ \A j \in 1..(k - 1) : ~Matches(host[r], ruleList[j])
      BY <1>3, <1>4, <3>1 DEF rule
    <3>3. Defaults \in Seq(Lines) /\ file \in Seq(Lines)
      BY DefaultsAssumption, FileType DEF IInv, TypeOK
    <3>4. CASE loader = "done"
      <4>1. IsParsed(ruleList, file, version)
        BY <1>2, <3>4 DEF IInv, Lists, WholeConfig
      <4>2. AnswerFor(host[r], file, version, ruleList[k])
        BY <1>2, <3>2, <3>3, <4>1, FirstMatches
      <4> QED BY <1>1, <2>1, <3>2, <3>4, <4>2 DEF FromOneConfig
    <3>5. CASE loader # "done"
      <4>1. IsParsed(ruleList, Defaults, 1)
        BY <1>2, <3>5 DEF IInv, Lists, WholeConfig
      <4>2. AnswerFor(host[r], Defaults, 1, ruleList[k])
        BY <1>2, <3>2, <3>3, <4>1, FirstMatches
      <4> QED BY <1>1, <2>1, <3>2, <4>2 DEF FromOneConfig
    <3> QED BY <3>4, <3>5
  <2>7. Answered'
    <3>1. \A q \in Readers \ {r} : FromOneConfig(q) => FromOneConfig(q)'
      BY <1>1, <2>1 DEF FromOneConfig
    <3> QED BY <2>1, <2>6, <3>1 DEF IInv, Answered
  <2> QED BY <2>2, <2>3, <2>4, <2>5, <2>7 DEF IInv
<1>5. CASE /\ ~Matches(host[r], rule)
           /\ i' = [i EXCEPT ![r] = @ + 1] /\ pc' = pc /\ found' = found
  <2>1. \A q \in Readers : i'[q] = IF q = r THEN i[r] + 1 ELSE i[q]
    BY <1>5 DEF IInv, TypeOK
  <2>2. TypeOK'
    <3>1. i' \in [Readers -> Nat \ {0}]
      BY <1>5 DEF IInv, TypeOK
    <3>2. \A q \in Readers : pc'[q] = "scan" => i'[q] <= Len(ruleList') + 1
      BY <1>1, <1>2, <1>5, <2>1 DEF IInv, TypeOK
    <3> QED BY <1>1, <1>5, <3>1, <3>2 DEF IInv, TypeOK
  <2>3. AtStart' /\ Locking'
    BY <1>1, <1>5 DEF IInv, AtStart, Locking
  <2>4. Lists'
    BY <1>1 DEF IInv, Lists, WholeConfig
  <2>5. Scans'
    <3>1. \A k \in 1..(i'[r] - 1) : ~Matches(host[r], ruleList[k])
      <4> SUFFICES ASSUME NEW k \in 1..(i'[r] - 1) PROVE ~Matches(host[r], ruleList[k])
        OBVIOUS
      <4>1. i[r] \in Nat /\ i'[r] = i[r] + 1
        BY <1>2, <2>1
      <4>2. CASE k = i[r]
        BY <1>5, <4>2 DEF rule
      <4>3. CASE k # i[r]
        <5>1. k \in 1..(i[r] - 1)
          BY <4>1, <4>3
        <5> QED BY <1>3, <5>1
      <4> QED BY <4>2, <4>3
    <3> QED BY <1>1, <1>5, <2>1, <3>1 DEF IInv, Scans
  <2>6. Answered'
    BY <1>1, <1>5 DEF IInv, Answered, FromOneConfig
  <2> QED BY <2>2, <2>3, <2>4, <2>5, <2>6 DEF IInv
<1> QED BY <1>1, <1>4, <1>5

\* The end of the list: nothing in it matches.
LEMMA EndScanStep == ASSUME IInv, NEW r \in Readers, EndScan(r) PROVE IInv'
<1>1. /\ pc[r] = "scan" /\ i[r] > Len(ruleList) /\ pc' = [pc EXCEPT ![r] = "unlock"]
      /\ UNCHANGED <<ruleList, version, loader, file, next, dead, host, i, found, lock>>
  BY DEF EndScan, loaderVars
<1>2. /\ lock = r /\ lock # "loader" /\ loader # "parse"
      /\ ruleList \in Seq(Rules) /\ Len(ruleList) \in Nat /\ i[r] - 1 = Len(ruleList)
  <2>1. lock = r /\ lock # "loader" /\ loader # "parse"
    BY <1>1, NamesAssumption DEF IInv, Locking
  <2>2. ruleList \in Seq(Rules) /\ i[r] \in Nat \ {0} /\ i[r] <= Len(ruleList) + 1
    BY <1>1 DEF IInv, TypeOK
  <2> QED BY <1>1, <2>1, <2>2
<1>3. \A q \in Readers : pc'[q] = IF q = r THEN "unlock" ELSE pc[q]
  BY <1>1 DEF IInv, TypeOK
<1>4. TypeOK'
  <2>1. pc' \in [Readers -> ReaderPlaces]
    BY <1>1 DEF IInv, TypeOK, ReaderPlaces
  <2> QED BY <1>1, <1>3, <2>1 DEF IInv, TypeOK
<1>5. AtStart' /\ Locking'
  BY <1>1, <1>3 DEF IInv, AtStart, Locking
<1>6. Lists'
  BY <1>1 DEF IInv, Lists, WholeConfig
<1>7. Scans'
  BY <1>1, <1>3 DEF IInv, Scans
<1>8. FromOneConfig(r)'
  <2>1. found[r] = NoRule /\ \A k \in 1..Len(ruleList) : ~Matches(host[r], ruleList[k])
    BY <1>1, <1>2 DEF IInv, Scans
  <2>2. Defaults \in Seq(Lines) /\ file \in Seq(Lines)
    BY DefaultsAssumption, FileType DEF IInv, TypeOK
  <2>3. CASE loader = "done"
    <3>1. IsParsed(ruleList, file, version)
      BY <1>2, <2>3 DEF IInv, Lists, WholeConfig
    <3>2. AnswerFor(host[r], file, version, NoRule)
      BY <1>2, <2>1, <2>2, <3>1, NoneMatches
    <3> QED BY <1>1, <2>1, <2>3, <3>2 DEF FromOneConfig
  <2>4. CASE loader # "done"
    <3>1. IsParsed(ruleList, Defaults, 1)
      BY <1>2, <2>4 DEF IInv, Lists, WholeConfig
    <3>2. AnswerFor(host[r], Defaults, 1, NoRule)
      BY <1>2, <2>1, <2>2, <3>1, NoneMatches
    <3> QED BY <1>1, <2>1, <3>2 DEF FromOneConfig
  <2> QED BY <2>3, <2>4
<1>9. Answered'
  <2>1. \A q \in Readers \ {r} : FromOneConfig(q) => FromOneConfig(q)'
    BY <1>1 DEF FromOneConfig
  <2> QED BY <1>3, <1>8, <2>1 DEF IInv, Answered
<1> QED BY <1>4, <1>5, <1>6, <1>7, <1>9 DEF IInv

\* A lookup gives the lock up and keeps what it found.
LEMMA EndLookupStep == ASSUME IInv, NEW r \in Readers, EndLookup(r) PROVE IInv'
<1>1. /\ pc[r] = "unlock" /\ lock' = "free" /\ pc' = [pc EXCEPT ![r] = "done"]
      /\ UNCHANGED <<ruleList, version, loader, file, next, dead, host, i, found>>
  BY DEF EndLookup, loaderVars
<1>2. lock = r /\ r \notin {"free", "loader"} /\ loader # "parse"
  BY <1>1, NamesAssumption DEF IInv, Locking
<1>3. \A q \in Readers : pc'[q] = IF q = r THEN "done" ELSE pc[q]
  BY <1>1 DEF IInv, TypeOK
<1>4. TypeOK'
  <2>1. pc' \in [Readers -> ReaderPlaces]
    BY <1>1 DEF IInv, TypeOK, ReaderPlaces
  <2> QED BY <1>1, <1>3, <2>1 DEF IInv, TypeOK
<1>5. AtStart' /\ Locking'
  <2>1. \A q \in Readers : q # r => pc[q] \notin {"scan", "unlock"}
    BY <1>2 DEF IInv, Locking
  <2> QED BY <1>1, <1>2, <1>3, <2>1, NamesAssumption DEF IInv, AtStart, Locking
<1>6. Lists'
  BY <1>1, <1>2 DEF IInv, Lists, WholeConfig
<1>7. Scans'
  BY <1>1, <1>3 DEF IInv, Scans
<1>8. Answered'
  BY <1>1, <1>3 DEF IInv, Answered, FromOneConfig
<1> QED BY <1>4, <1>5, <1>6, <1>7, <1>8 DEF IInv

\* Whatever is done next.
LEMMA NextIInv == IInv /\ [Next]_vars => IInv'
<1> SUFFICES ASSUME IInv, [Next]_vars PROVE IInv'
  OBVIOUS
<1>1. CASE Query \/ Conf \/ ConnectToServer \/ Download
  BY <1>1, LoaderStep
<1>2. CASE LockAndClear
  BY <1>2, ClearStep
<1>3. CASE ParseLine
  BY <1>3, ParseStep
<1>4. CASE UnlockConfig
  BY <1>4, UnlockStep
<1>5. ASSUME NEW r \in Readers, Lookup(r) PROVE IInv'
  BY <1>5, StartStep, ScanStep, EndScanStep, EndLookupStep DEF Lookup
<1>6. CASE UNCHANGED vars
  BY <1>6 DEF vars, loaderVars, readerVars, IInv, TypeOK, AtStart, Locking, Lists, WholeConfig, Scans,
              Answered, FromOneConfig
<1> QED BY <1>1, <1>2, <1>3, <1>4, <1>5, <1>6 DEF Next, Load

\* The invariant of the rules, the loader and the lookups (youconfig.cpp).
THEOREM Invariant == Spec => []IInv
<1> QED BY InitIInv, NextIInv, PTL DEF Spec

-----------------------------------------------------------------------------
(* The properties.                                                         *)

\* Every variable keeps its type: the iterators stay inside the list, and the
\* version fits what a rule keeps of it.
THEOREM TypeCorrect == Spec => []TypeOK
<1>1. IInv => TypeOK
  BY DEF IInv
<1> QED BY <1>1, Invariant, PTL

\* Outside parseConfig() the list is always a whole configuration: that of the
\* constructor, or everything that was downloaded.
THEOREM ListIsWhole == Spec => []WholeConfig
<1>1. IInv => WholeConfig
  BY DEF IInv, Lists
<1> QED BY <1>1, Invariant, PTL

\* A lookup answers with the first match of one whole configuration, however
\* the replacement of the list falls among the lookups.
THEOREM AnswersAreWhole == Spec => []LookupFromOneConfig
<1>1. IInv => LookupFromOneConfig
  BY DEF IInv, Answered, FromOneConfig, LookupFromOneConfig
<1> QED BY <1>1, Invariant, PTL
=============================================================================
