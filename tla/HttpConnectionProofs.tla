------------------------ MODULE HttpConnectionProofs -------------------------
(***************************************************************************)
(* Proofs about HttpConnection, for bodies, buffers and integers of any    *)
(* size and any units that are line ends: what servers and the client are  *)
(* handed.  Bodies the integers cannot count are cut, and stated apart.    *)
(*                                                                         *)
(* The request: what each server was handed is nothing, the line ends, or  *)
(* the header with the first units of the body; only the last attempt can  *)
(* have come as far as the header (Handing).  The answer: as long as the   *)
(* client takes data the reading position is where the loop believes it to *)
(* be in the chunks (Aligned), and the client has the units up to it.      *)
(*                                                                         *)
(* The tunnel of a CONNECT request, Relay, implements Tunnel: each step    *)
(* moves a unit from place to place between two peers, or is one of the    *)
(* tunnel's.  The thread of ConnectionThread is both.                      *)
(***************************************************************************)
EXTENDS ConnectionThread, TLAPS, SequenceTheorems, WellFoundedInduction

-----------------------------------------------------------------------------
(* The request.                                                            *)

LineEndsFirst == IF addNewLine THEN <<Newlines>> ELSE <<>>
Handed == [n \in Nat |-> LineEndsFirst \o <<Header>> \o Units(1, n)]
Unserved(i) == servers[i] \in {<<>>, LineEndsFirst}

AfterRequest == {"response", "status", "data", "size", "chunk", "endline", "lastline"}

Handing ==
  /\ Len(servers) <= 2
  /\ \A i \in DOMAIN servers :
       servers[i] \in {<<>>, LineEndsFirst} \cup {Handed[n] : n \in 0..request.length}
  /\ \A i \in DOMAIN servers : i < Attempt => Unserved(i)
  /\ pc \in {"parse", "resolve", "connect"} => servers = <<>>
  /\ pc \in {"newlines", "header", "body", "retry"} \cup AfterRequest => Attempt > 0
  /\ pc \in {"parse", "resolve", "connect", "newlines", "header", "retry"} => taken = 0
  /\ pc = "newlines" => servers[Attempt] = <<>> /\ addNewLine
  /\ pc = "header" => Unserved(Attempt) /\ ("remote" \notin deaf => servers[Attempt] = LineEndsFirst)
  /\ pc = "retry" => Attempt = 1 /\ Unserved(Attempt)
  /\ pc = "body" => servers[Attempt] = Handed[taken] /\ taken + left <= request.length
  /\ pc \in AfterRequest => \E n \in 0..request.length : servers[Attempt] = Handed[n]
  /\ released => pc \in {"drop", "done"} /\ \A i \in DOMAIN servers : Unserved(i)

OpenNow ==
  /\ open \subseteq {0, Attempt}
  /\ closed => pc = "done" /\ open = {}

-----------------------------------------------------------------------------
(* The answer.                                                             *)

IsBody(token) == token[1] = "body"
\* What texts are made of.
Parts == {"newlines", "header", "status", "established", "end", "size", "body"} \X Nat
Sizes == {Size(n) : n \in 0..MaxBody}
Tokens == Sizes \cup {EndLine} \cup {<<"body", n>> : n \in Nat}

\* The first part of a chunked answer; sent[p] is the number of units in its first p parts.
Chunked(w, sent) ==
  /\ w \in Seq(Tokens) /\ sent \in [0..Len(w) -> Nat] /\ sent[0] = 0
  /\ \A p, q \in 0..Len(w) : p <= q => sent[p] <= sent[q]
  /\ Len(w) > 0 => w[1] \in Sizes
  /\ \A p \in 1..Len(w) : IsBody(w[p]) => w[p] = <<"body", sent[p]>>
  /\ \A p \in 1..Len(w), n \in 0..MaxBody : w[p] = Size(n) =>
       /\ sent[p] = sent[p - 1]
       /\ \A q \in 1..n : p + q <= Len(w) => w[p + q] = <<"body", sent[p] + q>>
       /\ p + n + 1 <= Len(w) => w[p + n + 1] = EndLine /\ sent[p + n + 1] = sent[p] + n
       /\ p + n + 2 <= Len(w) => n > 0 /\ w[p + n + 2] \in Sizes

Plain(w) == Len(w) \in 0..MaxBody /\ w = Units(1, Len(w))

\* The client was told the status of an answer.
Told == toClient # <<>> /\ request.command # "CONNECT"

Has(n) == toClient = <<Status>> \o Units(1, n)

\* The length that is taken for the answer r is no more than the announced one, and
\* no less if an int holds that; where none is announced it is the greatest int.
Lengths(r) ==
  IF r.framing = "length"
  THEN r.length <= r.announced /\ (r.announced < Half => r.length = r.announced)
  ELSE r.length = NoLength /\ r.announced = MaxBody

Answers == [framing : {"length", "close", "chunked"}, announced : 0..MaxBody,
            length : 0..(Word - 1), wire : Seq(Tokens)]

ReplyOK == reply \in Answers /\ Lengths(reply)

\* The sizes of chunks that were read fit.
ReadFits == \A p \in 1..at, n \in 0..MaxBody : reply.wire[p] = Size(n) => n < Word

ToldAtPlace ==
  /\ pc \in AfterRequest \cup {"newlines", "header", "body", "retry"} => request.command # "CONNECT"
  /\ pc \in {"parse", "resolve", "connect", "newlines", "header", "body", "retry", "response", "status"}
       => toClient = <<>> /\ at = 0
  /\ toClient \in Seq(Parts)
  /\ pc \in {"data", "size", "chunk", "endline", "lastline"} => Told
  /\ pc = "relay" => request.command = "CONNECT"
  /\ pc = "data" => reply.framing # "chunked"
  /\ pc \in {"size", "chunk", "endline", "lastline"} => reply.framing = "chunked"
  /\ Told => Attempt > 0 /\ ~Unserved(Attempt)
  /\ request.command = "CONNECT" => toClient \in {<<>>, <<Established>>}

PlainAnswer ==
  reply.framing # "chunked" =>
    /\ Plain(reply.wire)
    /\ pc = "data" => at + left = reply.length
    /\ Told => /\ at <= reply.length
               /\ \E n \in 0..at : Has(n) /\ ("client" \notin deaf => n = at)
               /\ pc \in {"drop", "done"} /\ "client" \notin deaf => at \in {reply.length, Len(reply.wire)}

\* The reading position is where the loop takes it to be.
Aligned ==
  /\ pc = "size" /\ at < Len(reply.wire) => reply.wire[at + 1] \in Sizes
  /\ pc = "chunk" => \E p \in 1..at, n \in 1..MaxBody : reply.wire[p] = Size(n) /\ at + left = p + n
  /\ pc = "endline" /\ at < Len(reply.wire) =>
       \E p \in 1..at, n \in 1..MaxBody : reply.wire[p] = Size(n) /\ at = p + n
  /\ pc = "lastline" => at > 0 /\ reply.wire[at] = Size(0)
  /\ pc \in {"drop", "done"} => at = Len(reply.wire)

HasUnits(sent) ==
  \E n \in 0..MaxBody :
    /\ Has(n)
    /\ n = 0 \/ \E q \in 1..at : reply.wire[q] = <<"body", n>>
    /\ "client" \notin deaf => n = sent[at] /\ Aligned

ChunkedAnswer ==
  reply.framing = "chunked" =>
    \E sent : /\ Chunked(reply.wire, sent)
              /\ \A p \in 0..Len(reply.wire) : sent[p] <= MaxBody
              /\ Told /\ ReadFits => HasUnits(sent)

Answering == ReplyOK /\ ToldAtPlace /\ PlainAnswer /\ ChunkedAnswer

IInv == TypeOK /\ Handing /\ OpenNow /\ Answering

-----------------------------------------------------------------------------
(* Numbers as the code takes them.                                         *)

LEMMA Remainder == ASSUME NEW n \in Nat, NEW w \in Nat, w > 0 PROVE n % w \in 0..(w - 1) /\ n % w <= n
<1>1. n % w \in 0..(w - 1)
  OBVIOUS
<1> QED BY <1>1

\* They fit an unsigned int; what fits before is not changed, and lengths never grow.
LEMMA Conversions ==
  /\ MaxBody \in Nat /\ Half \in Nat /\ Half > 1 /\ Word = 2 * Half /\ Word \in Nat
  /\ NoLength = Half - 1 /\ NoLength \in 0..(Word - 1) /\ NoLength > 0 /\ 0 \in 0..(Word - 1)
  /\ \A n \in Nat : \A k \in ContentLength(n) : k \in 0..(Word - 1) /\ k <= n /\ (n < Half => k = n)
  /\ \A n \in Nat : \A k \in ChunkSizes(n) : k \in 0..(Word - 1) /\ (n < Word => k = n)
  /\ \A n \in Nat : \A k \in BodyLength(n) : k \in 0..(Word - 1) /\ k <= n
<1>1. /\ MaxBody \in Nat /\ Half \in Nat /\ Half > 1 /\ Word = 2 * Half /\ Word \in Nat /\ Word > 0
      /\ NoLength = Half - 1 /\ NoLength \in 0..(Word - 1) /\ NoLength > 0 /\ 0 \in 0..(Word - 1)
  BY SizeAssumption, WidthAssumption DEF Word, NoLength
<1>2. ASSUME NEW n \in Nat PROVE n % Word \in 0..(Word - 1) /\ n % Word <= n
  BY <1>1, Remainder
<1>3. ASSUME NEW n \in Nat, NEW k \in ContentLength(n)
      PROVE  k \in 0..(Word - 1) /\ k <= n /\ (n < Half => k = n)
  BY <1>1, <1>2, <1>3 DEF ContentLength
<1>4. ASSUME NEW n \in Nat, NEW k \in ChunkSizes(n) PROVE k \in 0..(Word - 1) /\ (n < Word => k = n)
  BY <1>1, <1>2, <1>4 DEF ChunkSizes
<1>5. ASSUME NEW n \in Nat, NEW k \in BodyLength(n) PROVE k \in 0..(Word - 1) /\ k <= n
  BY <1>1, <1>2, <1>5 DEF BodyLength
<1> QED BY <1>1, <1>3, <1>4, <1>5

-----------------------------------------------------------------------------
(* The units of a body.                                                    *)

LEMMA NextUnits ==
  ASSUME NEW m \in Nat, NEW n \in Nat
  PROVE  /\ Units(m + 1, m + n) \in Seq(Parts) /\ Len(Units(m + 1, m + n)) = n
         /\ \A k \in 1..n : Units(m + 1, m + n)[k] = <<"body", m + k>>
<1>1. /\ m + n + 1 - (m + 1) = n
      /\ \A k \in 1..n : (m + 1) + k - 1 = m + k /\ <<"body", m + k>> \in Parts
  BY DEF Parts
<1>2. Units(m + 1, m + n) = [k \in 1..n |-> <<"body", m + k>>]
  BY <1>1 DEF Units
<1> HIDE DEF Parts
<1>3. Units(m + 1, m + n) \in [1..n -> Parts]
  BY <1>1, <1>2
<1> QED BY <1>2, <1>3

LEMMA FirstUnits ==
  ASSUME NEW n \in Nat
  PROVE  /\ Units(1, n) \in Seq(Parts) /\ Len(Units(1, n)) = n
         /\ \A k \in 1..n : Units(1, n)[k] = <<"body", k>>
<1>1. Units(0 + 1, 0 + n) = Units(1, n)
  OBVIOUS
<1>2. \A k \in 1..n : 0 + k = k
  OBVIOUS
<1> QED BY <1>1, <1>2, NextUnits

\* A text in two parts.
LEMMA InTwo ==
  ASSUME NEW s \in Seq(Parts), NEW t \in Seq(Parts), NEW u \in Seq(Parts), Len(u) = Len(s) + Len(t),
         \A k \in 1..Len(s) : u[k] = s[k], \A k \in 1..Len(t) : u[Len(s) + k] = t[k]
  PROVE  s \o t = u
<1> DEFINE both == s \o t
<1>1. Len(s) \in Nat /\ Len(t) \in Nat
  BY LenProperties
<1>2. both \in Seq(Parts) /\ Len(both) = Len(s) + Len(t)
  BY ConcatProperties
<1>3. ASSUME NEW k \in 1..(Len(s) + Len(t)) PROVE both[k] = u[k]
  <2>1. both[k] = IF k <= Len(s) THEN s[k] ELSE t[k - Len(s)]
    BY ConcatProperties
  <2>2. CASE k <= Len(s)
    BY <1>1, <2>1, <2>2
  <2>3. CASE ~(k <= Len(s))
    <3>1. k - Len(s) \in 1..Len(t) /\ Len(s) + (k - Len(s)) = k
      BY <1>1, <2>3
    <3> QED BY <2>1, <2>3, <3>1
  <2> QED BY <2>2, <2>3
<1> HIDE DEF both
<1>4. both = u
  BY <1>2, <1>3, SeqEqual
<1> QED BY <1>4 DEF both

\* Units that follow one another.
LEMMA UnitsGrow ==
  ASSUME NEW m \in Nat, NEW n \in Nat
  PROVE  Units(1, m) \o Units(m + 1, m + n) = Units(1, m + n)
<1>1. /\ Units(1, m) \in Seq(Parts) /\ Len(Units(1, m)) = m
      /\ \A k \in 1..m : Units(1, m)[k] = <<"body", k>>
  BY FirstUnits
<1>2. /\ Units(m + 1, m + n) \in Seq(Parts) /\ Len(Units(m + 1, m + n)) = n
      /\ \A k \in 1..n : Units(m + 1, m + n)[k] = <<"body", m + k>>
  BY NextUnits
<1>3. m + n \in Nat /\ (\A k \in 1..m : k \in 1..(m + n)) /\ (\A k \in 1..n : m + k \in 1..(m + n))
  OBVIOUS
<1>4. /\ Units(1, m + n) \in Seq(Parts) /\ Len(Units(1, m + n)) = m + n
      /\ \A k \in 1..(m + n) : Units(1, m + n)[k] = <<"body", k>>
  BY <1>3, FirstUnits
<1>5. /\ \A k \in 1..m : Units(1, m + n)[k] = Units(1, m)[k]
      /\ \A k \in 1..n : Units(1, m + n)[m + k] = Units(m + 1, m + n)[k]
  BY <1>1, <1>2, <1>3, <1>4
<1> HIDE DEF Units
<1>6. ASSUME NEW s \in Seq(Parts), NEW t \in Seq(Parts), NEW u \in Seq(Parts), Len(s) = m, Len(t) = n,
             Len(u) = m + n, \A k \in 1..m : u[k] = s[k], \A k \in 1..n : u[m + k] = t[k]
      PROVE  s \o t = u
  BY <1>6, InTwo
<1> QED BY <1>1, <1>2, <1>4, <1>5, <1>6

\* What is read where the units are is the units.
LEMMA SubSeqUnits ==
  ASSUME NEW w \in Seq(Tokens), NEW from \in Nat, NEW n \in Nat, NEW m \in Nat, from + n <= Len(w),
         \A k \in 1..n : w[from + k] = <<"body", m + k>>
  PROVE  SubSeq(w, from + 1, from + n) = Units(m + 1, m + n)
<1> DEFINE r == SubSeq(w, from + 1, from + n)
<1>1. \A i \in (from + 1)..(from + n) : w[i] \in Parts
  <2> SUFFICES ASSUME NEW i \in (from + 1)..(from + n) PROVE w[i] \in Parts
    OBVIOUS
  <2>1. i - from \in 1..n /\ i = from + (i - from)
    OBVIOUS
  <2>2. w[i] = <<"body", m + (i - from)>>
    BY <2>1
  <2> QED BY <2>1, <2>2 DEF Parts
<1>2. r \in Seq(Parts) /\ Len(r) = n /\ \A i \in 1..n : r[i] = w[from + i]
  BY <1>1, SubSeqProperties
<1>3. /\ Units(m + 1, m + n) \in Seq(Parts) /\ Len(Units(m + 1, m + n)) = n
      /\ \A k \in 1..n : Units(m + 1, m + n)[k] = <<"body", m + k>>
  BY NextUnits
<1>4. \A i \in 1..n : r[i] = Units(m + 1, m + n)[i]
  BY <1>2, <1>3
<1> HIDE DEF r
<1>5. r = Units(m + 1, m + n)
  BY <1>2, <1>3, <1>4, SeqEqual
<1> QED BY <1>5 DEF r

\* What is handed over after the first m units, whatever came before them.
LEMMA GrowAfter ==
  ASSUME NEW s \in Seq(Parts), NEW m \in Nat, NEW n \in Nat
  PROVE  (s \o Units(1, m)) \o Units(m + 1, m + n) = s \o Units(1, m + n)
<1>1. Units(1, m) \in Seq(Parts) /\ Units(m + 1, m + n) \in Seq(Parts)
  BY FirstUnits, NextUnits
<1>2. (s \o Units(1, m)) \o Units(m + 1, m + n) = s \o (Units(1, m) \o Units(m + 1, m + n))
  BY <1>1, ConcatAssociative
<1> QED BY <1>2, UnitsGrow

LEMMA PrefixOfConcat ==
  ASSUME NEW s \in Seq(Parts), NEW t \in Seq(Parts) PROVE IsPrefix(s, s \o t)
<1>1. Len(s) \in Nat /\ Len(t) \in Nat /\ Len(s \o t) = Len(s) + Len(t)
  BY ConcatProperties, LenProperties
<1>2. SubSeq(s \o t, 1, Len(s)) = s /\ SubSeq(s, 1, Len(s)) = s
  <2>1. CASE Len(s) = 0
    BY <1>1, <2>1, SubSeqEmpty, SubSeqFull
  <2>2. CASE Len(s) # 0
    BY <1>1, <2>2, SubSeqOfConcat1, SubSeqFull
  <2> QED BY <2>1, <2>2
<1> QED BY <1>1, <1>2 DEF IsPrefix

LEMMA HandedIs ==
  ASSUME addNewLine \in BOOLEAN, NEW n \in Nat
  PROVE  /\ LineEndsFirst \in Seq(Parts) /\ LineEndsFirst \o <<Header>> \in Seq(Parts)
         /\ Header \notin Range(LineEndsFirst) /\ Header \in Range(Handed[n])
         /\ LineEndsFirst \in {<<>>, <<Newlines>>}
<1>1. <<Header>> \in Seq(Parts) /\ <<Newlines>> \in Seq(Parts) /\ <<>> \in Seq(Parts)
  BY DEF Parts, Header, Newlines
<1>2. LineEndsFirst \in {<<>>, <<Newlines>>}
  BY DEF LineEndsFirst
<1>3. LineEndsFirst \o <<Header>> \in Seq(Parts) /\ LineEndsFirst \in Seq(Parts)
  BY <1>1, <1>2, ConcatProperties
<1>4. Header \notin Range(LineEndsFirst)
  BY <1>2 DEF Range, Header, Newlines
<1> DEFINE l == LineEndsFirst \o <<Header>>
<1>5. l[Len(l)] = Header /\ Len(l) \in Nat \ {0}
  <2>1. Len(l) = Len(LineEndsFirst) + 1 /\ Len(LineEndsFirst) \in Nat
    BY <1>1, <1>3, ConcatProperties
  <2>2. l[Len(LineEndsFirst) + 1] = <<Header>>[Len(LineEndsFirst) + 1 - Len(LineEndsFirst)]
    BY <1>1, <1>3, <2>1, ConcatProperties
  <2> QED BY <2>1, <2>2
<1>6. Handed[n] = l \o Units(1, n) /\ Units(1, n) \in Seq(Parts)
  BY FirstUnits, NextUnits DEF Handed
<1> HIDE DEF l
<1>7. l \in Seq(Parts)
  BY <1>3 DEF l
<1>8. /\ Handed[n] \in Seq(Parts) /\ Handed[n][Len(l)] = Header
      /\ Len(l) \in 1..Len(Handed[n])
  BY <1>5, <1>6, <1>7, ConcatProperties, LenProperties
<1>9. Header \in Range(Handed[n])
  BY <1>8 DEF Range
<1> QED BY <1>2, <1>3, <1>4, <1>9

\* What a server was handed is a prefix of the request.
LEMMA HandedPrefix ==
  ASSUME addNewLine \in BOOLEAN, request.length \in Nat, NEW n \in 0..request.length
  PROVE  /\ IsPrefix(Handed[n], WholeRequest)
         /\ IsPrefix(<<>>, WholeRequest) /\ IsPrefix(LineEndsFirst, WholeRequest)
<1> DEFINE l == LineEndsFirst \o <<Header>>
<1>1. l \in Seq(Parts) /\ LineEndsFirst \in Seq(Parts) /\ <<Header>> \in Seq(Parts)
  BY HandedIs DEF Parts, Header
<1>2. WholeRequest = l \o Units(1, request.length)
  BY DEF WholeRequest, LineEndsFirst
<1> HIDE DEF l
<1>3. WholeRequest = (l \o Units(1, n)) \o Units(n + 1, request.length)
  <2>1. request.length = n + (request.length - n) /\ request.length - n \in Nat /\ n \in Nat
    OBVIOUS
  <2>2. (l \o Units(1, n)) \o Units(n + 1, n + (request.length - n)) = l \o Units(1, n + (request.length - n))
    BY <1>1, <2>1, GrowAfter
  <2> QED BY <1>2, <2>1, <2>2
<1>4. IsPrefix(Handed[n], WholeRequest)
  <2>1. Handed[n] = l \o Units(1, n)
    BY DEF Handed, l
  <2>2. l \o Units(1, n) \in Seq(Parts) /\ Units(n + 1, request.length) \in Seq(Parts)
    <3>1. Units(1, n) \in Seq(Parts)
      BY FirstUnits
    <3>2. Units(n + 1, n + (request.length - n)) \in Seq(Parts)
      BY NextUnits
    <3> QED BY <1>1, <3>1, <3>2, ConcatProperties
  <2> QED BY <1>3, <2>1, <2>2, PrefixOfConcat
<1>5. WholeRequest = LineEndsFirst \o (<<Header>> \o Units(1, request.length))
      /\ <<Header>> \o Units(1, request.length) \in Seq(Parts)
  <2>1. Units(1, request.length) \in Seq(Parts)
    BY FirstUnits
  <2>2. WholeRequest = (LineEndsFirst \o <<Header>>) \o Units(1, request.length)
    BY <1>2 DEF l
  <2>3. WholeRequest = LineEndsFirst \o (<<Header>> \o Units(1, request.length))
    BY <1>1, <2>1, <2>2, ConcatAssociative
  <2> QED BY <1>1, <2>1, <2>3, ConcatProperties
<1>6. WholeRequest \in Seq(Parts)
  BY <1>1, <1>5, ConcatProperties
<1>7. IsPrefix(<<>>, WholeRequest)
  BY <1>6, ConcatEmptySeq, PrefixOfConcat, EmptySeq
<1> QED BY <1>1, <1>4, <1>5, <1>7, PrefixOfConcat

-----------------------------------------------------------------------------
(* What servers are handed.                                                *)

ServerText == {Newlines, Header} \cup Range(Units(1, MaxBody))

LEMMA ServerTexts ==
  /\ <<>> \in Seq(ServerText) /\ <<Header>> \in Seq(ServerText) /\ <<Newlines>> \in Seq(ServerText)
  /\ ServerText \subseteq Parts
  /\ \A m, n \in Nat : m + n <= MaxBody => Units(m + 1, m + n) \in Seq(ServerText)
<1>1. MaxBody \in Nat
  BY SizeAssumption
<1>2. /\ Units(1, MaxBody) \in Seq(Parts) /\ DOMAIN Units(1, MaxBody) = 1..MaxBody
      /\ \A k \in 1..MaxBody : Units(1, MaxBody)[k] = <<"body", k>>
  BY <1>1, FirstUnits, LenProperties
<1>3. ServerText \subseteq Parts
  BY <1>2 DEF ServerText, Range, Parts, Header, Newlines
<1>4. \A k \in 1..MaxBody : <<"body", k>> \in ServerText
  BY <1>2 DEF ServerText, Range
<1>5. ASSUME NEW m \in Nat, NEW n \in Nat, m + n <= MaxBody PROVE Units(m + 1, m + n) \in Seq(ServerText)
  <2>1. /\ Units(m + 1, m + n) \in Seq(Parts) /\ Len(Units(m + 1, m + n)) = n
        /\ \A k \in 1..n : Units(m + 1, m + n)[k] = <<"body", m + k>>
    BY NextUnits
  <2>2. \A k \in 1..n : m + k \in 1..MaxBody
    BY <1>1, <1>5
  <2>3. \A k \in 1..n : Units(m + 1, m + n)[k] \in ServerText
    BY <1>4, <2>1, <2>2
  <2> HIDE DEF Units
  <2>4. ASSUME NEW s \in Seq(Parts), Len(s) = n, \A k \in 1..n : s[k] \in ServerText
        PROVE  s \in Seq(ServerText)
    BY <2>4
  <2> QED BY <2>1, <2>3, <2>4
<1> QED BY <1>3, <1>5 DEF ServerText

\* What the type says of the requests.
LEMMA RequestLength == ASSUME TypeOK PROVE request.length \in 0..MaxBody /\ MaxBody \in Nat
BY SizeAssumption DEF TypeOK, Requests

\* The text for a server grows with each part of the body.
LEMMA HandedGrows ==
  ASSUME addNewLine \in BOOLEAN
  PROVE  /\ Handed[0] = LineEndsFirst \o <<Header>>
         /\ \A m, n \in Nat : Handed[m] \o Units(m + 1, m + n) = Handed[m + n]
<1>1. LineEndsFirst \o <<Header>> \in Seq(Parts)
  BY HandedIs
<1>2. \A n \in Nat : Handed[n] = (LineEndsFirst \o <<Header>>) \o Units(1, n)
  BY DEF Handed
<1>3. Units(1, 0) = <<>>
  <2>1. Units(1, 0) \in Seq(Parts) /\ Len(Units(1, 0)) = 0
    BY FirstUnits
  <2> QED BY <2>1, EmptySeq
<1>4. Handed[0] = LineEndsFirst \o <<Header>>
  BY <1>1, <1>2, <1>3, ConcatEmptySeq
<1>5. ASSUME NEW m \in Nat, NEW n \in Nat PROVE Handed[m] \o Units(m + 1, m + n) = Handed[m + n]
  <2>1. m + n \in Nat
    OBVIOUS
  <2> QED BY <1>1, <1>2, <2>1, GrowAfter
<1> QED BY <1>4, <1>5

\* A new connection has been handed nothing.
LEMMA ReachStep ==
  ASSUME TypeOK, Handing, pc \in {"connect", "retry"}, NEW kept, Reach(kept)
  PROVE  Handing' /\ servers' \in Seq(Seq(ServerText)) /\ Len(servers') = Len(servers) + 1
<1>1. /\ servers' = Append(servers, <<>>) /\ UNCHANGED <<request, addNewLine, taken>>
      /\ pc' \in {"relay", "newlines", "header", "drop"}
      /\ pc' = "newlines" => addNewLine
      /\ pc' = "header" => ~addNewLine
      /\ released' => pc' = "drop" \/ released
  BY DEF Reach
<1>2. servers \in Seq(Seq(ServerText)) /\ <<>> \in Seq(ServerText) /\ Len(servers) \in {0, 1}
  BY ServerTexts DEF TypeOK, Handing, ServerText, Attempt
<1>3. /\ servers' \in Seq(Seq(ServerText)) /\ Len(servers') = Len(servers) + 1
      /\ \A i \in 1..Len(servers) : servers'[i] = servers[i]
      /\ servers'[Len(servers) + 1] = <<>>
  BY <1>1, <1>2, AppendProperties
<1>4. Handed' = Handed /\ LineEndsFirst' = LineEndsFirst
  BY <1>1 DEF Handed, LineEndsFirst
<1>5. \A i \in DOMAIN servers : servers[i] \in {<<>>, LineEndsFirst}
  BY <1>2 DEF Handing, Unserved, Attempt
<1>6. DOMAIN servers' = 1..(Len(servers) + 1) /\ DOMAIN servers = 1..Len(servers)
  BY <1>2, <1>3
<1>7. \A i \in DOMAIN servers' : servers'[i] \in {<<>>, LineEndsFirst}
  <2> SUFFICES ASSUME NEW i \in 1..(Len(servers) + 1) PROVE servers'[i] \in {<<>>, LineEndsFirst}
    BY <1>6
  <2>1. i \in 1..Len(servers) \/ i = Len(servers) + 1
    BY <1>2
  <2> QED BY <1>3, <1>5, <1>6, <2>1
<1>8. ~released
  BY DEF Handing
<1>9. ~addNewLine => LineEndsFirst = <<>>
  BY DEF LineEndsFirst
<1>10. taken' = 0
  BY <1>1 DEF Handing
<1> QED BY <1>1, <1>2, <1>3, <1>4, <1>6, <1>7, <1>8, <1>9, <1>10 DEF Handing, Unserved, Attempt, AfterRequest

\* What is handed over goes to the server of the last attempt.
LEMMA HandStep ==
  ASSUME TypeOK, Attempt > 0, NEW tokens \in Seq(ServerText), Hand(tokens)
  PROVE  /\ "remote" \notin deaf /\ deaf' = deaf
         /\ servers' \in Seq(Seq(ServerText)) /\ Len(servers') = Len(servers)
         /\ servers'[Attempt] = servers[Attempt] \o tokens
         /\ \A i \in 1..Len(servers) : i # Attempt => servers'[i] = servers[i]
<1>1. servers \in Seq(Seq(ServerText)) /\ Len(servers) \in Nat /\ Attempt \in 1..Len(servers)
  BY LenProperties DEF TypeOK, ServerText, Attempt
<1>2. servers[Attempt] \in Seq(ServerText)
  BY <1>1, ElementOfSeq
<1>3. servers[Attempt] \o tokens \in Seq(ServerText)
  BY <1>2, ConcatProperties
<1>4. servers' = [servers EXCEPT ![Attempt] = servers[Attempt] \o tokens] /\ "remote" \notin deaf /\ deaf' = deaf
  BY DEF Hand
<1> QED BY <1>1, <1>3, <1>4, ExceptSeq

\* Sending the request.
LEMMA AddNewLineStep ==
  ASSUME TypeOK, Handing, AddNewLine PROVE Handing' /\ servers' \in Seq(Seq(ServerText))
<1>1. /\ UNCHANGED <<request, addNewLine, taken, released>> /\ pc = "newlines" /\ pc' = "header"
      /\ Attempt > 0 /\ servers[Attempt] = <<>> /\ addNewLine /\ ~released /\ taken = 0
      /\ Attempt \in 1..Len(servers) /\ Len(servers) <= 2 /\ Len(servers) \in Nat
      /\ \A i \in 1..Len(servers) : i < Attempt => servers[i] \in {<<>>, LineEndsFirst}
  BY DEF AddNewLine, Handing, Unserved, Attempt, TypeOK
<1>2. Handed' = Handed /\ LineEndsFirst' = LineEndsFirst /\ LineEndsFirst = <<Newlines>>
  BY <1>1 DEF Handed, LineEndsFirst
<1>3. CASE Hand(<<Newlines>>)
  <2>1. <<Newlines>> \in Seq(ServerText) /\ <<>> \o <<Newlines>> = <<Newlines>>
    BY ServerTexts, ConcatEmptySeq
  <2>2. /\ servers' \in Seq(Seq(ServerText)) /\ Len(servers') = Len(servers)
        /\ servers'[Attempt] = <<Newlines>>
        /\ \A i \in 1..Len(servers) : i # Attempt => servers'[i] = servers[i]
    BY <1>1, <1>3, <2>1, HandStep
  <2> QED BY <1>1, <1>2, <2>2 DEF Handing, Unserved, Attempt, AfterRequest
<1>4. CASE Fail
  BY <1>1, <1>2, <1>4 DEF Fail, Handing, Unserved, Attempt, AfterRequest, TypeOK, ServerText
<1> QED BY <1>3, <1>4 DEF AddNewLine

LEMMA SendHeaderStep ==
  ASSUME TypeOK, Handing, SendHeader
  PROVE  Handing' /\ servers' \in Seq(Seq(ServerText)) /\ left' \in 0..(Word - 1)
<1>1. /\ UNCHANGED <<request, addNewLine, taken, released>> /\ pc = "header"
      /\ Attempt > 0 /\ ~released /\ taken = 0 /\ Unserved(Attempt)
      /\ "remote" \notin deaf => servers[Attempt] = LineEndsFirst
      /\ Attempt \in 1..Len(servers) /\ Len(servers) <= 2 /\ Len(servers) \in Nat
      /\ \A i \in 1..Len(servers) : i < Attempt => servers[i] \in {<<>>, LineEndsFirst}
  BY DEF SendHeader, Handing, Unserved, Attempt, TypeOK
<1>2. Handed' = Handed /\ LineEndsFirst' = LineEndsFirst
  BY <1>1 DEF Handed, LineEndsFirst
<1>3. request.length \in 0..MaxBody /\ MaxBody \in Nat /\ Word \in Nat
  BY RequestLength, Conversions
<1>4. CASE Hand(<<Header>>)
  <2>1. <<Header>> \in Seq(ServerText)
    BY ServerTexts
  <2>2. /\ servers' \in Seq(Seq(ServerText)) /\ Len(servers') = Len(servers)
        /\ "remote" \notin deaf /\ servers'[Attempt] = servers[Attempt] \o <<Header>>
        /\ \A i \in 1..Len(servers) : i # Attempt => servers'[i] = servers[i]
    BY <1>1, <1>4, <2>1, HandStep
  <2>3. servers'[Attempt] = Handed[0]
    BY <1>1, <2>2, HandedGrows DEF TypeOK
  <2>4. pc' \in {"body", "response"} /\ left' \in BodyLength(request.length)
    BY <1>4 DEF SendHeader, Hand, Fail
  <2>fits. left' \in 0..(Word - 1) /\ 0 + left' <= request.length
    <3>1. request.length \in Nat
      BY <1>3
    <3>2. left' \in 0..(Word - 1) /\ left' <= request.length
      BY <2>4, <3>1, Conversions
    <3> QED BY <1>3, <3>2
  <2>5. DOMAIN servers' = 1..Len(servers) /\ 0 \in 0..request.length
    BY <1>3, <2>2
  <2>6. \A i \in 1..Len(servers) : servers'[i] \in {<<>>, LineEndsFirst} \cup {Handed[n] : n \in 0..request.length}
    <3> SUFFICES ASSUME NEW i \in 1..Len(servers)
                 PROVE  servers'[i] \in {<<>>, LineEndsFirst} \cup {Handed[n] : n \in 0..request.length}
      OBVIOUS
    <3>1. CASE i = Attempt
      <4> HIDE DEF Handed
      <4> QED BY <2>3, <2>5, <3>1
    <3>2. CASE i # Attempt
      <4>1. i < Attempt
        BY <1>1, <3>2 DEF Attempt
      <4> QED BY <1>1, <2>2, <3>2, <4>1
    <3> QED BY <3>1, <3>2
  <2>7. \A i \in 1..Len(servers) : i < Attempt => servers'[i] \in {<<>>, LineEndsFirst}
    BY <1>1, <2>2
  <2>8. servers' \in Seq(Seq(ServerText)) /\ left' \in 0..(Word - 1)
    BY <2>2, <2>fits
  <2> HIDE DEF Handed
  <2> QED BY <1>1, <1>2, <2>2, <2>3, <2>4, <2>5, <2>6, <2>7, <2>8, <2>fits DEF Handing, Unserved, Attempt, AfterRequest
<1>5. CASE Fail
  <2>1. UNCHANGED <<servers, left>> /\ pc' = IF Attempt = 1 THEN "retry" ELSE "drop"
    BY <1>1, <1>5 DEF SendHeader, Fail, Hand
  <2> QED BY <1>1, <1>2, <2>1 DEF Handing, Unserved, Attempt, AfterRequest, TypeOK, ServerText
<1> QED BY <1>4, <1>5 DEF SendHeader

LEMMA SendBodyStep ==
  ASSUME TypeOK, Handing, SendBody
  PROVE  /\ Handing' /\ servers' \in Seq(Seq(ServerText))
         /\ left' \in 0..(Word - 1) /\ taken' \in 0..MaxBody
<1>1. /\ UNCHANGED <<request, addNewLine, released>> /\ pc = "body"
      /\ Attempt > 0 /\ ~released /\ taken \in Nat /\ left \in Nat
      /\ servers[Attempt] = Handed[taken] /\ taken + left <= request.length /\ left \in 0..(Word - 1)
      /\ Attempt \in 1..Len(servers) /\ Len(servers) <= 2 /\ Len(servers) \in Nat
      /\ servers \in Seq(Seq(ServerText))
      /\ \A i \in 1..Len(servers) : i < Attempt => servers[i] \in {<<>>, LineEndsFirst}
  BY Conversions DEF SendBody, BodyTurn, Handing, Unserved, Attempt, TypeOK, ServerText
<1>2. Handed' = Handed /\ LineEndsFirst' = LineEndsFirst
  BY <1>1 DEF Handed, LineEndsFirst
<1>3. request.length \in 0..MaxBody /\ MaxBody \in Nat /\ Word \in Nat
  BY RequestLength, Conversions
<1> HIDE DEF Handed
<1>4. PICK n \in 0..BufferSize :
        /\ n <= left
        /\ taken' = taken + n
        /\ \/ n > 0 /\ Hand(Units(taken + 1, taken + n)) /\ left' = left - n /\ UNCHANGED pc
           \/ n > 0 /\ Fail /\ pc' = "response" /\ UNCHANGED left
           \/ n = 0 /\ pc' = "response" /\ UNCHANGED <<servers, deaf, left>>
  BY DEF SendBody, BodyTurn
<1>5. n \in Nat /\ taken + n <= request.length /\ taken + n \in 0..MaxBody /\ taken \in 0..request.length
      /\ taken + n \in 0..request.length
  BY <1>1, <1>3, <1>4, SizeAssumption
<1>6. CASE n > 0 /\ Hand(Units(taken + 1, taken + n)) /\ left' = left - n /\ UNCHANGED pc
  <2>1. Units(taken + 1, taken + n) \in Seq(ServerText)
    <3>1. taken \in Nat /\ n \in Nat /\ taken + n <= MaxBody
      BY <1>1, <1>3, <1>5
    <3> QED BY <3>1, ServerTexts
  <2>2. /\ servers' \in Seq(Seq(ServerText)) /\ Len(servers') = Len(servers)
        /\ servers'[Attempt] = servers[Attempt] \o Units(taken + 1, taken + n)
        /\ \A i \in 1..Len(servers) : i # Attempt => servers'[i] = servers[i]
    BY <1>1, <1>6, <2>1, HandStep
  <2>3. servers'[Attempt] = Handed[taken + n]
    BY <1>1, <1>5, <2>2, HandedGrows DEF TypeOK
  <2>4. DOMAIN servers' = 1..Len(servers) /\ taken' + left' <= request.length
    BY <1>1, <1>4, <1>5, <1>6, <2>2
  <2>5. \A i \in 1..Len(servers) : i < Attempt => servers'[i] \in {<<>>, LineEndsFirst}
    <3> SUFFICES ASSUME NEW i \in 1..Len(servers), i < Attempt PROVE servers'[i] \in {<<>>, LineEndsFirst}
      OBVIOUS
    <3>1. i # Attempt
      BY <1>1
    <3> QED BY <1>1, <2>2, <3>1
  <2>6. \A i \in 1..Len(servers) : servers'[i] \in {<<>>, LineEndsFirst} \cup {Handed[m] : m \in 0..request.length}
    <3> SUFFICES ASSUME NEW i \in 1..Len(servers)
                 PROVE  servers'[i] \in {<<>>, LineEndsFirst} \cup {Handed[m] : m \in 0..request.length}
      OBVIOUS
    <3>1. CASE i = Attempt
      BY <1>5, <2>3, <3>1
    <3>2. CASE i # Attempt
      <4>1. i < Attempt
        BY <1>1, <3>2 DEF Attempt
      <4> QED BY <2>5, <4>1
    <3> QED BY <3>1, <3>2
  <2>7. left' \in 0..(Word - 1)
    BY <1>1, <1>3, <1>4, <1>5, <1>6
  <2> QED BY <1>1, <1>2, <1>4, <1>5, <1>6, <2>2, <2>3, <2>4, <2>5, <2>6, <2>7
          DEF Handing, Unserved, Attempt, AfterRequest
<1>7. CASE ~(n > 0 /\ Hand(Units(taken + 1, taken + n)) /\ left' = left - n /\ UNCHANGED pc)
  <2>1. UNCHANGED <<servers, left>> /\ pc' = "response"
    BY <1>4, <1>7 DEF Fail
  <2> QED BY <1>1, <1>2, <1>4, <1>5, <2>1 DEF Handing, Unserved, Attempt, AfterRequest, TypeOK
<1> QED BY <1>6, <1>7

\* Once the request is sent servers are handed nothing more.
LEMMA HandingQuiet ==
  ASSUME Handing, UNCHANGED <<request, addNewLine, servers, taken, released>>,
         \/ pc \in AfterRequest /\ pc' \in AfterRequest \cup {"drop"}
         \/ pc = "parse" /\ pc' \in {"resolve", "drop"}
         \/ pc = "relay" /\ pc' = "drop"
         \/ pc = "drop" /\ pc' = "done"
  PROVE  Handing'
<1>1. Handed' = Handed /\ LineEndsFirst' = LineEndsFirst /\ Attempt' = Attempt
  BY DEF Handed, LineEndsFirst, Attempt
<1> HIDE DEF Handed, LineEndsFirst
<1> QED BY <1>1 DEF Handing, Unserved, Attempt, AfterRequest

LEMMA ResolveStep == ASSUME TypeOK, Handing, Resolve PROVE Handing' /\ addNewLine' \in BOOLEAN
<1>1. servers = <<>> /\ servers' = <<>> /\ Len(servers) = 0 /\ ~released /\ taken = 0
  BY DEF Resolve, Handing
<1>2. DOMAIN servers = {}
  BY <1>1
<1> QED BY <1>1, <1>2 DEF Handing, Unserved, Attempt, AfterRequest, Resolve, TypeOK

-----------------------------------------------------------------------------
(* The answers servers give.                                               *)

\* A set of numbers that is not empty has a least one.
LEMMA LeastNumber == ASSUME NEW S \in SUBSET Nat, S # {} PROVE \E n \in S : \A m \in S : n <= m
<1> DEFINE R == OpToRel(<, Nat)
<1>1. IsWellFoundedOn(R, Nat)
  BY NatLessThanWellFounded
<1>2. \A x, y \in Nat : y < x => <<y, x>> \in R
  BY DEF OpToRel
<1> HIDE DEF R
<1>3. PICK n \in S : \A m \in S : <<m, n>> \notin R
  BY <1>1, WFMin
<1>4. \A m \in S : ~(m < n)
  BY <1>2, <1>3
<1> QED BY <1>3, <1>4

NextChunk(w, n, size) ==
  LET sent == Len(w) - 2 * (n - 1)
  IN w \o <<Size(size)>> \o Units(sent + 1, sent + size) \o <<EndLine>>

\* What FirstChunks defines, for the first m chunks.
IsWire(f, sizes, m) ==
  f = [n \in 0..m |-> IF n = 0 THEN <<>> ELSE NextChunk(f[n - 1], n, sizes[n])]

LEMMA LongerWire ==
  ASSUME NEW sizes, NEW m \in Nat, NEW f, IsWire(f, sizes, m) PROVE \E g : IsWire(g, sizes, m + 1)
<1> DEFINE g == [n \in 0..(m + 1) |-> IF n = m + 1 THEN NextChunk(f[m], m + 1, sizes[m + 1]) ELSE f[n]]
<1>1. \A n \in 0..m : g[n] = f[n] /\ f[n] = IF n = 0 THEN <<>> ELSE NextChunk(f[n - 1], n, sizes[n])
  BY DEF IsWire
<1>2. g[m + 1] = NextChunk(f[m], m + 1, sizes[m + 1])
  OBVIOUS
<1>3. ASSUME NEW n \in 0..(m + 1) PROVE g[n] = IF n = 0 THEN <<>> ELSE NextChunk(g[n - 1], n, sizes[n])
  <2>1. CASE n = m + 1
    <3>1. n # 0 /\ n - 1 = m /\ m \in 0..m
      BY <2>1
    <3>2. g[n - 1] = f[m]
      BY <1>1, <3>1
    <3> HIDE DEF g
    <3> QED BY <1>2, <2>1, <3>1, <3>2
  <2>2. CASE n # m + 1
    <3>1. n \in 0..m
      BY <2>2
    <3>2. CASE n = 0
      BY <1>1, <3>1, <3>2
    <3>3. CASE n # 0
      <4>1. n - 1 \in 0..m
        BY <3>1, <3>3
      <4>2. g[n] = f[n] /\ g[n - 1] = f[n - 1]
        BY <1>1, <3>1, <4>1
      <4> HIDE DEF g
      <4> QED BY <1>1, <3>1, <3>3, <4>2
    <3> QED BY <3>2, <3>3
  <2> QED BY <2>1, <2>2
<1>4. g = [n \in 0..(m + 1) |-> g[n]]
  OBVIOUS
<1> HIDE DEF g
<1>5. IsWire(g, sizes, m + 1)
  BY <1>3, <1>4 DEF IsWire
<1> QED BY <1>5

\* The definition of FirstChunks has a value, and each step of it adds a chunk.
LEMMA ChunkByChunk ==
  ASSUME NEW sizes, Len(sizes) \in Nat
  PROVE  /\ FirstChunks(sizes)[0] = <<>>
         /\ \A n \in 1..Len(sizes) : FirstChunks(sizes)[n] = NextChunk(FirstChunks(sizes)[n - 1], n, sizes[n])
<1> DEFINE Missing == {m \in Nat : ~ \E f : IsWire(f, sizes, m)}
<1>1. Missing = {}
  <2> SUFFICES ASSUME Missing # {} PROVE FALSE
    OBVIOUS
  <2>1. PICK m \in Missing : \A k \in Missing : m <= k
    BY LeastNumber
  <2>2. CASE m = 0
    <3>1. IsWire([n \in 0..0 |-> <<>>], sizes, 0)
      BY DEF IsWire
    <3> QED BY <2>1, <2>2, <3>1
  <2>3. CASE m # 0
    <3>1. m - 1 \in Nat /\ ~ (m <= m - 1) /\ (m - 1) + 1 = m
      BY <2>3
    <3>2. PICK f : IsWire(f, sizes, m - 1)
      BY <2>1, <3>1
    <3> QED BY <2>1, <3>1, <3>2, LongerWire
  <2> QED BY <2>2, <2>3
<1>2. \E f : IsWire(f, sizes, Len(sizes))
  BY <1>1
<1>3. FirstChunks(sizes) = CHOOSE f : IsWire(f, sizes, Len(sizes))
  BY Zenon DEF FirstChunks, IsWire, NextChunk
<1>4. IsWire(FirstChunks(sizes), sizes, Len(sizes))
  BY <1>2, <1>3
<1> HIDE DEF FirstChunks
<1> QED BY <1>4 DEF IsWire

\* Every chunk of the text is there to its end, and has units.
Whole(w) == \A p \in 1..Len(w), n \in 0..MaxBody : w[p] = Size(n) => n > 0 /\ p + n + 1 <= Len(w)

\* v is w and a chunk of n units after it, t of which are in w.
OneMore(w, t, n, v) ==
  /\ v \in Seq(Tokens) /\ Len(v) = Len(w) + n + 2
  /\ \A p \in 1..Len(w) : v[p] = w[p]
  /\ v[Len(w) + 1] = Size(n) /\ v[Len(w) + n + 2] = EndLine
  /\ \A p \in (Len(w) + 2)..(Len(w) + n + 1) : v[p] = <<"body", t + (p - (Len(w) + 1))>>

LEMMA TokenKinds ==
  /\ \A n \in Nat : ~IsBody(Size(n)) /\ Size(n) # EndLine /\ IsBody(<<"body", n>>)
  /\ \A m, n \in Nat : Size(n) # <<"body", m>> /\ (Size(m) = Size(n) => m = n)
  /\ \A m, n \in Nat : <<"body", m>> = <<"body", n>> => m = n
  /\ ~IsBody(EndLine) /\ \A n \in Nat : EndLine # <<"body", n>>
BY DEF IsBody, Size, EndLine

LEMMA AddChunk ==
  ASSUME MaxBody \in Nat, NEW w, NEW sent, Chunked(w, sent), Whole(w), NEW n \in 0..MaxBody, NEW v,
         OneMore(w, sent[Len(w)], n, v)
  PROVE  \E sentV : /\ Chunked(v, sentV) /\ sentV[Len(v)] = sent[Len(w)] + n
                    /\ n > 0 => Whole(v)
<1> DEFINE L == Len(w)
           t == sent[L]
           s == [p \in 0..(L + n + 2) |-> IF p <= L THEN sent[p] ELSE IF p = L + n + 2 THEN t + n ELSE t + (p - (L + 1))]
<1>1. L \in Nat /\ n \in Nat /\ t \in Nat /\ Len(v) = L + n + 2 /\ sent \in [0..L -> Nat] /\ v \in Seq(Tokens)
  BY LenProperties DEF Chunked, OneMore
<1>more. /\ \A p \in 1..L : v[p] = w[p]
         /\ v[L + 1] = Size(n) /\ v[L + n + 2] = EndLine
         /\ \A p \in (L + 2)..(L + n + 1) : v[p] = <<"body", t + (p - (L + 1))>>
  BY DEF OneMore
<1>before. /\ sent[0] = 0 /\ \A p, q \in 0..L : p <= q => sent[p] <= sent[q]
           /\ L > 0 => w[1] \in Sizes
           /\ \A p \in 1..L : IsBody(w[p]) => w[p] = <<"body", sent[p]>>
           /\ \A p \in 1..L, m \in 0..MaxBody : w[p] = Size(m) =>
                /\ sent[p] = sent[p - 1]
                /\ \A q \in 1..m : p + q <= L => w[p + q] = <<"body", sent[p] + q>>
                /\ p + m + 1 <= L => w[p + m + 1] = EndLine /\ sent[p + m + 1] = sent[p] + m
                /\ p + m + 2 <= L => m > 0 /\ w[p + m + 2] \in Sizes
                /\ m > 0 /\ p + m + 1 <= L
  BY DEF Chunked, Whole
<1>total. t = sent[L]
  OBVIOUS
<1> HIDE DEF L, t
<1>2. /\ \A p \in 0..L : s[p] = sent[p] /\ sent[p] \in Nat /\ sent[p] <= t
      /\ \A p \in (L + 1)..(L + n + 1) : s[p] = t + (p - (L + 1))
      /\ s[L + n + 2] = t + n
  BY <1>1, <1>before, <1>total
<1>3. s \in [0..Len(v) -> Nat] /\ s[0] = 0
  BY <1>1, <1>2, <1>before
<1>4. \A p \in 0..(L + n + 2) : p \in 0..L \/ p \in (L + 1)..(L + n + 1) \/ p = L + n + 2
  BY <1>1
<1> HIDE DEF s
<1>5. \A p, q \in 0..(L + n + 2) : p <= q => s[p] <= s[q]
  <2> SUFFICES ASSUME NEW p \in 0..(L + n + 2), NEW q \in 0..(L + n + 2), p <= q PROVE s[p] <= s[q]
    OBVIOUS
  <2>1. CASE p \in 0..L /\ q \in 0..L
    BY <1>2, <2>1, <1>before
  <2>2. CASE p \in 0..L /\ q \notin 0..L
    <3>1. s[p] <= t /\ s[p] \in Nat
      BY <1>2, <2>2
    <3>2. t <= s[q] /\ s[q] \in Nat
      <4>1. CASE q = L + n + 2
        BY <1>1, <1>2, <4>1
      <4>2. CASE q \in (L + 1)..(L + n + 1)
        BY <1>1, <1>2, <4>2
      <4> QED BY <1>4, <2>2, <4>1, <4>2
    <3> QED BY <1>1, <3>1, <3>2
  <2>3. CASE p \notin 0..L /\ p = L + n + 2
    <3>1. q = p
      BY <1>1, <2>3
    <3> QED BY <1>1, <1>2, <2>3, <3>1
  <2>4. CASE p \in (L + 1)..(L + n + 1)
    <3>1. s[p] = t + (p - (L + 1)) /\ p - (L + 1) <= n
      BY <1>1, <1>2, <2>4
    <3>2. CASE q = L + n + 2
      BY <1>1, <1>2, <3>1, <3>2
    <3>3. CASE q \in (L + 1)..(L + n + 1)
      <4>1. s[q] = t + (q - (L + 1))
        BY <1>2, <3>3
      <4> QED BY <1>1, <3>1, <4>1
    <3>4. q \notin 0..L
      BY <1>1, <2>4
    <3> QED BY <1>4, <3>2, <3>3, <3>4
  <2> QED BY <1>4, <2>1, <2>2, <2>3, <2>4
<1>6. Size(n) \in Sizes /\ v[1] \in Sizes
  <2>1. Size(n) \in Sizes
    BY DEF Sizes
  <2>2. CASE L = 0
    BY <1>1, <2>1, <2>2, <1>more
  <2>3. CASE L > 0
    <3>1. 1 \in 1..L
      BY <1>1, <2>3
    <3> QED BY <2>1, <2>3, <3>1, <1>more, <1>before
  <2> QED BY <1>1, <2>1, <2>2, <2>3
<1>7. \A p \in 1..(L + n + 2) : p \in 1..L \/ p = L + 1 \/ p \in (L + 2)..(L + n + 1) \/ p = L + n + 2
  BY <1>1
<1>8. \A p \in 1..(L + n + 2) : IsBody(v[p]) => v[p] = <<"body", s[p]>>
  <2> SUFFICES ASSUME NEW p \in 1..(L + n + 2), IsBody(v[p]) PROVE v[p] = <<"body", s[p]>>
    OBVIOUS
  <2>1. CASE p \in 1..L
    <3>1. v[p] = w[p] /\ s[p] = sent[p]
      BY <1>1, <1>2, <2>1, <1>more
    <3> QED BY <2>1, <3>1, <1>before
  <2>2. CASE p \in (L + 2)..(L + n + 1)
    <3>1. p \in (L + 1)..(L + n + 1)
      BY <1>1, <2>2
    <3> QED BY <1>2, <1>more, <2>2, <3>1
  <2>3. p # L + 1 /\ p # L + n + 2
    <3>1. ~IsBody(Size(n)) /\ ~IsBody(EndLine)
      BY <1>1, TokenKinds
    <3> QED BY <1>more, <3>1
  <2> QED BY <1>7, <2>1, <2>2, <2>3
<1>9. ASSUME NEW p \in 1..(L + n + 2), NEW c \in 0..MaxBody, v[p] = Size(c)
      PROVE  /\ s[p] = s[p - 1]
             /\ \A q \in 1..c : p + q <= L + n + 2 => v[p + q] = <<"body", s[p] + q>>
             /\ p + c + 1 <= L + n + 2 => v[p + c + 1] = EndLine /\ s[p + c + 1] = s[p] + c
             /\ p + c + 2 <= L + n + 2 => c > 0 /\ v[p + c + 2] \in Sizes
             /\ n > 0 => c > 0 /\ p + c + 1 <= L + n + 2
  <2>1. CASE p \in 1..L
    <3>1. v[p] = w[p] /\ s[p] = sent[p] /\ s[p - 1] = sent[p - 1] /\ p - 1 \in 0..L
      BY <1>1, <1>2, <2>1, <1>more
    <3>2. c > 0 /\ p + c + 1 <= L
      BY <1>9, <2>1, <3>1, <1>before
    <3>3. /\ sent[p] = sent[p - 1]
          /\ \A q \in 1..c : p + q <= L => w[p + q] = <<"body", sent[p] + q>>
          /\ w[p + c + 1] = EndLine /\ sent[p + c + 1] = sent[p] + c
          /\ p + c + 2 <= L => w[p + c + 2] \in Sizes
      BY <1>9, <2>1, <3>1, <3>2, <1>before
    <3>4. p + c + 1 \in 1..L /\ (\A q \in 1..c : p + q \in 1..L /\ p + q <= L)
      BY <1>1, <3>2
    <3>5. v[p + c + 1] = EndLine /\ s[p + c + 1] = s[p] + c
      BY <1>2, <3>1, <3>3, <3>4, <1>more
    <3>6. \A q \in 1..c : v[p + q] = <<"body", s[p] + q>>
      BY <3>1, <3>3, <3>4, <1>more
    <3>7. v[p + c + 2] \in Sizes
      <4>1. CASE p + c + 2 <= L
        <5>1. p + c + 2 \in 1..L
          BY <1>1, <4>1
        <5> QED BY <3>3, <4>1, <5>1, <1>more
      <4>2. CASE ~(p + c + 2 <= L)
        <5>1. p + c + 2 = L + 1
          BY <1>1, <3>2, <4>2
        <5> QED BY <1>6, <5>1, <1>more
      <4> QED BY <4>1, <4>2
    <3>8. s[p] = s[p - 1]
      BY <3>1, <3>3
    <3>9. p + c + 1 <= L + n + 2
      BY <1>1, <3>2
    <3> QED BY <3>2, <3>5, <3>6, <3>7, <3>8, <3>9
  <2>2. CASE p = L + 1
    <3>1. c = n
      BY <1>1, <1>9, <2>2, TokenKinds, <1>more
    <3>2. s[L] = t /\ s[L + 1] = t
      <4>1. L \in 0..L /\ L + 1 \in (L + 1)..(L + n + 1) /\ t + (L + 1 - (L + 1)) = t
        BY <1>1
      <4>2. s[L] = sent[L]
        BY <1>2, <4>1
      <4>3. s[L + 1] = t + (L + 1 - (L + 1))
        BY <1>2, <4>1
      <4> QED BY <1>total, <4>1, <4>2, <4>3
    <3>3. s[p] = s[p - 1]
      BY <1>1, <2>2, <3>2
    <3>4. ASSUME NEW q \in 1..c, p + q <= L + n + 2 PROVE v[p + q] = <<"body", s[p] + q>>
      <4>1. p + q \in (L + 2)..(L + n + 1) /\ (p + q) - (L + 1) = q
        BY <1>1, <2>2, <3>1
      <4>2. v[p + q] = <<"body", t + ((p + q) - (L + 1))>>
        BY <1>more, <4>1
      <4> QED BY <2>2, <3>2, <4>1, <4>2
    <3>5. v[p + c + 1] = EndLine /\ s[p + c + 1] = s[p] + c
      <4>1. p + c + 1 = L + n + 2
        BY <1>1, <2>2, <3>1
      <4> QED BY <1>2, <1>more, <2>2, <3>1, <3>2, <4>1
    <3>6. ~(p + c + 2 <= L + n + 2) /\ (n > 0 => c > 0) /\ p + c + 1 <= L + n + 2
      BY <1>1, <2>2, <3>1
    <3> QED BY <3>3, <3>4, <3>5, <3>6
  <2>3. p # L + n + 2 /\ p \notin (L + 2)..(L + n + 1)
    <3>1. c \in Nat
      BY <1>9
    <3>2. p # L + n + 2
      BY <1>9, <1>more, <3>1, TokenKinds
    <3>3. ASSUME p \in (L + 2)..(L + n + 1) PROVE FALSE
      <4>1. t + (p - (L + 1)) \in Nat
        BY <1>1, <3>3
      <4>2. v[p] = <<"body", t + (p - (L + 1))>>
        BY <1>more, <3>3
      <4> QED BY <1>9, <3>1, <4>1, <4>2, TokenKinds
    <3> QED BY <3>2, <3>3
  <2> QED BY <1>7, <2>1, <2>2, <2>3
<1>10. Chunked(v, s)
  BY <1>1, <1>3, <1>5, <1>6, <1>8, <1>9 DEF Chunked
<1>11. n > 0 => Whole(v)
  BY <1>1, <1>9 DEF Whole
<1>12. s[Len(v)] = sent[Len(w)] + n
  BY <1>1, <1>2 DEF L, t
<1> QED BY <1>10, <1>11, <1>12

\* What a chunk adds to the text.
LEMMA NextChunkIs ==
  ASSUME MaxBody \in Nat, NEW w \in Seq(Tokens), NEW t \in Nat, NEW n \in 0..MaxBody
  PROVE  OneMore(w, t, n, w \o <<Size(n)>> \o Units(t + 1, t + n) \o <<EndLine>>)
<1>1. Tokens \subseteq Parts /\ EndLine \in Tokens /\ Size(n) \in Tokens /\ \A k \in Nat : <<"body", k>> \in Tokens
  BY DEF Tokens, Sizes, Size, EndLine, Parts
<1>2. /\ Units(t + 1, t + n) \in Seq(Parts) /\ Len(Units(t + 1, t + n)) = n /\ n \in Nat
      /\ \A k \in 1..n : Units(t + 1, t + n)[k] = <<"body", t + k>> /\ t + k \in Nat
  <2>1. n \in Nat /\ \A k \in 1..n : t + k \in Nat
    OBVIOUS
  <2> QED BY <2>1, NextUnits
<1> DEFINE u == Units(t + 1, t + n)
           first == w \o <<Size(n)>>
           both == first \o u
           v == both \o <<EndLine>>
<1> HIDE DEF u
<1>3. u \in Seq(Tokens) /\ Len(u) = n /\ \A k \in 1..n : u[k] = <<"body", t + k>>
  <2>1. \A k \in 1..n : u[k] \in Tokens
    BY <1>1, <1>2 DEF u
  <2>2. ASSUME NEW s \in Seq(Parts), Len(s) = n, \A k \in 1..n : s[k] \in Tokens PROVE s \in Seq(Tokens)
    BY <2>2
  <2> QED BY <1>2, <2>1, <2>2 DEF u
<1> HIDE DEF Tokens, EndLine, Size
<1>4. Len(w) \in Nat
  BY LenProperties
<1>5. /\ first \in Seq(Tokens) /\ Len(first) = Len(w) + 1
      /\ \A p \in 1..Len(w) : first[p] = w[p]
      /\ first[Len(w) + 1] = Size(n)
  <2>1. <<Size(n)>> \in Seq(Tokens) /\ Len(<<Size(n)>>) = 1 /\ <<Size(n)>>[1] = Size(n)
    BY <1>1
  <2>2. Len(w) + 1 - Len(w) = 1 /\ Len(w) + 1 \in 1..(Len(w) + 1) /\ ~(Len(w) + 1 <= Len(w))
        /\ \A p \in 1..Len(w) : p \in 1..(Len(w) + 1) /\ p <= Len(w)
    BY <1>4
  <2> QED BY <2>1, <2>2, ConcatProperties
<1> HIDE DEF first
<1>6. /\ both \in Seq(Tokens) /\ Len(both) = Len(w) + 1 + n
      /\ \A p \in 1..(Len(w) + 1) : both[p] = first[p]
      /\ \A p \in (Len(w) + 2)..(Len(w) + n + 1) : both[p] = u[p - (Len(w) + 1)]
  <2>1. /\ \A p \in 1..(Len(w) + 1) : p \in 1..(Len(first) + Len(u)) /\ p <= Len(first)
        /\ \A p \in (Len(w) + 2)..(Len(w) + n + 1) : p \in 1..(Len(first) + Len(u)) /\ ~(p <= Len(first))
    BY <1>2, <1>3, <1>4, <1>5
  <2>2. both \in Seq(Tokens) /\ Len(both) = Len(first) + Len(u)
    BY <1>3, <1>5, ConcatProperties
  <2>3. \A p \in 1..(Len(first) + Len(u)) : both[p] = IF p <= Len(first) THEN first[p] ELSE u[p - Len(first)]
    BY <1>3, <1>5, ConcatProperties
  <2> HIDE DEF both
  <2>4. \A p \in 1..(Len(w) + 1) : both[p] = first[p]
    BY <2>1, <2>3
  <2>5. \A p \in (Len(w) + 2)..(Len(w) + n + 1) : both[p] = u[p - (Len(w) + 1)]
    BY <1>5, <2>1, <2>3
  <2> QED BY <1>3, <1>5, <2>2, <2>4, <2>5
<1> HIDE DEF both
<1>7. /\ v \in Seq(Tokens) /\ Len(v) = Len(w) + n + 2
      /\ \A p \in 1..(Len(w) + n + 1) : v[p] = both[p]
      /\ v[Len(w) + n + 2] = EndLine
  <2>1. <<EndLine>> \in Seq(Tokens) /\ Len(<<EndLine>>) = 1 /\ <<EndLine>>[1] = EndLine
    BY <1>1
  <2>2. /\ \A p \in 1..(Len(w) + n + 1) : p \in 1..(Len(both) + 1) /\ p <= Len(both)
        /\ Len(w) + n + 2 \in 1..(Len(both) + 1) /\ ~(Len(w) + n + 2 <= Len(both))
        /\ Len(w) + n + 2 - Len(both) = 1 /\ Len(both) + 1 = Len(w) + n + 2
    BY <1>2, <1>4, <1>6
  <2> QED BY <1>6, <2>1, <2>2, ConcatProperties
<1> HIDE DEF v
<1>8. \A p \in 1..Len(w) : v[p] = w[p]
  <2>1. \A p \in 1..Len(w) : p \in 1..(Len(w) + n + 1) /\ p \in 1..(Len(w) + 1)
    BY <1>2, <1>4
  <2> QED BY <1>5, <1>6, <1>7, <2>1
<1>9. v[Len(w) + 1] = Size(n)
  <2>1. Len(w) + 1 \in 1..(Len(w) + n + 1) /\ Len(w) + 1 \in 1..(Len(w) + 1)
    BY <1>2, <1>4
  <2> QED BY <1>5, <1>6, <1>7, <2>1
<1>10. ASSUME NEW p \in (Len(w) + 2)..(Len(w) + n + 1) PROVE v[p] = <<"body", t + (p - (Len(w) + 1))>>
  <2>1. p \in 1..(Len(w) + n + 1) /\ p - (Len(w) + 1) \in 1..n
    BY <1>2, <1>4
  <2> QED BY <1>3, <1>6, <1>7, <2>1
<1>11. OneMore(w, t, n, v)
  BY <1>7, <1>8, <1>9, <1>10 DEF OneMore
<1> QED BY <1>11 DEF v, both, first, u

\* The wire of the first n chunks.
Built(w, n) == \E sent : Chunked(w, sent) /\ Whole(w) /\ Len(w) = 2 * n + sent[Len(w)]

LEMMA FirstChunksBuilt ==
  ASSUME MaxBody \in Nat, NEW sizes \in Seq(1..MaxBody), NEW m \in 0..Len(sizes)
  PROVE  Built(FirstChunks(sizes)[m], m)
<1> DEFINE Bad == {n \in 0..Len(sizes) : ~Built(FirstChunks(sizes)[n], n)}
<1>1. Len(sizes) \in Nat
  BY LenProperties
<1>2. /\ FirstChunks(sizes)[0] = <<>>
      /\ \A n \in 1..Len(sizes) : FirstChunks(sizes)[n] = NextChunk(FirstChunks(sizes)[n - 1], n, sizes[n])
  BY <1>1, ChunkByChunk
<1>3. Built(<<>>, 0)
  <2> DEFINE s == [p \in 0..0 |-> 0]
  <2>1. s \in [0..0 -> Nat] /\ s[0] = 0 /\ \A p \in 0..0 : p = 0
    OBVIOUS
  <2> HIDE DEF s
  <2>2. <<>> \in Seq(Tokens) /\ Len(<<>>) = 0
    OBVIOUS
  <2>3. Chunked(<<>>, s) /\ Whole(<<>>)
    BY <2>1, <2>2 DEF Chunked, Whole
  <2> QED BY <2>1, <2>2, <2>3 DEF Built
<1>4. ASSUME NEW n \in 1..Len(sizes), Built(FirstChunks(sizes)[n - 1], n - 1)
      PROVE  Built(FirstChunks(sizes)[n], n)
  <2> DEFINE w == FirstChunks(sizes)[n - 1]
             v == FirstChunks(sizes)[n]
  <2>1. v = NextChunk(w, n, sizes[n])
    BY <1>2
  <2> HIDE DEF w, v
  <2>2. PICK sent : Chunked(w, sent) /\ Whole(w) /\ Len(w) = 2 * (n - 1) + sent[Len(w)]
    BY <1>4 DEF Built, w
  <2>3. w \in Seq(Tokens) /\ Len(w) \in Nat /\ sent[Len(w)] \in Nat
    <3>1. w \in Seq(Tokens) /\ Len(w) \in Nat /\ sent \in [0..Len(w) -> Nat]
      BY <2>2, LenProperties DEF Chunked
    <3>2. Len(w) \in 0..Len(w)
      BY <3>1
    <3> QED BY <3>1, <3>2
  <2>4. sizes[n] \in 1..MaxBody /\ sizes[n] \in 0..MaxBody /\ sizes[n] > 0
    <3>1. sizes[n] \in 1..MaxBody
      BY ElementOfSeq
    <3> QED BY <3>1
  <2>5. OneMore(w, sent[Len(w)], sizes[n], v)
    <3>1. PICK t \in Nat : t = sent[Len(w)] /\ t = Len(w) - 2 * (n - 1)
      BY <2>2, <2>3
    <3>2. PICK size \in 0..MaxBody : size = sizes[n]
      BY <2>4
    <3>3. v = w \o <<Size(size)>> \o Units(t + 1, t + size) \o <<EndLine>>
      BY <2>1, <3>1, <3>2 DEF NextChunk
    <3>4. OneMore(w, t, size, w \o <<Size(size)>> \o Units(t + 1, t + size) \o <<EndLine>>)
      BY <2>3, NextChunkIs
    <3> QED BY <3>1, <3>2, <3>3, <3>4
  <2>6. PICK sentV : Chunked(v, sentV) /\ sentV[Len(v)] = sent[Len(w)] + sizes[n] /\ Whole(v)
    BY <2>2, <2>4, <2>5, AddChunk
  <2>7. Len(v) = 2 * n + sentV[Len(v)]
    <3>1. Len(v) = Len(w) + sizes[n] + 2
      BY <2>5 DEF OneMore
    <3> QED BY <2>2, <2>3, <2>4, <2>6, <3>1
  <2> QED BY <2>6, <2>7 DEF Built, v
<1>5. Bad = {}
  <2> SUFFICES ASSUME Bad # {} PROVE FALSE
    OBVIOUS
  <2>1. PICK n \in Bad : \A k \in Bad : n <= k
    <3>1. Bad \in SUBSET Nat
      BY <1>1
    <3> QED BY <3>1, LeastNumber
  <2>2. n # 0
    BY <1>2, <1>3, <2>1
  <2>3. n \in 1..Len(sizes) /\ n - 1 \in 0..Len(sizes) /\ ~(n <= n - 1)
    BY <1>1, <2>1, <2>2
  <2> QED BY <1>4, <2>1, <2>3
<1> QED BY <1>5

LEMMA ChunkedWireIs ==
  ASSUME NEW sizes \in Chunkings
  PROVE  \E sent : /\ Chunked(ChunkedWire(sizes), sent)
                   /\ \A p \in 0..Len(ChunkedWire(sizes)) : sent[p] <= MaxBody
<1>1. MaxBody \in Nat
  BY SizeAssumption
<1>2. sizes \in Seq(1..MaxBody) /\ Len(ChunkedWire(sizes)) <= 2 * Len(sizes) + 2 + MaxBody
  <2>1. sizes \in SeqOf(1..MaxBody, MaxChunks) /\ Len(ChunkedWire(sizes)) <= 2 * Len(sizes) + 2 + MaxBody
    BY DEF Chunkings, BoundedSeq
  <2>2. PICK m \in 0..MaxChunks : sizes \in [1..m -> 1..MaxBody]
    BY <2>1 DEF SeqOf
  <2>3. ASSUME NEW S, NEW k \in Nat, NEW f \in [1..k -> S] PROVE f \in Seq(S)
    OBVIOUS
  <2>4. sizes \in Seq(1..MaxBody)
    BY <1>1, <2>2, <2>3
  <2> QED BY <2>1, <2>4
<1> DEFINE L == Len(sizes)
           w == FirstChunks(sizes)[L]
           v == ChunkedWire(sizes)
<1>3. L \in Nat /\ L \in 0..L
  BY <1>2, LenProperties
<1>4. Built(w, L)
  BY <1>1, <1>2, <1>3, FirstChunksBuilt
<1>5. v = w \o <<Size(0), EndLine>>
  BY DEF ChunkedWire
<1>6. Len(v) <= 2 * L + 2 + MaxBody
  BY <1>2
<1> HIDE DEF w, v, L
<1>7. PICK sent : Chunked(w, sent) /\ Whole(w) /\ Len(w) = 2 * L + sent[Len(w)]
  BY <1>4 DEF Built
<1>8. w \in Seq(Tokens) /\ Len(w) \in Nat /\ sent \in [0..Len(w) -> Nat]
  BY <1>7, LenProperties DEF Chunked
<1>9. sent[Len(w)] \in Nat
  BY <1>8
<1>10. OneMore(w, sent[Len(w)], 0, v)
  <2>1. <<Size(0), EndLine>> \in Seq(Tokens) /\ Len(<<Size(0), EndLine>>) = 2
        /\ <<Size(0), EndLine>>[1] = Size(0) /\ <<Size(0), EndLine>>[2] = EndLine
    BY <1>1 DEF Tokens, Sizes
  <2> DEFINE e == <<Size(0), EndLine>>
  <2> HIDE DEF e
  <2>2. e \in Seq(Tokens) /\ Len(e) = 2
    BY <2>1 DEF e
  <2>3. e[1] = Size(0) /\ e[2] = EndLine
    BY <2>1 DEF e
  <2>4. v = w \o e
    BY <1>5 DEF e
  <2>5. v \in Seq(Tokens) /\ Len(v) = Len(w) + 2
    <3>1. ASSUME NEW a \in Seq(Tokens), NEW b \in Seq(Tokens)
          PROVE  a \o b \in Seq(Tokens) /\ Len(a \o b) = Len(a) + Len(b)
      BY ConcatProperties
    <3> QED BY <1>8, <2>2, <2>4, <3>1
  <2>6. \A p \in 1..(Len(w) + 2) : v[p] = IF p <= Len(w) THEN w[p] ELSE e[p - Len(w)]
    BY <1>8, <2>2, <2>4, ConcatProperties
  <2>7. \A p \in 1..Len(w) : v[p] = w[p]
    BY <1>8, <2>6
  <2>8. v[Len(w) + 1] = Size(0) /\ v[Len(w) + 2] = EndLine
    <3>1. /\ Len(w) + 1 \in 1..(Len(w) + 2) /\ ~(Len(w) + 1 <= Len(w)) /\ Len(w) + 1 - Len(w) = 1
          /\ Len(w) + 2 \in 1..(Len(w) + 2) /\ ~(Len(w) + 2 <= Len(w)) /\ Len(w) + 2 - Len(w) = 2
      BY <1>8
    <3> QED BY <2>3, <2>6, <3>1
  <2>9. (Len(w) + 2)..(Len(w) + 0 + 1) = {} /\ Len(w) + 0 + 2 = Len(w) + 2
    BY <1>8
  <2> QED BY <2>5, <2>7, <2>8, <2>9 DEF OneMore
<1>11. 0 \in 0..MaxBody
  BY <1>1
<1>12. PICK sentV : Chunked(v, sentV) /\ sentV[Len(v)] = sent[Len(w)] + 0
  BY <1>1, <1>7, <1>10, <1>11, AddChunk
<1>13. Len(v) = Len(w) + 2 /\ Len(v) \in Nat
  BY <1>8, <1>10 DEF OneMore
<1>14. sentV[Len(v)] <= MaxBody
  BY <1>1, <1>3, <1>6, <1>7, <1>8, <1>9, <1>12, <1>13
<1>15. ASSUME NEW p \in 0..Len(v) PROVE sentV[p] <= MaxBody
  <2>1. Len(v) \in 0..Len(v) /\ p <= Len(v)
    BY <1>13
  <2>2. sentV[p] <= sentV[Len(v)] /\ sentV \in [0..Len(v) -> Nat]
    BY <1>12, <2>1 DEF Chunked
  <2> QED BY <1>1, <1>14, <2>1, <2>2
<1> QED BY <1>12, <1>15 DEF v

\* What an answer may be.
LEMMA RepliesAre ==
  ASSUME NEW r \in Replies
  PROVE  /\ r \in Answers /\ Lengths(r)
         /\ r.framing # "chunked" => Plain(r.wire)
         /\ r.framing = "chunked" => \E sent : /\ Chunked(r.wire, sent)
                                               /\ \A p \in 0..Len(r.wire) : sent[p] <= MaxBody
<1>1. MaxBody \in Nat /\ MaxBody \in 0..MaxBody /\ NoLength \in 0..(Word - 1)
  BY Conversions
<1>2. ASSUME NEW m \in 0..MaxBody PROVE Plain(Units(1, m)) /\ Units(1, m) \in Seq(Tokens)
  <2>1. m \in Nat /\ \A k \in 1..m : <<"body", k>> \in Tokens
    BY <1>1 DEF Tokens
  <2>2. Units(1, m) \in Seq(Parts) /\ Len(Units(1, m)) = m /\ \A k \in 1..m : Units(1, m)[k] \in Tokens
    BY <2>1, FirstUnits
  <2>3. ASSUME NEW s \in Seq(Parts), Len(s) = m, \A k \in 1..m : s[k] \in Tokens PROVE s \in Seq(Tokens)
    BY <2>3
  <2> QED BY <2>2, <2>3 DEF Plain
<1>bodies. \A w \in Bodies : Plain(w) /\ w \in Seq(Tokens)
  BY <1>2 DEF Bodies
<1>3. ASSUME NEW sizes \in Chunkings PROVE ChunkedWire(sizes) \in Seq(Tokens)
  BY ChunkedWireIs DEF Chunked
<1>4. ASSUME NEW n \in 0..MaxBody,
             r \in [framing : {"length"}, announced : {n}, length : ContentLength(n), wire : Bodies]
      PROVE  r \in Answers /\ Lengths(r) /\ r.framing = "length" /\ Plain(r.wire)
  <2>1. r = [framing |-> "length", announced |-> n, length |-> r.length, wire |-> r.wire]
    BY <1>4
  <2>2. r.length \in ContentLength(n) /\ r.wire \in Bodies /\ r.announced = n /\ r.framing = "length"
    BY <1>4
  <2>3. r.length \in 0..(Word - 1) /\ r.length <= n /\ (n < Half => r.length = n)
    <3>1. n \in Nat
      BY <1>1
    <3> QED BY <2>2, <3>1, Conversions
  <2> HIDE DEF Bodies, ContentLength
  <2>4. r \in Answers
    BY <1>bodies, <2>1, <2>2, <2>3 DEF Answers
  <2> QED BY <1>bodies, <2>2, <2>3, <2>4 DEF Lengths
<1>5. CASE r \in [framing : {"close"}, announced : {MaxBody}, length : {NoLength}, wire : Bodies]
  <2>1. r = [framing |-> "close", announced |-> MaxBody, length |-> NoLength, wire |-> r.wire] /\ r.wire \in Bodies
    BY <1>5
  <2>2. r \in Answers
    BY <1>1, <1>bodies, <2>1 DEF Answers
  <2>3. r.framing = "close" /\ r.length = NoLength /\ r.announced = MaxBody
    BY <1>5
  <2> QED BY <1>bodies, <2>1, <2>2, <2>3 DEF Lengths
<1>6. CASE r \in [framing : {"chunked"}, announced : {MaxBody}, length : {NoLength},
                  wire : {ChunkedWire(s) : s \in Chunkings}]
  <2>1. PICK sizes \in Chunkings : r.wire = ChunkedWire(sizes)
    BY <1>6
  <2>2. r.framing = "chunked" /\ r.length = NoLength /\ r.announced = MaxBody
    BY <1>6
  <2>3. r.wire \in Seq(Tokens)
    BY <1>3, <2>1
  <2>4. r \in Answers
    <3>1. r = [framing |-> "chunked", announced |-> MaxBody, length |-> NoLength, wire |-> r.wire]
      BY <1>6
    <3> QED BY <1>1, <2>3, <3>1 DEF Answers
  <2> QED BY <2>1, <2>2, <2>4, ChunkedWireIs DEF Lengths
<1>7. CASE r \in UNION {Announcing(n) : n \in 0..MaxBody}
  <2> HIDE DEF Announcing
  <2>1. PICK n \in 0..MaxBody : r \in Announcing(n)
    BY <1>7
  <2>2. r \in Answers /\ Lengths(r) /\ r.framing = "length" /\ Plain(r.wire)
    BY <1>4, <2>1 DEF Announcing
  <2> QED BY <2>2
<1> QED BY <1>5, <1>6, <1>7 DEF Replies

-----------------------------------------------------------------------------
(* What the client is told.                                                *)

\* The steps before an answer is there.
LEMMA NoAnswerYet ==
  ASSUME Answering, UNCHANGED <<request, reply, at>>,
         pc \in {"parse", "resolve", "connect", "newlines", "header", "body", "retry", "response"},
         pc' \in {"resolve", "connect", "newlines", "header", "body", "retry", "response", "relay", "drop"},
         IF request.command = "CONNECT" THEN pc' \in {"resolve", "connect", "relay", "drop"} ELSE pc' # "relay",
         toClient' = <<>> \/ (request.command = "CONNECT" /\ pc' = "relay" /\ toClient' = <<Established>>)
  PROVE  Answering'
<1>1. ~Told' /\ at = 0
  BY DEF Answering, ToldAtPlace, Told
<1>2. ReplyOK'
  BY DEF Answering, ReplyOK, Lengths
<1>text. toClient' \in Seq(Parts)
  <2>1. Established \in Parts
    BY DEF Parts, Established
  <2>2. <<>> \in Seq(Parts) /\ <<Established>> \in Seq(Parts)
    BY <2>1
  <2> QED BY <2>2
<1>3. ToldAtPlace'
  BY <1>1, <1>text DEF Answering, ToldAtPlace, AfterRequest, Told
<1> HIDE DEF Told, Has, Plain, Chunked, HasUnits
<1>4. PlainAnswer'
  BY <1>1 DEF Answering, PlainAnswer
<1>5. ChunkedAnswer'
  BY <1>1 DEF Answering, ChunkedAnswer
<1> QED BY <1>2, <1>3, <1>4, <1>5 DEF Answering

LEMMA ParseResponseStep == ASSUME Answering, ParseResponse PROVE Answering' /\ at' \in 0..Len(reply'.wire)
<1>1. CASE pc' = "drop" /\ UNCHANGED reply
  <2>1. pc = "response" /\ UNCHANGED <<request, at, toClient>>
    BY DEF ParseResponse
  <2>2. toClient = <<>> /\ request.command # "CONNECT" /\ at = 0
    BY <2>1 DEF Answering, ToldAtPlace, AfterRequest
  <2>3. Len(reply.wire) \in Nat
    BY LenProperties DEF Answering, ReplyOK, Answers
  <2> QED BY <1>1, <2>1, <2>2, <2>3, NoAnswerYet
<1>2. CASE pc' = "status" /\ reply' \in Replies
  <2>1. UNCHANGED <<request, at, toClient>> /\ toClient = <<>> /\ at = 0 /\ request.command # "CONNECT"
    BY <1>2 DEF ParseResponse, Answering, ToldAtPlace, AfterRequest
  <2>2. ~Told'
    BY <2>1 DEF Told
  <2>3. /\ ReplyOK'
        /\ reply'.framing # "chunked" => Plain(reply'.wire)
        /\ reply'.framing = "chunked" => \E sent : /\ Chunked(reply'.wire, sent)
                                                   /\ \A p \in 0..Len(reply'.wire) : sent[p] <= MaxBody
    BY <1>2, RepliesAre DEF ReplyOK, Lengths
  <2>text. toClient' \in Seq(Parts)
    BY <2>1
  <2>4. ToldAtPlace'
    BY <1>2, <2>1, <2>2, <2>text DEF ToldAtPlace, AfterRequest
  <2> HIDE DEF Told, Has, Plain, Chunked, HasUnits
  <2>5. PlainAnswer' /\ ChunkedAnswer'
    BY <1>2, <2>2, <2>3 DEF PlainAnswer, ChunkedAnswer
  <2>6. Len(reply'.wire) \in Nat
    BY <2>3, LenProperties DEF ReplyOK, Answers
  <2> QED BY <2>1, <2>3, <2>4, <2>5, <2>6 DEF Answering
<1> QED BY <1>1, <1>2 DEF ParseResponse

\* The client has the status alone.
LEMMA StatusAlone == <<Status>> \o Units(1, 0) = <<Status>>
<1>1. Units(1, 0) = <<>>
  <2>1. Units(1, 0) \in Seq(Parts) /\ Len(Units(1, 0)) = 0
    BY FirstUnits
  <2> QED BY <2>1, EmptySeq
<1>2. <<Status>> \in Seq(Parts)
  BY DEF Parts, Status
<1> QED BY <1>1, <1>2, ConcatEmptySeq

\* A text with the header is none of those without.
LEMMA NotUnserved ==
  ASSUME addNewLine \in BOOLEAN, NEW n \in Nat PROVE Handed[n] \notin {<<>>, LineEndsFirst}
<1>1. Header \in Range(Handed[n]) /\ Header \notin Range(LineEndsFirst)
  BY HandedIs
<1>2. Header \notin Range(<<>>)
  BY DEF Range
<1> HIDE DEF Handed, LineEndsFirst
<1> QED BY <1>1, <1>2

LEMMA SendResponseStep ==
  ASSUME TypeOK, Handing, Answering, SendResponse
  PROVE  Answering' /\ left' \in 0..(Word - 1)
<1>1. /\ pc = "status" /\ UNCHANGED <<request, addNewLine, servers, reply, at>> /\ left' = reply.length
      /\ toClient = <<>> /\ at = 0 /\ request.command # "CONNECT"
  BY DEF SendResponse, Answering, ToldAtPlace, AfterRequest
<1>2. /\ reply \in Answers /\ reply.framing \in {"length", "close", "chunked"}
      /\ reply.framing = "chunked" => reply.length = NoLength
  BY DEF Answering, ReplyOK, Answers, Lengths
<1>3. NoLength > 0 /\ NoLength \in Nat /\ Len(reply.wire) \in Nat /\ reply.length \in 0..(Word - 1)
  BY <1>2, Conversions, LenProperties DEF Answers
<1>4. Attempt > 0 /\ ~Unserved(Attempt)
  <2>1. Attempt > 0 /\ \E n \in 0..request.length : servers[Attempt] = Handed[n]
    BY <1>1 DEF Handing, AfterRequest
  <2>2. PICK n \in 0..request.length : servers[Attempt] = Handed[n]
    BY <2>1
  <2> HIDE DEF Handed, LineEndsFirst
  <2>3. n \in Nat /\ addNewLine \in BOOLEAN
    BY RequestLength DEF TypeOK
  <2> QED BY <2>1, <2>2, <2>3, NotUnserved DEF Unserved
<1>5. Attempt' = Attempt /\ (Unserved(Attempt)' <=> Unserved(Attempt))
  BY <1>1 DEF Attempt, Unserved, LineEndsFirst
<1>6. ReplyOK'
  BY <1>1 DEF Answering, ReplyOK, Lengths
<1>text. <<Status>> \in Seq(Parts) /\ <<>> \in Seq(Parts)
  BY DEF Parts, Status
<1>7. CASE Answer(<<Status>>)
  <2>1. toClient' = <<Status>> /\ "client" \notin deaf'
    <3>1. toClient' = <<>> \o <<Status>> /\ "client" \notin deaf'
      BY <1>1, <1>7 DEF Answer
    <3>2. <<Status>> \in Seq(Parts)
      BY DEF Parts, Status
    <3> QED BY <3>1, <3>2, ConcatEmptySeq
  <2>2. Has(0)' /\ Told'
    BY <1>1, <2>1, StatusAlone DEF Has, Told
  <2>3. pc' = CASE reply.length = 0 -> "drop"
                [] reply.length > 0 /\ reply.framing = "chunked" -> "size"
                [] OTHER -> "data"
    <3>1. toClient' # toClient
      BY <1>1, <2>1
    <3> QED BY <1>7, <3>1 DEF SendResponse, Lost
  <2>4. /\ pc' \in {"drop", "size", "data"}
        /\ pc' = "drop" => reply.length = 0
        /\ pc' = "size" => reply.framing = "chunked"
        /\ pc' = "data" => reply.framing # "chunked"
        /\ reply.framing = "chunked" => pc' = "size"
    BY <1>2, <1>3, <2>3
  <2>5. ToldAtPlace'
    <3> HIDE DEF Told, Attempt, Unserved
    <3> QED BY <1>1, <1>4, <1>5, <1>text, <2>1, <2>2, <2>4 DEF ToldAtPlace, AfterRequest
  <2> HIDE DEF Told, Has, Plain, Chunked
  <2>6. PlainAnswer'
    <3>1. 0 \in 0..at' /\ at' = 0 /\ at' <= reply'.length /\ at' + left' = reply'.length
      BY <1>1, <1>3
    <3>2. reply.framing # "chunked" => Plain(reply.wire)
      BY DEF Answering, PlainAnswer
    <3> QED BY <1>1, <2>2, <2>4, <3>1, <3>2 DEF PlainAnswer
  <2>7. ChunkedAnswer'
    <3> SUFFICES ASSUME reply.framing = "chunked" PROVE ChunkedAnswer'
      BY <1>1 DEF ChunkedAnswer
    <3>1. PICK sent : Chunked(reply.wire, sent) /\ \A p \in 0..Len(reply.wire) : sent[p] <= MaxBody
      BY DEF Answering, ChunkedAnswer
    <3>2. /\ sent[0] = 0 /\ (Len(reply.wire) > 0 => reply.wire[1] \in Sizes)
      BY <3>1 DEF Chunked
    <3>3. pc' = "size"
      BY <2>4
    <3>4. Aligned'
      BY <1>1, <3>2, <3>3 DEF Aligned
    <3>5. 0 \in 0..MaxBody
      BY SizeAssumption
    <3>6. HasUnits(sent)'
      BY <1>1, <2>2, <3>2, <3>4, <3>5 DEF HasUnits
    <3> HIDE DEF HasUnits
    <3> QED BY <1>1, <3>1, <3>6 DEF ChunkedAnswer
  <2> QED BY <1>1, <1>3, <1>6, <2>5, <2>6, <2>7 DEF Answering
<1>8. CASE Lost /\ pc' = "drop"
  <2>1. ~Told' /\ toClient' = <<>>
    BY <1>1, <1>8 DEF Told, Lost
  <2>2. ToldAtPlace'
    BY <1>1, <1>8, <1>text, <2>1 DEF ToldAtPlace, AfterRequest
  <2> HIDE DEF Told, Has, Plain, Chunked, HasUnits
  <2>3. PlainAnswer'
    BY <1>1, <1>8, <2>1 DEF PlainAnswer, Answering
  <2>4. ChunkedAnswer'
    BY <1>1, <2>1 DEF ChunkedAnswer, Answering
  <2> QED BY <1>1, <1>3, <1>6, <2>2, <2>3, <2>4 DEF Answering
<1> QED BY <1>7, <1>8 DEF SendResponse

\* The steps of the transfer loops: the client was told the status before.
Transferring == {"data", "size", "chunk", "endline", "lastline"}

LEMMA StillTold ==
  ASSUME ToldAtPlace, pc \in Transferring, UNCHANGED <<request, addNewLine, servers>>,
         toClient' \in Seq(Parts), toClient' # <<>>, reply'.framing = reply.framing,
         pc' \in {"drop"} \cup (IF pc = "data" THEN {"data"} ELSE Transferring \ {"data"})
  PROVE  ToldAtPlace' /\ Told /\ Told'
<1>1. Told /\ Told' /\ request.command # "CONNECT"
  BY DEF ToldAtPlace, Told, Transferring
<1>2. Attempt' = Attempt /\ (Unserved(Attempt)' <=> Unserved(Attempt))
  BY DEF Attempt, Unserved, LineEndsFirst
<1> HIDE DEF Told, Attempt, Unserved
<1>3. Attempt' > 0 /\ ~Unserved(Attempt)'
  BY <1>1, <1>2 DEF ToldAtPlace
<1>4. reply'.framing = "chunked" <=> pc # "data"
  BY DEF ToldAtPlace, Transferring
<1> QED BY <1>1, <1>3, <1>4 DEF ToldAtPlace, AfterRequest, Transferring

\* A text and another one after it.
LEMMA Joined ==
  ASSUME NEW a \in Seq(Parts), NEW b \in Seq(Parts), NEW c, c = a \o b
  PROVE  /\ c \in Seq(Parts) /\ Len(c) = Len(a) + Len(b)
         /\ \A k \in 1..(Len(a) + Len(b)) : c[k] = IF k <= Len(a) THEN a[k] ELSE b[k - Len(a)]
BY ConcatProperties

LEMMA StatusFirst ==
  ASSUME NEW n \in Nat
  PROVE  \A text : text = <<Status>> \o Units(1, n) =>
           /\ text \in Seq(Parts) /\ Len(text) = n + 1 /\ text[1] = Status /\ text # <<>>
           /\ \A k \in 1..n : text[k + 1] = <<"body", k>>
<1>1. <<Status>> \in Seq(Parts) /\ Len(<<Status>>) = 1 /\ <<Status>>[1] = Status
  BY DEF Parts, Status
<1>2. Units(1, n) \in Seq(Parts) /\ Len(Units(1, n)) = n /\ \A k \in 1..n : Units(1, n)[k] = <<"body", k>>
  BY FirstUnits
<1> DEFINE s == <<Status>>
           u == Units(1, n)
           text == s \o u
<1> HIDE DEF s, u
<1>3. s \in Seq(Parts) /\ u \in Seq(Parts) /\ Len(s) = 1 /\ Len(u) = n /\ text = s \o u
  BY <1>1, <1>2 DEF s, u
<1> HIDE DEF text
<1>joined. /\ text \in Seq(Parts) /\ Len(text) = Len(s) + Len(u)
           /\ \A k \in 1..(Len(s) + Len(u)) : text[k] = IF k <= Len(s) THEN s[k] ELSE u[k - Len(s)]
  BY <1>3, Joined, Zenon
<1>4. text \in Seq(Parts) /\ Len(text) = n + 1
  BY <1>3, <1>joined
<1>5. \A k \in 1..(1 + n) : text[k] = IF k <= 1 THEN s[k] ELSE u[k - 1]
  BY <1>3, <1>joined
<1>6. text[1] = Status
  <2>1. 1 \in 1..(1 + n)
    OBVIOUS
  <2> QED BY <1>1, <1>5, <2>1 DEF s
<1>7. ASSUME NEW k \in 1..n PROVE text[k + 1] = <<"body", k>>
  <2>1. k + 1 \in 1..(1 + n) /\ ~(k + 1 <= 1) /\ k + 1 - 1 = k
    OBVIOUS
  <2> QED BY <1>2, <1>5, <2>1 DEF u
<1>8. text # <<>>
  BY <1>4
<1> QED BY <1>4, <1>6, <1>7, <1>8 DEF text, s, u

\* The client takes the units that follow those it has.
LEMMA AnswerGrows ==
  ASSUME NEW m \in Nat, NEW n \in Nat, Has(m), toClient' = toClient \o Units(m + 1, m + n)
  PROVE  Has(m + n)'
<1>1. <<Status>> \in Seq(Parts)
  BY DEF Parts, Status
<1>2. toClient' = (<<Status>> \o Units(1, m)) \o Units(m + 1, m + n)
  BY DEF Has
<1> QED BY <1>1, <1>2, GrowAfter DEF Has

LEMMA Longer == ASSUME NEW m \in Nat, Has(m) PROVE toClient # <<>>
BY StatusFirst DEF Has

\* transferData().
LEMMA TransferDataStep ==
  ASSUME TypeOK, Answering, TransferData
  PROVE  Answering' /\ left' \in 0..(Word - 1) /\ at' \in 0..Len(reply'.wire)
<1>1. /\ pc = "data" /\ toClient \in Seq(Parts) /\ Turn(1, "drop", "drop") /\ UNCHANGED <<request, addNewLine, servers>>
      /\ ToldAtPlace /\ ReplyOK /\ PlainAnswer
  BY DEF TransferData, Turn, Answering, ToldAtPlace
<1>2. Told /\ reply.framing # "chunked" /\ pc \in Transferring
  BY <1>1 DEF ToldAtPlace, Transferring
<1> DEFINE w == reply.wire
<1>3. /\ reply \in Answers /\ Lengths(reply)
      /\ w \in Seq(Tokens) /\ Len(w) \in Nat /\ reply.length \in 0..(Word - 1) /\ Word \in Nat
      /\ at \in 0..Len(w) /\ left \in 0..(Word - 1)
  BY <1>1, Conversions, LenProperties DEF ReplyOK, TypeOK, Answers
<1> HIDE DEF w, Told, Has, Plain, Chunked, HasUnits
<1>wire. w = reply.wire
  BY DEF w
<1>4. Plain(w) /\ at + left = reply.length /\ at <= reply.length
  BY <1>1, <1>2, <1>wire DEF PlainAnswer
<1>5. PICK m \in 0..at : Has(m) /\ ("client" \notin deaf => m = at)
  BY <1>1, <1>2 DEF PlainAnswer
<1>6. m \in Nat /\ toClient # <<>>
  BY <1>3, <1>5, Longer
<1>7. CASE left = 0 /\ pc' = "drop" /\ UNCHANGED <<reply, at, left, toClient, deaf>>
  <2>1. ToldAtPlace' /\ Told'
    BY <1>1, <1>2, <1>6, <1>7, StillTold
  <2>2. ReplyOK'
    BY <1>1, <1>7 DEF ReplyOK, Lengths
  <2>3. Has(m)' /\ at = reply.length
    BY <1>3, <1>4, <1>5, <1>7 DEF Has
  <2>4. PlainAnswer'
    BY <1>4, <1>5, <1>7, <1>wire, <2>3 DEF PlainAnswer
  <2>5. ChunkedAnswer'
    BY <1>2, <1>7 DEF ChunkedAnswer
  <2> QED BY <1>3, <1>7, <1>wire, <2>1, <2>2, <2>4, <2>5 DEF Answering
<1>8. ASSUME NEW n \in 1..BufferSize,
             /\ n <= left /\ at + n <= Len(w)
             /\ at' = at + n
             /\ \/ Answer(SubSeq(w, at + 1, at + n)) /\ left' = left - 1 * n /\ UNCHANGED pc
                \/ Lost /\ pc' = "drop" /\ UNCHANGED left
             /\ UNCHANGED reply
      PROVE  Answering' /\ left' \in 0..(Word - 1) /\ at' \in 0..Len(reply'.wire)
  <2>1. n \in Nat /\ at' \in 0..Len(reply'.wire) /\ reply' = reply
    BY <1>3, <1>8, <1>wire, SizeAssumption
  <2>2. ReplyOK'
    BY <1>1, <2>1 DEF ReplyOK, Lengths
  <2>3. CASE Answer(SubSeq(w, at + 1, at + n)) /\ left' = left - 1 * n /\ UNCHANGED pc
    <3>1. m = at /\ "client" \notin deaf
      BY <1>5, <2>3 DEF Answer
    <3>2. SubSeq(w, m + 1, m + n) = Units(m + 1, m + n)
      <4>1. \A k \in 1..n : w[m + k] = <<"body", m + k>>
        <5> SUFFICES ASSUME NEW k \in 1..n PROVE w[m + k] = <<"body", m + k>>
          OBVIOUS
        <5>1. m + k \in 1..Len(w)
          BY <1>3, <1>8, <2>1, <3>1
        <5>2. w = Units(1, Len(w))
          BY <1>4 DEF Plain
        <5> QED BY <1>3, <5>1, <5>2, FirstUnits
      <4>2. m + n <= Len(w)
        BY <1>8, <3>1
      <4> QED BY <1>3, <1>6, <2>1, <4>1, <4>2, SubSeqUnits
    <3>3. toClient' = toClient \o Units(m + 1, m + n) /\ deaf' = deaf
      BY <2>3, <3>1, <3>2 DEF Answer
    <3>4. Has(m + n)' /\ m + n \in Nat
      <4>1. m \in Nat /\ n \in Nat /\ m + n \in Nat
        BY <1>6, <2>1
      <4>2. Has(m + n)'
        BY <1>5, <3>3, <4>1, AnswerGrows
      <4> QED BY <4>1, <4>2
    <3>told. toClient' \in Seq(Parts) /\ toClient' # <<>>
      BY <3>4, StatusFirst DEF Has
    <3>5. ToldAtPlace' /\ Told'
      BY <1>1, <1>2, <2>1, <2>3, <3>told, StillTold
    <3>6. /\ at' = m + n /\ at' + left' = reply'.length /\ at' <= reply'.length
          /\ m + n \in 0..at' /\ left' \in 0..(Word - 1)
      BY <1>3, <1>4, <1>6, <1>8, <2>1, <2>3, <3>1
    <3>7. PlainAnswer'
      BY <1>1, <1>4, <1>wire, <2>1, <2>3, <3>4, <3>6 DEF PlainAnswer
    <3>8. ChunkedAnswer'
      BY <1>2, <2>1 DEF ChunkedAnswer
    <3> QED BY <2>1, <2>2, <3>5, <3>6, <3>7, <3>8 DEF Answering
  <2>4. CASE Lost /\ pc' = "drop" /\ UNCHANGED left
    <3>1. toClient' = toClient /\ "client" \in deaf' /\ Has(m)'
      BY <1>5, <2>4 DEF Lost, Has
    <3>2. ToldAtPlace' /\ Told'
      BY <1>1, <1>2, <1>6, <2>1, <2>4, <3>1, StillTold
    <3>3. m \in 0..at' /\ at' <= reply'.length /\ left' \in 0..(Word - 1)
      BY <1>3, <1>4, <1>5, <1>8, <2>1, <2>4
    <3>4. PlainAnswer'
      BY <1>4, <1>wire, <2>1, <2>4, <3>1, <3>3 DEF PlainAnswer
    <3>5. ChunkedAnswer'
      BY <1>2, <2>1 DEF ChunkedAnswer
    <3> QED BY <2>1, <2>2, <3>2, <3>3, <3>4, <3>5 DEF Answering
  <2> QED BY <1>8, <2>3, <2>4
<1>9. CASE left > 0 /\ EndOfReply /\ pc' = "drop"
  <2> DEFINE v == SubSeq(w, 1, at)
  <2>1. /\ reply' = [reply EXCEPT !.wire = v] /\ UNCHANGED <<at, left, toClient, deaf>>
    BY <1>9, <1>wire DEF EndOfReply
  <2>2. v = Units(1, at)
    <3>1. \A k \in 1..at : w[0 + k] = <<"body", 0 + k>>
      <4> SUFFICES ASSUME NEW k \in 1..at PROVE w[0 + k] = <<"body", 0 + k>>
        OBVIOUS
      <4>1. k \in 1..Len(w) /\ 0 + k = k
        BY <1>3
      <4>2. w = Units(1, Len(w))
        BY <1>4 DEF Plain
      <4> QED BY <1>3, <4>1, <4>2, FirstUnits
    <3>2. 0 + at <= Len(w) /\ 0 \in Nat /\ at \in Nat
      BY <1>3
    <3>3. SubSeq(w, 0 + 1, 0 + at) = Units(0 + 1, 0 + at)
      <4>1. w \in Seq(Tokens)
        BY <1>3
      <4> QED BY <3>1, <3>2, <4>1, SubSeqUnits
    <3>4. 0 + 1 = 1 /\ 0 + at = at
      BY <3>2
    <3> QED BY <3>3, <3>4
  <2>3. v \in Seq(Tokens) /\ Len(v) = at /\ Plain(v)
    <3>1. v \in Seq(Tokens) /\ Len(v) = at
      BY <1>3, SubSeqProperties
    <3>2. Len(w) <= MaxBody /\ MaxBody \in Nat
      BY <1>3, <1>4, SizeAssumption DEF Plain
    <3>3. at \in 0..MaxBody
      BY <1>3, <3>2
    <3> QED BY <2>2, <3>1, <3>3 DEF Plain
  <2> HIDE DEF v
  <2>4. reply'.wire = v /\ reply'.framing = reply.framing /\ reply'.length = reply.length /\ ReplyOK'
    BY <1>3, <2>1, <2>3 DEF ReplyOK, Answers, Lengths
  <2>5. ToldAtPlace' /\ Told'
    BY <1>1, <1>2, <1>6, <1>9, <2>1, <2>4, StillTold
  <2>6. Has(m)'
    BY <1>5, <2>1 DEF Has
  <2>7. PlainAnswer'
    BY <1>4, <1>5, <1>9, <2>1, <2>3, <2>4, <2>6 DEF PlainAnswer
  <2>8. ChunkedAnswer'
    BY <1>2, <2>4 DEF ChunkedAnswer
  <2>9. at' \in 0..Len(reply'.wire) /\ left' \in 0..(Word - 1)
    BY <1>3, <2>1, <2>3, <2>4
  <2> QED BY <2>4, <2>5, <2>7, <2>8, <2>9 DEF Answering
<1> QED BY <1>1, <1>7, <1>8, <1>9, <1>wire DEF Turn

\* The units of a chunk are counted one by one.
Counted(w, sent) ==
  \A p \in 1..Len(w), c \in 0..MaxBody : w[p] = Size(c) => \A q \in 0..c :
    p + q <= Len(w) => sent[p + q] = sent[p] + q /\ (q > 0 => w[p + q] = <<"body", sent[p] + q>>)

LEMMA UnitsAfter == ASSUME NEW w, NEW sent, Chunked(w, sent), MaxBody \in Nat PROVE Counted(w, sent)
<1>1. Len(w) \in Nat /\ sent \in [0..Len(w) -> Nat]
  BY LenProperties DEF Chunked
<1> SUFFICES ASSUME NEW p \in 1..Len(w), NEW c \in 0..MaxBody, w[p] = Size(c), NEW q \in 0..c, p + q <= Len(w)
             PROVE  sent[p + q] = sent[p] + q /\ (q > 0 => w[p + q] = <<"body", sent[p] + q>>)
  BY DEF Counted
<1>2. sent[p] \in Nat /\ sent[p + q] \in Nat /\ p + q \in 1..Len(w)
  BY <1>1
<1>3. CASE q = 0
  BY <1>2, <1>3
<1>4. CASE q > 0
  <2>1. q \in 1..c
    BY <1>4
  <2>2. w[p + q] = <<"body", sent[p] + q>>
    BY <2>1 DEF Chunked
  <2>3. w[p + q] = <<"body", sent[p + q]>>
    BY <1>2, <2>2 DEF Chunked, IsBody
  <2>4. sent[p] + q \in Nat
    BY <1>2
  <2> QED BY <1>2, <2>2, <2>3, <2>4, TokenKinds
<1> QED BY <1>3, <1>4

\* The same, for one of them.
LEMMA UnitAt ==
  ASSUME NEW w, NEW sent, Chunked(w, sent), NEW p \in 1..Len(w), NEW c \in 0..MaxBody, w[p] = Size(c),
         NEW q \in 0..c, p + q <= Len(w), MaxBody \in Nat
  PROVE  sent[p + q] = sent[p] + q /\ (q > 0 => w[p + q] = <<"body", sent[p] + q>>)
<1>1. Counted(w, sent)
  BY UnitsAfter
<1> QED BY <1>1 DEF Counted

\* The sizes that were read fit if those read after them do.
LEMMA FitsBefore ==
  ASSUME at \in Nat, at' \in Nat, at <= at', \A p \in 1..at : reply'.wire[p] = reply.wire[p], ReadFits'
  PROVE  ReadFits
<1>1. 1..at \subseteq 1..at'
  OBVIOUS
<1> QED BY <1>1 DEF ReadFits

\* A step that leaves the answer as the server gave it.
LEMMA MoveOn ==
  ASSUME Answering, pc \in Transferring \ {"data"}, pc' \in {"drop"} \cup (Transferring \ {"data"}),
         UNCHANGED <<request, addNewLine, servers, reply>>,
         NEW sent, Chunked(reply.wire, sent), \A p \in 0..Len(reply.wire) : sent[p] <= MaxBody,
         toClient' \in Seq(Parts), toClient' # <<>>, ReadFits' => HasUnits(sent)'
  PROVE  Answering'
<1>1. reply.framing = "chunked" /\ ReplyOK' /\ ToldAtPlace /\ reply' = reply
  BY DEF Answering, ReplyOK, Lengths, ToldAtPlace, Transferring
<1>3. ToldAtPlace'
  BY <1>1, StillTold
<1>4. PlainAnswer'
  BY <1>1 DEF PlainAnswer
<1> HIDE DEF HasUnits, Chunked, ReadFits
<1>5. ChunkedAnswer'
  BY <1>1 DEF ChunkedAnswer
<1> QED BY <1>1, <1>3, <1>4, <1>5 DEF Answering

\* What is left of an answer that was cut off.
LEMMA ChunkedCut ==
  ASSUME NEW w, NEW sent, Chunked(w, sent), NEW k \in 0..Len(w)
  PROVE  /\ Chunked(SubSeq(w, 1, k), [p \in 0..k |-> sent[p]]) /\ Len(SubSeq(w, 1, k)) = k
         /\ \A p \in 1..k : SubSeq(w, 1, k)[p] = w[p]
<1> DEFINE v == SubSeq(w, 1, k)
           s == [p \in 0..k |-> sent[p]]
<1>1. w \in Seq(Tokens) /\ Len(w) \in Nat /\ sent \in [0..Len(w) -> Nat]
  BY LenProperties DEF Chunked
<1>2. v \in Seq(Tokens) /\ Len(v) = k /\ \A p \in 1..k : v[p] = w[p]
  <2>1. v \in Seq(Tokens) /\ Len(v) = k
    BY <1>1, SubSeqProperties
  <2>2. \A p \in 1..k : v[p] = w[1 + p - 1]
    BY <1>1, SubSeqProperties
  <2> HIDE DEF v
  <2> QED BY <2>1, <2>2
<1>3. \A p \in 0..k : s[p] = sent[p] /\ p \in 0..Len(w) /\ sent[p] \in Nat
  BY <1>1
<1>4. s \in [0..k -> Nat]
  BY <1>3
<1>5. \A p \in 1..k : p \in 0..k /\ p \in 1..Len(w) /\ p - 1 \in 0..k
  BY <1>1
<1> HIDE DEF v, s
<1>6. s[0] = 0 /\ \A p, q \in 0..k : p <= q => s[p] <= s[q]
  BY <1>1, <1>3 DEF Chunked
<1>7. Len(v) > 0 => v[1] \in Sizes
  BY <1>1, <1>2 DEF Chunked
<1>8. \A p \in 1..k : IsBody(v[p]) => v[p] = <<"body", s[p]>>
  BY <1>2, <1>3, <1>5 DEF Chunked
<1>9. ASSUME NEW p \in 1..k, NEW n \in 0..MaxBody, v[p] = Size(n)
      PROVE  /\ s[p] = s[p - 1]
             /\ \A q \in 1..n : p + q <= k => v[p + q] = <<"body", s[p] + q>>
             /\ p + n + 1 <= k => v[p + n + 1] = EndLine /\ s[p + n + 1] = s[p] + n
             /\ p + n + 2 <= k => n > 0 /\ v[p + n + 2] \in Sizes
  <2>1. w[p] = Size(n) /\ s[p] = sent[p] /\ s[p - 1] = sent[p - 1] /\ MaxBody \in Nat /\ p \in 1..Len(w)
    BY <1>2, <1>3, <1>5, <1>9, SizeAssumption
  <2>2. /\ sent[p] = sent[p - 1]
        /\ \A q \in 1..n : p + q <= Len(w) => w[p + q] = <<"body", sent[p] + q>>
        /\ p + n + 1 <= Len(w) => w[p + n + 1] = EndLine /\ sent[p + n + 1] = sent[p] + n
        /\ p + n + 2 <= Len(w) => n > 0 /\ w[p + n + 2] \in Sizes
    BY <2>1 DEF Chunked
  <2>3. ASSUME NEW q \in 1..n, p + q <= k PROVE v[p + q] = <<"body", s[p] + q>>
    <3>1. p + q \in 1..k /\ p + q <= Len(w)
      BY <1>1, <2>1, <2>3
    <3> QED BY <1>2, <2>1, <2>2, <3>1
  <2>4. ASSUME p + n + 1 <= k PROVE v[p + n + 1] = EndLine /\ s[p + n + 1] = s[p] + n
    <3>1. p + n + 1 \in 1..k /\ p + n + 1 \in 0..k /\ p + n + 1 <= Len(w)
      BY <1>1, <2>1, <2>4
    <3> QED BY <1>2, <1>3, <2>1, <2>2, <3>1
  <2>5. ASSUME p + n + 2 <= k PROVE n > 0 /\ v[p + n + 2] \in Sizes
    <3>1. p + n + 2 \in 1..k /\ p + n + 2 <= Len(w)
      BY <1>1, <2>1, <2>5
    <3> QED BY <1>2, <2>2, <3>1
  <2> QED BY <2>1, <2>2, <2>3, <2>4, <2>5
<1>10. Chunked(v, s)
  BY <1>2, <1>4, <1>6, <1>7, <1>8, <1>9 DEF Chunked
<1> QED BY <1>2, <1>10 DEF v, s

\* The server sends no more.
LEMMA CutOff ==
  ASSUME TypeOK, Answering, pc \in Transferring \ {"data"}, pc' \in {"drop", "endline"}, EndOfReply,
         UNCHANGED <<request, addNewLine, servers>>
  PROVE  Answering' /\ at' \in 0..Len(reply'.wire)
<1>1. /\ reply.framing = "chunked" /\ Told /\ ToldAtPlace /\ ReplyOK
      /\ reply \in Answers /\ reply.wire \in Seq(Tokens)
      /\ toClient \in Seq(Parts) /\ toClient # <<>>
  BY DEF Answering, ReplyOK, Answers, ToldAtPlace, Told, Transferring
<1>2. PICK sent : /\ Chunked(reply.wire, sent) /\ (\A p \in 0..Len(reply.wire) : sent[p] <= MaxBody)
                  /\ (ReadFits => HasUnits(sent))
  BY <1>1 DEF Answering, ChunkedAnswer
<1>3. PICK k \in 0..Len(reply.wire) : k = at
  BY DEF TypeOK
<1> DEFINE v == SubSeq(reply.wire, 1, k)
           s == [p \in 0..k |-> sent[p]]
<1>4. Chunked(v, s) /\ Len(v) = k /\ \A p \in 1..k : v[p] = reply.wire[p]
  BY <1>2, <1>3, ChunkedCut
<1>5. Len(reply.wire) \in Nat /\ k \in Nat
  BY <1>1, LenProperties
<1>6. (\A p \in 0..k : s[p] <= MaxBody) /\ s[k] = sent[k]
  BY <1>2, <1>5
<1>7. reply' = [reply EXCEPT !.wire = v] /\ UNCHANGED <<at, left, toClient, deaf>>
  BY <1>3 DEF EndOfReply
<1> HIDE DEF v, s
<1>8. v \in Seq(Tokens)
  BY <1>4 DEF Chunked
<1>9. reply'.wire = v /\ reply'.framing = "chunked" /\ ReplyOK'
  BY <1>1, <1>7, <1>8 DEF ReplyOK, Answers, Lengths
<1>12. Aligned'
  BY <1>3, <1>4, <1>7, <1>9 DEF Aligned
<1>13. ASSUME ReadFits' PROVE HasUnits(s)'
  <2>1. ReadFits
    BY <1>3, <1>4, <1>5, <1>7, <1>9, <1>13, FitsBefore
  <2>2. PICK n \in 0..MaxBody :
          /\ Has(n)
          /\ n = 0 \/ \E q \in 1..at : reply.wire[q] = <<"body", n>>
          /\ "client" \notin deaf => n = sent[at]
    BY <1>2, <2>1 DEF HasUnits
  <2>3. Has(n)'
    BY <1>7, <2>2 DEF Has
  <2> QED BY <1>3, <1>4, <1>6, <1>7, <1>9, <1>12, <2>2, <2>3 DEF HasUnits
<1>14. ToldAtPlace'
  <2>1. pc' \in {"drop"} \cup (Transferring \ {"data"}) /\ pc # "data" /\ reply'.framing = reply.framing
    BY <1>1, <1>9 DEF Transferring
  <2> QED BY <1>1, <1>7, <2>1, StillTold
<1>15. PlainAnswer'
  BY <1>9 DEF PlainAnswer
<1> HIDE DEF HasUnits, Chunked, ReadFits
<1>16. ChunkedAnswer'
  BY <1>4, <1>6, <1>9, <1>13 DEF ChunkedAnswer
<1>17. at' \in 0..Len(reply'.wire)
  BY <1>3, <1>4, <1>5, <1>7, <1>9
<1> QED BY <1>9, <1>14, <1>15, <1>16, <1>17 DEF Answering

\* What holds in the loop of transferTrunkedData().
LEMMA InChunks ==
  ASSUME TypeOK, Answering, pc \in Transferring \ {"data"}
  PROVE  /\ reply.wire \in Seq(Tokens) /\ Len(reply.wire) \in Nat
         /\ at \in 0..Len(reply.wire) /\ left \in 0..(Word - 1) /\ MaxBody \in Nat /\ Word \in Nat
         /\ toClient \in Seq(Parts) /\ toClient # <<>>
         /\ \E sent : /\ Chunked(reply.wire, sent) /\ (\A p \in 0..Len(reply.wire) : sent[p] <= MaxBody)
                      /\ (ReadFits => HasUnits(sent))
<1>1. /\ reply.framing = "chunked" /\ Told /\ toClient \in Seq(Parts) /\ toClient # <<>>
      /\ reply.wire \in Seq(Tokens)
  BY DEF Answering, ReplyOK, Answers, ToldAtPlace, Told, Transferring
<1>2. \E sent : /\ Chunked(reply.wire, sent) /\ (\A p \in 0..Len(reply.wire) : sent[p] <= MaxBody)
                /\ (ReadFits => HasUnits(sent))
  BY <1>1 DEF Answering, ChunkedAnswer
<1> QED BY <1>1, <1>2, LenProperties, Conversions DEF TypeOK

\* What the client has stays a text when what was read is added to it.
LEMMA TextGrows ==
  ASSUME NEW text \in Seq(Parts), text # <<>>, NEW w \in Seq(Tokens), NEW from \in Nat, NEW n \in Nat,
         from + n <= Len(w)
  PROVE  text \o SubSeq(w, from + 1, from + n) \in Seq(Parts) /\ text \o SubSeq(w, from + 1, from + n) # <<>>
<1> DEFINE t == SubSeq(w, from + 1, from + n)
<1>1. Tokens \subseteq Parts
  <2>1. \A k \in 0..MaxBody : k \in Nat
    BY Conversions
  <2> QED BY <2>1 DEF Tokens, Sizes, Size, EndLine, Parts
<1>2. t \in Seq(Parts)
  <2>1. \A i \in (from + 1)..(from + n) : w[i] \in Parts
    BY <1>1, ElementOfSeq
  <2> QED BY <2>1, SubSeqProperties
<1> HIDE DEF t
<1>3. text \o t \in Seq(Parts) /\ Len(text \o t) = Len(text) + Len(t) /\ Len(t) \in Nat
  BY <1>2, ConcatProperties, LenProperties
<1>4. Len(text) \in Nat \ {0}
  BY EmptySeq, LenProperties
<1>5. text \o t # <<>>
  BY <1>3, <1>4
<1> QED BY <1>3, <1>5 DEF t

\* The units of a chunk that come in: the client has them next.
LEMMA ChunkUnits ==
  ASSUME TypeOK, Answering, Chunk, ~(left > 0 /\ EndOfReply),
         NEW sent, Chunked(reply.wire, sent), \A p \in 0..Len(reply.wire) : sent[p] <= MaxBody, HasUnits(sent)
  PROVE  HasUnits(sent)'
<1>1. /\ pc = "chunk" /\ Turn(1, "endline", "endline") /\ UNCHANGED <<request, addNewLine, servers>>
      /\ pc \in Transferring \ {"data"}
  BY DEF Chunk, Turn, Transferring
<1> DEFINE w == reply.wire
<1>2. /\ w \in Seq(Tokens) /\ Len(w) \in Nat
      /\ at \in 0..Len(w) /\ left \in 0..(Word - 1) /\ MaxBody \in Nat
  BY <1>1, InChunks
<1>3. Chunked(w, sent) /\ (\A p \in 0..Len(w) : sent[p] <= MaxBody) /\ HasUnits(sent)
  OBVIOUS
<1>4. PICK m \in 0..MaxBody :
        /\ Has(m)
        /\ m = 0 \/ \E q \in 1..at : w[q] = <<"body", m>>
        /\ "client" \notin deaf => m = sent[at] /\ Aligned
  BY <1>3 DEF HasUnits
<1>5. PICK a \in 0..Len(w) : a = at
  BY <1>2
<1> HIDE DEF w
<1>wire. w = reply.wire
  BY DEF w
<1>6. "client" \notin deaf => \E p \in 1..a, c \in 1..MaxBody : w[p] = Size(c) /\ a + left = p + c
  BY <1>1, <1>4, <1>5, <1>wire DEF Aligned
<1>7. CASE left = 0 /\ pc' = "endline" /\ UNCHANGED <<reply, at, left, toClient, deaf>>
  <2>1. Has(m)'
    BY <1>4, <1>7 DEF Has
  <2>2. "client" \notin deaf => \E p \in 1..a, c \in 1..MaxBody : w[p] = Size(c) /\ a = p + c
    BY <1>5, <1>6, <1>7
  <2>3. "client" \notin deaf => Aligned'
    BY <1>5, <1>7, <1>wire, <2>2 DEF Aligned
  <2> QED BY <1>4, <1>7, <1>wire, <2>1, <2>3 DEF HasUnits
<1>8. ASSUME NEW n \in 1..BufferSize,
             /\ n <= left /\ at + n <= Len(w)
             /\ at' = at + n
             /\ \/ Answer(SubSeq(w, at + 1, at + n)) /\ left' = left - 1 * n /\ UNCHANGED pc
                \/ Lost /\ pc' = "endline" /\ UNCHANGED left
             /\ UNCHANGED reply
      PROVE  HasUnits(sent)'
  <2>1. n \in Nat /\ n > 0 /\ a + n \in 1..Len(w) /\ at' = a + n /\ reply' = reply
    BY <1>2, <1>5, <1>8, SizeAssumption
  <2>3. CASE Answer(SubSeq(w, at + 1, at + n)) /\ left' = left - 1 * n /\ UNCHANGED pc
    <3>1. "client" \notin deaf /\ deaf' = deaf /\ toClient' = toClient \o SubSeq(w, a + 1, a + n)
      BY <1>5, <2>3 DEF Answer
    <3>2. PICK p \in 1..a, c \in 1..MaxBody : w[p] = Size(c) /\ a + left = p + c
      BY <1>6, <3>1
    <3>3. m = sent[a] /\ m \in Nat
      BY <1>2, <1>4, <1>5, <3>1
    <3>4. /\ p \in 1..Len(w) /\ c \in 0..MaxBody /\ a - p \in 0..c /\ a - p + n \in 0..c
          /\ p + (a - p) = a /\ p + (a - p + n) = a + n
      BY <1>2, <1>5, <1>8, <2>1, <3>2
    <3>5. sent[p] \in Nat
      <4>1. sent \in [0..Len(w) -> Nat] /\ p \in 0..Len(w)
        BY <1>2, <1>3, <3>4 DEF Chunked
      <4> QED BY <4>1
    <3>units. \A q \in 0..c : p + q <= Len(w) => sent[p + q] = sent[p] + q
      <4>1. Counted(w, sent)
        BY <1>2, <1>3, UnitsAfter
      <4>2. w[p] = Size(c) /\ p \in 1..Len(w) /\ c \in 0..MaxBody
        BY <3>2, <3>4
      <4> QED BY <4>1, <4>2 DEF Counted
    <3>6. m = sent[p] + (a - p)
      <4>1. PICK q \in 0..c : q = a - p
        BY <3>4
      <4>2. p + q = a /\ a <= Len(w)
        BY <1>2, <3>4, <4>1
      <4> QED BY <3>3, <3>units, <4>1, <4>2
    <3>7. ASSUME NEW k \in 1..n PROVE w[a + k] = <<"body", m + k>>
      <4>1. a - p + k \in 0..c /\ a - p + k > 0 /\ p + (a - p + k) = a + k /\ a + k <= Len(w)
        BY <1>2, <2>1, <3>4
      <4>2. w[p + (a - p + k)] = <<"body", sent[p] + (a - p + k)>>
        <5>1. PICK q \in 0..c : q = a - p + k /\ q > 0
          BY <4>1
        <5>2. p \in 1..Len(w) /\ c \in 0..MaxBody /\ w[p] = Size(c) /\ p + q <= Len(w)
          BY <1>2, <3>2, <3>4, <4>1, <5>1
        <5>3. w[p + q] = <<"body", sent[p] + q>>
          BY <1>2, <1>3, <5>1, <5>2, UnitAt
        <5> QED BY <5>1, <5>3
      <4>3. sent[p] + (a - p + k) = m + k
        BY <3>3, <3>4, <3>5, <3>6
      <4> QED BY <4>1, <4>2, <4>3
    <3>8. sent[a + n] = m + n
      <4>1. PICK q \in 0..c : q = a - p + n
        BY <3>4
      <4>2. p + q = a + n /\ p + q <= Len(w)
        BY <1>2, <2>1, <3>4, <4>1
      <4>3. sent[a + n] = sent[p] + q
        BY <3>units, <4>1, <4>2
      <4> QED BY <2>1, <3>3, <3>4, <3>5, <3>6, <4>1, <4>3
    <3>9. SubSeq(w, a + 1, a + n) = Units(m + 1, m + n)
      <4>1. a + n <= Len(w) /\ a \in Nat
        BY <1>2, <2>1
      <4> QED BY <1>2, <2>1, <3>3, <3>7, <4>1, SubSeqUnits
    <3>10. Has(m + n)'
      <4>1. toClient' = toClient \o Units(m + 1, m + n)
        BY <3>1, <3>9
      <4> QED BY <1>4, <2>1, <3>3, <4>1, AnswerGrows
    <3>11. m + n \in 0..MaxBody
      <4>1. sent[a + n] <= MaxBody /\ m + n \in Nat
        BY <1>2, <1>3, <2>1, <3>3
      <4> QED BY <1>2, <3>8, <4>1
    <3>12. \E q \in 1..at' : reply'.wire[q] = <<"body", m + n>>
      <4>1. n \in 1..n /\ a + n \in 1..(a + n)
        BY <1>2, <2>1
      <4>2. w[a + n] = <<"body", m + n>>
        BY <3>7, <4>1
      <4> QED BY <1>wire, <2>1, <4>1, <4>2
    <3>13. Aligned'
      <4>1. left' = left - n /\ at' = a + n /\ left \in Nat /\ a \in Nat /\ p \in Nat /\ c \in Nat
        BY <1>2, <2>1, <2>3
      <4>2. p \in 1..at' /\ at' + left' = p + c
        BY <2>1, <3>2, <4>1
      <4>3. reply'.wire[p] = Size(c)
        BY <1>wire, <2>1, <3>2
      <4> QED BY <1>1, <2>3, <4>2, <4>3 DEF Aligned
    <3> QED BY <2>1, <3>8, <3>10, <3>11, <3>12, <3>13 DEF HasUnits
  <2>4. CASE Lost /\ pc' = "endline" /\ UNCHANGED left
    <3>1. "client" \in deaf' /\ Has(m)'
      BY <1>4, <2>4 DEF Lost, Has
    <3>2. 1..at \subseteq 1..at'
      BY <1>2, <1>5, <2>1
    <3> QED BY <1>4, <1>wire, <2>1, <3>1, <3>2 DEF HasUnits
  <2> QED BY <1>8, <2>3, <2>4
<1> QED BY <1>1, <1>7, <1>8, <1>wire DEF Turn

LEMMA ChunkStep ==
  ASSUME TypeOK, Answering, Chunk
  PROVE  Answering' /\ left' \in 0..(Word - 1) /\ at' \in 0..Len(reply'.wire)
<1>1. /\ pc = "chunk" /\ Turn(1, "endline", "endline") /\ UNCHANGED <<request, addNewLine, servers>>
      /\ pc \in Transferring \ {"data"}
  BY DEF Chunk, Turn, Transferring
<1>2. /\ reply.wire \in Seq(Tokens) /\ Len(reply.wire) \in Nat
      /\ at \in 0..Len(reply.wire) /\ left \in 0..(Word - 1) /\ Word \in Nat
      /\ toClient \in Seq(Parts) /\ toClient # <<>>
  BY <1>1, InChunks
<1>3. PICK sent : /\ Chunked(reply.wire, sent) /\ (\A p \in 0..Len(reply.wire) : sent[p] <= MaxBody)
                  /\ (ReadFits => HasUnits(sent))
  BY <1>1, InChunks
<1>4. CASE left > 0 /\ EndOfReply
  <2>1. at' = at /\ left' = left /\ at \in Nat
    BY <1>2, <1>4 DEF EndOfReply
  <2>2. \A n \in 1..BufferSize : at' # at + n
    BY <2>1, SizeAssumption
  <2>3. pc' = "endline"
    BY <1>1, <1>4, <2>2 DEF Turn
  <2>4. Answering' /\ at' \in 0..Len(reply'.wire)
    BY <1>1, <1>4, <2>3, CutOff
  <2> QED BY <1>2, <2>1, <2>4
<1>5. CASE ~(left > 0 /\ EndOfReply)
  <2>1. /\ pc' \in {"chunk", "endline"} /\ UNCHANGED reply
        /\ \/ UNCHANGED <<at, left, toClient>>
           \/ \E n \in 1..BufferSize :
                /\ n <= left /\ at + n <= Len(reply.wire) /\ at' = at + n
                /\ \/ toClient' = toClient \o SubSeq(reply.wire, at + 1, at + n) /\ left' = left - 1 * n
                   \/ UNCHANGED <<toClient, left>>
    BY <1>1, <1>5 DEF Turn, Answer, Lost
  <2>2. at \in Nat /\ at' \in 0..Len(reply.wire) /\ at <= at' /\ left' \in 0..(Word - 1)
    BY <1>2, <2>1, SizeAssumption
  <2>3. toClient' \in Seq(Parts) /\ toClient' # <<>>
    <3>1. CASE UNCHANGED toClient
      BY <1>2, <3>1
    <3>2. ASSUME NEW n \in 1..BufferSize, at + n <= Len(reply.wire),
                 toClient' = toClient \o SubSeq(reply.wire, at + 1, at + n)
          PROVE  toClient' \in Seq(Parts) /\ toClient' # <<>>
      <4>1. n \in Nat
        BY SizeAssumption
      <4> QED BY <1>2, <2>2, <3>2, <4>1, TextGrows
    <3> QED BY <2>1, <3>1, <3>2
  <2>4. ASSUME ReadFits' PROVE HasUnits(sent)'
    <3>1. ReadFits
      BY <2>1, <2>2, <2>4, FitsBefore
    <3> QED BY <1>3, <1>5, <3>1, ChunkUnits
  <2>5. pc' \in {"drop"} \cup (Transferring \ {"data"})
    BY <2>1 DEF Transferring
  <2> HIDE DEF ReadFits, HasUnits, Chunked
  <2>6. Answering'
    BY <1>1, <1>3, <2>1, <2>3, <2>4, <2>5, MoveOn
  <2> QED BY <2>1, <2>2, <2>6
<1> QED BY <1>4, <1>5

\* What a part of a chunked answer is.
LEMMA PartKinds ==
  ASSUME MaxBody \in Nat
  PROVE  /\ \A token \in Tokens : token[1] = "size" => token[2] \in 0..MaxBody
         /\ \A token \in Sizes : \E c \in 0..MaxBody : token = Size(c) /\ token[1] = "size" /\ token[2] = c
         /\ EndLine[1] = "end" /\ \A n \in Nat : <<"body", n>>[1] = "body"
BY DEF Tokens, Sizes, Size, EndLine

\* Nothing was read if the answer is where it was, but for the position.
LEMMA UnitsKept ==
  ASSUME NEW sent, NEW m \in 0..MaxBody, MaxBody \in Nat, Has(m),
         m = 0 \/ \E q \in 1..at : reply.wire[q] = <<"body", m>>,
         UNCHANGED <<reply, toClient, deaf>>, at \in Nat, at' \in Nat, at <= at',
         "client" \notin deaf => m = sent[at'] /\ Aligned'
  PROVE  HasUnits(sent)'
<1>1. Has(m)' /\ 1..at \subseteq 1..at'
  BY DEF Has
<1> QED BY <1>1 DEF HasUnits

\* The size of a chunk.
LEMMA ChunkSizeStep ==
  ASSUME TypeOK, Answering, ChunkSize
  PROVE  Answering' /\ left' \in 0..(Word - 1) /\ at' \in 0..Len(reply'.wire)
<1>1. /\ pc = "size" /\ UNCHANGED <<request, addNewLine, servers>> /\ pc \in Transferring \ {"data"}
  BY DEF ChunkSize, Transferring
<1>2. /\ reply.wire \in Seq(Tokens) /\ Len(reply.wire) \in Nat
      /\ at \in 0..Len(reply.wire) /\ left \in 0..(Word - 1) /\ MaxBody \in Nat /\ Word \in Nat
      /\ toClient \in Seq(Parts) /\ toClient # <<>>
  BY <1>1, InChunks
<1>3. PICK sent : /\ Chunked(reply.wire, sent) /\ (\A p \in 0..Len(reply.wire) : sent[p] <= MaxBody)
                  /\ (ReadFits => HasUnits(sent))
  BY <1>1, InChunks
<1>5. CASE EndOfReply /\ pc' = "drop"
  <2>1. Answering' /\ at' \in 0..Len(reply'.wire)
    BY <1>1, <1>5, CutOff
  <2> QED BY <1>2, <1>5, <2>1 DEF EndOfReply
<1>6. ASSUME NEW p \in LineEnds,
             /\ at' = p /\ left' \in SizesIn(p)
             /\ pc' = IF left' = 0 THEN "lastline" ELSE "chunk"
             /\ UNCHANGED <<reply, toClient, deaf>>
      PROVE  Answering' /\ left' \in 0..(Word - 1) /\ at' \in 0..Len(reply'.wire)
  <2>1. /\ p \in (at + 1)..Len(reply.wire) /\ at + 1 \in 1..Len(reply.wire) /\ p \in 1..Len(reply.wire)
        /\ EndsLine(reply.wire[p]) /\ \A q \in (at + 1)..(p - 1) : ~EndsLine(reply.wire[q])
    BY <1>2 DEF LineEnds
  <2>2. left' \in 0..(Word - 1)
    <3>1. CASE reply.wire[at + 1][1] = "size"
      <4>1. reply.wire[at + 1] \in Tokens
        BY <1>2, <2>1, ElementOfSeq
      <4>2. reply.wire[at + 1][2] \in Nat
        BY <1>2, <3>1, <4>1, PartKinds
      <4>3. left' \in ChunkSizes(reply.wire[at + 1][2])
        BY <1>6, <3>1 DEF SizesIn
      <4> QED BY <4>2, <4>3, Conversions
    <3>2. CASE reply.wire[at + 1][1] # "size"
      <4>1. left' \in {0} \cup 0..(Word - 1)
        BY <1>6, <3>2 DEF SizesIn
      <4> QED BY <4>1, Conversions
    <3> QED BY <3>1, <3>2
  <2>3. pc' \in {"drop"} \cup (Transferring \ {"data"}) /\ pc' \in {"lastline", "chunk"}
    BY <1>6 DEF Transferring
  <2>4. at \in Nat /\ at' \in Nat /\ at <= at'
    BY <1>2, <1>6, <2>1
  <2>5. ASSUME ReadFits' PROVE HasUnits(sent)'
    <3>1. ReadFits
      BY <1>6, <2>4, <2>5, FitsBefore
    <3>2. PICK m \in 0..MaxBody :
            /\ Has(m)
            /\ m = 0 \/ \E q \in 1..at : reply.wire[q] = <<"body", m>>
            /\ "client" \notin deaf => m = sent[at] /\ Aligned
      BY <1>3, <3>1 DEF HasUnits
    <3>4. ASSUME "client" \notin deaf PROVE m = sent[at'] /\ Aligned'
      <4>1. reply.wire[at + 1] \in Sizes
        BY <1>1, <1>2, <3>2, <2>1, <3>4 DEF Aligned
      <4>2. PICK c \in 0..MaxBody : /\ reply.wire[at + 1] = Size(c) /\ reply.wire[at + 1][1] = "size"
                                    /\ reply.wire[at + 1][2] = c
        BY <1>2, <4>1, PartKinds
      <4>3. p = at + 1
        <5>1. EndsLine(reply.wire[at + 1])
          BY <4>2 DEF EndsLine
        <5>2. ~(at + 1 \in (at + 1)..(p - 1))
          BY <2>1, <5>1
        <5> QED BY <1>2, <2>1, <5>2
      <4>4. reply'.wire[p] = Size(c) /\ p \in 1..at' /\ at' = p
        BY <1>2, <1>6, <2>1, <4>2, <4>3
      <4>left. left' = c
        <5>1. c < Word
          BY <2>5, <4>4 DEF ReadFits
        <5>2. left' \in ChunkSizes(c) /\ c \in Nat
          BY <1>2, <1>6, <4>2 DEF SizesIn
        <5> QED BY <5>1, <5>2, Conversions
      <4>5. sent[p] = sent[at]
        <5>1. p - 1 = at
          BY <1>2, <4>3
        <5>2. sent[p] = sent[p - 1]
          BY <1>3, <2>1, <4>2, <4>3 DEF Chunked
        <5> QED BY <5>1, <5>2
      <4>6. Aligned'
        <5>1. CASE c = 0
          BY <1>6, <2>1, <4>4, <4>left, <5>1 DEF Aligned
        <5>2. CASE c # 0
          <6>1. c \in 1..MaxBody /\ pc' = "chunk" /\ at' + left' = p + c
            BY <1>2, <1>6, <4>4, <4>left, <5>2
          <6> QED BY <4>4, <4>left, <6>1 DEF Aligned
        <5> QED BY <5>1, <5>2
      <4> QED BY <3>2, <1>6, <3>4, <4>5, <4>6
    <3> QED BY <1>2, <1>6, <2>4, <3>2, <3>4, UnitsKept
  <2>text. toClient' \in Seq(Parts) /\ toClient' # <<>>
    BY <1>2, <1>6
  <2> HIDE DEF ReadFits, HasUnits, Chunked
  <2>6. Answering'
    BY <1>1, <1>3, <1>6, <2>3, <2>5, <2>text, MoveOn
  <2> QED BY <1>2, <1>6, <2>1, <2>2, <2>6
<1> QED BY <1>5, <1>6 DEF ChunkSize

\* The line end after a chunk.
LEMMA ChunkEndStep ==
  ASSUME TypeOK, Answering, ChunkEnd
  PROVE  Answering' /\ left' \in 0..(Word - 1) /\ at' \in 0..Len(reply'.wire)
<1>1. /\ pc \in {"endline", "lastline"} /\ UNCHANGED <<request, addNewLine, servers>>
      /\ pc \in Transferring \ {"data"}
  BY DEF ChunkEnd, Transferring
<1>2. /\ reply.wire \in Seq(Tokens) /\ Len(reply.wire) \in Nat
      /\ at \in 0..Len(reply.wire) /\ left \in 0..(Word - 1) /\ MaxBody \in Nat /\ Word \in Nat
      /\ toClient \in Seq(Parts) /\ toClient # <<>>
  BY <1>1, InChunks
<1>3. PICK sent : /\ Chunked(reply.wire, sent) /\ (\A p \in 0..Len(reply.wire) : sent[p] <= MaxBody)
                  /\ (ReadFits => HasUnits(sent))
  BY <1>1, InChunks
<1>5. CASE EndOfReply /\ pc' = "drop"
  <2>1. Answering' /\ at' \in 0..Len(reply'.wire)
    BY <1>1, <1>5, CutOff
  <2> QED BY <1>2, <1>5, <2>1 DEF EndOfReply
<1>6. ASSUME NEW p \in LineEnds,
             /\ at' = p
             /\ pc' = IF EmptyLine(p) /\ pc = "endline" THEN "size" ELSE "drop"
             /\ UNCHANGED <<reply, left, toClient, deaf>>
      PROVE  Answering' /\ left' \in 0..(Word - 1) /\ at' \in 0..Len(reply'.wire)
  <2>1. /\ p \in (at + 1)..Len(reply.wire) /\ at + 1 \in 1..Len(reply.wire) /\ p \in 1..Len(reply.wire)
        /\ EndsLine(reply.wire[p]) /\ \A q \in (at + 1)..(p - 1) : ~EndsLine(reply.wire[q])
    BY <1>2 DEF LineEnds
  <2>2. pc' \in {"drop"} \cup (Transferring \ {"data"}) /\ pc' \in {"drop", "size"}
    BY <1>6 DEF Transferring
  <2>3. at \in Nat /\ at' \in Nat /\ at <= at'
    BY <1>2, <1>6, <2>1
  <2>4. ASSUME ReadFits' PROVE HasUnits(sent)'
    <3>1. ReadFits
      BY <1>6, <2>3, <2>4, FitsBefore
    <3>2. PICK m \in 0..MaxBody :
            /\ Has(m)
            /\ m = 0 \/ \E q \in 1..at : reply.wire[q] = <<"body", m>>
            /\ "client" \notin deaf => m = sent[at] /\ Aligned
      BY <1>3, <3>1 DEF HasUnits
    <3>3. ASSUME "client" \notin deaf PROVE m = sent[at'] /\ Aligned'
      <4>1. m = sent[at] /\ Aligned
        BY <3>2, <3>3
      <4>2. PICK s \in 1..at, c \in 0..MaxBody :
              reply.wire[s] = Size(c) /\ at = s + c /\ (pc = "lastline" => c = 0) /\ (pc = "endline" => c > 0)
        <5>1. CASE pc = "lastline"
          <6>1. at \in 1..at /\ reply.wire[at] = Size(0) /\ 0 \in 0..MaxBody /\ at = at + 0
            BY <1>2, <4>1, <5>1 DEF Aligned
          <6> QED BY <5>1, <6>1
        <5>2. CASE pc = "endline"
          <6>1. at < Len(reply.wire)
            BY <1>2, <2>1
          <6>2. \E s \in 1..at, c \in 1..MaxBody : reply.wire[s] = Size(c) /\ at = s + c
            BY <4>1, <5>2, <6>1 DEF Aligned
          <6>3. PICK s \in 1..at, c \in 1..MaxBody : reply.wire[s] = Size(c) /\ at = s + c
            BY <6>2
          <6>4. c \in 0..MaxBody /\ c > 0
            BY <1>2
          <6> QED BY <5>2, <6>3, <6>4
        <5> QED BY <1>1, <5>1, <5>2
      <4>3. s \in 1..Len(reply.wire) /\ s + c + 1 = at + 1 /\ s + c + 1 <= Len(reply.wire) /\ s + c + 2 = at + 2
        BY <1>2, <2>1, <4>2
      <4>4. /\ reply.wire[at + 1] = EndLine /\ sent[at + 1] = sent[s] + c
            /\ at + 2 <= Len(reply.wire) => c > 0 /\ reply.wire[at + 2] \in Sizes
        BY <1>3, <4>2, <4>3 DEF Chunked
      <4>5. p = at + 1
        <5>1. EndsLine(reply.wire[at + 1])
          BY <1>2, <4>4, PartKinds DEF EndsLine
        <5>2. ~(at + 1 \in (at + 1)..(p - 1))
          BY <2>1, <5>1
        <5> QED BY <1>2, <2>1, <5>2
      <4>6. sent[at] = sent[s] + c
        <5>1. c \in 0..c /\ s + c <= Len(reply.wire)
          BY <1>2, <4>2
        <5> QED BY <1>2, <1>3, <4>2, <4>3, <5>1, UnitAt
      <4>7. m = sent[at']
        BY <1>6, <4>1, <4>4, <4>5, <4>6
      <4>8. EmptyLine(p)
        BY <1>2, <4>4, <4>5, PartKinds DEF EmptyLine
      <4>9. CASE pc = "endline"
        <5>1. pc' = "size" /\ at' = at + 1 /\ reply' = reply
          BY <1>6, <4>5, <4>8, <4>9
        <5>2. ASSUME at' < Len(reply'.wire) PROVE reply'.wire[at' + 1] \in Sizes
          <6>1. at + 2 <= Len(reply.wire) /\ at' + 1 = at + 2
            BY <1>2, <5>1, <5>2
          <6> QED BY <4>4, <5>1, <6>1
        <5>3. Aligned'
          BY <5>1, <5>2 DEF Aligned
        <5> QED BY <4>7, <5>3
      <4>10. CASE pc = "lastline"
        <5>1. pc' = "drop" /\ at' = at + 1 /\ reply' = reply /\ c = 0
          BY <1>6, <4>2, <4>5, <4>10
        <5>2. at' = Len(reply'.wire)
          BY <1>2, <2>1, <4>4, <5>1
        <5>3. Aligned'
          BY <5>1, <5>2 DEF Aligned
        <5> QED BY <4>7, <5>3
      <4> QED BY <1>1, <4>9, <4>10
    <3> QED BY <1>2, <1>6, <2>3, <3>2, <3>3, UnitsKept
  <2>text. toClient' \in Seq(Parts) /\ toClient' # <<>>
    BY <1>2, <1>6
  <2> HIDE DEF ReadFits, HasUnits, Chunked
  <2>5. Answering'
    BY <1>1, <1>3, <1>6, <2>2, <2>4, <2>text, MoveOn
  <2> QED BY <1>2, <1>6, <2>1, <2>5
<1> QED BY <1>5, <1>6 DEF ChunkEnd

-----------------------------------------------------------------------------
(* The invariant.                                                          *)

\* The type of what each step leaves, from its parts.
LEMMA TypeStep ==
  ASSUME TypeOK, pc' \in Places, UNCHANGED request, addNewLine' \in BOOLEAN,
         servers' \in Seq(Seq(ServerText)), taken' \in 0..MaxBody, left' \in 0..(Word - 1),
         at' \in 0..Len(reply'.wire), deaf' \subseteq {"client", "remote"}, OpenNow',
         released' \in BOOLEAN, closed' \in BOOLEAN
  PROVE  TypeOK'
<1>1. Len(servers') \in Nat
  BY LenProperties
<1>2. open' \subseteq 0..Len(servers')
  BY <1>1 DEF OpenNow, Attempt
<1> QED BY <1>2 DEF TypeOK, ServerText

\* The steps that open no socket, and those that do.
LEMMA OpenKept ==
  ASSUME OpenNow, pc # "done", UNCHANGED <<open, closed>>, Len(servers') = Len(servers) PROVE OpenNow'
BY DEF OpenNow, Attempt

LEMMA OpenReach ==
  ASSUME OpenNow, pc \in {"connect", "retry"}, NEW kept \in SUBSET {0}, Reach(kept),
         Len(servers') = Len(servers) + 1
  PROVE  OpenNow'
<1>1. ~closed /\ closed' = closed
  BY DEF OpenNow, Reach
<1>2. open' \subseteq {0, Len(servers')}
  BY DEF Reach, Attempt
<1> QED BY <1>1, <1>2 DEF OpenNow, Attempt

LEMMA InitIInv == Init => IInv
<1> SUFFICES ASSUME Init PROVE IInv
  OBVIOUS
<1>1. /\ pc = "parse" /\ request \in Requests /\ addNewLine = FALSE /\ servers = <<>> /\ taken = 0
      /\ reply = [framing |-> "length", announced |-> 0, length |-> 0, wire |-> <<>>] /\ at = 0 /\ left = 0
      /\ toClient = <<>> /\ deaf = {} /\ open = {0} /\ released = FALSE /\ closed = FALSE
  BY DEF Init, NoReply
<1>2. MaxBody \in Nat /\ Half \in Nat /\ Len(servers) = 0 /\ DOMAIN servers = {} /\ Len(reply.wire) = 0
  BY <1>1, Conversions
<1>3. 0 \in 0..MaxBody /\ 0 \in 0..(Word - 1) /\ at \in 0..Len(reply.wire) /\ open \subseteq 0..Len(servers)
  BY <1>1, <1>2, Conversions
<1>4. servers \in Seq(Seq(ServerText))
  BY <1>1
<1>5. TypeOK
  BY <1>1, <1>3, <1>4 DEF TypeOK, Places, ServerText
<1>6. Handing
  BY <1>1, <1>2 DEF Handing, AfterRequest
<1>7. OpenNow
  BY <1>1, <1>2 DEF OpenNow, Attempt
<1>8. ReplyOK
  <2>1. <<>> \in Seq(Tokens)
    OBVIOUS
  <2> QED BY <1>1, <1>2, <1>3, <2>1 DEF ReplyOK, Answers, Lengths
<1>9. ToldAtPlace
  <2>1. toClient \in Seq(Parts)
    BY <1>1
  <2> QED BY <1>1, <2>1 DEF ToldAtPlace, AfterRequest, Told
<1>10. Plain(reply.wire)
  <2>1. Units(1, 0) \in Seq(Parts) /\ Len(Units(1, 0)) = 0
    BY FirstUnits
  <2>2. Units(1, 0) = <<>>
    BY <2>1, EmptySeq
  <2> QED BY <1>1, <1>2, <1>3, <2>2 DEF Plain
<1>11. ~Told
  BY <1>1 DEF Told
<1> HIDE DEF Told, Plain, Has
<1>12. PlainAnswer /\ ChunkedAnswer
  BY <1>1, <1>10, <1>11 DEF PlainAnswer, ChunkedAnswer
<1> QED BY <1>5, <1>6, <1>7, <1>8, <1>9, <1>12 DEF IInv, Answering

\* Sending the request.
LEMMA RequestStep ==
  ASSUME IInv, ParseRequest \/ Resolve \/ Connect \/ Retry \/ AddNewLine \/ SendHeader \/ SendBody
  PROVE  IInv'
<1>1. /\ TypeOK /\ Handing /\ OpenNow /\ Answering
      /\ servers \in Seq(Seq(ServerText)) /\ ServerText \subseteq Parts /\ Len(servers) \in Nat
  BY ServerTexts, LenProperties DEF IInv, TypeOK, ServerText
<1>2. /\ addNewLine \in BOOLEAN /\ taken \in 0..MaxBody /\ left \in 0..(Word - 1)
      /\ at \in 0..Len(reply.wire) /\ deaf \subseteq {"client", "remote"}
      /\ released \in BOOLEAN /\ closed \in BOOLEAN
  BY <1>1 DEF TypeOK
<1>3. CASE ParseRequest
  <2>1. /\ pc = "parse" /\ pc' \in {"resolve", "drop"}
        /\ UNCHANGED <<request, addNewLine, servers, taken, reply, at, left, toClient, deaf, open, released, closed>>
    BY <1>3 DEF ParseRequest
  <2>2. Handing' /\ OpenNow'
    BY <1>1, <2>1, HandingQuiet, OpenKept
  <2>3. toClient = <<>>
    BY <1>1, <2>1 DEF Answering, ToldAtPlace
  <2>4. Answering'
    BY <1>1, <2>1, <2>3, NoAnswerYet
  <2>5. TypeOK'
    BY <1>1, <1>2, <2>1, <2>2, TypeStep DEF Places
  <2> QED BY <2>2, <2>4, <2>5 DEF IInv
<1>4. CASE Resolve
  <2>1. /\ pc = "resolve" /\ pc' = "connect"
        /\ UNCHANGED <<request, servers, taken, reply, at, left, toClient, deaf, open, released, closed>>
    BY <1>4 DEF Resolve
  <2>2. Handing' /\ OpenNow' /\ addNewLine' \in BOOLEAN
    BY <1>1, <1>4, <2>1, ResolveStep, OpenKept
  <2>3. toClient = <<>>
    BY <1>1, <2>1 DEF Answering, ToldAtPlace
  <2>4. Answering'
    BY <1>1, <2>1, <2>3, NoAnswerYet
  <2>5. TypeOK'
    BY <1>1, <1>2, <2>1, <2>2, TypeStep DEF Places
  <2> QED BY <2>2, <2>4, <2>5 DEF IInv
<1>5. CASE Connect \/ Retry
  <2>1. PICK kept \in SUBSET {0} : /\ Reach(kept) /\ pc \in {"connect", "retry"}
                                   /\ UNCHANGED <<request, addNewLine, taken, reply, at, left, closed>>
                                   /\ \/ toClient' = <<>>
                                      \/ pc' = "relay" /\ toClient' = <<Established>>
    <3>1. CASE Connect
      <4>1. Len(servers) = 0
        BY <1>1, <3>1 DEF Handing, Connect
      <4>2. open \in SUBSET {0}
        BY <1>1, <4>1 DEF OpenNow, Attempt
      <4>3. PICK kept \in SUBSET {0} : kept = open
        BY <4>2
      <4>4. Reach(kept) /\ pc = "connect" /\ toClient' \in IF pc' = "relay" THEN {<<>>, <<Established>>} ELSE {<<>>}
        BY <3>1, <4>3 DEF Connect, Reach
      <4> QED BY <4>4 DEF Reach
    <3>2. CASE Retry
      <4>1. open \ {Attempt} \in SUBSET {0}
        BY <1>1 DEF OpenNow
      <4>2. PICK kept \in SUBSET {0} : kept = open \ {Attempt}
        BY <4>1
      <4>3. Reach(kept) /\ pc = "retry" /\ UNCHANGED toClient
        BY <3>2, <4>2 DEF Retry, Reach
      <4>4. toClient = <<>>
        BY <1>1, <4>3 DEF Answering, ToldAtPlace
      <4> QED BY <4>3, <4>4 DEF Reach
    <3> QED BY <1>5, <3>1, <3>2
  <2>2. Handing' /\ servers' \in Seq(Seq(ServerText)) /\ Len(servers') = Len(servers) + 1
    BY <1>1, <2>1, ReachStep
  <2>3. OpenNow'
    BY <1>1, <2>1, <2>2, OpenReach
  <2>4. /\ pc' \in {"relay", "newlines", "header", "drop"}
        /\ pc' = "relay" => request.command = "CONNECT"
        /\ pc' \in {"newlines", "header"} => request.command # "CONNECT"
        /\ deaf' = deaf \ {"remote"}
        /\ released' = released \/ released' = TRUE
    BY <2>1 DEF Reach
  <2>5. Answering'
    BY <1>1, <2>1, <2>4, NoAnswerYet
  <2>6. TypeOK'
    BY <1>1, <1>2, <2>1, <2>2, <2>3, <2>4, TypeStep DEF Places
  <2> QED BY <2>2, <2>3, <2>5, <2>6 DEF IInv
<1>6. CASE AddNewLine \/ SendHeader \/ SendBody
  <2>1. /\ pc \in {"newlines", "header", "body"}
        /\ pc' \in {"header", "body", "retry", "response", "drop"}
        /\ UNCHANGED <<request, addNewLine, reply, at, toClient, open, released, closed>>
        /\ deaf' \in {deaf, deaf \cup {"remote"}}
    <3>1. CASE AddNewLine
      BY <3>1 DEF AddNewLine, Hand, Fail
    <3>2. CASE SendHeader
      BY <3>2 DEF SendHeader, Hand, Fail
    <3>3. CASE SendBody
      <4>1. PICK n \in 0..BufferSize :
              \/ Hand(Units(taken + 1, taken + n)) /\ UNCHANGED pc
              \/ Fail /\ pc' = "response"
              \/ pc' = "response" /\ UNCHANGED <<servers, deaf, left>>
        BY <3>3 DEF SendBody, BodyTurn
      <4>2. /\ pc = "body" /\ UNCHANGED <<request, addNewLine, reply, at, toClient, open, released, closed>>
        BY <3>3 DEF SendBody, BodyTurn
      <4> QED BY <4>1, <4>2 DEF Hand, Fail
    <3> QED BY <1>6, <3>1, <3>2, <3>3
  <2>2. Handing' /\ servers' \in Seq(Seq(ServerText)) /\ left' \in 0..(Word - 1) /\ taken' \in 0..MaxBody
    <3>1. CASE AddNewLine
      <4>1. UNCHANGED <<taken, left>>
        BY <3>1 DEF AddNewLine
      <4> QED BY <1>1, <1>2, <3>1, <4>1, AddNewLineStep
    <3>2. CASE SendHeader
      <4>1. UNCHANGED taken
        BY <3>2 DEF SendHeader
      <4> QED BY <1>1, <1>2, <3>2, <4>1, SendHeaderStep
    <3>3. CASE SendBody
      BY <1>1, <3>3, SendBodyStep
    <3> QED BY <1>6, <3>1, <3>2, <3>3
  <2>3. Len(servers') = Len(servers)
    <3>1. servers' = servers \/ \E text : servers' = [servers EXCEPT ![Attempt] = text]
      BY <1>6 DEF AddNewLine, SendHeader, SendBody, BodyTurn, Hand, Fail
    <3>2. DOMAIN servers' = DOMAIN servers
      BY <3>1
    <3> QED BY <1>1, <2>2, <3>2, LenProperties
  <2>4. OpenNow'
    BY <1>1, <2>1, <2>3, OpenKept
  <2>5. toClient = <<>> /\ request.command # "CONNECT"
    BY <1>1, <2>1 DEF Answering, ToldAtPlace
  <2>6. Answering'
    BY <1>1, <2>1, <2>5, NoAnswerYet
  <2>7. TypeOK'
    BY <1>1, <1>2, <2>1, <2>2, <2>4, TypeStep DEF Places
  <2> QED BY <2>2, <2>4, <2>6, <2>7 DEF IInv
<1> QED BY <1>3, <1>4, <1>5, <1>6

\* Bringing the answer.
LEMMA AnswerStep ==
  ASSUME IInv, ParseResponse \/ SendResponse \/ TransferData \/ ChunkSize \/ Chunk \/ ChunkEnd
  PROVE  IInv'
<1>1. /\ TypeOK /\ Handing /\ OpenNow /\ Answering
      /\ servers \in Seq(Seq(ServerText))
      /\ addNewLine \in BOOLEAN /\ taken \in 0..MaxBody /\ left \in 0..(Word - 1)
      /\ at \in 0..Len(reply.wire) /\ deaf \subseteq {"client", "remote"}
      /\ released \in BOOLEAN /\ closed \in BOOLEAN
  BY DEF IInv, TypeOK, ServerText
<1>2. /\ pc \in AfterRequest /\ pc' \in AfterRequest \cup {"drop"}
      /\ UNCHANGED <<request, addNewLine, servers, taken, open, released, closed>>
      /\ deaf' \in {deaf, deaf \cup {"client"}}
  <2>1. CASE ParseResponse
    BY <2>1 DEF ParseResponse, AfterRequest
  <2>2. CASE SendResponse
    BY <2>2 DEF SendResponse, AfterRequest, Answer, Lost
  <2>3. CASE TransferData
    BY <2>3 DEF TransferData, Turn, AfterRequest, Answer, Lost, EndOfReply
  <2>4. CASE ChunkSize
    BY <2>4 DEF ChunkSize, AfterRequest, EndOfReply
  <2>5. CASE Chunk
    BY <2>5 DEF Chunk, Turn, AfterRequest, Answer, Lost, EndOfReply
  <2>6. CASE ChunkEnd
    BY <2>6 DEF ChunkEnd, AfterRequest, EndOfReply
  <2> QED BY <2>1, <2>2, <2>3, <2>4, <2>5, <2>6
<1>3. Handing'
  BY <1>1, <1>2, HandingQuiet
<1>4. OpenNow'
  BY <1>1, <1>2, OpenKept DEF AfterRequest
<1>5. Answering' /\ left' \in 0..(Word - 1) /\ at' \in 0..Len(reply'.wire)
  <2>1. CASE ParseResponse
    BY <1>1, <2>1, ParseResponseStep DEF ParseResponse
  <2>2. CASE SendResponse
    BY <1>1, <2>2, SendResponseStep DEF SendResponse
  <2>3. CASE TransferData \/ ChunkSize \/ Chunk \/ ChunkEnd
    BY <1>1, <2>3, TransferDataStep, ChunkSizeStep, ChunkStep, ChunkEndStep
  <2> QED BY <2>1, <2>2, <2>3
<1>6. pc' \in Places
  BY <1>2 DEF AfterRequest, Places
<1>7. TypeOK'
  BY <1>1, <1>2, <1>4, <1>5, <1>6, TypeStep
<1> QED BY <1>3, <1>4, <1>5, <1>7 DEF IInv

\* The end of a tunnel, and of process().
LEMMA LastStep == ASSUME IInv, EndRelay \/ Drop PROVE IInv'
<1>1. /\ TypeOK /\ Handing /\ OpenNow /\ ReplyOK /\ ToldAtPlace /\ PlainAnswer /\ ChunkedAnswer
      /\ servers \in Seq(Seq(ServerText))
      /\ addNewLine \in BOOLEAN /\ taken \in 0..MaxBody /\ left \in 0..(Word - 1)
      /\ at \in 0..Len(reply.wire) /\ deaf \subseteq {"client", "remote"}
      /\ released \in BOOLEAN /\ closed \in BOOLEAN
  BY DEF IInv, Answering, TypeOK, ServerText
<1>2. /\ \/ pc = "relay" /\ pc' = "drop" /\ UNCHANGED <<open, closed>>
         \/ pc = "drop" /\ pc' = "done" /\ open' = {} /\ closed' = TRUE
      /\ UNCHANGED <<request, addNewLine, servers, taken, reply, at, left, toClient, deaf, released>>
  BY DEF EndRelay, Drop
<1>3. Handing'
  BY <1>1, <1>2, HandingQuiet
<1>4. OpenNow'
  <2>1. CASE pc = "relay"
    BY <1>1, <1>2, <2>1, OpenKept
  <2>2. CASE pc = "drop"
    <3>1. open' = {} /\ pc' = "done"
      BY <1>2, <2>2
    <3> QED BY <3>1 DEF OpenNow
  <2> QED BY <1>2, <2>1, <2>2
<1>5. ReplyOK'
  BY <1>1, <1>2 DEF ReplyOK, Lengths
<1>6. (Told' <=> Told) /\ Attempt' = Attempt /\ (Unserved(Attempt)' <=> Unserved(Attempt))
  BY <1>2 DEF Told, Attempt, Unserved, LineEndsFirst
<1>7. pc = "relay" => ~Told
  BY <1>1 DEF ToldAtPlace, Told
<1>8. ToldAtPlace'
  <2> HIDE DEF Told, Attempt, Unserved
  <2> QED BY <1>1, <1>2, <1>6 DEF ToldAtPlace, AfterRequest
<1>9. \A n \in Nat : Has(n)' <=> Has(n)
  BY <1>2 DEF Has
<1> HIDE DEF Told, Has, Plain, Chunked
<1>10. PlainAnswer'
  <2>1. CASE pc = "relay"
    BY <1>1, <1>2, <1>6, <1>7, <2>1 DEF PlainAnswer
  <2>2. CASE pc = "drop"
    <3>1. \A n \in 0..at : n \in Nat
      BY <1>1
    <3> QED BY <1>1, <1>2, <1>6, <1>9, <2>2, <3>1 DEF PlainAnswer
  <2> QED BY <1>2, <2>1, <2>2
<1>11. ChunkedAnswer'
  <2>1. CASE pc = "relay"
    BY <1>1, <1>2, <1>6, <1>7, <2>1 DEF ChunkedAnswer
  <2>2. CASE pc = "drop"
    <3>1. Aligned => Aligned'
      BY <1>2, <2>2 DEF Aligned
    <3>2. \A n \in 0..MaxBody : n \in Nat
      BY SizeAssumption
    <3>3. ASSUME NEW sent, HasUnits(sent) PROVE HasUnits(sent)'
      BY <1>2, <1>9, <3>1, <3>2, <3>3 DEF HasUnits
    <3>4. ReadFits' <=> ReadFits
      BY <1>2 DEF ReadFits
    <3> HIDE DEF HasUnits, ReadFits
    <3> QED BY <1>1, <1>2, <1>6, <3>3, <3>4 DEF ChunkedAnswer
  <2> QED BY <1>2, <2>1, <2>2
<1>12. TypeOK'
  BY <1>1, <1>2, <1>4, TypeStep DEF Places
<1> QED BY <1>3, <1>4, <1>5, <1>8, <1>10, <1>11, <1>12 DEF IInv, Answering

LEMMA StutterStep == ASSUME IInv, UNCHANGED vars PROVE IInv'
<1>1. TypeOK'
  BY DEF IInv, TypeOK, vars
<1>2. Handing'
  BY DEF IInv, Handing, Handed, Unserved, LineEndsFirst, Attempt, vars
<1>3. OpenNow' /\ ReplyOK'
  BY DEF IInv, Answering, OpenNow, Attempt, ReplyOK, Lengths, vars
<1>4. ToldAtPlace'
  BY DEF IInv, Answering, ToldAtPlace, Told, Unserved, LineEndsFirst, Attempt, vars
<1>5. PlainAnswer'
  BY DEF IInv, Answering, PlainAnswer, Told, Has, vars
<1>6. ChunkedAnswer'
  BY DEF IInv, Answering, ChunkedAnswer, HasUnits, ReadFits, Aligned, Told, Has, vars
<1> QED BY <1>1, <1>2, <1>3, <1>4, <1>5, <1>6 DEF IInv, Answering

LEMMA NextIInv == IInv /\ [Next]_vars => IInv'
<1> SUFFICES ASSUME IInv, [Next]_vars PROVE IInv'
  OBVIOUS
<1>1. CASE Exchange
  BY <1>1, RequestStep, AnswerStep, LastStep DEF Exchange
<1>2. CASE EndRelay
  BY <1>2, LastStep
<1>3. CASE UNCHANGED vars
  BY <1>3, StutterStep
<1> QED BY <1>1, <1>2, <1>3 DEF Next

-----------------------------------------------------------------------------
(* What the runs check, from the invariant.                                *)

\* A server that was handed the header is the last one.
LEMMA ServedLast ==
  ASSUME IInv, NEW i \in DOMAIN servers PROVE (Served(i) <=> ~Unserved(i)) /\ (Served(i) => i = Attempt)
<1>1. /\ servers[i] \in {<<>>, LineEndsFirst} \cup {Handed[n] : n \in 0..request.length}
      /\ i < Attempt => Unserved(i)
  BY DEF IInv, Handing
<1>2. addNewLine \in BOOLEAN /\ request.length \in Nat /\ i \in 1..Attempt
  <2>1. servers \in Seq(Seq(ServerText))
    BY DEF IInv, TypeOK, ServerText
  <2> QED BY <2>1, RequestLength, LenProperties DEF IInv, TypeOK, Attempt
<1>3. Header \notin Range(<<>>) /\ Header \notin Range(LineEndsFirst)
  BY <1>2, HandedIs DEF Range
<1>4. \A n \in 0..request.length : Header \in Range(Handed[n])
  BY <1>2, HandedIs
<1> HIDE DEF Handed, LineEndsFirst
<1>5. Served(i) <=> ~Unserved(i)
  <2>1. CASE servers[i] \in {<<>>, LineEndsFirst}
    BY <1>3, <2>1 DEF Served, Unserved
  <2>2. CASE servers[i] \notin {<<>>, LineEndsFirst}
    <3>1. PICK n \in 0..request.length : servers[i] = Handed[n]
      BY <1>1, <2>2
    <3> QED BY <1>4, <2>2, <3>1 DEF Served, Unserved
  <2> QED BY <2>1, <2>2
<1>6. Served(i) => i = Attempt
  BY <1>1, <1>2, <1>5 DEF Attempt
<1> QED BY <1>5, <1>6

LEMMA AllFit == ASSUME IInv, ChunksFit PROVE ReadFits
<1>1. reply.wire \in Seq(Tokens) /\ at \in 0..Len(reply.wire) /\ Len(reply.wire) \in Nat /\ MaxBody \in Nat
  BY Conversions, LenProperties DEF IInv, Answering, ReplyOK, Answers, TypeOK
<1> SUFFICES ASSUME NEW p \in 1..at, NEW n \in 0..MaxBody, reply.wire[p] = Size(n) PROVE n < Word
  BY DEF ReadFits
<1>2. p \in 1..Len(reply.wire)
  BY <1>1
<1>3. reply.wire[p] \in Range(reply.wire)
  BY <1>1, <1>2 DEF Range
<1>4. reply.wire[p][1] = "size" /\ reply.wire[p][2] = n
  BY DEF Size
<1> QED BY <1>3, <1>4 DEF ChunksFit

\* What was announced, what the code takes it for, and how much is read of it.
LEMMA PlainLengths ==
  ASSUME IInv, Told, reply.framing # "chunked"
  PROVE  /\ at \in Nat /\ reply.announced \in Nat /\ Len(reply.wire) \in Nat
         /\ at <= reply.announced /\ at <= Len(reply.wire) /\ Plain(reply.wire)
         /\ pc = "done" /\ "client" \notin deaf /\ Countable
              => at = Len(reply.wire) \/ at = reply.announced \/ Len(reply.wire) <= at
<1>1. /\ reply \in Answers /\ Lengths(reply) /\ at \in 0..Len(reply.wire)
      /\ Plain(reply.wire) /\ at <= reply.length
      /\ pc = "done" /\ "client" \notin deaf => at \in {reply.length, Len(reply.wire)}
  BY DEF IInv, Answering, ReplyOK, PlainAnswer, TypeOK
<1>2. /\ reply.announced \in 0..MaxBody /\ reply.length \in 0..(Word - 1) /\ reply.wire \in Seq(Tokens)
      /\ reply.framing \in {"length", "close"} /\ Len(reply.wire) \in 0..MaxBody
  BY <1>1 DEF Answers, Plain
<1>3. MaxBody \in Nat /\ Half \in Nat /\ Half > 1 /\ NoLength = Half - 1 /\ Word \in Nat
  BY Conversions
<1>4. /\ at \in Nat /\ reply.announced \in Nat /\ reply.length \in Nat /\ Len(reply.wire) \in Nat
      /\ at <= Len(reply.wire)
  BY <1>1, <1>2, <1>3
<1>5. CASE reply.framing = "length"
  <2>1. reply.length <= reply.announced /\ (reply.announced < Half => reply.length = reply.announced)
    BY <1>1, <1>5 DEF Lengths
  <2>2. at <= reply.announced
    BY <1>1, <1>4, <2>1
  <2>3. Countable => reply.length = reply.announced
    BY <1>5, <2>1 DEF Countable
  <2> QED BY <1>1, <1>4, <2>2, <2>3
<1>6. CASE reply.framing = "close"
  <2>1. reply.length = NoLength /\ reply.announced = MaxBody
    BY <1>1, <1>6 DEF Lengths
  <2>2. at <= reply.announced
    BY <1>1, <1>2, <1>3, <1>4, <2>1
  <2>3. ASSUME Countable PROVE Len(reply.wire) <= reply.length
    <3>1. ~Sent(Half)
      BY <1>6, <2>3 DEF Countable
    <3>2. ASSUME Half \in 1..Len(reply.wire) PROVE FALSE
      <4>1. reply.wire[Half] = <<"body", Half>>
        BY <1>1, <1>4, <3>2, FirstUnits DEF Plain
      <4>2. Sent(Half)
        BY <1>2, <3>2, <4>1 DEF Sent, Range
      <4> QED BY <3>1, <4>2
    <3> QED BY <1>3, <1>4, <2>1, <3>2
  <2> QED BY <1>1, <1>4, <2>2, <2>3
<1> QED BY <1>2, <1>5, <1>6

\* Where a run's property about what the client has follows.
LEMMA ClientHas ==
  ASSUME IInv, Told, ReadFits \/ reply.framing # "chunked"
  PROVE  \E n \in 0..reply.announced :
           /\ Has(n) /\ (n = 0 \/ Sent(n))
           /\ pc = "done" /\ "client" \notin deaf /\ Countable
                => \A k \in 1..reply.announced : Sent(k) => k <= n
<1>1. reply \in Answers /\ Lengths(reply) /\ PlainAnswer /\ ChunkedAnswer /\ at \in 0..Len(reply.wire)
  BY DEF IInv, Answering, ReplyOK, TypeOK
<1>2. /\ reply.wire \in Seq(Tokens) /\ Len(reply.wire) \in Nat /\ reply.announced \in Nat /\ MaxBody \in Nat
      /\ reply.framing = "chunked" => reply.announced = MaxBody
  BY <1>1, Conversions, LenProperties DEF Answers, Lengths
<1>3. \A q \in 1..Len(reply.wire), n \in Nat : reply.wire[q] = <<"body", n>> => Sent(n)
  BY <1>2 DEF Sent, Range
<1>4. \A n \in Nat : Sent(n) => \E q \in 1..Len(reply.wire) : reply.wire[q] = <<"body", n>>
  BY <1>2 DEF Sent, Range
<1>5. CASE reply.framing # "chunked"
  <2>1. PICK n \in 0..at : Has(n) /\ ("client" \notin deaf => n = at)
    BY <1>1, <1>5 DEF PlainAnswer
  <2>2. /\ at \in Nat /\ at <= reply.announced /\ at <= Len(reply.wire) /\ Plain(reply.wire)
        /\ pc = "done" /\ "client" \notin deaf /\ Countable
             => at = Len(reply.wire) \/ at = reply.announced \/ Len(reply.wire) <= at
    BY <1>5, PlainLengths
  <2>3. \A k \in 1..Len(reply.wire) : reply.wire[k] = <<"body", k>>
    BY <1>2, <2>2, FirstUnits DEF Plain
  <2> HIDE DEF Told, Has, Chunked, Sent, Countable, Plain
  <2>4. n \in Nat /\ n \in 0..reply.announced
    BY <1>2, <2>1, <2>2
  <2>5. n = 0 \/ Sent(n)
    <3>1. n = 0 \/ n \in 1..Len(reply.wire)
      BY <1>1, <1>2, <2>1
    <3> QED BY <1>3, <2>3, <2>4, <3>1
  <2>6. ASSUME pc = "done", "client" \notin deaf, Countable, NEW k \in 1..reply.announced, Sent(k)
        PROVE  k <= n
    <3>1. PICK q \in 1..Len(reply.wire) : reply.wire[q] = <<"body", k>>
      <4>1. k \in Nat
        OBVIOUS
      <4> QED BY <1>4, <2>6, <4>1
    <3>2. k \in Nat /\ q \in Nat /\ reply.wire[q] = <<"body", q>>
      BY <2>3
    <3>3. k = q
      BY <3>1, <3>2, TokenKinds
    <3>4. k <= Len(reply.wire) /\ k <= reply.announced
      BY <1>2, <3>3
    <3>5. at = Len(reply.wire) \/ at = reply.announced \/ Len(reply.wire) <= at
      BY <2>2, <2>6
    <3>6. n = at
      BY <2>1, <2>6
    <3> QED BY <1>2, <2>2, <3>2, <3>4, <3>5, <3>6
  <2> QED BY <2>1, <2>4, <2>5, <2>6
<1>6. CASE reply.framing = "chunked"
  <2>1. PICK sent : /\ Chunked(reply.wire, sent) /\ \A p \in 0..Len(reply.wire) : sent[p] <= MaxBody
                    /\ HasUnits(sent)
    BY <1>1, <1>6 DEF ChunkedAnswer
  <2>2. PICK n \in 0..MaxBody : /\ Has(n)
                                /\ n = 0 \/ \E q \in 1..at : reply.wire[q] = <<"body", n>>
                                /\ "client" \notin deaf => n = sent[at] /\ Aligned
    BY <2>1 DEF HasUnits
  <2> HIDE DEF Told, Has, Sent, Countable
  <2>3. n \in Nat /\ n \in 0..reply.announced
    BY <1>2, <1>6
  <2>4. n = 0 \/ Sent(n)
    <3>1. 1..at \subseteq 1..Len(reply.wire)
      BY <1>1, <1>2
    <3> QED BY <1>3, <2>2, <2>3, <3>1
  <2>5. ASSUME pc = "done", "client" \notin deaf, NEW k \in 1..reply.announced, Sent(k) PROVE k <= n
    <3>1. n = sent[Len(reply.wire)]
      BY <2>2, <2>5 DEF Aligned
    <3>2. PICK q \in 1..Len(reply.wire) : reply.wire[q] = <<"body", k>>
      <4>1. k \in Nat
        OBVIOUS
      <4> QED BY <1>4, <2>5, <4>1
    <3>3. sent \in [0..Len(reply.wire) -> Nat] /\ reply.wire[q] = <<"body", sent[q]>>
      BY <2>1, <3>2 DEF Chunked, IsBody
    <3>4. q \in 0..Len(reply.wire) /\ Len(reply.wire) \in 0..Len(reply.wire) /\ q <= Len(reply.wire)
      BY <1>2
    <3>5. sent[q] = k
      <4>1. sent[q] \in Nat /\ k \in Nat
        BY <3>3, <3>4
      <4> QED BY <3>2, <3>3, <4>1, TokenKinds
    <3>6. sent[q] <= sent[Len(reply.wire)]
      BY <2>1, <3>4 DEF Chunked
    <3> QED BY <3>1, <3>5, <3>6
  <2> QED BY <2>2, <2>3, <2>4, <2>5
<1> QED BY <1>5, <1>6

LEMMA ClientHasOfServed == ASSUME IInv, Told PROVE \E i \in DOMAIN servers : Served(i)
<1>1. Attempt > 0 /\ ~Unserved(Attempt)
  BY DEF IInv, Answering, ToldAtPlace
<1>2. servers \in Seq(Seq(ServerText))
  BY DEF IInv, TypeOK, ServerText
<1>3. Attempt \in DOMAIN servers
  BY <1>1, <1>2, LenProperties DEF Attempt
<1> QED BY <1>1, <1>3, ServedLast

\* The invariant implies each property the run checks.
LEMMA Implies ==
  ASSUME IInv
  PROVE  /\ TypeOK /\ ServersSeeTheRequest /\ HandedOnce /\ ForgetsUnserved /\ NoSocketLeaks
         /\ ClientSeesTheAnswer /\ AnswerIsWhole
<1>1. TypeOK
  BY DEF IInv
<1>2. ServersSeeTheRequest
  <2> SUFFICES ASSUME NEW i \in DOMAIN servers PROVE IsPrefix(servers[i], WholeRequest)
    BY DEF ServersSeeTheRequest
  <2>1. servers[i] \in {<<>>, LineEndsFirst} \cup {Handed[n] : n \in 0..request.length}
    BY DEF IInv, Handing
  <2>2. addNewLine \in BOOLEAN /\ request.length \in Nat /\ 0 \in 0..request.length
    BY <1>1, RequestLength DEF TypeOK
  <2> HIDE DEF Handed, LineEndsFirst, WholeRequest
  <2>3. CASE servers[i] \in {<<>>, LineEndsFirst}
    BY <2>2, <2>3, HandedPrefix
  <2>4. CASE servers[i] \in {Handed[n] : n \in 0..request.length}
    <3>1. PICK n \in 0..request.length : servers[i] = Handed[n]
      BY <2>4
    <3> QED BY <2>2, <3>1, HandedPrefix
  <2> QED BY <2>1, <2>3, <2>4
<1>3. HandedOnce
  BY ServedLast DEF HandedOnce
<1>4. ForgetsUnserved
  BY ServedLast DEF ForgetsUnserved, IInv, Handing
<1>5. NoSocketLeaks
  BY DEF NoSocketLeaks, IInv, OpenNow
<1>6. ClientSeesTheAnswer
  <2>1. CASE toClient = <<>>
    BY <2>1 DEF ClientSeesTheAnswer
  <2>2. CASE toClient # <<>> /\ request.command = "CONNECT"
    <3>1. toClient = <<Established>>
      BY <2>2 DEF IInv, Answering, ToldAtPlace
    <3> QED BY <2>2, <3>1 DEF ClientSeesTheAnswer
  <2>3. CASE Told
    <3>1. \E i \in DOMAIN servers : Served(i)
      BY <2>3, ClientHasOfServed
    <3>2. ASSUME ChunksFit
          PROVE  \E n \in 0..reply.announced : toClient = <<Status>> \o Units(1, n) /\ (n = 0 \/ Sent(n))
      <4>1. PICK n \in 0..reply.announced : Has(n) /\ (n = 0 \/ Sent(n))
        BY <2>3, <3>2, AllFit, ClientHas
      <4> HIDE DEF Sent
      <4> QED BY <4>1 DEF Has
    <3> HIDE DEF Sent, Served, ChunksFit
    <3> QED BY <3>1, <3>2 DEF ClientSeesTheAnswer
  <2> QED BY <2>1, <2>2, <2>3 DEF Told
<1>7. AnswerIsWhole
  <2> SUFFICES ASSUME pc = "done", Status \in Range(toClient), "client" \notin deaf, Countable,
                      NEW k \in 1..reply.announced, Sent(k)
               PROVE  <<"body", k>> \in Range(toClient)
    BY DEF AnswerIsWhole
  <2>1. Told
    <3>1. Range(<<>>) = {} /\ Range(<<Established>>) = {Established} /\ Status # Established
      BY DEF Range, Established, Status
    <3> QED BY <3>1 DEF Told, IInv, Answering, ToldAtPlace
  <2>2. ReadFits \/ reply.framing # "chunked"
    BY AllFit DEF Countable
  <2>3. PICK n \in 0..reply.announced : Has(n) /\ k <= n
    BY <2>1, <2>2, ClientHas
  <2>4. reply.announced \in 0..MaxBody /\ MaxBody \in Nat
    BY Conversions DEF IInv, Answering, ReplyOK, Answers
  <2>5. n \in Nat /\ k \in 1..n
    BY <2>3, <2>4
  <2>6. /\ toClient \in Seq(Parts) /\ Len(toClient) = n + 1 /\ toClient[k + 1] = <<"body", k>>
    BY <2>3, <2>5, StatusFirst DEF Has
  <2>7. k + 1 \in DOMAIN toClient
    BY <2>5, <2>6
  <2> QED BY <2>6, <2>7 DEF Range
<1> QED BY <1>1, <1>2, <1>3, <1>4, <1>5, <1>6, <1>7

-----------------------------------------------------------------------------

\* What every exchange keeps: where each server is in the request, which sockets are open,
\* and where the client and the reading position are in the answer.
THEOREM Invariant == Spec => []IInv
<1>1. Init => IInv
  BY InitIInv
<1>2. IInv /\ [Next]_vars => IInv'
  BY NextIInv
<1> QED BY <1>1, <1>2, PTL DEF Spec

\* The variables of process() stay within their types.
THEOREM TypeCorrect == Spec => []TypeOK
<1>1. IInv => TypeOK
  BY Implies
<1> QED BY <1>1, Invariant, PTL

\* sendRequest(), doAddNewLine() and the retry: every server sees a prefix of the request,
\* from its first unit on and without a gap.
THEOREM ServersSeePrefix == Spec => []ServersSeeTheRequest
<1>1. IInv => ServersSeeTheRequest
  BY Implies
<1> QED BY <1>1, Invariant, PTL

\* The retry of process(): no request reaches two servers.
THEOREM NeverTwice == Spec => []HandedOnce
<1>1. IInv => HandedOnce
  BY Implies
<1> QED BY <1>1, Invariant, PTL

\* sendResponse(), transferData() and transferTrunkedData(): what the client has are the
\* first units of the body, no more than were sent or announced, from a server that was
\* handed the request; unless the size of a chunk is beyond an unsigned int.
THEOREM ClientSeesFirstUnits == Spec => []ClientSeesTheAnswer
<1>1. IInv => ClientSeesTheAnswer
  BY Implies
<1> QED BY <1>1, Invariant, PTL

\* The transfer loops end where the body does if the code can count it, whatever an int
\* holds: a client that took all it was sent has the whole of an answer whose announced
\* length or, without one, whose body fits an int, or whose chunks fit an unsigned int.
THEOREM NothingLost == Spec => []AnswerIsWhole
<1>1. IInv => AnswerIsWhole
  BY Implies
<1> QED BY <1>1, Invariant, PTL

\* DnsCache::releaseItem() is called for a host only if no server was handed the request.
THEOREM ForgottenUnserved == Spec => []ForgetsUnserved
<1>1. IInv => ForgetsUnserved
  BY Implies
<1> QED BY <1>1, Invariant, PTL

\* The retry closes the socket that failed, and the end of process() all of them.
THEOREM SocketsClosed == Spec => []NoSocketLeaks
<1>1. IInv => NoSocketLeaks
  BY Implies
<1> QED BY <1>1, Invariant, PTL

-----------------------------------------------------------------------------
(* The tunnel.                                                             *)

\* Whose turn comes has something to receive, or an end of file.
SomethingFor(s) == inbox[s] # <<>> \/ peer[s] # "open"

Taking ==
  /\ relay # "send" => buffer = <<>>
  /\ relay = "recv" => SomethingFor(turn)
  /\ relay \in {"recv", "send"} /\ turn = "client" /\ "server" \in ready => SomethingFor("server")

RelayInv == doCONNECT!TypeOK /\ Taking

\* What s said and the other has not heard: the three places it can be in.
LEMMA TwoSides ==
  ASSUME NEW s \in doCONNECT!Sides, NEW o \in doCONNECT!Sides, s # o
  PROVE  /\ doCONNECT!Other(s) = o /\ doCONNECT!Other(o) = s
         /\ doCONNECT!Sides = {s, o}
BY DEF doCONNECT!Other, doCONNECT!Sides

LEMMA LeastIs ==
  ASSUME NEW a \in Nat, NEW b \in Nat
  PROVE  doCONNECT!Least(a, b) \in 0..b /\ doCONNECT!Least(a, b) <= a
         /\ (a > 0 /\ b > 0 => doCONNECT!Least(a, b) > 0)
BY DEF doCONNECT!Least

\* A sequence cut in two.
LEMMA Cut ==
  ASSUME NEW S, NEW w \in Seq(S), NEW n \in 0..Len(w)
  PROVE  /\ SubSeq(w, 1, n) \in Seq(S) /\ SubSeq(w, n + 1, Len(w)) \in Seq(S)
         /\ Len(SubSeq(w, 1, n)) = n /\ Len(SubSeq(w, n + 1, Len(w))) = Len(w) - n
         /\ SubSeq(w, 1, n) \o SubSeq(w, n + 1, Len(w)) = w
<1> Len(w) \in Nat /\ \A i \in 1..Len(w) : w[i] \in S
  BY LenProperties, ElementOfSeq
<1>1. SubSeq(w, 1, n) \in Seq(S) /\ Len(SubSeq(w, 1, n)) = n
  BY SubSeqProperties, \A i \in 1..n : w[i] \in S
<1>2. SubSeq(w, n + 1, Len(w)) \in Seq(S) /\ Len(SubSeq(w, n + 1, Len(w))) = Len(w) - n
  <2>1. \A i \in (n + 1)..Len(w) : w[i] \in S
    OBVIOUS
  <2> QED BY <2>1, SubSeqProperties
<1>3. SubSeq(w, 1, n) \o SubSeq(w, n + 1, Len(w)) = SubSeq(w, 1, Len(w))
  <2>1. 1 \in 1..(Len(w) + 1) /\ n \in (1 - 1)..Len(w) /\ Len(w) \in n..Len(w)
    OBVIOUS
  <2> QED BY <2>1, ConcatAdjacentSubSeq
<1> QED BY <1>1, <1>2, <1>3, SubSeqFull

\* The front of a sequence goes, or an end is added: so it is of a longer one.
LEMMA TailOfConcat ==
  ASSUME NEW S, NEW a \in Seq(S), NEW b \in Seq(S), a # <<>>
  PROVE  /\ Tail(a) \in Seq(S)
         /\ Tail(a \o b) = Tail(a) \o b
         /\ a \o b # <<>>
<1>1. Tail(a) \in Seq(S) /\ Len(Tail(a)) = Len(a) - 1 /\ \A i \in 1..Len(Tail(a)) : Tail(a)[i] = a[i + 1]
  BY HeadTailProperties
<1>2. a \o b \in Seq(S) /\ a \o b # <<>> /\ Len(a \o b) = Len(a) + Len(b)
  BY ConcatProperties, ConcatEqualIffEmpty
<1>3. /\ Tail(a \o b) \in Seq(S) /\ Len(Tail(a \o b)) = Len(a \o b) - 1
      /\ \A i \in 1..Len(Tail(a \o b)) : Tail(a \o b)[i] = (a \o b)[i + 1]
  <2> DEFINE w == a \o b
  <2>1. w \in Seq(S) /\ w # <<>>
    BY <1>2
  <2> HIDE DEF w
  <2>2. Tail(w) \in Seq(S) /\ Len(Tail(w)) = Len(w) - 1 /\ \A i \in 1..Len(Tail(w)) : Tail(w)[i] = w[i + 1]
    BY <2>1, HeadTailProperties
  <2> QED BY <2>2 DEF w
<1>4. Tail(a) \o b \in Seq(S) /\ Len(Tail(a) \o b) = Len(Tail(a)) + Len(b)
      /\ \A i \in 1..(Len(Tail(a)) + Len(b)) :
           (Tail(a) \o b)[i] = IF i <= Len(Tail(a)) THEN Tail(a)[i] ELSE b[i - Len(Tail(a))]
  <2> DEFINE w == Tail(a)
  <2>1. w \in Seq(S)
    BY <1>1
  <2> HIDE DEF w
  <2>2. w \o b \in Seq(S) /\ Len(w \o b) = Len(w) + Len(b)
        /\ \A i \in 1..(Len(w) + Len(b)) : (w \o b)[i] = IF i <= Len(w) THEN w[i] ELSE b[i - Len(w)]
    BY <2>1, ConcatProperties
  <2> QED BY <2>2 DEF w
<1>5. \A i \in 1..(Len(a) + Len(b)) : (a \o b)[i] = IF i <= Len(a) THEN a[i] ELSE b[i - Len(a)]
  BY ConcatProperties
<1>6. Len(a) \in Nat \ {0} /\ Len(b) \in Nat
  BY EmptySeq, LenProperties
<1>7. \A i \in 1..(Len(a) - 1 + Len(b)) : Tail(a \o b)[i] = (Tail(a) \o b)[i]
  <2> TAKE i \in 1..(Len(a) - 1 + Len(b))
  <2>1. Tail(a \o b)[i] = (a \o b)[i + 1] /\ i + 1 \in 1..(Len(a) + Len(b))
    BY <1>2, <1>3, <1>6
  <2>2. CASE i <= Len(a) - 1
    BY <2>1, <2>2, <1>1, <1>4, <1>5, <1>6
  <2>3. CASE i > Len(a) - 1
    BY <2>1, <2>3, <1>1, <1>4, <1>5, <1>6
  <2> QED BY <2>2, <2>3, <1>6
<1>8. Len(Tail(a \o b)) = Len(Tail(a) \o b) /\ Len(Tail(a \o b)) = Len(a) - 1 + Len(b)
  BY <1>1, <1>2, <1>3, <1>4, <1>6
<1>9. Tail(a \o b) = Tail(a) \o b
  <2> DEFINE v == Tail(a \o b)  w == Tail(a) \o b
  <2>1. v \in Seq(S) /\ w \in Seq(S) /\ Len(v) = Len(w) /\ \A i \in 1..Len(v) : v[i] = w[i]
    BY <1>3, <1>4, <1>7, <1>8
  <2> HIDE DEF v, w
  <2>2. v = w
    BY <2>1, SeqEqual
  <2> QED BY <2>2 DEF v, w
<1> QED BY <1>1, <1>2, <1>9

LEMMA AppendToConcat ==
  ASSUME NEW S, NEW a \in Seq(S), NEW b \in Seq(S), NEW x \in S
  PROVE  a \o Append(b, x) = Append(a \o b, x)
<1>1. Append(b, x) = b \o <<x>> /\ <<x>> \in Seq(S)
  BY AppendIsConcat
<1>2. Append(a \o b, x) = (a \o b) \o <<x>>
  BY AppendIsConcat, ConcatProperties
<1> QED BY <1>1, <1>2, ConcatAssociative

LEMMA FrontIsPrefix ==
  ASSUME NEW S, NEW a \in Seq(S), NEW b \in Seq(S)
  PROVE  IsPrefix(a, a \o b) /\ IsPrefix(a, a)
<1>1. a \o b \in Seq(S) /\ Len(a \o b) = Len(a) + Len(b) /\ Len(a) \in Nat /\ Len(b) \in Nat
  BY ConcatProperties, LenProperties
<1>2. SubSeq(a, 1, Len(a)) = SubSeq(a \o b, 1, Len(a))
  <2>1. CASE a = <<>>
    BY <2>1, SubSeqEmpty, EmptySeq
  <2>2. CASE a # <<>>
    <3>1. Len(a) \in 1..Len(a) /\ 1 \in 1..Len(a)
      BY <2>2, EmptySeq
    <3> QED BY <3>1, SubSeqOfConcat1
  <2> QED BY <2>1, <2>2
<1> QED BY <1>1, <1>2 DEF IsPrefix
-----------------------------------------------------------------------------
LEMMA InitRelay == doCONNECT!Init => RelayInv /\ doCONNECT!Pipes!Init
<1> SUFFICES ASSUME doCONNECT!Init PROVE RelayInv /\ doCONNECT!Pipes!Init
  OBVIOUS
<1>1. <<>> \in Seq(Data) /\ Len(<<>>) = 0
  BY EmptySeq
<1>2. RelayInv
  BY <1>1, SizeAssumption, QueueAssumption DEF RelayInv, Taking, doCONNECT!Init, doCONNECT!TypeOK, doCONNECT!Sides
<1>3. <<>> \o <<>> \o <<>> = <<>>
  BY ConcatEmptySeq, <1>1
<1>4. doCONNECT!Pipes!Init
  BY <1>3 DEF doCONNECT!Init, doCONNECT!Pipes!Init, doCONNECT!Held, doCONNECT!Other,
              doCONNECT!Sides, doCONNECT!Pipes!Sides
<1> QED BY <1>2, <1>4

\* What recv() takes is between the socket and the buffer.
LEMMA RecvTakes ==
  ASSUME RelayInv, doCONNECT!Recv
  PROVE  \E n \in 1..Len(inbox[turn]) :
           /\ n <= BufferSize
           /\ buffer' = SubSeq(inbox[turn], 1, n)
           /\ inbox' = [inbox EXCEPT ![turn] = SubSeq(@, n + 1, Len(@))]
           /\ buffer' \in Seq(Data) /\ Len(buffer') = n
           /\ inbox'[turn] \in Seq(Data) /\ Len(inbox'[turn]) = Len(inbox[turn]) - n
           /\ buffer' \o inbox'[turn] = inbox[turn]
<1>1. inbox[turn] \in Seq(Data) /\ inbox[turn] # <<>> /\ turn \in doCONNECT!Sides /\ inbox \in [doCONNECT!Sides -> Seq(Data)]
  BY DEF RelayInv, doCONNECT!TypeOK, doCONNECT!Recv, doCONNECT!RecvUpTo
<1>2. Len(inbox[turn]) \in Nat \ {0}
  BY <1>1, EmptySeq
<1> DEFINE n == doCONNECT!Least(BufferSize, Len(inbox[turn]))
<1>3. n \in 1..Len(inbox[turn]) /\ n <= BufferSize
  <2>1. BufferSize \in Nat /\ BufferSize > 0 /\ Len(inbox[turn]) \in Nat /\ Len(inbox[turn]) > 0
    BY <1>2, SizeAssumption
  <2>2. n \in 0..Len(inbox[turn]) /\ n <= BufferSize /\ n > 0
    BY <2>1, LeastIs
  <2> HIDE DEF n
  <2> QED BY <2>1, <2>2
<1>4. /\ buffer' = SubSeq(inbox[turn], 1, n)
      /\ inbox' = [inbox EXCEPT ![turn] = SubSeq(@, n + 1, Len(@))]
  BY DEF doCONNECT!Recv, doCONNECT!RecvUpTo
<1> HIDE DEF n
<1>5. inbox'[turn] = SubSeq(inbox[turn], n + 1, Len(inbox[turn]))
  BY <1>1, <1>4
<1> DEFINE w == inbox[turn]
<1>6. w \in Seq(Data) /\ n \in 0..Len(w)
  BY <1>1, <1>2, <1>3
<1> HIDE DEF w
<1>7. /\ SubSeq(w, 1, n) \in Seq(Data) /\ SubSeq(w, n + 1, Len(w)) \in Seq(Data)
      /\ Len(SubSeq(w, 1, n)) = n /\ Len(SubSeq(w, n + 1, Len(w))) = Len(w) - n
      /\ SubSeq(w, 1, n) \o SubSeq(w, n + 1, Len(w)) = w
  BY <1>6, Cut
<1> QED BY <1>3, <1>4, <1>5, <1>7 DEF w

\* What send() takes goes to the end of what its peer has to read.
LEMMA SendTakes ==
  ASSUME RelayInv, doCONNECT!Send
  PROVE  /\ turn \in doCONNECT!Sides
         /\ \/ /\ peer[doCONNECT!Other(turn)] = "gone" /\ buffer' = <<>> /\ UNCHANGED outbox
            \/ \E n \in 1..Len(buffer) :
                 /\ buffer' = SubSeq(buffer, n + 1, Len(buffer))
                 /\ outbox' = [outbox EXCEPT ![doCONNECT!Other(turn)] = @ \o SubSeq(buffer, 1, n)]
                 /\ Len(outbox[doCONNECT!Other(turn)]) + n <= OutSize
         /\ \/ buffer' = <<>> /\ relay' = "recv" /\ turn' = "server" /\ turn = "client" /\ "server" \in ready
            \/ buffer' = <<>> /\ relay' = "select" /\ turn' = turn
            \/ buffer' # <<>> /\ relay' = "send" /\ turn' = turn
         /\ UNCHANGED <<ready, inbox, peer>> /\ relay = "send"
<1>1. /\ turn \in doCONNECT!Sides /\ doCONNECT!Other(turn) \in doCONNECT!Sides /\ buffer \in Seq(Data)
      /\ outbox \in [doCONNECT!Sides -> Seq(Data)]
      /\ Len(outbox[doCONNECT!Other(turn)]) <= OutSize
  BY DEF RelayInv, doCONNECT!TypeOK, doCONNECT!Sides, doCONNECT!Other
<1>2. /\ \/ buffer' = <<>> /\ relay' = "recv" /\ turn' = "server" /\ turn = "client" /\ "server" \in ready
         \/ buffer' = <<>> /\ relay' = "select" /\ turn' = turn
         \/ buffer' # <<>> /\ relay' = "send" /\ turn' = turn
      /\ UNCHANGED <<ready, inbox, peer>> /\ relay = "send"
  BY DEF doCONNECT!Send, doCONNECT!GoOn
<1>3. Len(buffer) \in Nat /\ Len(outbox[doCONNECT!Other(turn)]) \in Nat /\ OutSize \in Nat
  BY <1>1, LenProperties, QueueAssumption
<1> DEFINE n == doCONNECT!Least(OutSize - Len(outbox[doCONNECT!Other(turn)]), Len(buffer))
<1>4. n \in 0..Len(buffer) /\ n <= OutSize - Len(outbox[doCONNECT!Other(turn)])
  <2>1. OutSize - Len(outbox[doCONNECT!Other(turn)]) \in Nat
    BY <1>1, <1>3
  <2> QED BY <2>1, <1>3, LeastIs
<1>5. \/ peer[doCONNECT!Other(turn)] = "gone" /\ buffer' = <<>> /\ UNCHANGED outbox
      \/ /\ n > 0 /\ outbox' = [outbox EXCEPT ![doCONNECT!Other(turn)] = @ \o SubSeq(buffer, 1, n)]
         /\ buffer' = SubSeq(buffer, n + 1, Len(buffer))
  BY DEF doCONNECT!Send
<1> HIDE DEF n
<1>6. n > 0 => n \in 1..Len(buffer) /\ Len(outbox[doCONNECT!Other(turn)]) + n <= OutSize
  BY <1>1, <1>3, <1>4
<1> QED BY <1>1, <1>2, <1>5, <1>6

\* The invariant, action by action.
LEMMA RelayKeepsInv ==
  ASSUME RelayInv, [doCONNECT!Next]_(doCONNECT!vars)
  PROVE  RelayInv'
<1> USE DEF doCONNECT!Sides
<1>1. /\ relay \in {"select", "recv", "send", "end"} /\ turn \in doCONNECT!Sides /\ ready \in SUBSET doCONNECT!Sides
      /\ buffer \in Seq(Data) /\ Len(buffer) <= BufferSize
      /\ inbox \in [doCONNECT!Sides -> Seq(Data)] /\ outbox \in [doCONNECT!Sides -> Seq(Data)]
      /\ \A s \in doCONNECT!Sides : Len(inbox[s]) <= InSize /\ Len(outbox[s]) <= OutSize
      /\ peer \in [doCONNECT!Sides -> {"open", "half", "gone"}]
  BY DEF RelayInv, doCONNECT!TypeOK
<1>2. /\ BufferSize \in Nat /\ InSize \in Nat /\ OutSize \in Nat
      /\ <<>> \in Seq(Data) /\ Len(<<>>) = 0
      /\ Len(buffer) \in Nat /\ \A s \in doCONNECT!Sides : Len(inbox[s]) \in Nat /\ Len(outbox[s]) \in Nat
  BY <1>1, SizeAssumption, QueueAssumption, EmptySeq, LenProperties
<1>3. CASE doCONNECT!Select
  BY <1>1, <1>3 DEF RelayInv, Taking, SomethingFor, doCONNECT!TypeOK, doCONNECT!Select, doCONNECT!Readable
<1>4. CASE doCONNECT!Recv
  <2>1. PICK n \in 1..Len(inbox[turn]) :
           /\ n <= BufferSize
           /\ inbox' = [inbox EXCEPT ![turn] = SubSeq(@, n + 1, Len(@))]
           /\ buffer' \in Seq(Data) /\ Len(buffer') = n
           /\ inbox'[turn] \in Seq(Data) /\ Len(inbox'[turn]) = Len(inbox[turn]) - n
    BY <1>4, RecvTakes
  <2>2. relay = "recv" /\ relay' = "send" /\ UNCHANGED <<turn, ready, outbox, peer>>
    BY <1>4 DEF doCONNECT!Recv, doCONNECT!RecvUpTo
  <2>3. /\ inbox' \in [doCONNECT!Sides -> Seq(Data)]
        /\ \A s \in doCONNECT!Sides : Len(inbox'[s]) <= InSize /\ (s # turn => inbox'[s] = inbox[s])
    BY <1>1, <1>2, <2>1
  <2>4. doCONNECT!TypeOK'
    BY <1>1, <1>2, <2>1, <2>2, <2>3 DEF doCONNECT!TypeOK
  <2>5. Taking'
    BY <2>2, <2>3, <1>1 DEF RelayInv, Taking, SomethingFor
  <2> QED BY <2>4, <2>5 DEF RelayInv
<1>5. CASE doCONNECT!RecvEof
  BY <1>1, <1>5 DEF RelayInv, Taking, SomethingFor, doCONNECT!TypeOK, doCONNECT!RecvEof
<1>6. CASE doCONNECT!Send
  <2>1. /\ \/ peer[doCONNECT!Other(turn)] = "gone" /\ buffer' = <<>> /\ UNCHANGED outbox
           \/ \E n \in 1..Len(buffer) :
                 /\ buffer' = SubSeq(buffer, n + 1, Len(buffer))
                 /\ outbox' = [outbox EXCEPT ![doCONNECT!Other(turn)] = @ \o SubSeq(buffer, 1, n)]
                 /\ Len(outbox[doCONNECT!Other(turn)]) + n <= OutSize
        /\ \/ buffer' = <<>> /\ relay' = "recv" /\ turn' = "server" /\ turn = "client" /\ "server" \in ready
           \/ buffer' = <<>> /\ relay' = "select" /\ turn' = turn
           \/ buffer' # <<>> /\ relay' = "send" /\ turn' = turn
        /\ UNCHANGED <<ready, inbox, peer>> /\ relay = "send"
    BY <1>6, SendTakes
  <2>2. PICK o \in doCONNECT!Sides : o = doCONNECT!Other(turn)
    BY DEF doCONNECT!Other
  <2>3. /\ outbox' \in [doCONNECT!Sides -> Seq(Data)] /\ \A s \in doCONNECT!Sides : Len(outbox'[s]) <= OutSize
        /\ buffer' \in Seq(Data) /\ Len(buffer') <= BufferSize
    <3>1. CASE peer[o] = "gone" /\ buffer' = <<>> /\ UNCHANGED outbox
      BY <3>1, <1>1, <1>2
    <3>2. ASSUME NEW n \in 1..Len(buffer),
                 buffer' = SubSeq(buffer, n + 1, Len(buffer)),
                 outbox' = [outbox EXCEPT ![o] = @ \o SubSeq(buffer, 1, n)],
                 Len(outbox[o]) + n <= OutSize
          PROVE  /\ outbox' \in [doCONNECT!Sides -> Seq(Data)] /\ \A s \in doCONNECT!Sides : Len(outbox'[s]) <= OutSize
                 /\ buffer' \in Seq(Data) /\ Len(buffer') <= BufferSize
      <4>1. n \in 0..Len(buffer)
        BY <1>2
      <4>2. /\ SubSeq(buffer, 1, n) \in Seq(Data) /\ SubSeq(buffer, n + 1, Len(buffer)) \in Seq(Data)
            /\ Len(SubSeq(buffer, 1, n)) = n /\ Len(SubSeq(buffer, n + 1, Len(buffer))) = Len(buffer) - n
        BY <4>1, <1>1, Cut
      <4>3. PICK piece \in Seq(Data), box \in Seq(Data) : piece = SubSeq(buffer, 1, n) /\ box = outbox[o] /\ Len(piece) = n
        BY <4>2, <1>1
      <4>4. box \o piece \in Seq(Data) /\ Len(box \o piece) = Len(box) + Len(piece)
        BY ConcatProperties
      <4>5. outbox' = [outbox EXCEPT ![o] = box \o piece]
        BY <3>2, <4>3
      <4> QED BY <1>1, <1>2, <3>2, <4>2, <4>3, <4>4, <4>5
    <3> QED BY <2>1, <2>2, <3>1, <3>2
  <2>4. doCONNECT!TypeOK'
    BY <1>1, <1>2, <2>1, <2>3 DEF doCONNECT!TypeOK
  <2>5. Taking'
    BY <2>1, <1>1 DEF RelayInv, Taking, SomethingFor
  <2> QED BY <2>4, <2>5 DEF RelayInv
<1>7. ASSUME NEW s \in doCONNECT!Sides, doCONNECT!Write(s) PROVE RelayInv'
  <2>1. PICK u \in Data : inbox' = [inbox EXCEPT ![s] = Append(@, u)]
    BY <1>7 DEF doCONNECT!Write
  <2>2. /\ Append(inbox[s], u) \in Seq(Data) /\ Append(inbox[s], u) # <<>> /\ Len(Append(inbox[s], u)) = Len(inbox[s]) + 1
    <3>1. PICK box \in Seq(Data) : box = inbox[s]
      BY <1>1
    <3>2. Append(box, u) \in Seq(Data) /\ Append(box, u) # <<>> /\ Len(Append(box, u)) = Len(box) + 1
      BY AppendProperties
    <3> QED BY <3>1, <3>2
  <2>3. Len(inbox[s]) < InSize /\ UNCHANGED <<relay, turn, ready, buffer, outbox, peer>>
    BY <1>7 DEF doCONNECT!Write, doCONNECT!proxyVars
  <2>4. /\ inbox' \in [doCONNECT!Sides -> Seq(Data)]
        /\ \A r \in doCONNECT!Sides : Len(inbox'[r]) <= InSize /\ (inbox[r] # <<>> => inbox'[r] # <<>>)
    BY <1>1, <1>2, <2>1, <2>2, <2>3
  <2>5. doCONNECT!TypeOK'
    BY <1>1, <2>3, <2>4 DEF doCONNECT!TypeOK
  <2>6. Taking'
    BY <2>3, <2>4, <1>1 DEF RelayInv, Taking, SomethingFor
  <2> QED BY <2>5, <2>6 DEF RelayInv
<1>8. ASSUME NEW s \in doCONNECT!Sides, doCONNECT!Read(s) PROVE RelayInv'
  <2>1. Tail(outbox[s]) \in Seq(Data) /\ Len(Tail(outbox[s])) = Len(outbox[s]) - 1
    BY <1>1, <1>8, HeadTailProperties DEF doCONNECT!Read
  <2>2. /\ outbox' \in [doCONNECT!Sides -> Seq(Data)] /\ \A r \in doCONNECT!Sides : Len(outbox'[r]) <= OutSize
    BY <1>1, <1>2, <1>8, <2>1 DEF doCONNECT!Read
  <2> QED BY <1>1, <1>8, <2>2 DEF doCONNECT!Read, doCONNECT!proxyVars, RelayInv, Taking, SomethingFor, doCONNECT!TypeOK
<1>9. ASSUME NEW s \in doCONNECT!Sides, doCONNECT!Shutdown(s) PROVE RelayInv'
  BY <1>1, <1>9 DEF doCONNECT!Shutdown, doCONNECT!proxyVars, RelayInv, Taking, SomethingFor, doCONNECT!TypeOK
<1>10. ASSUME NEW s \in doCONNECT!Sides, doCONNECT!Quit(s) PROVE RelayInv'
  BY <1>1, <1>2, <1>10 DEF doCONNECT!Quit, doCONNECT!proxyVars, RelayInv, Taking, SomethingFor, doCONNECT!TypeOK
<1>11. CASE UNCHANGED doCONNECT!vars
  BY <1>11 DEF doCONNECT!vars, doCONNECT!proxyVars, RelayInv, Taking, SomethingFor, doCONNECT!TypeOK
<1> QED BY <1>3, <1>4, <1>5, <1>6, <1>7, <1>8, <1>9, <1>10, <1>11 DEF doCONNECT!Next, doCONNECT!Loop

-----------------------------------------------------------------------------
\* What s said and o has not heard, place by place, before and after a step.
LEMMA HeldIs ==
  ASSUME NEW s \in doCONNECT!Sides, NEW o \in doCONNECT!Sides, s # o
  PROVE  /\ doCONNECT!Held(s) =
              IF peer[o] = "gone" THEN <<>>
              ELSE outbox[o] \o (IF turn = s THEN buffer ELSE <<>>) \o (IF relay = "end" THEN <<>> ELSE inbox[s])
         /\ doCONNECT!Held(s)' =
              IF peer'[o] = "gone" THEN <<>>
              ELSE outbox'[o] \o (IF turn' = s THEN buffer' ELSE <<>>) \o (IF relay' = "end" THEN <<>> ELSE inbox'[s])
BY TwoSides DEF doCONNECT!Held

\* A step that leaves those places alone.
LEMMA HeldStays ==
  ASSUME NEW s \in doCONNECT!Sides, NEW o \in doCONNECT!Sides, s # o,
         (peer'[o] = "gone") = (peer[o] = "gone"), outbox'[o] = outbox[o], inbox'[s] = inbox[s],
         UNCHANGED <<relay, turn, buffer>>
  PROVE  doCONNECT!Held(s)' = doCONNECT!Held(s)
BY HeldIs

\* Steps that move data inside the proxy.
LEMMA InsideMoves ==
  ASSUME RelayInv, doCONNECT!Select \/ doCONNECT!Recv \/ doCONNECT!Send, NEW s \in doCONNECT!Sides
  PROVE  /\ doCONNECT!Held(s)' = doCONNECT!Held(s)
         /\ UNCHANGED peer /\ relay # "end" /\ relay' # "end"
<1>1. PICK o \in doCONNECT!Sides : s # o
  BY DEF doCONNECT!Sides
<1>2. doCONNECT!Sides = {s, o} /\ doCONNECT!Other(s) = o /\ doCONNECT!Other(o) = s
  BY <1>1, TwoSides
<1>3. /\ turn \in doCONNECT!Sides /\ buffer \in Seq(Data)
      /\ inbox[s] \in Seq(Data) /\ outbox[o] \in Seq(Data)
      /\ inbox \in [doCONNECT!Sides -> Seq(Data)] /\ outbox \in [doCONNECT!Sides -> Seq(Data)]
      /\ relay # "send" => buffer = <<>>
  BY DEF RelayInv, Taking, doCONNECT!TypeOK
<1>4. CASE doCONNECT!Select
  <2>1. buffer = <<>> /\ UNCHANGED <<buffer, inbox, outbox, peer>> /\ relay = "select" /\ relay' = "recv"
    BY <1>3, <1>4 DEF doCONNECT!Select
  <2> QED BY <2>1, <1>1, HeldIs
<1>5. CASE doCONNECT!Recv
  <2>1. /\ buffer' \in Seq(Data) /\ inbox'[turn] \in Seq(Data)
        /\ buffer' \o inbox'[turn] = inbox[turn]
        /\ \A r \in doCONNECT!Sides : r # turn => inbox'[r] = inbox[r]
    BY <1>3, <1>5, RecvTakes
  <2>2. buffer = <<>> /\ UNCHANGED <<turn, outbox, peer>> /\ relay = "recv" /\ relay' = "send"
    BY <1>3, <1>5 DEF doCONNECT!Recv, doCONNECT!RecvUpTo
  <2>3. CASE turn = s
    <3>1. outbox[o] \o <<>> = outbox[o]
      BY <1>3, ConcatEmptySeq
    <3>2. PICK a \in Seq(Data), b \in Seq(Data), c \in Seq(Data) : a = outbox[o] /\ b = buffer' /\ c = inbox'[turn]
      BY <1>3, <2>1
    <3>3. (a \o b) \o c = a \o (b \o c)
      BY ConcatAssociative
    <3>4. outbox[o] \o buffer' \o inbox'[s] = outbox[o] \o <<>> \o inbox[s]
      BY <2>1, <2>3, <3>1, <3>2, <3>3
    <3> QED BY <2>2, <2>3, <3>4, <1>1, HeldIs
  <2>4. CASE turn # s
    <3>1. inbox'[s] = inbox[s] /\ outbox'[o] = outbox[o] /\ UNCHANGED peer
      BY <2>1, <2>2, <2>4
    <3>2. (IF turn' = s THEN buffer' ELSE <<>>) = <<>> /\ (IF turn = s THEN buffer ELSE <<>>) = <<>>
      BY <2>2, <2>4
    <3>3. (IF relay' = "end" THEN <<>> ELSE inbox'[s]) = (IF relay = "end" THEN <<>> ELSE inbox[s])
      BY <2>2, <3>1
    <3>4. doCONNECT!Held(s)' = doCONNECT!Held(s)
      <4>1. /\ doCONNECT!Held(s) =
                 IF peer[o] = "gone" THEN <<>>
                 ELSE outbox[o] \o (IF turn = s THEN buffer ELSE <<>>) \o (IF relay = "end" THEN <<>> ELSE inbox[s])
            /\ doCONNECT!Held(s)' =
                 IF peer'[o] = "gone" THEN <<>>
                 ELSE outbox'[o] \o (IF turn' = s THEN buffer' ELSE <<>>) \o (IF relay' = "end" THEN <<>> ELSE inbox'[s])
        BY <1>1, HeldIs
      <4> QED BY <3>1, <3>2, <3>3, <4>1
    <3> QED BY <2>2, <3>4
  <2> QED BY <2>2, <2>3, <2>4
<1>6. CASE doCONNECT!Send
  <2>1. /\ \/ peer[doCONNECT!Other(turn)] = "gone" /\ buffer' = <<>> /\ UNCHANGED outbox
           \/ \E n \in 1..Len(buffer) :
                 /\ buffer' = SubSeq(buffer, n + 1, Len(buffer))
                 /\ outbox' = [outbox EXCEPT ![doCONNECT!Other(turn)] = @ \o SubSeq(buffer, 1, n)]
        /\ \/ buffer' = <<>> /\ relay' # "end"
           \/ buffer' # <<>> /\ relay' = "send" /\ turn' = turn
        /\ UNCHANGED <<ready, inbox, peer>> /\ relay = "send"
    BY <1>6, SendTakes
  <2>2. CASE turn = s /\ peer[o] = "gone"
    BY <2>1, <2>2, <1>1, HeldIs
  <2>3. CASE turn = s /\ peer[o] # "gone"
    <3>1. PICK n \in Nat :
                 /\ n \in 1..Len(buffer)
                 /\ buffer' = SubSeq(buffer, n + 1, Len(buffer))
                 /\ outbox' = [outbox EXCEPT ![o] = @ \o SubSeq(buffer, 1, n)]
      <4>1. Len(buffer) \in Nat
        BY <1>3, LenProperties
      <4>2. \A n \in 1..Len(buffer) : n \in Nat
        BY <4>1
      <4> QED BY <2>1, <2>3, <1>2, <4>2
    <3>2. PICK a \in Seq(Data), b \in Seq(Data), c \in Seq(Data) : a = outbox[o] /\ b = buffer /\ c = inbox[s]
      BY <1>3
    <3>3. n \in 0..Len(b)
      BY <3>1, <3>2, LenProperties
    <3>4. PICK p \in Seq(Data), q \in Seq(Data) : p = SubSeq(b, 1, n) /\ q = SubSeq(b, n + 1, Len(b)) /\ p \o q = b
      <4>1. /\ SubSeq(b, 1, n) \in Seq(Data) /\ SubSeq(b, n + 1, Len(b)) \in Seq(Data)
            /\ SubSeq(b, 1, n) \o SubSeq(b, n + 1, Len(b)) = b
        BY <3>3, Cut
      <4> QED BY <4>1, Zenon
    <3>5. (a \o p) \o q \o c = a \o b \o c
      <4>1. (a \o p) \o q = a \o (p \o q)
        BY ConcatAssociative
      <4> QED BY <3>4, <4>1, Zenon
    <3>6. outbox'[o] = a \o p /\ buffer' = q
      BY <3>1, <3>2, <3>4, <1>1, <1>3
    <3>7. outbox'[o] \o buffer' \o inbox'[s] = outbox[o] \o buffer \o inbox[s]
      BY <2>1, <3>2, <3>5, <3>6
    <3>8. (IF turn' = s THEN buffer' ELSE <<>>) = buffer'
      BY <2>1, <2>3
    <3> QED BY <2>1, <2>3, <3>7, <3>8, <1>1, HeldIs
  <2>4. CASE turn # s
    <3>1. turn = o /\ outbox'[o] = outbox[o]
      BY <1>2, <1>3, <1>1, <2>1, <2>4
    <3>2. (IF turn' = s THEN buffer' ELSE <<>>) = <<>>
      BY <2>1, <2>4
    <3>3. relay' # "end" /\ relay # "end" /\ UNCHANGED <<inbox, peer>>
      BY <2>1
    <3>4. (IF turn = s THEN buffer ELSE <<>>) = <<>>
      BY <2>4
    <3> QED BY <3>1, <3>2, <3>3, <3>4, <1>1, HeldIs
  <2> QED BY <2>1, <2>2, <2>3, <2>4
<1> QED BY <1>4, <1>5, <1>6

\* A step of the relay is a step of the tunnel, or moves data inside it.
LEMMA RelayStepsTunnel ==
  ASSUME RelayInv, [doCONNECT!Next]_(doCONNECT!vars)
  PROVE  [doCONNECT!Pipes!Next]_(doCONNECT!Pipes!tunnelVars)
<1> DEFINE Unmoved == /\ \A s \in doCONNECT!Sides : doCONNECT!Held(s)' = doCONNECT!Held(s)
                      /\ UNCHANGED peer /\ (relay # "end")' = (relay # "end")
<1>1. Unmoved => UNCHANGED doCONNECT!Pipes!tunnelVars
  BY DEF doCONNECT!Pipes!tunnelVars
<1>2. /\ doCONNECT!Pipes!Sides = doCONNECT!Sides
      /\ \A s, o \in doCONNECT!Sides : s # o => doCONNECT!Pipes!Other(s) = o
  BY DEF doCONNECT!Pipes!Sides, doCONNECT!Sides, doCONNECT!Pipes!Other
<1>3. /\ turn \in doCONNECT!Sides /\ buffer \in Seq(Data) /\ <<>> \in Seq(Data)
      /\ inbox \in [doCONNECT!Sides -> Seq(Data)] /\ outbox \in [doCONNECT!Sides -> Seq(Data)]
      /\ peer \in [doCONNECT!Sides -> {"open", "half", "gone"}]
      /\ relay # "send" => buffer = <<>>
      /\ relay = "recv" => inbox[turn] # <<>> \/ peer[turn] # "open"
  BY EmptySeq DEF RelayInv, Taking, SomethingFor, doCONNECT!TypeOK
<1>4. CASE doCONNECT!Select \/ doCONNECT!Recv \/ doCONNECT!Send
  <2>1. \A s \in doCONNECT!Sides : doCONNECT!Held(s)' = doCONNECT!Held(s)
    BY <1>4, InsideMoves
  <2>2. relay # "end" /\ relay' # "end" /\ UNCHANGED peer
    BY <1>3, <1>4, InsideMoves
  <2>3. Unmoved
    BY <2>1, <2>2
  <2> QED BY <1>1, <2>3
<1>5. CASE doCONNECT!RecvEof
  <2>1. PICK t \in doCONNECT!Sides : t = turn
    BY <1>3
  <2>2. PICK o \in doCONNECT!Sides : t # o
    BY DEF doCONNECT!Sides
  <2>3. doCONNECT!Sides = {t, o}
    BY <1>3, <2>2, TwoSides
  <2>4. /\ relay = "recv" /\ relay' = "end" /\ inbox[t] = <<>> /\ peer[t] # "open" /\ buffer = <<>>
        /\ UNCHANGED <<turn, ready, buffer, inbox, outbox, peer>>
    BY <1>3, <1>5, <2>1 DEF doCONNECT!RecvEof
  <2>5. doCONNECT!Held(t)' = doCONNECT!Held(t)
    <3>1. /\ (IF turn = t THEN buffer ELSE <<>>) = <<>> /\ (IF turn' = t THEN buffer' ELSE <<>>) = <<>>
          /\ (IF relay = "end" THEN <<>> ELSE inbox[t]) = <<>> /\ (IF relay' = "end" THEN <<>> ELSE inbox'[t]) = <<>>
          /\ peer' = peer /\ outbox' = outbox
      BY <2>4
    <3>2. /\ doCONNECT!Held(t) =
              IF peer[o] = "gone" THEN <<>>
              ELSE outbox[o] \o (IF turn = t THEN buffer ELSE <<>>) \o (IF relay = "end" THEN <<>> ELSE inbox[t])
          /\ doCONNECT!Held(t)' =
              IF peer'[o] = "gone" THEN <<>>
              ELSE outbox'[o] \o (IF turn' = t THEN buffer' ELSE <<>>) \o (IF relay' = "end" THEN <<>> ELSE inbox'[t])
      BY <2>2, HeldIs
    <3> QED BY <3>1, <3>2
  <2>6. IsPrefix(doCONNECT!Held(o)', doCONNECT!Held(o))
    <3>1. CASE peer[t] = "gone"
      <4>1. doCONNECT!Held(o)' = <<>> /\ doCONNECT!Held(o) = <<>>
        BY <1>3, <2>2, <2>4, <3>1, HeldIs
      <4> QED BY <4>1, <1>3, FrontIsPrefix
    <3>2. CASE peer[t] # "gone"
      <4>1. PICK a \in Seq(Data), c \in Seq(Data) : a = outbox[t] /\ c = inbox[o]
        BY <1>3
      <4>2. a \o <<>> = a
        BY ConcatEmptySeq
      <4>3. doCONNECT!Held(o)' = a /\ doCONNECT!Held(o) = a \o c
        BY <1>3, <2>1, <2>2, <2>4, <3>2, <4>1, <4>2, HeldIs
      <4> QED BY <4>3, FrontIsPrefix
    <3> QED BY <3>1, <3>2
  <2>7. doCONNECT!Pipes!Fall
    <3>1. doCONNECT!Pipes!IsPrefix(doCONNECT!Held(o)', doCONNECT!Held(o))
      BY <2>6 DEF IsPrefix, doCONNECT!Pipes!IsPrefix
    <3>2. doCONNECT!Pipes!Other(t) = o
      BY <1>2, <1>3, <2>2
    <3>3. /\ [r \in doCONNECT!Sides |-> doCONNECT!Held(r)]'[t] = doCONNECT!Held(t)'
          /\ [r \in doCONNECT!Sides |-> doCONNECT!Held(r)]'[o] = doCONNECT!Held(o)'
          /\ [r \in doCONNECT!Sides |-> doCONNECT!Held(r)][t] = doCONNECT!Held(t)
          /\ [r \in doCONNECT!Sides |-> doCONNECT!Held(r)][o] = doCONNECT!Held(o)
          /\ DOMAIN [r \in doCONNECT!Sides |-> doCONNECT!Held(r)]' = doCONNECT!Sides
      OBVIOUS
    <3> QED BY <1>2, <1>3, <2>4, <2>5, <3>1, <3>2, <3>3 DEF doCONNECT!Pipes!Fall
  <2> QED BY <2>7 DEF doCONNECT!Pipes!Next
<1>6. ASSUME NEW s \in doCONNECT!Sides,
             doCONNECT!Write(s) \/ doCONNECT!Read(s) \/ doCONNECT!Shutdown(s) \/ doCONNECT!Quit(s)
      PROVE  [doCONNECT!Pipes!Next]_(doCONNECT!Pipes!tunnelVars)
  <2>1. PICK o \in doCONNECT!Sides : s # o
    BY DEF doCONNECT!Sides
  <2>2. doCONNECT!Sides = {s, o}
    BY <2>1, TwoSides
  <2>3. CASE doCONNECT!Write(s)
    <3>1. PICK u \in Data : inbox' = [inbox EXCEPT ![s] = Append(@, u)]
      BY <2>3 DEF doCONNECT!Write
    <3>2. relay # "end" /\ peer[s] = "open" /\ UNCHANGED <<relay, turn, ready, buffer, outbox, peer>>
      BY <2>3 DEF doCONNECT!Write, doCONNECT!proxyVars
    <3>3. doCONNECT!Held(o)' = doCONNECT!Held(o)
      BY <1>3, <2>1, <3>1, <3>2, HeldIs
    <3>4. CASE peer[o] = "gone"
      <4>1. Unmoved
        BY <2>1, <2>2, <3>2, <3>3, <3>4, HeldIs
      <4> QED BY <1>1, <4>1
    <3>5. CASE peer[o] # "gone"
      <4>1. PICK a \in Seq(Data), b \in Seq(Data), c \in Seq(Data) :
              a = outbox[o] /\ b = (IF turn = s THEN buffer ELSE <<>>) /\ c = inbox[s]
        BY <1>3
      <4>2. a \o b \in Seq(Data)
        BY ConcatProperties
      <4>3. (a \o b) \o Append(c, u) = Append((a \o b) \o c, u)
        BY <4>2, AppendToConcat
      <4>4. inbox'[s] = Append(c, u)
        BY <1>3, <3>1, <4>1
      <4>5. doCONNECT!Held(s)' = Append(doCONNECT!Held(s), u)
        BY <2>1, <3>2, <3>5, <4>1, <4>3, <4>4, HeldIs
      <4>6. [r \in doCONNECT!Sides |-> doCONNECT!Held(r)]'
              = [[r \in doCONNECT!Sides |-> doCONNECT!Held(r)] EXCEPT
                   ![s] = Append([r \in doCONNECT!Sides |-> doCONNECT!Held(r)][s], u)]
        BY <2>1, <2>2, <3>3, <4>5
      <4>7. doCONNECT!Pipes!Other(s) = o
        BY <1>2, <2>1
      <4>8. doCONNECT!Pipes!Say(s)
        BY <3>2, <3>5, <4>6, <4>7 DEF doCONNECT!Pipes!Say
      <4> QED BY <1>2, <4>8 DEF doCONNECT!Pipes!Next
    <3> QED BY <3>4, <3>5
  <2>4. CASE doCONNECT!Read(s)
    <3>1. /\ outbox' = [outbox EXCEPT ![s] = Tail(@)] /\ outbox[s] # <<>> /\ peer[s] # "gone"
          /\ UNCHANGED <<relay, turn, ready, buffer, inbox, peer>>
      BY <2>4 DEF doCONNECT!Read, doCONNECT!proxyVars
    <3>2. doCONNECT!Held(s)' = doCONNECT!Held(s)
      <4>1. outbox'[o] = outbox[o] /\ peer'[o] = peer[o] /\ inbox'[s] = inbox[s]
        BY <1>3, <2>1, <3>1
      <4> QED BY <2>1, <3>1, <4>1, HeldStays
    <3>3. PICK a \in Seq(Data), b \in Seq(Data), c \in Seq(Data) :
              a = outbox[s] /\ b = (IF turn = o THEN buffer ELSE <<>>) /\ c = (IF relay = "end" THEN <<>> ELSE inbox[o])
      BY <1>3
    <3>4. Tail(a) \in Seq(Data) /\ a \o b \in Seq(Data) /\ a \o b # <<>> /\ Tail(a \o b) = Tail(a) \o b
      BY <3>1, <3>3, TailOfConcat, ConcatProperties
    <3>5. PICK d \in Seq(Data) : d = a \o b
      BY <3>4
    <3>6. Tail(d \o c) = Tail(d) \o c /\ d \o c # <<>>
      BY <3>4, <3>5, TailOfConcat
    <3>7. outbox'[s] = Tail(a)
      BY <1>3, <3>1, <3>3
    <3>8. doCONNECT!Held(o)' = Tail(doCONNECT!Held(o)) /\ doCONNECT!Held(o) # <<>>
      <4>1. doCONNECT!Held(o) = a \o b \o c
        BY <2>1, <3>1, <3>3, HeldIs
      <4>2. /\ peer'[s] # "gone" /\ b = (IF turn' = o THEN buffer' ELSE <<>>)
            /\ c = (IF relay' = "end" THEN <<>> ELSE inbox'[o])
        BY <3>1, <3>3
      <4>3. doCONNECT!Held(o)' = Tail(a) \o b \o c
        BY <2>1, <3>7, <4>2, HeldIs
      <4> QED BY <3>4, <3>5, <3>6, <4>1, <4>3
    <3>9. doCONNECT!Pipes!Hear(s)
      BY <1>2, <2>1, <2>2, <3>1, <3>2, <3>8 DEF doCONNECT!Pipes!Hear
    <3> QED BY <1>2, <3>9 DEF doCONNECT!Pipes!Next
  <2>5. CASE doCONNECT!Shutdown(s)
    <3>1. /\ peer[s] = "open" /\ peer' = [peer EXCEPT ![s] = "half"]
          /\ UNCHANGED <<relay, turn, ready, buffer, inbox, outbox>>
      BY <2>5 DEF doCONNECT!Shutdown, doCONNECT!proxyVars
    <3>2. doCONNECT!Held(s)' = doCONNECT!Held(s) /\ doCONNECT!Held(o)' = doCONNECT!Held(o)
      <4>1. peer'[o] = peer[o] /\ peer[s] # "gone" /\ peer'[s] # "gone"
        BY <1>3, <2>1, <3>1
      <4> QED BY <2>1, <3>1, <4>1, HeldStays
    <3>3. doCONNECT!Pipes!SayNoMore(s)
      BY <2>2, <3>1, <3>2 DEF doCONNECT!Pipes!SayNoMore
    <3> QED BY <1>2, <3>3 DEF doCONNECT!Pipes!Next
  <2>6. CASE doCONNECT!Quit(s)
    <3>1. /\ peer[s] # "gone" /\ peer' = [peer EXCEPT ![s] = "gone"]
          /\ outbox' = [outbox EXCEPT ![s] = <<>>]
          /\ UNCHANGED <<relay, turn, ready, buffer, inbox>>
      BY <2>6 DEF doCONNECT!Quit, doCONNECT!proxyVars
    <3>2. doCONNECT!Held(s)' = doCONNECT!Held(s) /\ doCONNECT!Held(o)' = <<>>
      <4>1. peer'[o] = peer[o] /\ peer'[s] = "gone" /\ outbox'[o] = outbox[o]
        BY <1>3, <2>1, <3>1
      <4>2. doCONNECT!Held(s)' = doCONNECT!Held(s)
        BY <2>1, <3>1, <4>1, HeldStays
      <4> QED BY <2>1, <4>1, <4>2, HeldIs
    <3>3. doCONNECT!Pipes!Leave(s)
      BY <1>2, <2>1, <2>2, <3>1, <3>2 DEF doCONNECT!Pipes!Leave
    <3> QED BY <1>2, <3>3 DEF doCONNECT!Pipes!Next
  <2> QED BY <1>6, <2>3, <2>4, <2>5, <2>6
<1>7. CASE UNCHANGED doCONNECT!vars
  <2>1. Unmoved
    BY <1>7 DEF doCONNECT!vars, doCONNECT!proxyVars, doCONNECT!Held
  <2> QED BY <1>1, <2>1
<1> QED BY <1>4, <1>5, <1>6, <1>7 DEF doCONNECT!Next, doCONNECT!Loop

-----------------------------------------------------------------------------
(* The thread of a connection: process() and the relay together.           *)

\* A step of the thread is one of process() and one of the relay, or leaves either alone.
LEMMA ThreadSteps ==
  /\ ThreadInit => Init /\ doCONNECT!Init
  /\ [ThreadNext]_threadVars => [Next]_vars /\ [doCONNECT!Next]_(doCONNECT!vars)
<1>1. ThreadInit => Init /\ doCONNECT!Init
  BY DEF ThreadInit
<1>2. Process => Next /\ UNCHANGED doCONNECT!vars
  BY DEF Process, relayVars, doCONNECT!vars, doCONNECT!proxyVars
<1>3. Tunnel => UNCHANGED vars /\ doCONNECT!Next
  BY DEF Tunnel, doCONNECT!Next
<1>4. ASSUME NEW s \in doCONNECT!Sides
      PROVE  Hear(s) \/ Act(s) => UNCHANGED vars /\ doCONNECT!Next
  BY <1>4 DEF Hear, Act, doCONNECT!Next
<1>5. UNCHANGED threadVars => UNCHANGED vars /\ UNCHANGED doCONNECT!vars
  BY DEF threadVars, relayVars, doCONNECT!vars, doCONNECT!proxyVars
<1> QED BY <1>1, <1>2, <1>3, <1>4, <1>5 DEF ThreadNext

\* The thread is process() and, in it, doCONNECT(): what is proved of each is so of the thread.
THEOREM ThreadIsBoth == ThreadSpec => Spec /\ doCONNECT!Spec
BY ThreadSteps, PTL DEF ThreadSpec, Spec, doCONNECT!Spec

\* doCONNECT(): the buffer is empty but while send() has it, recv() is called for a side
\* with data or an end of file, and its variables stay within their types.
THEOREM RelayInvariant == ThreadSpec => [](doCONNECT!TypeOK /\ Taking)
<1>1. doCONNECT!Init => RelayInv
  BY InitRelay
<1>2. RelayInv /\ [doCONNECT!Next]_(doCONNECT!vars) => RelayInv'
  BY RelayKeepsInv
<1>3. doCONNECT!Spec => []RelayInv
  BY <1>1, <1>2, PTL DEF doCONNECT!Spec
<1>4. RelayInv => doCONNECT!TypeOK /\ Taking
  BY DEF RelayInv
<1> QED BY <1>3, <1>4, ThreadIsBoth, PTL

\* doCONNECT() is a tunnel: while it runs nothing is lost, repeated or put out of order
\* either way, and the peer whose going away ends it is heard out.
THEOREM RelayIsTunnel == ThreadSpec => ImplementsTunnel
<1>1. doCONNECT!Init => RelayInv /\ doCONNECT!Pipes!Init
  BY InitRelay
<1>2. RelayInv /\ [doCONNECT!Next]_(doCONNECT!vars) => RelayInv' /\ [doCONNECT!Pipes!Next]_(doCONNECT!Pipes!tunnelVars)
  BY RelayKeepsInv, RelayStepsTunnel
<1>3. doCONNECT!Spec => doCONNECT!Pipes!Spec
  BY <1>1, <1>2, PTL DEF doCONNECT!Spec, doCONNECT!Pipes!Spec
<1> QED BY <1>3, ThreadIsBoth, PTL DEF ImplementsTunnel, doCONNECT!ImplementsTunnel

\* What holds of every exchange, of the whole answer if the code can count it, holds while
\* its thread also runs the relay.
THEOREM ThreadCorrect ==
  ThreadSpec => [](/\ ServersSeeTheRequest /\ HandedOnce /\ ForgetsUnserved
                   /\ ClientSeesTheAnswer /\ AnswerIsWhole /\ NoSocketLeaks)
<1>1. IInv => /\ ServersSeeTheRequest /\ HandedOnce /\ ForgetsUnserved
              /\ ClientSeesTheAnswer /\ AnswerIsWhole /\ NoSocketLeaks
  BY Implies
<1> QED BY <1>1, Invariant, ThreadIsBoth, PTL
=============================================================================
