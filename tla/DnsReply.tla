------------------------------ MODULE DnsReply ------------------------------
(***************************************************************************)
(* DnsQuery::queryA() and queryTXT(), byte by byte where the position in   *)
(* the reply depends on it: one query, the reply of a name server, which   *)
(* may arrive only in part, and the loop over its records.                 *)
(*                                                                         *)
(* Positions count from 0 like the C++ array.  Names stand for their form: *)
(* a pointer to the question, labels that end in such a pointer, or labels *)
(* up to an empty one.  What a name says is not used by the code, and the  *)
(* nested call that follows a pointer does not move the position.          *)
(***************************************************************************)
EXTENDS Naturals, SequencesExt

CONSTANTS Forms,        \* forms of names the server uses
          Hosts,        \* last bytes of addresses
          RecordLimit,  \* answers in a reply
          Junk,         \* bytes that the rest of the buffer may hold
          JunkLimit     \* how many of them before zeros follow

A == 1   CNAME == 5   TXT == 16

VARIABLES
  query,    \* A or TXT: which of the two functions is called
  phase,    \* where it is
  reply,    \* history: what the server answers
  got,      \* how many bytes of it recv() returned
  junk,     \* what the buffer holds behind them
  pos,      \* bufferPos
  left,     \* records the loop has still to read
  found,    \* aRecords
  text      \* txtRecord

vars == <<query, phase, reply, got, junk, pos, left, found, text>>

-----------------------------------------------------------------------------
(* The reply, as RFC 1035 has it, behind the two bytes of its length.      *)

Question == <<1, 97, 0, 0, query, 0, 1>>

Name(form) ==
  CASE form = "pointer" -> <<192, 12>>
    [] form = "labels then pointer" -> <<1, 98, 192, 12>>
    [] form = "labels" -> <<1, 97, 0>>

Address(record) == <<10, 0, 0, record.host>>

Data(record) ==
  CASE record.type = A -> Address(record)
    [] record.type = CNAME -> Name("labels then pointer")
    [] record.type = TXT -> <<1, record.host>>

Encoded(record) ==
  Name(record.form) \o <<0, record.type, 0, 1, 0, 0, 0, 60, 0, Len(Data(record))>> \o Data(record)

Head14(r) == <<0, 0, 0, 1, 129, r.code, 0, 1, 0, Len(r.records), 0, 0, 0, 0>>

\* The bytes up to the end of record n.
UpTo(r, n) == Head14(r) \o Question \o FlattenSeq([i \in 1..n |-> Encoded(r.records[i])])

Bytes(r) == UpTo(r, Len(r.records))

Records == [type : {A, CNAME, TXT}, form : Forms, host : Hosts]

Replies == [records : BoundedSeq(Records, RecordLimit), code : {0, 3}]

NoReply == [records |-> <<>>, code |-> 0]

-----------------------------------------------------------------------------
TypeOK ==
  /\ query \in {A, TXT}
  /\ phase \in {"sent", "records", "answered", "failed", "crashed"}
  /\ got \in 0..Len(Bytes(reply)) /\ junk \in Junk
  /\ pos \in Nat
  /\ left \in 0..RecordLimit
  /\ found \in Seq([1..4 -> 0..255]) /\ text \in Seq(0..255)

Start == 14 + Len(Question)

Init ==
  /\ query \in {A, TXT}
  /\ phase = "sent" /\ reply = NoReply
  /\ got = 0 /\ junk \in Junk
  /\ pos = Start /\ left = 0
  /\ found = <<>> /\ text = <<>>

\* buffer[p], and two of them as a number.
Byte(p) == IF p < got THEN Bytes(reply)[p + 1] ELSE IF p < got + JunkLimit THEN junk ELSE 0
Short(p) == 256 * Byte(p) + Byte(p + 1)

\* recv(): the reply, a part of it, or nothing.
Receive ==
  /\ phase = "sent"
  /\ \E r \in Replies : reply' = r /\ got' \in 0..Len(Bytes(r))
  /\ IF got' < pos \/ reply'.code # 0
     THEN phase' = "failed" /\ UNCHANGED left
     ELSE phase' = "records" /\ left' = Len(reply'.records)
  /\ UNCHANGED <<query, junk, pos, found, text>>

\* parseName(): where it leaves the position.  After a pointer that is behind it, after
\* labels it is on the empty one.
EndOfName(p) ==
  LET after[q \in Nat] ==
        IF Byte(q) = 0 THEN q ELSE IF Byte(q) = 192 THEN q + 2 ELSE after[q + 1 + Byte(q)]
  IN after[p]

Fields == EndOfName(pos)    \* where type, class and ttl are read
DataAt == Fields + 10
DataLength == Short(Fields + 8)

\* memcpy() into the four bytes of an in_addr, which holds junk before.
AddressRead == [i \in 1..4 |-> IF i <= DataLength THEN Byte(DataAt + i - 1) ELSE junk]

\* Faulty variant: only the data of records that are looked at is passed.
ParseOnlyA ==
  /\ phase = "records" /\ query = A /\ left > 0 /\ left' = left - 1
  /\ IF Short(Fields) = A
     THEN found' = Append(found, AddressRead) /\ pos' = DataAt + DataLength
     ELSE UNCHANGED found /\ pos' = DataAt
  /\ UNCHANGED <<query, phase, reply, got, junk, text>>

\* One turn of the loop of queryA().  An address longer than four bytes overruns its
\* place: the process may end, or may not.
ParseA ==
  /\ phase = "records" /\ query = A /\ left > 0 /\ left' = left - 1
  /\ pos' = DataAt + DataLength
  /\ found' = IF Short(Fields) = A THEN Append(found, AddressRead) ELSE found
  /\ \/ UNCHANGED phase
     \/ Short(Fields) = A /\ DataLength > 4 /\ phase' = "crashed"
  /\ UNCHANGED <<query, reply, got, junk, text>>

\* One turn of the loop of queryTXT(): a text is copied, not passed.
ParseTXT ==
  /\ phase = "records" /\ query = TXT /\ left > 0 /\ left' = left - 1
  /\ IF Short(Fields) = TXT
     THEN pos' = DataAt + 1 /\ text' = [i \in 1..Byte(DataAt) |-> Byte(DataAt + i)]
     ELSE pos' = DataAt + DataLength /\ UNCHANGED text
  /\ UNCHANGED <<query, phase, reply, got, junk, found>>

\* The end of either loop.
Return ==
  /\ phase = "records" /\ left = 0 /\ phase' = "answered"
  /\ UNCHANGED <<query, reply, got, junk, pos, left, found, text>>

Next == Receive \/ ParseA \/ ParseTXT \/ Return

Spec == Init /\ [][Next]_vars

-----------------------------------------------------------------------------
(* Correctness.                                                            *)

\* How many records arrived whole, and the addresses among the first n.
Whole == CHOOSE n \in 0..Len(reply.records) :
  /\ Len(UpTo(reply, n)) <= got
  /\ n < Len(reply.records) => got < Len(UpTo(reply, n + 1))

AddressesIn(r, n) ==
  LET among[m \in 0..n] ==
        IF m = 0 THEN <<>>
        ELSE IF r.records[m].type = A THEN Append(among[m - 1], Address(r.records[m])) ELSE among[m - 1]
  IN among[n]

\* queryA() finds the addresses of the reply in their order, past CNAMEs and texts, as
\* far as the reply arrived; what it adds of a broken reply comes after them.
FindsAddresses ==
  phase = "answered" /\ query = A =>
    /\ IsPrefix(AddressesIn(reply, Whole), found)
    /\ got = Len(Bytes(reply)) => found = AddressesIn(reply, Len(reply.records))

\* queryTXT() finds the text of a whole reply whose last record is its only text, whatever
\* stands before it; a record behind a text may replace it by something else.
FindsText ==
  LET last == Len(reply.records)
      texts == {n \in 1..last : reply.records[n].type = TXT}
  IN phase = "answered" /\ query = TXT /\ got = Len(Bytes(reply)) /\ last > 0 /\ texts = {last}
       => text = <<reply.records[last].host>>

\* What the two functions return is what the name server answered.
ReadsReply == FindsAddresses /\ FindsText
=============================================================================
