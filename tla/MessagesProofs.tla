---------------------------- MODULE MessagesProofs ----------------------------
(***************************************************************************)
(* Proofs about the three kinds of messages of Messages, for any number of *)
(* clients, any size of queries and replies, any number of records and of  *)
(* lines:                                                                  *)
(*                                                                         *)
(*   - a client of the agent never hears a unit of somebody else's reply,  *)
(*     nor of its own in another's place, in front of where its reply      *)
(*     broke off.  HearsItsReply speaks of what was sent; that it is right *)
(*     when it is sent takes what the buffer holds while the reply is      *)
(*     read, which InBuffer adds;                                          *)
(*   - queryA() and queryTXT() return what the name server answered, cut   *)
(*     anywhere and whatever the memory behind it holds, as long as names  *)
(*     point to the question and are not written out.  What the loops have *)
(*     read is always right (Finding, Telling), because a position at the  *)
(*     start of a record is followed by one at the start of the next       *)
(*     (ReadIs);                                                           *)
(*   - a header is handed on as it came but for what concerns the two      *)
(*     connections, because of what each stage knows of the list           *)
(*     (Collected, Asked, Answered, SentAlike).                            *)
(*                                                                         *)
(* EndOfName, AddressesIn and Only are recursive functions, FlattenSeq one *)
(* that the library defines: that each has the values its rule says is     *)
(* shown by the least number at which it had not (LeastNumber).            *)
(***************************************************************************)
EXTENDS Messages, SequenceTheorems, WellFoundedInduction, TLAPS


-----------------------------------------------------------------------------
(* The queries of the device that the agent passes on: DnsForwarder.       *)

\* Where the thread is decides whose query it has, and what it has read of the reply.
Place ==
  /\ pc \in {"forward", "length", "data", "reply"} => addr \in Clients
  /\ pc \in {"forward", "length"} => nread = 0

\* The units of the reply that have been read are at the front of the buffer.
InBuffer ==
  pc \in {"data", "reply"} => \A k \in 1..nread : buffer[k] = <<"reply", addr, k>>

ForwarderInv == TypeOK /\ Place /\ InBuffer /\ HearsItsReply

\* Writing cells at a position keeps the buffer's type, and everything in front.
LEMMA WrittenType ==
  ASSUME buffer \in [Cells -> Cell], NEW cells \in Seq(Cell), NEW first \in Nat \ {0}
  PROVE  /\ Written(cells, first) \in [Cells -> Cell]
         /\ \A k \in Cells : k < first => Written(cells, first)[k] = buffer[k]
         /\ \A k \in Cells : k - first \in 0..(Len(cells) - 1) =>
              Written(cells, first)[k] = cells[k - first + 1]
<1>1. Cells \subseteq Nat
  BY UnitsAssumption DEF Cells
<1>2. ASSUME NEW k \in Cells, k - first \in 0..(Len(cells) - 1)
      PROVE  cells[k - first + 1] \in Cell
  <2>1. Len(cells) \in Nat
    BY LenProperties
  <2>2. k - first + 1 \in 1..Len(cells)
    BY <1>1, <1>2, <2>1
  <2> QED BY <2>2, ElementOfSeq
<1>3. \A k \in Cells : k < first => ~(k - first \in 0..(Len(cells) - 1))
  BY <1>1
<1> QED BY <1>2, <1>3 DEF Written

\* A query and a reply are sequences of cells.
LEMMA Packets ==
  ASSUME NEW c \in Clients, NEW n \in 0..Units
  PROVE  /\ Query(c, n) \in Seq(Cell) /\ Len(Query(c, n)) = n
         /\ Reply(c, n) \in Seq(Cell) /\ Len(Reply(c, n)) = n
         /\ \A k \in 1..n : Reply(c, n)[k] = <<"reply", c, k>>
<1>1. n \in Nat /\ 1..n \subseteq 1..Units
  BY UnitsAssumption
<1>2. \A k \in 1..n : <<"query", c, k>> \in Cell /\ <<"reply", c, k>> \in Cell
  BY <1>1 DEF Cell
<1>3. Query(c, n) \in [1..n -> Cell] /\ Reply(c, n) \in [1..n -> Cell]
  BY <1>2 DEF Query, Reply
<1>4. Query(c, n) \in Seq(Cell) /\ Reply(c, n) \in Seq(Cell)
  BY <1>1, <1>3, SeqDef
<1>5. Len(Query(c, n)) = n /\ Len(Reply(c, n)) = n
  BY <1>1, <1>3, <1>4
<1> QED BY <1>4, <1>5 DEF Reply

\* The front of the buffer is a sequence of its cells.
LEMMA Front ==
  ASSUME buffer \in [Cells -> Cell], NEW n \in 0..Units
  PROVE  /\ SubSeq(buffer, 1, n) \in Seq(Cell) /\ Len(SubSeq(buffer, 1, n)) = n
         /\ \A k \in 1..n : SubSeq(buffer, 1, n)[k] = buffer[k]
<1>1. n \in Int /\ \A k \in 1..n : buffer[k] \in Cell
  BY UnitsAssumption DEF Cells
<1>2. /\ SubSeq(buffer, 1, n) \in Seq(Cell)
      /\ Len(SubSeq(buffer, 1, n)) = IF 1 <= n THEN n - 1 + 1 ELSE 0
      /\ \A k \in 1..(n - 1 + 1) : SubSeq(buffer, 1, n)[k] = buffer[1 + k - 1]
  BY <1>1, SubSeqProperties
<1>3. \A k \in 1..n : 1 + k - 1 = k
  BY <1>1
<1>4. n - 1 + 1 = n /\ n >= 0
  BY <1>1, UnitsAssumption
<1> QED BY <1>2, <1>3, <1>4

\* Nothing has been sent yet.
LEMMA InitForwarder == Init => ForwarderInv
<1> SUFFICES ASSUME Init PROVE ForwarderInv
  OBVIOUS
<1>1. /\ pc = "wait" /\ queue = <<>> /\ addr = "nobody" /\ size = 0 /\ nread = 0
      /\ emptied = FALSE /\ broken = {}
  BY DEF Init
<1>2. buffer \in [Cells -> Cell]
  BY DEF Init, Cell
<1>3. <<>> \in Seq(Cell) /\ Len(<<>>) = 0
  OBVIOUS
<1>4. heard \in [Clients -> Seq(Cell)] /\ came \in [Clients -> 0..Units]
  BY <1>3, UnitsAssumption DEF Init
<1>5. queue \in Seq([client : Clients, size : 0..Units]) /\ Len(queue) <= QueueLimit
  BY <1>1, QueueLimitAssumption
<1>6. TypeOK
  <2>1. size \in 0..Units /\ nread \in 0..size
    BY <1>1, UnitsAssumption
  <2> QED BY <1>1, <1>2, <1>4, <1>5, <2>1, Zenon DEF TypeOK
<1>7. \A c \in Clients : heard[c] = <<>> /\ came[c] = 0
  BY DEF Init
<1>8. HearsItsReply
  <2> SUFFICES ASSUME NEW c \in Clients
               PROVE  /\ came[c] <= Len(heard[c])
                      /\ \A k \in 1..came[c] : heard[c][k] = <<"reply", c, k>>
                      /\ c \notin broken => came[c] = Len(heard[c])
    BY DEF HearsItsReply
  <2>1. came[c] = 0 /\ Len(heard[c]) = 0
    BY <1>3, <1>7
  <2>2. 1..came[c] = {}
    BY <2>1
  <2>3. \A k \in 1..came[c] : heard[c][k] = <<"reply", c, k>>
    BY <2>2
  <2> QED BY <2>1, <2>3
<1> QED BY <1>1, <1>6, <1>8 DEF ForwarderInv, Place, InBuffer

\* A new query forgets what its client heard before, and touches nothing else.
LEMMA AskStep ==
  ASSUME ForwarderInv, NEW c \in Clients, NEW n \in 0..Units, Ask(c, n) PROVE ForwarderInv'
<1> USE DEF ForwarderInv, Ask
<1>1. TypeOK'
  <2>1. Append(queue, [client |-> c, size |-> n]) \in Seq([client : Clients, size : 0..Units])
    BY AppendProperties DEF TypeOK
  <2>2. Len(queue') = Len(queue) + 1
    BY AppendProperties DEF TypeOK
  <2>3. Len(queue') <= QueueLimit
    BY <2>2, LenProperties, QueueLimitAssumption DEF TypeOK
  <2>4. heard' \in [Clients -> Seq(Cell)] /\ came' \in [Clients -> 0..Units]
    BY UnitsAssumption, EmptySeq DEF TypeOK
  <2> QED BY <2>1, <2>3, <2>4 DEF TypeOK
<1>2. HearsItsReply'
  BY EmptySeq DEF TypeOK, HearsItsReply
<1> QED BY <1>1, <1>2 DEF Place, InBuffer

\* The query is written behind its length, and nothing of a reply is there yet.
LEMMA TakeStep ==
  ASSUME ForwarderInv, Take PROVE ForwarderInv'
<1> USE DEF ForwarderInv, Take
<1> DEFINE asked == Head(queue)
           cells == <<Length, Length>> \o Query(asked.client, asked.size)
<1>1. /\ asked \in [client : Clients, size : 0..Units]
      /\ Tail(queue) \in Seq([client : Clients, size : 0..Units])
      /\ Len(Tail(queue)) = Len(queue) - 1
  BY HeadTailProperties DEF TypeOK
<1>2. Len(Tail(queue)) <= QueueLimit
  BY <1>1, LenProperties, QueueLimitAssumption DEF TypeOK
<1>3. CASE asked.size = 0
  BY <1>1, <1>2, <1>3 DEF TypeOK, Place, InBuffer, HearsItsReply
<1>4. CASE asked.size # 0
  <2>1. cells \in Seq(Cell)
    <3>1. <<Length, Length>> \in Seq(Cell)
      BY DEF Cell
    <3>2. Query(asked.client, asked.size) \in Seq(Cell)
      BY <1>1, Packets
    <3> QED BY <3>1, <3>2, ConcatProperties
  <2>2. Written(cells, 1) \in [Cells -> Cell]
    <3> HIDE DEF cells
    <3> QED BY <2>1, WrittenType DEF TypeOK
  <2>3. /\ pc' = "forward" /\ addr' = asked.client /\ buffer' = Written(cells, 1)
        /\ size' = asked.size /\ nread' = 0 /\ queue' = Tail(queue)
        /\ UNCHANGED <<heard, came, broken, emptied>>
    BY <1>4
  <2> HIDE DEF cells, asked
  <2>4. TypeOK'
    BY <1>1, <1>2, <2>2, <2>3, UnitsAssumption DEF TypeOK
  <2>5. HearsItsReply'
    BY <2>3 DEF HearsItsReply
  <2> QED BY <1>1, <2>3, <2>4, <2>5 DEF Place, InBuffer
<1> QED BY <1>3, <1>4

\* Nothing is read of a reply before its length.
LEMMA LengthStep ==
  ASSUME ForwarderInv, Forward \/ ReceiveLength \/ EndData PROVE ForwarderInv'
<1> USE DEF ForwarderInv
<1>1. CASE Forward
  BY <1>1, UnitsAssumption DEF Forward, NextQuery, TypeOK, Place, InBuffer, HearsItsReply
<1>2. CASE ReceiveLength
  BY <1>2, UnitsAssumption DEF ReceiveLength, NextQuery, TypeOK, Place, InBuffer, HearsItsReply
<1>3. CASE EndData
  BY <1>3 DEF EndData, TypeOK, Place, InBuffer, HearsItsReply
<1> QED BY <1>1, <1>2, <1>3

\* A further part of the reply is written behind what was read of it.
LEMMA DataStep ==
  ASSUME ForwarderInv, ReceiveData PROVE ForwarderInv'
<1> USE DEF ForwarderInv
<1>1. PICK n \in 1..(size - nread) :
        /\ buffer' = Written(SubSeq(Reply(addr, size), nread + 1, nread + n), nread + 1)
        /\ nread' = nread + n
  BY DEF ReceiveData
<1> DEFINE part == SubSeq(Reply(addr, size), nread + 1, nread + n)
<1>2. /\ addr \in Clients /\ size \in 0..Units /\ nread \in 0..size /\ buffer \in [Cells -> Cell]
      /\ pc = "data" /\ pc' = "data" /\ UNCHANGED <<queue, addr, size, emptied, heard, came, broken>>
  BY DEF ReceiveData, TypeOK, Place
<1>3. n \in Nat \ {0} /\ nread \in Nat /\ size \in Nat /\ nread + n \in 0..size
  BY <1>2, UnitsAssumption
<1>4. /\ part \in Seq(Cell) /\ Len(part) = n
      /\ \A k \in 1..n : part[k] = <<"reply", addr, nread + k>>
  <2>1. /\ Reply(addr, size) \in Seq(Cell) /\ Len(Reply(addr, size)) = size
        /\ \A k \in 1..size : Reply(addr, size)[k] = <<"reply", addr, k>>
    BY <1>2, Packets
  <2> DEFINE whole == Reply(addr, size)
  <2> HIDE DEF whole
  <2>2. \A k \in (nread + 1)..(nread + n) : whole[k] \in Cell /\ whole[k] = <<"reply", addr, k>>
    <3>1. ASSUME NEW k \in (nread + 1)..(nread + n) PROVE k \in 1..size
      BY <1>3
    <3> QED BY <2>1, <3>1, ElementOfSeq DEF whole
  <2>3. /\ SubSeq(whole, nread + 1, nread + n) \in Seq(Cell)
        /\ Len(SubSeq(whole, nread + 1, nread + n)) =
             IF nread + 1 <= nread + n THEN (nread + n) - (nread + 1) + 1 ELSE 0
        /\ \A k \in 1..((nread + n) - (nread + 1) + 1) :
             SubSeq(whole, nread + 1, nread + n)[k] = whole[(nread + 1) + k - 1]
    <3>1. nread + 1 \in Int /\ nread + n \in Int
      BY <1>3
    <3> QED BY <2>2, <3>1, SubSeqProperties
  <2>4. (nread + n) - (nread + 1) + 1 = n /\ nread + 1 <= nread + n
    BY <1>3
  <2>5. \A k \in 1..n : (nread + 1) + k - 1 = nread + k /\ nread + k \in (nread + 1)..(nread + n)
    BY <1>3
  <2> QED BY <2>2, <2>3, <2>4, <2>5 DEF whole
<1> HIDE DEF part
<1>5. /\ Written(part, nread + 1) \in [Cells -> Cell]
      /\ \A k \in Cells : k < nread + 1 => Written(part, nread + 1)[k] = buffer[k]
      /\ \A k \in Cells : k - (nread + 1) \in 0..(Len(part) - 1) =>
           Written(part, nread + 1)[k] = part[k - (nread + 1) + 1]
  <2>1. nread + 1 \in Nat \ {0}
    BY <1>3
  <2> QED BY <1>2, <1>4, <2>1, WrittenType
<1>6. buffer' = Written(part, nread + 1) /\ nread' = nread + n
  BY <1>1 DEF part
<1>7. TypeOK'
  BY <1>2, <1>3, <1>5, <1>6 DEF TypeOK
<1>8. InBuffer'
  <2> SUFFICES ASSUME NEW k \in 1..(nread + n) PROVE buffer'[k] = <<"reply", addr, k>>
    BY <1>2, <1>6 DEF InBuffer
  <2>1. k \in Cells
    BY <1>2, <1>3, UnitsAssumption DEF Cells
  <2>2. CASE k <= nread
    <3>1. k \in 1..nread /\ k < nread + 1
      BY <1>3, <2>2
    <3> QED BY <1>2, <1>5, <1>6, <2>1, <3>1 DEF InBuffer
  <2>3. CASE k > nread
    <3> DEFINE j == k - nread
    <3>1. j \in 1..n /\ k - (nread + 1) \in 0..(n - 1) /\ k - (nread + 1) + 1 = j /\ nread + j = k
      BY <1>3, <2>3
    <3>2. buffer'[k] = part[j]
      BY <1>4, <1>5, <1>6, <2>1, <3>1
    <3> QED BY <1>4, <3>1, <3>2
  <2> QED BY <1>3, <2>2, <2>3
<1>9. HearsItsReply'
  BY <1>2 DEF HearsItsReply
<1> QED BY <1>2, <1>7, <1>8, <1>9 DEF Place

\* What is sent is the front of the buffer.
LEMMA SendStep ==
  ASSUME ForwarderInv, SendReply PROVE ForwarderInv'
<1> USE DEF ForwarderInv
<1>1. /\ addr \in Clients /\ size \in 0..Units /\ nread \in 0..size /\ buffer \in [Cells -> Cell]
      /\ pc = "reply" /\ pc' = "wait" /\ addr' = "nobody" /\ size' = 0 /\ nread' = 0
      /\ UNCHANGED <<queue, buffer, emptied>>
  BY DEF SendReply, NextQuery, TypeOK, Place
<1>2. /\ heard' = [heard EXCEPT ![addr] = SubSeq(buffer, 1, size)]
      /\ came' = [came EXCEPT ![addr] = nread]
      /\ broken' = IF nread < size THEN broken \cup {addr} ELSE broken
  BY DEF SendReply
<1>3. /\ SubSeq(buffer, 1, size) \in Seq(Cell) /\ Len(SubSeq(buffer, 1, size)) = size
      /\ \A k \in 1..size : SubSeq(buffer, 1, size)[k] = buffer[k]
  BY <1>1, Front
<1>4. nread \in 0..Units /\ nread <= size /\ size \in Nat
  BY <1>1, UnitsAssumption
<1>5. TypeOK'
  BY <1>1, <1>2, <1>3, <1>4, UnitsAssumption DEF TypeOK
<1>6. HearsItsReply'
  <2> SUFFICES ASSUME NEW c \in Clients
               PROVE  /\ came'[c] <= Len(heard'[c])
                      /\ \A k \in 1..came'[c] : heard'[c][k] = <<"reply", c, k>>
                      /\ c \notin broken' => came'[c] = Len(heard'[c])
    BY DEF HearsItsReply
  <2>1. CASE c = addr
    <3>1. heard'[c] = SubSeq(buffer, 1, size) /\ came'[c] = nread
      BY <1>2, <2>1 DEF TypeOK
    <3>2. \A k \in 1..nread : k \in 1..size /\ buffer[k] = <<"reply", addr, k>>
      BY <1>1, <1>4 DEF InBuffer
    <3>3. c \notin broken' => nread = size
      BY <1>1, <1>2, <1>4, <2>1
    <3> QED BY <1>3, <1>4, <2>1, <3>1, <3>2, <3>3
  <2>2. CASE c # addr
    BY <1>1, <1>2, <2>2 DEF TypeOK, HearsItsReply
  <2> QED BY <2>1, <2>2
<1> QED BY <1>1, <1>5, <1>6 DEF Place, InBuffer

\* Each step of the thread and of its clients keeps the invariant.
LEMMA NextForwarder == ForwarderInv /\ [Next]_vars => ForwarderInv'
<1> SUFFICES ASSUME ForwarderInv, [Next]_vars PROVE ForwarderInv'
  OBVIOUS
<1>1. CASE \E c \in Clients, n \in 0..Units : Ask(c, n)
  BY <1>1, AskStep
<1>2. CASE Take
  BY <1>2, TakeStep
<1>3. CASE Forward \/ ReceiveLength \/ EndData
  BY <1>3, LengthStep
<1>4. CASE ReceiveData
  BY <1>4, DataStep
<1>5. CASE SendReply
  BY <1>5, SendStep
<1>6. CASE UNCHANGED vars
  BY <1>6 DEF vars, ForwarderInv, TypeOK, Place, InBuffer, HearsItsReply
<1> QED BY <1>1, <1>2, <1>3, <1>4, <1>5, <1>6 DEF Next, Serve

-----------------------------------------------------------------------------
(* Numbers.                                                                *)

\* A set of numbers has a least one.
LEMMA LeastNumber == ASSUME NEW S \in SUBSET Nat, S # {} PROVE \E n \in S : \A m \in S : n <= m
<1> DEFINE R == OpToRel(<, Nat)
<1>1. IsWellFoundedOn(R, Nat)
  BY NatLessThanWellFounded
<1>2. \A x, y \in Nat : y < x => <<y, x>> \in R
  BY DEF OpToRel
<1> HIDE DEF R
<1>3. PICK n \in S : \A m \in S : <<m, n>> \notin R
  BY <1>1, WFMin
<1>4. \A m \in S : ~(m < n)
  BY <1>2, <1>3
<1> QED BY <1>3, <1>4

-----------------------------------------------------------------------------
(* A value made step by step, from one to the next.                        *)

\* step[n] makes the n-th value from the one before.
Steps(g, V, base, step, m) ==
  /\ g[0] = base
  /\ \A n \in 1..m : g[n - 1] \in V => g[n] = step[n][g[n - 1]]

\* The values there are when step makes m of them: no others are made this way.
Values(f, V, base, step, m) ==
  /\ f \in [0..m -> V] /\ f[0] = base /\ \A n \in 1..m : f[n] = step[n][f[n - 1]]
  /\ \A k \in 0..m : \A g : Steps(g, V, base, step, k) => \A n \in 0..k : g[n] = f[n]

\* There are such values, however many are made.
LEMMA Iteration ==
  ASSUME NEW V, NEW base, NEW m, NEW step, base \in V, m \in Nat, step \in [1..m -> [V -> V]]
  PROVE  \E f : Values(f, V, base, step, m)
<1> DEFINE Made(f, k) == f \in [0..k -> V] /\ f[0] = base /\ \A n \in 1..k : f[n] = step[n][f[n - 1]]
           Missing == {k \in 0..m : ~ \E f : Made(f, k)}
<1>1. Missing = {}
  <2> SUFFICES ASSUME Missing # {} PROVE FALSE
    OBVIOUS
  <2>1. PICK k \in Missing : \A j \in Missing : k <= j
    <3>1. Missing \in SUBSET Nat
      OBVIOUS
    <3> QED BY <3>1, LeastNumber
  <2>2. CASE k = 0
    <3>1. Made([n \in 0..0 |-> base], 0)
      OBVIOUS
    <3> QED BY <2>1, <2>2, <3>1
  <2>3. CASE k # 0
    <3>1. k - 1 \in 0..m /\ ~ (k <= k - 1) /\ k \in 1..m
      BY <2>3
    <3>2. PICK f : Made(f, k - 1)
      BY <2>1, <3>1
    <3> DEFINE g == [n \in 0..k |-> IF n = k THEN step[k][f[k - 1]] ELSE f[n]]
    <3>3. f[k - 1] \in V /\ step[k] \in [V -> V]
      BY <3>1, <3>2
    <3>4. step[k][f[k - 1]] \in V
      BY <3>3
    <3>5. g \in [0..k -> V]
      BY <3>1, <3>2, <3>4
    <3>6. g[k] = step[k][f[k - 1]] /\ \A n \in 0..(k - 1) : g[n] = f[n]
      BY <3>1
    <3> HIDE DEF g
    <3>7. ASSUME NEW n \in 1..k PROVE g[n] = step[n][g[n - 1]]
      <4>1. n - 1 \in 0..(k - 1)
        BY <3>1
      <4>2. CASE n = k
        BY <3>6, <4>1, <4>2
      <4>3. CASE n # k
        <5>1. n \in 1..(k - 1) /\ n \in 0..(k - 1)
          BY <4>3, <3>1
        <5> QED BY <3>2, <3>6, <4>1, <5>1
      <4> QED BY <4>2, <4>3
    <3>8. g[0] = base
      BY <3>1, <3>2, <3>6
    <3>9. Made(g, k)
      BY <3>5, <3>7, <3>8
    <3> QED BY <2>1, <3>9
  <2> QED BY <2>2, <2>3
<1>2. PICK f : Made(f, m)
  <2>1. m \in 0..m
    OBVIOUS
  <2> QED BY <1>1, <2>1
<1>3. ASSUME NEW k \in 0..m, NEW g, Steps(g, V, base, step, k) PROVE \A n \in 0..k : g[n] = f[n]
  <2> DEFINE Differ == {n \in 0..k : g[n] # f[n]}
  <2> SUFFICES ASSUME Differ # {} PROVE FALSE
    OBVIOUS
  <2>1. PICK n \in Differ : \A j \in Differ : n <= j
    <3>1. Differ \in SUBSET Nat
      OBVIOUS
    <3> QED BY <3>1, LeastNumber
  <2>2. n # 0
    BY <2>1, <1>2, <1>3 DEF Steps
  <2>3. n \in 1..k /\ n \in 1..m /\ n - 1 \in 0..k /\ n - 1 \in 0..m /\ ~(n <= n - 1)
    BY <2>1, <2>2
  <2>4. g[n - 1] = f[n - 1] /\ f[n - 1] \in V
    BY <1>2, <2>1, <2>3
  <2> QED BY <1>2, <1>3, <2>1, <2>3, <2>4 DEF Steps
<1> QED BY <1>2, <1>3 DEF Values

-----------------------------------------------------------------------------
(* The bytes of a reply.                                                   *)

\* f[n] are the first n parts, one behind another, and what FlattenSeq makes of them.
Joined(f, S, parts, m) ==
  /\ f \in [0..m -> Seq(S)] /\ f[0] = <<>> /\ \A n \in 1..m : f[n] = f[n - 1] \o parts[n]
  /\ \A n \in 0..m : Answer!FlattenSeq([i \in 1..n |-> parts[i]]) = f[n]

\* FlattenSeq puts the parts one behind another, a part at a time.
LEMMA FlattenIs ==
  ASSUME NEW S, NEW m, NEW parts, m \in Nat, parts \in [1..m -> Seq(S)]
  PROVE  \E f : Joined(f, S, parts, m)
<1> DEFINE step == [n \in 1..m |-> [v \in Seq(S) |-> v \o parts[n]]]
<1>1. <<>> \in Seq(S)
  BY EmptySeq
<1>2. ASSUME NEW n \in 1..m, NEW v \in Seq(S) PROVE v \o parts[n] \in Seq(S)
  <2>1. parts[n] \in Seq(S)
    OBVIOUS
  <2> QED BY <2>1, ConcatProperties
<1>3. step \in [1..m -> [Seq(S) -> Seq(S)]]
  BY <1>2
<1>4. \A n \in 1..m : \A v \in Seq(S) : step[n][v] = v \o parts[n]
  OBVIOUS
<1> HIDE DEF step
<1>5. PICK f : Values(f, Seq(S), <<>>, step, m)
  BY <1>1, <1>3, Iteration
<1>6. /\ f \in [0..m -> Seq(S)] /\ f[0] = <<>> /\ \A n \in 1..m : f[n] = step[n][f[n - 1]]
      /\ \A k \in 0..m : \A g : Steps(g, Seq(S), <<>>, step, k) => \A n \in 0..k : g[n] = f[n]
  BY <1>5 DEF Values
<1>7. ASSUME NEW n \in 1..m PROVE f[n] = f[n - 1] \o parts[n]
  <2>1. n - 1 \in 0..m
    OBVIOUS
  <2>2. f[n - 1] \in Seq(S)
    BY <1>6, <2>1
  <2> QED BY <2>2, <1>4, <1>6, <2>1
<1>8. ASSUME NEW n \in 0..m PROVE Answer!FlattenSeq([i \in 1..n |-> parts[i]]) = f[n]
  <2> DEFINE seqs == [i \in 1..n |-> parts[i]]
  <2>1. seqs \in Seq(Seq(S)) /\ Len(seqs) = n /\ \A i \in 1..n : seqs[i] = parts[i]
    OBVIOUS
  <2>2. seqs = [i \in 1..n |-> parts[i]]
    OBVIOUS
  <2> HIDE DEF seqs
  <2>3. CASE n = 0
    <3>1. Answer!FlattenSeq(seqs) = seqs
      BY <2>1, <2>3 DEF Answer!FlattenSeq
    <3>2. seqs = <<>>
      BY <2>1, <2>3, EmptySeq
    <3> QED BY <1>6, <2>3, <2>2, <3>1, <3>2
  <2>4. CASE n # 0
    <3> DEFINE Rule(g) == [i \in 1..n |-> IF i = 1 THEN seqs[i] ELSE g[i - 1] \o seqs[i]]
               flatten == CHOOSE g : g = Rule(g)
               h == [i \in 1..n |-> f[i]]
    <3>1. Answer!FlattenSeq(seqs) = flatten[n]
      BY <2>1, <2>4 DEF Answer!FlattenSeq
    <3>2. h = Rule(h)
      <4>1. ASSUME NEW i \in 1..n PROVE h[i] = Rule(h)[i]
        <5>1. i \in 1..m
          OBVIOUS
        <5>2. f[i] = f[i - 1] \o parts[i]
          BY <1>7, <5>1
        <5>3. CASE i = 1
          <6>1. f[1] = f[0] \o parts[1]
            BY <5>3, <5>2
          <6>2. parts[1] \in Seq(S)
            BY <5>1, <5>3
          <6>3. f[1] = parts[1]
            BY <1>6, <6>1, <6>2, ConcatEmptySeq
          <6> QED BY <2>1, <5>3, <6>3
        <5>4. CASE i # 1
          <6>1. i - 1 \in 1..n
            BY <5>4
          <6> QED BY <2>1, <5>4, <5>2, <6>1
        <5> QED BY <5>3, <5>4
      <4> QED BY <4>1
    <3>3. flatten = Rule(flatten)
      <4> HIDE DEF h, Rule
      <4> QED BY <3>2
    <3>4. \A i \in 1..n : flatten[i] = IF i = 1 THEN seqs[i] ELSE flatten[i - 1] \o seqs[i]
      <4> HIDE DEF flatten
      <4> QED BY <3>3
    <3> DEFINE g == [i \in 0..n |-> IF i = 0 THEN <<>> ELSE flatten[i]]
    <3> HIDE DEF flatten
    <3>5. g[0] = <<>> /\ \A i \in 1..n : g[i] = flatten[i]
      OBVIOUS
    <3> HIDE DEF g
    <3>6. ASSUME NEW i \in 1..n, g[i - 1] \in Seq(S) PROVE g[i] = step[i][g[i - 1]]
      <4>1. i \in 1..m
        OBVIOUS
      <4>2. step[i][g[i - 1]] = g[i - 1] \o parts[i]
        BY <1>4, <3>6, <4>1
      <4>3. CASE i = 1
        <5>1. parts[1] \in Seq(S)
          BY <4>1, <4>3
        <5>2. <<>> \o parts[1] = parts[1]
          BY <5>1, ConcatEmptySeq
        <5>3. g[1] = parts[1]
          BY <2>1, <3>4, <3>5, <4>3
        <5>4. i - 1 = 0
          BY <4>3
        <5>5. step[i][g[0]] = <<>> \o parts[i]
          BY <3>5, <4>2, <5>4
        <5>6. g[i] = parts[i] /\ <<>> \o parts[i] = parts[i]
          BY <4>3, <5>2, <5>3
        <5> QED BY <5>4, <5>5, <5>6
      <4>4. CASE i # 1
        <5>1. i - 1 \in 1..n
          BY <4>4
        <5> QED BY <2>1, <3>4, <3>5, <4>2, <4>4, <5>1
      <4> QED BY <4>3, <4>4
    <3>7. Steps(g, Seq(S), <<>>, step, n)
      BY <3>5, <3>6 DEF Steps
    <3>8. g[n] = f[n]
      BY <1>6, <3>7
    <3>9. n \in 1..n
      BY <2>4
    <3>10. Answer!FlattenSeq(seqs) = f[n]
      BY <3>1, <3>5, <3>8, <3>9
    <3> QED BY <2>2, <3>10
  <2> QED BY <2>3, <2>4
<1> QED BY <1>6, <1>7, <1>8 DEF Joined

\* What a byte can be.
Octets == 0..255

\* The numbers a reply is written with are bytes.
LEMMA SomeOctets ==
  /\ 0 \in Octets /\ 1 \in Octets /\ 2 \in Octets /\ 4 \in Octets /\ 10 \in Octets /\ 12 \in Octets /\ 60 \in Octets
  /\ 5 \in Octets /\ 16 \in Octets /\ 97 \in Octets /\ 98 \in Octets /\ 192 \in Octets
BY DEF Octets

\* So are the three forms of names.
LEMMA SomeNames ==
  /\ <<192, 12>> \in Seq(Octets) /\ <<1, 98, 192, 12>> \in Seq(Octets) /\ <<1, 97, 0>> \in Seq(Octets)
BY SomeOctets

\* A name that a reply may hold; a pointer is 192 and what it points to.
LEMMA NameIs ==
  ASSUME NEW form \in {"pointer", "labels then pointer", "labels"}
  PROVE  /\ Answer!Name(form) \in Seq(Octets)
         /\ form = "pointer" => Len(Answer!Name(form)) = 2 /\ Answer!Name(form)[1] = 192
         /\ form = "labels then pointer" =>
              Len(Answer!Name(form)) = 4 /\ Answer!Name(form)[1] = 1 /\ Answer!Name(form)[3] = 192
BY SomeNames DEF Answer!Name

\* A record has one of three types, the last byte of an address and the form of its name.
LEMMA RecordIs ==
  ASSUME NEW record \in Answer!Records
  PROVE  /\ record.type \in {1, 5, 16} /\ record.host \in Octets
         /\ record.form \in Forms /\ record.form \in {"pointer", "labels then pointer", "labels"}
BY FormsAssumption, ByteAssumption DEF Answer!Records, Octets, Answer!A, Answer!CNAME, Answer!TXT

\* The data of a record: four bytes of an address, or a text of one.
LEMMA DataIs ==
  ASSUME NEW record \in Answer!Records
  PROVE  /\ Answer!Data(record) \in Seq(Octets) /\ Len(Answer!Data(record)) \in Octets
         /\ record.type = Answer!A =>
              /\ Answer!Data(record) = Answer!Address(record) /\ Len(Answer!Data(record)) = 4
              /\ Answer!Address(record) \in [1..4 -> Octets]
         /\ record.type = Answer!TXT =>
              Len(Answer!Data(record)) = 2 /\ Answer!Data(record)[1] = 1 /\ Answer!Data(record)[2] = record.host
<1>1. /\ 0 \in Octets /\ 1 \in Octets /\ 2 \in Octets /\ 4 \in Octets /\ 10 \in Octets
      /\ record.host \in Octets
  BY RecordIs, SomeOctets
<1>2. CASE record.type = Answer!A
  <2>1. Answer!Data(record) = <<10, 0, 0, record.host>> /\ Answer!Address(record) = <<10, 0, 0, record.host>>
    BY <1>2 DEF Answer!Data, Answer!Address, Answer!A, Answer!TXT, Answer!CNAME
  <2>2. <<10, 0, 0, record.host>> \in Seq(Octets) /\ Len(<<10, 0, 0, record.host>>) = 4
    BY <1>1
  <2>3. <<10, 0, 0, record.host>> \in [1..4 -> Octets]
    BY <1>1
  <2> QED BY <1>1, <1>2, <2>1, <2>2, <2>3 DEF Answer!A, Answer!TXT
<1>3. CASE record.type = Answer!TXT
  <2>1. Answer!Data(record) = <<1, record.host>>
    BY <1>3 DEF Answer!Data, Answer!A, Answer!TXT, Answer!CNAME
  <2>2. <<1, record.host>> \in Seq(Octets) /\ Len(<<1, record.host>>) = 2
    BY <1>1
  <2> QED BY <1>1, <1>3, <2>1, <2>2 DEF Answer!A, Answer!TXT
<1>4. CASE record.type = Answer!CNAME
  <2>1. Answer!Data(record) = Answer!Name("labels then pointer")
    BY <1>4 DEF Answer!Data, Answer!A, Answer!TXT, Answer!CNAME
  <2>2. Answer!Name("labels then pointer") \in Seq(Octets) /\ Len(Answer!Name("labels then pointer")) = 4
    BY NameIs
  <2>3. record.type # Answer!A /\ record.type # Answer!TXT
    BY <1>4 DEF Answer!A, Answer!TXT, Answer!CNAME
  <2> QED BY <1>1, <2>1, <2>2, <2>3
<1>5. record.type \in {Answer!A, Answer!CNAME, Answer!TXT}
  BY DEF Answer!Records
<1> QED BY <1>2, <1>3, <1>4, <1>5

\* Where the parts of a record are.
Composed(all, name, type, data) ==
  /\ all \in Seq(Octets) /\ Len(all) = Len(name) + 10 + Len(data)
  /\ \A i \in 1..Len(name) : all[i] = name[i]
  /\ all[Len(name) + 1] = 0 /\ all[Len(name) + 2] = type
  /\ all[Len(name) + 9] = 0 /\ all[Len(name) + 10] = Len(data)
  /\ \A i \in 1..Len(data) : all[Len(name) + 10 + i] = data[i]

\* The bytes of a record are its name, ten of fixed fields and its data.
LEMMA EncodedIs ==
  ASSUME NEW record \in Answer!Records
  PROVE  Composed(Answer!Encoded(record), Answer!Name(record.form), record.type, Answer!Data(record))
<1> DEFINE name == Answer!Name(record.form)
           data == Answer!Data(record)
           all == Answer!Encoded(record)
<1> DEFINE fixed == <<0, record.type, 0, 1, 0, 0, 0, 60, 0, Len(data)>>
<1>1. 0 \in Octets /\ 1 \in Octets /\ 60 \in Octets /\ record.type \in Octets
  BY RecordIs, SomeOctets
<1>2. Len(data) \in Octets
  BY DataIs
<1>3. /\ fixed \in Seq(Octets) /\ Len(fixed) = 10
      /\ fixed[1] = 0 /\ fixed[2] = record.type /\ fixed[9] = 0 /\ fixed[10] = Len(data)
  BY <1>1, <1>2
<1>4. all = (name \o fixed) \o data
  BY DEF Answer!Encoded
<1>5. name \in Seq(Octets) /\ data \in Seq(Octets)
  BY RecordIs, NameIs, DataIs
<1>6. SUFFICES Composed(all, name, record.type, data)
  OBVIOUS
<1> HIDE DEF fixed, name, data, all
<1>7. PICK a \in Seq(Octets), b \in Seq(Octets), c \in Seq(Octets) : a = name /\ b = fixed /\ c = data
  BY <1>3, <1>5
<1>8. /\ a \o b \in Seq(Octets) /\ Len(a \o b) = Len(a) + Len(b)
      /\ \A i \in 1..(Len(a) + Len(b)) : (a \o b)[i] = IF i <= Len(a) THEN a[i] ELSE b[i - Len(a)]
  BY ConcatProperties
<1>9. PICK ab \in Seq(Octets) : ab = a \o b
  BY <1>8
<1>10. /\ ab \o c \in Seq(Octets) /\ Len(ab \o c) = Len(ab) + Len(c)
      /\ \A i \in 1..(Len(ab) + Len(c)) : (ab \o c)[i] = IF i <= Len(ab) THEN ab[i] ELSE c[i - Len(ab)]
  BY ConcatProperties
<1>11. all = ab \o c
  BY <1>4, <1>7, <1>9
<1>12. Len(a) \in Nat /\ Len(c) \in Nat /\ Len(ab) = Len(a) + 10 /\ Len(b) = 10
  BY <1>3, <1>7, <1>8, <1>9, LenProperties
<1>13. \A i \in 1..Len(a) : all[i] = a[i]
  BY <1>8, <1>9, <1>10, <1>11, <1>12
<1>14. \A i \in 1..10 : all[Len(a) + i] = b[i]
  <2>1. ASSUME NEW i \in 1..10 PROVE all[Len(a) + i] = b[i]
    <3>1. /\ Len(a) + i \in 1..(Len(ab) + Len(c)) /\ Len(a) + i \in 1..(Len(a) + Len(b))
          /\ Len(a) + i <= Len(ab) /\ ~(Len(a) + i <= Len(a)) /\ (Len(a) + i) - Len(a) = i
      BY <1>12
    <3> QED BY <1>8, <1>9, <1>10, <1>11, <3>1
  <2> QED BY <2>1
<1>15. \A i \in 1..Len(c) : all[Len(a) + 10 + i] = c[i]
  <2>1. ASSUME NEW i \in 1..Len(c) PROVE all[Len(a) + 10 + i] = c[i]
    <3>1. /\ Len(a) + 10 + i \in 1..(Len(ab) + Len(c)) /\ ~(Len(a) + 10 + i <= Len(ab))
          /\ (Len(a) + 10 + i) - Len(ab) = i
      BY <1>12
    <3> QED BY <1>10, <1>11, <3>1
  <2> QED BY <2>1
<1>16. all[Len(a) + 1] = b[1] /\ all[Len(a) + 2] = b[2] /\ all[Len(a) + 9] = b[9] /\ all[Len(a) + 10] = b[10]
  BY <1>14
<1>17. Len(all) = Len(name) + 10 + Len(data) /\ all \in Seq(Octets)
  BY <1>7, <1>10, <1>11, <1>12
<1> QED BY <1>3, <1>7, <1>13, <1>15, <1>16, <1>17 DEF Composed

\* The number of answers is a byte.
LEMMA FewAnswers == \A m \in 0..RecordLimit : m \in 0..255
BY LimitAssumption

\* The answers of a reply come one behind another.
LEMMA UpToIs ==
  ASSUME query \in {Answer!A, Answer!TXT}, NEW r \in Answer!Replies
  PROVE  /\ Len(r.records) \in Nat /\ Len(r.records) \in 0..RecordLimit
         /\ \A n \in 1..Len(r.records) : r.records[n] \in Answer!Records
         /\ Len(Answer!UpTo(r, 0)) = Answer!Start /\ Answer!Start \in Nat
         /\ \A n \in 0..Len(r.records) : Answer!UpTo(r, n) \in Seq(Octets)
         /\ \A n \in 1..Len(r.records) :
              Answer!UpTo(r, n) = Answer!UpTo(r, n - 1) \o Answer!Encoded(r.records[n])
<1>1. /\ Len(r.records) \in Nat /\ Len(r.records) \in 0..RecordLimit
      /\ \A n \in 1..Len(r.records) : r.records[n] \in Answer!Records
  <2>1. PICK m \in 0..RecordLimit : r.records \in [1..m -> Answer!Records]
    BY DEF Answer!Replies, Answer!BoundedSeq, Answer!SeqOf
  <2>2. Len(r.records) = m
    BY <2>1, LimitAssumption
  <2> QED BY <2>1, <2>2, LimitAssumption
<1> DEFINE front == Answer!Head14(r) \o Answer!Question
           parts == [i \in 1..Len(r.records) |-> Answer!Encoded(r.records[i])]
<1>2. Answer!Head14(r) \in Seq(Octets) /\ Len(Answer!Head14(r)) = 14
  <2>1. r.code \in Octets /\ 129 \in Octets /\ Len(r.records) \in Octets
    <3>1. r.code \in {0, 3}
      BY DEF Answer!Replies
    <3>2. Len(r.records) \in 0..255
      BY <1>1, FewAnswers, Zenon
    <3>3. r.code \in 0..255
      BY <3>1
    <3> QED BY <3>2, <3>3 DEF Octets
  <2> QED BY <2>1, SomeOctets DEF Answer!Head14
<1>3. Answer!Question \in Seq(Octets) /\ Len(Answer!Question) = 7
  <2>1. query \in Octets
    BY SomeOctets DEF Answer!A, Answer!TXT
  <2> QED BY <2>1, SomeOctets DEF Answer!Question
<1>4. front \in Seq(Octets) /\ Len(front) = 21 /\ Answer!Start = 21
  <2>1. PICK a \in Seq(Octets), b \in Seq(Octets) : a = Answer!Head14(r) /\ b = Answer!Question
    BY <1>2, <1>3
  <2>2. a \o b \in Seq(Octets) /\ Len(a \o b) = Len(a) + Len(b)
    BY ConcatProperties
  <2> QED BY <1>2, <1>3, <2>1, <2>2 DEF Answer!Start
<1>5. parts \in [1..Len(r.records) -> Seq(Octets)] /\ \A i \in 1..Len(r.records) : parts[i] = Answer!Encoded(r.records[i])
  BY <1>1, EncodedIs DEF Composed
<1>6. \A n \in 0..Len(r.records) :
        [i \in 1..n |-> Answer!Encoded(r.records[i])] = [i \in 1..n |-> parts[i]]
  BY <1>1
<1> HIDE DEF front, parts
<1>7. PICK f : Joined(f, Octets, parts, Len(r.records))
  BY <1>1, <1>5, FlattenIs
<1>8. /\ f \in [0..Len(r.records) -> Seq(Octets)]
      /\ f[0] = <<>> /\ \A n \in 1..Len(r.records) : f[n] = f[n - 1] \o parts[n]
      /\ \A n \in 0..Len(r.records) : Answer!FlattenSeq([i \in 1..n |-> parts[i]]) = f[n]
  BY <1>7 DEF Joined
<1>9. \A n \in 0..Len(r.records) : Answer!UpTo(r, n) = front \o f[n]
  BY <1>6, <1>8 DEF Answer!UpTo, front
<1>10. ASSUME NEW n \in 0..Len(r.records) PROVE Answer!UpTo(r, n) \in Seq(Octets)
  <2>1. f[n] \in Seq(Octets)
    BY <1>8
  <2>2. front \o f[n] \in Seq(Octets)
    BY <1>4, <2>1, ConcatProperties
  <2> QED BY <1>9, <2>2
<1>11. Len(Answer!UpTo(r, 0)) = Answer!Start
  <2>1. 0 \in 0..Len(r.records) /\ front \o <<>> = front
    BY <1>1, <1>4, ConcatEmptySeq
  <2> QED BY <1>4, <1>8, <1>9, <2>1
<1>12. ASSUME NEW n \in 1..Len(r.records)
       PROVE  Answer!UpTo(r, n) = Answer!UpTo(r, n - 1) \o Answer!Encoded(r.records[n])
  <2>1. n \in 0..Len(r.records) /\ n - 1 \in 0..Len(r.records)
    BY <1>1
  <2>2. PICK a \in Seq(Octets), b \in Seq(Octets), c \in Seq(Octets) : a = front /\ b = f[n - 1] /\ c = parts[n]
    BY <1>4, <1>5, <1>8, <2>1
  <2>3. (a \o b) \o c = a \o (b \o c)
    BY ConcatAssociative
  <2>4. f[n] = b \o c /\ Answer!UpTo(r, n - 1) = a \o b /\ Answer!UpTo(r, n) = a \o f[n] /\ c = Answer!Encoded(r.records[n])
    BY <1>5, <1>8, <1>9, <2>1, <2>2
  <2> QED BY <2>3, <2>4
<1> QED BY <1>1, <1>4, <1>10, <1>11, <1>12

\* What stands behind a record does not move it.
LEMMA UpToLonger ==
  ASSUME query \in {Answer!A, Answer!TXT}, NEW r \in Answer!Replies, NEW k \in 0..Len(r.records)
  PROVE  \A n \in k..Len(r.records) :
           /\ Len(Answer!UpTo(r, k)) \in Nat /\ Len(Answer!UpTo(r, n)) \in Nat
           /\ Len(Answer!UpTo(r, k)) <= Len(Answer!UpTo(r, n))
           /\ \A i \in 1..Len(Answer!UpTo(r, k)) : Answer!UpTo(r, n)[i] = Answer!UpTo(r, k)[i]
<1> DEFINE Good(n) == /\ Len(Answer!UpTo(r, k)) \in Nat /\ Len(Answer!UpTo(r, n)) \in Nat
                      /\ Len(Answer!UpTo(r, k)) <= Len(Answer!UpTo(r, n))
                      /\ \A i \in 1..Len(Answer!UpTo(r, k)) : Answer!UpTo(r, n)[i] = Answer!UpTo(r, k)[i]
           Bad == {n \in k..Len(r.records) : ~Good(n)}
<1>1. Len(r.records) \in Nat /\ \A n \in 0..Len(r.records) : Answer!UpTo(r, n) \in Seq(Octets)
  BY UpToIs
<1>2. k \in Nat /\ \A n \in k..Len(r.records) : n \in 0..Len(r.records)
  BY <1>1
<1>3. Good(k)
  BY <1>1, LenProperties
<1>4. ASSUME NEW n \in k..Len(r.records), n # k, Good(n - 1) PROVE Good(n)
  <2>1. n \in 1..Len(r.records) /\ n \in 0..Len(r.records) /\ n - 1 \in 0..Len(r.records)
    BY <1>1, <1>2, <1>4
  <2>2. PICK a \in Seq(Octets), b \in Seq(Octets) :
          a = Answer!UpTo(r, n - 1) /\ b = Answer!Encoded(r.records[n]) /\ Answer!UpTo(r, n) = a \o b
    BY <2>1, UpToIs, EncodedIs DEF Composed
  <2>3. /\ Len(a \o b) = Len(a) + Len(b) /\ Len(a) \in Nat /\ Len(b) \in Nat
        /\ \A i \in 1..(Len(a) + Len(b)) : (a \o b)[i] = IF i <= Len(a) THEN a[i] ELSE b[i - Len(a)]
    BY ConcatProperties, LenProperties
  <2> QED BY <1>4, <2>2, <2>3
<1>5. Bad = {}
  <2> SUFFICES ASSUME Bad # {} PROVE FALSE
    OBVIOUS
  <2>1. PICK n \in Bad : \A j \in Bad : n <= j
    <3>1. Bad \in SUBSET Nat
      BY <1>1, <1>2
    <3> QED BY <3>1, LeastNumber
  <2>2. n # k
    BY <1>3, <2>1
  <2>3. n - 1 \in k..Len(r.records) /\ ~(n <= n - 1) /\ n \in k..Len(r.records)
    BY <1>1, <1>2, <2>1, <2>2
  <2>4. n - 1 \notin Bad
    BY <2>1, <2>3
  <2>5. Good(n - 1)
    BY <2>3, <2>4
  <2> HIDE DEF Good
  <2> QED BY <1>4, <2>1, <2>2, <2>3, <2>5
<1> QED BY <1>5

-----------------------------------------------------------------------------
(* Where a name ends.                                                      *)

\* Following the bytes of a name: the rule of parseName().
PlaceAfter(f, byte, q) == IF byte[q] = 0 THEN q ELSE IF byte[q] = 192 THEN q + 2 ELSE f[q + 1 + byte[q]]

\* f says of every place at or behind this one where a name there ends.
Ends(f, byte, from) == \A q \in Nat : from <= q => f[q] \in Nat /\ f[q] = PlaceAfter(f, byte, q)

\* There is such a function if zeros follow somewhere, which end every name.
LEMMA NamesEnd ==
  ASSUME NEW byte, NEW last \in Nat, \A q \in Nat : byte[q] \in Nat /\ (last <= q => byte[q] = 0)
  PROVE  /\ \E f : Ends(f, byte, 0)
         /\ \A g : (\A q \in Nat : g[q] = PlaceAfter(g, byte, q)) => Ends(g, byte, 0)
<1> DEFINE Missing == {k \in 0..last : ~ \E f : Ends(f, byte, last - k)}
<1>1. Missing = {}
  <2> SUFFICES ASSUME Missing # {} PROVE FALSE
    OBVIOUS
  <2>1. PICK k \in Missing : \A j \in Missing : k <= j
    <3>1. Missing \in SUBSET Nat
      OBVIOUS
    <3> QED BY <3>1, LeastNumber
  <2>2. CASE k = 0
    <3>1. Ends([q \in Nat |-> q], byte, last - 0)
      BY DEF Ends, PlaceAfter
    <3> QED BY <2>1, <2>2, <3>1
  <2>3. CASE k # 0
    <3>1. k - 1 \in 0..last /\ ~ (k <= k - 1)
      BY <2>3
    <3>2. PICK f : Ends(f, byte, last - (k - 1))
      BY <2>1, <3>1
    <3>3. PICK at \in Nat : at = last - k /\ last - (k - 1) = at + 1
      OBVIOUS
    <3> DEFINE g == [q \in Nat |-> IF q = at THEN PlaceAfter(f, byte, at) ELSE f[q]]
    <3>4. g[at] = PlaceAfter(f, byte, at) /\ \A q \in Nat : q # at => g[q] = f[q]
      OBVIOUS
    <3> HIDE DEF g
    <3>5. \A q \in Nat : at + 1 <= q => f[q] \in Nat /\ f[q] = PlaceAfter(f, byte, q)
      BY <3>2, <3>3 DEF Ends
    <3>6. byte[at] \in Nat /\ at + 1 + byte[at] \in Nat /\ at + 1 <= at + 1 + byte[at] /\ at + 1 + byte[at] # at
      OBVIOUS
    <3>7. g[at] \in Nat /\ g[at] = PlaceAfter(g, byte, at)
      BY <3>4, <3>5, <3>6 DEF PlaceAfter
    <3>8. ASSUME NEW q \in Nat, at + 1 <= q PROVE g[q] \in Nat /\ g[q] = PlaceAfter(g, byte, q)
      <4>1. byte[q] \in Nat /\ q + 1 + byte[q] \in Nat /\ q + 1 + byte[q] # at /\ q # at
        BY <3>8
      <4> QED BY <3>4, <3>5, <3>8, <4>1 DEF PlaceAfter
    <3>9. \A q \in Nat : at <= q => q = at \/ at + 1 <= q
      OBVIOUS
    <3>10. Ends(g, byte, at)
      BY <3>7, <3>8, <3>9 DEF Ends
    <3> QED BY <2>1, <3>3, <3>10
  <2> QED BY <2>2, <2>3
<1>2. \E f : Ends(f, byte, 0)
  <2>1. last \in 0..last /\ last - last = 0
    OBVIOUS
  <2> QED BY <1>1, <2>1
<1>3. ASSUME NEW g, \A q \in Nat : g[q] = PlaceAfter(g, byte, q) PROVE Ends(g, byte, 0)
  <2> DEFINE Bad == {k \in 0..last : g[last - k] \notin Nat}
  <2>1. Bad = {}
    <3> SUFFICES ASSUME Bad # {} PROVE FALSE
      OBVIOUS
    <3>1. PICK k \in Bad : \A j \in Bad : k <= j
      <4>1. Bad \in SUBSET Nat
        OBVIOUS
      <4> QED BY <4>1, LeastNumber
    <3>2. PICK at \in Nat : at = last - k /\ at <= last /\ g[at] \notin Nat
      BY <3>1
    <3>3. byte[at] \in Nat
      OBVIOUS
    <3>4. PICK next \in Nat : next = at + 1 + byte[at] /\ at < next
      BY <3>3
    <3>5. g[next] \notin Nat /\ byte[at] # 0
      BY <1>3, <3>2, <3>4 DEF PlaceAfter
    <3>6. next < last
      <4>1. ASSUME last <= next PROVE FALSE
        <5>1. g[next] = next
          BY <1>3, <4>1 DEF PlaceAfter
        <5> QED BY <3>5, <5>1
      <4> QED BY <4>1
    <3>7. last - next \in 0..last /\ last - (last - next) = next /\ ~(k <= last - next)
      BY <3>1, <3>2, <3>4, <3>6
    <3> QED BY <3>1, <3>5, <3>7
  <2>2. ASSUME NEW q \in Nat PROVE g[q] \in Nat
    <3>1. CASE q <= last
      <4>1. last - q \in 0..last /\ last - (last - q) = q
        BY <3>1
      <4> QED BY <2>1, <4>1
    <3>2. CASE ~(q <= last)
      BY <1>3, <3>2 DEF PlaceAfter
    <3> QED BY <3>1, <3>2
  <2> QED BY <1>3, <2>2 DEF Ends
<1> QED BY <1>2, <1>3

\* What is known of the buffer while it is read.
Reading ==
  /\ query \in {Answer!A, Answer!TXT} /\ reply \in Answer!Replies
  /\ got \in 0..Len(Answer!Bytes(reply)) /\ junk \in Junk

\* What the loop reads are bytes, and zeros where the junk has ended.
LEMMA ByteIs ==
  ASSUME Reading
  PROVE  /\ got \in Nat
         /\ \A p \in Nat : Answer!Byte(p) \in Octets /\ Answer!Byte(p) \in Nat
         /\ \A p \in Nat : got + JunkLimit <= p => Answer!Byte(p) = 0
<1>1. PICK all \in Seq(Octets) : all = Answer!Bytes(reply)
  <2>1. Len(reply.records) \in Nat /\ \A n \in 0..Len(reply.records) : Answer!UpTo(reply, n) \in Seq(Octets)
    BY UpToIs DEF Reading
  <2>2. Len(reply.records) \in 0..Len(reply.records)
    BY <2>1
  <2> QED BY <2>1, <2>2 DEF Answer!Bytes
<1>2. Len(all) \in Nat /\ got \in 0..Len(all) /\ got \in Nat /\ JunkLimit \in Nat
  BY <1>1, LenProperties, LimitAssumption DEF Reading
<1>3. junk \in Octets /\ 0 \in Octets
  BY ByteAssumption DEF Reading, Octets
<1>4. ASSUME NEW p \in Nat PROVE p < got => all[p + 1] \in Octets
  BY <1>2, ElementOfSeq
<1>5. ASSUME NEW p \in Nat PROVE Answer!Byte(p) \in Octets
  BY <1>1, <1>3, <1>4 DEF Answer!Byte
<1>6. ASSUME NEW p \in Nat, got + JunkLimit <= p PROVE Answer!Byte(p) = 0
  <2>1. ~(p < got) /\ ~(p < got + JunkLimit)
    BY <1>2, <1>6
  <2> QED BY <2>1 DEF Answer!Byte
<1>7. \A o \in Octets : o \in Nat
  BY DEF Octets
<1> QED BY <1>2, <1>5, <1>6, <1>7

\* The numbers next to a record's.
LEMMA Within == \A m \in Nat : \A n \in 1..m : n \in 0..m /\ n - 1 \in 0..m /\ m \in n..m
OBVIOUS

\* The first elements of all, at most so many, are those of seq.
Begins(all, seq, end) == end \in Nat /\ Len(seq) <= end /\ \A i \in 1..Len(seq) : all[i] = seq[i]

\* The same, behind the first at elements.
Holds(all, at, seq, end) ==
  \A i \in 1..Len(seq) : /\ at + i - 1 \in Nat /\ at + i - 1 < end
                         /\ all[(at + i - 1) + 1] = seq[i]

\* What a sequence ends with lies behind what it begins with.
LEMMA Behind ==
  ASSUME NEW S, NEW a \in Seq(S), NEW b \in Seq(S), NEW all, NEW end, Begins(all, a \o b, end)
  PROVE  Holds(all, Len(a), b, end)
<1>1. /\ Len(a \o b) = Len(a) + Len(b) /\ Len(a) \in Nat /\ Len(b) \in Nat
      /\ \A i \in 1..(Len(a) + Len(b)) : (a \o b)[i] = IF i <= Len(a) THEN a[i] ELSE b[i - Len(a)]
  BY ConcatProperties, LenProperties
<1>2. PICK la \in Nat, lb \in Nat : la = Len(a) /\ lb = Len(b)
  BY <1>1
<1>3. end \in Nat /\ Len(a \o b) <= end /\ \A i \in 1..Len(a \o b) : all[i] = (a \o b)[i]
  BY DEF Begins
<1>4. ASSUME NEW i \in 1..lb PROVE /\ la + i - 1 \in Nat /\ la + i - 1 < end
                                  /\ all[(la + i - 1) + 1] = b[i]
  <2>1. /\ la + i - 1 \in Nat /\ la + i - 1 < end /\ (la + i - 1) + 1 = la + i
        /\ la + i \in 1..(la + lb) /\ ~(la + i <= la) /\ (la + i) - la = i
    BY <1>1, <1>2, <1>3
  <2> QED BY <1>1, <1>2, <1>3, <2>1
<1> QED BY <1>2, <1>4 DEF Holds

\* The bytes of a record that arrived whole are in the buffer behind those of the others.
Lies(all, at, end) ==
  /\ at \in Nat /\ Len(all) \in Nat /\ end = at + Len(all)
  /\ \A i \in 1..Len(all) : Answer!Byte(at + i - 1) = all[i]

\* Record n begins where the bytes up to record n - 1 end.
LEMMA WholeIs ==
  ASSUME Reading, NEW n \in 1..Len(reply.records), Len(Answer!UpTo(reply, n)) <= got
  PROVE  Lies(Answer!Encoded(reply.records[n]), Len(Answer!UpTo(reply, n - 1)), Len(Answer!UpTo(reply, n)))
<1> DEFINE at == Len(Answer!UpTo(reply, n - 1))
           all == Answer!Encoded(reply.records[n])
<1>1. /\ query \in {Answer!A, Answer!TXT} /\ reply \in Answer!Replies /\ Len(reply.records) \in Nat
      /\ got \in Nat /\ n \in 0..Len(reply.records) /\ n - 1 \in 0..Len(reply.records)
      /\ Len(reply.records) \in n..Len(reply.records)
  <2>1. query \in {Answer!A, Answer!TXT} /\ reply \in Answer!Replies
    BY DEF Reading
  <2>2. Len(reply.records) \in Nat /\ got \in Nat
    BY <2>1, UpToIs, ByteIs
  <2> QED BY <2>1, <2>2, Within, Zenon
<1>2. PICK a \in Seq(Octets), b \in Seq(Octets) : a = Answer!UpTo(reply, n - 1) /\ b = all /\ Answer!UpTo(reply, n) = a \o b
  <2>1. Answer!UpTo(reply, n - 1) \in Seq(Octets) /\ Answer!UpTo(reply, n) = Answer!UpTo(reply, n - 1) \o all
    BY <1>1, UpToIs, Zenon
  <2>2. all \in Seq(Octets)
    BY <1>1, UpToIs, EncodedIs DEF Composed
  <2> QED BY <2>1, <2>2
<1>3. /\ Len(a \o b) = Len(a) + Len(b) /\ Len(a) \in Nat /\ Len(b) \in Nat
      /\ \A i \in 1..(Len(a) + Len(b)) : (a \o b)[i] = IF i <= Len(a) THEN a[i] ELSE b[i - Len(a)]
  BY ConcatProperties, LenProperties
<1>4. \A i \in 1..Len(Answer!UpTo(reply, n)) : Answer!Bytes(reply)[i] = Answer!UpTo(reply, n)[i]
  BY <1>1, UpToLonger DEF Answer!Bytes
<1>5. Holds(Answer!Bytes(reply), Len(a), b, got)
  <2>1. Begins(Answer!Bytes(reply), a \o b, got)
    BY <1>1, <1>2, <1>4 DEF Begins
  <2> QED BY <2>1, Behind
<1>6. ASSUME NEW i \in 1..Len(b) PROVE Answer!Byte(Len(a) + i - 1) = b[i]
  <2>1. /\ Len(a) + i - 1 \in Nat /\ Len(a) + i - 1 < got
        /\ Answer!Bytes(reply)[(Len(a) + i - 1) + 1] = b[i]
    BY <1>5 DEF Holds
  <2> QED BY <2>1 DEF Answer!Byte
<1> QED BY <1>2, <1>3, <1>6 DEF Lies

\* EndOfName has a value everywhere, by the rule it is defined by.
LEMMA EndOfNameIs ==
  ASSUME Reading
  PROVE  \A p \in Nat :
           /\ Answer!EndOfName(p) \in Nat
           /\ Answer!EndOfName(p) = IF Answer!Byte(p) = 0 THEN p ELSE IF Answer!Byte(p) = 192 THEN p + 2
                                    ELSE Answer!EndOfName(p + 1 + Answer!Byte(p))
<1> DEFINE byte == [q \in Nat |-> Answer!Byte(q)]
           Rule(g) == [q \in Nat |-> IF Answer!Byte(q) = 0 THEN q ELSE IF Answer!Byte(q) = 192 THEN q + 2
                                      ELSE g[q + 1 + Answer!Byte(q)]]
           after == CHOOSE g : g = Rule(g)
<1>1. \A p : Answer!EndOfName(p) = after[p]
  BY Zenon DEF Answer!EndOfName
<1>2. \A q \in Nat : byte[q] = Answer!Byte(q) /\ byte[q] \in Nat
  BY ByteIs
<1>3. got + JunkLimit \in Nat /\ \A q \in Nat : got + JunkLimit <= q => byte[q] = 0
  BY ByteIs, LimitAssumption
<1> HIDE DEF byte
<1>4. PICK f : Ends(f, byte, 0)
  BY <1>2, <1>3, NamesEnd
<1> DEFINE h == [q \in Nat |-> f[q]]
<1>5. h = Rule(h)
  <2>1. ASSUME NEW q \in Nat PROVE h[q] = Rule(h)[q]
    <3>1. f[q] = PlaceAfter(f, byte, q) /\ q + 1 + byte[q] \in Nat
      BY <1>2, <1>4 DEF Ends
    <3> QED BY <1>2, <3>1 DEF PlaceAfter
  <2> QED BY <2>1
<1>6. after = Rule(after)
  <2> HIDE DEF h, Rule
  <2> QED BY <1>5
<1>7. \A q \in Nat : after[q] = PlaceAfter(after, byte, q)
  <2>1. \A q \in Nat : after[q] = IF Answer!Byte(q) = 0 THEN q ELSE IF Answer!Byte(q) = 192 THEN q + 2
                                   ELSE after[q + 1 + Answer!Byte(q)]
    <3> HIDE DEF after
    <3> QED BY <1>6
  <2> HIDE DEF after
  <2> QED BY <1>2, <2>1 DEF PlaceAfter
<1> HIDE DEF after
<1>8. Ends(after, byte, 0)
  BY <1>2, <1>3, <1>7, NamesEnd
<1>9. ASSUME NEW p \in Nat
      PROVE  /\ after[p] \in Nat
             /\ after[p] = IF Answer!Byte(p) = 0 THEN p ELSE IF Answer!Byte(p) = 192 THEN p + 2
                           ELSE after[p + 1 + Answer!Byte(p)]
  BY <1>2, <1>8 DEF Ends, PlaceAfter
<1> QED BY <1>1, <1>9

\* Where a record of this length with a name of this one has what is looked at.
LEMMA Places ==
  ASSUME NEW at \in Nat, NEW a \in Nat, NEW d \in Nat
  PROVE  /\ at + a \in Nat /\ at + a + 10 \in Nat
         /\ a + 1 \in 1..(a + 10 + d) /\ at + (a + 1) - 1 = at + a
         /\ a + 2 \in 1..(a + 10 + d) /\ at + (a + 2) - 1 = at + a + 1
         /\ a + 9 \in 1..(a + 10 + d) /\ at + (a + 9) - 1 = at + a + 8
         /\ a + 10 \in 1..(a + 10 + d) /\ at + (a + 10) - 1 = at + a + 8 + 1
         /\ at + (a + 10 + d) = at + a + 10 + d
         /\ \A i \in 1..a : i \in 1..(a + 10 + d)
         /\ \A i \in 1..d : a + 10 + i \in 1..(a + 10 + d) /\ at + (a + 10 + i) - 1 = at + a + 10 + i - 1
OBVIOUS

\* A name ends behind its pointer, which stands at its start or behind one label.
LEMMA PointerEnds ==
  ASSUME Reading, NEW at \in Nat
  PROVE  /\ Answer!Byte(at) = 192 => Answer!EndOfName(at) = at + 2
         /\ Answer!Byte(at) = 1 /\ Answer!Byte(at + 2) = 192 => Answer!EndOfName(at) = at + 4
<1>1. Answer!Byte(at) = 192 => Answer!EndOfName(at) = at + 2
  BY EndOfNameIs
<1>2. ASSUME Answer!Byte(at) = 1, Answer!Byte(at + 2) = 192 PROVE Answer!EndOfName(at) = at + 4
  <2>1. at + 2 \in Nat /\ at + 1 + 1 = at + 2 /\ (at + 2) + 2 = at + 4
    OBVIOUS
  <2>2. Answer!EndOfName(at) = Answer!EndOfName(at + 2)
    BY <1>2, <2>1, EndOfNameIs
  <2>3. Answer!EndOfName(at + 2) = at + 4
    BY <1>2, <2>1, EndOfNameIs
  <2> QED BY <2>2, <2>3
<1> QED BY <1>1, <1>2

\* The records begin with names that are not written out, but point to the question.
Pointing == \A n \in 1..Len(reply.records) : reply.records[n].form \in {"pointer", "labels then pointer"}

\* A pointer, or one label in front of it.
Pointed(name) ==
  /\ name \in Seq(Octets)
  /\ \/ Len(name) = 2 /\ name[1] = 192
     \/ Len(name) = 4 /\ name[1] = 1 /\ name[3] = 192

\* The names of such records are pointers, or a label in front of one.
LEMMA NamePointed ==
  ASSUME Pointing, NEW n \in 1..Len(reply.records)
  PROVE  Pointed(Answer!Name(reply.records[n].form))
<1>1. reply.records[n].form \in {"pointer", "labels then pointer"}
  BY DEF Pointing
<1>2. reply.records[n].form \in {"pointer", "labels then pointer", "labels"}
  BY <1>1
<1> QED BY <1>1, <1>2, NameIs DEF Pointed

\* A name of these forms ends where its record goes on.
LEMMA NameEnds ==
  ASSUME Reading, NEW at \in Nat, NEW name, Pointed(name),
         \A i \in 1..Len(name) : Answer!Byte(at + i - 1) = name[i]
  PROVE  Answer!EndOfName(at) = at + Len(name)
<1>1. at + 1 - 1 = at /\ at + 3 - 1 = at + 2
  OBVIOUS
<1>2. CASE Len(name) = 2 /\ name[1] = 192
  <2>1. Answer!Byte(at + 1 - 1) = 192
    BY <1>2
  <2> QED BY <1>1, <1>2, <2>1, PointerEnds
<1>3. CASE Len(name) = 4 /\ name[1] = 1 /\ name[3] = 192
  <2>1. Answer!Byte(at + 1 - 1) = 1 /\ Answer!Byte(at + 3 - 1) = 192
    BY <1>3
  <2> QED BY <1>1, <1>3, <2>1, PointerEnds
<1> QED BY <1>2, <1>3 DEF Pointed

\* The type of a record is a number.
LEMMA TypeIsNumber == \A record \in Answer!Records : record.type \in Nat
<1>1. \A record \in Answer!Records : record.type \in {1, 5, 16}
  BY RecordIs
<1> QED BY <1>1

\* What one turn of either loop sees of a record.
Sees(record, end) ==
  /\ record \in Answer!Records
  /\ Answer!Short(Answer!Fields) = record.type /\ Answer!DataLength = Len(Answer!Data(record))
  /\ end = Answer!DataAt + Answer!DataLength
  /\ \A i \in 1..Len(Answer!Data(record)) : Answer!Byte(Answer!DataAt + i - 1) = Answer!Data(record)[i]

\* At the start of a record that arrived whole it sees that record.
LEMMA ReadIs ==
  ASSUME Reading, Pointing, NEW n \in 1..Len(reply.records), Len(Answer!UpTo(reply, n)) <= got,
         pos = Len(Answer!UpTo(reply, n - 1))
  PROVE  Sees(reply.records[n], Len(Answer!UpTo(reply, n)))
<1> DEFINE record == reply.records[n]
           data == Answer!Data(record)
<1>1. query \in {Answer!A, Answer!TXT} /\ reply \in Answer!Replies
  BY DEF Reading
<1>2. record \in Answer!Records
  BY <1>1, UpToIs
<1>3. record.type \in Nat
  BY <1>2, TypeIsNumber
<1>4. PICK name \in Seq(Octets) : name = Answer!Name(record.form) /\ Pointed(name)
  BY NamePointed DEF Pointed
<1>5. PICK all \in Seq(Octets) : all = Answer!Encoded(record) /\ Composed(all, name, record.type, data)
  BY <1>2, <1>4, EncodedIs DEF Composed
<1>6. /\ Len(all) = Len(name) + 10 + Len(data)
      /\ \A i \in 1..Len(name) : all[i] = name[i]
      /\ all[Len(name) + 1] = 0 /\ all[Len(name) + 2] = record.type
      /\ all[Len(name) + 9] = 0 /\ all[Len(name) + 10] = Len(data)
      /\ \A i \in 1..Len(data) : all[Len(name) + 10 + i] = data[i]
  BY <1>5 DEF Composed
<1>7. /\ pos \in Nat /\ Len(Answer!UpTo(reply, n)) = pos + Len(all)
      /\ \A i \in 1..Len(all) : Answer!Byte(pos + i - 1) = all[i]
  <2>1. Lies(all, pos, Len(Answer!UpTo(reply, n)))
    BY <1>5, WholeIs
  <2> QED BY <2>1 DEF Lies
<1>8. PICK a \in Nat, d \in Nat : a = Len(name) /\ d = Len(data)
  <2>1. Len(data) \in Nat
    BY <1>2, DataIs DEF Octets
  <2> QED BY <1>4, <2>1, LenProperties
<1>9. Answer!Fields = pos + a
  <2>1. \A i \in 1..Len(name) : Answer!Byte(pos + i - 1) = name[i]
    <3>1. \A i \in 1..a : i \in 1..(a + 10 + d)
      BY Places, <1>7
    <3> QED BY <1>6, <1>7, <1>8, <3>1
  <2> QED BY <1>4, <1>7, <1>8, <2>1, NameEnds DEF Answer!Fields
<1>10. /\ Answer!Byte(pos + a) = 0 /\ Answer!Byte(pos + a + 1) = record.type
       /\ Answer!Byte(pos + a + 8) = 0 /\ Answer!Byte(pos + a + 8 + 1) = d
  <2>1. \A i \in 1..(a + 10 + d) : Answer!Byte(pos + i - 1) = all[i]
    BY <1>6, <1>7, <1>8
  <2>2. Answer!Byte(pos + (a + 1) - 1) = 0 /\ Answer!Byte(pos + (a + 2) - 1) = record.type
    BY <1>6, <1>7, <1>8, <2>1, Places
  <2>3. Answer!Byte(pos + (a + 9) - 1) = 0 /\ Answer!Byte(pos + (a + 10) - 1) = d
    BY <1>6, <1>7, <1>8, <2>1, Places
  <2> QED BY <1>7, <2>2, <2>3, Places
<1>11. Answer!Short(Answer!Fields) = record.type
  <2>1. 256 * 0 + record.type = record.type
    BY <1>3
  <2> QED BY <1>9, <1>10, <2>1 DEF Answer!Short
<1>12. Answer!DataLength = d
  BY <1>9, <1>10 DEF Answer!DataLength, Answer!Short
<1>13. Answer!DataAt = pos + a + 10 /\ Answer!DataAt \in Nat
  BY <1>7, <1>9 DEF Answer!DataAt
<1>14. Len(Answer!UpTo(reply, n)) = Answer!DataAt + Answer!DataLength
  BY <1>6, <1>7, <1>8, <1>12, <1>13
<1>15. ASSUME NEW i \in 1..d PROVE Answer!Byte(Answer!DataAt + i - 1) = data[i]
  <2>1. a + 10 + i \in 1..(a + 10 + d) /\ pos + (a + 10 + i) - 1 = pos + a + 10 + i - 1
    BY <1>7
  <2>2. Answer!Byte(pos + (a + 10 + i) - 1) = all[a + 10 + i]
    BY <1>6, <1>7, <1>8, <2>1
  <2> QED BY <1>6, <1>8, <1>13, <2>1, <2>2
<1> QED BY <1>2, <1>8, <1>11, <1>12, <1>14, <1>15 DEF Sees

-----------------------------------------------------------------------------
(* What has arrived, and the addresses in it.                              *)

\* The records that arrived whole: there are so many, and no more.
LEMMA WholeRecords ==
  ASSUME Reading, Answer!Start <= got
  PROVE  /\ Len(reply.records) \in Nat /\ Answer!Whole \in 0..Len(reply.records)
         /\ \A n \in 0..Len(reply.records) : n <= Answer!Whole => Len(Answer!UpTo(reply, n)) <= got
         /\ got = Len(Answer!Bytes(reply)) => Answer!Whole = Len(reply.records)
<1>1. query \in {Answer!A, Answer!TXT} /\ reply \in Answer!Replies
  BY DEF Reading
<1>2. /\ Len(reply.records) \in Nat /\ Len(Answer!UpTo(reply, 0)) = Answer!Start /\ got \in Nat
      /\ \A n \in 0..Len(reply.records) : Len(Answer!UpTo(reply, n)) \in Nat
  BY <1>1, UpToIs, ByteIs, LenProperties
<1>3. PICK m \in Nat : m = Len(reply.records)
  BY <1>2
<1> DEFINE length == [n \in 0..m |-> Len(Answer!UpTo(reply, n))]
<1>4. \A n \in 0..m : length[n] = Len(Answer!UpTo(reply, n)) /\ length[n] \in Nat
  BY <1>2, <1>3
<1>5. \A k \in 0..m : \A n \in k..m : length[k] <= length[n]
  <2>1. ASSUME NEW k \in 0..m, NEW n \in k..m PROVE length[k] <= length[n]
    <3>1. Len(Answer!UpTo(reply, k)) <= Len(Answer!UpTo(reply, n))
      BY <1>1, <1>3, UpToLonger
    <3>2. n \in 0..m
      OBVIOUS
    <3> QED BY <3>1, <3>2
  <2> QED BY <2>1
<1>6. length[0] <= got
  BY <1>2, <1>3
<1> HIDE DEF length
<1> DEFINE Fits(n) == length[n] <= got /\ (n < m => got < length[n + 1])
           Cut == {n \in 0..m : n = m \/ got < length[n + 1]}
<1>7. \E n \in 0..m : Fits(n)
  <2>1. PICK n \in Cut : \A k \in Cut : n <= k
    <3>1. Cut \in SUBSET Nat /\ m \in Cut
      BY <1>3
    <3> QED BY <3>1, LeastNumber
  <2>2. CASE n = 0
    BY <1>6, <2>1, <2>2
  <2>3. CASE n # 0
    <3>1. n - 1 \in 0..m /\ ~(n <= n - 1) /\ (n - 1) + 1 = n /\ n - 1 # m
      BY <2>1, <2>3
    <3>2. n - 1 \notin Cut
      BY <2>1, <3>1
    <3>3. ~(got < length[n])
      BY <3>1, <3>2
    <3> QED BY <1>2, <1>4, <2>1, <3>3
  <2> QED BY <2>2, <2>3
<1>8. \E n \in 0..Len(reply.records) :
        /\ Len(Answer!UpTo(reply, n)) <= got
        /\ n < Len(reply.records) => got < Len(Answer!UpTo(reply, n + 1))
  <2>1. PICK n \in 0..m : Fits(n)
    BY <1>7
  <2>2. n < m => n + 1 \in 0..m
    BY <1>3
  <2> QED BY <1>3, <1>4, <2>1, <2>2
<1>9. /\ Answer!Whole \in 0..Len(reply.records) /\ Len(Answer!UpTo(reply, Answer!Whole)) <= got
      /\ Answer!Whole < Len(reply.records) => got < Len(Answer!UpTo(reply, Answer!Whole + 1))
  BY <1>8 DEF Answer!Whole
<1>10. PICK w \in 0..m : w = Answer!Whole /\ Fits(w)
  <2>1. PICK w \in 0..m : w = Answer!Whole
    BY <1>3, <1>9
  <2>2. w < m => w + 1 \in 0..m
    BY <1>3
  <2> QED BY <1>3, <1>4, <1>9, <2>1, <2>2
<1>11. ASSUME NEW n \in 0..m, n <= w PROVE length[n] <= got
  <2>1. w \in n..m
    BY <1>11
  <2>2. length[n] <= length[w]
    BY <1>5, <2>1
  <2> QED BY <1>2, <1>4, <1>10, <2>2
<1>12. ASSUME got = Len(Answer!Bytes(reply)) PROVE w = m
  <2> SUFFICES ASSUME w # m PROVE FALSE
    OBVIOUS
  <2>1. got < length[w + 1] /\ w + 1 \in 0..m /\ m \in (w + 1)..m /\ m \in 0..m
    BY <1>10
  <2>2. length[w + 1] <= length[m] /\ length[m] = got
    BY <1>3, <1>4, <1>5, <1>12, <2>1 DEF Answer!Bytes
  <2> QED BY <1>2, <1>4, <2>1, <2>2
<1> QED BY <1>3, <1>4, <1>10, <1>11, <1>12

\* An address is four bytes.
Addresses == [1..4 -> Octets]

\* The addresses of n records are those of n - 1, and that of record n if it has one.
LEMMA AddressesIs ==
  ASSUME query \in {Answer!A, Answer!TXT}, NEW r \in Answer!Replies
  PROVE  /\ Answer!AddressesIn(r, 0) = <<>>
         /\ \A n \in 0..Len(r.records) : Answer!AddressesIn(r, n) \in Seq(Addresses)
         /\ \A n \in 1..Len(r.records) :
              Answer!AddressesIn(r, n)
                = IF r.records[n].type = Answer!A
                  THEN Append(Answer!AddressesIn(r, n - 1), Answer!Address(r.records[n]))
                  ELSE Answer!AddressesIn(r, n - 1)
<1>1. PICK m \in Nat : m = Len(r.records)
  BY UpToIs
<1> DEFINE isA == [n \in 1..m |-> r.records[n].type = Answer!A]
           address == [n \in 1..m |-> Answer!Address(r.records[n])]
<1>2. \A n \in 1..m : isA[n] <=> r.records[n].type = Answer!A
  OBVIOUS
<1>3. \A n \in 1..m : address[n] = Answer!Address(r.records[n]) /\ (isA[n] => address[n] \in Addresses)
  <2>1. \A n \in 1..m : r.records[n] \in Answer!Records
    BY <1>1, UpToIs
  <2> QED BY <1>2, <2>1, DataIs DEF Addresses
<1> HIDE DEF isA, address
<1> DEFINE V == Seq(Addresses)
           step == [n \in 1..m |-> [v \in V |-> IF isA[n] THEN Append(v, address[n]) ELSE v]]
<1>4. <<>> \in V
  BY EmptySeq
<1>5. ASSUME NEW n \in 1..m, NEW v \in V PROVE (IF isA[n] THEN Append(v, address[n]) ELSE v) \in V
  BY <1>3, AppendProperties
<1> HIDE DEF V
<1>6. step \in [1..m -> [V -> V]] /\ \A n \in 1..m : \A v \in V : step[n][v] = IF isA[n] THEN Append(v, address[n]) ELSE v
  BY <1>5
<1> HIDE DEF step
<1>7. PICK f : Values(f, V, <<>>, step, m)
  BY <1>4, <1>6, Iteration
<1>8. /\ f \in [0..m -> V] /\ f[0] = <<>> /\ \A n \in 1..m : f[n] = step[n][f[n - 1]]
      /\ \A k \in 0..m : \A g : Steps(g, V, <<>>, step, k) => \A n \in 0..k : g[n] = f[n]
  BY <1>7 DEF Values
<1>9. \A n \in 1..m : n - 1 \in 0..m /\ f[n] = IF isA[n] THEN Append(f[n - 1], address[n]) ELSE f[n - 1]
  BY <1>6, <1>8
<1>10. ASSUME NEW n \in 0..m PROVE Answer!AddressesIn(r, n) = f[n]
  <2> DEFINE Rule(g) == [k \in 0..n |-> IF k = 0 THEN <<>>
                                        ELSE IF r.records[k].type = Answer!A
                                             THEN Append(g[k - 1], Answer!Address(r.records[k])) ELSE g[k - 1]]
             among == CHOOSE g : g = Rule(g)
             h == [k \in 0..n |-> f[k]]
  <2>1. Answer!AddressesIn(r, n) = among[n]
    BY Zenon DEF Answer!AddressesIn
  <2>2. h = Rule(h)
    <3>1. ASSUME NEW k \in 0..n PROVE h[k] = Rule(h)[k]
      <4>1. CASE k = 0
        BY <1>8, <4>1
      <4>2. CASE k # 0
        <5>1. k \in 1..m /\ k - 1 \in 0..n
          BY <4>2
        <5> QED BY <1>2, <1>3, <1>9, <4>2, <5>1
      <4> QED BY <4>1, <4>2
    <3> QED BY <3>1
  <2>3. among = Rule(among)
    <3> HIDE DEF h, Rule
    <3> QED BY <2>2
  <2>4. \A k \in 0..n : among[k] = IF k = 0 THEN <<>>
                                   ELSE IF r.records[k].type = Answer!A
                                        THEN Append(among[k - 1], Answer!Address(r.records[k])) ELSE among[k - 1]
    <3> HIDE DEF among
    <3> QED BY <2>3
  <2> HIDE DEF among
  <2>5. among[0] = <<>>
    <3>1. 0 \in 0..n
      OBVIOUS
    <3> QED BY <2>4, <3>1
  <2>6. ASSUME NEW k \in 1..n, among[k - 1] \in V PROVE among[k] = step[k][among[k - 1]]
    <3>1. k \in 1..m /\ k \in 0..n /\ k # 0
      OBVIOUS
    <3>2. among[k] = IF isA[k] THEN Append(among[k - 1], address[k]) ELSE among[k - 1]
      BY <1>2, <1>3, <2>4, <3>1
    <3> QED BY <1>6, <2>6, <3>1, <3>2
  <2>7. Steps(among, V, <<>>, step, n)
    BY <2>5, <2>6 DEF Steps
  <2>8. n \in 0..n
    OBVIOUS
  <2> QED BY <1>8, <2>1, <2>7, <2>8
<1>11. Answer!AddressesIn(r, 0) = <<>> /\ \A n \in 0..m : Answer!AddressesIn(r, n) \in V
  BY <1>8, <1>10
<1>12. ASSUME NEW n \in 1..m
       PROVE  Answer!AddressesIn(r, n) = IF r.records[n].type = Answer!A
                                      THEN Append(Answer!AddressesIn(r, n - 1), Answer!Address(r.records[n]))
                                      ELSE Answer!AddressesIn(r, n - 1)
  <2>1. n \in 0..m /\ n - 1 \in 0..m
    OBVIOUS
  <2>2. Answer!AddressesIn(r, n) = f[n] /\ Answer!AddressesIn(r, n - 1) = f[n - 1]
    BY <1>10, <2>1
  <2>3. f[n] = IF isA[n] THEN Append(f[n - 1], address[n]) ELSE f[n - 1]
    BY <1>9
  <2> QED BY <1>2, <1>3, <2>2, <2>3
<1> QED BY <1>1, <1>11, <1>12 DEF V

\* What the reply holds does not change while it is read.
LEMMA Frozen ==
  ASSUME UNCHANGED <<query, reply, got>>
  PROVE  /\ \A n : (Answer!UpTo(reply, n))' = Answer!UpTo(reply, n)
         /\ Answer!Bytes(reply)' = Answer!Bytes(reply)
<1>1. \A n : (Answer!UpTo(reply, n))' = Answer!UpTo(reply, n)
  BY DEF Answer!UpTo, Answer!Head14, Answer!Question
<1>2. Answer!Bytes(reply)' = Answer!Bytes(reply)
  BY DEF Answer!Bytes, Answer!UpTo, Answer!Head14, Answer!Question
<1> QED BY <1>1, <1>2

-----------------------------------------------------------------------------
(* What holds while a reply is read.                                       *)

\* The records the loop has read.
Done == Len(reply.records) - left

\* Where the loop is allows what it has still to read.
Started ==
  /\ reply \in Answer!Replies
  /\ phase = "sent" => reply = Answer!NoReply /\ pos = Answer!Start /\ left = 0 /\ found = <<>>
  /\ phase \in {"records", "answered"} => Answer!Start <= got /\ left <= Len(reply.records)
  /\ phase = "answered" => left = 0

\* As long as what is read arrived whole, the position is at the end of it, and the
\* addresses found are those in it; behind that they are never lost again.
Finding ==
  phase \in {"records", "answered"} /\ query = Answer!A =>
    \A n \in 0..Len(reply.records) : Len(Answer!UpTo(reply, n)) <= got =>
      IF Done <= n
      THEN pos = Len(Answer!UpTo(reply, Done)) /\ found = Answer!AddressesIn(reply, Done)
      ELSE Answer!IsPrefix(Answer!AddressesIn(reply, n), found)

\* The last record, and no other, is a text.
LastText ==
  /\ Len(reply.records) > 0
  /\ \A n \in 1..Len(reply.records) : reply.records[n].type = Answer!TXT <=> n = Len(reply.records)

\* The position gets to a text that is the last record, and then the text is found.
Telling ==
  phase \in {"records", "answered"} /\ query = Answer!TXT /\ got = Len(Answer!Bytes(reply)) /\ LastText =>
    IF Done < Len(reply.records) THEN pos = Len(Answer!UpTo(reply, Done))
    ELSE text = <<reply.records[Len(reply.records)].host>>

\* The reply's types, and where it is.
ReplyTypes == Answer!TypeOK /\ Started

\* No reply has arrived yet.
LEMMA InitReply == Answer!Init => ReplyTypes /\ Finding /\ Telling
<1> SUFFICES ASSUME Answer!Init PROVE ReplyTypes /\ Finding /\ Telling
  OBVIOUS
<1>1. /\ query \in {Answer!A, Answer!TXT} /\ phase = "sent" /\ reply = Answer!NoReply /\ got = 0 /\ junk \in Junk
      /\ pos = Answer!Start /\ left = 0 /\ found = <<>> /\ text = <<>>
  BY DEF Answer!Init
<1>2. reply \in Answer!Replies
  <2>1. 0 \in 0..RecordLimit
    BY LimitAssumption
  <2>2. <<>> \in [1..0 -> Answer!Records]
    OBVIOUS
  <2>3. <<>> \in Answer!BoundedSeq(Answer!Records, RecordLimit)
    BY <2>1, <2>2 DEF Answer!BoundedSeq, Answer!SeqOf
  <2> QED BY <1>1, <2>3 DEF Answer!NoReply, Answer!Replies
<1>3. /\ Answer!Start \in Nat /\ Len(Answer!Bytes(reply)) \in Nat
  <2>1. Len(reply.records) \in Nat /\ Answer!Start \in Nat /\ \A n \in 0..Len(reply.records) : Answer!UpTo(reply, n) \in Seq(Octets)
    BY <1>1, <1>2, UpToIs
  <2>2. Len(reply.records) \in 0..Len(reply.records)
    BY <2>1
  <2> QED BY <2>1, <2>2, LenProperties DEF Answer!Bytes
<1>4. <<>> \in Seq([1..4 -> 0..255]) /\ <<>> \in Seq(0..255)
  BY EmptySeq
<1>5. got \in 0..Len(Answer!Bytes(reply)) /\ left \in 0..RecordLimit
  BY <1>1, <1>3, LimitAssumption
<1>6. Answer!TypeOK
  BY <1>1, <1>3, <1>4, <1>5 DEF Answer!TypeOK
<1>7. Started /\ Finding /\ Telling
  BY <1>1, <1>2 DEF Started, Finding, Telling
<1> QED BY <1>6, <1>7 DEF ReplyTypes

\* The types say enough to read the buffer.
LEMMA TypesRead == ReplyTypes => Reading
BY DEF ReplyTypes, Answer!TypeOK, Started, Reading

\* What recv() returned is at its first record, or too short.
LEMMA ReceiveKeeps ==
  ASSUME ReplyTypes, Answer!Receive
  PROVE  ReplyTypes' /\ Finding' /\ Telling'
<1>1. /\ phase = "sent" /\ UNCHANGED <<query, junk, pos, found, text>>
      /\ query \in {Answer!A, Answer!TXT} /\ junk \in Junk /\ pos = Answer!Start /\ found = <<>> /\ left = 0
      /\ text \in Seq(0..255)
  BY DEF Answer!Receive, ReplyTypes, Answer!TypeOK, Started
<1>2. PICK r \in Answer!Replies : reply' = r /\ got' \in 0..Len(Answer!Bytes(r))
  BY DEF Answer!Receive
<1>3. \/ phase' = "failed" /\ left' = left
      \/ phase' = "records" /\ left' = Len(r.records) /\ ~(got' < pos)
  BY <1>2 DEF Answer!Receive
<1>4. \A n : (Answer!UpTo(reply, n))' = Answer!UpTo(r, n)
  BY <1>1, <1>2 DEF Answer!UpTo, Answer!Head14, Answer!Question
<1>5. Answer!Bytes(reply)' = Answer!Bytes(r) /\ Answer!Start' = Answer!Start
  BY <1>1, <1>2, <1>4 DEF Answer!Bytes, Answer!Start, Answer!Question
<1>6. /\ Len(r.records) \in Nat /\ Len(r.records) \in 0..RecordLimit /\ Answer!Start \in Nat
      /\ Len(Answer!UpTo(r, 0)) = Answer!Start /\ \A n \in 0..Len(r.records) : Answer!UpTo(r, n) \in Seq(Octets)
  BY <1>1, UpToIs
<1>7. Len(Answer!Bytes(r)) \in Nat
  <2>1. Len(r.records) \in 0..Len(r.records)
    BY <1>6
  <2> QED BY <1>6, <2>1, LenProperties DEF Answer!Bytes
<1>8. got' \in Nat /\ (phase' = "records" => Answer!Start <= got')
  BY <1>1, <1>2, <1>3, <1>6, <1>7
<1>9. left' \in 0..RecordLimit /\ (phase' = "records" => left' = Len(r.records))
  BY <1>1, <1>3, <1>6, LimitAssumption
<1>10. found' \in Seq([1..4 -> 0..255])
  BY <1>1, EmptySeq
<1>11. Answer!TypeOK'
  BY <1>1, <1>2, <1>3, <1>5, <1>6, <1>9, <1>10 DEF Answer!TypeOK
<1>12. Started'
  BY <1>1, <1>2, <1>3, <1>5, <1>6, <1>8, <1>9 DEF Started
<1>13. Done' = 0 \/ phase' = "failed"
  BY <1>2, <1>3, <1>6 DEF Done
<1>14. Answer!AddressesIn(r, 0) = <<>>
  BY <1>1, AddressesIs
<1>15. Finding'
  <2> SUFFICES ASSUME phase' \in {"records", "answered"}, NEW n \in 0..Len(r.records)
               PROVE  Done' <= n /\ pos' = Len((Answer!UpTo(reply, Done))') /\ found' = Answer!AddressesIn(r, Done')
    BY <1>2 DEF Finding
  <2>1. Done' = 0
    BY <1>13
  <2>2. (Answer!UpTo(reply, Done))' = Answer!UpTo(r, 0)
    BY <1>1, <1>2, <2>1 DEF Answer!UpTo, Answer!Head14, Answer!Question
  <2> QED BY <1>1, <1>6, <1>14, <2>1, <2>2
<1>16. Telling'
  <2> SUFFICES ASSUME phase' \in {"records", "answered"}, LastText'
               PROVE  Done' < Len(r.records) /\ pos' = Len((Answer!UpTo(reply, Done))')
    BY <1>2 DEF Telling
  <2>1. Done' = 0 /\ Len(r.records) > 0
    BY <1>2, <1>13 DEF LastText
  <2>2. (Answer!UpTo(reply, Done))' = Answer!UpTo(r, 0)
    BY <1>1, <1>2, <2>1 DEF Answer!UpTo, Answer!Head14, Answer!Question
  <2> QED BY <1>1, <1>6, <2>1, <2>2
<1> QED BY <1>11, <1>12, <1>15, <1>16 DEF ReplyTypes

\* What a turn of either loop reads are numbers.
LEMMA TurnTypes ==
  ASSUME ReplyTypes, phase = "records", left > 0
  PROVE  /\ Reading /\ query \in {Answer!A, Answer!TXT} /\ reply \in Answer!Replies
         /\ Len(reply.records) \in Nat /\ left \in 1..Len(reply.records) /\ left - 1 \in 0..RecordLimit
         /\ Done \in 0..Len(reply.records) /\ Done + 1 \in 1..Len(reply.records)
         /\ Answer!DataAt \in Nat /\ Answer!DataLength \in Nat
         /\ \A i \in Nat : Answer!Byte(Answer!DataAt + i) \in Octets
<1>1. Reading /\ query \in {Answer!A, Answer!TXT} /\ reply \in Answer!Replies
  BY TypesRead DEF Reading
<1>2. Len(reply.records) \in Nat /\ left \in 1..Len(reply.records) /\ left - 1 \in 0..RecordLimit
  <2>1. Len(reply.records) \in Nat /\ left \in 0..RecordLimit /\ left <= Len(reply.records)
    BY <1>1, UpToIs DEF ReplyTypes, Started, Answer!TypeOK
  <2> QED BY <2>1, LimitAssumption
<1>3. Done \in 0..Len(reply.records) /\ Done + 1 \in 1..Len(reply.records)
  <2>1. PICK m \in Nat, l \in Nat : m = Len(reply.records) /\ l = left /\ 0 < l /\ l <= m
    BY <1>2
  <2> QED BY <2>1 DEF Done
<1>4. pos \in Nat /\ Answer!Fields \in Nat
  BY <1>1, EndOfNameIs DEF ReplyTypes, Answer!TypeOK, Answer!Fields
<1>5. \A p \in Nat : Answer!Byte(p) \in Octets /\ Answer!Byte(p) \in Nat
  BY <1>1, ByteIs
<1>6. Answer!DataAt \in Nat
  BY <1>4 DEF Answer!DataAt
<1>7. Answer!DataLength \in Nat
  <2>1. Answer!Fields + 8 \in Nat /\ Answer!Fields + 8 + 1 \in Nat
    BY <1>4
  <2> QED BY <1>5, <2>1 DEF Answer!DataLength, Answer!Short
<1>8. \A i \in Nat : Answer!Byte(Answer!DataAt + i) \in Octets
  BY <1>5, <1>6
<1> QED BY <1>1, <1>2, <1>3, <1>6, <1>7, <1>8

\* What is found stays at the front.
LEMMA StaysInFront ==
  ASSUME NEW S, NEW front \in Seq(S), NEW list \in Seq(S), NEW more \in S, Answer!IsPrefix(front, list)
  PROVE  Answer!IsPrefix(front, Append(list, more))
BY DEF Answer!IsPrefix

\* A turn of queryA()'s loop reads one more record, and appends its address if it has one.
LEMMA ParseAKeeps ==
  ASSUME ReplyTypes, Answer!ParseA
  PROVE  ReplyTypes' /\ (Pointing /\ Finding => Finding') /\ Telling'
<1>1. /\ phase = "records" /\ query = Answer!A /\ left > 0 /\ left' = left - 1
      /\ pos' = Answer!DataAt + Answer!DataLength
      /\ found' = IF Answer!Short(Answer!Fields) = Answer!A THEN Append(found, Answer!AddressRead) ELSE found
      /\ phase' \in {"records", "crashed"} /\ UNCHANGED <<query, reply, got, junk, text>>
  BY DEF Answer!ParseA
<1>2. /\ Reading /\ query \in {Answer!A, Answer!TXT} /\ reply \in Answer!Replies
      /\ Len(reply.records) \in Nat /\ left \in 1..Len(reply.records) /\ left - 1 \in 0..RecordLimit
      /\ Done \in 0..Len(reply.records) /\ Done + 1 \in 1..Len(reply.records)
      /\ Answer!DataAt \in Nat /\ Answer!DataLength \in Nat
      /\ \A i \in Nat : Answer!Byte(Answer!DataAt + i) \in Octets
  BY <1>1, TurnTypes
<1>3. Answer!AddressRead \in Addresses
  <2>1. junk \in Octets
    BY <1>2, ByteAssumption DEF Reading, Octets
  <2>2. ASSUME NEW i \in 1..4 PROVE Answer!Byte(Answer!DataAt + i - 1) \in Octets
    <3>1. i - 1 \in Nat /\ Answer!DataAt + (i - 1) = Answer!DataAt + i - 1
      BY <1>2
    <3>2. Answer!Byte(Answer!DataAt + (i - 1)) \in Octets
      BY <1>2, <3>1
    <3> QED BY <3>1, <3>2
  <2> QED BY <2>1, <2>2 DEF Answer!AddressRead, Addresses
<1>4. PICK old \in Seq(Addresses) : old = found
  BY DEF ReplyTypes, Answer!TypeOK, Addresses, Octets
<1>5. found' = old \/ found' = Append(old, Answer!AddressRead)
  BY <1>1, <1>4
<1>6. found' \in Seq(Addresses)
  BY <1>3, <1>5, AppendProperties
<1>7. Answer!Bytes(reply)' = Answer!Bytes(reply) /\ \A n : (Answer!UpTo(reply, n))' = Answer!UpTo(reply, n)
  BY <1>1, Frozen
<1>8. pos' \in Nat
  BY <1>1, <1>2
<1>9. Answer!TypeOK'
  BY <1>1, <1>2, <1>6, <1>7, <1>8 DEF ReplyTypes, Answer!TypeOK, Addresses, Octets
<1>10. Started'
  BY <1>1, <1>2 DEF ReplyTypes, Started, Answer!Start, Answer!Question
<1>11. Telling'
  BY <1>1 DEF Telling, Answer!A, Answer!TXT
<1>12. Done' = Done + 1
  <2>1. PICK m \in Nat, l \in Nat : m = Len(reply.records) /\ l = left /\ 0 < l /\ l <= m
    BY <1>2
  <2> QED BY <1>1, <2>1 DEF Done
<1>13. ASSUME Pointing, Finding PROVE Finding'
  <2>1. SUFFICES ASSUME NEW n \in 0..Len(reply.records), Len(Answer!UpTo(reply, n)) <= got
                 PROVE  IF Done + 1 <= n
                        THEN pos' = Len(Answer!UpTo(reply, Done + 1)) /\ found' = Answer!AddressesIn(reply, Done + 1)
                        ELSE Answer!IsPrefix(Answer!AddressesIn(reply, n), found')
    <3>1. (Answer!UpTo(reply, Done))' = Answer!UpTo(reply, Done + 1)
      BY <1>1, <1>12 DEF Answer!UpTo, Answer!Head14, Answer!Question
    <3> QED BY <1>1, <1>7, <1>12, <3>1 DEF Finding
  <2>2. IF Done <= n
        THEN pos = Len(Answer!UpTo(reply, Done)) /\ found = Answer!AddressesIn(reply, Done)
        ELSE Answer!IsPrefix(Answer!AddressesIn(reply, n), found)
    BY <1>1, <1>13, <2>1 DEF Finding
  <2>3. PICK d \in Nat : d = Done
    BY <1>2
  <2>4. CASE Done + 1 <= n
    <3>1. Done <= n /\ n \in (Done + 1)..Len(reply.records) /\ Done + 1 \in 0..Len(reply.records) /\ (Done + 1) - 1 = Done
      BY <1>2, <2>3, <2>4
    <3>2. Len(Answer!UpTo(reply, Done + 1)) <= got
      <4>1. /\ Len(Answer!UpTo(reply, Done + 1)) \in Nat /\ Len(Answer!UpTo(reply, n)) \in Nat
            /\ Len(Answer!UpTo(reply, Done + 1)) <= Len(Answer!UpTo(reply, n))
        BY <1>2, <3>1, UpToLonger
      <4>2. got \in Nat
        BY <1>2, ByteIs
      <4> QED BY <2>1, <4>1, <4>2
    <3>3. PICK k \in 1..Len(reply.records) : k = Done + 1 /\ k - 1 = Done
      BY <1>2, <3>1
    <3> DEFINE record == reply.records[k]
               data == Answer!Data(record)
    <3>4. /\ record \in Answer!Records
          /\ Answer!Short(Answer!Fields) = record.type /\ Answer!DataLength = Len(data)
          /\ Len(Answer!UpTo(reply, k)) = Answer!DataAt + Answer!DataLength
          /\ \A i \in 1..Len(data) : Answer!Byte(Answer!DataAt + i - 1) = data[i]
      <4>1. Pointing /\ Len(Answer!UpTo(reply, k)) <= got /\ pos = Len(Answer!UpTo(reply, k - 1))
        BY <1>13, <2>2, <3>1, <3>2, <3>3
      <4>2. Sees(reply.records[k], Len(Answer!UpTo(reply, k)))
        BY <1>2, <4>1, ReadIs
      <4> QED BY <4>2 DEF Sees
    <3>5. ASSUME record.type = Answer!A PROVE Answer!AddressRead = Answer!Address(record)
      <4>1. data = Answer!Address(record) /\ Len(data) = 4 /\ Answer!Address(record) \in [1..4 -> Octets]
        BY <3>4, <3>5, DataIs
      <4> HIDE DEF data, record
      <4>2. \A i \in 1..4 : i <= Answer!DataLength /\ Answer!Byte(Answer!DataAt + i - 1) = Answer!Address(record)[i]
        BY <3>4, <4>1
      <4> QED BY <4>1, <4>2 DEF Answer!AddressRead
    <3>6. Answer!AddressesIn(reply, k) = IF record.type = Answer!A
                                         THEN Append(Answer!AddressesIn(reply, k - 1), Answer!Address(record))
                                         ELSE Answer!AddressesIn(reply, k - 1)
      BY <1>2, AddressesIs
    <3> HIDE DEF record, data
    <3>7. found = Answer!AddressesIn(reply, k - 1)
      BY <2>2, <3>1, <3>3
    <3>8. found' = Answer!AddressesIn(reply, k)
      BY <1>1, <3>4, <3>5, <3>6, <3>7
    <3> QED BY <1>1, <2>4, <3>3, <3>4, <3>8
  <2>5. CASE ~(Done + 1 <= n)
    <3>1. PICK front \in Seq(Addresses) : front = Answer!AddressesIn(reply, n)
      BY <1>2, AddressesIs
    <3>2. Answer!IsPrefix(front, old)
      <4>1. CASE Done <= n
        <5>1. Done = n
          BY <2>3, <2>5, <4>1
        <5> QED BY <1>4, <2>2, <3>1, <4>1, <5>1 DEF Answer!IsPrefix
      <4>2. CASE ~(Done <= n)
        BY <1>4, <2>2, <3>1, <4>2
      <4> QED BY <4>1, <4>2
    <3>3. Answer!IsPrefix(front, found')
      BY <1>3, <1>5, <3>2, StaysInFront
    <3> QED BY <2>5, <3>1, <3>3
  <2> QED BY <2>4, <2>5
<1> QED BY <1>9, <1>10, <1>11, <1>13 DEF ReplyTypes

\* A turn of queryTXT()'s loop reads one more record, and takes its text if it has one.
LEMMA ParseTXTKeeps ==
  ASSUME ReplyTypes, Answer!ParseTXT
  PROVE  ReplyTypes' /\ Finding' /\ (Pointing /\ Telling => Telling')
<1>1. /\ phase = "records" /\ query = Answer!TXT /\ left > 0 /\ left' = left - 1
      /\ IF Answer!Short(Answer!Fields) = Answer!TXT
         THEN /\ pos' = Answer!DataAt + 1
              /\ text' = [i \in 1..Answer!Byte(Answer!DataAt) |-> Answer!Byte(Answer!DataAt + i)]
         ELSE pos' = Answer!DataAt + Answer!DataLength /\ text' = text
      /\ UNCHANGED <<query, phase, reply, got, junk, found>>
  BY DEF Answer!ParseTXT
<1>2. /\ Reading /\ query \in {Answer!A, Answer!TXT} /\ reply \in Answer!Replies
      /\ Len(reply.records) \in Nat /\ left \in 1..Len(reply.records) /\ left - 1 \in 0..RecordLimit
      /\ Done \in 0..Len(reply.records) /\ Done + 1 \in 1..Len(reply.records)
      /\ Answer!DataAt \in Nat /\ Answer!DataLength \in Nat
      /\ \A i \in Nat : Answer!Byte(Answer!DataAt + i) \in Octets
  BY <1>1, TurnTypes
<1>3. Answer!Byte(Answer!DataAt) \in Nat
  BY <1>2, ByteIs
<1>4. text' \in Seq(Octets)
  <2>1. [i \in 1..Answer!Byte(Answer!DataAt) |-> Answer!Byte(Answer!DataAt + i)] \in Seq(Octets)
    BY <1>2, <1>3
  <2> QED BY <1>1, <2>1 DEF ReplyTypes, Answer!TypeOK, Octets
<1>5. Answer!Bytes(reply)' = Answer!Bytes(reply) /\ \A n : (Answer!UpTo(reply, n))' = Answer!UpTo(reply, n)
  BY <1>1, Frozen
<1>6. pos' \in Nat
  BY <1>1, <1>2
<1>7. Answer!TypeOK'
  BY <1>1, <1>2, <1>4, <1>5, <1>6 DEF ReplyTypes, Answer!TypeOK, Octets
<1>8. Started'
  BY <1>1, <1>2 DEF ReplyTypes, Started, Answer!Start, Answer!Question
<1>9. Finding'
  BY <1>1 DEF Finding, Answer!A, Answer!TXT
<1>10. Done' = Done + 1
  <2>1. PICK m \in Nat, l \in Nat : m = Len(reply.records) /\ l = left /\ 0 < l /\ l <= m
    BY <1>2
  <2> QED BY <1>1, <2>1 DEF Done
<1>11. ASSUME Pointing, Telling PROVE Telling'
  <2>1. SUFFICES ASSUME got = Len(Answer!Bytes(reply)), LastText
                 PROVE  IF Done + 1 < Len(reply.records) THEN pos' = Len(Answer!UpTo(reply, Done + 1))
                        ELSE text' = <<reply.records[Len(reply.records)].host>>
    <3>1. (Answer!UpTo(reply, Done))' = Answer!UpTo(reply, Done + 1)
      BY <1>1, <1>10 DEF Answer!UpTo, Answer!Head14, Answer!Question
    <3>2. LastText' = LastText
      BY <1>1 DEF LastText, Answer!TXT
    <3> QED BY <1>1, <1>5, <1>10, <3>1, <3>2 DEF Telling
  <2>2. PICK m \in Nat, d \in Nat : m = Len(reply.records) /\ d = Done /\ d < m
    BY <1>2
  <2>3. PICK k \in 1..Len(reply.records) : k = Done + 1 /\ k - 1 = Done /\ Len(reply.records) \in k..Len(reply.records) /\ k \in 0..Len(reply.records)
    BY <1>2, <2>2
  <2>4. pos = Len(Answer!UpTo(reply, k - 1))
    BY <1>1, <1>11, <2>1, <2>2, <2>3 DEF Telling
  <2>5. Len(Answer!UpTo(reply, k)) <= got
    BY <1>2, <2>1, <2>3, UpToLonger DEF Answer!Bytes
  <2> DEFINE record == reply.records[k]
             data == Answer!Data(record)
  <2>6. /\ record \in Answer!Records
        /\ Answer!Short(Answer!Fields) = record.type /\ Answer!DataLength = Len(data)
        /\ Len(Answer!UpTo(reply, k)) = Answer!DataAt + Answer!DataLength
        /\ \A i \in 1..Len(data) : Answer!Byte(Answer!DataAt + i - 1) = data[i]
    <3>1. Sees(reply.records[k], Len(Answer!UpTo(reply, k)))
      BY <1>2, <1>11, <2>4, <2>5, ReadIs
    <3> QED BY <3>1 DEF Sees
  <2>7. record.type = Answer!TXT <=> k = Len(reply.records)
    BY <2>1 DEF LastText
  <2>8. CASE k = Len(reply.records)
    <3>1. Len(data) = 2 /\ data[1] = 1 /\ data[2] = record.host
      BY <2>6, <2>7, <2>8, DataIs
    <3> HIDE DEF data
    <3>2. Answer!DataAt + 1 - 1 = Answer!DataAt /\ Answer!DataAt + 2 - 1 = Answer!DataAt + 1
      BY <1>2
    <3>3. Answer!Byte(Answer!DataAt + 1 - 1) = 1 /\ Answer!Byte(Answer!DataAt + 2 - 1) = record.host
      BY <2>6, <3>1
    <3>4. text' = [i \in 1..1 |-> Answer!Byte(Answer!DataAt + i)] /\ Answer!Byte(Answer!DataAt + 1) = record.host
      BY <1>1, <2>6, <2>7, <2>8, <3>2, <3>3
    <3>5. text' = <<record.host>>
      BY <3>4
    <3> QED BY <2>2, <2>3, <2>8, <3>5
  <2>9. CASE k # Len(reply.records)
    BY <1>1, <2>2, <2>3, <2>6, <2>7, <2>9
  <2> QED BY <2>8, <2>9
<1> QED BY <1>7, <1>8, <1>9, <1>11 DEF ReplyTypes

\* Behind the last record nothing is read.
LEMMA ReturnKeeps ==
  ASSUME ReplyTypes, Answer!Return
  PROVE  ReplyTypes' /\ (Finding => Finding') /\ (Telling => Telling')
<1>1. /\ phase = "records" /\ left = 0 /\ phase' = "answered"
      /\ UNCHANGED <<query, reply, got, junk, pos, left, found, text>>
  BY DEF Answer!Return
<1>2. Answer!Bytes(reply)' = Answer!Bytes(reply) /\ \A n : (Answer!UpTo(reply, n))' = Answer!UpTo(reply, n)
  BY <1>1, Frozen
<1>3. Done' = Done
  BY <1>1 DEF Done
<1>4. (Answer!UpTo(reply, Done))' = Answer!UpTo(reply, Done)
  BY <1>1, <1>3 DEF Answer!UpTo, Answer!Head14, Answer!Question
<1>5. ReplyTypes'
  BY <1>1, <1>2 DEF ReplyTypes, Answer!TypeOK, Started, Answer!Start, Answer!Question
<1>6. Finding => Finding'
  BY <1>1, <1>2, <1>3, <1>4 DEF Finding
<1>7. Telling => Telling'
  BY <1>1, <1>2, <1>3, <1>4 DEF Telling, LastText, Answer!TXT
<1> QED BY <1>5, <1>6, <1>7

\* A step of another message changes nothing here.
LEMMA StillReads ==
  ASSUME ReplyTypes, UNCHANGED Answer!vars
  PROVE  ReplyTypes' /\ (Finding => Finding') /\ (Telling => Telling')
<1>1. UNCHANGED <<query, phase, reply, got, junk, pos, left, found, text>>
  BY DEF Answer!vars
<1>2. Answer!Bytes(reply)' = Answer!Bytes(reply) /\ \A n : (Answer!UpTo(reply, n))' = Answer!UpTo(reply, n)
  BY <1>1, Frozen
<1>3. Done' = Done
  BY <1>1 DEF Done
<1>4. (Answer!UpTo(reply, Done))' = Answer!UpTo(reply, Done)
  BY <1>1, <1>3 DEF Answer!UpTo, Answer!Head14, Answer!Question
<1>5. ReplyTypes'
  BY <1>1, <1>2 DEF ReplyTypes, Answer!TypeOK, Started, Answer!Start, Answer!Question
<1>6. Finding => Finding'
  BY <1>1, <1>2, <1>3, <1>4 DEF Finding
<1>7. Telling => Telling'
  BY <1>1, <1>2, <1>3, <1>4 DEF Telling, LastText, Answer!TXT
<1> QED BY <1>5, <1>6, <1>7

\* What is read is right as long as no name was written out.
ReplyInv == ReplyTypes /\ (Pointing => Finding /\ Telling)

\* Each step of queryA() and queryTXT() keeps the invariant.
LEMMA NextReply == ReplyInv /\ [Answer!Next]_(Answer!vars) => ReplyInv'
<1> SUFFICES ASSUME ReplyInv, [Answer!Next]_(Answer!vars) PROVE ReplyInv'
  OBVIOUS
<1>1. CASE Answer!Receive
  BY <1>1, ReceiveKeeps DEF ReplyInv
<1>2. CASE Answer!ParseA
  <2>1. Pointing' = Pointing
    BY <1>2 DEF Answer!ParseA, Pointing
  <2> QED BY <1>2, <2>1, ParseAKeeps DEF ReplyInv
<1>3. CASE Answer!ParseTXT
  <2>1. Pointing' = Pointing
    BY <1>3 DEF Answer!ParseTXT, Pointing
  <2> QED BY <1>3, <2>1, ParseTXTKeeps DEF ReplyInv
<1>4. CASE Answer!Return
  <2>1. Pointing' = Pointing
    BY <1>4 DEF Answer!Return, Pointing
  <2> QED BY <1>4, <2>1, ReturnKeeps DEF ReplyInv
<1>5. CASE UNCHANGED Answer!vars
  <2>1. Pointing' = Pointing
    BY <1>5 DEF Answer!vars, Pointing
  <2> QED BY <1>5, <2>1, StillReads DEF ReplyInv
<1> QED BY <1>1, <1>2, <1>3, <1>4, <1>5 DEF Answer!Next

\* With no record left, the invariant says what is returned.
LEMMA ReplyIsRead == ReplyInv /\ Pointing => Answer!ReadsReply
<1> SUFFICES ASSUME ReplyInv, Pointing PROVE Answer!ReadsReply
  OBVIOUS
<1>1. ReplyTypes /\ Finding /\ Telling /\ Reading
  BY TypesRead DEF ReplyInv
<1>2. Answer!FindsAddresses
  <2> SUFFICES ASSUME phase = "answered", query = Answer!A
               PROVE  /\ Answer!IsPrefix(Answer!AddressesIn(reply, Answer!Whole), found)
                      /\ got = Len(Answer!Bytes(reply)) => found = Answer!AddressesIn(reply, Len(reply.records))
    BY DEF Answer!FindsAddresses
  <2>1. Answer!Start <= got /\ left = 0
    BY <1>1 DEF ReplyTypes, Started
  <2>2. PICK m \in Nat, w \in Nat : m = Len(reply.records) /\ w = Answer!Whole /\ w <= m /\ Len(Answer!UpTo(reply, w)) <= got
    BY <1>1, <2>1, WholeRecords
  <2>3. Done = m
    BY <2>1, <2>2 DEF Done
  <2>4. IF m <= w THEN found = Answer!AddressesIn(reply, m) ELSE Answer!IsPrefix(Answer!AddressesIn(reply, w), found)
    BY <1>1, <2>2, <2>3 DEF Finding
  <2>5. m <= w <=> w = m
    BY <2>2
  <2>6. Answer!IsPrefix(Answer!AddressesIn(reply, w), found)
    BY <2>2, <2>4, <2>5 DEF Answer!IsPrefix, ReplyTypes, Answer!TypeOK
  <2>7. got = Len(Answer!Bytes(reply)) => w = m
    BY <1>1, <2>1, <2>2, WholeRecords
  <2> QED BY <2>2, <2>4, <2>5, <2>6, <2>7
<1>3. Answer!FindsText
  <2> DEFINE last == Len(reply.records)
             texts == {n \in 1..last : reply.records[n].type = Answer!TXT}
  <2> SUFFICES ASSUME phase = "answered", query = Answer!TXT, got = Len(Answer!Bytes(reply)), last > 0, texts = {last}
               PROVE  text = <<reply.records[last].host>>
    BY DEF Answer!FindsText
  <2>1. LastText
    BY DEF LastText
  <2>2. last \in Nat
    BY <1>1, UpToIs DEF Reading
  <2>3. ~(Done < Len(reply.records))
    BY <1>1, <2>2 DEF ReplyTypes, Started, Done
  <2> QED BY <1>1, <2>1, <2>3 DEF Telling
<1> QED BY <1>2, <1>3 DEF Answer!ReadsReply

-----------------------------------------------------------------------------
(* The fields of a list that have one of some keys.                        *)

\* f[n] are those among the first n.
Selects(f, list, keys, m) ==
  /\ f[0] = <<>>
  /\ \A n \in 1..m : f[n] = IF list[n].key \in keys THEN Append(f[n - 1], list[n]) ELSE f[n - 1]

\* One field more is selected, or not.
LEMMA SelectsLonger ==
  ASSUME NEW list, NEW keys, NEW m \in Nat, NEW f, Selects(f, list, keys, m)
  PROVE  \E g : Selects(g, list, keys, m + 1)
<1> DEFINE last == IF list[m + 1].key \in keys THEN Append(f[m], list[m + 1]) ELSE f[m]
           g == [n \in 0..(m + 1) |-> IF n = m + 1 THEN last ELSE f[n]]
<1>1. g[m + 1] = last /\ \A n \in 0..m : g[n] = f[n]
  OBVIOUS
<1> HIDE DEF g
<1>2. g[0] = <<>>
  BY <1>1 DEF Selects
<1>3. ASSUME NEW n \in 1..(m + 1)
      PROVE  g[n] = IF list[n].key \in keys THEN Append(g[n - 1], list[n]) ELSE g[n - 1]
  <2>1. n - 1 \in 0..m /\ g[n - 1] = f[n - 1]
    BY <1>1
  <2>2. CASE n = m + 1
    <3>1. n - 1 = m
      BY <2>2
    <3> QED BY <1>1, <2>1, <2>2, <3>1
  <2>3. CASE n # m + 1
    <3>1. n \in 1..m /\ n \in 0..m
      BY <2>3
    <3> QED BY <1>1, <2>1, <3>1 DEF Selects
  <2> QED BY <2>2, <2>3
<1> QED BY <1>2, <1>3 DEF Selects

\* Only has a value, and any function that selects says which.
LEMMA OnlyIs ==
  ASSUME NEW list, Len(list) \in Nat, NEW keys
  PROVE  /\ \E f : Selects(f, list, keys, Len(list))
         /\ \A f : Selects(f, list, keys, Len(list)) => Header!Only(list, keys) = f[Len(list)]
<1> DEFINE Missing == {m \in Nat : ~ \E f : Selects(f, list, keys, m)}
<1>1. Missing = {}
  <2> SUFFICES ASSUME Missing # {} PROVE FALSE
    OBVIOUS
  <2>1. PICK m \in Missing : \A k \in Missing : m <= k
    BY LeastNumber
  <2>2. CASE m = 0
    <3>1. Selects([n \in 0..0 |-> <<>>], list, keys, 0)
      BY DEF Selects
    <3> QED BY <2>1, <2>2, <3>1
  <2>3. CASE m # 0
    <3>1. m - 1 \in Nat /\ ~ (m <= m - 1) /\ (m - 1) + 1 = m
      BY <2>3
    <3>2. PICK f : Selects(f, list, keys, m - 1)
      BY <2>1, <3>1
    <3> QED BY <2>1, <3>1, <3>2, SelectsLonger
  <2> QED BY <2>2, <2>3
<1>2. PICK f : Selects(f, list, keys, Len(list))
  BY <1>1
<1> DEFINE Rule(g) == [n \in 0..Len(list) |->
                         IF n = 0 THEN <<>> ELSE IF list[n].key \in keys THEN Append(g[n - 1], list[n]) ELSE g[n - 1]]
           h == [n \in 0..Len(list) |-> f[n]]
           only == CHOOSE g : g = Rule(g)
<1>3. Header!Only(list, keys) = only[Len(list)]
  BY Zenon DEF Header!Only
<1>4. h = Rule(h)
  <2>1. ASSUME NEW n \in 0..Len(list) PROVE h[n] = Rule(h)[n]
    <3>1. CASE n = 0
      BY <1>2, <3>1 DEF Selects
    <3>2. CASE n # 0
      <4>1. n \in 1..Len(list) /\ n - 1 \in 0..Len(list)
        BY <3>2
      <4> QED BY <1>2, <3>2, <4>1 DEF Selects
    <3> QED BY <3>1, <3>2
  <2> QED BY <2>1
<1>5. only = Rule(only)
  <2> HIDE DEF h, Rule
  <2> QED BY <1>4
<1>6. Selects(only, list, keys, Len(list))
  <2>1. \A n \in 0..Len(list) : only[n] = IF n = 0 THEN <<>> ELSE IF list[n].key \in keys THEN Append(only[n - 1], list[n]) ELSE only[n - 1]
    <3> HIDE DEF only
    <3> QED BY <1>5
  <2> HIDE DEF only
  <2> QED BY <2>1 DEF Selects
<1> HIDE DEF only
<1>7. ASSUME NEW g, Selects(g, list, keys, Len(list)) PROVE g[Len(list)] = only[Len(list)]
  <2> DEFINE Differ == {n \in 0..Len(list) : g[n] # only[n]}
  <2>1. Differ = {}
    <3> SUFFICES ASSUME Differ # {} PROVE FALSE
      OBVIOUS
    <3>1. PICK n \in Differ : \A k \in Differ : n <= k
      <4>1. Differ \in SUBSET Nat
        OBVIOUS
      <4> QED BY <4>1, LeastNumber
    <3>2. n # 0
      BY <3>1, <1>6, <1>7 DEF Selects
    <3>3. n \in 1..Len(list) /\ n - 1 \in 0..Len(list) /\ ~(n <= n - 1)
      BY <3>1, <3>2
    <3>4. g[n - 1] = only[n - 1]
      BY <3>1, <3>3
    <3> QED BY <3>1, <3>3, <3>4, <1>6, <1>7 DEF Selects
  <2> QED BY <2>1
<1> QED BY <1>2, <1>3, <1>7

\* A field at the end is selected at the end.
LEMMA OnlyAppend ==
  ASSUME NEW S, NEW list \in Seq(S), NEW field \in S, NEW keys
  PROVE  Header!Only(Append(list, field), keys)
           = IF field.key \in keys THEN Append(Header!Only(list, keys), field) ELSE Header!Only(list, keys)
<1> DEFINE longer == Append(list, field)
<1>1. /\ Len(list) \in Nat /\ Len(longer) = Len(list) + 1
      /\ longer[Len(list) + 1] = field /\ \A i \in 1..Len(list) : longer[i] = list[i]
  BY AppendProperties, LenProperties
<1> HIDE DEF longer
<1>2. Len(longer) \in Nat
  BY <1>1
<1>3. PICK g : Selects(g, longer, keys, Len(longer))
  BY <1>2, OnlyIs
<1>4. Selects(g, list, keys, Len(list))
  BY <1>1, <1>3 DEF Selects
<1>5. g[Len(longer)] = IF field.key \in keys THEN Append(g[Len(list)], field) ELSE g[Len(list)]
  BY <1>1, <1>3 DEF Selects
<1>6. Header!Only(longer, keys) = g[Len(longer)] /\ Header!Only(list, keys) = g[Len(list)]
  BY <1>1, <1>2, <1>3, <1>4, OnlyIs
<1> QED BY <1>5, <1>6 DEF longer

\* A field whose key is not one of these changes.
LEMMA OnlyElsewhere ==
  ASSUME NEW list, NEW other, Len(list) \in Nat, Len(other) = Len(list), NEW keys,
         \A i \in 1..Len(list) : other[i] = list[i] \/ (other[i].key \notin keys /\ list[i].key \notin keys)
  PROVE  Header!Only(other, keys) = Header!Only(list, keys)
<1>1. PICK f : Selects(f, list, keys, Len(list))
  BY OnlyIs
<1>2. Selects(f, other, keys, Len(list))
  BY <1>1 DEF Selects
<1> QED BY <1>1, <1>2, OnlyIs

\* What is in front of an element and what is behind it are one less.
LEMMA OneLess == \A m, n \in Nat : (m - 1) + (n - m) = n - 1
OBVIOUS

\* A sequence without one of its elements.
LEMMA Without ==
  ASSUME NEW S, NEW list \in Seq(S), NEW at \in 1..Len(list), NEW rest,
         rest = SubSeq(list, 1, at - 1) \o SubSeq(list, at + 1, Len(list))
  PROVE  /\ rest \in Seq(S) /\ Len(rest) = Len(list) - 1
         /\ \A i \in 1..(at - 1) : rest[i] = list[i]
         /\ \A i \in at..(Len(list) - 1) : rest[i] = list[i + 1]
<1> DEFINE front == SubSeq(list, 1, at - 1)
           back == SubSeq(list, at + 1, Len(list))
<1>1. front \in Seq(S) /\ Len(front) = at - 1 /\ \A i \in 1..(at - 1) : front[i] = list[i]
  OBVIOUS
<1>2. back \in Seq(S) /\ Len(back) = Len(list) - at /\ \A i \in 1..(Len(list) - at) : back[i] = list[i + at]
  OBVIOUS
<1>3. rest = front \o back /\ Len(list) \in Nat
  BY LenProperties
<1> HIDE DEF front, back
<1>4. /\ rest \in Seq(S) /\ Len(rest) = Len(front) + Len(back)
      /\ \A i \in 1..(Len(front) + Len(back)) : rest[i] = IF i <= Len(front) THEN front[i] ELSE back[i - Len(front)]
  <2>1. PICK a \in Seq(S), b \in Seq(S) : a = front /\ b = back
    BY <1>1, <1>2
  <2>2. /\ a \o b \in Seq(S) /\ Len(a \o b) = Len(a) + Len(b)
        /\ \A i \in 1..(Len(a) + Len(b)) : (a \o b)[i] = IF i <= Len(a) THEN a[i] ELSE b[i - Len(a)]
    BY ConcatProperties
  <2> QED BY <1>3, <2>1, <2>2
<1>5. ASSUME NEW i \in at..(Len(list) - 1) PROVE rest[i] = list[i + 1]
  <2>1. /\ i \in 1..(Len(front) + Len(back)) /\ ~(i <= Len(front)) /\ i - Len(front) \in 1..(Len(list) - at)
        /\ (i - Len(front)) + at = i + 1
    BY <1>1, <1>2, <1>3
  <2> QED BY <1>2, <1>4, <2>1
<1>6. ASSUME NEW i \in 1..(at - 1) PROVE rest[i] = list[i]
  <2>1. i \in 1..(Len(front) + Len(back)) /\ i <= Len(front)
    BY <1>1, <1>2, <1>3
  <2> QED BY <1>1, <1>4, <2>1
<1>7. Len(rest) = Len(list) - 1
  <2>1. Len(rest) = Len(front) + Len(back)
    BY <1>4
  <2>2. Len(rest) = (at - 1) + (Len(list) - at)
    BY <1>1, <1>2, <2>1
  <2>3. Len(list) \in Nat /\ at \in Nat
    BY <1>3
  <2> QED BY <2>2, <2>3, OneLess, Zenon
<1> QED BY <1>4, <1>5, <1>6, <1>7

\* A field whose key is not one of these goes.
LEMMA OnlyWithout ==
  ASSUME NEW list, NEW other, NEW at \in 1..Len(list), Len(list) \in Nat, Len(other) = Len(list) - 1, NEW keys,
         \A i \in 1..(at - 1) : other[i] = list[i],
         \A i \in at..(Len(list) - 1) : other[i] = list[i + 1],
         list[at].key \notin keys
  PROVE  Header!Only(other, keys) = Header!Only(list, keys)
<1>1. PICK f : Selects(f, list, keys, Len(list))
  BY OnlyIs
<1> DEFINE g == [n \in 0..Len(other) |-> IF n < at THEN f[n] ELSE f[n + 1]]
<1>2. /\ \A n \in 0..Len(other) : n < at => g[n] = f[n]
      /\ \A n \in 0..Len(other) : ~(n < at) => g[n] = f[n + 1]
  OBVIOUS
<1>3. at \in Nat /\ 0 < at /\ 0 \in 0..Len(other) /\ Len(other) \in Nat
  OBVIOUS
<1> HIDE DEF g
<1>4. g[0] = <<>>
  BY <1>1, <1>2, <1>3 DEF Selects
<1>5. f[at] = f[at - 1]
  BY <1>1 DEF Selects
<1>6. ASSUME NEW n \in 1..Len(other)
      PROVE  g[n] = IF other[n].key \in keys THEN Append(g[n - 1], other[n]) ELSE g[n - 1]
  <2>1. CASE n < at
    <3>1. n \in 1..Len(list) /\ n \in 1..(at - 1) /\ n \in 0..Len(other) /\ n - 1 \in 0..Len(other) /\ n - 1 < at
      BY <2>1, <1>3
    <3>2. g[n] = f[n] /\ g[n - 1] = f[n - 1] /\ other[n] = list[n]
      BY <1>2, <2>1, <3>1
    <3> QED BY <1>1, <3>1, <3>2 DEF Selects
  <2>2. CASE ~(n < at)
    <3>1. /\ n + 1 \in 1..Len(list) /\ n \in at..(Len(list) - 1) /\ n \in 0..Len(other) /\ n - 1 \in 0..Len(other)
          /\ (n + 1) - 1 = n
      BY <2>2, <1>3
    <3>2. g[n] = f[n + 1] /\ other[n] = list[n + 1]
      BY <1>2, <2>2, <3>1
    <3>3. g[n - 1] = f[n]
      <4>1. CASE n - 1 < at
        <5>1. n = at
          BY <4>1, <2>2, <1>3
        <5> QED BY <4>1, <5>1, <1>2, <1>5, <3>1
      <4>2. CASE ~(n - 1 < at)
        <5>1. (n - 1) + 1 = n
          BY <1>3
        <5> QED BY <4>2, <5>1, <1>2, <3>1
      <4> QED BY <4>1, <4>2
    <3>4. f[n + 1] = IF list[n + 1].key \in keys THEN Append(f[n], list[n + 1]) ELSE f[n]
      BY <1>1, <3>1 DEF Selects
    <3> QED BY <3>2, <3>3, <3>4
  <2> QED BY <2>1, <2>2
<1>7. Selects(g, other, keys, Len(other))
  BY <1>4, <1>6 DEF Selects
<1>8. Header!Only(other, keys) = g[Len(other)]
  BY <1>3, <1>7, OnlyIs
<1>9. g[Len(other)] = f[Len(list)]
  <2>1. Len(other) \in 0..Len(other) /\ Len(other) + 1 = Len(list)
    BY <1>3
  <2>2. CASE Len(other) < at
    <3>1. at = Len(list) /\ Len(other) = at - 1
      BY <2>1, <2>2, <1>3
    <3> QED BY <1>2, <1>5, <2>1, <2>2, <3>1
  <2>3. CASE ~(Len(other) < at)
    BY <1>2, <2>1, <2>3
  <2> QED BY <2>2, <2>3
<1> QED BY <1>1, <1>8, <1>9, OnlyIs

-----------------------------------------------------------------------------
(* The fields with one key.                                                *)

\* Field i has the key.
Has(list, key, i) == list[i].key = key

\* What one can tell from them: whether there are any, more than one, and the first.
Tells(fields, list, key, n) ==
  /\ Len(fields) \in Nat
  /\ Len(fields) = 0 <=> \A i \in 1..n : ~Has(list, key, i)
  /\ Len(fields) <= 1 <=> \A i, j \in 1..n : Has(list, key, i) /\ Has(list, key, j) => i = j
  /\ \A i \in 1..n : Has(list, key, i) /\ (\A j \in 1..(i - 1) : ~Has(list, key, j)) => fields[1] = list[i]

\* Only({key}) tells how many fields have the key, and the first of them.
LEMMA OnlyTells ==
  ASSUME NEW S, NEW list \in Seq(S), NEW key
  PROVE  /\ Header!Only(list, {key}) \in Seq(S)
         /\ Tells(Header!Only(list, {key}), list, key, Len(list))
<1>1. Len(list) \in Nat /\ \A i \in 1..Len(list) : list[i] \in S
  BY LenProperties, ElementOfSeq
<1>2. PICK f : Selects(f, list, {key}, Len(list))
  BY <1>1, OnlyIs
<1> DEFINE Good(n) == f[n] \in Seq(S) /\ Tells(f[n], list, key, n)
           Bad == {n \in 0..Len(list) : ~Good(n)}
<1>3. Good(0)
  <2>1. f[0] = <<>> /\ <<>> \in Seq(S) /\ Len(<<>>) = 0
    BY <1>2, EmptySeq DEF Selects
  <2> QED BY <2>1 DEF Tells
<1>4. ASSUME NEW n \in 1..Len(list), Good(n - 1) PROVE Good(n)
  <2>1. PICK m \in Nat : m = n - 1 /\ n = m + 1
    BY <1>1
  <2>2. PICK s \in Seq(S) : s = f[m] /\ Tells(s, list, key, m)
    BY <1>4, <2>1
  <2>3. Len(s) \in Nat
    BY LenProperties
  <2>4. CASE Has(list, key, n)
    <3>1. PICK field \in S : field = list[n]
      BY <1>1
    <3>2. f[n] = Append(s, field)
      BY <1>2, <2>1, <2>2, <2>4, <3>1 DEF Selects, Has
    <3>3. /\ Append(s, field) \in Seq(S) /\ Len(Append(s, field)) = Len(s) + 1
          /\ Append(s, field)[Len(s) + 1] = field /\ \A i \in 1..Len(s) : Append(s, field)[i] = s[i]
      BY AppendProperties
    <3>4. PICK t \in Seq(S) : t = f[n] /\ t = Append(s, field)
      BY <3>2, <3>3
    <3>5. Len(t) = Len(s) + 1 /\ t[Len(s) + 1] = list[n] /\ \A i \in 1..Len(s) : t[i] = s[i]
      BY <3>1, <3>3, <3>4
    <3>6. Len(t) # 0 /\ n \in 1..n
      BY <2>3, <3>5, <1>1
    <3>7. Len(t) <= 1 <=> \A i \in 1..m : ~Has(list, key, i)
      BY <2>2, <2>3, <3>5 DEF Tells
    <3>8. (\A i \in 1..m : ~Has(list, key, i)) <=> \A i, j \in 1..n : Has(list, key, i) /\ Has(list, key, j) => i = j
      BY <2>1, <2>4
    <3>9. ASSUME NEW i \in 1..n, Has(list, key, i), \A j \in 1..(i - 1) : ~Has(list, key, j)
          PROVE  t[1] = list[i]
      <4>1. CASE i = n
        <5>1. \A j \in 1..m : ~Has(list, key, j)
          BY <2>1, <3>9, <4>1
        <5>2. Len(s) = 0
          BY <2>2, <5>1 DEF Tells
        <5> QED BY <3>5, <4>1, <5>2
      <4>2. CASE i # n
        <5>1. i \in 1..m
          BY <2>1, <4>2
        <5>2. s[1] = list[i] /\ Len(s) # 0
          BY <2>2, <3>9, <5>1 DEF Tells
        <5>3. 1 \in 1..Len(s)
          BY <2>3, <5>2
        <5> QED BY <3>5, <5>2, <5>3
      <4> QED BY <4>1, <4>2
    <3>10. Tells(t, list, key, n)
      BY <2>3, <2>4, <3>5, <3>6, <3>7, <3>8, <3>9 DEF Tells
    <3> QED BY <3>4, <3>10
  <2>5. CASE ~Has(list, key, n)
    <3>1. f[n] = s
      BY <1>2, <2>1, <2>2, <2>5 DEF Selects, Has
    <3>2. \A i \in 1..n : i \in 1..m \/ i = n
      BY <2>1
    <3>3. \A i \in 1..m : i \in 1..n
      BY <2>1
    <3>4. Tells(s, list, key, n)
      BY <2>2, <2>5, <3>2, <3>3 DEF Tells
    <3> QED BY <3>1, <3>4
  <2> QED BY <2>4, <2>5
<1>5. Bad = {}
  <2> SUFFICES ASSUME Bad # {} PROVE FALSE
    OBVIOUS
  <2>1. PICK n \in Bad : \A k \in Bad : n <= k
    <3>1. Bad \in SUBSET Nat
      BY <1>1
    <3> QED BY <3>1, LeastNumber
  <2>2. n # 0
    BY <1>3, <2>1
  <2>3. n \in 1..Len(list) /\ n - 1 \in 0..Len(list) /\ ~(n <= n - 1)
    BY <1>1, <2>1, <2>2
  <2>4. n - 1 \notin Bad
    BY <2>1, <2>3
  <2>5. Good(n - 1)
    BY <2>3, <2>4
  <2> HIDE DEF Good
  <2> QED BY <1>4, <2>1, <2>3, <2>5
<1>6. Good(Len(list))
  <2>1. Len(list) \in 0..Len(list)
    BY <1>1
  <2> QED BY <1>5, <2>1
<1> QED BY <1>1, <1>2, <1>6, OnlyIs

\* First finds the first field with the key, or says that there is none.
LEMMA FirstIs ==
  ASSUME NEW list, Len(list) \in Nat, NEW key
  PROVE  /\ Header!First(list, key) \in 0..Len(list)
         /\ Header!First(list, key) = 0 <=> \A i \in 1..Len(list) : ~Has(list, key, i)
         /\ Header!First(list, key) # 0 =>
              /\ Has(list, key, Header!First(list, key))
              /\ \A j \in 1..(Header!First(list, key) - 1) : ~Has(list, key, j)
<1> DEFINE I == {i \in 1..Len(list) : list[i].key = key}
<1>1. Header!First(list, key) = IF I # {} THEN CHOOSE x \in I : \A y \in I : x <= y ELSE 0
  BY DEF Header!First, Header!SelectInSeq, Header!Min
<1>2. CASE I = {}
  BY <1>1, <1>2 DEF Has
<1>3. CASE I # {}
  <2>1. PICK k \in I : \A y \in I : k <= y
    <3>1. I \in SUBSET Nat
      OBVIOUS
    <3> QED BY <1>3, <3>1, LeastNumber
  <2>2. \E x \in I : \A y \in I : x <= y
    BY <2>1
  <2> DEFINE first == CHOOSE z \in I : \A y \in I : z <= y
  <2>3. first \in I /\ \A y \in I : first <= y
    BY <2>2
  <2>4. Header!First(list, key) = first
    BY <1>1, <1>3
  <2> HIDE DEF first
  <2>5. first \in 1..Len(list) /\ list[first].key = key
    BY <2>3
  <2>6. ASSUME NEW j \in 1..(first - 1) PROVE ~Has(list, key, j)
    <3>1. j \in 1..Len(list) /\ ~(first <= j)
      BY <2>5
    <3> QED BY <2>3, <3>1 DEF Has
  <2> QED BY <2>4, <2>5, <2>6 DEF Has
<1> QED BY <1>2, <1>3

\* getHeader() returns the value of the first of them.
LEMMA GetHeaderIs ==
  ASSUME NEW S, NEW list \in Seq(S), NEW key
  PROVE  Header!GetHeader(list, key)
           = IF Len(Header!Only(list, {key})) = 0 THEN "" ELSE Header!Only(list, {key})[1].value
<1>1. Len(list) \in Nat
  BY LenProperties
<1> DEFINE first == Header!First(list, key)
<1>2. /\ first \in 0..Len(list)
      /\ first = 0 <=> \A i \in 1..Len(list) : ~Has(list, key, i)
      /\ first # 0 => Has(list, key, first) /\ \A j \in 1..(first - 1) : ~Has(list, key, j)
  BY <1>1, FirstIs
<1>3. Header!GetHeader(list, key) = IF first = 0 THEN "" ELSE list[first].value
  BY DEF Header!GetHeader
<1>4. Tells(Header!Only(list, {key}), list, key, Len(list))
  BY OnlyTells
<1> HIDE DEF first
<1>5. CASE first = 0
  BY <1>2, <1>3, <1>4, <1>5 DEF Tells
<1>6. CASE first # 0
  <2>1. first \in 1..Len(list)
    BY <1>1, <1>2, <1>6
  <2> QED BY <1>2, <1>3, <1>4, <1>6, <2>1 DEF Tells
<1> QED BY <1>5, <1>6

\* setHeader(): the other fields are left alone, and of the fields with the key there is
\* one at least, the first with the value.
LEMMA SetHeaderIs ==
  ASSUME NEW list \in Seq(Header!Fields), NEW key \in Header!Keys, NEW new \in Header!Values(key),
         "Proxy" \in Spellings
  PROVE  /\ Header!SetHeader(list, key, new) \in Seq(Header!Fields)
         /\ Len(Header!SetHeader(list, key, new)) <= Len(list) + 1
         /\ \A other \in Header!Keys : other # key =>
              Header!Only(Header!SetHeader(list, key, new), {other}) = Header!Only(list, {other})
         /\ Header!GetHeader(Header!SetHeader(list, key, new), key) = new
         /\ Header!First(Header!SetHeader(list, key, new), key) # 0
         /\ Header!Count(list, key) <= 1 => Header!Count(Header!SetHeader(list, key, new), key) = 1
<1>1. Len(list) \in Nat /\ \A i \in 1..Len(list) : list[i] \in Header!Fields
  BY LenProperties, ElementOfSeq
<1> DEFINE field == [key |-> key, spelling |-> "Proxy", value |-> new]
           first == Header!First(list, key)
           done == Header!SetHeader(list, key, new)
<1>2. field \in Header!Fields /\ field.key = key /\ field.value = new
  BY DEF Header!Fields
<1>3. /\ first \in 0..Len(list)
      /\ first = 0 <=> \A i \in 1..Len(list) : ~Has(list, key, i)
      /\ first # 0 => Has(list, key, first) /\ \A j \in 1..(first - 1) : ~Has(list, key, j)
  BY <1>1, FirstIs
<1>4. Tells(Header!Only(list, {key}), list, key, Len(list)) /\ Header!Count(list, key) = Len(Header!Only(list, {key}))
  BY OnlyTells DEF Header!Count
<1>5. done = IF first = 0 THEN Append(list, field) ELSE [list EXCEPT ![first].value = new]
  BY DEF Header!SetHeader
<1>6. /\ done \in Seq(Header!Fields) /\ Len(done) <= Len(list) + 1
      /\ \A other \in Header!Keys : other # key => Header!Only(done, {other}) = Header!Only(list, {other})
      /\ \E at \in 1..Len(done) : /\ Has(done, key, at) /\ done[at].value = new
                                  /\ \A j \in 1..(at - 1) : ~Has(done, key, j)
      /\ Header!Count(list, key) <= 1 => \A i, j \in 1..Len(done) : Has(done, key, i) /\ Has(done, key, j) => i = j
  <2>1. CASE first = 0
    <3>1. PICK longer \in Seq(Header!Fields) :
            /\ longer = Append(list, field) /\ Len(longer) = Len(list) + 1 /\ longer[Len(list) + 1] = field
            /\ \A i \in 1..Len(list) : longer[i] = list[i]
      <4>1. PICK item \in Header!Fields : item = field
        BY <1>2
      <4>2. /\ Append(list, item) \in Seq(Header!Fields) /\ Len(Append(list, item)) = Len(list) + 1
            /\ Append(list, item)[Len(list) + 1] = item
            /\ \A i \in 1..Len(list) : Append(list, item)[i] = list[i]
        BY AppendProperties
      <4> HIDE DEF field
      <4> QED BY <4>1, <4>2
    <3>2. done = longer
      BY <1>5, <2>1, <3>1
    <3> HIDE DEF field, first, done
    <3>3. \A other \in Header!Keys : other # key => Header!Only(done, {other}) = Header!Only(list, {other})
      BY <1>2, <3>1, <3>2, OnlyAppend
    <3>4. \A i \in 1..Len(list) : ~Has(done, key, i)
      BY <1>3, <2>1, <3>1, <3>2 DEF Has
    <3>5. Len(done) = Len(list) + 1 /\ Has(done, key, Len(list) + 1) /\ done[Len(list) + 1].value = new
      BY <1>2, <3>1, <3>2 DEF Has
    <3>6. \A i \in 1..Len(done) : Has(done, key, i) => i = Len(list) + 1
      BY <1>1, <3>4, <3>5
    <3>7. Len(list) + 1 \in 1..Len(done) /\ (Len(list) + 1) - 1 = Len(list)
      BY <1>1, <3>5
    <3> QED BY <1>1, <3>1, <3>2, <3>3, <3>4, <3>5, <3>6, <3>7
  <2>2. CASE first # 0
    <3>1. PICK at \in 1..Len(list) : at = first
      BY <1>1, <1>3, <2>2
    <3>2. done = [list EXCEPT ![at] = [list[at] EXCEPT !.value = new]]
      BY <1>5, <2>2, <3>1
    <3>3. Has(list, key, at) /\ \A j \in 1..(at - 1) : ~Has(list, key, j)
      BY <1>3, <2>2, <3>1
    <3> HIDE DEF field, first, done
    <3>4. list[at] \in [key : {key}, spelling : Spellings, value : Header!Values(key)]
      BY <1>1, <3>1, <3>3 DEF Has, Header!Fields
    <3>5. PICK changed \in Header!Fields : /\ changed = [list[at] EXCEPT !.value = new]
                                           /\ changed.key = key /\ changed.value = new
      <4>1. PICK old \in [key : {key}, spelling : Spellings, value : Header!Values(key)] : old = list[at]
        BY <3>4
      <4>2. /\ [old EXCEPT !.value = new] \in [key : {key}, spelling : Spellings, value : Header!Values(key)]
            /\ [old EXCEPT !.value = new].key = key /\ [old EXCEPT !.value = new].value = new
        OBVIOUS
      <4>3. [key : {key}, spelling : Spellings, value : Header!Values(key)] \subseteq Header!Fields
        BY DEF Header!Fields
      <4> QED BY <4>1, <4>2, <4>3
    <3>6. done \in Seq(Header!Fields) /\ Len(done) = Len(list)
      BY <3>1, <3>2, <3>5, ExceptSeq
    <3>7. done[at] = changed /\ \A i \in 1..Len(list) : i # at => done[i] = list[i]
      BY <1>1, <3>1, <3>2, <3>5
    <3>8. \A i \in 1..Len(list) : Has(done, key, i) <=> Has(list, key, i)
      BY <3>3, <3>5, <3>7 DEF Has
    <3>9. ASSUME NEW other \in Header!Keys, other # key PROVE Header!Only(done, {other}) = Header!Only(list, {other})
      <4>1. \A i \in 1..Len(list) : done[i] = list[i] \/ (done[i].key \notin {other} /\ list[i].key \notin {other})
        BY <3>3, <3>5, <3>7, <3>9 DEF Has
      <4> QED BY <1>1, <3>6, <4>1, OnlyElsewhere
    <3>10. \A j \in 1..(at - 1) : ~Has(done, key, j)
      BY <1>1, <3>1, <3>3, <3>8
    <3>11. Header!Count(list, key) <= 1 => \A i, j \in 1..Len(done) : Has(done, key, i) /\ Has(done, key, j) => i = j
      BY <1>4, <3>6, <3>8 DEF Tells
    <3>12. Has(done, key, at) /\ done[at].value = new /\ at \in 1..Len(done)
      BY <3>5, <3>6, <3>7, <3>1 DEF Has
    <3> QED BY <1>1, <3>6, <3>9, <3>10, <3>11, <3>12
  <2> QED BY <2>1, <2>2
<1>7. PICK at \in 1..Len(done) : /\ Has(done, key, at) /\ done[at].value = new
                                 /\ \A j \in 1..(at - 1) : ~Has(done, key, j)
  BY <1>6
<1> HIDE DEF field, first, done
<1>8. Tells(Header!Only(done, {key}), done, key, Len(done)) /\ Header!Count(done, key) = Len(Header!Only(done, {key}))
  BY <1>6, OnlyTells DEF Header!Count
<1>9. Header!GetHeader(done, key) = new
  <2>1. Header!Only(done, {key})[1] = done[at] /\ Len(Header!Only(done, {key})) # 0
    BY <1>7, <1>8 DEF Tells
  <2> QED BY <1>6, <1>7, <2>1, GetHeaderIs
<1>10. Header!First(done, key) # 0
  <2>1. Len(done) \in Nat
    BY <1>6, LenProperties
  <2> QED BY <1>7, <2>1, FirstIs
<1>11. Header!Count(list, key) <= 1 => Header!Count(done, key) = 1
  <2> SUFFICES ASSUME Header!Count(list, key) <= 1 PROVE Header!Count(done, key) = 1
    OBVIOUS
  <2>1. PICK n \in Nat : n = Len(Header!Only(done, {key}))
    BY <1>8 DEF Tells
  <2>2. n <= 1
    BY <1>6, <1>8, <2>1 DEF Tells
  <2>3. n # 0
    BY <1>7, <1>8, <2>1 DEF Tells
  <2>4. n = 1
    BY <2>2, <2>3
  <2> QED BY <1>8, <2>1, <2>4
<1> QED BY <1>6, <1>9, <1>10, <1>11 DEF done

\* removeHeader(): the other fields are left alone, and a field that is there once is gone.
LEMMA RemoveHeaderIs ==
  ASSUME NEW list \in Seq(Header!Fields), NEW key \in Header!Keys
  PROVE  /\ Header!RemoveHeader(list, key) \in Seq(Header!Fields)
         /\ Len(Header!RemoveHeader(list, key)) <= Len(list)
         /\ \A other \in Header!Keys : other # key =>
              Header!Only(Header!RemoveHeader(list, key), {other}) = Header!Only(list, {other})
         /\ Header!Count(list, key) <= 1 => Header!Count(Header!RemoveHeader(list, key), key) = 0
<1>1. Len(list) \in Nat /\ \A i \in 1..Len(list) : list[i] \in Header!Fields
  BY LenProperties, ElementOfSeq
<1> DEFINE first == Header!First(list, key)
           done == Header!RemoveHeader(list, key)
<1>2. /\ first \in 0..Len(list)
      /\ first = 0 <=> \A i \in 1..Len(list) : ~Has(list, key, i)
      /\ first # 0 => Has(list, key, first) /\ \A j \in 1..(first - 1) : ~Has(list, key, j)
  BY <1>1, FirstIs
<1>3. Tells(Header!Only(list, {key}), list, key, Len(list)) /\ Header!Count(list, key) = Len(Header!Only(list, {key}))
  BY OnlyTells DEF Header!Count
<1>4. done = IF \E i \in 1..Len(list) : Has(list, key, i)
             THEN SubSeq(list, 1, first - 1) \o SubSeq(list, first + 1, Len(list)) ELSE list
  BY DEF Header!RemoveHeader, Header!RemoveFirstMatch, Header!RemoveAt, Header!First, Has
<1> HIDE DEF first, done
<1>5. CASE first = 0
  <2>1. done = list
    BY <1>2, <1>4, <1>5
  <2> QED BY <1>1, <1>2, <1>3, <1>5, <2>1 DEF Tells, done
<1>6. CASE first # 0
  <2>1. PICK at \in 1..Len(list) : at = first
    BY <1>1, <1>2, <1>6
  <2>2. done = SubSeq(list, 1, at - 1) \o SubSeq(list, at + 1, Len(list))
    BY <1>2, <1>4, <1>6, <2>1
  <2>3. /\ done \in Seq(Header!Fields) /\ Len(done) = Len(list) - 1
        /\ \A i \in 1..(at - 1) : done[i] = list[i]
        /\ \A i \in at..(Len(list) - 1) : done[i] = list[i + 1]
    BY <2>2, Without
  <2>4. Has(list, key, at) /\ \A j \in 1..(at - 1) : ~Has(list, key, j)
    BY <1>2, <1>6, <2>1
  <2>5. ASSUME NEW other \in Header!Keys, other # key PROVE Header!Only(done, {other}) = Header!Only(list, {other})
    <3>1. list[at].key \notin {other}
      BY <2>4, <2>5 DEF Has
    <3> QED BY <1>1, <2>1, <2>3, <3>1, OnlyWithout
  <2>6. ASSUME Header!Count(list, key) <= 1 PROVE Header!Count(done, key) = 0
    <3>1. \A i \in 1..Len(list) : Has(list, key, i) => i = at
      BY <1>3, <2>1, <2>4, <2>6 DEF Tells
    <3>2. ASSUME NEW i \in 1..Len(done) PROVE ~Has(done, key, i)
      <4>1. CASE i < at
        <5>1. i \in 1..(at - 1) /\ i \in 1..Len(list) /\ i # at
          BY <1>1, <2>1, <2>3, <4>1
        <5> QED BY <2>3, <2>4, <5>1 DEF Has
      <4>2. CASE ~(i < at)
        <5>1. i \in at..(Len(list) - 1) /\ i + 1 \in 1..Len(list) /\ i + 1 # at
          BY <1>1, <2>1, <2>3, <4>2
        <5> QED BY <2>3, <3>1, <5>1 DEF Has
      <4> QED BY <4>1, <4>2
    <3>3. Tells(Header!Only(done, {key}), done, key, Len(done)) /\ Header!Count(done, key) = Len(Header!Only(done, {key}))
      BY <2>3, OnlyTells DEF Header!Count
    <3> QED BY <3>2, <3>3 DEF Tells
  <2> QED BY <1>1, <2>3, <2>5, <2>6 DEF done
<1> QED BY <1>5, <1>6

\* A header that has the value already stays as it is.
LEMMA SetAgain ==
  ASSUME NEW list \in Seq(Header!Fields), NEW key \in Header!Keys, NEW new,
         Header!First(list, key) # 0, Header!GetHeader(list, key) = new
  PROVE  Header!SetHeader(list, key, new) = list
<1>1. Len(list) \in Nat /\ \A i \in 1..Len(list) : list[i] \in Header!Fields
  BY LenProperties, ElementOfSeq
<1>2. PICK at \in 1..Len(list) : at = Header!First(list, key) /\ list[at].value = new
  BY <1>1, FirstIs DEF Header!GetHeader
<1>3. Header!SetHeader(list, key, new) = [list EXCEPT ![at] = [list[at] EXCEPT !.value = new]]
  BY <1>2 DEF Header!SetHeader
<1>4. [list[at] EXCEPT !.value = new] = list[at]
  <2>1. PICK k \in Header!Keys : list[at] \in [key : {k}, spelling : Spellings, value : Header!Values(k)]
    BY <1>1 DEF Header!Fields
  <2> QED BY <1>2, <2>1
<1> QED BY <1>3, <1>4

-----------------------------------------------------------------------------
(* What every header keeps.                                                *)

\* What is left of the client's fields while they are collected, and in the message.
Collected ==
  stage \in {"lines", "message"} =>
    /\ sent = <<>>
    /\ \A key \in Header!Keys : Header!Only(items, {key}) = Header!Only(arrived, {key})

\* A request as it is sent, the first time and again.
Asked ==
  kind = "request" /\ stage = "ready" =>
    /\ Header!Only(items, {"other"}) = Header!Only(arrived, {"other"})
    /\ Header!GetHeader(items, "connection") = "close"
    /\ Header!Count(arrived, "connection") <= 1 => Header!Count(items, "connection") = 1
    /\ sent = <<>> /\ Header!Count(arrived, "proxy-connection") <= 1 => Header!Count(items, "proxy-connection") = 0
    /\ sent # <<>> =>
         /\ Header!Count(arrived, "proxy-connection") <= 1 =>
              Header!Count(items, "proxy-connection") = IF keepProxy THEN 1 ELSE 0
         /\ keepProxy => /\ Header!First(items, "proxy-connection") # 0
                         /\ Header!GetHeader(items, "proxy-connection") = "close"

\* An answer as it is sent.
Answered ==
  kind = "answer" /\ stage = "ready" =>
    /\ Header!Only(items, {"other"}) = Header!Only(arrived, {"other"})
    /\ Header!Count(arrived, "transfer-encoding") <= 1 =>
         Header!Only(items, {"transfer-encoding"})
           = IF chunked THEN <<>> ELSE Header!Only(arrived, {"transfer-encoding"})

\* What was sent is the list.
SentAlike == \A n \in 1..Len(sent) : sent[n] = items

\* The two fields that may be added.
Lengths ==
  /\ stage \in {"lines", "message"} => Len(items) <= Len(arrived)
  /\ sent = <<>> => Len(items) <= Len(arrived) + 1

\* The parts, whichever of the two messages it is.
HeaderInv == Header!TypeOK /\ Lengths /\ Collected /\ Asked /\ Answered /\ SentAlike

\* No line has been received yet.
LEMMA InitHeader == Header!Init => HeaderInv
<1> SUFFICES ASSUME Header!Init PROVE HeaderInv
  OBVIOUS
<1>1. /\ kind \in {"request", "answer"} /\ keepProxy \in BOOLEAN /\ stage = "lines"
      /\ arrived = <<>> /\ items = <<>> /\ chunked = FALSE /\ sent = <<>>
  BY DEF Header!Init
<1>2. /\ <<>> \in Seq(Header!Lines) /\ <<>> \in Seq(Header!Fields) /\ <<>> \in Seq(Seq(Header!Fields)) /\ Len(<<>>) = 0
  BY EmptySeq
<1>3. Header!TypeOK
  <2>1. arrived \in Seq(Header!Lines) /\ items \in Seq(Header!Fields) /\ sent \in Seq(Seq(Header!Fields))
    BY <1>1, <1>2
  <2>2. Len(arrived) = 0 /\ Len(items) = 0 /\ Len(sent) = 0
    BY <1>1, <1>2
  <2>3. Len(arrived) <= LineLimit /\ Len(items) <= Len(arrived) + 2 /\ Len(sent) <= 2
    BY <2>2, LinesAssumption
  <2> QED BY <1>1, <2>1, <2>3 DEF Header!TypeOK
<1>4. Lengths /\ Collected /\ Asked /\ Answered /\ SentAlike
  BY <1>1, <1>2 DEF Lengths, Collected, Asked, Answered, SentAlike
<1> QED BY <1>3, <1>4 DEF HeaderInv

\* What is known of the list where it is changed.
LEMMA HeaderTypes ==
  ASSUME HeaderInv
  PROVE  /\ kind \in {"request", "answer"} /\ keepProxy \in BOOLEAN /\ stage \in {"lines", "message", "ready"}
         /\ arrived \in Seq(Header!Lines) /\ Len(arrived) <= LineLimit /\ Len(arrived) \in Nat
         /\ items \in Seq(Header!Fields) /\ Len(items) <= Len(arrived) + 2 /\ Len(items) \in Nat
         /\ chunked \in BOOLEAN
         /\ sent \in Seq(Seq(Header!Fields)) /\ Len(sent) <= 2 /\ Len(sent) \in Nat
         /\ {"connection", "proxy-connection", "transfer-encoding", "other"} \subseteq Header!Keys
BY LenProperties DEF HeaderInv, Header!TypeOK, Header!Keys

\* A line of the header: a field more, or one that is left out.
LEMMA ReceiveLineKeeps ==
  ASSUME HeaderInv, Header!ReceiveLine
  PROVE  HeaderInv'
<1>1. PICK line \in Header!Lines : arrived' = Append(arrived, line) /\ items' = Header!ParseHeader(items, line)
  BY DEF Header!ReceiveLine
<1>2. stage = "lines" /\ Len(arrived) < LineLimit /\ UNCHANGED <<kind, keepProxy, stage, chunked, sent>>
  BY DEF Header!ReceiveLine
<1>3. sent = <<>> /\ Len(items) <= Len(arrived) /\ \A key \in Header!Keys : Header!Only(items, {key}) = Header!Only(arrived, {key})
  BY <1>2 DEF HeaderInv, Collected, Lengths
<1>4. PICK a \in Seq(Header!Lines), b \in Seq(Header!Fields) : a = arrived /\ b = items /\ Len(a) \in Nat /\ Len(b) \in Nat
  BY HeaderTypes
<1>5. Append(a, line) \in Seq(Header!Lines) /\ Len(Append(a, line)) = Len(a) + 1
  BY AppendProperties
<1>6. \A key \in Header!Keys :
        Header!Only(Append(a, line), {key}) = IF line.key \in {key} THEN Append(Header!Only(a, {key}), line) ELSE Header!Only(a, {key})
  BY OnlyAppend
<1>7. /\ items' \in Seq(Header!Fields) /\ Len(items') <= Len(b) + 1
      /\ \A key \in Header!Keys : Header!Only(items', {key}) = Header!Only(arrived', {key})
  <2>1. CASE line = Header!NoColon
    <3>1. \A key \in Header!Keys : line.key \notin {key}
      BY <2>1 DEF Header!NoColon, Header!Keys
    <3>2. items' = b
      BY <1>1, <1>4, <2>1 DEF Header!ParseHeader
    <3> QED BY <1>1, <1>3, <1>4, <1>6, <3>1, <3>2
  <2>2. CASE line # Header!NoColon
    <3>1. PICK field \in Header!Fields : field = line
      BY <2>2 DEF Header!Lines
    <3>2. items' = Append(b, field)
      BY <1>1, <1>4, <2>2, <3>1 DEF Header!ParseHeader
    <3>3. Append(b, field) \in Seq(Header!Fields) /\ Len(Append(b, field)) = Len(b) + 1
      BY AppendProperties
    <3>4. \A key \in Header!Keys :
            Header!Only(Append(b, field), {key})
              = IF field.key \in {key} THEN Append(Header!Only(b, {key}), field) ELSE Header!Only(b, {key})
      BY OnlyAppend
    <3>5. ASSUME NEW key \in Header!Keys PROVE Header!Only(items', {key}) = Header!Only(arrived', {key})
      <4>1. Header!Only(b, {key}) = Header!Only(a, {key})
        BY <1>3, <1>4
      <4>2. items' = Append(b, field) /\ arrived' = Append(a, field) /\ line = field
        BY <1>1, <1>4, <3>1, <3>2
      <4> QED BY <1>6, <3>4, <4>1, <4>2
    <3>6. items' \in Seq(Header!Fields) /\ Len(items') <= Len(b) + 1
      BY <1>4, <3>2, <3>3
    <3> QED BY <3>5, <3>6
  <2> QED BY <2>1, <2>2
<1>8. Len(items') <= Len(arrived') /\ Len(arrived') <= LineLimit /\ Len(arrived') = Len(a) + 1 /\ arrived' \in Seq(Header!Lines)
  BY <1>1, <1>2, <1>3, <1>4, <1>5, <1>7, LinesAssumption
<1>9. Len(items') \in Nat
  BY <1>7, LenProperties
<1>10. Header!TypeOK' /\ Lengths'
  BY <1>2, <1>3, <1>4, <1>7, <1>8, <1>9, HeaderTypes DEF Header!TypeOK, Lengths
<1>11. Collected' /\ Asked' /\ Answered'
  BY <1>2, <1>3, <1>7 DEF Collected, Asked, Answered
<1>12. SentAlike'
  BY <1>2, <1>3 DEF SentAlike
<1> QED BY <1>10, <1>11, <1>12 DEF HeaderInv

\* The empty line ends the header and changes no field.
LEMMA EndOfLinesKeeps ==
  ASSUME HeaderInv, Header!EndOfLines
  PROVE  HeaderInv'
BY DEF HeaderInv, Header!EndOfLines, Header!TypeOK, Lengths, Collected, Asked, Answered, SentAlike

\* parseRequest() sets one field and removes another.
LEMMA ParseRequestKeeps ==
  ASSUME HeaderInv, Header!ParseRequest
  PROVE  HeaderInv'
<1>1. /\ kind = "request" /\ stage = "message" /\ stage' = "ready"
      /\ items' = Header!RemoveHeader(Header!SetHeader(items, "connection", "close"), "proxy-connection")
      /\ UNCHANGED <<kind, keepProxy, arrived, chunked, sent>>
  BY DEF Header!ParseRequest
<1>2. sent = <<>> /\ Len(items) <= Len(arrived) /\ \A key \in Header!Keys : Header!Only(items, {key}) = Header!Only(arrived, {key})
  BY <1>1 DEF HeaderInv, Collected, Lengths
<1>3. "close" \in Header!Values("connection") /\ {"connection", "proxy-connection", "transfer-encoding", "other"} \subseteq Header!Keys
  BY HeaderTypes DEF Header!Values
<1>4. PICK b \in Seq(Header!Fields) : b = items /\ Len(b) \in Nat
  BY HeaderTypes
<1>5. PICK set \in Seq(Header!Fields) :
        /\ set = Header!SetHeader(b, "connection", "close") /\ Len(set) <= Len(b) + 1
        /\ \A other \in Header!Keys : other # "connection" => Header!Only(set, {other}) = Header!Only(b, {other})
        /\ Header!GetHeader(set, "connection") = "close"
        /\ Header!Count(b, "connection") <= 1 => Header!Count(set, "connection") = 1
  BY <1>3, LinesAssumption, SetHeaderIs
<1>6. PICK done \in Seq(Header!Fields) :
        /\ done = Header!RemoveHeader(set, "proxy-connection") /\ Len(done) <= Len(set)
        /\ \A other \in Header!Keys : other # "proxy-connection" => Header!Only(done, {other}) = Header!Only(set, {other})
        /\ Header!Count(set, "proxy-connection") <= 1 => Header!Count(done, "proxy-connection") = 0
  BY <1>3, RemoveHeaderIs
<1>7. items' = done
  BY <1>1, <1>4, <1>5, <1>6
<1>8. Len(set) \in Nat /\ Len(done) \in Nat
  BY LenProperties
<1>9. Header!TypeOK' /\ Lengths'
  BY <1>1, <1>2, <1>4, <1>5, <1>6, <1>7, <1>8, HeaderTypes DEF Header!TypeOK, Lengths
<1>10. Collected' /\ Answered' /\ SentAlike'
  BY <1>1, <1>2 DEF Collected, Answered, SentAlike
<1>11. Asked'
  <2>1. Header!Only(done, {"other"}) = Header!Only(arrived, {"other"})
    BY <1>2, <1>3, <1>4, <1>5, <1>6
  <2>2. Header!GetHeader(done, "connection") = "close"
    <3>1. Header!Only(done, {"connection"}) = Header!Only(set, {"connection"})
      BY <1>3, <1>6
    <3>2. Header!GetHeader(done, "connection") = Header!GetHeader(set, "connection")
      BY <3>1, GetHeaderIs
    <3> QED BY <1>5, <3>2
  <2>3. Header!Count(done, "connection") = Header!Count(set, "connection")
    BY <1>3, <1>6 DEF Header!Count
  <2>4. Header!Count(b, "connection") = Header!Count(arrived, "connection")
    BY <1>2, <1>3, <1>4 DEF Header!Count
  <2>5. Header!Count(set, "proxy-connection") = Header!Count(arrived, "proxy-connection")
    BY <1>2, <1>3, <1>4, <1>5 DEF Header!Count
  <2>6. /\ Header!Count(arrived, "connection") <= 1 => Header!Count(done, "connection") = 1
        /\ Header!Count(arrived, "proxy-connection") <= 1 => Header!Count(done, "proxy-connection") = 0
    BY <1>5, <1>6, <2>3, <2>4, <2>5
  <2>7. UNCHANGED <<arrived, sent, keepProxy>> /\ sent = <<>>
    BY <1>1, <1>2
  <2> QED BY <1>7, <2>1, <2>2, <2>6, <2>7 DEF Asked
<1> QED BY <1>9, <1>10, <1>11 DEF HeaderInv

\* sendRequest() may set one field, to the value it has when the request is sent again.
LEMMA SendRequestKeeps ==
  ASSUME HeaderInv, Header!SendRequest
  PROVE  HeaderInv'
<1>1. /\ kind = "request" /\ stage = "ready" /\ Len(sent) < 2
      /\ items' = IF keepProxy THEN Header!SetHeader(items, "proxy-connection", "close") ELSE items
      /\ sent' = Append(sent, items')
      /\ UNCHANGED <<kind, keepProxy, stage, arrived, chunked>>
  BY DEF Header!SendRequest
<1>2. /\ Header!Only(items, {"other"}) = Header!Only(arrived, {"other"})
      /\ Header!GetHeader(items, "connection") = "close"
      /\ Header!Count(arrived, "connection") <= 1 => Header!Count(items, "connection") = 1
      /\ sent = <<>> /\ Header!Count(arrived, "proxy-connection") <= 1 => Header!Count(items, "proxy-connection") = 0
      /\ sent # <<>> =>
           /\ Header!Count(arrived, "proxy-connection") <= 1 =>
                Header!Count(items, "proxy-connection") = IF keepProxy THEN 1 ELSE 0
           /\ keepProxy => /\ Header!First(items, "proxy-connection") # 0
                           /\ Header!GetHeader(items, "proxy-connection") = "close"
  BY <1>1 DEF HeaderInv, Asked
<1>3. /\ "close" \in Header!Values("proxy-connection")
      /\ {"connection", "proxy-connection", "transfer-encoding", "other"} \subseteq Header!Keys
  BY HeaderTypes DEF Header!Values
<1>4. PICK b \in Seq(Header!Fields) : b = items /\ Len(b) \in Nat
  BY HeaderTypes
<1>5. PICK set \in Seq(Header!Fields) :
        /\ set = Header!SetHeader(b, "proxy-connection", "close") /\ Len(set) <= Len(b) + 1
        /\ \A other \in Header!Keys : other # "proxy-connection" => Header!Only(set, {other}) = Header!Only(b, {other})
        /\ Header!GetHeader(set, "proxy-connection") = "close" /\ Header!First(set, "proxy-connection") # 0
        /\ Header!Count(b, "proxy-connection") <= 1 => Header!Count(set, "proxy-connection") = 1
  BY <1>3, LinesAssumption, SetHeaderIs
<1>6. items' = IF keepProxy THEN set ELSE b
  BY <1>1, <1>4, <1>5
<1>7. sent # <<>> => items' = items
  <2>1. ASSUME sent # <<>>, keepProxy PROVE set = b
    BY <1>2, <1>3, <1>4, <1>5, <2>1, SetAgain
  <2> QED BY <1>4, <1>6, <2>1
<1>8. /\ Header!Only(items', {"other"}) = Header!Only(b, {"other"})
      /\ Header!Only(items', {"connection"}) = Header!Only(b, {"connection"})
  BY <1>3, <1>5, <1>6
<1>9. PICK c \in Seq(Header!Fields) : c = items' /\ Len(c) \in Nat /\ Len(c) <= Len(b) + 1
  <2>1. Len(set) \in Nat
    BY LenProperties
  <2>2. CASE keepProxy
    BY <1>5, <1>6, <2>1, <2>2
  <2>3. CASE ~keepProxy
    BY <1>4, <1>6, <2>3
  <2> QED BY <2>2, <2>3
<1>10. /\ Header!GetHeader(c, "connection") = Header!GetHeader(b, "connection")
       /\ Header!Count(c, "connection") = Header!Count(b, "connection")
  BY <1>8, <1>9, GetHeaderIs DEF Header!Count
<1>11. PICK old \in Seq(Seq(Header!Fields)) : old = sent /\ Len(old) \in Nat /\ Len(old) < 2
  BY <1>1, HeaderTypes
<1>12. /\ Append(old, c) \in Seq(Seq(Header!Fields)) /\ Len(Append(old, c)) = Len(old) + 1 /\ Append(old, c) # <<>>
       /\ Append(old, c)[Len(old) + 1] = c /\ \A n \in 1..Len(old) : Append(old, c)[n] = old[n]
  <2>1. /\ Append(old, c) \in Seq(Seq(Header!Fields)) /\ Len(Append(old, c)) = Len(old) + 1
        /\ Append(old, c)[Len(old) + 1] = c /\ \A n \in 1..Len(old) : Append(old, c)[n] = old[n]
    BY AppendProperties
  <2>2. Append(old, c) # <<>>
    BY <1>11, <2>1, EmptySeq
  <2> QED BY <2>1, <2>2
<1>13. sent' = Append(old, c)
  BY <1>1, <1>9, <1>11
<1>14. SentAlike'
  <2>1. ASSUME NEW n \in 1..(Len(old) + 1) PROVE Append(old, c)[n] = c
    <3>1. CASE n = Len(old) + 1
      BY <1>12, <3>1
    <3>2. CASE n # Len(old) + 1
      <4>1. n \in 1..Len(old) /\ Len(old) # 0
        BY <1>11, <3>2
      <4>2. sent # <<>> /\ sent[n] = items
        <5>1. old # <<>>
          BY <4>1, EmptySeq
        <5> QED BY <1>11, <4>1, <5>1 DEF HeaderInv, SentAlike
      <4> QED BY <1>7, <1>9, <1>11, <1>12, <4>1, <4>2
    <3> QED BY <3>1, <3>2
  <2> QED BY <1>9, <1>12, <1>13, <2>1 DEF SentAlike
<1>15. Header!TypeOK' /\ Lengths'
  <2>1. Len(items) <= Len(arrived) + 2 /\ (sent = <<>> => Len(items) <= Len(arrived) + 1) /\ Len(arrived) \in Nat
    BY HeaderTypes DEF HeaderInv, Lengths
  <2>2. Len(c) <= Len(arrived) + 2
    BY <1>4, <1>7, <1>9, <2>1
  <2>3. sent' \in Seq(Seq(Header!Fields)) /\ Len(sent') <= 2 /\ sent' # <<>>
    BY <1>11, <1>12, <1>13
  <2>4. Lengths'
    BY <1>1, <2>3 DEF Lengths
  <2>5. Header!TypeOK'
    BY <1>1, <1>9, <2>2, <2>3, HeaderTypes DEF Header!TypeOK
  <2> QED BY <2>4, <2>5
<1>16. Collected' /\ Answered'
  BY <1>1 DEF Collected, Answered
<1>17. Asked'
  <2>1. sent' # <<>> /\ UNCHANGED <<arrived, keepProxy, kind, stage>>
    BY <1>1, <1>12, <1>13
  <2>2. /\ Header!Only(c, {"other"}) = Header!Only(arrived, {"other"}) /\ Header!GetHeader(c, "connection") = "close"
        /\ Header!Count(arrived, "connection") <= 1 => Header!Count(c, "connection") = 1
    BY <1>2, <1>4, <1>8, <1>9, <1>10
  <2>3. ASSUME Header!Count(arrived, "proxy-connection") <= 1
        PROVE  Header!Count(c, "proxy-connection") = IF keepProxy THEN 1 ELSE 0
    <3>1. CASE sent # <<>>
      BY <1>2, <1>7, <1>9, <2>3, <3>1
    <3>2. CASE sent = <<>>
      <4>1. Header!Count(b, "proxy-connection") = 0
        BY <1>2, <1>4, <2>3, <3>2
      <4> QED BY <1>5, <1>6, <1>9, <4>1
    <3> QED BY <3>1, <3>2
  <2>4. keepProxy => Header!First(c, "proxy-connection") # 0 /\ Header!GetHeader(c, "proxy-connection") = "close"
    BY <1>5, <1>6, <1>9
  <2> QED BY <1>9, <2>1, <2>2, <2>3, <2>4 DEF Asked
<1> QED BY <1>14, <1>15, <1>16, <1>17 DEF HeaderInv

\* parseResponse() removes the coding if it is one it can undo.
LEMMA ParseResponseKeeps ==
  ASSUME HeaderInv, Header!ParseResponse
  PROVE  HeaderInv'
<1>1. /\ kind = "answer" /\ stage = "message" /\ stage' = "ready"
      /\ chunked' = (Header!GetHeader(items, "transfer-encoding") = "chunked")
      /\ items' = IF chunked' THEN Header!RemoveHeader(items, "transfer-encoding") ELSE items
      /\ UNCHANGED <<kind, keepProxy, arrived, sent>>
  BY DEF Header!ParseResponse
<1>2. sent = <<>> /\ Len(items) <= Len(arrived) /\ \A key \in Header!Keys : Header!Only(items, {key}) = Header!Only(arrived, {key})
  BY <1>1 DEF HeaderInv, Collected, Lengths
<1>3. {"connection", "proxy-connection", "transfer-encoding", "other"} \subseteq Header!Keys
  BY HeaderTypes
<1>4. PICK b \in Seq(Header!Fields) : b = items /\ Len(b) \in Nat
  BY HeaderTypes
<1>5. PICK done \in Seq(Header!Fields) :
        /\ done = Header!RemoveHeader(b, "transfer-encoding") /\ Len(done) <= Len(b)
        /\ \A other \in Header!Keys : other # "transfer-encoding" => Header!Only(done, {other}) = Header!Only(b, {other})
        /\ Header!Count(b, "transfer-encoding") <= 1 => Header!Count(done, "transfer-encoding") = 0
  BY <1>3, RemoveHeaderIs
<1>6. items' = IF chunked' THEN done ELSE b
  BY <1>1, <1>4, <1>5
<1>7. chunked' \in BOOLEAN
  BY <1>1
<1>8. PICK c \in Seq(Header!Fields) : c = items' /\ Len(c) \in Nat /\ Len(c) <= Len(b)
  <2>1. Len(done) \in Nat
    BY LenProperties
  <2>2. CASE chunked'
    BY <1>5, <1>6, <2>1, <2>2
  <2>3. CASE ~chunked'
    BY <1>4, <1>6, <2>3
  <2> QED BY <2>2, <2>3
<1>9. Header!TypeOK' /\ Lengths'
  BY <1>1, <1>2, <1>4, <1>7, <1>8, HeaderTypes DEF Header!TypeOK, Lengths
<1>10. Collected' /\ Asked' /\ SentAlike'
  BY <1>1, <1>2 DEF Collected, Asked, SentAlike
<1>11. Answered'
  <2>1. Header!Only(c, {"other"}) = Header!Only(arrived, {"other"})
    BY <1>2, <1>3, <1>4, <1>5, <1>6, <1>8
  <2>2. Header!Only(b, {"transfer-encoding"}) = Header!Only(arrived, {"transfer-encoding"})
    BY <1>2, <1>3, <1>4
  <2>3. ASSUME Header!Count(arrived, "transfer-encoding") <= 1, chunked'
        PROVE  Header!Only(c, {"transfer-encoding"}) = <<>>
    <3>1. Header!Count(done, "transfer-encoding") = 0 /\ c = done
      BY <1>5, <1>6, <1>8, <2>2, <2>3 DEF Header!Count
    <3>2. PICK fields \in Seq(Header!Fields) : fields = Header!Only(c, {"transfer-encoding"})
      BY OnlyTells
    <3>3. Len(fields) = 0
      BY <3>1, <3>2 DEF Header!Count
    <3> QED BY <3>2, <3>3, EmptySeq
  <2>4. ~chunked' => Header!Only(c, {"transfer-encoding"}) = Header!Only(arrived, {"transfer-encoding"})
    BY <1>6, <1>8, <2>2
  <2>5. arrived' = arrived /\ items' = c
    BY <1>1, <1>8
  <2> QED BY <2>1, <2>3, <2>4, <2>5 DEF Answered
<1> QED BY <1>9, <1>10, <1>11 DEF HeaderInv

\* sendResponse() sends the list as it is.
LEMMA SendResponseKeeps ==
  ASSUME HeaderInv, Header!SendResponse
  PROVE  HeaderInv'
<1>1. /\ kind = "answer" /\ stage = "ready" /\ sent = <<>> /\ sent' = <<items>>
      /\ UNCHANGED <<kind, keepProxy, stage, arrived, items, chunked>>
  BY DEF Header!SendResponse
<1>2. PICK b \in Seq(Header!Fields) : b = items
  BY HeaderTypes
<1>3. <<b>> \in Seq(Seq(Header!Fields)) /\ Len(<<b>>) = 1 /\ <<b>>[1] = b /\ <<b>> # <<>>
  OBVIOUS
<1>4. Header!TypeOK'
  BY <1>1, <1>2, <1>3, HeaderTypes DEF Header!TypeOK
<1>5. SentAlike'
  BY <1>1, <1>2, <1>3 DEF SentAlike
<1>6. Lengths' /\ Collected' /\ Asked' /\ Answered'
  BY <1>1, <1>2, <1>3 DEF HeaderInv, Lengths, Collected, Asked, Answered
<1> QED BY <1>4, <1>5, <1>6 DEF HeaderInv

\* Each step of a request or an answer keeps the invariant.
LEMMA NextHeader == HeaderInv /\ [Header!Next]_(Header!vars) => HeaderInv'
<1> SUFFICES ASSUME HeaderInv, [Header!Next]_(Header!vars) PROVE HeaderInv'
  OBVIOUS
<1>1. CASE Header!ReceiveLine
  BY <1>1, ReceiveLineKeeps
<1>2. CASE Header!EndOfLines
  BY <1>2, EndOfLinesKeeps
<1>3. CASE Header!ParseRequest
  BY <1>3, ParseRequestKeeps
<1>4. CASE Header!SendRequest
  BY <1>4, SendRequestKeeps
<1>5. CASE Header!ParseResponse
  BY <1>5, ParseResponseKeeps
<1>6. CASE Header!SendResponse
  BY <1>6, SendResponseKeeps
<1>7. CASE UNCHANGED Header!vars
  BY <1>7 DEF Header!vars, HeaderInv, Header!TypeOK, Lengths, Collected, Asked, Answered, SentAlike
<1> QED BY <1>1, <1>2, <1>3, <1>4, <1>5, <1>6, <1>7 DEF Header!Next

\* What is sent is what the invariant says of the list.
LEMMA ListIsHandedOn == HeaderInv => Header!HandedOn
<1> SUFFICES ASSUME HeaderInv PROVE Header!HandedOn
  OBVIOUS
<1>1. Len(sent) \in Nat /\ (sent = <<>> => Len(sent) = 0) /\ kind \in {"request", "answer"} /\ keepProxy \in BOOLEAN
  BY HeaderTypes, EmptySeq
<1>2. ASSUME NEW n \in 1..Len(sent) PROVE sent[n] = items /\ sent # <<>>
  BY <1>1 DEF HeaderInv, SentAlike
<1>3. sent # <<>> => stage = "ready" /\ 1 \in 1..Len(sent)
  <2>1. sent # <<>> => Len(sent) # 0
    BY HeaderTypes, EmptySeq
  <2>2. sent # <<>> => stage = "ready"
    BY HeaderTypes DEF HeaderInv, Collected
  <2> QED BY <1>1, <2>1, <2>2
<1>4. Header!OthersKept
  BY <1>1, <1>2, <1>3 DEF Header!OthersKept, HeaderInv, Asked, Answered
<1>5. Header!TellsServerToClose
  BY <1>2, <1>3 DEF Header!TellsServerToClose, HeaderInv, Asked
<1>6. Header!AttemptsAlike
  BY <1>2 DEF Header!AttemptsAlike
<1>7. Header!CodingTold
  BY <1>2, <1>3 DEF Header!CodingTold, HeaderInv, Answered
<1> QED BY <1>4, <1>5, <1>6, <1>7 DEF Header!HandedOn

-----------------------------------------------------------------------------
(* The theorems.                                                           *)

\* A step is one of the three messages', and the other two stay as they are.
LEMMA MessageSteps ==
  /\ MessageInit => Init /\ Answer!Init /\ Header!Init
  /\ [MessageNext]_messageVars => [Next]_vars /\ [Answer!Next]_(Answer!vars) /\ [Header!Next]_(Header!vars)
<1>1. MessageInit => Init /\ Answer!Init /\ Header!Init
  BY DEF MessageInit
<1>2. ForwardQuery => Next /\ UNCHANGED Answer!vars /\ UNCHANGED Header!vars
  BY DEF ForwardQuery, replyVars, headerVars, Answer!vars, Header!vars
<1>3. ReadReply => UNCHANGED vars /\ Answer!Next /\ UNCHANGED Header!vars
  BY DEF ReadReply, headerVars, Header!vars
<1>4. ReadHeader => UNCHANGED vars /\ UNCHANGED Answer!vars /\ Header!Next
  BY DEF ReadHeader, replyVars, Answer!vars
<1>5. UNCHANGED messageVars => UNCHANGED vars /\ UNCHANGED Answer!vars /\ UNCHANGED Header!vars
  BY DEF messageVars, replyVars, headerVars, Answer!vars, Header!vars
<1> QED BY <1>1, <1>2, <1>3, <1>4, <1>5 DEF MessageNext

\* What is shown of each message alone holds when any of them may be handled: the agent's
\* forwarder, the proxy's query of a name server, the header of a request or an answer.
THEOREM MessagesAreEach == MessageSpec => Spec /\ Answer!Spec /\ Header!Spec
BY MessageSteps, PTL DEF MessageSpec, Spec, Answer!Spec, Header!Spec

\* What the three parts of the invariant come to.
THEOREM MessageInvariant == MessageSpec => [](ForwarderInv /\ ReplyInv /\ HeaderInv)
<1>1. Spec => []ForwarderInv
  BY InitForwarder, NextForwarder, PTL DEF Spec
<1>2. Answer!Init => ReplyInv
  BY InitReply DEF ReplyInv
<1>3. Answer!Spec => []ReplyInv
  BY <1>2, NextReply, PTL DEF Answer!Spec
<1>4. Header!Spec => []HeaderInv
  BY InitHeader, NextHeader, PTL DEF Header!Spec
<1> QED BY <1>1, <1>3, <1>4, MessagesAreEach, PTL

\* The variables keep their types: those of DnsServer::process(), of queryA() and queryTXT(),
\* and of HttpMessage.
THEOREM TypesCorrect == MessageSpec => [](TypeOK /\ Answer!TypeOK /\ Header!TypeOK)
<1>1. ForwarderInv /\ ReplyInv /\ HeaderInv => TypeOK /\ Answer!TypeOK /\ Header!TypeOK
  BY DEF ForwarderInv, ReplyInv, ReplyTypes, HeaderInv
<1> QED BY <1>1, MessageInvariant, PTL

\* Through one buffer, in whatever parts replies come and wherever they break off, every
\* client hears the units of its own reply (DnsServer::process()).
THEOREM RepliesReachTheirClients == MessageSpec => []HearsItsReply
<1>1. ForwarderInv => HearsItsReply
  BY DEF ForwarderInv
<1> QED BY <1>1, MessageInvariant, PTL

\* Wherever a reply is cut and whatever the memory behind it holds, queryA() returns the
\* addresses of the records that arrived whole in front of any others, and queryTXT() the
\* text of a whole reply that ends with one: as long as the names of the records are not
\* written out, which parseName() does not get past (DnsQuery::queryA(), queryTXT()).
THEOREM RepliesAreRead == MessageSpec => [](Pointing => ReadsReply)
<1>1. ReplyInv => (Pointing => ReadsReply)
  BY ReplyIsRead DEF ReadsReply
<1> QED BY <1>1, MessageInvariant, PTL

\* So a name server that writes no name out is always read right (the same functions).
THEOREM PointersAreRead ==
  ASSUME Forms \subseteq {"pointer", "labels then pointer"}
  PROVE  MessageSpec => []ReadsReply
<1>1. ReplyInv => Pointing
  <2> SUFFICES ASSUME ReplyInv, NEW n \in 1..Len(reply.records)
               PROVE  reply.records[n].form \in {"pointer", "labels then pointer"}
    BY DEF Pointing
  <2>1. reply.records[n] \in Answer!Records
    BY TypesRead, UpToIs DEF ReplyInv, Reading
  <2>2. reply.records[n].form \in Forms
    BY <2>1 DEF Answer!Records
  <2> QED BY <2>2
<1> QED BY <1>1, MessageInvariant, RepliesAreRead, PTL

\* A header is handed on as it came but for what concerns the two connections: no other
\* field is lost, changed or moved, the server is told to close and the coding is told as
\* it is sent, and a request sent again is the same (HttpMessage, HttpRequest::parseRequest()
\* and sendRequest(), HttpResponse::parseResponse() and sendResponse()).
THEOREM HeadersHandedOn == MessageSpec => []HandedOn
<1>1. HeaderInv => HandedOn
  BY ListIsHandedOn DEF HandedOn
<1> QED BY <1>1, MessageInvariant, PTL
=============================================================================
