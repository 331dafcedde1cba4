------------------------- MODULE ProxyServerProofs -------------------------
(***************************************************************************)
(* Proofs about ProxyServer: its type invariant, the safety properties of  *)
(* the connection vector, and that it implements ConnectionPool.           *)
(*                                                                         *)
(* None of the properties is inductive alone: each speaks of one moment of *)
(* a pass of the server thread.  IInv relates the pass to the connection   *)
(* threads at every point of it.                                           *)
(***************************************************************************)
EXTENDS ProxyServer, FiniteSetTheorems, TLAPS

\* Where the server is decides what is known of the element it looks at.
ServerPlace ==
  /\ pc \in {"start", "push"} => conn \in Conns
  /\ pc = "start" => thread[conn] = "none" /\ ~started[conn]
  /\ pc \in {"join", "delete"} =>
       it \in DOMAIN connections /\ isClosed[connections[it]]
  /\ pc = "delete" => thread[connections[it]] = "none"
  /\ final => closed /\ pc \in {"check", "close", "scan", "join", "delete", "done"}
  /\ pc = "done" => final

\* A connection is marked closed by the last but one step of its thread,
\* and started is set while beginThread() runs process().
ClosedLast ==
  \A c \in Conns :
    /\ started[c] => thread[c] \notin {"none", "created", "exited"}
    /\ isClosed[c] => c \in live /\ thread[c] \in {"leaving", "exited", "none"}
    /\ isClosed[c] /\ thread[c] = "none" => pc = "delete" /\ connections[it] = c

\* What a scan still has to delete lies ahead of the iterator.
DueAhead ==
  /\ pc \notin {"scan", "join", "delete"} => due = {}
  /\ \A c \in due \cap live : isClosed[c]
  /\ pc \in {"scan", "join", "delete"} =>
       \A c \in due \cap live :
         \E i \in DOMAIN connections : i >= it /\ connections[i] = c

\* How far the pass of close() calls has come.
Told ==
  /\ pc = "close" =>
       \A i \in DOMAIN connections : i < it => client[connections[i]] # "open"
  /\ final /\ pc \in {"scan", "join", "delete", "done"} =>
       \A i \in DOMAIN connections : client[connections[i]] # "open"

IInv ==
  /\ TypeOK
  /\ NoThreadInDeadObject
  /\ VectorIsExact
  /\ ServerPlace
  /\ ClosedLast
  /\ DueAhead
  /\ Told

-----------------------------------------------------------------------------
(* Lemmas about the vector.                                                *)

\* What vector::push_back() leaves in the vector.
LEMMA AppendVector ==
  ASSUME NEW S, NEW s \in Seq(S), NEW x \in S
  PROVE  /\ Append(s, x) \in Seq(S)
         /\ Len(Append(s, x)) = Len(s) + 1
         /\ \A j \in 1..Len(s) : Append(s, x)[j] = s[j]
         /\ Append(s, x)[Len(s) + 1] = x
         /\ Range(Append(s, x)) = Range(s) \cup {x}
         /\ IsInjective(s) /\ x \notin Range(s) => IsInjective(Append(s, x))
<1>1. /\ Append(s, x) \in Seq(S)
      /\ Len(Append(s, x)) = Len(s) + 1
      /\ DOMAIN Append(s, x) = 1..(Len(s) + 1)
      /\ DOMAIN s = 1..Len(s)
      /\ \A j \in 1..Len(s) : Append(s, x)[j] = s[j]
      /\ Append(s, x)[Len(s) + 1] = x
  OBVIOUS
<1>2. Range(Append(s, x)) = Range(s) \cup {x}
  BY <1>1 DEF Range
<1>3. ASSUME IsInjective(s), x \notin Range(s)
      PROVE  IsInjective(Append(s, x))
  BY <1>1, <1>3 DEF Range, IsInjective
<1> QED BY <1>1, <1>2, <1>3

\* The elements of a concatenation.
LEMMA ConcatElements ==
  ASSUME NEW S, NEW f \in Seq(S), NEW b \in Seq(S)
  PROVE  /\ f \o b \in Seq(S)
         /\ Len(f \o b) = Len(f) + Len(b)
         /\ \A j \in 1..Len(f) : (f \o b)[j] = f[j]
         /\ \A j \in 1..Len(b) : (f \o b)[Len(f) + j] = b[j]
  OBVIOUS

\* What vector::erase() leaves in the vector, element by element.
LEMMA EraseElements ==
  ASSUME NEW S, NEW s \in Seq(S), NEW i \in 1..Len(s)
  PROVE  /\ RemoveAt(s, i) \in Seq(S)
         /\ Len(RemoveAt(s, i)) = Len(s) - 1
         /\ \A j \in 1..(Len(s) - 1) :
              RemoveAt(s, i)[j] = IF j < i THEN s[j] ELSE s[j + 1]
<1> DEFINE front == SubSeq(s, 1, i - 1)
           back  == SubSeq(s, i + 1, Len(s))
<1>1. /\ front \in Seq(S) /\ Len(front) = i - 1
      /\ \A j \in 1..(i - 1) : front[j] = s[j]
  OBVIOUS
<1>2. /\ back \in Seq(S) /\ Len(back) = Len(s) - i
      /\ \A j \in 1..(Len(s) - i) : back[j] = s[j + i]
  OBVIOUS
<1>3. RemoveAt(s, i) = front \o back
  BY DEF RemoveAt
<1> HIDE DEF front, back
<1>4. /\ front \o back \in Seq(S)
      /\ Len(front \o back) = Len(front) + Len(back)
      /\ \A j \in 1..Len(front) : (front \o back)[j] = front[j]
      /\ \A j \in 1..Len(back) : (front \o back)[Len(front) + j] = back[j]
  <2>1. front \in Seq(S) /\ back \in Seq(S)
    BY <1>1, <1>2
  <2> HIDE DEF front, back
  <2> QED BY <2>1, ConcatElements, SMT
<1>5. ASSUME NEW j \in 1..(Len(s) - 1)
      PROVE  RemoveAt(s, i)[j] = IF j < i THEN s[j] ELSE s[j + 1]
  <2>1. CASE j < i
    BY <1>1, <1>3, <1>4, <2>1
  <2>2. CASE j >= i
    <3> DEFINE k == j - (i - 1)
    <3>1. k \in 1..(Len(s) - i) /\ Len(front) + k = j /\ k + i = j + 1
      BY <1>1, <2>2
    <3>2. RemoveAt(s, i)[j] = back[k]
      BY <1>2, <1>3, <1>4, <3>1
    <3> QED BY <1>2, <2>2, <3>1, <3>2
  <2> QED BY <2>1, <2>2
<1> QED BY <1>1, <1>2, <1>3, <1>4, <1>5

\* Erasing an element of a vector without duplicates erases it for good.
LEMMA EraseVector ==
  ASSUME NEW S, NEW s \in Seq(S), NEW i \in 1..Len(s), IsInjective(s)
  PROVE  /\ IsInjective(RemoveAt(s, i))
         /\ Range(RemoveAt(s, i)) = Range(s) \ {s[i]}
<1> DEFINE r == RemoveAt(s, i)
<1>1. /\ DOMAIN s = 1..Len(s) /\ DOMAIN r = 1..(Len(s) - 1)
      /\ \A j \in 1..(Len(s) - 1) : r[j] = IF j < i THEN s[j] ELSE s[j + 1]
  BY EraseElements
<1> HIDE DEF r
<1>2. IsInjective(r)
  BY <1>1 DEF IsInjective
<1>3. Range(r) \subseteq Range(s) \ {s[i]}
  BY <1>1 DEF Range, IsInjective
<1>4. ASSUME NEW x \in Range(s) \ {s[i]}
      PROVE  x \in Range(r)
  <2>1. PICK k \in 1..Len(s) : s[k] = x /\ k # i
    BY <1>1, <1>4 DEF Range
  <2>2. CASE k < i
    <3>1. k \in DOMAIN r /\ r[k] = s[k]
      BY <1>1, <2>1, <2>2
    <3> QED BY <2>1, <3>1 DEF Range
  <2>3. CASE k > i
    <3>1. k - 1 \in DOMAIN r /\ r[k - 1] = s[k]
      BY <1>1, <2>1, <2>3
    <3> QED BY <2>1, <3>1 DEF Range
  <2> QED BY <2>1, <2>2, <2>3
<1> QED BY <1>2, <1>3, <1>4 DEF r

-----------------------------------------------------------------------------
(* IInv is an inductive invariant.                                         *)

LEMMA InvariantInitially == Init => IInv
<1> SUFFICES ASSUME Init PROVE IInv
  OBVIOUS
<1>1. Range(connections) = {} /\ IsInjective(connections)
  BY DEF Range, IsInjective, Init
<1>2. TypeOK
  <2>1. /\ thread \in [Conns -> ThreadSteps]
        /\ client \in [Conns -> Sockets] /\ remote \in [Conns -> Sockets]
        /\ started \in [Conns -> BOOLEAN] /\ isClosed \in [Conns -> BOOLEAN]
    BY DEF ThreadSteps, Sockets, Init
  <2>2. connections \in Seq(Conns) /\ live \in SUBSET Conns /\ due \in SUBSET Conns
    BY DEF Init
  <2>3. pc \in ServerSteps /\ conn \in Conns \cup {"none"} /\ it \in Nat \ {0}
    BY DEF ServerSteps, Init
  <2>4. final \in BOOLEAN /\ closed \in BOOLEAN
    BY DEF Init
  <2>5. /\ listener \in {"unopened", "bound", "unbound", "shut"}
        /\ owner \in {"idle", "closing", "done"}
    BY DEF Init
  <2> QED BY <2>1, <2>2, <2>3, <2>4, <2>5 DEF TypeOK
<1>3. NoThreadInDeadObject /\ VectorIsExact
  BY <1>1 DEF NoThreadInDeadObject, VectorIsExact, Init, InHand
<1>4. ServerPlace /\ ClosedLast /\ DueAhead /\ Told
  BY DEF ServerPlace, ClosedLast, DueAhead, Told, Init
<1> QED BY <1>2, <1>3, <1>4 DEF IInv

\* A scan that starts over has all it has to delete ahead of it.
LEMMA ScanStarts ==
  ASSUME IInv, StartScan, pc \in {"check", "close"},
         UNCHANGED <<connections, live, isClosed>>
  PROVE  DueAhead'
<1>1. /\ pc' = "scan" /\ it' = 1 /\ connections' = connections /\ live' = live
      /\ isClosed' = isClosed /\ due' = {c \in live : isClosed[c]}
  BY DEF StartScan
<1>2. ASSUME NEW c \in live PROVE \E i \in DOMAIN connections : i >= 1 /\ connections[i] = c
  <2>1. c \in Range(connections)
    BY DEF IInv, VectorIsExact, InHand
  <2>2. connections \in Seq(Conns)
    BY DEF IInv, TypeOK
  <2> QED BY <2>1, <2>2 DEF Range
<1> QED BY <1>1, <1>2 DEF DueAhead

\* The server thread's own steps of process().
LEMMA LoopPreserves ==
  ASSUME IInv,
         Bind \/ EnterAccept \/ AcceptNull \/ StartThread \/ PushBack \/ LeaveLoop
  PROVE  IInv'
<1> USE DEF IInv, TypeOK, NoThreadInDeadObject, VectorIsExact, InHand,
            ServerPlace, ClosedLast, DueAhead, Told, objectVars, ownerVars,
            Sockets, ServerSteps, ThreadSteps
<1>1. CASE Bind
  BY <1>1 DEF Bind
<1>2. CASE EnterAccept
  BY <1>2 DEF EnterAccept
<1>3. CASE AcceptNull
  BY <1>3 DEF AcceptNull
<1>4. CASE StartThread
  BY <1>4 DEF StartThread
<1>5. CASE PushBack
  <2>1. /\ conn \in Conns /\ conn \notin Range(connections)
        /\ pc = "push" /\ connections' = Append(connections, conn)
    BY <1>5 DEF PushBack
  <2>2. /\ connections' \in Seq(Conns)
        /\ Range(connections') = Range(connections) \cup {conn}
        /\ IsInjective(connections')
    BY <2>1, AppendVector
  <2>3. TypeOK' /\ NoThreadInDeadObject' /\ VectorIsExact'
    BY <1>5, <2>1, <2>2 DEF PushBack
  <2>4. ServerPlace' /\ ClosedLast' /\ DueAhead' /\ Told'
    BY <1>5 DEF PushBack
  <2> QED BY <2>3, <2>4
<1>6. CASE LeaveLoop
  BY <1>6 DEF LeaveLoop
<1> QED BY <1>1, <1>2, <1>3, <1>4, <1>5, <1>6

\* accept() returns a client and its object is built at a free address.
LEMMA AcceptPreserves ==
  ASSUME IInv, NEW c \in Conns, Accept(c)
  PROVE  IInv'
<1> USE DEF IInv, objectVars, ownerVars, Accept
<1>1. c \notin live /\ c \notin Range(connections) /\ thread[c] = "none"
  BY DEF TypeOK, VectorIsExact, NoThreadInDeadObject
<1>2. ~started[c] /\ ~isClosed[c]
  BY <1>1 DEF ClosedLast
<1>6. UNCHANGED <<it, connections, thread, started, isClosed, due>> /\ pc' = "start"
      /\ live' = live \cup {c} /\ ~final
  BY DEF ServerPlace
<1>3. TypeOK' /\ NoThreadInDeadObject'
  BY DEF TypeOK, NoThreadInDeadObject, Sockets, ServerSteps
<1>4. VectorIsExact'
  BY <1>1 DEF VectorIsExact, InHand
<1>5. ServerPlace'
  BY <1>1, <1>2 DEF ServerPlace
<1>7. ClosedLast'
  BY <1>6 DEF ClosedLast
<1>8. DueAhead' /\ Told'
  BY <1>2, <1>6 DEF DueAhead, Told
<1> QED BY <1>3, <1>4, <1>5, <1>7, <1>8

\* The steps of checkConnections().
LEMMA CheckPreserves ==
  ASSUME IInv,
         \/ CheckConnections \/ CloseConnection \/ AllTold
         \/ KeepOpen \/ FoundClosed \/ JoinThread \/ EndCheck
  PROVE  IInv'
<1> USE DEF IInv, TypeOK, NoThreadInDeadObject, VectorIsExact, InHand,
            ServerPlace, ClosedLast, Told, objectVars, ownerVars,
            Sockets, ServerSteps, ThreadSteps
<1>1. CASE CheckConnections
  <2>1. CASE closed /\ pc' = "close"
    BY <1>1, <2>1 DEF CheckConnections, DueAhead, StartScan
  <2>2. CASE ~closed /\ StartScan
    <3>1. DueAhead'
      BY <1>1, <2>2, ScanStarts DEF CheckConnections
    <3> QED BY <1>1, <2>2, <3>1 DEF CheckConnections, StartScan
  <2> QED BY <1>1, <2>1, <2>2 DEF CheckConnections
<1>2. CASE CloseConnection
  BY <1>2 DEF CloseConnection, Shut, DueAhead
<1>3. CASE AllTold
  <2>1. DueAhead'
    BY <1>3, ScanStarts DEF AllTold
  <2> QED BY <1>3, <2>1 DEF AllTold, StartScan
<1>4. CASE KeepOpen
  BY <1>4 DEF KeepOpen, DueAhead
<1>5. CASE FoundClosed
  BY <1>5 DEF FoundClosed, DueAhead
<1>6. CASE JoinThread
  BY <1>6 DEF JoinThread, DueAhead
<1>7. CASE EndCheck
  BY <1>7 DEF EndCheck, DueAhead
<1> QED BY <1>1, <1>2, <1>3, <1>4, <1>5, <1>6, <1>7

\* delete conn; connections.erase(it).
LEMMA DeletePreserves ==
  ASSUME IInv, DeleteConnection
  PROVE  IInv'
<1> DEFINE dead == connections[it]
<1>1. /\ connections \in Seq(Conns) /\ it \in 1..Len(connections)
      /\ IsInjective(connections) /\ live = Range(connections)
      /\ thread[dead] = "none" /\ dead \in Conns
  BY DEF IInv, TypeOK, VectorIsExact, InHand, ServerPlace, DeleteConnection
<1>2. /\ connections' \in Seq(Conns)
      /\ Len(connections') = Len(connections) - 1
      /\ \A j \in 1..(Len(connections) - 1) :
           connections'[j] = IF j < it THEN connections[j] ELSE connections[j + 1]
      /\ IsInjective(connections')
      /\ Range(connections') = Range(connections) \ {dead}
  BY <1>1, EraseElements, EraseVector DEF DeleteConnection
<1>3. /\ pc' = "scan" /\ pc = "delete" /\ live' = live \ {dead}
      /\ UNCHANGED <<final, conn, it, ownerVars, thread, due>>
      /\ started' = [started EXCEPT ![dead] = FALSE]
      /\ isClosed' = [isClosed EXCEPT ![dead] = FALSE]
      /\ client' = [client EXCEPT ![dead] = "null"]
      /\ remote' = [remote EXCEPT ![dead] = "null"]
  BY DEF DeleteConnection, BuryObject
<1> HIDE DEF dead
<1>4. TypeOK' /\ NoThreadInDeadObject' /\ VectorIsExact'
  BY <1>1, <1>2, <1>3 DEF IInv, TypeOK, NoThreadInDeadObject, VectorIsExact,
                          InHand, ownerVars, Sockets, ServerSteps, ThreadSteps
<1>5. ServerPlace' /\ ClosedLast'
  BY <1>1, <1>3 DEF IInv, TypeOK, ServerPlace, ClosedLast, ownerVars, dead
<1>6. DueAhead'
  <2>1. ASSUME NEW c \in due \cap live, c # dead
        PROVE  /\ isClosed'[c]
               /\ \E j \in DOMAIN connections' : j >= it /\ connections'[j] = c
    <3>1. PICK i \in 1..Len(connections) : i >= it /\ connections[i] = c
      BY <1>1, <1>3 DEF IInv, DueAhead
    <3>2. i > it
      BY <1>1, <2>1, <3>1 DEF dead
    <3>3. i - 1 \in DOMAIN connections' /\ i - 1 >= it /\ connections'[i - 1] = c
      BY <1>1, <1>2, <3>1, <3>2
    <3>4. isClosed'[c]
      BY <1>1, <1>3, <2>1 DEF IInv, TypeOK, DueAhead
    <3> QED BY <3>3, <3>4
  <2> QED BY <1>3, <2>1 DEF DueAhead
<1>7. Told'
  <2>1. ASSUME final, NEW i \in DOMAIN connections'
        PROVE  client'[connections'[i]] # "open"
    <3>1. PICK k \in 1..Len(connections) : connections'[i] = connections[k]
      BY <1>1, <1>2
    <3>2. client[connections[k]] # "open" /\ connections[k] \in Conns
      BY <1>1, <1>3, <2>1 DEF IInv, Told
    <3> QED BY <1>1, <1>3, <3>1, <3>2 DEF IInv, TypeOK
  <2> QED BY <1>3, <2>1 DEF Told
<1> QED BY <1>4, <1>5, <1>6, <1>7 DEF IInv

\* The steps of a connection's thread.
LEMMA ThreadPreserves ==
  ASSUME IInv, NEW c \in Conns, ThreadStep(c) \/ OpenRemote(c) \/ EndService(c)
  PROVE  IInv'
<1> USE DEF IInv, TypeOK, NoThreadInDeadObject, VectorIsExact, InHand,
            ServerPlace, ClosedLast, DueAhead, Told, serverVars, ownerVars,
            Sockets, ThreadSteps
<1>1. CASE BeginThread(c)
  BY <1>1 DEF BeginThread
<1>2. CASE OpenRemote(c)
  BY <1>2 DEF OpenRemote
<1>3. CASE EndService(c)
  BY <1>3 DEF EndService
<1>4. CASE DropClient(c)
  BY <1>4 DEF DropClient
<1>5. CASE DropRemote(c)
  BY <1>5 DEF DropRemote
<1>6. CASE MarkClosed(c)
  BY <1>6 DEF MarkClosed
<1>7. CASE EndThread(c)
  BY <1>7 DEF EndThread
<1> QED BY <1>1, <1>2, <1>3, <1>4, <1>5, <1>6, <1>7 DEF ThreadStep

\* The two writes of HttpServer::close(), and stuttering.
LEMMA OwnerPreserves ==
  ASSUME IInv, ShutListener \/ SetClosed \/ UNCHANGED vars
  PROVE  IInv'
<1> USE DEF IInv, TypeOK, NoThreadInDeadObject, VectorIsExact, InHand,
            ServerPlace, ClosedLast, DueAhead, Told, serverVars, objectVars
<1>1. CASE ShutListener
  BY <1>1 DEF ShutListener
<1>2. CASE SetClosed
  BY <1>2 DEF SetClosed
<1>3. CASE UNCHANGED vars
  BY <1>3 DEF vars, ownerVars
<1> QED BY <1>1, <1>2, <1>3

LEMMA InvariantStep == IInv /\ [Next]_vars => IInv'
<1> SUFFICES ASSUME IInv, [Next]_vars PROVE IInv'
  OBVIOUS
<1> QED BY LoopPreserves, AcceptPreserves, CheckPreserves, DeletePreserves,
           ThreadPreserves, OwnerPreserves DEF Next, ServerStep

\* The strengthened invariant holds of every reachable state of the server.
THEOREM Invariance == Spec => []IInv
  BY InvariantInitially, InvariantStep, PTL DEF Spec

-----------------------------------------------------------------------------
(* The safety properties.                                                  *)

\* Every variable keeps its type, whatever Conns and ThreadLimit are.
THEOREM TypeCorrect == Spec => []TypeOK
<1>1. IInv => TypeOK
  BY DEF IInv
<1> QED BY <1>1, Invariance, PTL

\* checkConnections() never deletes an object whose thread still runs.
THEOREM JoinedBeforeDeleted == Spec => []NoThreadInDeadObject
<1>1. IInv => NoThreadInDeadObject
  BY DEF IInv
<1> QED BY <1>1, Invariance, PTL

\* The vector and the heap agree on which connections exist.
THEOREM VectorHoldsAll == Spec => []VectorIsExact
<1>1. IInv => VectorIsExact
  BY DEF IInv
<1> QED BY <1>1, Invariance, PTL

\* Erasing while iterating makes a scan skip no closed connection.
THEOREM EveryScanReapsAll == Spec => []ScanReapsAll
<1>1. ASSUME IInv, pc = "scan", it > Len(connections), NEW c \in due \cap live
      PROVE  FALSE
  <2>1. PICK i \in DOMAIN connections : i >= it /\ connections[i] = c
    BY <1>1 DEF IInv, DueAhead
  <2> QED BY <1>1, <2>1 DEF IInv, TypeOK
<1>2. IInv => ScanReapsAll
  BY <1>1 DEF ScanReapsAll
<1> QED BY <1>2, Invariance, PTL

\* pthread_join() waits only for a thread in its last steps.
THEOREM JoinNeverWaitsForAClient == Spec => []JoinsOnlyFinished
<1>1. IInv => JoinsOnlyFinished
  BY DEF IInv, TypeOK, ServerPlace, ClosedLast, JoinsOnlyFinished
<1> QED BY <1>1, Invariance, PTL

\* process() returns with every connection it leaves behind told to close.
THEOREM EveryClientTold == Spec => []ClientsToldAtEnd
<1>1. IInv => ClientsToldAtEnd
  BY DEF IInv, TypeOK, ServerPlace, Told, ClientsToldAtEnd, Range
<1> QED BY <1>1, Invariance, PTL

-----------------------------------------------------------------------------
(* The thread table.                                                       *)

LEMMA JoinableIsFinite ==
  IsFiniteSet(Joinable) /\ Cardinality(Joinable) \in Nat
<1>1. Joinable \subseteq Conns
  BY DEF Joinable
<1>2. IsFiniteSet(Joinable)
  BY <1>1, FS_Subset, ConnsAssumption
<1> QED BY <1>2, FS_CardinalityType

\* No step gives a slot back while the server thread spins in startThread().
LEMMA StuckStays == IInv /\ StartStuck /\ [Next]_vars => StartStuck'
<1> SUFFICES ASSUME IInv, StartStuck, [Next]_vars PROVE StartStuck'
  OBVIOUS
<1> USE DEF StartStuck, IInv, TypeOK
<1>1. ~StartThread
  BY JoinableIsFinite, ThreadLimitAssumption DEF StartThread
<1>2. pc' = "start" /\ Joinable' = Joinable
  <2>1. CASE ShutListener \/ SetClosed \/ UNCHANGED vars
    BY <2>1 DEF ShutListener, SetClosed, vars, serverVars, objectVars, Joinable
  <2>2. ASSUME NEW c \in Conns, ThreadStep(c) \/ OpenRemote(c) \/ EndService(c)
        PROVE  pc' = "start" /\ Joinable' = Joinable
    <3>1. pc' = pc /\ \A d \in Conns : thread'[d] = "none" <=> thread[d] = "none"
      BY <2>2 DEF ThreadStep, BeginThread, DropClient, DropRemote, MarkClosed,
                  EndThread, OpenRemote, EndService, serverVars
    <3> QED BY <3>1 DEF Joinable
  <2>3. ~ServerStep /\ ~AcceptNull /\ \A c \in Conns : ~Accept(c)
    BY <1>1 DEF ServerStep, Bind, EnterAccept, PushBack, LeaveLoop, AcceptNull,
       Accept, CheckConnections, CloseConnection, AllTold, KeepOpen, FoundClosed,
       JoinThread, DeleteConnection, EndCheck
  <2> QED BY <2>1, <2>2, <2>3 DEF Next
<1> QED BY <1>2

\* A server that found the thread table full never leaves startThread().
THEOREM FullTableStaysFull == Spec => FullTableIsForever
<1>1. IInv /\ [Next]_vars => [StartStuck => StartStuck']_vars
  BY StuckStays
<1> QED BY <1>1, Invariance, PTL DEF Spec, FullTableIsForever

\* A process with a thread slot for each connection it may hold never spins.
THEOREM EnoughSlots ==
  ASSUME Cardinality(Conns) <= ThreadLimit
  PROVE  Spec => []~StartStuck
<1>1. ASSUME IInv, pc = "start" PROVE Cardinality(Joinable) < Cardinality(Conns)
  <2>1. Joinable \subseteq Conns /\ conn \in Conns \ Joinable
    BY <1>1 DEF IInv, ServerPlace, Joinable
  <2>2. /\ Cardinality(Joinable) <= Cardinality(Conns)
        /\ Cardinality(Joinable) # Cardinality(Conns)
    BY <2>1, FS_Subset, ConnsAssumption
  <2>3. Cardinality(Conns) \in Nat
    BY FS_CardinalityType, ConnsAssumption
  <2> QED BY <2>2, <2>3, JoinableIsFinite
<1>2. IInv => ~StartStuck
  BY <1>1, JoinableIsFinite, FS_CardinalityType, ConnsAssumption,
     ThreadLimitAssumption DEF StartStuck
<1> QED BY <1>2, Invariance, PTL

-----------------------------------------------------------------------------
(* The server implements ConnectionPool.                                   *)

\* A step that moves one connection, or none, moves the pool's stage so.
LEMMA OneStage ==
  ASSUME NEW c \in Conns, NEW to,
         Stage(c)' = to, \A d \in Conns \ {c} : Stage(d)' = Stage(d)
  PROVE  [d \in Conns |-> Stage(d)]' = [[d \in Conns |-> Stage(d)] EXCEPT ![c] = to]
  OBVIOUS

\* An admitted client takes a free slot.
LEMMA AcceptAdmits ==
  ASSUME IInv, NEW c \in Conns, Accept(c)
  PROVE  Pool!Admit(c)
<1>1. Stage(c) = "free" /\ Stage(c)' = "serving"
  BY DEF Accept, Stage, Joined, objectVars, IInv, NoThreadInDeadObject, TypeOK
<1>2. \A d \in Conns \ {c} : Stage(d)' = Stage(d)
  BY DEF Accept, Stage, Joined
<1>3. ~final /\ final' = final
  BY DEF Accept, IInv, ServerPlace
<1> QED BY <1>1, <1>2, <1>3, OneStage DEF Pool!Admit

\* The end of its thread finishes a connection.
LEMMA EndFinishes ==
  ASSUME IInv, NEW c \in Conns, EndThread(c)
  PROVE  Pool!Finish(c)
<1>1. Stage(c) = "serving" /\ Stage(c)' = "finished"
  BY DEF EndThread, Stage, Joined, IInv, NoThreadInDeadObject, TypeOK
<1>2. \A d \in Conns \ {c} : Stage(d)' = Stage(d)
  BY DEF EndThread, Stage, Joined, serverVars, IInv, TypeOK
<1>3. final' = final
  BY DEF EndThread, serverVars
<1> QED BY <1>1, <1>2, <1>3, OneStage DEF Pool!Finish

\* Deleting the object retires its slot.
LEMMA DeleteRetires ==
  ASSUME IInv, DeleteConnection
  PROVE  Pool!Retire(connections[it])
<1>1. PICK dead \in Conns : dead = connections[it]
  BY DEF IInv, TypeOK, ServerPlace, DeleteConnection
<1>2. dead \in live /\ thread[dead] = "none" /\ pc = "delete"
  BY <1>1 DEF IInv, ServerPlace, ClosedLast, DeleteConnection
<1>3. pc' = "scan" /\ live' = live \ {dead} /\ thread' = thread /\ final' = final
  BY <1>1 DEF DeleteConnection, BuryObject
<1>4. Stage(dead) = "finished" /\ Stage(dead)' = "free"
  BY <1>1, <1>2, <1>3 DEF Stage, Joined
<1>5. \A d \in Conns \ {dead} : Stage(d)' = Stage(d)
  BY <1>1, <1>2, <1>3 DEF Stage, Joined
<1>6. Pool!Retire(dead)
  BY <1>3, <1>4, <1>5, OneStage DEF Pool!Retire
<1> QED BY <1>1, <1>6

\* No other step of the server moves a connection.
LEMMA ServerKeepsStages ==
  ASSUME IInv, ServerStep \/ AcceptNull, ~DeleteConnection
  PROVE  \A c \in Conns : Stage(c)' = Stage(c)
<1> USE DEF objectVars, Stage, Joined
<1>1. CASE JoinThread
  BY <1>1 DEF JoinThread, IInv, TypeOK, ServerPlace, ClosedLast
<1>2. CASE ~JoinThread
  <2>1. \/ pc # "delete" /\ pc' # "delete" /\ live' = live /\ thread' = thread
        \/ StartThread
    BY <1>2 DEF ServerStep, AcceptNull, Bind, EnterAccept, PushBack, LeaveLoop,
         CheckConnections, StartScan, CloseConnection, AllTold, KeepOpen,
         FoundClosed, EndCheck
  <2>2. CASE StartThread
    BY <2>2 DEF StartThread, IInv, ServerPlace, TypeOK
  <2> QED BY <2>1, <2>2
<1> QED BY <1>1, <1>2

\* Nor does any other step of a thread or of the owner.
LEMMA OthersKeepStages ==
  ASSUME IInv,
         \/ ShutListener \/ SetClosed \/ UNCHANGED vars
         \/ \E c \in Conns : (ThreadStep(c) \/ OpenRemote(c) \/ EndService(c))
                             /\ ~EndThread(c)
  PROVE  final' = final /\ \A d \in Conns : Stage(d)' = Stage(d)
<1> USE DEF serverVars, objectVars
<1>1. CASE ShutListener \/ SetClosed \/ UNCHANGED vars
  BY <1>1 DEF ShutListener, SetClosed, vars, Stage, Joined
<1>2. ASSUME NEW c \in Conns, ~EndThread(c),
             ThreadStep(c) \/ OpenRemote(c) \/ EndService(c)
      PROVE  final' = final /\ \A d \in Conns : Stage(d)' = Stage(d)
  <2>1. /\ UNCHANGED <<serverVars, live>>
        /\ \A d \in Conns : /\ thread'[d] = "none" <=> thread[d] = "none"
                            /\ thread'[d] = "exited" <=> thread[d] = "exited"
    BY <1>2 DEF ThreadStep, BeginThread, DropClient, DropRemote, MarkClosed,
                OpenRemote, EndService, IInv, TypeOK
  <2> QED BY <2>1 DEF Stage, Joined
<1> QED BY <1>1, <1>2

LEMMA RefinementStep ==
  IInv /\ [Next]_vars => [Pool!Next]_(Pool!poolVars)
<1> SUFFICES ASSUME IInv, [Next]_vars PROVE [Pool!Next]_(Pool!poolVars)
  OBVIOUS
<1>1. ASSUME \A c \in Conns : Stage(c)' = Stage(c), final' = final
      PROVE  UNCHANGED Pool!poolVars
  BY <1>1 DEF Pool!poolVars
<1>2. CASE ServerStep \/ AcceptNull
  <2>1. CASE DeleteConnection
    <3>1. connections[it] \in Conns
      BY <2>1 DEF IInv, TypeOK, ServerPlace, DeleteConnection
    <3> QED BY <2>1, <3>1, DeleteRetires DEF Pool!Next
  <2>2. CASE LeaveLoop
    <3>1. ~final /\ final'
      BY <2>2 DEF LeaveLoop, IInv, ServerPlace
    <3>2. \A c \in Conns : Stage(c)' = Stage(c)
      BY <1>2, <2>2, ServerKeepsStages DEF LeaveLoop, DeleteConnection
    <3>3. Pool!Stop
      BY <3>1, <3>2 DEF Pool!Stop
    <3> QED BY <3>3 DEF Pool!Next
  <2>3. CASE ~DeleteConnection /\ ~LeaveLoop
    <3>1. final' = final
      BY <1>2, <2>3 DEF ServerStep, AcceptNull, Bind, EnterAccept, StartThread,
         PushBack, CheckConnections, CloseConnection, AllTold, KeepOpen,
         FoundClosed, JoinThread, EndCheck
    <3> QED BY <1>1, <1>2, <2>3, <3>1, ServerKeepsStages
  <2> QED BY <2>1, <2>2, <2>3
<1>3. ASSUME NEW c \in Conns, Accept(c) PROVE Pool!Next
  BY <1>3, AcceptAdmits DEF Pool!Next
<1>4. ASSUME NEW c \in Conns, EndThread(c) PROVE Pool!Next
  BY <1>4, EndFinishes DEF Pool!Next
<1>5. ASSUME NEW c \in Conns, ~EndThread(c),
             ThreadStep(c) \/ OpenRemote(c) \/ EndService(c)
      PROVE  UNCHANGED Pool!poolVars
  BY <1>1, <1>5, OthersKeepStages
<1>6. CASE ShutListener \/ SetClosed \/ UNCHANGED vars
  BY <1>1, <1>6, OthersKeepStages
<1> QED BY <1>2, <1>3, <1>4, <1>5, <1>6 DEF Next

\* Each slot is admitted, served, finished and retired in this order, with any
\* number of connections and threads, and none is admitted after the loop.
THEOREM Refinement == Spec => ImplementsPool
<1>1. Init => Pool!Init
  BY DEF Init, Pool!Init, Stage
<1> QED BY <1>1, RefinementStep, Invariance, PTL DEF Spec, Pool!Spec, ImplementsPool
=============================================================================
