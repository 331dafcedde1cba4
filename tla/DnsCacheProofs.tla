---------------------------- MODULE DnsCacheProofs ----------------------------
(***************************************************************************)
(* Proofs about DnsCache, for any number of connections and hosts: the     *)
(* types, that one thread at a time touches the map of an instance, and    *)
(* that a query asks the name server the loader has set.                   *)
(*                                                                         *)
(* OneThreadInMap looks at a mutex from the thread; Owned adds the view    *)
(* from the mutex, that its owner works on that instance.  Both hold while *)
(* self is only assigned outside of the lock, where instance() returns a   *)
(* pointer that is not null (Fetched).                                     *)
(*                                                                         *)
(* For the name server of the queries Known follows the pointer: what it   *)
(* points to, and what a thread got from it, was constructed, and nothing  *)
(* is constructed any more once it is set.  So an instance keeps the name  *)
(* server that the loader has assigned to it.                              *)
(***************************************************************************)
EXTENDS DnsCache, TLAPS

\* Who is in the map of an instance holds its mutex, and the other way round.
Owned ==
  /\ \A t \in Threads : InMap(t) => lock[self[t]] = t
  /\ \A i, t \in Threads : lock[i] = t => self[t] = i /\ InMap(t)

\* instance() returns an instance.
Fetched == \A t \in Threads : pc[t] = "fetch" => dns # "null"

\* The loader does nothing but set the name server.
Divided ==
  /\ goal[Loader] = "setServer"
  /\ \A t \in Threads : goal[t] = "setServer" =>
       pc[t] \in {"start", "publish", "fetch", "assign", "done"}

IInv == TypeOK /\ Owned /\ Fetched /\ Divided

-----------------------------------------------------------------------------
\* No thread has called instance() yet.
LEMMA InitIInv == Init => IInv
<1> SUFFICES ASSUME Init PROVE IInv
  OBVIOUS
<1>1. TypeOK
  BY DEF Init, TypeOK, Threads, Places, Goals, Servers, Answers
<1>2. Owned
  BY NamesAssumption DEF Init, Owned, InMap
<1>3. Fetched /\ Divided
  BY DEF Init, Fetched, Divided, Threads
<1> QED BY <1>1, <1>2, <1>3 DEF IInv

\* A thread that works under the lock, or asks, is a connection.
LEMMA Connections ==
  ASSUME IInv, NEW t \in Threads,
         pc[t] \in {"lock", "lookup", "ask", "wait", "relock", "store", "unlock", "returned"}
  PROVE  t \in Conns /\ goal[t] # "setServer"
BY DEF IInv, Divided, Threads

\* The call of instance().
LEMMA InstanceStep ==
  ASSUME IInv, NEW t \in Threads, FindInstance(t) \/ Build(t) \/ Publish(t) \/ Fetch(t)
  PROVE  IInv'
<1> USE DEF IInv
<1>1. TypeOK'
  <2>1. CASE FindInstance(t)
    BY <2>1 DEF FindInstance, Go, TypeOK, cacheVars, Places
  <2>2. CASE Build(t)
    BY <2>2 DEF Build, Go, TypeOK, Places, Servers
  <2>3. CASE Publish(t)
    BY <2>3 DEF Publish, Go, TypeOK, Places
  <2>4. CASE Fetch(t)
    <3>1. dns \in Threads
      BY <2>4 DEF Fetch, TypeOK, Fetched
    <3>2. PICK new \in Places : Go(t, new)
      BY <2>4 DEF Fetch, Places
    <3> QED BY <2>4, <3>1, <3>2 DEF Fetch, Go, TypeOK, cacheVars
  <2> QED BY <2>1, <2>2, <2>3, <2>4
<1>2. ~InMap(t) /\ ~InMap(t)' /\ UNCHANGED lock
  BY DEF FindInstance, Build, Publish, Fetch, Go, InMap, TypeOK, cacheVars
<1>3. \A u \in Threads \ {t} : pc'[u] = pc[u] /\ self'[u] = self[u] /\ goal'[u] = goal[u]
  BY DEF FindInstance, Build, Publish, Fetch, Go, TypeOK
<1>4. Owned'
  BY <1>2, <1>3 DEF Owned, InMap
<1>5. Fetched'
  <2>1. dns # "null" => dns' # "null"
    BY NamesAssumption DEF FindInstance, Build, Publish, Fetch, cacheVars
  <2>2. pc'[t] = "fetch" => dns' # "null"
    BY NamesAssumption DEF FindInstance, Build, Publish, Fetch, Go, TypeOK, cacheVars
  <2> QED BY <1>3, <2>1, <2>2 DEF Fetched
<1>6. Divided'
  <2>1. UNCHANGED goal
    BY DEF FindInstance, Build, Publish, Fetch
  <2>2. goal[t] = "setServer" => pc'[t] \in {"publish", "fetch", "assign"}
    BY DEF FindInstance, Build, Publish, Fetch, Go, TypeOK
  <2> QED BY <1>3, <2>1, <2>2 DEF Divided
<1> QED BY <1>1, <1>4, <1>5, <1>6

\* The mutex is taken: nobody had it.
LEMMA LockStep ==
  ASSUME IInv, NEW t \in Threads, Lock(t) \/ Relock(t) PROVE IInv'
<1> USE DEF IInv
<1>1. t \in Conns /\ goal[t] # "setServer"
  BY Connections DEF Lock, Relock, Acquire
<1>2. PICK new \in {"lookup", "store"} :
        /\ lock[self[t]] = "free" /\ lock' = [lock EXCEPT ![self[t]] = t]
        /\ Go(t, new)
        /\ UNCHANGED <<dns, records, nameServer, goal, host, self, server, answer>>
  BY DEF Lock, Relock, Acquire
<1>3. TypeOK'
  BY <1>2 DEF Go, TypeOK, Places
<1>4. self[t] \in Threads /\ \A u \in Threads : lock[self[t]] # u
  BY <1>2, NamesAssumption DEF TypeOK
<1>5. Owned'
  <2>1. /\ InMap(t)' /\ lock'[self[t]] = t
        /\ \A u \in Threads \ {t} : InMap(u)' = InMap(u)
        /\ \A i \in Threads \ {self[t]} : lock'[i] = lock[i]
    BY <1>2, <1>4 DEF Go, TypeOK, InMap
  <2>2. ~InMap(t)
    BY <1>4 DEF Owned
  <2> QED BY <1>2, <1>4, <2>1, <2>2 DEF Owned
<1>6. Fetched' /\ Divided'
  BY <1>1, <1>2 DEF Go, TypeOK, Fetched, Divided, Threads
<1> QED BY <1>3, <1>5, <1>6

\* The owner of the mutex gives it up.
LEMMA UnlockStep ==
  ASSUME IInv, NEW t \in Threads, Miss(t) \/ Unlock(t) PROVE IInv'
<1> USE DEF IInv
<1>1. t \in Conns /\ goal[t] # "setServer"
  BY Connections DEF Miss, Unlock
<1>2. PICK new \in {"ask", "returned", "done"} :
        /\ InMap(t) /\ lock' = [lock EXCEPT ![self[t]] = "free"]
        /\ Go(t, new)
        /\ UNCHANGED <<dns, records, nameServer, goal, host, self, server, answer>>
  BY DEF Miss, Unlock, Unlocked, InMap
<1>3. TypeOK'
  BY <1>2 DEF Go, TypeOK, Places
<1>4. Owned'
  <2>1. /\ ~InMap(t)' /\ self[t] \in Threads /\ lock[self[t]] = t
        /\ \A u \in Threads \ {t} : InMap(u)' = InMap(u)
        /\ \A i \in Threads : lock'[i] = IF i = self[t] THEN "free" ELSE lock[i]
    BY <1>2 DEF Go, TypeOK, InMap, Owned
  <2>2. \A u \in Threads : u # "free"
    BY NamesAssumption
  <2> QED BY <1>2, <2>1, <2>2 DEF Owned
<1>5. Fetched' /\ Divided'
  BY <1>1, <1>2 DEF Go, TypeOK, Fetched, Divided, Threads
<1> QED BY <1>3, <1>4, <1>5

\* Steps of a connection that leave the mutexes alone, in the map or out of it.
LEMMA ConnectionStep ==
  ASSUME IInv, NEW t \in Threads, Hit(t) \/ Ask(t) \/ Answered(t) \/ Store(t) \/ Use(t)
  PROVE  IInv'
<1> USE DEF IInv
<1>1. t \in Conns /\ goal[t] # "setServer"
  BY Connections DEF Hit, Ask, Answered, Store, Use
<1>2. UNCHANGED <<dns, lock, host, self>>
  BY DEF Hit, Ask, Answered, Store, Use, cacheVars
<1>3. PICK new \in {"unlock", "wait", "relock", "done", "start"} :
        Go(t, new) /\ (new = "unlock" <=> InMap(t))
  BY DEF Hit, Ask, Answered, Store, Use, InMap
<1>4. \A u \in Threads : goal'[u] = goal[u] \/ (u = t /\ goal'[u] = "release")
  BY DEF Hit, Ask, Answered, Store, Use, TypeOK
<1>5. TypeOK'
  <2>1. pc' \in [Threads -> Places]
    BY <1>3 DEF Go, TypeOK, Places
  <2>2. goal' \in [Threads -> Goals]
    <3>1. goal' = goal \/ goal' = [goal EXCEPT ![t] = "release"]
      BY DEF Hit, Ask, Answered, Store, Use
    <3> QED BY <3>1 DEF TypeOK, Goals
  <2>3. records' \in [Threads -> [Hosts -> Answers \cup {"absent"}]]
    <3>1. CASE Store(t)
      <4>1. PICK now \in Answers \cup {"absent"} :
              records' = [records EXCEPT ![self[t]][host[t]] = now]
        BY <3>1 DEF Store, TypeOK
      <4>2. host[t] \in Hosts /\ self[t] \in Threads
        BY <1>1 DEF TypeOK
      <4> QED BY <4>1, <4>2 DEF TypeOK
    <3>2. CASE UNCHANGED records
      BY <3>2 DEF TypeOK
    <3> QED BY <3>1, <3>2 DEF Hit, Ask, Answered, Use, cacheVars
  <2>4. server' \in [Threads -> Servers] /\ nameServer' = nameServer
    <3>1. nameServer' = nameServer
      BY DEF Hit, Ask, Answered, Store, Use, cacheVars
    <3>2. nameServer[self[t]] \in Servers
      BY DEF TypeOK
    <3>3. PICK now \in Servers : server' = server \/ server' = [server EXCEPT ![t] = now]
      BY <3>2 DEF Hit, Ask, Answered, Store, Use, Servers
    <3> QED BY <3>1, <3>3 DEF TypeOK
  <2>5. answer' \in [Threads -> Answers \cup {"absent"}]
    <3>1. CASE Hit(t)
      <4>1. Cached(t) \in Answers \cup {"absent"}
        BY <1>1 DEF Cached, TypeOK
      <4> QED BY <3>1, <4>1 DEF Hit, TypeOK
    <3>2. CASE Answered(t)
      BY <3>2 DEF Answered, TypeOK
    <3>3. CASE Ask(t) \/ Store(t) \/ Use(t)
      BY <3>3 DEF Ask, Store, Use, TypeOK
    <3> QED BY <3>1, <3>2, <3>3
  <2> QED BY <1>2, <2>1, <2>2, <2>3, <2>4, <2>5 DEF TypeOK
<1>6. Owned'
  <2>1. \A u \in Threads : InMap(u)' = InMap(u)
    BY <1>3 DEF Go, TypeOK, InMap
  <2> QED BY <1>2, <2>1 DEF Owned
<1>7. Fetched' /\ Divided'
  BY <1>1, <1>2, <1>3, <1>4 DEF Go, TypeOK, Fetched, Divided, Threads
<1> QED BY <1>5, <1>6, <1>7

\* setNameServer() takes no lock.
LEMMA AssignStep ==
  ASSUME IInv, NEW t \in Threads, Assign(t) PROVE IInv'
<1> USE DEF IInv
<1>1. PICK new \in {"done", "assign"} : Go(t, new)
  BY DEF Assign
<1>2. pc[t] = "assign" /\ UNCHANGED <<dns, records, lock, goal, host, self, server, answer>>
  BY DEF Assign
<1>3. TypeOK'
  <2>1. PICK name \in Servers : nameServer' = [nameServer EXCEPT ![self[t]] = name]
    BY DEF Assign, Servers
  <2> QED BY <1>1, <1>2, <2>1 DEF Go, TypeOK, Places
<1>4. Owned'
  BY <1>1, <1>2 DEF Go, TypeOK, InMap, Owned
<1>5. Fetched' /\ Divided'
  BY <1>1, <1>2 DEF Go, TypeOK, Fetched, Divided, Threads
<1> QED BY <1>3, <1>4, <1>5

\* Every step keeps the invariant.
LEMMA NextIInv == IInv /\ [Next]_vars => IInv'
<1>1. ASSUME IInv, NEW t \in Threads, Run(t) \/ Answered(t) PROVE IInv'
  BY <1>1, InstanceStep, LockStep, UnlockStep, ConnectionStep, AssignStep DEF Run
<1>2. ASSUME IInv, UNCHANGED vars PROVE IInv'
  BY <1>2 DEF vars, cacheVars, threadVars, IInv, TypeOK, Owned, InMap, Fetched, Divided
<1> QED BY <1>1, <1>2 DEF Next

\* The invariant says more than that one thread is in the map.
LEMMA IInvImplies == IInv => TypeOK /\ OneThreadInMap
<1> SUFFICES ASSUME IInv PROVE OneThreadInMap
  BY DEF IInv
<1>1. \A t \in Threads : self[t] \in Threads
  BY DEF IInv, TypeOK
<1> QED BY <1>1 DEF IInv, Owned, OneThreadInMap

\* The invariant of the cache's threads (dnscache.cpp).
THEOREM Invariant == Spec => []IInv
<1>1. Init => IInv
  BY InitIInv
<1>2. IInv /\ [Next]_vars => IInv'
  BY NextIInv
<1> QED BY <1>1, <1>2, PTL DEF Spec

\* Every variable keeps its type; in particular instance() never returns a null pointer.
THEOREM TypeCorrect == Spec => []TypeOK
<1>1. IInv => TypeOK
  BY IInvImplies
<1> QED BY <1>1, Invariant, PTL

\* However many threads race to create the cache, each map is touched under its mutex.
THEOREM MapUnderLock == Spec => []OneThreadInMap
<1>1. IInv => OneThreadInMap
  BY IInvImplies
<1> QED BY <1>1, Invariant, PTL

-----------------------------------------------------------------------------
(* The configured name server.                                             *)

Known ==
  /\ \A t \in Threads : goal[t] = "setServer" \/ pc[t] = "assign" => t = Loader
  /\ dns # "null" => dns \in Built
  /\ \A t \in Threads : pc[t] = "publish" => t \in Built
  /\ \A t \in Threads : pc[t] \notin {"start", "publish", "fetch"} => self[t] \in Built
  /\ pc[Loader] \notin {"start", "publish"} => dns # "null"
  /\ pc[Loader] = "done" => nameServer[self[Loader]] = "configured"

\* Nothing is constructed yet.
LEMMA InitKnown == Init => Known
BY DEF Init, Known, Threads

\* The call of instance(): what it constructs or gives is known.
LEMMA InstanceKnown ==
  ASSUME IInv, Known, NEW t \in Threads, FindInstance(t) \/ Build(t) \/ Publish(t) \/ Fetch(t)
  PROVE  Known'
<1> USE DEF IInv
<1>1. /\ UNCHANGED goal
      /\ \A u \in Threads \ {t} : pc'[u] = pc[u] /\ self'[u] = self[u]
      /\ Loader \in Threads /\ dns \in Threads \cup {"null"}
  BY DEF FindInstance, Build, Publish, Fetch, Go, TypeOK, Threads
<1>2. CASE FindInstance(t)
  <2>1. pc'[t] = "fetch" /\ dns # "null" /\ UNCHANGED <<dns, nameServer>>
    BY <1>2 DEF FindInstance, Go, TypeOK, cacheVars
  <2> QED BY <1>1, <2>1 DEF Known, Built
<1>3. CASE Build(t)
  <2>1. /\ pc'[t] = "publish" /\ pc[t] = "start" /\ dns = "null" /\ dns' = dns /\ self' = self
        /\ \A i \in Threads : nameServer'[i] = IF i = t THEN "default" ELSE nameServer[i]
    BY <1>3 DEF Build, Go, TypeOK
  <2>2. \A i \in Threads : i \in Built => i \in Built'
    BY <2>1 DEF Built
  <2>3. t \in Built'
    BY <2>1 DEF Built
  <2>4. pc[Loader] \in {"start", "publish"} /\ pc'[Loader] \in {"start", "publish"}
    BY <1>1, <2>1 DEF Known
  <2> QED BY <1>1, <2>1, <2>2, <2>3, <2>4 DEF Known, TypeOK
<1>4. CASE Publish(t)
  <2>1. /\ pc[t] = "publish" /\ pc'[t] = "fetch" /\ dns' = t /\ UNCHANGED <<nameServer, self>>
    BY <1>4 DEF Publish, Go, TypeOK
  <2>2. t \in Built' /\ t # "null"
    BY <2>1, NamesAssumption DEF Known, Built
  <2> QED BY <1>1, <2>1, <2>2 DEF Known, Built
<1>5. CASE Fetch(t)
  <2>1. /\ pc[t] = "fetch" /\ pc'[t] = (IF goal[t] = "setServer" THEN "assign" ELSE "lock")
        /\ self'[t] = dns /\ dns # "null" /\ UNCHANGED <<dns, nameServer>>
    BY <1>5 DEF Fetch, Go, TypeOK, Fetched, cacheVars
  <2>2. goal[Loader] = "setServer"
    BY DEF Divided
  <2>3. dns \in Built
    BY <2>1 DEF Known
  <2>4. Built' = Built
    BY <2>1 DEF Built
  <2> QED BY <1>1, <2>1, <2>2, <2>3, <2>4 DEF Known
<1> QED BY <1>2, <1>3, <1>4, <1>5

\* A connection that has its instance changes no pointer and no name server.
LEMMA ConnectionKnown ==
  ASSUME IInv, Known, NEW t \in Threads,
         \/ Lock(t) \/ Relock(t) \/ Miss(t) \/ Unlock(t)
         \/ Hit(t) \/ Ask(t) \/ Answered(t) \/ Store(t) \/ Use(t)
  PROVE  Known'
<1> USE DEF IInv
<1>1. t \in Conns /\ t # Loader
  BY Connections, LoaderAssumption DEF Lock, Relock, Acquire, Miss, Unlock, Hit, Ask, Answered, Store, Use
<1>2. UNCHANGED <<dns, nameServer, self>>
  BY DEF Lock, Relock, Acquire, Miss, Unlock, Hit, Ask, Answered, Store, Use, cacheVars
<1>3. PICK new \in Places \ {"publish", "fetch", "assign"} : Go(t, new)
  BY DEF Lock, Relock, Acquire, Miss, Unlock, Hit, Ask, Answered, Store, Use, Places
<1>4. pc[t] \notin {"start", "publish", "fetch"}
  BY DEF Lock, Relock, Acquire, Miss, Unlock, Hit, Ask, Answered, Store, Use
<1>5. \A u \in Threads : goal'[u] = goal[u] \/ goal'[u] = "release"
  BY DEF Lock, Relock, Acquire, Miss, Unlock, Hit, Ask, Answered, Store, Use, TypeOK
<1>6. /\ \A u \in Threads : pc'[u] = IF u = t THEN new ELSE pc[u]
      /\ Loader \in Threads
  BY <1>3 DEF Go, TypeOK, Threads
<1> QED BY <1>1, <1>2, <1>3, <1>4, <1>5, <1>6 DEF Known, Built

\* The loader assigns the name server; another instance keeps its own.
LEMMA AssignKnown == ASSUME IInv, Known, NEW t \in Threads, Assign(t) PROVE Known'
<1> USE DEF IInv
<1>1. t = Loader /\ pc[t] = "assign" /\ self[t] \in Threads
  BY DEF Assign, Known, TypeOK
<1>2. UNCHANGED <<dns, goal, self>>
  BY DEF Assign
<1>3. \A i \in Threads : nameServer'[i] =
        IF i = self[t] THEN (IF nameServer[i] = "torn" THEN "configured" ELSE "torn") ELSE nameServer[i]
  BY DEF Assign, TypeOK
<1>4. \A u \in Threads : pc'[u] =
        IF u = t THEN (IF nameServer[self[t]] = "torn" THEN "done" ELSE "assign") ELSE pc[u]
  BY DEF Assign, Go, TypeOK
<1>5. \A i \in Threads : i \in Built => i \in Built'
  BY <1>3 DEF Built
<1>6. dns \in Threads \cup {"null"} /\ \A u \in Threads : self[u] \in Threads
  BY DEF TypeOK
<1> QED BY <1>1, <1>2, <1>3, <1>4, <1>5, <1>6 DEF Known

\* Every step keeps what is known of the pointer.
LEMMA NextKnown == IInv /\ Known /\ [Next]_vars => Known'
<1>1. ASSUME IInv, Known, NEW t \in Threads, Run(t) \/ Answered(t) PROVE Known'
  BY <1>1, InstanceKnown, ConnectionKnown, AssignKnown DEF Run
<1>2. ASSUME Known, UNCHANGED vars PROVE Known'
  BY <1>2 DEF vars, cacheVars, threadVars, Known, Built
<1> QED BY <1>1, <1>2 DEF Next

\* Once setNameServer() has returned, a query asks the name server it was given,
\* however the calls of instance() went, if they made one cache.
THEOREM ConfiguredIsAsked == Spec => AsksConfigured
<1>1. IInv /\ Known =>
        [\A t \in Threads : pc[Loader] = "done" /\ (\A i, j \in Built : i = j) /\ Ask(t)
           => server'[t] = "configured"]_vars
  <2> SUFFICES ASSUME IInv, Known, NEW t \in Threads, pc[Loader] = "done", \A i, j \in Built : i = j, Ask(t)
               PROVE  server'[t] = "configured"
    OBVIOUS
  <2>1. pc[t] = "ask" /\ server'[t] = nameServer[self[t]]
    BY DEF Ask, IInv, TypeOK
  <2>2. self[t] \in Built /\ self[Loader] \in Built
    BY <2>1 DEF Known, Threads
  <2>3. self[t] = self[Loader]
    BY <2>2
  <2> QED BY <2>1, <2>3 DEF Known
<1>2. Spec => []Known
  <2>1. Init => Known
    BY InitKnown
  <2>2. IInv /\ Known /\ [Next]_vars => Known'
    BY NextKnown
  <2> QED BY <2>1, <2>2, Invariant, PTL DEF Spec
<1> QED BY <1>1, <1>2, Invariant, PTL DEF AsksConfigured
=============================================================================
