------------------------------ MODULE DnsCache ------------------------------
(***************************************************************************)
(* The address cache every connection shares: DnsCache (dnscache.cpp) and  *)
(* what the connections and the configuration loader do with it.           *)
(*                                                                         *)
(* A connection resolves one host and, if it cannot connect to what it     *)
(* got, releases the host's entry.  The loader sets the name server the    *)
(* configuration names.  All of them come to the cache through instance(), *)
(* which creates it for the first caller without any lock; callers that    *)
(* race create several.  An instance is named by the thread that made it.  *)
(*                                                                         *)
(* setNameServer() and doQueryA() use nameServer without the lock.  A copy *)
(* taken while it is being assigned is "torn": whatever the race leaves.   *)
(***************************************************************************)
EXTENDS Naturals

CONSTANTS Conns,   \* the connection threads
          Loader,  \* the thread of DownloadConfig
          Hosts    \* host names

ASSUME LoaderAssumption == Loader \notin Conns

Threads == Conns \cup {Loader}

ASSUME NamesAssumption == Threads \cap {"null", "free"} = {}

\* What a lookup gives: an address, or the host itself if the query failed.  A
\* reply without an address record gives the empty string, a name like any.
Answers == {"address", "itself"}

VARIABLES
  dns,         \* the static pointer, "null" or an instance
  records,     \* records of each instance
  nameServer,  \* nameServer of each instance, "none" before it is made
  lock,        \* the thread that holds the mutex of an instance, or "free"
  pc,          \* where each thread is
  goal,        \* what it came to instance() for
  host,        \* the host a connection asks for
  self,        \* the instance a thread works on
  server,      \* the name server copied into its query
  answer       \* what its lookup returns

cacheVars == <<dns, records, nameServer, lock>>
threadVars == <<pc, goal, host, self, server, answer>>
vars == <<cacheVars, threadVars>>

Goals == {"query", "release", "setServer"}
Places == {"start", "publish", "fetch", "lock", "lookup", "ask", "wait", "relock",
           "store", "unlock", "assign", "returned", "done"}
Servers == {"none", "default", "torn", "configured"}

TypeOK ==
  /\ dns \in Threads \cup {"null"}
  /\ records \in [Threads -> [Hosts -> Answers \cup {"absent"}]]
  /\ nameServer \in [Threads -> Servers]
  /\ lock \in [Threads -> Threads \cup {"free"}]
  /\ pc \in [Threads -> Places]
  /\ goal \in [Threads -> Goals]
  /\ host \in [Conns -> Hosts]
  /\ self \in [Threads -> Threads]
  /\ server \in [Threads -> Servers]
  /\ answer \in [Threads -> Answers \cup {"absent"}]

Init ==
  /\ dns = "null"
  /\ records = [i \in Threads |-> [h \in Hosts |-> "absent"]]
  /\ nameServer = [i \in Threads |-> "none"]
  /\ lock = [i \in Threads |-> "free"]
  /\ pc = [t \in Threads |-> "start"]
  /\ goal = [t \in Threads |-> IF t = Loader THEN "setServer" ELSE "query"]
  /\ host \in [Conns -> Hosts]
  /\ self = [t \in Threads |-> t]
  /\ server = [t \in Threads |-> "none"]
  /\ answer = [t \in Threads |-> "absent"]

Go(t, place) == pc' = [pc EXCEPT ![t] = place]

-----------------------------------------------------------------------------
(* DnsCache::instance().                                                   *)

FindInstance(t) ==
  /\ pc[t] = "start" /\ dns # "null"
  /\ Go(t, "fetch")
  /\ UNCHANGED <<cacheVars, goal, host, self, server, answer>>

\* The constructor sets the default name server; others cannot see it yet.
Build(t) ==
  /\ pc[t] = "start" /\ dns = "null"
  /\ nameServer' = [nameServer EXCEPT ![t] = "default"]
  /\ Go(t, "publish")
  /\ UNCHANGED <<dns, records, lock, goal, host, self, server, answer>>

\* Faulty variant: the default name server is set once more after the pointer.
PublishFirst(t) ==
  /\ pc[t] = "publish"
  /\ IF dns = t
     THEN /\ nameServer' = [nameServer EXCEPT ![t] = "default"]
          /\ Go(t, "fetch") /\ UNCHANGED dns
     ELSE dns' = t /\ UNCHANGED <<nameServer, pc>>
  /\ UNCHANGED <<records, lock, goal, host, self, server, answer>>

Publish(t) ==
  /\ pc[t] = "publish"
  /\ dns' = t
  /\ Go(t, "fetch")
  /\ UNCHANGED <<records, nameServer, lock, goal, host, self, server, answer>>

\* The pointer is read again for the return value.
Fetch(t) ==
  /\ pc[t] = "fetch"
  /\ self' = [self EXCEPT ![t] = dns]
  /\ Go(t, IF goal[t] = "setServer" THEN "assign" ELSE "lock")
  /\ UNCHANGED <<cacheVars, goal, host, server, answer>>

-----------------------------------------------------------------------------
(* queryA() and releaseItem().                                             *)

Acquire(t, from, to) ==
  /\ pc[t] = from /\ lock[self[t]] = "free"
  /\ lock' = [lock EXCEPT ![self[t]] = t]
  /\ Go(t, to)
  /\ UNCHANGED <<dns, records, nameServer, goal, host, self, server, answer>>

Lock(t) == Acquire(t, "lock", IF goal[t] = "query" THEN "lookup" ELSE "store")

Unlocked(t) == lock' = [lock EXCEPT ![self[t]] = "free"]

Cached(t) == records[self[t]][host[t]]

Hit(t) ==
  /\ pc[t] = "lookup" /\ Cached(t) # "absent"
  /\ answer' = [answer EXCEPT ![t] = Cached(t)]
  /\ Go(t, "unlock")
  /\ UNCHANGED <<cacheVars, goal, host, self, server>>

\* Faulty variant: the query is made under the lock.
MissKeepingLock(t) ==
  /\ pc[t] = "lookup" /\ Cached(t) = "absent"
  /\ Go(t, "ask")
  /\ UNCHANGED <<cacheVars, goal, host, self, server, answer>>

Miss(t) ==
  /\ pc[t] = "lookup" /\ Cached(t) = "absent"
  /\ Unlocked(t)
  /\ Go(t, "ask")
  /\ UNCHANGED <<dns, records, nameServer, goal, host, self, server, answer>>

\* doQueryA() copies the name server and connects to it.
Ask(t) ==
  /\ pc[t] = "ask"
  /\ server' = [server EXCEPT ![t] = nameServer[self[t]]]
  /\ Go(t, "wait")
  /\ UNCHANGED <<cacheVars, goal, host, self, answer>>

\* The server answers or the query fails; it may also take for ever.
Answered(t) ==
  /\ pc[t] = "wait"
  /\ \E a \in Answers : answer' = [answer EXCEPT ![t] = a]
  /\ server' = [server EXCEPT ![t] = "none"]
  /\ Go(t, "relock")
  /\ UNCHANGED <<cacheVars, goal, host, self>>

\* Faulty variant: the lock is not taken again before the answer is stored.
DontRelock(t) ==
  /\ pc[t] = "relock"
  /\ Go(t, "store")
  /\ UNCHANGED <<cacheVars, goal, host, self, server, answer>>

Relock(t) == Acquire(t, "relock", "store")

\* records[host] = targetIP, or records.erase(ip).
Store(t) ==
  /\ pc[t] = "store"
  /\ records' = [records EXCEPT ![self[t]][host[t]] =
                   IF goal[t] = "query" THEN answer[t] ELSE "absent"]
  /\ Go(t, "unlock")
  /\ UNCHANGED <<dns, nameServer, lock, goal, host, self, server, answer>>

Unlock(t) ==
  /\ pc[t] = "unlock"
  /\ Unlocked(t)
  /\ Go(t, IF goal[t] = "query" THEN "returned" ELSE "done")
  /\ UNCHANGED <<dns, records, nameServer, goal, host, self, server, answer>>

\* process() connects, or releases the host's entry.
Use(t) ==
  /\ pc[t] = "returned"
  /\ \/ Go(t, "done") /\ UNCHANGED goal
     \/ Go(t, "start") /\ goal' = [goal EXCEPT ![t] = "release"]
  /\ answer' = [answer EXCEPT ![t] = "absent"]
  /\ UNCHANGED <<cacheVars, host, self, server>>

-----------------------------------------------------------------------------
(* setNameServer(), the assignment of a string without the lock.           *)

Assign(t) ==
  /\ pc[t] = "assign"
  /\ nameServer' = [nameServer EXCEPT ![self[t]] =
                      IF @ = "torn" THEN "configured" ELSE "torn"]
  /\ Go(t, IF nameServer[self[t]] = "torn" THEN "done" ELSE "assign")
  /\ UNCHANGED <<dns, records, lock, goal, host, self, server, answer>>

\* Every step but the answer of a name server.
Run(t) ==
  \/ FindInstance(t) \/ Build(t) \/ Publish(t) \/ Fetch(t)
  \/ Lock(t) \/ Hit(t) \/ Miss(t) \/ Ask(t) \/ Relock(t) \/ Store(t) \/ Unlock(t)
  \/ Use(t) \/ Assign(t)

Next == \E t \in Threads : Run(t) \/ Answered(t)

Spec == Init /\ [][Next]_vars

\* Threads are scheduled; no name server has to answer.
FairSpec == Spec /\ \A t \in Threads : WF_vars(Run(t))

-----------------------------------------------------------------------------
(* Correctness.                                                            *)

\* The map of an instance is touched by one thread at a time, the one that
\* holds its mutex: also after queryA() gave the mutex up to ask the server.
InMap(t) == pc[t] \in {"lookup", "store", "unlock"}

OneThreadInMap ==
  \A t \in Threads : InMap(t) <=> lock[self[t]] = t

\* Once the loader has set the configured name server every query asks it: no
\* query asks the default one, or half a name, unless callers of instance()
\* raced and made more than one cache.
Built == {i \in Threads : nameServer[i] # "none"}

AsksConfigured ==
  [][\A t \in Threads : pc[Loader] = "done" /\ (\A i, j \in Built : i = j) /\ Ask(t)
       => server'[t] = "configured"]_vars

\* A lookup of a cached host, or the release of one, never waits for a name
\* server that does not answer somebody else's query.
NeverWaitsForServers == \A t \in Conns : pc[t] = "lock" ~> pc[t] # "lock"
=============================================================================
