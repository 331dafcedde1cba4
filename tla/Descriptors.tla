---------------------------- MODULE Descriptors -----------------------------
(***************************************************************************)
(* The descriptor table the threads of a process share: the sockets of the *)
(* connections (HttpSocket, DnsQuery), of the configuration loader and, in *)
(* the Android agent, of the DNS forwarder (DnsServer), and what           *)
(* gethostbyname() opens while it runs in a connection or the loader.      *)
(*                                                                         *)
(* The kernel gives the lowest free number and closes whatever has the     *)
(* number it is told.  Free numbers 1 to Limit are those left to these     *)
(* threads; 0 stands for the -1 of a call that got none.  The table is     *)
(* modelled from how the code uses it.                                     *)
(***************************************************************************)
EXTENDS Naturals, FiniteSetsExt

CONSTANTS Conns,        \* the connection threads
          Limit,        \* descriptors they, the loader and the forwarder can have
          LookupFds,    \* descriptors gethostbyname() has open at a time at most
          Processes     \* the threads a process may have: "forwarder" in the agent only

ASSUME LimitAssumption == Limit \in Nat \ {0} /\ LookupFds \in Nat
ASSUME NamesAssumption == Conns \cap {"loader", "forwarder", "free"} = {}
ASSUME ProcessesAssumption == Processes \subseteq SUBSET (Conns \cup {"loader", "forwarder"})

VARIABLES
  running,    \* the threads of this process
  owner,      \* who opened the descriptor that has a number, or "free"
  place,      \* where each thread is
  client, query, remote,  \* the numbers a connection holds
  retried,    \* a connection has replaced its remote socket
  conf, http, \* the numbers of the loader
  lookup,     \* those gethostbyname() has open in a thread that called it
  sb,         \* the number of the forwarder
  aborted     \* an assert() has ended the process

connVars == <<client, query, remote, retried>>
loaderVars == <<conf, http>>
vars == <<running, owner, place, connVars, loaderVars, lookup, sb, aborted>>

Fds == 1..Limit
Threads == Conns \cup {"loader", "forwarder"}
Callers == Conns \cup {"loader"}   \* of HttpSocket::connect()
Places == {"idle", "resolve", "ask", "connect", "name", "serve", "drop", "dropRemote",
           "start", "query", "download", "size", "reply", "done"}

TypeOK ==
  /\ running \in Processes
  /\ owner \in [Fds -> Threads \cup {"free"}]
  /\ place \in [Threads -> Places]
  /\ client \in [Conns -> 0..Limit]
  /\ query \in [Conns -> 0..Limit]
  /\ remote \in [Conns -> 0..Limit]
  /\ retried \in [Conns -> BOOLEAN]
  /\ {conf, http, sb} \subseteq 0..Limit
  /\ lookup \in [Callers -> SUBSET Fds]
  /\ aborted \in BOOLEAN

Init ==
  /\ running \in Processes
  /\ owner = [n \in Fds |-> "free"]
  /\ place = [t \in Threads |-> IF t = "loader" THEN "start" ELSE "idle"]
  /\ client = [c \in Conns |-> 0]
  /\ query = [c \in Conns |-> 0]
  /\ remote = [c \in Conns |-> 0]
  /\ retried = [c \in Conns |-> FALSE]
  /\ conf = 0 /\ http = 0 /\ sb = 0
  /\ lookup = [t \in Callers |-> {}]
  /\ aborted = FALSE

Go(t, where) == place' = [place EXCEPT ![t] = where]

Free == {n \in Fds : owner[n] = "free"}

\* What socket() or accept() returns.
Lowest == IF Free = {} THEN 0 ELSE Min(Free)

Taken(t, n) == owner' = [m \in Fds |-> IF m = n THEN t ELSE owner[m]]

\* close(n): closing a number that is free, or -1, does nothing.
Closed(numbers) == owner' = [m \in Fds |-> IF m \in numbers THEN "free" ELSE owner[m]]

\* assert(socketHandle != -1) in DnsQuery::connect().
AssertOpen(n) == aborted' = (n = 0)

-----------------------------------------------------------------------------
(* gethostbyname(), as connect() sees it: it opens sockets and files of    *)
(* its own, fails without a descriptor, and has closed all it opened when  *)
(* it returns.                                                             *)

LookupOpens(t) ==
  /\ place[t] = "name" /\ Free # {} /\ Cardinality(lookup[t]) < LookupFds
  /\ lookup' = [lookup EXCEPT ![t] = @ \cup {Lowest}] /\ Taken(t, Lowest)
  /\ UNCHANGED <<place, connVars, loaderVars, sb, aborted>>

LookupCloses(t) ==
  /\ place[t] = "name"
  /\ \E n \in lookup[t] : lookup' = [lookup EXCEPT ![t] = @ \ {n}] /\ Closed({n})
  /\ UNCHANGED <<place, connVars, loaderVars, sb, aborted>>

\* connect() goes on to one of these places.
LookupReturns(t, places) ==
  /\ place[t] = "name" /\ lookup[t] = {}
  /\ \E where \in places : Go(t, where)
  /\ UNCHANGED <<owner, connVars, loaderVars, lookup, sb, aborted>>

Lookup(t, places) == LookupOpens(t) \/ LookupCloses(t) \/ LookupReturns(t, places)

-----------------------------------------------------------------------------
(* A connection: HttpConnection, and DnsCache::doQueryA().                 *)

Accept(c) ==
  /\ place[c] = "idle" /\ Free # {}
  /\ client' = [client EXCEPT ![c] = Lowest] /\ Taken(c, Lowest)
  /\ retried' = [retried EXCEPT ![c] = FALSE]
  /\ Go(c, "resolve")
  /\ UNCHANGED <<query, remote, loaderVars, lookup, sb, aborted>>

\* The client goes away, its host needs no query, or one is made.
NoQuery(c) ==
  /\ place[c] = "resolve"
  /\ Go(c, "drop") \/ Go(c, "connect")
  /\ UNCHANGED <<owner, connVars, loaderVars, lookup, sb, aborted>>

OpenQuery(c) ==
  /\ place[c] = "resolve"
  /\ query' = [query EXCEPT ![c] = Lowest] /\ Taken(c, Lowest)
  /\ AssertOpen(Lowest)
  /\ Go(c, "ask")
  /\ UNCHANGED <<client, remote, retried, loaderVars, lookup, sb>>

\* ~DnsQuery() at the end of doQueryA().
EndQuery(c) ==
  /\ place[c] = "ask"
  /\ query' = [query EXCEPT ![c] = 0] /\ Closed({query[c]})
  /\ Go(c, "connect")
  /\ UNCHANGED <<client, remote, retried, loaderVars, lookup, sb, aborted>>

\* HttpSocket::connect(): without a descriptor, or a connection, the request
\* is over; the socket is kept until the end of process().  A host that is not
\* an address is looked up first, with the new socket open.
OpenRemote(c) ==
  /\ place[c] = "connect"
  /\ remote' = [remote EXCEPT ![c] = Lowest] /\ Taken(c, Lowest)
  /\ Go(c, "drop") \/ (Lowest # 0 /\ (Go(c, "serve") \/ Go(c, "name")))
  /\ UNCHANGED <<client, query, retried, loaderVars, lookup, sb, aborted>>

\* Faulty variant: the descriptor is closed, the handle is kept.
RetryKeepingHandle(c) ==
  /\ place[c] = "serve" /\ ~retried[c]
  /\ Closed({remote[c]})
  /\ retried' = [retried EXCEPT ![c] = TRUE]
  /\ Go(c, "connect")
  /\ UNCHANGED <<client, query, remote, loaderVars, lookup, sb, aborted>>

\* The retry deletes the remote socket before it makes another one.
Retry(c) ==
  /\ place[c] = "serve" /\ ~retried[c]
  /\ remote' = [remote EXCEPT ![c] = 0] /\ Closed({remote[c]})
  /\ retried' = [retried EXCEPT ![c] = TRUE]
  /\ Go(c, "connect")
  /\ UNCHANGED <<client, query, loaderVars, lookup, sb, aborted>>

EndExchange(c) ==
  /\ place[c] = "serve" /\ Go(c, "drop")
  /\ UNCHANGED <<owner, connVars, loaderVars, lookup, sb, aborted>>

\* Faulty variant: the client socket is forgotten, not deleted.
ForgetClient(c) ==
  /\ place[c] = "drop"
  /\ client' = [client EXCEPT ![c] = 0]
  /\ Go(c, "dropRemote")
  /\ UNCHANGED <<owner, query, remote, retried, loaderVars, lookup, sb, aborted>>

DropClient(c) ==
  /\ place[c] = "drop"
  /\ client' = [client EXCEPT ![c] = 0] /\ Closed({client[c]})
  /\ Go(c, "dropRemote")
  /\ UNCHANGED <<query, remote, retried, loaderVars, lookup, sb, aborted>>

\* Faulty variant: the remote socket of a retry is not deleted.
DropUnlessRetried(c) ==
  /\ place[c] = "dropRemote"
  /\ remote' = [remote EXCEPT ![c] = 0]
  /\ Closed(IF retried[c] THEN {} ELSE {remote[c]})
  /\ Go(c, "idle")
  /\ UNCHANGED <<client, query, retried, loaderVars, lookup, sb, aborted>>

DropRemote(c) ==
  /\ place[c] = "dropRemote"
  /\ remote' = [remote EXCEPT ![c] = 0] /\ Closed({remote[c]})
  /\ Go(c, "idle")
  /\ UNCHANGED <<client, query, retried, loaderVars, lookup, sb, aborted>>

-----------------------------------------------------------------------------
(* The loader: DownloadConfig::process().                                  *)

LoaderOpensQuery ==
  /\ place["loader"] = "start"
  /\ conf' = Lowest /\ Taken("loader", Lowest)
  /\ AssertOpen(Lowest)
  /\ Go("loader", "query")
  /\ UNCHANGED <<connVars, http, lookup, sb>>

\* The query object lives until process() returns.
LoaderGivesUp ==
  /\ place["loader"] = "query"
  /\ conf' = 0 /\ Closed({conf})
  /\ Go("loader", "done")
  /\ UNCHANGED <<connVars, http, lookup, sb, aborted>>

LoaderOpensHttp ==
  /\ place["loader"] = "query"
  /\ http' = Lowest /\ Taken("loader", Lowest)
  /\ Go("loader", "download") \/ (Lowest # 0 /\ Go("loader", "name"))
  /\ UNCHANGED <<connVars, conf, lookup, sb, aborted>>

\* If the server cannot be reached process() returns without deleting http.
LoaderEnds ==
  /\ place["loader"] = "download"
  /\ conf' = 0
  /\ \/ http # 0 /\ http' = 0 /\ Closed({conf, http})
     \/ UNCHANGED http /\ Closed({conf})
  /\ Go("loader", "done")
  /\ UNCHANGED <<connVars, lookup, sb, aborted>>

-----------------------------------------------------------------------------
(* The forwarder of the agent: DnsServer::process().                       *)

\* A request has come: socket() is called and its result is not looked at.
ForwarderOpens ==
  /\ place["forwarder"] = "idle"
  /\ sb' = Lowest /\ Taken("forwarder", Lowest)
  /\ Go("forwarder", "connect")
  /\ UNCHANGED <<connVars, loaderVars, lookup, aborted>>

\* connect(), send() or the first recv() fails.
ForwarderGivesUp ==
  /\ place["forwarder"] \in {"connect", "size"}
  /\ sb' = 0 /\ Closed({sb})
  /\ Go("forwarder", "idle")
  /\ UNCHANGED <<connVars, loaderVars, lookup, aborted>>

ForwarderAsks ==
  /\ place["forwarder"] = "connect" /\ sb # 0
  /\ Go("forwarder", "size")
  /\ UNCHANGED <<owner, connVars, loaderVars, lookup, sb, aborted>>

\* The loop over the answer is left with sb open, or closed if recv() failed.
ForwarderHears ==
  /\ place["forwarder"] = "size"
  /\ UNCHANGED owner \/ Closed({sb})
  /\ Go("forwarder", "reply")
  /\ UNCHANGED <<connVars, loaderVars, lookup, sb, aborted>>

\* sendto() and close(sb), in both cases.
ForwarderReplies ==
  /\ place["forwarder"] = "reply"
  /\ sb' = 0 /\ Closed({sb})
  /\ Go("forwarder", "idle")
  /\ UNCHANGED <<connVars, loaderVars, lookup, aborted>>

-----------------------------------------------------------------------------
Connection(c) ==
  \/ Accept(c) \/ NoQuery(c) \/ OpenQuery(c) \/ EndQuery(c) \/ OpenRemote(c)
  \/ Lookup(c, {"serve", "drop"}) \/ Retry(c) \/ EndExchange(c) \/ DropClient(c) \/ DropRemote(c)

Loader ==
  \/ LoaderOpensQuery \/ LoaderGivesUp \/ LoaderOpensHttp
  \/ Lookup("loader", {"download"}) \/ LoaderEnds

Forwarder ==
  \/ ForwarderOpens \/ ForwarderGivesUp \/ ForwarderAsks \/ ForwarderHears
  \/ ForwarderReplies

Runs(t, step) == t \in running /\ ~aborted /\ step /\ UNCHANGED running

Next ==
  \/ Runs("loader", Loader) \/ Runs("forwarder", Forwarder)
  \/ \E c \in Conns : Runs(c, Connection(c))

Spec == Init /\ [][Next]_vars

\* Threads are scheduled and every wait of a connection ends: its peers answer
\* or go away, which nothing in the code makes them do.
FairSpec == Spec /\ \A c \in Conns : WF_vars(Runs(c, Connection(c)))

-----------------------------------------------------------------------------
(* Correctness.                                                            *)

\* In a program without the forwarder, which may close a number twice, no thread uses
\* or closes one that stands for somebody else's socket: what a connection holds is its
\* own, through failed calls, retries and a table that is full.
Mine(c, n) == n = 0 \/ owner[n] = c

OwnDescriptors ==
  "forwarder" \notin running =>
    \A c \in Conns : \A n \in {client[c], query[c], remote[c]} \cup lookup[c] : Mine(c, n)

\* When every thread is at rest the table is as at the start, but for the one
\* socket the loader may leave open, however often sockets failed or were
\* closed twice meanwhile.
AtRest ==
  /\ \A c \in Conns \cup {"forwarder"} : place[c] = "idle"
  /\ "loader" \in running => place["loader"] = "done"

AllGivenBack == AtRest => Fds \ Free \subseteq {http}

\* A full table in which clients have a part empties again while peers come and go,
\* whatever the loader and the forwarder still wait for.
FullTableDrains == Free = {} /\ (\E c \in Conns : client[c] # 0) ~> Free # {} \/ aborted

\* What the assertion of DnsQuery::connect() says: socket() gives a descriptor.
QueryHasSocket == ~aborted
=============================================================================
