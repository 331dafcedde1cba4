---------------------------- MODULE ProxyServer ----------------------------
(***************************************************************************)
(* The accept loop of HttpServer (httpserver.cpp), the connection objects  *)
(* it owns and the thread CppThread (cppthread.cpp) runs for each of them. *)
(*                                                                         *)
(* Three kinds of process interleave: the server thread running            *)
(* HttpServer::process(), one thread per HttpConnection, and the owner of  *)
(* the server, which may call HttpServer::close().  What a connection does *)
(* between the start and the end of HttpConnection::process() is one state *)
(* here ("serving"): module HttpConnection opens it up.                    *)
(*                                                                         *)
(* Conns is a set of heap addresses: an object that is deleted gives its   *)
(* address back and a later accept may use it again, so a behaviour serves *)
(* any number of clients.                                                  *)
(***************************************************************************)
EXTENDS Naturals, FiniteSets, SequencesExt

CONSTANTS Conns,       \* addresses an HttpConnection object can have
          ThreadLimit  \* joinable threads the process can hold at a time

ASSUME ConnsAssumption == IsFiniteSet(Conns)
ASSUME ThreadLimitAssumption == ThreadLimit \in Nat \ {0}

VARIABLES
  pc,           \* where the server thread is in process()/checkConnections()
  final,        \* TRUE in the checkConnections() call that follows the loop
  conn,         \* the local variable conn of process()
  it,           \* the iterator of checkConnections(), as an index
  connections,  \* HttpServer::connections
  listener,     \* HttpServer::listenSocket
  closed,       \* HttpServer::closed
  owner,        \* progress of the owner's call of HttpServer::close()
  live,         \* addresses that hold an object: between new and delete
  thread,       \* where the thread of each connection is
  started,      \* CppThread::started of each connection
  isClosed,     \* HttpConnection::closed
  client,       \* HttpConnection::clientSocket
  remote,       \* HttpConnection::remoteSocket
  due           \* history: connections closed when the current scan began

serverVars == <<pc, final, conn, it, connections>>
ownerVars  == <<listener, closed, owner>>
objectVars == <<live, thread, started, isClosed, client, remote>>
vars == <<serverVars, ownerVars, objectVars, due>>

ServerSteps == {"bind", "loop", "accept", "start", "push", "check", "close",
                "scan", "join", "delete", "done"}
ThreadSteps == {"none", "created", "serving", "dropClient", "dropRemote",
                "markClosed", "leaving", "exited"}
Sockets == {"null", "open", "shut"}

TypeOK ==
  /\ pc \in ServerSteps
  /\ final \in BOOLEAN
  /\ conn \in Conns \cup {"none"}
  /\ it \in Nat \ {0}
  /\ connections \in Seq(Conns)
  /\ listener \in {"unopened", "bound", "unbound", "shut"}
  /\ closed \in BOOLEAN
  /\ owner \in {"idle", "closing", "done"}
  /\ live \in SUBSET Conns
  /\ thread \in [Conns -> ThreadSteps]
  /\ started \in [Conns -> BOOLEAN]
  /\ isClosed \in [Conns -> BOOLEAN]
  /\ client \in [Conns -> Sockets]
  /\ remote \in [Conns -> Sockets]
  /\ due \in SUBSET Conns

\* Threads that were created and not joined yet: each one keeps its stack.
Joinable == {c \in Conns : thread[c] # "none"}

Init ==
  /\ pc = "bind" /\ final = FALSE /\ conn = "none" /\ it = 1
  /\ connections = <<>>
  /\ listener = "unopened" /\ closed = FALSE /\ owner = "idle"
  /\ live = {}
  /\ thread = [c \in Conns |-> "none"]
  /\ started = [c \in Conns |-> FALSE]
  /\ isClosed = [c \in Conns |-> FALSE]
  /\ client = [c \in Conns |-> "null"]
  /\ remote = [c \in Conns |-> "null"]
  /\ due = {}

-----------------------------------------------------------------------------
(* The server thread: HttpServer::process().                               *)

\* bind() fails before or after socket(): process() only prints a message.
Bind ==
  /\ pc = "bind" /\ pc' = "loop"
  /\ listener' \in {"bound", "unbound", "unopened"}
  /\ UNCHANGED <<final, conn, it, connections, closed, owner, objectVars, due>>

\* accept() on handle -1 returns NULL at once and the loop spins in place;
\* on an open handle the thread blocks in the call.
EnterAccept ==
  /\ pc = "loop" /\ ~closed
  /\ listener \in {"bound", "unbound"}
  /\ pc' = "accept"
  /\ UNCHANGED <<final, conn, it, connections, ownerVars, objectVars, due>>

AcceptNull ==
  /\ pc = "accept" /\ pc' = "loop"
  /\ UNCHANGED <<final, conn, it, connections, ownerVars, objectVars, due>>

\* A client arrives and the HttpConnection is built.  A thread blocked in
\* accept() is still served after close() has closed the handle.
Accept(c) ==
  /\ pc = "accept" /\ listener \in {"bound", "shut"}
  /\ c \notin live
  /\ pc' = "start" /\ conn' = c
  /\ live' = live \cup {c}
  /\ client' = [client EXCEPT ![c] = "open"]
  /\ UNCHANGED <<final, it, connections, ownerVars, thread, started, isClosed,
                 remote, due>>

\* while(0 != pthread_create(...)): the loop spins while no thread can be had.
StartThread ==
  /\ pc = "start" /\ pc' = "push"
  /\ Cardinality(Joinable) < ThreadLimit
  /\ ~started[conn]
  /\ thread' = [thread EXCEPT ![conn] = "created"]
  /\ UNCHANGED <<final, conn, it, connections, ownerVars, live, started,
                 isClosed, client, remote, due>>

PushBack ==
  /\ pc = "push" /\ pc' = "check"
  /\ connections' = Append(connections, conn)
  /\ conn' = "none"
  /\ UNCHANGED <<final, it, ownerVars, objectVars, due>>

LeaveLoop ==
  /\ pc = "loop" /\ closed
  /\ pc' = "check" /\ final' = TRUE
  /\ UNCHANGED <<conn, it, connections, ownerVars, objectVars, due>>

-----------------------------------------------------------------------------
(* The server thread: HttpServer::checkConnections().                      *)

StartScan ==
  /\ pc' = "scan" /\ it' = 1
  /\ due' = {c \in live : isClosed[c]}

CheckConnections ==
  /\ pc = "check"
  /\ \/ closed /\ pc' = "close" /\ it' = 1 /\ UNCHANGED due
     \/ ~closed /\ StartScan
  /\ UNCHANGED <<final, conn, connections, ownerVars, objectVars>>

Shut(sock) == IF sock = "open" THEN "shut" ELSE sock

\* HttpConnection::close() on the next connection of the vector.
CloseConnection ==
  /\ pc = "close" /\ it <= Len(connections)
  /\ LET c == connections[it]
     IN /\ client' = [client EXCEPT ![c] = Shut(@)]
        /\ remote' = [remote EXCEPT ![c] = Shut(@)]
  /\ it' = it + 1
  /\ UNCHANGED <<pc, final, conn, connections, ownerVars, live, thread,
                 started, isClosed, due>>

AllTold ==
  /\ pc = "close" /\ it > Len(connections)
  /\ StartScan
  /\ UNCHANGED <<final, conn, connections, ownerVars, objectVars>>

KeepOpen ==
  /\ pc = "scan" /\ it <= Len(connections)
  /\ ~isClosed[connections[it]]
  /\ it' = it + 1
  /\ UNCHANGED <<pc, final, conn, connections, ownerVars, objectVars, due>>

\* Faulty variant: every connection is joined, not only the closed ones.
FoundAny ==
  /\ pc = "scan" /\ it <= Len(connections)
  /\ pc' = "join"
  /\ UNCHANGED <<final, conn, it, connections, ownerVars, objectVars, due>>

FoundClosed ==
  /\ pc = "scan" /\ it <= Len(connections)
  /\ isClosed[connections[it]]
  /\ pc' = "join"
  /\ UNCHANGED <<final, conn, it, connections, ownerVars, objectVars, due>>

\* Faulty variant: the object is deleted without pthread_join().
DontJoin ==
  /\ pc = "join" /\ pc' = "delete"
  /\ UNCHANGED <<final, conn, it, connections, ownerVars, objectVars, due>>

JoinThread ==
  /\ pc = "join" /\ thread[connections[it]] = "exited"
  /\ pc' = "delete"
  /\ thread' = [thread EXCEPT ![connections[it]] = "none"]
  /\ UNCHANGED <<final, conn, it, connections, ownerVars, live, started,
                 isClosed, client, remote, due>>

\* The fields of a deleted object read as fresh.
BuryObject(c) ==
  /\ live' = live \ {c}
  /\ started' = [started EXCEPT ![c] = FALSE]
  /\ isClosed' = [isClosed EXCEPT ![c] = FALSE]
  /\ client' = [client EXCEPT ![c] = "null"]
  /\ remote' = [remote EXCEPT ![c] = "null"]

\* Faulty variant: the element is not erased.
DeleteKeepsElement ==
  /\ pc = "delete" /\ pc' = "scan"
  /\ BuryObject(connections[it])
  /\ UNCHANGED <<final, conn, it, connections, ownerVars, thread, due>>

\* Faulty variant: the iterator is advanced after the erasure.
DeleteSkipsNext ==
  /\ pc = "delete" /\ pc' = "scan"
  /\ connections' = RemoveAt(connections, it) /\ it' = it + 1
  /\ BuryObject(connections[it])
  /\ UNCHANGED <<final, conn, ownerVars, thread, due>>

\* delete conn; connections.erase(it): the iterator then addresses the
\* element that followed.
DeleteConnection ==
  /\ pc = "delete" /\ pc' = "scan"
  /\ connections' = RemoveAt(connections, it)
  /\ BuryObject(connections[it])
  /\ UNCHANGED <<final, conn, it, ownerVars, thread, due>>

EndCheck ==
  /\ pc = "scan" /\ it > Len(connections)
  /\ pc' = IF final THEN "done" ELSE "loop"
  /\ it' = 1 /\ due' = {}
  /\ UNCHANGED <<final, conn, connections, ownerVars, objectVars>>

ServerStep ==
  \/ Bind \/ EnterAccept \/ StartThread \/ PushBack \/ LeaveLoop
  \/ CheckConnections \/ CloseConnection \/ AllTold
  \/ KeepOpen \/ FoundClosed \/ JoinThread \/ DeleteConnection \/ EndCheck

-----------------------------------------------------------------------------
(* The thread of connection c: CppThread::beginThread() around             *)
(* HttpConnection::process().                                              *)

BeginThread(c) ==
  /\ thread[c] = "created"
  /\ thread' = [thread EXCEPT ![c] = "serving"]
  /\ started' = [started EXCEPT ![c] = TRUE]
  /\ UNCHANGED <<serverVars, ownerVars, live, isClosed, client, remote, due>>

\* remoteSocket = new HttpSocket(), the first one or the one of the retry.
OpenRemote(c) ==
  /\ thread[c] = "serving"
  /\ remote' = [remote EXCEPT ![c] = "open"]
  /\ UNCHANGED <<serverVars, ownerVars, live, thread, started, isClosed,
                 client, due>>

\* The request loop is left, by whichever of its breaks.
EndService(c) ==
  /\ thread[c] = "serving"
  /\ thread' = [thread EXCEPT ![c] = "dropClient"]
  /\ UNCHANGED <<serverVars, ownerVars, live, started, isClosed, client,
                 remote, due>>

DropClient(c) ==
  /\ thread[c] = "dropClient"
  /\ thread' = [thread EXCEPT ![c] = "dropRemote"]
  /\ client' = [client EXCEPT ![c] = "null"]
  /\ UNCHANGED <<serverVars, ownerVars, live, started, isClosed, remote, due>>

DropRemote(c) ==
  /\ thread[c] = "dropRemote"
  /\ thread' = [thread EXCEPT ![c] = "markClosed"]
  /\ remote' = [remote EXCEPT ![c] = "null"]
  /\ UNCHANGED <<serverVars, ownerVars, live, started, isClosed, client, due>>

MarkClosed(c) ==
  /\ thread[c] = "markClosed"
  /\ thread' = [thread EXCEPT ![c] = "leaving"]
  /\ isClosed' = [isClosed EXCEPT ![c] = TRUE]
  /\ UNCHANGED <<serverVars, ownerVars, live, started, client, remote, due>>

\* Faulty variant: a detached thread, whose slot is free when it exits.
EndDetached(c) ==
  /\ thread[c] = "leaving"
  /\ thread' = [thread EXCEPT ![c] = "none"]
  /\ started' = [started EXCEPT ![c] = FALSE]
  /\ UNCHANGED <<serverVars, ownerVars, live, isClosed, client, remote, due>>

\* beginThread() writes started once more before it returns.
EndThread(c) ==
  /\ thread[c] = "leaving"
  /\ thread' = [thread EXCEPT ![c] = "exited"]
  /\ started' = [started EXCEPT ![c] = FALSE]
  /\ UNCHANGED <<serverVars, ownerVars, live, isClosed, client, remote, due>>

\* The steps a scheduled thread takes whatever its peers do.
ThreadStep(c) ==
  \/ BeginThread(c) \/ DropClient(c) \/ DropRemote(c)
  \/ MarkClosed(c) \/ EndThread(c)

-----------------------------------------------------------------------------
(* The owner: HttpServer::close(), two unsynchronised writes.              *)

ShutListener ==
  /\ owner = "idle" /\ owner' = "closing"
  /\ listener' = IF listener = "unopened" THEN "unopened" ELSE "shut"
  /\ UNCHANGED <<closed, serverVars, objectVars, due>>

SetClosed ==
  /\ owner = "closing" /\ owner' = "done"
  /\ closed' = TRUE
  /\ UNCHANGED <<listener, serverVars, objectVars, due>>

Next ==
  \/ ServerStep
  \/ AcceptNull
  \/ \E c \in Conns : Accept(c) \/ ThreadStep(c) \/ OpenRemote(c) \/ EndService(c)
  \/ ShutListener
  \/ SetClosed

Spec == Init /\ [][Next]_vars

\* Threads that can run are scheduled.  Nothing makes a client connect,
\* finish its exchange or go away, and nobody has to call close().
Fairness == WF_vars(ServerStep) /\ \A c \in Conns : WF_vars(ThreadStep(c))

FairSpec == Spec /\ Fairness

-----------------------------------------------------------------------------
(* Correctness.                                                            *)

\* No thread runs in an object that has been deleted: checkConnections()
\* joins a connection's thread, which still writes `started' after it has
\* set `closed', before it deletes the object and its address is reused.
NoThreadInDeadObject == \A c \in Conns : thread[c] # "none" => c \in live

\* The vector holds every connection that exists exactly once, and nothing
\* else, but for the object process() is between creating and pushing: no
\* object leaks and checkConnections() follows no stale pointer.
InHand == IF pc \in {"start", "push"} THEN {conn} ELSE {}

VectorIsExact ==
  /\ IsInjective(connections)
  /\ Range(connections) \cap InHand = {}
  /\ live = Range(connections) \cup InHand

\* checkConnections() deletes every connection that was closed when its scan
\* began: erasing an element makes the loop skip none.
ScanReapsAll == pc = "scan" /\ it > Len(connections) => due \cap live = {}

\* The server thread never waits in pthread_join() for a connection that is
\* still serving its client, however long that client stays.
JoinsOnlyFinished ==
  pc = "join" => thread[connections[it]] \in {"leaving", "exited"}

\* When process() has ended after HttpServer::close(), no connection still in
\* the vector has an open client socket.
ClientsToldAtEnd ==
  pc = "done" => \A c \in Range(connections) : client[c] # "open"

\* pthread_create() has no slot left: startThread() spins.
StartStuck == pc = "start" /\ Cardinality(Joinable) >= ThreadLimit

\* Once startThread() spins because every thread slot is taken it spins for
\* ever: slots come back by joining and the spinning thread is the only one
\* that joins, so connections that end meanwhile do not help.
FullTableIsForever == [][StartStuck => StartStuck']_vars

\* Work on one client never keeps the server from the next one: apart from a
\* full thread table, the accept loop comes round even when every connection
\* is served for ever.
ComesRound ==
  pc \in ServerSteps \ {"loop", "accept", "done"}
    ~> pc \in {"loop", "done"} \/ StartStuck

\* Once close() has set the flag and the server is not blocked in accept(),
\* process() ends, also when connections are still being served.
EndsAfterClose == closed /\ pc # "accept" ~> pc = "done" \/ StartStuck

\* What the owner of the server may rely on: ConnectionPool.
Joined(c) == pc = "delete" /\ connections[it] = c /\ thread[c] = "none"

Stage(c) ==
  CASE c \notin live -> "free"
    [] c \in live /\ (thread[c] = "exited" \/ Joined(c)) -> "finished"
    [] OTHER -> "serving"

Pool == INSTANCE ConnectionPool
          WITH stage <- [c \in Conns |-> Stage(c)], admitting <- ~final

\* The server implements the pool: a connection's slot is retired only after
\* its service is over, and none is admitted once the server is stopping.
ImplementsPool == Pool!Spec
=============================================================================
