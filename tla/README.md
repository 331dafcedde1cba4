# YouProxy in TLA+

YouProxy (also YouAgent) is a small HTTP proxy that runs beside a browser. It takes one
request per connection, looks up the host in a list of rules that may give an address, ask
for a lookup at a name server of the proxy's own choice, or ask for extra line ends before
the request, hands the request to the server and the answer back. `CONNECT` requests become
a relay. The rules are compiled in and are replaced once by a file downloaded in the
background. The program runs under Linux, Mac, Windows (tray icon) and Android (a root agent
started by an application).

This directory holds a model of it, from the accept loop to the programs around the proxy, the configurations
TLC checks it with, and proofs about every part of it but the Android application. Paths below are those of
the repository; `cpp` files without a directory are in `src/`.

## 1. Inventory

| Component | State | Operations | What must be right |
|---|---|---|---|
| Server (`httpserver.cpp`, `cppthread.cpp`) | vector of connections, listening socket, `closed`; per connection a thread, `started`, `closed` | `process()` (accept loop), `checkConnections()`, `close()`; `startThread()`, `beginThread()`, `joinThread()` | every ended connection is joined, then deleted, once; none is skipped; a served one never blocks the loop; stopping reaches everybody |
| Exchange (`httpconnection.cpp`, `httprequest.cpp`, `httpresponse.cpp`, `httpsocket.cpp`) | request, response, two sockets, `addNewLine` | `process()`: parse, resolve, connect, send, retry once, read and pass on the answer in one of three framings | the server sees the request without gaps and once; the client sees the server's body and nothing else; everything is closed; it ends |
| Relay (`doCONNECT()`) | two descriptors, a buffer | `select()`, `recv()`, `send()` | nothing lost or mixed while it stands; neither direction starves |
| Address cache (`dnscache.cpp`) | map from host to address, name server, mutex; a static pointer | `instance()`, `queryA()`, `releaseItem()`, `setNameServer()` | the map is used under its mutex; nobody waits for another's query; the configured server is used |
| Rules (`youconfig.cpp`) | list of rules, version, mutex | `parseConfig()`, `getAddressByHost()`, `DownloadConfig::process()` | a lookup sees one whole list, and ends |
| DNS client (`dnsquery.cpp`) | a socket and a message buffer | `connect()`, `queryA()`, `queryTXT()` | the addresses and texts are those of the reply, also of one that was cut; a failing socket does not end the process |
| Headers (`httpmessage.cpp`) | list of name and value | get, set, remove, parse, print | what the proxy sets is said once; everything else passes as it came, at every attempt |
| Android agent (`android/agent`) | device settings: name server, packet filter, redsocks; the service port; a DNS socket | DNS forwarder, `enable_proxy()`, `disable_proxy()` from `exit()`, command loop | the device is left as it was found; no agent undoes another's settings; each program hears its own reply |
| Android application (`MainActivity.java`) | check box, dialog, threads that send and ask | start, `quit`, `noop`, the handler's messages | a click ends the agent it means; the box shows whether one runs |
| Windows program (`WIN32/main.cpp`) | `bAgentOn`, `firstTimeToAdd`, icon, posted commands; the user's setting outlives it | window messages, Explorer's restart, the end of a session | icon, flag and system agree; the system never points to a proxy that is gone |
| Mac's settings (`systemutil.cpp`) | a copy of the preferences, the primary service | `set_global_proxy()` | what was enabled on any service is found again and disabled |
| Linux and Mac programs | none | start the two threads; the Mac's command socket | as above |

How they interact. `main()` creates the rules, starts the loader's thread and the server's
thread. The server's thread creates a thread per client. Connection threads share the rules
(mutex), the cache (mutex, but for its creation and its name server) and the process's
descriptors and threads. The loader writes the cache's name server and the rules once.
Nothing else is shared; connections do not see each other.

What is hard. Deletion of objects whose thread is about to end; an accept loop that is the
only one to give thread slots back; a lock given up in the middle of `queryA()`; lazy
creation without a lock; a download of which any part may arrive; a retry after part of a
request was sent; three ways to know the end of a body, none of them checked against the
others; a relay that serves two directions with blocking calls; a full descriptor table;
settings that outlive the process that made them, with a second process, a kill or an `exit()`
at any line; an exit handler run by one thread while the other one goes on; answers that come
after their question timed out; a reply put together in a buffer that holds an older one; a taskbar
that forgets.
`PROJECT.json` lists these one by one, with the line where each bites and the properties
that watch it.

## 2. Modules

| Module | Models | State and actions |
|---|---|---|
| `ProxyServer` | server and threads | `pc` is the line of `process()`/`checkConnections()` the server thread is at, `it` the iterator, `connections` the vector; `thread[c]` is the line of `beginThread()` and of the end of `HttpConnection::process()`. One action per statement that another thread can see. `Conns` are heap addresses: a deleted object's address is used again |
| `ConnectionPool` | nothing of the code: what the owner of a server relies on | a slot is admitted, served, finished, retired |
| `HttpConnection` | one exchange | `pc` is the call under way; `servers[i]` what the i-th remote socket was handed, `toClient` what the client was. A text is a token per part; a body is a sequence of numbered units |
| `Relay`, `Tunnel` | `doCONNECT()`, and the promise it keeps | socket buffers between the peers and the proxy are sequences of bounded length; `Tunnel` has one pipe per direction and no proxy |
| `ConnectionThread` | `process()` with the `doCONNECT()` it calls | `HttpConnection` and `Relay` composed: while `pc` is `relay` the steps are those of `Relay`, and `process()` goes on when it has ended; the peers of a tunnel move beside it |
| `DnsCache` | cache, its users, the loader's `setNameServer()` | each thread is at one line of `instance()`, `queryA()`, `releaseItem()` or `setNameServer()`; instances are named by the thread that made them |
| `YouConfig` | rules, loader, lookups | the loader is at one step of `DownloadConfig::process()`/`parseConfig()`, a lookup at one of `getAddressByHost()`; a line of a file is a record |
| `Descriptors` | every socket of a process on one table | numbers are given lowest first and closed by number, whoever owns them |
| `DnsReply` | `queryA()`, `queryTXT()`, `parseName()` | `pos`, `left`, `found` and `text` are the functions' own; the reply is a sequence of bytes, of which `got` arrived, with `junk` behind them; one action per turn of the loop |
| `HeaderList` | `HttpMessage` and its use in requests and answers | `items` is the list; a field is a key, its spelling and a value; `sent` what each attempt handed on |
| `AndroidAgent` | `main()`, `enable_proxy()`, `disable_proxy()`, the DNS thread as far as it can end the process | `pc[a][t]` is the line of each thread; `dns`, `rules`, `redsocks` are the device's and survive a process; `port` and `commands` the service socket; one action per device command |
| `AgentService` | nothing of the code: what the application relies on | a process is off, asking, starting, serving, ending; commands arrive in order, at the holder of the port |
| `AndroidApp` | `MainActivity.java` on top of `AgentService` | `ui` is the line of `startServer()` the user interface thread is at; one thread per question and per quit; `messages` the Handler's queue |
| `DnsForwarder` | `DnsServer::process()` | `buffer` with what each byte was written by, `addr`, `size`, `nread`; one action per system call |
| `WinTray` | the Windows program and what it works on | one action per window message; `proxy` is the user's setting, `icon` Explorer's, `shell` whether there is a taskbar; several processes |
| `GlobalProxy` | `set_global_proxy()` | `stored` are the preferences, `mset` the call's copy; one action per turn of the loop, between them the user and the network change |
| `ProxyServerProofs`, `HttpConnectionProofs`, `DnsCacheProofs`, `YouConfigProofs`, `DescriptorsProofs`, `AndroidAgentProofs` | theorems about those modules | see section 5; `HttpConnectionProofs` is also about `Relay` and `ConnectionThread` |
| `MessagesProofs` | theorems about `DnsForwarder`, `DnsReply`, `HeaderList` and the three as `Messages` puts them together | see section 5 |
| `Messages` | no code of its own: the device's queries, a name server's reply or a header | `DnsForwarder` is extended, `DnsReply` and `HeaderList` are instances, and `message` says which of them is handled; the others stay as they are |
| `DesktopProofs` | theorems about `WinTray`, `GlobalProxy` and the two as `MCDesktop` puts them together | see section 5 |
| `MC...` | instances for TLC | `MCDesktop` is a run of `WinTray` or of `GlobalProxy`: one module is extended, the other an instance, and a variable says which of the two moves |

The modules meet where the code does. What `ProxyServer` calls `serving` is all of
`HttpConnection`; the state `relay` of `HttpConnection` is all of `Relay`, and
`ConnectionThread` composes the two; its step `Resolve`
is a lookup of `YouConfig` followed by a query of `DnsCache`; its step that sets `released`
is the release of `DnsCache`; `Descriptors` is the view of the same calls that keeps only the
numbers; `HeaderList` and `DnsReply` are what `HttpConnection` and `DnsCache` take as one
token and one answer; `DnsForwarder` is the thread that `AndroidAgent` calls `serve`. `ProxyServer` implements
`ConnectionPool`, `Relay` implements `Tunnel` and `AndroidAgent` implements `AgentService` under the
refinement mappings at the end of each module. `AndroidApp` is composed with `AgentService` and
not with the agents themselves: two agents in detail beside the application are out of TLC's reach,
and the refinement makes it unnecessary.

Abstractions worth knowing. Every mutex operation, every write of a shared variable and every system call is a
step of its own; the processor's reordering of plain writes is not modelled: `closed` of a connection is read
without a lock and assumed to be seen in order. `HttpConnection::close()` tests and shuts both sockets in one
step. In `HttpConnection` a call that fails hands over nothing, and calls that hand over some units may be
short. Lengths are numbers as the code keeps them: `Half` is the number of values an `int` has from zero on,
and a content-length, a chunk size and the length of a `POST` are cut as `atol()`, `%x` and `atoi()` cut them,
on builds whose `long` is wider than an `int` and on those where it is not; a body that announces no length is
given the greatest `int`. `gethostbyname()` is part of connecting in `HttpConnection`; in `Descriptors` it
takes and gives back up to `LookupFds` numbers of its own while the client's and the remote one are open, and
has none left when it returns. A server that announces both a length and chunks is not among the answers. The
Android device, su, Explorer, the session of Windows and the preferences of the Mac are external: modelled as
the code uses them, and marked so in the map. The clock is not modelled: a sleep or a timeout ends before or
after what it waits for. The `delete` of objects and buffers is modelled where it closes a socket or frees an
address that is used again.

## 3. Runs

| Run | Instance | Shows |
|---|---|---|
| `proxy_server` | 3 connection objects, 2 thread slots | `NoThreadInDeadObject`, `VectorIsExact`, `ScanReapsAll`; `FullTableIsForever`; `ImplementsPool`; liveness `ComesRound`, `EndsAfterClose` |
| `connection_thread` | bodies up to 6 units, 2 chunks, an `int` of 3 values and an `unsigned int` of 6, buffers of 2, unit 2 is a line end; in a tunnel 2 kinds of unit, 2 in, 1 out | `ServersSeeTheRequest`, `HandedOnce`, `ClientSeesTheAnswer`, `AnswerIsWhole`, `ForgetsUnserved`, `NoSocketLeaks`; `ImplementsTunnel`; liveness `Ends`, `NeitherStarves`, `EndsWithItsPeers` |
| `dns_cache` | 2 connections and the loader, 2 hosts | `OneThreadInMap`, `AsksConfigured`; liveness `NeverWaitsForServers` |
| `you_config` | 2 lookups and the loader, 2 hosts, 6 downloads, versions 1, 2, 200, 256 | `WholeConfig`, `LookupFromOneConfig`; liveness `EveryLookupEnds` |
| `messages` | 2 programs of a device, sizes up to 3 units, 2 queries queued; replies of up to 2 records of 3 types, cut anywhere; headers of up to 3 lines, 2 spellings, 2 attempts | `HearsItsReply`, `ReadsReply`, `HandedOn`; liveness `ServesOn` |
| `descriptors` | 2 connections and the loader; 1 connection, the loader and the forwarder; 2 connections and the forwarder; 3 descriptors, 1 at a time for `gethostbyname()` | `OwnDescriptors`, `AllGivenBack`; liveness `FullTableDrains` |
| `query_socket` | the same processes, 3 descriptors | the assertion `socketHandle != -1` (`dnsquery.cpp:77`) fails |
| `android_agent` | 2 agents, each started any number of times, 1 datagram, devices with and without the owner match | `LeftAsFound`, `EnabledStands`, `QuitCleansUp`; `ImplementsService` with its liveness |
| `android_app` | 2 processes, 2 questions, 1 quit under way, 1 datagram, 1 answer | liveness `ClickEndsAgent`, `BoxLearns` |
| `close_dialog` | 1 process, 1 question, 1 quit | the dialog of the back button asks to close the proxy, and Yes leaves it (`ConfirmedClosesProxy`) |
| `desktop` | 2 processes of the tray program with all five faults; 2 services of a Mac | `OwnHasServer`, `FlagTells`, `IconTells`, `DisabledEverywhere` |

Every module states its type invariant, and those of the modules with proofs are proved
from inductive invariants. Every safety property of the passing runs is a theorem, `ReadsReply` for a server that
writes no names out, and `ImplementsService` without its fairness; section 5 has them.

Why the bounds are enough. Three objects and two thread slots: two connections are closed in one scan next to
each other, with and without a third behind them, a scan begins while a thread is ending, and the slots run
out; addresses are used again, so the number of clients is not bounded. Six units and buffers of two: a body
ends before, at and after a buffer's end and an announced length, comes in up to two chunks, and one of its
units stops a line that is read out of step. With an `int` of three values a body reaches the length given to
one without an announcement and goes beyond it; one of six units is announced with the first length that is
cut, to nothing or to the greatest `long`, and a chunk of six has the first size that is cut. In the relay the
output takes one unit where `recv()` brings two, so that `send()` blocks half way. Two connections and the
loader are all the roles there are in the cache and the rules: every property there is about two threads. The
files differ in what they do to the list: whole, cut between lines, cut within one with and without effect, an
answer that has no rule, empty. Three descriptors are what one connection has while it looks its server up
(the client's, the remote one and one of `gethostbyname()`), so that the second connection and the loader find
the table full at every point of it, and every call can be the one that fails; all of the loader, the
forwarder and two connections at once are out of reach, and three of them in each combination have every pair
that can meet. Two records: one that is passed over or read, and one behind it whose position depends on it; a
cut may fall into either, and memory holds zeros or another byte there. Three lines: two of one name and
another between or around them. Two agents: one that serves and one that is started, refused, ends or is
killed beside it; a name stands for any number of processes in turn, so starts are not bounded. One datagram
is enough for a quit to be first, and lost ones are in the model. Devices without `pkill` never end redsocks,
and no guard reads it: they add states and no behaviour, so the run leaves them out; the proofs have them. Two
processes and one quit in `android_app`: the old agent, its successor, and a second quit that waits for the
first; two questions: one that is answered by the reply to another that timed out. Two programs with the
forwarder: the reply to one is built over what the other left in the buffer. Two instances of the tray
program: each can undo what the other did.

What the violations say. With every descriptor taken a lookup ends the process at the
assertion of `DnsQuery::connect()`, although its callers handle a connection that fails.
How many descriptors prevent that is proved (`EnoughDescriptors`, section 5). The dialog of the application's back button
asks whether to quit and close the proxy with it (`close_alert` in `strings.xml`); Yes stops the background service
and finishes the activity, but sends no quit, and the agent serves on with the device's redirections.

What the properties had to leave out, because the code does otherwise. They are stated with these exceptions,
and TLC finds them violated without: an answer whose announced length does not fit an `int`, one without a
length that is longer than the greatest `int`, and chunk sizes beyond an `unsigned int` (`Countable` in
`AnswerIsWhole`, case by case, for each loses its rest; `ChunksFit` in `ClientSeesTheAnswer`: the loop reads
on inside the chunk, which takes chunk data for a size and passes on what is in its way, `Half = 2` and
`NewlineUnits = {2, 4}` show it); a DNS thread refused port 53 runs the exit handler while `main()` goes on
adding rules (`refused` in `QuitCleansUp`); after a kill the next agent remembers 127.0.0.1 as the network's
name server (`lost` in `LeftAsFound`); a session that was asked to end and goes on leaves flag and icon on and
the setting off (`asked` in `FlagTells`), and the user can enable the proxy after the window has agreed to the
end (`late` in `OwnHasServer`); a second instance takes the proxy away under the first (`second`).
`ReadsReply` is checked for names that are or end in a pointer: behind one written out to its end,
`parseName()` leaves the position one byte short (`Forms = {"labels"}`), and `FindsText` for a text that is
the last record, because `queryTXT()` does not pass what follows the first string.

## 4. Fairness

`ProxyServer`: threads that can run are scheduled (weak fairness of the server's and of each
connection's own steps). Clients need not come, finish or leave, and nobody need call
`close()`: `accept()` and the service of a client have no fairness. A server blocked in
`accept()` is therefore excluded from `EndsAfterClose`, and spinning in `startThread()` is the
exception both liveness properties name. `HttpConnection`: each call returns at last, which the
peers decide and not the code, which has no timeout; so `Ends` says that process() does
not loop by itself. A tunnel may last for ever: there (`FairThread` of `ConnectionThread`) the thread is scheduled
and a peer reads what it was sent or leaves; a peer need not send, stop or leave. `DnsCache`: threads are
scheduled, a mutex that is free is got at last, name servers need not answer. `YouConfig`:
the parser and the lookups are scheduled, the network of the loader need not answer.
`Descriptors`: connections get on, the loader and its servers need not. `AndroidAgent`: both
threads of a process are scheduled and a device command returns; nobody need start, kill or ask an
agent, and su may never answer. This fairness implies that of `AgentService`, which `AndroidApp` assumes; there
the user interface thread and the threads it starts run, a datagram finds room again and again
(the code has no bound that makes its sender wait: strong fairness of `SendQuit`), and the user may stop at any
time. `FairMessages`: the thread of `DnsForwarder` is scheduled; the name server need not answer at all, and then the
forwarder waits for ever: `ServesOn` is conditional on `NameServerActs`, and on no empty datagram, which
stops it too. `WinTray`, `GlobalProxy`, `DnsReply` and `HeaderList` are
checked for safety only.

## 5. Proofs

**`ProxyServerProofs`** proves, for every finite set of connection objects and every thread
limit, each safety property of the `proxy_server` run, two more (`JoinsOnlyFinished`: a join never waits for a
client; `ClientsToldAtEnd`: `close()` reaches everybody), the action property
`FullTableIsForever`, and that `ProxyServer` implements `ConnectionPool`; and also that
`startThread()` never spins if there are as many thread slots as objects (`EnoughSlots`).

None of the properties is inductive alone: each speaks of one moment of a pass of the server
thread, and whether it survives the next step depends on where the other threads are. `IInv` joins
the type invariant, `NoThreadInDeadObject` and `VectorIsExact` with four facts:

- `ServerPlace`: what each line of the server thread may rely on; between `new` and `push_back()`
  the object in hand has no thread or its own one, and at `joinThread()` and `delete` the iterator is
  on an element that was found closed, whose thread is gone at the `delete`;
- `ClosedLast`: `closed` is set by the last step but one of a connection's thread, so a closed
  connection exists and its thread is about to end, has ended, or has just been joined;
- `DueAhead`: what the scan under way still has to delete (the history variable `due`) lies at or
  behind the iterator, hence erasing an element must not advance it;
- `Told`: how far the pass of `close()` calls has come, and that it stays so until the end.

The proof has a lemma per kind of change to the vector (what appending or removing an element does
to its range and its order), one per group of actions that `IInv` is kept, then one short proof
per property, and a lemma per group of actions that a step of the server maps to a step of the
pool or to a stutter.

Assumed: `Conns` is finite and `ThreadLimit` a positive number (`ConnsAssumption`,
`ThreadLimitAssumption`). The facts about removing an element of a sequence are proved in the
module.

**`AndroidAgentProofs`** proves, for any number of agents and any devices, `LeftAsFound`,
`EnabledStands`, `QuitCleansUp`, `OneChanges`, and that every step is one of `AgentService` or leaves what
the application sees (`StepsAreOfService`). The argument is the service port: only its holder is beyond
`bind()`, or has a registered exit handler, so at most one agent changes the device. To that the invariant adds
what the device looks like at each line of `enable_proxy()` and `disable_proxy()` of
the holder (`Stands`, `Cleans`, `Finds`), where a thread may be while the other one runs the handler (`Held`), and
what is true when nobody holds the port (`Free`). An agent that dies in the middle breaks this only
for what the history variable `faults` records. The simulation needs the invariant for one fact: an agent that
takes a command holds the port.

**`HttpConnectionProofs`** proves the six invariants of the `connection_thread` run for bodies, chunks and
buffers of any size, integers of any width, and any units that are line ends (`SizeAssumption`,
`WidthAssumption`, `NewlineAssumption`). The invariant of the exchange has two halves.

The request (`Handing`): what a server was handed is nothing, the extra line ends, or these, the header
and the first units of the body; only the last of at most two attempts has come as far as the
header, and the retry is made only before it has. `HandedOnce`, `ServersSeeTheRequest` and
`ForgetsUnserved` follow. `OpenNow` says which sockets there are at each line, for `NoSocketLeaks`.

The answer (`Answering`): with a length or until the end, what was passed on and what is left add up to what
the code made of the announced length (`PlainAnswer`), which where one was announced is that length or less
(`Lengths`) and, if it is countable, the length itself or as much as the body has (`PlainLengths`). In chunks
(`ChunkedAnswer`) there is a function `sent` that counts the units in each beginning of the text, and as long
as the client takes data the reading position is where the loop takes it to be: at a size, inside the chunk
that one announced, at its line end, or behind the last size (`Aligned`), provided that all sizes fit and are
therefore read as they were written (`ReadFits`, `AllFit`); of other bodies nothing is claimed but that a
served request preceded them. The client has the `sent[at]` units up to it. A client that takes no more data
is `deaf`: the loop reads on with its count out of step, lines may then begin in the middle of a chunk, and
nothing reaches the client any more, so that nothing need be known of the position. That every text a server
can send has such a `sent` is proved from the definition of `FirstChunks` by induction on the number of
chunks. The library's induction theorems cannot be applied by these provers; instead the smallest chunk at
which the fact would fail is taken from the well-ordering of the numbers (`LeastNumber`), and the one before
it leads to a contradiction.

The tunnel: `RelayIsTunnel` proves that `Relay` implements `Tunnel`, for any data, any buffer and any room in
the sockets (`QueueAssumption`). Its invariant `RelayInv` has the types and `Taking`: the buffer is empty but
while `send()` has it, and `recv()` is called for a side only if there is data or an end to receive. `Held` is
what lies between the two peers of a direction, place by place (what the receiver has not read, the buffer if
it goes this way, what was not received yet). A step of the relay either moves a unit from one place to the
next, and leaves `Held` as it was, or is one of the five steps of `Tunnel`: `Say`, `Hear`, `SayNoMore`,
`Leave`, `Fall`. `ThreadIsBoth` shows that a behaviour of `ConnectionThread` is one of `HttpConnection` and
one of `Relay`, which carries both results over to the thread.

**`DnsCacheProofs`** proves `OneThreadInMap` and the action property `AsksConfigured` for any threads and
hosts. `OneThreadInMap` says nothing of mutexes: the invariant says who owns each one (`Owned`), which instance a
thread uses and that it exists (`Fetched`), and which lines belong to a lookup, a release or the loader
(`Divided`). For `AsksConfigured`, `Known` follows the static pointer: what it points to and what a thread got from
it was constructed, nothing is constructed once it is set, and the instance the loader is done with has
the configured server; so if one was constructed all threads have that one. Assumed: the
loader is no connection, and no thread is named `null` or `free` (`LoaderAssumption`, `NamesAssumption`).

**`YouConfigProofs`** proves `WholeConfig` and `LookupFromOneConfig` for any number of lookups, any rules, files
and versions. The lock is held by the loader in `parseConfig()` or by the lookup that scans
(`Locking`), so neither sees the list change; in `parseConfig()` the list stands for the lines passed so far
(`Lists`); a scan has found no match before its iterator (`Scans`); at its end the rule it stopped
at is that of the first line that matches (`FirstMatches`), and stays an answer of its configuration
when the loader replaces the list (`Answered`). That a list stands for lines is said by the place of each rule
among them (`IsParsed`), which one more line extends; so no induction over the file is needed. Assumed: what
the module assumes of its constants, the rules of the constructor being rules and nothing else among them
(`DefaultsAssumption`).

**`DescriptorsProofs`** proves `OwnDescriptors` and `AllGivenBack` for any number of connections, any limit and
any set of threads in the process (`LimitAssumption`, `NamesAssumption`, `ProcessesAssumption`). A
number that is taken is held in a handle of its owner, also after a double `close()` gave it to somebody else
(`Accounted`); a handle is set only between the call that fills it and the one that closes it (`AtPlace`); and without a
forwarder the handles of a thread differ and stand for what is its own (`Own`).

`EnoughDescriptors` answers the violation of `query_socket`: with two descriptors and `LookupFds` more for
every connection and for the loader, and one for the forwarder, no thread asks for one in vain,
`gethostbyname()` included, and the assertion in `DnsQuery::connect()` holds, for any finite number of
connections. Numbers closed twice and the one never given back are counted in. By `Accounted` and `AtPlace`
every taken number is in a slot of its owner, and the slot of the thread that asks next is empty
(`TakenInSlot`); if all were taken, two numbers would be in one slot (`OneIsFree`). With one descriptor fewer
(six instead of seven, for one connection and `LookupFds = 1`) TLC finds a call that fails, with two fewer the
assertion violated. What it assumes: `gethostbyname()` has closed what it opened when it returns, and never
has more than `LookupFds` open; the limit is what is left to these threads, so the listening socket, the
service sockets, the standard files and the pipes of `popen()` and `system()` come on top.

**`MessagesProofs`** proves the three invariants of the `messages` run. `Messages` is a behaviour of each of
`DnsForwarder`, `DnsReply` and `HeaderList` (`MessagesAreEach`), so each has an invariant of its own.

`HearsItsReply`, for any programs and sizes (`UnitsAssumption`, `QueueLimitAssumption`): `InBuffer` follows the parts of a
reply through the buffer, so that what lies between the length and `nread` was written for the query under
way, whatever an older reply left behind it.

`ReadsReply`, for any number of records up to 255, any addresses, any cut and any memory behind it, zeros at
last (`ByteAssumption`, `LimitAssumption`). As long as the records still to be read arrived whole, the
position is where the bytes of those read so far end, and what was found are their addresses; behind the last
whole record the loop reads memory, but the addresses found stay at the front (`Finding`, `Telling`). That a
turn of the loop takes the position from the end of one record to the end of the next, and sees its type and
its data, is `ReadIs`. It needs that the name of the record is a pointer or ends in one, `Pointing`: behind a
name written out the code is one byte short, which is the hazard at `dnsquery.cpp:20`. `RepliesAreRead`
therefore says that every reply with such names is read right, and `PointersAreRead` that all replies are, of
a server that uses no other names (as in the run). What the proof knows of the bytes is proved from their
definitions: that `FlattenSeq` puts parts one behind another, that `EndOfName` has a value at every position
although nothing bounds the position of a name (behind the junk there are zeros), and what `AddressesIn`
collects.

`HandedOn`, for headers of any length in any spellings (`LinesAssumption`): each stage knows of the list what
the next one needs. While lines come, the fields with each key are those that arrived (`Collected`); the
request has one `connection` field that says close and loses `proxy-connection`, which it may get back with
another value (`Asked`); the answer loses its coding if it was understood (`Answered`); what was sent is the
list as it is, so a second attempt finds nothing to change (`SentAlike`). The lemmas say what `setHeader()`,
`removeHeader()` and `getHeader()` do to the fields with one key, which `Only` selects.

`Only`, `EndOfName` and `AddressesIn` are recursive functions, `FlattenSeq` one of the library: that there is a function with
the values the rule says, and one only, is proved with `LeastNumber` as above (`OnlyIs`, `NamesEnd`, and `Iteration` for the
last two).

**`DesktopProofs`** proves `OwnHasServer`, `FlagTells` and `IconTells` of `WinTray` for any number of processes and
any faults, `DisabledEverywhere` of `GlobalProxy` for any number of services, and that a desktop as
`MCDesktop` runs it is a behaviour of both (`DesktopIsBoth`), so that all four hold of it. For the tray program
the invariant adds which process stands for the setting while others have agreed to the end of the
session (`ServerStays`), that there is one process until a second is started (`Alone`), that the flag is right
from the start on and not only in the message loop (`FlagTold`), and what the icon is at each place
(`IconAtPlace`). For the Mac it says which services the loop has still to disable, and that those behind it
are disabled in the copy that will be committed.

Only model-checked: all liveness, and the fairness half of `ImplementsService`: the prover has no rule for
fairness over these actions. `AndroidApp`, of which only liveness is asked, has no theorem; its type invariant
is there for the reader.

`ReadsReply` of a reply with names written out is neither proved nor checked: it does not hold.

## 6. Not modelled

Rules longer than the arrays they are copied to (`suffix[100]` and `ip[50]`, `youconfig.cpp` lines 176 and
184); replies of more than one buffer, pointers to offsets above 255 and what names say, hence the call of
`parseName()` that follows a pointer, in `DnsReply`; the texts of the extra line ends; what `printf()` and
balloon tips say; `HttpConnection::close()` racing with its own thread (no program calls
`HttpServer::close()`); descriptors of `FD_SETSIZE` and more in `select()`; memory exhaustion; the memory
model. `select()` interrupted by a signal counts as the end of the relay in the code and is left out: the
programs install no handler that could interrupt it. The `main()` of Linux and Mac only start the two threads;
a failed `bind()` of port 1998, which `HttpServer::process()` prints and passes over, is listed as a hazard.
`WIN32/main_test.cpp` sets the proxy once and ends. Vendored pthreads for Windows, generated resources and the
rule file are not this program's code.

## 7. Plan

Done: the server; what one connection does; what connections share; the messages they read; the
agent, the forwarder and the application of Android; the desktops' settings. Next, in this order:

1. `Resolver`: lookup, query and release of several connections composed from `YouConfig` and
   `DnsCache`: an address that failed is not used again unless a server named it again.
2. Who has port 1998 when several programs run, with the failed `bind()`.
