--------------------------- MODULE DescriptorsProofs ---------------------------
(***************************************************************************)
(* Proofs about Descriptors, for any number of connections, any limit and  *)
(* any set of processes: the types, that a connection's descriptors are    *)
(* its own where no forwarder runs, that a process at rest has given back  *)
(* all descriptors but one, and how many descriptors are enough for no     *)
(* call to fail.                                                           *)
(*                                                                         *)
(* None of these is inductive.  What is taken must be held by its owner    *)
(* (Accounted), also when a number was closed twice and given to somebody  *)
(* else meanwhile; a handle is overwritten only where it stands for        *)
(* nothing (AtPlace); and the descriptors of a thread, those of its lookup  *)
(* included, must differ, or closing one would close another (Apart).      *)
(***************************************************************************)
EXTENDS Descriptors, FiniteSetTheorems, TLAPS, WellFoundedInduction

\* The numbers each thread holds.
Held == [t \in Threads |->
  IF t = "loader" THEN {conf, http} \cup lookup[t]
  ELSE IF t = "forwarder" THEN {sb} ELSE {client[t], query[t], remote[t]} \cup lookup[t]]

\* Where a thread can have which handle.
AtPlace(c) ==
  /\ query[c] # 0 => place[c] = "ask"
  /\ remote[c] # 0 => place[c] \in {"name", "serve", "drop", "dropRemote"}
  /\ client[c] # 0 => place[c] \notin {"idle", "dropRemote"}

LoaderAtPlace ==
  /\ conf # 0 => place["loader"] \in {"query", "name", "download"} /\ "loader" \in running
  /\ http # 0 => place["loader"] \in {"name", "download", "done"}

ForwarderAtPlace == sb # 0 => place["forwarder"] \in {"connect", "size", "reply"}

LookupAtPlace(t) ==
  /\ lookup[t] # {} => place[t] = "name" /\ t \in running
  /\ Cardinality(lookup[t]) <= LookupFds

AllAtPlace ==
  /\ \A c \in Conns : AtPlace(c)
  /\ LoaderAtPlace /\ ForwarderAtPlace
  /\ \A t \in Callers : LookupAtPlace(t)

\* No number is lost: who owns it has it in a handle.
Accounted == \A n \in Fds : owner[n] # "free" => n \in Held[owner[n]]

\* Without a forwarder no handle stands for somebody else's socket.
OwnHolds(t) == \A n \in Held[t] : n = 0 \/ owner[n] = t

Apart ==
  /\ \A c \in Conns : client[c] # 0 => client[c] \notin {query[c], remote[c]}
  /\ conf # 0 => conf # http
  /\ \A c \in Conns : lookup[c] \cap {client[c], query[c], remote[c]} = {}
  /\ lookup["loader"] \cap {conf, http} = {}

Own == "forwarder" \notin running => Apart /\ \A t \in Conns \cup {"loader"} : OwnHolds(t)

IInv == TypeOK /\ AllAtPlace /\ Accounted /\ Own

-----------------------------------------------------------------------------
(* The lowest free number.                                                 *)

\* The natural numbers are well ordered.
LEMMA LeastNumber == ASSUME NEW S \in SUBSET Nat, S # {} PROVE \E n \in S : \A m \in S : n <= m
<1> DEFINE R == OpToRel(<, Nat)
<1>1. IsWellFoundedOn(R, Nat)
  BY NatLessThanWellFounded
<1>2. \A x, y \in Nat : y < x => <<y, x>> \in R
  BY DEF OpToRel
<1> HIDE DEF R
<1>3. PICK n \in S : \A m \in S : <<m, n>> \notin R
  BY <1>1, WFMin
<1>4. \A m \in S : ~(m < n)
  BY <1>2, <1>3
<1>5. \A m \in S : n <= m
  BY <1>4
<1> QED BY <1>5

\* socket() gives a number that is free, or none.
LEMMA LowestIsFree ==
  ASSUME TypeOK PROVE Lowest \in 0..Limit /\ (Lowest # 0 => Lowest \in Fds /\ owner[Lowest] = "free")
<1>1. CASE Free = {}
  BY <1>1, LimitAssumption DEF Lowest
<1>2. CASE Free # {}
  <2>1. Free \in SUBSET Nat
    BY LimitAssumption DEF Free, Fds
  <2>2. \E n \in Free : \A m \in Free : n <= m
    BY <1>2, <2>1, LeastNumber
  <2>3. Min(Free) \in Free
    BY <2>2 DEF Min
  <2> QED BY <1>2, <2>3, LimitAssumption DEF Lowest, Free, Fds
<1> QED BY <1>1, <1>2

-----------------------------------------------------------------------------
(* What opening and closing do to the account.                             *)

\* What a handle can be.
LEMMA HeldNumbers ==
  ASSUME TypeOK, NEW t \in Threads, NEW n \in Held[t], n # 0 PROVE n \in Fds
BY LimitAssumption DEF TypeOK, Held, Fds, Threads, Callers

\* A thread takes the lowest number, or none, and forgets no number it holds.
LEMMA TakenStep ==
  ASSUME IInv, NEW t \in Threads, Taken(t, Lowest), UNCHANGED running,
         \A u \in Threads \ {t} : Held'[u] = Held[u],
         Held[t] \ {0} \subseteq Held'[t], Lowest \in Held'[t],
         Held'[t] \subseteq Held[t] \cup {0, Lowest}
  PROVE  /\ owner' \in [Fds -> Threads \cup {"free"}]
         /\ Accounted'
         /\ "forwarder" \notin running => \A u \in Conns \cup {"loader"} : OwnHolds(u)'
<1> USE DEF IInv
<1>1. Lowest # 0 => Lowest \in Fds /\ owner[Lowest] = "free"
  BY LowestIsFree
<1>2. \A n \in Fds : owner'[n] = IF n = Lowest THEN t ELSE owner[n]
  BY DEF Taken
<1>3. owner' \in [Fds -> Threads \cup {"free"}]
  BY DEF Taken, TypeOK
<1>4. "free" \notin Threads /\ 0 \notin Fds
  BY NamesAssumption DEF Threads, Fds
<1>5. ASSUME NEW n \in Fds, owner'[n] # "free" PROVE n \in Held'[owner'[n]]
  <2>1. CASE n = Lowest
    BY <1>2, <2>1
  <2>2. CASE n # Lowest
    BY <1>2, <1>4, <1>5, <2>2 DEF TypeOK, Accounted
  <2> QED BY <2>1, <2>2
<1>6. ASSUME NEW u \in Conns \cup {"loader"}, NEW n \in Held'[u], n # 0, "forwarder" \notin running
      PROVE  owner'[n] = u
  <2>1. u \in Threads /\ (u # t => n \in Held[u])
    BY <1>6 DEF Threads
  <2>2. (n = Lowest /\ u = t) \/ n \in Held[u]
    BY <1>6, <2>1
  <2>3. CASE n = Lowest /\ u = t
    BY <1>1, <1>2, <1>6, <2>3
  <2>4. CASE n \in Held[u]
    <3>1. owner[n] = u
      BY <1>6, <2>4 DEF Own, OwnHolds
    <3>2. n \in Fds
      BY <1>6, <2>1, <2>4, HeldNumbers
    <3> QED BY <1>1, <1>2, <1>4, <1>6, <2>1, <3>1, <3>2
  <2> QED BY <2>2, <2>3, <2>4
<1> QED BY <1>3, <1>5, <1>6 DEF Accounted, OwnHolds

\* A thread closes numbers it holds and forgets no others; what it still holds is none of
\* them where no forwarder runs.
LEMMA ClosedStep ==
  ASSUME IInv, NEW t \in Threads, NEW N, Closed(N), UNCHANGED running,
         \A u \in Threads \ {t} : Held'[u] = Held[u],
         Held'[t] \subseteq Held[t] \cup {0}, Held[t] \ (N \cup {0}) \subseteq Held'[t],
         N \subseteq Held[t], t \in running,
         "forwarder" \notin running => N \cap Held'[t] \subseteq {0}
  PROVE  /\ owner' \in [Fds -> Threads \cup {"free"}]
         /\ Accounted'
         /\ "forwarder" \notin running => \A u \in Conns \cup {"loader"} : OwnHolds(u)'
<1> USE DEF IInv
<1>1. \A n \in Fds : owner'[n] = IF n \in N THEN "free" ELSE owner[n]
  BY DEF Closed
<1>2. owner' \in [Fds -> Threads \cup {"free"}]
  BY DEF Closed, TypeOK
<1>3. "free" \notin Threads /\ 0 \notin Fds
  BY NamesAssumption DEF Threads, Fds
<1>4. ASSUME NEW n \in Fds, owner'[n] # "free" PROVE n \in Held'[owner'[n]]
  BY <1>1, <1>3, <1>4 DEF TypeOK, Accounted
<1>5. ASSUME NEW u \in Conns \cup {"loader"}, NEW n \in Held'[u], n # 0, "forwarder" \notin running
      PROVE  owner'[n] = u
  <2>1. u \in Threads
    BY <1>5 DEF Threads
  <2>2. n \in Held[u]
    BY <1>5, <2>1
  <2>3. owner[n] = u /\ n \in Fds
    BY <1>5, <2>1, <2>2, HeldNumbers DEF Own, OwnHolds
  <2>4. n \notin N
    <3>1. CASE u = t
      BY <1>5, <3>1
    <3>2. CASE u # t
      <4>1. n \in N => owner[n] = t
        <5>1. t # "forwarder" => t \in Conns \cup {"loader"}
          BY DEF Threads
        <5>2. t # "forwarder"
          BY <1>5
        <5> QED BY <1>5, <5>1, <5>2 DEF Own, OwnHolds
      <4> QED BY <2>3, <3>2, <4>1
    <3> QED BY <3>1, <3>2
  <2> QED BY <1>1, <2>3, <2>4
<1> QED BY <1>2, <1>4, <1>5 DEF Accounted, OwnHolds

-----------------------------------------------------------------------------
(* The steps of a connection.                                              *)

\* What a connection holds, and what its step does to others.
LEMMA ConnHolds ==
  ASSUME TypeOK, NEW c \in Conns
  PROVE  /\ c \in Threads \ {"loader", "forwarder"} /\ c \in Callers
         /\ Held[c] = {client[c], query[c], remote[c]} \cup lookup[c]
         /\ Held'[c] = {client'[c], query'[c], remote'[c]} \cup lookup'[c]
BY NamesAssumption DEF Held, Threads, Callers

LEMMA OthersHeld ==
  ASSUME TypeOK, NEW c \in Conns, UNCHANGED <<conf, http, sb, lookup>>,
         \A d \in Conns \ {c} : client'[d] = client[d] /\ query'[d] = query[d] /\ remote'[d] = remote[d]
  PROVE  \A u \in Threads \ {c} : Held'[u] = Held[u]
BY DEF Held, Threads

\* A connection that opens a socket had no handle there.
LEMMA OpenStep ==
  ASSUME IInv, UNCHANGED running, NEW c \in Conns, Accept(c) \/ OpenQuery(c) \/ OpenRemote(c)
  PROVE  IInv'
<1> USE DEF IInv
<1>1. Lowest \in 0..Limit /\ (Lowest # 0 => owner[Lowest] = "free")
  BY LowestIsFree
<1>2. AtPlace(c) /\ LookupAtPlace(c) /\ c # "free" /\ c \in Callers
  BY NamesAssumption DEF AllAtPlace, Callers
<1>none. lookup[c] = {}
  BY <1>2 DEF LookupAtPlace, Accept, OpenQuery, OpenRemote
<1>3. /\ Taken(c, Lowest) /\ UNCHANGED <<conf, http, sb, lookup>>
      /\ \A d \in Conns \ {c} : client'[d] = client[d] /\ query'[d] = query[d] /\ remote'[d] = remote[d]
      /\ \A t \in Threads \ {c} : place'[t] = place[t]
  BY DEF Accept, OpenQuery, OpenRemote, TypeOK, Go, loaderVars
<1>4. /\ \/ client'[c] = Lowest /\ client[c] = 0 /\ query'[c] = query[c] /\ remote'[c] = remote[c]
         \/ query'[c] = Lowest /\ query[c] = 0 /\ client'[c] = client[c] /\ remote'[c] = remote[c]
         \/ remote'[c] = Lowest /\ remote[c] = 0 /\ client'[c] = client[c] /\ query'[c] = query[c]
      /\ AtPlace(c)'
  <2>1. CASE Accept(c)
    BY <1>2, <2>1 DEF Accept, AtPlace, TypeOK, Go, Threads
  <2>2. CASE OpenQuery(c)
    BY <1>2, <2>2 DEF OpenQuery, AtPlace, TypeOK, Go, Threads
  <2>3. CASE OpenRemote(c)
    BY <1>2, <2>3 DEF OpenRemote, AtPlace, TypeOK, Go, Threads
  <2> QED BY <2>1, <2>2, <2>3
<1>5. /\ owner' \in [Fds -> Threads \cup {"free"}]
      /\ Accounted'
      /\ "forwarder" \notin running => \A u \in Conns \cup {"loader"} : OwnHolds(u)'
  <2>1. /\ Held[c] \ {0} \subseteq Held'[c] /\ Lowest \in Held'[c]
        /\ Held'[c] \subseteq Held[c] \cup {0, Lowest}
    BY <1>3, <1>4, <1>none, ConnHolds
  <2> QED BY <1>3, <2>1, ConnHolds, OthersHeld, TakenStep
<1>6. AllAtPlace'
  BY <1>3, <1>4, <1>none, NamesAssumption
    DEF AllAtPlace, AtPlace, LookupAtPlace, LoaderAtPlace, ForwarderAtPlace, Threads, Callers
<1>7. "forwarder" \notin running => Apart'
  <2> SUFFICES ASSUME "forwarder" \notin running PROVE Apart'
    OBVIOUS
  <2>1. \A n \in Held[c] : n = 0 \/ n # Lowest
    BY <1>1, <1>2 DEF Own, OwnHolds
  <2>2. client'[c] # 0 => client'[c] \notin {query'[c], remote'[c]}
    BY <1>4, <2>1, ConnHolds DEF Own, Apart
  <2>3. lookup'[c] \cap {client'[c], query'[c], remote'[c]} = {}
    BY <1>3, <1>none
  <2> QED BY <1>3, <2>2, <2>3 DEF Own, Apart
<1>8. TypeOK'
  <2>1. place' \in [Threads -> Places]
    <3>1. PICK new \in {"resolve", "ask", "drop", "serve", "name"} : Go(c, new)
      BY DEF Accept, OpenQuery, OpenRemote
    <3> QED BY <3>1 DEF TypeOK, Go, Places
  <2>2. /\ client' \in [Conns -> 0..Limit] /\ query' \in [Conns -> 0..Limit]
        /\ remote' \in [Conns -> 0..Limit] /\ retried' \in [Conns -> BOOLEAN]
    BY <1>1 DEF Accept, OpenQuery, OpenRemote, TypeOK
  <2>3. aborted' \in BOOLEAN
    BY DEF Accept, OpenQuery, OpenRemote, AssertOpen, TypeOK
  <2> QED BY <1>3, <1>5, <2>1, <2>2, <2>3 DEF TypeOK
<1> QED BY <1>5, <1>6, <1>7, <1>8 DEF Own

\* A connection that closes one has forgotten its number.
LEMMA CloseStep ==
  ASSUME IInv, UNCHANGED running, NEW c \in Conns, c \in running,
         EndQuery(c) \/ Retry(c) \/ DropClient(c) \/ DropRemote(c)
  PROVE  IInv'
<1> USE DEF IInv
<1>1. AtPlace(c) /\ LookupAtPlace(c) /\ c \in Callers
  BY DEF AllAtPlace, Callers
<1>none. lookup[c] = {}
  BY <1>1 DEF LookupAtPlace, EndQuery, Retry, DropClient, DropRemote
<1>2. /\ UNCHANGED <<conf, http, sb, aborted, lookup>>
      /\ \A d \in Conns \ {c} : client'[d] = client[d] /\ query'[d] = query[d] /\ remote'[d] = remote[d]
      /\ \A t \in Threads \ {c} : place'[t] = place[t]
  BY DEF EndQuery, Retry, DropClient, DropRemote, TypeOK, Go, loaderVars
<1>3. /\ \/ Closed({client[c]}) /\ client'[c] = 0 /\ query'[c] = query[c] /\ remote'[c] = remote[c]
         \/ Closed({query[c]}) /\ query'[c] = 0 /\ client'[c] = client[c] /\ remote'[c] = remote[c]
         \/ Closed({remote[c]}) /\ remote'[c] = 0 /\ client'[c] = client[c] /\ query'[c] = query[c]
      /\ query[c] # 0 => remote[c] = 0
      /\ AtPlace(c)'
  <2>1. CASE EndQuery(c)
    BY <1>1, <2>1 DEF EndQuery, AtPlace, TypeOK, Go, Threads
  <2>2. CASE Retry(c)
    BY <1>1, <2>2 DEF Retry, AtPlace, TypeOK, Go, Threads
  <2>3. CASE DropClient(c)
    BY <1>1, <2>3 DEF DropClient, AtPlace, TypeOK, Go, Threads
  <2>4. CASE DropRemote(c)
    BY <1>1, <2>4 DEF DropRemote, AtPlace, TypeOK, Go, Threads
  <2> QED BY <2>1, <2>2, <2>3, <2>4
<1>4. /\ owner' \in [Fds -> Threads \cup {"free"}]
      /\ Accounted'
      /\ "forwarder" \notin running => \A u \in Conns \cup {"loader"} : OwnHolds(u)'
  <2>1. PICK n \in Held[c] :
          /\ Closed({n}) /\ Held'[c] \subseteq Held[c] \cup {0} /\ Held[c] \ {n, 0} \subseteq Held'[c]
          /\ "forwarder" \notin running => {n} \cap Held'[c] \subseteq {0}
    <3>1. "forwarder" \notin running => client[c] = 0 \/ client[c] \notin {query[c], remote[c]}
      BY DEF Own, Apart
    <3>2. CASE Closed({client[c]}) /\ client'[c] = 0 /\ query'[c] = query[c] /\ remote'[c] = remote[c]
      BY <1>2, <1>none, <3>1, <3>2, ConnHolds DEF Closed
    <3>3. CASE Closed({query[c]}) /\ query'[c] = 0 /\ client'[c] = client[c] /\ remote'[c] = remote[c]
      BY <1>2, <1>none, <1>3, <3>1, <3>3, ConnHolds DEF Closed
    <3>4. CASE Closed({remote[c]}) /\ remote'[c] = 0 /\ client'[c] = client[c] /\ query'[c] = query[c]
      BY <1>2, <1>none, <1>3, <3>1, <3>4, ConnHolds DEF Closed
    <3> QED BY <1>3, <3>2, <3>3, <3>4
  <2>2. Held[c] \ ({n} \cup {0}) \subseteq Held'[c] /\ {n} \subseteq Held[c]
    BY <2>1
  <2> QED BY <1>2, <2>1, <2>2, ConnHolds, OthersHeld, ClosedStep
<1>5. AllAtPlace'
  BY <1>2, <1>3, <1>none, NamesAssumption
    DEF AllAtPlace, AtPlace, LookupAtPlace, LoaderAtPlace, ForwarderAtPlace, Threads, Callers
<1>6. "forwarder" \notin running => Apart'
  BY <1>2, <1>3, <1>none DEF Own, Apart
<1>7. TypeOK'
  <2>1. place' \in [Threads -> Places]
    <3>1. PICK new \in {"connect", "dropRemote", "idle"} : Go(c, new)
      BY DEF EndQuery, Retry, DropClient, DropRemote
    <3> QED BY <3>1 DEF TypeOK, Go, Places
  <2>2. /\ client' \in [Conns -> 0..Limit] /\ query' \in [Conns -> 0..Limit]
        /\ remote' \in [Conns -> 0..Limit] /\ retried' \in [Conns -> BOOLEAN]
    <3>1. 0 \in 0..Limit
      BY LimitAssumption
    <3> QED BY <3>1 DEF EndQuery, Retry, DropClient, DropRemote, TypeOK
  <2> QED BY <1>2, <1>4, <2>1, <2>2 DEF TypeOK
<1> QED BY <1>4, <1>5, <1>6, <1>7 DEF Own

\* And one that only gets on.
LEMMA QuietStep ==
  ASSUME IInv, UNCHANGED running, NEW c \in Conns, NoQuery(c) \/ EndExchange(c) PROVE IInv'
<1> USE DEF IInv
<1>1. PICK new \in {"drop", "connect"} : Go(c, new)
  BY DEF NoQuery, EndExchange
<1>2. UNCHANGED <<owner, client, query, remote, retried, conf, http, lookup, sb, aborted>>
  BY DEF NoQuery, EndExchange, connVars, loaderVars
<1>3. TypeOK'
  BY <1>1, <1>2 DEF TypeOK, Go, Places
<1>4. AllAtPlace'
  <2>1. AtPlace(c)'
    BY <1>1, <1>2 DEF AllAtPlace, AtPlace, NoQuery, EndExchange, TypeOK, Go, Threads
  <2>2. \A t \in Threads \ {c} : place'[t] = place[t]
    BY <1>1 DEF TypeOK, Go
  <2>3. LookupAtPlace(c)'
    BY <1>2 DEF AllAtPlace, LookupAtPlace, Callers, NoQuery, EndExchange
  <2> QED BY <1>2, <2>1, <2>2, <2>3, NamesAssumption
        DEF AllAtPlace, AtPlace, LookupAtPlace, LoaderAtPlace, ForwarderAtPlace, Threads, Callers
<1>5. Accounted' /\ Own'
  BY <1>2 DEF Accounted, Own, Apart, OwnHolds, Held
<1> QED BY <1>3, <1>4, <1>5

-----------------------------------------------------------------------------
(* The steps of gethostbyname(), in a connection or the loader.            *)

\* What it has open can be counted.
LEMMA LookupFinite ==
  ASSUME TypeOK, NEW t \in Callers PROVE IsFiniteSet(lookup[t]) /\ Cardinality(lookup[t]) \in Nat
<1>1. IsFiniteSet(Fds) /\ lookup[t] \subseteq Fds
  BY LimitAssumption, FS_Interval DEF Fds, TypeOK
<1> QED BY <1>1, FS_Subset, FS_CardinalityType

LEMMA LowestWhenFree == ASSUME TypeOK, Free # {} PROVE Lowest \in Fds
<1>1. PICK n \in Free : \A m \in Free : n <= m
  <2>1. Free \in SUBSET Nat
    BY LimitAssumption DEF Free, Fds
  <2> QED BY <2>1, LeastNumber
<1>2. Min(Free) \in Free
  BY <1>1 DEF Min
<1> QED BY <1>2 DEF Lowest, Free

\* What a caller holds beside it.
Beside(t) == IF t = "loader" THEN {conf, http} ELSE {client[t], query[t], remote[t]}

LEMMA BesideIs ==
  ASSUME TypeOK, NEW t \in Callers
  PROVE  t \in Threads \ {"forwarder"} /\ Held[t] = Beside(t) \cup lookup[t]
BY NamesAssumption DEF Held, Threads, Callers, Beside

\* Where the call goes on in it, all else is as it was.
LEMMA LookupKept ==
  ASSUME IInv, UNCHANGED <<running, place, client, query, remote, conf, http, sb>>, NEW t \in Callers,
         \A u \in Callers \ {t} : lookup'[u] = lookup[u],
         TypeOK', Accounted', LookupAtPlace(t)',
         "forwarder" \notin running => \A u \in Conns \cup {"loader"} : OwnHolds(u)',
         "forwarder" \notin running => lookup'[t] \cap Beside(t) = {}
  PROVE  IInv'
<1> USE DEF IInv
<1>1. AllAtPlace'
  <2>1. \A u \in Callers : LookupAtPlace(u)'
    BY DEF AllAtPlace, LookupAtPlace
  <2> QED BY <2>1 DEF AllAtPlace, AtPlace, LoaderAtPlace, ForwarderAtPlace
<1>2. "forwarder" \notin running => Apart'
  <2> SUFFICES ASSUME "forwarder" \notin running PROVE Apart'
    OBVIOUS
  <2>1. \A u \in Callers : lookup'[u] \cap Beside(u) = {}
    BY DEF Own, Apart, Beside, Callers
  <2>2. \A c \in Conns : c \in Callers /\ c # "loader"
    BY NamesAssumption DEF Callers
  <2>3. "loader" \in Callers
    BY DEF Callers
  <2> QED BY <2>1, <2>2, <2>3 DEF Own, Apart, Beside
<1> QED BY <1>1, <1>2 DEF Own

LEMMA LookupStep ==
  ASSUME IInv, UNCHANGED running, NEW t \in Callers, t \in running, NEW places,
         places = IF t = "loader" THEN {"download"} ELSE {"serve", "drop"}, Lookup(t, places)
  PROVE  IInv'
<1> USE DEF IInv
<1>1. Lowest \in 0..Limit /\ (Lowest # 0 => Lowest \in Fds /\ owner[Lowest] = "free")
  BY LowestIsFree
<1>2. /\ place[t] = "name" /\ UNCHANGED <<client, query, remote, retried, conf, http, sb, aborted>>
      /\ \A u \in Threads \ {t} : place'[u] = place[u]
      /\ \A u \in Callers \ {t} : lookup'[u] = lookup[u]
  BY DEF Lookup, LookupOpens, LookupCloses, LookupReturns, Go, TypeOK, connVars, loaderVars
<1>3. /\ t \in Threads /\ t # "forwarder" /\ Held[t] = Beside(t) \cup lookup[t]
      /\ Held'[t] = Beside(t) \cup lookup'[t]
  BY <1>2, BesideIs, NamesAssumption DEF Held, Beside, Callers, Threads
<1>4. \A u \in Threads \ {t} : Held'[u] = Held[u]
  BY <1>2 DEF Held, Threads, Callers
<1>5. LookupAtPlace(t) /\ ("forwarder" \notin running => lookup[t] \cap Beside(t) = {})
  BY DEF AllAtPlace, Own, Apart, Beside, Callers
<1>6. \A u \in Callers : t \in Callers /\ u \in Threads
  BY DEF Callers, Threads
<1>7. CASE LookupOpens(t)
  <2>1. Taken(t, Lowest) /\ lookup' = [lookup EXCEPT ![t] = @ \cup {Lowest}] /\ place' = place /\ Free # {}
    BY <1>7 DEF LookupOpens
  <2>2. lookup'[t] = lookup[t] \cup {Lowest}
    BY <2>1 DEF TypeOK
  <2>3. Lowest \in Fds
    BY <1>1, <2>1, LowestWhenFree
  <2>4. /\ owner' \in [Fds -> Threads \cup {"free"}]
        /\ Accounted'
        /\ "forwarder" \notin running => \A u \in Conns \cup {"loader"} : OwnHolds(u)'
    <3>1. /\ Held[t] \ {0} \subseteq Held'[t] /\ Lowest \in Held'[t]
          /\ Held'[t] \subseteq Held[t] \cup {0, Lowest}
      BY <1>3, <2>2
    <3> QED BY <1>3, <1>4, <2>1, <3>1, TakenStep
  <2>5. "forwarder" \notin running => lookup'[t] \cap Beside(t) = {}
    <3> SUFFICES ASSUME "forwarder" \notin running PROVE Lowest \notin Beside(t)
      BY <1>5, <2>2
    <3>1. ASSUME Lowest \in Beside(t) PROVE FALSE
      <4>1. Lowest # 0 /\ owner[Lowest] = "free" /\ t # "free"
        BY <1>1, <2>3, LimitAssumption, NamesAssumption DEF Fds, Callers
      <4>2. OwnHolds(t)
        BY DEF Own, Callers
      <4> QED BY <1>3, <3>1, <4>1, <4>2 DEF OwnHolds
    <3> QED BY <3>1
  <2>6. lookup' \in [Callers -> SUBSET Fds]
    BY <2>1, <2>3 DEF TypeOK
  <2>7. Cardinality(lookup'[t]) <= LookupFds
    <3>1. Cardinality(lookup[t]) < LookupFds /\ LookupFds \in Nat
      BY <1>7, LimitAssumption DEF LookupOpens
    <3>2. /\ IsFiniteSet(lookup[t]) /\ Cardinality(lookup[t]) \in Nat
          /\ Cardinality(lookup[t] \cup {Lowest}) = Cardinality(lookup[t])
             \/ Cardinality(lookup[t] \cup {Lowest}) = Cardinality(lookup[t]) + 1
      BY LookupFinite, FS_AddElement
    <3> QED BY <2>2, <3>1, <3>2
  <2>8. TypeOK' /\ LookupAtPlace(t)'
    BY <1>2, <2>1, <2>4, <2>6, <2>7 DEF TypeOK, LookupAtPlace
  <2> QED BY <1>2, <2>1, <2>4, <2>5, <2>8, LookupKept
<1>8. CASE LookupCloses(t)
  <2>1. PICK n \in lookup[t] : lookup' = [lookup EXCEPT ![t] = @ \ {n}] /\ Closed({n})
    BY <1>8 DEF LookupCloses
  <2>2. lookup'[t] = lookup[t] \ {n} /\ place' = place
    BY <1>8, <2>1 DEF LookupCloses, TypeOK
  <2>3. /\ owner' \in [Fds -> Threads \cup {"free"}]
        /\ Accounted'
        /\ "forwarder" \notin running => \A u \in Conns \cup {"loader"} : OwnHolds(u)'
    <3>1. /\ Held'[t] \subseteq Held[t] \cup {0} /\ Held[t] \ ({n} \cup {0}) \subseteq Held'[t]
          /\ {n} \subseteq Held[t]
          /\ "forwarder" \notin running => {n} \cap Held'[t] \subseteq {0}
      BY <1>3, <1>5, <2>2
    <3> QED BY <1>3, <1>4, <2>1, <3>1, ClosedStep
  <2>4. "forwarder" \notin running => lookup'[t] \cap Beside(t) = {}
    BY <1>5, <2>2
  <2>5. Cardinality(lookup'[t]) <= LookupFds
    <3>1. Cardinality(lookup[t] \ {n}) = Cardinality(lookup[t]) - 1 /\ Cardinality(lookup[t]) \in Nat
      BY LookupFinite, FS_RemoveElement
    <3> QED BY <1>5, <2>2, <3>1, LimitAssumption DEF LookupAtPlace
  <2>6. TypeOK' /\ LookupAtPlace(t)'
    BY <1>2, <2>1, <2>2, <2>3, <2>5 DEF TypeOK, LookupAtPlace
  <2> QED BY <1>2, <2>2, <2>3, <2>4, <2>6, LookupKept
<1>9. CASE LookupReturns(t, places)
  <2>1. /\ lookup[t] = {} /\ UNCHANGED <<owner, lookup>>
        /\ \E where \in {"download", "serve", "drop"} : Go(t, where)
    BY <1>9 DEF LookupReturns
  <2>2. place'[t] \in places /\ place' \in [Threads -> Places]
    <3>1. PICK where \in places : Go(t, where)
      BY <1>9 DEF LookupReturns
    <3>2. where \in Places
      BY DEF Places
    <3> QED BY <1>3, <3>1, <3>2 DEF TypeOK, Go
  <2>3. TypeOK' /\ LookupAtPlace(t)'
    BY <1>2, <1>5, <2>1, <2>2 DEF TypeOK, LookupAtPlace
  <2>4. /\ \A c \in Conns : AtPlace(c)'
        /\ LoaderAtPlace' /\ ForwarderAtPlace'
        /\ \A u \in Callers : LookupAtPlace(u)'
    <3>1. \A c \in Conns : c \in Threads /\ c # "loader" /\ c # "forwarder"
      BY NamesAssumption DEF Threads
    <3>2. \A c \in Conns : AtPlace(c)'
      BY <1>2, <2>2, <3>1 DEF AllAtPlace, AtPlace
    <3>3. LoaderAtPlace'
      BY <1>2, <2>2 DEF AllAtPlace, LoaderAtPlace, Threads
    <3>4. ForwarderAtPlace'
      BY <1>2, <1>3 DEF AllAtPlace, ForwarderAtPlace, Threads
    <3>5. \A u \in Callers : LookupAtPlace(u)'
      BY <1>2, <1>6, <2>3 DEF AllAtPlace, LookupAtPlace
    <3> QED BY <3>2, <3>3, <3>4, <3>5
  <2>5. Accounted' /\ Own'
    BY <1>2, <2>1 DEF Accounted, Own, Apart, OwnHolds, Held
  <2> QED BY <2>3, <2>4, <2>5 DEF AllAtPlace
<1> QED BY <1>7, <1>8, <1>9 DEF Lookup

-----------------------------------------------------------------------------
(* The steps of the loader.                                                *)

LEMMA LoaderStep ==
  ASSUME IInv, UNCHANGED running, "loader" \in running,
         LoaderOpensQuery \/ LoaderGivesUp \/ LoaderOpensHttp \/ LoaderEnds
  PROVE  IInv'
<1> USE DEF IInv
<1>1. Lowest \in 0..Limit /\ (Lowest # 0 => owner[Lowest] = "free")
  BY LowestIsFree
<1>none. lookup["loader"] = {}
  BY DEF AllAtPlace, LookupAtPlace, Callers, LoaderOpensQuery, LoaderGivesUp, LoaderOpensHttp, LoaderEnds
<1>2. /\ UNCHANGED <<client, query, remote, retried, lookup, sb>>
      /\ \A t \in Threads \ {"loader"} : place'[t] = place[t]
  BY DEF LoaderOpensQuery, LoaderGivesUp, LoaderOpensHttp, LoaderEnds, connVars, TypeOK, Go
<1>3. /\ "loader" \in Threads /\ Held["loader"] = {conf, http} /\ Held'["loader"] = {conf', http'}
      /\ \A u \in Threads \ {"loader"} : Held'[u] = Held[u]
  BY <1>2, <1>none DEF Held, Threads
<1>4. CASE LoaderOpensQuery \/ LoaderOpensHttp
  <2>1. /\ Taken("loader", Lowest)
        /\ \/ conf' = Lowest /\ conf = 0 /\ http' = http /\ http = 0
           \/ http' = Lowest /\ http = 0 /\ conf' = conf
        /\ LoaderAtPlace'
    BY <1>4 DEF LoaderOpensQuery, LoaderOpensHttp, AllAtPlace, LoaderAtPlace, TypeOK, Go, Threads
  <2>2. /\ owner' \in [Fds -> Threads \cup {"free"}]
        /\ Accounted'
        /\ "forwarder" \notin running => \A u \in Conns \cup {"loader"} : OwnHolds(u)'
    <3>1. /\ Held["loader"] \ {0} \subseteq Held'["loader"] /\ Lowest \in Held'["loader"]
          /\ Held'["loader"] \subseteq Held["loader"] \cup {0, Lowest}
      BY <1>3, <2>1
    <3> QED BY <1>3, <2>1, <3>1, TakenStep
  <2>3. "forwarder" \notin running => Apart'
    <3>1. "forwarder" \notin running => conf = 0 \/ conf # Lowest
      BY <1>1, <1>3 DEF Own, OwnHolds
    <3> QED BY <1>2, <1>none, <2>1, <3>1 DEF Own, Apart
  <2>4. TypeOK'
    <3>1. place' \in [Threads -> Places] /\ aborted' \in BOOLEAN
      BY <1>4 DEF LoaderOpensQuery, LoaderOpensHttp, AssertOpen, TypeOK, Go, Places
    <3> QED BY <1>1, <1>2, <2>1, <2>2, <3>1 DEF TypeOK
  <2>5. AllAtPlace'
    BY <1>2, <1>none, <2>1, NamesAssumption
      DEF AllAtPlace, AtPlace, LookupAtPlace, ForwarderAtPlace, Threads, Callers
  <2> QED BY <2>2, <2>3, <2>4, <2>5 DEF Own
<1>5. CASE LoaderGivesUp \/ LoaderEnds
  <2>1. PICK N \in {{conf}, {conf, http}} :
          /\ Closed(N) /\ conf' = 0
          /\ \/ http' = 0 /\ N = {conf, http}
             \/ http' = http /\ N = {conf}
    BY <1>5 DEF LoaderGivesUp, LoaderEnds, Closed
  <2>2. /\ owner' \in [Fds -> Threads \cup {"free"}]
        /\ Accounted'
        /\ "forwarder" \notin running => \A u \in Conns \cup {"loader"} : OwnHolds(u)'
    <3>1. /\ Held'["loader"] \subseteq Held["loader"] \cup {0}
          /\ Held["loader"] \ (N \cup {0}) \subseteq Held'["loader"] /\ N \subseteq Held["loader"]
          /\ "forwarder" \notin running => N \cap Held'["loader"] \subseteq {0}
      BY <1>3, <2>1 DEF Own, Apart
    <3> QED BY <1>3, <2>1, <3>1, ClosedStep
  <2>3. "forwarder" \notin running => Apart'
    BY <1>2, <1>none, <2>1 DEF Own, Apart
  <2>4. TypeOK'
    <3>1. place' \in [Threads -> Places] /\ aborted' \in BOOLEAN
      BY <1>5 DEF LoaderGivesUp, LoaderEnds, TypeOK, Go, Places
    <3>2. 0 \in 0..Limit
      BY LimitAssumption
    <3> QED BY <1>2, <2>1, <2>2, <3>1, <3>2 DEF TypeOK
  <2>5. place'["loader"] = "done"
    BY <1>5 DEF LoaderGivesUp, LoaderEnds, TypeOK, Go, Threads
  <2>6. AllAtPlace'
    BY <1>2, <1>none, <2>1, <2>5, NamesAssumption
      DEF AllAtPlace, AtPlace, LookupAtPlace, LoaderAtPlace, ForwarderAtPlace, Threads, Callers
  <2> QED BY <2>2, <2>3, <2>4, <2>6 DEF Own
<1> QED BY <1>4, <1>5

-----------------------------------------------------------------------------
(* The steps of the forwarder.                                             *)

LEMMA ForwarderStep ==
  ASSUME IInv, UNCHANGED running, "forwarder" \in running, Forwarder
  PROVE  IInv'
<1> USE DEF IInv
<1>1. Lowest \in 0..Limit
  BY LowestIsFree
<1>2. /\ UNCHANGED <<client, query, remote, retried, conf, http, lookup, aborted>>
      /\ \A t \in Threads \ {"forwarder"} : place'[t] = place[t]
  BY DEF Forwarder, ForwarderOpens, ForwarderGivesUp, ForwarderAsks, ForwarderHears, ForwarderReplies,
         connVars, loaderVars, TypeOK, Go
<1>3. /\ "forwarder" \in Threads /\ Held["forwarder"] = {sb} /\ Held'["forwarder"] = {sb'}
      /\ \A u \in Threads \ {"forwarder"} : Held'[u] = Held[u]
  BY <1>2 DEF Held, Threads
<1>4. \/ Taken("forwarder", Lowest) /\ sb' = Lowest /\ sb = 0
      \/ Closed({sb}) /\ sb' \in {0, sb}
      \/ UNCHANGED <<owner, sb>>
  BY DEF Forwarder, ForwarderOpens, ForwarderGivesUp, ForwarderAsks, ForwarderHears, ForwarderReplies,
         AllAtPlace, ForwarderAtPlace
<1>5. owner' \in [Fds -> Threads \cup {"free"}] /\ Accounted'
  <2>1. CASE Taken("forwarder", Lowest) /\ sb' = Lowest /\ sb = 0
    <3>1. /\ Held["forwarder"] \ {0} \subseteq Held'["forwarder"] /\ Lowest \in Held'["forwarder"]
          /\ Held'["forwarder"] \subseteq Held["forwarder"] \cup {0, Lowest}
      BY <1>3, <2>1
    <3> QED BY <1>3, <2>1, <3>1, TakenStep
  <2>2. CASE Closed({sb}) /\ sb' \in {0, sb}
    <3>1. /\ Held'["forwarder"] \subseteq Held["forwarder"] \cup {0}
          /\ Held["forwarder"] \ ({sb} \cup {0}) \subseteq Held'["forwarder"] /\ {sb} \subseteq Held["forwarder"]
      BY <1>3, <2>2
    <3> QED BY <1>3, <2>2, <3>1, ClosedStep
  <2>3. CASE UNCHANGED <<owner, sb>>
    BY <1>2, <2>3 DEF TypeOK, Accounted, Held
  <2> QED BY <1>4, <2>1, <2>2, <2>3
<1>6. TypeOK'
  <2>1. place' \in [Threads -> Places]
    <3>1. PICK new \in {"connect", "idle", "size", "reply"} : Go("forwarder", new)
      BY DEF Forwarder, ForwarderOpens, ForwarderGivesUp, ForwarderAsks, ForwarderHears, ForwarderReplies
    <3> QED BY <3>1 DEF TypeOK, Go, Places
  <2>2. sb' \in 0..Limit
    BY <1>1, <1>4, LimitAssumption DEF TypeOK
  <2> QED BY <1>2, <1>5, <2>1, <2>2 DEF TypeOK
<1>7. AllAtPlace'
  <2>1. ForwarderAtPlace'
    BY DEF Forwarder, ForwarderOpens, ForwarderGivesUp, ForwarderAsks, ForwarderHears, ForwarderReplies,
           AllAtPlace, ForwarderAtPlace, TypeOK, Go, Threads
  <2> QED BY <1>2, <2>1, NamesAssumption DEF AllAtPlace, AtPlace, LookupAtPlace, LoaderAtPlace, Threads, Callers
<1> QED BY <1>5, <1>6, <1>7 DEF Own

-----------------------------------------------------------------------------
\* Nobody has opened a socket yet.
LEMMA InitIInv == Init => IInv
<1> SUFFICES ASSUME Init PROVE IInv
  OBVIOUS
<1>1. TypeOK
  <2>1. owner \in [Fds -> Threads \cup {"free"}] /\ place \in [Threads -> Places]
    BY DEF Init, Places
  <2>2. 0 \in 0..Limit
    BY LimitAssumption
  <2> QED BY <2>1, <2>2 DEF Init, TypeOK
<1>2. AllAtPlace
  <2>1. \A t \in Callers : LookupAtPlace(t)
    BY FS_EmptySet, LimitAssumption DEF Init, LookupAtPlace
  <2> QED BY <2>1 DEF Init, AllAtPlace, AtPlace, LoaderAtPlace, ForwarderAtPlace
<1>3. Accounted
  BY DEF Init, Accounted
<1>4. Own
  BY DEF Init, Own, Apart, OwnHolds, Held, Threads, Callers
<1> QED BY <1>1, <1>2, <1>3, <1>4 DEF IInv

\* Every step keeps the account.
LEMMA NextIInv == IInv /\ [Next]_vars => IInv'
<1> SUFFICES ASSUME IInv, [Next]_vars PROVE IInv'
  OBVIOUS
<1>1. CASE Runs("loader", Loader)
  <2>1. "loader" \in Callers
    BY DEF Callers
  <2> QED BY <1>1, <2>1, LoaderStep, LookupStep DEF Runs, Loader
<1>2. CASE Runs("forwarder", Forwarder)
  BY <1>2, ForwarderStep DEF Runs
<1>3. ASSUME NEW c \in Conns, Runs(c, Connection(c)) PROVE IInv'
  <2>1. c \in Callers /\ c # "loader"
    BY NamesAssumption DEF Callers
  <2>2. CASE Lookup(c, {"serve", "drop"})
    BY <1>3, <2>1, <2>2, LookupStep DEF Runs
  <2> QED BY <1>3, <2>2, OpenStep, CloseStep, QuietStep DEF Runs, Connection
<1>4. CASE UNCHANGED vars
  <2> USE <1>4 DEF IInv, vars, connVars, loaderVars
  <2>1. TypeOK'
    BY DEF TypeOK
  <2>2. AllAtPlace'
    BY DEF AllAtPlace, AtPlace, LookupAtPlace, LoaderAtPlace, ForwarderAtPlace
  <2>3. Accounted' /\ Own'
    BY DEF Accounted, Own, Apart, OwnHolds, Held
  <2> QED BY <2>1, <2>2, <2>3
<1> QED BY <1>1, <1>2, <1>3, <1>4 DEF Next

\* The account is kept at all times.
THEOREM Invariant == Spec => []IInv
BY InitIInv, NextIInv, PTL DEF Spec

\* Every variable has its type: numbers are within the table.
THEOREM TypeCorrect == Spec => []TypeOK
<1>1. IInv => TypeOK
  BY DEF IInv
<1> QED BY <1>1, Invariant, PTL

\* Where no forwarder runs no connection uses or closes somebody else's socket, for any
\* number of connections and any size of the table.
THEOREM HandlesAreOwn == Spec => []OwnDescriptors
<1>1. IInv => OwnDescriptors
  <2> SUFFICES ASSUME IInv, "forwarder" \notin running, NEW c \in Conns,
                      NEW n \in {client[c], query[c], remote[c]} \cup lookup[c]
               PROVE  Mine(c, n)
    BY DEF OwnDescriptors
  <2>1. OwnHolds(c) /\ Held[c] = {client[c], query[c], remote[c]} \cup lookup[c]
    BY ConnHolds DEF IInv, Own
  <2> QED BY <2>1 DEF OwnHolds, Mine
<1> QED BY <1>1, Invariant, PTL

\* A process at rest has given back every descriptor but the one the loader forgets,
\* also where the forwarder closes numbers twice.
THEOREM NothingLeaks == Spec => []AllGivenBack
<1>1. IInv => AllGivenBack
  <2> SUFFICES ASSUME IInv, AtRest, NEW n \in Fds, owner[n] # "free" PROVE n = http
    BY DEF AllGivenBack, Free
  <2> USE DEF IInv
  <2>1. /\ \A c \in Conns : client[c] = 0 /\ query[c] = 0 /\ remote[c] = 0
        /\ sb = 0 /\ conf = 0 /\ \A t \in Callers : lookup[t] = {}
    BY DEF AtRest, AllAtPlace, AtPlace, LookupAtPlace, LoaderAtPlace, ForwarderAtPlace, Callers
  <2>2. owner[n] \in Threads /\ n \in Held[owner[n]]
    BY DEF TypeOK, Accounted
  <2>3. n # 0
    BY LimitAssumption DEF Fds
  <2> QED BY <2>1, <2>2, <2>3 DEF Held, Threads, Callers
<1> QED BY <1>1, Invariant, PTL

-----------------------------------------------------------------------------
(* How many descriptors are enough.                                        *)

\* A thread that may call socket() or accept() next, or open another file in gethostbyname().
AboutToOpen(t) ==
  \/ t \in Conns /\ place[t] \in {"idle", "resolve", "connect"}
  \/ t = "loader" /\ place[t] \in {"start", "query"}
  \/ t = "forwarder" /\ place[t] = "idle"
  \/ t \in Callers /\ place[t] = "name" /\ Cardinality(lookup[t]) < LookupFds

FreeForEach == (\E t \in Threads : AboutToOpen(t)) => Free # {}

\* A thread holds two descriptors at a time at most beside those of gethostbyname(), the
\* forwarder one.
Kinds == 1..(LookupFds + 2)
Slots == (Callers \X Kinds) \cup {<<"forwarder", 1>>}

\* The descriptors of gethostbyname(), in some order.
Numbering(S) == {f \in [1..Cardinality(S) -> S] : \A n \in S : \E i \in 1..Cardinality(S) : f[i] = n}
InOrder(t) == CHOOSE f : f \in Numbering(lookup[t])

InSlot == [s \in Slots |->
  CASE s[1] = "forwarder" -> sb
    [] s[1] # "forwarder" /\ s[2] > 2 -> InOrder(s[1])[s[2] - 2]
    [] s[1] = "loader" /\ s[2] \in {1, 2} -> IF s[2] = 1 THEN conf ELSE http
    [] OTHER -> IF s[2] = 1 THEN client[s[1]] ELSE IF query[s[1]] # 0 THEN query[s[1]] ELSE remote[s[1]]]

\* The slot that a thread uses next is empty until then.
Spare(t) ==
  <<t, IF t = "forwarder" THEN 1 ELSE IF place[t] = "name" THEN LookupFds + 2 ELSE 2>>

\* As many descriptors as there are slots.
Enough == Limit >= (Cardinality(Conns) + 1) * (LookupFds + 2) + 1

\* So many slots there are.
LEMMA CountSlots ==
  ASSUME IsFiniteSet(Conns)
  PROVE  /\ IsFiniteSet(Slots) /\ Cardinality(Conns) \in Nat
         /\ Cardinality(Slots) = (Cardinality(Conns) + 1) * (LookupFds + 2) + 1
<1>1. Cardinality(Conns) \in Nat
  BY FS_CardinalityType
<1>2. IsFiniteSet(Callers) /\ Cardinality(Callers) = Cardinality(Conns) + 1
  BY NamesAssumption, FS_AddElement DEF Callers
<1>3. IsFiniteSet(Kinds) /\ Cardinality(Kinds) = LookupFds + 2
  <2>1. \A m \in Nat : IsFiniteSet(1..m) /\ Cardinality(1..m) = IF 1 > m THEN 0 ELSE m - 1 + 1
    BY FS_Interval
  <2>2. LookupFds + 2 \in Nat /\ ~(1 > LookupFds + 2) /\ LookupFds + 2 - 1 + 1 = LookupFds + 2
    BY LimitAssumption
  <2> QED BY <2>1, <2>2 DEF Kinds
<1>4. IsFiniteSet(Callers \X Kinds) /\ Cardinality(Callers \X Kinds) = Cardinality(Callers) * Cardinality(Kinds)
  BY <1>2, <1>3, FS_Product
<1>5. <<"forwarder", 1>> \notin Callers \X Kinds
  BY NamesAssumption DEF Callers
<1>6. IsFiniteSet(Slots) /\ Cardinality(Slots) = Cardinality(Callers \X Kinds) + 1
  <2> DEFINE all == Callers \X Kinds
             last == <<"forwarder", 1>>
  <2>1. IsFiniteSet(all) /\ last \notin all /\ Slots = all \cup {last}
    BY <1>4, <1>5 DEF Slots
  <2> HIDE DEF all, last
  <2>2. IsFiniteSet(all \cup {last}) /\ Cardinality(all \cup {last}) = Cardinality(all) + 1
    BY <2>1, FS_AddElement
  <2> QED BY <2>1, <2>2 DEF all
<1> QED BY <1>1, <1>2, <1>3, <1>4, <1>6

\* What gethostbyname() has open is numbered.
LEMMA Numbered ==
  ASSUME TypeOK, NEW t \in Callers, NEW n \in lookup[t]
  PROVE  \E i \in 1..Cardinality(lookup[t]) : InOrder(t)[i] = n
<1>1. ExistsBijection(1..Cardinality(lookup[t]), lookup[t])
  BY LookupFinite, FS_CardinalityType
<1>2. Numbering(lookup[t]) # {}
  BY <1>1 DEF ExistsBijection, Bijection, Surjection, Numbering
<1>3. InOrder(t) \in Numbering(lookup[t])
  BY <1>2 DEF InOrder
<1> QED BY <1>3 DEF Numbering

\* Every number that is taken is in a slot, and never in a spare one.
LEMMA TakenInSlot ==
  ASSUME IInv, NEW t \in Threads, AboutToOpen(t), NEW n \in Fds, owner[n] # "free"
  PROVE  \E s \in Slots \ {Spare(t)} : InSlot[s] = n
<1> USE DEF IInv
<1>1. owner[n] \in Threads /\ n \in Held[owner[n]] /\ n # 0
  BY LimitAssumption DEF TypeOK, Accounted, Fds
<1>2. PICK u \in Threads : u = owner[n]
  BY <1>1
<1>3. /\ \A c \in Conns : c # "loader" /\ c # "forwarder"
      /\ "loader" # "forwarder" /\ LookupFds \in Nat
  BY NamesAssumption, LimitAssumption
<1>4. CASE u = "forwarder"
  <2>1. <<u, 1>> \in Slots /\ InSlot[<<u, 1>>] = sb
    BY <1>4 DEF Slots, InSlot
  <2>2. n = sb
    BY <1>1, <1>2, <1>4 DEF Held
  <2>3. <<u, 1>> # Spare(t)
    <3>1. t # "forwarder" => LookupFds + 2 # 1
      BY <1>3
    <3> QED BY <1>1, <1>3, <1>4, <2>2, <3>1 DEF Spare, AboutToOpen, AllAtPlace, ForwarderAtPlace, Callers
  <2> QED BY <2>1, <2>2, <2>3
<1>5. CASE u \in Callers
  <2>1. /\ u # "forwarder" /\ 1 \in Kinds /\ 2 \in Kinds /\ <<u, 1>> \in Slots /\ <<u, 2>> \in Slots
        /\ InSlot[<<u, 1>>] = IF u = "loader" THEN conf ELSE client[u]
        /\ InSlot[<<u, 2>>] = IF u = "loader" THEN http ELSE IF query[u] # 0 THEN query[u] ELSE remote[u]
    <3>1. u # "forwarder" /\ 1 \in Kinds /\ 2 \in Kinds
      BY <1>3, <1>5 DEF Callers, Kinds
    <3>2. <<u, 1>> \in Slots /\ <<u, 2>> \in Slots
      BY <1>5, <3>1 DEF Slots
    <3> QED BY <3>1, <3>2 DEF InSlot
  <2>2. /\ t = u => Spare(t) = <<u, IF place[u] = "name" THEN LookupFds + 2 ELSE 2>>
        /\ t # u => \A k : <<u, k>> # Spare(t)
    BY <2>1 DEF Spare
  <2>3. t = u => \/ place[u] = "name" /\ Cardinality(lookup[u]) < LookupFds
                 \/ u \in Conns /\ place[u] \in {"idle", "resolve", "connect"}
                 \/ u = "loader" /\ place[u] \in {"start", "query"}
    BY <2>1 DEF AboutToOpen
  <2>4. LookupAtPlace(u) /\ (u \in Conns => AtPlace(u)) /\ LoaderAtPlace
    BY <1>5 DEF AllAtPlace
  <2>5. Cardinality(lookup[u]) \in Nat
    BY <1>5, LookupFinite
  <2>6. CASE n \in lookup[u]
    <3>1. PICK i \in 1..Cardinality(lookup[u]) : InOrder(u)[i] = n
      BY <1>5, <2>6, Numbered
    <3>2. PICK k \in Kinds : k = i + 2 /\ k > 2 /\ k - 2 = i /\ k <= Cardinality(lookup[u]) + 2
      <4>1. Cardinality(lookup[u]) <= LookupFds
        BY <2>4 DEF LookupAtPlace
      <4> HIDE DEF IInv
      <4>2. i + 2 \in 1..(LookupFds + 2) /\ i + 2 > 2 /\ i + 2 - 2 = i /\ i + 2 <= Cardinality(lookup[u]) + 2
        BY <1>3, <2>5, <4>1
      <4> QED BY <4>2 DEF Kinds
    <3>3. <<u, k>> \in Slots
      BY <1>5 DEF Slots
    <3>4. InSlot[<<u, k>>] = n
      BY <2>1, <3>1, <3>2, <3>3 DEF InSlot
    <3>5. <<u, k>> # Spare(t)
      <4>1. CASE t = u
        <5>1. place[u] = "name"
          BY <2>4, <2>6 DEF LookupAtPlace
        <5>2. Cardinality(lookup[u]) < LookupFds
          BY <2>3, <4>1, <5>1
        <5>3. k # LookupFds + 2
          BY <1>3, <2>5, <3>2, <5>2 DEF Kinds
        <5> QED BY <2>2, <4>1, <5>1, <5>3
      <4>2. CASE t # u
        BY <2>2, <4>2
      <4> QED BY <4>1, <4>2
    <3> QED BY <3>3, <3>4, <3>5
  <2>7. CASE n \notin lookup[u]
    <3>1. \/ n = InSlot[<<u, 1>>]
          \/ n = InSlot[<<u, 2>>] /\ (t = u => place[u] = "name")
      <4>1. CASE u = "loader"
        <5>1. n = conf \/ n = http
          BY <1>1, <1>2, <2>7, <4>1 DEF Held
        <5>2. n = http => (t = u => place[u] = "name")
          BY <1>1, <1>3, <2>3, <2>4, <4>1 DEF LoaderAtPlace
        <5> QED BY <2>1, <4>1, <5>1, <5>2
      <4>2. CASE u # "loader"
        <5>1. u \in Conns
          BY <1>5, <4>2 DEF Callers
        <5>2. n = client[u] \/ n = query[u] \/ n = remote[u]
          BY <1>1, <1>2, <2>1, <2>7, <4>2 DEF Held
        <5>3. n = remote[u] => query[u] = 0
          BY <1>1, <2>4, <5>1 DEF AtPlace
        <5>4. n \in {query[u], remote[u]} => (t = u => place[u] = "name")
          BY <1>1, <2>3, <2>4, <4>2, <5>1 DEF AtPlace
        <5> QED BY <1>1, <2>1, <4>2, <5>2, <5>3, <5>4
      <4> QED BY <4>1, <4>2
    <3>2. <<u, 1>> # Spare(t)
      <4>1. LookupFds + 2 # 1
        BY <1>3
      <4> QED BY <2>2, <4>1
    <3>3. (t = u => place[u] = "name") => <<u, 2>> # Spare(t)
      <4>1. t = u /\ place[u] = "name" => LookupFds + 2 # 2
        BY <1>3, <2>3, <2>5
      <4> QED BY <2>2, <4>1
    <3> QED BY <2>1, <3>1, <3>2, <3>3
  <2> QED BY <2>6, <2>7
<1> QED BY <1>2, <1>4, <1>5 DEF Threads, Callers

\* If all were taken, two numbers would be in one slot.
LEMMA OneIsFree ==
  ASSUME IInv, IsFiniteSet(Conns), Enough PROVE FreeForEach
<1> SUFFICES ASSUME NEW t \in Threads, AboutToOpen(t), Free = {} PROVE FALSE
  BY DEF FreeForEach
<1>1. Spare(t) \in Slots
  <2>1. 2 \in Kinds /\ LookupFds + 2 \in Kinds
    BY LimitAssumption DEF Kinds
  <2> QED BY <2>1 DEF Spare, Slots, Threads, Callers
<1>2. IsFiniteSet(Slots \ {Spare(t)}) /\ Cardinality(Slots \ {Spare(t)}) < Limit
  <2>1. /\ IsFiniteSet(Slots \ {Spare(t)})
        /\ Cardinality(Slots \ {Spare(t)}) = Cardinality(Slots) - 1
    BY <1>1, CountSlots, FS_RemoveElement
  <2>2. Cardinality(Slots) <= Limit
    BY CountSlots DEF Enough
  <2>3. Cardinality(Slots) \in Nat
    BY CountSlots, FS_CardinalityType
  <2> QED BY <2>1, <2>2, <2>3, LimitAssumption
<1>3. IsFiniteSet(Fds) /\ Cardinality(Fds) = Limit
  BY LimitAssumption, FS_Interval DEF Fds
<1> DEFINE slot == [n \in Fds |-> CHOOSE s \in Slots \ {Spare(t)} : InSlot[s] = n]
<1>4. ASSUME NEW n \in Fds PROVE slot[n] \in Slots \ {Spare(t)} /\ InSlot[slot[n]] = n
  <2>1. owner[n] # "free"
    BY DEF Free
  <2>2. \E s \in Slots \ {Spare(t)} : InSlot[s] = n
    BY <2>1, TakenInSlot
  <2> QED BY <2>2
<1> HIDE DEF slot
<1>5. PICK m, n \in Fds : m # n /\ slot[m] = slot[n]
  <2>1. slot \in [Fds -> Slots \ {Spare(t)}]
    BY <1>4 DEF slot
  <2>2. Cardinality(Slots \ {Spare(t)}) < Cardinality(Fds)
    BY <1>2, <1>3
  <2> QED BY <1>2, <1>3, <2>1, <2>2, FS_PigeonHole
<1> QED BY <1>4, <1>5

\* With two descriptors and those of gethostbyname() for every connection, as many for the
\* loader and one for the forwarder no call for one fails, and the assertion of
\* DnsQuery::connect() holds, although sockets are held by several parts of a thread,
\* numbers are closed twice and one is never given back.
THEOREM EnoughDescriptors ==
  ASSUME IsFiniteSet(Conns), Enough
  PROVE  Spec => [](FreeForEach /\ QueryHasSocket)
<1> DEFINE Fine == IInv /\ ~aborted
<1>1. Init => Fine
  BY InitIInv DEF Init
<1>2. Fine /\ [Next]_vars => Fine'
  <2> SUFFICES ASSUME IInv, ~aborted, [Next]_vars PROVE ~aborted'
    BY NextIInv
  <2>1. FreeForEach
    BY OneIsFree
  <2>2. Free # {} => Lowest # 0
    BY LowestWhenFree, LimitAssumption DEF IInv, Fds
  <2>3. ASSUME NEW c \in Conns, Runs(c, Connection(c)) PROVE ~aborted'
    <3>1. CASE OpenQuery(c)
      <4>1. c \in Threads /\ AboutToOpen(c)
        BY <3>1 DEF OpenQuery, AboutToOpen, Threads
      <4> QED BY <2>1, <2>2, <3>1, <4>1 DEF FreeForEach, OpenQuery, AssertOpen
    <3>2. CASE ~OpenQuery(c)
      BY <2>3, <3>2 DEF Runs, Connection, Accept, NoQuery, EndQuery, OpenRemote, Retry, EndExchange, DropClient,
                        DropRemote, Lookup, LookupOpens, LookupCloses, LookupReturns
    <3> QED BY <3>1, <3>2
  <2>4. CASE Runs("loader", Loader)
    <3>1. CASE LoaderOpensQuery
      <4>1. "loader" \in Threads /\ AboutToOpen("loader")
        BY <3>1 DEF LoaderOpensQuery, AboutToOpen, Threads
      <4> QED BY <2>1, <2>2, <3>1, <4>1 DEF FreeForEach, LoaderOpensQuery, AssertOpen
    <3>2. CASE ~LoaderOpensQuery
      BY <2>4, <3>2 DEF Runs, Loader, LoaderGivesUp, LoaderOpensHttp, LoaderEnds,
                        Lookup, LookupOpens, LookupCloses, LookupReturns
    <3> QED BY <3>1, <3>2
  <2>5. CASE Runs("forwarder", Forwarder)
    BY <2>5 DEF Runs, Forwarder, ForwarderOpens, ForwarderGivesUp, ForwarderAsks, ForwarderHears, ForwarderReplies,
                loaderVars
  <2>6. CASE UNCHANGED vars
    BY <2>6 DEF vars
  <2> QED BY <2>3, <2>4, <2>5, <2>6 DEF Next
<1>3. Fine => FreeForEach /\ QueryHasSocket
  BY OneIsFree DEF QueryHasSocket
<1> QED BY <1>1, <1>2, <1>3, PTL DEF Spec
=============================================================================
