---------------------------- MODULE FetchProofs ----------------------------
(***************************************************************************)
(* Proofs about module Fetch, for all threads, hosts, locks, sizes of the  *)
(* table of hosts and answers:                                             *)
(*   FetchType          the tables have their shape, and a thread holds a  *)
(*                      robots lock exactly while it fetches a robots.txt  *)
(*   FetchRobotsOnce    a robots.txt is answered once for each host        *)
(*   FetchRobotsObeyed  and what it disallows is not requested, if the     *)
(*                      host showed it                                     *)
(*   HostFindCorrect    the bisection of the table finds a host's entry    *)
(*   FetchStopsAfterMax requests to a host with a name that fails end      *)
(***************************************************************************)
EXTENDS Fetch, Induction, SequenceTheorems, FiniteSetTheorems, TLAPS

-----------------------------------------------------------------------------
(* The table of hosts.                                                     *)

Entry == [host : Hosts, resolved : BOOLEAN, errors : Nat, lastUsed : 0..ClockMax]

Ordered(s) == \A i \in DOMAIN s : i + 1 \in DOMAIN s => s[i].host <= s[i + 1].host

TableOK == /\ table \in Seq(Entry) /\ now \in 0..ClockMax
           /\ Len(table) <= CacheSize /\ Ordered(table)

\* Sorting gives a sequence of the same entries in order.
LEMMA SortedFacts ==
    ASSUME NEW s \in Seq(Entry), NEW z \in Sorted(s)
    PROVE  z \in Seq(Entry) /\ Len(z) = Len(s) /\ Ordered(z)
<1>1. PICK p \in [DOMAIN s -> DOMAIN s] : z = [i \in DOMAIN s |-> s[p[i]]]
  BY DEF Sorted
<1>2. Ordered(z)
  BY <1>1 DEF Sorted, Ordered
<1>3. DOMAIN s = 1..Len(s) /\ Len(s) \in Nat
  OBVIOUS
<1>4. \A i \in 1..Len(s) : s[p[i]] \in Entry
  BY <1>3
<1> QED BY <1>1, <1>2, <1>3, <1>4

\* A field of an entry that is not its host's name may change.
LEMMA EntryChanges ==
    ASSUME TableOK, now' = now, NEW i,
           \/ table' = [table EXCEPT ![i].lastUsed = now]
           \/ \E n \in Nat : table' = [table EXCEPT ![i].errors = n]
    PROVE  TableOK'
<1>1. DOMAIN table = 1..Len(table) /\ Len(table) \in Nat
  BY DEF TableOK
<1>2. DOMAIN table' = DOMAIN table
  OBVIOUS
<1>3. \A j \in 1..Len(table) : table'[j] \in Entry /\ table'[j].host = table[j].host
  <2>1. SUFFICES ASSUME NEW j \in 1..Len(table)
                 PROVE  table'[j] \in Entry /\ table'[j].host = table[j].host
    OBVIOUS
  <2>2. table[j] \in Entry
    BY <1>1 DEF TableOK
  <2>3. \A n \in 0..ClockMax : /\ [table[j] EXCEPT !.lastUsed = n] \in Entry
                               /\ [table[j] EXCEPT !.lastUsed = n].host = table[j].host
    BY <2>2 DEF Entry
  <2>4. \A n \in Nat : /\ [table[j] EXCEPT !.errors = n] \in Entry
                       /\ [table[j] EXCEPT !.errors = n].host = table[j].host
    BY <2>2 DEF Entry
  <2>5. \/ table'[j] = table[j]
        \/ table'[j] = [table[j] EXCEPT !.lastUsed = now]
        \/ \E n \in Nat : table'[j] = [table[j] EXCEPT !.errors = n]
    BY <1>1
  <2> QED BY <2>2, <2>3, <2>4, <2>5 DEF TableOK
<1>4. table' \in Seq(Entry) /\ Len(table') = Len(table)
  <2>1. table' = [j \in 1..Len(table) |-> table'[j]]
    BY <1>1
  <2> QED BY <1>1, <1>3, <2>1
<1>5. Ordered(table)'
  BY <1>1, <1>2, <1>3 DEF TableOK, Ordered
<1> QED BY <1>4, <1>5 DEF TableOK

\* A new host is put at the end or in the place of the oldest one.
LEMMA AddTable ==
    ASSUME TableOK, now' = now, NEW h \in Hosts, NEW r \in BOOLEAN, HostAdd(h, r)
    PROVE  TableOK'
<1> DEFINE entry == [host |-> h, resolved |-> Address(r), errors |-> 0, lastUsed |-> now]
           added == IF Len(table) < CacheSize THEN Append(table, entry)
                    ELSE [table EXCEPT ![Oldest] = entry]
<1>1. entry \in Entry
  BY DEF TableOK, Entry, Address
<1>2. table \in Seq(Entry) /\ Len(table) <= CacheSize /\ Len(table) \in Nat
  BY DEF TableOK
<1>3. added \in Seq(Entry) /\ Len(added) <= CacheSize
  <2>1. CASE Len(table) < CacheSize
    <3> HIDE DEF entry
    <3> QED BY <1>1, <1>2, <2>1, BoundAssumption
  <2>2. CASE ~(Len(table) < CacheSize)
    <3> HIDE DEF entry
    <3>1. added = [j \in 1..Len(table) |-> IF j = Oldest THEN entry ELSE table[j]]
      BY <1>2, <2>2
    <3>2. \A j \in 1..Len(table) : table[j] \in Entry
      BY <1>2
    <3>3. added \in [1..Len(table) -> Entry]
      BY <1>1, <3>1, <3>2
    <3> HIDE DEF added
    <3> QED BY <1>2, <3>3
  <2> QED BY <2>1, <2>2
<1>4. table' \in Sorted(added)
  BY DEF HostAdd
<1> HIDE DEF added
<1>5. table' \in Seq(Entry) /\ Len(table') = Len(added) /\ Ordered(table')
  BY <1>3, <1>4, SortedFacts
<1> QED BY <1>3, <1>5 DEF TableOK, Ordered

-----------------------------------------------------------------------------
(* The threads and their locks.                                            *)

InRobots == {"robotLookup", "robotResolve", "robotGet"}

\* A thread has a document while it is not idle, a result while DocUpdate
\* is to come, and its lock while it fetches a robots.txt.
ThreadOK(t) ==
    /\ doc[t] \in IF At(t, "idle") THEN {NoDoc} ELSE [host : Hosts, path : Paths]
    /\ (result[t] = "none") <=> ~At(t, "update")
    /\ \A l \in RobotLocks : owner[l] = t <=> pc[t] \in InRobots /\ LockOf[H(t)] = l

PlaceOK ==
    /\ robots \in [Hosts -> {"none", "empty", "rules"}]
    /\ owner \in [RobotLocks -> Threads \cup {Nobody}]
    /\ pc \in [Threads -> PCs]
    /\ doc \in [Threads -> [host : Hosts \cup {-1}, path : Paths]]
    /\ result \in [Threads -> Results]
    /\ \A t \in Threads : ThreadOK(t)

LEMMA HasHost ==
    ASSUME PlaceOK, NEW t \in Threads, ~At(t, "idle")
    PROVE  H(t) \in Hosts /\ LockOf[H(t)] \in RobotLocks
BY RobotAssumption DEF PlaceOK, ThreadOK, H

\* A step of one thread to s that neither takes nor gives a lock, nor begins
\* or ends a document.
Inside(t, s) ==
    /\ GoTo(t, s) /\ pc[t] # "idle"
    /\ s \in InRobots <=> pc[t] \in InRobots
    /\ IF s = "update" THEN \E r \in Results \ {"none"} : result' = [result EXCEPT ![t] = r]
                       ELSE result' = result /\ pc[t] # "update"
    /\ owner' = owner /\ doc' = doc /\ robots' \in [Hosts -> {"none", "empty", "rules"}]

LEMMA InsideOK ==
    ASSUME PlaceOK, NEW t \in Threads, NEW s \in PCs \ {"idle"}, Inside(t, s)
    PROVE  PlaceOK'
<1>1. /\ pc' = [pc EXCEPT ![t] = s]
      /\ s \in InRobots <=> pc[t] \in InRobots
      /\ IF s = "update" THEN \E r \in Results \ {"none"} : result' = [result EXCEPT ![t] = r]
                         ELSE result' = result /\ pc[t] # "update"
  BY DEF Inside, GoTo
<1>2. /\ pc' \in [Threads -> PCs] /\ result' \in [Threads -> Results]
      /\ owner' = owner /\ doc' = doc /\ robots' \in [Hosts -> {"none", "empty", "rules"}]
  BY <1>1 DEF PlaceOK, Inside
<1>3. ASSUME NEW u \in Threads PROVE ThreadOK(u)'
  <2>1. ThreadOK(u)
    BY DEF PlaceOK
  <2>2. CASE u # t
    BY <1>1, <1>2, <2>1, <2>2 DEF PlaceOK, ThreadOK, At, H
  <2>3. CASE u = t
    <3>1. pc[t] # "idle" /\ pc'[t] = s /\ s # "idle"
      BY <1>1 DEF Inside, PlaceOK
    <3>2. doc'[t] \in [host : Hosts, path : Paths]
      BY <1>2, <2>1, <2>3, <3>1 DEF ThreadOK, At
    <3>3. (result'[t] = "none") <=> pc'[t] # "update"
      BY <1>1, <2>1, <2>3, <3>1 DEF ThreadOK, At, PlaceOK
    <3> QED BY <1>1, <1>2, <2>1, <2>3, <3>1, <3>2, <3>3 DEF ThreadOK, At, H
  <2> QED BY <2>2, <2>3
<1> QED BY <1>2, <1>3 DEF PlaceOK

\* The steps that change a lock or begin or end a document.
LEMMA TakeOK ==
    ASSUME PlaceOK, NEW t \in Threads, NEW h \in Hosts, NEW p \in Paths, Take(t, h, p)
    PROVE  PlaceOK'
<1>1. /\ pc[t] = "idle" /\ pc' = [pc EXCEPT ![t] = "lookup"]
      /\ doc' = [doc EXCEPT ![t] = [host |-> h, path |-> p]]
      /\ robots' = robots /\ owner' = owner /\ result' = result
  BY DEF Take, At, GoTo, robotVars
<1>2. pc' \in [Threads -> PCs]
  BY <1>1 DEF PlaceOK, PCs
<1>3. doc' \in [Threads -> [host : Hosts \cup {-1}, path : Paths]]
  BY <1>1 DEF PlaceOK
<1>4. ASSUME NEW u \in Threads PROVE ThreadOK(u)'
  <2>1. ThreadOK(u)
    BY DEF PlaceOK
  <2>2. CASE u # t
    BY <1>1, <2>1, <2>2 DEF PlaceOK, ThreadOK, At, H
  <2>3. CASE u = t
    BY <1>1, <2>1, <2>3 DEF PlaceOK, ThreadOK, At, H, InRobots
  <2> QED BY <2>2, <2>3
<1> QED BY <1>1, <1>2, <1>3, <1>4 DEF PlaceOK

LEMMA UpdateOK ==
    ASSUME PlaceOK, NEW t \in Threads, Update(t)
    PROVE  PlaceOK'
<1>1. /\ pc[t] = "update" /\ pc' = [pc EXCEPT ![t] = "idle"]
      /\ doc' = [doc EXCEPT ![t] = NoDoc] /\ result' = [result EXCEPT ![t] = "none"]
      /\ robots' = robots /\ owner' = owner
  BY DEF Update, At, GoTo, robotVars
<1>2. pc' \in [Threads -> PCs] /\ result' \in [Threads -> Results]
  BY <1>1 DEF PlaceOK, PCs, Results
<1>3. doc' \in [Threads -> [host : Hosts \cup {-1}, path : Paths]]
  BY <1>1 DEF PlaceOK, NoDoc, Paths
<1>4. ASSUME NEW u \in Threads PROVE ThreadOK(u)'
  <2>1. ThreadOK(u)
    BY DEF PlaceOK
  <2>2. CASE u # t
    BY <1>1, <2>1, <2>2 DEF PlaceOK, ThreadOK, At, H
  <2>3. CASE u = t
    BY <1>1, <2>1, <2>3 DEF PlaceOK, ThreadOK, At, H, InRobots
  <2> QED BY <2>2, <2>3
<1> QED BY <1>1, <1>2, <1>3, <1>4 DEF PlaceOK

LEMMA RobotsLockOK ==
    ASSUME PlaceOK, NEW t \in Threads, RobotsLock(t)
    PROVE  PlaceOK'
<1>1. /\ pc[t] = "robots" /\ owner[LockOf[H(t)]] = Nobody
      /\ robots' = robots /\ doc' = doc /\ result' = result
  BY DEF RobotsLock, At
<1>2. H(t) \in Hosts /\ LockOf[H(t)] \in RobotLocks
  BY <1>1, HasHost DEF At
<1>3. CASE robots[H(t)] # "none"
  <2>1. pc' = [pc EXCEPT ![t] = "rules"] /\ owner' = owner
    BY <1>3 DEF RobotsLock, GoTo
  <2>2. Inside(t, "rules")
    BY <1>1, <2>1 DEF Inside, GoTo, InRobots, PlaceOK
  <2> QED BY <2>2, InsideOK DEF PCs
<1>4. CASE robots[H(t)] = "none"
  <2>1. /\ pc' = [pc EXCEPT ![t] = "robotLookup"]
        /\ owner' = [owner EXCEPT ![LockOf[H(t)]] = t]
    BY <1>4 DEF RobotsLock, GoTo
  <2>2. pc' \in [Threads -> PCs] /\ owner' \in [RobotLocks -> Threads \cup {Nobody}]
    BY <1>2, <2>1 DEF PlaceOK, PCs
  <2>3. ASSUME NEW u \in Threads PROVE ThreadOK(u)'
    <3>1. ThreadOK(u) /\ ThreadOK(t)
      BY DEF PlaceOK
    <3>2. CASE u # t
      <4>1. pc'[u] = pc[u] /\ doc'[u] = doc[u] /\ result'[u] = result[u] /\ H(u)' = H(u)
        BY <1>1, <2>1, <3>2 DEF PlaceOK, H
      <4>2. \A l \in RobotLocks : owner'[l] = u <=> owner[l] = u
        BY <1>1, <1>2, <2>1, <3>2, ThreadAssumption DEF PlaceOK
      <4> QED BY <3>1, <4>1, <4>2 DEF ThreadOK, At
    <3>3. CASE u = t
      <4>1. \A l \in RobotLocks : owner[l] # t
        BY <1>1, <3>1 DEF ThreadOK, InRobots
      <4>2. pc'[t] = "robotLookup" /\ H(t)' = H(t)
        BY <1>1, <2>1 DEF PlaceOK, H
      <4>3. \A l \in RobotLocks : owner'[l] = t <=> l = LockOf[H(t)]
        BY <2>1, <4>1 DEF PlaceOK
      <4> QED BY <1>1, <3>1, <3>3, <4>2, <4>3 DEF ThreadOK, At, InRobots
    <3> QED BY <3>2, <3>3
  <2> QED BY <1>1, <2>2, <2>3 DEF PlaceOK
<1> QED BY <1>3, <1>4

LEMMA UnlockOK ==
    ASSUME PlaceOK, NEW t \in Threads, RobotDown(t) \/ RobotAnswers(t)
    PROVE  PlaceOK'
<1>1. /\ pc[t] = "robotGet" /\ doc' = doc
      /\ owner' = [owner EXCEPT ![LockOf[H(t)]] = Nobody]
      /\ \E x \in {"empty", "rules"} : robots' \in {robots, [robots EXCEPT ![H(t)] = x]}
      /\ \/ result' = [result EXCEPT ![t] = "later"] /\ pc' = [pc EXCEPT ![t] = "update"]
         \/ result' = result /\ pc' = [pc EXCEPT ![t] = "rules"]
  BY DEF RobotDown, RobotAnswers, At, GoTo, Unlock
<1>2. H(t) \in Hosts /\ LockOf[H(t)] \in RobotLocks
  BY <1>1, HasHost DEF At
<1>3. /\ pc' \in [Threads -> PCs] /\ result' \in [Threads -> Results]
      /\ owner' \in [RobotLocks -> Threads \cup {Nobody}]
  BY <1>1, <1>2 DEF PlaceOK, PCs, Results
<1>4. robots' \in [Hosts -> {"none", "empty", "rules"}]
  BY <1>1, <1>2 DEF PlaceOK
<1>5. ASSUME NEW u \in Threads PROVE ThreadOK(u)'
  <2>1. ThreadOK(u) /\ ThreadOK(t)
    BY DEF PlaceOK
  <2>2. owner[LockOf[H(t)]] = t /\ \A l \in RobotLocks : owner[l] = t => l = LockOf[H(t)]
    BY <1>1, <1>2, <2>1 DEF ThreadOK, InRobots
  <2>3. CASE u # t
    <3>1. pc'[u] = pc[u] /\ doc'[u] = doc[u] /\ result'[u] = result[u] /\ H(u)' = H(u)
      BY <1>1, <2>3 DEF PlaceOK, H
    <3>2. \A l \in RobotLocks : owner'[l] = u <=> owner[l] = u
      BY <1>1, <1>2, <2>2, <2>3, ThreadAssumption DEF PlaceOK
    <3> QED BY <2>1, <3>1, <3>2 DEF ThreadOK, At
  <2>4. CASE u = t
    <3>1. \A l \in RobotLocks : owner'[l] # t
      BY <1>1, <1>2, <2>2, ThreadAssumption DEF PlaceOK
    <3>2. pc'[t] \in {"update", "rules"} /\ ((result'[t] = "none") <=> pc'[t] # "update")
      BY <1>1, <2>1 DEF PlaceOK, ThreadOK, At
    <3> QED BY <1>1, <2>1, <2>4, <3>1, <3>2 DEF ThreadOK, At, InRobots
  <2> QED BY <2>3, <2>4
<1> QED BY <1>1, <1>3, <1>4, <1>5 DEF PlaceOK

-----------------------------------------------------------------------------
(* The steps between a document and its answer.                            *)

LEMMA LookedOK ==
    ASSUME PlaceOK, NEW t \in Threads, pc[t] \in {"lookup", "resolve"},
           owner' = owner, doc' = doc, robots' = robots, NEW e, Looked(t, e)
    PROVE  PlaceOK'
<1>1. CASE /\ result' = [result EXCEPT ![t] = "later"] /\ GoTo(t, "update")
  <2>1. \E r \in Results \ {"none"} : result' = [result EXCEPT ![t] = r]
    BY <1>1 DEF Results
  <2>2. Inside(t, "update")
    BY <1>1, <2>1 DEF Inside, InRobots, PlaceOK
  <2> QED BY <2>2, InsideOK DEF PCs
<1>2. CASE result' = result /\ GoTo(t, "robots")
  <2>1. Inside(t, "robots")
    BY <1>2 DEF Inside, InRobots, PlaceOK
  <2> QED BY <2>1, InsideOK DEF PCs
<1> QED BY <1>1, <1>2 DEF Looked

\* The three ways out of UdmHostLookup2's first critical section.
Found(t) == table' \in {table, [table EXCEPT ![HostFind(H(t))].lastUsed = now]}

LEMMA LookupOK ==
    ASSUME PlaceOK, TableOK, NEW t \in Threads, Lookup(t)
    PROVE  PlaceOK' /\ TableOK'
<1>1. pc[t] = "lookup" /\ now' = now /\ owner' = owner /\ doc' = doc /\ robots' = robots
  BY DEF Lookup, At, robotVars
<1>2. H(t) \in Hosts
  BY <1>1, HasHost DEF At
<1>3. \/ HostAdd(H(t), TRUE) /\ \E e : Looked(t, e)
      \/ GoTo(t, "resolve") /\ table' = table /\ result' = result
      \/ Found(t) /\ \E e : Looked(t, e)
  BY DEF Lookup, HostLookup, Found
<1>4. CASE HostAdd(H(t), TRUE) /\ \E e : Looked(t, e)
  BY <1>1, <1>2, <1>4, AddTable, LookedOK
<1>5. CASE GoTo(t, "resolve") /\ table' = table /\ result' = result
  <2>1. Inside(t, "resolve")
    BY <1>1, <1>5 DEF Inside, InRobots, PlaceOK
  <2>2. PlaceOK'
    BY <2>1, InsideOK DEF PCs
  <2> QED BY <1>1, <1>5, <2>2 DEF TableOK
<1>6. CASE Found(t) /\ \E e : Looked(t, e)
  <2>1. TableOK'
    <3>1. CASE table' = table
      BY <1>1, <3>1 DEF TableOK
    <3>2. CASE table' = [table EXCEPT ![HostFind(H(t))].lastUsed = now]
      BY <1>1, <3>2, EntryChanges
    <3> QED BY <1>6, <3>1, <3>2 DEF Found
  <2> QED BY <1>1, <1>6, <2>1, LookedOK
<1> QED BY <1>3, <1>4, <1>5, <1>6

LEMMA RobotLookupOK ==
    ASSUME PlaceOK, TableOK, NEW t \in Threads, RobotLookup(t)
    PROVE  PlaceOK' /\ TableOK'
<1>1. pc[t] = "robotLookup" /\ now' = now /\ owner' = owner /\ doc' = doc /\ robots' = robots
  BY DEF RobotLookup, At, robotVars
<1>2. H(t) \in Hosts
  BY <1>1, HasHost DEF At
<1>3. \/ HostAdd(H(t), TRUE) /\ GoTo(t, "robotGet") /\ result' = result
      \/ GoTo(t, "robotResolve") /\ table' = table /\ result' = result
      \/ Found(t) /\ GoTo(t, "robotGet") /\ result' = result
  BY DEF RobotLookup, HostLookup, Found
<1>4. PlaceOK'
  <2>1. PICK s \in {"robotGet", "robotResolve"} : GoTo(t, s) /\ result' = result
    BY <1>3
  <2>2. Inside(t, s)
    BY <1>1, <2>1 DEF Inside, InRobots, PlaceOK
  <2> QED BY <2>2, InsideOK DEF PCs
<1>5. TableOK'
  <2>1. CASE HostAdd(H(t), TRUE)
    BY <1>1, <1>2, <2>1, AddTable
  <2>2. CASE table' = table
    BY <1>1, <2>2 DEF TableOK
  <2>3. CASE table' = [table EXCEPT ![HostFind(H(t))].lastUsed = now]
    BY <1>1, <2>3, EntryChanges
  <2> QED BY <1>3, <2>1, <2>2, <2>3 DEF Found
<1> QED BY <1>4, <1>5

LEMMA ResolveOK ==
    ASSUME PlaceOK, TableOK, NEW t \in Threads, Resolve(t) \/ RobotResolve(t)
    PROVE  PlaceOK' /\ TableOK'
<1>1. /\ pc[t] \in {"resolve", "robotResolve"}
      /\ now' = now /\ owner' = owner /\ doc' = doc /\ robots' = robots
      /\ \E r \in BOOLEAN : HostAdd(H(t), r)
  BY DEF Resolve, RobotResolve, At, robotVars
<1>2. H(t) \in Hosts
  BY <1>1, HasHost DEF At
<1>3. TableOK'
  BY <1>1, <1>2, AddTable
<1>4. CASE Resolve(t)
  <2>1. pc[t] = "resolve" /\ \E e : Looked(t, e)
    BY <1>4 DEF Resolve, At
  <2> QED BY <1>1, <1>3, <2>1, LookedOK
<1>5. CASE RobotResolve(t)
  <2>1. Inside(t, "robotGet")
    BY <1>1, <1>5 DEF RobotResolve, Inside, InRobots, PlaceOK, At
  <2> QED BY <1>3, <2>1, InsideOK DEF PCs
<1> QED BY <1>4, <1>5

LEMMA InnerOK ==
    ASSUME PlaceOK, NEW t \in Threads, RobotsOff(t) \/ Rules(t) \/ Get(t)
    PROVE  PlaceOK'
<1>1. CASE RobotsOff(t)
  <2>1. robots' \in [Hosts -> {"none", "empty", "rules"}]
    BY <1>1 DEF RobotsOff, PlaceOK
  <2>2. Inside(t, "get")
    BY <1>1, <2>1 DEF RobotsOff, Inside, InRobots, At
  <2> QED BY <2>2, InsideOK DEF PCs
<1>2. CASE Rules(t) /\ GoTo(t, "get") /\ result' = result
  <2>1. Inside(t, "get")
    BY <1>2 DEF Rules, Inside, InRobots, At, robotVars, PlaceOK
  <2> QED BY <2>1, InsideOK DEF PCs
<1>3. CASE /\ Rules(t) \/ Get(t)
           /\ GoTo(t, "update") /\ \E r \in Results \ {"none"} : result' = [result EXCEPT ![t] = r]
  <2>1. /\ pc[t] \in {"rules", "get"} /\ owner' = owner /\ doc' = doc /\ robots' = robots
    BY <1>3 DEF Rules, Get, At, robotVars
  <2>2. Inside(t, "update")
    BY <1>3, <2>1 DEF Inside, InRobots, PlaceOK
  <2> QED BY <2>2, InsideOK DEF PCs
<1> QED BY <1>1, <1>2, <1>3 DEF Rules, Get, Results

-----------------------------------------------------------------------------
(* The type invariant.                                                     *)

Shape == TableOK /\ PlaceOK

LEMMA ShapeInit == Init => Shape
<1> SUFFICES ASSUME Init PROVE Shape
  OBVIOUS
<1>1. TableOK
  BY BoundAssumption DEF Init, TableOK, Ordered
<1>2. doc \in [Threads -> [host : Hosts \cup {-1}, path : Paths]]
  BY DEF Init, NoDoc, Paths
<1>3. \A t \in Threads : ThreadOK(t)
  BY ThreadAssumption DEF Init, ThreadOK, At, InRobots
<1>4. PlaceOK
  BY <1>2, <1>3 DEF Init, PlaceOK, PCs, Results
<1> QED BY <1>1, <1>4 DEF Shape

LEMMA SameTable ==
    ASSUME TableOK, table' = table, now' = now
    PROVE  TableOK'
BY DEF TableOK

\* DocUpdate changes the count of one entry.
LEMMA UpdateTable ==
    ASSUME TableOK, NEW t \in Threads, Update(t)
    PROVE  TableOK'
<1> DEFINE i == HostFind(H(t))
           counted == result[t] \in {"ok", "refused"} /\ i # 0
<1>1. now' = now /\ table' = IF ~counted THEN table
                             ELSE [table EXCEPT ![i].errors =
                                       IF result[t] = "refused" THEN @ + 1 ELSE 0]
  BY DEF Update
<1> HIDE DEF i, counted
<1>2. CASE table' = table
  BY <1>1, <1>2, SameTable
<1>3. CASE table' = [table EXCEPT ![i].errors = 0]
  BY <1>1, <1>3, EntryChanges
<1>4. CASE i \in DOMAIN table /\ table' = [table EXCEPT ![i].errors = @ + 1]
  <2>1. table[i] \in Entry
    BY <1>4 DEF TableOK
  <2>2. table[i].errors + 1 \in Nat
    BY <2>1 DEF Entry
  <2>3. table' = [table EXCEPT ![i].errors = table[i].errors + 1]
    BY <1>4
  <2> QED BY <1>1, <2>2, <2>3, EntryChanges
<1>5. CASE i \notin DOMAIN table
  <2>1. table' = table
    BY <1>1, <1>5 DEF TableOK
  <2> QED BY <1>1, <2>1, SameTable
<1>6. \/ table' = table
      \/ table' = [table EXCEPT ![i].errors = 0]
      \/ table' = [table EXCEPT ![i].errors = @ + 1]
  BY <1>1
<1> QED BY <1>2, <1>3, <1>4, <1>5, <1>6

LEMMA StepShape ==
    ASSUME Shape, NEW t \in Threads, Step(t)
    PROVE  Shape'
<1> USE DEF Shape
<1>1. CASE Lookup(t)
  BY <1>1, LookupOK
<1>2. CASE Resolve(t) \/ RobotResolve(t)
  BY <1>2, ResolveOK
<1>3. CASE RobotLookup(t)
  BY <1>3, RobotLookupOK
<1>4. CASE RobotsOff(t) \/ Rules(t) \/ Get(t)
  <2>1. table' = table /\ now' = now
    BY <1>4 DEF RobotsOff, Rules, Get, hostVars
  <2> QED BY <1>4, <2>1, SameTable, InnerOK
<1>5. CASE RobotsLock(t)
  <2>1. table' = table /\ now' = now
    BY <1>5 DEF RobotsLock, hostVars
  <2> QED BY <1>5, <2>1, SameTable, RobotsLockOK
<1>6. CASE RobotDown(t) \/ RobotAnswers(t)
  <2>1. table' = table /\ now' = now
    BY <1>6 DEF RobotDown, RobotAnswers, hostVars
  <2> QED BY <1>6, <2>1, SameTable, UnlockOK
<1>7. CASE Update(t)
  BY <1>7, UpdateTable, UpdateOK
<1> QED BY <1>1, <1>2, <1>3, <1>4, <1>5, <1>6, <1>7 DEF Step

LEMMA ShapeStep == Shape /\ [Next]_vars => Shape'
<1> SUFFICES ASSUME Shape, [Next]_vars PROVE Shape'
  OBVIOUS
<1>1. ASSUME NEW t \in Threads, Step(t) PROVE Shape'
  BY <1>1, StepShape
<1>2. ASSUME NEW t \in Threads, NEW h \in Hosts, NEW p \in Paths, Take(t, h, p) PROVE Shape'
  <2>1. table' = table /\ now' = now
    BY <1>2 DEF Take, hostVars
  <2> QED BY <1>2, <2>1, SameTable, TakeOK DEF Shape
<1>3. CASE Tick
  <2>1. /\ table' = table /\ now' \in 0..ClockMax
        /\ robots' = robots /\ owner' = owner /\ pc' = pc /\ doc' = doc /\ result' = result
    BY <1>3, BoundAssumption DEF Tick, robotVars, threadVars, Shape, TableOK
  <2>2. TableOK'
    BY <2>1 DEF Shape, TableOK
  <2>3. PlaceOK'
    BY <2>1 DEF Shape, PlaceOK, ThreadOK, At, H
  <2> QED BY <2>2, <2>3 DEF Shape
<1>4. CASE UNCHANGED vars
  <2>1. /\ table' = table /\ now' = now
        /\ robots' = robots /\ owner' = owner /\ pc' = pc /\ doc' = doc /\ result' = result
    BY <1>4 DEF vars, hostVars, robotVars, threadVars
  <2>2. PlaceOK'
    BY <2>1 DEF Shape, PlaceOK, ThreadOK, At, H
  <2> QED BY <2>1, <2>2, SameTable DEF Shape
<1> QED BY <1>1, <1>2, <1>3, <1>4 DEF Next

LEMMA ShapeIsType == Shape => TypeOK
<1> SUFFICES ASSUME Shape PROVE TypeOK
  OBVIOUS
<1>1. /\ table \in Seq([host : Hosts, resolved : BOOLEAN, errors : Nat, lastUsed : 0..ClockMax])
      /\ Len(table) <= CacheSize
      /\ \A i \in DOMAIN table : i + 1 \in DOMAIN table => table[i].host <= table[i + 1].host
  BY DEF Shape, TableOK, Entry, Ordered
<1>2. ASSUME NEW t \in Threads
      PROVE  /\ (doc[t] = NoDoc) <=> At(t, "idle")
             /\ (result[t] = "none") <=> ~At(t, "update")
             /\ \A l \in RobotLocks :
                    owner[l] = t <=> /\ pc[t] \in {"robotLookup", "robotResolve", "robotGet"}
                                     /\ LockOf[H(t)] = l
  <2>1. ThreadOK(t)
    BY DEF Shape, PlaceOK
  <2>2. \A d \in [host : Hosts, path : Paths] : d # NoDoc
    BY ThreadAssumption DEF NoDoc
  <2> QED BY <2>1, <2>2 DEF ThreadOK, InRobots
<1> QED BY <1>1, <1>2 DEF TypeOK, Shape, PlaceOK

\* The tables keep their shape, and no two threads fetch a robots.txt under
\* one lock: UdmHostFind bisects the table, and UDM_LOCK_ROBOT is released
\* on every way out of UdmRobotsCheck.
THEOREM FetchType == Spec => []TypeOK
<1>1. Spec => []Shape
  BY ShapeInit, ShapeStep, PTL DEF Spec
<1> QED BY <1>1, ShapeIsType, PTL

-----------------------------------------------------------------------------
(* What is known of the robots.txt.                                        *)

\* A robots.txt that has been answered has its rules in the table, and an
\* entry without rules is the answer of a host that has none or has not shown
\* it, unless a document of the host has no Robots.
Strict(h) == UseRobots[h]["private"] = 1 /\ UseRobots[h]["public"] = 1

Free(h) == RobotsTxt[h] = 0 \/ h \in hidden

Answers ==
    /\ fetched \in [Hosts -> {0, 1}]
    /\ \A h \in Hosts : /\ fetched[h] = 1 => robots[h] # "none"
                        /\ Strict(h) /\ robots[h] = "empty" => Free(h)

\* A thread that asks for a robots.txt is the first to do so, one that comes
\* to apply it finds it, and one that asks for its document may.
Careful(t) ==
    /\ pc[t] \in InRobots => fetched[H(t)] = 0
    /\ pc[t] = "rules" => robots[H(t)] # "none"
    /\ pc[t] = "get" /\ doc[t].path = "private" /\ Strict(H(t)) => Free(H(t))

Known == Answers /\ \A t \in Threads : Careful(t)

LEMMA Others ==
    ASSUME Shape, NEW t \in Threads, Step(t)
    PROVE  \A u \in Threads \ {t} : pc'[u] = pc[u] /\ doc'[u] = doc[u]
<1>1. \E s : pc' = [pc EXCEPT ![t] = s]
  <2>1. ASSUME NEW e, Looked(t, e) PROVE \E s : GoTo(t, s)
    BY <2>1 DEF Looked
  <2>2. CASE Lookup(t)
    <3>1. GoTo(t, "resolve") \/ \E e : Looked(t, e)
      BY <2>2 DEF Lookup, HostLookup
    <3> QED BY <2>1, <3>1 DEF GoTo
  <2>3. CASE Resolve(t)
    <3>1. \E e : Looked(t, e)
      BY <2>3 DEF Resolve
    <3> QED BY <2>1, <3>1 DEF GoTo
  <2>4. CASE RobotLookup(t)
    <3>1. GoTo(t, "robotResolve") \/ GoTo(t, "robotGet")
      BY <2>4 DEF RobotLookup, HostLookup
    <3> QED BY <3>1 DEF GoTo
  <2>5. CASE \/ RobotResolve(t) \/ RobotsOff(t) \/ RobotsLock(t) \/ RobotDown(t)
             \/ RobotAnswers(t) \/ Rules(t) \/ Get(t) \/ Update(t)
    BY <2>5 DEF RobotResolve, RobotsOff, RobotsLock, RobotDown, RobotAnswers, Rules,
                Get, Update, GoTo
  <2> QED BY <2>2, <2>3, <2>4, <2>5 DEF Step
<1>2. doc' = doc \/ \E d : doc' = [doc EXCEPT ![t] = d]
  BY DEF Step, Lookup, Resolve, RobotLookup, RobotResolve, RobotsOff, RobotsLock, RobotDown,
         RobotAnswers, Rules, Get, Update
<1> QED BY <1>1, <1>2 DEF Shape, PlaceOK

\* A step of t that leaves the answers alone.
LEMMA OneCareful ==
    ASSUME Shape, Known, NEW t \in Threads, Step(t), Careful(t)',
           UNCHANGED <<robots, fetched, hidden>>
    PROVE  Known'
<1>1. Answers'
  BY DEF Known, Answers, Free
<1>2. ASSUME NEW u \in Threads \ {t} PROVE Careful(u)'
  BY Others DEF Known, Careful, H, Free
<1> QED BY <1>1, <1>2 DEF Known

LEMMA LookedTo ==
    ASSUME Shape, NEW t \in Threads, NEW e, Looked(t, e)
    PROVE  pc'[t] \in {"update", "robots"}
BY DEF Looked, GoTo, Shape, PlaceOK

\* The steps that lead neither to the rules nor to the document.
LEMMA PlainStep ==
    ASSUME Shape, Known, NEW t \in Threads,
           \/ Lookup(t) \/ Resolve(t) \/ RobotLookup(t) \/ RobotResolve(t)
           \/ RobotDown(t) \/ Get(t) \/ Update(t)
    PROVE  Known'
<1>1. Step(t) /\ UNCHANGED <<robots, fetched, hidden>>
  BY DEF Step, Lookup, Resolve, RobotLookup, RobotResolve, RobotDown, Get, Update, robotVars
<1>2. \/ pc'[t] \notin InRobots \cup {"rules", "get"}
      \/ pc'[t] \in {"robotGet", "robotResolve"} /\ pc[t] \in InRobots /\ doc' = doc
  <2>1. CASE Lookup(t)
    <3>1. GoTo(t, "resolve") \/ \E e : Looked(t, e)
      BY <2>1 DEF Lookup, HostLookup
    <3>2. GoTo(t, "resolve") => pc'[t] = "resolve"
      BY DEF GoTo, Shape, PlaceOK
    <3> QED BY <3>1, <3>2, LookedTo DEF InRobots
  <2>2. CASE Resolve(t)
    <3>1. \E e : Looked(t, e)
      BY <2>2 DEF Resolve
    <3> QED BY <3>1, LookedTo DEF InRobots
  <2>3. CASE RobotLookup(t) \/ RobotResolve(t)
    <3>1. /\ GoTo(t, "robotResolve") \/ GoTo(t, "robotGet")
          /\ pc[t] \in {"robotLookup", "robotResolve"} /\ doc' = doc
      BY <2>3 DEF RobotLookup, RobotResolve, HostLookup, At
    <3>2. pc'[t] \in {"robotGet", "robotResolve"}
      BY <3>1 DEF GoTo, Shape, PlaceOK
    <3> QED BY <3>1, <3>2 DEF InRobots
  <2>4. CASE RobotDown(t) \/ Get(t) \/ Update(t)
    <3>1. GoTo(t, "update") \/ GoTo(t, "idle")
      BY <2>4 DEF RobotDown, Get, Update
    <3> QED BY <3>1 DEF GoTo, Shape, PlaceOK, InRobots
  <2> QED BY <2>1, <2>2, <2>3, <2>4
<1>3. Careful(t)'
  <2>1. CASE pc'[t] \notin InRobots \cup {"rules", "get"}
    BY <2>1 DEF Careful
  <2>2. CASE pc'[t] \in {"robotGet", "robotResolve"} /\ pc[t] \in InRobots /\ doc' = doc
    BY <1>1, <2>2 DEF Careful, Known, H
  <2> QED BY <1>2, <2>1, <2>2
<1> QED BY <1>1, <1>3, OneCareful

LEMMA RobotsLockStep ==
    ASSUME Shape, Known, NEW t \in Threads, RobotsLock(t)
    PROVE  Known'
<1>1. /\ Step(t) /\ pc[t] = "robots" /\ doc' = doc
      /\ UNCHANGED <<robots, fetched, hidden>>
  BY DEF Step, RobotsLock, At, histories
<1>2. H(t) \in Hosts /\ H(t)' = H(t)
  BY <1>1, HasHost DEF Shape, At, H
<1>3. \/ robots[H(t)] = "none" /\ pc'[t] = "robotLookup"
      \/ robots[H(t)] # "none" /\ pc'[t] = "rules"
  BY DEF RobotsLock, GoTo, Shape, PlaceOK
<1>4. Careful(t)'
  BY <1>1, <1>2, <1>3 DEF Careful, Known, Answers, InRobots, Free
<1> QED BY <1>1, <1>4, OneCareful

\* UdmRobotRuleFind: of a host without entries, nothing is disallowed.
LEMMA RulesStep ==
    ASSUME Shape, Known, NEW t \in Threads, Rules(t)
    PROVE  Known'
<1>1. /\ Step(t) /\ pc[t] = "rules" /\ doc' = doc
      /\ UNCHANGED <<robots, fetched, hidden>>
  BY DEF Step, Rules, At, robotVars, histories
<1>2. H(t) \in Hosts /\ H(t)' = H(t)
  BY <1>1, HasHost DEF Shape, At, H
<1>3. robots[H(t)] \in {"empty", "rules"}
  BY <1>1, <1>2 DEF Known, Careful, Shape, PlaceOK
<1>4. \/ pc'[t] = "update"
      \/ pc'[t] = "get" /\ (doc[t].path = "private" => robots[H(t)] # "rules")
  BY DEF Rules, GoTo, Shape, PlaceOK
<1>5. Careful(t)'
  BY <1>1, <1>2, <1>3, <1>4 DEF Careful, Known, Answers, InRobots, Free
<1> QED BY <1>1, <1>5, OneCareful

\* A document without Robots wipes the rules of a host that is not strict.
LEMMA RobotsOffStep ==
    ASSUME Shape, Known, NEW t \in Threads, RobotsOff(t)
    PROVE  Known'
<1>1. /\ Step(t) /\ pc[t] = "robots" /\ pc'[t] = "get" /\ doc' = doc /\ UNCHANGED <<fetched, hidden>>
      /\ robots' = [robots EXCEPT ![H(t)] = "empty"]
      /\ UseRobots[H(t)][doc[t].path] = 0
  BY DEF Step, RobotsOff, At, GoTo, histories, Shape, PlaceOK
<1>2. H(t) \in Hosts /\ H(t)' = H(t)
  BY <1>1, HasHost DEF Shape, At, H
<1>3. ~Strict(H(t))
  BY <1>1 DEF Strict, Shape, PlaceOK, Paths
<1>4. \A h \in Hosts : robots'[h] = IF h = H(t) THEN "empty" ELSE robots[h]
  BY <1>1, <1>2 DEF Shape, PlaceOK
<1>5. Answers'
  BY <1>1, <1>3, <1>4 DEF Known, Answers, Strict, Free
<1>6. ASSUME NEW u \in Threads PROVE Careful(u)'
  <2>1. CASE u = t
    BY <1>1, <1>2, <1>3, <2>1 DEF Careful, Strict, InRobots
  <2>2. CASE u # t
    <3>1. pc'[u] = pc[u] /\ doc'[u] = doc[u] /\ H(u)' = H(u)
      BY <1>1, <2>2, Others DEF H
    <3>2. pc[u] # "idle" => H(u) \in Hosts
      BY HasHost DEF Shape, At
    <3> QED BY <1>1, <1>4, <3>1, <3>2 DEF Known, Careful, Strict, InRobots, Free
  <2> QED BY <2>1, <2>2
<1> QED BY <1>5, <1>6 DEF Known

\* The answer: no other thread of the host waits for one, for it would hold
\* the same lock.
LEMMA RobotAnswersStep ==
    ASSUME Shape, Known, NEW t \in Threads, RobotAnswers(t)
    PROVE  Known'
<1>1. /\ Step(t) /\ pc[t] = "robotGet" /\ pc'[t] = "rules" /\ doc' = doc
      /\ fetched' = [fetched EXCEPT ![H(t)] = @ + 1]
      /\ \/ /\ robots' = [robots EXCEPT ![H(t)] = IF RobotsTxt[H(t)] = 1 THEN "rules" ELSE "empty"]
            /\ hidden' = hidden
         \/ /\ robots' = [robots EXCEPT ![H(t)] = "empty"]
            /\ hidden' = hidden \cup {H(t)}
  BY DEF Step, RobotAnswers, At, GoTo, Shape, PlaceOK
<1>2. H(t) \in Hosts /\ H(t)' = H(t) /\ LockOf[H(t)] \in RobotLocks
  BY <1>1, HasHost DEF Shape, At, H
<1>3. fetched[H(t)] = 0
  BY <1>1 DEF Known, Careful, InRobots
<1>4. \A h \in Hosts : /\ fetched'[h] = IF h = H(t) THEN 1 ELSE fetched[h]
                       /\ h # H(t) => robots'[h] = robots[h]
                       /\ Free(h) => Free(h)'
                       /\ robots'[H(t)] # "none"
                       /\ robots'[H(t)] = "empty" => Free(H(t))'
  <2>1. RobotsTxt[H(t)] \in {0, 1}
    BY <1>2, RobotAssumption
  <2> QED BY <1>1, <1>2, <1>3, <2>1 DEF Shape, PlaceOK, Known, Answers, Free
<1>5. Answers'
  <2>1. fetched' \in [Hosts -> {0, 1}]
    BY <1>1, <1>2, <1>3 DEF Known, Answers
  <2> QED BY <1>2, <1>4, <2>1 DEF Known, Answers, Strict
<1>6. ASSUME NEW u \in Threads PROVE Careful(u)'
  <2>1. CASE u = t
    BY <1>1, <1>2, <1>4, <2>1 DEF Careful, InRobots
  <2>2. CASE u # t
    <3>1. pc'[u] = pc[u] /\ doc'[u] = doc[u] /\ H(u)' = H(u)
      BY <1>1, <2>2, Others DEF H
    <3>2. pc[u] # "idle" => H(u) \in Hosts
      BY HasHost DEF Shape, At
    <3>3. ThreadOK(u) /\ ThreadOK(t)
      BY DEF Shape, PlaceOK
    <3>4. pc[u] \in InRobots => H(u) # H(t)
      BY <1>1, <1>2, <2>2, <3>3 DEF ThreadOK, InRobots
    <3>5. pc[u] \in InRobots => H(u) \in Hosts
      BY <3>2 DEF InRobots
    <3> QED BY <1>1, <1>4, <3>1, <3>2, <3>4, <3>5 DEF Known, Careful, Strict
  <2> QED BY <2>1, <2>2
<1> QED BY <1>5, <1>6 DEF Known

LEMMA KnownStep == Shape /\ Known /\ [Next]_vars => Known'
<1> SUFFICES ASSUME Shape, Known, [Next]_vars PROVE Known'
  OBVIOUS
<1>1. ASSUME NEW t \in Threads, Step(t) PROVE Known'
  BY <1>1, PlainStep, RobotsLockStep, RulesStep, RobotsOffStep, RobotAnswersStep DEF Step
<1>2. ASSUME NEW t \in Threads, NEW h \in Hosts, NEW p \in Paths, Take(t, h, p) PROVE Known'
  <2>1. /\ pc' = [pc EXCEPT ![t] = "lookup"] /\ UNCHANGED <<robots, fetched, hidden>>
        /\ doc' = [doc EXCEPT ![t] = [host |-> h, path |-> p]]
    BY <1>2 DEF Take, GoTo, robotVars, histories
  <2>2. ASSUME NEW u \in Threads PROVE Careful(u)'
    <3>1. CASE u = t
      BY <2>1, <3>1 DEF Careful, InRobots, Shape, PlaceOK
    <3>2. CASE u # t
      BY <2>1, <3>2 DEF Careful, Known, H, Shape, PlaceOK, Free
    <3> QED BY <3>1, <3>2
  <2> QED BY <2>1, <2>2 DEF Known, Answers, Free
<1>3. CASE Tick \/ UNCHANGED vars
  <2>1. UNCHANGED <<robots, fetched, hidden>> /\ pc' = pc /\ doc' = doc
    BY <1>3 DEF Tick, vars, robotVars, threadVars, histories
  <2> QED BY <2>1 DEF Known, Answers, Careful, H, Free
<1> QED BY <1>1, <1>2, <1>3 DEF Next

LEMMA SpecKnown == Spec => []Known
<1>1. Init => Known
  BY DEF Init, Known, Answers, Careful, InRobots
<1>2. Spec => []Shape
  BY ShapeInit, ShapeStep, PTL DEF Spec
<1> QED BY <1>1, <1>2, KnownStep, PTL DEF Spec

\* "Download robots.txt it has not been downloaded before" (indexer.c).
THEOREM FetchRobotsOnce == Spec => []RobotsOnce
<1>1. Known => RobotsOnce
  BY DEF Known, Answers, RobotsOnce
<1> QED BY <1>1, SpecKnown, PTL

\* What robots.txt disallows is not requested, however the threads of a host
\* interleave, as long as all its documents have Robots and the host did not
\* answer the request for robots.txt with a status below 500 other than 200.
THEOREM FetchRobotsObeyed == Spec => []RobotsObeyed
<1>1. Known => RobotsObeyed
  BY DEF Known, Careful, Strict, At, RobotsObeyed, Free
<1> QED BY <1>1, SpecKnown, PTL
-----------------------------------------------------------------------------
(* UdmHostFind.                                                            *)

\* The places from l to r, counted from 0, have no entry of h.
Without(h, l, r) == \A i \in DOMAIN table : l + 1 <= i /\ i <= r + 1 => table[i].host # h

\* What a search of the range l..r has to return.
Answer(h, l, r, i) == IF i = 0 THEN Without(h, l, r) ELSE i \in DOMAIN table /\ table[i].host = h

\* Names are numbers here.
LEMMA HostNumber ==
    ASSUME TableOK, NEW i \in DOMAIN table
    PROVE  table[i].host \in Hosts /\ table[i].host \in Int
<1>1. table[i] \in Entry
  BY DEF TableOK
<1>2. table[i].host \in Hosts
  BY <1>1 DEF Entry
<1>3. Hosts \subseteq Int
  BY ThreadAssumption
<1> QED BY <1>2, <1>3

\* An order of neighbours is an order of all.
LEMMA OrderedAll ==
    ASSUME TableOK, NEW i \in DOMAIN table, NEW j \in DOMAIN table, i <= j
    PROVE  table[i].host <= table[j].host
<1> DEFINE S == {d \in Nat : i + d \in DOMAIN table => table[i].host <= table[i + d].host}
<1>1. DOMAIN table = 1..Len(table) /\ Len(table) \in Nat
  BY DEF TableOK
<1>2. \A k \in DOMAIN table : table[k].host \in Int
  BY HostNumber
<1>3. 0 \in S
  BY <1>1, <1>2
<1>4. ASSUME NEW d \in Nat, d \in S PROVE d + 1 \in S
  <2> SUFFICES ASSUME i + (d + 1) \in DOMAIN table PROVE table[i].host <= table[i + (d + 1)].host
    OBVIOUS
  <2>1. i + d \in DOMAIN table /\ (i + d) + 1 \in DOMAIN table /\ i + (d + 1) = (i + d) + 1
    BY <1>1
  <2>2. table[i + d].host <= table[(i + d) + 1].host
    BY <2>1 DEF TableOK, Ordered
  <2>3. table[i].host <= table[i + d].host
    BY <1>4, <2>1
  <2> QED BY <1>2, <2>1, <2>2, <2>3
<1>5. Nat \subseteq S
  <2> HIDE DEF S
  <2> QED BY <1>3, <1>4, SetInduction
<1>6. j - i \in Nat /\ i + (j - i) = j
  BY <1>1
<1>7. j - i \in S
  BY <1>5, <1>6
<1> QED BY <1>6, <1>7

\* Where the next turn looks: a smaller range of the table.
LEMMA ProbeRange ==
    ASSUME TableOK, NEW w \in Ranges, w[1] <= w[2]
    PROVE  LET c == (w[1] + w[2]) \div 2 IN
           /\ c + 1 \in DOMAIN table /\ w[1] <= c /\ c <= w[2]
           /\ <<c + 1, w[2]>> \in Ranges /\ <<w[1], c - 1>> \in Ranges
BY DEF TableOK, Ranges

\* A turn only needs the answers for smaller ranges.
LEMMA ProbeSame ==
    ASSUME TableOK, NEW h, NEW f, NEW g, NEW w \in Ranges,
           \A v \in Ranges : v[2] - v[1] < w[2] - w[1] => f[v] = g[v]
    PROVE  Probe(h, f, w) = Probe(h, g, w)
<1> DEFINE c == (w[1] + w[2]) \div 2
           v == IF table[c + 1].host < h THEN <<c + 1, w[2]>> ELSE <<w[1], c - 1>>
<1>1. w[1] \in Int /\ w[2] \in Int
  BY DEF Ranges, TableOK
<1>2. CASE w[1] > w[2]
  BY <1>2 DEF Probe
<1>3. CASE ~(w[1] > w[2])
  <2>1. w[1] <= w[2]
    BY <1>1, <1>3
  <2>2. c \in Int /\ w[1] <= c /\ c <= w[2] /\ <<c + 1, w[2]>> \in Ranges /\ <<w[1], c - 1>> \in Ranges
    BY <1>1, <2>1, ProbeRange
  <2>3. v \in Ranges /\ v[2] - v[1] < w[2] - w[1]
    BY <1>1, <2>2
  <2>4. f[v] = g[v]
    BY <2>3
  <2>5. /\ Probe(h, f, w) = IF table[c + 1].host = h THEN c + 1 ELSE f[v]
        /\ Probe(h, g, w) = IF table[c + 1].host = h THEN c + 1 ELSE g[v]
    BY <1>3 DEF Probe
  <2> QED BY <2>4, <2>5
<1> QED BY <1>2, <1>3

\* The search is well defined: there is a function that does what the turns
\* of the loop do on every range, because ranges get smaller.
LEMMA BisectExists ==
    ASSUME TableOK, NEW h
    PROVE  \E f : f = [range \in Ranges |-> Probe(h, f, range)]
<1> DEFINE Solves(f, d) == \A w \in Ranges : w[2] - w[1] < d => f[w] = Probe(h, f, w)
           S == {d \in Nat : \E f : Solves(f, d)}
<1>1. \A w \in Ranges : w[1] \in Int /\ w[2] \in Int /\ w[2] - w[1] < Len(table) + 1
  BY DEF Ranges, TableOK
<1>2. 0 \in S
  <2>1. Solves([range \in Ranges |-> 0], 0)
    BY <1>1 DEF Probe
  <2> QED BY <2>1
<1>3. ASSUME NEW d \in Nat, d \in S PROVE d + 1 \in S
  <2>1. PICK f : Solves(f, d)
    BY <1>3
  <2> DEFINE g == [range \in Ranges |-> Probe(h, f, range)]
  <2>2. ASSUME NEW w \in Ranges, w[2] - w[1] < d + 1 PROVE g[w] = Probe(h, g, w)
    <3>1. \A v \in Ranges : v[2] - v[1] < w[2] - w[1] => v[2] - v[1] < d
      BY <1>1, <2>2
    <3>2. \A v \in Ranges : v[2] - v[1] < w[2] - w[1] => f[v] = g[v]
      BY <2>1, <3>1
    <3>3. g[w] = Probe(h, f, w)
      OBVIOUS
    <3> HIDE DEF g
    <3> QED BY <3>2, <3>3, ProbeSame
  <2>3. Solves(g, d + 1)
    BY <2>2
  <2>4. \E e : Solves(e, d + 1)
    <3> HIDE DEF Solves, g
    <3> QED BY <2>3
  <2>5. d + 1 \in Nat
    OBVIOUS
  <2> HIDE DEF Solves
  <2> QED BY <2>4, <2>5
<1>4. Nat \subseteq S
  <2> HIDE DEF S
  <2> QED BY <1>2, <1>3, SetInduction
<1>5. Len(table) + 1 \in Nat
  BY DEF TableOK
<1>6. PICK f : Solves(f, Len(table) + 1)
  BY <1>4, <1>5
<1>7. \A w \in Ranges : f[w] = Probe(h, f, w)
  BY <1>1, <1>6
<1> DEFINE g == [range \in Ranges |-> Probe(h, f, range)]
<1>8. \A w \in Ranges : g[w] = f[w]
  BY <1>7
<1>9. \A w \in Ranges : Probe(h, f, w) = Probe(h, g, w)
  <2> HIDE DEF g
  <2> QED BY <1>8, ProbeSame
<1>10. g = [range \in Ranges |-> Probe(h, g, range)]
  BY <1>9
<1> QED BY <1>10

\* It finds an entry of h if there is one.
LEMMA BisectFinds ==
    ASSUME TableOK, NEW h \in Hosts, NEW f, f = [range \in Ranges |-> Probe(h, f, range)]
    PROVE  \A w \in Ranges : Answer(h, w[1], w[2], f[w])
<1> DEFINE S == {d \in Nat : \A w \in Ranges : w[2] - w[1] < d => Answer(h, w[1], w[2], f[w])}
<1>1. \A w \in Ranges : w[1] \in Int /\ w[2] \in Int /\ w[2] - w[1] < Len(table) + 1
  BY DEF Ranges, TableOK
<1>2. DOMAIN table = 1..Len(table) /\ Len(table) \in Nat /\ h \in Int
      /\ \A i \in DOMAIN table : table[i].host \in Int
  <2>1. DOMAIN table = 1..Len(table) /\ Len(table) \in Nat
    BY DEF TableOK
  <2>2. h \in Int
    BY ThreadAssumption
  <2> QED BY <2>1, <2>2, HostNumber
<1>3. \A w \in Ranges : f[w] = Probe(h, f, w)
  OBVIOUS
<1>4. 0 \in S
  <2>1. ASSUME NEW w \in Ranges, w[2] - w[1] < 0 PROVE Answer(h, w[1], w[2], f[w])
    <3>1. w[1] > w[2]
      BY <1>1, <2>1
    <3>2. f[w] = 0
      BY <1>3, <3>1 DEF Probe
    <3>3. Without(h, w[1], w[2])
      BY <1>1, <1>2, <3>1 DEF Without
    <3> QED BY <3>2, <3>3 DEF Answer
  <2> QED BY <2>1
<1>5. ASSUME NEW d \in Nat, d \in S PROVE d + 1 \in S
  <2>1. ASSUME NEW w \in Ranges, w[2] - w[1] < d + 1 PROVE Answer(h, w[1], w[2], f[w])
    <3> DEFINE c == (w[1] + w[2]) \div 2
    <3>1. CASE w[1] > w[2]
      BY <1>1, <1>4, <3>1
    <3>2. CASE w[1] <= w[2]
      <4>1. /\ c \in Int /\ c + 1 \in DOMAIN table /\ w[1] <= c /\ c <= w[2]
            /\ <<c + 1, w[2]>> \in Ranges /\ <<w[1], c - 1>> \in Ranges
        BY <1>1, <3>2, ProbeRange
      <4>2. f[w] = IF table[c + 1].host = h THEN c + 1
                   ELSE f[IF table[c + 1].host < h THEN <<c + 1, w[2]>> ELSE <<w[1], c - 1>>]
        <5>1. ~(w[1] > w[2])
          BY <1>1, <3>2
        <5>2. f[w] = Probe(h, f, w)
          BY <1>3
        <5> QED BY <5>1, <5>2 DEF Probe
      <4> HIDE DEF c
      <4>3. CASE table[c + 1].host = h
        BY <1>2, <4>1, <4>2, <4>3 DEF Answer
      <4>4. CASE table[c + 1].host < h
        <5>1. f[w] = f[<<c + 1, w[2]>>]
          BY <1>2, <4>1, <4>2, <4>4
        <5>2. Answer(h, c + 1, w[2], f[<<c + 1, w[2]>>])
          BY <1>1, <1>5, <2>1, <4>1
        <5>3. \A i \in DOMAIN table : i <= c + 1 => table[i].host # h
          BY <1>2, <4>1, <4>4, OrderedAll
        <5>4. ASSUME Without(h, c + 1, w[2]) PROVE Without(h, w[1], w[2])
          <6>1. \A i \in DOMAIN table : c + 2 <= i /\ i <= w[2] + 1 => table[i].host # h
            BY <4>1, <5>4 DEF Without
          <6>2. \A i \in DOMAIN table : i <= c + 1 \/ c + 2 <= i
            BY <1>2, <4>1
          <6> QED BY <5>3, <6>1, <6>2 DEF Without
        <5> QED BY <5>1, <5>2, <5>4 DEF Answer
      <4>5. CASE table[c + 1].host > h
        <5>1. f[w] = f[<<w[1], c - 1>>]
          BY <1>2, <4>1, <4>2, <4>5
        <5>2. Answer(h, w[1], c - 1, f[<<w[1], c - 1>>])
          BY <1>1, <1>5, <2>1, <4>1
        <5>3. \A i \in DOMAIN table : c + 1 <= i => table[i].host # h
          BY <1>2, <4>1, <4>5, OrderedAll
        <5>4. ASSUME Without(h, w[1], c - 1) PROVE Without(h, w[1], w[2])
          <6>1. \A i \in DOMAIN table : w[1] + 1 <= i /\ i <= c => table[i].host # h
            BY <4>1, <5>4 DEF Without
          <6>2. \A i \in DOMAIN table : i <= c \/ c + 1 <= i
            BY <1>2, <4>1
          <6> QED BY <5>3, <6>1, <6>2 DEF Without
        <5> QED BY <5>1, <5>2, <5>4 DEF Answer
      <4> QED BY <1>2, <4>1, <4>3, <4>4, <4>5
    <3> QED BY <1>1, <3>1, <3>2
  <2> QED BY <2>1
<1>6. Nat \subseteq S
  <2> HIDE DEF S
  <2> QED BY <1>4, <1>5, SetInduction
<1>7. Len(table) + 1 \in S
  BY <1>2, <1>6
<1> QED BY <1>1, <1>7

\* UdmHostFind returns an entry of the host, or 0 when the table has none.
THEOREM HostFindCorrect ==
    ASSUME TableOK, NEW h \in Hosts
    PROVE  IF HostFind(h) = 0 THEN \A i \in DOMAIN table : table[i].host # h
                              ELSE HostFind(h) \in DOMAIN table /\ table[HostFind(h)].host = h
<1>1. PICK f : f = [range \in Ranges |-> Probe(h, f, range)] /\ HostFind(h) = f[<<0, Len(table) - 1>>]
  <2>1. \E f : f = [range \in Ranges |-> Probe(h, f, range)]
    BY BisectExists
  <2> QED BY <2>1 DEF HostFind
<1>2. \A w \in Ranges : Answer(h, w[1], w[2], f[w])
  BY <1>1, BisectFinds
<1>3. /\ <<0, Len(table) - 1>> \in Ranges /\ Len(table) \in Nat
      /\ DOMAIN table = 1..Len(table)
  BY DEF Ranges, TableOK
<1>4. Answer(h, 0, Len(table) - 1, HostFind(h))
  BY <1>1, <1>2, <1>3
<1>5. Without(h, 0, Len(table) - 1) => \A i \in DOMAIN table : table[i].host # h
  BY <1>3 DEF Without
<1> QED BY <1>4, <1>5 DEF Answer
-----------------------------------------------------------------------------
(* The count of errors.                                                    *)

Entries(h) == {i \in DOMAIN table : table[i].host = h}

\* The threads that have passed the check for too many errors and have not
\* been told of an answer yet, and those that DocUpdate will count.
Passed == {"robots", "robotLookup", "robotResolve", "robotGet", "rules", "get"}
Underway(h) == Uncounted(h) \cup {t \in Threads : H(t) = h /\ pc[t] \in Passed}

\* A host has one entry; it counts the requests that have failed, but for
\* those that wait for DocUpdate, and leaves room for those still to come.
HostOK(h) ==
    /\ \A i, j \in Entries(h) : i = j
    /\ \A i \in Entries(h) :
        /\ refused[h] <= table[i].errors + Cardinality(Uncounted(h))
        /\ table[i].errors + Cardinality(Underway(h)) <= MaxNetErrors + Cardinality(Threads) - 1

Bounded == /\ refused \in [Hosts -> Nat]
           /\ MaxNetErrors # 0 => \A h \in Hosts \ (Numeric \cup doubled) : HostOK(h)

LEMMA EntryErrors ==
    ASSUME TableOK, NEW i \in DOMAIN table
    PROVE  table[i].errors \in Nat
<1>1. table[i] \in Entry
  BY DEF TableOK
<1> QED BY <1>1 DEF Entry

\* Counting threads.
LEMMA ThreadCounts ==
    ASSUME NEW S \in SUBSET Threads
    PROVE  /\ IsFiniteSet(S) /\ Cardinality(S) \in Nat /\ Cardinality(Threads) \in Nat
           /\ Cardinality(S) <= Cardinality(Threads)
           /\ \A T \in SUBSET S : Cardinality(T) \in Nat /\ Cardinality(T) <= Cardinality(S)
           /\ \A t \in S : Cardinality(S \ {t}) = Cardinality(S) - 1
           /\ \A t \in Threads \ S : Cardinality(S \cup {t}) = Cardinality(S) + 1
<1>1. IsFiniteSet(Threads)
  BY ThreadAssumption
<1>2. IsFiniteSet(S) /\ Cardinality(S) <= Cardinality(Threads)
  BY <1>1, FS_Subset
<1>3. Cardinality(S) \in Nat /\ Cardinality(Threads) \in Nat
  BY <1>1, <1>2, FS_CardinalityType
<1>4. ASSUME NEW T \in SUBSET S PROVE Cardinality(T) \in Nat /\ Cardinality(T) <= Cardinality(S)
  <2>1. IsFiniteSet(T) /\ Cardinality(T) <= Cardinality(S)
    BY <1>2, FS_Subset
  <2> QED BY <2>1, FS_CardinalityType
<1>5. \A t \in S : Cardinality(S \ {t}) = Cardinality(S) - 1
  BY <1>2, FS_RemoveElement
<1>6. \A t \in Threads \ S : Cardinality(S \cup {t}) = Cardinality(S) + 1
  BY <1>2, FS_AddElement
<1> QED BY <1>2, <1>3, <1>4, <1>5, <1>6

LEMMA HostCounts ==
    ASSUME NEW h
    PROVE  /\ Uncounted(h) \in SUBSET Threads /\ Underway(h) \in SUBSET Threads
           /\ Uncounted(h)' \in SUBSET Threads /\ Underway(h)' \in SUBSET Threads
BY DEF Uncounted, Underway

\* A host whose entries were entries of it before, with the counts they had:
\* f tells where they were.
LEMMA HostStays ==
    ASSUME TableOK, MaxNetErrors # 0, NEW h \in Hosts, HostOK(h), refused'[h] = refused[h],
           NEW f,
           \A i \in Entries(h)' : f[i] \in Entries(h) /\ table'[i].errors = table[f[i]].errors,
           \A i, j \in Entries(h)' : f[i] = f[j] => i = j,
           Uncounted(h)' = Uncounted(h),
           \/ Underway(h)' \subseteq Underway(h)
           \/ \A i \in Entries(h) : table[i].errors < MaxNetErrors
    PROVE  HostOK(h)'
<1>1. \A i, j \in Entries(h)' : i = j
  BY DEF HostOK
<1>2. ASSUME NEW i \in Entries(h)'
      PROVE  /\ refused'[h] <= table'[i].errors + Cardinality(Uncounted(h)')
             /\ table'[i].errors + Cardinality(Underway(h)')
                    <= MaxNetErrors + Cardinality(Threads) - 1
  <2>1. f[i] \in Entries(h) /\ table'[i].errors = table[f[i]].errors
    OBVIOUS
  <2>2. table[f[i]].errors \in Nat
    BY <2>1, EntryErrors DEF Entries
  <2>3. /\ refused[h] <= table[f[i]].errors + Cardinality(Uncounted(h))
        /\ table[f[i]].errors + Cardinality(Underway(h)) <= MaxNetErrors + Cardinality(Threads) - 1
    BY <2>1 DEF HostOK
  <2>4. /\ Cardinality(Underway(h)) \in Nat /\ Cardinality(Underway(h)') \in Nat
        /\ Cardinality(Threads) \in Nat /\ Cardinality(Underway(h)') <= Cardinality(Threads)
        /\ Underway(h)' \subseteq Underway(h)
             => Cardinality(Underway(h)') <= Cardinality(Underway(h))
    BY HostCounts, ThreadCounts
  <2>5. MaxNetErrors \in Nat
    BY BoundAssumption
  <2>6. table[f[i]].errors + Cardinality(Underway(h)') <= MaxNetErrors + Cardinality(Threads) - 1
    <3>1. CASE Underway(h)' \subseteq Underway(h)
      BY <2>2, <2>3, <2>4, <2>5, <3>1
    <3>2. CASE \A k \in Entries(h) : table[k].errors < MaxNetErrors
      <4>1. table[f[i]].errors < MaxNetErrors
        BY <2>1, <3>2
      <4> QED BY <2>2, <2>4, <2>5, <4>1
    <3> QED BY <3>1, <3>2
  <2> QED BY <2>1, <2>3, <2>6
<1> QED BY <1>1, <1>2 DEF HostOK

\* The same for a table that keeps its hosts and counts.
LEMMA SameHosts ==
    ASSUME TableOK, MaxNetErrors # 0, NEW h \in Hosts, HostOK(h), refused'[h] = refused[h],
           DOMAIN table' = DOMAIN table,
           \A i \in DOMAIN table : /\ table'[i].host = table[i].host
                                   /\ table[i].host = h => table'[i].errors = table[i].errors,
           Uncounted(h)' = Uncounted(h),
           \/ Underway(h)' \subseteq Underway(h)
           \/ \A i \in Entries(h) : table[i].errors < MaxNetErrors
    PROVE  HostOK(h)'
<1> DEFINE f == [i \in DOMAIN table |-> i]
<1>1. \A i \in Entries(h)' : f[i] = i /\ i \in Entries(h) /\ table'[i].errors = table[i].errors
  BY DEF Entries
<1> HIDE DEF f
<1>2. /\ \A i \in Entries(h)' : f[i] \in Entries(h) /\ table'[i].errors = table[f[i]].errors
      /\ \A i, j \in Entries(h)' : f[i] = f[j] => i = j
  BY <1>1
<1> QED BY <1>2, HostStays

\* A table that is full has an oldest entry.
LEMMA OldestThere ==
    ASSUME TableOK, ~(Len(table) < CacheSize)
    PROVE  Oldest \in DOMAIN table
<1>1. /\ DOMAIN table = 1..Len(table) /\ Len(table) \in Nat /\ 1 \in DOMAIN table
      /\ \A i \in DOMAIN table : table[i].lastUsed \in Nat
  <2>1. Len(table) \in Nat /\ DOMAIN table = 1..Len(table) /\ \A i \in DOMAIN table : table[i] \in Entry
    BY DEF TableOK
  <2>2. Len(table) >= 1
    BY <2>1, BoundAssumption
  <2> QED BY <2>1, <2>2, BoundAssumption DEF Entry
<1> DEFINE Times == {table[i].lastUsed : i \in DOMAIN table}
           oldest(i) == \A j \in DOMAIN table :
                            \/ table[i].lastUsed < table[j].lastUsed
                            \/ table[i].lastUsed = table[j].lastUsed /\ i <= j
<1>2. PICK m \in Times : \A n \in Times : m <= n
  <2>1. Times \subseteq Nat /\ Times # {}
    BY <1>1
  <2> HIDE DEF Times
  <2> QED BY <2>1, LeastElement
<1> DEFINE Places == {i \in DOMAIN table : table[i].lastUsed = m}
<1>3. PICK k \in Places : \A i \in Places : k <= i
  <2>1. Places \subseteq Nat /\ Places # {}
    BY <1>1, <1>2
  <2> HIDE DEF Places
  <2> QED BY <2>1, LeastElement
<1>4. k \in DOMAIN table /\ oldest(k)
  <2>1. k \in DOMAIN table /\ table[k].lastUsed = m
    OBVIOUS
  <2>2. ASSUME NEW j \in DOMAIN table
        PROVE  \/ table[k].lastUsed < table[j].lastUsed
               \/ table[k].lastUsed = table[j].lastUsed /\ k <= j
    <3>1. m <= table[j].lastUsed
      BY <1>2
    <3>2. table[j].lastUsed = m => k <= j
      BY <1>3
    <3> QED BY <1>1, <2>1, <3>1, <3>2
  <2> QED BY <2>1, <2>2
<1>5. Oldest = CHOOSE i \in DOMAIN table : oldest(i)
  BY DEF Oldest
<1> HIDE DEF oldest
<1> QED BY <1>4, <1>5

\* UdmSort moves the entries: each place of the sorted table has the entry
\* of a place of its own.
LEMMA SortedMoves ==
    ASSUME NEW s \in Seq(Entry), NEW z \in Sorted(s)
    PROVE  \E p \in [DOMAIN s -> DOMAIN s] :
               /\ DOMAIN z = DOMAIN s
               /\ \A i \in DOMAIN s : z[i] = s[p[i]]
               /\ \A i, j \in DOMAIN s : p[i] = p[j] => i = j
               /\ \A k \in DOMAIN s : \E i \in DOMAIN s : p[i] = k
<1> DEFINE D == DOMAIN s
<1>1. PICK p \in [D -> D] : /\ \A i, j \in D : i # j => p[i] # p[j]
                            /\ z = [i \in D |-> s[p[i]]]
  BY DEF Sorted
<1>2. IsFiniteSet(D)
  <2>1. D = 1..Len(s) /\ Len(s) \in Nat
    OBVIOUS
  <2> QED BY <2>1, FS_Interval
<1>3. p \in Injection(D, D)
  BY <1>1 DEF Injection, IsInjective
<1>4. p \in Surjection(D, D)
  BY <1>2, <1>3, FS_Injection
<1>5. \A k \in D : \E i \in D : p[i] = k
  BY <1>4 DEF Surjection
<1> QED BY <1>1, <1>5

\* host_addr_add leaves a host that has one entry with the new one, and
\* other hosts with entries they had.
LEMMA AddEntries ==
    ASSUME TableOK, NEW g \in Hosts, NEW r \in BOOLEAN, HostAdd(g, r)
    PROVE  /\ g \notin doubled' => \A i, j \in Entries(g)' : i = j
           /\ g \notin doubled' => \A i \in Entries(g)' : table'[i].errors = 0
           /\ \A h \in Hosts \ {g} : \E f :
                  /\ \A i \in Entries(h)' : f[i] \in Entries(h) /\ table'[i] = table[f[i]]
                  /\ \A i, j \in Entries(h)' : f[i] = f[j] => i = j
<1> DEFINE entry == [host |-> g, resolved |-> Address(r), errors |-> 0, lastUsed |-> now]
           added == IF Len(table) < CacheSize THEN Append(table, entry)
                    ELSE [table EXCEPT ![Oldest] = entry]
<1>1. entry \in Entry /\ entry.host = g /\ entry.errors = 0
  BY DEF TableOK, Entry, Address
<1>2. table \in Seq(Entry) /\ Len(table) <= CacheSize /\ Len(table) \in Nat
      /\ DOMAIN table = 1..Len(table)
  BY DEF TableOK
<1>3. table' \in Sorted(added)
  BY DEF HostAdd
<1>4. ~(Len(table) < CacheSize) => Oldest \in DOMAIN table
  <2> SUFFICES ASSUME ~(Len(table) < CacheSize) PROVE Oldest \in DOMAIN table
    OBVIOUS
  <2> QED BY OldestThere
<1>5. /\ added \in Seq(Entry)
      /\ \E k \in DOMAIN added : added[k] = entry
      /\ \A i \in DOMAIN added : added[i] = entry \/ (i \in DOMAIN table /\ added[i] = table[i])
  <2>1. CASE Len(table) < CacheSize
    <3> HIDE DEF entry
    <3>1. added = Append(table, entry)
      BY <2>1
    <3>2. /\ added \in Seq(Entry) /\ DOMAIN added = 1..Len(table) + 1
          /\ added[Len(table) + 1] = entry
          /\ \A i \in 1..Len(table) : added[i] = table[i]
      <4> HIDE DEF added
      <4>1. table \in Seq(Entry) /\ entry \in Entry
        BY <1>1, <1>2
      <4>2. /\ added \in Seq(Entry) /\ Len(added) = Len(table) + 1
            /\ added[Len(table) + 1] = entry
            /\ \A i \in 1..Len(table) : added[i] = table[i]
        BY ONLY <3>1, <4>1, AppendProperties
      <4> QED BY <4>2
    <3> HIDE DEF added
    <3>3. Len(table) + 1 \in DOMAIN added
      BY <1>2, <3>2
    <3>4. \A i \in DOMAIN added : i = Len(table) + 1 \/ i \in 1..Len(table)
      BY <1>2, <3>2
    <3> QED BY <1>2, <3>2, <3>3, <3>4
  <2>2. CASE ~(Len(table) < CacheSize)
    <3> HIDE DEF entry
    <3>1. added = [j \in 1..Len(table) |-> IF j = Oldest THEN entry ELSE table[j]]
      BY <1>2, <2>2
    <3>2. \A j \in 1..Len(table) : table[j] \in Entry
      BY <1>2
    <3>3. added \in [1..Len(table) -> Entry]
      BY <1>1, <3>1, <3>2
    <3>4. Oldest \in DOMAIN table
      BY <1>4, <2>2
    <3>5. DOMAIN added = DOMAIN table /\ added[Oldest] = entry
      BY <1>2, <3>1, <3>4
    <3>6. \A i \in DOMAIN table : added[i] = entry \/ added[i] = table[i]
      BY <1>2, <3>1
    <3> HIDE DEF added
    <3>7. added \in Seq(Entry)
      BY <1>2, <3>3
    <3> QED BY <3>4, <3>5, <3>6, <3>7
  <2> QED BY <2>1, <2>2
<1> HIDE DEF added, entry
<1>6. PICK p \in [DOMAIN added -> DOMAIN added] :
          /\ DOMAIN table' = DOMAIN added
          /\ \A i \in DOMAIN added : table'[i] = added[p[i]]
          /\ \A i, j \in DOMAIN added : p[i] = p[j] => i = j
          /\ \A k \in DOMAIN added : \E i \in DOMAIN added : p[i] = k
  BY <1>3, <1>5, SortedMoves
<1>7. ASSUME g \notin doubled' PROVE \A i, j \in Entries(g)' : i = j
  <2>1. ~ \E i, j \in DOMAIN table' : i # j /\ table'[i].host = table'[j].host
                                             /\ table'[i].host = g
    BY <1>7 DEF HostAdd
  <2> QED BY <2>1 DEF Entries
<1>8. ASSUME g \notin doubled' PROVE \A i \in Entries(g)' : table'[i].errors = 0
  <2>1. PICK k \in DOMAIN table' : table'[k] = entry
    BY <1>5, <1>6
  <2>2. k \in Entries(g)'
    BY <1>1, <2>1 DEF Entries
  <2> QED BY <1>1, <1>7, <1>8, <2>1, <2>2
<1>9. ASSUME NEW h \in Hosts \ {g}
      PROVE  \E f : /\ \A i \in Entries(h)' : f[i] \in Entries(h) /\ table'[i] = table[f[i]]
                    /\ \A i, j \in Entries(h)' : f[i] = f[j] => i = j
  <2>1. ASSUME NEW i \in Entries(h)' PROVE p[i] \in Entries(h) /\ table'[i] = table[p[i]]
    <3>1. i \in DOMAIN table' /\ table'[i].host = h
      BY DEF Entries
    <3>2. i \in DOMAIN added /\ p[i] \in DOMAIN added /\ table'[i] = added[p[i]]
      BY <1>6, <3>1
    <3>3. added[p[i]] # entry
      BY <1>1, <3>1, <3>2
    <3>4. p[i] \in DOMAIN table /\ added[p[i]] = table[p[i]]
      BY <1>5, <3>2, <3>3
    <3> QED BY <3>1, <3>2, <3>4 DEF Entries
  <2>2. \A i, j \in Entries(h)' : p[i] = p[j] => i = j
    BY <1>6 DEF Entries
  <2> QED BY <2>1, <2>2
<1> QED BY <1>7, <1>8, <1>9

\* The one entry of a host is the one that UdmHostFind returns.
LEMMA EntryOfHost ==
    ASSUME TableOK, NEW h \in Hosts
    PROVE  IF HostFind(h) = 0 THEN Entries(h) = {} ELSE HostFind(h) \in Entries(h)
BY HostFindCorrect DEF Entries

LEMMA OthersResult ==
    ASSUME Shape, NEW t \in Threads, Step(t)
    PROVE  \A u \in Threads \ {t} : result'[u] = result[u]
<1>1. result' = result \/ \E r : result' = [result EXCEPT ![t] = r]
  <2>1. ASSUME NEW e, Looked(t, e)
        PROVE  result' = result \/ \E r : result' = [result EXCEPT ![t] = r]
    BY <2>1 DEF Looked
  <2>2. CASE Lookup(t)
    <3>1. result' = result \/ \E e : Looked(t, e)
      BY <2>2 DEF Lookup, HostLookup
    <3> QED BY <2>1, <3>1
  <2>3. CASE Resolve(t)
    <3>1. \E e : Looked(t, e)
      BY <2>3 DEF Resolve
    <3> QED BY <2>1, <3>1
  <2>4. CASE RobotLookup(t)
    <3>1. result' = result
      BY <2>4 DEF RobotLookup, HostLookup
    <3> QED BY <3>1
  <2>5. CASE \/ RobotResolve(t) \/ RobotsOff(t) \/ RobotsLock(t) \/ RobotDown(t)
             \/ RobotAnswers(t) \/ Rules(t) \/ Get(t) \/ Update(t)
    BY <2>5 DEF RobotResolve, RobotsOff, RobotsLock, RobotDown, RobotAnswers, Rules,
                Get, Update
  <2> QED BY <2>2, <2>3, <2>4, <2>5 DEF Step
<1> QED BY <1>1 DEF Shape, PlaceOK

\* A step of t moves no other thread into or out of the counts.
LEMMA OthersCount ==
    ASSUME Shape, NEW t \in Threads, Step(t), NEW h
    PROVE  /\ Uncounted(h)' \ {t} = Uncounted(h) \ {t}
           /\ Underway(h)' \ {t} = Underway(h) \ {t}
<1>1. \A u \in Threads \ {t} : pc'[u] = pc[u] /\ doc'[u] = doc[u] /\ result'[u] = result[u]
  BY Others, OthersResult
<1>2. \A u \in Threads \ {t} : u \in Uncounted(h)' <=> u \in Uncounted(h)
  BY <1>1 DEF Uncounted, H
<1>3. \A u \in Threads \ {t} : u \in Underway(h)' <=> u \in Underway(h)
  BY <1>1, <1>2 DEF Underway, H
<1> QED BY <1>2, <1>3, HostCounts

\* A thread that has taken a document has it until DocUpdate.
LEMMA StepHost ==
    ASSUME Shape, NEW t \in Threads, Step(t)
    PROVE  /\ H(t) \in Hosts
           /\ doc' = doc \/ (Update(t) /\ pc'[t] = "idle")
<1>1. ~At(t, "idle")
  BY DEF Step, Lookup, Resolve, RobotLookup, RobotResolve, RobotsOff, RobotsLock, RobotDown,
         RobotAnswers, Rules, Get, Update, At
<1>2. doc' = doc \/ Update(t)
  BY DEF Step, Lookup, Resolve, RobotLookup, RobotResolve, RobotsOff, RobotsLock, RobotDown,
         RobotAnswers, Rules, Get
<1>3. Update(t) => pc'[t] = "idle"
  BY DEF Update, GoTo, Shape, PlaceOK
<1> QED BY <1>1, <1>2, <1>3, HasHost DEF Shape

\* The counts of the hosts that t has no document of stay.
LEMMA OtherCounts ==
    ASSUME Shape, NEW t \in Threads, Step(t), NEW h \in Hosts, h # H(t)
    PROVE  Uncounted(h)' = Uncounted(h) /\ Underway(h)' = Underway(h)
<1>1. t \notin Uncounted(h) /\ t \notin Underway(h)
  BY DEF Uncounted, Underway
<1>2. t \notin Uncounted(h)' /\ t \notin Underway(h)'
  <2>1. CASE doc' = doc
    BY <2>1 DEF Uncounted, Underway, H
  <2>2. CASE pc'[t] = "idle"
    BY <2>2 DEF Uncounted, Underway, Passed
  <2> QED BY <2>1, <2>2, StepHost
<1> QED BY <1>1, <1>2, OthersCount

\* An entry that is used keeps its host and its count.
LEMMA FoundKeeps ==
    ASSUME TableOK, NEW t, Found(t)
    PROVE  /\ DOMAIN table' = DOMAIN table
           /\ \A i \in DOMAIN table : /\ table'[i].host = table[i].host
                                      /\ table'[i].errors = table[i].errors
<1>1. CASE table' = table
  BY <1>1
<1>2. ASSUME NEW k, table' = [table EXCEPT ![k].lastUsed = now], NEW i \in DOMAIN table
      PROVE  table'[i].host = table[i].host /\ table'[i].errors = table[i].errors
  <2>1. table[i] \in Entry
    BY DEF TableOK
  <2>2. \A n : /\ [table[i] EXCEPT !.lastUsed = n].host = table[i].host
               /\ [table[i] EXCEPT !.lastUsed = n].errors = table[i].errors
    BY <2>1 DEF Entry
  <2>3. table'[i] = table[i] \/ table'[i] = [table[i] EXCEPT !.lastUsed = now]
    BY <1>2
  <2> QED BY <2>2, <2>3
<1>3. \A k : table' = [table EXCEPT ![k].lastUsed = now] => DOMAIN table' = DOMAIN table
  OBVIOUS
<1> QED BY <1>1, <1>2, <1>3 DEF Found

\* What a step does to the table: the host of the document may be added, or
\* an entry of it change.
LEMMA StepTable ==
    ASSUME Shape, NEW t \in Threads, Step(t)
    PROVE  \/ \E r \in BOOLEAN : HostAdd(H(t), r)
           \/ /\ doubled' = doubled
              /\ DOMAIN table' = DOMAIN table
              /\ \A i \in DOMAIN table :
                    /\ table'[i].host = table[i].host
                    /\ table[i].host # H(t) \/ ~Update(t) => table'[i].errors = table[i].errors
<1> DEFINE Keeps == /\ DOMAIN table' = DOMAIN table
                    /\ \A i \in DOMAIN table :
                          /\ table'[i].host = table[i].host
                          /\ table[i].host # H(t) \/ ~Update(t)
                                => table'[i].errors = table[i].errors
<1>1. /\ DOMAIN table = 1..Len(table)
      /\ \A i \in DOMAIN table : table[i] \in Entry
  BY DEF Shape, TableOK
<1>2. table' = table => Keeps
  OBVIOUS
<1>3. Found(t) => Keeps
  BY FoundKeeps DEF Shape
<1>4. ASSUME Update(t) PROVE Keeps
  <2> DEFINE k == HostFind(H(t))
  <2>1. table' = table \/ (k # 0 /\ \E n : table' = [table EXCEPT ![k].errors = n])
    <3>1. \/ table' = table
          \/ k # 0 /\ table' = [table EXCEPT ![k].errors = IF result[t] = "refused" THEN @ + 1 ELSE 0]
      BY <1>4 DEF Update
    <3> HIDE DEF k
    <3> QED BY <3>1
  <2>2. k # 0 => k \in DOMAIN table /\ table[k].host = H(t)
    BY StepHost, HostFindCorrect DEF Shape
  <2> HIDE DEF k
  <2>3. SUFFICES ASSUME k \in DOMAIN table, table[k].host = H(t),
                        NEW n, table' = [table EXCEPT ![k].errors = n]
                 PROVE  Keeps
    BY <1>2, <2>1, <2>2
  <2>4. ASSUME NEW i \in DOMAIN table
        PROVE  table'[i].host = table[i].host /\ (i # k => table'[i].errors = table[i].errors)
    <3>1. table[i] \in Entry
      BY <1>1
    <3>2. [table[i] EXCEPT !.errors = n].host = table[i].host
      BY <3>1 DEF Entry
    <3>3. table'[i] = IF i = k THEN [table[i] EXCEPT !.errors = n] ELSE table[i]
      BY <2>3
    <3> QED BY <3>2, <3>3
  <2> QED BY <1>4, <2>3, <2>4
<1>5. \/ \E r \in BOOLEAN : HostAdd(H(t), r)
      \/ doubled' = doubled /\ (table' = table \/ Found(t) \/ Update(t))
  <2>1. CASE Lookup(t)
    BY <2>1 DEF Lookup, HostLookup, Found
  <2>2. CASE RobotLookup(t)
    BY <2>2 DEF RobotLookup, HostLookup, Found
  <2>3. CASE Resolve(t) \/ RobotResolve(t)
    BY <2>3 DEF Resolve, RobotResolve
  <2>4. CASE \/ RobotsOff(t) \/ RobotsLock(t) \/ RobotDown(t) \/ RobotAnswers(t)
             \/ Rules(t) \/ Get(t) \/ Update(t)
    BY <2>4 DEF RobotsOff, RobotsLock, RobotDown, RobotAnswers, Rules, Get, Update,
                hostVars, histories
  <2> QED BY <2>1, <2>2, <2>3, <2>4 DEF Step
<1> HIDE DEF Keeps
<1>6. (\E r \in BOOLEAN : HostAdd(H(t), r)) \/ (doubled' = doubled /\ Keeps)
  BY <1>2, <1>3, <1>4, <1>5
<1> QED BY <1>6 DEF Keeps

\* What a step does to the requests that have failed.
LEMMA StepRefused ==
    ASSUME Shape, refused \in [Hosts -> Nat], NEW t \in Threads, Step(t)
    PROVE  /\ refused' \in [Hosts -> Nat]
           /\ \A h \in Hosts \ {H(t)} : refused'[h] = refused[h]
<1>1. H(t) \in Hosts
  BY StepHost
<1>2. \E n \in Nat : refused' \in {refused, [refused EXCEPT ![H(t)] = n]}
  <2>1. Cardinality(Uncounted(H(t))) \in Nat
    BY HostCounts, ThreadCounts
  <2>2. refused[H(t)] + 1 \in Nat /\ refused[H(t)] \in Nat
    BY <1>1
  <2>3. \/ refused' = refused
        \/ refused' = [refused EXCEPT ![H(t)] = Cardinality(Uncounted(H(t)))]
        \/ refused' = [refused EXCEPT ![H(t)] = refused[H(t)] + 1]
    <3>1. CASE Lookup(t)
      BY <3>1 DEF Lookup, HostLookup, HostAdd
    <3>2. CASE RobotLookup(t)
      BY <3>2 DEF RobotLookup, HostLookup, HostAdd
    <3>3. CASE Resolve(t) \/ RobotResolve(t)
      BY <3>3 DEF Resolve, RobotResolve, HostAdd
    <3>4. CASE Get(t)
      <4>1. PICK r \in {"ok", "missing", "refused"} :
                refused' = [refused EXCEPT ![H(t)] = IF r = "refused" THEN @ + 1 ELSE @]
        BY <3>4 DEF Get
      <4> QED BY <4>1
    <3>5. CASE Update(t)
      BY <3>5 DEF Update
    <3>6. CASE \/ RobotsOff(t) \/ RobotsLock(t) \/ RobotDown(t) \/ RobotAnswers(t) \/ Rules(t)
      BY <3>6 DEF RobotsOff, RobotsLock, RobotDown, RobotAnswers, Rules, histories
    <3> QED BY <3>1, <3>2, <3>3, <3>4, <3>5, <3>6 DEF Step
  <2>4. refused' \in {refused, [refused EXCEPT ![H(t)] = refused[H(t)]]} => refused' = refused
    OBVIOUS
  <2> QED BY <2>1, <2>2, <2>3
<1> QED BY <1>1, <1>2

\* The other hosts.
LEMMA OtherHost ==
    ASSUME Shape, MaxNetErrors # 0, refused \in [Hosts -> Nat], NEW t \in Threads, Step(t),
           NEW h \in Hosts, h # H(t), HostOK(h)
    PROVE  HostOK(h)'
<1>1. /\ TableOK /\ refused'[h] = refused[h] /\ H(t) \in Hosts
      /\ Uncounted(h)' = Uncounted(h) /\ Underway(h)' = Underway(h)
  BY OtherCounts, StepRefused, StepHost DEF Shape
<1>2. CASE \E r \in BOOLEAN : HostAdd(H(t), r)
  <2>1. PICK f : /\ \A i \in Entries(h)' : f[i] \in Entries(h) /\ table'[i] = table[f[i]]
                 /\ \A i, j \in Entries(h)' : f[i] = f[j] => i = j
    BY <1>1, <1>2, AddEntries
  <2> QED BY <1>1, <2>1, HostStays
<1>3. CASE /\ DOMAIN table' = DOMAIN table
           /\ \A i \in DOMAIN table :
                 /\ table'[i].host = table[i].host
                 /\ table[i].host # H(t) \/ ~Update(t) => table'[i].errors = table[i].errors
  BY <1>1, <1>3, SameHosts
<1> QED BY <1>2, <1>3, StepTable

\* The host of the document is added: its counts begin anew.
LEMMA OwnAdd ==
    ASSUME Shape, MaxNetErrors # 0, NEW t \in Threads, Step(t), NEW h \in Hosts, h = H(t),
           refused \in [Hosts -> Nat], NEW r \in BOOLEAN, HostAdd(h, r), h \notin doubled',
           pc[t] # "update", result'[t] # "refused"
    PROVE  HostOK(h)'
<1>1. TableOK
  BY DEF Shape
<1>2. Uncounted(h)' = Uncounted(h)
  <2>1. t \notin Uncounted(h) /\ t \notin Uncounted(h)'
    BY DEF Uncounted
  <2> QED BY <2>1, OthersCount
<1>3. refused'[h] = Cardinality(Uncounted(h))
  BY DEF HostAdd
<1>4. /\ \A i, j \in Entries(h)' : i = j
      /\ \A i \in Entries(h)' : table'[i].errors = 0
  BY <1>1, AddEntries
<1>5. /\ Cardinality(Uncounted(h)) \in Nat /\ Cardinality(Underway(h)') \in Nat
      /\ Cardinality(Threads) \in Nat /\ Cardinality(Underway(h)') <= Cardinality(Threads)
  BY HostCounts, ThreadCounts
<1>6. MaxNetErrors \in Nat /\ MaxNetErrors >= 1
  BY BoundAssumption
<1>7. \A i \in Entries(h)' :
         /\ refused'[h] <= table'[i].errors + Cardinality(Uncounted(h)')
         /\ table'[i].errors + Cardinality(Underway(h)')
                <= MaxNetErrors + Cardinality(Threads) - 1
  BY <1>2, <1>3, <1>4, <1>5, <1>6
<1> QED BY <1>4, <1>7 DEF HostOK

\* A step that leaves the counts of the document's host alone: its thread
\* does not wait with a failed request, and it passes the check only below
\* MaxNetErrors.
LEMMA OwnQuiet ==
    ASSUME Shape, MaxNetErrors # 0, NEW t \in Threads, Step(t), NEW h \in Hosts, h = H(t),
           HostOK(h), refused' = refused, Found(t),
           result[t] # "refused", result'[t] # "refused" \/ pc'[t] # "update",
           \/ pc'[t] \in Passed => pc[t] \in Passed
           \/ \A i \in Entries(h) : table[i].errors < MaxNetErrors
    PROVE  HostOK(h)'
<1>1. Uncounted(h)' = Uncounted(h)
  <2>1. t \notin Uncounted(h) /\ t \notin Uncounted(h)'
    BY DEF Uncounted
  <2> QED BY <2>1, OthersCount
<1>2. \/ Underway(h)' \subseteq Underway(h)
      \/ \A i \in Entries(h) : table[i].errors < MaxNetErrors
  <2>1. ASSUME pc'[t] \in Passed => pc[t] \in Passed, t \in Underway(h)' PROVE t \in Underway(h)
    <3>1. t \notin Uncounted(h)'
      BY DEF Uncounted
    <3>2. pc'[t] \in Passed
      BY <2>1, <3>1 DEF Underway
    <3> QED BY <2>1, <3>2 DEF Underway
  <2> QED BY <2>1, OthersCount
<1>3. /\ DOMAIN table' = DOMAIN table
      /\ \A i \in DOMAIN table : /\ table'[i].host = table[i].host
                                 /\ table'[i].errors = table[i].errors
  BY FoundKeeps DEF Shape
<1>4. TableOK /\ refused'[h] = refused[h]
  BY DEF Shape
<1> QED BY <1>1, <1>2, <1>3, <1>4, SameHosts

\* UdmHostLookup2, and the check for too many errors that follows it.
LEMMA OwnLookup ==
    ASSUME Shape, MaxNetErrors # 0, refused \in [Hosts -> Nat],
           NEW t \in Threads, Lookup(t) \/ Resolve(t),
           NEW h \in Hosts \ Numeric, h = H(t), h \notin doubled', HostOK(h)
    PROVE  HostOK(h)'
<1>1. Step(t) /\ pc[t] \in {"lookup", "resolve"}
  BY DEF Step, Lookup, Resolve, At
<1>2. result[t] = "none"
  BY <1>1 DEF Shape, PlaceOK, ThreadOK, At
<1>3. ASSUME NEW e, Looked(t, e)
      PROVE  /\ result'[t] # "refused"
             /\ pc'[t] \in Passed => ~(e.errors >= MaxNetErrors)
  <2>1. CASE result' = [result EXCEPT ![t] = "later"] /\ GoTo(t, "update")
    BY <2>1 DEF GoTo, Passed, Shape, PlaceOK
  <2>2. CASE result' = result /\ ~TooManyErrors(e.errors)
    BY <1>2, <2>2, BoundAssumption DEF TooManyErrors
  <2> QED BY <1>3, <2>1, <2>2 DEF Looked
<1>4. CASE Resolve(t)
  <2>1. PICK r \in BOOLEAN : HostAdd(h, r) /\ \E e : Looked(t, e)
    BY <1>4 DEF Resolve
  <2>2. result'[t] # "refused"
    BY <1>3, <2>1
  <2> QED BY <1>1, <2>1, <2>2, OwnAdd
<1>5. CASE GoTo(t, "resolve") /\ table' = table /\ result' = result /\ refused' = refused
  <2>1. pc'[t] = "resolve"
    BY <1>5 DEF GoTo, Shape, PlaceOK
  <2> QED BY <1>1, <1>2, <1>5, <2>1, OwnQuiet DEF Found, Passed
<1>6. CASE /\ HostFind(h) # 0 /\ Found(t) /\ refused' = refused
           /\ \E resolved : Looked(t, [resolved |-> resolved, errors |-> table[HostFind(h)].errors])
  <2>1. HostFind(h) \in Entries(h) /\ \A i \in Entries(h) : i = HostFind(h)
    BY <1>1, <1>6, EntryOfHost DEF Shape, HostOK
  <2>2. table[HostFind(h)].errors \in Nat
    BY <2>1, EntryErrors DEF Entries, Shape
  <2>3. /\ result'[t] # "refused"
        /\ pc'[t] \in Passed => table[HostFind(h)].errors < MaxNetErrors
    <3>1. PICK resolved :
              Looked(t, [resolved |-> resolved, errors |-> table[HostFind(h)].errors])
      BY <1>6
    <3> DEFINE e == [resolved |-> resolved, errors |-> table[HostFind(h)].errors]
    <3>2. e.errors = table[HostFind(h)].errors /\ Looked(t, e)
      BY <3>1
    <3> HIDE DEF e
    <3>3. result'[t] # "refused" /\ (pc'[t] \in Passed => ~(e.errors >= MaxNetErrors))
      BY <1>3, <3>2
    <3> QED BY <2>2, <3>2, <3>3, BoundAssumption
  <2>4. \/ pc'[t] \in Passed => pc[t] \in Passed
        \/ \A i \in Entries(h) : table[i].errors < MaxNetErrors
    BY <2>1, <2>3
  <2> QED BY <1>1, <1>2, <1>6, <2>3, <2>4, OwnQuiet
<1>7. CASE Lookup(t)
  <2>1. \/ GoTo(t, "resolve") /\ table' = table /\ result' = result /\ refused' = refused
        \/ /\ HostFind(h) # 0 /\ Found(t) /\ refused' = refused
           /\ \E resolved : Looked(t, [resolved |-> resolved, errors |-> table[HostFind(h)].errors])
    BY <1>7 DEF Lookup, HostLookup, Found
  <2> QED BY <1>5, <1>6, <2>1
<1> QED BY <1>4, <1>7

\* The robots.txt: the thread has passed the check already.
LEMMA OwnRobots ==
    ASSUME Shape, MaxNetErrors # 0, refused \in [Hosts -> Nat],
           NEW t \in Threads, NEW h \in Hosts \ Numeric, h = H(t), h \notin doubled', HostOK(h),
           \/ RobotLookup(t) \/ RobotResolve(t) \/ RobotsOff(t) \/ RobotsLock(t)
           \/ RobotDown(t) \/ RobotAnswers(t) \/ Rules(t)
    PROVE  HostOK(h)'
<1>1. Step(t) /\ pc[t] \in Passed \ {"get"}
  BY DEF Step, RobotLookup, RobotResolve, RobotsOff, RobotsLock, RobotDown, RobotAnswers,
         Rules, At, Passed
<1>2. result[t] = "none"
  BY <1>1 DEF Shape, PlaceOK, ThreadOK, At, Passed
<1>3. CASE RobotResolve(t)
  <2>1. PICK r \in BOOLEAN : HostAdd(h, r)
    BY <1>3 DEF RobotResolve
  <2>2. result'[t] # "refused" /\ pc[t] # "update"
    BY <1>1, <1>2, <1>3 DEF RobotResolve, Passed
  <2> QED BY <1>1, <2>1, <2>2, OwnAdd
<1>4. CASE /\ Found(t) /\ refused' = refused
           /\ result' = result \/ \E r \in {"later", "disallow"} : result' = [result EXCEPT ![t] = r]
  <2>1. result'[t] # "refused"
    BY <1>2, <1>4 DEF Shape, PlaceOK
  <2> QED BY <1>1, <1>2, <1>4, <2>1, OwnQuiet
<1>5. CASE RobotLookup(t)
  <2>1. Found(t) /\ refused' = refused /\ result' = result
    BY <1>5 DEF RobotLookup, HostLookup, Found
  <2> QED BY <1>4, <2>1
<1>6. CASE RobotsOff(t) \/ RobotsLock(t) \/ RobotDown(t) \/ RobotAnswers(t) \/ Rules(t)
  <2>1. /\ table' = table /\ refused' = refused
        /\ result' = result \/ \E r \in {"later", "disallow"} : result' = [result EXCEPT ![t] = r]
    BY <1>6 DEF RobotsOff, RobotsLock, RobotDown, RobotAnswers, Rules, hostVars, histories
  <2> QED BY <1>4, <2>1 DEF Found
<1> QED BY <1>3, <1>5, <1>6

\* A request that fails is not counted yet, and its thread is still underway.
LEMMA OwnGet ==
    ASSUME Shape, MaxNetErrors # 0, refused \in [Hosts -> Nat],
           NEW t \in Threads, Get(t), NEW h \in Hosts, h = H(t), HostOK(h)
    PROVE  HostOK(h)'
<1>1. Step(t) /\ pc[t] = "get" /\ pc'[t] = "update" /\ table' = table /\ doc' = doc
  BY DEF Step, Get, At, GoTo, hostVars, Shape, PlaceOK
<1>2. result[t] = "none"
  BY <1>1 DEF Shape, PlaceOK, ThreadOK, At
<1>3. PICK r \in {"ok", "missing", "refused"} :
          /\ result' = [result EXCEPT ![t] = r]
          /\ refused' = [refused EXCEPT ![H(t)] = IF r = "refused" THEN @ + 1 ELSE @]
  BY DEF Get
<1>4. result'[t] = r
  BY <1>3 DEF Shape, PlaceOK
<1>5. CASE r # "refused"
  <2>1. refused' = refused
    BY <1>3, <1>5
  <2>2. pc'[t] \notin Passed
    BY <1>1 DEF Passed
  <2> QED BY <1>1, <1>2, <1>4, <1>5, <2>1, <2>2, OwnQuiet DEF Found
<1>6. CASE r = "refused"
  <2>1. refused'[h] = refused[h] + 1
    BY <1>3, <1>6
  <2>2. t \notin Uncounted(h) /\ t \in Uncounted(h)'
    BY <1>1, <1>4, <1>6 DEF Uncounted, At, H
  <2>3. t \in Underway(h) /\ t \in Underway(h)'
    BY <1>1, <2>2 DEF Underway, Passed
  <2>4. Uncounted(h)' = Uncounted(h) \cup {t} /\ Underway(h)' = Underway(h)
    BY <1>1, <2>2, <2>3, OthersCount
  <2>5. /\ Cardinality(Uncounted(h)') = Cardinality(Uncounted(h)) + 1
        /\ Cardinality(Uncounted(h)) \in Nat
    <3>1. Uncounted(h) \in SUBSET Threads
      BY HostCounts
    <3> QED BY <2>2, <2>4, <3>1, ThreadCounts
  <2>6. Entries(h)' = Entries(h)
    BY <1>1 DEF Entries
  <2>7. ASSUME NEW i \in Entries(h)'
        PROVE  /\ refused'[h] <= table'[i].errors + Cardinality(Uncounted(h)')
               /\ table'[i].errors + Cardinality(Underway(h)')
                      <= MaxNetErrors + Cardinality(Threads) - 1
    <3>1. table[i].errors \in Nat
      BY <2>6, EntryErrors DEF Entries, Shape
    <3>2. /\ refused[h] <= table[i].errors + Cardinality(Uncounted(h))
          /\ table[i].errors + Cardinality(Underway(h)) <= MaxNetErrors + Cardinality(Threads) - 1
      BY <2>6 DEF HostOK
    <3> QED BY <1>1, <2>1, <2>4, <2>5, <3>1, <3>2
  <2>8. \A i, j \in Entries(h)' : i = j
    BY <2>6 DEF HostOK
  <2> QED BY <2>7, <2>8 DEF HostOK
<1> QED BY <1>5, <1>6

\* DocUpdate counts a request that has failed, or begins anew.
LEMMA OwnUpdate ==
    ASSUME Shape, MaxNetErrors # 0, refused \in [Hosts -> Nat],
           NEW t \in Threads, Update(t), NEW h \in Hosts, h = H(t), HostOK(h)
    PROVE  HostOK(h)'
<1> DEFINE k == HostFind(h)
<1>1. Step(t) /\ pc[t] = "update" /\ pc'[t] = "idle"
  BY DEF Step, Update, At, GoTo, Shape, PlaceOK
<1>2. /\ TableOK /\ DOMAIN table' = DOMAIN table
      /\ \A i \in DOMAIN table : table'[i].host = table[i].host
  <2>1. table' = table \/ \E n : table' = [table EXCEPT ![k].errors = n]
    BY DEF Update
  <2>2. ASSUME NEW n, table' = [table EXCEPT ![k].errors = n], NEW i \in DOMAIN table
        PROVE  table'[i].host = table[i].host
    <3>1. table[i] \in Entry
      BY DEF Shape, TableOK
    <3>2. [table[i] EXCEPT !.errors = n].host = table[i].host
      BY <3>1 DEF Entry
    <3>3. table'[i] = table[i] \/ table'[i] = [table[i] EXCEPT !.errors = n]
      BY <2>2
    <3> QED BY <3>2, <3>3
  <2> QED BY <2>1, <2>2 DEF Shape
<1>3. Entries(h)' = Entries(h)
  BY <1>2 DEF Entries
<1>4. k = 0 => Entries(h) = {}
  BY <1>2, EntryOfHost
<1>5. k # 0 => Entries(h) = {k} /\ k \in DOMAIN table
  <2> SUFFICES ASSUME k # 0 PROVE Entries(h) = {k} /\ k \in DOMAIN table
    OBVIOUS
  <2>1. k \in Entries(h)
    BY <1>2, EntryOfHost
  <2> HIDE DEF k
  <2>2. \A i \in Entries(h) : i = k
    BY <2>1 DEF HostOK
  <2> QED BY <2>1, <2>2 DEF Entries
<1>6. /\ Cardinality(Uncounted(h)) \in Nat /\ Cardinality(Underway(h)) \in Nat
      /\ Cardinality(Underway(h)') \in Nat /\ Cardinality(Underway(h)') <= Cardinality(Threads)
      /\ Cardinality(Threads) \in Nat /\ MaxNetErrors \in Nat /\ MaxNetErrors >= 1
  BY HostCounts, ThreadCounts, BoundAssumption
<1>7. t \notin Uncounted(h)' /\ t \notin Underway(h)'
  BY <1>1 DEF Uncounted, Underway, Passed
<1>8. CASE k = 0
  BY <1>3, <1>4, <1>8 DEF HostOK
<1>9. CASE k # 0 /\ result[t] = "refused"
  <2>1. refused' = refused /\ table' = [table EXCEPT ![k].errors = @ + 1]
    BY <1>9 DEF Update
  <2>2. table'[k].errors = table[k].errors + 1 /\ table[k].errors \in Nat
    <3>1. table[k] \in Entry
      BY <1>2, <1>5, <1>9 DEF TableOK
    <3>2. table'[k] = [table[k] EXCEPT !.errors = @ + 1]
      BY <1>5, <1>9, <2>1
    <3> HIDE DEF k
    <3> QED BY <3>1, <3>2 DEF Entry
  <2>3. t \in Uncounted(h) /\ t \in Underway(h)
    BY <1>1, <1>9 DEF Uncounted, Underway
  <2>4. Uncounted(h)' = Uncounted(h) \ {t} /\ Underway(h)' = Underway(h) \ {t}
    BY <1>1, <1>7, <2>3, OthersCount
  <2>5. /\ Cardinality(Uncounted(h)') = Cardinality(Uncounted(h)) - 1
        /\ Cardinality(Underway(h)') = Cardinality(Underway(h)) - 1
    <3>1. Uncounted(h) \in SUBSET Threads /\ Underway(h) \in SUBSET Threads
      BY HostCounts
    <3> QED BY <2>3, <2>4, <3>1, ThreadCounts
  <2> HIDE DEF k
  <2>6. /\ refused[h] <= table[k].errors + Cardinality(Uncounted(h))
        /\ table[k].errors + Cardinality(Underway(h)) <= MaxNetErrors + Cardinality(Threads) - 1
    BY <1>5, <1>9 DEF HostOK
  <2>7. /\ refused'[h] <= table'[k].errors + Cardinality(Uncounted(h)')
        /\ table'[k].errors + Cardinality(Underway(h)') <= MaxNetErrors + Cardinality(Threads) - 1
    BY <1>6, <2>1, <2>2, <2>5, <2>6
  <2> QED BY <1>3, <1>5, <1>9, <2>7 DEF HostOK
<1>10. CASE k # 0 /\ result[t] = "ok"
  <2>1. /\ refused' = [refused EXCEPT ![h] = Cardinality(Uncounted(h))]
        /\ table' = [table EXCEPT ![k].errors = 0]
    BY <1>10 DEF Update
  <2>2. refused'[h] = Cardinality(Uncounted(h)) /\ table'[k].errors = 0
    <3>1. table[k] \in Entry
      BY <1>2, <1>5, <1>10 DEF TableOK
    <3>2. table'[k] = [table[k] EXCEPT !.errors = 0]
      BY <1>5, <1>10, <2>1
    <3> HIDE DEF k
    <3> QED BY <2>1, <3>1, <3>2 DEF Entry
  <2>3. t \notin Uncounted(h)
    BY <1>10 DEF Uncounted
  <2>4. Uncounted(h)' = Uncounted(h)
    BY <1>1, <1>7, <2>3, OthersCount
  <2> HIDE DEF k
  <2>5. /\ refused'[h] <= table'[k].errors + Cardinality(Uncounted(h)')
        /\ table'[k].errors + Cardinality(Underway(h)') <= MaxNetErrors + Cardinality(Threads) - 1
    BY <1>6, <2>2, <2>4
  <2> QED BY <1>3, <1>5, <1>10, <2>5 DEF HostOK
<1>11. CASE result[t] \notin {"ok", "refused"}
  <2>1. refused' = refused /\ table' = table
    BY <1>11 DEF Update
  <2>2. pc'[t] \notin Passed
    BY <1>1 DEF Passed
  <2> QED BY <1>1, <1>11, <2>1, <2>2, OwnQuiet DEF Found
<1> QED BY <1>8, <1>9, <1>10, <1>11

LEMMA BoundedInit == Init => Bounded
<1> SUFFICES ASSUME Init PROVE Bounded
  OBVIOUS
<1>1. refused \in [Hosts -> Nat]
  BY DEF Init
<1>2. \A h \in Hosts : Entries(h) = {}
  BY DEF Init, Entries
<1> QED BY <1>1, <1>2 DEF Bounded, HostOK

LEMMA BoundedStep == Shape /\ Bounded /\ [Next]_vars => Bounded'
<1> SUFFICES ASSUME Shape, Bounded, [Next]_vars PROVE Bounded'
  OBVIOUS
<1>1. ASSUME NEW t \in Threads, Step(t) PROVE Bounded'
  <2>1. refused' \in [Hosts -> Nat]
    BY <1>1, StepRefused DEF Bounded
  <2>2. doubled \subseteq doubled'
    <3>1. (\E r \in BOOLEAN : HostAdd(H(t), r)) \/ doubled' = doubled
      BY <1>1, StepTable
    <3> QED BY <3>1 DEF HostAdd
  <2>3. ASSUME MaxNetErrors # 0, NEW h \in Hosts \ (Numeric \cup doubled') PROVE HostOK(h)'
    <3>1. refused \in [Hosts -> Nat] /\ HostOK(h) /\ h \in Hosts \ Numeric /\ h \notin doubled'
      BY <2>2, <2>3 DEF Bounded
    <3>2. CASE h # H(t)
      BY <1>1, <2>3, <3>1, <3>2, OtherHost
    <3>3. CASE h = H(t)
      <4>1. CASE Lookup(t) \/ Resolve(t)
        BY <2>3, <3>1, <3>3, <4>1, OwnLookup
      <4>2. CASE \/ RobotLookup(t) \/ RobotResolve(t) \/ RobotsOff(t) \/ RobotsLock(t)
                 \/ RobotDown(t) \/ RobotAnswers(t) \/ Rules(t)
        BY <2>3, <3>1, <3>3, <4>2, OwnRobots
      <4>3. CASE Get(t)
        BY <2>3, <3>1, <3>3, <4>3, OwnGet
      <4>4. CASE Update(t)
        BY <2>3, <3>1, <3>3, <4>4, OwnUpdate
      <4> QED BY <1>1, <4>1, <4>2, <4>3, <4>4 DEF Step
    <3> QED BY <3>2, <3>3
  <2> QED BY <2>1, <2>3 DEF Bounded
<1>2. ASSUME NEW t \in Threads, NEW h \in Hosts, NEW p \in Paths, Take(t, h, p) PROVE Bounded'
  <2>1. /\ pc[t] = "idle" /\ pc' = [pc EXCEPT ![t] = "lookup"]
        /\ doc' = [doc EXCEPT ![t] = [host |-> h, path |-> p]]
        /\ result' = result /\ table' = table /\ refused' = refused /\ doubled' = doubled
    BY <1>2 DEF Take, At, GoTo, hostVars, histories
  <2>2. ASSUME NEW g \in Hosts PROVE Uncounted(g)' = Uncounted(g) /\ Underway(g)' = Underway(g)
    <3>1. \A u \in Threads \ {t} : pc'[u] = pc[u] /\ doc'[u] = doc[u]
      BY <2>1 DEF Shape, PlaceOK
    <3>2. pc'[t] = "lookup"
      BY <2>1 DEF Shape, PlaceOK
    <3>3. \A u \in Threads : u \in Uncounted(g)' <=> u \in Uncounted(g)
      BY <2>1, <3>1, <3>2 DEF Uncounted, H
    <3>4. \A u \in Threads : u \in Underway(g)' <=> u \in Underway(g)
      BY <2>1, <3>1, <3>2, <3>3 DEF Underway, Passed, H
    <3> QED BY <3>3, <3>4, HostCounts
  <2> QED BY <2>1, <2>2 DEF Bounded, HostOK, Entries
<1>3. CASE Tick \/ UNCHANGED vars
  <2>1. /\ table' = table /\ refused' = refused /\ doubled' = doubled
        /\ pc' = pc /\ doc' = doc /\ result' = result
    BY <1>3 DEF Tick, vars, hostVars, threadVars, histories
  <2>2. \A g : Uncounted(g)' = Uncounted(g) /\ Underway(g)' = Underway(g)
    BY <2>1 DEF Uncounted, Underway, H
  <2> QED BY <2>1, <2>2 DEF Bounded, HostOK, Entries
<1> QED BY <1>1, <1>2, <1>3 DEF Next

\* When the failing requests for documents of a host with a name and one entry
\* have reached MaxNetErrors, only threads that have passed the check make
\* another: for every number of threads, size of the table and order of their
\* steps.  Hosts named by an IP address are not limited (host.c:319-328).
THEOREM FetchStopsAfterMax == Spec => []StopsAfterMax
<1>1. Shape /\ Bounded => StopsAfterMax
  <2> SUFFICES ASSUME Shape, Bounded, MaxNetErrors # 0,
                      NEW h \in Hosts \ (Numeric \cup doubled), HostFind(h) # 0
               PROVE  refused[h] <= MaxNetErrors + Cardinality(Threads) - 1
    BY DEF StopsAfterMax
  <2> DEFINE k == HostFind(h)
  <2>1. k \in Entries(h) /\ TableOK /\ HostOK(h)
    BY EntryOfHost DEF Shape, Bounded
  <2> HIDE DEF k
  <2>2. /\ refused[h] <= table[k].errors + Cardinality(Uncounted(h))
        /\ table[k].errors + Cardinality(Underway(h)) <= MaxNetErrors + Cardinality(Threads) - 1
    BY <2>1 DEF HostOK
  <2>3. /\ Cardinality(Uncounted(h)) \in Nat /\ Cardinality(Underway(h)) \in Nat
        /\ Cardinality(Uncounted(h)) <= Cardinality(Underway(h))
        /\ Cardinality(Threads) \in Nat /\ MaxNetErrors \in Nat
    <3>1. Uncounted(h) \in SUBSET Underway(h)
      BY DEF Underway
    <3> QED BY <3>1, HostCounts, ThreadCounts, BoundAssumption
  <2>4. table[k].errors \in Nat /\ refused[h] \in Nat
    BY <2>1, EntryErrors DEF Entries, Bounded
  <2> QED BY <2>2, <2>3, <2>4
<1>2. Spec => []Shape
  BY ShapeInit, ShapeStep, PTL DEF Spec
<1>3. Spec => []Bounded
  BY <1>2, BoundedInit, BoundedStep, PTL DEF Spec
<1> QED BY <1>1, <1>2, <1>3, PTL
=============================================================================
