------------------------------- MODULE Fetch -------------------------------
(***************************************************************************)
(* The way of a document from its target to its answer in one mnoGoSearch  *)
(* indexer: host name lookup and the table of hosts (host.c), MaxNetErrors *)
(* (indexer.c, db.c), robots.txt and its table of rules (indexer.c,        *)
(* robots.c), the download, and the counts DocUpdate keeps for the host.   *)
(*                                                                         *)
(* Both tables belong to the process and are used under UDM_LOCK_CONF by   *)
(* all its threads; looking up an unknown name and downloading are done    *)
(* without it.  A robots.txt is looked for, downloaded and stored under    *)
(* one of UDM_LOCK_ROBOT_COUNT locks, chosen by a hash of the host.        *)
(*                                                                         *)
(* A host is a number, ordered as strcasecmp orders the names.  Documents  *)
(* are known by their host and whether robots.txt is about them.           *)
(***************************************************************************)
EXTENDS Integers, Sequences, FiniteSets

CONSTANTS
    Threads,
    Hosts,
    Numeric,       \* the hosts whose name is an IP address
    RobotsTxt,     \* for each host: has it a robots.txt that disallows "private"?
    UseRobots,     \* Robots, for each host and path: 0 or 1
    RobotLocks,
    LockOf,        \* UdmStrCRC32(hostinfo) % UDM_LOCK_ROBOT_COUNT
    MaxNetErrors,  \* 0: unlimited
    CacheSize,     \* MAX_HOST_ADDR_SIZE
    DocsMax,       \* bound: documents that are taken
    ClockMax,      \* bound: how often time() changes
    Nobody

Paths == {"public", "private"}

ASSUME ThreadAssumption == /\ Nobody \notin Threads /\ IsFiniteSet(Threads)
                           /\ Hosts \subseteq Nat /\ Numeric \subseteq Hosts
ASSUME RobotAssumption  == /\ RobotsTxt \in [Hosts -> {0, 1}]
                           /\ UseRobots \in [Hosts -> [Paths -> {0, 1}]]
                           /\ LockOf \in [Hosts -> RobotLocks]
ASSUME BoundAssumption  == /\ MaxNetErrors \in Nat /\ CacheSize \in Nat \ {0}
                           /\ DocsMax \in Nat /\ ClockMax \in Nat

VARIABLES
    table,     \* Conf->Hosts: entries, sorted by name
    robots,    \* Conf->Robots: "none" (no entry), "empty" or "rules" of each host
    owner,     \* the owner of each UDM_LOCK_ROBOT
    pc,        \* the next step of each thread
    doc,       \* the document a thread works on
    result,    \* what came of it
    now,       \* time(), in seconds
    docs,
    fetched,   \* history: the answers to requests for a host's robots.txt
    hidden,    \* history: the hosts that have answered such a request with a
               \* status that is below 500 and not 200
    refused,   \* history: see StopsAfterMax
    attempts,  \* history: failing connections to a host since its last answer
    doubled    \* history: the hosts that have had two entries at a time

hostVars   == <<table, now>>
robotVars  == <<robots, owner>>
threadVars == <<pc, doc, result>>
histories  == <<fetched, hidden, refused, attempts, doubled>>
vars == <<hostVars, robotVars, threadVars, docs, histories>>

NoDoc == [host |-> -1, path |-> "public"]
PCs == {"idle", "lookup", "resolve", "robots", "robotLookup", "robotResolve",
        "robotGet", "rules", "get", "update"}
Results == {"none", "later", "disallow", "ok", "refused", "missing"}

Init ==
    /\ table = <<>>
    /\ robots = [h \in Hosts |-> "none"]
    /\ owner = [l \in RobotLocks |-> Nobody]
    /\ pc = [t \in Threads |-> "idle"]
    /\ doc = [t \in Threads |-> NoDoc]
    /\ result = [t \in Threads |-> "none"]
    /\ now = 0 /\ docs = 0
    /\ fetched = [h \in Hosts |-> 0]
    /\ refused = [h \in Hosts |-> 0]
    /\ attempts = [h \in Hosts |-> 0]
    /\ hidden = {} /\ doubled = {}

H(t) == doc[t].host
At(t, step) == pc[t] = step
GoTo(t, step) == pc' = [pc EXCEPT ![t] = step]
-----------------------------------------------------------------------------
(* host.c *)

\* UdmHostFind's places l..r, counted from 0, that may still have h.
Ranges == (0..Len(table)) \X (-1..Len(table) - 1)

\* One turn of its loop, with what the turns after it return.
Probe(h, bisect, range) ==
    LET l == range[1]
        r == range[2]
        c == (l + r) \div 2
    IN IF l > r THEN 0
       ELSE IF table[c + 1].host = h THEN c + 1
       ELSE bisect[IF table[c + 1].host < h THEN <<c + 1, r>> ELSE <<l, c - 1>>]

\* UdmHostFind: the place of h, 0 if it is not there.  Of two entries of one
\* host, which one is found depends on how many entries there are.
HostFind(h) ==
    LET bisect[range \in Ranges] == Probe(h, bisect, range)
    IN bisect[<<0, Len(table) - 1>>]

\* What UdmSort can make of a list: the order of equal names is left open.
Sorted(s) ==
    LET D == DOMAIN s
        permutations == {p \in [D -> D] : \A i, j \in D : i # j => p[i] # p[j]}
    IN {z \in {[i \in D |-> s[p[i]]] : p \in permutations} :
            \A i \in D : i + 1 \in D => z[i].host <= z[i + 1].host}

\* The first of the entries with the oldest last_used.
Oldest ==
    CHOOSE i \in DOMAIN table :
        \A j \in DOMAIN table :
            \/ table[i].lastUsed < table[j].lastUsed
            \/ table[i].lastUsed = table[j].lastUsed /\ i <= j

\* Requests that have failed and that DocUpdate has not counted yet.
Uncounted(h) == {t \in Threads : H(t) = h /\ pc[t] = "update" /\ result[t] = "refused"}

\* An entry that is used again keeps the address of its old host when the new
\* one has none: host_addr_add copies an address only if there is one.
Address(resolved) == resolved \/ (Len(table) = CacheSize /\ table[Oldest].resolved)

\* host_addr_add: a new entry, in the place of the oldest one when the table
\* is full.  Nobody looks whether another thread has added h in the meantime.
HostAdd(h, resolved) ==
    LET entry == [host |-> h, resolved |-> Address(resolved), errors |-> 0, lastUsed |-> now]
        added == IF Len(table) < CacheSize THEN Append(table, entry)
                 ELSE [table EXCEPT ![Oldest] = entry]
    IN /\ table' \in Sorted(added)
       /\ refused' = [refused EXCEPT ![h] = Cardinality(Uncounted(h))]
       /\ doubled' = IF \E i, j \in DOMAIN table' : i # j /\ table'[i].host = table'[j].host
                                                   /\ table'[i].host = h
                     THEN doubled \cup {h} ELSE doubled

TooManyErrors(e) == MaxNetErrors # 0 /\ e >= MaxNetErrors

\* UdmHostLookup2's first critical section.  An entry that is found is used
\* now; what has gone wrong with its host counts for names only.
HostLookup(t, missing, found(_)) ==
    LET h == H(t)
        i == HostFind(h)
    IN IF i = 0
       THEN IF h \in Numeric
            THEN HostAdd(h, TRUE) /\ found([resolved |-> TRUE, errors |-> 0])
            ELSE /\ GoTo(t, missing)
                 /\ UNCHANGED <<table, result, refused, doubled>>
       ELSE /\ table' = IF h \in Numeric THEN table
                        ELSE [table EXCEPT ![i].lastUsed = now]
            /\ found([resolved |-> table[i].resolved,
                      errors |-> IF h \in Numeric THEN 0 ELSE table[i].errors])
            /\ UNCHANGED <<refused, doubled>>
-----------------------------------------------------------------------------
(* indexer.c *)

Take(t, h, p) ==
    /\ At(t, "idle") /\ docs < DocsMax
    /\ doc' = [doc EXCEPT ![t] = [host |-> h, path |-> p]]
    /\ docs' = docs + 1
    /\ GoTo(t, "lookup")
    /\ UNCHANGED <<hostVars, robotVars, result, histories>>

\* Mutant: > for >=.
LookedMutant(t, entry) ==
    IF ~entry.resolved \/ (MaxNetErrors # 0 /\ entry.errors > MaxNetErrors)
    THEN /\ result' = [result EXCEPT ![t] = "later"]
         /\ GoTo(t, "update")
    ELSE /\ GoTo(t, "robots")
         /\ UNCHANGED result

\* UdmDocLookupConn and the check for too many errors that follows it.
Looked(t, entry) ==
    IF ~entry.resolved \/ TooManyErrors(entry.errors)
    THEN /\ result' = [result EXCEPT ![t] = "later"]
         /\ GoTo(t, "update")
    ELSE /\ GoTo(t, "robots")
         /\ UNCHANGED result

Lookup(t) ==
    /\ At(t, "lookup")
    /\ LET found(entry) == Looked(t, entry) IN HostLookup(t, "resolve", found)
    /\ UNCHANGED <<robotVars, doc, now, docs, fetched, hidden, attempts>>

\* The name is looked up, then the host is added: net_errors is 0.
Resolve(t) ==
    /\ At(t, "resolve")
    /\ \E resolved \in BOOLEAN :
           /\ HostAdd(H(t), resolved)
           /\ Looked(t, [resolved |-> resolved, errors |-> 0])
    /\ UNCHANGED <<robotVars, doc, now, docs, fetched, hidden, attempts>>

\* UdmRobotsCheck with Robots no: the rules of the host are wiped out.
RobotsOff(t) ==
    /\ At(t, "robots") /\ UseRobots[H(t)][doc[t].path] = 0
    /\ robots' = [robots EXCEPT ![H(t)] = "empty"]
    /\ GoTo(t, "get")
    /\ UNCHANGED <<hostVars, owner, doc, result, docs, histories>>

\* Mutant: the lock is not waited for.
RobotsLockMutant(t) ==
    /\ At(t, "robots") /\ UseRobots[H(t)][doc[t].path] = 1
    /\ IF robots[H(t)] = "none"
       THEN /\ owner' = [owner EXCEPT ![LockOf[H(t)]] = t]
            /\ GoTo(t, "robotLookup")
       ELSE GoTo(t, "rules") /\ UNCHANGED owner
    /\ UNCHANGED <<hostVars, robots, doc, result, docs, histories>>

\* The lock is taken and kept while a robots.txt that is not known is fetched.
RobotsLock(t) ==
    /\ At(t, "robots") /\ UseRobots[H(t)][doc[t].path] = 1
    /\ owner[LockOf[H(t)]] = Nobody
    /\ IF robots[H(t)] = "none"
       THEN /\ owner' = [owner EXCEPT ![LockOf[H(t)]] = t]
            /\ GoTo(t, "robotLookup")
       ELSE GoTo(t, "rules") /\ UNCHANGED owner
    /\ UNCHANGED <<hostVars, robots, doc, result, docs, histories>>

\* UdmGetAndParseRobotFile looks the host up again; a document of its own
\* is told when that fails, and it goes on.
RobotLookup(t) ==
    /\ At(t, "robotLookup")
    /\ LET found(entry) == GoTo(t, "robotGet") /\ UNCHANGED result
       IN HostLookup(t, "robotResolve", found)
    /\ UNCHANGED <<robotVars, doc, now, docs, fetched, hidden, attempts>>

RobotResolve(t) ==
    /\ At(t, "robotResolve")
    /\ \E resolved \in BOOLEAN : HostAdd(H(t), resolved)
    /\ GoTo(t, "robotGet")
    /\ UNCHANGED <<robotVars, doc, result, now, docs, fetched, hidden, attempts>>

Unlock(t) == owner' = [owner EXCEPT ![LockOf[H(t)]] = Nobody]

\* Mutant: the host gets an entry without rules.
RobotDownMutantEmpty(t) ==
    /\ At(t, "robotGet")
    /\ attempts' = [attempts EXCEPT ![H(t)] = @ + 1]
    /\ robots' = [robots EXCEPT ![H(t)] = "empty"]
    /\ result' = [result EXCEPT ![t] = "later"]
    /\ Unlock(t)
    /\ GoTo(t, "update")
    /\ UNCHANGED <<hostVars, doc, docs, fetched, hidden, refused, doubled>>

\* Mutant: the early return keeps the lock.
RobotDownMutantLock(t) ==
    /\ At(t, "robotGet")
    /\ attempts' = [attempts EXCEPT ![H(t)] = @ + 1]
    /\ result' = [result EXCEPT ![t] = "later"]
    /\ GoTo(t, "update")
    /\ UNCHANGED <<hostVars, robotVars, doc, docs, fetched, hidden, refused, doubled>>

\* Status >= 500: nothing is stored and the document is to be visited later.
RobotDown(t) ==
    /\ At(t, "robotGet")
    /\ attempts' = [attempts EXCEPT ![H(t)] = @ + 1]
    /\ result' = [result EXCEPT ![t] = "later"]
    /\ Unlock(t)
    /\ GoTo(t, "update")
    /\ UNCHANGED <<hostVars, robots, doc, docs, fetched, hidden, refused, doubled>>

\* Mutant: only rules are stored.
RobotAnswersMutant(t) ==
    /\ At(t, "robotGet")
    /\ attempts' = [attempts EXCEPT ![H(t)] = 0]
    /\ fetched' = [fetched EXCEPT ![H(t)] = @ + 1]
    /\ robots' = IF RobotsTxt[H(t)] = 1 THEN [robots EXCEPT ![H(t)] = "rules"] ELSE robots
    /\ Unlock(t)
    /\ GoTo(t, "rules")
    /\ UNCHANGED <<hostVars, hidden, doc, result, docs, refused, doubled>>

\* Status 200: UdmRobotParse stores the rules there are.  Any other below 500,
\* of a host with a robots.txt too (none at all, 3xx, 401, 403): UdmRobotAddEmpty.
RobotAnswers(t) ==
    /\ At(t, "robotGet")
    /\ attempts' = [attempts EXCEPT ![H(t)] = 0]
    /\ fetched' = [fetched EXCEPT ![H(t)] = @ + 1]
    /\ \/ /\ robots' = [robots EXCEPT ![H(t)] = IF RobotsTxt[H(t)] = 1 THEN "rules" ELSE "empty"]
          /\ UNCHANGED hidden
       \/ /\ robots' = [robots EXCEPT ![H(t)] = "empty"]
          /\ hidden' = hidden \cup {H(t)}
    /\ Unlock(t)
    /\ GoTo(t, "rules")
    /\ UNCHANGED <<hostVars, doc, result, docs, refused, doubled>>

\* UdmRobotRuleFind.
Rules(t) ==
    /\ At(t, "rules")
    /\ IF doc[t].path = "private" /\ robots[H(t)] = "rules"
       THEN result' = [result EXCEPT ![t] = "disallow"] /\ GoTo(t, "update")
       ELSE GoTo(t, "get") /\ UNCHANGED result
    /\ UNCHANGED <<hostVars, robotVars, doc, docs, histories>>

\* The document is requested.  "refused" stands for 500, 503, 504 and for an
\* answer without a status, "missing" for the statuses DocUpdate does not
\* count for or against the host.
Get(t) ==
    /\ At(t, "get")
    /\ \E r \in {"ok", "missing", "refused"} :
           /\ result' = [result EXCEPT ![t] = r]
           /\ attempts' = [attempts EXCEPT ![H(t)] = IF r = "refused" THEN @ + 1 ELSE 0]
           /\ refused' = [refused EXCEPT ![H(t)] = IF r = "refused" THEN @ + 1 ELSE @]
    /\ GoTo(t, "update")
    /\ UNCHANGED <<hostVars, robotVars, doc, docs, fetched, hidden, doubled>>

\* DocUpdate: UdmHostErrorIncrement and UdmHostErrorReset.  Neither is done
\* for documents that are to be visited later.
Update(t) ==
    LET h == H(t)
        i == HostFind(h)
        counted == result[t] \in {"ok", "refused"} /\ i # 0
    IN /\ At(t, "update")
       /\ table' = IF ~counted THEN table
                   ELSE [table EXCEPT ![i].errors =
                             IF result[t] = "refused" THEN @ + 1 ELSE 0]
       /\ refused' = IF counted /\ result[t] = "ok"
                     THEN [refused EXCEPT ![h] = Cardinality(Uncounted(h))] ELSE refused
       /\ result' = [result EXCEPT ![t] = "none"]
       /\ doc' = [doc EXCEPT ![t] = NoDoc]
       /\ GoTo(t, "idle")
       /\ UNCHANGED <<now, robotVars, docs, fetched, hidden, attempts, doubled>>

Tick ==
    /\ now < ClockMax
    /\ now' = now + 1
    /\ UNCHANGED <<table, robotVars, threadVars, docs, histories>>

Step(t) ==
    \/ Lookup(t) \/ Resolve(t) \/ RobotsOff(t) \/ RobotsLock(t)
    \/ RobotLookup(t) \/ RobotResolve(t) \/ RobotDown(t) \/ RobotAnswers(t)
    \/ Rules(t) \/ Get(t) \/ Update(t)

Next == Tick \/ \E t \in Threads : Step(t) \/ \E h \in Hosts, p \in Paths : Take(t, h, p)

Spec == Init /\ [][Next]_vars
FairSpec == Spec /\ \A t \in Threads : WF_vars(Step(t))
-----------------------------------------------------------------------------
(***************************************************************************)
(* Properties                                                              *)
(***************************************************************************)
\* The tables keep their shape: UdmHostFind can bisect a sorted table of at
\* most MAX_HOST_ADDR_SIZE entries; a thread holds a robots lock exactly
\* while it fetches a robots.txt, so that no two threads fetch one at a time.
TypeOK ==
    /\ table \in Seq([host : Hosts, resolved : BOOLEAN, errors : Nat, lastUsed : 0..ClockMax])
    /\ Len(table) <= CacheSize
    /\ \A i \in DOMAIN table : i + 1 \in DOMAIN table => table[i].host <= table[i + 1].host
    /\ robots \in [Hosts -> {"none", "empty", "rules"}]
    /\ owner \in [RobotLocks -> Threads \cup {Nobody}]
    /\ pc \in [Threads -> PCs]
    /\ doc \in [Threads -> [host : Hosts \cup {-1}, path : Paths]]
    /\ result \in [Threads -> Results]
    /\ \A t \in Threads :
        /\ (doc[t] = NoDoc) <=> At(t, "idle")
        /\ (result[t] = "none") <=> ~At(t, "update")
        /\ \A l \in RobotLocks :
               owner[l] = t <=> /\ pc[t] \in {"robotLookup", "robotResolve", "robotGet"}
                                /\ LockOf[H(t)] = l

\* "Download robots.txt it has not been downloaded before" (indexer.c): a
\* host that has answered is not asked for its robots.txt again.
RobotsOnce == \A h \in Hosts : fetched[h] <= 1

\* A document that robots.txt disallows is requested only if the host did not
\* show its robots.txt when it was asked: an answer below 500 and not 200, such
\* as 401, 403 or 301, is taken for a robots.txt without rules.  A host that
\* failed (500 or more), or that another thread has asked, is no excuse.  With
\* a host that has documents without Robots, its rules may be gone.
RobotsObeyed ==
    \A t \in Threads :
        /\ At(t, "get") /\ doc[t].path = "private" /\ UseRobots[H(t)]["private"] = 1
        /\ UseRobots[H(t)]["public"] = 1
        => RobotsTxt[H(t)] = 0 \/ H(t) \in hidden

\* The failing requests for documents of a host since its last good answer
\* has been counted, or since it was added to the table: when they have
\* reached MaxNetErrors, only the threads that have passed the check by then
\* make another.  That is less than doc/cmdref.xml:4680-4684 says: a host
\* whose name is an IP address is never given up, as UdmHostLookup2 reads no
\* net_errors for it (host.c:319-328), and two threads that add a host at a
\* time leave it two entries.
StopsAfterMax ==
    MaxNetErrors # 0 =>
        \A h \in Hosts \ (Numeric \cup doubled) :
            HostFind(h) # 0 => refused[h] <= MaxNetErrors + Cardinality(Threads) - 1

\* "indexer will try to do not more than number attempts to connect to this
\* server per session" (doc/cmdref.xml:4680-4683), in a row that is, and
\* but for the threads that are at it already.
AttemptsWithinMax ==
    MaxNetErrors # 0 =>
        \A h \in Hosts : attempts[h] <= MaxNetErrors + Cardinality(Threads) - 1

\* Every document that is taken gets to its end: a thread that waits for a
\* robots.txt that another one fetches is not forgotten.
EveryDocEnds == \A t \in Threads : pc[t] # "idle" ~> pc[t] = "idle"
=============================================================================
