------------------------------ MODULE HrefCache ------------------------------
(***************************************************************************)
(* The link cache of an indexer process (UDM_HREFLIST Conf->Hrefs) and the *)
(* two tables it is written to.  Documents hand in their links             *)
(* (UdmDocStoreHrefs, UdmHrefListAdd), and UdmStoreHrefs turns the entries *)
(* that are not stored into rows of "url" and of "links".                  *)
(*                                                                         *)
(* The list has a sorted part, searched by bisection, and an unsorted tail *)
(* of up to RESORT_HREFS entries.  Entries below dhrefs count as saved:    *)
(* found again, they get no new row.                                       *)
(*                                                                         *)
(* All this happens under UDM_LOCK_CONF, one thread at a time.  The loops  *)
(* are modelled step by step, with pc the place of the lock's holder, so   *)
(* that the database can fail at every entry.  A URL is a number, ordered  *)
(* as strcmp orders the strings; an index counts from 1.                   *)
(***************************************************************************)
EXTENDS Integers, Sequences, FiniteSets

CONSTANTS
    Urls,           \* canonical URLs
    StartHrefs,     \* the URLs of the configuration, in its order
    Docs,           \* the URLs that are crawled
    LinkLists,      \* the lists of links a document may have
    Sites,
    SiteOf,         \* schema and host of each URL
    Threads,        \* how many documents can be in work at a time
    CollectLinks,   \* CollectLinks yes
    MaxDocPerSite,  \* 0: no limit
    RESORT_HREFS,
    MAXHSIZE,
    Events,         \* what may go wrong or happen outside
    NoUrl, NoSite

AllEvents == {"dbError", "linkError", "deleteRow", "restart"}

ASSUME UrlAssumption  == Urls \subseteq Int /\ IsFiniteSet(Urls) /\ NoUrl \notin Urls
ASSUME ListAssumption ==
    /\ StartHrefs \in Seq(Urls)
    /\ \A j, k \in 1..Len(StartHrefs) : StartHrefs[j] = StartHrefs[k] => j = k
    /\ Docs \subseteq Urls /\ LinkLists \subseteq Seq(Urls) \ {<<>>}
ASSUME SiteAssumption == SiteOf \in [Urls -> Sites] /\ NoSite \notin Sites
ASSUME SizeAssumption ==
    /\ RESORT_HREFS \in Nat /\ MAXHSIZE \in Nat
    /\ Threads \in Nat /\ MaxDocPerSite \in Nat
ASSUME FlagAssumption == CollectLinks \in BOOLEAN /\ Events \subseteq AllEvents

VARIABLES
    Href,          \* Hrefs.Href: the entries
    shrefs,        \* the length of the sorted part
    dhrefs,        \* the length of the part that counts as saved
    url,           \* table url: the URLs that have a row
    links,         \* table links: pairs of a document and a URL
    parsed,        \* documents with links handed in and UdmStoreHrefs to come
    found,         \* history: the links handed in and not deleted, as pairs
    pc,            \* what the holder of UDM_LOCK_CONF does, or "free"
    doc,           \* the document it works for
    todo,          \* the links it has to add
    l, r,          \* the bounds of its bisection
    i,             \* the entry its loop has come to
    hostinfo,      \* the site it counts
    doc_per_site,  \* the documents of that site
    tnx_started    \* its transaction has begun

listVars  == <<Href, shrefs, dhrefs>>
tableVars == <<url, links>>
addVars   == <<todo, l, r>>
loopVars  == <<i, hostinfo, doc_per_site, tnx_started>>
vars      == <<listVars, tableVars, parsed, found, pc, doc, addVars, loopVars>>

\* An entry; referrer is only kept for links that are collected.
Entries == [url : Urls, referrer : Docs \cup {NoUrl}, stored : BOOLEAN, disallow : BOOLEAN]
Entry(u, d) == [url |-> u, referrer |-> IF CollectLinks THEN d ELSE NoUrl,
                stored |-> FALSE, disallow |-> FALSE]

Init ==
    /\ Href = [k \in 1..Len(StartHrefs) |-> Entry(StartHrefs[k], NoUrl)]
    /\ shrefs = 0 /\ dhrefs = 0
    /\ url = {} /\ links = {}
    /\ parsed = {} /\ found = {}
    /\ pc = "free" /\ doc = NoUrl /\ todo = <<>>
    /\ l = 1 /\ r = 0 /\ i = 1 /\ hostinfo = NoSite /\ doc_per_site = 0
    /\ tnx_started = 0

\* UDM_LOCK_CONF is released, the locals are forgotten.
Release ==
    /\ pc' = "free" /\ doc' = NoUrl /\ todo' = <<>>
    /\ l' = 1 /\ r' = 0 /\ i' = 1 /\ hostinfo' = NoSite /\ doc_per_site' = 0
    /\ tnx_started' = 0

-----------------------------------------------------------------------------
(* UdmIndexNextURL, from "flush:" on, and UdmDocStoreHrefs                 *)

\* UDM_URL_ACTION_LINKS_DELETE: the links a document had at its last crawl, or
\* that were stored since it handed in its "Location:", are deleted.
LinksDelete(d) ==
    /\ pc = "free"
    /\ CollectLinks
    /\ d \in url
    /\ links' = {e \in links : e[1] # d}
    /\ found' = {e \in found : e[1] # d}
    /\ UNCHANGED <<listVars, url, parsed, pc, doc, addVars, loopVars>>

\* A document hands in its links.

DocStoreHrefs(d) ==
    /\ pc = "free"
    /\ d \in url
    /\ Cardinality(parsed \cup {d}) <= Threads
    /\ parsed' = parsed \cup {d}
    /\ todo' \in LinkLists
    /\ pc' = "find" /\ doc' = d
    /\ l' = 1 /\ r' = shrefs
    /\ UNCHANGED <<listVars, tableVars, found, loopVars>>

\* Mutant: the comparison is the wrong way round.
BisectMutantOrder ==
    LET c == (l + r) \div 2 IN
    /\ pc = "find" /\ l <= r
    /\ Href[c].url # Head(todo)
    /\ IF Href[c].url > Head(todo) THEN l' = c + 1 /\ r' = r
                                   ELSE r' = c - 1 /\ l' = l
    /\ UNCHANGED <<listVars, tableVars, parsed, found, pc, doc, todo, loopVars>>

\* Mutant: l= c for l= c + 1.
BisectMutantStep ==
    LET c == (l + r) \div 2 IN
    /\ pc = "find" /\ l <= r
    /\ Href[c].url # Head(todo)
    /\ IF Href[c].url < Head(todo) THEN l' = c /\ r' = r
                                   ELSE r' = c - 1 /\ l' = l
    /\ UNCHANGED <<listVars, tableVars, parsed, found, pc, doc, todo, loopVars>>

\* UdmHrefListAdd: bisection of the sorted part, l=0;r=shrefs-1;while(l<=r)
Bisect ==
    LET c == (l + r) \div 2 IN
    /\ pc = "find" /\ l <= r
    /\ Href[c].url # Head(todo)
    /\ IF Href[c].url < Head(todo) THEN l' = c + 1 /\ r' = r
                                   ELSE r' = c - 1 /\ l' = l
    /\ UNCHANGED <<listVars, tableVars, parsed, found, pc, doc, todo, loopVars>>

\* On to the next link, or done.
NextLink ==
    /\ found' = IF CollectLinks THEN found \cup {<<doc, Head(todo)>>} ELSE found
    /\ \/ Tail(todo) = <<>> /\ Release
       \/ /\ Tail(todo) # <<>> /\ todo' = Tail(todo)
          /\ l' = 1 /\ r' = shrefs'
          /\ UNCHANGED <<pc, doc, loopVars>>
    /\ UNCHANGED <<tableVars, parsed>>

\* The link is known: its entry is overwritten and has to be stored again.
ReplaceHref(c) ==
    /\ Href[c].url = Head(todo)
    /\ Href' = [Href EXCEPT ![c] = Entry(Head(todo), doc)]
    /\ UNCHANGED <<shrefs, dhrefs>>
    /\ NextLink

FindSorted ==
    /\ pc = "find" /\ l <= r
    /\ ReplaceHref((l + r) \div 2)

FindUnsorted ==
    /\ pc = "find" /\ l > r
    /\ \E c \in shrefs + 1..Len(Href) : ReplaceHref(c)

\* What UdmSort makes of H: its entries in the order of their URLs.
Reorderings(n) ==
    {p \in [1..n -> 1..n] : /\ \A j, k \in 1..n : p[j] = p[k] => j = k
                            /\ \A j \in 1..n : \E k \in 1..n : p[k] = j}

Sorted(H) ==
    {[k \in 1..Len(H) |-> H[p[k]]] :
        p \in {q \in Reorderings(Len(H)) :
                 \A j, k \in 1..Len(H) : j < k => H[q[j]].url <= H[q[k]].url}}

\* Mutant: the unsorted tail is not searched.
AppendHrefMutantTail ==
    LET H == Append(Href, Entry(Head(todo), doc)) IN
    /\ pc = "find" /\ l > r
    /\ IF Len(H) - shrefs > RESORT_HREFS
       THEN Href' \in Sorted(H) /\ shrefs' = Len(H) /\ dhrefs' = 0
       ELSE Href' = H /\ UNCHANGED <<shrefs, dhrefs>>
    /\ NextLink

\* Mutant: dhrefs is not reset when the list is sorted.
AppendHrefMutantSort ==
    LET H == Append(Href, Entry(Head(todo), doc)) IN
    /\ pc = "find" /\ l > r
    /\ \A c \in shrefs + 1..Len(Href) : Href[c].url # Head(todo)
    /\ IF Len(H) - shrefs > RESORT_HREFS
       THEN Href' \in Sorted(H) /\ shrefs' = Len(H) /\ UNCHANGED dhrefs
       ELSE Href' = H /\ UNCHANGED <<shrefs, dhrefs>>
    /\ NextLink

\* The link is new; a tail that has grown too long is sorted in, and then no
\* entry counts as saved any more.
AppendHref ==
    LET H == Append(Href, Entry(Head(todo), doc)) IN
    /\ pc = "find" /\ l > r
    /\ \A c \in shrefs + 1..Len(Href) : Href[c].url # Head(todo)
    /\ IF Len(H) - shrefs > RESORT_HREFS
       THEN Href' \in Sorted(H) /\ shrefs' = Len(H) /\ dhrefs' = 0
       ELSE Href' = H /\ UNCHANGED <<shrefs, dhrefs>>
    /\ NextLink

-----------------------------------------------------------------------------
(* UdmStoreHrefs, for a thread that has document d in work or (NoUrl) that *)
(* is about to take a target.                                              *)

StoreHrefs(d) ==
    /\ pc = "free"
    /\ d \in parsed \cup {NoUrl}
    /\ doc' = d
    /\ pc' = "check"
    /\ UNCHANGED <<listVars, tableVars, parsed, found, addVars, loopVars>>

\* UdmDocPerSiteCached
Cached(s) ==
    Cardinality({k \in 1..Len(Href) : /\ Href[k].stored /\ ~Href[k].disallow
                                      /\ SiteOf[Href[k].url] = s})

\* UdmCheckDocPerSite: the entries of the cache, and if they are not enough
\* already, also the rows of the table.
DocPerSite(s) ==
    IF Cached(s) < MaxDocPerSite
    THEN Cached(s) + Cardinality({u \in url : SiteOf[u] = s})
    ELSE Cached(s)

\* UdmHrefsCheckDocPerSite: one turn of its loop.
CheckHref ==
    /\ pc = "check" /\ i <= Len(Href)
    /\ i' = i + 1
    /\ IF Href[i].stored \/ MaxDocPerSite = 0
       THEN UNCHANGED <<Href, hostinfo, doc_per_site>>
       ELSE LET s == SiteOf[Href[i].url]
                n == IF s = hostinfo THEN doc_per_site + 1 ELSE DocPerSite(s)
            IN  /\ hostinfo' = s
                /\ doc_per_site' = n
                /\ Href' = IF n > MaxDocPerSite
                           THEN [Href EXCEPT ![i].stored = TRUE, ![i].disallow = TRUE]
                           ELSE Href
    /\ UNCHANGED <<shrefs, dhrefs, tableVars, parsed, found, pc, doc, addVars, tnx_started>>

\* SELECT COUNT(*) fails: nothing is stored, the thread gives its document up.
CheckError ==
    /\ "dbError" \in Events
    /\ pc = "check" /\ i <= Len(Href)
    /\ ~Href[i].stored /\ MaxDocPerSite > 0 /\ SiteOf[Href[i].url] # hostinfo
    /\ Release
    /\ parsed' = parsed \ {doc}
    /\ UNCHANGED <<listVars, tableVars, found>>

CheckEnd ==
    /\ pc = "check" /\ i > Len(Href)
    /\ pc' = "store" /\ i' = 1 /\ hostinfo' = NoSite /\ doc_per_site' = 0
    /\ UNCHANGED <<listVars, tableVars, parsed, found, doc, addVars, tnx_started>>

\* Mutant: off by one.
NeedAddUrlMutant == i > dhrefs + 1

NeedAddUrl  == i > dhrefs
NeedAddLink == Href[i].referrer # NoUrl

\* Mutant: only a new URL gets its link.
AddLinkMutant(rows) ==
    links' = IF NeedAddUrl /\ NeedAddLink /\ Href[i].url # Href[i].referrer
             THEN links \cup {<<Href[i].referrer, Href[i].url>>} ELSE links

\* INSERT INTO links, for a URL that has a row and is not the document itself.
\* UdmAddLink returns UDM_OK whatever happens.
AddLink(rows) ==
    IF NeedAddLink /\ Href[i].url \in rows /\ Href[i].url # Href[i].referrer
    THEN \/ links' = links \cup {<<Href[i].referrer, Href[i].url>>}
         \/ "linkError" \in Events /\ links' = links
    ELSE links' = links

\* UdmStoreHrefsSQL: one turn of its loop.
StoreHref ==
    /\ pc = "store" /\ i <= Len(Href)
    /\ i' = i + 1
    /\ IF Href[i].stored THEN UNCHANGED <<Href, tableVars, tnx_started>>
       ELSE /\ Href' = [Href EXCEPT ![i].stored = TRUE]
            /\ tnx_started' = IF NeedAddUrl \/ NeedAddLink THEN 1 ELSE tnx_started
            /\ url' = IF NeedAddUrl THEN url \cup {Href[i].url} ELSE url
            /\ AddLink(url')
    /\ UNCHANGED <<shrefs, dhrefs, parsed, found, pc, doc, addVars, hostinfo, doc_per_site>>

\* Mutant: the list is freed, its counters are not reset.
StoreEndMutant(H) ==
    /\ Href' = IF Len(H) > MAXHSIZE THEN <<>> ELSE H
    /\ dhrefs' = Len(H)
    /\ UNCHANGED shrefs
    /\ parsed' = parsed \ {doc}
    /\ Release
    /\ UNCHANGED <<tableVars, found>>

\* ret: all entries count as saved; a list that has grown too long is freed.
StoreEnd(H) ==
    /\ IF Len(H) > MAXHSIZE
       THEN Href' = <<>> /\ shrefs' = 0 /\ dhrefs' = 0
       ELSE Href' = H /\ dhrefs' = Len(H) /\ UNCHANGED shrefs
    /\ parsed' = parsed \ {doc}
    /\ Release
    /\ UNCHANGED <<tableVars, found>>

StoreDone ==
    /\ pc = "store" /\ i > Len(Href)
    /\ StoreEnd(Href)

\* The INSERT INTO url fails, or the UdmSQLBegin before the first INSERT: goto
\* ret, with this entry marked stored and the later ones left as they are.
StoreError ==
    /\ "dbError" \in Events
    /\ pc = "store" /\ i <= Len(Href)
    /\ ~Href[i].stored
    /\ NeedAddUrl \/ (NeedAddLink /\ tnx_started = 0)
    /\ StoreEnd([Href EXCEPT ![i].stored = TRUE])

-----------------------------------------------------------------------------
(* The outside world                                                       *)

\* UdmDeleteURL, for a document that is gone or not allowed: its rows of links
\* go too, with it at either end.
DeleteRow(u) ==
    /\ "deleteRow" \in Events
    /\ pc = "free"
    /\ u \in url
    /\ url' = url \ {u}
    /\ links' = {e \in links : u \notin {e[1], e[2]}}
    /\ found' = {e \in found : u \notin {e[1], e[2]}}
    /\ UNCHANGED <<listVars, parsed, pc, doc, addVars, loopVars>>

\* The process ends or is killed, and another one starts.
Restart ==
    /\ "restart" \in Events
    /\ Href' = [k \in 1..Len(StartHrefs) |-> Entry(StartHrefs[k], NoUrl)]
    /\ shrefs' = 0 /\ dhrefs' = 0
    /\ parsed' = {} /\ found' = links
    /\ Release
    /\ UNCHANGED tableVars

Next ==
    \/ \E d \in Docs : LinksDelete(d) \/ DocStoreHrefs(d)
    \/ Bisect \/ FindSorted \/ FindUnsorted \/ AppendHref
    \/ \E d \in Docs \cup {NoUrl} : StoreHrefs(d)
    \/ CheckHref \/ CheckError \/ CheckEnd
    \/ StoreHref \/ StoreDone \/ StoreError
    \/ \E u \in Urls : DeleteRow(u)
    \/ Restart

Spec == Init /\ [][Next]_vars

\* Threads run: one that holds UDM_LOCK_CONF goes on, and when nobody holds
\* it some thread comes for it.
FairSpec == Spec /\ WF_vars(Next)

-----------------------------------------------------------------------------
(* Properties                                                              *)

TypeOK ==
    /\ Href \in Seq(Entries)
    /\ shrefs \in 0..Len(Href) /\ dhrefs \in 0..Len(Href)
    /\ url \subseteq Urls
    /\ links \subseteq Docs \X Urls
    /\ parsed \subseteq Docs
    /\ found \subseteq Docs \X Urls
    /\ pc \in {"free", "find", "check", "store"}
    /\ doc \in Docs \cup {NoUrl}
    /\ todo \in Seq(Urls)
    /\ pc = "find" => todo # <<>> /\ doc \in Docs
    /\ l \in Int /\ r \in Int /\ i \in Nat \ {0}
    /\ hostinfo \in Sites \cup {NoSite} /\ doc_per_site \in Nat
    /\ tnx_started \in {0, 1}

\* The list is a set: whatever the mix of known and new links, no URL has two
\* entries, and the part that is bisected is sorted.
ListInv ==
    /\ \A j, k \in 1..Len(Href) : Href[j].url = Href[k].url => j = k
    /\ \A j, k \in 1..shrefs : j < k => Href[j].url < Href[k].url

\* The bisection has not passed the link it looks for.
BisectInv ==
    pc = "find" =>
        /\ l \in 1..shrefs + 1 /\ r \in 0..shrefs
        /\ \A k \in 1..shrefs : Href[k].url = Head(todo) => l <= k /\ k <= r

\* An entry that counts as saved has a row, so that a link found again may be
\* left out of table url.
SavedHaveRows ==
    \A k \in 1..dhrefs : Href[k].url \in url

\* Every link handed in since the links of its document were deleted is in
\* table links or waits for it.
LinksKept ==
    CollectLinks =>
        \A d \in Docs, u \in Urls :
            <<d, u>> \in found /\ d # u
            => \/ <<d, u>> \in links
               \/ \E k \in 1..Len(Href) : Href[k] = Entry(u, d)

RowsOf(s) == Cardinality({u \in url : SiteOf[u] = s})

\* The upper bound of cmdref.xml's "the actual number of documents per site
\* may vary between number and 2*number".
AtMostTwice ==
    MaxDocPerSite > 0 => \A s \in Sites : RowsOf(s) <= 2 * MaxDocPerSite

\* UDM_LOCK_CONF is always released again: the bisection and the loops end,
\* whatever the list looks like when they start.
LockReleased == []<>(pc = "free")

\* The abstract specification: a set of links to save and a set of rows.
Unsaved == {Href[k].url : k \in {m \in 1..Len(Href) : ~Href[m].stored}}
StartUrls == {StartHrefs[k] : k \in 1..Len(StartHrefs)}
LinkSet == INSTANCE LinkSet WITH pending <- Unsaved, rows <- url
ImplementsLinkSet == LinkSet!Spec
=============================================================================
