# mnoGoSearch and its TYPO3 extension in TLA+

This directory holds TLA+ models of mnoGoSearch (`mnogosearch-sources/`): its
crawler, what the crawler writes into the database, and how a search finds it
again, and of the part of the TYPO3 extension (`typo3-extension/`) that feeds it, the TLC
configurations that check the models on small instances, and TLAPS proofs of the most
important results for every instance. `PROJECT.json` lists the components, the runs, the mutants that show what
each property detects, the map from definitions to source lines, the findings,
the hazards and the theorems.

Paths below are relative to the repository; C files without a directory are in
`mnogosearch-sources/src/`.

## 1. The system

| Part | State | Operations | Interacts with |
|---|---|---|---|
| Crawler threads (`main.c`, `indexer.c` `thread_main`) | `total_threads`, `sleep_threads`, signal flags, each thread's `res`, `i_sleep`, `Indexer->action` | create and join threads, take a document, sleep or leave, terminate on a signal or a time limit | everything below, under `UDM_LOCK_THREAD` and `UDM_LOCK_CONF` |
| Target selection (`UdmNextTarget`, `db.c` `UdmTargets`, `sql.c` `UdmTargetsSQL`) | `Conf->Targets`, `Conf->url_number`; column `next_index_time` | select due rows, lease them for 4 hours, hand them to threads | the same table from other `indexer` processes |
| Document cycle (`UdmIndexNextURL`, `DocUpdate`) | the document in work | check filters, resolve, robots.txt, download, parse, store links, update or delete the row | link cache, host cache, robots table, word cache, tables |
| Link cache (`hrefs.c`, `UdmStoreHrefs`, `UdmStoreHrefsSQL`) | the list `Conf->Hrefs` with `shrefs`, `dhrefs`; tables `url`, `links` | add a link (bisection, tail, re-sort), check `MaxDocPerSite`, insert rows, free the list | all threads of a process |
| Host cache (`host.c`) | 128 hosts with `net_errors`, `last_used` | look up, count errors, evict | all threads; `MaxNetErrors`, `CrawlDelay` |
| Robots and sitemaps (`robots.c`, `sitemap.c`, `UdmRobotsCheck`) | rules per host | fetch once per host, check | a lock chosen by a hash of the host |
| Document tables (`sql.c`, `db.c`) | `url`, `urlinfo`, dictionaries, cross words | update by one of six URL actions, clone detection, delete, delete bad links | every process; the word cache |
| Word cache (`wordcache.c`, `dbmode-multi.c`) | words and URLs to be written | add, write above a limit, flush at a thread's end | tables `dict00`.., `UDM_LOCK_CONF` |
| Inverted index, DBMode blob (`dbmode-blob.c`, `dbmode-rawblob.c`, `urldata.c`) | `bdicti` with a state per row, `bdict`, `bdict_tmp`, `#rec_id` | write words, convert, switch tables, delete | searches and indexers that run at the same time, through table locks |
| Searching (`search.c`, `searchtool.c`, `score.c`, `boolean.c`, `urlidlist.c`, `groupby.c`, caches, `httpd.c`) | none but result caches | parse the query, find, limit, evaluate, score, group, cache | inverted index |
| TYPO3 hook (`class.tx_mnogosearch_tcemain.php`) | table `tx_mnogosearch_urllog` | log the URL of a changed page or record | the command line tool, through the table |
| TYPO3 command line tool (`class.tx_mnogosearch_climain.php` and others) | its URL list | read configurations, run the indexer, take URLs out of the log, run the indexer on them | the log; `indexer` as a child process |

Parsers, transport, character sets, drivers, templates and the TYPO3 plugin are
sequential code without shared state. `PROJECT.json` lists them with the reason
why they are not modelled.

What makes this system hard:

* **The lease is a timestamp.** A row in work looks like a row that is due later.
  Nothing says who has it, whether he is alive, or that he still needs it.
* **Termination is distributed.** A thread without a target cannot know whether a
  busy thread will find links; the counters have to tell, while threads are
  still being created, fail, exit, or are told to terminate.
* **An update is many statements.** `DocUpdate` deletes words, updates the row and
  its sections and adds words, one statement each and on MySQL without a transaction,
  and with DBMode multi the words come much later, from a cache of the process.
* **The search index is two tables.** A live update search adds what `bdicti` has to
  what `bdict` has and takes away what is out of date, while a conversion moves rows
  from the one to the other and its locks leave a gap.
* **The tables of hosts and of robots.txt** are read, then left for a name lookup or
  a download, then written, under locks that many hosts share.
* **A query is optimised before it is evaluated**: operators are added, the list may
  be dropped, and documents are skipped that cannot match; each has to agree with what
  the query means.
* **The link cache is an optimistic set** with three cursors into an array that is
  permuted and freed. An error in the middle moves a cursor anyway.
* **The URL log is a queue without an owner.** Editors append, overlapping runs
  remove, and what is removed is only in a file between `COMMIT` and the end of a
  child process whose exit status is ignored.

What makes each part correct: a URL is crawled by one thread at a time; a process
leases no more than it will index; a crawl that ends has crawled what it knew;
every process ends and obeys signals; every link found gets a row; the cache's
fast search agrees with a plain set; no change an editor saves is forgotten; a
document's words are those of the content its row names; a robots.txt is fetched once
and obeyed; a dead host is left alone after `MaxNetErrors`; a search finds a
document's present words, once, and no others; and a query matches what it says.

## 2. The modules

| Module | Models | Extends |
|---|---|---|
| `Crawler` | processes, threads, leases, the document cycle | |
| `HrefCache` | the link cache, step by step, with the database failing anywhere | |
| `LeasedQueue` | what the selection of targets promises: a queue from which URLs are taken in one step | |
| `LinkSet` | what the link cache promises: a set of links to save | |
| `UrlLog` | hook, log, command line tool, indexer child process | |
| `UrlStore` | `DocUpdate` statement by statement, the word cache, DBMode multi and single | |
| `Fetch` | host lookups, `MaxNetErrors`, robots.txt, the request for a document | |
| `BlobIndex` | DBMode blob: indexers, conversions and live update searches on `bdicti` and `bdict` | |
| `BoolQuery` | from the tokens of a query to the documents that match | |
| `BoolMeaning` | what a query means, the reference for `BoolQuery` | `BoolQuery` |
| `MCCrawler`, `MCHrefCache`, `MCUrlLog`, `MCUrlStore`, `MCFetch`, `MCBlobIndex`, `MCBoolQuery` | small instances for TLC | the above |
| `CrawlerProofs`, `HrefCacheProofs`, `UrlLogProofs`, `UrlStoreProofs`, `FetchProofs`, `BlobIndexProofs`, `BoolQueryProofs` | theorems | the above, `TLAPS` |
| `Induction` | induction and recursion over natural numbers, for `FetchProofs` and `BoolQueryProofs` | `WellFoundedInduction`, `TLAPS` |

The modules meet where the code's functions call each other. `Crawler` decides which
thread works on which URL and calls the rest in its steps `store`, `fetch`, `parse`
and `update`. `HrefCache` is what stands behind its set `hrefs`, `Fetch` what
happens in `fetch`, `UrlStore` and, in DBMode blob, the indexers of `BlobIndex` what
happens in `update`. Each assumes of the others what their modules show: no URL
is with two threads (`NoDoubleCrawl`), so `UrlStore`, `Fetch` and `BlobIndex` give a
thread any document nobody else has. `BoolQuery` begins where `BlobIndex`'s
`LiveSearch` ends: at the words that were found in a document.

### Crawler

A row's time is kept as the one thing the code asks of it: `"none"` (no row),
`"due"` (`next_index_time <= now`) or `"later"`. `pc` follows a thread through one
turn of `thread_main`: `top` (signals), `store` (`UdmStoreHrefs`), `check`
(`Indexer->action`), `next` (`UdmNextTarget`), `mark` (between SELECT and UPDATE),
`fetch`, `parse`, `store2` (links of the document), `update` (`DocUpdate`),
`result` (`rc= Indexer->action`), `switch` (the switch on `res`), `test`
(`sleep_threads >= total_threads`), `fin` and `dead`.

A critical section of `UDM_LOCK_THREAD` or `UDM_LOCK_CONF` is one action.
The reload of targets is one action when `LOCK TABLES` is taken
(`NextTargetLoad`) and two with `URLSelectSkipLock` (`NextTargetSelect`,
`NextTargetMark`), during which the process's locks are held (`lockOwner`).
`thread_main`'s two critical sections that count a sleeper and then compare the
counters are two actions, because another thread may come between them.
`CreateThread` and `CountThread` are two actions, because the new thread runs
before `total_threads= i + 1` counts it.

What the code decides from data the model does not have is a choice: a document is
skipped with its row deleted or rescheduled, or downloaded; an answer has its
links or none. What an entry of the link cache goes through is left to
`HrefCache`; here `hrefs` is the set of entries that are not stored yet, and
`StoreHrefsError` allows what `HrefCache` does under a fault.

With `HoldBadHrefs`, which the TYPO3 extension sets (`configgenerator.php:179`), the update
or deletion of a document also deletes other rows: those found on it that have been bad for long
(`UdmDeleteBadHrefs`, `sql.c:3304-3338`), whoever has them. `bad` are the rows with such a
status, and `BadHrefs` leaves open how long they have it. Whoever had a deleted row goes on with
the URL, but the row that may be inserted for it later is another one, with another `rec_id`: `gone`
are the URLs in `Targets` (or between SELECT and UPDATE) whose row has been deleted, `docGone` says
it of the document a thread works on, and `OwnRow` is what an UPDATE by `rec_id` still finds.

Two failures are not seen by the thread they happen to. A failing BEGIN or COMMIT of
`UdmStoreHrefsSQL` leaves `rc` at `UDM_OK` (`StoreHrefsUnseen`; `sql.c:3582`, `sql.c:3607`); and when
the SELECT for targets fails under `LOCK TABLES`, UNLOCK TABLES overwrites its `rc`, so that
`UdmNextTarget` finds nothing and returns `UDM_NOTARGET` (`NextTargetError`; `sql.c:3200`).
The history `unseen` remembers that a process has had one; no action reads it.

The faults and outside events are the members of `Events`:

| Event | Meaning |
|---|---|
| `dbError` | a statement other than the leasing UPDATE fails, whether the code returns the error or not |
| `markError` | the leasing UPDATE fails; `rc` is then overwritten (`sql.c:3200`) |
| `docError` | a document is given up without an update |
| `crash` | the process is killed |
| `signal` | SIGINT or SIGTERM |
| `timeUp` | `indexer -c` |
| `expire` | `indexer -a`: rows become due whoever has leased them |
| `periodElapses` | the time of a row nobody holds passes |
| `leaseElapses` | the 4 hours pass for a row somebody holds |

`LeasedQueue` is what this amounts to for who has which URL. Its `Take` selects URLs that
are due and takes them in one step, `TakeWaiting` gives one of them to a thread, and
`Done`, `GiveUp` and `Kill` end the work on it, and only URLs that nobody has taken become
due. `Done` may delete rows, and who has taken one of them has it no more.
There is no lease and no lock. `ImplementsQueue` says that the crawler does nothing
else with `row <- next_index_time`, `waiting <- Waiting`, `work <- Work` (`targets` and `doc` as far
as their rows are there): that a batch is lost or overwritten, or given out twice, that the update of
a deleted row hits the one that replaced it, or that SELECT and UPDATE let
something in between them, would each be a step `LeasedQueue` does not have.

### HrefCache and LinkSet

`Href`, `shrefs` and `dhrefs` are the list's array and cursors, indexed from 1, so
that an entry `k` counts as saved iff `k <= dhrefs`. `pc` says what the holder of
`UDM_LOCK_CONF` is doing: `find` (`UdmHrefListAdd`, one step for each turn of
the bisection), `check` (`UdmHrefsCheckDocPerSite`) and `store`
(`UdmStoreHrefsSQL`), one step for each entry, so that every statement can fail on
its own. `parsed` are documents between `UdmDocStoreHrefs` and
`UdmStoreHrefs`, two critical sections of a thread; up to `Threads` documents
are there at a time. `found` is a history variable: the pairs of a document and a
link handed in since the document's links were last deleted.

`LinkSet` has two variables and two actions: a link that is found becomes pending
whether it is known or not; a pending link gets a row and is pending no more.
The refinement maps `pending` to the URLs of entries that are not stored and
`rows` to table `url`. It says that the cursors are an optimisation: skipping the
INSERT of an entry below `dhrefs` is a `Save` of a URL that has its row.

### UrlLog

`urllog` holds rows with a uid; `todo` and `missing` are the request of an editor
between the lookup in the log and the INSERT; `pc`, `rows`, `deleted` and
`content` are a run of the tool: `index` (`indexer -r`), `take`
(`generateURLListFile`), `exec` (`indexURLs`). `Transactional` tells
whether the table's engine undoes deletes, as `ROLLBACK` assumes.
`stale` is the history variable the properties are about: the URLs that were
changed since the index last fetched them.

TCEmain itself, the configuration records and the crawl of the child process are
external: a save writes the page and then calls the hook; the child fetches
the URLs of its list one by one and may fail at any of them.

### UrlStore

The tables keep of each document what tells versions apart: `status`, `crc`, `bad`
and `referrer` of its row, `info` (the contents `urlinfo` has the sections of) and
`dict` (the contents whose words the index has). A content is its crc32. `urls` and
`words` are the two lists of a process's word cache: whose words the next write
deletes, and what it adds. `lock` is `UDM_LOCK_CONF`.

`DocUpdate` is the decision of `db.c`: from the answer to a URL action (`method`)
and its first statement. Then each SQL statement is an action, in the order of the
handlers of `sql.c`: `DeleteWords`, `InsertWords` or `CacheWords`, `UpdateUrl` or
`UpdateUrlWithLang`, `DeleteBadHrefs` (its SELECT) and `DeleteHref` for each row it found
(`hrefs`), `DeleteInfo`, `InsertInfo`, `DeleteRow`, `ClearReferrer`, and for
a write of the cache `WriteDelete` and `WriteInsert`. `DeleteInfo` is left out when the row's status
was 0, so `InsertInfo` may add sections to old ones. `Done` releases the lock. `Fail` is
a failing statement with the early return that follows it, `Kill` the end of a process,
`Restart` its next run, `HoldElapses` and `AddUrl` what else happens to rows. `stale` is a
history variable: the documents a fault has hit, or one of the known
divergences of section 5, and that no later visit has written; `reset` is another, of documents
that were indexed and whose status a broken answer has set to 0, until their old sections are
deleted. A URL that is added again after its row was deleted has no words or sections, because its
`rec_id` is new.

### Fetch

`table` is `Conf->Hosts`, sorted and bisected as the code does it; `UdmSort` may put equal
names in any order. `robots` is `Conf->Robots` reduced to what a document asks of it.
`pc` follows a thread through `UdmIndexNextURL`: `lookup` and `resolve`
(`UdmHostLookup2`'s critical section and the name lookup outside of it), `robots`
(`UdmRobotsCheck`), `robotLookup`, `robotResolve` and `robotGet`
(`UdmGetAndParseRobotFile` under `UDM_LOCK_ROBOT`), `rules`, `get` and `update` (what
`DocUpdate` does for the host). `fetched`, `hidden`, `refused`, `attempts` and `doubled` are histories
for the properties. The resolver and the hosts are external. A request for a robots.txt may fail
or be answered with 500 and above (`RobotDown`), with 200, which shows the rules, or with any other
status, such as 301, 401 or 403, for which the code stores empty rules (the second half of
`RobotAnswers`): then the host is `hidden`.

### BlobIndex

`bdicti` holds rows of a document with `state` 0 (deleted, the index still has it),
1 (new) or 2 (converted). `bdict` and `tmp` are the search index and the one that is being
written: words with the content they were seen in, and the ids of `#rec_id`.
`pc` is the statement of an indexer (`deleteNew`, `markOld`, `insert`, `deleteRow`), `conv` the
step of `indexer -Eblob`: `table`, `words` (one column of `bdicti` after the other, under
LOCK TABLES READ), `gap` (no lock), `deleteOld` and `markConverted` (LOCK TABLES WRITE),
`urlData`, `drop` and `rename`. A search is no action but an operator, `LiveSearch`, that
every state can be asked: it reads `bdict` under the limits and the deleted documents and
`bdicti` under the limits. `Merge`, `Join`, `Union` and `Copy` are the functions of
`urlidlist.c`.

### BoolQuery

A query is typed token by token (`UdmStackItemListAdd...`), then `Search` completes
the list of items (`UdmStackItemListCopy`), may drop it, and judges one document that
has some of its words: `OptimizeUsingAND`, `TooFar`, `Counted` with phrases
(`CheckOnePhrase`), and the stack machine `CalcBoolItems`. The loops over a list are recursive
functions of the number of turns. `BoolMeaning` has the reference: `Means`, the query as a
formula over the text. It gives every part of a query, from item `i` to item `j`, a meaning from
the meanings of shorter parts (`PartMeans`), from its last operator inwards, without a stack and
without completing anything; `PhraseIn` says of a phrase where it stands in the text, without
coordinates.

## 3. Runs and what they show

| Run | Instance | Result |
|---|---|---|
| `CrawlerThreads` | 1 process, 3 threads, 3 URLs of which one links to the others and one of these back, cache of 2 rows, `URLSelectSkipLock`, `HoldBadHrefs`; database and document errors, time limit, `-a` | 1.2 million states: `TypeOK`, `LockInv`, `LeaseInv`, `WorkInv`, `NothingLeftBehind`, `ImplementsQueue` hold |
| `CrawlerProcs` | 2 processes of one thread, 2 URLs that link to each other, `-n 3`, cache of 2 rows, `LOCK TABLES`, `HoldBadHrefs`; errors, crashes, rows that come due | 4.1 million states: `NoDoubleCrawl`, `LeasesWithinLimit`, `ImplementsQueue` hold |
| `CrawlerEnds` | 1 process, 2 threads, 2 URLs, `LOCK TABLES`, `HoldBadHrefs`; errors, failing UPDATE, signals, leases that elapse | 772 thousand states: `EveryProcessEnds`, `SignalEndsProcess` hold under fairness |
| `HrefList` | 4 URLs of 2 sites, lists of 1 or 2 links, `RESORT_HREFS` 1, `MAXHSIZE` 2, `MaxDocPerSite` 1, every fault | 2.2 million states: `TypeOK`, `ListInv`, `BisectInv` hold |
| `HrefSet` | 3 URLs, 2 documents, one at a time, no fault | `SavedHaveRows`, `LinksKept`, `ImplementsLinkSet`, `LockReleased` hold |
| `UrlLogKept` | 2 editors, 2 overlapping runs, 2 pages and a record, 2 saves; failing file, failing indexer, kills | 100 thousand states: `TypeOK`, `ChangeKept`, `TakenInv`, `EveryChangeIndexed` hold |
| `UrlStore` | 1 process, 2 threads, 2 documents of which one was found on the other, 2 contents, DBMode single and multi, `DetectClones`, `HoldBadHrefs`, every outcome, 1 failure or kill, 3 updates | 735 thousand states: `TypeOK`, `WordsFresh`, `InfoMatchesWords`, `LockReleased` hold |
| `UrlStoreClones` | the same without faults and other answers, DBMode multi, 4 updates | `OneOfGroupIndexed` is violated |
| `Fetch` | 2 threads, 3 hosts (one numeric, one with rules, one with `Robots no`), a table of 2, one robots lock, `MaxNetErrors` 1, 3 documents | 589 thousand states: `TypeOK`, `RobotsOnce`, `RobotsObeyed`, `StopsAfterMax`, `EveryDocEnds` hold |
| `BlobIndex` | 1 indexer, 2 documents, 3 contents, 2 columns, 2 updates, 1 failure or kill; 7 limits | 433 thousand states: `TypeOK`, `OneRowCounts`, `LiveSearchFindsCurrent`, `GroupedFindsConverted`, `IndexConverges` hold |
| `BlobExclude` | no faults, a search that excludes a document | `LiveSearchFindsCurrent` is violated |
| `BoolQuery` | 2 words, 3 modes, queries up to 6 tokens, texts up to 3 words | 826 thousand states: `TypeOK`, `MatchesMeaning`, `StackBalanced` hold |

Reading the violations:

* **`UrlStoreClones`**: `UdmFindOrigin` takes the row with the smallest `rec_id` that has the
  crc32, whether that document has words or not. Document 2 is indexed; document 1
  gets the same content, is a clone of 2 and has no words; at the next visit of 2 the
  origin is 1, so 2 becomes a clone of 1 and its words are deleted (`sql.c:2790`,
  `db.c:275-290`). Neither is found any more, until the content of one changes.
* **`BlobExclude`**: `UdmURLIdListMerge` unites two excluding lists and then goes on to
  `UdmURLIdListJoin` (`urlidlist.c:113`), which for two excluding lists takes the one
  without the other: with an excluding limit and `LiveUpdates`, the limit without the deleted
  documents. In the run the limit excludes document 1, which is being updated, so what is left is
  empty and marked so (`urlidlist.c:72-73`), and `bdict` is not searched at all
  (`dbmode-blob.c:2674-2679`): document 2, which the limit does not cover, is not found. When the
  limit covers other documents than the deleted ones, these drop out of the list instead, and their old
  words are found next to the new ones.

### Bounds

Every bound is a constant of the module or a number of elements. They are chosen so
that the case a property is about happens:

* two processes are enough for a double crawl, as the leases do not know
  who holds them; two URLs that link to each other let one process delete a row the other has in work
  or in `Targets`, find the link again and take the new row; three threads are needed so that
  two can sleep or leave while a third works and another is created;
* `URLSelectCacheSize` 2 below `-n 3`, with rows that come due again, makes a second, smaller
  batch; a cache of 1 would never leave a row waiting in `Targets`, and neither would
  `CrawlerThreads` if its first document had one link only;
* `RESORT_HREFS` 1 and `MAXHSIZE` 2 or 3 instead of 256 and 4092 make the
  list be sorted and freed within a few links; the theorems hold for every value;
* `MaxSaves` 2 with two editors and two runs gives a duplicate row, a save between
  SELECT and COMMIT of one run and a list taken by another;
* `UpdatesMax` 3 with two documents gives one of them a second visit, in which it is a
  clone, unchanged, changed or gone; `CacheLimit` 1 makes a write of the word cache
  happen within an update as well as at a flush. The theorems of section 4 hold for
  every number of updates, threads and processes;
* a table of 2 hosts for 3 makes it evict, a second thread makes an entry be added twice,
  and a single robots lock makes hosts share it; `MaxNetErrors` 1 is reached at once;
* in `BlobIndex` one indexer meets a conversion between any two statements of both, and
  2 updates change a document again that was touched in the gap; more indexers have
  documents of their own, which the theorems of `BlobIndexProofs` cover. The first
  content has every word, the second lacks one, the third has none;
* six tokens are the least for a bracket or a phrase of two words with an operator on
  one side and a NOT or another word; three places in a text tell a phrase from its
  words in another order or with a gap.

`ThreadSymmetry` is used in `CrawlerThreads` and `Exchange`, of the two words, in
`BoolQuery`: their properties are invariants or, as `ImplementsQueue`, about single steps, and
neither module nor configuration names a thread or a word.

Deadlock is checked where the system does not stop: in the runs of `Crawler` (a crawl that has
come to its end repeats `Finished`), `HrefCache`, `UrlLog` and in `BlobIndex`, where conversions
are started again and again. `UrlStore`, `Fetch`, `BlobExclude` and `BoolQuery` stop at a bound on
documents or after a search, so `CHECK_DEADLOCK` is `FALSE` there; that no thread waits
for ever is what `LockReleased` and `EveryDocEnds` say.

### Fairness

* `Crawler`: the operating system runs each thread, and the main thread that
  creates them (`WF` on `CreateThread`, `ThreadStep`, `StartCrawl`, `CountThread`).
  No fault, signal, or passing of time is fair, and neither is `indexer -c`.
  A mutex is granted in the end because its holders release it after finitely
  many steps; `ThreadStep` is enabled as soon as the lock is free, and
  the two-action section of `NextTargetSelect` does not appear in the liveness run.
* `HrefCache`: `WF` on `Next`: the holder of the lock goes on.
* `UrlLog`: a request runs to its end, and cron starts the tool again
  (`WF` on `Hook` and `Step`). Editors need not save.
* `UrlStore`: `WF` on `Statement(t)`: a thread inside an update executes its statements,
  each of which succeeds or fails. Threads need not begin an update.
* `Fetch`: `WF` on `Step(t)`: each thread goes on. A thread that waits for a robots lock
  needs no strong fairness in the instance because documents are bounded.
* `BlobIndex`: `WF` on `StartConversion` (cron starts `indexer -Eblob`) and
  `ConversionStep`, `SF` on `IndexerStep(i)`: statements of the indexer are blocked again
  and again by the table locks of conversions, and MySQL grants waiting
  statements in the end. Neither faults nor updates are fair.
* `BoolQuery` has safety properties only.

`EveryProcessEnds` has one way out: URLs that come due for ever, that are never
leased because the UPDATE fails every time, or whose rows `UdmDeleteBadHrefs` deletes again and
again, so that a link found again gets a new row that is due. `EveryChangeIndexed` has two: an indexer
that fails after `COMMIT` loses the change, and a tool that is killed or
cannot write its file in every single run gets nowhere. `IndexConverges` excuses a
database that has lost `bdict` between DROP and RENAME (section 5) and documents
whose update was cut off.

## 4. Proofs

`TLAPS` proves the following for all values of the constants that meet the
modules' `ASSUME`s. TLC evaluates those on every run.

| Theorem | Statement | Further assumptions |
|---|---|---|
| `CrawlerTypeOK` | `Spec => [](TypeOK /\ LockInv)` | none |
| `CrawlerLeases` | `Spec => []LeaseInv` | `LeasesKept`, `LocksTaken` |
| `CrawlerNoDoubleCrawl` | `Spec => []NoDoubleCrawl` | `LeasesKept`, `LocksTaken` |
| `CrawlerImplementsQueue` | `Spec => ImplementsQueue` | `LeasesKept`, `LocksTaken` |
| `CrawlerLeasesWithinLimit` | `Spec => []LeasesWithinLimit` | none |
| `CrawlerWork` | `Spec => []WorkInv` | `OnePass` |
| `CrawlerNothingLeftBehind` | `Spec => []NothingLeftBehind` | `OnePass` |
| `HrefCacheList` | `Spec => [](TypeOK /\ ListInv /\ BisectInv)` | none |
| `HrefCacheSaved` | `Spec => []SavedHaveRows` | `RowsStay` |
| `HrefCacheLinkSet` | `Spec => ImplementsLinkSet` | `RowsStay`, no restart |
| `HrefCacheLinksKept` | `Spec => []LinksKept` | `LinksStay` |
| `UrlLogType` | `Spec => []TypeOK` | none |
| `UrlLogChangeKept` | `Spec => [](TakenInv /\ ChangeKept)` | no dry runs |
| `UrlStoreType` | `Spec => []TypeOK` | none |
| `UrlStoreWordsFresh` | `Spec => []WordsFresh` | none |
| `UrlStoreInfoMatchesWords` | `Spec => []InfoMatchesWords` | none |
| `FetchType` | `Spec => []TypeOK` | none |
| `FetchRobotsOnce` | `Spec => []RobotsOnce` | none |
| `FetchRobotsObeyed` | `Spec => []RobotsObeyed` | none |
| `FetchStopsAfterMax` | `Spec => []StopsAfterMax` | none |
| `HostFindCorrect` | on a sorted table `HostFind(h)` is an entry of `h`, or 0 if there is none | none |
| `BlobType` | `Spec => []TypeOK` | none |
| `BlobOneRowCounts` | `Spec => []OneRowCounts` | none |
| `BlobLiveSearch` | `Spec => []LiveSearchFindsCurrent` | `QueriesInclude` |
| `BlobGrouped` | `Spec => []GroupedFindsConverted` | `QueriesInclude` |
| `BoolType` | `Spec => []TypeOK` | none |
| `BoolStackBalanced` | `Spec => []StackBalanced` | none |
| `BoolMatchesMeaning` | `Spec => []MatchesMeaning` | none |

The assumptions are where the code stops promising:

* `LeasesKept`: no document waits or works longer than its lease, and the leasing
  UPDATE does not fail. The code neither renews a lease nor looks at that `rc`.
* `LocksTaken`: with several processes, neither `URLSelectSkipLock` nor
  `indexer -a`. The documentation of `URLSelectSkipLock` says as much; nothing says
  so of `-a`.
* `OnePass`: rows do not come due again by themselves. Otherwise one can come
  due after the last thread has looked. The property itself excepts a process with an error that
  was returned as `UDM_OK` or `UDM_NOTARGET` (`unseen`): links or due rows do stay behind then.
* `RowsStay`: no INSERT fails, no row is deleted, `MaxDocPerSite` is 0 (an entry it
  refuses counts as stored and has no row).
* `LinksStay`: `RowsStay`, no statement on the table of links fails, and the process has one
  thread: with two, a second document's links overwrite the referrer of the first one's
  (section 5).
* `QueriesInclude`: a limit `fl=-name` comes with a WHERE limit. Alone it meets the list of
  deleted documents in a merge that goes wrong, which the run `BlobExclude` shows.
* no dry runs: they take changes out of the log and index nothing (section 5).

The arguments:

* **No double crawling** is not inductive. A thread that takes a row must know
  that nobody else has it, and the row does not say so. `LeaseInv` adds that
  every row in use says `"later"`, so that no SELECT returns it, and that
  rows between SELECT and UPDATE are `"due"`, hence in nobody's hands. A row that
  `UdmDeleteBadHrefs` deletes is in nobody's hands from then on, which is why the statement is
  about rows: the URL may be in two hands afterwards, with its old and its new row. Without
  `HoldBadHrefs` no row in use is deleted, and the theorem says so. `LockInv`
  adds that only the owner of the locks is between the two, which is what makes a
  single process safe with `URLSelectSkipLock`.
* **The implementation of LeasedQueue** maps each step, by `LeaseInv`: `NextTargetLoad` and
  `NextTargetMark` are `Take`, because rows that are due, or between SELECT and UPDATE, are
  nobody's, and, by `LockInv`, nothing waits in `Targets` then; the SELECT alone is a stutter.
  New rows are nobody's either, since only URLs without a row get one. `UpdateDocument` is `Done`
  because its row still says `"later"` or is gone, and with the rows it deletes who had them
  loses them. `indexer -a` needs `LocksTaken`: the rows it makes due are nobody's only while no other process is at work.
* **Leases within the limit** needs `LockInv` too: `url_number > 0` was tested before
  the SELECT and must still hold at the UPDATE.
* **Nothing is left behind** says something of the last state only. `WorkInv` says
  why: while anything is due or cached, some thread has still to
  look; while links wait in the cache, some thread is on its way to
  `UdmStoreHrefs` or has failed, as long as no error was `unseen`. Note that it does not mention the counters:
  a thread that leaves too early (section 5) does no harm, because the
  thread with the document is not finished before it has looked again.
* **The list**: `BisectInv` says that the link, if it is in the sorted part, is
  between `l` and `r`. It is what makes `AppendHref` append a new URL only.
  `SortedFacts` shows that sorting keeps the set of entries.
* **The implementation of LinkSet** uses `SavedInv`: entries that are stored have
  rows, and the loop leaves only stored ones behind. A step of the loop
  is then `Save` or a stutter, and freeing the list loses nothing that is pending.
* **Links are kept** between a document's links and their rows. `LinkInv` says where each is in
  the meantime: an entry of the document's own that waits to be stored (`Waits`, `Owned`),
  in the loop of `UdmStoreHrefs`, or a row. One document at a time makes the referrer of an
  entry the document that is in work.
* **Changes are kept** with `TakenInv`: a run deletes the rows it has read and no
  others because uids are not used twice, and what its transaction has
  deleted is in its list. So a URL whose row goes away is with a run that will
  fetch it after the change was saved.
* **Words are fresh** is about documents nobody works on; in the middle of an update it
  is false. `FreshInv` says what is known between every two statements: of the document
  in work (`DocOK`) that nothing has changed yet (`Early`), that its words have
  been deleted (`Cleared`), that the words to be are those of the new content while
  the row still has the old (`Half`), or that row and words agree again
  (`Late`); of the thread (`StepOK`) which mode it is in and what its last statement left
  behind; of the caches (`CacheOK`) that a document waits in one of them at most; and of
  all other documents (`RestOK`) that their words are settled and shown. The lemmas are
  one for each statement. `Frame` shows that a statement leaves other documents
  alone.
* **Sections match the words**: that a settled document is shown with those of its words and
  no others is part of `FreshInv` (`Shown`). What it needs is that `InsertInfo` adds to nothing.
  A second induction beside it, `InfoInv`, says that there are no sections (`Empty`) of a document
  whose row says 0, unless it is `reset`, nor any in an update that deletes none
  because it takes the document for a new one, or has deleted them (`Unfilled`).
* **One robots.txt**: `Known` says that a thread that is about to ask for a robots.txt asks for
  one that has not been answered, that every answered one has an entry, and that
  an entry without rules of a host all of whose documents have `Robots` is the host's own
  answer, or the host is `hidden`. The request is made once because two threads in it would hold the
  same lock: `ThreadOK`, part of the type invariant, says that a thread holds its lock
  exactly while it asks.
* **Requests to a dead host end** because of `Bounded`. Of the entry of a host it says
  that its `errors`, with the threads that have passed the check for too many errors or wait for
  `DocUpdate` with a refused request (`Underway`), leave room below
  `MaxNetErrors + |Threads|`, and that failures are counted by `errors` or by those that wait
  (`Uncounted`). A thread is added to `Underway` only below `MaxNetErrors`; after that it
  moves from one count to the other. Two facts carry it: `HostFind` finds the entry
  that is counted (`HostFindCorrect`), and the sort after an eviction moves the entries of other hosts without
  losing or doubling them (`SortedMoves`, `AddEntries`).
* **`UdmHostFind`** is proved for tables of every size, by induction over the size of the range
  that is left: `Probe` is a turn of its loop, `BisectExists` shows that the loop defines
  a function, `BisectFinds` what that function returns. Module `Induction` has the
  principle in a form that needs no operator parameter: a set of natural numbers with
  0 and all successors has them all (`SetInduction`), from the least element of a set.
* **One row counts**: two rows of a document are a deleted and a new one
  (`Pairs`), and what an indexer has deleted does not come back before it inserts
  (`Cleared`). The conversion turns new rows into converted ones only after the deleted ones
  are gone, under the WRITE lock, which is what keeps `Pairs`.
* **A search finds what documents contain** from three invariants. `Written` relates `bdicti` to the
  documents: an indexer has the current content, and the row that counts of a document
  nobody works on, if its last update was finished, has it too (`Right`). `Index` relates
  `bdict` to `bdicti`: a document that is not `late` has in the index the words of its converted
  row (`Sync`), and no words if it has neither a converted nor a deleted row. `NextIndex` says what
  `bdict_tmp` has so far of a document that was not touched since the conversion began: nothing
  but the columns below `col` (`Copied`), all of them until the rows are marked, and from then on what
  `Sync` says of an index, so that the RENAME establishes `Index`. The other half is
  about the limits: `Including` and `Limiting` lists, what `UdmURLIdListMerge` of
  the two lets through (`MergeAllows`), and that the limits of a query let through what it asks for
  (`LimitsAllow`). `Found` and `SettledTables` put the halves together.

* **The stack machine is balanced** for queries of every length. While a query is typed,
  `QueryInv` says that it is well formed so far: outside of phrases an operator of two operands
  or a right bracket follows an operand (`Typed`), phrases hold words only, and `quoted` is
  whether the marks before the end are odd in number. Completion makes more of it: operands
  and operators take turns (`Alternates`), which `CompletedAlternates` shows by induction over the
  items that are copied. From that, by induction over the items that are calculated, the
  values on the stack outnumber the `OR`s and `AND`s on the other stack by one behind an
  operand and by none behind an operator (`Balanced`, `CalcBalanced`), so that `perform` finds
  its operands. What the loops of the code do is written as recursive functions;
  `BoundedRecursion` of module `Induction` shows that there are such functions, and
  `BoundedInduction` what holds of their values.
* **A document is kept exactly when the query holds of it**, for queries and texts of every length.
  The statement is about one step, `Search`, and its proof is about what that step computes.
  What it needs to know of the query is kept while it is typed (`ShapeInv`): words have increasing
  orders and every order has its word, a stop word has the order of the next word (which is why the
  code may look at the order of the first item of a phrase), brackets never close
  that are not open, the words of a closed phrase have its length as `phrlen`, and a
  closed phrase has two words or is one word. The rest goes from the bottom up:
  - *The stack machine.* A part of a query that is computed on a stack `s` leaves a stack that, once
    unwound, is `s` with the value of the part on it, unwound (`Comes`). That is
    shown for all parts of `n` items by induction over `n` (`Claim`, `ClaimStep`), for each level of
    precedence that the part may have (`Level`, `Ready`). The formula splits a part at its last
    operator while the machine joins from the left: `Join` shows that it
    makes no difference, because `OR` and `AND` are associative and a tighter operator is
    unwound before a looser one is pushed (`UnwindTwice`). `MachineMeans` is the result,
    `CompletedTrace` the same for the list with the operators that were missing.
  - *Phrases.* `Behind` finds the next word exactly when it stands at its place and
    no other word of the query stands between (`BehindFinds`); by induction over the items of
    the phrase, `CheckOnePhrase` finds a phrase exactly when there is a place where it stands
    (`PhraseChecked`), which is what the formula asks (`PhraseStands`). The phrases of the
    completed list are those of the query (`PhrasesCopied`).
  - *count[]* has the words outside of phrases and the phrases that the text has (`CountedTruth`).
    A phrase whose words are found always passes the tests for two sections and two
    coordinates (`BothFound`).
  - *The short cuts.* A query without `OR` and `NOT` holds when all of its operands do, one
    without `AND` and `NOT` in mode any when one does, whatever its brackets are (`PlainMeans`).
    Hence a list that is dropped is not missed (`EmptyMatches`), 'all words' drops no
    document that the query holds of (`ConjunctiveFinds`), and neither does `MinMaxPos2`
    (`NearEnough`).

Only checked by TLC: the liveness properties (`EveryProcessEnds`,
`SignalEndsProcess`, `LockReleased`, `EveryDocEnds`, `IndexConverges`,
`EveryChangeIndexed`), which depend on fairness. Every invariant that a passing run checks has a
theorem.


## 5. What the code does not promise, and what is not modelled

### Known divergences

Two are runs (`UrlStoreClones`, `BlobExclude`). For the following the modules have the property,
which is false of the code; a configuration with the constants named here shows it.

| Property | Configuration | What happens |
|---|---|---|
| `LeaveWhenAllIdle` of `Crawler` | `CrawlerEnds` with `Events = {}` | A thread takes a document; another is created, finds no target, counts itself as sleeping and compares 1 with a `total_threads` that is still 1: it leaves (`main.c:1123-1127`; the comment at `indexer.c:2646` says otherwise). `NothingLeftBehind` and `EveryProcessEnds` hold all the same, with fewer threads than `-N`. |
| `SavedHaveRows` of `HrefCache` | `HrefSet` with `Events = {"dbError"}` and `SPECIFICATION Spec` | `dhrefs= nhrefs` stands under the label that errors jump to (`sql.c:3614-3619`): links whose INSERT failed count as saved. |
| `LinksKept` of `HrefCache` | `HrefSet` with `Docs = {1, 2, 3}`, `LinkLists <- OneOrTwo`, `Threads = 2`, `MAXHSIZE = 3` | One entry has one referrer, and a second document overwrites it (`hrefs.c:83`) before the first one's call of `UdmStoreHrefs`: a link is missing in the table that `CollectLinks` promises (`doc/cmdref.xml:1095`). |
| `AtMostTwice` of `HrefCache` | 5 URLs, `SiteOf <- TwoSites`, `StartHrefs <- StartWith1`, `LinkLists <- Alternating`, `Docs = {1}`, `Threads = 1`, `MaxDocPerSite = 1`, `RESORT_HREFS = 8`, `MAXHSIZE = 8`, no events | The count of a site starts anew when the previous link was of another site (`indexer.c:165`): more than `2*number` documents (`doc/cmdref.xml:4565`). |
| `AllowedUrlIndexed` of `UrlLog` | `UrlLogKept` with one editor and run, `Events = {}` | `$this->allowedURLs += ...` with lists that all have key 0 keeps the first one only (`configgenerator.php:326`). |
| `DryRunKeepsLog` of `UrlLog` | the same with `DryRuns = {c1}` and `SPECIFICATION Spec` | `--dry-run` is looked at only where the indexer is called: the changes are taken out of the log (`climain.php:206`, `climain.php:361`). |
| `AttemptsWithinMax` of `Fetch` | `Fetch` with `DocsMax = 4`, `ClockMax = 0` | Requests for the robots.txt of a dead host are made for each of its documents and never counted: a refused one leaves no entry (`indexer.c:1876`) and the document is to be visited later, which is not an error of the host (`db.c:236-240`; `doc/cmdref.xml:4680-4684`). |
| `IndexComesBack` of `BlobIndex` | `BlobIndex` | A kill between DROP and RENAME leaves `bdict_tmp` as the only copy, and the next `-Eblob` drops it and then fails because there is no `bdict` to copy (`dbmode-blob.c:364-400`): searching is down until somebody intervenes (`doc/changelog.xml:853-859`). |

Further facts about the code that the models follow:

* `NetErrorDelayTime` is overwritten by `DocUpdate` for documents of a host with too
  many errors (`indexer.c:2242`, `doc/cmdref.xml:5139`).
* A document with `Robots no` wipes the rules of its host for all others
  (`RobotsOff`); `RobotsObeyed` is about hosts all of whose documents have `Robots`.
* A robots.txt that is answered with a status below 500 other than 200, such as 301, 401 or 403, is
  taken for one without rules (`indexer.c:1886-1898`); `RobotsObeyed` excepts such hosts (`hidden`).
* The errors of a host named by an IP address are counted in the table but never read back:
  `UdmHostLookup2` sets no `net_errors` for it (`host.c:319-328`), so `MaxNetErrors` does not limit the
  attempts to it, against `doc/cmdref.xml:4680-4684`. `StopsAfterMax` is about the other hosts.
* An entry of a full table of hosts that is given to a name that does not resolve keeps the address of the
  host that was evicted (`host.c:96`); `Address` follows it.
* With `HoldBadHrefs` a row may be deleted while it is leased, in `Targets` or in work; when its link is
  found again, the URL gets a new row and is crawled a second time at once (`sql.c:3304-3338`).
* An error of BEGIN or COMMIT while links are stored, and of the SELECT for targets under
  `LOCK TABLES`, is not returned (`sql.c:3582`, `sql.c:3607`, `sql.c:3200`): links are lost, or the crawl ends
  with URLs that are due.
* Two threads that resolve one name give it two entries; `StopsAfterMax` excepts such hosts.
  Names that do not resolve stay in the table until they are evicted.
* An answer without a status sets the row's status to 0: the next visit takes the document for
  a new one and keeps its old words (`sql.c:3296`) and sections (`sql.c:2714-2721`). A document
  that comes back after a 404 with its old crc32 counts as unchanged and never gets its words back (`db.c:293`).
  Rows that `UdmDeleteBadHrefs` deletes leave their words. `stale` has these, and `reset` the
  documents with old sections.
* A kill, a failing BEGIN and a thread that ends with an error lose the words
  that wait in the cache. A flush that fails keeps `UDM_LOCK_CONF` and `UDM_LOCK_DB`
  (`wordcache.c:54-58`): the process hangs.
* Between UNLOCK TABLES and LOCK TABLES WRITE of a conversion (`dbmode-blob.c:4105-4110`)
  indexers work on `bdicti`: documents they change are marked as converted although the index has
  not got them, until the next change (`late`). So are documents that are not in the list that was
  read at the beginning.
* Grouping by site drops new documents that `#rec_id` lacks.
* With `m=any`, a query whose only operators are `&` matches documents with either word:
  the list is dropped (`boolean.c:375-382`) and the mode is still `any` (`score.c:2178-2190`,
  `doc/search.xml:864-869`). `MatchesMeaning` excepts it (`AndForgotten`).
* A phrase of one word beside stop words has `phrlen` above 1 but `CheckPhrase` is not
  called for a section with one word of the query, and a phrase of nothing but
  stop words matches nothing (`doc/search.xml:909-918`): `ClosePhrase` types neither. A query of
  one word ignores its operators, as documented (`doc/search.xml:898-905`).

### Not modelled

* Crawling: several databases in one configuration (`dbl.nitems > 1`), `indexer -p`, `-Cw`,
  sitemaps, `VaryLang`, mirrors and aliases, `DocMemCacheSize` above 0,
  `UdmAppendTarget`, `UseRobotsTxtURL`, `CrawlDelay` and every other duration (time passes as
  events, so nothing is said about how long anything takes), the rules inside a robots.txt.
* Also of crawling: when the INSERT into `udm_url_tmp` fails after `LOCK TABLES`, `UdmTargetsSQL` returns
  at once (`sql.c:3060-3066`) and the tables stay locked until the connection is used again or closed;
  in `Crawler` other processes go on.
* Tables: cross words, transactions of databases other than MySQL, the packing of words into
  tables, two URLs with the same 32-bit hash (URLs are distinct values).
* Search: scores and their order, word forms, sections, ranges, substrings, result caches, the
  daemon; deltas, parallel and limited conversion of DBMode blob.
* TYPO3: an editor's request that is killed; workspaces; move and delete commands, for which no hook
  is registered; the search plugin; the generated configuration's text.
* Every component with status `not_modelled` in `PROJECT.json`.

Most of the repository's lines cannot be the subject of such models: of the 128 thousand lines of
code more than half are tables and loops that convert character sets, and most of the rest are parsers,
SQL drivers, option tables and output. The map covers what has state that several actors share, and
the algorithms of a query.

## 6. Plan

Done: the crawler, link cache and URL log; the tables, the word cache, hosts and robots.txt, DBMode
blob and Boolean queries. What would come next:

1. Compositions: `Crawler` with `HrefCache` (its `hrefs` is `LinkSet`'s `pending`) and with
   `UrlStore` (its `UpdateDocument`); `UrlLog`'s child process with `Crawler`.
2. Deltas and limited conversions in `BlobIndex`; the search result caches, whose hazard is
   being out of date against it.
3. Scores: merging of coordinates and their order, as operators against a reference.

## 7. Running it

    tlc -workers 2 -config CrawlerThreads.cfg MCCrawler.tla
    tlapm CrawlerProofs.tla

A run uses the module `MC...` its configuration is about and takes three minutes at most
on two workers. The proofs take some minutes each the first time. The definitions named
`...Mutant...` are the mutants of `PROJECT.json`: each replaces the definition it is
named for, and the run of its property then fails.
