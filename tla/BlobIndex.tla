----------------------------- MODULE BlobIndex -----------------------------
(***************************************************************************)
(* DBMode blob of mnoGoSearch on MySQL: indexers collect the words of      *)
(* documents in the table bdicti, "indexer -Eblob" converts bdicti to the  *)
(* search index bdict through the temporary table bdict_tmp, and a search  *)
(* reads bdict and, with LiveUpdates=yes, the rows of bdicti that are      *)
(* newer than it (dbmode-blob.c, dbmode-rawblob.c, urlidlist.c).           *)
(*                                                                         *)
(* Every SQL statement is an action of its own.  The READ lock of bdicti   *)
(* makes the indexers wait while the words are converted, the WRITE lock   *)
(* makes indexers and searches wait while bdicti is cleaned, and between   *)
(* the two there is no lock.                                               *)
(*                                                                         *)
(* A document's words are abstracted to the content they were taken from.  *)
(* Words are numbered by the intag column of bdicti they hash to; a        *)
(* column is converted by one SELECT (UdmBlob2BlobConsequent).             *)
(***************************************************************************)
EXTENDS Naturals, FiniteSets

CONSTANTS
    Indexers,    \* threads of indexers, each with a document of its own
    Urls,        \* rec_ids
    Contents,    \* what a document may contain: positive numbers
    Columns,     \* how many intag columns bdicti has (32 in the code)
    Text,        \* the words of a content
    Converted,   \* the documents the search index has at first, and ...
    First,       \* ... their content
    Queries,     \* the limits searches come with
    Faults,      \* of "indexer", "convert" and "rename"
    FaultsMax,   \* bound: failing statements and killed processes
    UpdatesMax   \* bound: documents that are stored or removed

Words == 1 .. Columns

ASSUME TextAssumption  == /\ Contents \subseteq Nat \ {0} /\ Columns \in Nat \ {0}
                          /\ Text \in [Contents -> SUBSET Words]
                          /\ Converted \subseteq Urls /\ First \in Contents
                          /\ 0 \notin Urls /\ Text[First] # {}
ASSUME BoundAssumption == /\ UpdatesMax \in Nat /\ FaultsMax \in Nat
                          /\ Faults \subseteq {"indexer", "convert", "rename"}

VARIABLES
    rows,      \* the rec_ids of the table url
    bdicti,    \* rows [url, state, content]: state 0 deleted, 1 new, 2 converted
    bdict,     \* the search index: words and the ids of "#rec_id"
    tmp,       \* bdict_tmp, the index a conversion writes
    pc,        \* the next statement of each indexer
    job,       \* the document an indexer works on and what it found there
    conv,      \* the next step of "indexer -Eblob"
    col,       \* the column it converts next
    list,      \* URLList: the documents it converts
    content,   \* history: what each document was last found to contain
    stale,     \* history: documents whose update stopped halfway
    touched,   \* history: documents indexed while a conversion runs
    late,      \* history: documents for which bdicti has run ahead of bdict
    updates, faults

tables  == <<rows, bdicti, bdict, tmp>>
indexer == <<pc, job>>
convert == <<conv, col, list>>
history == <<content, stale, touched, late>>
vars    == <<tables, indexer, convert, history, updates, faults>>

NoTable == [there |-> FALSE, words |-> {}, recs |-> {}]
Empty   == [there |-> TRUE,  words |-> {}, recs |-> {}]

Gone == 0            \* the content of a document that is not there
NoJob == [url |-> 0, content |-> Gone]
TextOf(c) == IF c = Gone THEN {} ELSE Text[c]

RowsOf(u, s) == {r \in bdicti : r.url = u /\ r.state = s}
Busy(u) == \E i \in Indexers : pc[i] # "idle" /\ job[i].url = u

ReadLocked  == conv = "words"
WriteLocked == conv \in {"deleteOld", "markConverted"}
\* From the list of documents to the cleaning of bdicti.
Converting  == conv \in {"table", "words", "gap", "deleteOld", "markConverted"}

(***************************************************************************)
(* Indexers.                                                               *)
(***************************************************************************)

\* A link was found: the document gets a row, it is crawled later.
AddURL(u) ==
    /\ u \notin rows /\ ~Busy(u)
    /\ rows' = rows \cup {u}
    /\ UNCHANGED <<bdicti, bdict, tmp, indexer, convert, history, updates, faults>>

\* UdmStoreWordsBlob for new content, or a deleted document: both begin with
\* UdmDeleteWordsFromURLBlob.
Begin(i, u, c) ==
    /\ pc[i] = "idle" /\ u \in rows /\ ~Busy(u) /\ updates < UpdatesMax
    /\ pc' = [pc EXCEPT ![i] = "deleteNew"]
    /\ job' = [job EXCEPT ![i] = [url |-> u, content |-> c]]
    /\ content' = [content EXCEPT ![u] = c]
    /\ updates' = updates + 1
    /\ UNCHANGED <<tables, convert, stale, touched, late, faults>>

\* A statement of indexer i on bdicti: it waits for the locks.
Statement(i, at) ==
    /\ pc[i] = at /\ ~ReadLocked /\ ~WriteLocked
    /\ touched' = IF Converting THEN touched \cup {job[i].url} ELSE touched
    /\ UNCHANGED <<bdict, tmp, convert, content, late, updates, faults>>

Finish(i) ==
    /\ pc' = [pc EXCEPT ![i] = "idle"]
    /\ job' = [job EXCEPT ![i] = NoJob]
    /\ stale' = stale \ {job[i].url}

DeleteNewMutant(i) ==
    /\ Statement(i, "deleteNew")
    /\ pc' = [pc EXCEPT ![i] = "markOld"]
    /\ UNCHANGED <<rows, bdicti, job, stale>>

\* DELETE FROM bdicti WHERE state=1 AND url_id=...
DeleteNew(i) ==
    /\ Statement(i, "deleteNew")
    /\ bdicti' = bdicti \ RowsOf(job[i].url, 1)
    /\ pc' = [pc EXCEPT ![i] = "markOld"]
    /\ UNCHANGED <<rows, job, stale>>

\* The rows of document u in state s get state n.
SetState(s, n, u) ==
    (bdicti \ RowsOf(u, s)) \cup {[r EXCEPT !.state = n] : r \in RowsOf(u, s)}

\* UPDATE bdicti SET state=0 WHERE state=2 AND url_id=...: the searching table
\* has the document.  A document without words has no row to insert.
MarkOld(i) ==
    /\ Statement(i, "markOld")
    /\ bdicti' = SetState(2, 0, job[i].url)
    /\ UNCHANGED rows
    /\ \/ /\ job[i].content = Gone
          /\ pc' = [pc EXCEPT ![i] = "deleteRow"] /\ UNCHANGED <<job, stale>>
       \/ /\ job[i].content # Gone /\ TextOf(job[i].content) # {}
          /\ pc' = [pc EXCEPT ![i] = "insert"] /\ UNCHANGED <<job, stale>>
       \/ job[i].content # Gone /\ TextOf(job[i].content) = {} /\ Finish(i)

Insert(i) ==
    /\ Statement(i, "insert")
    /\ bdicti' = bdicti \cup {[url |-> job[i].url, state |-> 1, content |-> job[i].content]}
    /\ Finish(i) /\ UNCHANGED rows

\* UdmDeleteURL: DELETE FROM url, a table that is not locked.
DeleteRow(i) ==
    /\ pc[i] = "deleteRow"
    /\ rows' = rows \ {job[i].url}
    /\ Finish(i)
    /\ UNCHANGED <<bdicti, bdict, tmp, convert, content, touched, late, updates, faults>>

\* A statement fails or the indexer is killed.
IndexerFails(i) ==
    /\ "indexer" \in Faults /\ faults < FaultsMax /\ pc[i] # "idle"
    /\ pc' = [pc EXCEPT ![i] = "idle"]
    /\ job' = [job EXCEPT ![i] = NoJob]
    /\ stale' = stale \cup {job[i].url}
    /\ faults' = faults + 1
    /\ UNCHANGED <<tables, convert, content, touched, late, updates>>

(***************************************************************************)
(* The conversion, UdmConvert2BlobSQL and UdmBlob2BlobSQL.                 *)
(***************************************************************************)

StartConversion ==
    /\ conv = "idle"
    /\ conv' = "table" /\ list' = rows /\ touched' = {}
    /\ UNCHANGED <<tables, indexer, col, content, stale, late, updates, faults>>

\* UdmBlobGetWTable drops bdict_tmp and creates it like bdict, or fails if
\* there is no bdict; then bdicti is locked and bdict_tmp truncated.
GetTable ==
    /\ conv = "table"
    /\ \/ /\ bdict.there
          /\ tmp' = Empty /\ conv' = "words" /\ col' = 1
          /\ UNCHANGED list
       \/ /\ ~bdict.there
          /\ tmp' = NoTable /\ conv' = "idle" /\ list' = {}
          /\ UNCHANGED col
    /\ UNCHANGED <<rows, bdicti, bdict, indexer, history, updates, faults>>

ColumnWordsMutant(k) ==
    {<<r.url, k, r.content>> :
        r \in {q \in bdicti : q.state = 1 /\ q.url \in list /\ k \in Text[q.content]}}

\* What a SELECT of column k has for the listed documents, WHERE state>0.
ColumnWords(k) ==
    {<<r.url, k, r.content>> :
        r \in {q \in bdicti : q.state > 0 /\ q.url \in list /\ k \in Text[q.content]}}

ConvertColumnMutant ==
    /\ conv = "words"
    /\ tmp' = [tmp EXCEPT !.words = @ \cup ColumnWords(col)]
    /\ col' = col + 1
    /\ \/ col < Columns /\ UNCHANGED conv
       \/ col = Columns /\ conv' = "gap"
    /\ UNCHANGED <<rows, bdicti, bdict, indexer, list, history, updates, faults>>

\* After the last column, UNLOCK TABLES.  Its rc is not looked at, but
\* UdmBlob2BlobConvertOneColumn has only one.
ConvertColumn ==
    /\ conv = "words"
    /\ tmp' = [tmp EXCEPT !.words = @ \cup ColumnWords(col)]
    /\ \/ col < Columns /\ col' = col + 1 /\ UNCHANGED conv
       \/ col = Columns /\ conv' = "gap" /\ UNCHANGED col
    /\ UNCHANGED <<rows, bdicti, bdict, indexer, list, history, updates, faults>>

LockForWrite ==
    /\ conv = "gap"
    /\ conv' = "deleteOld"
    /\ UNCHANGED <<tables, indexer, col, list, history, updates, faults>>

\* DELETE FROM bdicti WHERE state=0
DeleteOld ==
    /\ conv = "deleteOld"
    /\ bdicti' = {r \in bdicti : r.state # 0}
    /\ late' = late \cup {r.url : r \in {q \in bdicti : q.state = 0}}
    /\ conv' = "markConverted"
    /\ UNCHANGED <<rows, bdict, tmp, indexer, col, list, content, stale, touched, updates, faults>>

\* UPDATE bdicti SET state=2, of every row; then UNLOCK TABLES.
MarkConverted ==
    /\ conv = "markConverted"
    /\ bdicti' = {[r EXCEPT !.state = 2] : r \in bdicti}
    /\ late' = late \cup {r.url : r \in {q \in bdicti : q.state = 1}}
    /\ conv' = "urlData"
    /\ UNCHANGED <<rows, bdict, tmp, indexer, col, list, content, stale, touched, updates, faults>>

WriteURLMutant ==
    /\ conv = "urlData"
    /\ bdict' = [bdict EXCEPT !.recs = rows]
    /\ conv' = "drop"
    /\ UNCHANGED <<rows, bdicti, tmp, indexer, col, list, history, updates, faults>>

\* UdmBlobWriteURL: "#rec_id" and the other data of the documents.
WriteURL ==
    /\ conv = "urlData"
    /\ tmp' = [tmp EXCEPT !.recs = rows]
    /\ conv' = "drop"
    /\ UNCHANGED <<rows, bdicti, bdict, indexer, col, list, history, updates, faults>>

\* UdmBlobSetTable: DROP TABLE bdict ...
DropTable ==
    /\ conv = "drop"
    /\ bdict' = NoTable
    /\ conv' = "rename"
    /\ UNCHANGED <<rows, bdicti, tmp, indexer, col, list, history, updates, faults>>

\* ... RENAME bdict_tmp TO bdict.
RenameTable ==
    /\ conv = "rename"
    /\ bdict' = tmp /\ tmp' = NoTable
    /\ late' = touched /\ touched' = {}
    /\ conv' = "idle" /\ list' = {}
    /\ UNCHANGED <<rows, bdicti, indexer, col, content, stale, updates, faults>>

\* A statement of the conversion fails or it is killed; MySQL takes the locks
\* back.  The rename is a fault of its own.
ConversionFails ==
    /\ faults < FaultsMax /\ conv # "idle"
    /\ IF conv = "rename" THEN "rename" \in Faults ELSE "convert" \in Faults
    /\ conv' = "idle" /\ list' = {}
    /\ late' = IF Converting THEN late ELSE late \cup touched
    /\ touched' = {}
    /\ faults' = faults + 1
    /\ UNCHANGED <<tables, indexer, col, content, stale, updates>>

\* "indexer -Eblob" has run before, with the documents Converted.
Init ==
    /\ rows = Converted
    /\ bdicti = {[url |-> u, state |-> 2, content |-> First] : u \in Converted}
    /\ bdict = [there |-> TRUE, recs |-> Converted,
                words |-> {<<u, w, First>> : u \in Converted, w \in Text[First]}]
    /\ tmp = NoTable
    /\ pc = [i \in Indexers |-> "idle"] /\ job = [i \in Indexers |-> NoJob]
    /\ conv = "idle" /\ col = 1 /\ list = {}
    /\ content = [u \in Urls |-> IF u \in Converted THEN First ELSE Gone]
    /\ stale = {} /\ touched = {} /\ late = {}
    /\ updates = 0 /\ faults = 0

IndexerStep(i) == DeleteNew(i) \/ MarkOld(i) \/ Insert(i) \/ DeleteRow(i)

ConversionStep ==
    \/ GetTable \/ ConvertColumn \/ LockForWrite \/ DeleteOld \/ MarkConverted
    \/ WriteURL \/ DropTable \/ RenameTable

Next ==
    \/ \E u \in Urls : AddURL(u)
    \/ \E i \in Indexers : \/ \E u \in Urls, c \in Contents \cup {Gone} : Begin(i, u, c)
                           \/ IndexerStep(i)
                           \/ IndexerFails(i)
    \/ StartConversion \/ ConversionStep \/ ConversionFails

Spec == Init /\ [][Next]_vars

\* A process that runs executes its statements, MySQL grants its locks, and
\* "indexer -Eblob" is run again and again, by cron.  A statement that waits
\* for a lock gets it although conversions take the lock again and again: SF.
FairSpec ==
    /\ Spec
    /\ WF_vars(StartConversion) /\ WF_vars(ConversionStep)
    /\ \A i \in Indexers : SF_vars(IndexerStep(i))

(***************************************************************************)
(* Searching.  A URL list limits a search to its urls, or to the others if *)
(* it excludes; a list without urls limits nothing unless it is "empty".   *)
(***************************************************************************)

Unlimited == [urls |-> {}, exclude |-> FALSE, empty |-> FALSE]

\* UdmURLIdListJoin
Join(a, b) ==
    LET kept == IF b.exclude THEN a.urls \ b.urls ELSE a.urls \cap b.urls
    IN  [a EXCEPT !.urls = kept, !.empty = @ \/ kept = {}]

\* UdmURLIdListUnion
Union(a, b) == [a EXCEPT !.urls = @ \cup b.urls]

\* UdmURLIdListCopy
Copy(a, b) == [a EXCEPT !.urls = b.urls, !.exclude = b.exclude]

\* UdmURLIdListMerge: two excluding lists are united, and then joined too.
Merge(a, b) ==
    LET first == IF a.exclude /\ b.exclude THEN Union(a, b) ELSE a
    IN  IF b.urls = {}          THEN [first EXCEPT !.empty = @ \/ ~b.exclude]
        ELSE IF first.urls # {} THEN Join(first, b)
        ELSE Copy(first, b)

\* Which of the urls a list lets through (UdmSectionListBlobCoordsUnpack,
\* UdmFindWordRawBlobInternal).
Allows(l, u) ==
    /\ ~l.empty
    /\ l.urls = {} \/ (u \in l.urls) # l.exclude

\* UdmFindLoadLimits: the WHERE limit, then fl; a query has them optionally.
LoadLimits(q) ==
    LET found == q.where \cap rows
        where == IF q.hasWhere THEN [Unlimited EXCEPT !.urls = found, !.empty = (found = {})]
                 ELSE Unlimited
        fl    == [Unlimited EXCEPT !.urls = q.fl, !.exclude = (q.flKind = "exclude")]
    IN  IF where.empty \/ q.flKind = "none" THEN where ELSE Merge(where, fl)

DeletedUrlsMutant == [urls |-> {}, exclude |-> TRUE, empty |-> FALSE]

\* The documents of which bdict has words that no longer count.
DeletedUrls == [urls |-> {r.url : r \in {q \in bdicti : q.state = 0}},
                exclude |-> TRUE, empty |-> FALSE]

\* What a live update search finds for word w: pairs of a document and the
\* content the word was seen in.  bdict is searched under the limits merged
\* with the deleted documents, bdicti's new rows under the limits alone.
LiveSearch(q, w) ==
    LET limits  == LoadLimits(q)
        indexed == Merge(limits, DeletedUrls)
    IN  IF limits.empty THEN {}
        ELSE {<<x[1], x[3]>> : x \in {y \in bdict.words : y[2] = w /\ Allows(indexed, y[1])}}
             \cup {<<r.url, r.content>> :
                     r \in {p \in bdicti : /\ p.state = 1 /\ w \in Text[p.content]
                                           /\ Allows(limits, p.url)}}

\* The documents a query asks for.
Asked(q, u) ==
    /\ q.hasWhere => u \in q.where
    /\ q.flKind = "include" => u \in q.fl
    /\ q.flKind = "exclude" => u \notin q.fl

\* UdmURLDataListGroupBySiteUsingHash keeps the documents "#rec_id" has.
GroupBySite(found) == {x \in found : x[1] \in bdict.recs}

(***************************************************************************)
(* Properties                                                              *)
(***************************************************************************)

Rows == [url : Urls, state : 0 .. 2, content : Contents]
Table(t) == /\ t.there \in BOOLEAN
            /\ t.words \subseteq Urls \X Words \X Contents
            /\ t.recs \subseteq Urls

(* Every variable has its type, and no two indexers update one document    *)
(* (the rows of UdmTargets' lease, dbmode-blob.c:2318-2362).               *)
TypeOK ==
    /\ rows \subseteq Urls /\ bdicti \subseteq Rows
    /\ Table(bdict) /\ Table(tmp)
    /\ pc \in [Indexers -> {"idle", "deleteNew", "markOld", "insert", "deleteRow"}]
    /\ job \in [Indexers -> [url : Urls \cup {0}, content : Contents \cup {Gone}]]
    /\ \A i, j \in Indexers : pc[i] # "idle" /\ pc[j] # "idle" /\ i # j
                              => job[i].url # job[j].url
    /\ conv \in {"idle", "table", "words", "gap", "deleteOld", "markConverted",
                 "urlData", "drop", "rename"}
    /\ col \in Words /\ list \subseteq Urls
    /\ content \in [Urls -> Contents \cup {Gone}]
    /\ stale \subseteq Urls /\ touched \subseteq Urls /\ late \subseteq Urls
    /\ updates \in 0 .. UpdatesMax /\ faults \in 0 .. FaultsMax

(* A document has at most one row that counts, new or converted, whatever  *)
(* conversion comes between the two statements that delete its old words:  *)
(* a second one would be found with the first (dbmode-blob.c:2098-2114).   *)
OneRowCounts ==
    \A u \in Urls : /\ Cardinality(RowsOf(u, 1) \cup RowsOf(u, 2)) <= 1
                    /\ Cardinality(RowsOf(u, 0)) <= 1

(* A live update search that no statement interrupts finds exactly the     *)
(* documents that contain the word now and that the query asks for, if     *)
(* their last update is over and no conversion has left bdicti ahead of    *)
(* bdict (dbmode-blob.c:2740-2773, urlidlist.c:110).                       *)
Settled(u) == ~Busy(u) /\ u \notin late /\ u \notin stale
LiveSearchFindsCurrent ==
    bdict.there /\ ~WriteLocked =>
        \A q \in Queries, w \in Words, u \in Urls :
            Settled(u) =>
                {x \in LiveSearch(q, w) : x[1] = u} =
                    IF Asked(q, u) /\ w \in TextOf(content[u])
                    THEN {<<u, content[u]>>} ELSE {}

(* Grouping by site loses no document the index was converted with:        *)
(* "#rec_id" is read from the table url after the words were converted,    *)
(* and documents are removed in between (groupby.c:150-170).               *)
GroupedFindsConverted ==
    bdict.there /\ ~WriteLocked =>
        \A q \in Queries, w \in Words, u \in Urls :
            (Settled(u) /\ RowsOf(u, 0) \cup RowsOf(u, 1) = {}) =>
                {x \in LiveSearch(q, w) : x[1] = u} \subseteq GroupBySite(LiveSearch(q, w))

(* Once the documents no longer change, conversions bring the search index *)
(* to what they contain, also of documents that were indexed while a       *)
(* conversion ran; only documents whose update stopped halfway are excused *)
(* (dbmode-blob.c:4027-4172).                                              *)
IndexConverges ==
    <>[](bdict.there =>
           \A u \in Urls \ stale : {x \in bdict.words : x[1] = u} =
               {<<u, w, content[u]>> : w \in TextOf(content[u])})

(* The search index is renamed into place: searching is down for less than *)
(* a second, and comes back (doc/changelog.xml:853-859).                   *)
IndexComesBack == ~bdict.there ~> bdict.there
=============================================================================
