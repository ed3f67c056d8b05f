-------------------------- MODULE BlobIndexProofs --------------------------
(***************************************************************************)
(* Proofs about module BlobIndex, for all indexers, documents, contents,   *)
(* columns, and any number of conversions, failures and kills:             *)
(*   BlobType          the tables keep their shape, and no document is in  *)
(*                     two hands                                           *)
(*   BlobOneRowCounts  a document has one row that counts in bdicti        *)
(*   BlobLiveSearch    a search finds what the documents contain           *)
(*   BlobGrouped       grouping by site loses none of them                 *)
(***************************************************************************)
EXTENDS BlobIndex, FiniteSetTheorems, TLAPS

-----------------------------------------------------------------------------
(* Types.                                                                  *)

Steps == {"idle", "deleteNew", "markOld", "insert", "deleteRow"}
Stages == {"idle", "table", "words", "gap", "deleteOld", "markConverted",
           "urlData", "drop", "rename"}

TablesOK == /\ rows \subseteq Urls /\ bdicti \subseteq Rows
            /\ Table(bdict) /\ Table(tmp)

ConvertOK == conv \in Stages /\ col \in Words /\ list \subseteq Urls

\* An indexer has a document of its own while it is not idle, and a content
\* with words when it inserts them.
Works(i) == IF pc[i] = "idle" THEN job[i] = NoJob
            ELSE /\ job[i].url \in Urls
                 /\ pc[i] = "insert" => job[i].content \in Contents

IndexersOK ==
    /\ pc \in [Indexers -> Steps]
    /\ job \in [Indexers -> [url : Urls \cup {0}, content : Contents \cup {Gone}]]
    /\ \A i \in Indexers : Works(i)
    /\ \A i, j \in Indexers : pc[i] # "idle" /\ pc[j] # "idle" /\ i # j
                              => job[i].url # job[j].url

HistoryOK ==
    /\ content \in [Urls -> Contents \cup {Gone}]
    /\ stale \subseteq Urls /\ touched \subseteq Urls /\ late \subseteq Urls
    /\ updates \in 0 .. UpdatesMax /\ faults \in 0 .. FaultsMax

Shape == TablesOK /\ ConvertOK /\ IndexersOK /\ HistoryOK

LEMMA ShapeIsType == Shape <=> TypeOK /\ \A i \in Indexers : Works(i)
BY DEF Shape, TypeOK, TablesOK, ConvertOK, IndexersOK, HistoryOK, Steps, Stages

LEMMA ShapeInit == Init => Shape
<1> SUFFICES ASSUME Init PROVE Shape
  OBVIOUS
<1>1. TablesOK
  <2>1. rows \subseteq Urls /\ bdicti \subseteq Rows
    BY TextAssumption DEF Init, Rows
  <2>2. {<<u, w, First>> : u \in Converted, w \in Text[First]} \subseteq Urls \X Words \X Contents
    BY TextAssumption
  <2>3. Table(bdict) /\ Table(tmp)
    BY <2>2, TextAssumption DEF Init, Table, NoTable
  <2> QED BY <2>1, <2>3 DEF TablesOK
<1>2. ConvertOK
  BY TextAssumption DEF Init, ConvertOK, Stages, Words
<1>3. IndexersOK
  BY DEF Init, IndexersOK, Steps, NoJob, Works
<1>4. HistoryOK
  BY TextAssumption, BoundAssumption DEF Init, HistoryOK
<1> QED BY <1>1, <1>2, <1>3, <1>4 DEF Shape

\* One indexer moves on with its document.
LEMMA MovesOn ==
    ASSUME IndexersOK, NEW i \in Indexers, pc[i] # "idle",
           NEW s \in Steps \ {"idle"}, pc' = [pc EXCEPT ![i] = s], job' = job,
           s = "insert" => job[i].content \in Contents
    PROVE  IndexersOK'
BY DEF IndexersOK, Works, Steps

\* One indexer is done with its document.
LEMMA IsDone ==
    ASSUME IndexersOK, NEW i \in Indexers,
           pc' = [pc EXCEPT ![i] = "idle"], job' = [job EXCEPT ![i] = NoJob]
    PROVE  IndexersOK'
<1>1. pc' \in [Indexers -> Steps]
  BY DEF IndexersOK, Steps
<1>2. job' \in [Indexers -> [url : Urls \cup {0}, content : Contents \cup {Gone}]]
  BY DEF IndexersOK, NoJob
<1>3. \A j \in Indexers : Works(j)'
  BY DEF IndexersOK, Works
<1> QED BY <1>1, <1>2, <1>3 DEF IndexersOK

LEMMA BeginShape ==
    ASSUME Shape, NEW i \in Indexers, NEW u \in Urls, NEW c \in Contents \cup {Gone},
           Begin(i, u, c)
    PROVE  Shape'
<1>1. /\ pc[i] = "idle" /\ ~Busy(u) /\ updates < UpdatesMax /\ updates' = updates + 1
      /\ pc' = [pc EXCEPT ![i] = "deleteNew"]
      /\ job' = [job EXCEPT ![i] = [url |-> u, content |-> c]]
      /\ content' = [content EXCEPT ![u] = c]
      /\ UNCHANGED <<tables, convert, stale, touched, late, faults>>
  BY DEF Begin
<1>2. IndexersOK'
  <2>1. /\ pc' \in [Indexers -> Steps]
        /\ job' \in [Indexers -> [url : Urls \cup {0}, content : Contents \cup {Gone}]]
    BY <1>1 DEF Shape, IndexersOK, Steps
  <2>2. \A j \in Indexers : Works(j)'
    BY <1>1 DEF Shape, IndexersOK, Works
  <2>3. \A j \in Indexers \ {i} : pc[j] # "idle" => job[j].url # u
    BY <1>1 DEF Busy
  <2> QED BY <1>1, <2>1, <2>2, <2>3 DEF Shape, IndexersOK
<1>3. HistoryOK'
  BY <1>1, BoundAssumption DEF Shape, HistoryOK
<1> QED BY <1>1, <1>2, <1>3 DEF Shape, TablesOK, ConvertOK, Table, tables, convert

LEMMA IndexerShape ==
    ASSUME Shape, NEW i \in Indexers, IndexerStep(i)
    PROVE  Shape'
<1>1. pc[i] # "idle" /\ job[i].url \in Urls
  BY DEF Shape, IndexersOK, Works, IndexerStep, DeleteNew, MarkOld, Insert, DeleteRow, Statement
<1>2. UNCHANGED <<bdict, tmp, convert, content, late, updates, faults>>
  BY DEF IndexerStep, DeleteNew, MarkOld, Insert, DeleteRow, Statement
<1>3. rows' \subseteq Urls /\ touched' \subseteq Urls /\ stale' \subseteq Urls
  BY <1>1 DEF Shape, TablesOK, HistoryOK, IndexerStep, DeleteNew, MarkOld, Insert, DeleteRow,
              Statement, Finish
<1>4. bdicti' \subseteq Rows
  <2>1. bdicti \subseteq Rows
    BY DEF Shape, TablesOK
  <2>2. CASE DeleteNew(i) \/ DeleteRow(i)
    BY <2>1, <2>2 DEF DeleteNew, DeleteRow
  <2>3. CASE MarkOld(i)
    <3>1. \A r \in Rows : [r EXCEPT !.state = 0] \in Rows
      BY DEF Rows
    <3> QED BY <2>1, <2>3, <3>1 DEF MarkOld, SetState, RowsOf
  <2>4. CASE Insert(i)
    <3>1. job[i].content \in Contents
      BY <2>4 DEF Insert, Statement, Shape, IndexersOK, Works
    <3> QED BY <1>1, <2>1, <2>4, <3>1 DEF Insert, Rows
  <2> QED BY <2>2, <2>3, <2>4 DEF IndexerStep
<1>5. IndexersOK'
  <2>1. CASE Finish(i)
    BY <2>1, IsDone DEF Finish, Shape
  <2>2. CASE DeleteNew(i)
    BY <1>1, <2>2, MovesOn DEF DeleteNew, Shape, Steps
  <2>3. CASE MarkOld(i) /\ job' = job
    <3>1. PICK s \in {"insert", "deleteRow"} :
              /\ pc' = [pc EXCEPT ![i] = s]
              /\ s = "insert" => job[i].content # Gone
      <4>1. CASE Finish(i)
        BY <1>1, <2>3, <4>1, TextAssumption DEF Finish, NoJob, Shape, IndexersOK
      <4> QED BY <2>3, <4>1 DEF MarkOld
    <3>2. job[i].content \in Contents \cup {Gone}
      BY DEF Shape, IndexersOK
    <3> QED BY <1>1, <2>3, <3>1, <3>2, MovesOn DEF Shape, Steps
  <2> QED BY <2>1, <2>2, <2>3 DEF IndexerStep, MarkOld, Insert, DeleteRow
<1> QED BY <1>2, <1>3, <1>4, <1>5 DEF Shape, TablesOK, ConvertOK, HistoryOK, Table, convert

LEMMA FailShape ==
    ASSUME Shape, NEW i \in Indexers, IndexerFails(i)
    PROVE  Shape'
<1>1. /\ pc[i] # "idle" /\ faults < FaultsMax /\ faults' = faults + 1
      /\ pc' = [pc EXCEPT ![i] = "idle"] /\ job' = [job EXCEPT ![i] = NoJob]
      /\ stale' = stale \cup {job[i].url}
      /\ UNCHANGED <<tables, convert, content, touched, late, updates>>
  BY DEF IndexerFails
<1>2. IndexersOK'
  BY <1>1, IsDone DEF Shape
<1>3. HistoryOK'
  BY <1>1, BoundAssumption DEF Shape, IndexersOK, Works, HistoryOK
<1> QED BY <1>1, <1>2, <1>3 DEF Shape, TablesOK, ConvertOK, Table, tables, convert

\* What the conversion writes is about documents and words there are.
LEMMA ConversionTables ==
    ASSUME Shape, ConversionStep \/ StartConversion \/ ConversionFails
    PROVE  TablesOK'
<1>1. /\ rows \subseteq Urls /\ bdicti \subseteq Rows /\ Table(bdict) /\ Table(tmp)
      /\ list \subseteq Urls /\ col \in Words
  BY DEF Shape, TablesOK, ConvertOK
<1>2. rows' = rows
  BY DEF ConversionStep, StartConversion, ConversionFails, GetTable, ConvertColumn, LockForWrite,
         DeleteOld, MarkConverted, WriteURL, DropTable, RenameTable, tables
<1>3. bdicti' \subseteq Rows
  <2>1. \A r \in Rows : [r EXCEPT !.state = 2] \in Rows
    BY DEF Rows
  <2>2. \/ bdicti' = bdicti
        \/ bdicti' = {r \in bdicti : r.state # 0}
        \/ bdicti' = {[r EXCEPT !.state = 2] : r \in bdicti}
    BY DEF ConversionStep, StartConversion, ConversionFails, GetTable, ConvertColumn, LockForWrite,
           DeleteOld, MarkConverted, WriteURL, DropTable, RenameTable, tables
  <2> QED BY <1>1, <2>1, <2>2
<1>4. Table(tmp)'
  <2>1. CASE tmp' = tmp \/ tmp' = Empty \/ tmp' = NoTable
    <3>1. Table(Empty) /\ Table(NoTable)
      BY DEF Table, Empty, NoTable
    <3>2. Table(tmp)' = Table(tmp')
      BY DEF Table
    <3> QED BY <1>1, <2>1, <3>1, <3>2
  <2>2. CASE tmp' = [tmp EXCEPT !.words = @ \cup ColumnWords(col)]
    <3>1. ColumnWords(col) \subseteq Urls \X Words \X Contents
      BY <1>1 DEF ColumnWords, Rows
    <3>2. /\ tmp'.there = tmp.there /\ tmp'.recs = tmp.recs
          /\ tmp'.words \subseteq tmp.words \cup ColumnWords(col)
      BY <2>2
    <3> QED BY <1>1, <3>1, <3>2 DEF Table
  <2>3. CASE tmp' = [tmp EXCEPT !.recs = rows]
    <3>1. /\ tmp'.there = tmp.there /\ tmp'.words = tmp.words
          /\ tmp'.recs \in {tmp.recs, rows}
      BY <2>3
    <3> QED BY <1>1, <3>1 DEF Table
  <2> QED BY <2>1, <2>2, <2>3 DEF ConversionStep, StartConversion, ConversionFails, GetTable,
             ConvertColumn, LockForWrite, DeleteOld, MarkConverted, WriteURL, DropTable,
             RenameTable, tables
<1>5. Table(bdict)'
  <2>1. bdict' = bdict \/ bdict' = NoTable \/ bdict' = tmp
    BY DEF ConversionStep, StartConversion, ConversionFails, GetTable, ConvertColumn, LockForWrite,
           DeleteOld, MarkConverted, WriteURL, DropTable, RenameTable, tables
  <2>2. Table(NoTable)
    BY DEF Table, NoTable
  <2>3. Table(bdict)' = Table(bdict')
    BY DEF Table
  <2> QED BY <1>1, <2>1, <2>2, <2>3
<1> QED BY <1>1, <1>2, <1>3, <1>4, <1>5 DEF TablesOK

LEMMA ConversionShape ==
    ASSUME Shape, ConversionStep \/ StartConversion \/ ConversionFails
    PROVE  Shape'
<1>1. TablesOK'
  BY ConversionTables
<1>2. ConvertOK'
  <2>1. list' \in {list, rows, {}} /\ conv' \in Stages
    BY DEF ConversionStep, StartConversion, ConversionFails, GetTable, ConvertColumn, LockForWrite,
           DeleteOld, MarkConverted, WriteURL, DropTable, RenameTable, Shape, ConvertOK, Stages
  <2>2. \/ col' = col \/ col' = 1
        \/ col < Columns /\ col' = col + 1
    BY DEF ConversionStep, StartConversion, ConversionFails, GetTable, ConvertColumn, LockForWrite,
           DeleteOld, MarkConverted, WriteURL, DropTable, RenameTable
  <2>3. col' \in Words
    BY <2>2, TextAssumption DEF Shape, ConvertOK, Words
  <2> QED BY <2>1, <2>3 DEF ConvertOK, Shape, TablesOK
<1>3. IndexersOK'
  <2>1. pc' = pc /\ job' = job
    BY DEF ConversionStep, StartConversion, ConversionFails, GetTable, ConvertColumn, LockForWrite,
           DeleteOld, MarkConverted, WriteURL, DropTable, RenameTable, indexer
  <2> QED BY <2>1 DEF Shape, IndexersOK, Works
<1>4. HistoryOK'
  <2>1. {r.url : r \in bdicti} \subseteq Urls
    BY DEF Shape, TablesOK, Rows
  <2>2. /\ content' = content /\ stale' = stale /\ updates' = updates
        /\ touched' = touched \/ touched' = {}
        /\ faults' = faults \/ (faults < FaultsMax /\ faults' = faults + 1)
    BY DEF ConversionStep, StartConversion, ConversionFails, GetTable, ConvertColumn, LockForWrite,
           DeleteOld, MarkConverted, WriteURL, DropTable, RenameTable, history
  <2>3. late' \subseteq late \cup touched \cup {r.url : r \in bdicti}
    <3>1. CASE DeleteOld \/ MarkConverted
      BY <3>1 DEF DeleteOld, MarkConverted
    <3>2. CASE RenameTable \/ ConversionFails
      BY <3>2 DEF RenameTable, ConversionFails
    <3>3. CASE \/ StartConversion \/ GetTable \/ ConvertColumn \/ LockForWrite
               \/ WriteURL \/ DropTable
      BY <3>3 DEF StartConversion, GetTable, ConvertColumn, LockForWrite, WriteURL, DropTable,
                  history
    <3> QED BY <3>1, <3>2, <3>3 DEF ConversionStep
  <2> QED BY <2>1, <2>2, <2>3, BoundAssumption DEF Shape, HistoryOK
<1> QED BY <1>1, <1>2, <1>3, <1>4 DEF Shape

LEMMA ShapeStep == Shape /\ [Next]_vars => Shape'
<1> SUFFICES ASSUME Shape, [Next]_vars PROVE Shape'
  OBVIOUS
<1>1. ASSUME NEW u \in Urls, AddURL(u) PROVE Shape'
  BY <1>1 DEF AddURL, Shape, TablesOK, ConvertOK, IndexersOK, Works, HistoryOK, Table,
              indexer, convert, history
<1>2. ASSUME NEW i \in Indexers,
             \/ \E u \in Urls, c \in Contents \cup {Gone} : Begin(i, u, c)
             \/ IndexerStep(i) \/ IndexerFails(i)
      PROVE  Shape'
  BY <1>2, BeginShape, IndexerShape, FailShape
<1>3. CASE StartConversion \/ ConversionStep \/ ConversionFails
  BY <1>3, ConversionShape
<1>4. CASE UNCHANGED vars
  BY <1>4 DEF vars, tables, indexer, convert, history, Shape, TablesOK, ConvertOK, IndexersOK,
              Works, HistoryOK, Table
<1> QED BY <1>1, <1>2, <1>3, <1>4 DEF Next

\* The tables keep their shape, and no two indexers have one document, for
\* AddURL and the lease of UdmTargets give a document to one at a time.
THEOREM BlobType == Spec => []TypeOK
<1>1. Spec => []Shape
  BY ShapeInit, ShapeStep, PTL DEF Spec
<1> QED BY <1>1, ShapeIsType, PTL

-----------------------------------------------------------------------------
(* One row that counts.                                                    *)

\* Of two rows of a document one is the deleted one and the other the new
\* one: rows are converted only after the deleted ones have gone.
Pairs(t) == \A r, q \in t : r.url = q.url /\ r # q => {r.state, q.state} = {0, 1}

\* What an indexer has deleted does not come back before it goes on: a new
\* row cannot appear, and one that is converted has been deleted, too.
Cleared(i) == /\ pc[i] = "markOld" => RowsOf(job[i].url, 1) = {}
              /\ pc[i] = "insert"  => RowsOf(job[i].url, 1) \cup RowsOf(job[i].url, 2) = {}

Counts == /\ Pairs(bdicti) /\ \A i \in Indexers : Cleared(i)
          /\ conv = "markConverted" => \A r \in bdicti : r.state # 0

LEMMA FewerRows ==
    ASSUME Counts, bdicti' \subseteq bdicti, pc' = pc, job' = job
    PROVE  Pairs(bdicti)' /\ \A i \in Indexers : Cleared(i)'
BY DEF Counts, Pairs, Cleared, RowsOf

\* Statements of i change rows of its document alone; the others have theirs.
LEMMA OthersCleared ==
    ASSUME Shape, Counts, NEW i \in Indexers, pc[i] # "idle", NEW j \in Indexers \ {i},
           pc'[j] = pc[j], job'[j] = job[j],
           \A r \in bdicti' : r \in bdicti \/ r.url = job[i].url
    PROVE  Cleared(j)'
BY DEF Shape, IndexersOK, Counts, Cleared, RowsOf

LEMMA DeleteNewCounts ==
    ASSUME Shape, Counts, NEW i \in Indexers, DeleteNew(i)
    PROVE  Counts'
<1>1. /\ pc[i] = "deleteNew" /\ pc' = [pc EXCEPT ![i] = "markOld"] /\ job' = job
      /\ bdicti' = bdicti \ RowsOf(job[i].url, 1) /\ conv' = conv
  BY DEF DeleteNew, Statement, convert
<1>2. Pairs(bdicti)' /\ (conv' = "markConverted" => \A r \in bdicti' : r.state # 0)
  BY <1>1 DEF Counts, Pairs
<1>3. ASSUME NEW j \in Indexers PROVE Cleared(j)'
  <2>1. CASE j = i
    BY <1>1, <2>1 DEF Shape, IndexersOK, Cleared, RowsOf
  <2>2. CASE j # i
    BY <1>1, <2>2, OthersCleared DEF Shape, IndexersOK
  <2> QED BY <2>1, <2>2
<1> QED BY <1>2, <1>3 DEF Counts

\* A row turns from converted to deleted: there is no other deleted one.
LEMMA MarkOldCounts ==
    ASSUME Shape, Counts, NEW i \in Indexers, MarkOld(i)
    PROVE  Counts'
<1> DEFINE u == job[i].url
<1>1. /\ pc[i] = "markOld" /\ bdicti' = SetState(2, 0, u)
      /\ conv' = conv /\ conv # "markConverted"
      /\ pc' = [pc EXCEPT ![i] = "deleteRow"] \/ pc' = [pc EXCEPT ![i] = "insert"]
         \/ pc' = [pc EXCEPT ![i] = "idle"]
      /\ \A j \in Indexers \ {i} : job'[j] = job[j]
      /\ job' = job \/ pc' = [pc EXCEPT ![i] = "idle"]
  BY DEF MarkOld, Statement, WriteLocked, Finish, convert, Shape, IndexersOK
<1> HIDE DEF u
<1>2. bdicti \subseteq Rows /\ \A r \in Rows : /\ [r EXCEPT !.state = 0].state = 0
                                              /\ [r EXCEPT !.state = 0].url = r.url
  BY DEF Shape, TablesOK, Rows
<1>3. \A r \in bdicti' : \/ r \in bdicti /\ ~(r.url = u /\ r.state = 2)
                         \/ \E q \in bdicti : /\ q.url = u /\ q.state = 2
                                              /\ r = [q EXCEPT !.state = 0]
  BY <1>1 DEF SetState, RowsOf
<1>4. Pairs(bdicti)'
  <2>1. SUFFICES ASSUME NEW r \in bdicti', NEW q \in bdicti', r.url = q.url, r # q
                 PROVE  {r.state, q.state} = {0, 1}
    BY DEF Pairs
  <2>2. CASE r \in bdicti /\ q \in bdicti
    BY <2>1, <2>2 DEF Counts, Pairs
  <2>3. \A a, b \in bdicti : a.url = b.url /\ a.state = 2 => a = b
    <3>1. SUFFICES ASSUME NEW a \in bdicti, NEW b \in bdicti, a.url = b.url, a.state = 2, a # b
                   PROVE  FALSE
      OBVIOUS
    <3>2. {a.state, b.state} = {0, 1}
      BY <3>1 DEF Counts, Pairs
    <3> QED BY <3>1, <3>2
  <2>4. CASE r \notin bdicti
    <3>1. PICK p \in bdicti : p.url = u /\ p.state = 2 /\ r = [p EXCEPT !.state = 0]
      BY <1>3, <2>4
    <3>2. r.url = u
      BY <1>2, <3>1
    <3>3. CASE q \in bdicti /\ ~(q.url = u /\ q.state = 2)
      BY <2>1, <2>3, <3>1, <3>2, <3>3
    <3>4. CASE \E o \in bdicti : o.url = u /\ o.state = 2 /\ q = [o EXCEPT !.state = 0]
      BY <2>1, <2>3, <3>1, <3>4
    <3> QED BY <1>3, <3>3, <3>4
  <2>5. CASE q \notin bdicti
    <3>1. PICK p \in bdicti : p.url = u /\ p.state = 2 /\ q = [p EXCEPT !.state = 0]
      BY <1>3, <2>5
    <3>2. q.url = u
      BY <1>2, <3>1
    <3>3. CASE r \in bdicti /\ ~(r.url = u /\ r.state = 2)
      BY <2>1, <2>3, <3>1, <3>2, <3>3
    <3>4. CASE \E o \in bdicti : o.url = u /\ o.state = 2 /\ r = [o EXCEPT !.state = 0]
      BY <2>1, <2>3, <3>1, <3>4
    <3> QED BY <1>3, <3>3, <3>4
  <2> QED BY <2>2, <2>4, <2>5
<1>5. \A r \in bdicti' : r \in bdicti \/ (r.url = u /\ r.state = 0)
  BY <1>2, <1>3
<1>6. ASSUME NEW j \in Indexers PROVE Cleared(j)'
  <2>1. CASE j = i
    <3>1. \A r \in bdicti : ~(r.url = u /\ r.state = 1)
      BY <1>1 DEF Counts, Cleared, RowsOf, u
    <3>2. ASSUME NEW r \in bdicti', r.url = u PROVE r.state # 1 /\ r.state # 2
      <4>1. CASE r \in bdicti /\ ~(r.url = u /\ r.state = 2)
        BY <3>1, <3>2, <4>1
      <4>2. CASE \E q \in bdicti : r = [q EXCEPT !.state = 0]
        BY <1>2, <4>2
      <4> QED BY <1>3, <4>1, <4>2
    <3> QED BY <1>1, <2>1, <3>2 DEF Cleared, RowsOf, u, Shape, IndexersOK
  <2>2. CASE j # i
    BY <1>1, <1>5, <2>2, OthersCleared DEF u, Shape, IndexersOK
  <2> QED BY <2>1, <2>2
<1> QED BY <1>1, <1>4, <1>6 DEF Counts

\* A new row finds no other that counts.
LEMMA InsertCounts ==
    ASSUME Shape, Counts, NEW i \in Indexers, Insert(i)
    PROVE  Counts'
<1> DEFINE new == [url |-> job[i].url, state |-> 1, content |-> job[i].content]
<1>1. /\ pc[i] = "insert" /\ bdicti' = bdicti \cup {new}
      /\ conv' = conv /\ conv # "markConverted"
      /\ pc' = [pc EXCEPT ![i] = "idle"] /\ \A j \in Indexers \ {i} : job'[j] = job[j]
  BY DEF Insert, Statement, WriteLocked, Finish, convert, Shape, IndexersOK
<1>2. new.url = job[i].url /\ new.state = 1
  OBVIOUS
<1> HIDE DEF new
<1>3. \A r \in bdicti : r.url = new.url => r.state = 0
  <2>1. \A r \in bdicti : r.state \in {0, 1, 2}
    BY DEF Shape, TablesOK, Rows
  <2> QED BY <1>1, <1>2, <2>1 DEF Counts, Cleared, RowsOf
<1>4. Pairs(bdicti)'
  BY <1>1, <1>2, <1>3 DEF Counts, Pairs
<1>5. ASSUME NEW j \in Indexers PROVE Cleared(j)'
  <2>1. CASE j = i
    BY <1>1, <2>1 DEF Cleared, Shape, IndexersOK
  <2>2. CASE j # i
    BY <1>1, <1>2, <2>2, OthersCleared DEF Shape, IndexersOK
  <2> QED BY <2>1, <2>2
<1> QED BY <1>1, <1>4, <1>5 DEF Counts

\* Rows that a conversion marks: deleted ones have just gone.
LEMMA MarkConvertedCounts ==
    ASSUME Shape, Counts, MarkConverted
    PROVE  Counts'
<1>1. /\ conv = "markConverted" /\ conv' = "urlData" /\ pc' = pc /\ job' = job
      /\ bdicti' = {[r EXCEPT !.state = 2] : r \in bdicti}
  BY DEF MarkConverted, indexer
<1>2. bdicti \subseteq Rows /\ \A r \in Rows : /\ [r EXCEPT !.state = 2].state = 2
                                              /\ [r EXCEPT !.state = 2].url = r.url
  BY DEF Shape, TablesOK, Rows
<1>3. \A r, q \in bdicti : r.url = q.url => r = q
  BY <1>1 DEF Counts, Pairs
<1>4. \A r \in bdicti' : \E q \in bdicti : /\ r = [q EXCEPT !.state = 2]
                                           /\ r.state = 2 /\ r.url = q.url
  <2>1. SUFFICES ASSUME NEW r \in bdicti'
                 PROVE  \E q \in bdicti : /\ r = [q EXCEPT !.state = 2]
                                        /\ r.state = 2 /\ r.url = q.url
    OBVIOUS
  <2>2. PICK q \in bdicti : r = [q EXCEPT !.state = 2]
    BY <1>1
  <2> QED BY <1>2, <2>2
<1>5. Pairs(bdicti)'
  <2>1. \A r, q \in bdicti' : r.url = q.url => r = q
    BY <1>3, <1>4
  <2> QED BY <2>1 DEF Pairs
<1>6. ASSUME NEW i \in Indexers PROVE Cleared(i)'
  <2>1. \A r \in bdicti : r.state \in {1, 2}
    BY <1>1 DEF Shape, TablesOK, Rows, Counts
  <2>2. pc[i] = "insert" => \A r \in bdicti : r.url # job[i].url
    BY <2>1 DEF Counts, Cleared, RowsOf
  <2>3. \A r \in bdicti' : r.state = 2 /\ (pc[i] = "insert" => r.url # job[i].url)
    BY <1>4, <2>2
  <2> QED BY <1>1, <2>3 DEF Cleared, RowsOf
<1> QED BY <1>1, <1>5, <1>6 DEF Counts

LEMMA CountsInit == Init => Counts
<1>1. SUFFICES ASSUME Init PROVE Counts
  OBVIOUS
<1>2. \A r \in bdicti : \E u \in Converted : r = [url |-> u, state |-> 2, content |-> First]
  BY <1>1 DEF Init
<1>3. \A r, q \in bdicti : r.url = q.url => r = q
  BY <1>2
<1>4. Pairs(bdicti)
  BY <1>3 DEF Pairs
<1> QED BY <1>1, <1>4 DEF Init, Counts, Cleared

LEMMA CountsStep == Shape /\ Counts /\ [Next]_vars => Counts'
<1> SUFFICES ASSUME Shape, Counts, [Next]_vars PROVE Counts'
  OBVIOUS
<1>1. ASSUME NEW i \in Indexers, IndexerStep(i) PROVE Counts'
  <2>1. CASE DeleteRow(i)
    <3>1. /\ bdicti' = bdicti /\ conv' = conv /\ pc' = [pc EXCEPT ![i] = "idle"]
          /\ job' = [job EXCEPT ![i] = NoJob]
      BY <2>1 DEF DeleteRow, Finish, convert
    <3> QED BY <3>1 DEF Counts, Cleared, RowsOf, Shape, IndexersOK
  <2> QED BY <1>1, <2>1, DeleteNewCounts, MarkOldCounts, InsertCounts DEF IndexerStep
<1>2. ASSUME NEW i \in Indexers,
             IndexerFails(i) \/ \E u \in Urls, c \in Contents \cup {Gone} : Begin(i, u, c)
      PROVE  Counts'
  <2>1. /\ bdicti' = bdicti /\ conv' = conv
        /\ pc' = [pc EXCEPT ![i] = "idle"] \/ pc' = [pc EXCEPT ![i] = "deleteNew"]
        /\ \E n : job' = [job EXCEPT ![i] = n]
    BY <1>2 DEF IndexerFails, Begin, tables, convert
  <2> QED BY <2>1 DEF Counts, Cleared, RowsOf, Shape, IndexersOK
<1>3. CASE DeleteOld
  BY <1>3, FewerRows DEF DeleteOld, Counts, indexer
<1>4. CASE MarkConverted
  BY <1>4, MarkConvertedCounts
<1>5. CASE \/ StartConversion \/ GetTable \/ ConvertColumn \/ LockForWrite \/ WriteURL
           \/ DropTable \/ RenameTable \/ ConversionFails \/ UNCHANGED vars
           \/ \E u \in Urls : AddURL(u)
  <2>1. /\ bdicti' = bdicti /\ pc' = pc /\ job' = job
        /\ conv' = conv \/ conv' # "markConverted"
    BY <1>5 DEF StartConversion, GetTable, ConvertColumn, LockForWrite, WriteURL, DropTable,
                RenameTable, ConversionFails, AddURL, vars, tables, indexer, convert
  <2> QED BY <2>1, FewerRows DEF Counts
<1> QED BY <1>1, <1>2, <1>3, <1>4, <1>5 DEF Next, ConversionStep

LEMMA AtMostOne ==
    ASSUME NEW S, \A x, y \in S : x = y
    PROVE  Cardinality(S) <= 1
<1>1. CASE S = {}
  BY <1>1, FS_EmptySet
<1>2. ASSUME NEW x \in S PROVE Cardinality(S) <= 1
  <2>1. S = {x}
    OBVIOUS
  <2> QED BY <2>1, FS_Singleton
<1> QED BY <1>1, <1>2

\* A document is never found in two versions: whatever conversions, failures
\* and kills come between the statements that replace its row, it has one
\* that counts and one that is deleted at most.
THEOREM BlobOneRowCounts == Spec => []OneRowCounts
<1>1. Counts /\ Shape => OneRowCounts
  <2>1. SUFFICES ASSUME Counts, NEW u \in Urls
                 PROVE  /\ Cardinality(RowsOf(u, 1) \cup RowsOf(u, 2)) <= 1
                        /\ Cardinality(RowsOf(u, 0)) <= 1
    BY DEF OneRowCounts
  <2>2. \A r, q \in bdicti : r.url = q.url /\ r # q => 0 \in {r.state, q.state} /\ r.state # q.state
    BY <2>1 DEF Counts, Pairs
  <2>3. \A x, y \in RowsOf(u, 1) \cup RowsOf(u, 2) : x = y
    BY <2>2 DEF RowsOf
  <2>4. \A x, y \in RowsOf(u, 0) : x = y
    BY <2>2 DEF RowsOf
  <2> QED BY <2>3, <2>4, AtMostOne
<1>2. Spec => []Shape
  BY ShapeInit, ShapeStep, PTL DEF Spec
<1>3. Spec => []Counts
  BY CountsInit, <1>2, CountsStep, PTL DEF Spec
<1> QED BY <1>1, <1>2, <1>3, PTL

-----------------------------------------------------------------------------
(* What a search finds.                                                    *)

\* The rows of document u that say what it contains.
Counting(u) == RowsOf(u, 1) \cup RowsOf(u, 2)

\* An indexer has what the document was last found to contain, and writes a
\* document without words or a removed one only when its rows are gone.
JobIs(i) == pc[i] # "idle" =>
    /\ job[i].url \in rows
    /\ job[i].content = content[job[i].url]
    /\ pc[i] = "insert" => job[i].content # Gone
    /\ pc[i] = "deleteRow" => job[i].content = Gone /\ Counting(job[i].url) = {}

\* bdicti says what document u contains.
Right(u) == /\ \A r \in Counting(u) : r.content = content[u]
            /\ Counting(u) = {} => TextOf(content[u]) = {}
            /\ u \notin rows => content[u] = Gone

Written == /\ \A i \in Indexers : JobIs(i)
           /\ \A r \in bdicti : r.state # 0 => r.url \in rows
           /\ \A u \in Urls : Busy(u) \/ u \in stale \/ Right(u)

\* An index has the words T of document u that its converted row says, and
\* none of a document with no converted or deleted row.
Sync(u, T) ==
    /\ \A r \in RowsOf(u, 2), w \in Words, c \in Contents :
           <<u, w, c>> \in T <=> c = r.content /\ w \in Text[c]
    /\ RowsOf(u, 2) \cup RowsOf(u, 0) = {} =>
           \A w \in Words, c \in Contents : <<u, w, c>> \notin T

\* A conversion has copied the words K of document u.
Copied(u, K) == \A w \in Words, c \in Contents :
    <<u, w, c>> \in tmp.words <=> w \in K /\ \E r \in Counting(u) : r.content = c /\ w \in Text[c]

Index(u) == bdict.there /\ u \notin late =>
    Sync(u, bdict.words) /\ (RowsOf(u, 2) # {} => u \in bdict.recs)

\* The index a conversion writes, of a document that is not updated meanwhile.
NextIndex(u) ==
    /\ conv \in {"drop", "rename"} /\ RowsOf(u, 2) # {} => u \in tmp.recs
    /\ u \notin touched =>
         /\ conv \in {"urlData", "drop", "rename"} => Sync(u, tmp.words)
         /\ conv \in {"gap", "deleteOld", "markConverted"} => Copied(u, Words)
         /\ conv = "words" => Copied(u, {k \in Words : k < col})
         /\ Converting /\ Counting(u) # {} => u \in list

Indexed == \A u \in Urls : Index(u) /\ NextIndex(u)

LEMMA SearchInit == Init => Written /\ Indexed
<1> SUFFICES ASSUME Init PROVE Written /\ Indexed
  OBVIOUS
<1>1. \A r \in bdicti : r.state = 2 /\ r.content = First /\ r.url \in Converted
  BY DEF Init
<1>2. \A u \in Converted : [url |-> u, state |-> 2, content |-> First] \in bdicti
  BY DEF Init
<1>3. Written
  <2>1. ASSUME NEW u \in Urls PROVE Right(u)
    <3>1. \A r \in Counting(u) : r.content = content[u]
      BY <1>1 DEF Init, Counting, RowsOf
    <3>2. CASE u \in Converted
      <4>1. [url |-> u, state |-> 2, content |-> First] \in RowsOf(u, 2)
        BY <1>2, <3>2 DEF RowsOf
      <4>2. Counting(u) # {} /\ u \in rows
        BY <3>2, <4>1 DEF Init, Counting
      <4> QED BY <3>1, <4>2 DEF Right
    <3>3. CASE u \notin Converted
      BY <3>1, <3>3 DEF Init, Right, TextOf
    <3> QED BY <3>2, <3>3
  <2> QED BY <1>1, <2>1 DEF Init, Written, JobIs
<1>4. Indexed
  <2>1. ASSUME NEW u \in Urls PROVE Index(u)
    <3>1. ASSUME NEW w \in Words, NEW c \in Contents
          PROVE  <<u, w, c>> \in bdict.words <=> u \in Converted /\ c = First /\ w \in Text[c]
      BY <3>1 DEF Init
    <3>2. RowsOf(u, 2) # {} <=> u \in Converted
      <4>1. ASSUME u \in Converted PROVE RowsOf(u, 2) # {}
        <5>1. [url |-> u, state |-> 2, content |-> First] \in RowsOf(u, 2)
          BY <1>2, <4>1 DEF RowsOf
        <5> QED BY <5>1
      <4> QED BY <1>1, <4>1 DEF RowsOf
    <3>3. \A r \in RowsOf(u, 2) : r.content = First
      BY <1>1 DEF RowsOf
    <3>4. Sync(u, bdict.words)
      BY <3>1, <3>2, <3>3 DEF Sync
    <3> QED BY <3>2, <3>4 DEF Init, Index
  <2> QED BY <2>1 DEF Init, Indexed, NextIndex, Converting
<1> QED BY <1>3, <1>4

\* Statements of i, and of others that change only its document.
LEMMA BeginWritten ==
    ASSUME Shape, Written, NEW i \in Indexers, NEW u \in Urls, NEW c \in Contents \cup {Gone},
           Begin(i, u, c)
    PROVE  Written'
<1>1. /\ u \in rows /\ ~Busy(u)
      /\ pc' = [pc EXCEPT ![i] = "deleteNew"]
      /\ job' = [job EXCEPT ![i] = [url |-> u, content |-> c]]
      /\ content' = [content EXCEPT ![u] = c]
      /\ rows' = rows /\ bdicti' = bdicti /\ stale' = stale /\ pc[i] = "idle"
  BY DEF Begin, tables
<1>2. /\ pc'[i] = "deleteNew" /\ job'[i] = [url |-> u, content |-> c]
      /\ \A j \in Indexers \ {i} : pc'[j] = pc[j] /\ job'[j] = job[j]
      /\ content'[u] = c /\ \A v \in Urls \ {u} : content'[v] = content[v]
  BY <1>1 DEF Shape, IndexersOK, HistoryOK
<1>3. ASSUME NEW j \in Indexers PROVE JobIs(j)'
  <2>1. CASE j = i
    BY <1>1, <1>2, <2>1 DEF JobIs
  <2>2. CASE j # i
    <3>1. pc[j] # "idle" => job[j].url # u /\ job[j].url \in Urls
      BY <1>1 DEF Busy, Shape, IndexersOK, Works
    <3> QED BY <1>1, <1>2, <2>2, <3>1 DEF JobIs, Counting, RowsOf, Written
  <2> QED BY <2>1, <2>2
<1>4. ASSUME NEW v \in Urls PROVE Busy(v)' \/ v \in stale' \/ Right(v)'
  <2>1. CASE v = u
    BY <1>2, <2>1 DEF Busy
  <2>2. CASE v # u
    <3>1. Busy(v) => Busy(v)'
      BY <1>1, <1>2 DEF Busy
    <3> QED BY <1>1, <1>2, <2>2, <3>1 DEF Written, Right, Counting, RowsOf, TextOf
  <2> QED BY <2>1, <2>2
<1> QED BY <1>1, <1>3, <1>4 DEF Written

\* A statement of i changes what the tables have of its document alone.
LEMMA OthersWritten ==
    ASSUME Shape, Written, NEW i \in Indexers, pc[i] # "idle",
           content' = content, stale \ {job[i].url} \subseteq stale',
           \A j \in Indexers \ {i} : pc'[j] = pc[j] /\ job'[j] = job[j],
           \A v \in Urls \ {job[i].url} : /\ v \in rows' <=> v \in rows
                                          /\ \A r : r.url = v => (r \in bdicti' <=> r \in bdicti)
    PROVE  /\ \A j \in Indexers \ {i} : JobIs(j)'
           /\ \A v \in Urls \ {job[i].url} : Busy(v)' \/ v \in stale' \/ Right(v)'
<1>1. ASSUME NEW j \in Indexers \ {i} PROVE JobIs(j)'
  <2>1. pc[j] # "idle" => job[j].url \in Urls \ {job[i].url}
    BY DEF Shape, IndexersOK, Works
  <2> QED BY <2>1 DEF Written, JobIs, Counting, RowsOf
<1>2. ASSUME NEW v \in Urls \ {job[i].url} PROVE Busy(v)' \/ v \in stale' \/ Right(v)'
  <2>1. Busy(v) => Busy(v)'
    BY DEF Busy
  <2>2. Right(v) => Right(v)'
    BY DEF Right, Counting, RowsOf, TextOf
  <2> QED BY <2>1, <2>2 DEF Written
<1> QED BY <1>1, <1>2

LEMMA IndexerWritten ==
    ASSUME Shape, Counts, Written, NEW i \in Indexers, IndexerStep(i)
    PROVE  Written'
<1>0. pc[i] # "idle" /\ job[i].url \in Urls
  BY DEF Shape, IndexersOK, Works, IndexerStep, DeleteNew, MarkOld, Insert, DeleteRow, Statement
<1> PICK u \in Urls : u = job[i].url
  BY <1>0
<1>1. /\ pc[i] # "idle" /\ content' = content
      /\ stale \ {u} \subseteq stale' /\ stale' \subseteq stale
      /\ \A j \in Indexers \ {i} : pc'[j] = pc[j] /\ job'[j] = job[j]
  BY DEF Shape, IndexersOK, Works, IndexerStep, DeleteNew, MarkOld, Insert, DeleteRow,
         Statement, Finish
<1>2. JobIs(i) /\ Cleared(i) /\ bdicti \subseteq Rows
  BY DEF Written, Counts, Shape, TablesOK
<1>3. CASE DeleteNew(i)
  <2>1. /\ rows' = rows /\ bdicti' = bdicti \ RowsOf(u, 1) /\ job' = job
        /\ pc'[i] = "markOld" /\ stale' = stale
    BY <1>3 DEF DeleteNew, Shape, IndexersOK
  <2>2. \A v \in Urls \ {u} : \A r : r.url = v => (r \in bdicti' <=> r \in bdicti)
    BY <2>1 DEF RowsOf
  <2>3. JobIs(i)' /\ Busy(u)'
    BY <1>1, <1>2, <2>1 DEF JobIs, Busy
  <2> QED BY <1>1, <2>1, <2>2, <2>3, OthersWritten DEF Written
<1>4. CASE DeleteRow(i)
  <2>1. /\ rows' = rows \ {u} /\ bdicti' = bdicti /\ pc'[i] = "idle"
        /\ content[u] = Gone /\ Counting(u) = {}
    BY <1>2, <1>4 DEF DeleteRow, Finish, Shape, IndexersOK, JobIs
  <2>2. JobIs(i)' /\ Right(u)'
    BY <1>1, <2>1 DEF JobIs, Right, Counting, RowsOf, TextOf
  <2>3. \A r \in bdicti' : r.state # 0 => r.url \in rows'
    BY <2>1, <1>2 DEF Written, Counting, RowsOf, Rows
  <2> QED BY <1>1, <2>1, <2>2, <2>3, OthersWritten DEF Written
<1>5. CASE Insert(i)
  <2> DEFINE new == [url |-> u, state |-> 1, content |-> job[i].content]
  <2>1. /\ rows' = rows /\ bdicti' = bdicti \cup {new} /\ pc'[i] = "idle"
        /\ RowsOf(u, 1) \cup RowsOf(u, 2) = {}
        /\ u \in rows /\ content[u] = job[i].content
    BY <1>2, <1>5 DEF Insert, Statement, Finish, Shape, IndexersOK, JobIs, Cleared
  <2>2. new.url = u /\ new.state = 1 /\ new.content = content[u]
    BY <2>1
  <2> HIDE DEF new
  <2>3. JobIs(i)' /\ Right(u)'
    <3>1. Counting(u)' = {new}
      BY <2>1, <2>2 DEF Counting, RowsOf
    <3> QED BY <1>1, <2>1, <2>2, <3>1 DEF JobIs, Right
  <2>4. \A v \in Urls \ {u} : \A r : r.url = v => (r \in bdicti' <=> r \in bdicti)
    BY <2>1, <2>2
  <2>5. \A r \in bdicti' : r.state # 0 => r.url \in rows'
    BY <2>1, <2>2 DEF Written
  <2> QED BY <1>1, <2>1, <2>3, <2>4, <2>5, OthersWritten DEF Written
<1>6. CASE MarkOld(i)
  <2>1. /\ rows' = rows /\ bdicti' = SetState(2, 0, u) /\ RowsOf(u, 1) = {}
        /\ u \in rows /\ content[u] = job[i].content
        /\ \/ job[i].content = Gone /\ pc'[i] = "deleteRow" /\ job' = job
           \/ job[i].content # Gone /\ pc'[i] = "insert" /\ job' = job
           \/ TextOf(content[u]) = {} /\ pc'[i] = "idle"
    BY <1>2, <1>6 DEF MarkOld, Statement, Finish, Shape, IndexersOK, JobIs, Cleared
  <2>2. \A r \in bdicti' : \/ r \in bdicti /\ ~(r.url = u /\ r.state = 2)
                           \/ r.url = u /\ r.state = 0
    <3>1. \A r \in Rows : [r EXCEPT !.state = 0].state = 0 /\ [r EXCEPT !.state = 0].url = r.url
      BY DEF Rows
    <3>2. \A r \in bdicti' : \/ r \in bdicti /\ ~(r.url = u /\ r.state = 2)
                             \/ \E q \in bdicti : q.url = u /\ r = [q EXCEPT !.state = 0]
      BY <2>1 DEF SetState, RowsOf
    <3>3. \A q \in bdicti : q.url = u => /\ [q EXCEPT !.state = 0].state = 0
                                        /\ [q EXCEPT !.state = 0].url = u
      BY <1>2, <3>1
    <3>4. ASSUME NEW q \in bdicti, q.url = u, NEW r, r = [q EXCEPT !.state = 0]
          PROVE  r.url = u /\ r.state = 0
      BY <3>3, <3>4
    <3> QED BY <3>2, <3>4
  <2>3. \A r \in bdicti : ~(r.url = u /\ r.state = 2) => r \in bdicti'
    BY <2>1 DEF SetState, RowsOf
  <2>4. Counting(u)' = {}
    BY <2>1, <2>2 DEF Counting, RowsOf
  <2>5. JobIs(i)' /\ (Busy(u)' \/ Right(u)')
    BY <1>1, <2>1, <2>4 DEF JobIs, Right, Busy
  <2>6. \A v \in Urls \ {u} : \A r : r.url = v => (r \in bdicti' <=> r \in bdicti)
    BY <2>2, <2>3
  <2>7. \A r \in bdicti' : r.state # 0 => r.url \in rows'
    BY <2>1, <2>2 DEF Written
  <2> QED BY <1>1, <2>1, <2>5, <2>6, <2>7, OthersWritten DEF Written
<1> QED BY <1>3, <1>4, <1>5, <1>6 DEF IndexerStep

\* A conversion leaves what bdicti says of the documents as it is.
LEMMA SameWritten ==
    ASSUME Shape, Written, rows' = rows, pc' = pc, job' = job, content' = content, stale' = stale,
           bdicti' \subseteq Rows,
           \A r \in bdicti' : r.state # 0 => \E q \in bdicti :
               q.state # 0 /\ q.url = r.url /\ q.content = r.content,
           \A q \in bdicti : q.state # 0 => \E r \in bdicti' :
               r.state # 0 /\ q.url = r.url /\ q.content = r.content
    PROVE  Written'
<1>1. /\ bdicti \subseteq Rows /\ \A r \in Rows : r.state # 0 <=> r.state \in {1, 2}
  BY DEF Shape, TablesOK, Rows
<1>2. ASSUME NEW u PROVE Counting(u)' = {} <=> Counting(u) = {}
  BY <1>1 DEF Counting, RowsOf
<1>3. ASSUME NEW u PROVE \A r \in Counting(u)' : \E q \in Counting(u) : q.content = r.content
  BY <1>1 DEF Counting, RowsOf
<1>4. ASSUME NEW i \in Indexers PROVE JobIs(i)'
  BY <1>2 DEF Written, JobIs
<1>5. ASSUME NEW u \in Urls PROVE Busy(u)' \/ u \in stale' \/ Right(u)'
  <2>1. Busy(u) => Busy(u)'
    BY DEF Busy
  <2>2. Right(u) => Right(u)'
    BY <1>2, <1>3 DEF Right, TextOf
  <2> QED BY <2>1, <2>2 DEF Written
<1> QED BY <1>4, <1>5 DEF Written

LEMMA WrittenStep == Shape /\ Shape' /\ Counts /\ Written /\ [Next]_vars => Written'
<1> SUFFICES ASSUME Shape, Shape', Counts, Written, [Next]_vars PROVE Written'
  OBVIOUS
<1>1. ASSUME NEW i \in Indexers,
             IndexerStep(i) \/ \E u \in Urls, c \in Contents \cup {Gone} : Begin(i, u, c)
      PROVE  Written'
  BY <1>1, IndexerWritten, BeginWritten
<1>2. ASSUME NEW i \in Indexers, IndexerFails(i) PROVE Written'
  <2>1. /\ pc[i] # "idle" /\ content' = content /\ rows' = rows /\ bdicti' = bdicti
        /\ stale' = stale \cup {job[i].url} /\ pc'[i] = "idle"
        /\ \A j \in Indexers \ {i} : pc'[j] = pc[j] /\ job'[j] = job[j]
    BY <1>2 DEF IndexerFails, tables, Shape, IndexersOK
  <2>2. JobIs(i)'
    BY <2>1 DEF JobIs
  <2> QED BY <2>1, <2>2, OthersWritten DEF Written
<1>3. ASSUME NEW u \in Urls, AddURL(u) PROVE Written'
  <2>1. /\ rows' = rows \cup {u} /\ bdicti' = bdicti /\ pc' = pc /\ job' = job
        /\ content' = content /\ stale' = stale
    BY <1>3 DEF AddURL, indexer, history
  <2>2. \A v \in Urls : Busy(v) \/ v \in stale \/ Right(v)'
    BY <2>1 DEF Written, Right, Counting, RowsOf, TextOf
  <2>3. \A i \in Indexers : JobIs(i)'
    BY <2>1 DEF Written, JobIs, Counting, RowsOf
  <2>4. \A v \in Urls : Busy(v) => Busy(v)'
    BY <2>1 DEF Busy
  <2> QED BY <2>1, <2>2, <2>3, <2>4 DEF Written
<1>4. CASE DeleteOld
  BY <1>4, SameWritten DEF DeleteOld, indexer, Shape, TablesOK
<1>5. CASE MarkConverted
  <2>1. /\ rows' = rows /\ pc' = pc /\ job' = job /\ content' = content /\ stale' = stale
        /\ bdicti' = {[r EXCEPT !.state = 2] : r \in bdicti}
        /\ \A r \in bdicti : r.state # 0
    BY <1>5 DEF MarkConverted, indexer, Counts
  <2>2. bdicti \subseteq Rows /\ bdicti' \subseteq Rows
    BY DEF Shape, TablesOK, Rows
  <2>3. \A r \in bdicti : /\ [r EXCEPT !.state = 2].state = 2
                          /\ [r EXCEPT !.state = 2].url = r.url
                          /\ [r EXCEPT !.state = 2].content = r.content
    BY <2>2 DEF Rows
  <2>4. \A r \in bdicti' : \E q \in bdicti : q.url = r.url /\ q.content = r.content
    <3>1. SUFFICES ASSUME NEW r \in bdicti'
                   PROVE  \E q \in bdicti : q.url = r.url /\ q.content = r.content
      OBVIOUS
    <3>2. PICK q \in bdicti : r = [q EXCEPT !.state = 2]
      BY <2>1
    <3> QED BY <2>3, <3>2
  <2>5. \A q \in bdicti : \E r \in bdicti' : /\ r.state # 0 /\ q.url = r.url
                                             /\ q.content = r.content
    <3>1. SUFFICES ASSUME NEW q \in bdicti
                   PROVE  \E r \in bdicti' : /\ r.state # 0 /\ q.url = r.url
                                             /\ q.content = r.content
      OBVIOUS
    <3>2. [q EXCEPT !.state = 2] \in bdicti'
      BY <2>1
    <3>3. [q EXCEPT !.state = 2].state # 0
      BY <2>3
    <3> QED BY <2>3, <3>2, <3>3
  <2> QED BY <2>1, <2>2, <2>4, <2>5, SameWritten
<1>6. CASE \/ StartConversion \/ GetTable \/ ConvertColumn \/ LockForWrite \/ WriteURL
           \/ DropTable \/ RenameTable \/ ConversionFails \/ UNCHANGED vars
  <2>1. /\ rows' = rows /\ bdicti' = bdicti /\ pc' = pc /\ job' = job
        /\ content' = content /\ stale' = stale
    BY <1>6 DEF StartConversion, GetTable, ConvertColumn, LockForWrite, WriteURL, DropTable,
                RenameTable, ConversionFails, vars, tables, indexer, history
  <2> QED BY <2>1, SameWritten DEF Shape, TablesOK
<1> QED BY <1>1, <1>2, <1>3, <1>4, <1>5, <1>6 DEF Next, ConversionStep

\* Statements on bdicti: documents indexed while a conversion runs are
\* touched, and the converted and deleted rows of the others stay.
LEMMA IndexerIndexed ==
    ASSUME Shape, Counts, Indexed, NEW i \in Indexers, IndexerStep(i)
    PROVE  Indexed'
<1>0. pc[i] # "idle" /\ job[i].url \in Urls
  BY DEF Shape, IndexersOK, Works, IndexerStep, DeleteNew, MarkOld, Insert, DeleteRow, Statement
<1> PICK u \in Urls : u = job[i].url
  BY <1>0
<1>1. /\ bdict' = bdict /\ tmp' = tmp /\ conv' = conv /\ col' = col /\ list' = list
      /\ late' = late /\ touched \subseteq touched'
  BY DEF IndexerStep, DeleteNew, MarkOld, Insert, DeleteRow, Statement, convert
<1>2. ASSUME NEW v \in Urls, \A r : r.url = v => (r \in bdicti' <=> r \in bdicti)
      PROVE  Index(v)' /\ NextIndex(v)'
  <2>1. \A s : RowsOf(v, s)' = RowsOf(v, s)
    BY <1>2 DEF RowsOf
  <2>2. Counting(v)' = Counting(v)
    BY <2>1 DEF Counting
  <2>3. \A T : Sync(v, T) => Sync(v, T)'
    BY <2>1 DEF Sync
  <2>4. \A K : Copied(v, K) => Copied(v, K)'
    BY <1>1, <2>2 DEF Copied
  <2>5. Index(v)'
    BY <1>1, <2>1, <2>3 DEF Indexed, Index
  <2>6. NextIndex(v)'
    BY <1>1, <2>1, <2>2, <2>3, <2>4 DEF Indexed, NextIndex, Converting
  <2> QED BY <2>5, <2>6
<1>3. CASE DeleteRow(i)
  BY <1>2, <1>3 DEF DeleteRow, Indexed
<1>4. CASE ~DeleteRow(i)
  <2>1. conv # "words" /\ (Converting => u \in touched')
    BY <1>4 DEF IndexerStep, DeleteNew, MarkOld, Insert, Statement, ReadLocked
  <2>2. \A v \in Urls \ {u} : \A r : r.url = v => (r \in bdicti' <=> r \in bdicti)
    <3>1. CASE DeleteNew(i) \/ Insert(i)
      BY <3>1 DEF DeleteNew, Insert, RowsOf
    <3>2. CASE MarkOld(i)
      <4>1. bdicti \subseteq Rows /\ \A r \in Rows : [r EXCEPT !.state = 0].url = r.url
        BY DEF Shape, TablesOK, Rows
      <4>2. bdicti' = SetState(2, 0, u)
        BY <3>2 DEF MarkOld
      <4>3. \A r : r \in bdicti' => r \in bdicti \/ \E q \in bdicti : /\ q.url = u
                                                          /\ r = [q EXCEPT !.state = 0]
        BY <4>2 DEF SetState, RowsOf
      <4>4. \A r : r \in bdicti /\ r.url # u => r \in bdicti'
        BY <4>2 DEF SetState, RowsOf
      <4>5. \A q \in bdicti : q.url = u => [q EXCEPT !.state = 0].url = u
        BY <4>1
      <4> QED BY <4>3, <4>4, <4>5
    <3> QED BY <1>4, <3>1, <3>2 DEF IndexerStep
  <2>3. /\ RowsOf(u, 2) \cup RowsOf(u, 0) = {} <=> (RowsOf(u, 2) \cup RowsOf(u, 0))' = {}
        /\ RowsOf(u, 2)' \subseteq RowsOf(u, 2)
    <3>1. CASE DeleteNew(i) \/ Insert(i)
      <4>1. RowsOf(u, 2)' = RowsOf(u, 2) /\ RowsOf(u, 0)' = RowsOf(u, 0)
        BY <3>1 DEF DeleteNew, Insert, RowsOf
      <4> QED BY <4>1
    <3>2. CASE MarkOld(i)
      <4>1. bdicti \subseteq Rows /\ \A r \in Rows : /\ [r EXCEPT !.state = 0].url = r.url
                                                    /\ [r EXCEPT !.state = 0].state = 0
        BY DEF Shape, TablesOK, Rows
      <4>2. bdicti' = SetState(2, 0, u)
        BY <3>2 DEF MarkOld
      <4>3. \A r \in bdicti' : \/ r \in bdicti /\ ~(r.url = u /\ r.state = 2)
                               \/ \E q \in bdicti : /\ q.url = u /\ q.state = 2
                                                    /\ r = [q EXCEPT !.state = 0]
        BY <4>2 DEF SetState, RowsOf
      <4>4. \A r \in bdicti' : \/ r \in bdicti /\ ~(r.url = u /\ r.state = 2)
                               \/ r.state = 0 /\ \E q \in bdicti : q.url = u /\ q.state = 2
        BY <4>1, <4>3
      <4>5. \A q \in bdicti : q.url = u /\ q.state = 0 => q \in bdicti'
        BY <4>2 DEF SetState, RowsOf
      <4>6. \A q \in bdicti : q.url = u /\ q.state = 2 => [q EXCEPT !.state = 0] \in bdicti'
        BY <4>2 DEF SetState, RowsOf
      <4>7. \A q \in bdicti : q.url = u /\ q.state = 2 =>
                \E r \in bdicti' : r.url = u /\ r.state = 0
        BY <4>1, <4>6
      <4> QED BY <4>4, <4>5, <4>7 DEF RowsOf
    <3> QED BY <1>4, <3>1, <3>2 DEF IndexerStep
  <2>4. \A T : Sync(u, T) => Sync(u, T)'
    BY <2>3 DEF Sync
  <2>5. Index(u)'
    BY <1>1, <2>3, <2>4 DEF Indexed, Index
  <2>6. NextIndex(u)'
    BY <1>1, <2>1, <2>3, <2>4 DEF Indexed, NextIndex, Converting
  <2> QED BY <1>2, <2>2, <2>5, <2>6 DEF Indexed
<1> QED BY <1>3, <1>4

\* A column is copied for the documents that are in the list.
LEMMA ConvertColumnIndexed ==
    ASSUME Shape, Indexed, ConvertColumn
    PROVE  Indexed'
<1>1. /\ conv = "words" /\ bdicti' = bdicti /\ bdict' = bdict /\ late' = late
      /\ list' = list /\ touched' = touched
      /\ tmp' = [tmp EXCEPT !.words = tmp.words \cup ColumnWords(col)]
      /\ \/ col < Columns /\ col' = col + 1 /\ conv' = "words"
         \/ col = Columns /\ conv' = "gap"
  BY DEF ConvertColumn, history
<1>2. tmp'.words = tmp.words \cup ColumnWords(col)
  BY <1>1 DEF Shape, TablesOK, Table
<1> DEFINE K == {k \in Words : k <= col}
<1>3. ASSUME NEW u \in Urls, u \notin touched
      PROVE  \A w \in Words, c \in Contents :
                 <<u, w, c>> \in tmp'.words <=>
                     w \in K /\ \E r \in Counting(u) : r.content = c /\ w \in Text[c]
  <2>1. /\ Copied(u, {k \in Words : k < col}) /\ (Counting(u) # {} => u \in list)
        /\ bdicti \subseteq Rows
    BY <1>1, <1>3 DEF Indexed, NextIndex, Converting, Shape, TablesOK
  <2>2. Counting(u) = {r \in bdicti : r.url = u /\ r.state > 0}
    BY <2>1 DEF Counting, RowsOf, Rows
  <2>3. ASSUME NEW w \in Words, NEW c \in Contents
        PROVE  <<u, w, c>> \in ColumnWords(col) <=>
                   w = col /\ \E r \in Counting(u) : r.content = c /\ w \in Text[c]
    BY <2>1, <2>2 DEF ColumnWords
  <2>4. \A w \in Words : w \in K <=> w < col \/ w = col
    BY TextAssumption DEF Words, Shape, ConvertOK
  <2> QED BY <1>2, <2>1, <2>3, <2>4 DEF Copied
<1>4. ASSUME NEW u \in Urls, u \notin touched, conv' = "words"
      PROVE  Copied(u, {k \in Words : k < col})'
  <2>1. {k \in Words : k < col'} = K
    BY <1>1, <1>4, TextAssumption DEF Words, Shape, ConvertOK
  <2> QED BY <1>1, <1>3, <1>4, <2>1 DEF Copied, Counting, RowsOf
<1>5. ASSUME NEW u \in Urls, u \notin touched, conv' = "gap"
      PROVE  Copied(u, Words)'
  <2>1. Words = K
    BY <1>1, <1>5, TextAssumption DEF Words
  <2> QED BY <1>1, <1>3, <1>5, <2>1 DEF Copied, Counting, RowsOf
<1>6. ASSUME NEW u \in Urls PROVE Index(u)'
  BY <1>1 DEF Indexed, Index, Sync, RowsOf
<1>7. ASSUME NEW u \in Urls PROVE NextIndex(u)'
  BY <1>1, <1>4, <1>5 DEF Indexed, NextIndex, Converting, Counting, RowsOf
<1> QED BY <1>6, <1>7 DEF Indexed

\* The rows a document has were new or converted when it was copied; if they
\* are all converted now, the index says the same.
LEMMA MarkConvertedIndexed ==
    ASSUME Shape, Counts, Indexed, MarkConverted
    PROVE  Indexed'
<1>1. /\ conv = "markConverted" /\ conv' = "urlData" /\ bdict' = bdict /\ tmp' = tmp
      /\ touched' = touched
      /\ bdicti' = {[r EXCEPT !.state = 2] : r \in bdicti}
      /\ late' = late \cup {r.url : r \in {q \in bdicti : q.state = 1}}
  BY DEF MarkConverted
<1>2. /\ bdicti \subseteq Rows
      /\ \A r \in bdicti : /\ [r EXCEPT !.state = 2].state = 2
                           /\ [r EXCEPT !.state = 2].url = r.url
                           /\ [r EXCEPT !.state = 2].content = r.content
  BY DEF Shape, TablesOK, Rows
<1>3. \A r, q \in bdicti : r.url = q.url => r = q
  BY <1>1 DEF Counts, Pairs
<1>4. \A r \in bdicti : r.state \in {1, 2}
  BY <1>1, <1>2 DEF Counts, Rows
<1>5. \A r \in bdicti' : \E q \in bdicti : r = [q EXCEPT !.state = 2]
  BY <1>1
<1>6. \A r \in bdicti' : \E q \in bdicti : /\ q.url = r.url /\ q.content = r.content
                                           /\ r.state = 2
  <2>1. SUFFICES ASSUME NEW r \in bdicti'
                 PROVE  \E q \in bdicti : /\ q.url = r.url /\ q.content = r.content
                                         /\ r.state = 2
    OBVIOUS
  <2>2. PICK q \in bdicti : r = [q EXCEPT !.state = 2]
    BY <1>5
  <2>3. r.state = 2 /\ r.url = q.url /\ r.content = q.content
    BY <1>2, <2>2
  <2> QED BY <2>3
<1>7. \A q \in bdicti : [q EXCEPT !.state = 2] \in bdicti'
  BY <1>1
<1>8. \A q \in bdicti : \E r \in bdicti' : /\ q.url = r.url /\ q.content = r.content
                                           /\ r.state = 2
  BY <1>2, <1>7
<1>9. ASSUME NEW u \in Urls PROVE Index(u)'
  <2>1. SUFFICES ASSUME bdict.there, u \notin late'
                 PROVE  (Sync(u, bdict.words) /\ (RowsOf(u, 2) # {} => u \in bdict.recs))'
    BY <1>1 DEF Index
  <2>2. \A r \in bdicti : r.url = u => r.state = 2
    BY <1>1, <1>4, <2>1
  <2>3. (RowsOf(u, 2) = {} <=> RowsOf(u, 2)' = {}) /\ RowsOf(u, 0) = {}
    BY <1>6, <1>8, <2>2 DEF RowsOf
  <2>4. \A r \in RowsOf(u, 2)' : \E q \in RowsOf(u, 2) : q.content = r.content
    BY <1>6, <2>2 DEF RowsOf
  <2>5. Sync(u, bdict.words) /\ (RowsOf(u, 2) # {} => u \in bdict.recs)
    BY <1>1, <2>1 DEF Indexed, Index
  <2>6. Sync(u, bdict.words)'
    BY <1>1, <2>3, <2>4, <2>5 DEF Sync
  <2> QED BY <1>1, <2>3, <2>5, <2>6
<1>10. ASSUME NEW u \in Urls PROVE NextIndex(u)'
  <2>1. ASSUME u \notin touched PROVE Sync(u, tmp.words)'
    <3>1. Copied(u, Words)
      BY <1>1, <2>1 DEF Indexed, NextIndex
    <3>2. \A r \in RowsOf(u, 2)' : \E q \in Counting(u) : q.content = r.content
      BY <1>4, <1>6 DEF RowsOf, Counting
    <3>3. \A r, q \in Counting(u) : r = q
      BY <1>3 DEF Counting, RowsOf
    <3>4. RowsOf(u, 2)' = {} => Counting(u) = {}
      BY <1>8 DEF Counting, RowsOf
    <3>5. ASSUME NEW r \in RowsOf(u, 2)', NEW w \in Words, NEW c \in Contents
          PROVE  <<u, w, c>> \in tmp.words <=> c = r.content /\ w \in Text[c]
      <4>1. PICK q \in Counting(u) : q.content = r.content
        BY <3>2
      <4> QED BY <3>1, <3>3, <4>1 DEF Copied
    <3>6. RowsOf(u, 2)' = {} => \A w \in Words, c \in Contents : <<u, w, c>> \notin tmp.words
      BY <3>1, <3>4 DEF Copied
    <3> QED BY <1>1, <3>5, <3>6 DEF Sync
  <2> QED BY <1>1, <2>1 DEF NextIndex, Converting
<1> QED BY <1>9, <1>10 DEF Indexed

LEMMA DeleteOldIndexed ==
    ASSUME Indexed, DeleteOld
    PROVE  Indexed'
<1>1. /\ conv = "deleteOld" /\ conv' = "markConverted" /\ bdict' = bdict /\ tmp' = tmp
      /\ touched' = touched /\ list' = list
      /\ bdicti' = {r \in bdicti : r.state # 0}
      /\ late' = late \cup {r.url : r \in {q \in bdicti : q.state = 0}}
  BY DEF DeleteOld
<1>2. \A u : RowsOf(u, 2)' = RowsOf(u, 2) /\ Counting(u)' = Counting(u) /\ RowsOf(u, 0)' = {}
  BY <1>1 DEF RowsOf, Counting
<1>3. ASSUME NEW u \in Urls PROVE Index(u)'
  <2>1. u \notin late' => u \notin late /\ RowsOf(u, 0) = {}
    BY <1>1 DEF RowsOf
  <2> QED BY <1>1, <1>2, <1>3, <2>1 DEF Indexed, Index, Sync
<1>4. ASSUME NEW u \in Urls PROVE NextIndex(u)'
  BY <1>1, <1>2, <1>4 DEF Indexed, NextIndex, Converting, Copied
<1> QED BY <1>3, <1>4 DEF Indexed

\* The other steps of a conversion leave bdicti alone.
LEMMA ConversionIndexed ==
    ASSUME Shape, Written, Indexed,
           \/ StartConversion \/ GetTable \/ LockForWrite \/ WriteURL
           \/ DropTable \/ RenameTable \/ ConversionFails
    PROVE  Indexed'
<1>1. bdicti' = bdicti /\ rows' = rows
  BY DEF StartConversion, GetTable, LockForWrite, WriteURL, DropTable, RenameTable,
         ConversionFails, tables
<1>2. /\ \A u, s : RowsOf(u, s)' = RowsOf(u, s)
      /\ \A u : Counting(u)' = Counting(u)
      /\ \A u, T : Sync(u, T) => Sync(u, T)'
  BY <1>1 DEF RowsOf, Counting, Sync
<1>3. CASE StartConversion
  <2>1. /\ conv' = "table" /\ list' = rows /\ bdict' = bdict /\ late' = late
    BY <1>3 DEF StartConversion, tables
  <2>2. \A u : Counting(u) # {} => u \in rows
    BY DEF Written, Counting, RowsOf
  <2> QED BY <1>2, <2>1, <2>2 DEF Indexed, Index, NextIndex
<1>4. CASE GetTable
  <2>1. /\ bdict' = bdict /\ late' = late /\ touched' = touched /\ conv = "table"
        /\ \/ tmp' = Empty /\ conv' = "words" /\ col' = 1 /\ list' = list
           \/ conv' = "idle"
    BY <1>4 DEF GetTable, history
  <2>2. ASSUME NEW u, conv' = "words" PROVE Copied(u, {k \in Words : k < col})'
    <3>1. tmp'.words = {} /\ \A w \in Words : ~(w < col')
      BY <2>1, <2>2, TextAssumption DEF Empty, Words
    <3> QED BY <3>1 DEF Copied
  <2> QED BY <1>2, <2>1, <2>2 DEF Indexed, Index, NextIndex, Converting
<1>5. CASE LockForWrite
  <2>1. /\ bdict' = bdict /\ tmp' = tmp /\ late' = late /\ touched' = touched /\ list' = list
        /\ conv = "gap" /\ conv' = "deleteOld"
    BY <1>5 DEF LockForWrite, tables, history
  <2>2. \A u : Copied(u, Words) => Copied(u, Words)'
    BY <1>2, <2>1 DEF Copied
  <2> QED BY <1>2, <2>1, <2>2 DEF Indexed, Index, NextIndex, Converting
<1>6. CASE WriteURL
  <2>1. /\ bdict' = bdict /\ late' = late /\ touched' = touched
        /\ conv = "urlData" /\ conv' = "drop"
        /\ tmp'.words = tmp.words /\ tmp'.recs = rows
    BY <1>6 DEF WriteURL, history, Shape, TablesOK, Table
  <2>2. \A u : RowsOf(u, 2) # {} => u \in rows
    BY DEF Written, RowsOf
  <2> QED BY <1>2, <2>1, <2>2 DEF Indexed, Index, NextIndex, Converting
<1>7. CASE DropTable
  <2>1. /\ ~bdict'.there /\ tmp' = tmp /\ touched' = touched
        /\ conv = "drop" /\ conv' = "rename"
    BY <1>7 DEF DropTable, NoTable, history
  <2> QED BY <1>2, <2>1 DEF Indexed, Index, NextIndex, Converting
<1>8. CASE RenameTable
  <2>1. bdict' = tmp /\ late' = touched /\ conv = "rename" /\ conv' = "idle"
    BY <1>8 DEF RenameTable
  <2> QED BY <1>2, <2>1 DEF Indexed, Index, NextIndex, Converting
<1>9. CASE ConversionFails
  <2>1. bdict' = bdict /\ late \subseteq late' /\ conv' = "idle"
    BY <1>9 DEF ConversionFails, tables
  <2> QED BY <1>2, <2>1 DEF Indexed, Index, NextIndex, Converting
<1> QED BY <1>3, <1>4, <1>5, <1>6, <1>7, <1>8, <1>9

LEMMA IndexedStep == Shape /\ Counts /\ Written /\ Indexed /\ [Next]_vars => Indexed'
<1> SUFFICES ASSUME Shape, Counts, Written, Indexed, [Next]_vars PROVE Indexed'
  OBVIOUS
<1>1. ASSUME NEW i \in Indexers, IndexerStep(i) PROVE Indexed'
  BY <1>1, IndexerIndexed
<1>2. CASE \/ \E u \in Urls : AddURL(u)
           \/ \E i \in Indexers : \/ \E u \in Urls, c \in Contents \cup {Gone} : Begin(i, u, c)
                                  \/ IndexerFails(i)
           \/ UNCHANGED vars
  <2>1. /\ bdicti' = bdicti /\ bdict' = bdict /\ tmp' = tmp /\ conv' = conv /\ col' = col
        /\ list' = list /\ late' = late /\ touched' = touched
    BY <1>2 DEF AddURL, Begin, IndexerFails, vars, tables, convert, history
  <2> QED BY <2>1 DEF Indexed, Index, NextIndex, Sync, Copied, Counting, RowsOf, Converting
<1>3. CASE StartConversion \/ ConversionStep \/ ConversionFails
  BY <1>3, ConvertColumnIndexed, MarkConvertedIndexed, DeleteOldIndexed, ConversionIndexed
     DEF ConversionStep
<1> QED BY <1>1, <1>2, <1>3 DEF Next

\* What bdicti and bdict have of the documents, in every state.
LEMMA SearchInvariant == Spec => [](Shape /\ Counts /\ Written /\ Indexed)
<1>1. Spec => []Shape
  BY ShapeInit, ShapeStep, PTL DEF Spec
<1>2. Spec => []Counts
  BY CountsInit, <1>1, CountsStep, PTL DEF Spec
<1>3. Spec => []Written
  BY SearchInit, <1>1, <1>2, WrittenStep, PTL DEF Spec
<1>4. Spec => []Indexed
  BY SearchInit, <1>1, <1>2, <1>3, IndexedStep, PTL DEF Spec
<1> QED BY <1>1, <1>2, <1>3, <1>4, PTL

\* The limits a search comes with; fl=-name stands beside a WHERE limit, for
\* alone it does not limit the search with the deleted documents' list.
QueriesInclude ==
    \A q \in Queries :
        /\ q \in [hasWhere : BOOLEAN, where : SUBSET Urls,
                  flKind : {"none", "include", "exclude"}, fl : SUBSET Urls]
        /\ q.flKind = "exclude" => q.hasWhere

\* A list of the urls S that excludes them or not, and is empty or not.
IsList(l, S, x, e) == l = [urls |-> S, exclude |-> x, empty |-> e]

\* A list that includes the urls S, and one that has the urls T.
Including(l, S, e) == IsList(l, S, FALSE, e)
Limiting(m, T, x)  == IsList(m, T, x, FALSE)

LEMMA ListAllows ==
    ASSUME NEW l, NEW S, NEW x \in BOOLEAN, NEW e \in BOOLEAN, IsList(l, S, x, e), NEW u
    PROVE  Allows(l, u) <=> ~e /\ (S = {} \/ (x /\ u \notin S) \/ (~x /\ u \in S))
<1>1. l.urls = S /\ l.exclude = x /\ l.empty = e
  BY DEF IsList
<1>2. Allows(l, u) <=> ~e /\ (S = {} \/ (u \in S) # x)
  BY <1>1 DEF Allows
<1>3. (u \in S) # x <=> (x /\ u \notin S) \/ (~x /\ u \in S)
  OBVIOUS
<1> QED BY <1>2, <1>3

LEMMA IncludingAllows ==
    ASSUME NEW l, NEW S, NEW e \in BOOLEAN, IsList(l, S, FALSE, e)
    PROVE  \A u : Allows(l, u) <=> ~e /\ (S = {} \/ u \in S)
<1>1. PICK b \in BOOLEAN : b = FALSE
  OBVIOUS
<1>2. IsList(l, S, b, e)
  BY <1>1, Zenon
<1>3. \A u : Allows(l, u) <=> ~e /\ (S = {} \/ (b /\ u \notin S) \/ (~b /\ u \in S))
  BY <1>2, ListAllows
<1> QED BY <1>1, <1>3

LEMMA MergeNone ==
    ASSUME NEW l, NEW S, NEW e \in BOOLEAN, IsList(l, S, FALSE, e),
           NEW m, NEW x \in BOOLEAN, IsList(m, {}, x, FALSE), NEW f \in BOOLEAN, f = (e \/ ~x)
    PROVE  IsList(Merge(l, m), S, FALSE, f)
<1>1. Merge(l, m) = [l EXCEPT !.empty = l.empty \/ ~m.exclude]
  BY DEF IsList, Merge
<1>2. l.empty = e /\ m.exclude = x
  BY DEF IsList
<1>3. (l.empty \/ ~m.exclude) = f
  BY <1>2
<1>4. Merge(l, m) = [l EXCEPT !.empty = f]
  BY <1>1, <1>3, Zenon
<1> QED BY <1>4 DEF IsList

LEMMA MergeCopy ==
    ASSUME NEW l, NEW e \in BOOLEAN, IsList(l, {}, FALSE, e),
           NEW m, NEW T, T # {}, NEW x \in BOOLEAN, IsList(m, T, x, FALSE)
    PROVE  IsList(Merge(l, m), T, x, e)
<1>1. Merge(l, m) = Copy(l, m)
  BY DEF IsList, Merge
<1> QED BY <1>1 DEF IsList, Copy

LEMMA MergeJoin ==
    ASSUME NEW l, NEW S, S # {}, NEW e \in BOOLEAN, IsList(l, S, FALSE, e),
           NEW m, NEW T, T # {}, NEW x \in BOOLEAN, IsList(m, T, x, FALSE),
           NEW K, K = IF x THEN S \ T ELSE S \cap T,
           NEW f \in BOOLEAN, f = (e \/ K = {})
    PROVE  IsList(Merge(l, m), K, FALSE, f)
<1>1. Merge(l, m) = Join(l, m)
  BY DEF IsList, Merge
<1>2. l.empty = e /\ m.exclude = x /\ m.urls = T /\ l.urls = S
  BY DEF IsList
<1>3. Join(l, m) = [l EXCEPT !.urls = K, !.empty = l.empty \/ K = {}]
  BY <1>2 DEF Join, IsList
<1>4. (l.empty \/ K = {}) = f
  BY <1>2
<1>5. Merge(l, m) = [l EXCEPT !.urls = K, !.empty = f]
  BY <1>1, <1>3, <1>4, Zenon
<1> QED BY <1>5 DEF IsList

\* Merged with another list, one that includes lets through what both do.
LEMMA MergeAllows ==
    ASSUME NEW l, NEW S, NEW e \in BOOLEAN, Including(l, S, e),
           NEW m, NEW T, NEW x \in BOOLEAN, Limiting(m, T, x)
    PROVE  /\ \A u : Allows(Merge(l, m), u) <=> Allows(l, u) /\ (x <=> u \notin T)
           /\ S # {} \/ ~x => \E K : \E f \in BOOLEAN : Including(Merge(l, m), K, f)
<1>1. \A u : Allows(l, u) <=> ~e /\ (S = {} \/ u \in S)
  BY IncludingAllows DEF Including
<1>2. CASE T = {}
  <2> DEFINE f == e \/ ~x
  <2>1. f \in BOOLEAN /\ Including(Merge(l, m), S, f)
    BY <1>2, MergeNone DEF Including, Limiting
  <2>2. \A u : Allows(Merge(l, m), u) <=> ~f /\ (S = {} \/ u \in S)
    BY <2>1, IncludingAllows DEF Including
  <2>3. f <=> e \/ ~x
    OBVIOUS
  <2> HIDE DEF f
  <2>4. \A u : Allows(Merge(l, m), u) <=> Allows(l, u) /\ (x <=> u \notin T)
    BY <1>1, <1>2, <2>2, <2>3
  <2>5. \E K : \E g \in BOOLEAN : Including(Merge(l, m), K, g)
    BY <2>1
  <2> QED BY <2>4, <2>5
<1>3. CASE T # {} /\ S = {}
  <2>1. IsList(Merge(l, m), T, x, e)
    BY <1>3, MergeCopy DEF Including, Limiting
  <2>2. \A u : Allows(Merge(l, m), u) <=> ~e /\ ((x /\ u \notin T) \/ (~x /\ u \in T))
    BY <1>3, <2>1, ListAllows
  <2>3. \A u : Allows(Merge(l, m), u) <=> Allows(l, u) /\ (x <=> u \notin T)
    BY <1>1, <1>3, <2>2
  <2>4. ASSUME ~x PROVE Including(Merge(l, m), T, e)
    <3>1. x = FALSE
      BY <2>4
    <3> QED BY <2>1, <3>1, Zenon DEF Including
  <2> QED BY <1>3, <2>3, <2>4
<1>4. CASE T # {} /\ S # {}
  <2> DEFINE K == IF x THEN S \ T ELSE S \cap T
             f == e \/ K = {}
  <2>1. f \in BOOLEAN /\ Including(Merge(l, m), K, f)
    BY <1>4, MergeJoin DEF Including, Limiting
  <2>2. \A u : Allows(Merge(l, m), u) <=> ~f /\ (K = {} \/ u \in K)
    <3> HIDE DEF K, f
    <3> QED BY <2>1, IncludingAllows DEF Including
  <2>3. \A u : u \in K <=> u \in S /\ (x <=> u \notin T)
    OBVIOUS
  <2> HIDE DEF K
  <2> QED BY <1>1, <1>4, <2>1, <2>2, <2>3
<1> QED BY <1>2, <1>3, <1>4


\* The limits of such a query are a list that includes, and it lets those
\* documents of the table url through that the query asks for.
LEMMA LimitsAllow ==
    ASSUME QueriesInclude, NEW q \in Queries
    PROVE  \E S : \E e \in BOOLEAN :
               /\ Including(LoadLimits(q), S, e)
               /\ \A u \in rows : Allows(LoadLimits(q), u) <=> Asked(q, u)
<1> DEFINE found == q.where \cap rows
           e == q.hasWhere /\ found = {}
           x == q.flKind = "exclude"
           where == IF q.hasWhere THEN [Unlimited EXCEPT !.urls = found, !.empty = (found = {})]
                    ELSE Unlimited
           fl == [Unlimited EXCEPT !.urls = q.fl, !.exclude = (q.flKind = "exclude")]
           S == IF q.hasWhere THEN found ELSE {}
<1>1. /\ q.hasWhere \in BOOLEAN /\ q.flKind \in {"none", "include", "exclude"}
      /\ q.flKind = "exclude" => q.hasWhere
  BY DEF QueriesInclude
<1>2. LoadLimits(q) = IF where.empty \/ q.flKind = "none" THEN where ELSE Merge(where, fl)
  BY DEF LoadLimits
<1>3. e \in BOOLEAN /\ x \in BOOLEAN
  OBVIOUS
<1>4. Including(where, S, e)
  <2>1. CASE q.hasWhere
    <3> DEFINE f == found = {}
    <3>1. f \in BOOLEAN /\ e = f
      BY <2>1
    <3>2. where = [Unlimited EXCEPT !.urls = found, !.empty = f] /\ S = found
      BY <2>1
    <3> HIDE DEF f, where, found, S, e
    <3> QED BY <3>1, <3>2 DEF Including, Limiting, IsList, Unlimited
  <2>2. CASE ~q.hasWhere
    <3>1. e = FALSE /\ where = Unlimited /\ S = {}
      BY <2>2
    <3> HIDE DEF where, S, e
    <3> QED BY <3>1 DEF Including, Limiting, IsList, Unlimited
  <2> QED BY <1>1, <2>1, <2>2
<1>5. Limiting(fl, q.fl, x)
  <2>1. fl = [Unlimited EXCEPT !.urls = q.fl, !.exclude = x]
    OBVIOUS
  <2> HIDE DEF x, fl
  <2> QED BY <2>1 DEF Including, Limiting, IsList, Unlimited
<1>6. where.empty = e
  BY <1>4 DEF Including, Limiting, IsList
<1>7. /\ e <=> q.hasWhere /\ S = {}
      /\ \A u \in rows : u \in S <=> q.hasWhere /\ u \in q.where
      /\ x <=> q.flKind = "exclude"
  BY <1>1
<1> HIDE DEF where, fl, e, x, S
<1>8. \A u \in rows : Allows(where, u) <=> (q.hasWhere => u \in q.where)
  <2>1. \A u : Allows(where, u) <=> ~e /\ (S = {} \/ u \in S)
    BY <1>3, <1>4, IncludingAllows DEF Including
  <2>2. ~q.hasWhere => S = {}
    BY DEF S
  <2> QED BY <1>1, <1>7, <2>1, <2>2
<1>9. CASE e
  <2>1. LoadLimits(q) = where
    BY <1>2, <1>6, <1>9
  <2>2. \A u \in rows : ~Asked(q, u)
    BY <1>7, <1>9 DEF Asked
  <2>3. \A u \in rows : ~Allows(where, u)
    BY <1>7, <1>8, <1>9
  <2> QED BY <1>3, <1>4, <2>1, <2>2, <2>3
<1>10. CASE q.flKind = "none"
  <2>1. LoadLimits(q) = where
    BY <1>2, <1>10
  <2>2. \A u \in rows : Asked(q, u) <=> (q.hasWhere => u \in q.where)
    BY <1>10 DEF Asked
  <2> QED BY <1>3, <1>4, <1>8, <2>1, <2>2
<1>11. CASE ~e /\ q.flKind # "none"
  <2>1. LoadLimits(q) = Merge(where, fl)
    BY <1>2, <1>6, <1>11
  <2>2. S # {} \/ ~x
    BY <1>1, <1>7, <1>11
  <2>3. /\ \A u : Allows(Merge(where, fl), u) <=> Allows(where, u) /\ (x <=> u \notin q.fl)
        /\ \E K : \E f \in BOOLEAN : Including(Merge(where, fl), K, f)
    BY <1>3, <1>4, <1>5, <2>2, MergeAllows
  <2>4. \A u \in rows : Asked(q, u) <=> (q.hasWhere => u \in q.where) /\ (x <=> u \notin q.fl)
    BY <1>1, <1>7, <1>11 DEF Asked
  <2> QED BY <1>8, <2>1, <2>3, <2>4
<1> QED BY <1>3, <1>9, <1>10, <1>11

\* Merged with the deleted documents' list, it lets through all but those.
LEMMA DeletedUrlsAllow ==
    ASSUME NEW l, NEW S, NEW e \in BOOLEAN, Including(l, S, e), NEW u
    PROVE  Allows(Merge(l, DeletedUrls), u) <=> Allows(l, u) /\ RowsOf(u, 0) = {}
<1> DEFINE gone == {r.url : r \in {p \in bdicti : p.state = 0}}
<1>1. PICK x \in BOOLEAN : x = TRUE
  OBVIOUS
<1>2. DeletedUrls = [urls |-> gone, exclude |-> x, empty |-> FALSE]
  BY <1>1, Zenon DEF DeletedUrls
<1>3. u \in gone <=> RowsOf(u, 0) # {}
  BY DEF RowsOf
<1>4. Limiting(DeletedUrls, gone, x)
  BY <1>2 DEF Including, Limiting, IsList
<1> HIDE DEF gone
<1>5. Allows(Merge(l, DeletedUrls), u) <=> Allows(l, u) /\ (x <=> u \notin gone)
  BY <1>4, MergeAllows
<1> QED BY <1>1, <1>3, <1>5

\* Word w of content c is in bdict, and document u has no deleted row, or in
\* its new row.
HasWord(u, w, c) ==
    \/ <<u, w, c>> \in bdict.words /\ RowsOf(u, 0) = {}
    \/ \E r \in RowsOf(u, 1) : r.content = c /\ w \in Text[c]

\* Document u is found in bdict for its words there if it has no deleted row,
\* and in bdicti for the words of its new row, where the limits let it through.
LEMMA Found ==
    ASSUME Shape, NEW q, NEW S, NEW e \in BOOLEAN, Including(LoadLimits(q), S, e),
           NEW w \in Words, NEW u \in Urls, NEW x
    PROVE  x \in LiveSearch(q, w) /\ x[1] = u <=>
               \E c \in Contents :
                   x = <<u, c>> /\ Allows(LoadLimits(q), u) /\ HasWord(u, w, c)
<1> DEFINE L == LoadLimits(q)
           M == Merge(L, DeletedUrls)
<1>1. /\ bdict.words \subseteq Urls \X Words \X Contents
      /\ bdicti \subseteq Rows /\ \A r \in Rows : r.content \in Contents
  BY DEF Shape, TablesOK, Table, Rows
<1>2. Allows(M, u) <=> Allows(L, u) /\ RowsOf(u, 0) = {}
  BY DeletedUrlsAllow
<1>3. L.empty => ~Allows(L, u)
  BY DEF Allows
<1>4. LiveSearch(q, w) =
          IF L.empty THEN {}
          ELSE {<<y[1], y[3]>> : y \in {z \in bdict.words : z[2] = w /\ Allows(M, z[1])}}
               \cup {<<r.url, r.content>> :
                       r \in {p \in bdicti : /\ p.state = 1 /\ w \in Text[p.content]
                                             /\ Allows(L, p.url)}}
  BY DEF LiveSearch
<1> HIDE DEF L, M
<1>5. x \in {<<y[1], y[3]>> : y \in {z \in bdict.words : z[2] = w /\ Allows(M, z[1])}}
          /\ x[1] = u
      <=> \E c \in Contents : x = <<u, c>> /\ <<u, w, c>> \in bdict.words /\ Allows(M, u)
  <2>1. ASSUME NEW y \in bdict.words, y[2] = w, Allows(M, y[1]), x = <<y[1], y[3]>>, x[1] = u
        PROVE  \E c \in Contents : x = <<u, c>> /\ <<u, w, c>> \in bdict.words /\ Allows(M, u)
    <3>1. y \in Urls \X Words \X Contents
      BY <1>1
    <3>2. y = <<y[1], y[2], y[3]>> /\ y[3] \in Contents
      BY <3>1
    <3>3. y[1] = u
      BY <2>1
    <3> QED BY <2>1, <3>2, <3>3
  <2>2. ASSUME NEW c \in Contents, x = <<u, c>>, <<u, w, c>> \in bdict.words, Allows(M, u)
        PROVE  /\ x[1] = u
               /\ \E y \in bdict.words : y[2] = w /\ Allows(M, y[1]) /\ x = <<y[1], y[3]>>
    <3> DEFINE y == <<u, w, c>>
    <3>1. y[1] = u /\ y[2] = w /\ y[3] = c
      OBVIOUS
    <3> HIDE DEF y
    <3>2. y \in bdict.words
      BY <2>2 DEF y
    <3>3. x[1] = u
      BY <2>2
    <3> QED BY <2>2, <3>1, <3>2, <3>3
  <2> QED BY <2>1, <2>2
<1>6. x \in {<<r.url, r.content>> :
               r \in {p \in bdicti : /\ p.state = 1 /\ w \in Text[p.content]
                                     /\ Allows(L, p.url)}}
          /\ x[1] = u
      <=> \E c \in Contents : /\ x = <<u, c>> /\ Allows(L, u)
                              /\ \E r \in RowsOf(u, 1) : r.content = c /\ w \in Text[c]
  BY <1>1 DEF RowsOf
<1> QED BY <1>2, <1>3, <1>4, <1>5, <1>6 DEF L, HasWord

\* What the two tables say together of a document that is settled.
LEMMA SettledTables ==
    ASSUME Shape, Counts, Written, Indexed, bdict.there, NEW u \in Urls, Settled(u),
           NEW w \in Words, NEW c \in Contents
    PROVE  HasWord(u, w, c) <=> c = content[u] /\ w \in TextOf(content[u])
<1>1. Right(u) /\ Sync(u, bdict.words)
  BY DEF Settled, Written, Indexed, Index
<1>2. c # Gone /\ TextOf(c) = Text[c]
  BY TextAssumption DEF Gone, TextOf
<1>3. \A r \in Counting(u) : r.content = content[u]
  BY <1>1 DEF Right
<1>4. CASE RowsOf(u, 2) # {}
  <2>1. PICK r \in RowsOf(u, 2) : TRUE
    BY <1>4
  <2>2. \A p \in RowsOf(u, 2) \cup RowsOf(u, 1) \cup RowsOf(u, 0) : p = r
    <3>1. r \in bdicti /\ r.url = u /\ r.state = 2
      BY <2>1 DEF RowsOf
    <3>2. ASSUME NEW p \in bdicti, p.url = u, p # r PROVE FALSE
      <4>1. {r.state, p.state} = {0, 1}
        BY <3>1, <3>2 DEF Counts, Pairs
      <4> QED BY <3>1, <4>1
    <3> QED BY <3>2 DEF RowsOf
  <2>3. RowsOf(u, 0) = {} /\ RowsOf(u, 1) = {}
    BY <2>1, <2>2 DEF RowsOf
  <2>4. r.content = content[u]
    BY <1>3, <2>1 DEF Counting
  <2>5. <<u, w, c>> \in bdict.words <=> c = content[u] /\ w \in Text[c]
    BY <1>1, <2>1, <2>4 DEF Sync
  <2> QED BY <1>2, <2>3, <2>5 DEF HasWord
<1>5. CASE RowsOf(u, 2) = {}
  <2>1. ~(<<u, w, c>> \in bdict.words /\ RowsOf(u, 0) = {})
    BY <1>1, <1>5 DEF Sync
  <2>2. CASE RowsOf(u, 1) = {}
    <3>1. TextOf(content[u]) = {}
      BY <1>1, <1>5, <2>2 DEF Right, Counting
    <3> QED BY <2>1, <2>2, <3>1 DEF HasWord
  <2>3. CASE RowsOf(u, 1) # {}
    <3>1. \A r \in RowsOf(u, 1) : r.content = content[u]
      BY <1>3 DEF Counting
    <3> QED BY <1>2, <2>1, <2>3, <3>1 DEF HasWord
  <2> QED BY <2>2, <2>3
<1> QED BY <1>4, <1>5

\* A search finds what the documents contain now, whatever was stored,
\* removed and converted before: bdict and bdicti say it together, and no
\* document is found twice or in an older version.
THEOREM BlobLiveSearch ==
    ASSUME QueriesInclude
    PROVE  Spec => []LiveSearchFindsCurrent
<1>1. ASSUME Shape, Counts, Written, Indexed PROVE LiveSearchFindsCurrent
  <2>1. SUFFICES ASSUME bdict.there, NEW q \in Queries, NEW w \in Words, NEW u \in Urls,
                        Settled(u)
                 PROVE  {x \in LiveSearch(q, w) : x[1] = u} =
                            IF Asked(q, u) /\ w \in TextOf(content[u])
                            THEN {<<u, content[u]>>} ELSE {}
    BY DEF LiveSearchFindsCurrent
  <2>2. PICK S : \E e \in BOOLEAN :
            /\ Including(LoadLimits(q), S, e)
            /\ \A v \in rows : Allows(LoadLimits(q), v) <=> Asked(q, v)
    BY LimitsAllow
  <2> PICK e \in BOOLEAN : Including(LoadLimits(q), S, e)
    BY <2>2
  <2>3. \A c \in Contents :
            HasWord(u, w, c) <=> c = content[u] /\ w \in TextOf(content[u])
    BY <1>1, <2>1, SettledTables
  <2>4. \A x : x \in LiveSearch(q, w) /\ x[1] = u <=>
            \E c \in Contents : /\ x = <<u, c>> /\ Allows(LoadLimits(q), u)
                                /\ c = content[u] /\ w \in TextOf(content[u])
    <3>1. ASSUME NEW x
          PROVE  x \in LiveSearch(q, w) /\ x[1] = u <=>
                     \E c \in Contents :
                         x = <<u, c>> /\ Allows(LoadLimits(q), u) /\ HasWord(u, w, c)
      BY <1>1, Found
    <3> QED BY <2>3, <3>1
  <2>5. w \in TextOf(content[u]) => content[u] \in Contents /\ u \in rows
    <3>1. content[u] \in Contents \cup {Gone} /\ Right(u)
      BY <1>1, <2>1 DEF Shape, HistoryOK, Written, Settled
    <3> QED BY <3>1 DEF Right, TextOf
  <2>6. w \in TextOf(content[u]) => (Allows(LoadLimits(q), u) <=> Asked(q, u))
    BY <2>2, <2>5
  <2>7. \A x : x \in {y \in LiveSearch(q, w) : y[1] = u} <=>
            x = <<u, content[u]>> /\ Asked(q, u) /\ w \in TextOf(content[u])
    BY <2>4, <2>5, <2>6
  <2> QED BY <2>7
<1>2. Spec => [](Shape /\ Counts /\ Written /\ Indexed)
  BY SearchInvariant
<1> QED BY <1>1, <1>2, PTL

\* A document that is found has its id in "#rec_id", so that grouping by site
\* keeps it: the table url it is read from has every document that counts.
THEOREM BlobGrouped ==
    ASSUME QueriesInclude
    PROVE  Spec => []GroupedFindsConverted
<1>1. ASSUME Shape, Counts, Written, Indexed PROVE GroupedFindsConverted
  <2>1. SUFFICES ASSUME bdict.there, NEW q \in Queries, NEW w \in Words, NEW u \in Urls,
                        Settled(u), RowsOf(u, 0) \cup RowsOf(u, 1) = {},
                        NEW x, x \in LiveSearch(q, w) /\ x[1] = u
                 PROVE  x \in GroupBySite(LiveSearch(q, w))
    BY DEF GroupedFindsConverted
  <2>2. PICK S : \E e \in BOOLEAN : Including(LoadLimits(q), S, e)
    BY LimitsAllow
  <2> PICK e \in BOOLEAN : Including(LoadLimits(q), S, e)
    BY <2>2
  <2>3. \E c \in Contents : HasWord(u, w, c)
    BY <1>1, <2>1, Found
  <2>4. \E c \in Contents : <<u, w, c>> \in bdict.words
    BY <2>1, <2>3 DEF HasWord
  <2>5. Sync(u, bdict.words) /\ (RowsOf(u, 2) # {} => u \in bdict.recs)
    BY <1>1, <2>1 DEF Settled, Indexed, Index
  <2>6. u \in bdict.recs
    BY <2>1, <2>4, <2>5 DEF Sync
  <2> QED BY <2>1, <2>6 DEF GroupBySite
<1>2. Spec => [](Shape /\ Counts /\ Written /\ Indexed)
  BY SearchInvariant
<1> QED BY <1>1, <1>2, PTL
=============================================================================
