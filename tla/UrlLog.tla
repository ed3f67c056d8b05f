------------------------------- MODULE UrlLog -------------------------------
(***************************************************************************)
(* The URL log of the TYPO3 extension: the backend hook                    *)
(* (tx_mnogosearch_tcemain) writes the URL of every changed page or record *)
(* into the table tx_mnogosearch_urllog, and the command line tool         *)
(* (tx_mnogosearch_climain, option -n) takes the URLs out of it and has    *)
(* the mnoGoSearch indexer fetch them.  Editors and runs of the tool are   *)
(* processes of their own that only share the database.                    *)
(*                                                                         *)
(* A URL is stale from the moment the change is written, which is before   *)
(* the hook is called, until the indexer fetches the URL again.            *)
(***************************************************************************)
EXTENDS Integers, Sequences, FiniteSets

CONSTANTS
    Pages,          \* URLs of pages
    Records,        \* htdb:/ URLs of records
    PageOf,         \* the page a record lies on
    Configs,        \* tx_mnogosearch_indexconfig by "sorting", see Configuration
    FirstRow,       \* the first Server or Realm the hook's query returns, or 0
    Editors,
    Runs,           \* runs of the command line tool that may overlap
    DryRuns,        \* those with --dry-run
    Transactional,  \* the table's engine knows transactions
    MaxSaves,       \* bound: how often editors save
    Events

Urls == Pages \cup Records
AllEvents == {"fileError", "execError", "crash"}

\* A Server, Realm or table: allow is FALSE for the methods Disallow and Skip.
Configuration == [kind : {"page", "record"}, allow : BOOLEAN, urls : SUBSET Urls]

ASSUME UrlLogAssumption ==
    /\ Pages \cap Records = {} /\ PageOf \in [Records -> Pages]
    /\ Configs \in Seq(Configuration) /\ Configs # <<>>
    /\ FirstRow \in 0..Len(Configs)
    /\ FirstRow # 0 => Configs[FirstRow].kind = "page"
    /\ DryRuns \subseteq Runs /\ Transactional \in BOOLEAN
    /\ MaxSaves \in Nat /\ Events \subseteq AllEvents

VARIABLES
    urllog,    \* table tx_mnogosearch_urllog: rows with uid and url
    next_uid,  \* its auto_increment
    stale,     \* history: changes the index does not have
    saves,     \* history: the number of saves
    lost,      \* history: changes an indexer that failed after COMMIT had to fetch
    todo,      \* the URLs the hook of an editor's request has to look at
    missing,   \* the first of them was not found in the log
    pc,        \* where a run is
    rows,      \* what is left of the run's recordSet
    deleted,   \* uids deleted by its transaction, to be committed
    content    \* the URLs of its list

history  == <<stale, saves, lost>>
hookVars == <<todo, missing>>
runVars  == <<pc, rows, deleted, content>>
vars     == <<urllog, next_uid, history, hookVars, runVars>>

Rows == [uid : Nat, url : Urls]

Init ==
    /\ urllog = {} /\ next_uid = 1
    /\ stale = {} /\ saves = 0 /\ lost = {}
    /\ todo = [e \in Editors |-> <<>>]
    /\ missing = [e \in Editors |-> FALSE]
    /\ pc = [c \in Runs |-> "idle"]
    /\ rows = [c \in Runs |-> {}]
    /\ deleted = [c \in Runs |-> {}]
    /\ content = [c \in Runs |-> {}]

-----------------------------------------------------------------------------
(* The hook                                                                *)

InLog(u) == \E row \in urllog : row.url = u

\* canIndexPage, whose loop over the configurations ends with the first one
\* whatever it says, and isIndexable.
CanIndex(u) ==
    IF u \in Pages THEN FirstRow # 0 /\ u \in Configs[FirstRow].urls
    ELSE \E k \in 1..Len(Configs) : Configs[k].kind = "record" /\ u \in Configs[k].urls

\* TCEmain writes a page, or a record and with it a change of its page, and
\* calls processDatamap_afterDatabaseOperations: storePageChanges comes first,
\* then storeRecordChanges.
Save(e) ==
    /\ saves < MaxSaves
    /\ todo[e] = <<>>
    /\ \E u \in Urls :
         LET changed == IF u \in Pages THEN <<u>> ELSE <<PageOf[u], u>> IN
         /\ todo' = [todo EXCEPT ![e] = changed]
         /\ stale' = stale \cup {changed[k] : k \in 1..Len(changed)}
         /\ lost' = lost \ {changed[k] : k \in 1..Len(changed)}
    /\ saves' = saves + 1
    /\ UNCHANGED <<urllog, next_uid, missing, runVars>>

\* recordAlreadyInLog and canIndexPage: on to the next URL or to the INSERT.
RecordAlreadyInLog(e) ==
    /\ todo[e] # <<>> /\ ~missing[e]
    /\ IF InLog(Head(todo[e])) \/ ~CanIndex(Head(todo[e]))
       THEN todo' = [todo EXCEPT ![e] = Tail(@)] /\ UNCHANGED missing
       ELSE missing' = [missing EXCEPT ![e] = TRUE] /\ UNCHANGED todo
    /\ UNCHANGED <<urllog, next_uid, history, runVars>>

\* Mutant: the uid of a deleted row may be given away again.
AddRecordMutant(e) ==
    /\ missing[e]
    /\ urllog' = urllog \cup {[uid |-> Cardinality(urllog) + 1, url |-> Head(todo[e])]}
    /\ next_uid' = next_uid + 1
    /\ todo' = [todo EXCEPT ![e] = Tail(@)]
    /\ missing' = [missing EXCEPT ![e] = FALSE]
    /\ UNCHANGED <<history, runVars>>

\* addRecordToUrlLog: the row may be there twice by now.
AddRecordToUrlLog(e) ==
    /\ missing[e]
    /\ urllog' = urllog \cup {[uid |-> next_uid, url |-> Head(todo[e])]}
    /\ next_uid' = next_uid + 1
    /\ todo' = [todo EXCEPT ![e] = Tail(@)]
    /\ missing' = [missing EXCEPT ![e] = FALSE]
    /\ UNCHANGED <<history, runVars>>

-----------------------------------------------------------------------------
(* The command line tool: getAndRunTasks, index()                          *)

\* createIndexer reads the configurations; index() will not go on without one.
StartRun(c) ==
    /\ pc[c] = "idle"
    /\ pc' = [pc EXCEPT ![c] = "index"]
    /\ UNCHANGED <<urllog, next_uid, history, hookVars, rows, deleted, content>>

\* indexer -r fetches what is due according to its Period: one document.
Index(c) ==
    /\ pc[c] = "index" /\ c \notin DryRuns
    /\ \E u \in stale : stale' = stale \ {u}
    /\ UNCHANGED <<urllog, next_uid, saves, lost, hookVars, runVars>>

\* getAllowedURLs.  allowedURLs += ... keeps the elements it has, and the only
\* key is 0: the first configuration that allows anything is the only one.
Allowed ==
    {u \in Urls : \E k \in 1..Len(Configs) :
        /\ Configs[k].allow /\ u \in Configs[k].urls
        /\ \A j \in 1..k - 1 : ~Configs[j].allow}

\* generateURLListFile: the SELECT, outside of the transaction.
SelectRows(c) ==
    /\ pc[c] = "index"
    /\ rows' = [rows EXCEPT ![c] = urllog]
    /\ pc' = [pc EXCEPT ![c] = "take"]
    /\ UNCHANGED <<urllog, next_uid, history, hookVars, deleted, content>>

\* DELETE ... WHERE uid: at once, or visible to others when it is committed.
Delete(c, uids) ==
    IF Transactional
    THEN deleted' = [deleted EXCEPT ![c] = @ \cup uids] /\ UNCHANGED urllog
    ELSE urllog' = {row \in urllog : row.uid \notin uids} /\ UNCHANGED deleted

\* Mutant: the DELETE is outside of the "if".
TakeRowMutantDelete(c) ==
    /\ pc[c] = "take"
    /\ \E row \in rows[c] :
         /\ rows' = [rows EXCEPT ![c] = @ \ {row}]
         /\ IF row.url \in Allowed
            THEN content' = [content EXCEPT ![c] = @ \cup {row.url}]
            ELSE UNCHANGED content
         /\ Delete(c, {row.uid})
    /\ UNCHANGED <<next_uid, history, hookVars, pc>>

\* Mutant: the "break" leaves the loop over the rows.
TakeRowMutantBreak(c) ==
    /\ pc[c] = "take"
    /\ \E row \in rows[c] :
         /\ rows' = [rows EXCEPT ![c] = IF row.url \in Allowed THEN @ \ {row} ELSE {}]
         /\ IF row.url \in Allowed
            THEN content' = [content EXCEPT ![c] = @ \cup {row.url}] /\ Delete(c, {row.uid})
            ELSE UNCHANGED <<content, urllog, deleted>>
    /\ UNCHANGED <<next_uid, history, hookVars, pc>>

\* One turn of its loop: an allowed URL goes from the log to the list.
TakeRow(c) ==
    /\ pc[c] = "take"
    /\ \E row \in rows[c] :
         /\ rows' = [rows EXCEPT ![c] = @ \ {row}]
         /\ IF row.url \in Allowed
            THEN content' = [content EXCEPT ![c] = @ \cup {row.url}] /\ Delete(c, {row.uid})
            ELSE UNCHANGED <<content, urllog, deleted>>
    /\ UNCHANGED <<next_uid, history, hookVars, pc>>

\* Mutant: the transaction's deletions are never forgotten.
CommitMutant(c) ==
    /\ pc[c] = "take" /\ rows[c] = {}
    /\ urllog' = {row \in urllog : row.uid \notin deleted[c]}
    /\ pc' = [pc EXCEPT ![c] = "exec"]
    /\ UNCHANGED <<next_uid, history, hookVars, rows, deleted, content>>

\* The list is written to a file, COMMIT.
Commit(c) ==
    /\ pc[c] = "take" /\ rows[c] = {}
    /\ urllog' = {row \in urllog : row.uid \notin deleted[c]}
    /\ deleted' = [deleted EXCEPT ![c] = {}]
    /\ pc' = [pc EXCEPT ![c] = "exec"]
    /\ UNCHANGED <<next_uid, history, hookVars, rows, content>>

\* The run is over.  What its transaction deleted and did not commit is back.
EndRun(c) ==
    /\ pc' = [pc EXCEPT ![c] = "idle"]
    /\ rows' = [rows EXCEPT ![c] = {}]
    /\ deleted' = [deleted EXCEPT ![c] = {}]
    /\ content' = [content EXCEPT ![c] = {}]

\* The file cannot be written: ROLLBACK and an exception.
FileError(c) ==
    /\ "fileError" \in Events
    /\ pc[c] = "take" /\ rows[c] = {} /\ content[c] # {}
    /\ EndRun(c)
    /\ UNCHANGED <<urllog, next_uid, history, hookVars>>

\* indexURLs: indexer -a -i -r -f file fetches the URLs of the list, whether
\* they are due or not; a dry run only says so.
IndexURL(c, u) ==
    /\ pc[c] = "exec"
    /\ u \in content[c]
    /\ content' = [content EXCEPT ![c] = @ \ {u}]
    /\ stale' = IF c \in DryRuns THEN stale ELSE stale \ {u}
    /\ UNCHANGED <<urllog, next_uid, saves, lost, hookVars, pc, rows, deleted>>

\* The indexer is done.  convertBlobs reads a member nobody sets and does
\* nothing.
IndexDone(c) ==
    /\ pc[c] = "exec" /\ content[c] = {}
    /\ EndRun(c)
    /\ UNCHANGED <<urllog, next_uid, history, hookVars>>

\* The indexer fails: exec()'s exit status is not looked at, the list file is
\* removed all the same.
ExecError(c) ==
    /\ "execError" \in Events
    /\ pc[c] = "exec" /\ content[c] # {}
    /\ lost' = lost \cup content[c]
    /\ EndRun(c)
    /\ UNCHANGED <<urllog, next_uid, stale, saves, hookVars>>

\* The run is killed.
Crash(c) ==
    /\ "crash" \in Events
    /\ pc[c] # "idle"
    /\ lost' = IF pc[c] = "exec" THEN lost \cup content[c] ELSE lost
    /\ EndRun(c)
    /\ UNCHANGED <<urllog, next_uid, stale, saves, hookVars>>

-----------------------------------------------------------------------------
Hook(e) == RecordAlreadyInLog(e) \/ AddRecordToUrlLog(e)

Step(c) ==
    \/ StartRun(c) \/ Index(c) \/ SelectRows(c) \/ TakeRow(c) \/ Commit(c) \/ FileError(c)
    \/ (\E u \in Urls : IndexURL(c, u)) \/ IndexDone(c) \/ ExecError(c)

Next ==
    \/ \E e \in Editors : Save(e) \/ Hook(e)
    \/ \E c \in Runs : Step(c) \/ Crash(c)

Spec == Init /\ [][Next]_vars

\* A request runs to its end, and cron starts the tool again and again.
Fairness ==
    /\ \A e \in Editors : WF_vars(Hook(e))
    /\ \A c \in Runs : WF_vars(Step(c))

FairSpec == Spec /\ Fairness

-----------------------------------------------------------------------------
(* Properties                                                              *)

\* The state has the expected shape; uids are not used twice, and a run has
\* rows, deletions and a list only where generateURLListFile makes them.
TypeOK ==
    /\ urllog \subseteq Rows /\ next_uid \in Nat
    /\ \A row \in urllog : row.uid < next_uid
    /\ \A x, y \in urllog : x.uid = y.uid => x = y
    /\ stale \subseteq Urls /\ saves \in Nat /\ lost \subseteq Urls
    /\ todo \in [Editors -> Seq(Urls)]
    /\ missing \in [Editors -> BOOLEAN]
    /\ \A e \in Editors : missing[e] => todo[e] # <<>> /\ CanIndex(Head(todo[e]))
    /\ pc \in [Runs -> {"idle", "index", "take", "exec"}]
    /\ rows \in [Runs -> SUBSET Rows]
    /\ deleted \in [Runs -> SUBSET Nat]
    /\ content \in [Runs -> SUBSET Urls]
    /\ \A c \in Runs : /\ rows[c] # {} \/ deleted[c] # {} => pc[c] = "take"
                       /\ content[c] # {} => pc[c] \in {"take", "exec"}

\* A change is not lost between the hook and the tool: as long as the index
\* does not have it, its URL is in the log, or the hook has still to look at
\* it, or a run that is not a dry run has taken it from the log and fetches
\* it.  Only an indexer that fails or is killed after the COMMIT loses it.
ChangeKept ==
    Transactional =>
        \A u \in stale :
            CanIndex(u) =>
                \/ InLog(u)
                \/ \E e \in Editors : \E k \in 1..Len(todo[e]) : todo[e][k] = u
                \/ \E c \in Runs \ DryRuns : pc[c] = "exec" /\ u \in content[c]
                \/ u \in lost

\* Why: a run deletes the rows it has read and no others, as uids are not
\* used twice, and what its transaction has deleted is in its list.
TakenInv ==
    /\ \A c \in Runs : \A row \in urllog : row.uid \in deleted[c] => row.url \in content[c]
    /\ \A c \in Runs : \A row \in rows[c] : row.uid < next_uid
    /\ \A c \in Runs : \A x \in rows[c], y \in urllog : x.uid = y.uid => x = y
    /\ \A c \in Runs : \A uid \in deleted[c] : uid < next_uid

\* With the tool started again and again, a change gets into the index, unless
\* an indexer that failed after COMMIT had to fetch it, or run after run ends
\* before its COMMIT.
EveryChangeIndexed ==
    \A u \in Urls :
        \/ u \in stale /\ CanIndex(u) /\ u \in Allowed ~> u \notin stale \/ u \in lost
        \/ []<><<\E c \in Runs : pc[c] \in {"index", "take"} /\ pc'[c] = "idle">>_vars

\* configgenerator.php: "Allowed URLs for the processed configurations".  A
\* change of a URL that some configuration allows gets into the index.
AllowedUrlIndexed ==
    \A u \in Urls :
        /\ u \in stale /\ CanIndex(u)
        /\ \E k \in 1..Len(Configs) : Configs[k].allow /\ u \in Configs[k].urls
        ~> u \notin stale

\* climain.php: "--dry-run Show what will be done".  A dry run changes nothing
\* in the log.
DryRunKeepsLog ==
    [][\A c \in DryRuns : Step(c) => urllog' = urllog]_vars
=============================================================================
