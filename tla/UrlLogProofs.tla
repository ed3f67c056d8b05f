----------------------------- MODULE UrlLogProofs -----------------------------
(***************************************************************************)
(* Proofs about module UrlLog, for all pages, records, configurations,     *)
(* editors and overlapping runs:                                           *)
(*   UrlLogType        the state has the expected shape                    *)
(*   UrlLogChangeKept  no change is lost between the hook and the tool     *)
(***************************************************************************)
EXTENDS UrlLog, TLAPS

\* What a save does: the URLs of s are stale, and the hook has to look at them.
Changed(e, s) ==
    /\ s \in Seq(Urls) /\ todo[e] = <<>>
    /\ todo' = [todo EXCEPT ![e] = s]
    /\ stale' = stale \cup {s[k] : k \in 1..Len(s)}
    /\ lost' = lost \ {s[k] : k \in 1..Len(s)}

\* Every save is of this form.
LEMMA SaveChanges ==
    ASSUME NEW e \in Editors, Save(e)
    PROVE  \E s : Changed(e, s)
<1>1. PICK u \in Urls :
        LET s == IF u \in Pages THEN <<u>> ELSE <<PageOf[u], u>> IN
        /\ todo' = [todo EXCEPT ![e] = s]
        /\ stale' = stale \cup {s[k] : k \in 1..Len(s)}
        /\ lost' = lost \ {s[k] : k \in 1..Len(s)}
  BY DEF Save
<1> DEFINE s == IF u \in Pages THEN <<u>> ELSE <<PageOf[u], u>>
<1>2. s \in Seq(Urls)
  <2>1. CASE u \in Pages
    BY <2>1
  <2>2. CASE u \notin Pages
    <3>1. PageOf[u] \in Urls
      BY <2>2, UrlLogAssumption DEF Urls
    <3> QED BY <2>2, <3>1
  <2> QED BY <2>1, <2>2
<1>3. Changed(e, s)
  BY <1>1, <1>2 DEF Save, Changed
<1> QED BY <1>3

\* The state has the expected shape: uids are unique and below next_uid, and a
\* request that is about to INSERT has a URL the hook may index.
THEOREM UrlLogType == Spec => []TypeOK
<1> USE DEF Rows
<1>1. Init => TypeOK
  BY DEF Init, TypeOK
<1>2. TypeOK /\ [Next]_vars => TypeOK'
  <2> SUFFICES ASSUME TypeOK, [Next]_vars PROVE TypeOK'
    OBVIOUS
  <2> USE DEF TypeOK
  <2>1. ASSUME NEW e \in Editors, Save(e) PROVE TypeOK'
    <3>1. PICK s : Changed(e, s)
      BY <2>1, SaveChanges
    <3>2. /\ todo' \in [Editors -> Seq(Urls)]
          /\ \A x \in Editors : missing[x] => todo'[x] = todo[x]
      BY <3>1 DEF Changed
    <3>3. stale' \subseteq Urls /\ lost' \subseteq Urls
      BY <3>1 DEF Changed
    <3>4. UNCHANGED <<urllog, next_uid, missing, runVars>> /\ saves' \in Nat
      BY <2>1 DEF Save
    <3>5. \A x \in Editors : missing'[x] => todo'[x] # <<>> /\ CanIndex(Head(todo[x]))'
      BY <3>2, <3>4 DEF CanIndex
    <3> QED BY <3>2, <3>3, <3>4, <3>5 DEF runVars
  <2>2. ASSUME NEW e \in Editors, RecordAlreadyInLog(e) PROVE TypeOK'
    <3>1. UNCHANGED <<urllog, next_uid, history, runVars>>
      BY <2>2 DEF RecordAlreadyInLog
    <3>2. CASE InLog(Head(todo[e])) \/ ~CanIndex(Head(todo[e]))
      <4>1. todo' = [todo EXCEPT ![e] = Tail(@)] /\ UNCHANGED missing
        BY <2>2, <3>2 DEF RecordAlreadyInLog
      <4>2. todo' \in [Editors -> Seq(Urls)]
        BY <2>2, <4>1 DEF RecordAlreadyInLog
      <4>3. \A x \in Editors : missing'[x] => todo'[x] = todo[x]
        BY <2>2, <4>1 DEF RecordAlreadyInLog
      <4>4. \A x \in Editors : missing'[x] => todo'[x] # <<>> /\ CanIndex(Head(todo[x]))'
        BY <4>1, <4>3 DEF CanIndex
      <4>5. UNCHANGED missing
        BY <4>1
      <4> QED BY <3>1, <4>2, <4>4, <4>5 DEF history, runVars
    <3>3. CASE ~InLog(Head(todo[e])) /\ CanIndex(Head(todo[e]))
      <4>1. missing' = [missing EXCEPT ![e] = TRUE] /\ UNCHANGED todo
        BY <2>2, <3>3 DEF RecordAlreadyInLog
      <4>2. \A x \in Editors : missing'[x] => todo'[x] # <<>> /\ CanIndex(Head(todo[x]))'
        BY <2>2, <3>3, <4>1 DEF RecordAlreadyInLog, CanIndex
      <4> QED BY <3>1, <4>1, <4>2 DEF history, runVars
    <3> QED BY <3>2, <3>3
  <2>3. ASSUME NEW e \in Editors, AddRecordToUrlLog(e) PROVE TypeOK'
    BY <2>3 DEF AddRecordToUrlLog, history, runVars
  <2>4. ASSUME NEW c \in Runs, StartRun(c) PROVE TypeOK'
    BY <2>4 DEF StartRun, history, hookVars
  <2>5. ASSUME NEW c \in Runs, Index(c) PROVE TypeOK'
    BY <2>5 DEF Index, hookVars, runVars
  <2>6. ASSUME NEW c \in Runs, SelectRows(c) PROVE TypeOK'
    BY <2>6 DEF SelectRows, history, hookVars
  <2>7. ASSUME NEW c \in Runs, TakeRow(c) PROVE TypeOK'
    <3>1. PICK row \in rows[c] :
            /\ rows' = [rows EXCEPT ![c] = @ \ {row}]
            /\ IF row.url \in Allowed
               THEN content' = [content EXCEPT ![c] = @ \cup {row.url}] /\ Delete(c, {row.uid})
               ELSE UNCHANGED <<content, urllog, deleted>>
      BY <2>7 DEF TakeRow
    <3>2. pc[c] = "take" /\ UNCHANGED <<next_uid, history, hookVars, pc>>
      BY <2>7 DEF TakeRow
    <3>3. row \in Rows /\ row.uid \in Nat /\ row.url \in Urls
      BY <3>1
    <3>4. /\ rows' \in [Runs -> SUBSET Rows]
          /\ content' \in [Runs -> SUBSET Urls]
      <4>1. rows' \in [Runs -> SUBSET Rows]
        BY <3>1
      <4>2. content' \in [Runs -> SUBSET Urls]
        BY <3>1, <3>3
      <4> QED BY <4>1, <4>2
    <3>5. urllog' \subseteq urllog /\ deleted' \in [Runs -> SUBSET Nat]
      BY <3>1, <3>3 DEF Delete
    <3>6. \A x \in Runs : x # c =>
            rows'[x] = rows[x] /\ deleted'[x] = deleted[x] /\ content'[x] = content[x]
      BY <3>1 DEF Delete
    <3> QED BY <3>2, <3>4, <3>5, <3>6 DEF history, hookVars, CanIndex
  <2>8. ASSUME NEW c \in Runs, Commit(c) PROVE TypeOK'
    BY <2>8 DEF Commit, history, hookVars
  <2>9. ASSUME NEW c \in Runs, FileError(c) PROVE TypeOK'
    BY <2>9 DEF FileError, EndRun, history, hookVars
  <2>10. ASSUME NEW c \in Runs, NEW u \in Urls, IndexURL(c, u) PROVE TypeOK'
    BY <2>10 DEF IndexURL, hookVars
  <2>11. ASSUME NEW c \in Runs, IndexDone(c) PROVE TypeOK'
    BY <2>11 DEF IndexDone, EndRun, history, hookVars
  <2>12. ASSUME NEW c \in Runs, ExecError(c) PROVE TypeOK'
    BY <2>12 DEF ExecError, EndRun, hookVars
  <2>13. ASSUME NEW c \in Runs, Crash(c) PROVE TypeOK'
    BY <2>13 DEF Crash, EndRun, hookVars
  <2>14. CASE UNCHANGED vars
    BY <2>14 DEF vars, history, hookVars, runVars, CanIndex
  <2> QED
    BY <2>1, <2>2, <2>3, <2>4, <2>5, <2>6, <2>7, <2>8, <2>9, <2>10, <2>11, <2>12, <2>13, <2>14
       DEF Next, Hook, Step
<1> QED BY <1>1, <1>2, PTL DEF Spec

-----------------------------------------------------------------------------
\* A run deletes what it has read, and nothing else gets the uid of such a row.
LEMMA TakenStep == TypeOK /\ TakenInv /\ [Next]_vars => TakenInv'
<1> SUFFICES ASSUME TypeOK, TakenInv, [Next]_vars PROVE TakenInv'
  OBVIOUS
<1> USE DEF TypeOK, TakenInv, Rows
<1>1. CASE UNCHANGED <<urllog, next_uid, rows, deleted, content>>
  BY <1>1
<1>2. ASSUME NEW e \in Editors, AddRecordToUrlLog(e) PROVE TakenInv'
  BY <1>2 DEF AddRecordToUrlLog, runVars
<1>3. ASSUME NEW c \in Runs, SelectRows(c) PROVE TakenInv'
  BY <1>3 DEF SelectRows
<1>4. ASSUME NEW c \in Runs, TakeRow(c) PROVE TakenInv'
  <2>1. PICK row \in rows[c] :
          /\ rows' = [rows EXCEPT ![c] = @ \ {row}]
          /\ IF row.url \in Allowed
             THEN content' = [content EXCEPT ![c] = @ \cup {row.url}] /\ Delete(c, {row.uid})
             ELSE UNCHANGED <<content, urllog, deleted>>
    BY <1>4 DEF TakeRow
  <2>2. UNCHANGED next_uid
    BY <1>4 DEF TakeRow
  <2>3. row.uid < next_uid /\ \A y \in urllog : row.uid = y.uid => row = y
    OBVIOUS
  <2>4. urllog' \subseteq urllog
    BY <2>1 DEF Delete
  <2>5. \A x \in Runs : rows'[x] \subseteq rows[x]
    BY <2>1
  <2>6. \A x \in Runs : content[x] \subseteq content'[x]
    BY <2>1
  <2>7. \A x \in Runs : \A uid \in deleted'[x] :
          uid \in deleted[x] \/ (x = c /\ uid = row.uid /\ row.url \in content'[c])
    <3>1. CASE row.url \in Allowed
      BY <2>1, <3>1 DEF Delete
    <3>2. CASE row.url \notin Allowed
      BY <2>1, <3>2
    <3> QED BY <3>1, <3>2
  <2> QED BY <2>2, <2>3, <2>4, <2>5, <2>6, <2>7
<1>5. ASSUME NEW c \in Runs, Commit(c) PROVE TakenInv'
  BY <1>5 DEF Commit
<1>6. ASSUME NEW c \in Runs, EndRun(c), UNCHANGED <<urllog, next_uid>> PROVE TakenInv'
  BY <1>6 DEF EndRun
<1>7. ASSUME NEW c \in Runs, NEW u \in Urls, IndexURL(c, u) PROVE TakenInv'
  BY <1>7 DEF IndexURL
<1> QED
  BY <1>1, <1>2, <1>3, <1>4, <1>5, <1>6, <1>7
     DEF Next, Hook, Step, vars, history, hookVars, runVars, Save, RecordAlreadyInLog, StartRun,
         Index, FileError, IndexDone, ExecError, Crash

-----------------------------------------------------------------------------
\* The ways in which ChangeKept keeps a URL.
InTodo(u) == \E e \in Editors : \E k \in 1..Len(todo[e]) : todo[e][k] = u
Taken(u) == \E c \in Runs \ DryRuns : pc[c] = "exec" /\ u \in content[c]
Kept(u) == InLog(u) \/ InTodo(u) \/ Taken(u) \/ u \in lost

\* The hook: a URL leaves the list of the request when it is in the log, or
\* cannot be indexed.
LEMMA HookKeeps ==
    ASSUME TypeOK, NEW e \in Editors, Hook(e), NEW u \in Urls, CanIndex(u), Kept(u)
    PROVE  Kept(u)'
<1>1. /\ urllog \subseteq urllog'
      /\ UNCHANGED <<history, runVars>>
  BY DEF Hook, RecordAlreadyInLog, AddRecordToUrlLog
<1>2. CASE ~InTodo(u)
  BY <1>1, <1>2 DEF Kept, InLog, Taken, history, runVars
<1>3. CASE InTodo(u)
  <2>1. PICK x \in Editors : \E k \in 1..Len(todo[x]) : todo[x][k] = u
    BY <1>3 DEF InTodo
  <2>0. PICK k \in 1..Len(todo[x]) : todo[x][k] = u
    BY <2>1
  <2>2. todo[x] \in Seq(Urls) /\ todo \in [Editors -> Seq(Urls)]
    BY DEF TypeOK
  <2>3. CASE todo'[x] = todo[x]
    BY <2>0, <2>3 DEF Kept, InTodo
  <2>4. CASE todo'[x] # todo[x]
    <3>1. x = e /\ todo[e] # <<>> /\ todo'[e] = Tail(todo[e])
      <4>1. CASE RecordAlreadyInLog(e)
        BY <2>2, <2>4, <4>1 DEF RecordAlreadyInLog
      <4>2. CASE AddRecordToUrlLog(e)
        BY <2>2, <2>4, <4>2 DEF AddRecordToUrlLog, TypeOK
      <4> QED BY <4>1, <4>2 DEF Hook
    <3>2. CASE k = 1
      <4>1. u = Head(todo[e])
        BY <2>0, <2>2, <3>1, <3>2
      <4>2. InLog(u)'
        <5>1. CASE RecordAlreadyInLog(e)
          <6>1. InLog(u)
            BY <2>2, <2>4, <3>1, <4>1, <5>1 DEF RecordAlreadyInLog
          <6> QED BY <6>1, <1>1 DEF InLog
        <5>2. CASE AddRecordToUrlLog(e)
          <6> DEFINE row == [uid |-> next_uid, url |-> Head(todo[e])]
          <6>1. row \in urllog' /\ row.url = u
            BY <4>1, <5>2 DEF AddRecordToUrlLog
          <6> QED BY <6>1 DEF InLog
        <5> QED BY <5>1, <5>2 DEF Hook
      <4> QED BY <4>2 DEF Kept
    <3>3. CASE k # 1
      <4>1. k - 1 \in 1..Len(todo'[e]) /\ todo'[e][k - 1] = u
        BY <2>0, <2>2, <3>1, <3>3
      <4> QED BY <4>1 DEF Kept, InTodo
    <3> QED BY <3>2, <3>3
  <2> QED BY <2>3, <2>4
<1> QED BY <1>2, <1>3

\* A save: the hook has still to look at what it changes.
LEMMA SaveKeeps ==
    ASSUME TypeOK, NEW e \in Editors, Save(e), NEW u \in stale', Kept(u) \/ u \notin stale
    PROVE  Kept(u)'
<1>1. PICK s : Changed(e, s)
  BY SaveChanges
<1>2. todo'[e] = s /\ todo[e] = <<>> /\ \A x \in Editors : x # e => todo'[x] = todo[x]
  BY <1>1 DEF Changed, TypeOK
<1>3. UNCHANGED <<urllog, next_uid, missing, pc, rows, deleted, content>>
  BY DEF Save, runVars
<1>4. CASE \E k \in 1..Len(s) : s[k] = u
  BY <1>2, <1>4 DEF Kept, InTodo
<1>5. CASE ~\E k \in 1..Len(s) : s[k] = u
  <2>1. Kept(u) /\ (u \in lost => u \in lost')
    BY <1>1, <1>5 DEF Changed
  <2>2. InTodo(u) => InTodo(u)'
    BY <1>2 DEF InTodo
  <2> QED BY <1>3, <2>1, <2>2 DEF Kept, InLog, Taken
<1> QED BY <1>4, <1>5

\* A run: it deletes a row together with what has the URL in its list, and
\* what it does not fetch is back in the log or lost to an indexer that failed.
LEMMA RunKeeps ==
    ASSUME TypeOK, TakenInv, Transactional, DryRuns = {},
           NEW c \in Runs, Step(c) \/ Crash(c), NEW u \in stale', Kept(u)
    PROVE  Kept(u)'
<1>1. UNCHANGED hookVars
  BY DEF Step, StartRun, Index, SelectRows, TakeRow, Commit, FileError, IndexURL, IndexDone,
         ExecError, Crash
<1>2. InTodo(u) => InTodo(u)'
  BY <1>1 DEF InTodo, hookVars
<1>3. u \in lost => u \in lost'
  BY DEF Step, StartRun, Index, SelectRows, TakeRow, Commit, FileError, IndexURL, IndexDone,
         ExecError, Crash, history
<1>4. ASSUME InLog(u) PROVE Kept(u)'
  <2>1. PICK row \in urllog : row.url = u
    BY <1>4 DEF InLog
  <2>2. CASE Commit(c)
    <3>1. CASE row.uid \in deleted[c]
      <4>1. u \in content'[c] /\ pc'[c] = "exec"
        BY <2>1, <2>2, <3>1 DEF Commit, TakenInv, TypeOK
      <4> QED BY <4>1 DEF Kept, Taken
    <3>2. CASE row.uid \notin deleted[c]
      <4>1. row \in urllog'
        BY <2>2, <3>2 DEF Commit
      <4> QED BY <2>1, <4>1 DEF Kept, InLog
    <3> QED BY <3>1, <3>2
  <2>3. CASE ~Commit(c)
    <3>1. urllog' = urllog
      BY <2>3 DEF Step, StartRun, Index, SelectRows, TakeRow, Delete, FileError, IndexURL,
                  IndexDone, ExecError, Crash
    <3> QED BY <1>4, <3>1 DEF Kept, InLog
  <2> QED BY <2>2, <2>3
<1>5. ASSUME NEW x \in Runs, pc[x] = "exec", u \in content[x] PROVE Kept(u)'
  <2>1. CASE pc'[x] = "exec" /\ u \in content'[x]
    BY <2>1 DEF Kept, Taken
  <2>2. CASE ~(pc'[x] = "exec" /\ u \in content'[x])
    <3>1. x = c
      BY <2>2, <1>5 DEF Step, StartRun, Index, SelectRows, TakeRow, Delete, Commit, FileError,
                 IndexURL, IndexDone, ExecError, Crash, EndRun, runVars, TypeOK
    <3>2. ExecError(c) \/ Crash(c)
      <4>1. ASSUME NEW v \in Urls, IndexURL(c, v) PROVE FALSE
        <5>1. stale' = stale \ {v} /\ content'[c] = content[c] \ {v} /\ pc' = pc
          BY <4>1 DEF IndexURL, TypeOK
        <5> QED BY <1>5, <2>2, <3>1, <5>1
      <4> QED BY <1>5, <2>2, <3>1, <4>1
              DEF Step, StartRun, Index, SelectRows, TakeRow, Commit, FileError, IndexDone, runVars
    <3>3. u \in lost'
      BY <1>5, <3>1, <3>2 DEF ExecError, Crash
    <3> QED BY <3>3 DEF Kept
  <2> QED BY <2>1, <2>2
<1> QED BY <1>2, <1>3, <1>4, <1>5 DEF Kept, Taken

\* No change is lost between the hook and the tool, whatever is saved, however
\* many runs overlap and wherever they fail, if the log's table knows
\* transactions and no run is a dry run.
THEOREM UrlLogChangeKept ==
    ASSUME DryRuns = {}
    PROVE  Spec => [](TakenInv /\ ChangeKept)
<1>1. Init => TakenInv /\ ChangeKept
  BY DEF Init, TakenInv, ChangeKept
<1>2. TypeOK /\ TakenInv /\ ChangeKept /\ [Next]_vars => ChangeKept'
  <2> SUFFICES ASSUME TypeOK, TakenInv, ChangeKept, [Next]_vars, Transactional,
                      NEW u \in stale', CanIndex(u)
               PROVE  Kept(u)'
    BY DEF ChangeKept, Kept, InTodo, Taken, CanIndex
  <2>1. u \in stale => Kept(u)
    BY DEF ChangeKept, Kept, InTodo, Taken
  <2>2. CASE \E e \in Editors : Save(e)
    BY <2>1, <2>2, SaveKeeps
  <2>3. CASE \E e \in Editors : Hook(e)
    <3>1. PICK e \in Editors : Hook(e)
      BY <2>3
    <3>2. stale' = stale
      BY <3>1 DEF Hook, RecordAlreadyInLog, AddRecordToUrlLog, history
    <3>3. u \in Urls /\ Kept(u)
      BY <2>1, <3>2 DEF TypeOK
    <3> QED BY <3>1, <3>3, HookKeeps
  <2>4. CASE \E c \in Runs : Step(c) \/ Crash(c)
    <3>1. PICK c \in Runs : Step(c) \/ Crash(c)
      BY <2>4
    <3>2. stale' \subseteq stale
      BY <3>1 DEF Step, StartRun, Index, SelectRows, TakeRow, Commit, FileError, IndexURL,
                  IndexDone, ExecError, Crash, history
    <3> QED BY <2>1, <3>1, <3>2, RunKeeps
  <2>5. CASE UNCHANGED vars
    BY <2>1, <2>5 DEF vars, history, hookVars, runVars, Kept, InLog, InTodo, Taken
  <2> QED BY <2>2, <2>3, <2>4, <2>5 DEF Next
<1> QED BY <1>1, <1>2, UrlLogType, TakenStep, PTL DEF Spec
=============================================================================
