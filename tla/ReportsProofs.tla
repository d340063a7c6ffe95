---------------------------- MODULE ReportsProofs ----------------------------
(***************************************************************************)
(* Proofs about module Reports, for any number of reports and of jobs, and *)
(* for any number of steps that fail and of processes that are killed.     *)
(***************************************************************************)
EXTENDS Reports, TLAPS

Before == {"idle", "gather", "queue", "create"}
Filing == {"identify", "backup", "copy", "issues", "dependencies", "restore", "expose"}
Undoing == {"backup", "copy", "issues", "dependencies", "restore"}
After == {"unlock", "reply", "done", "dead"}
Parted == {"reply", "done", "dead"}

(* A report's issue: absent at first, there while it is filed, absent once *)
(* it was taken back; no job works on it before the report has left the    *)
(* transaction for good.                                                   *)
IssueOf(r) ==
  /\ pc[r] # "mutate"
  /\ pc[r] \in Before => db[r] = "none"
  /\ pc[r] \in Filing /\ r \notin undoing => db[r] # "none"
  /\ r \in undoing => db[r] = "none" /\ pc[r] \in Undoing \cup After /\ outcome[r] # "ok"
  /\ db[r] = "worked" => pc[r] \in Parted

(* How a report ends. *)
EndOf(r) ==
  /\ outcome[r] = "ok" => pc[r] \in After
  /\ r \in evidence => pc[r] \in After /\ outcome[r] = "ok" /\ db[r] # "none"
  /\ pc[r] = "done" => r \notin temp
  /\ pc[r] \in {"unlock", "reply", "done"} /\ outcome[r] = "failed"
       => db[r] = "none" \/ Failed(r, "delete") \/ Failed(r, "identify")

(* A job's change stays in the database. *)
WorkOf(j) ==
  /\ outcome[j] = "ok" => pc[j] \in After
  /\ target[j] # None /\ (pc[j] \in Undoing \/ outcome[j] = "ok") => db[target[j]] = "worked"

(* What a pair of files must show, whichever process wrote it. *)
Shows(f) ==
  /\ \A r \in evidence : f.issues[r] # "none" /\ f.dependencies[r] # "none"
  /\ \A j \in Jobs : outcome[j] = "ok" /\ target[j] # None =>
       f.issues[target[j]] = "worked" /\ f.dependencies[target[j]] = "worked"

(* Inside the transaction the process that holds the lock prepares the     *)
(* database as it is, and may put back only files that show enough.        *)
ExportOf(x) ==
  /\ pc[x] = "copy" => backup = db
  /\ pc[x] \in {"issues", "dependencies"} => copies[x].new = db
  /\ pc[x] = "dependencies" => exports.issues = db
  /\ pc[x] \in {"issues", "dependencies", "restore"} => Shows(copies[x].old)
  /\ pc[x] = "expose" \/ (pc[x] = "unlock" /\ outcome[x] = "ok")
       => exports.issues = db /\ exports.dependencies = db

Inv ==
  /\ TypeOK
  /\ \A r \in Reports : IssueOf(r) /\ EndOf(r)
  /\ \A j \in Jobs : WorkOf(j)
  /\ \A x \in Procs : ExportOf(x)
  /\ Shows(exports)

-----------------------------------------------------------------------------
(* What every step uses of the constants and of the steps' names. *)
USE DEF Procs, At, Goto, GotoEnd, Healthy, rest, tracker, files

USE NamesAssumption

(* The initial states: nothing is filed, held or written. *)
LEMMA InitInv == Init => Inv
BY DEF Init, Issues, Files, NoIssues, Inv, TypeOK, Steps, Inside, IssueOf, EndOf, WorkOf, ExportOf, Shows, Before, Filing,
       Undoing, After, Parted

LEMMA RefuseInv == ASSUME Inv, NEW r \in Reports, Refuse(r) PROVE Inv'
<1>1. TypeOK'
  BY DEF Inv, TypeOK, Steps, Inside, Refuse
<1>2. ASSUME NEW q \in Reports PROVE IssueOf(q)'
  BY DEF Inv, IssueOf, Before, Filing, After, Refuse
<1>3. ASSUME NEW q \in Reports PROVE EndOf(q)'
  <2>1. \A step : Failed(q, step) => Failed(q, step)'
    BY DEF Failed, Refuse
  <2>. QED BY <2>1 DEF Inv, TypeOK, IssueOf, EndOf, Before, Refuse
<1>4. ASSUME NEW k \in Jobs PROVE WorkOf(k)'
  BY DEF Inv, WorkOf, Refuse
<1>5. ASSUME NEW y \in Procs PROVE ExportOf(y)'
  BY DEF Inv, ExportOf, Shows, Refuse
<1>6. Shows(exports)'
  BY DEF Inv, Shows, Refuse
<1>. QED BY <1>1, <1>2, <1>3, <1>4, <1>5, <1>6 DEF Inv

LEMMA OpenInv == ASSUME Inv, NEW r \in Reports, Open(r) PROVE Inv'
<1>1. TypeOK'
  BY DEF Inv, TypeOK, Steps, Inside, Open
<1>2. ASSUME NEW q \in Reports PROVE IssueOf(q)'
  BY DEF Inv, IssueOf, Before, Filing, Undoing, After, Open
<1>3. ASSUME NEW q \in Reports PROVE EndOf(q)'
  <2>1. \A step : Failed(q, step) => Failed(q, step)'
    BY DEF Failed, Open
  <2>. QED BY <2>1 DEF Inv, EndOf, After, Open
<1>4. ASSUME NEW k \in Jobs PROVE WorkOf(k)'
  BY DEF Inv, WorkOf, Open
<1>5. ASSUME NEW y \in Procs PROVE ExportOf(y)'
  BY DEF Inv, ExportOf, Shows, Open
<1>6. Shows(exports)'
  BY DEF Inv, Shows, Open
<1>. QED BY <1>1, <1>2, <1>3, <1>4, <1>5, <1>6 DEF Inv

LEMMA GatherInv == ASSUME Inv, NEW r \in Reports, Gather(r) PROVE Inv'
<1>1. TypeOK'
  BY DEF Inv, TypeOK, Steps, Inside, Gather
<1>2. ASSUME NEW q \in Reports PROVE IssueOf(q)'
  BY DEF Inv, IssueOf, Before, Filing, Undoing, After, Gather
<1>3. ASSUME NEW q \in Reports PROVE EndOf(q)'
  <2>1. \A step : Failed(q, step) => Failed(q, step)'
    BY DEF Failed, Gather
  <2>. QED BY <2>1 DEF Inv, EndOf, After, Gather
<1>4. ASSUME NEW k \in Jobs PROVE WorkOf(k)'
  BY DEF Inv, WorkOf, Gather
<1>5. ASSUME NEW y \in Procs PROVE ExportOf(y)'
  BY DEF Inv, ExportOf, Shows, Gather
<1>6. Shows(exports)'
  BY DEF Inv, Shows, Gather
<1>. QED BY <1>1, <1>2, <1>3, <1>4, <1>5, <1>6 DEF Inv

LEMMA LookInv == ASSUME Inv, NEW j \in Jobs, Look(j) PROVE Inv'
<1>1. TypeOK'
  BY DEF Inv, TypeOK, Steps, Inside, Look
<1>2. ASSUME NEW q \in Reports PROVE IssueOf(q)'
  BY DEF Inv, IssueOf, Look
<1>3. ASSUME NEW q \in Reports PROVE EndOf(q)'
  <2>1. \A step : Failed(q, step) => Failed(q, step)'
    BY DEF Failed, Look
  <2>. QED BY <2>1 DEF Inv, EndOf, Look
<1>4. ASSUME NEW k \in Jobs PROVE WorkOf(k)'
  BY DEF Inv, WorkOf, Undoing, After, Look
<1>5. ASSUME NEW y \in Procs PROVE ExportOf(y)'
  BY DEF Inv, WorkOf, ExportOf, Shows, After, Look
<1>6. Shows(exports)'
  BY DEF Inv, WorkOf, Shows, After, Look
<1>. QED BY <1>1, <1>2, <1>3, <1>4, <1>5, <1>6 DEF Inv

LEMMA AcquireInv == ASSUME Inv, NEW x \in Procs, Acquire(x) PROVE Inv'
<1>1. TypeOK'
  BY DEF Inv, TypeOK, Steps, Inside, Acquire, Free
<1>2. ASSUME NEW q \in Reports PROVE IssueOf(q)'
  BY DEF Inv, IssueOf, Before, Filing, Undoing, After, Acquire
<1>3. ASSUME NEW q \in Reports PROVE EndOf(q)'
  <2>1. \A step : Failed(q, step) => Failed(q, step)'
    BY DEF Failed, Acquire
  <2>. QED BY <2>1 DEF Inv, EndOf, After, Acquire
<1>4. ASSUME NEW k \in Jobs PROVE WorkOf(k)'
  BY DEF Inv, WorkOf, Undoing, After, Acquire
<1>5. ASSUME NEW y \in Procs PROVE ExportOf(y)'
  BY DEF Inv, ExportOf, Shows, Acquire
<1>6. Shows(exports)'
  BY DEF Inv, Shows, Acquire
<1>. QED BY <1>1, <1>2, <1>3, <1>4, <1>5, <1>6 DEF Inv

LEMMA CreateInv == ASSUME Inv, NEW r \in Reports, Create(r) PROVE Inv'
<1>1. TypeOK'
  BY DEF Inv, TypeOK, Steps, Inside, Issues, Create
<1>2. ASSUME NEW q \in Reports PROVE IssueOf(q)'
  BY DEF Inv, TypeOK, Issues, IssueOf, Before, Undoing, After, Create
<1>3. ASSUME NEW q \in Reports PROVE EndOf(q)'
  <2>1. \A step : Failed(q, step) => Failed(q, step)'
    BY DEF Failed, Create
  <2>. QED BY <2>1 DEF Inv, EndOf, After, Create
<1>4. ASSUME NEW k \in Jobs PROVE WorkOf(k)'
  BY DEF Inv, IssueOf, WorkOf, Before, Create
<1>5. ASSUME NEW y \in Procs PROVE ExportOf(y)'
  BY DEF Inv, TypeOK, Inside, ExportOf, Create
<1>6. Shows(exports)'
  BY DEF Inv, Shows, Create
<1>. QED BY <1>1, <1>2, <1>3, <1>4, <1>5, <1>6 DEF Inv

LEMMA IdentifyInv == ASSUME Inv, NEW r \in Reports, Identify(r) PROVE Inv'
<1>1. TypeOK'
  BY DEF Inv, TypeOK, Steps, Inside, Identify
<1>2. ASSUME NEW q \in Reports PROVE IssueOf(q)'
  BY DEF Inv, IssueOf, Before, Filing, Undoing, Parted, Identify
<1>3. ASSUME NEW q \in Reports PROVE EndOf(q)'
  <2>1. \A step : Failed(q, step) => Failed(q, step)'
    BY DEF Failed, Identify
  <2>. QED BY <2>1 DEF Inv, EndOf, After, Identify
<1>4. ASSUME NEW k \in Jobs PROVE WorkOf(k)'
  BY DEF Inv, WorkOf, Identify
<1>5. ASSUME NEW y \in Procs PROVE ExportOf(y)'
  BY DEF Inv, ExportOf, Shows, Identify
<1>6. Shows(exports)'
  BY DEF Inv, Shows, Identify
<1>. QED BY <1>1, <1>2, <1>3, <1>4, <1>5, <1>6 DEF Inv

LEMMA MutateInv == ASSUME Inv, NEW j \in Jobs, Mutate(j) PROVE Inv'
<1>1. TypeOK'
  <2>1. db' \in Issues
    BY DEF Inv, TypeOK, Issues, Mutate
  <2>2. pc' \in [Procs -> Steps] /\ outcome' \in [Procs -> {None, "ok", "failed", "recover"}]
    BY DEF Inv, TypeOK, Steps, Mutate
  <2>3. \A y \in Procs : pc'[y] \in Inside <=> pc[y] \in Inside
    BY DEF Inv, TypeOK, Inside, Mutate
  <2>. QED BY <2>1, <2>2, <2>3 DEF Inv, TypeOK, Mutate
<1>2. ASSUME NEW q \in Reports PROVE IssueOf(q)'
  BY DEF Inv, TypeOK, Steps, Inside, IssueOf, Before, Parted, Mutate
<1>3. ASSUME NEW q \in Reports PROVE EndOf(q)'
  <2>1. \A step : Failed(q, step) => Failed(q, step)'
    BY DEF Failed, Mutate
  <2>. QED BY <2>1 DEF Inv, TypeOK, EndOf, Mutate
<1>4. ASSUME NEW k \in Jobs PROVE WorkOf(k)'
  BY DEF Inv, TypeOK, WorkOf, Undoing, After, Mutate
<1>5. ASSUME NEW y \in Procs PROVE ExportOf(y)'
  BY DEF Inv, TypeOK, Inside, ExportOf, Mutate
<1>6. Shows(exports)'
  BY DEF Inv, TypeOK, Shows, Mutate
<1>. QED BY <1>1, <1>2, <1>3, <1>4, <1>5, <1>6 DEF Inv

LEMMA BackupInv == ASSUME Inv, NEW x \in Procs, Backup(x) PROVE Inv'
<1>1. TypeOK'
  BY DEF Inv, TypeOK, Steps, Inside, Backup
<1>2. ASSUME NEW q \in Reports PROVE IssueOf(q)'
  BY DEF Inv, IssueOf, Before, Filing, Undoing, Parted, Backup
<1>3. ASSUME NEW q \in Reports PROVE EndOf(q)'
  <2>1. \A step : Failed(q, step) => Failed(q, step)'
    BY DEF Failed, Backup
  <2>. QED BY <2>1 DEF Inv, EndOf, After, Backup
<1>4. ASSUME NEW k \in Jobs PROVE WorkOf(k)'
  BY DEF Inv, WorkOf, Undoing, After, Backup
<1>5. ASSUME NEW y \in Procs PROVE ExportOf(y)'
  BY DEF Inv, ExportOf, Shows, Backup
<1>6. Shows(exports)'
  BY DEF Inv, Shows, Backup
<1>. QED BY <1>1, <1>2, <1>3, <1>4, <1>5, <1>6 DEF Inv

LEMMA CopyInv == ASSUME Inv, NEW x \in Procs, Copy(x) PROVE Inv'
<1>1. TypeOK'
  BY DEF Inv, TypeOK, Steps, Inside, Copy
<1>2. ASSUME NEW q \in Reports PROVE IssueOf(q)'
  BY DEF Inv, IssueOf, Before, Filing, Undoing, Parted, Copy
<1>3. ASSUME NEW q \in Reports PROVE EndOf(q)'
  <2>1. \A step : Failed(q, step) => Failed(q, step)'
    BY DEF Failed, Copy
  <2>. QED BY <2>1 DEF Inv, EndOf, After, Copy
<1>4. ASSUME NEW k \in Jobs PROVE WorkOf(k)'
  BY DEF Inv, WorkOf, Undoing, After, Copy
<1>5. ASSUME NEW y \in Procs PROVE ExportOf(y)'
  BY DEF Inv, TypeOK, ExportOf, Shows, Copy
<1>6. Shows(exports)'
  BY DEF Inv, Shows, Copy
<1>. QED BY <1>1, <1>2, <1>3, <1>4, <1>5, <1>6 DEF Inv

LEMMA ReplaceIssuesInv == ASSUME Inv, NEW x \in Procs, ReplaceIssues(x) PROVE Inv'
<1>1. TypeOK'
  BY DEF Inv, TypeOK, Steps, Inside, Files, ReplaceIssues
<1>2. ASSUME NEW q \in Reports PROVE IssueOf(q)'
  BY DEF Inv, IssueOf, Before, Filing, Undoing, Parted, ReplaceIssues
<1>3. ASSUME NEW q \in Reports PROVE EndOf(q)'
  <2>1. \A step : Failed(q, step) => Failed(q, step)'
    BY DEF Failed, ReplaceIssues
  <2>. QED BY <2>1 DEF Inv, EndOf, After, ReplaceIssues
<1>4. ASSUME NEW k \in Jobs PROVE WorkOf(k)'
  BY DEF Inv, WorkOf, Undoing, After, ReplaceIssues
<1>5. ASSUME NEW y \in Procs PROVE ExportOf(y)'
  BY DEF Inv, ExportOf, Shows, ReplaceIssues
<1>6. Shows(exports)'
  BY DEF Inv, TypeOK, EndOf, WorkOf, ExportOf, Shows, ReplaceIssues
<1>. QED BY <1>1, <1>2, <1>3, <1>4, <1>5, <1>6 DEF Inv

LEMMA ReplaceDependenciesInv == ASSUME Inv, NEW x \in Procs, ReplaceDependencies(x) PROVE Inv'
<1>1. TypeOK'
  BY DEF Inv, TypeOK, Steps, Inside, Files, ReplaceDependencies
<1>2. ASSUME NEW q \in Reports PROVE IssueOf(q)'
  BY DEF Inv, TypeOK, IssueOf, Before, Filing, After, Parted, ReplaceDependencies
<1>3. ASSUME NEW q \in Reports PROVE EndOf(q)'
  <2>1. \A step : Failed(q, step) => Failed(q, step)'
    BY DEF Failed, ReplaceDependencies
  <2>. QED BY <2>1 DEF Inv, TypeOK, IssueOf, EndOf, After, ReplaceDependencies
<1>4. ASSUME NEW k \in Jobs PROVE WorkOf(k)'
  BY DEF Inv, TypeOK, WorkOf, Undoing, After, ReplaceDependencies
<1>5. ASSUME NEW y \in Procs PROVE ExportOf(y)'
  BY DEF Inv, TypeOK, Inside, ExportOf, ReplaceDependencies
<1>6. Shows(exports)'
  BY DEF Inv, TypeOK, WorkOf, ExportOf, Shows, Undoing, ReplaceDependencies
<1>. QED BY <1>1, <1>2, <1>3, <1>4, <1>5, <1>6 DEF Inv

LEMMA ExposeInv == ASSUME Inv, NEW r \in Reports, Expose(r) PROVE Inv'
<1>1. TypeOK'
  BY DEF Inv, TypeOK, Steps, Inside, Expose
<1>2. ASSUME NEW q \in Reports PROVE IssueOf(q)'
  BY DEF Inv, IssueOf, Before, Filing, Undoing, After, Parted, Expose
<1>3. ASSUME NEW q \in Reports PROVE EndOf(q)'
  <2>1. \A step : Failed(q, step) => Failed(q, step)'
    BY DEF Failed, Expose
  <2>. QED BY <2>1 DEF Inv, TypeOK, IssueOf, EndOf, Filing, Undoing, After, Expose
<1>4. ASSUME NEW k \in Jobs PROVE WorkOf(k)'
  BY DEF Inv, WorkOf, Expose
<1>5. ASSUME NEW y \in Procs PROVE ExportOf(y)'
  BY DEF Inv, TypeOK, Inside, ExportOf, Expose
<1>6. Shows(exports)'
  BY DEF Inv, IssueOf, ExportOf, Shows, Filing, Undoing, After, Expose
<1>. QED BY <1>1, <1>2, <1>3, <1>4, <1>5, <1>6 DEF Inv

LEMMA RestoreInv == ASSUME Inv, NEW x \in Procs, Restore(x) PROVE Inv'
<1>1. TypeOK'
  BY DEF Inv, TypeOK, Steps, Inside, Files, Restore, NotExported
<1>2. ASSUME NEW q \in Reports PROVE IssueOf(q)'
  BY DEF Inv, TypeOK, IssueOf, Before, Filing, After, Parted, Restore, NotExported
<1>3. ASSUME NEW q \in Reports PROVE EndOf(q)'
  <2>1. \A step : Failed(q, step) => Failed(q, step)'
    BY DEF Failed, Restore
  <2>. QED BY <2>1 DEF Inv, TypeOK, IssueOf, EndOf, After, Restore, NotExported
<1>4. ASSUME NEW k \in Jobs PROVE WorkOf(k)'
  BY DEF Inv, TypeOK, WorkOf, Undoing, Restore, NotExported
<1>5. ASSUME NEW y \in Procs PROVE ExportOf(y)'
  BY DEF Inv, TypeOK, Inside, ExportOf, Restore, NotExported
<1>6. Shows(exports)'
  BY DEF Inv, TypeOK, ExportOf, Shows, Restore, NotExported
<1>. QED BY <1>1, <1>2, <1>3, <1>4, <1>5, <1>6 DEF Inv

LEMMA DeleteInv == ASSUME Inv, NEW r \in Reports, Delete(r) PROVE Inv'
<1>1. TypeOK'
  BY DEF Inv, TypeOK, Steps, Inside, Issues, Delete
<1>2. ASSUME NEW q \in Reports PROVE IssueOf(q)'
  BY DEF Inv, TypeOK, Issues, IssueOf, EndOf, Undoing, After, Delete
<1>3. ASSUME NEW q \in Reports PROVE EndOf(q)'
  <2>1. \A step : Failed(q, step) => Failed(q, step)'
    BY DEF Failed, Delete
  <2>. QED BY <2>1 DEF Inv, EndOf, After, Delete
<1>4. ASSUME NEW k \in Jobs PROVE WorkOf(k)'
  BY DEF Inv, IssueOf, WorkOf, Filing, Undoing, After, Parted, Before, Delete
<1>5. ASSUME NEW y \in Procs PROVE ExportOf(y)'
  BY DEF Inv, TypeOK, Inside, ExportOf, Delete
<1>6. Shows(exports)'
  BY DEF Inv, Shows, Delete
<1>. QED BY <1>1, <1>2, <1>3, <1>4, <1>5, <1>6 DEF Inv

LEMMA FailInv == ASSUME Inv, NEW x \in Procs, Fail(x) PROVE Inv'
<1>1. TypeOK'
  BY DEF Inv, TypeOK, Steps, Inside, Fail, NotExported, FailedExpose
<1>2. ASSUME NEW q \in Reports PROVE IssueOf(q)'
  BY DEF Inv, TypeOK, IssueOf, Before, Filing, Undoing, After, Parted, Fail, NotExported, FailedExpose
<1>3. ASSUME NEW q \in Reports PROVE EndOf(q)'
  <2>1. \A step : Failed(q, step) => Failed(q, step)'
    BY DEF Failed, Fail
  <2>2. UNCHANGED <<db, temp, evidence>>
    BY DEF Fail
  <2>3. CASE q # x
    <3>1. pc'[q] = pc[q] /\ outcome'[q] = outcome[q]
      BY <2>3 DEF Inv, TypeOK, Fail, NotExported, FailedExpose
    <3>. QED BY <2>1, <2>2, <3>1 DEF Inv, EndOf
  <2>4. CASE q = x
    <3>1. \A step \in {"identify", "delete"} : pc[x] = step => Failed(x, step)'
      <4>1. <<x, pc[x], x \in undoing>> \in faults'
        BY DEF Fail
      <4>2. (x \in undoing) \in BOOLEAN
        OBVIOUS
      <4>. QED BY <4>1, <4>2 DEF Failed
    <3>2. x \notin evidence /\ pc'[x] \in {"reply", "unlock", "delete", "restore"}
      BY <2>4 DEF Inv, TypeOK, EndOf, After, Fail, NotExported, FailedExpose
    <3>3. outcome'[x] # "ok"
      BY <2>4 DEF Inv, TypeOK, EndOf, After, Fail, NotExported, FailedExpose
    <3>4. CASE pc'[x] \in {"reply", "unlock"}
      <4>1. \/ pc[x] \in {"identify", "delete"}
            \/ pc[x] \in Before
            \/ x \in undoing
        BY <2>4, <3>4 DEF Inv, TypeOK, IssueOf, Before, Fail, NotExported, FailedExpose
      <4>. QED BY <2>2, <2>4, <3>1, <3>2, <3>3, <3>4, <4>1 DEF Inv, IssueOf, EndOf
    <3>5. CASE pc'[x] \in {"delete", "restore"}
      BY <2>2, <2>4, <3>2, <3>3, <3>5 DEF EndOf
    <3>. QED BY <3>2, <3>4, <3>5
  <2>. QED BY <2>3, <2>4
<1>4. ASSUME NEW k \in Jobs PROVE WorkOf(k)'
  BY DEF Inv, TypeOK, WorkOf, Filing, Undoing, After, Fail, NotExported, FailedExpose
<1>5. ASSUME NEW y \in Procs PROVE ExportOf(y)'
  BY DEF Inv, TypeOK, ExportOf, Shows, Fail, NotExported, Restores, FailedExpose
<1>6. Shows(exports)'
  BY DEF Inv, TypeOK, Shows, Fail, NotExported, FailedExpose
<1>. QED BY <1>1, <1>2, <1>3, <1>4, <1>5, <1>6 DEF Inv

LEMMA UnlockInv == ASSUME Inv, NEW x \in Procs, Unlock(x) PROVE Inv'
<1>1. TypeOK'
  BY DEF Inv, TypeOK, Steps, Inside, Unlock
<1>2. ASSUME NEW q \in Reports PROVE IssueOf(q)'
  BY DEF Inv, IssueOf, Before, Filing, After, Parted, Unlock
<1>3. ASSUME NEW q \in Reports PROVE EndOf(q)'
  <2>1. \A step : Failed(q, step) => Failed(q, step)'
    BY DEF Failed, Unlock
  <2>. QED BY <2>1 DEF Inv, EndOf, After, Unlock
<1>4. ASSUME NEW k \in Jobs PROVE WorkOf(k)'
  BY DEF Inv, WorkOf, Undoing, After, Unlock
<1>5. ASSUME NEW y \in Procs PROVE ExportOf(y)'
  BY DEF Inv, ExportOf, Shows, Unlock
<1>6. Shows(exports)'
  BY DEF Inv, Shows, Unlock
<1>. QED BY <1>1, <1>2, <1>3, <1>4, <1>5, <1>6 DEF Inv

LEMMA ReplyInv == ASSUME Inv, NEW r \in Reports, Reply(r) PROVE Inv'
<1>1. TypeOK'
  BY DEF Inv, TypeOK, Steps, Inside, Reply
<1>2. ASSUME NEW q \in Reports PROVE IssueOf(q)'
  BY DEF Inv, IssueOf, Before, Filing, After, Parted, Reply
<1>3. ASSUME NEW q \in Reports PROVE EndOf(q)'
  <2>1. \A step : Failed(q, step) => Failed(q, step)'
    BY DEF Failed, Reply
  <2>. QED BY <2>1 DEF Inv, EndOf, After, Reply
<1>4. ASSUME NEW k \in Jobs PROVE WorkOf(k)'
  BY DEF Inv, WorkOf, Reply
<1>5. ASSUME NEW y \in Procs PROVE ExportOf(y)'
  BY DEF Inv, ExportOf, Shows, Reply
<1>6. Shows(exports)'
  BY DEF Inv, Shows, Reply
<1>. QED BY <1>1, <1>2, <1>3, <1>4, <1>5, <1>6 DEF Inv

LEMMA KillInv == ASSUME Inv, NEW group \in SUBSET Procs, Kill(group) PROVE Inv'
<1>1. TypeOK'
  BY DEF Inv, TypeOK, Steps, Inside, Kill
<1>2. ASSUME NEW q \in Reports PROVE IssueOf(q)' /\ EndOf(q)'
  <2>1. \A step : Failed(q, step) => Failed(q, step)'
    BY DEF Failed, Kill
  <2>. QED BY <2>1 DEF Inv, IssueOf, EndOf, Before, Filing, After, Parted, Kill
<1>3. ASSUME NEW k \in Jobs PROVE WorkOf(k)'
  BY DEF Inv, WorkOf, Undoing, After, Kill
<1>4. ASSUME NEW y \in Procs PROVE ExportOf(y)'
  BY DEF Inv, ExportOf, Shows, Kill
<1>5. Shows(exports)'
  BY DEF Inv, Shows, Kill
<1>. QED BY <1>1, <1>2, <1>3, <1>4, <1>5 DEF Inv

LEMMA StepInv == Inv /\ [Next]_vars => Inv'
<1>. SUFFICES ASSUME Inv, [Next]_vars PROVE Inv'  OBVIOUS
<1>1. ASSUME NEW r \in Reports, ReportStep(r) PROVE Inv'
  BY <1>1, RefuseInv, OpenInv, GatherInv, CreateInv, IdentifyInv, ExposeInv, DeleteInv, ReplyInv
  DEF ReportStep
<1>2. ASSUME NEW j \in Jobs, JobStep(j) PROVE Inv'
  BY <1>2, LookInv, MutateInv DEF JobStep
<1>3. ASSUME NEW x \in Procs, Step(x) PROVE Inv'
  BY <1>3, AcquireInv, BackupInv, CopyInv, ReplaceIssuesInv, ReplaceDependenciesInv, RestoreInv,
     UnlockInv, FailInv DEF Step, Export
<1>4. CASE Kill(Reports) \/ \E j \in Jobs : Kill({j})
  BY <1>4, KillInv
<1>5. CASE UNCHANGED vars
  <2>1. \A q, step : Failed(q, step) => Failed(q, step)'
    BY <1>5 DEF Failed, vars
  <2>. QED BY <1>5, <2>1 DEF Inv, TypeOK, IssueOf, EndOf, WorkOf, ExportOf, Shows, vars
<1>. QED BY <1>1, <1>2, <1>3, <1>4, <1>5 DEF Next

(* A report is filed as a whole or not at all, and the shape of the state, *)
(* for every number of reports, of jobs, of faults and of crashes.         *)
THEOREM FiledWhole == Spec => []AllOrNothing
<1>1. Inv => EvidenceHasIssue
  BY DEF Inv, EndOf, Shows, TypeOK, EvidenceHasIssue
<1>2. Inv => FailedLeavesNothing
  BY DEF Inv, EndOf, FailedLeavesNothing
<1>3. Inv => AllOrNothing
  BY <1>1, <1>2 DEF Inv, AllOrNothing
<1>. QED BY <1>3, InitInv, StepInv, PTL DEF Spec

(* The exports of a process that ends well are those of the database, and  *)
(* a job's exported change stays, whatever the others fail at.             *)
THEOREM ExportsStay == Spec => []ExportsHold
<1>1. Inv => ExportsHold
  BY DEF Inv, TypeOK, ExportOf, Shows, ExportsHold, Files
<1>. QED BY <1>1, InitInv, StepInv, PTL DEF Spec

=============================================================================
