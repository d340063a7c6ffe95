------------------------------- MODULE Reports -------------------------------
(***************************************************************************)
(* In-game reports.  A worker thread of the server turns a player's report *)
(* into an issue of the tracker (an external program, bd), refreshes the   *)
(* two files that export the tracker's database, and moves the evidence    *)
(* into its final directory; a step that fails makes it take the issue     *)
(* back.  Other processes, the commands of the repair workflow, change and *)
(* export the same database.  A lock file keeps the transactions apart.    *)
(*                                                                         *)
(* A process is its program counter: the step it takes next.  Every step   *)
(* that leaves the process, to bd, git or the file system, may fail, and   *)
(* the processes may be killed between two steps.                          *)
(*                                                                         *)
(* A definition whose name is that of the next one, an underscore and a    *)
(* remark is a faulty variant, which no action uses.                       *)
(***************************************************************************)
EXTENDS Naturals, FiniteSets

CONSTANTS
  Reports,      \* report ids; an issue has the name of its report
  Jobs,         \* commands of the repair workflow
  None,         \* Python's None
  MaxFaults,    \* bound: steps that fail
  MaxCrashes    \* bound: times a process is killed
ASSUME NamesAssumption ==
  Reports \cap Jobs = {} /\ None \notin Reports \cup Jobs \cup {"ok", "failed", "recover"}

Procs == Reports \cup Jobs
Issues == [Reports -> {"none", "open", "worked"}]
NoIssues == [r \in Reports |-> "none"]

VARIABLES
  pc,         \* the step each process takes next
  outcome,    \* None, or how it ended: "ok", "failed" or, for a job, "recover"
  target,     \* the issue a job changes, or None: it only exports
  undoing,    \* reports whose issue is being taken back
  lock,       \* the process that holds .beads/dolt-access.lock
  db,         \* the tracker's database: [Reports -> none, open or worked]
  backup,     \* .beads/backup: the database as "bd backup" last wrote it
  exports,    \* .beads/issues.jsonl and .beads/dependencies.jsonl
  copies,     \* of a process: the new contents prepared, and the previous
  temp,       \* reports with a temporary directory
  evidence,   \* reports with a final directory
  faults,     \* history: <<process, step, taking back?>> that failed
  crashes     \* times a process was killed

vars == <<pc, outcome, target, undoing, lock, db, backup, exports, copies, temp,
          evidence, faults, crashes>>
tracker == <<db, backup>>
files == <<exports, copies, temp, evidence>>
rest == <<target, undoing, lock>>

At(x, step) == pc[x] = step
Goto(x, step) == pc' = [pc EXCEPT ![x] = step]
GotoEnd(x, step, how) == Goto(x, step) /\ outcome' = [outcome EXCEPT ![x] = how]
Healthy == UNCHANGED <<faults, crashes>>

-----------------------------------------------------------------------------
(* A report before the transaction. *)

(* Reporting is off, the player is not this connection's, the fields are   *)
(* invalid, or the state asked for is not there: nothing is written.       *)
Refuse(r) ==
  /\ At(r, "idle") /\ GotoEnd(r, "reply", "failed")
  /\ UNCHANGED <<rest, tracker, files>> /\ Healthy

Open(r) ==
  /\ At(r, "idle") /\ Goto(r, "gather")
  /\ temp' = temp \cup {r}
  /\ UNCHANGED <<outcome, rest, tracker, exports, copies, evidence>> /\ Healthy

(* The commit the server runs, the envelope, the game state, the image.    *)
Gather(r) ==
  /\ At(r, "gather") /\ Goto(r, "queue")
  /\ UNCHANGED <<outcome, rest, tracker, files>> /\ Healthy

(* A job looks for its issue without the lock: it may choose one whose     *)
(* transaction has not ended.                                              *)
Look(j) ==
  /\ At(j, "idle") /\ Goto(j, "queue")
  /\ \E r \in {s \in Reports : db[s] # "none"} \cup {None} :
       target' = [target EXCEPT ![j] = r]
  /\ UNCHANGED <<outcome, undoing, lock, tracker, files>> /\ Healthy

-----------------------------------------------------------------------------
(* The transaction.                                                        *)

Free == lock = None

Acquire(x) ==
  /\ At(x, "queue") /\ Free
  /\ lock' = x /\ Goto(x, IF x \in Reports THEN "create" ELSE "mutate")
  /\ UNCHANGED <<outcome, target, undoing, tracker, files>> /\ Healthy

Create(r) ==
  /\ At(r, "create") /\ Goto(r, "identify")
  /\ db' = [db EXCEPT ![r] = "open"]
  /\ UNCHANGED <<outcome, rest, backup, files>> /\ Healthy

(* _extract_issue_id: bd's output is read after the issue is there.        *)
Identify(r) ==
  /\ At(r, "identify") /\ Goto(r, "backup")
  /\ UNCHANGED <<outcome, rest, tracker, files>> /\ Healthy

Mutate(j) ==
  /\ At(j, "mutate")
  /\ IF target[j] # None /\ db[target[j]] = "none"
     THEN GotoEnd(j, "unlock", "failed") /\ UNCHANGED db
     ELSE /\ Goto(j, "backup") /\ UNCHANGED outcome
          /\ db' = [r \in Reports |-> IF r = target[j] THEN "worked" ELSE db[r]]
  /\ UNCHANGED <<rest, backup, files>> /\ Healthy

Backup(x) ==
  /\ At(x, "backup") /\ Goto(x, "copy")
  /\ backup' = db
  /\ UNCHANGED <<outcome, rest, db, files>> /\ Healthy

Copy(x) ==
  /\ At(x, "copy") /\ Goto(x, "issues")
  /\ copies' = [copies EXCEPT ![x] = [new |-> backup, old |-> exports]]
  /\ UNCHANGED <<outcome, rest, tracker, exports, temp, evidence>> /\ Healthy

ReplaceIssues(x) ==
  /\ At(x, "issues") /\ Goto(x, "dependencies")
  /\ exports' = [exports EXCEPT !.issues = copies[x].new]
  /\ UNCHANGED <<outcome, rest, tracker, copies, temp, evidence>> /\ Healthy

ReplaceDependencies(x) ==
  /\ At(x, "dependencies")
  /\ exports' = [exports EXCEPT !.dependencies = copies[x].new]
  /\ IF x \in Jobs THEN GotoEnd(x, "unlock", "ok")
     ELSE /\ Goto(x, IF x \in undoing THEN "unlock" ELSE "expose")
          /\ UNCHANGED outcome
  /\ UNCHANGED <<rest, tracker, copies, temp, evidence>> /\ Healthy

Expose(r) ==
  /\ At(r, "expose") /\ GotoEnd(r, "unlock", "ok")
  /\ evidence' = evidence \cup {r} /\ temp' = temp \ {r}
  /\ UNCHANGED <<rest, tracker, exports, copies>> /\ Healthy

-----------------------------------------------------------------------------
(* What a failure leads to.                                                *)

(* _backup_and_export failed.  A report takes its issue back, unless that  *)
(* is what it was doing; a job reports that its change is not exported.    *)
NotExported(x) ==
  IF x \in Jobs
  THEN GotoEnd(x, "unlock", IF target[x] = None THEN "failed" ELSE "recover")
  ELSE GotoEnd(x, IF x \in undoing THEN "unlock" ELSE "delete", "failed")

(* A report restores the files it has replaced, so none before the second; *)
(* a job restores both whichever step failed.                              *)
Restores(x, step) ==
  IF x \in Jobs THEN step \in {"copy", "issues", "dependencies"}
  ELSE step = "dependencies"

Restore_Unlinks(x) ==
  /\ At(x, "restore") /\ NotExported(x)
  /\ exports' = [exports EXCEPT !.issues = NoIssues]
  /\ UNCHANGED <<rest, tracker, copies, temp, evidence>> /\ Healthy

Restore(x) ==
  /\ At(x, "restore") /\ NotExported(x)
  /\ exports' = IF x \in Reports THEN [exports EXCEPT !.issues = copies[x].old.issues]
                ELSE copies[x].old
  /\ UNCHANGED <<rest, tracker, copies, temp, evidence>> /\ Healthy

FailedExpose_KeepsIssue(r) == GotoEnd(r, "unlock", "failed")
FailedExpose(r) == GotoEnd(r, "delete", "failed")

(* _rollback_issue, or as far as it gets. *)
Delete(r) ==
  /\ At(r, "delete") /\ Goto(r, "backup")
  /\ db' = [db EXCEPT ![r] = "none"] /\ undoing' = undoing \cup {r}
  /\ UNCHANGED <<outcome, target, lock, backup, files>> /\ Healthy

(* A step that fails does not do what it is for.  In "copy" a job has      *)
(* already read the originals it restores.                                 *)
Fail(x) ==
  /\ Cardinality(faults) < MaxFaults
  /\ faults' = faults \cup {<<x, pc[x], x \in undoing>>}
  /\ CASE pc[x] = "gather" -> GotoEnd(x, "reply", "failed")
       [] pc[x] \in {"create", "identify", "mutate", "delete"} ->
            GotoEnd(x, "unlock", "failed")
       [] pc[x] \in {"backup", "copy", "issues", "dependencies"} ->
            IF Restores(x, pc[x]) THEN Goto(x, "restore") /\ UNCHANGED outcome
            ELSE NotExported(x)
       [] pc[x] = "restore" -> NotExported(x)
       [] pc[x] = "expose" -> FailedExpose(x)
       [] OTHER -> FALSE
  /\ copies' = IF x \in Jobs /\ At(x, "copy")
               THEN [copies EXCEPT ![x] = [new |-> backup, old |-> exports]] ELSE copies
  /\ UNCHANGED <<rest, tracker, exports, temp, evidence, crashes>>

Unlock_NotOnFailure(x) ==
  /\ At(x, "unlock") /\ Goto(x, IF x \in Reports THEN "reply" ELSE "done")
  /\ lock' = IF outcome[x] = "ok" THEN None ELSE lock
  /\ UNCHANGED <<outcome, target, undoing, tracker, files>> /\ Healthy

Unlock(x) ==
  /\ At(x, "unlock") /\ Goto(x, IF x \in Reports THEN "reply" ELSE "done")
  /\ lock' = None
  /\ UNCHANGED <<outcome, target, undoing, tracker, files>> /\ Healthy

(* The finally clause, and the answer to the client. *)
Reply(r) ==
  /\ At(r, "reply") /\ Goto(r, "done")
  /\ temp' = temp \ {r}
  /\ UNCHANGED <<outcome, rest, tracker, exports, copies, evidence>> /\ Healthy

(* The server, with all its threads, or a job is killed: the system frees  *)
(* its lock, and nothing that it left behind is ever taken up again.       *)
Kill(group) ==
  /\ crashes < MaxCrashes /\ crashes' = crashes + 1
  /\ LET dead == {x \in group : pc[x] \notin {"idle", "done", "dead"}} IN
     /\ dead # {}
     /\ pc' = [x \in Procs |-> IF x \in dead THEN "dead" ELSE pc[x]]
     /\ lock' = IF lock \in dead THEN None ELSE lock
  /\ UNCHANGED <<outcome, target, undoing, tracker, files, faults>>

-----------------------------------------------------------------------------
Init ==
  /\ pc = [x \in Procs |-> "idle"] /\ outcome = [x \in Procs |-> None]
  /\ target = [j \in Jobs |-> None] /\ undoing = {} /\ lock = None
  /\ db = NoIssues /\ backup = NoIssues
  /\ exports = [issues |-> NoIssues, dependencies |-> NoIssues]
  /\ copies = [x \in Procs |-> [new |-> NoIssues, old |-> exports]]
  /\ temp = {} /\ evidence = {} /\ faults = {} /\ crashes = 0

ReportStep(r) == Refuse(r) \/ Open(r) \/ Gather(r) \/ Create(r) \/ Identify(r)
                 \/ Expose(r) \/ Delete(r) \/ Reply(r)
JobStep(j) == Look(j) \/ Mutate(j)
Export(x) == Backup(x) \/ Copy(x) \/ ReplaceIssues(x) \/ ReplaceDependencies(x)
             \/ Restore(x)
Step(x) == Acquire(x) \/ Export(x) \/ Unlock(x) \/ Fail(x)

Next == \/ \E r \in Reports : ReportStep(r)
        \/ \E j \in Jobs : JobStep(j)
        \/ \E x \in Procs : Step(x)
        \/ Kill(Reports) \/ \E j \in Jobs : Kill({j})

Spec == Init /\ [][Next]_vars

(* A thread that runs goes on, the external commands return, and the lock  *)
(* comes to everyone who waits for it.                                     *)
FairSpec ==
  /\ Spec
  /\ \A r \in Reports : WF_vars(ReportStep(r))
  /\ \A x \in Procs : WF_vars(Export(x) \/ Unlock(x)) /\ SF_vars(Acquire(x))
  /\ \A j \in Jobs : WF_vars(Mutate(j))
-----------------------------------------------------------------------------
(***************************************************************************)
(* Properties.                                                             *)
(***************************************************************************)

Steps == {"idle", "gather", "queue", "create", "identify", "mutate", "backup", "copy",
          "issues", "dependencies", "expose", "restore", "delete", "unlock", "reply",
          "done", "dead"}
Inside == {"create", "identify", "mutate", "backup", "copy", "issues", "dependencies",
           "expose", "restore", "delete", "unlock"}
Files == [issues : Issues, dependencies : Issues]

(* The one type invariant; a process is inside the transaction exactly     *)
(* when the lock is its own.                                               *)
TypeOK ==
  /\ pc \in [Procs -> Steps] /\ outcome \in [Procs -> {None, "ok", "failed", "recover"}]
  /\ target \in [Jobs -> Reports \cup {None}] /\ undoing \subseteq Reports
  /\ lock \in Procs \cup {None}
  /\ db \in Issues /\ backup \in Issues /\ exports \in Files
  /\ copies \in [Procs -> [new : Issues, old : Files]]
  /\ temp \subseteq Reports /\ evidence \subseteq Reports
  /\ \A x \in Procs : pc[x] \in Inside <=> lock = x

Failed(r, step) == \E undo \in BOOLEAN : <<r, step, undo>> \in faults

(* Evidence is exposed last, and nothing after it loses the issue: not a   *)
(* failed export of another process that restores older files, nor one     *)
(* that takes its own issue back, nor a process killed in the middle.      *)
EvidenceHasIssue ==
  \A r \in evidence :
    "none" \notin {db[r], exports.issues[r], exports.dependencies[r]}

(* A report that failed leaves no issue, no evidence and no temporary      *)
(* directory, wherever it failed; unless taking the issue back failed too, *)
(* or bd created the issue and its answer could not be read.               *)
FailedLeavesNothing ==
  \A r \in Reports :
    At(r, "done") /\ outcome[r] = "failed" =>
      /\ r \notin evidence \cup temp
      /\ db[r] = "none" \/ Failed(r, "delete") \/ Failed(r, "identify")

(* submit: a report is filed as a whole or not at all.                     *)
AllOrNothing == TypeOK /\ EvidenceHasIssue /\ FailedLeavesNothing

(* A process that ends well leaves exports of the database as it is, and   *)
(* so repairs what a killed process or a failed rollback left behind; and  *)
(* a change the workflow was told is exported stays in both files.         *)
ExportsHold ==
  \A x \in Procs : outcome[x] = "ok" =>
    /\ At(x, "unlock") => exports = [issues |-> db, dependencies |-> db]
    /\ x \in Jobs /\ target[x] # None =>
         {exports.issues[target[x]], exports.dependencies[target[x]]} = {"worked"}

(* Every report comes to its answer, however many steps fail.              *)
Answered ==
  \A r \in Reports : pc[r] # "idle" ~> pc[r] \in {"done", "dead"}

=============================================================================
