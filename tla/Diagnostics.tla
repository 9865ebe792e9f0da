----------------------------- MODULE Diagnostics -----------------------------
(***************************************************************************)
(* The backend's diagnostics: an administrator starts a run of the test    *)
(* suite, a task of its own waits for pytest and reports.  A run is told   *)
(* twice: in one state file, which the console shows and every run         *)
(* overwrites, and in its row of test_runs.  The file is written without   *)
(* an await, the row with one.  _diagnostics_task is what keeps a second   *)
(* run from being started; it is set only after the row is committed.      *)
(*                                                                         *)
(* Failures, of which at most MaxFaults happen:                            *)
(*   "database"  committing a row raises, stored or not                    *)
(*   "disk"      writing the state file or the report raises               *)
(*   "process"   pytest ends by itself just as it is killed, which raises  *)
(*   "restart"   the backend is restarted or crashes                       *)
(***************************************************************************)
EXTENDS Naturals

CONSTANTS
  Jobs,       \* the job_ids (uuid4: never used twice)
  None,       \* no task, no job in the file
  MaxFaults   \* bound: failures in one behaviour

ASSUME JobsAssumption == None \notin Jobs
ASSUME BoundAssumption == MaxFaults \in Nat

VARIABLES
  at,      \* each job: where its request, then its task, is
  result,  \* what the task is going to save, "none" before it knows
  file,    \* the state file
  rows,    \* test_runs.overall_status, "none" while there is no row
  task,    \* _diagnostics_task
  faults,  \* how many failures there have been
  broken,  \* history: one of them was more than a restart
  raced    \* history: a start overlapped another, and its job is not over

vars == <<at, result, file, rows, task, faults, broken, raced>>

Outcomes == {"passed", "failed"}
Working  == {"testing", "saving", "resaving"}
Places   == {"idle", "inserting", "done", "dead"} \cup Working

Active == {j \in Jobs : at[j] \in Working \cup {"inserting"}}

Init ==
  /\ at = [j \in Jobs |-> "idle"] /\ result = [j \in Jobs |-> "none"]
  /\ file = [job |-> None, status |-> "none"]
  /\ rows = [j \in Jobs |-> "none"]
  /\ task = None
  /\ faults = 0 /\ broken = FALSE /\ raced = FALSE

Fail  == faults < MaxFaults /\ faults' = faults + 1
Break == Fail /\ broken' = TRUE

Move(j, place) == at' = [at EXCEPT ![j] = place]
(* The state file; the text report beside it is written and forgotten. *)
Tell(j, status) == file' = [job |-> j, status |-> status]
Store(j, status) == rows' = [rows EXCEPT ![j] = status]

-------------------------------------------------------------------------------
(* admin_run_diagnostics *)

TaskDone == task \notin {j \in Jobs : at[j] \in Working}

(* Mutant: nothing keeps a second run from being started. *)
StartAnyway(j) ==
  /\ at[j] = "idle"
  /\ Tell(j, "running") /\ Move(j, "inserting")
  /\ raced' = ((raced /\ Active # {}) \/ \E k \in Jobs : at[k] = "inserting")
  /\ UNCHANGED <<result, rows, task, faults, broken>>

(* While the task runs the request is answered without effect. *)
Start(j) ==
  /\ at[j] = "idle"
  /\ TaskDone
  /\ Tell(j, "running") /\ Move(j, "inserting")
  /\ raced' = ((raced /\ Active # {}) \/ \E k \in Jobs : at[k] = "inserting")
  /\ UNCHANGED <<result, rows, task, faults, broken>>

StartError(j) ==
  /\ at[j] = "idle"
  /\ TaskDone
  /\ Break
  /\ Move(j, "dead")
  /\ UNCHANGED <<result, file, rows, task, raced>>

InsertRow(j) ==
  /\ at[j] = "inserting"
  /\ Store(j, "running")
  /\ task' = j /\ Move(j, "testing")
  /\ UNCHANGED <<result, file, faults, broken, raced>>

(* No task is created; the file goes on saying "running". *)
InsertError(j) ==
  /\ at[j] = "inserting"
  /\ Break
  /\ (Store(j, "running") \/ UNCHANGED rows)
  /\ Move(j, "dead")
  /\ UNCHANGED <<result, file, task, raced>>

-------------------------------------------------------------------------------
(* _run_diagnostics_job *)

Report(j, outcome, place) ==
  /\ Tell(j, outcome)
  /\ result' = [result EXCEPT ![j] = outcome]
  /\ Move(j, place)

(* pytest ended; or it was killed after 120 seconds, or is not installed:  *)
(* then the handler of the exception reports, and nothing handles another. *)
Finish(j) ==
  /\ at[j] = "testing"
  /\ \/ \E outcome \in Outcomes : Report(j, outcome, "saving")
     \/ Report(j, "failed", "resaving")
  /\ UNCHANGED <<rows, task, faults, broken, raced>>

(* Writing the file or the report raises; the handler of the exception     *)
(* writes both again.  Nothing handles what a handler raises.              *)
ReportError(j) ==
  /\ at[j] = "testing"
  /\ Break
  /\ \/ Report(j, "failed", "resaving")
     \/ /\ Move(j, "dead")
        /\ (UNCHANGED file \/ \E outcome \in Outcomes : Tell(j, outcome))
        /\ UNCHANGED result
  /\ UNCHANGED <<rows, task, raced>>

(* Mutant: the row is not completed. *)
SaveNothing(j) ==
  /\ at[j] \in {"saving", "resaving"}
  /\ Move(j, "done")
  /\ UNCHANGED <<result, file, rows, task, faults, broken, raced>>

Save(j) ==
  /\ at[j] \in {"saving", "resaving"}
  /\ Store(j, result[j])
  /\ Move(j, "done")
  /\ UNCHANGED <<result, file, task, faults, broken, raced>>

(* Mutant: the handler of the exception saves again without telling. *)
SaveErrorQuietly(j) ==
  /\ at[j] \in {"saving", "resaving"}
  /\ Break
  /\ (Store(j, result[j]) \/ UNCHANGED rows)
  /\ \/ /\ at[j] = "saving"
        /\ result' = [result EXCEPT ![j] = "failed"] /\ Move(j, "resaving")
     \/ Move(j, "dead") /\ UNCHANGED result
  /\ UNCHANGED <<file, task, raced>>

(* The first exception makes the run a failed one, which is saved again,   *)
(* unless it is a timeout: then the handler kills a process that has       *)
(* ended, which raises.                                                    *)
SaveError(j) ==
  /\ at[j] \in {"saving", "resaving"}
  /\ Break
  /\ (Store(j, result[j]) \/ UNCHANGED rows)
  /\ \/ at[j] = "saving" /\ Report(j, "failed", "resaving")
     \/ Move(j, "dead") /\ UNCHANGED <<result, file>>
  /\ UNCHANGED <<task, raced>>

-------------------------------------------------------------------------------
(* The backend stops and starts again: requests and tasks are gone. *)

Stop ==
  /\ at' = [j \in Jobs |-> IF j \in Active THEN "dead" ELSE at[j]]
  /\ task' = None

(* Mutant: lifespan leaves the file as it is. *)
RecoverNothing == Stop /\ UNCHANGED <<result, file, rows, broken, raced>>

(* lifespan completes a file that says "running", if it can, and no row.   *)
Recover ==
  /\ Stop
  /\ \/ /\ file' = [file EXCEPT !.status = IF @ = "running" THEN "failed" ELSE @]
        /\ UNCHANGED broken
     \/ broken' = TRUE /\ UNCHANGED file
  /\ UNCHANGED <<result, rows, raced>>

Restart == Fail /\ Recover

-------------------------------------------------------------------------------
Request(j) == Start(j) \/ StartError(j) \/ InsertRow(j) \/ InsertError(j)
Job(j)     == Finish(j) \/ ReportError(j) \/ Save(j) \/ SaveError(j)

Next == (\E j \in Jobs : Request(j) \/ Job(j)) \/ Restart

Spec == Init /\ [][Next]_vars

(* The wait for pytest ends after 120 seconds at the latest, a commit is   *)
(* answered; nobody has to start a run.                                    *)
FairSpec == Spec /\ \A j \in Jobs : WF_vars(InsertRow(j)) /\ WF_vars(Finish(j) \/ Save(j))
-------------------------------------------------------------------------------
Statuses == Outcomes \cup {"none", "running"}

TypeOK ==
  /\ at \in [Jobs -> Places]
  /\ result \in [Jobs -> Outcomes \cup {"none"}]
  /\ \A j \in Jobs : at[j] \in {"saving", "resaving"} => result[j] \in Outcomes
  /\ file \in [job : Jobs \cup {None}, status : Statuses]
  /\ rows \in [Jobs -> Statuses]
  /\ task \in Jobs \cup {None}
  /\ faults \in 0 .. MaxFaults
  /\ broken \in BOOLEAN /\ raced \in BOOLEAN

(* "Already running" (admin_run_diagnostics): a second run is started      *)
(* beside another only if two requests overlapped, the later of which came *)
(* while the earlier one's row was being inserted.                         *)
OneRun == raced \/ \A j, k \in Active : j = k

(* A run that was saved is told alike by its row and, while no other run   *)
(* wrote it, by the state file: also when the first attempt to save failed *)
(* or other runs came in between.                                          *)
SavedIsTold ==
  \A j \in Jobs : at[j] = "done" =>
    rows[j] \in Outcomes /\ (file.job = j => file.status = rows[j])

(* The file says "running" only of a run that goes on, whatever restarts   *)
(* (lifespan) and overlapping runs there were, as long as nothing raises:  *)
(* the console does not wait for a run that is gone.                       *)
RunningGoesOn == ~broken /\ file.status = "running" => file.job \in Active

(* "Saves every run in PostgreSQL" (docstring of admin_run_diagnostics): a *)
(* row does not stay "running" unless the run was cut short.               *)
RunsAreSaved ==
  \A j \in Jobs : rows[j] = "running" ~> rows[j] \in Outcomes \/ at[j] = "dead"
===============================================================================
