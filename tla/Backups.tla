-------------------------------- MODULE Backups --------------------------------
(***************************************************************************)
(* Backups of one hosting account: plans, runs and artifacts in the panel  *)
(* (backups/service.go and store/sqlite/backups.go) and the archives the   *)
(* local driver of the Agent writes (agent/backup/local).                  *)
(*                                                                         *)
(* Requests work in several steps that interleave with each other and with *)
(* the worker, which runs the backup.create jobs.  The Agent goes on with  *)
(* an archive nobody waits for any more: its context reaches the database  *)
(* dumps only.  An archive is known by its checksum, and no two archives   *)
(* have the same one (each holds the time it was made), so a checksum is   *)
(* the number of the archive in the order they are made.  That is also the *)
(* order of created_at of the artifacts, which Create sets when the Agent  *)
(* has answered; the runs may have been queued in another order.           *)
(*                                                                         *)
(* A run's number is its place in the queue.  Restores are not modelled;   *)
(* schedules decide when QueueDue makes a request, which is left open here.*)
(***************************************************************************)
EXTENDS Naturals, FiniteSets

CONSTANTS
  Plan,
  MaxRuns,       \* bound on runs
  Requester,     \* the API requests, and QueueDue, under way at a time
  None,          \* no plan
  MaxRetention,  \* bound on retention_count
  MaxDeaths,     \* bound on deaths of the server
  MaxFaults,     \* bound on failures and deaths of the Agent and lost answers
  MaxMishaps     \* bound on failing writes of the server

ASSUME BackupsAssumption ==
  /\ None \notin Plan
  /\ {MaxRuns, MaxRetention, MaxDeaths, MaxFaults, MaxMishaps} \subseteq Nat

Run == 1 .. MaxRuns

VARIABLES
  plan,      \* backup_plans
  run,       \* backup_runs
  row,       \* backup_artifacts: the checksum of a run's artifact, or 0
  job,       \* the backup.create job of each run
  work,      \* the worker, and the locals of Create
  ask,       \* each request under way
  archive,   \* <runId>.tar.gz: its checksum, or 0
  made,      \* archives made so far
  partial,   \* the runs whose .<runId>.tmp exists
  writing,   \* Create operations of the Agent
  deaths, faults, mishaps,
  (* History variables: they decide nothing. *)
  removed,   \* runs whose archive the Agent was told to delete
  discarded, \* those a user told it to
  redone,    \* runs whose recorded archive was written again
  lost       \* runs whose status a failed write has left behind

rows    == <<plan, run, row, job>>
agent   == <<archive, made, partial, writing>>
bounds  == <<deaths, faults, mishaps>>
history == <<removed, discarded, redone, lost>>
vars    == <<rows, work, ask, agent, bounds, history>>

-------------------------------------------------------------------------------
Pending  == {"queued", "running"}
PlanRow  == [state : {"new", "there", "deleted"}, keep : 0 .. MaxRetention]
RunRow   == [status : {"none", "succeeded", "failed"} \cup Pending, plan : Plan \cup {None}]
Points   == {"idle", "claimed", "marked", "call", "calling", "made", "failing",
             "listing", "pruning", "forgetting", "ended", "down"}
Artifact == [run : Run, sum : Nat]
Work     == [at : Points, run : 0 .. MaxRuns, keep : 0 .. MaxRetention,
             sum : Nat, expired : SUBSET Artifact, ok : BOOLEAN]
Free     == [at |-> "idle", run |-> 0, keep |-> 0, sum |-> 0, expired |-> {}, ok |-> TRUE]
Ask      == [op : {"none", "run", "drop", "unlink", "forget"},
             plan : Plan \cup {None}, run : 0 .. MaxRuns, sum : Nat]
NoAsk    == [op |-> "none", plan |-> None, run |-> 0, sum |-> 0]

TypeOK ==
  /\ plan \in [Plan -> PlanRow]
  /\ run \in [Run -> RunRow]
  /\ row \in [Run -> Nat]
  /\ job \in [Run -> {"none", "succeeded", "failed"} \cup Pending]
  /\ work \in Work
  /\ ask \in [Requester -> Ask]
  /\ archive \in [Run -> Nat] /\ made \in Nat
  /\ partial \subseteq Run
  /\ writing \in [Run -> {"no", "awaited", "orphan"}]
  /\ deaths \in 0 .. MaxDeaths /\ faults \in 0 .. MaxFaults /\ mishaps \in 0 .. MaxMishaps
  /\ {removed, discarded, redone, lost} \subseteq SUBSET Run

Init ==
  /\ plan = [p \in Plan |-> [state |-> "new", keep |-> 0]]
  /\ run = [r \in Run |-> [status |-> "none", plan |-> None]]
  /\ row = [r \in Run |-> 0]
  /\ job = [r \in Run |-> "none"]
  /\ work = Free
  /\ ask = [q \in Requester |-> NoAsk]
  /\ archive = [r \in Run |-> 0] /\ made = 0
  /\ partial = {}
  /\ writing = [r \in Run |-> "no"]
  /\ deaths = 0 /\ faults = 0 /\ mishaps = 0
  /\ removed = {} /\ discarded = {} /\ redone = {} /\ lost = {}

Fault  == faults < MaxFaults /\ faults' = faults + 1 /\ UNCHANGED <<deaths, mishaps>>
Mishap == mishaps < MaxMishaps /\ mishaps' = mishaps + 1 /\ UNCHANGED <<deaths, faults>>

(* The active runs of a plan, and its artifacts. *)
Active(p)    == {r \in Run : run[r].plan = p /\ run[r].status \in Pending}
Artifacts(p) == {r \in Run : run[r].plan = p /\ row[r] # 0}

-------------------------------------------------------------------------------
(* backup_plans, backup_runs and backup_artifacts, one operator a          *)
(* statement.                                                              *)

GetBackupPlan(p)     == plan[p].state = "there"
BackupRunPending(p)  == Active(p) # {}
GetBackupArtifact(r) == row[r] # 0

CreateBackupPlan(p, n) == plan' = [plan EXCEPT ![p] = [state |-> "there", keep |-> n]]
UpdateBackupPlan(p, n) == plan' = [plan EXCEPT ![p].keep = n]

(* The runs of the plan lose it. *)
DeleteBackupPlan(p) ==
  /\ plan' = [plan EXCEPT ![p] = [state |-> "deleted", keep |-> 0]]
  /\ run' = [r \in Run |-> IF run[r].plan = p THEN [run[r] EXCEPT !.plan = None] ELSE run[r]]

(* The next run there is room for. *)
CreateBackupRun(p) ==
  LET new == {r \in Run : run[r].status = "none"}
  IN \E r \in new : /\ \A s \in new : r <= s
                    /\ run' = [run EXCEPT ![r] = [status |-> "queued", plan |-> p]]
                    /\ job' = [job EXCEPT ![r] = "queued"]

UpdateBackupRun(r, status) == run' = [run EXCEPT ![r].status = status]

CreateBackupArtifact(r, sum) == row' = [row EXCEPT ![r] = sum]
(* The row that was read, by its ID. *)
DeleteBackupArtifact(r, sum) == row' = [row EXCEPT ![r] = IF @ = sum THEN 0 ELSE @]

-------------------------------------------------------------------------------
(* Plans. *)

Up == work.at # "down"

CreatePlan(p) ==
  /\ Up /\ plan[p].state = "new"
  /\ \E n \in 1 .. MaxRetention : CreateBackupPlan(p, n)
  /\ UNCHANGED <<run, row, job, work, ask, agent, bounds, history>>

(* Wrong on purpose: preparePlan does not check retentionCount. *)
UpdateUnchecked(p) ==
  /\ Up /\ GetBackupPlan(p)
  /\ \E n \in 0 .. MaxRetention + 1 : UpdateBackupPlan(p, n)
  /\ UNCHANGED <<run, row, job, work, ask, agent, bounds, history>>

UpdatePlan(p) ==
  /\ Up /\ GetBackupPlan(p)
  /\ \E n \in 1 .. MaxRetention : UpdateBackupPlan(p, n)
  /\ UNCHANGED <<run, row, job, work, ask, agent, bounds, history>>

(* DeletePlan and queue begin with the same look at BackupRunPending. *)
Begin(q, op) ==
  /\ Up /\ ask[q].op = "none"
  /\ \E p \in Plan :
       /\ GetBackupPlan(p) /\ ~BackupRunPending(p)
       /\ ask' = [ask EXCEPT ![q] = [NoAsk EXCEPT !.op = op, !.plan = p]]
  /\ UNCHANGED <<rows, work, agent, bounds, history>>
AskDrop(q) == Begin(q, "drop")
AskRun(q)  == Begin(q, "run")

DropPlan(q) ==
  /\ Up /\ ask[q].op = "drop"
  /\ DeleteBackupPlan(ask[q].plan)
  /\ ask' = [ask EXCEPT ![q] = NoAsk]
  /\ UNCHANGED <<row, job, work, agent, bounds, history>>

(* Wrong on purpose: no unique index. *)
QueueUnindexed(q) ==
  /\ Up /\ ask[q].op = "run"
  /\ CreateBackupRun(ask[q].plan)
  /\ ask' = [ask EXCEPT ![q] = NoAsk]
  /\ UNCHANGED <<plan, row, work, agent, bounds, history>>

(* QueueBackupRun: the foreign key and the unique index on active runs may *)
(* refuse the insert.                                                      *)
QueueRun(q) ==
  /\ Up /\ ask[q].op = "run"
  /\ LET p == ask[q].plan
     IN IF GetBackupPlan(p) /\ Active(p) = {} THEN CreateBackupRun(p)
                                              ELSE UNCHANGED <<run, job>>
  /\ ask' = [ask EXCEPT ![q] = NoAsk]
  /\ UNCHANGED <<plan, row, work, agent, bounds, history>>

-------------------------------------------------------------------------------
(* DeleteArtifact: it reads the row, *)
AskUnlink(q) ==
  /\ Up /\ ask[q].op = "none"
  /\ \E r \in Run :
       /\ GetBackupArtifact(r)
       /\ ask' = [ask EXCEPT ![q] = [NoAsk EXCEPT !.op = "unlink", !.run = r, !.sum = row[r]]]
  /\ UNCHANGED <<rows, work, agent, bounds, history>>

(* has the Agent delete whatever is at its path, *)
Removes(r) ==
  /\ archive' = [archive EXCEPT ![r] = 0]
  /\ removed' = removed \cup {r}
  /\ UNCHANGED <<made, partial, writing, redone, lost>>

Unlink(q) ==
  /\ Up /\ ask[q].op = "unlink"
  /\ Removes(ask[q].run)
  /\ discarded' = discarded \cup {ask[q].run}
  /\ ask' = [ask EXCEPT ![q].op = "forget"]
  /\ UNCHANGED <<rows, work, bounds>>

(* unless the call fails or its answer is lost, *)
UnlinkFails(q) ==
  /\ Up /\ ask[q].op = "unlink"
  /\ Fault
  /\ \/ Removes(ask[q].run) /\ discarded' = discarded \cup {ask[q].run}
     \/ UNCHANGED <<agent, history>>
  /\ ask' = [ask EXCEPT ![q] = NoAsk]
  /\ UNCHANGED <<rows, work>>

(* and deletes the row it has read. *)
Forget(q) ==
  /\ Up /\ ask[q].op = "forget"
  /\ DeleteBackupArtifact(ask[q].run, ask[q].sum)
  /\ ask' = [ask EXCEPT ![q] = NoAsk]
  /\ UNCHANGED <<plan, run, job, work, agent, bounds, history>>

ForgetFails(q) ==
  /\ Up /\ ask[q].op = "forget"
  /\ Mishap
  /\ ask' = [ask EXCEPT ![q] = NoAsk]
  /\ UNCHANGED <<rows, work, agent, history>>

-------------------------------------------------------------------------------
(* The worker and Create. *)

r0 == work.run
Goto(p) == work' = [work EXCEPT !.at = p]
End(ok) == work' = [work EXCEPT !.at = "ended", !.ok = ok]

Claim ==
  /\ work.at = "idle"
  /\ \E r \in Run :
       /\ job[r] = "queued" /\ \A s \in Run : job[s] = "queued" => r <= s
       /\ job' = [job EXCEPT ![r] = "running"]
       /\ work' = [work EXCEPT !.at = "claimed", !.run = r]
  /\ UNCHANGED <<plan, run, row, ask, agent, bounds, history>>

(* CreateStep fails: the job is failed without its handler. *)
NoStep ==
  /\ work.at = "claimed"
  /\ Mishap
  /\ End(FALSE)
  /\ lost' = lost \cup {r0}
  /\ UNCHANGED <<rows, ask, agent, removed, discarded, redone>>

(* Wrong on purpose: a run that has succeeded keeps its status. *)
MarkUnlessDone ==
  /\ work.at = "claimed"
  /\ Goto("marked")
  /\ run' = IF run[r0].status = "succeeded" THEN run
            ELSE [run EXCEPT ![r0].status = "running"]
  /\ UNCHANGED <<plan, row, job, ask, agent, bounds, history>>

(* The run becomes 'running', also one that recovery has brought back,     *)
(* unless the plan has another active run by now.                          *)
MarkRunning ==
  /\ work.at = "claimed"
  /\ IF run[r0].plan # None /\ Active(run[r0].plan) \ {r0} # {}
     THEN End(FALSE) /\ UNCHANGED run
     ELSE Goto("marked") /\ UpdateBackupRun(r0, "running")
  /\ UNCHANGED <<plan, row, job, ask, agent, bounds, history>>

MarkFails ==
  /\ work.at = "claimed"
  /\ Mishap
  /\ End(FALSE)
  /\ lost' = lost \cup {r0}
  /\ UNCHANGED <<rows, ask, agent, removed, discarded, redone>>

(* The plan is read as it is now; the run of a deleted plan fails. *)
ReadPlan ==
  /\ work.at = "marked"
  /\ IF run[r0].plan = None THEN Goto("failing")
     ELSE work' = [work EXCEPT !.at = "call", !.keep = plan[run[r0].plan].keep]
  /\ UNCHANGED <<rows, ask, agent, bounds, history>>

(* The Agent opens the temporary file with O_EXCL. *)
OpenPartial ==
  /\ work.at = "call"
  /\ IF r0 \in partial THEN Goto("failing") /\ UNCHANGED <<partial, writing>>
     ELSE /\ Goto("calling")
          /\ partial' = partial \cup {r0}
          /\ writing' = [writing EXCEPT ![r0] = "awaited"]
  /\ UNCHANGED <<rows, ask, archive, made, bounds, history>>

CallFails ==
  /\ work.at = "call"
  /\ Fault
  /\ Goto("failing")
  /\ UNCHANGED <<rows, ask, agent, history>>

(* The end of an operation of the Agent, and what the worker hears of it. *)
Answer(r, p) == IF writing[r] = "awaited" THEN Goto(p) ELSE UNCHANGED work

(* The archive is renamed into place, over one that may be there. *)
Install(r) ==
  /\ writing[r] # "no"
  /\ made' = made + 1
  /\ archive' = [archive EXCEPT ![r] = made']
  /\ partial' = partial \ {r} /\ writing' = [writing EXCEPT ![r] = "no"]
  /\ work' = IF writing[r] = "awaited"
             THEN [work EXCEPT !.at = "made", !.sum = made'] ELSE work
  /\ redone' = IF row[r] # 0 THEN redone \cup {r} ELSE redone
  /\ removed' = removed \ {r}
  /\ UNCHANGED <<rows, ask, bounds, discarded, lost>>

(* Writing it fails: the temporary file is removed. *)
WriteFails(r) ==
  /\ writing[r] # "no"
  /\ Fault
  /\ partial' = partial \ {r} /\ writing' = [writing EXCEPT ![r] = "no"]
  /\ Answer(r, "failing")
  /\ UNCHANGED <<rows, ask, archive, made, history>>

(* The Agent dies: the temporary files stay. *)
AgentDies ==
  /\ \E r \in Run : writing[r] # "no"
  /\ Fault
  /\ writing' = [r \in Run |-> "no"]
  /\ IF work.at = "calling" THEN Goto("failing") ELSE UNCHANGED work
  /\ UNCHANGED <<rows, ask, archive, made, partial, history>>

(* The panel waits for two minutes. *)
GiveUp ==
  /\ work.at = "calling"
  /\ Fault
  /\ writing' = [writing EXCEPT ![r0] = "orphan"]
  /\ Goto("failing")
  /\ UNCHANGED <<rows, ask, archive, made, partial, history>>

(* CompleteBackup: run_id and path are unique among the artifacts. *)
CompleteBackup ==
  /\ work.at = "made"
  /\ IF row[r0] # 0 THEN Goto("failing") /\ UNCHANGED <<row, run>>
     ELSE /\ Goto("listing")
          /\ CreateBackupArtifact(r0, work.sum)
          /\ UpdateBackupRun(r0, "succeeded")
  /\ UNCHANGED <<plan, job, ask, agent, bounds, history>>

CompleteFails ==
  /\ work.at = "made"
  /\ Mishap
  /\ Goto("failing")
  /\ UNCHANGED <<rows, ask, agent, history>>

(* Wrong on purpose: the error is returned and the run is not marked. *)
FailUnmarked ==
  /\ work.at = "failing"
  /\ End(FALSE)
  /\ UNCHANGED <<rows, ask, agent, bounds, history>>

(* Wrong on purpose: the run is marked and nil is returned. *)
FailWithoutError ==
  /\ work.at = "failing"
  /\ run' = [run EXCEPT ![r0].status = "failed"]
  /\ End(TRUE)
  /\ UNCHANGED <<plan, row, job, ask, agent, bounds, history>>

(* failRun; the error of its own write is dropped. *)
FailRun ==
  /\ work.at = "failing"
  /\ UpdateBackupRun(r0, "failed")
  /\ End(FALSE)
  /\ UNCHANGED <<plan, row, job, ask, agent, bounds, history>>

FailRunUnsaved ==
  /\ work.at = "failing"
  /\ Mishap
  /\ End(FALSE)
  /\ lost' = lost \cup {r0}
  /\ UNCHANGED <<rows, ask, agent, removed, discarded, redone>>

(* How many artifacts of the plan are newer, and the rows of some. *)
Newer(p, r) == Cardinality({s \in Artifacts(p) : row[s] > row[r]})
Rows(S) == {[run |-> r, sum |-> row[r]] : r \in S}

(* Wrong on purpose: the offset is one too small, or one too large. *)
ExpiredEarly(p, keep) == Rows({r \in Artifacts(p) : Newer(p, r) + 1 >= keep})
ExpiredLate(p, keep)  == Rows({r \in Artifacts(p) : Newer(p, r) > keep})

(* applyRetention: all artifacts of the plan but the newest, *)
Expired(p, keep) == Rows({r \in Artifacts(p) : Newer(p, r) >= keep})

ListExpired ==
  /\ work.at = "listing"
  /\ work' = [work EXCEPT !.at = "pruning",
                          !.expired = IF run[r0].plan = None THEN {}
                                      ELSE Expired(run[r0].plan, work.keep)]
  /\ UNCHANGED <<rows, ask, agent, bounds, history>>

ListFails ==
  /\ work.at = "listing"
  /\ Mishap
  /\ End(FALSE)
  /\ UNCHANGED <<rows, ask, agent, history>>

(* newest first, each in two steps. *)
x0 == CHOOSE x \in work.expired : \A y \in work.expired : y.sum <= x.sum

PruneArchive ==
  /\ work.at = "pruning" /\ work.expired # {}
  /\ Removes(x0.run)
  /\ Goto("forgetting")
  /\ UNCHANGED <<rows, ask, bounds, discarded>>

PruneArchiveFails ==
  /\ work.at = "pruning" /\ work.expired # {}
  /\ Fault
  /\ Removes(x0.run) \/ UNCHANGED <<agent, removed, redone, lost>>
  /\ End(FALSE)
  /\ UNCHANGED <<rows, ask, discarded>>

PruneRow ==
  /\ work.at = "forgetting"
  /\ DeleteBackupArtifact(x0.run, x0.sum)
  /\ work' = [work EXCEPT !.at = "pruning", !.expired = @ \ {x0}]
  /\ UNCHANGED <<plan, run, job, ask, agent, bounds, history>>

PruneRowFails ==
  /\ work.at = "forgetting"
  /\ Mishap
  /\ End(FALSE)
  /\ UNCHANGED <<rows, ask, agent, history>>

Pruned ==
  /\ work.at = "pruning" /\ work.expired = {}
  /\ End(TRUE)
  /\ UNCHANGED <<rows, ask, agent, bounds, history>>

(* CompleteJob, or FailJob: a backup job has one attempt. *)
Settle ==
  /\ work.at = "ended"
  /\ job' = [job EXCEPT ![r0] = IF work.ok THEN "succeeded" ELSE "failed"]
  /\ work' = Free
  /\ UNCHANGED <<plan, run, row, ask, agent, bounds, history>>

SettleFails ==
  /\ work.at = "ended"
  /\ Mishap
  /\ work' = Free
  /\ UNCHANGED <<rows, ask, agent, history>>

-------------------------------------------------------------------------------
(* The server dies: its requests and the worker's locals are gone. *)
Crash ==
  /\ Up /\ deaths < MaxDeaths
  /\ deaths' = deaths + 1
  /\ work' = [Free EXCEPT !.at = "down"]
  /\ ask' = [q \in Requester |-> NoAsk]
  /\ writing' = [r \in Run |-> IF writing[r] = "no" THEN "no" ELSE "orphan"]
  /\ UNCHANGED <<rows, archive, made, partial, faults, mishaps, history>>

(* Wrong on purpose: the worker starts without RecoverJobs. *)
RestartUnrecovered ==
  /\ ~Up
  /\ Goto("idle")
  /\ UNCHANGED <<rows, ask, agent, bounds, history>>

(* It is started again, and RecoverJobs requeues the running jobs. *)
Restart ==
  /\ ~Up
  /\ job' = [r \in Run |-> IF job[r] = "running" THEN "queued" ELSE job[r]]
  /\ Goto("idle")
  /\ UNCHANGED <<plan, run, row, ask, agent, bounds, history>>

Request ==
  \/ \E p \in Plan : CreatePlan(p) \/ UpdatePlan(p)
  \/ \E q \in Requester : \/ AskDrop(q) \/ AskRun(q) \/ DropPlan(q) \/ QueueRun(q)
                          \/ AskUnlink(q) \/ Unlink(q) \/ Forget(q)
WorkerStep ==
  \/ Claim \/ MarkRunning \/ ReadPlan \/ OpenPartial \/ CompleteBackup \/ FailRun
  \/ ListExpired \/ PruneArchive \/ PruneRow \/ Pruned \/ Settle
AgentStep == \E r \in Run : Install(r)
Failure ==
  \/ \E q \in Requester : UnlinkFails(q) \/ ForgetFails(q)
  \/ NoStep \/ MarkFails \/ CallFails \/ AgentDies \/ GiveUp
  \/ \E r \in Run : WriteFails(r)
  \/ CompleteFails \/ FailRunUnsaved \/ ListFails \/ PruneArchiveFails \/ PruneRowFails
  \/ SettleFails
Next == Request \/ WorkerStep \/ AgentStep \/ Failure \/ Crash \/ Restart

Spec == Init /\ [][Next]_vars

(* The worker and the Agent go on and systemd restarts the server. *)
Fairness == WF_vars(WorkerStep) /\ WF_vars(AgentStep) /\ WF_vars(Restart)
FairSpec == Spec /\ Fairness

-------------------------------------------------------------------------------
(* Properties. *)

Usable(r) == row[r] # 0 /\ archive[r] = row[r]

(* An artifact of a run shown as succeeded refers to the archive its       *)
(* checksum was taken from, or to one the Agent was told to delete: never  *)
(* to another archive, whatever restarts and late Agent operations do.     *)
SucceededIsUsable ==
  \A r \in Run : run[r].status = "succeeded" /\ row[r] # 0 =>
                   Usable(r) \/ (archive[r] = 0 /\ r \in removed)

(* No plan is blocked by a run nothing works on: an active run has an      *)
(* unfinished job, or a failed write left its status behind.               *)
NoStuckRun ==
  \A r \in Run : run[r].status \in Pending => job[r] \in Pending \/ r \in lost

(* A plan has at most one active run, although the requests look for one   *)
(* before their transaction and recovery reopens finished runs.            *)
OneActiveRun == \A p \in Plan : Cardinality(Active(p)) <= 1

(* A job reported as succeeded has its run succeeded. *)
JobIsTruthful == \A r \in Run : job[r] = "succeeded" => run[r].status = "succeeded"

(* A plan that has had an artifact keeps a usable one: failing backups and *)
(* retention never leave it with none, unless a user deleted one of them   *)
(* or recovery has written a finished archive again.                       *)
KeepsAUsableArchive ==
  \A p \in Plan :
    LET of == {r \in Run : run[r].plan = p}
    IN (\E r \in of : row[r] # 0) /\ of \cap (discarded \cup redone) = {} =>
         \E r \in of : Usable(r)

(* When a job succeeds its plan has no more artifacts than it was to keep. *)
JobHasPruned ==
  \A r \in Run : job[r] # "succeeded" /\ job'[r] = "succeeded" /\ run[r].plan # None =>
                   Cardinality(Artifacts(run[r].plan)) <= work.keep
WithinRetention == [][JobHasPruned]_vars

(* plan.md: "Retried Agent operations are idempotent or detect completed   *)
(* work safely."  A job that is run again leaves alone an archive that is  *)
(* recorded and usable.                                                    *)
CompletedArchivesStay ==
  [][\A r \in Run : Usable(r) => archive'[r] \in {archive[r], 0}]_vars

(* Every run ends, so its plan can be run again and deleted, as long as no *)
(* write of the server fails.                                              *)
RunsEnd ==
  \A r \in Run :
    run[r].status \in Pending ~> run[r].status \notin Pending \/ mishaps > 0
===============================================================================
