------------------------------- MODULE JobQueue -------------------------------
(***************************************************************************)
(* The durable job queue of webycp-server: API requests that commit jobs   *)
(* (jobs/service.go and the Queue... transactions of every store file),    *)
(* the one Worker goroutine that claims and runs them (jobs/worker.go),    *)
(* and the process around them, which can die and be restarted.            *)
(*                                                                         *)
(* Abstractions.  The handlers of a kind are one step that reports success *)
(* or failure.  Step rows are written but read by no code that decides     *)
(* anything, so only the failure of CreateStep is kept.  A graceful stop   *)
(* cancels the worker's context, after which no repository call succeeds   *)
(* and the process ends without waiting for the worker: to the database    *)
(* it is a Crash.                                                          *)
(***************************************************************************)
EXTENDS JobTable

CONSTANTS
  Job,          \* the jobs requests may create
  MaxAttempts,  \* max_attempts of each job: 2, or 1 for the backup kinds
  NoJob,        \* the worker holds no job
  MaxCrashes,   \* bound on process deaths
  MaxFaults     \* bound on repository calls that return an error

ASSUME JobQueueAssumption ==
  /\ MaxAttempts \in [Job -> Nat \ {0}]
  /\ NoJob \notin Job
  /\ MaxCrashes \in Nat
  /\ MaxFaults \in Nat

VARIABLES
  rows,      \* the jobs table
  req,       \* how far the request that creates each job has come
  stamp,     \* the created_at each request has read
  clock,     \* the wall clock, in milliseconds
  lastSeq,   \* the last rowid handed out
  pc,        \* where the worker goroutine is
  cur,       \* the job value the worker holds
  outcome,   \* what the handler, or the audit record, is to report
  wake,      \* the buffered wake channel holds a token
  audit,     \* job.execute events per job and result
  crashes, faults,
  (* History variables: they decide nothing. *)
  runs,      \* handler invocations per job
  okRuns,    \* handler invocations that returned nil
  refunds,   \* RecoverJobs refunds per job
  pred,      \* the jobs already committed when a request read its clock
  lost       \* jobs whose last settling write failed since the last start

server  == <<rows, req, stamp, clock, lastSeq, audit>>
worker  == <<pc, cur, outcome, wake>>
history == <<runs, okRuns, refunds, pred, lost>>
vars    == <<server, worker, crashes, faults, history>>

-------------------------------------------------------------------------------
ReqPhases == {"new", "stamped", "committed", "done", "lost"}
Idle      == {"drain", "wait", "backoff"}
Holding   == {"claimed", "handling", "finishing", "failing"}
Off       == {"down", "starting", "exited"}
PCs       == Idle \cup Holding \cup {"recording"} \cup Off
Results   == {"success", "failure"}

TypeOK ==
  /\ rows \in [Job -> Row]
  /\ req \in [Job -> ReqPhases]
  /\ stamp \in [Job -> Nat]
  /\ clock \in Nat
  /\ lastSeq \in Nat
  /\ pc \in PCs
  /\ cur \in Job \cup {NoJob}
  /\ outcome \in Results
  /\ wake \in BOOLEAN
  /\ audit \in [Job -> [Results -> Nat]]
  /\ crashes \in Nat
  /\ faults \in Nat
  /\ runs \in [Job -> Nat]
  /\ okRuns \in [Job -> Nat]
  /\ refunds \in [Job -> Nat]
  /\ pred \in [Job -> SUBSET Job]
  /\ lost \in SUBSET Job

Init ==
  /\ rows = [j \in Job |-> NoRow]
  /\ req = [j \in Job |-> "new"]
  /\ stamp = [j \in Job |-> 0]
  /\ clock = 0 /\ lastSeq = 0
  /\ pc = "starting" /\ cur = NoJob /\ outcome = "success" /\ wake = FALSE
  /\ audit = [j \in Job |-> [r \in Results |-> 0]]
  /\ crashes = 0 /\ faults = 0
  /\ runs = [j \in Job |-> 0] /\ okRuns = [j \in Job |-> 0]
  /\ refunds = [j \in Job |-> 0]
  /\ pred = [j \in Job |-> {}] /\ lost = {}

-------------------------------------------------------------------------------
(* Requests.  A service reads time.Now() for created_at while it builds    *)
(* the job, commits the job with the resource it changes in one            *)
(* transaction, and then calls Notify.                                     *)

Committed == {j \in Job : rows[j].status # "absent"}

(* The service builds the job value; the clock may or may not have         *)
(* advanced a millisecond since it was last read.                          *)
Stamp(j) ==
  /\ pc # "down" /\ req[j] = "new"
  /\ \E now \in {clock, clock + 1} :
       /\ clock' = now
       /\ stamp' = [stamp EXCEPT ![j] = now]
  /\ req' = [req EXCEPT ![j] = "stamped"]
  /\ pred' = [pred EXCEPT ![j] = Committed]
  /\ UNCHANGED <<rows, lastSeq, audit, worker, crashes, faults,
                 runs, okRuns, refunds, lost>>

(* The transaction that inserts the job. *)
Enqueue(j) ==
  /\ pc # "down" /\ req[j] = "stamped"
  /\ lastSeq' = lastSeq + 1
  /\ rows' = [rows EXCEPT ![j] = NewRow(stamp[j], lastSeq + 1)]
  /\ req' = [req EXCEPT ![j] = "committed"]
  /\ UNCHANGED <<stamp, clock, audit, worker, crashes, faults, history>>

(* Wrong on purpose: the channel has no buffer, so a send between the      *)
(* worker's last ClaimJob and its select is dropped.                       *)
NotifyUnbuffered(j) ==
  /\ pc # "down" /\ req[j] = "committed"
  /\ req' = [req EXCEPT ![j] = "done"]
  /\ wake' \in {wake, TRUE}
  /\ UNCHANGED <<rows, stamp, clock, lastSeq, audit, pc, cur, outcome,
                 crashes, faults, history>>

(* Worker.Notify: a send on a channel of capacity one that never blocks. *)
Notify(j) ==
  /\ pc # "down" /\ req[j] = "committed"
  /\ req' = [req EXCEPT ![j] = "done"]
  /\ wake' = TRUE
  /\ UNCHANGED <<rows, stamp, clock, lastSeq, audit, pc, cur, outcome,
                 crashes, faults, history>>

-------------------------------------------------------------------------------
(* The worker. *)

(* Worker.Run begins with RecoverJobs... *)
Recover ==
  /\ pc = "starting"
  /\ rows' = [j \in Job |-> Recovered(rows[j])]
  /\ refunds' = [j \in Job |-> IF rows[j].status = "running"
                               THEN refunds[j] + 1 ELSE refunds[j]]
  /\ lost' = {}
  /\ pc' = "drain"
  /\ UNCHANGED <<req, stamp, clock, lastSeq, audit, cur, outcome, wake,
                 crashes, faults, runs, okRuns, pred>>

(* ...and returns when that fails: main only logs it, and the process      *)
(* keeps serving requests with no worker.                                  *)
RecoverFails ==
  /\ pc = "starting" /\ faults < MaxFaults
  /\ faults' = faults + 1
  /\ pc' = "exited"
  /\ UNCHANGED <<server, cur, outcome, wake, crashes, history>>

(* drain claims the oldest claimable job, *)
Claim ==
  /\ pc = "drain"
  /\ \E j \in Next4Claim(rows, MaxAttempts) :
       /\ rows' = [rows EXCEPT ![j] = Claimed(rows[j])]
       /\ cur' = j
  /\ pc' = "claimed"
  /\ UNCHANGED <<req, stamp, clock, lastSeq, audit, outcome, wake,
                 crashes, faults, history>>

(* or finds none (ErrNone) and lets Run wait for a tick or a wake-up, *)
ClaimNone ==
  /\ pc = "drain"
  /\ \A j \in Job : ~Claimable(rows[j], MaxAttempts[j])
  /\ pc' = "wait"
  /\ UNCHANGED <<server, cur, outcome, wake, crashes, faults, history>>

(* or fails, and Run waits for a tick only. *)
ClaimFails ==
  /\ pc = "drain" /\ faults < MaxFaults
  /\ faults' = faults + 1
  /\ pc' = "backoff"
  /\ UNCHANGED <<server, cur, outcome, wake, crashes, history>>

Woken ==
  /\ pc = "wait" /\ wake
  /\ wake' = FALSE
  /\ pc' = "drain"
  /\ UNCHANGED <<server, cur, outcome, crashes, faults, history>>

(* The ticker fires every second, whatever happens. *)
Tick ==
  /\ pc \in {"wait", "backoff"}
  /\ pc' = "drain"
  /\ UNCHANGED <<server, cur, outcome, wake, crashes, faults, history>>

CreateStep ==
  /\ pc = "claimed"
  /\ pc' = "handling"
  /\ UNCHANGED <<server, cur, outcome, wake, crashes, faults, history>>

(* Without a step row the job is failed at once, whatever attempts it has  *)
(* left, and its handler does not run.                                     *)
CreateStepFails ==
  /\ pc = "claimed" /\ faults < MaxFaults
  /\ faults' = faults + 1
  /\ pc' = "failing"
  /\ UNCHANGED <<server, cur, outcome, wake, crashes, history>>

(* The handler returns.  Its work on the host is done, or not, by now. *)
RunHandler ==
  /\ pc = "handling"
  /\ outcome' \in Results
  /\ runs' = [runs EXCEPT ![cur] = @ + 1]
  /\ okRuns' = [okRuns EXCEPT ![cur] = IF outcome' = "success" THEN @ + 1 ELSE @]
  /\ pc' = "finishing"
  /\ UNCHANGED <<server, cur, wake, crashes, faults, refunds, pred, lost>>

(* After a success: CompleteJob, then the audit event. *)
Complete ==
  /\ pc = "finishing" /\ outcome = "success"
  /\ rows' = [rows EXCEPT ![cur] = Completed(rows[cur])]
  /\ pc' = "recording"
  /\ UNCHANGED <<req, stamp, clock, lastSeq, audit, cur, outcome, wake,
                 crashes, faults, history>>

(* After a failure with attempts left: RetryJob, and Run waits for a tick. *)
Retry ==
  /\ pc = "finishing" /\ outcome = "failure"
  /\ rows[cur].attempts < MaxAttempts[cur]
  /\ rows' = [rows EXCEPT ![cur] = Retried(rows[cur], MaxAttempts[cur])]
  /\ pc' = "backoff" /\ cur' = NoJob
  /\ UNCHANGED <<req, stamp, clock, lastSeq, audit, outcome, wake,
                 crashes, faults, history>>

(* Worker.fail: FailJob, then the audit event. *)
Exhausted == pc = "finishing" /\ outcome = "failure"
             /\ rows[cur].attempts >= MaxAttempts[cur]
Fail ==
  /\ pc = "failing" \/ Exhausted
  /\ rows' = [rows EXCEPT ![cur] = Failed(rows[cur])]
  /\ outcome' = "failure"
  /\ pc' = "recording"
  /\ UNCHANGED <<req, stamp, clock, lastSeq, audit, cur, wake,
                 crashes, faults, history>>

(* The settling write fails: it is logged, the row stays 'running' and no  *)
(* event is recorded.  A failed RetryJob still makes Run back off.         *)
SettleFails ==
  /\ pc \in {"finishing", "failing"} /\ faults < MaxFaults
  /\ faults' = faults + 1
  /\ lost' = lost \cup {cur}
  /\ pc' = IF pc = "finishing" /\ outcome = "failure" /\ ~Exhausted
           THEN "backoff" ELSE "drain"
  /\ cur' = NoJob
  /\ UNCHANGED <<server, outcome, wake, crashes, runs, okRuns, refunds, pred>>

(* Worker.record. *)
Record ==
  /\ pc = "recording"
  /\ audit' = [audit EXCEPT ![cur][outcome] = @ + 1]
  /\ pc' = "drain" /\ cur' = NoJob
  /\ UNCHANGED <<rows, req, stamp, clock, lastSeq, outcome, wake,
                 crashes, faults, history>>

RecordFails ==
  /\ pc = "recording" /\ faults < MaxFaults
  /\ faults' = faults + 1
  /\ pc' = "drain" /\ cur' = NoJob
  /\ UNCHANGED <<server, outcome, wake, crashes, history>>

-------------------------------------------------------------------------------
(* The process dies at any point: requests that had not committed, the     *)
(* wake token and the worker's locals are gone.                            *)
Crash ==
  /\ pc # "down" /\ crashes < MaxCrashes
  /\ crashes' = crashes + 1
  /\ req' = [j \in Job |-> IF req[j] = "stamped" THEN "lost"
                           ELSE IF req[j] = "committed" THEN "done" ELSE req[j]]
  /\ pc' = "down" /\ cur' = NoJob /\ wake' = FALSE
  /\ UNCHANGED <<rows, stamp, clock, lastSeq, audit, outcome, faults, history>>

(* systemd starts it again (Restart= of webycp-server.service). *)
Start ==
  /\ pc = "down"
  /\ pc' = "starting"
  /\ UNCHANGED <<server, cur, outcome, wake, crashes, faults, history>>

Request(j) == Stamp(j) \/ Enqueue(j) \/ Notify(j)
WorkerStep ==
  \/ Recover \/ Claim \/ ClaimNone \/ Woken \/ Tick
  \/ CreateStep \/ RunHandler \/ Complete \/ Retry \/ Fail \/ Record
Fault ==
  \/ RecoverFails \/ ClaimFails \/ CreateStepFails \/ SettleFails \/ RecordFails
Next ==
  \/ \E j \in Job : Request(j)
  \/ WorkerStep
  \/ Fault
  \/ Crash
  \/ Start

Spec == Init /\ [][Next]_vars

(* The goroutine is scheduled and every call it makes returns (an Agent    *)
(* call after two minutes at the latest), and systemd restarts a dead      *)
(* process.  Nothing forces a request to be made, a call to fail or the    *)
(* process to die.                                                         *)
Fairness == WF_vars(WorkerStep) /\ WF_vars(Start)
FairSpec == Spec /\ Fairness

-------------------------------------------------------------------------------
(* Properties. *)

(* A job waiting in the queue is one ClaimJob would take: no retry and no  *)
(* recovery leaves a row 'queued' with its attempts used up, where it      *)
(* would stay for ever.                                                    *)
QueuedIsClaimable ==
  \A j \in Job : rows[j].status = "queued" => Claimable(rows[j], MaxAttempts[j])

(* While the worker is up, a row 'running' is the job it holds or one      *)
(* whose settling write failed: no two jobs run at once, and a restart     *)
(* leaves none behind.                                                     *)
RunningIsAccounted ==
  pc \notin Off =>
    \A j \in Job : rows[j].status = "running" =>
                     \/ j \in lost
                     \/ pc \in Holding /\ j = cur

(* A handler is invoked at most max_attempts times, plus once for every    *)
(* restart that found its job running: a retry racing a recovery does not  *)
(* multiply attempts.                                                      *)
BoundedRuns == \A j \in Job : runs[j] <= MaxAttempts[j] + refunds[j]

(* A handler that has succeeded runs to success again only if the server   *)
(* restarted before the outcome was stored: work on the host is repeated   *)
(* by recovery alone.                                                      *)
RepeatedOnlyByRecovery == \A j \in Job : okRuns[j] <= 1 + refunds[j]

(* The events operations.md calls "the final worker outcome": a job has at *)
(* most one, only once it is final, and it agrees with the row.            *)
AuditAgrees ==
  \A j \in Job :
    /\ audit[j]["success"] <= (IF rows[j].status = "succeeded" THEN 1 ELSE 0)
    /\ audit[j]["failure"] <= (IF rows[j].status = "failed" THEN 1 ELSE 0)

(* A worker that waits without a pending wake-up has nothing to do: every  *)
(* job in the queue has its Notify still to come, so none waits for the    *)
(* ticker.                                                                 *)
NoLostWakeup ==
  pc = "wait" /\ ~wake =>
    \A j \in Job : rows[j].status = "queued" => req[j] = "committed"

(* Jobs run one after the other in the order users asked for them: when a  *)
(* job is claimed, every job that was already accepted when its request    *)
(* began is final, unless its outcome could not be written.                *)
ClaimsInOrder ==
  \A j \in Job : rows[j].status = "queued" /\ rows'[j].status = "running" =>
                   \A i \in pred[j] : rows[i].status \in Final \/ i \in lost
InOrder == [][ClaimsInOrder]_vars

(* Every accepted job ends, unless its outcome could not be written or the *)
(* worker returned because RecoverJobs failed.                             *)
SettlesUnlessLost ==
  \A j \in Job : rows[j].status \in Live ~>
                   (rows[j].status \in Final \/ j \in lost \/ pc = "exited")

-------------------------------------------------------------------------------
(* The promise behind it: see JobLedger.  A job is accepted when its row   *)
(* is committed; the rest of the ledger is what the history variables say. *)
phase == [j \in Job |-> IF rows[j].status \in Live THEN "accepted" ELSE rows[j].status]
Ledger == INSTANCE JobLedger WITH tries <- runs, wins <- okRuns
Implements == Ledger!Spec
===============================================================================
