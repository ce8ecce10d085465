--------------------------------- MODULE Tasks --------------------------------
(***************************************************************************)
(* Scheduled tasks of one account: the requests of tasks/service.go, their *)
(* transactions, and the task.sync job that installs the account's whole   *)
(* crontab on the host (agent/scheduler/crontab).                          *)
(*                                                                         *)
(* Every request queues its own task.sync; no request waits for another    *)
(* one's.  Names, schedules and commands are one value, the task's text.   *)
(***************************************************************************)
EXTENDS PanelWorker

CONSTANTS
  Task,        \* scheduled_tasks IDs, never reused
  Text,        \* what a task runs, and when
  TaskLimit,   \* the package's limit of tasks
  MaxEntries   \* the Agent's limit of entries: 100

ASSUME TaskAssumption ==
  /\ None \notin Text
  /\ TaskLimit \in Nat /\ MaxEntries \in Nat

VARIABLES
  task,      \* the scheduled_tasks table
  crontab    \* /etc/cron.d/webycp-<account>, by task

taskVars == <<task, crontab>>

TaskRow == [status : {"none", "pending", "active", "disabled", "error", "deleted"},
            enabled : BOOLEAN, text : Text \cup {None}]
TaskRequest == [kind : {"create", "update", "delete"}, task : Task, enabled : BOOLEAN,
                text : Text \cup {None}]
Entries == [Task -> Text \cup {None}]

TaskTypeOK ==
  /\ WorkerTypeOK(TaskRequest, Entries)
  /\ task \in [Task -> TaskRow]
  /\ crontab \in Entries

NoTask == [status |-> "none", enabled |-> FALSE, text |-> None]
TaskInit ==
  /\ task = [t \in Task |-> NoTask]
  /\ crontab = [t \in Task |-> None]

-------------------------------------------------------------------------------
(* scheduled_tasks, one operator a statement. *)

TaskRows == {t \in Task : task[t].status \notin {"none", "deleted"}}

CreateScheduledTask(r) ==
  task' = [task EXCEPT ![r.task] = [status |-> "pending", enabled |-> r.enabled,
                                    text |-> r.text]]

(* GetScheduledTask finds a row. *)
GetScheduledTask(t) == t \in TaskRows

UpdateScheduledTask(r) ==
  task' = [task EXCEPT ![r.task] = [status |-> "pending", enabled |-> r.enabled,
                                    text |-> r.text]]

(* A row that is not there is no error. *)
DeleteScheduledTask(r) ==
  task' = [task EXCEPT ![r.task] = [NoTask EXCEPT !.status = "deleted"]]

UpdateAccountTaskStatuses(enabled, disabled) ==
  task' = [t \in Task |->
            IF t \in TaskRows
            THEN [task[t] EXCEPT !.status = IF task[t].enabled THEN enabled ELSE disabled]
            ELSE task[t]]

-------------------------------------------------------------------------------
(* Requests: what the service reads, and the transaction. *)

AskTask(kind, t, enabled, text) ==
  Ask([kind |-> kind, task |-> t, enabled |-> enabled, text |-> text])

(* Create. *)
AskCreateTask(t, enabled, text) ==
  /\ usable
  /\ task[t].status = "none"
  /\ AskTask("create", t, enabled, text)

(* Update. *)
AskUpdateTask(t, enabled, text) ==
  /\ usable
  /\ GetScheduledTask(t)
  /\ AskTask("update", t, enabled, text)

(* Delete: the account may be disabled. *)
AskDeleteTask(t) ==
  /\ GetScheduledTask(t)
  /\ AskTask("delete", t, FALSE, None)

(* The transactions of the store, named as their statement. *)
CommitCreateTask(r) ==
  /\ r.kind = "create" /\ task[r.task].status = "none"
  /\ Cardinality(TaskRows) < TaskLimit
  /\ CreateScheduledTask(r)
CommitUpdateTask(r) == r.kind = "update" /\ GetScheduledTask(r.task) /\ UpdateScheduledTask(r)
CommitDeleteTask(r) == r.kind = "delete" /\ DeleteScheduledTask(r)
CommitTask(r) == CommitCreateTask(r) \/ CommitUpdateTask(r) \/ CommitDeleteTask(r)

-------------------------------------------------------------------------------
(* Sync and Reconcile. *)

EnabledTasks == [t \in Task |-> IF t \in TaskRows /\ task[t].enabled THEN task[t].text
                                                                   ELSE None]
(* Wrong on purpose: disabled tasks are installed. *)
AllTasks == [t \in Task |-> IF t \in TaskRows /\ usable THEN task[t].text ELSE None]
(* The entries the crontab should have: none while the account is disabled. *)
Wanted == IF usable THEN EnabledTasks ELSE [t \in Task |-> None]

(* It reads the account, then the rows, and calls the Agent. *)
CallTasks ==
  /\ Goes("claimed", "calling")
  /\ call' = Wanted
  /\ UNCHANGED taskVars

(* One of its reads fails. *)
ReadTasksFails ==
  /\ pc = "claimed" /\ Unsaved /\ Returns(FALSE)
  /\ UNCHANGED taskVars

(* The Agent's Sync: everything or nothing, by an atomic write. *)
TooMany == Cardinality({t \in Task : call[t] # None}) > MaxEntries
Install == ~TooMany /\ crontab' = call

HandleTasks ==
  /\ pc = "calling"
  /\ \/ /\ Install /\ NoFault /\ Returns(TRUE)
        /\ UpdateAccountTaskStatuses("active", "disabled")
     \/ /\ TooMany /\ NoFault /\ UNCHANGED crontab /\ Returns(FALSE)
        /\ UpdateAccountTaskStatuses("error", "error")
     \/ /\ Fault /\ (Install \/ UNCHANGED crontab) /\ Returns(FALSE)
        /\ UpdateAccountTaskStatuses("error", "error")

(* SetTaskStatuses fails. *)
HandleTasksUnsaved ==
  /\ pc = "calling" /\ Unsaved /\ Returns(FALSE)
  /\ Install \/ UNCHANGED crontab
  /\ UNCHANGED task

(* The panel dies; an operation under way is applied or not. *)
DieWithTasks ==
  /\ Die
  /\ \/ pc = "calling" /\ Install
     \/ UNCHANGED crontab
  /\ UNCHANGED task

TaskRequests ==
  \/ \E t \in Task :
       \/ \E enabled \in BOOLEAN, text \in Text :
            (AskCreateTask(t, enabled, text) \/ AskUpdateTask(t, enabled, text))
            /\ UNCHANGED taskVars
       \/ AskDeleteTask(t) /\ UNCHANGED taskVars
  \/ \E i \in DOMAIN queue :
       \/ Accept(i) /\ CommitTask(queue[i].req) /\ UNCHANGED crontab
       \/ Withdraw(i) /\ UNCHANGED taskVars
  \/ (Suspend \/ Resume) /\ UNCHANGED taskVars
TaskWorker ==
  \/ (Claim \/ Settle) /\ UNCHANGED taskVars
  \/ CallTasks \/ HandleTasks
TaskNext == TaskRequests \/ TaskWorker \/ ReadTasksFails \/ HandleTasksUnsaved \/ DieWithTasks

-------------------------------------------------------------------------------
(* Properties. *)

(* docs/operations.md: "A successful synchronization means the crontab     *)
(* definition was installed or removed."  Once the last task.sync of the   *)
(* account is over, a successful one leaves the crontab of the enabled     *)
(* tasks and every row saying so, whatever was accepted while it ran; a    *)
(* failed one is shown by every task that is left.  While the account is   *)
(* disabled a synchronization removes the crontab, and enabling the        *)
(* account does not bring it back.                                         *)
TasksRunAsShown ==
  Quiet /\ requests > 0 /\ (\A i \in DOMAIN queue : queue[i].state = "asked") =>
    IF ok
    THEN /\ \A t \in TaskRows :
              task[t].status = IF task[t].enabled THEN "active" ELSE "disabled"
         /\ \/ crontab = EnabledTasks
            \/ suspended /\ \A t \in Task : crontab[t] = None
    ELSE unsaved \/ \A t \in TaskRows : task[t].status = "error"

TasksSettled == \A t \in Task : task[t].status # "pending"
===============================================================================
