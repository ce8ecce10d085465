--------------------------------- MODULE Panel --------------------------------
(***************************************************************************)
(* The resource services of the panel with the worker they share.  They    *)
(* do not touch each other's rows, so an execution is about the resources  *)
(* of one of them, which the initial state chooses.                        *)
(***************************************************************************)
EXTENDS Tasks, Dns, Databases, Accounts

VARIABLE scope  \* the service whose requests and jobs there are

vars == <<scope, workerVars, taskVars, dnsVars, dbVars, accountVars>>

Init ==
  /\ scope \in {"tasks", "dns", "databases", "accounts"}
  /\ WorkerInit
  /\ TaskInit
  /\ IF scope = "dns" THEN DnsInit ELSE DnsNone
  /\ IF scope = "databases" THEN DbInit ELSE DbNone
  /\ IF scope = "accounts" THEN AccountInit ELSE AccountNone

InTasks     == scope = "tasks"     /\ UNCHANGED <<scope, dnsVars, dbVars, accountVars>>
InDns       == scope = "dns"       /\ UNCHANGED <<scope, taskVars, dbVars, accountVars>>
InDatabases == scope = "databases" /\ UNCHANGED <<scope, taskVars, dnsVars, accountVars>>
InAccounts  == scope = "accounts"  /\ UNCHANGED <<scope, taskVars, dnsVars, dbVars>>

WorkerStep == \/ InTasks /\ TaskWorker
              \/ InDns /\ DnsWorker
              \/ InDatabases /\ DbWorker
              \/ InAccounts /\ AccountWorker
Next == \/ InTasks /\ TaskNext
        \/ InDns /\ DnsNext
        \/ InDatabases /\ DbNext
        \/ InAccounts /\ AccountNext

Spec     == Init /\ [][Next]_vars
(* The worker goes on: it polls every second and systemd restarts the      *)
(* server; requests, failures and deaths are bounded.                      *)
FairSpec == Spec /\ WF_vars(WorkerStep)

-------------------------------------------------------------------------------
PanelTypeOK ==
  /\ scope = "tasks" => TaskTypeOK
  /\ scope = "dns" => DnsTypeOK
  /\ scope = "databases" => DbTypeOK
  /\ scope = "accounts" => AccountTypeOK

(* Once the requests are over no task, zone, record, database, user, grant *)
(* or account stays 'pending' or 'deleting', where it would refuse every   *)
(* later request, unless a statement of a handler failed.                  *)
PanelResolves ==
  <>[](unsaved \/ (TasksSettled /\ DnsSettled /\ DbSettled /\ AccountsSettled))
===============================================================================
