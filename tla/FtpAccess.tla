------------------------------- MODULE FtpAccess ------------------------------
(***************************************************************************)
(* FTP logins and hosting accounts in the panel: the requests of           *)
(* ftp/service.go and accounts/service.go with their transactions, the     *)
(* job handlers that bring the host (FtpHost) to what the rows say, and    *)
(* the worker that runs them.                                              *)
(*                                                                         *)
(* The worker here is the one of JobQueue reduced to what the handlers can *)
(* tell: one job at a time, the oldest first, two attempts, recovery after *)
(* a restart.  created_at is read before the transaction, so a job may be  *)
(* older than jobs that committed just before it: those that have seen no  *)
(* handler return yet, for a request is not held up between its clock and  *)
(* its transaction while the worker runs a job.                            *)
(***************************************************************************)
EXTENDS FtpHost, SequencesExt

CONSTANTS
  MaxAttempts,  \* max_attempts of every kind here: 2
  MaxRequests,  \* bound on accepted requests
  MaxMishaps    \* bound on deaths of the panel and failing writes of a handler

ASSUME FtpAccessAssumption ==
  /\ MaxAttempts \in Nat \ {0}
  /\ MaxRequests \in Nat /\ MaxMishaps \in Nat

VARIABLES
  acct,    \* the accounts table
  login,   \* the ftp_accounts table
  queue,   \* the unfinished jobs by created_at
  pc,      \* where the worker is
  ok,      \* its handler returned nil
  requests, mishaps

panel == <<acct, login, queue, pc, ok, requests, mishaps>>
vars  == <<hostVars, panel>>

AccountRow == [status : {"pending", "active", "disabled", "error", "gone"},
               enabled : BOOLEAN]
LoginRow == [status : {"none", "pending", "active", "disabled", "error", "deleted"},
             acct : Account \cup {None}, name : Name \cup {None},
             pw : Password \cup {None},
             enabled : BOOLEAN, deleting : BOOLEAN]
Exists(l)   == login[l].status \notin {"none", "deleted"}
LoginsOf(a) == {l \in Login : Exists(l) /\ login[l].acct = a}
Job == [kind : Kinds, acct : Account, tries : 0..MaxAttempts,
        state : {"new", "queued", "running"}]

TypeOK ==
  /\ HostTypeOK
  /\ acct \in [Account -> AccountRow]
  /\ login \in [Login -> LoginRow]
  /\ queue \in Seq(Job)
  /\ pc \in {"idle", "claimed", "calling", "handled", "down"}
  /\ ok \in BOOLEAN
  /\ requests \in 0..MaxRequests /\ mishaps \in 0..MaxMishaps

(* Accounts that were provisioned and have no login yet. *)
Init ==
  /\ HostInit
  /\ acct = [a \in Account |-> [status |-> "active", enabled |-> TRUE]]
  /\ login = [l \in Login |->
                [status |-> "none", acct |-> None, name |-> None, pw |-> None,
                 enabled |-> FALSE, deleting |-> FALSE]]
  /\ queue = <<>>
  /\ pc = "idle" /\ ok = TRUE /\ requests = 0 /\ mishaps = 0

-------------------------------------------------------------------------------
(* Requests. *)

JobsOf(a, kinds) == {i \in DOMAIN queue : queue[i].acct = a /\ queue[i].kind \in kinds}
AccountBusy(a)   == JobsOf(a, {"enable", "disable", "delete"}) # {}

(* Wrong on purpose: only a job still waiting counts. *)
FTPQueued(a) == \E i \in JobsOf(a, {"sync"}) : queue[i].state # "running"

FTPBusy(a)       == JobsOf(a, {"sync"}) # {}

Enqueue(kind, a) ==
  /\ pc # "down"
  /\ requests < MaxRequests /\ requests' = requests + 1
  /\ \E i \in 1 .. Len(queue) + 1 :
       /\ \A k \in i .. Len(queue) : queue[k].state = "new"
       /\ queue' = InsertAt(queue, i, [kind |-> kind, acct |-> a, tries |-> 0,
                                       state |-> "new"])

(* requireFTP. *)
NameTaken(n, l) == \E k \in Login \ {l} : Exists(k) /\ login[k].name = n
RequireFTP(l, a, n) ==
  /\ acct[a].status \in {"active", "disabled"}
  /\ ~FTPBusy(a)
  /\ ~NameTaken(n, l)

CreateFTP(l, a) ==
  /\ login[l].status = "none"
  /\ acct[a].status = "active" /\ acct[a].enabled
  /\ \E n \in Name, p \in Password, e \in BOOLEAN :
       /\ RequireFTP(l, a, n)
       /\ login' = [login EXCEPT ![l] =
                      [status |-> "pending", acct |-> a, name |-> n, pw |-> p,
                       enabled |-> e, deleting |-> FALSE]]
  /\ Enqueue("sync", a)
  /\ UNCHANGED <<hostVars, acct, pc, ok, mishaps>>

(* ChangeFTP for a PATCH: the fields the request leaves out keep the       *)
(* values the transaction reads.                                           *)
UpdateFTP(l) ==
  /\ Exists(l) /\ ~login[l].deleting
  /\ \E n \in Name, p \in Password, e \in BOOLEAN :
       /\ RequireFTP(l, login[l].acct, n)
       /\ login' = [login EXCEPT ![l] = [@ EXCEPT !.status = "pending", !.name = n,
                                                  !.pw = p, !.enabled = e]]
  /\ Enqueue("sync", login[l].acct)
  /\ UNCHANGED <<hostVars, acct, pc, ok, mishaps>>

(* ChangeFTP for a DELETE. *)
DeleteFTP(l) ==
  /\ Exists(l)
  /\ RequireFTP(l, login[l].acct, login[l].name)
  /\ login' = [login EXCEPT ![l] = [@ EXCEPT !.status = "pending", !.deleting = TRUE]]
  /\ Enqueue("sync", login[l].acct)
  /\ UNCHANGED <<hostVars, acct, pc, ok, mishaps>>

(* QueueAction, and the check the services make before it. *)
AccountAction(a, kind) ==
  /\ acct[a].status \notin {"pending", "gone"}
  /\ kind = "delete" => LoginsOf(a) = {}
  /\ acct' = [acct EXCEPT ![a] = [status |-> "pending", enabled |-> kind = "enable"]]
  /\ Enqueue(kind, a)
  /\ UNCHANGED <<hostVars, login, pc, ok, mishaps>>

-------------------------------------------------------------------------------
(* The worker. *)

held == queue[1]

Claim ==
  /\ pc = "idle" /\ queue # <<>>
  /\ queue' = [queue EXCEPT ![1].state = "running", ![1].tries = @ + 1]
  /\ pc' = "claimed"
  /\ UNCHANGED <<hostVars, acct, login, ok, requests, mishaps>>

(* The jobs no request still under way may be older than. *)
Age == queue' = [i \in DOMAIN queue |->
                  IF queue[i].state = "new" THEN [queue[i] EXCEPT !.state = "queued"]
                                            ELSE queue[i]]

(* The handlers read their rows and call the Agent. *)
Snapshot(a) == {[login |-> l, name |-> login[l].name, pw |-> login[l].pw,
                 enabled |-> login[l].enabled] :
                  l \in {k \in LoginsOf(a) : ~login[k].deleting}}
Call ==
  /\ pc = "claimed" /\ acct[held.acct].status # "gone"
  /\ op.at = "off"
  /\ Begin(held.kind, held.acct,
           IF held.kind = "sync" THEN Snapshot(held.acct) ELSE {})
  /\ pc' = "calling"
  /\ UNCHANGED <<home, file, pdb, sessions, faults, acct, login, queue, ok,
                 requests, mishaps>>

(* The account's row is gone: the handler returns an error. *)
CallNothing ==
  /\ pc = "claimed" /\ acct[held.acct].status = "gone"
  /\ ok' = FALSE
  /\ pc' = "handled" /\ Age
  /\ UNCHANGED <<hostVars, acct, login, requests, mishaps>>

(* Wrong on purpose: the outcome of the synchronization is ignored. *)
FinishedAnyway(l, failed) ==
  [login[l] EXCEPT !.status = IF login[l].deleting THEN "deleted"
                              ELSE IF login[l].enabled THEN "active" ELSE "disabled"]

(* FinishFTP. *)
Finished(l, failed) ==
  IF failed THEN [login[l] EXCEPT !.status = "error"]
  ELSE IF login[l].deleting THEN [login[l] EXCEPT !.status = "deleted"]
  ELSE [login[l] EXCEPT !.status = IF login[l].enabled THEN "active" ELSE "disabled"]
FinishFTP(a, failed) ==
  login' = [l \in Login |-> IF l \in LoginsOf(a) THEN Finished(l, failed) ELSE login[l]]

(* The end of Sync. *)
HandleSync ==
  /\ held.kind = "sync"
  /\ FinishFTP(held.acct, op.failed)
  /\ ok' = ~op.failed
  /\ UNCHANGED acct

(* Wrong on purpose: a failure is returned but not stored. *)
HandleActionUnmarked ==
  LET a == held.acct
      become(s) == acct' = [acct EXCEPT ![a].status = s]
  IN /\ held.kind # "sync"
     /\ ok' = ~op.failed
     /\ \/ op.failed /\ UNCHANGED acct
        \/ ~op.failed /\ held.kind = "delete" /\ become("gone")
        \/ ~op.failed /\ held.kind = "enable" /\ become("active")
        \/ ~op.failed /\ held.kind = "disable" /\ become("disabled")
     /\ UNCHANGED login

(* The end of ProvisionAction.  The foreign key of ftp_accounts restricts  *)
(* the deletion of the account's row.                                      *)
HandleAction ==
  LET a == held.acct
      become(s) == acct' = [acct EXCEPT ![a].status = s]
  IN /\ held.kind # "sync"
     /\ \/ op.failed /\ become("error") /\ ok' = FALSE
        \/ /\ ~op.failed /\ held.kind = "delete"
           /\ IF LoginsOf(a) = {} THEN become("gone") /\ ok' = TRUE
                                  ELSE UNCHANGED acct /\ ok' = FALSE
        \/ ~op.failed /\ held.kind = "enable" /\ become("active") /\ ok' = TRUE
        \/ ~op.failed /\ held.kind = "disable" /\ become("disabled") /\ ok' = TRUE
     /\ UNCHANGED login

Handle ==
  /\ pc = "calling" /\ op.at = "end"
  /\ HandleSync \/ HandleAction
  /\ op' = NoOp
  /\ pc' = "handled" /\ Age
  /\ UNCHANGED <<home, file, pdb, sessions, faults, requests, mishaps>>

(* FinishFTP, UpdateStatus or Delete fails: the rows keep what they had,   *)
(* and the handler returns an error.                                       *)
HandleUnsaved ==
  /\ pc = "calling" /\ op.at = "end"
  /\ mishaps < MaxMishaps
  /\ mishaps' = mishaps + 1
  /\ op' = NoOp /\ ok' = FALSE
  /\ pc' = "handled" /\ Age
  /\ UNCHANGED <<home, file, pdb, sessions, faults, acct, login, requests>>

(* Wrong on purpose: attempts <= max_attempts. *)
SettleOnceMore ==
  /\ pc = "handled"
  /\ queue' = IF ~ok /\ held.tries <= MaxAttempts
              THEN [queue EXCEPT ![1].state = "queued"] ELSE Tail(queue)
  /\ pc' = "idle"
  /\ UNCHANGED <<hostVars, acct, login, ok, requests, mishaps>>

(* CompleteJob, RetryJob or FailJob. *)
Settle ==
  /\ pc = "handled"
  /\ queue' = IF ~ok /\ held.tries < MaxAttempts
              THEN [queue EXCEPT ![1].state = "queued"] ELSE Tail(queue)
  /\ pc' = "idle"
  /\ UNCHANGED <<hostVars, acct, login, ok, requests, mishaps>>

(* The panel's process dies; an Agent operation in progress goes on. *)
Crash ==
  /\ pc # "down" /\ mishaps < MaxMishaps
  /\ mishaps' = mishaps + 1
  /\ pc' = "down"
  /\ UNCHANGED <<hostVars, acct, login, queue, ok, requests>>

(* It is started again, and the worker begins with RecoverJobs. *)
Restart ==
  /\ pc = "down"
  /\ queue' = [i \in DOMAIN queue |->
                IF queue[i].state = "running"
                THEN [queue[i] EXCEPT !.state = "queued", !.tries = @ - 1]
                ELSE [queue[i] EXCEPT !.state = "queued"]]
  /\ pc' = "idle"
  /\ UNCHANGED <<hostVars, acct, login, ok, requests, mishaps>>

(* The answer to a call nobody waits for any more. *)
Orphaned ==
  /\ pc # "calling" /\ op.at = "end"
  /\ op' = NoOp
  /\ UNCHANGED <<home, file, pdb, sessions, faults, panel>>

Request ==
  \/ \E l \in Login, a \in Account : CreateFTP(l, a)
  \/ \E l \in Login : UpdateFTP(l) \/ DeleteFTP(l)
  \/ \E a \in Account, kind \in {"enable", "disable", "delete"} : AccountAction(a, kind)
WorkerStep == Claim \/ Call \/ CallNothing \/ Handle \/ Settle \/ Orphaned
Next ==
  \/ Request
  \/ WorkerStep
  \/ HostNext /\ UNCHANGED panel
  \/ HandleUnsaved
  \/ Crash
  \/ Restart

Spec == Init /\ [][Next]_vars

-------------------------------------------------------------------------------
(* Properties. *)

Of(l)   == {x \in pdb \cup sessions : x.login = l}
OfAcct(a) == {x \in pdb \cup sessions : x.acct = a}
InFiles(l) == \E a \in Account : \E e \in file[a].entries : e.login = l

(* A row is given up, and with it the name and the capacity, only after    *)
(* the host has given up what it stands for.  A login whose row is gone    *)
(* has no entry in any account file, no line in the database and no        *)
(* session; an account whose row is gone has left nothing of its logins,   *)
(* and its home is in quarantine.                                          *)
RevokedLeavesNoTrace ==
  /\ \A l \in Login : login[l].status = "deleted" => Of(l) = {} /\ ~InFiles(l)
  /\ \A a \in Account : acct[a].status = "gone" =>
                          home[a] = "quarantined" /\ ~file[a].there /\ OfAcct(a) = {}

(* A login shown as active works with its name and password alone: no      *)
(* line, and no session still open, has an older name or password.  One    *)
(* shown as disabled does not work, also after its account has been        *)
(* disabled and enabled again.                                             *)
RowLine(l) == [acct |-> login[l].acct, login |-> l, name |-> login[l].name,
               pw |-> login[l].pw]
GrantsAsShown ==
  \A l \in Login : /\ login[l].status = "active" => Of(l) \subseteq {RowLine(l)}
                   /\ login[l].status = "disabled" => Of(l) = {}

(* Of an account with no job of its own under way: one shown as disabled   *)
(* has a closed home and no login of it works, whatever syncs have run     *)
(* since; of one shown as active the logins shown as active do work.       *)
AccountServesAsShown ==
  \A a \in Account : ~AccountBusy(a) =>
    /\ acct[a].status = "disabled" => home[a] = "closed" /\ OfAcct(a) = {}
    /\ acct[a].status = "active" =>
         \A l \in LoginsOf(a) : login[l].status = "active" => RowLine(l) \in pdb

(* No two logins of the node share a name in the database.                 *)
OneLoginPerName == \A x, y \in pdb : x.name = y.name => x.login = y.login

(* What a sync sends is still what the rows say when its answer arrives,   *)
(* so FinishFTP settles exactly the rows that were synchronized.           *)
SnapshotIsCurrent ==
  pc = "calling" /\ held.kind = "sync" => op.entries = Snapshot(held.acct)

(* docs/ftp.md: "Names remain unique per node until revocation succeeds,   *)
(* including disabled logins."  No login row is given a name that still    *)
(* logs another login in.                                                  *)
NameReservedUntilRevoked ==
  \A l \in Login : \A x \in pdb :
    Exists(l) /\ x.login # l => x.name # login[l].name

-------------------------------------------------------------------------------
(* The worker, the Agent and systemd keep going; requests, faults, mishaps *)
(* and clients need not.                                                   *)
Fairness == /\ WF_vars(WorkerStep)
            /\ WF_vars(AgentStep /\ UNCHANGED panel)
            /\ WF_vars(Restart)
FairSpec == Spec /\ Fairness

(* Once the requests are over nothing stays 'pending': every change is      *)
(* settled one way or the other.                                           *)
PendingResolves ==
  <>[] /\ \A l \in Login : login[l].status # "pending"
       /\ \A a \in Account : acct[a].status # "pending"
===============================================================================
