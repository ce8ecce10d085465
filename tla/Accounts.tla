-------------------------------- MODULE Accounts ------------------------------
(***************************************************************************)
(* Accounts and packages: the requests of accounts/service.go and          *)
(* packages/service.go, their transactions, and the jobs account.create,   *)
(* .disable, .enable and .delete, which change a Linux user and its home.  *)
(*                                                                         *)
(* An account has resources, made and removed by the requests of the other *)
(* services; here they are a number.  A request reads the account first    *)
(* and counts again in its transaction, where the package's limit is       *)
(* looked at.  Names only refuse requests and are left out.                *)
(***************************************************************************)
EXTENDS PanelWorker

CONSTANTS
  Account,  \* accounts IDs, never reused
  Package,  \* packages IDs, never reused
  Limit     \* the limits a package may have

ASSUME AccountAssumption ==
  None \notin Account \cup Package \cup Limit /\ Limit \subseteq Nat

VARIABLES
  account,  \* accounts, with account_packages and the number of their resources
  package,  \* the limit of a package, None for one that is not there
  linux     \* the Linux user of an account and its home

accountVars == <<account, package, linux>>

Present == {"pending", "active", "disabled", "error"}
AccountRow == [status : Present \cup {"none", "deleted"}, enabled : BOOLEAN,
               package : Package \cup {None}, used : Nat]
AccountRequest == [kind : {"account.create", "account.enable", "account.disable",
                           "account.delete", "assign", "resource"},
                   account : Account, package : Package \cup {None}]
AccountCall == [op : {"account.create", "account.enable", "account.disable",
                      "account.delete"}, account : Account]
Home == {"none", "open", "locked", "trash"}

AccountTypeOK ==
  /\ WorkerTypeOK(AccountRequest, AccountCall)
  /\ account \in [Account -> AccountRow]
  /\ package \in [Package -> Limit \cup {None}]
  /\ linux \in [Account -> [user : BOOLEAN, home : Home]]

NoAccount == [status |-> "none", enabled |-> FALSE, package |-> None, used |-> 0]

AccountNone ==
  /\ account = [a \in Account |-> NoAccount]
  /\ package = [p \in Package |-> None]
  /\ linux = [a \in Account |-> [user |-> FALSE, home |-> "none"]]
(* Packages, and no account, or one that is in use. *)
AccountInit ==
  /\ package \in [Package -> Limit]
  /\ \E inUse \in SUBSET Account, p \in Package :
       /\ Cardinality(inUse) <= 1
       /\ account = [a \in Account |->
            IF a \in inUse THEN [status |-> "active", enabled |-> TRUE, package |-> p, used |-> 0]
                           ELSE NoAccount]
       /\ linux = [a \in Account |-> IF a \in inUse THEN [user |-> TRUE, home |-> "open"]
                                     ELSE [user |-> FALSE, home |-> "none"]]

-------------------------------------------------------------------------------
(* accounts, packages and account_packages, one operator a statement. *)

AccountRows == {a \in Account : account[a].status \in Present}
PackageRows == {p \in Package : package[p] # None}

CreateAccount(r) ==
  account' = [account EXCEPT ![r.account] =
               [status |-> "pending", enabled |-> TRUE, package |-> r.package, used |-> 0]]

QueueAccountAction(a, enabled) ==
  /\ a \in AccountRows /\ account[a].status # "pending"
  /\ account' = [account EXCEPT ![a].status = "pending", ![a].enabled = enabled]

(* No row, no change, and no error. *)
UpdateAccountStatus(a, status) ==
  account' = IF a \in AccountRows THEN [account EXCEPT ![a].status = status] ELSE account

(* With the cascades to its resources and its package. *)
DeleteAccount(a) == account' = [account EXCEPT ![a] = [NoAccount EXCEPT !.status = "deleted"]]

AccountResourceCount(a) == account[a].used

(* An upsert whose foreign keys must be there. *)
AssignAccountPackage(a, p) ==
  /\ a \in AccountRows /\ p \in PackageRows
  /\ account' = [account EXCEPT ![a].package = p]

CreatePackage(p, limit) == package[p] = None /\ package' = [package EXCEPT ![p] = limit]
UpdatePackage(p, limit) == p \in PackageRows /\ package' = [package EXCEPT ![p] = limit]
DeletePackage(p) ==
  /\ p \in PackageRows /\ \A a \in AccountRows : account[a].package # p
  /\ package' = [package EXCEPT ![p] = None]

-------------------------------------------------------------------------------
(* Requests, first half: what the services read and refuse by. *)

AskAccount(kind, a, p) == Ask([kind |-> kind, account |-> a, package |-> p])

(* Create. *)
AskCreateAccount(a, p) ==
  account[a].status = "none" /\ p \in PackageRows /\ AskAccount("account.create", a, p)

(* Set. *)
AskSetAccount(a, kind) ==
  a \in AccountRows /\ account[a].status # "pending" /\ AskAccount(kind, a, None)

(* Delete. *)
AskDeleteAccount(a) ==
  /\ a \in AccountRows /\ account[a].status # "pending"
  /\ AccountResourceCount(a) = 0
  /\ AskAccount("account.delete", a, None)

(* AssignPackage. *)
AskAssignPackage(a, p) ==
  a \in AccountRows /\ p \in PackageRows /\ AskAccount("assign", a, p)

(* A Create of tasks, databases, websites, ftp or backups. *)
AskResource(a) ==
  account[a].status = "active" /\ account[a].enabled /\ AskAccount("resource", a, None)

(* Packages are changed in one transaction. *)
ChangePackage ==
  /\ requests < MaxRequests /\ requests' = requests + 1
  /\ \E p \in Package :
       (\E limit \in Limit : CreatePackage(p, limit) \/ UpdatePackage(p, limit)) \/ DeletePackage(p)
  /\ UNCHANGED <<account, linux, usable, queue, pc, ok, call, troubles, unsaved, suspended>>

-------------------------------------------------------------------------------
(* Requests, second half: the transactions of the store. *)

(* CreateProvision. *)
CommitCreateAccount(r) ==
  /\ r.kind = "account.create"
  /\ account[r.account].status = "none" /\ r.package \in PackageRows
  /\ CreateAccount(r)

(* QueueAction. *)
CommitAccountAction(r) ==
  /\ r.kind \in {"account.enable", "account.disable", "account.delete"}
  /\ r.kind = "account.delete" => AccountResourceCount(r.account) = 0
  /\ QueueAccountAction(r.account, r.kind = "account.enable")

CommitAccount(r) == CommitCreateAccount(r) \/ CommitAccountAction(r)

(* Requests that store no job of the account leave the queue. *)
Answered(i) ==
  /\ queue[i].state = "asked"
  /\ queue' = RemoveAt(queue, i)
  /\ UNCHANGED <<usable, pc, ok, call, events>>

(* Wrong on purpose: the package is looked at when the request is read. *)
CapacityUnchecked(a) == a \in AccountRows
(* requireCapacity: the package of an account that is there. *)
RequireCapacity(a) == a \in AccountRows /\ account[a].used < package[account[a].package]

(* The status of the account is not looked at again. *)
CommitResource(r) ==
  /\ r.kind = "resource" /\ RequireCapacity(r.account)
  /\ account' = [account EXCEPT ![r.account].used = @ + 1]
CommitAssign(r) == r.kind = "assign" /\ AssignAccountPackage(r.account, r.package)

(* A resource of the account is removed, by a request or a job of its own. *)
RemoveResource(a) ==
  /\ a \in AccountRows /\ account[a].used > 0
  /\ account' = [account EXCEPT ![a].used = @ - 1]
  /\ UNCHANGED <<package, linux, workerVars>>

-------------------------------------------------------------------------------
(* Provision and ProvisionAction. *)

AccountGone == held.account \notin AccountRows

AccountNothing ==
  /\ pc = "claimed" /\ AccountGone /\ NoFault /\ Returns(FALSE)
  /\ UNCHANGED accountVars

AccountReadFails ==
  /\ pc = "claimed" /\ Unsaved /\ Returns(FALSE)
  /\ UNCHANGED accountVars

(* Only Provision marks the row before the call. *)
CallAccount ==
  /\ Goes("claimed", "calling") /\ ~AccountGone
  /\ call' = [op |-> held.kind, account |-> held.account]
  /\ IF held.kind = "account.create" THEN UpdateAccountStatus(held.account, "pending")
                                     ELSE UNCHANGED account
  /\ UNCHANGED <<package, linux>>

(* The Agent's account manager; FtpAccess has its steps. *)
OfUser == linux[call.account]
Ready  == call.op \in {"account.create", "account.delete"} \/ OfUser.user
Becomes(user, home) == linux' = [linux EXCEPT ![call.account] = [user |-> user, home |-> home]]
Trashed == IF OfUser.home = "none" THEN "none" ELSE "trash"
Managed ==
  CASE call.op \in {"account.create", "account.enable"} -> Ready /\ Becomes(TRUE, "open")
    [] call.op = "account.disable" -> Ready /\ Becomes(TRUE, "locked")
    [] call.op = "account.delete" -> Becomes(FALSE, Trashed)
(* What a failure on the way may leave: Enable takes itself back, Delete   *)
(* has removed the user and not yet moved its home.                        *)
HalfManaged ==
  \/ UNCHANGED linux
  \/ Managed
  \/ call.op = "account.enable" /\ Ready /\ Becomes(TRUE, "locked")
  \/ call.op = "account.delete" /\ Becomes(FALSE, OfUser.home)

AccountSucceed ==
  CASE held.kind \in {"account.create", "account.enable"} ->
         UpdateAccountStatus(held.account, "active")
    [] held.kind = "account.disable" -> UpdateAccountStatus(held.account, "disabled")
    [] held.kind = "account.delete" -> DeleteAccount(held.account)
(* Wrong on purpose: the return after an error of the Agent is missing.    *)
AccountFallThrough == AccountSucceed
AccountFail == UpdateAccountStatus(held.account, "error")

HandleAccount ==
  /\ pc = "calling"
  /\ \/ Managed /\ AccountSucceed /\ NoFault /\ Returns(TRUE)
     \/ ~Ready /\ UNCHANGED linux /\ AccountFail /\ NoFault /\ Returns(FALSE)
     \/ HalfManaged /\ AccountFail /\ Fault /\ Returns(FALSE)
  /\ UNCHANGED package

HandleAccountUnsaved ==
  /\ pc = "calling" /\ Unsaved /\ Returns(FALSE)
  /\ HalfManaged
  /\ UNCHANGED <<account, package>>

DieWithAccount ==
  /\ Die
  /\ IF pc = "calling" THEN HalfManaged ELSE UNCHANGED linux
  /\ UNCHANGED <<account, package>>

AccountRequests ==
  \/ ChangePackage
  \/ /\ \E a \in Account :
          \/ \E p \in Package : AskCreateAccount(a, p) \/ AskAssignPackage(a, p)
          \/ \E kind \in {"account.enable", "account.disable"} : AskSetAccount(a, kind)
          \/ AskDeleteAccount(a) \/ AskResource(a)
     /\ UNCHANGED accountVars
  \/ \E i \in DOMAIN queue :
       \/ Withdraw(i) /\ UNCHANGED accountVars
       \/ Accept(i) /\ CommitAccount(queue[i].req) /\ UNCHANGED <<package, linux>>
       \/ /\ Answered(i) /\ UNCHANGED <<package, linux>>
          /\ CommitResource(queue[i].req) \/ CommitAssign(queue[i].req)
  \/ \E a \in Account : RemoveResource(a)
AccountWorker ==
  \/ (Claim \/ Settle) /\ UNCHANGED accountVars
  \/ AccountNothing \/ CallAccount \/ HandleAccount
AccountNext == \/ AccountRequests \/ AccountWorker
               \/ AccountReadFails \/ HandleAccountUnsaved \/ DieWithAccount

-------------------------------------------------------------------------------
(* Properties. *)

(* Once no job is under way and no statement of a handler has failed, an   *)
(* active account has its user and an open home, a disabled one a locked   *)
(* home, whatever was asked for meanwhile and whatever a failed enabling   *)
(* or deletion left; a Linux user of the panel has its row at any time,    *)
(* and the package of an account is there.                                 *)
AccountsAsShown ==
  /\ Quiet /\ ~unsaved =>
       \A a \in AccountRows :
         /\ account[a].status = "active" => linux[a] = [user |-> TRUE, home |-> "open"]
         /\ account[a].status = "disabled" => linux[a] = [user |-> TRUE, home |-> "locked"]
  /\ \A a \in Account : linux[a].user => a \in AccountRows
  /\ \A a \in AccountRows : account[a].package \in PackageRows

(* plan.md: "Concurrent creates cannot bypass a limit."  Requests under    *)
(* way together never make more resources than the package the account has *)
(* at that moment allows.                                                  *)
LimitsHold ==
  [][\A a \in Account : account[a].used < account'[a].used =>
       account'[a].used <= package[account[a].package]]_<<account, package>>

AccountsSettled == \A a \in Account : account[a].status # "pending"
===============================================================================
