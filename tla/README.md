# WEBYCP in TLA+

WEBYCP is a hosting control panel: a REST server (`webycp-server`) with a SQLite
database and one background worker, and a root daemon (`webycp-agent`) on the node
that does the privileged work behind a Unix socket. This directory holds its formal
model: TLA+ modules translated from the Go and SQL sources, TLC configurations that
check them on small instances, and TLAPS proofs of what holds for every instance.

Every module quotes the code by function name; `PROJECT.json` maps every definition
to the lines it models.

## 1. The system

### How the parts interact

```
 browser ── REST handlers ── services (accounts, ftp, websites, dns, backups, …)
                                 │  one SQLite transaction: resource row + job row
                                 ▼
                 SQLite (one connection) ◄──── Worker (one goroutine)
                 jobs, resources, audit             │ handler of the job's kind
                                                    ▼
                                 Agent client ── Unix socket ── Agent (root)
                                 (2 min timeout)                 drivers: account,
                                                                 pureftpd, nginx, cron,
                                                                 acme, mariadb, bind,
                                                                 local backups
```

A request that changes something on the node changes the row of the resource
(`pending`, or another transitional status) and inserts a job in one transaction, then
wakes the worker. The worker claims jobs one at a time, oldest `created_at` first,
calls the handler of the job's kind, and stores the outcome. The handler reads the
rows again, calls the Agent, and writes what came of it into the rows. A server that
dies leaves jobs `running`; the next start puts them back in the queue
(`RecoverJobs`) and their handlers run again from the beginning.

Three facts shape everything below. The store opens one connection, so a statement or
a transaction is atomic with respect to all others, but a service that reads, decides
and then opens a transaction can be overtaken in between. There is one worker, so
handlers never overlap, but a handler overlaps with every request, and the Agent can
still be at work for a handler that has gone. And the node's files and the database
are not one transaction: anything may fail between them.

### Components

| Part | State | Operations | What makes it correct | Module |
|---|---|---|---|---|
| Job queue (`jobs/`, `queries/jobs.sql`) | `jobs`, `job_steps`, the wake channel, the job the worker holds | create with a resource, `Notify`, claim, step, complete / retry / fail, recover, record | no accepted job is lost or stranded, attempts are bounded across restarts, work is repeated by recovery only, claims follow acceptance, the audit log agrees with the outcome | `JobTable`, `JobQueue`, `JobLedger` |
| FTP logins (`ftp/`, `store/sqlite/ftp.go`) | `ftp_accounts` | create, update, delete, `Sync` handler, `FinishFTP` | what the panel shows of a login is what the node grants; a row goes only after the node has revoked it | `FtpAccess` |
| Accounts and packages (`accounts/`, `packages/`) | `accounts`, `packages`, `account_packages` | create, enable, disable, delete, assign a package, change a package; the provision handlers; the capacity check of every creation | the Linux user is as the panel shows it; a closed account has no access; concurrent creations stay within the package | `Accounts` (the whole life of an account and its package), `FtpAccess` (enable, disable, delete step by step, with logins) |
| Agent, FTP driver (`agent/ftp/pureftpd`) | `accounts/<id>.json`, `pureftpd.pdb`, open sessions | `Sync`, `Enable`, `Disable`, `Delete`: write file, rebuild, disconnect | one login per name; partial failure leaves no revoked access behind a success | `FtpHost` |
| Agent, account driver (`agent/account`) | Unix user, home directory, trash | `Ensure`, `Enable`, `Disable`, `Delete` | the undo of a failed enable closes the account again | `FtpHost` (steps of all but `Ensure`), `Accounts` (outcomes of all four) |
| Agent client and server (`agent/client`, `agent/server`) | none | one HTTP call per operation, timeout, cancellation | a lost answer is a failure for the panel whatever the node did | inside `FtpHost`, `Backups`, `WebHost`, and as lost answers in `Tasks`, `Dns`, `Databases`, `Accounts` |
| Backups (`backups/`, `store/sqlite/backups.go`, `agent/backup/local`) | plans, runs, artifacts; archives and temporary files | plan create / update / delete, run, scheduled run, `Create` handler, retention, delete artifact, restore | a succeeded run has its archive; a plan has one active run and is never blocked; retention keeps what it should | `Backups` (all but restores) |
| Websites and domains (`websites/`, `store/sqlite/websites.go`) | `websites`, `website_domains` | create, enable, disable, delete a website; create, enable, disable, delete, rename a hostname; the handlers | what the panel shows of a website is what nginx serves; a hostname has one owner; nothing stays `pending` | `Hosting` |
| Agent, websites (`agent/website`, `agent/webserver/nginx`, `agent/runtime/phpfpm`) | site files, links, what nginx loaded, document roots, trash | `Ensure`, `EnsureTLS`, `Disable`, `Delete`: change files, test, reload, roll back | a failed operation leaves the configuration that ran before; a deleted site is in the trash | `WebHost` |
| Scheduled tasks (`tasks/`, `agent/scheduler/crontab`) | `scheduled_tasks`; one crontab per account | create, change, delete, the `task.sync` handler | the crontab holds the enabled tasks and the rows say so | `Tasks` |
| Certificates (`certificates/`, `agent/certificate/certbot`) | rows with their names, PEM files | issue, renew, redirect, the renewal ticker; certificate of the panel itself | the names shown are those on disk; an expiring certificate is renewed or reported | `Hosting`, `WebHost` (website certificates; the schedule is left open) |
| DNS (`dns/`, `agent/dns/powerdns`) | `dns_settings`, `dns_zones`, `dns_records`; the zones of the PowerDNS server | settings; create and delete a zone; create, change, delete a record; the three kinds of jobs | active records are published; records of a name do not contradict each other; a foreign zone is not touched | `Dns` |
| Databases (`databases/`, `agent/database/mysql`) | `databases`, `database_users`, `database_grants`; the MySQL server | create and delete a database or user; grant, revoke; the six kinds of jobs | what is shown active is there; what is on the server has its row | `Databases` |
| Audit log (`audit/`) | events | append | one final event per job | `JobQueue` (job events) |
| Process wiring (`cmd/webycp-server`, systemd) | goroutines | start, stop, restart; backup and certificate tickers | a restart resumes what was under way | death and restart in every module with a worker; `Panel` is the one worker over the services that share no rows |
| Authentication and sessions, nodes and settings | single rows | single transactions | constraints of the schema | not modelled |
| REST API, web interface, migrations, packaging, archive format, support packages | none of their own | translation and I/O | – | not modelled |

### What is hard here

`PROJECT.json` lists 40 hazards, each at its line; in groups:

- **Recovery runs work again.** A handler whose work was done but not recorded is
  repeated with its attempt refunded. Handlers must be idempotent, and the refund must
  neither strand a job nor multiply attempts. (`JobQueue`; `Backups`, where `Create`
  turns out not to be idempotent.)
- **Writes that fail after the work.** `CompleteJob`, `FinishFTP`, `failRun`,
  `UpdateStatus` may fail when the node has already changed.
- **Rows change between the handler's read and its write.** FTP refuses requests of an
  account while a sync of it is queued or running; tasks, grants and certificates do not,
  and websites, databases and DNS refuse by the status of the row alone, which a failed
  attempt resets.
- **Requests overtake each other.** `created_at` is read before the transaction, so
  the order of jobs is not the order of commits; a status that a failed attempt sets
  to `error` lets a second action in while the first waits for its retry.
- **Checks before the transaction.** A service reads, refuses, and opens its transaction
  later; what the transaction does not check again may have changed. (Limits, record sets,
  second deletions, hostnames.)
- **Several files on the node change one after the other**: account file, database,
  sessions; home, logins; archive, row; site file, link, what nginx has loaded.
- **The panel stops waiting while the Agent goes on**, and the next job meets what the
  abandoned one does.
- **Nothing may stay pending**: a `pending` row or an active run refuses every later
  request, so a handler that returns without storing a status blocks its resource.

## 2. The modules

| Module | What it is |
|---|---|
| `JobTable` | the statements of `queries/jobs.sql` as operators on one row |
| `JobQueue` | requests, the worker goroutine, the server process, over `JobTable` |
| `JobLedger` | the abstract queue: what a caller of the queue may rely on |
| `JobQueueProofs` | the inductive invariant, the theorems and their proofs |
| `FtpHost` | the Agent: FTP driver and account manager, step by step, with clients |
| `FtpAccess` | the panel's accounts and logins, their handlers and worker, composed with `FtpHost` |
| `FtpAccessProofs` | its inductive invariants, the theorems and their proofs |
| `Backups` | plans, runs, artifacts, the `backup.create` handler, retention, the Agent's archives |
| `BackupsProofs` | its inductive invariant, the theorems and their proofs |
| `WebHost` | the Agent: nginx driver, document roots, certificate installation, command by command |
| `Hosting` | websites, hostnames and certificates of the panel, composed with `WebHost` |
| `HostingProofs` | its inductive invariants, the theorems and their proofs |
| `PanelWorker` | what the remaining services share: requests in two halves, the worker, deaths |
| `Tasks` | scheduled tasks of an account and its crontab, over `PanelWorker` |
| `Dns` | settings, zones and records, and the PowerDNS server, over `PanelWorker` |
| `Databases` | databases, users, grants, and the MySQL server, over `PanelWorker` |
| `Accounts` | accounts, packages, limits, and the Linux users, over `PanelWorker` |
| `Panel` | those four with the worker they share |
| `PanelProofs` | its inductive invariants, the theorems and their proofs |
| `PanelShownProofs` | the order of jobs, what is still awaited, and that what is shown of databases is there |
| `ZonesShownProofs` | that at most one job of a record is open while nothing fails, and that a zone publishes what is shown of it |
| `QueueFacts` | facts about queues that the proofs of `Panel` and `Hosting` share |
| `MCJobQueue`, `MCFtpAccess`, `MCBackups`, `MCHosting`, `MCPanel` | constants and symmetry for TLC |

Definitions whose comment begins "Wrong on purpose" are no part of any specification:
each is a plausible bug, and `PROJECT.json` ("mutants") says which definition it is put
in place of and which property then fails. They show that the properties notice bugs.

### JobTable and JobQueue

`rows` is the `jobs` table: status, attempts, `created_at` in milliseconds, and the
rowid, which breaks ties in the index. A request is three steps: it reads the clock
(`Stamp`), commits its row (`Enqueue`), and calls `Worker.Notify` (`Notify`, a token in
a channel of capacity one). The worker is a program counter: `starting` (`RecoverJobs`),
`drain` (about to claim), `wait` (the `select` over ticker and wake channel), `backoff`
(after an error or a retry, when only the ticker counts), then `claimed`, `handling`,
`finishing` or `failing`, `recording`. Every call on the repository may fail, at a
place of its own, with what the code does then: a failing claim makes the worker back
off, a failing `CreateStep` fails the job without running it, a failing settling write
leaves the row `running`, a failing `RecoverJobs` ends the goroutine while the process
goes on serving (`cmd/webycp-server/main.go`). `Crash` may happen at every point and
`Start` follows it. A graceful stop cancels the worker's context first, so no later
repository call succeeds: to the database it is a crash at that point.

Left out: what handlers do (they succeed or fail), the step rows' contents, job
messages, listing.

### JobLedger

Per job: not accepted, accepted, succeeded or failed; how often its handler ran and how
often to success. Its steps are accept, run, end. It ends as succeeded only after a run
to success, it never leaves an end, and runs only while accepted. `JobQueue` implements it with
`phase` read off the rows' status, and `tries` and `wins` the history variables `runs` and
`okRuns`.

### FtpHost

The node for FTP: per account the Unix user and home (`home`) and the account file
(`file`: suspended flag and entries), one compiled database (`pdb`), the sessions of
clients, each with the line it authenticated by. `op` is the operation the Agent is
executing and how far it is. Each operation is its source's sequence: *sync* writes the
file, rebuilds, disconnects the account's sessions; *disable* closes the home and then
sets the suspended flag through the same three steps, whatever came of the home;
*enable* opens the home, then clears the flag, and undoes both if that fails; *delete*
suspends, removes the file, removes the Unix user, moves the home to the trash. The
rebuild reads every account's file and refuses two logins of one name, suspended and
disabled ones included; when it fails the previous file is restored and the database
is left. `Abort` ends an operation between any two steps, or loses its answer.

### FtpAccess

The rows of accounts and logins, the requests with the guards of their services and
transactions, and a worker that is `JobQueue`'s reduced to what handlers can tell:
one at a time, two attempts, recovery after a restart. A job is inserted at any place
among those that may have read their clock at about the same time. The handlers are
*snapshot and call* (`Call`), the host's steps, and *store* (`Handle`); requests,
clients and a death of the panel interleave with each. `HandleUnsaved` is the failure
of the handler's last write.

Symmetric sets (accounts, logins, names, hashes) are reduced in the safety runs; none
of the properties of those runs distinguishes their elements.

### Backups

The rows of plans, runs and artifacts, the jobs of runs, the worker with `Create`'s
locals, the requests under way, and the Agent's directory: archives and temporary
files. `Create` is split at every database call and every Agent call: mark the run
running, read the plan, open the temporary file, install the archive, complete the
run with its artifact, list what retention removes, delete an archive, delete its row,
settle the job. Requests are split at their check and their transaction. An archive is
its checksum, and two archives never have the same one (the archive contains its creation
time), so it is known by its number in the order archives are made. That is also the order
of the artifacts' `created_at`, which `Create` sets when the Agent has answered and by which
retention chooses; runs may have been queued in another order. `GiveUp` is the client's timeout: the Agent goes on, because its context reaches
only the database dumps, and an archive may appear when its run has long failed.

### WebHost

A site is its file (`conf`), its link (`link`), and the configuration nginx loaded when
it was last reloaded (`running`); beside them the directories (`web`, `trash`) and the
certificate on disk (`pem`). `op` is the operation under way. *ensure* creates the
document root, installs file and link, tests, reloads; *tls* asks certbot for a
certificate first, for the primary name (which must resolve here) and those of the
others that do; *disable* removes the link, tests and reloads; *delete* removes link and
file and then moves the directory to the trash. A failing test or reload restores file
and link, and after a failing reload the restored files are tested and loaded once more.
Every command fails by itself (`MaxFaults`), or because the operation's context is gone:
a context that is cancelled (`Cancel`: timeout, death of the panel) kills the command
under way and lets every later one fail, the recovery's included. A reload refused by
nginx has no effect; one whose `systemctl` was killed may have had it.

### Hosting

The rows of websites, hostnames and certificates. A request is two steps: the service
reads and refuses (`Ask...`), and later the transaction applies what *it* checks
(`Commit`), which is often less: the transaction of a new hostname no longer looks at
the website's status. `Withdraw` is every refusal that depends on nothing modelled (limits, validation),
a refusing transaction, and a client that leaves. A job's `created_at` is read between
the two, so the request holds its place in the queue from when it began or takes the
last one. The handlers are *snapshot and call* (`Call`), the host's steps, *store*
(`Handle`: `Succeed` or `Fail`), with `CallNothing` for those that end without a call:
the row is gone, the rename is done or overtaken, the account is not active.
`HandleUnsaved` is the failure of the handler's last writes. `Crash` is the death of the
panel; requests under way at a death are among those withdrawn before it. Website certificates are
requested for `Secured` websites only, so that runs choose whether the two kinds of jobs
meet on one nginx file.

### PanelWorker, Tasks, Dns, Databases, Accounts and Panel

Four services follow one pattern: a request that stores rows together with a job, a
handler that reads the rows, calls the Agent once and stores what came of it.
`PanelWorker` has that pattern once. A request is `Ask` (what the service reads and
refuses by, and the clock), then `Accept` (its transaction), or `Withdraw`; other requests,
the worker and a death may come between the halves, and the job keeps the place of its
request in the order of `created_at` or takes the last one. The worker claims (`Claim`),
the handler goes from `claimed` by `read` to `calling` and returns (`Returns`), and the job
is settled (`Settle`) with two attempts. `Die` is the death of the server with the recovery
at its next start; requests under way at a death are among those withdrawn before it.
Everything that goes wrong counts against one bound, `MaxTroubles`.

Each service says what is read, called and stored, with one operator per statement of its
`queries/*.sql` and one action per request and handler. Of the Agent each has the effect of
its calls on the one thing that matters: the crontab is replaced as a whole (`Tasks`);
PowerDNS zones have an owner, and only the owner's zone is created, changed or dropped
(`Dns`); MySQL statements are idempotent, except that a privilege needs its user, and `DROP
DATABASE` leaves privileges behind (`Databases`); an operation on a Linux user may be left
half done (`Accounts`). A failing call may have been applied or not, whatever the panel was
told.

`Panel` composes them. The four services touch none of each other's rows (accounts are
seen by the others as `usable`; a resource of an account is seen by `Accounts` as a number),
so their jobs influence each other only by waiting. `Init` therefore chooses the service
whose requests there are (`scope`), and one run covers all four.

## 3. What the runs check

All runs use breadth-first TLC on the instance named in the cfg.

| Run | Instance | Shows |
|---|---|---|
| `queue` | an ordinary and a backup job (2 attempts and 1), clocks that may coincide, 2 deaths, 2 failing calls | types, `QueuedIsClaimable`, `RunningIsAccounted`, `AuditAgrees`, `NoLostWakeup`; `InOrder`: a job is claimed only when everything accepted before its request began is final; the queue implements the ledger; `SettlesUnlessLost`: every accepted job ends, or its outcome could not be written, or the worker returned |
| `ftp_safety` | 2 accounts, 2 logins, 2 names, 4 requests, 1 host fault, 1 death or failing write | `RevokedLeavesNoTrace`, `GrantsAsShown`, `AccountServesAsShown`, `OneLoginPerName`, `SnapshotIsCurrent`: what the panel shows of logins and accounts is what the node grants |
| `ftp_live` | 1 account, 1 login, 2 names, 2 passwords, 3 requests, 2 host faults, 1 mishap | `PendingResolves`, also when both attempts of a job fail |
| `ftp_names` | 2 accounts, 2 logins, no faults | **violated**: a renamed login gives up its old name too early (finding 1) |
| `backups` | 1 plan, 2 runs, 2 requests at a time, retention of one, 1 death, 1 Agent fault, 1 failing write | `SucceededIsUsable`, `NoStuckRun`, `JobIsTruthful`, `KeepsAUsableArchive`, `OneActiveRun`, `WithinRetention`, `RunsEnd` |
| `backups_redone` | 1 run, 1 death | **violated**: a finished archive is written again (finding 2) |
| `hosting` | 1 website with a primary hostname and an alias, one of which resolves, and a certificate; 3 requests; up to 2 of: a failing command, a timeout, a death of the Agent, a death of the panel or a failing write, a suspension | `ActiveIsServed`, `DeletedIsQuarantined`, `OutcomeIsServed`, `CertificateIsTruthful`, `PendingResolves` |
| `hosting_names` | 2 websites, 3 domains, 3 hostnames, 5 requests, 2 at a time, no failure | `NamesAreExclusive`, `ServedIsBound` |
| `hosting_done` | 1 website, 3 requests, 1 death of the Agent | **violated**: an unfinished removal is taken for a finished one (finding 3) |
| `hosting_tls` | 1 website, 2 hostnames, 3 requests, nothing fails | **violated**: a website job undoes the certificate's configuration (finding 4) |
| `panel` | 2 tasks; 2 zones, a foreign one, 2 records over 3 values; 2 databases and a user; 1 account, 2 packages; 3 requests, 2 at a time, 1 failure of any kind | `TasksRunAsShown`, `PublishedAsShown`, `ZonesAreOwned`, `RecordSetsAgree`, `DatabasesAsShown`, `AccountsAsShown`, `LimitsHold`, `PanelResolves` |
| `dns_updates` | 1 zone, 1 record, 3 requests, 1 failure | **violated**: an accepted update is removed by an older deletion (finding 5) |

### Bounds and why they are enough

*JobQueue.* Two jobs meet every interaction of the queue (they compete for the one
worker, and one may be recovered while the other waits), a tie of their clocks included. Two deaths reach a recovery
of a recovered job, with an attempt limit of two and of one; two failing calls reach a
failing settling write after a failing retry. The invariants, the order and the refinement
are proved for all bounds.

*FtpAccess.* Two accounts and two logins are what name conflicts and "another
account's sync rebuilds my lines" need. Four requests reach: create, disable, a sync
while disabled, enable or delete. One fault meets every step of every operation; two
faults with two attempts make a job fail for good (`ftp_live`). Two attempts is the
value of the code.

*Backups.* Two runs is the smallest number with a predecessor to lose and one to prune.
The invariants and `WithinRetention` are proved for any number of runs and any retention;
their inductive invariant was also checked with three runs and a retention of two. A second
active run needs two requests at a time and no failure. Plans are independent except for
the queue's order, so one plan is enough for all properties here; the order in which
`QueueDue` visits plans is not modelled.

*Hosting.* Each run has the smallest instance with the interplay it is about, and the
failures under which its properties hold; section 5 says what happens beyond. A primary
hostname and an alias share one nginx file with a certificate, and two troubles with two
attempts make a job fail for good (`hosting`, where `MaxHarm` bounds the sum of
everything that goes wrong); a hostname changes hands between two websites while a third
domain wants it, with two requests at a time (`hosting_names`). Three requests reach:
create, add an alias or a certificate, disable, rename, enable or delete; five are needed
for a hostname to change hands twice. `TypeOK`, `DeletedIsQuarantined`, `OutcomeIsServed` and
the first half of `NamesAreExclusive` are proved for all bounds, `CertificateIsTruthful` for
all in which what a handler stores can be written, and the properties of what nginx serves for
any number of websites, hostnames and requests as long as nothing goes wrong. So
`hosting_names`, where nothing does, has a theorem for each of its properties; what `hosting`
adds to the theorem about `ActiveIsServed` are up to two troubles.

*Panel.* Each service starts with nothing or with one resource of each kind that others
need (a zone; a database with its user; an account), so three requests go on from
there: two that overlap and a third that meets what they left. One trouble makes an
attempt fail, be repeated after it was applied, or be lost. Two resources of a kind are
what limits, names and record sets are about; a zone name with a foreign zone is one the
provider refuses. `PanelResolves` needs the liveness check, which grows with the bound on
troubles; the invariants and `LimitsHold` were also checked with three troubles (9.2
million states), where an attempt fails for good and a settled job is not.

### Deadlock checking

It is off (`CHECK_DEADLOCK FALSE`) everywhere. Requests are bounded: when they
are used up and the queue is empty nothing is left to do. In `JobQueue` the worker may
also have returned (`exited`).

### Fairness

- `WF(WorkerStep)`: the goroutine is scheduled, the one-second ticker fires, and every
  call it makes returns: SQLite answers or fails, an Agent call ends after the client's
  two-minute timeout at the latest.
- `WF(Start)`, `WF(Restart)`: `Restart=` of the systemd unit.
- `WF(AgentStep)`: the Agent executes an operation to its end unless it dies.
- `Panel` and `Backups` take the same `WF(WorkerStep)`; in `Panel` the restart is part of `Die`.
- No fairness on requests, clients, deaths, faults. They are bounded, so a run in which
  they never stop is not considered: a server that dies for ever settles nothing.

Weak fairness is enough everywhere: worker steps stay enabled until the worker takes one.

## 4. What is proved

`JobQueueProofs` proves the following for every set of jobs, every attempt limit and
every number of deaths and faults, from `JobQueueAssumption` alone (limits are positive
naturals, `NoJob` is no job):

| Theorem | Statement |
|---|---|
| `Invariance` | `Spec => []IInv` |
| `TypeCorrect` | `Spec => []TypeOK` |
| `NoStrandedJob` | `Spec => []QueuedIsClaimable` |
| `OneRunningJob` | `Spec => []RunningIsAccounted` |
| `AttemptsBounded` | `Spec => []BoundedRuns` |
| `WorkRepeatedOnlyByRecovery` | `Spec => []RepeatedOnlyByRecovery` |
| `AuditIsTruthful` | `Spec => []AuditAgrees` |
| `WakeupsAreKept` | `Spec => []NoLostWakeup` |
| `JobsRunInOrder` | `Spec => InOrder` |
| `QueueImplementsLedger` | `Spec => Implements` |

None of these invariants is inductive by itself. "A queued job has attempts left"
depends on where its attempts went, and a recovery gives one back. `IInv` therefore
ties the parts together per job: the attempts of a row account for handler runs less
refunds (with a correction for the job between its claim and its handler's return);
the worker holds a job only at certain points, and then the job's row is `running`;
successful runs are bounded by the state the row is in; audit counts depend on the row
and on whether the worker is about to record; and order rests on a relation between
clocks, stamps, rowids and the sets of predecessors (a request's predecessors are all
older than its row, by stamp or by rowid). There is one lemma per action that it keeps
`IInv`, and `Invariance` combines them; order needs that only a claim makes a row
`running` (`OnlyClaimRuns`), and the refinement has a lemma per action that is a step of the
ledger and one for those that stutter.

`FtpAccessProofs` proves the following for any accounts, logins, names and password
hashes, any number of attempts, requests, faults and mishaps, from `FtpHostAssumption`
and `FtpAccessAssumption` alone:

| Theorem | Statement |
|---|---|
| `Invariance` | `Spec => []IInv` |
| `TypeCorrect` | `Spec => []TypeOK` |
| `SyncSettlesWhatItSent` | `Spec => []SnapshotIsCurrent` |
| `NamesNeverCollide` | `Spec => []OneLoginPerName` |
| `TraceInvariance` | `Spec => []TraceInv` |
| `LoginsGrantWhatIsShown` | `Spec => []GrantsAsShown` |
| `RevocationIsComplete` | `Spec => []RevokedLeavesNoTrace` |
| `AccountsServeAsShown` | `Spec => [](mishaps = 0 => AccountServesAsShown)` |

`SnapshotIsCurrent` is about rows that requests may change while a sync runs. What keeps
them is a chain: the job the worker holds is the head of the queue, and stays there
because a new job is inserted only behind jobs that are not new (`HeadIsRunning`); a
queued job has attempts left, so a claimed one is what its handler sees
(`AttemptsLeft`); and every request on a login looks for a sync of its account in the
queue first. `IInv` is that chain with the types and what the host's operation refers to.

The first half of `RevokedLeavesNoTrace` (a login without a row has no line, no entry and
no session) says something of one moment only, while a revocation takes several steps on
the host. `TraceInv` adds the two facts that carry it over them: everything the host holds of a
login belongs to an existing row of the login's own account (`Owned`), and, by the step
the host's operation is at, what a sync that has not failed has already removed
(`SyncProgress`), so that the row `FinishFTP` deletes is one nothing refers to any more.

Its second half (an account without a row) follows from what a deletion that has not failed
has done by the step it is at (`DeleteProgress`). A deletion of an account without an account file skips the
logins, so `NoFileNoTrace` is needed: without a file there is no line and no session, also
when a failed rebuild takes a first file away again.

`GrantsAsShown` (no line and no session of an active login has an older name or password;
a disabled one has none) must survive whatever is still under way when the row is settled,
and everything that runs afterwards: syncs for other logins of the account, enables and
disables of the account, failed rebuilds that put the previous file back, calls nobody waits
for any more. `RowsFit` says it of everything the host holds, the file a failed rebuild
would bring back included. Nothing on the host comes from nowhere (`Provenance`), so only
the step that settles a row can break it, and there `SyncProgress` says that the host has
exactly what was sent, and `SnapshotIsCurrent` that what was sent is still the row.

`AccountServesAsShown` is the other direction, that what is shown as active does work, and
what the status of an account says of its home and its logins. It is proved as long as the
server has not died and every handler could store its outcome, for any failing steps on the
host, lost answers and retries. The status `pending` is then left by a handler only, so a job
of an account that no handler has ended belongs to a pending account, and of an account
that is not busy the last handler's word holds (`JobsInOrder`); an operation is always the one
the worker waits for (`OpIsAwaited`); and by the step it is at, the host is where that word
says (`HostInStep`). A deletion is accepted without logins only; a login created since is
followed by an `account.enable`, which finds the account gone and leaves `error`
(`HomelessIsError`).

`BackupsProofs` proves the following for any plans, any number of runs, requests under way,
deaths and failures, and any retention, from `BackupsAssumption` alone:

| Theorem | Statement |
|---|---|
| `BackupsInvariance` | `Spec => []IInv` |
| `BackupsTypesCorrect` | `Spec => []TypeOK` |
| `SucceededRunsAreUsable` | `Spec => []SucceededIsUsable` |
| `RunsNeverStick` | `Spec => []NoStuckRun` |
| `JobsAreTruthful` | `Spec => []JobIsTruthful` |
| `OneRunAtATime` | `Spec => []OneActiveRun` |
| `AUsableArchiveIsKept` | `Spec => []KeepsAUsableArchive` |
| `RetentionHolds` | `Spec => WithinRetention` |

`Create` is a dozen steps with requests, deaths and abandoned Agent calls in between, so
`IInv` says for each place the worker may be at what its run, its job and the archive of its
run are (`WorkerFits`, `SumsFit`), and of everything the worker no longer waits for that it
cannot touch a run that has succeeded: the Agent still writes only archives of runs that have
not (`WritesFit`). `KeepsAUsableArchive` rests on two facts about order. The newest artifact of
a plan is the usable one (`NewestIsUsable`), and what retention has listed never includes
it, although the list is used several deletions later (`ExpiredFit`). `WithinRetention` is
about the step that makes the job succeed; `KeepFits` carries the count from the listing to
there, by the cardinality of what the list leaves (`NewestAreFew`). `OneActiveRun` follows
from `ActiveOnce`: the transaction looks for an active run again, and a handler that recovery
repeats makes its run active only if no other run of the plan is.

`HostingProofs` proves the following for any websites, hostnames and certificates, any number
of attempts, requests under way, failing commands, lost answers and deaths, from
`HostingAssumption` and `WebHostAssumption` alone:

| Theorem | Statement |
|---|---|
| `HostingInvariance` | `Spec => []IInv` |
| `HostingTypesCorrect` | `Spec => []TypeOK` |
| `HostnamesAreOwnedOnce` | `Spec => []HostnamesHaveOneOwner` |
| `DeletionsQuarantine` | `Spec => []DeletedIsQuarantined` |
| `OutcomesAreServed` | `Spec => []OutcomeIsServed` |
| `CertificatesAreTruthful` | `Spec /\ [][~HandleUnsaved]_vars => []CertificateIsTruthful` |
| `ActiveIsServedWhenWell` | `Spec => [](AllWell => ActiveIsServed)` |
| `ServedNamesAreBound` | `Spec => [](AllWell => NamesBound)` |
| `ServedIsBoundWhenWell` | `Secured = {}` gives `Spec => [](AllWell => ServedIsBound)` |
| `NamesAreExclusiveWhenWell` | `Secured = {}` gives `Spec => [](AllWell => NamesAreExclusive)` |

`IInv` ties the four places that must agree: rows refer to rows that exist (`RowsFit`), a
job is about rows that were there when it was accepted (`JobsFit`), the worker holds exactly
the running job (`WorkerFits`), and the Agent's operation is the one that job asks for,
or one nobody waits for any more (`CallFits`, `OpFits`). The theorems add one invariant each:

- `HostnamesHaveOneOwner` (the first half of `NamesAreExclusive`, here without any bound on
  failures) is inductive on top of `IInv`. A name counts as owned while a rename still
  remembers it, and only a transaction that has asked `WebsiteHostnameExists` adds one.
- `RemovalFits` says by the step a deletion is at what it has already removed, so that its
  success, which is what lets the row go, means all of it; and nothing is asked of a website
  whose row is gone.
- `LoadedFits` says what nginx serves while the files are ahead of it: between a change and its
  reload it is what the operation would roll back to. A refused reload and a rollback whose
  own commands fail both keep that, as long as nothing is cancelled and nobody dies.
- `CertFits` says that the certificate an operation has installed is the one on disk, and that
  a row which disagrees with the disk has a job about to replace it. The condition on
  executions is needed: of two jobs of one certificate the second may replace it and
  then fail to store anything in every attempt, and the row shows the names of the first.

The last four theorems are about what nginx serves, as long as nothing has gone wrong:
`AllWell` says that no command has failed, no operation was cancelled, neither process has
died, every handler could store its outcome, and the account was not suspended. Requests
may still overlap each other and the worker in any way, be refused, and read what is stale
when they commit, and names of a certificate may fail to resolve. The condition cannot
simply be dropped: section 5 has the executions in which one failing command breaks
`ActiveIsServed` or `ServedIsBound` and one mishap `NamesAreExclusive`, and, without anything failing,
certificates break `ServedIsBound`, which is why two of the theorems are about websites
that have none (`ServedNamesAreBound` says the same website by website, for those whose
certificates nobody requests). Their invariant is `Well`:

- `JobsInStep`: an open job keeps its hostname `pending`, and, unless it is a rename, without
  a previous name; a job that deletes keeps it disabled; and two open jobs are never about the
  same hostname. Both halves are about rows at a transaction: a request may have read
  its hostname long before, but its update has the condition `status <> 'pending'`.
- `RenamesFit`: only a hostname that is pending has a previous name, which is not its name.
- `EnsureFits`: what `Ensure` is rendered with are names of the website, all that are shown
  active among them, and of the hostname its job is about the name it has if it is enabled,
  and never the one it gives up. Transactions that commit while the Agent works only add
  names or make them pending, so that stays true until the answer (`RowsCalm`).
- `InstallFits` carries it to the file, and `NamesBound`, `ActiveServed` and `CertServed` say what
  file and nginx have between the operations of a website. When the handler of a rename
  or a removal gives a name up, nginx has already forgotten it; with `HostnamesHaveOneOwner`
  that makes the names of two websites disjoint.

`LoadedFits` and `RemovalFits` are used for what happens in the middle of an operation.
`Well` was checked with TLC, with the invariants it rests on, before it was proved.

`PanelProofs` proves the following for any tasks, zones, records, values, databases,
users, accounts, packages and limits, any number of attempts, requests under way and
troubles, from the assumptions named in the modules it extends (`PanelAssumption`,
`TaskAssumption`, `DnsAssumption`, `DatabaseAssumption`, `AccountAssumption`):

| Theorem | Statement |
|---|---|
| `PanelInvariance` | `Spec => []PanelInv` |
| `PanelTypesCorrect` | `Spec => []PanelTypeOK` |
| `TasksRunCorrectly` | `Spec => []TasksRunAsShown` |
| `ZonesStayOwned` | `Spec => []ZonesAreOwned` |
| `RecordSetsStayInAgreement` | `Spec => []RecordSetsAgree` |
| `ObjectsAlwaysHaveRows` | `Spec => []ObjectsHaveRows` |
| `AccountsStayAsShown` | `Spec => []AccountsAsShown` |
| `LimitsAreHeld` | `Spec => LimitsHold` |

`WorkerInv` says of every service's worker that it holds exactly one job from its claim to
its settlement, and that the other jobs have an attempt left. It is proved once, with a
lemma per step of `PanelWorker`, for any set of requests and calls; the lemmas also say
what each step leaves of the queue, which is all the services need. On top of it each
service has an invariant of its own:

- `TasksRunAsShown` says something of a quiet queue only. `LastSyncCounts` carries it
  through a job: as long as no other `task.sync` waits, what the handler is installing is
  the crontab of the enabled tasks. A change of the rows meanwhile adds a waiting job, so
  the claim is void until that job is held itself; this is why marking every task active
  after the call does no lasting harm.
- `ZonesAreOwned` needs that the worker asks to make only a zone whose row is there, and
  to drop one only for its job's zone (`CallFits`).
- `RecordSetsAgree` needs that an update names the zone its record is in (`UpdatesFit`).
- `ObjectsHaveRows` needs that the names in a call are those of the rows its job is about
  (`DbCallFits`).
- `AccountsAsShown` needs `Busy`: for an account with a job that waits or has not stored
  its outcome the row may say anything; the step that makes it idle makes it agree.
- `LimitsHold` is about the step of a transaction, where the count and the limit are read
  again (`LimitStep`); nothing of the request's first reading is used.

`PanelInv` joins them: the service an execution is about keeps its invariant, and the
others still are as they began.

`PanelShownProofs` adds, from the same assumptions:

| Theorem | Statement |
|---|---|
| `DatabasesStayAsShown` | `Spec => []DatabasesAsShown` |

What is active is on the server, or a job that takes it away has still to be handled:
that is inductive for databases and users (`DbsShown`, `UsersShown`), and it holds again at
every step of a handler because the outcome of a handler is stored in the step that ends
it, unless a statement fails. A privilege may also go with its user, by the deletion of
the user while the grant stays active. That does no harm as long as the user is not active, and the user
is not made active again because the job that creates it comes before those that delete it,
retries and recoveries included (`OrderFits`, proved once for any two kinds of job of an
object, with a lemma per step of `PanelWorker`).

`ZonesShownProofs` adds:

| Theorem | Statement |
|---|---|
| `ZonesStayAsShown` | `Spec => []PublishedAsShown` |

The two halves of `PublishedAsShown` need different invariants, on top of what fits together
always (`DnsFits`: names, owners, the rows a job is about, creations of a zone before its
deletions):

- What is shown is published, as long as no statement has failed (`DnsShown`). A record job
  sends whole record sets that it has read some steps before, and other requests change their
  records meanwhile. `SyncFits` says what that may cost: a record that is in the sets that are
  replaced and not among the values that are sent has a job of its own still to be handled,
  and the record of the job itself has a later one if it was left out. So whatever a job
  takes off the server another will put back before the queue is quiet, faults, retries and
  deaths of the panel included.
- Nothing else is published, as long as nothing at all has gone wrong (`DnsSound`). Every value
  a zone publishes is accounted for by a record of the zone (`Covers`): an active one that has
  it, or one about to change whose sets, the one it was last synchronized under included,
  contain it. That survives a job because a record has at most one job at a time (`JobsSound`,
  from the refusal of requests about records that are not settled): the sets a job forgets
  are those its record still accounts for. After a failure a record in error takes requests while
  a job of it is open, which is why the claim is made of executions without one.

Not proved, only model-checked:

- liveness (`SettlesUnlessLost`, `RunsEnd`, both `PendingResolves`, `PanelResolves`), which
  is out of the proof system's reach;
- `AccountServesAsShown` of `FtpAccess` in executions with a death of the server or a failing
  write: both of its clauses are false with two of them (section 5), so a proof for one would
  need the bound in its invariant;
- `ActiveIsServed` of `Hosting` in executions in which something goes wrong: one failing command
  is enough to break it once two renames overlap and there are names for them (section 5).

## 5. Findings

1. `ftp_names` – `store/sqlite/ftp.go:111`. `docs/ftp.md` says names "remain unique per
   node until revocation succeeds". A PATCH overwrites the row's name in the transaction
   that queues the sync, so another login can be given the old name while it still logs
   the first one in. The database never holds two logins of one name, because the
   rebuild refuses them (`OneLoginPerName`): the second login's sync fails instead.
2. `backups_redone` – `backups/service.go:242`. `plan.md` says retried operations "are
   idempotent or detect completed work safely". `Create` does not look for an artifact
   of its run. If the server dies between `CompleteBackup` and `CompleteJob`, recovery
   runs it again: the run goes back to `running`, the Agent renames a new archive over
   the recorded one, `CompleteBackup` fails on the unique `run_id`, and the run is
   marked failed. The artifact's checksum no longer fits, and restore refuses it.

3. `hosting_done` – `agent/webserver/nginx/nginx.go:206`. The same sentence of `plan.md`.
   `remove` returns success as soon as there is no link, without a reload. When the
   attempt before it removed the link and the Agent died before the reload, the retry
   reports success, the panel shows the website as disabled, and nginx serves it until
   something else reloads it.
4. `hosting_tls` – `agent/website/manager.go:88`. `docs/operations.md:233` says panel
   operations keep "certificate state and Nginx configuration" synchronized. `Ensure`
   renders a website without its certificate and only certificate jobs render it with one,
   so each website or hostname job that follows a certificate takes TLS away, while the
   certificate stays `active` and is not due for weeks.
5. `dns_updates` – `dns/service.go:356`. `plan.md:610` says "Provider failures do not corrupt
   desired state." The first attempt of a record's deletion fails and shows `error`, an
   update of the record is accepted, and the deletion's retry removes the record with the
   accepted update; the update's job then fails on the missing row.

More results about websites, each found by widening a passing run by what is named:

- `hosting` without the excuse `cancelled = 0`: `OutcomeIsServed` fails. After a reload that
  failed because its request timed out, the restored files are tested under the same
  cancelled context (`nginx.go:166`), which fails at once; a reload that systemd still
  carries out leaves nginx serving what is in no file. `docs/operations.md:237` promises
  the restoration.
- `hosting_names` with `MaxFaults = 1`: `ServedIsBound` fails. The deletion of an alias
  that failed once shows `error` while it waits for its retry; an enable accepted in
  between makes the retry render the alias again and delete its row
  (`websites/service.go:368`), so nginx serves a hostname no row owns.
- `hosting_names` with `MaxMishaps = 1`: `NamesAreExclusive` fails. A recovered
  `website.create` sets its hostname `active` over a pending rename; a second rename
  overwrites `previous_hostname`, and the name nginx serves is free for another website.
- `hosting` with four hostnames, `MaxRequests = 4`, `MaxOpen = 2` and `MaxFaults = 1`:
  `ActiveIsServed` fails (found with the requests taken in one order: create, add an alias,
  rename it twice). The alias's creation fails once and shows `error` while it waits for its
  retry; two renames read that row. The first commits, and the creation's retry ends with
  `active` over the first rename's `pending`. So the second commits while the Agent works for
  the first, whose handler then clears `previous_hostname` (`queries/websites.sql:110` has no
  condition on the names). The handler of the second finds its own hostname, no previous one
  and `active`, takes its work for done (`websites/service.go:394`) and returns success
  without a call. All jobs have succeeded, nginx serves the first name, and the panel shows
  the second. `JobsInStep` of section 4 rules this out while nothing fails.
- A hostname's job accepted before its website is disabled and run after it renders the
  website again: its handler does not look at `websites.enabled`. `ActiveIsServed` is
  therefore stated of what is shown as active only.
- `hosting` without the excuse `suspends > 0`: `PendingResolves` fails. An enable that
  meets a suspended account ends with `ErrBusy` and stores no status
  (`websites/service.go:323`), and `pending` refuses every later action.
- A certificate's names are read when it is requested (`certificates/service.go:66`), and
  the Agent leaves out those that do not resolve to the node: an alias that becomes active
  before the job runs, or does not resolve, answers over HTTP only until the next
  certificate. `ActiveIsServed` requires only the certificate's names over HTTPS.

- `hosting` with `MaxOpen = 2` and nothing failing: `PendingResolves` fails. Two renames of a
  hostname read the same row (`websites/service.go:273`). The first is done before the
  transaction of the second, which keeps the new name as the previous one
  (`queries/websites.sql:98`) while its job carries the old one. Its handler finds that
  "website domain rename state does not match job" (`websites/service.go:397`) in
  every attempt, and the hostname stays `pending`.
- `hosting_names` with `Secured` and `Resolves` not empty, and nothing failing:
  `ServedIsBound` fails. The names of a certificate are read before its transaction; a rename
  that ran in between is undone on the node by the certificate's job, which
  configures the old name again, and no row owns it.

About the services of `Panel`, where the code decides what the properties must allow:

- A task deleted while the account is disabled queues a `task.sync` that installs an empty
  crontab and marks the remaining tasks active; enabling the account queues no sync
  (`tasks/service.go:149`). `TasksRunAsShown` allows an empty crontab once the account has
  been disabled.
- `DROP DATABASE` leaves the privileges on the database behind, so a user may keep a
  privilege in MySQL of which there is no grant; `DatabasesAsShown` states that what is
  shown exists, and for privileges no more.
- With three troubles a database's creation fails once, its deletion is accepted over
  `error`, the creation's retry shows `active`, and the deletion drops the database but
  fails to store that, in both attempts: the row stays `active`. `DatabasesAsShown` and `PublishedAsShown` excuse executions in which a
  handler's statement has failed.
- A resource whose transaction commits after its account's deletion was queued is removed
  with the account's rows by the cascade, and what it has on the host stays: the
  transaction checks the capacity again, not the account's status.

More, which contradict no statement of the repository:

- `AccountServesAsShown` holds with one mishap and each of its clauses fails with two on one
  account. The first: an enable that succeeded on the node, of which both
  attempts fail to store *any* status, over a row that shows `disabled` from the late
  retry of an earlier disable. The second: the panel dies after an enable has stored
  `active`, recovery runs it again, that fails on the node and is taken back, and its `error`
  cannot be stored in any attempt. The run's bound of one is deliberate and this is its
  meaning; with none the property is proved, any faults of the host. What a failing write cannot break is in properties of their own,
  `GrantsAsShown` and `RevokedLeavesNoTrace`, and proved without any bound.
- When retention or the audit of a finished backup fails, the job is failed and its run
  is succeeded; `JobIsTruthful` is therefore stated in one direction only.

## 6. Assumptions and what is left out

- The wall clock does not go back. A request is not held up between reading its clock
  and committing for as long as a handler takes. (Without this an enable and a
  delete accepted after an `error` could be executed in the other order.)
- An FTP operation the panel no longer waits for has ended before the next begins: the driver
  holds a mutex and the Agent's context is cancelled with the connection. This is not
  assumed of backups.
- A client's authentication and the start of its session are one step.
- Restoring the previous account file after a failed rebuild does not itself fail.
- `FtpAccess` starts from provisioned accounts with no logins; creating them is in
  `Accounts`. Its package limits only refuse requests and are left out.
- `Backups`: schedules are left open (any time may be due); restores and archive contents
  are not modelled.
- An operation on a website that the panel no longer waits for has ended before the next begins:
  its context kills the command under way and every later one fails at once.
- `nginx -t` and a reload depend on nothing but the files; a reload nginx refuses has no
  effect; writing and renaming a file does not fail half-way; a link never outlives its
  file. Whether a name passes certbot's preflight depends on `Resolves` only.
- `Hosting` keeps one certificate row per website (two first requests at the same moment
  could create two), and leaves the renewal schedule open: any active certificate may be due.
- In `Panel` an Agent call the panel has given up on has had its effect, or will have none:
  one that is carried out later, between other jobs, is not modelled there.
- `Tasks`, `Dns`, `Databases`: validation, names of crontab lines, schedules, TTL and content
  normalization and passwords are left out; a record's value is its name, its type's class,
  its TTL and an element that stands for the content. The nameserver and SOA sets of a zone
  are part of its existence.
- `Accounts` counts one kind of resource; the capacity check is the same for every kind.
- Undecided on purpose: what a handler of `JobQueue` does, when clients connect.
- Not modelled: single-row settings, authentication and sessions, nodes and capabilities are
  single transactions without a protocol around them, and a model of them would repeat the
  SQL. Restores write the content of archives and dumps, of which the models have none; the
  panel's own certificate has one row and no website to disagree with; the renewal
  schedule needs a clock. REST handlers, the web interface, migrations, packaging,
  the archive format and the support packages translate and do I/O.

## 7. Plan

Done: the queue, its ledger and their proofs; FTP access with the Agent's account and FTP
drivers, and proofs; backups, and proofs; websites, hostnames and their certificates with the
Agent's nginx driver, and proofs; scheduled tasks, DNS, databases, accounts and packages over one
worker, and proofs.

What would add most to it, in order:

1. What of `ActiveIsServed` survives a failing command: a hostname in `error` takes requests
   while a job of it waits for its retry, so `JobsInStep` is then false.
2. The certificates' schedule (one whose renewal failed drops out of the due list) and the
   panel's own certificate.
3. Restores, and the order of `QueueDue` over two plans.
4. Late effects of abandoned Agent calls in `Panel`, as `Backups` has them.
