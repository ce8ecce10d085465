----------------------------- MODULE HostingProofs ----------------------------
(***************************************************************************)
(* Proofs about websites, hostnames, certificates and the nginx they       *)
(* configure, for any of them, any number of attempts, requests under way, *)
(* failures and deaths; and, from the definition of AllWell on, about what *)
(* nginx serves while there are none of the last two.                      *)
(***************************************************************************)
EXTENDS Hosting, QueueFacts

-------------------------------------------------------------------------------
(* The inductive invariant. *)

(* The operation the Agent executes is about a website there is, and where *)
(* it is fits what it does.                                                *)
OpFits ==
  /\ op.at # "off" => op.site \in Site /\ HasSite(op.site)
  /\ op.at = "install" => Applies
  /\ op.at \in {"config", "trash"} => op.doing = "delete"
  /\ op.at = "recover" => op.failed
  /\ op.at = "off" => op = NoOp

(* A hostname belongs to a website, a website has its primary one, and a   *)
(* certificate its website.                                                *)
DomainFits(d) ==
  IF HasDomain(d) THEN dom[d].site \in Site /\ HasSite(dom[d].site) /\ dom[d].host \in Hostname
                  ELSE dom[d].kind = "alias"
RowsFit ==
  /\ \A d \in Domain : DomainFits(d)
  /\ \A s \in Site : HasSite(s) => \E d \in DomainsOf(s) : dom[d].kind = "primary"
  /\ \A s \in Site : cert[s].status # "none" => HasSite(s)

(* What a job is about. *)
CreateKinds == {"website.create", "domain.create"}
NameKinds   == CreateKinds \cup {"domain.update"}
JobFits(j) ==
  /\ IF j.kind \in DomainActions \cup NameKinds THEN j.dom \in Domain ELSE j.dom = None
  /\ j.kind \in NameKinds => j.host \in Hostname
  /\ j.kind \notin CreateKinds \/ j.state # "asked" =>
       /\ site[j.site].status # "none"
       /\ j.dom # None => /\ dom[j.dom].status # "none"
                          /\ HasDomain(j.dom) => dom[j.dom].site = j.site
  /\ j.kind \in DomainActions => dom[j.dom].kind = "alias"
JobsFit == \A i \in DOMAIN queue : JobFits(queue[i])

(* The worker holds one job, the running one, between its claim and its    *)
(* settlement, and a job that is not running has an attempt left.          *)
WorkerFits ==
  /\ \A i \in DOMAIN queue :
       IF queue[i].state = "running" THEN queue[i].tries >= 1 /\ pc # "idle"
                                     ELSE queue[i].tries < MaxAttempts
  /\ \A i, j \in DOMAIN queue :
       queue[i].state = "running" /\ queue[j].state = "running" => i = j
  /\ pc \in {"claimed", "calling", "handled"} =>
       \E i \in DOMAIN queue : queue[i].state = "running"

(* The worker waits for the operation its job asks for, and nobody for one *)
(* that has lost its context.                                              *)
Doing(kind) == CASE kind \in CertKinds -> "tls"
                 [] kind = "website.disable" -> "disable"
                 [] kind = "website.delete" -> "delete"
                 [] OTHER -> "ensure"
CallFits ==
  /\ pc = "calling" => /\ ~RowGone
                       /\ op.at # "off" /\ op.site = held.site
                       /\ op.doing = Doing(held.kind)
  /\ op.at # "off" /\ pc # "calling" => op.lost
  /\ op.lost => op.failed

IInv == TypeOK /\ OpFits /\ RowsFit /\ JobsFit /\ WorkerFits /\ CallFits

(* How far a deletion that has not failed has come; a website whose row is *)
(* gone has been through all of it.                                        *)
RemovalFits ==
  op.doing = "delete" =>
    /\ op.at = "config" => ~link[s0]
    /\ op.at \in {"test", "reload", "trash"} => ~link[s0] /\ conf[s0] = NoConf
    /\ op.at = "end" /\ ~op.failed => s0 \in trash \ web /\ ~link[s0] /\ conf[s0] = NoConf

(* While nothing has been cancelled and nobody has died, nginx serves what *)
(* the files say, or, between a change of the files and its reload, what   *)
(* they are rolled back to.                                                *)
Unhurt == cancelled = 0 /\ deaths = 0 /\ mishaps = 0
RolledBack == IF IF Applies THEN ~op.changed ELSE op.changed THEN op.prev ELSE NoConf
LoadedFits ==
  Unhurt =>
    /\ ~op.lost
    /\ \A s \in Site : \/ running[s] = Loaded[s]
                       \/ s = s0 /\ op.at \in {"config", "test", "reload"}
    /\ op.at \in {"config", "test", "reload"} => running[s0] = RolledBack

(* The certificate an operation installs is the one on disk; one shown as  *)
(* active is, unless a job is about to replace it.                         *)
Certifying(s) == \E i \in DOMAIN queue : /\ queue[i].kind \in CertKinds /\ queue[i].site = s
                                         /\ queue[i].state \in {"queued", "running"}
CertFits ==
  /\ op.doing = "tls" /\ op.at \notin {"off", "begin"} /\ ~op.failed => op.names = pem[s0]
  /\ \A s \in Site : \/ cert[s].status = "active" => cert[s].names = pem[s]
                     \/ Certifying(s) /\ ~(pc = "handled" /\ held.kind \in CertKinds
                                           /\ held.site = s)

-------------------------------------------------------------------------------
(* The queue and the worker. *)

LEMMA QueueIsJobs ==
  ASSUME TypeOK
  PROVE  /\ queue \in Seq(Job)
         /\ \A i \in DOMAIN queue : queue[i] \in Job
BY ElementOfSeq, LenProperties DEF TypeOK

Holding == pc \in {"claimed", "calling", "handled"}

LEMMA HeldIsJob ==
  ASSUME TypeOK, WorkerFits, Holding
  PROVE  /\ current \in DOMAIN queue /\ held = queue[current] /\ held \in Job
         /\ held.state = "running" /\ held.tries >= 1
         /\ \A i \in DOMAIN queue : queue[i].state = "running" => i = current
<1>1. current \in DOMAIN queue /\ queue[current].state = "running"
  BY DEF WorkerFits, Holding, current
<1> QED BY <1>1, QueueIsJobs DEF WorkerFits, held

(* Steps that neither add a running job nor take one away. *)
LEMMA WorkerKept ==
  ASSUME WorkerFits, pc' = pc,
         NEW A \in SUBSET DOMAIN queue, NEW B \in SUBSET DOMAIN queue',
         Corresponds(queue, A, queue', B),
         \A i \in DOMAIN queue \ A : queue[i].state # "running",
         \A k \in DOMAIN queue' \ B :
           queue'[k].state # "running" /\ queue'[k].tries < MaxAttempts
  PROVE  WorkerFits' /\ (Holding => held' = held)
<1>1. ASSUME NEW k \in DOMAIN queue'
      PROVE  IF queue'[k].state = "running" THEN queue'[k].tries >= 1 /\ pc' # "idle"
                                            ELSE queue'[k].tries < MaxAttempts
  <2>1. CASE k \notin B
    BY <2>1
  <2>2. CASE k \in B
    <3>1. PICK x \in A : queue'[k] = queue[x]
      BY <2>2 DEF Corresponds
    <3> QED BY <3>1 DEF WorkerFits
  <2> QED BY <2>1, <2>2
<1>2. ASSUME NEW k \in DOMAIN queue', NEW l \in DOMAIN queue',
             queue'[k].state = "running", queue'[l].state = "running", k # l
      PROVE  FALSE
  <2>1. k \in B /\ l \in B
    BY <1>2
  <2>2. PICK x, y \in A : x # y /\ queue'[k] = queue[x] /\ queue'[l] = queue[y]
    BY <1>2, <2>1 DEF Corresponds
  <2> QED BY <1>2, <2>2 DEF WorkerFits
<1>3. ASSUME Holding
      PROVE  \E k \in DOMAIN queue' : queue'[k].state = "running" /\ queue'[k] = held
  <2>1. current \in DOMAIN queue /\ queue[current].state = "running"
    BY <1>3 DEF WorkerFits, Holding, current
  <2>2. PICK k \in B : queue'[k] = queue[current]
    BY <2>1 DEF Corresponds
  <2> QED BY <2>1, <2>2 DEF held
<1>4. WorkerFits'
  BY <1>1, <1>2, <1>3 DEF WorkerFits, Holding
<1>5. ASSUME Holding PROVE held' = held
  <2>1. PICK k \in DOMAIN queue' : queue'[k].state = "running" /\ queue'[k] = held
    BY <1>3, <1>5
  <2>2. current' = k
    BY <1>2, <2>1 DEF current
  <2> QED BY <2>1, <2>2 DEF held
<1> QED BY <1>4, <1>5

LEMMA QueueUnchanged ==
  ASSUME WorkerFits, UNCHANGED <<queue, pc>>
  PROVE  WorkerFits' /\ held' = held
BY DEF WorkerFits, held, current

LEMMA WorkerKeptAdding ==
  ASSUME WorkerFits, pc' = pc, NEW A \in SUBSET DOMAIN queue, NEW j,
         Added(queue, A, j, queue'), j.state # "running", j.tries < MaxAttempts,
         \A i \in DOMAIN queue \ A : queue[i].state # "running"
  PROVE  WorkerFits' /\ (Holding => held' = held)
<1>1. PICK n \in DOMAIN queue' : queue'[n] = j /\ Corresponds(queue, A, queue', DOMAIN queue' \ {n})
  BY DEF Added
<1> DEFINE B == DOMAIN queue' \ {n}
<1>2. /\ B \in SUBSET DOMAIN queue' /\ Corresponds(queue, A, queue', B)
      /\ \A k \in DOMAIN queue' \ B : queue'[k].state # "running" /\ queue'[k].tries < MaxAttempts
  BY <1>1
<1> HIDE DEF B
<1> QED BY <1>2, WorkerKept

(* A request begins. *)
LEMMA AskQueue ==
  ASSUME TypeOK, WorkerFits, NEW j \in Job, j.state = "asked", j.tries = 0, Ask(j)
  PROVE  /\ queue' \in Seq(Job) /\ requests' \in 0 .. MaxRequests
         /\ WorkerFits' /\ (Holding => held' = held)
         /\ Added(queue, DOMAIN queue, j, queue')
<1>1. queue' \in Seq(Job) /\ Added(queue, DOMAIN queue, j, queue')
  BY AppendCorresponds, QueueIsJobs DEF Ask
<1>2. j.tries < MaxAttempts /\ pc' = pc
  BY HostingAssumption DEF Ask
<1>3. WorkerFits' /\ (Holding => held' = held)
  <2> DEFINE A == DOMAIN queue
  <2>1. A \in SUBSET DOMAIN queue /\ Added(queue, A, j, queue')
        /\ \A i \in DOMAIN queue \ A : queue[i].state # "running"
    BY <1>1
  <2> HIDE DEF A
  <2> QED BY <1>2, <2>1, WorkerKeptAdding
<1>4. requests' \in 0 .. MaxRequests
  BY HostingAssumption DEF Ask, TypeOK
<1> QED BY <1>1, <1>3, <1>4

(* Its transaction commits. *)
AsQueued(i) == [queue[i] EXCEPT !.state = "queued"]
LEMMA CommitQueue ==
  ASSUME TypeOK, WorkerFits, NEW i \in DOMAIN queue, Commit(i)
  PROVE  /\ queue[i] \in Job /\ queue[i].state = "asked" /\ AsQueued(i) \in Job
         /\ AsQueued(i).state = "queued" /\ Transaction(AsQueued(i))
         /\ queue' \in Seq(Job)
         /\ WorkerFits' /\ (Holding => held' = held)
         /\ Added(queue, DOMAIN queue \ {i}, AsQueued(i), queue')
<1> DEFINE j == AsQueued(i)
           A == DOMAIN queue \ {i}
<1>1. queue[i] \in Job /\ queue[i].state = "asked" /\ queue[i].tries < MaxAttempts
  BY QueueIsJobs DEF Commit, WorkerFits
<1>2. j \in Job /\ j.state = "queued" /\ j.tries = queue[i].tries
  BY <1>1 DEF Job, AsQueued
<1>3. Moved(queue, i, j, queue') /\ pc' = pc /\ Transaction(j)
  BY DEF Commit, Moved, AsQueued
<1> HIDE DEF j
<1>4. queue' \in Seq(Job) /\ Added(queue, A, j, queue')
  BY <1>2, <1>3, MovedCorresponds, QueueIsJobs
<1>5. A \in SUBSET DOMAIN queue /\ \A x \in DOMAIN queue \ A : queue[x].state # "running"
  BY <1>1
<1> HIDE DEF A
<1>6. j.state # "running" /\ j.tries < MaxAttempts
  BY <1>1, <1>2
<1>7. WorkerFits' /\ (Holding => held' = held)
  BY <1>3, <1>4, <1>5, <1>6, WorkerKeptAdding
<1> QED BY <1>1, <1>2, <1>3, <1>4, <1>7 DEF j, A

(* A request leaves. *)
LEMMA WithdrawQueue ==
  ASSUME TypeOK, WorkerFits, NEW i \in DOMAIN queue, Withdraw(i)
  PROVE  /\ queue' \in Seq(Job)
         /\ WorkerFits' /\ (Holding => held' = held)
         /\ Corresponds(queue, DOMAIN queue \ {i}, queue', DOMAIN queue')
<1> DEFINE A == DOMAIN queue \ {i}
           B == DOMAIN queue'
<1>1. queue' \in Seq(Job) /\ Corresponds(queue, A, queue', B)
  BY RemoveAtCorresponds, QueueIsJobs DEF Withdraw
<1>2. /\ A \in SUBSET DOMAIN queue /\ B \in SUBSET DOMAIN queue' /\ pc' = pc
      /\ \A x \in DOMAIN queue \ A : queue[x].state # "running"
      /\ \A k \in DOMAIN queue' \ B :
           queue'[k].state # "running" /\ queue'[k].tries < MaxAttempts
  BY DEF Withdraw
<1>3. WorkerFits' /\ (Holding => held' = held)
  <2> HIDE DEF A, B
  <2> QED BY <1>1, <1>2, WorkerKept
<1> QED BY <1>1, <1>3

(* The worker claims the first job that waits. *)
LEMMA ClaimQueue ==
  ASSUME TypeOK, WorkerFits, Claim
  PROVE  /\ queue' \in Seq(Job) /\ WorkerFits'
         /\ \E i \in DOMAIN queue :
              /\ queue[i].state = "queued"
              /\ held' = [queue[i] EXCEPT !.state = "running", !.tries = @ + 1]
              /\ held' \in Job
              /\ Added(queue, DOMAIN queue \ {i}, held', queue')
<1> DEFINE i == Min(Waiting)
           j == [queue[i] EXCEPT !.state = "running", !.tries = @ + 1]
<1>1. i \in DOMAIN queue /\ queue[i].state = "queued"
  <2>1. Waiting \in SUBSET Nat /\ Waiting # {}
    BY QueueIsJobs, LenProperties DEF Claim, Waiting
  <2>2. i \in Waiting
    BY <2>1, MinIsLeast
  <2> QED BY <2>2 DEF Waiting
<1>2. queue[i] \in Job /\ queue[i].tries < MaxAttempts
  BY <1>1, QueueIsJobs DEF WorkerFits
<1>3. j \in Job /\ j.state = "running" /\ j.tries >= 1
  <2>1. /\ queue[i].tries + 1 \in 0 .. MaxAttempts /\ queue[i].tries + 1 >= 1
        /\ j.tries = queue[i].tries + 1 /\ j.state = "running"
    BY <1>2, HostingAssumption DEF Job
  <2> QED BY <1>2, <2>1 DEF Job
<1>4. queue' = [queue EXCEPT ![i] = j] /\ pc = "idle" /\ pc' = "claimed"
  BY <1>1, <1>2 DEF Claim, Job
<1> HIDE DEF i, j
<1>5. queue' \in Seq(Job) /\ Added(queue, DOMAIN queue \ {i}, j, queue')
  BY <1>1, <1>3, <1>4, ExceptCorresponds, QueueIsJobs
<1>6. \A x \in DOMAIN queue : queue[x].state # "running"
  BY <1>4 DEF WorkerFits
<1>7. PICK n \in DOMAIN queue' :
        queue'[n] = j /\ Corresponds(queue, DOMAIN queue \ {i}, queue', DOMAIN queue' \ {n})
  BY <1>5 DEF Added
<1>8. ASSUME NEW k \in DOMAIN queue', k # n
      PROVE  queue'[k].state # "running" /\ queue'[k].tries < MaxAttempts
  <2>1. PICK x \in DOMAIN queue : queue'[k] = queue[x]
    BY <1>7, <1>8 DEF Corresponds
  <2> QED BY <1>6, <2>1 DEF WorkerFits
<1>9. WorkerFits'
  BY <1>3, <1>4, <1>7, <1>8 DEF WorkerFits
<1>10. held' = j
  <2>1. current' = n
    BY <1>3, <1>7, <1>8 DEF current
  <2> QED BY <1>7, <2>1 DEF held
<1> QED BY <1>1, <1>3, <1>5, <1>9, <1>10 DEF j

(* ... and settles it: it waits again, or leaves. *)
Requeued == [held EXCEPT !.state = "queued"]
LEMMA SettleQueue ==
  ASSUME TypeOK, WorkerFits, Settle
  PROVE  /\ queue' \in Seq(Job) /\ WorkerFits'
         /\ \/ /\ ~ok /\ Requeued \in Job
               /\ Added(queue, DOMAIN queue \ {current}, Requeued, queue')
            \/ Corresponds(queue, DOMAIN queue \ {current}, queue', DOMAIN queue')
<1> DEFINE A == DOMAIN queue \ {current}
<1>1. /\ current \in DOMAIN queue /\ held = queue[current] /\ held \in Job
      /\ \A i \in A : queue[i].state # "running"
  BY HeldIsJob DEF Settle, Holding
<1>2. pc' = "idle"
  BY DEF Settle
<1>3. CASE Again
  <2>1. queue' = [queue EXCEPT ![current] = Requeued] /\ ~ok
    BY <1>1, <1>3 DEF Settle, Again, Requeued
  <2>2. Requeued \in Job /\ Requeued.state = "queued" /\ Requeued.tries < MaxAttempts
    BY <1>1, <1>3 DEF Job, Again, Requeued
  <2>3. queue' \in Seq(Job) /\ Added(queue, A, Requeued, queue')
    BY <1>1, <2>1, <2>2, ExceptCorresponds, QueueIsJobs
  <2>4. PICK n \in DOMAIN queue' :
          queue'[n] = Requeued /\ Corresponds(queue, A, queue', DOMAIN queue' \ {n})
    BY <2>3 DEF Added
  <2>5. ASSUME NEW k \in DOMAIN queue'
        PROVE  queue'[k].state # "running" /\ queue'[k].tries < MaxAttempts
    <3>1. CASE k = n
      BY <2>2, <2>4, <3>1
    <3>2. CASE k # n
      <4>1. PICK x \in A : queue'[k] = queue[x]
        BY <2>4, <3>2 DEF Corresponds
      <4> QED BY <1>1, <4>1 DEF WorkerFits
    <3> QED BY <3>1, <3>2
  <2> QED BY <1>2, <2>1, <2>2, <2>3, <2>5 DEF WorkerFits
<1>4. CASE ~Again
  <2>1. queue' \in Seq(Job) /\ Corresponds(queue, A, queue', DOMAIN queue')
    BY <1>1, <1>4, RemoveAtCorresponds, QueueIsJobs DEF Settle
  <2>2. ASSUME NEW k \in DOMAIN queue'
        PROVE  queue'[k].state # "running" /\ queue'[k].tries < MaxAttempts
    <3>1. PICK x \in A : queue'[k] = queue[x]
      BY <2>1 DEF Corresponds
    <3> QED BY <1>1, <3>1 DEF WorkerFits
  <2> QED BY <1>2, <2>1, <2>2 DEF WorkerFits
<1> QED BY <1>3, <1>4

(* A running job is queued again when the panel starts. *)
Recovered(j) == IF j.state = "running" THEN [j EXCEPT !.state = "queued", !.tries = @ - 1] ELSE j
LEMMA RecoveredFields ==
  ASSUME NEW a \in Job
  PROVE  /\ Recovered(a).kind = a.kind /\ Recovered(a).site = a.site /\ Recovered(a).dom = a.dom
         /\ Recovered(a).host = a.host
         /\ Recovered(a).state = IF a.state = "running" THEN "queued" ELSE a.state
BY DEF Recovered, Job

LEMMA RestartQueue ==
  ASSUME TypeOK, WorkerFits, Restart
  PROVE  /\ queue' \in Seq(Job) /\ WorkerFits'
         /\ DOMAIN queue' = DOMAIN queue
         /\ \A i \in DOMAIN queue : queue'[i] = Recovered(queue[i])
<1>1. /\ DOMAIN queue' = DOMAIN queue /\ pc' = "idle"
      /\ \A i \in DOMAIN queue : queue'[i] = Recovered(queue[i])
  BY DEF Restart, Recovered
<1>2. ASSUME NEW i \in DOMAIN queue
      PROVE  /\ queue'[i] \in Job /\ queue'[i].state # "running" /\ queue'[i].tries < MaxAttempts
  <2>1. queue[i] \in Job
    BY QueueIsJobs
  <2>2. CASE queue[i].state = "running"
    <3>1. queue[i].tries \in 1 .. MaxAttempts
      BY <2>1, <2>2 DEF WorkerFits, Job
    <3>2. queue'[i] = [queue[i] EXCEPT !.state = "queued", !.tries = @ - 1]
      BY <1>1, <2>2 DEF Recovered
    <3>3. queue[i].tries - 1 \in 0 .. MaxAttempts /\ queue[i].tries - 1 < MaxAttempts
      BY <3>1, HostingAssumption
    <3> QED BY <2>1, <3>2, <3>3 DEF Job
  <2>3. CASE queue[i].state # "running"
    BY <1>1, <2>1, <2>3 DEF Recovered, WorkerFits
  <2> QED BY <2>2, <2>3
<1>3. queue' \in Seq(Job)
  <2>1. /\ queue' = [i \in 1 .. Len(queue) |-> queue'[i]] /\ Len(queue) \in Nat
        /\ \A i \in 1 .. Len(queue) : queue'[i] \in Job
    <3>1. DOMAIN queue = 1 .. Len(queue) /\ Len(queue) \in Nat
      BY QueueIsJobs, LenProperties
    <3>2. queue' = [i \in DOMAIN queue |-> queue'[i]]
      BY DEF Restart
    <3> QED BY <1>2, <3>1, <3>2
  <2> QED BY <2>1, SeqDef
<1> QED BY <1>1, <1>2, <1>3 DEF WorkerFits

-------------------------------------------------------------------------------
(* The rows. *)

RowTypes ==
  site \in [Site -> SiteRow] /\ dom \in [Domain -> DomainRow] /\ cert \in [Site -> CertRow]

(* Rows that were there once are never made again, and a row's website and *)
(* kind stay.                                                              *)
RowsMove ==
  /\ \A s \in Site : site[s].status # "none" => site'[s].status # "none"
  /\ \A d \in Domain : dom[d].status # "none" =>
       /\ dom'[d].status # "none"
       /\ HasDomain(d)' => HasDomain(d) /\ dom'[d].site = dom[d].site
       /\ dom[d].kind = "alias" => dom'[d].kind = "alias"
(* No row is deleted. *)
RowsStay ==
  /\ \A s \in Site : /\ HasSite(s) => HasSite(s)'
                     /\ site'[s].status = "deleted" => site[s].status = "deleted"
  /\ \A d \in Domain : HasDomain(d) => HasDomain(d)'

(* Changes of statuses, names and flags. *)
SitesSame == \A s \in Site : /\ HasSite(s)' <=> HasSite(s)
                             /\ site[s].status # "none" <=> site'[s].status # "none"
DomainsSame == \A d \in Domain : /\ HasDomain(d)' <=> HasDomain(d)
                                 /\ dom[d].status # "none" => dom'[d].status # "none"
                                 /\ dom'[d].kind = dom[d].kind
                                 /\ dom'[d].site = dom[d].site
                                 /\ HasDomain(d) => dom'[d].host \in Hostname
CertsFit == \A s \in Site : cert'[s].status # "none" => cert[s].status # "none" \/ HasSite(s)

LEMMA RowsKeep ==
  ASSUME RowsFit, SitesSame, DomainsSame, CertsFit
  PROVE  RowsFit' /\ RowsMove /\ RowsStay
<1>1. \A s \in Site : DomainsOf(s)' = DomainsOf(s)
  BY DEF DomainsSame, DomainsOf
<1>2. \A s \in Site : HasSite(s)' => \E d \in DomainsOf(s)' : dom'[d].kind = "primary"
  <2> TAKE s \in Site
  <2>1. DomainsOf(s) \in SUBSET Domain
    BY DEF DomainsOf
  <2> QED BY <1>1, <2>1 DEF RowsFit, SitesSame, DomainsSame
<1>3. RowsFit'
  BY <1>2 DEF RowsFit, DomainFits, SitesSame, DomainsSame, CertsFit
<1>4. \A s \in Site : site'[s].status = "deleted" => site[s].status = "deleted"
  BY DEF SitesSame, HasSite
<1> QED BY <1>3, <1>4 DEF RowsMove, RowsStay, SitesSame, DomainsSame

LEMMA SitesUnchanged == ASSUME UNCHANGED site PROVE SitesSame
BY DEF SitesSame, HasSite
LEMMA DomainsUnchanged == ASSUME RowsFit, UNCHANGED dom PROVE DomainsSame
BY DEF DomainsSame, HasDomain, RowsFit, DomainFits
LEMMA CertsUnchanged == ASSUME UNCHANGED cert PROVE CertsFit
BY DEF CertsFit

LEMMA RowsUnchanged ==
  ASSUME RowsFit, UNCHANGED rows
  PROVE  RowsFit' /\ RowsMove /\ RowsStay
BY RowsKeep, SitesUnchanged, DomainsUnchanged, CertsUnchanged DEF rows

(* What the statements do. *)
LEMMA SiteSet ==
  ASSUME RowTypes, NEW s \in Site, HasSite(s), NEW st \in {"pending", "active", "disabled", "error"},
         SetSite(s, st)
  PROVE  /\ SitesSame /\ site' \in [Site -> SiteRow]
         /\ \A t \in Site : /\ site'[t].status = IF t = s THEN st ELSE site[t].status
                            /\ site'[t].enabled = site[t].enabled
<1>1. /\ site' \in [Site -> SiteRow]
      /\ \A t \in Site : /\ site'[t].status = IF t = s THEN st ELSE site[t].status
                         /\ site'[t].enabled = site[t].enabled
  BY DEF RowTypes, SetSite, SiteRow
<1> QED BY <1>1 DEF SitesSame, HasSite

LEMMA SiteQueued ==
  ASSUME RowTypes, NEW s \in Site, NEW e \in BOOLEAN, QueueWebsiteAction(s, e)
  PROVE  /\ SitesSame /\ site' \in [Site -> SiteRow] /\ HasSite(s) /\ site[s].status # "pending"
         /\ \A t \in Site : site'[t] = IF t = s THEN [status |-> "pending", enabled |-> e] ELSE site[t]
<1>1. /\ site' \in [Site -> SiteRow] /\ HasSite(s) /\ site[s].status # "pending"
      /\ \A t \in Site : site'[t] = IF t = s THEN [status |-> "pending", enabled |-> e] ELSE site[t]
  BY DEF RowTypes, QueueWebsiteAction, SiteRow
<1> QED BY <1>1 DEF SitesSame, HasSite

(* The fields of a domain, one by one. *)
DomainIs(d, status, enabled, host, prev) ==
  /\ dom'[d].status = status /\ dom'[d].enabled = enabled /\ dom'[d].host = host
  /\ dom'[d].prev = prev /\ dom'[d].site = dom[d].site /\ dom'[d].kind = dom[d].kind
DomainChange(d, status, enabled, host, prev) ==
  /\ DomainsSame /\ dom' \in [Domain -> DomainRow]
  /\ DomainIs(d, status, enabled, host, prev)
  /\ \A e \in Domain \ {d} : dom'[e] = dom[e]
Statuses == {"pending", "active", "disabled", "error"}

LEMMA DomainChanges ==
  ASSUME RowTypes, RowsFit, NEW d \in Domain, HasDomain(d), NEW status \in Statuses,
         NEW enabled \in BOOLEAN, NEW host \in Hostname, NEW prev \in Hostname \cup {None},
         DomainIs(d, status, enabled, host, prev),
         dom' \in [Domain -> DomainRow], \A e \in Domain \ {d} : dom'[e] = dom[e]
  PROVE  DomainChange(d, status, enabled, host, prev)
<1>1. DomainsSame
  BY DEF DomainIs, DomainsSame, HasDomain, RowsFit, DomainFits, Statuses
<1> QED BY <1>1 DEF DomainChange

LEMMA DomainFields ==
  ASSUME RowTypes, RowsFit, NEW d \in Domain
  PROVE  /\ dom[d].enabled \in BOOLEAN /\ dom[d].prev \in Hostname \cup {None}
         /\ HasDomain(d) => dom[d].host \in Hostname /\ dom[d].status \in Statuses
<1>1. dom[d] \in DomainRow
  BY DEF RowTypes
<1> QED BY <1>1 DEF DomainRow, RowsFit, DomainFits, HasDomain, Statuses

LEMMA DomainSet ==
  ASSUME RowTypes, RowsFit, NEW d \in Domain, HasDomain(d), NEW st \in Statuses, SetDomain(d, st)
  PROVE  DomainChange(d, st, dom[d].enabled, dom[d].host, dom[d].prev)
<1>1. /\ dom' \in [Domain -> DomainRow] /\ \A e \in Domain \ {d} : dom'[e] = dom[e]
      /\ DomainIs(d, st, dom[d].enabled, dom[d].host, dom[d].prev)
  BY DEF SetDomain, RowTypes, DomainRow, DomainIs, Statuses
<1> QED BY <1>1, DomainFields, DomainChanges

LEMMA DomainQueued ==
  ASSUME RowTypes, RowsFit, NEW d \in Domain, NEW e \in BOOLEAN, QueueWebsiteDomainAction(d, e)
  PROVE  /\ HasDomain(d) /\ dom[d].kind = "alias" /\ dom[d].status # "pending"
         /\ DomainChange(d, "pending", e, dom[d].host, dom[d].prev)
<1>1. HasDomain(d) /\ dom[d].kind = "alias" /\ dom[d].status # "pending"
  BY DEF QueueWebsiteDomainAction
<1>2. /\ dom' \in [Domain -> DomainRow] /\ \A x \in Domain \ {d} : dom'[x] = dom[x]
      /\ DomainIs(d, "pending", e, dom[d].host, dom[d].prev)
  BY DEF QueueWebsiteDomainAction, RowTypes, DomainRow, DomainIs
<1> QED BY <1>1, <1>2, DomainFields, DomainChanges DEF Statuses

LEMMA DomainRenamed ==
  ASSUME RowTypes, RowsFit, NEW d \in Domain, NEW h \in Hostname, QueueWebsiteDomainRename(d, h)
  PROVE  /\ HasDomain(d) /\ dom[d].status # "pending"
         /\ DomainChange(d, "pending", dom[d].enabled, h, dom[d].host)
<1>1. HasDomain(d) /\ dom[d].status # "pending"
  BY DEF QueueWebsiteDomainRename
<1>2. /\ dom' \in [Domain -> DomainRow] /\ \A x \in Domain \ {d} : dom'[x] = dom[x]
      /\ DomainIs(d, "pending", dom[d].enabled, h, dom[d].host)
  <2>1. dom \in [Domain -> DomainRow] /\ dom[d] \in DomainRow
    BY DEF RowTypes
  <2>2. \A x \in Domain \ {d} : dom'[x] = dom[x]
    BY <2>1 DEF QueueWebsiteDomainRename
  <2>3. DomainIs(d, "pending", dom[d].enabled, h, dom[d].host)
    BY <2>1 DEF QueueWebsiteDomainRename, DomainRow, DomainIs
  <2>4. dom' \in [Domain -> DomainRow]
    BY <2>1, DomainFields DEF QueueWebsiteDomainRename, DomainRow, Statuses
  <2> QED BY <2>2, <2>3, <2>4
<1> QED BY <1>1, <1>2, DomainFields, DomainChanges DEF Statuses

LEMMA RenameCompleted ==
  ASSUME RowTypes, RowsFit, NEW d \in Domain, HasDomain(d), CompleteRename(d)
  PROVE  DomainChange(d, IF dom[d].enabled THEN "active" ELSE "disabled", dom[d].enabled,
                      dom[d].host, None)
<1> DEFINE st == IF dom[d].enabled THEN "active" ELSE "disabled"
<1>1. /\ dom' \in [Domain -> DomainRow] /\ \A x \in Domain \ {d} : dom'[x] = dom[x]
      /\ DomainIs(d, st, dom[d].enabled, dom[d].host, None)
  <2>1. dom \in [Domain -> DomainRow] /\ dom[d] \in DomainRow
    BY DEF RowTypes
  <2>2. \A x \in Domain \ {d} : dom'[x] = dom[x]
    BY <2>1 DEF CompleteRename
  <2>3. DomainIs(d, st, dom[d].enabled, dom[d].host, None)
    BY <2>1 DEF CompleteRename, DomainRow, DomainIs
  <2>4. dom' \in [Domain -> DomainRow]
    BY <2>1, DomainFields DEF CompleteRename, DomainRow, Statuses
  <2> QED BY <2>2, <2>3, <2>4
<1>2. st \in Statuses
  BY DEF Statuses
<1> HIDE DEF st
<1>3. DomainChange(d, st, dom[d].enabled, dom[d].host, None)
  BY <1>1, <1>2, DomainFields, DomainChanges
<1> QED BY <1>3 DEF st

LEMMA RenameFailed ==
  ASSUME RowTypes, RowsFit, NEW d \in Domain, HasDomain(d), FailRename(d)
  PROVE  DomainChange(d, "error", dom[d].enabled,
                      IF dom[d].prev = None THEN dom[d].host ELSE dom[d].prev, None)
<1> DEFINE h == IF dom[d].prev = None THEN dom[d].host ELSE dom[d].prev
<1>1. /\ dom' \in [Domain -> DomainRow] /\ \A x \in Domain \ {d} : dom'[x] = dom[x]
      /\ DomainIs(d, "error", dom[d].enabled, h, None)
  <2>1. dom \in [Domain -> DomainRow] /\ dom[d] \in DomainRow
    BY DEF RowTypes
  <2>2. \A x \in Domain \ {d} : dom'[x] = dom[x]
    BY <2>1 DEF FailRename
  <2>3. DomainIs(d, "error", dom[d].enabled, h, None)
    BY <2>1 DEF FailRename, DomainRow, DomainIs
  <2>4. dom' \in [Domain -> DomainRow]
    BY <2>1, DomainFields DEF FailRename, DomainRow, Statuses
  <2> QED BY <2>2, <2>3, <2>4
<1>2. h \in Hostname
  BY DomainFields
<1> HIDE DEF h
<1>3. DomainChange(d, "error", dom[d].enabled, h, None)
  BY <1>1, <1>2, DomainFields, DomainChanges DEF Statuses
<1> QED BY <1>3 DEF h

LEMMA DomainCreated ==
  ASSUME RowTypes, NEW d \in Domain, NEW s \in Site, NEW kind \in {"primary", "alias"},
         NEW h \in Hostname, dom[d].status = "none", CreateWebsiteDomain(d, s, kind, h)
  PROVE  /\ dom' \in [Domain -> DomainRow] /\ \A e \in Domain \ {d} : dom'[e] = dom[e]
         /\ dom'[d] = [status |-> "pending", enabled |-> TRUE, site |-> s, kind |-> kind,
                       host |-> h, prev |-> None]
<1>1. /\ dom' = [dom EXCEPT ![d] = [NoDomain EXCEPT !.status = "pending", !.enabled = TRUE,
                                                    !.site = s, !.kind = kind, !.host = h]]
      /\ NoDomain \in DomainRow
  BY DEF CreateWebsiteDomain, NoDomain, DomainRow
<1> QED BY <1>1 DEF RowTypes, NoDomain, DomainRow

LEMMA CertChanged ==
  ASSUME RowTypes, NEW s \in Site, NEW name \in Hostname \cup {None}, NEW names \in SUBSET Hostname,
         CreateCertificate(s, name, names) \/ UpdateCertificate(s, name, names)
  PROVE  /\ CertsFit /\ cert' \in [Site -> CertRow]
         /\ \A t \in Site : cert'[t] = IF t = s THEN [status |-> "pending", name |-> name, names |-> names]
                                               ELSE cert[t]
<1>1. /\ cert' = [cert EXCEPT ![s] = [status |-> "pending", name |-> name, names |-> names]]
      /\ HasSite(s) \/ cert[s].status # "none"
  BY DEF CreateCertificate, UpdateCertificate
<1>2. /\ cert' \in [Site -> CertRow]
      /\ \A t \in Site : cert'[t] = IF t = s THEN [status |-> "pending", name |-> name, names |-> names]
                                            ELSE cert[t]
  BY <1>1 DEF RowTypes, CertRow
<1> QED BY <1>1, <1>2 DEF CertsFit

LEMMA ResultSet ==
  ASSUME RowTypes, NEW s \in Site, HasSite(s), NEW st \in {"active", "error"},
         NEW names \in SUBSET Hostname, SetResult(s, st, names)
  PROVE  /\ CertsFit /\ cert' \in [Site -> CertRow]
         /\ cert'[s].status = st /\ cert'[s].names = names
         /\ \A t \in Site \ {s} : cert'[t] = cert[t]
<1>1. /\ cert' \in [Site -> CertRow]
      /\ cert'[s].status = st /\ cert'[s].names = names
      /\ \A t \in Site \ {s} : cert'[t] = cert[t]
  BY DEF RowTypes, CertRow, SetResult
<1> QED BY <1>1 DEF CertsFit

LEMMA SiteDropped ==
  ASSUME RowTypes, RowsFit, NEW s \in Site, HasSite(s), DropSite(s)
  PROVE  /\ RowTypes' /\ RowsFit' /\ RowsMove
         /\ site'[s].status = "deleted" /\ \A t \in Site \ {s} : site'[t] = site[t]
         /\ \A d \in Domain : IF d \in DomainsOf(s)
                              THEN dom'[d] = [NoDomain EXCEPT !.status = "deleted"]
                              ELSE dom'[d] = dom[d]
         /\ cert'[s] = NoCert /\ \A t \in Site \ {s} : cert'[t] = cert[t]
<1> DEFINE Gone == [NoDomain EXCEPT !.status = "deleted"]
<1>1. /\ Gone \in DomainRow /\ Gone.status = "deleted" /\ Gone.kind = "alias"
      /\ NoCert \in CertRow /\ NoCert.status = "none"
  BY DEF NoDomain, DomainRow, NoCert, CertRow
<1>2. /\ site' \in [Site -> SiteRow] /\ site'[s].status = "deleted"
      /\ \A t \in Site \ {s} : site'[t] = site[t]
  BY DEF DropSite, SetSite, RowTypes, SiteRow
<1>3. /\ dom' \in [Domain -> DomainRow]
      /\ \A d \in Domain : IF d \in DomainsOf(s) THEN dom'[d] = Gone ELSE dom'[d] = dom[d]
  BY <1>1 DEF DropSite, RowTypes
<1>4. /\ cert' \in [Site -> CertRow] /\ cert'[s] = NoCert
      /\ \A t \in Site \ {s} : cert'[t] = cert[t]
  BY <1>1 DEF DropSite, RowTypes
<1> HIDE DEF Gone
<1>5. \A t \in Site : HasSite(t)' <=> HasSite(t) /\ t # s
  BY <1>2 DEF HasSite
<1>6. \A d \in Domain : HasDomain(d)' <=> HasDomain(d) /\ dom[d].site # s
  BY <1>1, <1>3 DEF HasDomain, DomainsOf
<1>7. \A d \in Domain : HasDomain(d)' => dom'[d] = dom[d]
  BY <1>3, <1>6 DEF DomainsOf
<1>8. \A t \in Site : HasSite(t)' => \E d \in DomainsOf(t)' : dom'[d].kind = "primary"
  <2> TAKE t \in Site
  <2> HAVE HasSite(t)'
  <2>1. PICK d \in Domain : HasDomain(d) /\ dom[d].site = t /\ dom[d].kind = "primary"
    BY <1>5 DEF RowsFit, DomainsOf
  <2>2. HasDomain(d)' /\ dom'[d] = dom[d]
    BY <1>5, <1>6, <1>7, <2>1
  <2> QED BY <2>1, <2>2 DEF DomainsOf
<1>9. ASSUME NEW d \in Domain PROVE DomainFits(d)'
  <2>1. CASE HasDomain(d)'
    <3>1. HasDomain(d) /\ dom'[d] = dom[d] /\ dom[d].site # s /\ DomainFits(d)
      BY <1>6, <1>7, <2>1 DEF RowsFit
    <3> QED BY <1>5, <2>1, <3>1 DEF DomainFits
  <2>2. CASE ~HasDomain(d)'
    <3>1. CASE d \in DomainsOf(s)
      BY <1>1, <1>3, <2>2, <3>1 DEF DomainFits
    <3>2. CASE d \notin DomainsOf(s)
      BY <1>3, <1>6, <2>2, <3>2 DEF RowsFit, DomainFits, DomainsOf
    <3> QED BY <3>1, <3>2
  <2> QED BY <2>1, <2>2
<1>10. \A t \in Site : cert'[t].status # "none" => HasSite(t)'
  BY <1>1, <1>4, <1>5 DEF RowsFit
<1>11. RowsFit'
  BY <1>8, <1>9, <1>10 DEF RowsFit
<1>12. RowsMove
  BY <1>1, <1>2, <1>3, <1>6, <1>7 DEF RowsMove
<1> QED BY <1>2, <1>3, <1>4, <1>11, <1>12 DEF RowTypes, Gone

LEMMA DomainDropped ==
  ASSUME RowTypes, RowsFit, NEW d \in Domain, HasDomain(d), dom[d].kind = "alias", DropDomain(d)
  PROVE  /\ dom' \in [Domain -> DomainRow]
         /\ ~HasDomain(d)' /\ dom'[d].status = "deleted" /\ \A e \in Domain \ {d} : dom'[e] = dom[e]
         /\ UNCHANGED <<site, cert>> => RowsFit' /\ RowsMove
<1> DEFINE Gone == [NoDomain EXCEPT !.status = "deleted"]
<1>1. Gone \in DomainRow /\ Gone.status = "deleted" /\ Gone.kind = "alias"
  BY DEF NoDomain, DomainRow
<1>2. /\ dom' \in [Domain -> DomainRow] /\ dom'[d] = Gone
      /\ \A e \in Domain \ {d} : dom'[e] = dom[e]
  BY <1>1 DEF DropDomain, RowTypes
<1> HIDE DEF Gone
<1>3. \A e \in Domain : HasDomain(e)' <=> HasDomain(e) /\ e # d
  BY <1>1, <1>2 DEF HasDomain
<1>4. ASSUME UNCHANGED <<site, cert>> PROVE RowsFit' /\ RowsMove
  <2>1. \A t \in Site : HasSite(t)' <=> HasSite(t)
    BY <1>4 DEF HasSite
  <2>2. \A t \in Site : HasSite(t)' => \E e \in DomainsOf(t)' : dom'[e].kind = "primary"
    <3> TAKE t \in Site
    <3> HAVE HasSite(t)'
    <3>1. PICK e \in Domain : HasDomain(e) /\ dom[e].site = t /\ dom[e].kind = "primary"
      BY <2>1 DEF RowsFit, DomainsOf
    <3>2. e # d
      BY <3>1
    <3> QED BY <1>2, <1>3, <3>1, <3>2 DEF DomainsOf
  <2>3. ASSUME NEW e \in Domain PROVE DomainFits(e)'
    <3>1. CASE e = d
      BY <1>1, <1>2, <1>3, <3>1 DEF DomainFits
    <3>2. CASE e # d
      BY <1>2, <1>3, <2>1, <3>2 DEF RowsFit, DomainFits
    <3> QED BY <3>1, <3>2
  <2>4. \A t \in Site : cert'[t].status # "none" => HasSite(t)'
    BY <1>4, <2>1 DEF RowsFit
  <2>5. RowsFit'
    BY <2>2, <2>3, <2>4 DEF RowsFit
  <2>6. RowsMove
    BY <1>1, <1>2, <1>3, <1>4 DEF RowsMove
  <2> QED BY <2>5, <2>6
<1> QED BY <1>1, <1>2, <1>3, <1>4

(* A job keeps being about what it is about. *)
LEMMA JobKeeps ==
  ASSUME RowTypes, RowsMove, NEW j \in Job, JobFits(j)
  PROVE  JobFits(j)'
<1>1. j.site \in Site
  BY DEF Job
<1>2. j.dom = None \/ j.dom \in Domain
  BY DEF Job
<1>3. ASSUME j.kind \notin CreateKinds \/ j.state # "asked"
      PROVE  /\ site'[j.site].status # "none"
             /\ j.dom # None => /\ dom'[j.dom].status # "none"
                                /\ HasDomain(j.dom)' => dom'[j.dom].site = j.site
  BY <1>1, <1>2, <1>3 DEF JobFits, RowsMove
<1>4. j.kind \in DomainActions => dom'[j.dom].kind = "alias"
  <2> HAVE j.kind \in DomainActions
  <2>1. j.dom \in Domain /\ j.dom # None /\ j.kind \notin CreateKinds
    BY HostingAssumption DEF JobFits, DomainActions, CreateKinds
  <2> QED BY <2>1 DEF JobFits, RowsMove
<1> QED BY <1>3, <1>4 DEF JobFits

(* The transactions. *)
LEMMA CommitWebsiteRows ==
  ASSUME RowTypes, RowsFit, NEW j \in Job, j.state = "queued", j.dom \in Domain, j.host \in Hostname,
         CommitWebsite(j)
  PROVE  RowTypes' /\ RowsFit' /\ RowsMove /\ RowsStay /\ JobFits(j)'
<1> DEFINE s == j.site
           d == j.dom
<1>1. s \in Site /\ site[s].status = "none" /\ dom[d].status = "none" /\ j.kind = "website.create"
  BY DEF CommitWebsite, Job
<1>2. /\ site' \in [Site -> SiteRow] /\ site'[s].status = "pending"
      /\ \A t \in Site \ {s} : site'[t] = site[t]
  BY <1>1 DEF CommitWebsite, CreateWebsite, RowTypes, SiteRow
<1>3. /\ dom' \in [Domain -> DomainRow] /\ \A e \in Domain \ {d} : dom'[e] = dom[e]
      /\ dom'[d].status = "pending" /\ dom'[d].site = s /\ dom'[d].kind = "primary"
      /\ dom'[d].host = j.host
  <2>1. CreateWebsiteDomain(d, s, "primary", j.host) /\ d \in Domain
    BY DEF CommitWebsite
  <2> HIDE DEF s, d
  <2>2. /\ dom' \in [Domain -> DomainRow] /\ \A e \in Domain \ {d} : dom'[e] = dom[e]
        /\ dom'[d] = [status |-> "pending", enabled |-> TRUE, site |-> s, kind |-> "primary",
                      host |-> j.host, prev |-> None]
    BY <1>1, <2>1, DomainCreated
  <2> QED BY <2>2
<1>4. UNCHANGED cert
  BY DEF CommitWebsite
<1> HIDE DEF s, d
<1>5. \A t \in Site : HasSite(t)' <=> HasSite(t) \/ t = s
  BY <1>2 DEF HasSite
<1>6. \A e \in Domain : HasDomain(e)' <=> HasDomain(e) \/ e = d
  BY <1>3 DEF HasDomain
<1>7. d \in Domain /\ ~HasSite(s) /\ ~HasDomain(d)
  BY <1>1 DEF HasSite, HasDomain, d
<1>8. ASSUME NEW e \in Domain PROVE DomainFits(e)'
  <2>1. CASE e = d
    BY <1>1, <1>3, <1>5, <1>6, <2>1 DEF DomainFits
  <2>2. CASE e # d
    BY <1>3, <1>5, <1>6, <2>2 DEF DomainFits, RowsFit
  <2> QED BY <2>1, <2>2
<1>9. \A t \in Site : HasSite(t)' => \E e \in DomainsOf(t)' : dom'[e].kind = "primary"
  <2> TAKE t \in Site
  <2> HAVE HasSite(t)'
  <2>1. CASE t = s
    BY <1>3, <1>6, <1>7, <2>1 DEF DomainsOf
  <2>2. CASE t # s
    <3>1. PICK e \in Domain : HasDomain(e) /\ dom[e].site = t /\ dom[e].kind = "primary"
      BY <1>5, <2>2 DEF RowsFit, DomainsOf
    <3> QED BY <1>3, <1>6, <1>7, <3>1 DEF DomainsOf
  <2> QED BY <2>1, <2>2
<1>10. RowsFit'
  BY <1>4, <1>5, <1>8, <1>9 DEF RowsFit
<1>11. RowsMove
  BY <1>1, <1>2, <1>3, <1>6, <1>7 DEF RowsMove
<1>12. RowsStay
  BY <1>2, <1>5, <1>6 DEF RowsStay
<1>13. JobFits(j)'
  BY <1>1, <1>2, <1>3 DEF JobFits, NameKinds, CreateKinds, DomainActions, s, d
<1> QED BY <1>2, <1>3, <1>4, <1>10, <1>11, <1>12, <1>13 DEF RowTypes

LEMMA CommitDomainRows ==
  ASSUME RowTypes, RowsFit, NEW j \in Job, j.state = "queued", j.dom \in Domain, j.host \in Hostname,
         CommitDomain(j)
  PROVE  RowTypes' /\ RowsFit' /\ RowsMove /\ RowsStay /\ JobFits(j)'
<1> DEFINE s == j.site
           d == j.dom
<1>1. s \in Site /\ HasSite(s) /\ dom[d].status = "none" /\ j.kind = "domain.create"
  BY DEF CommitDomain, Job
<1>2. UNCHANGED <<site, cert>>
  BY DEF CommitDomain
<1>3. /\ dom' \in [Domain -> DomainRow] /\ \A e \in Domain \ {d} : dom'[e] = dom[e]
      /\ dom'[d].status = "pending" /\ dom'[d].site = s /\ dom'[d].kind = "alias"
      /\ dom'[d].host = j.host
  <2>1. CreateWebsiteDomain(d, s, "alias", j.host) /\ d \in Domain
    BY DEF CommitDomain
  <2> HIDE DEF s, d
  <2>2. /\ dom' \in [Domain -> DomainRow] /\ \A e \in Domain \ {d} : dom'[e] = dom[e]
        /\ dom'[d] = [status |-> "pending", enabled |-> TRUE, site |-> s, kind |-> "alias",
                      host |-> j.host, prev |-> None]
    BY <1>1, <2>1, DomainCreated
  <2> QED BY <2>2
<1> HIDE DEF s, d
<1>5. \A t \in Site : HasSite(t)' <=> HasSite(t)
  BY <1>2 DEF HasSite
<1>6. \A e \in Domain : HasDomain(e)' <=> HasDomain(e) \/ e = d
  BY <1>3 DEF HasDomain
<1>7. d \in Domain /\ ~HasDomain(d)
  BY <1>1 DEF HasDomain, d
<1>8. ASSUME NEW e \in Domain PROVE DomainFits(e)'
  <2>1. CASE e = d
    BY <1>1, <1>3, <1>5, <1>6, <2>1 DEF DomainFits
  <2>2. CASE e # d
    BY <1>3, <1>5, <1>6, <2>2 DEF DomainFits, RowsFit
  <2> QED BY <2>1, <2>2
<1>9. \A t \in Site : HasSite(t)' => \E e \in DomainsOf(t)' : dom'[e].kind = "primary"
  <2> TAKE t \in Site
  <2> HAVE HasSite(t)'
  <2>1. PICK e \in Domain : HasDomain(e) /\ dom[e].site = t /\ dom[e].kind = "primary"
    BY <1>5 DEF RowsFit, DomainsOf
  <2> QED BY <1>3, <1>6, <1>7, <2>1 DEF DomainsOf
<1>10. RowsFit'
  BY <1>2, <1>5, <1>8, <1>9 DEF RowsFit
<1>11. RowsMove
  BY <1>1, <1>2, <1>3, <1>6, <1>7 DEF RowsMove
<1>12. RowsStay
  BY <1>2, <1>5, <1>6 DEF RowsStay
<1>13. JobFits(j)'
  BY <1>1, <1>2, <1>3 DEF JobFits, NameKinds, CreateKinds, DomainActions, HasSite, s, d
<1> QED BY <1>2, <1>3, <1>10, <1>11, <1>12, <1>13 DEF RowTypes

LEMMA TransactionRows ==
  ASSUME RowTypes, RowsFit, NEW a \in Job, a.state = "asked", JobFits(a),
         NEW j \in Job, j = [a EXCEPT !.state = "queued"], Transaction(j)
  PROVE  RowTypes' /\ RowsFit' /\ RowsMove /\ RowsStay /\ JobFits(j)'
<1>1. /\ j.kind = a.kind /\ j.site = a.site /\ j.dom = a.dom /\ j.host = a.host
      /\ j.state = "queued" /\ j.site \in Site /\ j.names \in SUBSET Hostname
      /\ j.host \in Hostname \cup {None}
  BY DEF Job
<1>2. ASSUME j.kind \in NameKinds PROVE j.dom \in Domain /\ j.host \in Hostname
  BY <1>1, <1>2 DEF JobFits
<1>3. ASSUME j.kind \notin CreateKinds PROVE JobFits(j)
  BY <1>1, <1>3 DEF JobFits
<1>4. CASE CommitWebsite(j)
  BY <1>1, <1>2, <1>4, CommitWebsiteRows DEF CommitWebsite, NameKinds, CreateKinds
<1>5. CASE CommitDomain(j)
  BY <1>1, <1>2, <1>5, CommitDomainRows DEF CommitDomain, NameKinds, CreateKinds
<1>6. ASSUME j.kind \notin CreateKinds, SitesSame, DomainsSame, CertsFit, RowTypes'
      PROVE  RowTypes' /\ RowsFit' /\ RowsMove /\ RowsStay /\ JobFits(j)'
  <2>1. RowsFit' /\ RowsMove /\ RowsStay
    BY <1>6, RowsKeep
  <2> QED BY <1>3, <1>6, <2>1, JobKeeps
<1>7. CASE CommitAction(j)
  <2>1. j.kind \notin CreateKinds /\ UNCHANGED <<dom, cert>>
        /\ QueueWebsiteAction(j.site, j.kind = "website.enable")
    BY <1>7 DEF CommitAction, SiteActions, CreateKinds
  <2>2. SitesSame /\ site' \in [Site -> SiteRow]
    BY <1>1, <2>1, SiteQueued
  <2>3. DomainsSame /\ CertsFit /\ RowTypes'
    BY <2>1, <2>2, DomainsUnchanged, CertsUnchanged DEF RowTypes
  <2> QED BY <1>6, <2>1, <2>2, <2>3
<1>8. CASE CommitDomainAction(j)
  <2>1. j.kind \notin CreateKinds /\ j.dom \in Domain /\ UNCHANGED <<site, cert>>
        /\ QueueWebsiteDomainAction(j.dom, j.kind = "domain.enable")
    BY <1>1, <1>8 DEF CommitDomainAction, DomainActions, CreateKinds, JobFits
  <2>2. DomainsSame /\ dom' \in [Domain -> DomainRow]
    BY <2>1, DomainQueued DEF DomainChange
  <2>3. SitesSame /\ CertsFit /\ RowTypes'
    BY <2>1, <2>2, SitesUnchanged, CertsUnchanged DEF RowTypes
  <2> QED BY <1>6, <2>1, <2>2, <2>3
<1>9. CASE CommitRename(j)
  <2>1. j.kind \notin CreateKinds /\ UNCHANGED <<site, cert>>
        /\ j.dom \in Domain /\ j.host \in Hostname /\ QueueWebsiteDomainRename(j.dom, j.host)
    BY <1>2, <1>9 DEF CommitRename, CreateKinds, NameKinds
  <2>2. DomainsSame /\ dom' \in [Domain -> DomainRow]
    BY <2>1, DomainRenamed DEF DomainChange
  <2>3. SitesSame /\ CertsFit /\ RowTypes'
    BY <2>1, <2>2, SitesUnchanged, CertsUnchanged DEF RowTypes
  <2> QED BY <1>6, <2>1, <2>2, <2>3
<1>10. CASE CommitCertificate(j)
  <2>1. /\ j.kind \notin CreateKinds /\ UNCHANGED <<site, dom>>
        /\ \/ CreateCertificate(j.site, j.host, j.names)
           \/ UpdateCertificate(j.site, j.host, j.names)
    BY <1>10 DEF CommitCertificate, CertKinds, CreateKinds
  <2>2. CertsFit /\ cert' \in [Site -> CertRow]
    BY <1>1, <2>1, CertChanged
  <2>3. SitesSame /\ DomainsSame /\ RowTypes'
    BY <2>1, <2>2, SitesUnchanged, DomainsUnchanged DEF RowTypes
  <2> QED BY <1>6, <2>1, <2>2, <2>3
<1> QED BY <1>4, <1>5, <1>7, <1>8, <1>9, <1>10 DEF Transaction

(* The job the worker holds, and its rows while they are there. *)
LEMMA HeldRows ==
  ASSUME TypeOK, RowsFit, JobsFit, WorkerFits, Holding, ~RowGone
  PROVE  /\ held \in Job /\ JobFits(held) /\ held.site \in Site /\ HasSite(held.site)
         /\ held.kind \in DomainActions \cup NameKinds =>
              /\ held.dom \in Domain /\ HasDomain(held.dom)
              /\ dom[held.dom].site = held.site
         /\ held.kind \notin DomainActions \cup NameKinds => held.dom = None
         /\ held.kind \in DomainActions => dom[held.dom].kind = "alias"
<1>1. held \in Job /\ JobFits(held) /\ held.state = "running"
  BY HeldIsJob DEF JobsFit
<1>2. held.site \in Site /\ HasSite(held.site)
  BY <1>1 DEF Job, RowGone
<1>3. ASSUME held.kind \in DomainActions \cup NameKinds
      PROVE  held.dom \in Domain /\ HasDomain(held.dom) /\ dom[held.dom].site = held.site
  <2>1. held.dom \in Domain /\ held.dom # None
    BY <1>1, <1>3, HostingAssumption DEF JobFits
  <2> QED BY <1>1, <2>1 DEF JobFits, RowGone
<1> QED BY <1>1, <1>2, <1>3 DEF JobFits

(* What a handler stores. *)
RowsStored == RowTypes' /\ RowsFit' /\ RowsMove

LEMMA FailRows ==
  ASSUME TypeOK, RowsFit, JobsFit, WorkerFits, Holding, ~RowGone, NEW called \in BOOLEAN, Fail(called)
  PROVE  RowsStored /\ RowsStay
<1> DEFINE j == held
<1>1. /\ RowTypes /\ j.site \in Site /\ HasSite(j.site) /\ j.kind \in Kinds
      /\ j.kind \in DomainActions \cup NameKinds => j.dom \in Domain /\ HasDomain(j.dom)
  BY HeldRows DEF TypeOK, RowTypes, Job
<1> HIDE DEF j
<1>2. ASSUME SitesSame, DomainsSame, CertsFit, RowTypes'
      PROVE  RowsStored /\ RowsStay
  BY <1>2, RowsKeep DEF RowsStored
<1>3. CASE /\ j.kind = "website.create"
           /\ SetSite(j.site, "error") /\ SetDomain(j.dom, "error") /\ UNCHANGED cert
  <2>1. SitesSame /\ site' \in [Site -> SiteRow]
    BY <1>1, <1>3, SiteSet
  <2>2. DomainsSame /\ dom' \in [Domain -> DomainRow]
    BY <1>1, <1>3, DomainSet DEF DomainChange, NameKinds, CreateKinds, Statuses
  <2> QED BY <1>1, <1>2, <1>3, <2>1, <2>2, CertsUnchanged DEF RowTypes
<1>4. CASE /\ j.kind \in SiteActions
           /\ IF called THEN SetSite(j.site, "error") ELSE UNCHANGED site
           /\ UNCHANGED <<dom, cert>>
  <2>1. SitesSame /\ site' \in [Site -> SiteRow]
    BY <1>1, <1>4, SiteSet, SitesUnchanged DEF RowTypes
  <2> QED BY <1>1, <1>2, <1>4, <2>1, DomainsUnchanged, CertsUnchanged DEF RowTypes
<1>5. CASE /\ j.kind \in DomainActions \cup {"domain.create"}
           /\ SetDomain(j.dom, "error") /\ UNCHANGED <<site, cert>>
  <2>1. DomainsSame /\ dom' \in [Domain -> DomainRow]
    BY <1>1, <1>5, DomainSet DEF DomainChange, NameKinds, CreateKinds, Statuses
  <2> QED BY <1>1, <1>2, <1>5, <2>1, SitesUnchanged, CertsUnchanged DEF RowTypes
<1>6. CASE /\ j.kind = "domain.update"
           /\ IF LastAttempt THEN FailRename(j.dom) ELSE UNCHANGED dom
           /\ UNCHANGED <<site, cert>>
  <2>1. DomainsSame /\ dom' \in [Domain -> DomainRow]
    BY <1>1, <1>6, RenameFailed, DomainsUnchanged DEF DomainChange, NameKinds, RowTypes
  <2> QED BY <1>1, <1>2, <1>6, <2>1, SitesUnchanged, CertsUnchanged DEF RowTypes
<1>7. CASE /\ j.kind \in CertKinds
           /\ SetResult(j.site, "error", cert[j.site].names)
           /\ UNCHANGED <<site, dom>>
  <2>1. cert[j.site].names \in SUBSET Hostname
    BY <1>1 DEF RowTypes, CertRow
  <2>2. CertsFit /\ cert' \in [Site -> CertRow]
    BY <1>1, <1>7, <2>1, ResultSet
  <2> QED BY <1>1, <1>2, <1>7, <2>2, SitesUnchanged, DomainsUnchanged DEF RowTypes
<1> QED BY <1>3, <1>4, <1>5, <1>6, <1>7 DEF Fail, j

LEMMA SucceedRows ==
  ASSUME TypeOK, RowsFit, JobsFit, WorkerFits, Holding, ~RowGone, Succeed
  PROVE  RowsStored
<1> DEFINE j == held
<1>1. /\ RowTypes /\ j.site \in Site /\ HasSite(j.site) /\ j.kind \in Kinds
      /\ j.kind \in DomainActions \cup NameKinds => j.dom \in Domain /\ HasDomain(j.dom)
      /\ j.kind \in DomainActions => dom[j.dom].kind = "alias"
  BY HeldRows DEF TypeOK, RowTypes, Job
<1>2. ASSUME SitesSame, DomainsSame, CertsFit, RowTypes'
      PROVE  RowsStored
  BY <1>2, RowsKeep DEF RowsStored
<1> HIDE DEF j
<1>3. CASE /\ j.kind = "website.create"
           /\ SetSite(j.site, "active") /\ SetDomain(j.dom, "active") /\ UNCHANGED cert
  <2>1. SitesSame /\ site' \in [Site -> SiteRow]
    BY <1>1, <1>3, SiteSet
  <2>2. DomainsSame /\ dom' \in [Domain -> DomainRow]
    BY <1>1, <1>3, DomainSet DEF DomainChange, NameKinds, CreateKinds, Statuses
  <2> QED BY <1>1, <1>2, <1>3, <2>1, <2>2, CertsUnchanged DEF RowTypes
<1>4. CASE j.kind = "website.delete" /\ DropSite(j.site)
  BY <1>1, <1>4, SiteDropped DEF RowsStored
<1>5. CASE /\ j.kind \in {"website.enable", "website.disable"}
           /\ SetSite(j.site, IF j.kind = "website.enable" THEN "active" ELSE "disabled")
           /\ UNCHANGED <<dom, cert>>
  <2>1. SitesSame /\ site' \in [Site -> SiteRow]
    BY <1>1, <1>5, SiteSet
  <2> QED BY <1>1, <1>2, <1>5, <2>1, DomainsUnchanged, CertsUnchanged DEF RowTypes
<1>6. CASE j.kind = "domain.delete" /\ DropDomain(j.dom) /\ UNCHANGED <<site, cert>>
  BY <1>1, <1>6, DomainDropped DEF RowsStored, RowTypes, DomainActions
<1>7. CASE /\ j.kind \in {"domain.create", "domain.enable", "domain.disable"}
           /\ SetDomain(j.dom, IF j.kind = "domain.disable" THEN "disabled" ELSE "active")
           /\ UNCHANGED <<site, cert>>
  <2>1. DomainsSame /\ dom' \in [Domain -> DomainRow]
    BY <1>1, <1>7, DomainSet DEF DomainChange, NameKinds, CreateKinds, Statuses, DomainActions
  <2> QED BY <1>1, <1>2, <1>7, <2>1, SitesUnchanged, CertsUnchanged DEF RowTypes
<1>8. CASE j.kind = "domain.update" /\ CompleteRename(j.dom) /\ UNCHANGED <<site, cert>>
  <2>1. DomainsSame /\ dom' \in [Domain -> DomainRow]
    BY <1>1, <1>8, RenameCompleted DEF DomainChange, NameKinds
  <2> QED BY <1>1, <1>2, <1>8, <2>1, SitesUnchanged, CertsUnchanged DEF RowTypes
<1>9. CASE /\ j.kind \in CertKinds
           /\ SetResult(j.site, "active", Issued)
           /\ UNCHANGED <<site, dom>>
  <2>1. Issued \in SUBSET Hostname
    BY DEF Issued, TypeOK, HostTypeOK, Op
  <2>2. CertsFit /\ cert' \in [Site -> CertRow]
    BY <1>1, <1>9, <2>1, ResultSet
  <2> QED BY <1>1, <1>2, <1>9, <2>2, SitesUnchanged, DomainsUnchanged DEF RowTypes
<1> QED BY <1>3, <1>4, <1>5, <1>6, <1>7, <1>8, <1>9 DEF Succeed, j

LEMMA UnsavedRows ==
  ASSUME TypeOK, RowsFit, JobsFit, WorkerFits, pc = "calling", ~RowGone, HandleUnsaved
  PROVE  RowsStored /\ RowsStay
<1> DEFINE s == held.site
           d == held.dom
<1>1. Holding /\ RowTypes
  BY DEF Holding, TypeOK, RowTypes
<1>2. /\ s \in Site /\ HasSite(s)
      /\ held.kind = "website.create" => d \in Domain /\ HasDomain(d)
  BY <1>1, HeldRows DEF NameKinds, CreateKinds
<1>3. /\ UNCHANGED cert
      /\ \/ UNCHANGED <<site, dom>>
         \/ UNCHANGED dom /\ SetSite(s, IF op.failed THEN "error" ELSE "active")
         \/ UNCHANGED site /\ held.kind = "website.create" /\ SetDomain(d, "error")
  BY DEF HandleUnsaved
<1> HIDE DEF s, d
<1>4. SitesSame /\ site' \in [Site -> SiteRow]
  BY <1>1, <1>2, <1>3, SiteSet, SitesUnchanged DEF RowTypes
<1>5. DomainsSame /\ dom' \in [Domain -> DomainRow]
  BY <1>1, <1>2, <1>3, DomainSet, DomainsUnchanged DEF RowTypes, DomainChange, Statuses
<1>6. RowTypes' /\ CertsFit
  BY <1>1, <1>3, <1>4, <1>5, CertsUnchanged DEF RowTypes
<1> QED BY <1>4, <1>5, <1>6, RowsKeep DEF RowsStored

-------------------------------------------------------------------------------
(* Requests. *)

LEMMA TypesSplit ==
  ASSUME HostTypeOK', RowTypes', usable' \in BOOLEAN, queue' \in Seq(Job),
         pc' \in {"idle", "claimed", "calling", "handled", "down"}, ok' \in BOOLEAN,
         requests' \in 0 .. MaxRequests, mishaps' \in 0 .. MaxMishaps,
         suspends' \in 0 .. MaxSuspends
  PROVE  TypeOK'
BY DEF TypeOK, RowTypes

LEMMA HostUnchanged ==
  ASSUME HostTypeOK, UNCHANGED hostVars
  PROVE  HostTypeOK' /\ UNCHANGED op
BY DEF HostTypeOK, hostVars, files, harm

(* Jobs stay what they are when rows move, and when one is added. *)
LEMMA JobsKeep ==
  ASSUME TypeOK, JobsFit, RowsMove, NEW A \in SUBSET DOMAIN queue,
         NEW k \in DOMAIN queue', \E x \in A : queue'[k] = queue[x]
  PROVE  JobFits(queue[k])'
<1>1. PICK x \in A : queue'[k] = queue[x]
  OBVIOUS
<1>2. queue[x] \in Job /\ JobFits(queue[x])
  BY QueueIsJobs DEF JobsFit
<1>3. \A a \in Job : JobFits(a) => JobFits(a)'
  BY JobKeeps DEF TypeOK, RowTypes
<1>4. PICK a \in Job : a = queue[x]
  BY <1>2
<1>5. JobFits(a)'
  BY <1>2, <1>3, <1>4
<1> QED BY <1>1, <1>4, <1>5 DEF JobFits

LEMMA JobsLeft ==
  ASSUME TypeOK, JobsFit, RowsMove, NEW A \in SUBSET DOMAIN queue,
         Corresponds(queue, A, queue', DOMAIN queue')
  PROVE  JobsFit'
BY JobsKeep DEF JobsFit, Corresponds

LEMMA JobsAdded ==
  ASSUME TypeOK, JobsFit, RowsMove, NEW A \in SUBSET DOMAIN queue, NEW j, JobFits(j)',
         Added(queue, A, j, queue')
  PROVE  JobsFit'
<1>1. PICK n \in DOMAIN queue' :
        queue'[n] = j /\ Corresponds(queue, A, queue', DOMAIN queue' \ {n})
  BY DEF Added
<1>2. ASSUME NEW k \in DOMAIN queue' PROVE JobFits(queue[k])'
  <2>1. CASE k = n
    BY <1>1, <2>1 DEF JobFits
  <2>2. CASE k # n
    BY <1>1, <2>2, JobsKeep DEF Corresponds
  <2> QED BY <2>1, <2>2
<1> QED BY <1>2 DEF JobsFit

LEMMA JobsUnchanged ==
  ASSUME TypeOK, JobsFit, RowsMove, UNCHANGED queue
  PROVE  JobsFit'
BY JobsKeep DEF JobsFit

(* Steps that leave the operation and the worker alone. *)
LEMMA CallKept ==
  ASSUME IInv, UNCHANGED <<op, pc>>, Holding => held' = held, RowsStay
  PROVE  OpFits' /\ CallFits'
<1>1. OpFits'
  BY DEF IInv, OpFits, RowsStay, Applies
<1>2. ASSUME pc = "calling"
      PROVE  /\ ~RowGone' /\ op.at # "off" /\ op.site = held'.site
             /\ op.doing = Doing(held'.kind)
  <2>1. held' = held /\ held \in Job /\ ~RowGone
    BY <1>2, HeldIsJob DEF Holding, IInv, CallFits
  <2>2. ~RowGone'
    BY <2>1 DEF RowGone, RowsStay, Job
  <2> QED BY <1>2, <2>1, <2>2 DEF IInv, CallFits
<1>3. CallFits'
  BY <1>2 DEF IInv, CallFits, Doing
<1> QED BY <1>1, <1>3

LEMMA AskInv ==
  ASSUME IInv, NEW j \in Job, j.state = "asked", j.tries = 0, JobFits(j), Ask(j)
  PROVE  IInv'
<1>1. /\ queue' \in Seq(Job) /\ requests' \in 0 .. MaxRequests
      /\ WorkerFits' /\ (Holding => held' = held)
      /\ Added(queue, DOMAIN queue, j, queue')
  BY AskQueue DEF IInv
<1>2. UNCHANGED <<hostVars, rows, usable, pc, ok, mishaps, suspends>>
  BY DEF Ask
<1>3. RowTypes /\ RowTypes' /\ RowsFit' /\ RowsMove /\ RowsStay
  BY <1>2, RowsUnchanged DEF IInv, TypeOK, RowTypes, rows
<1>4. JobFits(j)'
  BY <1>3, JobKeeps
<1>5. JobsFit'
  <2> DEFINE A == DOMAIN queue
  <2>1. A \in SUBSET DOMAIN queue /\ Added(queue, A, j, queue')
    BY <1>1
  <2> HIDE DEF A
  <2> QED BY <1>3, <1>4, <2>1, JobsAdded DEF IInv
<1>6. TypeOK'
  BY <1>1, <1>2, <1>3, HostUnchanged, TypesSplit DEF IInv, TypeOK
<1>7. OpFits' /\ CallFits'
  BY <1>1, <1>2, <1>3, HostUnchanged, CallKept DEF IInv, TypeOK
<1> QED BY <1>1, <1>3, <1>5, <1>6, <1>7 DEF IInv

(* The jobs that are asked for. *)
LEMMA NewJobIs ==
  ASSUME NEW kind \in Kinds, NEW s \in Site
  PROVE  /\ NewJob(kind, s) \in Job
         /\ NewJob(kind, s).kind = kind /\ NewJob(kind, s).site = s /\ NewJob(kind, s).dom = None
         /\ NewJob(kind, s).state = "asked" /\ NewJob(kind, s).tries = 0
BY HostingAssumption DEF Job, NewJob

LEMMA CertificateAsked ==
  ASSUME IInv, NEW s \in Site, HasSite(s), NEW kind \in CertKinds, NEW create \in BOOLEAN,
         AskCertificate(s, kind, create)
  PROVE  IInv'
<1> DEFINE h == dom[Primary(s)].host
           names == Active(s)
           j == [NewJob(kind, s) EXCEPT !.host = h, !.names = names, !.create = create]
<1>1. Primary(s) \in DomainsOf(s)
  BY DEF IInv, RowsFit, Primary
<1>2. h \in Hostname
  BY <1>1 DEF IInv, RowsFit, DomainFits, DomainsOf
<1>3. names \in SUBSET Hostname
  BY DEF IInv, RowsFit, DomainFits, DomainsOf, Active
<1>4. Ask(j)
  BY DEF AskCertificate
<1>5. kind \in Kinds /\ kind \notin DomainActions \cup NameKinds \cup CreateKinds
  BY DEF Kinds, CertKinds, DomainActions, NameKinds, CreateKinds
<1> HIDE DEF h, names
<1>6. /\ j \in Job /\ j.state = "asked" /\ j.tries = 0
      /\ j.kind = kind /\ j.site = s /\ j.dom = None
  <2> DEFINE n == NewJob(kind, s)
  <2>1. n \in Job /\ n.kind = kind /\ n.site = s /\ n.dom = None /\ n.state = "asked" /\ n.tries = 0
    BY <1>5, NewJobIs
  <2> QED BY <1>2, <1>3, <2>1 DEF Job
<1> HIDE DEF j
<1>7. JobFits(j)
  BY <1>5, <1>6 DEF JobFits, HasSite
<1> QED BY <1>4, <1>6, <1>7, AskInv

LEMMA CommitInv ==
  ASSUME IInv, NEW i \in DOMAIN queue, Commit(i)
  PROVE  IInv' /\ RowsMove /\ RowsStay
<1>1. /\ queue[i] \in Job /\ queue[i].state = "asked" /\ AsQueued(i) \in Job
      /\ Transaction(AsQueued(i)) /\ queue' \in Seq(Job)
      /\ WorkerFits' /\ (Holding => held' = held)
      /\ Added(queue, DOMAIN queue \ {i}, AsQueued(i), queue')
  BY CommitQueue DEF IInv
<1>2. UNCHANGED <<hostVars, usable, pc, ok, count>> /\ RowTypes /\ RowsFit /\ JobFits(queue[i])
  BY DEF Commit, IInv, TypeOK, RowTypes, JobsFit
<1>3. PICK j \in Job : j = AsQueued(i)
  BY <1>1
<1>4. PICK a \in Job : a = queue[i]
  BY <1>1
<1>5. RowTypes' /\ RowsFit' /\ RowsMove /\ RowsStay /\ JobFits(j)'
  <2>1. /\ a.state = "asked" /\ JobFits(a) /\ j = [a EXCEPT !.state = "queued"]
        /\ Transaction(j)
    BY <1>1, <1>2, <1>3, <1>4 DEF AsQueued
  <2> QED BY <1>2, <2>1, TransactionRows
<1>6. JobsFit'
  <2> DEFINE A == DOMAIN queue \ {i}
  <2>1. A \in SUBSET DOMAIN queue /\ Added(queue, A, j, queue')
    BY <1>1, <1>3
  <2> HIDE DEF A
  <2> QED BY <1>5, <2>1, JobsAdded DEF IInv
<1>7. TypeOK'
  BY <1>1, <1>2, <1>5, HostUnchanged, TypesSplit DEF IInv, TypeOK, count
<1>8. OpFits' /\ CallFits'
  BY <1>1, <1>2, <1>5, HostUnchanged, CallKept DEF IInv, TypeOK
<1> QED BY <1>1, <1>5, <1>6, <1>7, <1>8 DEF IInv

LEMMA WithdrawInv ==
  ASSUME IInv, NEW i \in DOMAIN queue, Withdraw(i)
  PROVE  IInv'
<1>1. /\ queue' \in Seq(Job)
      /\ WorkerFits' /\ (Holding => held' = held)
      /\ Corresponds(queue, DOMAIN queue \ {i}, queue', DOMAIN queue')
  BY WithdrawQueue DEF IInv
<1>2. UNCHANGED <<hostVars, rows, usable, pc, ok, count>>
  BY DEF Withdraw
<1>3. RowTypes /\ RowTypes' /\ RowsFit' /\ RowsMove /\ RowsStay
  BY <1>2, RowsUnchanged DEF IInv, TypeOK, RowTypes, rows
<1>4. JobsFit'
  <2> DEFINE A == DOMAIN queue \ {i}
  <2>1. A \in SUBSET DOMAIN queue /\ Corresponds(queue, A, queue', DOMAIN queue')
    BY <1>1
  <2> HIDE DEF A
  <2> QED BY <1>3, <2>1, JobsLeft DEF IInv
<1>5. TypeOK'
  BY <1>1, <1>2, <1>3, HostUnchanged, TypesSplit DEF IInv, TypeOK, count
<1>6. OpFits' /\ CallFits'
  BY <1>1, <1>2, <1>3, HostUnchanged, CallKept DEF IInv, TypeOK
<1> QED BY <1>1, <1>3, <1>4, <1>5, <1>6 DEF IInv

LEMMA SuspendInv ==
  ASSUME IInv, Suspend \/ Resume
  PROVE  IInv'
<1>1. UNCHANGED <<hostVars, rows, queue, pc, ok, requests, mishaps>> /\ usable' \in BOOLEAN
  BY DEF Suspend, Resume, count
<1> suspends' \in 0 .. MaxSuspends
  BY HostingAssumption DEF Suspend, Resume, count, IInv, TypeOK
<1>2. RowTypes /\ RowTypes' /\ RowsFit' /\ RowsMove /\ RowsStay
  BY <1>1, RowsUnchanged DEF IInv, TypeOK, RowTypes, rows
<1>3. JobsFit' /\ WorkerFits' /\ held' = held
  BY <1>1, <1>2, JobsUnchanged, QueueUnchanged DEF IInv
<1>4. TypeOK'
  BY <1>1, <1>2, HostUnchanged, TypesSplit DEF IInv, TypeOK
<1>5. OpFits' /\ CallFits'
  BY <1>1, <1>2, <1>3, HostUnchanged, CallKept DEF IInv, TypeOK
<1> QED BY <1>2, <1>3, <1>4, <1>5 DEF IInv

-------------------------------------------------------------------------------
(* The worker. *)

LEMMA ClaimInv ==
  ASSUME IInv, Claim
  PROVE  IInv'
<1>1. PICK i \in DOMAIN queue :
        /\ queue[i].state = "queued"
        /\ held' = [queue[i] EXCEPT !.state = "running", !.tries = @ + 1] /\ held' \in Job
        /\ Added(queue, DOMAIN queue \ {i}, held', queue')
  BY ClaimQueue DEF IInv
<1>2. queue' \in Seq(Job) /\ WorkerFits'
  BY ClaimQueue DEF IInv
<1>3. UNCHANGED <<hostVars, rows, usable, ok, count>> /\ pc = "idle" /\ pc' = "claimed"
  BY DEF Claim
<1>4. RowTypes /\ RowTypes' /\ RowsFit' /\ RowsMove /\ RowsStay
  BY <1>3, RowsUnchanged DEF IInv, TypeOK, RowTypes, rows
<1>5. PICK j \in Job : j = held'
  BY <1>1
<1>6. PICK a \in Job : a = queue[i]
  BY QueueIsJobs DEF IInv
<1>7. JobFits(j)'
  <2>1. JobFits(a)
    BY <1>6 DEF IInv, JobsFit
  <2>2. /\ j.kind = a.kind /\ j.site = a.site /\ j.dom = a.dom /\ j.host = a.host
        /\ a.state = "queued" /\ j.state = "running"
    BY <1>1, <1>5, <1>6 DEF Job
  <2>3. JobFits(j)
    BY <2>1, <2>2 DEF JobFits
  <2> QED BY <1>4, <2>3, JobKeeps
<1>8. JobsFit'
  <2> DEFINE A == DOMAIN queue \ {i}
  <2>1. A \in SUBSET DOMAIN queue /\ Added(queue, A, j, queue')
    BY <1>1, <1>5
  <2> HIDE DEF A
  <2> QED BY <1>4, <1>7, <2>1, JobsAdded DEF IInv
<1>9. TypeOK'
  BY <1>2, <1>3, <1>4, HostUnchanged, TypesSplit DEF IInv, TypeOK, count
<1>10. UNCHANGED op
  BY <1>3, HostUnchanged DEF IInv, TypeOK
<1>11. OpFits' /\ CallFits'
  BY <1>3, <1>4, <1>10 DEF IInv, OpFits, CallFits, RowsStay, Applies
<1> QED BY <1>2, <1>4, <1>8, <1>9, <1>11 DEF IInv

(* The end of the worker's part of an operation, if it had begun one. *)
LEMMA WorkerMoves ==
  ASSUME IInv, RowsStored, UNCHANGED <<queue, usable>>, HostTypeOK', ok' \in BOOLEAN,
         UNCHANGED <<requests, suspends>>, mishaps' \in 0 .. MaxMishaps,
         pc = "down" => pc' # "idle",
         pc' \in {"claimed", "calling", "handled"} => Holding,
         pc' \in {"claimed", "calling", "handled", "down"}
  PROVE  TypeOK' /\ RowsFit' /\ JobsFit' /\ WorkerFits' /\ held' = held
<1>1. RowTypes' /\ RowsFit' /\ RowsMove
  BY DEF RowsStored
<1>2. TypeOK'
  BY <1>1, TypesSplit DEF IInv, TypeOK
<1>3. JobsFit'
  BY <1>1, JobsUnchanged DEF IInv
<1>4. WorkerFits' /\ held' = held
  BY DEF IInv, WorkerFits, Holding, held, current
<1> QED BY <1>1, <1>2, <1>3, <1>4

LEMMA MembershipIsBoolean == ASSUME NEW x, NEW S PROVE (x \in S) \in BOOLEAN
  OBVIOUS

LEMMA CallNothingInv ==
  ASSUME IInv, CallNothing
  PROVE  IInv'
<1>1. /\ pc = "claimed" /\ pc' = "handled" /\ UNCHANGED <<hostVars, usable, queue, count>>
      /\ Holding
  BY DEF CallNothing, Holding
<1>2. RowsStored /\ RowsStay
  <2>1. CASE UNCHANGED rows
    BY <2>1, RowsUnchanged DEF IInv, TypeOK, RowTypes, RowsStored, rows
  <2>2. CASE ~RowGone /\ Fail(FALSE)
    BY <1>1, <2>2, FailRows DEF IInv
  <2> QED BY <2>1, <2>2 DEF CallNothing
<1>3. ok' \in BOOLEAN
  <2>1. \/ ok' = (held.kind \in {"website.delete", "domain.delete"})
        \/ ok' = RenameDone
        \/ ok' = FALSE
    BY DEF CallNothing
  <2>2. RenameDone \in BOOLEAN
    BY Zenon DEF RenameDone
  <2>3. (held.kind \in {"website.delete", "domain.delete"}) \in BOOLEAN
    BY MembershipIsBoolean, Zenon
  <2> QED BY <2>1, <2>2, <2>3, Zenon
<1>4. HostTypeOK' /\ UNCHANGED op
  BY <1>1, HostUnchanged DEF IInv, TypeOK
<1>5. TypeOK' /\ RowsFit' /\ JobsFit' /\ WorkerFits' /\ held' = held
  BY <1>1, <1>2, <1>3, <1>4, WorkerMoves DEF IInv, TypeOK, count
<1>6. OpFits' /\ CallFits'
  BY <1>1, <1>2, <1>4 DEF IInv, OpFits, CallFits, RowsStay, Applies
<1> QED BY <1>5, <1>6 DEF IInv

LEMMA BeginOp ==
  ASSUME NEW doing \in Operations, NEW s \in Site, NEW name \in Hostname \cup {None},
         NEW names \in SUBSET Hostname, Begin(doing, s, name, names)
  PROVE  /\ op' \in Op /\ op'.doing = doing /\ op'.site = s /\ op'.name = name
         /\ op'.names = names /\ op'.at = "begin" /\ ~op'.failed /\ ~op'.lost
         /\ op'.prev = NoConf /\ ~op'.changed
BY DEF Begin, NoOp, Op, NoConf, Conf

LEMMA NoOpIsOp ==
  /\ NoOp \in Op /\ NoOp.at = "off" /\ NoOp.doing = "ensure" /\ ~NoOp.failed /\ ~NoOp.lost
  /\ NoOp.prev = NoConf /\ ~NoOp.changed
BY DEF NoOp, Op, Operations, NoConf, Conf

LEMMA CallInv ==
  ASSUME IInv, Call
  PROVE  /\ IInv' /\ UNCHANGED held /\ op'.at = "begin" /\ op'.site = held.site
         /\ op'.doing = Doing(held.kind) /\ ~op'.failed /\ ~op'.lost
         /\ op'.doing = "tls" => op'.names = cert[held.site].names
<1>1. /\ pc = "claimed" /\ pc' = "calling" /\ op.at = "off" /\ ~RowGone /\ Holding
      /\ UNCHANGED <<files, running, web, trash, pem, harm, rows, usable, queue, ok, count>>
  BY DEF Call, Holding
<1>2. RowsStored /\ RowsStay
  BY <1>1, RowsUnchanged DEF IInv, TypeOK, RowTypes, RowsStored, rows
<1> DEFINE s == held.site
<1>3. held \in Job /\ s \in Site /\ HasSite(s)
  BY <1>1, HeldRows DEF IInv
<1> HIDE DEF s
<1>4. /\ cert[s].name \in Hostname \cup {None} /\ cert[s].names \in SUBSET Hostname
      /\ Enabled(s) \in SUBSET Hostname
  BY <1>3 DEF IInv, TypeOK, CertRow, Enabled, DomainsOf, RowsFit, DomainFits
<1>5. PICK name \in Hostname \cup {None}, names \in SUBSET Hostname :
        /\ Begin(Doing(held.kind), s, name, names)
        /\ Doing(held.kind) = "tls" => names = cert[s].names
  <2>1. None \in Hostname \cup {None} /\ {} \in SUBSET Hostname
    OBVIOUS
  <2>2. CASE held.kind \in CertKinds
    BY <1>4, <2>2 DEF Call, Doing, s
  <2>3. CASE held.kind = "website.disable"
    BY <2>1, <2>3 DEF Call, Doing, CertKinds, s
  <2>4. CASE held.kind = "website.delete"
    BY <2>1, <2>4 DEF Call, Doing, CertKinds, s
  <2>5. CASE held.kind \notin CertKinds \cup {"website.disable", "website.delete"}
    BY <1>4, <2>1, <2>5 DEF Call, Doing, CertKinds, s
  <2> QED BY <2>2, <2>3, <2>4, <2>5
<1>6. /\ op' \in Op /\ op'.doing = Doing(held.kind) /\ op'.site = s /\ op'.at = "begin"
      /\ op'.names = names /\ ~op'.failed /\ ~op'.lost
  <2>1. Doing(held.kind) \in Operations
    BY DEF Doing, Operations
  <2> QED BY <1>3, <1>5, <2>1, BeginOp
<1>7. HostTypeOK'
  BY <1>1, <1>6 DEF IInv, TypeOK, HostTypeOK, files, harm
<1>8. TypeOK' /\ RowsFit' /\ JobsFit' /\ WorkerFits' /\ held' = held
  <2>1. /\ UNCHANGED <<queue, usable, requests, suspends>>
        /\ ok' \in BOOLEAN /\ mishaps' \in 0 .. MaxMishaps
    BY <1>1 DEF IInv, TypeOK, count
  <2> QED BY <1>1, <1>2, <1>7, <2>1, WorkerMoves
<1>9. OpFits'
  BY <1>2, <1>3, <1>6 DEF OpFits, RowsStay
<1>10. ~RowGone'
  BY <1>1, <1>2, <1>3, <1>8 DEF RowGone, RowsStay, Job
<1>11. CallFits'
  BY <1>1, <1>6, <1>8, <1>10 DEF CallFits, s
<1> QED BY <1>5, <1>6, <1>8, <1>9, <1>11 DEF IInv, s

LEMMA HandleInv ==
  ASSUME IInv, Handle \/ HandleUnsaved
  PROVE  IInv' /\ held' = held /\ RowsMove
<1>1. /\ pc = "calling" /\ pc' = "handled" /\ op' = NoOp /\ Holding /\ ~RowGone
      /\ UNCHANGED <<files, running, web, trash, pem, harm, usable, queue>>
  BY DEF Handle, HandleUnsaved, Holding, IInv, CallFits
<1>2. RowsStored
  <2>1. CASE Handle
    <3>1. CASE op.failed
      BY <1>1, <2>1, <3>1, FailRows DEF Handle, IInv
    <3>2. CASE ~op.failed
      BY <1>1, <2>1, <3>2, SucceedRows DEF Handle, IInv
    <3> QED BY <3>1, <3>2
  <2>2. CASE HandleUnsaved
    BY <1>1, <2>2, UnsavedRows DEF IInv
  <2> QED BY <2>1, <2>2
<1>3. ok' \in BOOLEAN
  <2>1. ok' = ~op.failed \/ ok' = FALSE
    BY DEF Handle, HandleUnsaved
  <2>2. (~op.failed) \in BOOLEAN
    BY Zenon
  <2> QED BY <2>1, <2>2, Zenon
<1>4. mishaps' \in 0 .. MaxMishaps /\ UNCHANGED <<requests, suspends>>
  <2>1. CASE Handle
    BY <2>1 DEF Handle, count, IInv, TypeOK
  <2>2. CASE HandleUnsaved
    BY <2>2, HostingAssumption DEF HandleUnsaved, Mishap, IInv, TypeOK
  <2> QED BY <2>1, <2>2
<1>5. HostTypeOK'
  BY <1>1, NoOpIsOp DEF IInv, TypeOK, HostTypeOK, files, harm
<1>6. TypeOK' /\ RowsFit' /\ JobsFit' /\ WorkerFits' /\ held' = held
  BY <1>1, <1>2, <1>3, <1>4, <1>5, WorkerMoves
<1>7. OpFits' /\ CallFits'
  BY <1>1, NoOpIsOp DEF OpFits, CallFits
<1> QED BY <1>2, <1>6, <1>7 DEF IInv, RowsStored

LEMMA SettleInv ==
  ASSUME IInv, Settle
  PROVE  IInv'
<1>1. /\ UNCHANGED <<hostVars, rows, usable, ok, count>> /\ pc = "handled" /\ pc' = "idle"
      /\ Holding
  BY DEF Settle, Holding
<1>2. RowTypes /\ RowTypes' /\ RowsFit' /\ RowsMove /\ RowsStay
  BY <1>1, RowsUnchanged DEF IInv, TypeOK, RowTypes, rows
<1>3. queue' \in Seq(Job) /\ WorkerFits'
  BY SettleQueue DEF IInv
<1>4. current \in DOMAIN queue /\ held \in Job /\ held = queue[current] /\ JobFits(held)
      /\ held.state = "running"
  BY <1>1, HeldIsJob DEF IInv, JobsFit
<1>5. JobsFit'
  <2> DEFINE A == DOMAIN queue \ {current}
  <2>1. A \in SUBSET DOMAIN queue
    OBVIOUS
  <2>2. CASE Requeued \in Job /\ Added(queue, A, Requeued, queue')
    <3>1. PICK j \in Job : j = Requeued
      BY <2>2
    <3>2. PICK a \in Job : a = held
      BY <1>4
    <3>3. /\ j.kind = a.kind /\ j.site = a.site /\ j.dom = a.dom /\ j.host = a.host
          /\ a.state = "running" /\ j.state = "queued"
      BY <1>4, <3>1, <3>2 DEF Job, Requeued
    <3>4. JobFits(j)
      BY <1>4, <3>2, <3>3 DEF JobFits
    <3>5. JobFits(j)'
      BY <1>2, <3>4, JobKeeps
    <3>6. Added(queue, A, j, queue')
      BY <2>2, <3>1
    <3> HIDE DEF A
    <3> QED BY <1>2, <2>1, <3>5, <3>6, JobsAdded DEF IInv
  <2>3. CASE Corresponds(queue, A, queue', DOMAIN queue')
    <3> HIDE DEF A
    <3> QED BY <1>2, <2>1, <2>3, JobsLeft DEF IInv
  <2> QED BY <2>2, <2>3, SettleQueue DEF IInv
<1>6. TypeOK' /\ UNCHANGED op
  BY <1>1, <1>2, <1>3, HostUnchanged, TypesSplit DEF IInv, TypeOK, count
<1>7. OpFits' /\ CallFits'
  BY <1>1, <1>2, <1>6 DEF IInv, OpFits, CallFits, RowsStay, Applies
<1> QED BY <1>2, <1>3, <1>5, <1>6, <1>7 DEF IInv

LEMMA OrphanedInv ==
  ASSUME IInv, Orphaned
  PROVE  IInv'
<1>1. /\ pc # "calling" /\ op' = NoOp /\ UNCHANGED <<files, running, web, trash, pem, harm>>
      /\ UNCHANGED <<rows, usable, queue, pc, ok, requests, mishaps, suspends>>
  BY DEF Orphaned, panel, count
<1>2. RowTypes /\ RowTypes' /\ RowsFit' /\ RowsMove /\ RowsStay
  BY <1>1, RowsUnchanged DEF IInv, TypeOK, RowTypes, rows
<1>3. HostTypeOK'
  BY <1>1, NoOpIsOp DEF IInv, TypeOK, HostTypeOK, files, harm
<1>4. TypeOK'
  BY <1>1, <1>2, <1>3, TypesSplit DEF IInv, TypeOK
<1>5. JobsFit' /\ WorkerFits'
  BY <1>1, <1>2, JobsUnchanged, QueueUnchanged DEF IInv
<1>6. OpFits' /\ CallFits'
  BY <1>1, NoOpIsOp DEF OpFits, CallFits
<1> QED BY <1>2, <1>4, <1>5, <1>6 DEF IInv

LEMMA LoseOp ==
  ASSUME op \in Op, Lose
  PROVE  /\ op' \in Op /\ op'.lost /\ op'.failed
         /\ op'.at = op.at /\ op'.doing = op.doing /\ op'.site = op.site /\ op'.name = op.name
         /\ op'.names = op.names /\ op'.prev = op.prev /\ op'.changed = op.changed
BY DEF Lose, Op

LEMMA CrashInv ==
  ASSUME IInv, Crash
  PROVE  IInv'
<1>1. /\ pc' = "down" /\ UNCHANGED <<files, running, web, trash, pem, harm>>
      /\ UNCHANGED <<rows, usable, queue, ok, requests, suspends>>
  BY DEF Crash
<1>2. RowsStored /\ RowsStay
  BY <1>1, RowsUnchanged DEF IInv, TypeOK, RowTypes, RowsStored, rows
<1>3. mishaps' \in 0 .. MaxMishaps
  BY HostingAssumption DEF Crash, Mishap, IInv, TypeOK
<1>4. /\ op' \in Op /\ op'.at = op.at /\ op'.doing = op.doing /\ op'.site = op.site
      /\ op.at # "off" => op'.lost /\ op'.failed
      /\ op.failed => op'.failed
      /\ op.at = "off" => op' = op
  BY LoseOp DEF Crash, IInv, TypeOK, HostTypeOK
<1>5. HostTypeOK'
  BY <1>1, <1>4 DEF IInv, TypeOK, HostTypeOK, files, harm
<1>6. TypeOK' /\ RowsFit' /\ JobsFit' /\ WorkerFits'
  <2>1. UNCHANGED <<queue, usable, requests, suspends>> /\ ok' \in BOOLEAN
    BY <1>1 DEF IInv, TypeOK
  <2> QED BY <1>1, <1>2, <1>3, <1>5, <2>1, WorkerMoves DEF Crash
<1>7. OpFits' /\ CallFits'
  BY <1>1, <1>2, <1>4, NoOpIsOp DEF IInv, OpFits, CallFits, RowsStay, Applies
<1> QED BY <1>6, <1>7 DEF IInv

LEMMA RestartInv ==
  ASSUME IInv, Restart
  PROVE  IInv'
<1>1. /\ UNCHANGED <<hostVars, rows, usable, ok, count>> /\ pc = "down" /\ pc' = "idle"
  BY DEF Restart
<1>2. RowTypes /\ RowTypes' /\ RowsFit' /\ RowsMove /\ RowsStay
  BY <1>1, RowsUnchanged DEF IInv, TypeOK, RowTypes, rows
<1>3. /\ queue' \in Seq(Job) /\ WorkerFits' /\ DOMAIN queue' = DOMAIN queue
      /\ \A i \in DOMAIN queue : queue'[i] = Recovered(queue[i])
  BY RestartQueue DEF IInv
<1>4. ASSUME NEW i \in DOMAIN queue' PROVE JobFits(queue[i])'
  <2>1. queue[i] \in Job /\ JobFits(queue[i])
    BY <1>3, QueueIsJobs DEF IInv, JobsFit
  <2>2. PICK a \in Job : a = queue[i]
    BY <2>1
  <2>3. JobFits(a)'
    BY <1>2, <2>1, <2>2, JobKeeps
  <2>4. /\ queue'[i].kind = a.kind /\ queue'[i].site = a.site /\ queue'[i].dom = a.dom
        /\ queue'[i].host = a.host /\ (queue'[i].state = "asked" <=> a.state = "asked")
    BY <1>3, <2>2, RecoveredFields
  <2> QED BY <2>3, <2>4 DEF JobFits
<1>5. TypeOK' /\ UNCHANGED op
  BY <1>1, <1>2, <1>3, HostUnchanged, TypesSplit DEF IInv, TypeOK, count
<1>6. OpFits' /\ CallFits'
  BY <1>1, <1>2, <1>5 DEF IInv, OpFits, CallFits, RowsStay, Applies
<1> QED BY <1>2, <1>3, <1>4, <1>5, <1>6 DEF IInv, JobsFit

-------------------------------------------------------------------------------
(* The Agent. *)

Places == {"off", "begin", "install", "config", "test", "reload", "recover", "trash", "end"}
(* The operation moves to p, and has failed, or not, from then on. *)
OpMoves(p, failed) ==
  /\ op' \in Op /\ op'.at = p /\ op'.failed = failed
  /\ op'.doing = op.doing /\ op'.site = op.site /\ op'.name = op.name /\ op'.names = op.names
  /\ op'.lost = op.lost /\ op'.prev = op.prev /\ op'.changed = op.changed

LEMMA GotoMoves == ASSUME op \in Op, NEW p \in Places, Goto(p) PROVE OpMoves(p, op.failed)
BY DEF Goto, Op, OpMoves, Places
LEMMA FailToMoves == ASSUME op \in Op, NEW p \in Places, FailTo(p) PROVE OpMoves(p, TRUE)
BY DEF FailTo, Op, OpMoves, Places
LEMMA RemovedMoves ==
  ASSUME op \in Op, Removed
  PROVE  OpMoves(IF op.doing = "delete" THEN "trash" ELSE "end", op.failed)
<1>1. \/ op.doing = "delete" /\ Goto("trash")
      \/ op.doing # "delete" /\ Goto("end")
  BY DEF Removed
<1> QED BY <1>1, GotoMoves DEF Places

(* What every step of the Agent, and what disturbs it, leaves of the       *)
(* operation.                                                              *)
OpContinues ==
  /\ op' \in Op /\ op'.at # "off"
  /\ op'.doing = op.doing /\ op'.site = op.site
  /\ op.lost => op'.lost
  /\ op'.lost => op'.failed
  /\ op.failed => op'.failed
  /\ op'.at = "install" => Applies
  /\ op'.at \in {"config", "trash"} => op.doing = "delete"
  /\ op'.at = "recover" => op'.failed

LEMMA FailsCounts ==
  ASSUME HostTypeOK, Fails \/ UNCHANGED faults
  PROVE  faults' \in 0 .. MaxFaults
BY WebHostAssumption DEF HostTypeOK, Fails

LEMMA NoConfIsConf == NoConf \in Conf
BY DEF NoConf, Conf

LEMMA LoadedIsConf ==
  ASSUME HostTypeOK
  PROVE  /\ Loaded \in [Site -> Conf]
         /\ \A s \in Site : Loaded[s] = IF link[s] THEN conf[s] ELSE NoConf
BY NoConfIsConf DEF HostTypeOK, Loaded

(* The host's files after a step. *)
LEMMA HostTypesSplit ==
  ASSUME conf' \in [Site -> Conf], running' \in [Site -> Conf], link' \in [Site -> BOOLEAN],
         web' \subseteq Site, trash' \subseteq Site, pem' \in [Site -> SUBSET Hostname],
         op' \in Op, faults' \in 0 .. MaxFaults, cancelled' \in 0 .. MaxLost,
         deaths' \in 0 .. MaxDeaths
  PROVE  HostTypeOK'
BY DEF HostTypeOK

LEMMA HostTypesOf ==
  ASSUME HostTypeOK
  PROVE  /\ conf \in [Site -> Conf] /\ running \in [Site -> Conf] /\ link \in [Site -> BOOLEAN]
         /\ web \subseteq Site /\ trash \subseteq Site /\ pem \in [Site -> SUBSET Hostname]
         /\ op \in Op /\ faults \in 0 .. MaxFaults /\ cancelled \in 0 .. MaxLost
         /\ deaths \in 0 .. MaxDeaths
         /\ op.names \in SUBSET Hostname /\ op.name \in Hostname \cup {None} /\ op.prev \in Conf
         /\ op.changed \in BOOLEAN /\ op.at \in Places /\ op.doing \in Operations
BY DEF HostTypeOK, Op, Places

LEMMA AgentStepFits ==
  ASSUME HostTypeOK, OpFits, op.lost => op.failed, AgentStep
  PROVE  HostTypeOK' /\ OpContinues
<1>1. /\ conf \in [Site -> Conf] /\ running \in [Site -> Conf] /\ link \in [Site -> BOOLEAN]
      /\ web \subseteq Site /\ trash \subseteq Site /\ pem \in [Site -> SUBSET Hostname]
      /\ op \in Op /\ faults \in 0 .. MaxFaults /\ cancelled \in 0 .. MaxLost
      /\ deaths \in 0 .. MaxDeaths
      /\ op.names \in SUBSET Hostname /\ op.name \in Hostname \cup {None} /\ op.prev \in Conf
      /\ op.changed \in BOOLEAN /\ op.at \in Places
  BY HostTypesOf
<1>2. op.at # "off"
  BY NoOpIsOp DEF AgentStep, EnsureRoot, Certify, CertifyFails, Install, RemoveNothing, RemoveLink,
      RemoveConfig, Test, TestFails, Reload, ReloadFails, Recover, RecoverFails, Quarantine,
      QuarantineFails
<1>3. op.site \in Site
  BY <1>2 DEF OpFits
<1>4. ASSUME NEW p \in {"begin", "test", "reload", "end"}, NEW f \in {op.failed, TRUE}, OpMoves(p, f)
      PROVE  OpContinues
  BY <1>4 DEF OpMoves, OpContinues
<1>5. ASSUME OpMoves(IF op.doing = "delete" THEN "trash" ELSE "end", op.failed)
      PROVE  OpContinues
  BY <1>5 DEF OpMoves, OpContinues
<1>6. CASE EnsureRoot
  <2>1. \/ Goto("install") /\ web' = web \cup {s0} /\ UNCHANGED faults
        \/ Fails /\ FailTo("end") /\ web' \in {web, web \cup {s0}}
    BY <1>6 DEF EnsureRoot
  <2>2. op.doing = "ensure" /\ UNCHANGED <<files, running, trash, pem, cancelled, deaths>>
    BY <1>6 DEF EnsureRoot
  <2>3. web' \subseteq Site /\ faults' \in 0 .. MaxFaults
    BY <1>1, <1>3, <2>1, FailsCounts DEF s0
  <2>4. OpMoves("install", op.failed) \/ OpMoves("end", TRUE)
    BY <1>1, <2>1, GotoMoves, FailToMoves DEF Places
  <2>5. OpContinues
    BY <1>4, <2>2, <2>4 DEF OpMoves, OpContinues, Applies
  <2> QED BY <1>1, <2>2, <2>3, <2>5, HostTypesSplit DEF OpContinues, files
<1>7. CASE Certify
  <2>1. /\ op.doing = "tls" /\ ~op.lost /\ Eligible \in SUBSET Hostname
        /\ pem' = [pem EXCEPT ![s0] = Eligible]
        /\ op' = [op EXCEPT !.at = "install", !.names = Eligible]
        /\ UNCHANGED <<files, running, web, trash, harm>>
    BY <1>1, <1>7, WebHostAssumption DEF Certify, Eligible
  <2>2. /\ op' \in Op /\ op'.at = "install" /\ op'.doing = op.doing /\ op'.site = op.site
        /\ op'.lost = op.lost /\ op'.failed = op.failed
    BY <1>1, <2>1 DEF Op
  <2>3. OpContinues
    BY <2>1, <2>2 DEF OpContinues, Applies
  <2>4. pem' \in [Site -> SUBSET Hostname]
    BY <1>1, <2>1
  <2> QED BY <1>1, <2>1, <2>2, <2>3, <2>4, HostTypesSplit DEF files, harm
<1>8. CASE CertifyFails
  <2>1. /\ FailTo("end") /\ (Fails \/ UNCHANGED faults)
        /\ UNCHANGED <<files, running, web, trash, pem, cancelled, deaths>>
    BY <1>8 DEF CertifyFails
  <2>2. OpMoves("end", TRUE)
    BY <1>1, <2>1, FailToMoves DEF Places
  <2>3. OpContinues /\ faults' \in 0 .. MaxFaults
    BY <1>4, <2>1, <2>2, FailsCounts
  <2> QED BY <1>1, <2>1, <2>2, <2>3, HostTypesSplit DEF OpMoves, files
<1>9. CASE Install
  <2>1. /\ conf' = [conf EXCEPT ![s0] = [names |-> op.names, tls |-> op.doing = "tls"]]
        /\ link' = [link EXCEPT ![s0] = TRUE]
        /\ op' = [op EXCEPT !.at = "test", !.prev = conf[s0], !.changed = ~link[s0]]
        /\ UNCHANGED <<running, web, trash, pem, harm>>
    BY <1>9 DEF Install
  <2>2. [names |-> op.names, tls |-> op.doing = "tls"] \in Conf
    BY <1>1 DEF Conf
  <2>3. conf' \in [Site -> Conf] /\ link' \in [Site -> BOOLEAN]
    BY <1>1, <2>1, <2>2
  <2>4. conf[s0] \in Conf /\ (~link[s0]) \in BOOLEAN
    BY <1>1, <1>3, Zenon DEF s0
  <2>5. /\ op' \in Op /\ op'.at = "test" /\ op'.doing = op.doing /\ op'.site = op.site
        /\ op'.lost = op.lost /\ op'.failed = op.failed
    BY <1>1, <2>1, <2>4 DEF Op
  <2>6. OpContinues
    BY <2>5 DEF OpContinues
  <2> QED BY <1>1, <2>1, <2>3, <2>5, <2>6, HostTypesSplit DEF harm
<1>10. CASE RemoveNothing
  <2>1. Removed /\ UNCHANGED <<files, running, web, trash, pem, harm>>
    BY <1>10 DEF RemoveNothing
  <2>2. OpContinues
    BY <1>1, <1>5, <2>1, RemovedMoves
  <2> QED BY <1>1, <2>1, <2>2, HostTypesSplit DEF OpContinues, files, harm
<1>11. CASE RemoveLink
  <2>1. /\ link' = [link EXCEPT ![s0] = FALSE]
        /\ op' = [op EXCEPT !.at = AfterLink, !.prev = conf[s0], !.changed = link[s0]]
        /\ UNCHANGED <<conf, running, web, trash, pem, harm>>
    BY <1>11 DEF RemoveLink
  <2>2. link' \in [Site -> BOOLEAN] /\ conf[s0] \in Conf /\ link[s0] \in BOOLEAN
        /\ AfterLink \in {"config", "test"} /\ (AfterLink = "config" => op.doing = "delete")
    BY <1>1, <1>3, <2>1, Zenon DEF s0, AfterLink
  <2>3. /\ op' \in Op /\ op'.at = AfterLink /\ op'.doing = op.doing /\ op'.site = op.site
        /\ op'.lost = op.lost /\ op'.failed = op.failed
    BY <1>1, <2>1, <2>2 DEF Op
  <2>4. OpContinues
    BY <2>2, <2>3 DEF OpContinues
  <2> QED BY <1>1, <2>1, <2>2, <2>3, <2>4, HostTypesSplit DEF harm
<1>12. CASE RemoveConfig
  <2>1. /\ conf' = [conf EXCEPT ![s0] = NoConf]
        /\ Goto("test") \/ Removed
        /\ UNCHANGED <<link, running, web, trash, pem, harm>>
    BY <1>12 DEF RemoveConfig
  <2>2. OpContinues
    BY <1>1, <1>4, <1>5, <2>1, GotoMoves, RemovedMoves DEF Places
  <2>3. conf' \in [Site -> Conf]
    BY <1>1, <2>1, NoConfIsConf
  <2> QED BY <1>1, <2>1, <2>2, <2>3, HostTypesSplit DEF OpContinues, harm
<1>13. ASSUME Rollback PROVE conf' \in [Site -> Conf] /\ link' \in [Site -> BOOLEAN]
  BY <1>1, <1>13 DEF Rollback
<1>14. CASE Test
  <2>1. Goto("reload") /\ UNCHANGED <<files, running, web, trash, pem, harm>>
    BY <1>14 DEF Test
  <2>2. OpContinues
    BY <1>1, <1>4, <2>1, GotoMoves DEF Places
  <2> QED BY <1>1, <2>1, <2>2, HostTypesSplit DEF OpContinues, files, harm
<1>15. CASE TestFails
  <2>1. /\ Fails /\ FailTo("end") /\ Rollback
        /\ UNCHANGED <<running, web, trash, pem, cancelled, deaths>>
    BY <1>15 DEF TestFails
  <2>2. OpContinues /\ faults' \in 0 .. MaxFaults
    BY <1>1, <1>4, <2>1, FailToMoves, FailsCounts DEF Places
  <2> QED BY <1>1, <1>13, <2>1, <2>2, HostTypesSplit DEF OpContinues
<1>16. CASE Reload
  <2>1. /\ running' = Loaded /\ (Goto("end") \/ Removed)
        /\ UNCHANGED <<files, web, trash, pem, harm>>
    BY <1>16 DEF Reload
  <2>2. OpContinues
    BY <1>1, <1>4, <1>5, <2>1, GotoMoves, RemovedMoves DEF Places
  <2> QED BY <1>1, <2>1, <2>2, LoadedIsConf, HostTypesSplit DEF OpContinues, files, harm
<1>17. CASE ReloadFails
  <2>1. /\ Fails /\ FailTo("recover") /\ Rollback /\ running' \in {running, Loaded}
        /\ UNCHANGED <<web, trash, pem, cancelled, deaths>>
    BY <1>17 DEF ReloadFails
  <2>2. OpMoves("recover", TRUE)
    BY <1>1, <2>1, FailToMoves DEF Places
  <2>3. OpContinues /\ faults' \in 0 .. MaxFaults
    BY <2>1, <2>2, FailsCounts DEF OpMoves, OpContinues
  <2> QED BY <1>1, <1>13, <2>1, <2>3, LoadedIsConf, HostTypesSplit DEF OpContinues
<1>18. CASE Recover
  <2>1. running' = Loaded /\ Goto("end") /\ UNCHANGED <<files, web, trash, pem, harm>>
    BY <1>18 DEF Recover
  <2>2. OpContinues
    BY <1>1, <1>4, <2>1, GotoMoves DEF Places
  <2> QED BY <1>1, <2>1, <2>2, LoadedIsConf, HostTypesSplit DEF OpContinues, files, harm
<1>19. CASE RecoverFails
  <2>1. /\ Fails /\ Goto("end") /\ running' \in {running, Loaded}
        /\ UNCHANGED <<files, web, trash, pem, cancelled, deaths>>
    BY <1>19 DEF RecoverFails
  <2>2. OpContinues /\ faults' \in 0 .. MaxFaults
    BY <1>1, <1>4, <2>1, GotoMoves, FailsCounts DEF Places
  <2> QED BY <1>1, <2>1, <2>2, LoadedIsConf, HostTypesSplit DEF OpContinues, files
<1>20. CASE Quarantine
  <2>1. /\ web' = web \ {s0} /\ trash' = trash \cup {s0} /\ Goto("end")
        /\ UNCHANGED <<files, running, pem, harm>>
    BY <1>20 DEF Quarantine
  <2>2. OpContinues
    BY <1>1, <1>4, <2>1, GotoMoves DEF Places
  <2>3. web' \subseteq Site /\ trash' \subseteq Site
    BY <1>1, <1>3, <2>1 DEF s0
  <2> QED BY <1>1, <2>1, <2>2, <2>3, HostTypesSplit DEF OpContinues, files, harm
<1>21. CASE QuarantineFails
  <2>1. /\ FailTo("end") /\ (Fails \/ UNCHANGED faults)
        /\ UNCHANGED <<files, running, web, trash, pem, cancelled, deaths>>
    BY <1>21 DEF QuarantineFails
  <2>2. OpContinues /\ faults' \in 0 .. MaxFaults
    BY <1>1, <1>4, <2>1, FailToMoves, FailsCounts DEF Places
  <2> QED BY <1>1, <2>1, <2>2, HostTypesSplit DEF OpContinues, files
<1> QED BY <1>6, <1>7, <1>8, <1>9, <1>10, <1>11, <1>12, <1>14, <1>15, <1>16, <1>17, <1>18, <1>19,
           <1>20, <1>21 DEF AgentStep

LEMMA HostNextFits ==
  ASSUME HostTypeOK, OpFits, op.lost => op.failed, HostNext
  PROVE  HostTypeOK' /\ OpContinues /\ op.at # "off"
<1>1. /\ conf \in [Site -> Conf] /\ running \in [Site -> Conf] /\ link \in [Site -> BOOLEAN]
      /\ web \subseteq Site /\ trash \subseteq Site /\ pem \in [Site -> SUBSET Hostname]
      /\ op \in Op /\ faults \in 0 .. MaxFaults /\ cancelled \in 0 .. MaxLost
      /\ deaths \in 0 .. MaxDeaths
  BY HostTypesOf
<1>2. CASE AgentStep
  <2>1. op.at # "off"
    BY <1>2, NoOpIsOp DEF AgentStep, EnsureRoot, Certify, CertifyFails, Install, RemoveNothing,
        RemoveLink, RemoveConfig, Test, TestFails, Reload, ReloadFails, Recover, RecoverFails,
        Quarantine, QuarantineFails
  <2> QED BY <1>2, <2>1, AgentStepFits
<1>3. CASE AgentDies
  <2>1. /\ op.at # "off" /\ FailTo("end") /\ deaths' \in 0 .. MaxDeaths
        /\ UNCHANGED <<files, running, web, trash, pem, faults, cancelled>>
    BY <1>1, <1>3, WebHostAssumption DEF AgentDies, Executing
  <2>2. OpContinues
    BY <1>1, <2>1, FailToMoves DEF OpMoves, OpContinues, Places
  <2> QED BY <1>1, <2>1, <2>2, HostTypesSplit DEF OpContinues, files
<1>4. CASE Cancel
  <2>1. /\ op.at # "off" /\ Lose /\ cancelled' \in 0 .. MaxLost
        /\ UNCHANGED <<files, running, web, trash, pem, faults, deaths>>
    BY <1>1, <1>4, WebHostAssumption DEF Cancel
  <2>2. OpContinues
    BY <1>1, <2>1, LoseOp DEF OpContinues, OpFits, Applies
  <2> QED BY <1>1, <2>1, <2>2, HostTypesSplit DEF OpContinues, files
<1> QED BY <1>2, <1>3, <1>4 DEF HostNext

LEMMA HostInv ==
  ASSUME IInv, HostNext, UNCHANGED panel
  PROVE  IInv' /\ held' = held
<1>1. HostTypeOK' /\ OpContinues /\ op.at # "off"
  BY HostNextFits DEF IInv, TypeOK, CallFits
<1>2. UNCHANGED <<rows, usable, queue, pc, ok, requests, mishaps, suspends>>
  BY DEF panel, count
<1>3. RowTypes /\ RowTypes' /\ RowsFit' /\ RowsMove /\ RowsStay
  BY <1>2, RowsUnchanged DEF IInv, TypeOK, RowTypes, rows
<1>4. TypeOK'
  BY <1>1, <1>2, <1>3, TypesSplit DEF IInv, TypeOK
<1>5. JobsFit' /\ WorkerFits' /\ held' = held
  BY <1>2, <1>3, JobsUnchanged, QueueUnchanged DEF IInv
<1>6. OpFits'
  BY <1>1, <1>3 DEF IInv, OpFits, OpContinues, RowsStay, Applies
<1>7. ASSUME pc = "calling" PROVE ~RowGone'
  <2>1. ~RowGone /\ held \in Job
    BY <1>7, HeldIsJob DEF IInv, CallFits, Holding
  <2> QED BY <1>3, <1>5, <2>1 DEF RowGone, RowsStay, Job
<1>8. CallFits'
  BY <1>1, <1>2, <1>5, <1>7 DEF IInv, CallFits, OpContinues
<1> QED BY <1>3, <1>4, <1>5, <1>6, <1>8 DEF IInv

-------------------------------------------------------------------------------
LEMMA InitInv == Init => IInv
<1> SUFFICES ASSUME Init PROVE IInv
  OBVIOUS
<1>1. HostTypeOK /\ op = NoOp
  BY NoOpIsOp, NoConfIsConf, WebHostAssumption DEF Init, HostInit, HostTypeOK
<1>2. RowTypes
  BY DEF Init, RowTypes, SiteRow, DomainRow, CertRow, NoDomain, NoCert
<1>3. queue \in Seq(Job) /\ DOMAIN queue = {}
  BY EmptySeq DEF Init
<1>4. TypeOK
  BY <1>1, <1>2, <1>3, HostingAssumption DEF Init, TypeOK, RowTypes
<1>5. RowsFit
  BY DEF Init, RowsFit, DomainFits, HasSite, HasDomain, NoDomain, NoCert
<1>6. OpFits /\ CallFits
  BY <1>1, NoOpIsOp DEF OpFits, CallFits, Init
<1>7. JobsFit /\ WorkerFits
  BY <1>3 DEF JobsFit, WorkerFits, Init
<1> QED BY <1>4, <1>5, <1>6, <1>7 DEF IInv

LEMMA RequestInv == ASSUME IInv, Request PROVE IInv'
<1>1. ASSUME NEW s \in Site, NEW d \in Domain, NEW h \in Hostname, AskWebsite(s, d, h)
      PROVE  IInv'
  <2> DEFINE j == [NewJob("website.create", s) EXCEPT !.dom = d, !.host = h]
  <2>1. "website.create" \in Kinds
    BY DEF Kinds
  <2>2. /\ j \in Job /\ j.state = "asked" /\ j.tries = 0
        /\ j.kind = "website.create" /\ j.site = s /\ j.dom = d /\ j.host = h
    <3> DEFINE n == NewJob("website.create", s)
    <3>1. n \in Job /\ n.kind = "website.create" /\ n.site = s /\ n.state = "asked" /\ n.tries = 0
      BY <2>1, NewJobIs
    <3> QED BY <3>1 DEF Job
  <2>3. Ask(j)
    BY <1>1 DEF AskWebsite
  <2> HIDE DEF j
  <2>4. JobFits(j)
    BY <2>2 DEF JobFits, DomainActions, NameKinds, CreateKinds
  <2> QED BY <2>2, <2>3, <2>4, AskInv
<1>2. ASSUME NEW s \in Site, NEW d \in Domain, NEW h \in Hostname, AskDomain(s, d, h)
      PROVE  IInv'
  <2> DEFINE j == [NewJob("domain.create", s) EXCEPT !.dom = d, !.host = h]
  <2>1. "domain.create" \in Kinds
    BY DEF Kinds
  <2>2. /\ j \in Job /\ j.state = "asked" /\ j.tries = 0
        /\ j.kind = "domain.create" /\ j.site = s /\ j.dom = d /\ j.host = h
    <3> DEFINE n == NewJob("domain.create", s)
    <3>1. n \in Job /\ n.kind = "domain.create" /\ n.site = s /\ n.state = "asked" /\ n.tries = 0
      BY <2>1, NewJobIs
    <3> QED BY <3>1 DEF Job
  <2>3. Ask(j)
    BY <1>2 DEF AskDomain
  <2> HIDE DEF j
  <2>4. JobFits(j)
    BY <2>2 DEF JobFits, DomainActions, NameKinds, CreateKinds
  <2> QED BY <2>2, <2>3, <2>4, AskInv
<1>3. ASSUME NEW s \in Site, NEW kind \in SiteActions, AskAction(s, kind)
      PROVE  IInv'
  <2> DEFINE j == NewJob(kind, s)
  <2>1. kind \in Kinds /\ kind \notin DomainActions \cup NameKinds \cup CreateKinds
    BY DEF Kinds, SiteActions, DomainActions, NameKinds, CreateKinds
  <2>2. /\ j \in Job /\ j.state = "asked" /\ j.tries = 0
        /\ j.kind = kind /\ j.site = s /\ j.dom = None
    BY <2>1, NewJobIs
  <2>3. Ask(j) /\ HasSite(s)
    BY <1>3 DEF AskAction
  <2> HIDE DEF j
  <2>4. JobFits(j)
    BY <2>1, <2>2, <2>3 DEF JobFits, HasSite
  <2> QED BY <2>2, <2>3, <2>4, AskInv
<1>4. ASSUME NEW s \in Site, AskIssue(s) \/ AskRenew(s) \/ AskDue(s)
      PROVE  IInv'
  <2>1. HasSite(s)
    BY <1>4 DEF AskIssue, AskRenew, AskDue, ListDueCertificates, HasSite, IInv, RowsFit
  <2> QED BY <1>4, <2>1, CertificateAsked DEF AskIssue, AskRenew, AskDue, CertKinds
<1>5. ASSUME NEW d \in Domain, NEW kind \in DomainActions, AskDomainAction(d, kind)
      PROVE  IInv'
  <2> DEFINE j == [NewJob(kind, dom[d].site) EXCEPT !.dom = d]
  <2>1. kind \in Kinds /\ kind \notin NameKinds \cup CreateKinds
    BY DEF Kinds, DomainActions, NameKinds, CreateKinds
  <2>2. HasDomain(d) /\ dom[d].kind = "alias" /\ dom[d].site \in Site /\ HasSite(dom[d].site)
    BY <1>5 DEF AskDomainAction, IInv, RowsFit, DomainFits
  <2>3. /\ j \in Job /\ j.state = "asked" /\ j.tries = 0
        /\ j.kind = kind /\ j.site = dom[d].site /\ j.dom = d
    <3> DEFINE n == NewJob(kind, dom[d].site)
    <3>1. n \in Job /\ n.kind = kind /\ n.site = dom[d].site /\ n.state = "asked" /\ n.tries = 0
      BY <2>1, <2>2, NewJobIs
    <3> QED BY <3>1 DEF Job
  <2>4. Ask(j)
    BY <1>5 DEF AskDomainAction
  <2> HIDE DEF j
  <2>5. JobFits(j)
    BY <2>1, <2>2, <2>3 DEF JobFits, HasSite, HasDomain
  <2> QED BY <2>3, <2>4, <2>5, AskInv
<1>6. ASSUME NEW d \in Domain, NEW h \in Hostname, AskRename(d, h)
      PROVE  IInv'
  <2> DEFINE j == [NewJob("domain.update", dom[d].site) EXCEPT !.dom = d, !.prev = dom[d].host,
                                                             !.host = h]
  <2>1. "domain.update" \in Kinds
    BY DEF Kinds
  <2>2. HasDomain(d) /\ dom[d].host \in Hostname /\ dom[d].site \in Site /\ HasSite(dom[d].site)
    BY <1>6 DEF AskRename, IInv, RowsFit, DomainFits
  <2>3. /\ j \in Job /\ j.state = "asked" /\ j.tries = 0
        /\ j.kind = "domain.update" /\ j.site = dom[d].site /\ j.dom = d /\ j.host = h
    <3> DEFINE n == NewJob("domain.update", dom[d].site)
    <3>1. n \in Job /\ n.kind = "domain.update" /\ n.site = dom[d].site /\ n.state = "asked" /\ n.tries = 0
      BY <2>1, <2>2, NewJobIs
    <3> QED BY <2>2, <3>1 DEF Job
  <2>4. Ask(j)
    BY <1>6 DEF AskRename
  <2> HIDE DEF j
  <2>5. JobFits(j)
    BY <2>2, <2>3 DEF JobFits, HasSite, HasDomain, DomainActions, NameKinds, CreateKinds
  <2> QED BY <2>3, <2>4, <2>5, AskInv
<1>7. ASSUME NEW i \in DOMAIN queue, Commit(i) \/ Withdraw(i)
      PROVE  IInv'
  BY <1>7, CommitInv, WithdrawInv
<1> QED BY <1>1, <1>2, <1>3, <1>4, <1>5, <1>6, <1>7, SuspendInv DEF Request

LEMMA NextInv == ASSUME IInv, [Next]_vars PROVE IInv'
<1>1. CASE Request
  BY <1>1, RequestInv
<1>2. CASE WorkerStep
  BY <1>2, ClaimInv, CallNothingInv, CallInv, HandleInv, SettleInv, OrphanedInv DEF WorkerStep
<1>3. CASE HostNext /\ UNCHANGED panel
  BY <1>3, HostInv
<1>4. CASE HandleUnsaved \/ Crash \/ Restart
  BY <1>4, HandleInv, CrashInv, RestartInv
<1>5. CASE UNCHANGED vars
  <2>1. /\ UNCHANGED <<hostVars, rows, usable, queue, pc, ok, requests, mishaps, suspends>>
        /\ UNCHANGED op
    BY <1>5 DEF vars, panel, count, hostVars
  <2>2. RowTypes /\ RowTypes' /\ RowsFit' /\ RowsMove /\ RowsStay
    BY <2>1, RowsUnchanged DEF IInv, TypeOK, RowTypes, rows
  <2>3. TypeOK'
    BY <2>1, <2>2, HostUnchanged, TypesSplit DEF IInv, TypeOK
  <2>4. JobsFit' /\ WorkerFits' /\ held' = held
    BY <2>1, <2>2, JobsUnchanged, QueueUnchanged DEF IInv
  <2>5. OpFits' /\ CallFits'
    BY <2>1, <2>2, <2>4, CallKept DEF IInv
  <2> QED BY <2>2, <2>3, <2>4, <2>5 DEF IInv
<1> QED BY <1>1, <1>2, <1>3, <1>4, <1>5 DEF Next

(* Every row, job and operation is of its type, an operation is about a    *)
(* website there is, a job about rows that were there, and the worker      *)
(* waits for the operation its job asks for, whatever dies, fails or is    *)
(* cancelled (queue.Worker.Run, websites/service.go, nginx/nginx.go).      *)
THEOREM HostingInvariance == Spec => []IInv
<1>1. Init => IInv
  BY InitInv
<1>2. IInv /\ [Next]_vars => IInv'
  BY NextInv
<1> QED BY <1>1, <1>2, PTL DEF Spec

THEOREM HostingTypesCorrect == Spec => []TypeOK
<1>1. IInv => TypeOK
  BY DEF IInv
<1> QED BY <1>1, HostingInvariance, PTL

-------------------------------------------------------------------------------
(* The owners of hostnames. *)

(* No hostname gets an owner. *)
NamesShrink ==
  \A d \in Domain : HasDomain(d)' => /\ HasDomain(d)
                                     /\ {dom'[d].host, dom'[d].prev} \subseteq {dom[d].host, dom[d].prev, None}

LEMMA OwnersKeep ==
  ASSUME HostnamesHaveOneOwner, NamesShrink
  PROVE  HostnamesHaveOneOwner'
BY DEF HostnamesHaveOneOwner, NamesShrink

LEMMA NamesUnchanged == ASSUME UNCHANGED dom PROVE NamesShrink
BY DEF NamesShrink, HasDomain

LEMMA NamesChange ==
  ASSUME NEW d \in Domain, NEW status, NEW enabled, NEW host, NEW prev,
         DomainChange(d, status, enabled, host, prev),
         {host, prev} \subseteq {dom[d].host, dom[d].prev, None}
  PROVE  NamesShrink
BY DEF DomainChange, DomainIs, DomainsSame, NamesShrink

(* The worker gives no hostname an owner. *)
LEMMA HandlerNames ==
  ASSUME TypeOK, RowsFit, JobsFit, WorkerFits, Holding, ~RowGone,
         (\E called \in BOOLEAN : Fail(called)) \/ Succeed \/ HandleUnsaved
  PROVE  NamesShrink
<1> DEFINE d == held.dom
<1>1. RowTypes /\ (held.kind \in DomainActions \cup NameKinds => d \in Domain /\ HasDomain(d))
      /\ (held.kind \in DomainActions => dom[d].kind = "alias") /\ held.site \in Site /\ HasSite(held.site)
  BY HeldRows DEF TypeOK, RowTypes
<1>2. CASE UNCHANGED dom
  BY <1>2, NamesUnchanged
<1>3. CASE /\ held.kind \in DomainActions \cup NameKinds
           /\ \E st \in Statuses : SetDomain(d, st)
  <2>1. PICK st \in Statuses : SetDomain(d, st)
    BY <1>3
  <2>2. DomainChange(d, st, dom[d].enabled, dom[d].host, dom[d].prev)
    BY <1>1, <1>3, <2>1, DomainSet
  <2> QED BY <1>1, <1>3, <2>2, NamesChange
<1>4. CASE held.kind = "domain.update" /\ FailRename(d)
  <2>1. /\ d \in Domain /\ HasDomain(d)
        /\ DomainChange(d, "error", dom[d].enabled,
                        IF dom[d].prev = None THEN dom[d].host ELSE dom[d].prev, None)
    BY <1>1, <1>4, RenameFailed DEF NameKinds
  <2> QED BY <2>1, NamesChange
<1>5. CASE held.kind = "domain.update" /\ CompleteRename(d)
  <2>1. /\ d \in Domain /\ HasDomain(d)
        /\ DomainChange(d, IF dom[d].enabled THEN "active" ELSE "disabled", dom[d].enabled,
                        dom[d].host, None)
    BY <1>1, <1>5, RenameCompleted DEF NameKinds
  <2> QED BY <2>1, NamesChange
<1>6. CASE held.kind = "website.delete" /\ DropSite(held.site)
  <2>1. \A e \in Domain : HasDomain(e)' => HasDomain(e) /\ dom'[e] = dom[e]
    BY <1>1, <1>6, SiteDropped DEF HasDomain, NoDomain
  <2> QED BY <2>1 DEF NamesShrink
<1>7. CASE held.kind = "domain.delete" /\ DropDomain(d)
  <2>1. \A e \in Domain : HasDomain(e)' => HasDomain(e) /\ dom'[e] = dom[e]
    BY <1>1, <1>7, DomainDropped DEF HasDomain, DomainActions
  <2> QED BY <2>1 DEF NamesShrink
<1>8. CASE \E called \in BOOLEAN : Fail(called)
  BY <1>2, <1>3, <1>4, <1>8 DEF Fail, NameKinds, CreateKinds, Statuses
<1>9. CASE Succeed
  BY <1>2, <1>3, <1>5, <1>6, <1>7, <1>9 DEF Succeed, NameKinds, CreateKinds, Statuses, DomainActions
<1>10. CASE HandleUnsaved
  BY <1>2, <1>3, <1>10 DEF HandleUnsaved, NameKinds, CreateKinds, Statuses
<1> QED BY <1>8, <1>9, <1>10

(* A transaction gives one that nobody owns. *)
LEMMA OwnersAdded ==
  ASSUME HostnamesHaveOneOwner, NEW d \in Domain, NEW h \in Hostname, ~Taken(h),
         {dom'[d].host, dom'[d].prev} \subseteq {h, None} \cup (IF HasDomain(d) THEN {dom[d].host} ELSE {}),
         \A e \in Domain \ {d} : dom'[e] = dom[e]
  PROVE  HostnamesHaveOneOwner'
<1> SUFFICES ASSUME NEW a \in Domain, NEW b \in Domain, a # b, HasDomain(a)', HasDomain(b)'
             PROVE  {dom'[a].host, dom'[a].prev} \cap {dom'[b].host, dom'[b].prev} \subseteq {None}
  BY DEF HostnamesHaveOneOwner
<1>1. ASSUME NEW e \in Domain \ {d}, HasDomain(e)'
      PROVE  /\ {dom'[e].host, dom'[e].prev} \cap {dom'[d].host, dom'[d].prev} \subseteq {None}
  <2>1. HasDomain(e) /\ dom'[e] = dom[e]
    BY <1>1 DEF HasDomain
  <2>2. h \notin {dom[e].host, dom[e].prev}
    BY <2>1 DEF Taken
  <2>3. HasDomain(d) => {dom[e].host, dom[e].prev} \cap {dom[d].host} \subseteq {None}
    BY <2>1 DEF HostnamesHaveOneOwner
  <2> QED BY <2>1, <2>2, <2>3
<1>2. CASE a = d
  BY <1>1, <1>2
<1>3. CASE b = d
  BY <1>1, <1>3
<1>4. CASE a # d /\ b # d
  BY <1>4 DEF HostnamesHaveOneOwner, HasDomain
<1> QED BY <1>2, <1>3, <1>4

LEMMA TransactionOwners ==
  ASSUME HostnamesHaveOneOwner, RowTypes, RowsFit, NEW j \in Job, Transaction(j),
         j.kind \in DomainActions \cup NameKinds => j.dom \in Domain,
         j.kind \in NameKinds => j.host \in Hostname
  PROVE  HostnamesHaveOneOwner'
<1> DEFINE d == j.dom
           h == j.host
<1>1. CASE UNCHANGED dom
  BY <1>1, NamesUnchanged, OwnersKeep
<1>2. ASSUME NEW kind \in {"primary", "alias"}, d \in Domain, h \in Hostname,
             dom[d].status = "none", ~Taken(h), CreateWebsiteDomain(d, j.site, kind, h)
      PROVE  HostnamesHaveOneOwner'
  <2>1. j.site \in Site
    BY DEF Job
  <2> HIDE DEF d, h
  <2>2. /\ dom'[d] = [status |-> "pending", enabled |-> TRUE, site |-> j.site, kind |-> kind,
                      host |-> h, prev |-> None]
        /\ \A e \in Domain \ {d} : dom'[e] = dom[e]
    BY <1>2, <2>1, DomainCreated
  <2>3. dom'[d].host = h /\ dom'[d].prev = None
    BY <2>2
  <2> QED BY <1>2, <2>2, <2>3, OwnersAdded
<1>3. CASE CommitWebsite(j)
  BY <1>2, <1>3 DEF CommitWebsite, NameKinds, CreateKinds
<1>4. CASE CommitDomain(j)
  BY <1>2, <1>4 DEF CommitDomain, NameKinds, CreateKinds
<1>5. CASE CommitDomainAction(j)
  <2>1. d \in Domain /\ QueueWebsiteDomainAction(d, j.kind = "domain.enable")
    BY <1>5 DEF CommitDomainAction
  <2>2. HasDomain(d) /\ DomainChange(d, "pending", j.kind = "domain.enable", dom[d].host, dom[d].prev)
    BY <2>1, DomainQueued
  <2> QED BY <2>1, <2>2, NamesChange, OwnersKeep
<1>6. CASE CommitRename(j)
  <2>1. d \in Domain /\ h \in Hostname /\ ~Taken(h) /\ QueueWebsiteDomainRename(d, h)
    BY <1>6 DEF CommitRename, NameKinds
  <2> HIDE DEF d, h
  <2>2. HasDomain(d) /\ DomainChange(d, "pending", dom[d].enabled, h, dom[d].host)
    BY <2>1, DomainRenamed
  <2>3. /\ dom'[d].host = h /\ dom'[d].prev = dom[d].host
        /\ \A e \in Domain \ {d} : dom'[e] = dom[e]
    BY <2>2 DEF DomainChange, DomainIs
  <2> QED BY <2>1, <2>2, <2>3, OwnersAdded
<1> QED BY <1>1, <1>3, <1>4, <1>5, <1>6 DEF Transaction, CommitAction, CommitCertificate

(* No two hostnames of the panel's websites own one name, the name a       *)
(* rename is giving up included: WebsiteHostnameExists is asked in the     *)
(* transaction that takes the name, and what a handler stores, or fails to *)
(* store, only gives names up (websites/service.go, queries/websites.sql). *)
THEOREM HostnamesAreOwnedOnce == Spec => []HostnamesHaveOneOwner
<1>1. Init => HostnamesHaveOneOwner
  BY DEF Init, HostnamesHaveOneOwner, HasDomain, NoDomain
<1>2. IInv /\ HostnamesHaveOneOwner /\ [Next]_vars => HostnamesHaveOneOwner'
  <2> SUFFICES ASSUME IInv, HostnamesHaveOneOwner, [Next]_vars PROVE HostnamesHaveOneOwner'
    OBVIOUS
  <2>1. CASE UNCHANGED dom
    BY <2>1, NamesUnchanged, OwnersKeep
  <2>2. CASE \E i \in DOMAIN queue : Commit(i)
    <3>1. PICK i \in DOMAIN queue : Commit(i)
      BY <2>2
    <3>2. AsQueued(i) \in Job /\ Transaction(AsQueued(i)) /\ queue[i] \in Job
      BY <3>1, CommitQueue DEF IInv
    <3>3. JobFits(queue[i])
      BY DEF IInv, JobsFit
    <3>4. PICK j \in Job : j = AsQueued(i)
      BY <3>2
    <3>5. j.kind = queue[i].kind /\ j.dom = queue[i].dom /\ j.host = queue[i].host
      BY <3>2, <3>4 DEF AsQueued, Job
    <3> QED BY <3>2, <3>3, <3>4, <3>5, TransactionOwners DEF IInv, TypeOK, RowTypes, JobFits
  <2>3. CASE CallNothing
    <3>1. CASE UNCHANGED rows
      BY <2>1, <3>1 DEF rows
    <3>2. CASE ~RowGone /\ Fail(FALSE)
      BY <2>3, <3>2, HandlerNames, OwnersKeep DEF IInv, CallNothing, Holding
    <3> QED BY <2>3, <3>1, <3>2 DEF CallNothing
  <2>4. CASE Handle \/ HandleUnsaved
    <3>1. Holding /\ ~RowGone
      BY <2>4 DEF Handle, HandleUnsaved, IInv, CallFits, Holding
    <3>2. NamesShrink
      BY <2>4, <3>1, HandlerNames DEF IInv, Handle
    <3> QED BY <3>2, OwnersKeep
  <2> QED BY <2>1, <2>2, <2>3, <2>4
      DEF Next, Request, WorkerStep, AskWebsite, AskDomain, AskAction, AskIssue, AskRenew, AskDue,
          AskDomainAction, AskRename, AskCertificate, Ask, Withdraw, Suspend, Resume, Claim, Call,
          Settle, Orphaned, Crash, Restart, vars, panel, rows
<1> QED BY <1>1, <1>2, HostingInvariance, PTL DEF Spec

-------------------------------------------------------------------------------
(* Deletions. *)

(* The Agent touches nothing of other websites. *)
Elsewhere ==
  \A s \in Site \ {op.site} :
    /\ conf'[s] = conf[s] /\ link'[s] = link[s] /\ pem'[s] = pem[s]
    /\ s \in web' <=> s \in web
    /\ s \in trash' <=> s \in trash

LEMMA HostElsewhere ==
  ASSUME HostTypeOK, HostNext
  PROVE  Elsewhere
<1>1. conf \in [Site -> Conf] /\ link \in [Site -> BOOLEAN] /\ pem \in [Site -> SUBSET Hostname]
  BY HostTypesOf
<1>2. CASE UNCHANGED <<conf, link, pem, web, trash>>
  BY <1>2 DEF Elsewhere
<1>3. CASE EnsureRoot
  BY <1>3 DEF EnsureRoot, Elsewhere, s0, files
<1>4. CASE Certify
  BY <1>1, <1>4 DEF Certify, Elsewhere, s0, files
<1>5. CASE Install \/ RemoveLink \/ RemoveConfig
  BY <1>1, <1>5 DEF Install, RemoveLink, RemoveConfig, Elsewhere, s0
<1>6. CASE TestFails \/ ReloadFails
  BY <1>1, <1>6 DEF TestFails, ReloadFails, Rollback, Elsewhere, s0
<1>7. CASE Quarantine
  BY <1>7 DEF Quarantine, Elsewhere, s0, files
<1> QED BY <1>2, <1>3, <1>4, <1>5, <1>6, <1>7
    DEF HostNext, AgentStep, AgentDies, Cancel, CertifyFails, RemoveNothing, Test, Reload, Recover,
        RecoverFails, QuarantineFails, files

(* Every step of the Agent brings a deletion no further than it was. *)
LEMMA HostRemoves ==
  ASSUME HostTypeOK, OpFits, op.lost => op.failed, RemovalFits, HostNext
  PROVE  RemovalFits'
<1> SUFFICES ASSUME op'.doing = "delete" PROVE RemovalFits'
  BY DEF RemovalFits
<1>1. /\ op \in Op /\ op.at # "off" /\ op.site \in Site /\ op'.site = op.site /\ op.doing = "delete"
      /\ conf \in [Site -> Conf] /\ link \in [Site -> BOOLEAN]
  BY HostNextFits, HostTypesOf DEF OpFits, OpContinues
<1>2. ASSUME NEW p \in {"end", "recover"}, OpMoves(p, TRUE) PROVE RemovalFits'
  BY <1>2 DEF OpMoves, RemovalFits
<1>3. ~Applies
  BY <1>1 DEF Applies
<1>4. CASE RemoveNothing
  <2>1. ~link[s0] /\ conf[s0] = NoConf /\ OpMoves("trash", op.failed)
    BY <1>1, <1>4, RemovedMoves DEF RemoveNothing
  <2>2. UNCHANGED <<conf, link>>
    BY <1>4 DEF RemoveNothing, files
  <2> QED BY <2>1, <2>2 DEF OpMoves, RemovalFits, s0
<1>5. CASE RemoveLink
  <2>1. ~link'[s0] /\ op'.at = "config"
    BY <1>1, <1>5 DEF RemoveLink, AfterLink, Op, s0
  <2> QED BY <1>1, <2>1 DEF RemovalFits, s0
<1>6. CASE RemoveConfig
  <2>1. ~link[s0] /\ UNCHANGED link /\ conf'[s0] = NoConf
    BY <1>1, <1>6 DEF RemoveConfig, RemovalFits, s0
  <2>2. OpMoves("test", op.failed) \/ OpMoves("trash", op.failed)
    BY <1>1, <1>6, GotoMoves, RemovedMoves DEF RemoveConfig, Places
  <2> QED BY <1>1, <2>1, <2>2 DEF OpMoves, RemovalFits, s0
<1>7. CASE Test
  <2>1. /\ ~link[s0] /\ conf[s0] = NoConf /\ UNCHANGED <<conf, link>>
        /\ OpMoves("reload", op.failed)
    BY <1>1, <1>7, GotoMoves DEF Test, RemovalFits, Places, files
  <2> QED BY <2>1 DEF OpMoves, RemovalFits, s0
<1>8. CASE Reload
  <2>1. /\ ~link[s0] /\ conf[s0] = NoConf /\ UNCHANGED <<conf, link>>
        /\ OpMoves("trash", op.failed)
    BY <1>1, <1>3, <1>8, RemovedMoves DEF Reload, RemovalFits, files
  <2> QED BY <2>1 DEF OpMoves, RemovalFits, s0
<1>9. CASE Quarantine
  <2>1. /\ ~link[s0] /\ conf[s0] = NoConf /\ UNCHANGED <<conf, link>>
        /\ s0 \in trash' \ web' /\ OpMoves("end", op.failed)
    BY <1>1, <1>9, GotoMoves DEF Quarantine, RemovalFits, Places, files
  <2> QED BY <2>1 DEF OpMoves, RemovalFits, s0
<1>10. CASE TestFails \/ QuarantineFails \/ AgentDies
  BY <1>1, <1>2, <1>10, FailToMoves DEF TestFails, QuarantineFails, AgentDies, Places
<1>11. CASE ReloadFails
  BY <1>1, <1>2, <1>11, FailToMoves DEF ReloadFails, Places
<1>12. CASE Recover \/ RecoverFails
  <2>1. OpMoves("end", op.failed) /\ op.failed
    BY <1>1, <1>12, GotoMoves DEF Recover, RecoverFails, OpFits, Places
  <2> QED BY <2>1 DEF OpMoves, RemovalFits
<1>13. CASE Cancel
  <2>1. UNCHANGED <<conf, link>> /\ op'.at = op.at /\ op'.failed
    BY <1>1, <1>13, LoseOp DEF Cancel, files
  <2> QED BY <1>1, <2>1 DEF RemovalFits, s0
<1>14. ~EnsureRoot /\ ~Certify /\ ~CertifyFails /\ ~Install
  BY <1>1, <1>3 DEF EnsureRoot, Certify, CertifyFails, Install, OpFits
<1> QED BY <1>4, <1>5, <1>6, <1>7, <1>8, <1>9, <1>10, <1>11, <1>12, <1>13, <1>14
    DEF HostNext, AgentStep

(* What the panel's steps do to the host: they begin an operation, lose it *)
(* or have done with it.                                                   *)
PanelOnly == UNCHANGED <<files, running, web, trash, pem, harm>>
LEMMA PanelStep ==
  ASSUME IInv, [Next]_vars, ~(HostNext /\ UNCHANGED panel)
  PROVE  /\ PanelOnly
         /\ \/ UNCHANGED op
            \/ op.at = "end" /\ op' = NoOp
            \/ Call
            \/ mishaps' > 0 /\ Lose
<1>1. CASE Handle \/ HandleUnsaved \/ Orphaned
  BY <1>1 DEF Handle, HandleUnsaved, Orphaned, PanelOnly
<1>2. CASE Call
  BY <1>2 DEF Call, PanelOnly
<1>3. CASE Crash
  <2>1. mishaps' > 0
    BY <1>3, HostingAssumption DEF Crash, Mishap, IInv, TypeOK
  <2> QED BY <1>3, <2>1 DEF Crash, PanelOnly
<1>4. CASE UNCHANGED hostVars
  BY <1>4 DEF hostVars, files, harm, PanelOnly
<1> QED BY <1>1, <1>2, <1>3, <1>4
    DEF Next, Request, WorkerStep, AskWebsite, AskDomain, AskAction, AskIssue, AskRenew, AskDue,
        AskDomainAction, AskRename, AskCertificate, Ask, Commit, Withdraw, Suspend, Resume, Claim,
        CallNothing, Settle, Restart, vars

(* A website's row is deleted when its deletion has succeeded, only then.  *)
LEMMA SitesDie ==
  ASSUME IInv, [Next]_vars
  PROVE  \/ \A s \in Site : site'[s].status = "deleted" => site[s].status = "deleted"
         \/ /\ op.at = "end" /\ ~op.failed /\ op.doing = "delete" /\ PanelOnly
            /\ \A s \in Site : site'[s].status = "deleted" => site[s].status = "deleted" \/ s = op.site
<1>1. CASE UNCHANGED site
  BY <1>1
<1>2. CASE RowsStay
  BY <1>2 DEF RowsStay
<1>3. CASE \E i \in DOMAIN queue : Commit(i)
  BY <1>2, <1>3, CommitInv
<1>4. CASE CallNothing
  <2>1. CASE UNCHANGED rows
    BY <1>1, <2>1 DEF rows
  <2>2. CASE ~RowGone /\ Fail(FALSE)
    BY <1>2, <1>4, <2>2, FailRows DEF IInv, CallNothing, Holding
  <2> QED BY <1>4, <2>1, <2>2 DEF CallNothing
<1>5. CASE Handle
  <2>1. /\ op.at = "end" /\ ~RowGone /\ Holding /\ op.site = held.site
        /\ op.doing = Doing(held.kind) /\ PanelOnly
    BY <1>5 DEF Handle, IInv, CallFits, Holding, PanelOnly
  <2>2. CASE op.failed
    BY <1>2, <1>5, <2>1, <2>2, FailRows DEF IInv, Handle
  <2>3. CASE ~op.failed /\ held.kind = "website.delete"
    <3>1. DropSite(held.site)
      BY <1>5, <2>3, Zenon DEF Handle, Succeed, CertKinds
    <3>2. held.site \in Site /\ HasSite(held.site)
      BY <2>1, HeldRows DEF IInv
    <3>3. \A t \in Site \ {held.site} : site'[t] = site[t]
      BY <3>1, <3>2, SiteDropped DEF IInv, TypeOK, RowTypes
    <3> QED BY <2>1, <2>3, <3>3 DEF Doing, CertKinds
  <2>4. CASE ~op.failed /\ held.kind # "website.delete"
    <3>1. held.site \in Site /\ HasSite(held.site)
      BY <2>1, HeldRows DEF IInv
    <3>2. \/ UNCHANGED site
          \/ \E st \in {"active", "disabled"} : SetSite(held.site, st)
      BY <1>5, <2>4 DEF Handle, Succeed
    <3>3. \A t \in Site : site'[t].status = "deleted" => site[t].status = "deleted"
      BY <3>1, <3>2, SiteSet DEF IInv, TypeOK, RowTypes
    <3> QED BY <3>3
  <2> QED BY <2>2, <2>3, <2>4
<1>6. CASE HandleUnsaved
  <2>1. pc = "calling" /\ ~RowGone
    BY <1>6 DEF HandleUnsaved, IInv, CallFits
  <2> QED BY <1>2, <1>6, <2>1, UnsavedRows DEF IInv
<1> QED BY <1>1, <1>3, <1>4, <1>5, <1>6
    DEF Next, Request, WorkerStep, AskWebsite, AskDomain, AskAction, AskIssue, AskRenew, AskDue,
        AskDomainAction, AskRename, AskCertificate, Ask, Withdraw, Suspend, Resume, Claim, Call,
        Settle, Orphaned, Crash, Restart, vars, panel, rows

LEMMA RemovalNext ==
  ASSUME IInv, RemovalFits, [Next]_vars
  PROVE  RemovalFits'
<1>1. CASE HostNext /\ UNCHANGED panel
  BY <1>1, HostRemoves DEF IInv, TypeOK, CallFits
<1>2. CASE ~(HostNext /\ UNCHANGED panel)
  <2>1. UNCHANGED <<conf, link, web, trash>>
    BY <1>2, PanelStep DEF PanelOnly, files
  <2>2. CASE UNCHANGED op
    BY <2>1, <2>2 DEF RemovalFits, s0
  <2>3. CASE op' = NoOp
    BY <2>3, NoOpIsOp DEF RemovalFits
  <2>4. CASE Call
    BY <2>4, CallInv DEF RemovalFits
  <2>5. CASE Lose
    <3>1. op'.failed /\ op'.at = op.at /\ op'.doing = op.doing /\ op'.site = op.site
      BY <2>5, LoseOp DEF IInv, TypeOK, HostTypeOK
    <3> QED BY <2>1, <3>1 DEF RemovalFits, s0
  <2> QED BY <1>2, <2>2, <2>3, <2>4, <2>5, PanelStep
<1> QED BY <1>1, <1>2

(* A website whose row is gone was taken out of nginx, and its directory   *)
(* lies in the trash: DeleteWebsite is stored only after the Agent has     *)
(* answered that all of it is done, and no later operation touches the     *)
(* website again, however often the handler, the Agent or the panel failed *)
(* before (websites/service.go, nginx/nginx.go, agent/website).            *)
THEOREM DeletionsQuarantine == Spec => []DeletedIsQuarantined
<1> DEFINE Safe == RemovalFits /\ DeletedIsQuarantined
<1>1. Init => Safe
  BY NoOpIsOp DEF Init, HostInit, RemovalFits, DeletedIsQuarantined
<1>2. IInv /\ Safe /\ [Next]_vars => Safe'
  <2> SUFFICES ASSUME IInv, RemovalFits, DeletedIsQuarantined, [Next]_vars
               PROVE  RemovalFits' /\ DeletedIsQuarantined'
    OBVIOUS
  <2>1. RemovalFits'
    BY RemovalNext
  <2>2. ASSUME NEW s \in Site, site'[s].status = "deleted"
        PROVE  s \in trash' \ web' /\ ~link'[s] /\ conf'[s] = NoConf
    <3>1. CASE site[s].status = "deleted"
      <4>1. s \in trash \ web /\ ~link[s] /\ conf[s] = NoConf
        BY <3>1 DEF DeletedIsQuarantined
      <4>2. CASE HostNext /\ UNCHANGED panel
        <5>1. op.at # "off" /\ Elsewhere
          BY <4>2, HostNextFits, HostElsewhere DEF IInv, TypeOK, CallFits
        <5>2. s # op.site
          BY <3>1, <5>1 DEF IInv, OpFits, HasSite
        <5> QED BY <4>1, <5>1, <5>2 DEF Elsewhere
      <4>3. CASE ~(HostNext /\ UNCHANGED panel)
        BY <4>1, <4>3, PanelStep DEF PanelOnly, files
      <4> QED BY <4>2, <4>3
    <3>2. CASE site[s].status # "deleted"
      <4>1. op.at = "end" /\ ~op.failed /\ op.doing = "delete" /\ PanelOnly /\ s = op.site
        BY <2>2, <3>2, SitesDie
      <4> QED BY <4>1 DEF RemovalFits, PanelOnly, files, s0
    <3> QED BY <3>1, <3>2
  <2>3. DeletedIsQuarantined'
    BY <2>2 DEF DeletedIsQuarantined
  <2> QED BY <2>1, <2>3
<1>3. Safe => DeletedIsQuarantined
  OBVIOUS
<1> HIDE DEF Safe
<1> QED BY <1>1, <1>2, <1>3, HostingInvariance, PTL DEF Spec

-------------------------------------------------------------------------------
(* What nginx serves after an operation. *)

LEMMA LoadedValue ==
  ASSUME NEW s \in Site
  PROVE  /\ Loaded[s] = IF link[s] THEN conf[s] ELSE NoConf
         /\ Loaded'[s] = IF link'[s] THEN conf'[s] ELSE NoConf
BY DEF Loaded

LEMMA UnhurtSteps ==
  ASSUME TypeOK, [Next]_vars, Unhurt'
  PROVE  Unhurt /\ ~AgentDies /\ ~Cancel /\ ~(mishaps' > 0)
<1>1. cancelled \in Nat /\ deaths \in Nat /\ mishaps \in Nat
  BY HostingAssumption, WebHostAssumption DEF TypeOK, HostTypeOK
<1>2. CASE UNCHANGED <<cancelled, deaths, mishaps>>
  BY <1>1, <1>2 DEF Unhurt, AgentDies, Cancel
<1>3. CASE HostNext /\ UNCHANGED panel
  <2>1. UNCHANGED mishaps
    BY <1>3 DEF panel, count
  <2> QED BY <1>1, <1>2, <1>3, <2>1
      DEF Unhurt, HostNext, AgentDies, Cancel, AgentStep, EnsureRoot, Certify, CertifyFails, Install,
          RemoveNothing, RemoveLink, RemoveConfig, Test, TestFails, Reload, ReloadFails, Recover,
          RecoverFails, Quarantine, QuarantineFails, harm
<1>4. CASE HandleUnsaved \/ Crash
  BY <1>1, <1>4 DEF HandleUnsaved, Crash, Mishap, Unhurt
<1> QED BY <1>2, <1>3, <1>4
    DEF Next, Request, WorkerStep, AskWebsite, AskDomain, AskAction, AskIssue, AskRenew, AskDue,
        AskDomainAction, AskRename, AskCertificate, Ask, Commit, Withdraw, Suspend, Resume, Claim,
        CallNothing, Call, Handle, Settle, Orphaned, Restart, vars, panel, hostVars, harm, count

(* While nothing but commands fails. *)
Serving ==
  /\ ~op.lost
  /\ \A s \in Site : \/ running[s] = Loaded[s]
                     \/ s = s0 /\ op.at \in {"config", "test", "reload"}
  /\ op.at \in {"config", "test", "reload"} => running[s0] = RolledBack

LEMMA ServingKept ==
  ASSUME HostTypeOK, OpFits, Serving, AgentStep
  PROVE  Serving'
<1>1. /\ op \in Op /\ op.at \in Places /\ op.at # "off" /\ op.site \in Site /\ ~op.lost
      /\ conf \in [Site -> Conf] /\ link \in [Site -> BOOLEAN] /\ running \in [Site -> Conf]
      /\ Elsewhere /\ op'.site = op.site /\ op'.doing = op.doing
      /\ op.changed \in BOOLEAN
  BY HostNextFits, HostTypesOf, HostElsewhere DEF OpFits, OpContinues, HostNext, Serving
<1>2. ASSUME UNCHANGED <<files, running>>, op.at \notin {"config", "test", "reload"},
             op'.at \notin {"config", "test", "reload"}, op'.lost = op.lost
      PROVE  Serving'
  <2>1. \A s \in Site : Loaded'[s] = Loaded[s]
    BY <1>2, LoadedValue DEF files
  <2> QED BY <1>1, <1>2, <2>1 DEF Serving
<1>3. ASSUME NEW p \in {"trash", "end", "install"}, NEW f, OpMoves(p, f), UNCHANGED <<files, running>>,
             op.at \notin {"config", "test", "reload"}
      PROVE  Serving'
  BY <1>2, <1>3 DEF OpMoves
<1>4. ASSUME UNCHANGED running, op'.lost = op.lost,
             \/ op'.at \in {"config", "test", "reload"} /\ running[s0] = RolledBack'
             \/ op'.at \notin {"config", "test", "reload"} /\ running[s0] = Loaded'[s0]
      PROVE  Serving'
  <2>1. ASSUME NEW s \in Site \ {s0} PROVE running'[s] = Loaded'[s]
    <3>1. Loaded'[s] = Loaded[s]
      BY <1>1, LoadedValue DEF Elsewhere, s0
    <3> QED BY <1>1, <1>4, <3>1 DEF Serving
  <2> QED BY <1>1, <1>4, <2>1 DEF Serving, s0
<1>5. CASE EnsureRoot
  <2>1. /\ UNCHANGED <<files, running>> /\ op.at = "begin"
        /\ OpMoves("install", op.failed) \/ OpMoves("end", TRUE)
    BY <1>1, <1>5, GotoMoves, FailToMoves DEF EnsureRoot, Places
  <2> QED BY <1>3, <2>1
<1>6. CASE Certify
  <2>1. /\ UNCHANGED <<files, running>> /\ op.at = "begin"
        /\ op'.at = "install" /\ op'.lost = op.lost
    BY <1>1, <1>6 DEF Certify, Op
  <2> QED BY <1>2, <2>1
<1>7. CASE CertifyFails
  <2>1. UNCHANGED <<files, running>> /\ op.at = "begin" /\ OpMoves("end", TRUE)
    BY <1>1, <1>7, FailToMoves DEF CertifyFails, Places
  <2> QED BY <1>3, <2>1
<1>8. CASE Install
  <2>1. /\ UNCHANGED running /\ op.at = "install" /\ op'.at = "test" /\ op'.lost = op.lost
        /\ op'.prev = conf[s0] /\ op'.changed = ~link[s0] /\ Applies /\ Applies'
    BY <1>1, <1>8 DEF Install, Op, OpFits, Applies
  <2>2. running[s0] = RolledBack'
    BY <1>1, <2>1, LoadedValue DEF Serving, RolledBack, s0
  <2> QED BY <1>4, <2>1, <2>2
<1>9. CASE RemoveNothing
  <2>1. /\ UNCHANGED <<files, running>> /\ op.at = "begin"
        /\ OpMoves("trash", op.failed) \/ OpMoves("end", op.failed)
    BY <1>1, <1>9, RemovedMoves DEF RemoveNothing
  <2> QED BY <1>3, <2>1
<1>10. CASE RemoveLink
  <2>1. /\ UNCHANGED running /\ op.at = "begin" /\ op'.at \in {"config", "test"}
        /\ op'.lost = op.lost /\ op'.prev = conf[s0] /\ op'.changed = link[s0] /\ ~Applies'
    BY <1>1, <1>10 DEF RemoveLink, AfterLink, Op, Applies
  <2>2. running[s0] = RolledBack'
    BY <1>1, <2>1, LoadedValue DEF Serving, RolledBack, s0
  <2> QED BY <1>4, <2>1, <2>2
<1>11. CASE RemoveConfig
  <2>1. /\ UNCHANGED running /\ op.at = "config" /\ conf'[s0] = NoConf /\ ~Applies
        /\ running[s0] = RolledBack
    BY <1>1, <1>11 DEF RemoveConfig, Serving, OpFits, Applies, s0
  <2>2. CASE op.changed
    <3>1. OpMoves("test", op.failed)
      BY <1>1, <1>11, <2>2, GotoMoves DEF RemoveConfig, Places
    <3> QED BY <1>4, <2>1, <3>1 DEF OpMoves, RolledBack, Applies
  <2>3. CASE ~op.changed
    <3>1. OpMoves("trash", op.failed) \/ OpMoves("end", op.failed)
      BY <1>1, <1>11, <2>3, RemovedMoves DEF RemoveConfig
    <3>2. running[s0] = NoConf /\ Loaded'[s0] = NoConf
      BY <1>1, <2>1, <2>3, LoadedValue DEF RolledBack, s0
    <3> QED BY <1>4, <2>1, <3>1, <3>2 DEF OpMoves
  <2> QED BY <2>2, <2>3
<1>12. CASE Test
  <2>1. /\ UNCHANGED running /\ op.at = "test" /\ OpMoves("reload", op.failed)
        /\ running[s0] = RolledBack
    BY <1>1, <1>12, GotoMoves DEF Test, Serving, Places
  <2> QED BY <1>4, <2>1 DEF OpMoves, RolledBack, Applies
<1>13. ASSUME Rollback PROVE Loaded'[s0] = RolledBack
  <2>1. /\ conf'[s0] = op.prev
        /\ link'[s0] <=> (Applies /\ ~op.changed) \/ (~Applies /\ op.changed)
    BY <1>1, <1>13 DEF Rollback, s0
  <2>2. s0 \in Site
    BY <1>1 DEF s0
  <2> QED BY <2>1, <2>2, LoadedValue DEF RolledBack
<1>14. CASE TestFails
  <2>1. UNCHANGED running /\ op.at = "test" /\ OpMoves("end", TRUE) /\ Loaded'[s0] = running[s0]
    BY <1>1, <1>13, <1>14, FailToMoves DEF TestFails, Serving, Places
  <2> QED BY <1>4, <2>1 DEF OpMoves
<1>15. CASE ReloadFails
  <2>1. /\ UNCHANGED running /\ op.at = "reload" /\ OpMoves("recover", TRUE)
        /\ Loaded'[s0] = running[s0]
    BY <1>1, <1>13, <1>15, FailToMoves DEF ReloadFails, Serving, Places
  <2> QED BY <1>4, <2>1 DEF OpMoves
<1>16. CASE Reload \/ Recover
  <2>1. /\ UNCHANGED files /\ running' = Loaded
        /\ \/ OpMoves("trash", op.failed) \/ OpMoves("end", op.failed)
    BY <1>1, <1>16, GotoMoves, RemovedMoves DEF Reload, Recover, Places
  <2>2. \A s \in Site : Loaded'[s] = Loaded[s]
    BY <2>1, LoadedValue DEF files
  <2> QED BY <1>1, <2>1, <2>2 DEF Serving, OpMoves
<1>17. CASE RecoverFails
  <2>1. UNCHANGED <<files, running>> /\ op.at = "recover" /\ OpMoves("end", op.failed)
    BY <1>1, <1>17, GotoMoves DEF RecoverFails, Places
  <2> QED BY <1>3, <2>1
<1>18. CASE Quarantine
  <2>1. UNCHANGED <<files, running>> /\ op.at = "trash" /\ OpMoves("end", op.failed)
    BY <1>1, <1>18, GotoMoves DEF Quarantine, Places
  <2> QED BY <1>3, <2>1
<1>19. CASE QuarantineFails
  <2>1. UNCHANGED <<files, running>> /\ op.at = "trash" /\ OpMoves("end", TRUE)
    BY <1>1, <1>19, FailToMoves DEF QuarantineFails, Places
  <2> QED BY <1>3, <2>1
<1> QED BY <1>5, <1>6, <1>7, <1>8, <1>9, <1>10, <1>11, <1>12, <1>14, <1>15, <1>16, <1>17, <1>18,
           <1>19 DEF AgentStep

LEMMA LoadedNext ==
  ASSUME IInv, LoadedFits, [Next]_vars
  PROVE  LoadedFits'
<1> SUFFICES ASSUME Unhurt' PROVE Serving'
  BY DEF LoadedFits, Serving, Unhurt
<1>1. Serving /\ ~AgentDies /\ ~Cancel /\ ~(mishaps' > 0)
  BY UnhurtSteps DEF IInv, LoadedFits, Serving
<1>2. CASE HostNext /\ UNCHANGED panel
  BY <1>1, <1>2, ServingKept DEF HostNext, IInv, TypeOK
<1>3. CASE ~(HostNext /\ UNCHANGED panel)
  <2>1. UNCHANGED <<conf, link, running>>
    BY <1>3, PanelStep DEF PanelOnly, files
  <2>2. \A s \in Site : Loaded'[s] = Loaded[s]
    BY <2>1, LoadedValue
  <2>3. CASE UNCHANGED op
    BY <1>1, <2>1, <2>2, <2>3 DEF Serving, s0, RolledBack, Applies
  <2>4. CASE op.at = "end" /\ op' = NoOp
    BY <1>1, <2>1, <2>2, <2>4, NoOpIsOp DEF Serving
  <2>5. CASE Call
    <3>1. op.at = "off" /\ op'.at = "begin" /\ ~op'.lost
      BY <2>5, CallInv DEF Call
    <3> QED BY <1>1, <2>1, <2>2, <3>1 DEF Serving
  <2> QED BY <1>1, <1>3, <2>3, <2>4, <2>5, PanelStep
<1> QED BY <1>2, <1>3

(* While no context is cancelled and neither process dies, an operation    *)
(* ends with nginx serving what the files say, the new ones after a        *)
(* success and the previous ones after a failure, any commands failing,    *)
(* those of the rollback included (nginx/nginx.go, docs/operations.md).    *)
THEOREM OutcomesAreServed == Spec => []OutcomeIsServed
<1>1. Init => LoadedFits
  <2> SUFFICES ASSUME Init PROVE LoadedFits
    OBVIOUS
  <2>1. \A s \in Site : running[s] = Loaded[s]
    BY LoadedValue DEF Init, HostInit
  <2> QED BY <2>1, NoOpIsOp DEF Init, HostInit, LoadedFits
<1>2. IInv /\ LoadedFits /\ [Next]_vars => LoadedFits'
  BY LoadedNext
<1>3. IInv /\ LoadedFits => OutcomeIsServed
  BY DEF IInv, OpFits, LoadedFits, OutcomeIsServed, Unhurt, s0
<1> QED BY <1>1, <1>2, <1>3, HostingInvariance, PTL DEF Spec

-------------------------------------------------------------------------------
(* Certificates. *)

Installed == op.doing = "tls" /\ op.at \notin {"off", "begin"} /\ ~op.failed => op.names = pem[s0]
Stored(s) == cert[s].status = "active" => cert[s].names = pem[s]
Deciding(s) == Certifying(s) /\ ~(pc = "handled" /\ held.kind \in CertKinds /\ held.site = s)

LEMMA CertFitsSplit == CertFits <=> Installed /\ \A s \in Site : Stored(s) \/ Deciding(s)
BY DEF CertFits, Installed, Stored, Deciding

LEMMA InstalledKept ==
  ASSUME IInv, [Next]_vars, Installed
  PROVE  Installed'
<1> USE DEF Installed
<1>1. op \in Op /\ HostTypeOK /\ pem \in [Site -> SUBSET Hostname]
  BY HostTypesOf DEF IInv, TypeOK
<1>2. CASE HostNext /\ UNCHANGED panel
  <2>1. op.at # "off" /\ op.site \in Site /\ OpContinues
    BY <1>1, <1>2, HostNextFits DEF IInv, OpFits, CallFits
  <2>2. ASSUME op'.failed PROVE Installed'
    BY <2>2
  <2>3. CASE Certify
    <3>1. op'.names = Eligible /\ op'.site = op.site /\ pem'[s0] = Eligible
      BY <1>1, <2>1, <2>3 DEF Certify, Op, s0
    <3> QED BY <3>1 DEF s0
  <2>4. ASSUME op.at # "begin", UNCHANGED pem, op'.names = op.names PROVE Installed'
    BY <2>1, <2>4 DEF OpContinues, s0
  <2>5. CASE EnsureRoot \/ RemoveNothing \/ RemoveLink \/ RemoveConfig
    BY <2>1, <2>5 DEF EnsureRoot, RemoveNothing, RemoveLink, RemoveConfig, OpContinues, IInv, OpFits
  <2>6. CASE CertifyFails \/ TestFails \/ ReloadFails \/ QuarantineFails \/ AgentDies
    BY <1>1, <2>2, <2>6, FailToMoves
    DEF CertifyFails, TestFails, ReloadFails, QuarantineFails, AgentDies, OpMoves, Places
  <2>7. CASE Cancel
    BY <1>1, <2>2, <2>7, LoseOp DEF Cancel
  <2>8. CASE Install
    BY <1>1, <2>4, <2>8 DEF Install, Op
  <2>9. CASE Test \/ Reload \/ Recover \/ RecoverFails \/ Quarantine
    <3>1. /\ op.at # "begin" /\ UNCHANGED pem
          /\ \/ OpMoves("reload", op.failed) \/ OpMoves("end", op.failed)
             \/ OpMoves("trash", op.failed)
      BY <1>1, <2>9, GotoMoves, RemovedMoves
      DEF Test, Reload, Recover, RecoverFails, Quarantine, Places
    <3> QED BY <2>4, <3>1 DEF OpMoves
  <2> QED BY <1>2, <2>3, <2>5, <2>6, <2>7, <2>8, <2>9 DEF HostNext, AgentStep
<1>3. CASE ~(HostNext /\ UNCHANGED panel)
  <2>1. UNCHANGED pem
    BY <1>3, PanelStep DEF PanelOnly
  <2>2. CASE UNCHANGED op
    BY <2>1, <2>2 DEF s0
  <2>3. CASE op' = NoOp
    BY <2>3, NoOpIsOp
  <2>4. CASE Call
    BY <2>4, CallInv
  <2>5. CASE Lose
    BY <1>1, <2>5, LoseOp
  <2> QED BY <1>3, <2>2, <2>3, <2>4, <2>5, PanelStep
<1> QED BY <1>2, <1>3

(* Which jobs of certificates are under way. *)
Undecided(j, s) == j.kind \in CertKinds /\ j.site = s /\ j.state \in {"queued", "running"}

LEMMA CertifyingLeft ==
  ASSUME NEW s \in Site, NEW A \in SUBSET DOMAIN queue, NEW B \in SUBSET DOMAIN queue',
         Corresponds(queue, A, queue', B), \E i \in A : Undecided(queue[i], s)
  PROVE  Certifying(s)'
<1>1. PICK i \in A : Undecided(queue[i], s)
  OBVIOUS
<1>2. PICK k \in B : queue'[k] = queue[i]
  BY DEF Corresponds
<1> QED BY <1>1, <1>2 DEF Certifying, Undecided

LEMMA CertifyingAdded ==
  ASSUME NEW s \in Site, NEW A \in SUBSET DOMAIN queue, NEW j, Added(queue, A, j, queue'),
         Undecided(j, s) \/ \E i \in A : Undecided(queue[i], s)
  PROVE  Certifying(s)'
<1>1. PICK n \in DOMAIN queue' :
        queue'[n] = j /\ Corresponds(queue, A, queue', DOMAIN queue' \ {n})
  BY DEF Added
<1>2. CASE Undecided(j, s)
  BY <1>1, <1>2 DEF Certifying, Undecided
<1>3. CASE \E i \in A : Undecided(queue[i], s)
  <2> DEFINE B == DOMAIN queue' \ {n}
  <2>1. B \in SUBSET DOMAIN queue' /\ Corresponds(queue, A, queue', B)
    BY <1>1
  <2> HIDE DEF B
  <2> QED BY <1>3, <2>1, CertifyingLeft
<1> QED BY <1>2, <1>3

(* A job of a certificate is about its website only, and ends without a    *)
(* call only when the website is gone.                                     *)
LEMMA CertJobs ==
  ASSUME IInv, Holding, held.kind \in CertKinds
  PROVE  /\ held \in Job /\ held.dom = None /\ ~Ensures /\ ~RenameDone /\ ~RenameStale
         /\ RowGone => cert[held.site].status = "none"
         /\ Undecided(held, held.site) /\ held = queue[current] /\ current \in DOMAIN queue
<1>1. held \in Job /\ held = queue[current] /\ current \in DOMAIN queue /\ held.state = "running"
      /\ JobFits(held)
  BY HeldIsJob DEF IInv, JobsFit
<1>2. held.dom = None
  BY <1>1 DEF JobFits, CertKinds, DomainActions, NameKinds, CreateKinds
<1> QED BY <1>1, <1>2
    DEF IInv, RowsFit, RowGone, Job, Ensures, RenameDone, RenameStale, CertKinds, Undecided

LEMMA StoredKept ==
  ASSUME NEW s \in Site, Stored(s), UNCHANGED cert, pem'[s] = pem[s]
  PROVE  Stored(s)'
BY DEF Stored

LEMMA DecidingKept ==
  ASSUME NEW s \in Site, Deciding(s), UNCHANGED pc, pc = "handled" => held' = held, Certifying(s)'
  PROVE  Deciding(s)'
BY DEF Deciding

LEMMA CertRequest ==
  ASSUME IInv, Request, NEW s \in Site, Stored(s) \/ Deciding(s)
  PROVE  Stored(s)' \/ Deciding(s)'
<1>1. UNCHANGED <<pem, pc>>
  BY DEF Request, AskWebsite, AskDomain, AskAction, AskIssue, AskRenew, AskDue, AskDomainAction,
         AskRename, AskCertificate, Ask, Commit, Withdraw, Suspend, Resume, hostVars
<1>2. ASSUME NEW j, Ask(j) PROVE Stored(s)' \/ Deciding(s)'
  <2>1. queue' = Append(queue, j) /\ UNCHANGED cert
    BY <1>2 DEF Ask, rows
  <2>2. CASE Deciding(s)
    <3>1. PICK k \in DOMAIN queue : Undecided(queue[k], s)
      BY <2>2 DEF Deciding, Certifying, Undecided
    <3>2. /\ k \in DOMAIN queue' /\ queue'[k] = queue[k]
          /\ \A n \in DOMAIN queue : n \in DOMAIN queue' /\ queue'[n] = queue[n]
      BY <2>1, <3>1, QueueIsJobs, LenProperties, AppendProperties DEF IInv
    <3>3. Certifying(s)'
      BY <3>1, <3>2 DEF Certifying, Undecided
    <3>4. ASSUME pc = "handled" PROVE held' = held
      <4>1. current \in DOMAIN queue /\ held = queue[current] /\ held.state = "running"
        BY <3>4, HeldIsJob DEF IInv, Holding
      <4>2. current \in DOMAIN queue' /\ queue'[current] = held
        BY <3>2, <4>1
      <4>3. WorkerFits'
        BY RequestInv DEF IInv
      <4>4. current' = current
        BY <4>1, <4>2, <4>3 DEF WorkerFits, current
      <4> QED BY <4>2, <4>4 DEF held
    <3> QED BY <1>1, <2>2, <3>3, <3>4, DecidingKept
  <2> QED BY <1>1, <2>1, <2>2, StoredKept
<1>3. ASSUME NEW i \in DOMAIN queue, Commit(i) PROVE Stored(s)' \/ Deciding(s)'
  <2>1. /\ queue[i].state = "asked" /\ Transaction(AsQueued(i))
        /\ (Holding => held' = held) /\ AsQueued(i) \in Job
        /\ Added(queue, DOMAIN queue \ {i}, AsQueued(i), queue')
    BY <1>3, CommitQueue DEF IInv
  <2>2. CASE Deciding(s)
    <3>1. \E k \in DOMAIN queue \ {i} : Undecided(queue[k], s)
      BY <2>1, <2>2 DEF Deciding, Certifying, Undecided
    <3> DEFINE A == DOMAIN queue \ {i}
    <3>2. A \in SUBSET DOMAIN queue
      OBVIOUS
    <3>3. PICK j : j = AsQueued(i)
      OBVIOUS
    <3>4. Added(queue, A, j, queue') /\ \E k \in A : Undecided(queue[k], s)
      BY <2>1, <3>1, <3>3
    <3> HIDE DEF A
    <3>5. Certifying(s)'
      BY <3>2, <3>4, CertifyingAdded
    <3> QED BY <1>1, <2>1, <2>2, <3>5, DecidingKept DEF Holding
  <2>3. CASE Stored(s) /\ UNCHANGED cert
    BY <1>1, <2>3, StoredKept
  <2>4. CASE Stored(s) /\ CommitCertificate(AsQueued(i))
    <3>1. PICK j \in Job : j = AsQueued(i)
      BY <2>1
    <3>2. /\ j.site \in Site /\ j.names \in SUBSET Hostname /\ j.host \in Hostname \cup {None}
          /\ \/ CreateCertificate(j.site, j.host, j.names)
             \/ UpdateCertificate(j.site, j.host, j.names)
      BY <2>4, <3>1 DEF CommitCertificate, Job
    <3>3. /\ cert'[s] = cert[s] \/ cert'[s].status = "pending"
      <4>1. \A t \in Site : cert'[t] = IF t = j.site THEN [status |-> "pending", name |-> j.host,
                                                          names |-> j.names] ELSE cert[t]
        BY <3>2, CertChanged DEF IInv, TypeOK, RowTypes
      <4> QED BY <4>1
    <3> QED BY <1>1, <2>4, <3>3 DEF Stored
  <2> QED BY <2>1, <2>2, <2>3, <2>4
      DEF Transaction, CommitWebsite, CommitDomain, CommitAction, CommitDomainAction, CommitRename
<1>4. ASSUME NEW i \in DOMAIN queue, Withdraw(i) PROVE Stored(s)' \/ Deciding(s)'
  <2>1. /\ queue[i].state = "asked" /\ UNCHANGED cert /\ (Holding => held' = held)
        /\ Corresponds(queue, DOMAIN queue \ {i}, queue', DOMAIN queue')
    BY <1>4, WithdrawQueue DEF IInv, Withdraw, rows
  <2>2. CASE Deciding(s)
    <3> DEFINE A == DOMAIN queue \ {i}
    <3>1. /\ A \in SUBSET DOMAIN queue /\ \E k \in A : Undecided(queue[k], s)
          /\ Corresponds(queue, A, queue', DOMAIN queue')
      BY <2>1, <2>2 DEF Deciding, Certifying, Undecided
    <3> HIDE DEF A
    <3>2. Certifying(s)'
      BY <3>1, CertifyingLeft
    <3> QED BY <1>1, <2>1, <2>2, <3>2, DecidingKept DEF Holding
  <2> QED BY <1>1, <2>1, <2>2, StoredKept
<1>5. CASE Suspend \/ Resume
  <2>1. UNCHANGED <<cert, queue>>
    BY <1>5 DEF Suspend, Resume, rows
  <2> QED BY <1>1, <2>1 DEF Stored, Deciding, Certifying, held, current
<1> QED BY <1>2, <1>3, <1>4, <1>5
    DEF Request, AskWebsite, AskDomain, AskAction, AskIssue, AskRenew, AskDue, AskDomainAction,
        AskRename, AskCertificate

LEMMA CertWorker ==
  ASSUME IInv, CertFits, Claim \/ CallNothing \/ Call \/ Handle \/ Settle \/ Orphaned,
         NEW s \in Site
  PROVE  Stored(s)' \/ Deciding(s)'
<1>1. UNCHANGED pem /\ (Stored(s) \/ Deciding(s)) /\ Installed
  BY CertFitsSplit DEF Claim, CallNothing, Call, Handle, Settle, Orphaned, hostVars
<1>2. CASE Claim
  <2>1. UNCHANGED cert /\ pc' = "claimed"
    BY <1>2 DEF Claim, rows
  <2>2. CASE Deciding(s)
    <3>1. PICK i \in DOMAIN queue :
            /\ held' = [queue[i] EXCEPT !.state = "running", !.tries = @ + 1] /\ held' \in Job
            /\ Added(queue, DOMAIN queue \ {i}, held', queue')
      BY <1>2, ClaimQueue DEF IInv
    <3>2. PICK k \in DOMAIN queue : Undecided(queue[k], s)
      BY <2>2 DEF Deciding, Certifying, Undecided
    <3>3. PICK j \in Job : j = held'
      BY <3>1
    <3>4. queue[i] \in Job
      BY QueueIsJobs DEF IInv
    <3>5. j.kind = queue[i].kind /\ j.site = queue[i].site /\ j.state = "running"
      BY <3>1, <3>3, <3>4 DEF Job
    <3> DEFINE A == DOMAIN queue \ {i}
    <3>6. /\ A \in SUBSET DOMAIN queue /\ Added(queue, A, j, queue')
          /\ Undecided(j, s) \/ \E n \in A : Undecided(queue[n], s)
      BY <3>1, <3>2, <3>3, <3>5 DEF Undecided
    <3> HIDE DEF A
    <3>7. Certifying(s)'
      BY <3>6, CertifyingAdded
    <3> QED BY <2>1, <3>7 DEF Deciding
  <2> QED BY <1>1, <2>1, <2>2, StoredKept
<1>3. ASSUME Holding, pc' = "handled", UNCHANGED queue, held' = held,
             \/ UNCHANGED cert \/ cert'[s] = NoCert
             \/ held.kind \in CertKinds /\ held.site # s /\ cert'[s] = cert[s],
             held.kind \in CertKinds /\ held.site = s => Stored(s)'
      PROVE  Stored(s)' \/ Deciding(s)'
  <2>1. CASE held.kind \in CertKinds /\ held.site = s
    BY <1>3, <2>1
  <2>2. CASE ~(held.kind \in CertKinds /\ held.site = s)
    <3>1. Certifying(s)' <=> Certifying(s)
      BY <1>3 DEF Certifying
    <3>2. Deciding(s) => Deciding(s)'
      BY <1>3, <2>2, <3>1 DEF Deciding
    <3>3. Stored(s) => Stored(s)'
      BY <1>1, <1>3 DEF Stored, NoCert
    <3> QED BY <1>1, <3>2, <3>3
  <2> QED BY <2>1, <2>2
<1>4. CASE CallNothing
  <2>1. Holding /\ pc' = "handled" /\ UNCHANGED queue /\ held' = held
    BY <1>4, QueueUnchanged DEF CallNothing, Holding, held, current
  <2>2. CASE held.kind \in CertKinds
    <3>1. RowGone /\ UNCHANGED rows /\ cert[held.site].status = "none"
      BY <1>4, <2>1, <2>2, CertJobs DEF CallNothing, Refused
    <3> QED BY <1>3, <2>1, <3>1 DEF rows, Stored
  <2>3. CASE held.kind \notin CertKinds
    <3>1. UNCHANGED cert
      BY <1>4, <2>3 DEF CallNothing, rows, Fail
    <3> QED BY <1>3, <2>1, <2>3, <3>1
  <2> QED BY <2>2, <2>3
<1>5. CASE Call
  <2>1. UNCHANGED <<cert, queue>> /\ pc' = "calling"
    BY <1>5 DEF Call, rows
  <2> QED BY <1>1, <2>1 DEF Stored, Deciding, Certifying
<1>6. CASE Handle
  <2>1. /\ Holding /\ pc' = "handled" /\ UNCHANGED queue /\ held' = held /\ ~RowGone
        /\ op.at = "end" /\ op.site = held.site /\ op.doing = Doing(held.kind)
    BY <1>6, HandleInv DEF Handle, Holding, IInv, CallFits
  <2>2. held.site \in Site /\ HasSite(held.site) /\ RowTypes
    BY <2>1, HeldRows DEF IInv, TypeOK, RowTypes
  <2>3. CASE held.kind \in CertKinds
    <3>1. \/ op.failed /\ SetResult(held.site, "error", cert[held.site].names)
          \/ ~op.failed /\ SetResult(held.site, "active", op.names)
      BY <1>6, <2>3
      DEF Handle, Fail, Succeed, Issued, CertKinds, SiteActions, DomainActions
    <3>2. cert[held.site].names \in SUBSET Hostname /\ op.names \in SUBSET Hostname
      BY <2>2, HostTypesOf DEF RowTypes, CertRow, IInv, TypeOK
    <3>3. /\ \A t \in Site \ {held.site} : cert'[t] = cert[t]
          /\ \/ cert'[held.site].status = "error"
             \/ ~op.failed /\ cert'[held.site].names = op.names
      BY <2>2, <3>1, <3>2, ResultSet
    <3>4. ASSUME s = held.site PROVE Stored(s)'
      <4>1. op.doing = "tls" /\ op.at = "end" /\ s0 = s
        <5>1. Doing(held.kind) = "tls"
          BY <2>3 DEF Doing, CertKinds
        <5> QED BY <2>1, <3>4, <5>1 DEF s0
      <4>2. ~op.failed => op.names = pem[s]
        BY <1>1, <4>1 DEF Installed
      <4>3. \/ cert'[s].status = "error" \/ cert'[s].names = pem'[s]
        BY <1>1, <3>3, <3>4, <4>2
      <4> QED BY <4>3 DEF Stored
    <3> QED BY <1>3, <2>1, <2>3, <3>3, <3>4
  <2>4. CASE held.kind = "website.delete"
    <3>1. cert'[s] = cert[s] \/ cert'[s] = NoCert
      <4>1. CASE op.failed
        BY <1>6, <2>4, <4>1 DEF Handle, Fail, CertKinds
      <4>2. CASE ~op.failed
        <5>1. DropSite(held.site)
          BY <1>6, <2>4, <4>2 DEF Handle, Succeed, CertKinds
        <5> QED BY <2>2, <5>1, SiteDropped DEF IInv
      <4> QED BY <4>1, <4>2
    <3>2. Certifying(s)' <=> Certifying(s)
      BY <2>1 DEF Certifying
    <3> QED BY <1>1, <2>1, <2>4, <3>1, <3>2 DEF Stored, Deciding, NoCert, CertKinds
  <2>5. CASE held.kind \notin CertKinds \cup {"website.delete"}
    <3>1. UNCHANGED cert
      BY <1>6, <2>5 DEF Handle, Fail, Succeed
    <3> QED BY <1>3, <2>1, <2>5, <3>1
  <2> QED BY <2>3, <2>4, <2>5
<1>7. CASE Settle
  <2>1. UNCHANGED cert /\ pc = "handled" /\ pc' = "idle" /\ Holding
    BY <1>7 DEF Settle, rows, Holding
  <2>2. CASE Deciding(s)
    <3>1. PICK k \in DOMAIN queue : Undecided(queue[k], s)
      BY <2>2 DEF Deciding, Certifying, Undecided
    <3>2. k # current
      BY <2>1, <2>2, <3>1, HeldIsJob DEF Deciding, Undecided, IInv
    <3> DEFINE A == DOMAIN queue \ {current}
    <3>3. A \in SUBSET DOMAIN queue /\ \E n \in A : Undecided(queue[n], s)
      BY <3>1, <3>2
    <3>4. \/ Added(queue, A, Requeued, queue')
          \/ Corresponds(queue, A, queue', DOMAIN queue')
      BY <1>7, SettleQueue DEF IInv
    <3>5. PICK j : j = Requeued
      OBVIOUS
    <3>6. Added(queue, A, Requeued, queue') => Added(queue, A, j, queue')
      BY <3>5
    <3> HIDE DEF A
    <3>7. Certifying(s)'
      BY <3>3, <3>4, <3>6, CertifyingAdded, CertifyingLeft
    <3> QED BY <2>1, <3>7 DEF Deciding
  <2> QED BY <1>1, <2>1, <2>2, StoredKept
<1>8. CASE Orphaned
  <2>1. UNCHANGED <<cert, queue, pc>>
    BY <1>8 DEF Orphaned, panel, rows
  <2> QED BY <1>1, <2>1 DEF Stored, Deciding, Certifying, held, current
<1> QED BY <1>2, <1>4, <1>5, <1>6, <1>7, <1>8

LEMMA CertNext ==
  ASSUME IInv, CertFits, [Next]_vars, ~HandleUnsaved
  PROVE  CertFits'
<1>1. Installed'
  BY InstalledKept, CertFitsSplit
<1>2. ASSUME NEW s \in Site PROVE Stored(s)' \/ Deciding(s)'
  <2>1. Stored(s) \/ Deciding(s)
    BY CertFitsSplit
  <2>2. CASE Request
    BY <2>1, <2>2, CertRequest
  <2>3. CASE Claim \/ CallNothing \/ Call \/ Handle \/ Settle \/ Orphaned
    BY <2>3, CertWorker
  <2>4. CASE HostNext /\ UNCHANGED panel
    <3>1. UNCHANGED <<cert, queue, pc>>
      BY <2>4 DEF panel, rows
    <3>2. CASE pem'[s] = pem[s]
      BY <2>1, <3>1, <3>2 DEF Stored, Deciding, Certifying, held, current
    <3>3. CASE pem'[s] # pem[s]
      <4>1. s = op.site
        BY <2>4, <3>3, HostElsewhere DEF Elsewhere, IInv, TypeOK
      <4>2. op.doing = "tls" /\ ~op.lost /\ op.at # "off"
        BY <2>4, <3>3
        DEF HostNext, AgentStep, AgentDies, Cancel, EnsureRoot, Certify, CertifyFails, Install,
            RemoveNothing, RemoveLink, RemoveConfig, Test, TestFails, Reload, ReloadFails, Recover,
            RecoverFails, Quarantine, QuarantineFails
      <4>3. pc = "calling" /\ held.site = s /\ Doing(held.kind) = "tls"
        BY <4>1, <4>2 DEF IInv, CallFits
      <4>4. held.kind \in CertKinds
        BY <4>3 DEF Doing
      <4>5. Certifying(s)
        BY <4>3, <4>4, CertJobs DEF Certifying, Undecided, Holding
      <4> QED BY <3>1, <4>3, <4>5 DEF Deciding, Certifying
    <3> QED BY <3>2, <3>3
  <2>5. CASE Crash
    <3>1. UNCHANGED <<cert, queue, pem>> /\ pc' = "down"
      BY <2>5 DEF Crash, rows
    <3> QED BY <2>1, <3>1 DEF Stored, Deciding, Certifying
  <2>6. CASE Restart
    <3>1. UNCHANGED <<cert, pem>> /\ pc' = "idle"
      BY <2>6 DEF Restart, rows, hostVars
    <3>2. /\ DOMAIN queue' = DOMAIN queue
          /\ \A i \in DOMAIN queue : queue[i] \in Job /\ queue'[i] = Recovered(queue[i])
      BY <2>6, RestartQueue, QueueIsJobs DEF IInv
    <3>3. \A i \in DOMAIN queue : Undecided(queue[i], s) => Undecided(queue'[i], s)
      BY <3>2, RecoveredFields DEF Undecided
    <3>4. Certifying(s) => Certifying(s)'
      BY <3>2, <3>3 DEF Certifying, Undecided
    <3> QED BY <2>1, <3>1, <3>4 DEF Stored, Deciding
  <2>7. CASE UNCHANGED vars
    <3>1. UNCHANGED <<cert, queue, pem, pc>>
      BY <2>7 DEF vars, panel, rows, hostVars
    <3> QED BY <2>1, <3>1 DEF Stored, Deciding, Certifying, held, current
  <2> QED BY <2>2, <2>3, <2>4, <2>5, <2>6, <2>7 DEF Next, WorkerStep
<1>3. (Installed /\ \A s \in Site : Stored(s) \/ Deciding(s))'
  BY <1>1, <1>2
<1> QED BY <1>3 DEF CertFits, Installed, Stored, Deciding

(* A certificate shown as active, with no job of its website under way,    *)
(* lists the names of the one on disk, unless what a handler has to store  *)
(* could not be written: then a renewal leaves the row of the certificate  *)
(* it has replaced (certificates/service.go, certbot/certbot.go).          *)
THEOREM CertificatesAreTruthful ==
  Spec /\ [][~HandleUnsaved]_vars => []CertificateIsTruthful
<1>1. Init => CertFits
  BY NoOpIsOp DEF Init, HostInit, CertFits, NoCert
<1>2. IInv /\ CertFits /\ [Next]_vars /\ [~HandleUnsaved]_vars => CertFits'
  <2>1. HandleUnsaved => ~UNCHANGED vars
    BY DEF HandleUnsaved, vars, panel
  <2> QED BY <2>1, CertNext
<1>3. CertFits => CertificateIsTruthful
  BY DEF CertFits, CertificateIsTruthful, Certifying, Unfinished
<1> QED BY <1>1, <1>2, <1>3, HostingInvariance, PTL DEF Spec

-------------------------------------------------------------------------------
(* What nginx serves while all goes well.                                  *)

AllWell == faults = 0 /\ cancelled = 0 /\ deaths = 0 /\ mishaps = 0 /\ suspends = 0

(* A job that has not been carried out, and what the row of its hostname   *)
(* shows meanwhile.                                                        *)
Open(j) == \/ j.state = "queued"
           \/ j.state = "running" /\ ~(pc = "handled" /\ ok)
Wants(j) ==
  j.dom # None /\ HasDomain(j.dom) =>
    /\ dom[j.dom].status = "pending"
    /\ j.kind # "domain.update" => dom[j.dom].prev = None
    /\ j.kind = "domain.delete" => ~dom[j.dom].enabled
Rivals(i, k) == i # k /\ Open(queue[i]) /\ Open(queue[k])
                /\ queue[i].dom # None /\ queue[i].dom = queue[k].dom
JobsInStep ==
  /\ \A i \in DOMAIN queue : Open(queue[i]) => Wants(queue[i])
  /\ \A i, k \in DOMAIN queue : Rivals(i, k) => ~HasDomain(queue[i].dom)

(* Only a hostname that is being renamed has two names.                    *)
RenamesFit ==
  \A d \in Domain : /\ dom[d].prev # None => dom[d].status = "pending"
                    /\ HasDomain(d) => dom[d].prev # dom[d].host

(* A website whose certificates nobody requests has none.                  *)
UnsecuredFit ==
  /\ \A s \in Site \ Secured : cert[s].status = "none"
  /\ \A i \in DOMAIN queue : queue[i].kind \in CertKinds => queue[i].site \in Secured

(* Nothing stops, and what fails has changed nothing for nginx.            *)
Going == /\ usable /\ pc # "down"
         /\ op.failed => op.at = "end" /\ op.doing \in {"tls", "delete"}

(* The names of a website's hostnames, those being given up included.      *)
Bound(s) == UNION {{dom[d].host, dom[d].prev} : d \in DomainsOf(s)}

(* What a website is configured with: names it has, among them all that    *)
(* are shown active; of the hostname its job is about, the name it has or  *)
(* gets, and none if it is disabled or removed.                            *)
EnsureFits ==
  op.doing = "ensure" /\ op.at # "off" =>
    /\ op.names \subseteq Bound(op.site) /\ Active(op.site) \subseteq op.names
    /\ held.dom # None =>
         /\ dom[held.dom].prev \notin op.names
         /\ dom[held.dom].host \in op.names <=> dom[held.dom].enabled
InstallFits ==
  Applies /\ op.at \in {"test", "reload", "end"} /\ ~op.failed =>
    link[s0] /\ conf[s0] = [names |-> op.names, tls |-> op.doing = "tls"]

(* What is configured and what is served, of every website.                *)
NamesBound ==
  \A s \in Site \ Secured : running[s].names \subseteq Bound(s) /\ conf[s].names \subseteq Bound(s)
Removing(s) == s = op.site /\ ~Applies /\ op.at \in {"trash", "end"}
ActiveServed ==
  \A s \in Site : site[s].status = "active" /\ ~Removing(s) =>
    running[s].tls \/ Active(s) \subseteq running[s].names
Securing(s) == s = op.site /\ op.doing = "tls" /\ op.at \in {"test", "reload", "end"}
CertServed ==
  \A s \in Site : cert[s].status = "active" /\ conf[s].tls /\ ~Securing(s) =>
    conf[s].names = cert[s].names

Well == /\ Going /\ JobsInStep /\ RenamesFit
        /\ EnsureFits /\ InstallFits /\ NamesBound /\ ActiveServed /\ CertServed
WellSoFar == AllWell => Well

(* What the earlier sections have shown. *)
Known == IInv /\ RemovalFits /\ LoadedFits /\ HostnamesHaveOneOwner /\ UnsecuredFit

LEMMA WellSteps ==
  ASSUME TypeOK, [Next]_vars, AllWell'
  PROVE  AllWell /\ Unhurt' /\ ~AgentDies /\ ~Cancel /\ ~HandleUnsaved /\ ~Crash /\ ~Suspend
<1>1. /\ faults \in Nat /\ cancelled \in Nat /\ deaths \in Nat /\ mishaps \in Nat
      /\ suspends \in Nat
  BY HostingAssumption, WebHostAssumption DEF TypeOK, HostTypeOK
<1>2. Unhurt /\ Unhurt' /\ ~AgentDies /\ ~Cancel /\ ~(mishaps' > 0)
  BY UnhurtSteps DEF AllWell, Unhurt
<1>3. ~HandleUnsaved /\ ~Crash
  BY <1>1, <1>2 DEF HandleUnsaved, Crash, Mishap
<1>4. ~Suspend
  BY <1>1 DEF Suspend, AllWell
<1>5. faults = 0 /\ suspends = 0
  <2>1. CASE UNCHANGED <<faults, suspends>>
    BY <2>1 DEF AllWell
  <2>2. CASE HostNext /\ UNCHANGED panel
    BY <1>1, <1>2, <2>2
        DEF AllWell, HostNext, AgentStep, EnsureRoot, Certify, CertifyFails, Install, RemoveNothing,
            RemoveLink, RemoveConfig, Test, TestFails, Reload, ReloadFails, Recover, RecoverFails,
            Quarantine, QuarantineFails, Fails, harm, panel, count
  <2> QED BY <1>3, <1>4, <2>1, <2>2
      DEF Next, Request, WorkerStep, AskWebsite, AskDomain, AskAction, AskIssue, AskRenew, AskDue,
          AskDomainAction, AskRename, AskCertificate, Ask, Commit, Withdraw, Resume, Claim,
          CallNothing, Call, Handle, Settle, Orphaned, Restart, vars, panel, hostVars, harm, count
<1> QED BY <1>2, <1>3, <1>4, <1>5 DEF AllWell, Unhurt

(* The Agent is never asked by nobody, and no command fails.               *)
LEMMA WellOp ==
  ASSUME Known, AllWell, Well
  PROVE  /\ Serving /\ ~op.lost
         /\ op.at # "off" => /\ pc = "calling" /\ Holding /\ held \in Job /\ ~RowGone
                             /\ op.site = held.site /\ op.doing = Doing(held.kind)
                             /\ op.site \in Site /\ HasSite(op.site)
         /\ AllWell' => ~Fails
<1>1. Serving
  BY DEF Known, LoadedFits, Serving, AllWell, Unhurt
<1>2. op.at # "off" => pc = "calling"
  BY <1>1 DEF Known, IInv, CallFits, Serving
<1>3. AllWell' => ~Fails
  BY <1>1 DEF AllWell, Fails, Serving
<1> QED BY <1>1, <1>2, <1>3, HeldIsJob DEF Known, IInv, CallFits, OpFits, Holding, Serving

(* Names, one by one. *)
LEMMA BoundName ==
  ASSUME NEW s, NEW h
  PROVE  h \in Bound(s) <=> \E d \in Domain : /\ HasDomain(d) /\ dom[d].site = s
                                              /\ h = dom[d].host \/ h = dom[d].prev
BY DEF Bound, DomainsOf
LEMMA ActiveName ==
  ASSUME NEW s, NEW h
  PROVE  h \in Active(s) <=> \E d \in Domain : /\ HasDomain(d) /\ dom[d].site = s
                                               /\ dom[d].enabled /\ dom[d].status = "active"
                                               /\ h = dom[d].host
BY DEF Active, DomainsOf
LEMMA EnabledName ==
  ASSUME NEW s, NEW h
  PROVE  h \in Enabled(s) <=> \E d \in Domain : /\ HasDomain(d) /\ dom[d].site = s
                                                /\ dom[d].enabled /\ h = dom[d].host
BY DEF Enabled, DomainsOf

(* A website of whose domains none changes keeps its names.                *)
LEMMA NamesElsewhere ==
  ASSUME NEW s, \A d \in Domain : dom'[d] = dom[d] \/ (dom[d].site # s /\ dom'[d].site # s)
                                  \/ (~HasDomain(d) /\ dom'[d].site # s)
                                  \/ (dom[d].site # s /\ ~HasDomain(d)')
  PROVE  Bound(s)' = Bound(s) /\ Active(s)' = Active(s)
<1>1. \A d \in Domain : HasDomain(d)' /\ dom'[d].site = s <=> HasDomain(d) /\ dom[d].site = s
  BY DEF HasDomain
<1>2. \A d \in Domain : HasDomain(d) /\ dom[d].site = s => dom'[d] = dom[d]
  BY <1>1
<1> QED BY <1>1, <1>2 DEF Bound, Active, DomainsOf

-------------------------------------------------------------------------------
(* Jobs, while all goes well. *)

(* The job at k is one that was there, and no more open than it was.       *)
SameJob(k, i) == /\ queue'[k].dom = queue[i].dom /\ queue'[k].kind = queue[i].kind
                 /\ Open(queue[k])' => Open(queue[i])
JobsStay ==
  /\ \A k \in DOMAIN queue' : Open(queue[k])' => \E i \in DOMAIN queue : SameJob(k, i)
  /\ \A k, l \in DOMAIN queue' : k # l /\ Open(queue[k])' /\ Open(queue[l])' =>
       \E i, j \in DOMAIN queue : i # j /\ SameJob(k, i) /\ SameJob(l, j)

LEMMA StepKept ==
  ASSUME JobsInStep, JobsStay, UNCHANGED dom
  PROVE  JobsInStep'
<1>1. ASSUME NEW k \in DOMAIN queue', Open(queue[k])'
      PROVE  Wants(queue[k])'
  <2>1. PICK i \in DOMAIN queue : SameJob(k, i)
    BY <1>1 DEF JobsStay
  <2>2. Wants(queue[i])
    BY <1>1, <2>1 DEF SameJob, JobsInStep
  <2> QED BY <2>1, <2>2 DEF SameJob, Wants, HasDomain
<1>2. ASSUME NEW k \in DOMAIN queue', NEW l \in DOMAIN queue', Rivals(k, l)'
      PROVE  ~HasDomain(queue[k].dom)'
  <2>1. PICK i, j \in DOMAIN queue : i # j /\ SameJob(k, i) /\ SameJob(l, j)
    BY <1>2 DEF JobsStay, Rivals
  <2>2. ~HasDomain(queue[i].dom)
    BY <1>2, <2>1 DEF SameJob, JobsInStep, Rivals
  <2> QED BY <2>1, <2>2 DEF SameJob, HasDomain
<1> QED BY <1>1, <1>2 DEF JobsInStep

(* Jobs that another one joins. *)
LEMMA StaysCorresponding ==
  ASSUME NEW A \in SUBSET DOMAIN queue, Corresponds(queue, A, queue', DOMAIN queue'),
         \A i \in A, k \in DOMAIN queue' : queue'[k] = queue[i] => SameJob(k, i)
  PROVE  JobsStay
BY DEF Corresponds, JobsStay

LEMMA StaysAdding ==
  ASSUME NEW A \in SUBSET DOMAIN queue, NEW e, Added(queue, A, e, queue'),
         \A i \in A, k \in DOMAIN queue' : queue'[k] = queue[i] => SameJob(k, i),
         \/ \A k \in DOMAIN queue' : queue'[k] = e => ~Open(queue[k])'
         \/ \E i \in DOMAIN queue \ A : \A k \in DOMAIN queue' : queue'[k] = e => SameJob(k, i)
  PROVE  JobsStay
<1>1. PICK n \in DOMAIN queue' : queue'[n] = e /\ Corresponds(queue, A, queue', DOMAIN queue' \ {n})
  BY DEF Added
<1>2. \A k \in DOMAIN queue' \ {n} : \E i \in A : SameJob(k, i)
  BY <1>1 DEF Corresponds
<1>3. \A k, l \in DOMAIN queue' \ {n} : k # l => \E i, j \in A : i # j /\ SameJob(k, i) /\ SameJob(l, j)
  BY <1>1 DEF Corresponds
<1>4. CASE \A k \in DOMAIN queue' : queue'[k] = e => ~Open(queue[k])'
  <2>1. ~Open(queue[n])'
    BY <1>1, <1>4
  <2> QED BY <1>2, <1>3, <2>1 DEF JobsStay
<1>5. CASE \E i \in DOMAIN queue \ A : \A k \in DOMAIN queue' : queue'[k] = e => SameJob(k, i)
  <2>1. PICK i \in DOMAIN queue \ A : SameJob(n, i)
    BY <1>1, <1>5
  <2> QED BY <1>2, <1>3, <2>1 DEF JobsStay
<1> QED BY <1>4, <1>5

LEMMA AskStays ==
  ASSUME TypeOK, WorkerFits, NEW j \in Job, j.state = "asked", j.tries = 0, Ask(j)
  PROVE  JobsStay
<1> DEFINE A == DOMAIN queue
<1>1. Added(queue, A, j, queue') /\ pc' = pc /\ ok' = ok
  BY AskQueue DEF Ask
<1>2. A \in SUBSET DOMAIN queue
  OBVIOUS
<1>3. \A i \in A, k \in DOMAIN queue' : queue'[k] = queue[i] => SameJob(k, i)
  BY <1>1 DEF SameJob, Open
<1>4. \A k \in DOMAIN queue' : queue'[k] = j => ~Open(queue[k])'
  BY DEF Open
<1> HIDE DEF A
<1> QED BY <1>1, <1>2, <1>3, <1>4, StaysAdding

LEMMA WithdrawStays ==
  ASSUME TypeOK, WorkerFits, NEW i \in DOMAIN queue, Withdraw(i)
  PROVE  JobsStay
<1> DEFINE A == DOMAIN queue \ {i}
<1>1. Corresponds(queue, A, queue', DOMAIN queue') /\ pc' = pc /\ ok' = ok
  BY WithdrawQueue DEF Withdraw
<1>2. A \in SUBSET DOMAIN queue
  OBVIOUS
<1>3. \A x \in A, k \in DOMAIN queue' : queue'[k] = queue[x] => SameJob(k, x)
  BY <1>1 DEF SameJob, Open
<1> HIDE DEF A
<1> QED BY <1>1, <1>2, <1>3, StaysCorresponding

LEMMA ClaimStays ==
  ASSUME TypeOK, WorkerFits, Claim
  PROVE  JobsStay
<1>1. PICK i \in DOMAIN queue :
        /\ queue[i].state = "queued"
        /\ held' = [queue[i] EXCEPT !.state = "running", !.tries = @ + 1]
        /\ Added(queue, DOMAIN queue \ {i}, held', queue')
  BY ClaimQueue
<1> DEFINE A == DOMAIN queue \ {i}
<1>2. A \in SUBSET DOMAIN queue /\ i \in DOMAIN queue \ A /\ Added(queue, A, held', queue')
  BY <1>1
<1>3. queue[i] \in Job /\ pc = "idle" /\ pc' = "claimed" /\ ok' = ok
  BY QueueIsJobs DEF Claim
<1>4. \A x \in A, k \in DOMAIN queue' : queue'[k] = queue[x] => SameJob(k, x)
  BY <1>3 DEF SameJob, Open, WorkerFits
<1>5. held'.dom = queue[i].dom /\ held'.kind = queue[i].kind
  BY <1>1, <1>3 DEF Job
<1>6. \A k \in DOMAIN queue' : queue'[k] = held' => SameJob(k, i)
  BY <1>1, <1>5 DEF SameJob, Open
<1> HIDE DEF A
<1> QED BY <1>2, <1>4, <1>6, StaysAdding

LEMMA SettleStays ==
  ASSUME TypeOK, WorkerFits, Settle
  PROVE  JobsStay
<1> DEFINE A == DOMAIN queue \ {current}
<1>1. /\ current \in DOMAIN queue /\ held = queue[current] /\ held \in Job
      /\ held.state = "running" /\ pc = "handled" /\ pc' = "idle" /\ ok' = ok
      /\ \A i \in A : queue[i].state # "running"
  BY HeldIsJob DEF Settle, Holding
<1>2. \/ ~ok /\ Added(queue, A, Requeued, queue')
      \/ Corresponds(queue, A, queue', DOMAIN queue')
  BY SettleQueue
<1>3. \A x \in A, k \in DOMAIN queue' : queue'[k] = queue[x] => SameJob(k, x)
  BY <1>1 DEF SameJob, Open
<1>4. Requeued.dom = held.dom /\ Requeued.kind = held.kind
  BY <1>1 DEF Requeued, Job
<1>5. ~ok => \A k \in DOMAIN queue' : queue'[k] = Requeued => SameJob(k, current)
  BY <1>1, <1>4 DEF SameJob, Open
<1>6. A \in SUBSET DOMAIN queue /\ current \in DOMAIN queue \ A
  BY <1>1
<1> HIDE DEF A
<1> QED BY <1>2, <1>3, <1>5, <1>6, StaysAdding, StaysCorresponding

(* The worker goes on with the job it holds. *)
LEMMA HoldStays ==
  ASSUME UNCHANGED queue, \A i \in DOMAIN queue : Open(queue[i])' => Open(queue[i])
  PROVE  JobsStay
BY DEF JobsStay, SameJob

(* A transaction takes no hostname that an open job is about.              *)
Settled(d) == dom[d].status = "none" \/ (HasDomain(d) /\ dom[d].status # "pending")

LEMMA TakesStep ==
  ASSUME IInv, JobsInStep, NEW i \in DOMAIN queue, Commit(i), NEW j \in Job, j = AsQueued(i),
         j.dom # None => j.dom \in Domain /\ Settled(j.dom),
         \A e \in Domain : e # j.dom => dom'[e] = dom[e], Wants(j)'
  PROVE  JobsInStep'
<1>1. Added(queue, DOMAIN queue \ {i}, j, queue') /\ pc' = pc /\ ok' = ok
  BY CommitQueue DEF Commit, IInv
<1>2. PICK n \in DOMAIN queue' :
        /\ queue'[n] = j
        /\ Corresponds(queue, DOMAIN queue \ {i}, queue', DOMAIN queue' \ {n})
  BY <1>1 DEF Added
<1>3. ASSUME NEW k \in DOMAIN queue', k # n, Open(queue[k])'
      PROVE  \E x \in DOMAIN queue : queue'[k] = queue[x] /\ Open(queue[x])
  BY <1>1, <1>2, <1>3 DEF Corresponds, Open
<1>4. ASSUME NEW x \in DOMAIN queue, Open(queue[x])
      PROVE  /\ queue[x].dom # None => queue[x].dom \in Domain /\ queue[x].dom # j.dom
             /\ Wants(queue[x])
  <2>1. queue[x] \in Job /\ JobFits(queue[x]) /\ Wants(queue[x])
    BY <1>4, QueueIsJobs DEF IInv, JobsFit, JobsInStep
  <2>2. queue[x].state # "asked"
    BY <1>4 DEF Open
  <2>3. queue[x].dom # None => dom[queue[x].dom].status # "none"
    BY <2>1, <2>2 DEF JobFits
  <2> QED BY <2>1, <2>2, <2>3 DEF Settled, Wants, Job
<1>5. ASSUME NEW k \in DOMAIN queue', Open(queue[k])' PROVE Wants(queue[k])'
  <2>1. CASE k = n
    BY <1>2, <2>1 DEF Wants, HasDomain
  <2>2. CASE k # n
    <3>1. PICK x \in DOMAIN queue : queue'[k] = queue[x] /\ Open(queue[x])
      BY <1>3, <1>5, <2>2
    <3>2. queue[x].dom # None => dom'[queue[x].dom] = dom[queue[x].dom]
      BY <1>4, <3>1
    <3>3. Wants(queue[x])
      BY <1>4, <3>1
    <3> QED BY <3>1, <3>2, <3>3 DEF Wants, HasDomain
  <2> QED BY <2>1, <2>2
<1>6. ASSUME NEW k \in DOMAIN queue', NEW l \in DOMAIN queue', Rivals(k, l)'
      PROVE  ~HasDomain(queue[k].dom)'
  <2>1. k # n /\ l # n /\ k # l
    <3>1. ASSUME NEW m \in DOMAIN queue', m # n, Open(queue[m])', queue'[m].dom = j.dom,
                 j.dom # None
          PROVE  FALSE
      BY <1>3, <1>4, <3>1
    <3>2. /\ k # l /\ Open(queue[k])' /\ Open(queue[l])' /\ queue'[k].dom = queue'[l].dom
          /\ queue'[k].dom # None /\ queue'[n].dom = j.dom
      BY <1>2, <1>6 DEF Rivals
    <3> QED BY <3>1, <3>2
  <2>2. PICK x, y \in DOMAIN queue : x # y /\ queue'[k] = queue[x] /\ queue'[l] = queue[y]
    BY <1>2, <2>1 DEF Corresponds
  <2>3. Open(queue[x]) /\ Open(queue[y])
    BY <1>1, <1>6, <2>2 DEF Rivals, Open
  <2>4. ~HasDomain(queue[x].dom) /\ queue[x].dom # None
    BY <1>6, <2>2, <2>3 DEF JobsInStep, Rivals
  <2>5. dom'[queue[x].dom] = dom[queue[x].dom]
    BY <1>4, <2>3, <2>4
  <2> QED BY <2>2, <2>4, <2>5 DEF HasDomain
<1> QED BY <1>5, <1>6 DEF JobsInStep

-------------------------------------------------------------------------------
(* Rows, while all goes well. *)

(* What requests may do to what is shown and to the names there are.       *)
ShownLess ==
  \A s \in Site : /\ \A h \in Hostname : h \in Bound(s) => h \in Bound(s)'
                  /\ Active(s)' \subseteq Active(s)
                  /\ site'[s].status = "active" => site[s].status = "active"
                  /\ cert'[s].status = "active" => cert'[s] = cert[s]
RowsCalm ==
  /\ ShownLess
  /\ pc = "calling" /\ held.dom # None => dom'[held.dom] = dom[held.dom]

LEMMA CalmUnchanged == ASSUME UNCHANGED rows PROVE RowsCalm
BY DEF RowsCalm, ShownLess, rows, Bound, Active, DomainsOf, HasDomain

(* One hostname is made, is to be changed, or gets another name.           *)
LEMMA NamesGrow ==
  ASSUME NEW d, \A e \in Domain : e # d => dom'[e] = dom[e],
         d \in Domain => /\ dom'[d].status = "pending"
                         /\ HasDomain(d) => /\ HasDomain(d)' /\ dom'[d].site = dom[d].site
                                            /\ {dom[d].host, dom[d].prev}
                                                 \subseteq {dom'[d].host, dom'[d].prev, None}
  PROVE  \A s \in Site : /\ \A h \in Hostname : h \in Bound(s) => h \in Bound(s)'
                         /\ Active(s)' \subseteq Active(s)
<1> TAKE s \in Site
<1>1. ASSUME NEW h \in Hostname, h \in Bound(s) PROVE h \in Bound(s)'
  <2>1. PICK e \in Domain : /\ HasDomain(e) /\ dom[e].site = s
                            /\ h = dom[e].host \/ h = dom[e].prev
    BY <1>1, BoundName
  <2>2. HasDomain(e)' /\ dom'[e].site = s /\ (h = dom'[e].host \/ h = dom'[e].prev)
    <3>1. CASE e = d
      BY <2>1, <3>1, WebHostAssumption
    <3>2. CASE e # d
      BY <2>1, <3>2 DEF HasDomain
    <3> QED BY <3>1, <3>2
  <2> QED BY <2>2 DEF Bound, DomainsOf
<1>2. ASSUME NEW h, h \in Active(s)' PROVE h \in Active(s)
  <2>1. PICK e \in Domain : /\ HasDomain(e)' /\ dom'[e].site = s /\ dom'[e].enabled
                            /\ dom'[e].status = "active" /\ h = dom'[e].host
    BY <1>2 DEF Active, DomainsOf
  <2>2. e # d
    BY <2>1
  <2>3. HasDomain(e) /\ dom'[e] = dom[e]
    BY <2>1, <2>2 DEF HasDomain
  <2> QED BY <2>1, <2>3, ActiveName
<1> QED BY <1>1, <1>2

TransactionFits(j) ==
  /\ j.dom # None => j.dom \in Domain /\ Settled(j.dom)
  /\ \A e \in Domain : e # j.dom => dom'[e] = dom[e]
  /\ Wants(j)' /\ RenamesFit' /\ ShownLess

LEMMA TransactionCalm ==
  ASSUME RowTypes, RowsFit, RenamesFit, NEW a \in Job, a.state = "asked", JobFits(a),
         NEW j \in Job, j = [a EXCEPT !.state = "queued"], Transaction(j)
  PROVE  TransactionFits(j)
<1> DEFINE d == j.dom
<1>1. /\ j.site \in Site /\ j.names \in SUBSET Hostname /\ j.host \in Hostname \cup {None}
      /\ j.kind \in NameKinds => j.host \in Hostname
      /\ IF j.kind \in DomainActions \cup NameKinds THEN d \in Domain ELSE d = None
  BY DEF Job, JobFits
<1> HIDE DEF d
<1>2. ASSUME d \in Domain, Settled(d), \A e \in Domain \ {d} : dom'[e] = dom[e],
             dom'[d].status = "pending", dom'[d].prev # dom'[d].host,
             j.kind # "domain.update" => dom'[d].prev = None,
             j.kind = "domain.delete" => ~dom'[d].enabled,
             HasDomain(d) => /\ dom'[d].site = dom[d].site
                             /\ {dom[d].host, dom[d].prev} \subseteq {dom'[d].host, dom'[d].prev, None},
             \A s \in Site : site'[s].status = "active" => site[s].status = "active",
             UNCHANGED cert
      PROVE  TransactionFits(j)
  <2>1. HasDomain(d)'
    BY <1>2 DEF HasDomain
  <2>2. \A s \in Site : /\ \A h \in Hostname : h \in Bound(s) => h \in Bound(s)'
                        /\ Active(s)' \subseteq Active(s)
    BY <1>2, <2>1, NamesGrow
  <2>3. RenamesFit'
    BY <1>2 DEF RenamesFit, HasDomain
  <2>4. Wants(j)'
    BY <1>2 DEF Wants, d
  <2> QED BY <1>2, <2>2, <2>3, <2>4 DEF TransactionFits, ShownLess, d
<1>3. ASSUME d = None, UNCHANGED dom,
             \A s \in Site : /\ site'[s].status = "active" => site[s].status = "active"
                             /\ cert'[s].status = "active" => cert'[s] = cert[s]
      PROVE  TransactionFits(j)
  <2>1. Wants(j)' /\ RenamesFit'
    BY <1>3 DEF Wants, RenamesFit, HasDomain, d
  <2>2. \A s : Bound(s)' = Bound(s) /\ Active(s)' = Active(s)
    BY <1>3 DEF Bound, Active, DomainsOf, HasDomain
  <2> QED BY <1>3, <2>1, <2>2 DEF TransactionFits, ShownLess, d
<1>4. ASSUME NEW kind \in {"primary", "alias"}, j.kind \in CreateKinds, dom[d].status = "none",
             CreateWebsiteDomain(d, j.site, kind, j.host)
      PROVE  /\ d \in Domain /\ Settled(d) /\ \A e \in Domain \ {d} : dom'[e] = dom[e]
             /\ dom'[d].status = "pending" /\ dom'[d].prev # dom'[d].host /\ dom'[d].prev = None
             /\ ~HasDomain(d)
  <2>1. d \in Domain /\ j.host \in Hostname
    BY <1>1, <1>4 DEF NameKinds
  <2>2. /\ dom'[d] = [status |-> "pending", enabled |-> TRUE, site |-> j.site, kind |-> kind,
                      host |-> j.host, prev |-> None]
        /\ \A e \in Domain \ {d} : dom'[e] = dom[e]
    BY <1>1, <1>4, <2>1, DomainCreated
  <2>3. dom'[d].status = "pending" /\ dom'[d].prev = None /\ dom'[d].host = j.host
    BY <2>2
  <2> QED BY <1>4, <2>1, <2>2, <2>3, WebHostAssumption DEF Settled, HasDomain
<1>5. CASE CommitWebsite(j)
  <2>1. \A s \in Site : site'[s].status = "active" => site[s].status = "active"
    BY <1>1, <1>5 DEF CommitWebsite, CreateWebsite, RowTypes
  <2>2. /\ j.kind \in CreateKinds /\ dom[d].status = "none" /\ UNCHANGED cert
        /\ CreateWebsiteDomain(d, j.site, "primary", j.host) /\ j.kind = "website.create"
    BY <1>5 DEF CommitWebsite, CreateKinds, d
  <2> QED BY <1>2, <1>4, <2>1, <2>2 DEF d
<1>6. CASE CommitDomain(j)
  <2>1. /\ j.kind \in CreateKinds /\ dom[d].status = "none" /\ UNCHANGED <<site, cert>>
        /\ CreateWebsiteDomain(d, j.site, "alias", j.host) /\ j.kind = "domain.create"
    BY <1>6 DEF CommitDomain, CreateKinds, d
  <2> QED BY <1>2, <1>4, <2>1 DEF d
<1>7. CASE CommitAction(j)
  <2>1. j.kind \in SiteActions /\ UNCHANGED <<dom, cert>>
        /\ QueueWebsiteAction(j.site, j.kind = "website.enable")
    BY <1>7 DEF CommitAction
  <2>2. /\ d = None
        /\ \A s \in Site : site'[s].status = "active" => site[s].status = "active"
    BY <1>1, <2>1 DEF SiteActions, DomainActions, NameKinds, CreateKinds, RowTypes,
                      QueueWebsiteAction
  <2> QED BY <1>3, <2>1, <2>2 DEF d
<1>8. CASE CommitDomainAction(j)
  <2>1. /\ j.kind \in DomainActions /\ d \in Domain /\ UNCHANGED <<site, cert>>
        /\ QueueWebsiteDomainAction(d, j.kind = "domain.enable")
    BY <1>1, <1>8 DEF CommitDomainAction, d
  <2>2. /\ HasDomain(d) /\ dom[d].status # "pending"
        /\ DomainChange(d, "pending", j.kind = "domain.enable", dom[d].host, dom[d].prev)
    BY <2>1, DomainQueued
  <2>3. dom[d].prev = None /\ dom[d].prev # dom[d].host
    BY <2>1, <2>2 DEF RenamesFit
  <2>4. /\ \A e \in Domain \ {d} : dom'[e] = dom[e]
        /\ dom'[d].status = "pending" /\ dom'[d].prev = None /\ dom'[d].host = dom[d].host
        /\ dom'[d].site = dom[d].site
        /\ j.kind = "domain.delete" => ~dom'[d].enabled
    BY <2>2, <2>3 DEF DomainChange, DomainIs
  <2> QED BY <1>2, <2>1, <2>2, <2>3, <2>4 DEF Settled, d
<1>9. CASE CommitRename(j)
  <2>1. /\ j.kind = "domain.update" /\ d \in Domain /\ j.host \in Hostname /\ ~Taken(j.host)
        /\ UNCHANGED <<site, cert>> /\ QueueWebsiteDomainRename(d, j.host)
    BY <1>1, <1>9 DEF CommitRename, NameKinds, d
  <2>2. /\ HasDomain(d) /\ dom[d].status # "pending"
        /\ DomainChange(d, "pending", dom[d].enabled, j.host, dom[d].host)
    BY <2>1, DomainRenamed
  <2>3. dom[d].prev = None /\ dom[d].host # j.host
    BY <2>1, <2>2 DEF RenamesFit, Taken
  <2>4. /\ \A e \in Domain \ {d} : dom'[e] = dom[e]
        /\ dom'[d].status = "pending" /\ dom'[d].prev = dom[d].host /\ dom'[d].host = j.host
        /\ dom'[d].site = dom[d].site
    BY <2>2 DEF DomainChange, DomainIs
  <2> QED BY <1>2, <2>1, <2>2, <2>3, <2>4 DEF Settled, d
<1>10. CASE CommitCertificate(j)
  <2>1. /\ j.kind \in CertKinds /\ UNCHANGED <<site, dom>>
        /\ \/ CreateCertificate(j.site, j.host, j.names)
           \/ UpdateCertificate(j.site, j.host, j.names)
    BY <1>10 DEF CommitCertificate
  <2>2. d = None
    BY <1>1, <2>1 DEF CertKinds, DomainActions, NameKinds, CreateKinds
  <2>3. \A s \in Site : cert'[s].status = "active" => cert'[s] = cert[s]
    <3>1. \A s \in Site : cert'[s] = IF s = j.site
                                    THEN [status |-> "pending", name |-> j.host, names |-> j.names]
                                    ELSE cert[s]
      BY <1>1, <2>1, CertChanged
    <3>2. cert'[j.site].status = "pending"
      BY <1>1, <3>1
    <3> QED BY <3>1, <3>2
  <2> QED BY <1>3, <2>1, <2>2, <2>3 DEF d
<1> QED BY <1>5, <1>6, <1>7, <1>8, <1>9, <1>10 DEF Transaction, d

(* The job the worker holds, until it is carried out. *)
LEMMA HeldWants ==
  ASSUME IInv, JobsInStep, pc \in {"claimed", "calling"}
  PROVE  /\ Holding /\ held = queue[current] /\ current \in DOMAIN queue /\ Open(held)
         /\ held \in Job /\ Wants(held)
<1>1. Holding
  BY DEF Holding
<1>2. current \in DOMAIN queue /\ held = queue[current] /\ held \in Job /\ held.state = "running"
  BY <1>1, HeldIsJob DEF IInv
<1>3. Open(held)
  BY <1>2 DEF Open
<1> QED BY <1>1, <1>2, <1>3 DEF JobsInStep

LEMMA CommitCalm ==
  ASSUME Known, Well, NEW i \in DOMAIN queue, Commit(i)
  PROVE  JobsInStep' /\ RenamesFit' /\ RowsCalm
<1>1. /\ queue[i] \in Job /\ queue[i].state = "asked" /\ AsQueued(i) \in Job
      /\ Transaction(AsQueued(i)) /\ JobFits(queue[i])
  BY CommitQueue DEF Known, IInv, JobsFit
<1>2. PICK j \in Job : j = AsQueued(i)
  BY <1>1
<1>3. PICK a \in Job : a = queue[i]
  BY <1>1
<1>4. TransactionFits(j)
  <2>1. /\ RowTypes /\ RowsFit /\ RenamesFit /\ JobFits(a)
        /\ a.state = "asked" /\ j = [a EXCEPT !.state = "queued"] /\ Transaction(j)
    BY <1>1, <1>2, <1>3 DEF Known, IInv, TypeOK, RowTypes, Well, AsQueued
  <2> QED BY <2>1, TransactionCalm
<1>5. JobsInStep'
  BY <1>2, <1>4, TakesStep DEF Known, Well, TransactionFits
<1>6. ASSUME pc = "calling", held.dom # None
      PROVE  dom'[held.dom] = dom[held.dom]
  <2>1. held \in Job /\ Wants(held) /\ ~RowGone
    BY <1>6, HeldWants DEF Known, IInv, CallFits, Well
  <2>2. held.dom \in Domain /\ HasDomain(held.dom) /\ dom[held.dom].status = "pending"
    BY <1>6, <2>1 DEF RowGone, Wants, Job
  <2>3. held.dom # j.dom
    BY <1>4, <1>6, <2>2 DEF TransactionFits, Settled, HasDomain
  <2> QED BY <1>4, <2>2, <2>3 DEF TransactionFits
<1> QED BY <1>4, <1>5, <1>6 DEF TransactionFits, RowsCalm

-------------------------------------------------------------------------------
(* The host, while all goes well. *)

HostWell == EnsureFits /\ InstallFits /\ NamesBound /\ ActiveServed /\ CertServed

(* The panel's steps between its calls. *)
LEMMA HostStaysWell ==
  ASSUME Known, AllWell, Well, IInv', UNCHANGED hostVars, RowsCalm,
         pc = "calling" => held' = held
  PROVE  HostWell'
<1>1. UNCHANGED <<conf, link, running, op>>
  BY DEF hostVars, files
<1>2. op.at # "off" => /\ pc = "calling" /\ held' = held /\ op.site \in Site
                       /\ op.names \in SUBSET Hostname
  BY WellOp, HostTypesOf DEF Known, IInv, TypeOK
<1>3. EnsureFits'
  <2> SUFFICES ASSUME op.doing = "ensure", op.at # "off"
               PROVE  /\ op.names \subseteq Bound(op.site)' /\ Active(op.site)' \subseteq op.names
                      /\ held.dom # None => /\ dom'[held.dom].prev \notin op.names
                                            /\ dom'[held.dom].host \in op.names
                                                 <=> dom'[held.dom].enabled
    BY <1>1, <1>2 DEF EnsureFits, Bound, Active, DomainsOf
  <2>1. /\ op.names \subseteq Bound(op.site) /\ Active(op.site) \subseteq op.names
        /\ held.dom # None => /\ dom[held.dom].prev \notin op.names
                              /\ dom[held.dom].host \in op.names <=> dom[held.dom].enabled
    BY DEF Well, EnsureFits
  <2>2. op.site \in Site /\ op.names \in SUBSET Hostname /\ pc = "calling"
    BY <1>2
  <2>3. \A h \in Hostname : h \in Bound(op.site) => h \in Bound(op.site)'
    <3>1. \A s \in Site : \A h \in Hostname : h \in Bound(s) => h \in Bound(s)'
      BY DEF RowsCalm, ShownLess
    <3>2. \A h \in Hostname : h \in Bound(op.site) =>
            h \in UNION {{dom'[d].host, dom'[d].prev} :
                         d \in {e \in Domain : HasDomain(e)' /\ dom'[e].site = op.site}}
      BY <2>2, <3>1 DEF Bound, DomainsOf
    <3> QED BY <1>1, <3>2 DEF Bound, DomainsOf
  <2>4. Active(op.site)' \subseteq Active(op.site)
    <3>1. \A s \in Site : Active(s)' \subseteq Active(s)
      BY DEF RowsCalm, ShownLess
    <3> QED BY <1>1, <2>2, <3>1 DEF Active, DomainsOf
  <2>5. held.dom # None => dom'[held.dom] = dom[held.dom]
    BY <2>2 DEF RowsCalm
  <2> QED BY <2>1, <2>2, <2>3, <2>4, <2>5
<1>4. InstallFits'
  BY <1>1 DEF Well, InstallFits, Applies, s0
<1>5. NamesBound'
  <2>1. \A s \in Site : running[s].names \in SUBSET Hostname /\ conf[s].names \in SUBSET Hostname
    BY DEF Known, IInv, TypeOK, HostTypeOK, Conf
  <2>2. ASSUME NEW s \in Site \ Secured
        PROVE  running[s].names \subseteq Bound(s)' /\ conf[s].names \subseteq Bound(s)'
    BY <2>1 DEF RowsCalm, ShownLess, Well, NamesBound
  <2> QED BY <1>1, <2>2 DEF NamesBound
<1>6. ActiveServed'
  <2>1. \A s \in Site : Removing(s)' <=> Removing(s)
    BY <1>1 DEF Removing, Applies
  <2> QED BY <1>1, <2>1 DEF RowsCalm, ShownLess, Well, ActiveServed
<1>7. CertServed'
  <2>1. \A s \in Site : Securing(s)' <=> Securing(s)
    BY <1>1 DEF Securing
  <2> QED BY <1>1, <2>1 DEF RowsCalm, ShownLess, Well, CertServed
<1> QED BY <1>3, <1>4, <1>5, <1>6, <1>7 DEF HostWell

(* A hostname's names, in what a website is configured with. *)
LEMMA EnabledNames ==
  ASSUME HostnamesHaveOneOwner, RowTypes, RowsFit, RenamesFit, NEW s \in Site
  PROVE  /\ Enabled(s) \subseteq Bound(s) /\ Active(s) \subseteq Enabled(s)
         /\ \A d \in Domain : HasDomain(d) /\ dom[d].site = s =>
              /\ dom[d].prev \notin Enabled(s)
              /\ dom[d].host \in Enabled(s) <=> dom[d].enabled
<1>1. Enabled(s) \subseteq Bound(s)
  BY EnabledName, BoundName
<1>2. Active(s) \subseteq Enabled(s)
  BY EnabledName, ActiveName
<1>3. ASSUME NEW d \in Domain, HasDomain(d), dom[d].site = s
      PROVE  /\ dom[d].prev \notin Enabled(s)
             /\ dom[d].host \in Enabled(s) <=> dom[d].enabled
  <2>1. ASSUME NEW h \in {dom[d].host, dom[d].prev}, h \in Enabled(s)
        PROVE  dom[d].enabled /\ h = dom[d].host
    <3>1. PICK e \in Domain : /\ HasDomain(e) /\ dom[e].site = s /\ dom[e].enabled
                              /\ h = dom[e].host
      BY <2>1, EnabledName
    <3>2. h # None
      BY <3>1, DomainFields, WebHostAssumption
    <3>3. e = d
      BY <1>3, <2>1, <3>1, <3>2 DEF HostnamesHaveOneOwner
    <3> QED BY <3>1, <3>3
  <2>2. dom[d].prev # dom[d].host
    BY <1>3 DEF RenamesFit
  <2>3. dom[d].enabled => dom[d].host \in Enabled(s)
    BY <1>3, EnabledName
  <2> QED BY <2>1, <2>2, <2>3
<1> QED BY <1>1, <1>2, <1>3

(* A handler calls the Agent. *)
LEMMA CallWell ==
  ASSUME Known, AllWell, Well, Call
  PROVE  HostWell'
<1>1. /\ pc = "claimed" /\ op.at = "off" /\ ~RowGone /\ Holding /\ held' = held
      /\ op'.at = "begin" /\ op'.site = held.site /\ op'.doing = Doing(held.kind)
      /\ UNCHANGED <<conf, link, running, site, dom, cert>>
  BY CallInv DEF Call, Known, Holding, files, rows
<1>2. /\ held.site \in Site /\ HasSite(held.site)
      /\ held.dom # None => held.dom \in Domain /\ HasDomain(held.dom)
                            /\ dom[held.dom].site = held.site
  BY <1>1, HeldRows, HostingAssumption DEF Known, IInv
<1>3. EnsureFits'
  <2> SUFFICES ASSUME op'.doing = "ensure"
               PROVE  EnsureFits'
    BY DEF EnsureFits
  <2>1. held.kind \notin CertKinds \cup {"website.disable", "website.delete"}
    BY <1>1 DEF Doing
  <2>2. op'.names = Enabled(held.site)
    <3>1. Begin("ensure", held.site, None, Enabled(held.site))
      BY <2>1, Zenon DEF Call
    <3> QED BY <3>1 DEF Begin, NoOp
  <2>3. RowTypes /\ RowsFit /\ HostnamesHaveOneOwner /\ RenamesFit
    BY DEF Known, IInv, TypeOK, RowTypes, Well
  <2>4. /\ op'.names \subseteq Bound(held.site) /\ Active(held.site) \subseteq op'.names
        /\ held.dom # None => /\ dom[held.dom].prev \notin op'.names
                              /\ dom[held.dom].host \in op'.names <=> dom[held.dom].enabled
    BY <1>2, <2>2, <2>3, EnabledNames
  <2>5. Bound(held.site) = Bound(op.site)' /\ Active(held.site) = Active(op.site)'
    BY <1>1 DEF Bound, Active, DomainsOf, HasDomain
  <2> QED BY <1>1, <2>4, <2>5 DEF EnsureFits
<1>4. InstallFits' /\ (\A s \in Site : ~Removing(s)' /\ ~Securing(s)')
  BY <1>1 DEF InstallFits, Removing, Securing
<1>5. \A s \in Site : /\ Bound(s)' = Bound(s) /\ Active(s)' = Active(s)
                      /\ ~Removing(s) /\ ~Securing(s)
  BY <1>1 DEF Bound, Active, DomainsOf, HasDomain, Removing, Securing
<1>6. NamesBound' /\ ActiveServed' /\ CertServed'
  BY <1>1, <1>4, <1>5 DEF Well, NamesBound, ActiveServed, CertServed
<1> QED BY <1>3, <1>4, <1>6 DEF HostWell

-------------------------------------------------------------------------------
(* Certificates of the websites nobody requests them for. *)

JobsSecured == \A i \in DOMAIN queue : queue[i].kind \in CertKinds => queue[i].site \in Secured

LEMMA SecuredLeft ==
  ASSUME JobsSecured, NEW A \in SUBSET DOMAIN queue,
         Corresponds(queue, A, queue', DOMAIN queue')
  PROVE  JobsSecured'
BY DEF JobsSecured, Corresponds

LEMMA SecuredAdding ==
  ASSUME JobsSecured, NEW A \in SUBSET DOMAIN queue, NEW j, Added(queue, A, j, queue'),
         j.kind \in CertKinds => j.site \in Secured
  PROVE  JobsSecured'
BY DEF JobsSecured, Added, Corresponds

LEMMA SecuredAsked ==
  ASSUME TypeOK, JobsSecured, NEW j, j.kind \in CertKinds => j.site \in Secured, Ask(j)
  PROVE  JobsSecured'
<1>1. queue' = Append(queue, j) /\ queue \in Seq(Job)
  BY QueueIsJobs DEF Ask
<1>2. \A k \in DOMAIN queue' : queue'[k] = j \/ (k \in DOMAIN queue /\ queue'[k] = queue[k])
  BY <1>1, LenProperties, AppendProperties
<1> QED BY <1>2 DEF JobsSecured

(* The queue. *)
LEMMA SecuredJobs ==
  ASSUME IInv, UnsecuredFit, [Next]_vars
  PROVE  JobsSecured'
<1>1. JobsSecured /\ TypeOK /\ WorkerFits
  BY DEF UnsecuredFit, JobsSecured, IInv
<1>2. ASSUME NEW s \in Site, NEW kind \in CertKinds, NEW create, AskCertificate(s, kind, create),
             s \in Secured
      PROVE  JobsSecured'
  <2> DEFINE h == dom[Primary(s)].host
             names == Active(s)
             j == [NewJob(kind, s) EXCEPT !.host = h, !.names = names, !.create = create]
  <2>1. Ask(j)
    BY <1>2 DEF AskCertificate
  <2> HIDE DEF h, names
  <2>2. j.site = s
    BY DEF NewJob
  <2> HIDE DEF j
  <2> QED BY <1>1, <1>2, <2>1, <2>2, SecuredAsked
<1>3. ASSUME NEW s \in Site, AskIssue(s) \/ AskRenew(s) \/ AskDue(s)
      PROVE  JobsSecured'
  <2>1. s \in Secured
    BY <1>3 DEF AskIssue, AskRenew, AskDue, ListDueCertificates, UnsecuredFit
  <2> QED BY <1>2, <1>3, <2>1 DEF AskIssue, AskRenew, AskDue, CertKinds
<1>4. ASSUME NEW s \in Site, NEW d \in Domain, NEW h \in Hostname,
             AskWebsite(s, d, h) \/ AskDomain(s, d, h)
      PROVE  JobsSecured'
  <2>1. PICK kind \in {"website.create", "domain.create"} :
          Ask([NewJob(kind, s) EXCEPT !.dom = d, !.host = h])
    BY <1>4 DEF AskWebsite, AskDomain
  <2> DEFINE j == [NewJob(kind, s) EXCEPT !.dom = d, !.host = h]
  <2>2. j.kind \notin CertKinds
    BY DEF NewJob, CertKinds
  <2>3. Ask(j)
    BY <2>1
  <2> HIDE DEF j
  <2> QED BY <1>1, <2>2, <2>3, SecuredAsked
<1>5. ASSUME NEW s \in Site, NEW kind \in SiteActions, AskAction(s, kind)
      PROVE  JobsSecured'
  <2> DEFINE j == NewJob(kind, s)
  <2>1. j.kind \notin CertKinds /\ Ask(j)
    BY <1>5 DEF NewJob, CertKinds, SiteActions, AskAction
  <2> HIDE DEF j
  <2> QED BY <1>1, <2>1, SecuredAsked
<1>6. ASSUME NEW d \in Domain, NEW kind \in DomainActions, AskDomainAction(d, kind)
      PROVE  JobsSecured'
  <2> DEFINE j == [NewJob(kind, dom[d].site) EXCEPT !.dom = d]
  <2>1. j.kind \notin CertKinds /\ Ask(j)
    BY <1>6 DEF NewJob, CertKinds, DomainActions, AskDomainAction
  <2> HIDE DEF j
  <2> QED BY <1>1, <2>1, SecuredAsked
<1>7. ASSUME NEW d \in Domain, NEW h \in Hostname, AskRename(d, h)
      PROVE  JobsSecured'
  <2> DEFINE j == [NewJob("domain.update", dom[d].site) EXCEPT !.dom = d, !.prev = dom[d].host,
                                                              !.host = h]
  <2>1. j.kind \notin CertKinds /\ Ask(j)
    BY <1>7 DEF NewJob, CertKinds, AskRename
  <2> HIDE DEF j
  <2> QED BY <1>1, <2>1, SecuredAsked
<1>8. ASSUME NEW i \in DOMAIN queue, Commit(i)
      PROVE  JobsSecured'
  <2>1. /\ queue[i] \in Job
        /\ Added(queue, DOMAIN queue \ {i}, AsQueued(i), queue')
    BY <1>1, <1>8, CommitQueue
  <2>2. PICK j : j = AsQueued(i)
    OBVIOUS
  <2>3. j.kind \in CertKinds => j.site \in Secured
    BY <1>1, <2>1, <2>2 DEF AsQueued, Job, JobsSecured
  <2>4. PICK A \in SUBSET DOMAIN queue : A = DOMAIN queue \ {i}
    OBVIOUS
  <2>5. Added(queue, A, j, queue')
    BY <2>1, <2>2, <2>4
  <2> QED BY <1>1, <2>3, <2>5, SecuredAdding
<1>9. ASSUME NEW i \in DOMAIN queue, Withdraw(i)
      PROVE  JobsSecured'
  <2>1. Corresponds(queue, DOMAIN queue \ {i}, queue', DOMAIN queue')
    BY <1>1, <1>9, WithdrawQueue
  <2>2. PICK A \in SUBSET DOMAIN queue : A = DOMAIN queue \ {i}
    OBVIOUS
  <2> QED BY <1>1, <2>1, <2>2, SecuredLeft
<1>10. CASE Claim
  <2>1. PICK i \in DOMAIN queue :
          /\ held' = [queue[i] EXCEPT !.state = "running", !.tries = @ + 1]
          /\ Added(queue, DOMAIN queue \ {i}, held', queue')
    BY <1>1, <1>10, ClaimQueue
  <2>2. PICK j : j = held'
    OBVIOUS
  <2>3. queue[i] \in Job
    BY <1>1, QueueIsJobs
  <2>4. j.kind \in CertKinds => j.site \in Secured
    BY <1>1, <2>1, <2>2, <2>3 DEF Job, JobsSecured
  <2>5. PICK A \in SUBSET DOMAIN queue : A = DOMAIN queue \ {i}
    OBVIOUS
  <2>6. Added(queue, A, j, queue')
    BY <2>1, <2>2, <2>5
  <2> QED BY <1>1, <2>4, <2>6, SecuredAdding
<1>11. CASE Settle
  <2>1. \/ Added(queue, DOMAIN queue \ {current}, Requeued, queue')
        \/ Corresponds(queue, DOMAIN queue \ {current}, queue', DOMAIN queue')
    BY <1>1, <1>11, SettleQueue
  <2>2. held \in Job /\ held = queue[current] /\ current \in DOMAIN queue
    BY <1>1, <1>11, HeldIsJob DEF Settle, Holding
  <2>3. PICK j : j = Requeued
    OBVIOUS
  <2>4. j.kind \in CertKinds => j.site \in Secured
    BY <1>1, <2>2, <2>3 DEF Job, JobsSecured, Requeued
  <2>5. PICK A \in SUBSET DOMAIN queue : A = DOMAIN queue \ {current}
    OBVIOUS
  <2>6. Added(queue, A, j, queue') \/ Corresponds(queue, A, queue', DOMAIN queue')
    BY <2>1, <2>3, <2>5
  <2> QED BY <1>1, <2>4, <2>6, SecuredAdding, SecuredLeft
<1>12. CASE Restart
  <2>1. /\ DOMAIN queue' = DOMAIN queue
        /\ \A i \in DOMAIN queue : queue[i] \in Job /\ queue'[i] = Recovered(queue[i])
    BY <1>1, <1>12, RestartQueue, QueueIsJobs
  <2>2. \A i \in DOMAIN queue : /\ queue'[i].kind = queue[i].kind
                                /\ queue'[i].site = queue[i].site
    BY <2>1, RecoveredFields
  <2> QED BY <1>1, <2>1, <2>2 DEF JobsSecured
<1>13. CASE UNCHANGED queue
  BY <1>1, <1>13 DEF JobsSecured
<1> QED BY <1>3, <1>4, <1>5, <1>6, <1>7, <1>8, <1>9, <1>10, <1>11, <1>12, <1>13
    DEF Next, Request, WorkerStep, Suspend, Resume, CallNothing, Call, Handle, Orphaned,
        HandleUnsaved, Crash, vars, panel

(* The rows. *)
LEMMA SecuredRows ==
  ASSUME IInv, UnsecuredFit, [Next]_vars, NEW s \in Site \ Secured
  PROVE  cert'[s].status = "none"
<1>1. cert[s].status = "none" /\ RowTypes
  BY DEF UnsecuredFit, IInv, TypeOK, RowTypes
<1>2. ASSUME NEW t \in Secured, NEW st \in {"active", "error"}, NEW names, SetResult(t, st, names)
      PROVE  cert'[s].status = "none"
  BY <1>1, <1>2 DEF SetResult, RowTypes
<1>3. ASSUME Holding, held.kind \in CertKinds PROVE held.site \in Secured
  BY <1>3, HeldIsJob DEF IInv, UnsecuredFit
<1>4. ASSUME NEW i \in DOMAIN queue, Commit(i) PROVE cert'[s].status = "none"
  <2>1. /\ queue[i] \in Job /\ AsQueued(i) \in Job /\ Transaction(AsQueued(i))
    BY <1>4, CommitQueue DEF IInv
  <2>2. PICK j \in Job : j = AsQueued(i)
    BY <2>1
  <2>3. j.kind \in CertKinds => j.site \in Secured
    BY <2>1, <2>2 DEF AsQueued, Job, UnsecuredFit
  <2>4. CASE CommitCertificate(j)
    <3>1. /\ j.site \in Site /\ j.names \in SUBSET Hostname /\ j.host \in Hostname \cup {None}
          /\ \/ CreateCertificate(j.site, j.host, j.names)
             \/ UpdateCertificate(j.site, j.host, j.names)
          /\ j.site # s
      BY <2>3, <2>4 DEF CommitCertificate, Job
    <3>2. cert'[s] = cert[s]
      <4>1. \A t \in Site : cert'[t] = IF t = j.site THEN [status |-> "pending", name |-> j.host,
                                                          names |-> j.names] ELSE cert[t]
        BY <1>1, <3>1, CertChanged
      <4> QED BY <3>1, <4>1
    <3> QED BY <1>1, <3>2
  <2>5. CASE UNCHANGED cert
    BY <1>1, <2>5
  <2> QED BY <2>1, <2>2, <2>4, <2>5
      DEF Transaction, CommitWebsite, CommitDomain, CommitAction, CommitDomainAction, CommitRename
<1>5. ASSUME Holding, NEW called, Fail(called) PROVE cert'[s].status = "none"
  BY <1>1, <1>2, <1>3, <1>5 DEF Fail
<1>6. ASSUME Holding, Succeed PROVE cert'[s].status = "none"
  <2>1. CASE \E t : DropSite(t)
    BY <1>1, <2>1 DEF DropSite, RowTypes, NoCert
  <2> QED BY <1>1, <1>2, <1>3, <1>6, <2>1 DEF Succeed
<1>7. CASE CallNothing
  BY <1>1, <1>5, <1>7 DEF CallNothing, Holding, rows
<1>8. CASE Handle
  BY <1>5, <1>6, <1>8 DEF Handle, Holding
<1>9. CASE UNCHANGED cert
  BY <1>1, <1>9
<1> QED BY <1>4, <1>7, <1>8, <1>9
    DEF Next, Request, WorkerStep, AskWebsite, AskDomain, AskAction, AskIssue, AskRenew, AskDue,
        AskDomainAction, AskRename, AskCertificate, Ask, Withdraw, Suspend, Resume, Claim, Call,
        Settle, Orphaned, HandleUnsaved, Crash, Restart, vars, panel, rows

LEMMA UnsecuredNext ==
  ASSUME IInv, UnsecuredFit, [Next]_vars
  PROVE  UnsecuredFit'
BY SecuredJobs, SecuredRows DEF UnsecuredFit, JobsSecured

-------------------------------------------------------------------------------
(* Handlers, while all goes well. *)

LEMMA CallNothingWell ==
  ASSUME Known, AllWell, Well, IInv', CallNothing
  PROVE  JobsInStep' /\ RenamesFit' /\ HostWell'
<1>1. pc = "claimed" /\ pc' = "handled" /\ UNCHANGED <<hostVars, queue>> /\ held' = held
  BY DEF CallNothing, held, current
<1>2. UNCHANGED rows
  BY DEF CallNothing, Refused, Well, Going
<1>3. JobsStay
  BY <1>1, HoldStays DEF Open
<1>4. UNCHANGED dom
  BY <1>2 DEF rows
<1>5. JobsInStep' /\ RenamesFit'
  BY <1>3, <1>4, StepKept DEF Well, RenamesFit, HasDomain
<1>6. HostWell'
  BY <1>1, <1>2, CalmUnchanged, HostStaysWell
<1> QED BY <1>5, <1>6

(* A handler that got its answer. *)
Answered ==
  /\ pc = "calling" /\ op.at = "end" /\ ~RowGone /\ Holding /\ pc' = "handled"
  /\ ok' <=> ~op.failed
  /\ op'.at = "off" /\ UNCHANGED <<conf, link, running, queue>>
  /\ held \in Job /\ Wants(held) /\ held.site \in Site /\ HasSite(held.site)
  /\ op.site = held.site /\ op.doing = Doing(held.kind)
  /\ held.kind \in DomainActions \cup NameKinds =>
       held.dom \in Domain /\ HasDomain(held.dom) /\ dom[held.dom].site = held.site
  /\ held.kind \notin DomainActions \cup NameKinds => held.dom = None
  /\ RowTypes /\ RowsFit /\ JobsInStep /\ RenamesFit /\ IInv
  /\ EnsureFits /\ NamesBound /\ ActiveServed /\ CertServed
  /\ \A s \in Site : running[s] = IF link[s] THEN conf[s] ELSE NoConf
  /\ Applies /\ ~op.failed =>
       link[held.site] /\ conf[held.site] = [names |-> op.names, tls |-> op.doing = "tls"]

LEMMA HandleAnswered ==
  ASSUME Known, AllWell, Well, Handle
  PROVE  Answered
<1>1. /\ pc = "calling" /\ op.at = "end" /\ ~RowGone /\ Holding /\ pc' = "handled"
      /\ ok' = ~op.failed /\ op' = NoOp /\ UNCHANGED <<conf, link, running, queue>>
      /\ op.site = held.site /\ op.doing = Doing(held.kind)
  BY DEF Handle, Known, IInv, CallFits, Holding, files
<1>2. /\ held \in Job /\ held.site \in Site /\ HasSite(held.site) /\ Wants(held)
      /\ held.kind \in DomainActions \cup NameKinds =>
           held.dom \in Domain /\ HasDomain(held.dom) /\ dom[held.dom].site = held.site
      /\ held.kind \notin DomainActions \cup NameKinds => held.dom = None
  BY <1>1, HeldRows, HeldWants DEF Known, IInv, Well
<1>3. \A s \in Site : running[s] = IF link[s] THEN conf[s] ELSE NoConf
  BY <1>1, WellOp, LoadedValue DEF Serving
<1>4. Applies /\ ~op.failed =>
        link[held.site] /\ conf[held.site] = [names |-> op.names, tls |-> op.doing = "tls"]
  BY <1>1 DEF Well, InstallFits, s0
<1>5. (ok' <=> ~op.failed) /\ op'.at = "off"
  BY <1>1, NoOpIsOp
<1> QED BY <1>1, <1>2, <1>3, <1>4, <1>5 DEF Answered, Well, Known, IInv, TypeOK, RowTypes

(* Nobody else has a job about its hostname. *)
LEMMA AnsweredAlone ==
  ASSUME Answered, NEW i \in DOMAIN queue, Open(queue[i])', ~op.failed
  PROVE  /\ Open(queue[i]) /\ Wants(queue[i])
         /\ held.dom # None => queue[i].dom # held.dom
<1>1. /\ current \in DOMAIN queue /\ held = queue[current] /\ held.state = "running"
      /\ \A k \in DOMAIN queue : queue[k].state = "running" => k = current
  BY HeldIsJob DEF Answered, IInv
<1>2. Open(queue[i]) /\ Open(held) /\ queue'[i] = queue[i]
  BY <1>1 DEF Answered, Open
<1>3. i # current
  BY <1>1, <1>2 DEF Answered, Open
<1>4. held.dom # None => queue[i].dom # held.dom
  <2> SUFFICES ASSUME held.dom # None, queue[i].dom = held.dom PROVE FALSE
    OBVIOUS
  <2>1. Rivals(i, current)
    BY <1>1, <1>2, <1>3 DEF Rivals
  <2> QED BY <1>1, <2>1 DEF Answered, JobsInStep, RowGone
<1> QED BY <1>2, <1>4 DEF Answered, JobsInStep

LEMMA AnsweredJobs ==
  ASSUME Answered, ~op.failed,
         \A e \in Domain : HasDomain(e)' => HasDomain(e) /\ (dom'[e] = dom[e] \/ e = held.dom)
  PROVE  JobsInStep'
<1>1. ASSUME NEW i \in DOMAIN queue', Open(queue[i])' PROVE Wants(queue[i])'
  <2>1. /\ i \in DOMAIN queue /\ queue'[i] = queue[i] /\ queue[i] \in Job
    BY QueueIsJobs DEF Answered, IInv
  <2>2. Wants(queue[i]) /\ (held.dom # None => queue[i].dom # held.dom)
    BY <1>1, <2>1, AnsweredAlone
  <2> SUFFICES ASSUME queue[i].dom \in Domain, HasDomain(queue[i].dom)'
               PROVE  Wants(queue[i])'
    BY <2>1 DEF Wants, Job
  <2>3. held.dom # queue[i].dom
    BY <2>2, HostingAssumption
  <2>4. HasDomain(queue[i].dom) /\ dom'[queue[i].dom] = dom[queue[i].dom]
    BY <2>1, <2>3 DEF HasDomain
  <2> QED BY <2>1, <2>2, <2>4 DEF Wants
<1>2. ASSUME NEW i \in DOMAIN queue', NEW k \in DOMAIN queue', Rivals(i, k)'
      PROVE  ~HasDomain(queue[i].dom)'
  <2>1. /\ i \in DOMAIN queue /\ k \in DOMAIN queue /\ queue[i] \in Job
        /\ queue'[i] = queue[i] /\ queue'[k] = queue[k]
    BY QueueIsJobs DEF Answered, IInv
  <2>2. Open(queue[i]) /\ Open(queue[k])
    BY <1>2, <2>1, AnsweredAlone DEF Rivals
  <2>3. ~HasDomain(queue[i].dom) /\ queue[i].dom \in Domain
    BY <1>2, <2>1, <2>2 DEF Answered, JobsInStep, Rivals, Job
  <2> QED BY <2>1, <2>3
<1> QED BY <1>1, <1>2 DEF JobsInStep

(* One that has nothing to store about hostnames. *)
LEMMA AnsweredSame ==
  ASSUME Answered, UNCHANGED dom,
         op.failed => op.doing \in {"tls", "delete"},
         \A t \in Site \ {held.site} : site'[t] = site[t] /\ cert'[t] = cert[t],
         \/ /\ op.doing = "tls" /\ UNCHANGED site
            /\ cert'[held.site].status = "active" =>
                 ~op.failed /\ cert'[held.site].names = op.names
         \/ /\ op.doing # "tls" /\ UNCHANGED cert
            /\ site'[held.site].status = "active" => op.doing = "ensure"
  PROVE  JobsInStep' /\ RenamesFit' /\ HostWell'
<1>1. JobsInStep'
  <2>1. CASE ~op.failed
    BY <2>1, AnsweredJobs DEF HasDomain
  <2>2. CASE op.failed
    <3>1. JobsStay
      BY <2>2, HoldStays DEF Answered, Open
    <3> QED BY <3>1, StepKept DEF Answered
  <2> QED BY <2>1, <2>2
<1>2. RenamesFit'
  BY DEF Answered, RenamesFit, HasDomain
<1>3. \A s \in Site : Bound(s)' = Bound(s) /\ Active(s)' = Active(s)
  BY DEF Bound, Active, DomainsOf, HasDomain
<1>4. EnsureFits' /\ InstallFits' /\ \A s \in Site : ~Removing(s)' /\ ~Securing(s)'
  BY DEF Answered, EnsureFits, InstallFits, Removing, Securing
<1>5. NamesBound'
  BY <1>3 DEF Answered, NamesBound
<1>6. ActiveServed'
  <2> SUFFICES ASSUME NEW s \in Site, site'[s].status = "active"
               PROVE  running[s].tls \/ Active(s) \subseteq running[s].names
    BY <1>3 DEF ActiveServed, Answered
  <2>1. CASE op.doing = "ensure" /\ s = held.site
    <3>1. conf[s] = [names |-> op.names, tls |-> FALSE] /\ running[s] = conf[s]
      BY <2>1 DEF Answered, Applies
    <3>2. Active(s) \subseteq op.names
      BY <2>1 DEF Answered, EnsureFits
    <3> QED BY <3>1, <3>2
  <2>2. CASE ~(op.doing = "ensure" /\ s = held.site)
    <3>1. site[s].status = "active" /\ ~Removing(s)
      BY <2>2 DEF Answered, Removing, Applies
    <3> QED BY <3>1 DEF Answered, ActiveServed
  <2> QED BY <2>1, <2>2
<1>7. CertServed'
  <2> SUFFICES ASSUME NEW s \in Site, cert'[s].status = "active", conf[s].tls
               PROVE  conf[s].names = cert'[s].names
    BY DEF CertServed, Answered
  <2>1. CASE op.doing = "tls" /\ s = held.site
    BY <2>1 DEF Answered, Applies
  <2>2. CASE ~(op.doing = "tls" /\ s = held.site)
    <3>1. cert'[s] = cert[s] /\ ~Securing(s)
      BY <2>2 DEF Answered, Securing
    <3> QED BY <3>1 DEF Answered, CertServed
  <2> QED BY <2>1, <2>2
<1> QED BY <1>1, <1>2, <1>4, <1>5, <1>6, <1>7 DEF HostWell

(* One about a hostname, which has only the name it is configured with, or *)
(* none.                                                                   *)
LEMMA AnsweredDomain ==
  ASSUME Answered, ~op.failed, op.doing = "ensure", NEW d \in Domain, d = held.dom,
         HasDomain(d), dom[d].site = held.site,
         \A e \in Domain \ {d} : dom'[e] = dom[e],
         dom'[d].prev = None,
         IF HasDomain(d)' THEN /\ dom'[d].site = dom[d].site /\ dom'[d].host = dom[d].host
                               /\ dom'[d].enabled = dom[d].enabled /\ dom[d].host \in Hostname
                          ELSE ~dom[d].enabled,
         UNCHANGED cert, \A t \in Site \ {held.site} : site'[t] = site[t]
  PROVE  JobsInStep' /\ RenamesFit' /\ HostWell'
<1> DEFINE s == held.site
<1>1. /\ s \in Site /\ running[s].names = op.names /\ conf[s].names = op.names /\ ~running[s].tls
      /\ op.site = s /\ op.names \subseteq Bound(s) /\ Active(s) \subseteq op.names
      /\ dom[d].prev \notin op.names /\ (dom[d].host \in op.names <=> dom[d].enabled)
  <2>1. conf[s] = [names |-> op.names, tls |-> FALSE] /\ running[s] = conf[s] /\ s \in Site
    BY DEF Answered, Applies
  <2>2. held.dom # None
    BY HostingAssumption
  <2> QED BY <2>1, <2>2 DEF Answered, EnsureFits
<1>2. ASSUME NEW t \in Site \ {s} PROVE Bound(t)' = Bound(t) /\ Active(t)' = Active(t)
  BY NamesElsewhere
<1>3. ASSUME NEW h \in op.names PROVE h \in Bound(s)'
  <2>1. PICK e \in Domain : HasDomain(e) /\ dom[e].site = s /\ (h = dom[e].host \/ h = dom[e].prev)
    BY <1>1, BoundName
  <2>2. HasDomain(e)' /\ dom'[e].site = s /\ (h = dom'[e].host \/ h = dom'[e].prev)
    <3>1. CASE e = d
      BY <1>1, <2>1, <3>1
    <3>2. CASE e # d
      BY <2>1, <3>2 DEF HasDomain
    <3> QED BY <3>1, <3>2
  <2>3. held' = held
    BY DEF Answered, held, current
  <2> QED BY <2>2, <2>3 DEF Bound, DomainsOf
<1>4. ASSUME NEW h \in Active(s)' PROVE h \in op.names
  <2>0. held' = held
    BY DEF Answered, held, current
  <2>1. PICK e \in Domain : /\ HasDomain(e)' /\ dom'[e].site = s /\ dom'[e].enabled
                            /\ dom'[e].status = "active" /\ h = dom'[e].host
    BY <1>4, <2>0 DEF Active, DomainsOf
  <2>2. CASE e = d
    BY <1>1, <2>1, <2>2
  <2>3. CASE e # d
    <3>1. HasDomain(e) /\ dom'[e] = dom[e]
      BY <2>1, <2>3 DEF HasDomain
    <3>2. h \in Active(s)
      BY <2>1, <3>1, ActiveName
    <3> QED BY <1>1, <3>2
  <2> QED BY <2>2, <2>3
<1>5. UNCHANGED <<conf, running>> /\ held' = held
  BY DEF Answered, held, current
<1>6. EnsureFits' /\ InstallFits' /\ \A t \in Site : ~Removing(t)' /\ ~Securing(t)'
  BY DEF Answered, EnsureFits, InstallFits, Removing, Securing
<1>7. NamesBound'
  <2>1. ASSUME NEW t \in Site \ Secured
        PROVE  running'[t].names \subseteq Bound(t)' /\ conf'[t].names \subseteq Bound(t)'
    <3>1. CASE t = s
      BY <1>1, <1>3, <1>5, <3>1
    <3>2. CASE t # s
      BY <1>2, <1>5, <3>2 DEF Answered, NamesBound
    <3> QED BY <3>1, <3>2
  <2> QED BY <2>1 DEF NamesBound
<1>8. ActiveServed'
  <2>1. ASSUME NEW t \in Site, site'[t].status = "active"
        PROVE  running'[t].tls \/ Active(t)' \subseteq running'[t].names
    <3>1. CASE t = s
      BY <1>1, <1>4, <1>5, <3>1
    <3>2. CASE t # s
      <4>1. site[t].status = "active" /\ ~Removing(t)
        BY <2>1, <3>2, <1>1 DEF Removing
      <4> QED BY <1>2, <1>5, <3>2, <4>1 DEF Answered, ActiveServed
    <3> QED BY <3>1, <3>2
  <2> QED BY <2>1 DEF ActiveServed
<1>9. CertServed'
  <2>1. \A t \in Site : ~Securing(t)
    BY DEF Securing
  <2> QED BY <1>5, <2>1 DEF Answered, CertServed
<1>10. JobsInStep'
  <2>1. \A e \in Domain : HasDomain(e)' => HasDomain(e) /\ (dom'[e] = dom[e] \/ e = held.dom)
    BY DEF HasDomain
  <2> QED BY <2>1, AnsweredJobs
<1>11. RenamesFit'
  <2> SUFFICES ASSUME NEW e \in Domain
               PROVE  /\ dom'[e].prev # None => dom'[e].status = "pending"
                      /\ HasDomain(e)' => dom'[e].prev # dom'[e].host
    BY DEF RenamesFit
  <2>1. CASE e = d
    BY <2>1, WebHostAssumption
  <2>2. CASE e # d
    BY <2>2 DEF Answered, RenamesFit, HasDomain
  <2> QED BY <2>1, <2>2
<1> QED BY <1>6, <1>7, <1>8, <1>9, <1>10, <1>11 DEF HostWell

(* A deletion. *)
LEMMA AnsweredDrop ==
  ASSUME Answered, RemovalFits, ~op.failed, op.doing = "delete", held.dom = None,
         DropSite(held.site)
  PROVE  JobsInStep' /\ RenamesFit' /\ HostWell'
<1> DEFINE s == held.site
<1>1. /\ s \in Site /\ op.site = s /\ conf[s] = NoConf /\ running[s] = NoConf
  BY DEF Answered, RemovalFits, s0
<1>2. HasSite(s) /\ RowTypes /\ RowsFit
  BY DEF Answered
<1>3. /\ site'[s].status = "deleted" /\ \A t \in Site \ {s} : site'[t] = site[t]
      /\ \A d \in Domain : IF d \in DomainsOf(s)
                           THEN dom'[d] = [NoDomain EXCEPT !.status = "deleted"]
                           ELSE dom'[d] = dom[d]
      /\ cert'[s] = NoCert /\ \A t \in Site \ {s} : cert'[t] = cert[t]
  BY <1>1, <1>2, SiteDropped
<1>4. \A d \in DomainsOf(s) : dom'[d].status = "deleted" /\ dom'[d].prev = None
  BY <1>3 DEF NoDomain, DomainsOf
<1>5. \A d \in Domain : d \notin DomainsOf(s) => dom'[d] = dom[d]
  BY <1>3
<1>6. \A d \in Domain : HasDomain(d)' => HasDomain(d) /\ dom'[d] = dom[d] /\ dom[d].site # s
  BY <1>4, <1>5 DEF HasDomain, DomainsOf
<1>7. UNCHANGED <<conf, running>> /\ held' = held
  BY DEF Answered, held, current
<1>8. \A t \in Site \ {s} : Bound(t)' = Bound(t) /\ Active(t)' = Active(t)
  <2> TAKE t \in Site \ {s}
  <2>1. \A d \in Domain : dom'[d] = dom[d] \/ (dom[d].site # t /\ ~HasDomain(d)')
    BY <1>4, <1>5 DEF HasDomain, DomainsOf
  <2> QED BY <2>1, NamesElsewhere
<1>9. EnsureFits' /\ InstallFits' /\ \A t \in Site : ~Removing(t)' /\ ~Securing(t)'
  BY DEF Answered, EnsureFits, InstallFits, Removing, Securing
<1>10. NamesBound'
  <2>1. ASSUME NEW t \in Site \ Secured
        PROVE  running'[t].names \subseteq Bound(t)' /\ conf'[t].names \subseteq Bound(t)'
    <3>1. CASE t = s
      BY <1>1, <1>7, <3>1 DEF NoConf
    <3>2. CASE t # s
      BY <1>7, <1>8, <3>2 DEF Answered, NamesBound
    <3> QED BY <3>1, <3>2
  <2> QED BY <2>1 DEF NamesBound
<1>11. ActiveServed'
  <2>1. ASSUME NEW t \in Site, site'[t].status = "active"
        PROVE  running'[t].tls \/ Active(t)' \subseteq running'[t].names
    <3>1. t # s /\ site[t].status = "active" /\ ~Removing(t)
      BY <1>1, <1>3, <2>1 DEF Removing
    <3> QED BY <1>7, <1>8, <3>1 DEF Answered, ActiveServed
  <2> QED BY <2>1 DEF ActiveServed
<1>12. CertServed'
  <2>1. \A t \in Site : ~Securing(t)
    BY DEF Securing
  <2>2. \A t \in Site : cert'[t].status = "active" => cert'[t] = cert[t]
    BY <1>3 DEF NoCert
  <2> QED BY <1>7, <2>1, <2>2 DEF Answered, CertServed
<1>13. JobsInStep'
  BY <1>6, AnsweredJobs
<1>14. RenamesFit'
  <2> SUFFICES ASSUME NEW e \in Domain
               PROVE  /\ dom'[e].prev # None => dom'[e].status = "pending"
                      /\ HasDomain(e)' => dom'[e].prev # dom'[e].host
    BY DEF RenamesFit
  <2>1. CASE e \in DomainsOf(s)
    BY <1>4, <1>6, <2>1 DEF HasDomain
  <2>2. CASE e \notin DomainsOf(s)
    BY <1>5, <1>6, <2>2 DEF Answered, RenamesFit
  <2> QED BY <2>1, <2>2
<1> QED BY <1>9, <1>10, <1>11, <1>12, <1>13, <1>14 DEF HostWell

LEMMA HandleWell ==
  ASSUME Known, AllWell, Well, Handle
  PROVE  JobsInStep' /\ RenamesFit' /\ HostWell'
<1>s. PICK s : s = held.site
  OBVIOUS
<1>d. PICK d : d = held.dom
  OBVIOUS
<1>1. Answered
  BY HandleAnswered
<1>2. /\ s \in Site /\ HasSite(s) /\ RowTypes /\ RowsFit /\ op.doing = Doing(held.kind)
      /\ op.failed => op.doing \in {"tls", "delete"}
      /\ held.kind \in DomainActions \cup NameKinds =>
           d \in Domain /\ HasDomain(d) /\ dom[d].site = s /\ Wants(held)
      /\ held.kind \in DomainActions => dom[d].kind = "alias"
  BY <1>s, <1>d, <1>1, HeldRows DEF Answered, Well, Going, IInv
<1>3. ASSUME NEW st \in {"active", "disabled", "error"}, SetSite(s, st)
      PROVE  site'[s].status = st /\ \A t \in Site \ {s} : site'[t] = site[t]
  BY <1>2, <1>3 DEF SetSite, RowTypes, SiteRow
<1>4. ASSUME NEW st \in {"active", "error"}, NEW names \in SUBSET Hostname, SetResult(s, st, names)
      PROVE  /\ cert'[s].status = st /\ cert'[s].names = names
             /\ \A t \in Site \ {s} : cert'[t] = cert[t]
  BY <1>2, <1>4, ResultSet
<1>5. cert[s].names \in SUBSET Hostname /\ op.names \in SUBSET Hostname
  BY <1>1, <1>2, HostTypesOf DEF RowTypes, CertRow, Answered, IInv, TypeOK
<1>6. CASE op.failed
  <2>1. CASE op.doing = "tls"
    <3>1. held.kind \in CertKinds
      BY <1>2, <2>1 DEF Doing
    <3>2. SetResult(s, "error", cert[s].names) /\ UNCHANGED <<site, dom>>
      BY <1>s, <1>6, <3>1 DEF Handle, Fail, CertKinds, SiteActions, DomainActions
    <3>3. cert'[s].status = "error" /\ \A t \in Site \ {s} : cert'[t] = cert[t]
      BY <1>4, <1>5, <3>2
    <3> QED BY <1>s, <1>1, <1>6, <2>1, <3>2, <3>3, AnsweredSame
  <2>2. CASE op.doing = "delete"
    <3>1. held.kind = "website.delete"
      BY <1>2, <2>2 DEF Doing
    <3>2. SetSite(s, "error") /\ UNCHANGED <<dom, cert>>
      BY <1>s, <1>6, <3>1 DEF Handle, Fail, CertKinds, SiteActions, DomainActions
    <3>3. site'[s].status = "error" /\ \A t \in Site \ {s} : site'[t] = site[t]
      BY <1>3, <3>2
    <3> QED BY <1>s, <1>1, <2>2, <3>2, <3>3, AnsweredSame
  <2> QED BY <1>2, <1>6, <2>1, <2>2
<1>7. CASE ~op.failed
  <2>1. Succeed
    BY <1>7 DEF Handle
  <2>2. ASSUME NEW st \in Statuses, SetDomain(d, st), UNCHANGED cert,
               held.kind \in DomainActions \cup CreateKinds, op.doing = "ensure",
               \A t \in Site \ {s} : site'[t] = site[t]
        PROVE  JobsInStep' /\ RenamesFit' /\ HostWell'
    <3>1. d \in Domain /\ HasDomain(d) /\ dom[d].site = s /\ dom[d].prev = None
      BY <1>d, <1>2, <2>2, HostingAssumption DEF Wants, NameKinds, DomainActions, CreateKinds
    <3>2. DomainChange(d, st, dom[d].enabled, dom[d].host, dom[d].prev)
      BY <1>2, <2>2, <3>1, DomainSet
    <3>3. /\ \A e \in Domain \ {d} : dom'[e] = dom[e]
          /\ dom'[d].prev = None /\ HasDomain(d)' /\ dom'[d].site = dom[d].site
          /\ dom'[d].host = dom[d].host /\ dom'[d].enabled = dom[d].enabled
      BY <3>1, <3>2 DEF DomainChange, DomainIs, DomainsSame
    <3>4. dom[d].host \in Hostname
      BY <1>2, <3>1, DomainFields
    <3> QED BY <1>s, <1>d, <1>1, <1>7, <2>2, <3>1, <3>3, <3>4, AnsweredDomain
  <2>3. CASE held.kind = "website.create"
    <3>1. /\ SetSite(s, "active") /\ SetDomain(d, "active") /\ UNCHANGED cert
          /\ op.doing = "ensure"
      BY <1>s, <1>d, <1>2, <2>1, <2>3 DEF Succeed, CertKinds, Doing
    <3> QED BY <1>3, <2>2, <2>3, <3>1 DEF Statuses, CreateKinds
  <2>4. CASE held.kind = "website.delete"
    <3>1. DropSite(s) /\ op.doing = "delete"
      BY <1>s, <1>2, <2>1, <2>4 DEF Succeed, CertKinds, Doing
    <3>2. held.dom = None
      BY <1>1, <2>4 DEF Answered, DomainActions, NameKinds, CreateKinds
    <3> QED BY <1>s, <1>1, <1>7, <3>1, <3>2, AnsweredDrop DEF Known
  <2>5. CASE held.kind \in {"website.enable", "website.disable"}
    <3>1. /\ SetSite(s, IF held.kind = "website.enable" THEN "active" ELSE "disabled")
          /\ UNCHANGED <<dom, cert>>
          /\ op.doing = IF held.kind = "website.enable" THEN "ensure" ELSE "disable"
      BY <1>s, <1>2, <2>1, <2>5 DEF Succeed, CertKinds, Doing
    <3>2. /\ site'[s].status = IF held.kind = "website.enable" THEN "active" ELSE "disabled"
          /\ \A t \in Site \ {s} : site'[t] = site[t]
      BY <1>3, <3>1
    <3> QED BY <1>s, <1>1, <1>7, <2>5, <3>1, <3>2, AnsweredSame
  <2>6. CASE held.kind = "domain.delete"
    <3>1. DropDomain(d) /\ UNCHANGED <<site, cert>> /\ op.doing = "ensure"
      BY <1>d, <1>2, <2>1, <2>6 DEF Succeed, CertKinds, Doing
    <3>2. d \in Domain /\ HasDomain(d) /\ dom[d].site = s /\ dom[d].kind = "alias" /\ Wants(held)
      BY <1>2, <2>6 DEF DomainActions
    <3>3. ~dom[d].enabled
      BY <1>d, <2>6, <3>2, HostingAssumption DEF Wants
    <3>4. /\ ~HasDomain(d)' /\ \A e \in Domain \ {d} : dom'[e] = dom[e]
      BY <1>2, <3>1, <3>2, DomainDropped
    <3>5. dom'[d].prev = None
      BY <1>2, <3>1, <3>2 DEF DropDomain, NoDomain, RowTypes
    <3> QED BY <1>s, <1>d, <1>1, <1>7, <3>1, <3>2, <3>3, <3>4, <3>5, AnsweredDomain
  <2>7. CASE held.kind \in {"domain.create", "domain.enable", "domain.disable"}
    <3>1. /\ SetDomain(d, IF held.kind = "domain.disable" THEN "disabled" ELSE "active")
          /\ UNCHANGED <<site, cert>> /\ op.doing = "ensure"
      BY <1>d, <1>2, <2>1, <2>7 DEF Succeed, CertKinds, Doing
    <3>2. (IF held.kind = "domain.disable" THEN "disabled" ELSE "active") \in Statuses
      BY DEF Statuses
    <3> QED BY <2>2, <2>7, <3>1, <3>2 DEF DomainActions, CreateKinds
  <2>8. CASE held.kind = "domain.update"
    <3>1. CompleteRename(d) /\ UNCHANGED <<site, cert>> /\ op.doing = "ensure"
      BY <1>d, <1>2, <2>1, <2>8 DEF Succeed, CertKinds, Doing
    <3>2. d \in Domain /\ HasDomain(d) /\ dom[d].site = s /\ dom[d].host \in Hostname
      BY <1>2, <2>8, DomainFields DEF NameKinds
    <3>3. DomainChange(d, IF dom[d].enabled THEN "active" ELSE "disabled", dom[d].enabled,
                       dom[d].host, None)
      BY <1>2, <3>1, <3>2, RenameCompleted
    <3>4. /\ \A e \in Domain \ {d} : dom'[e] = dom[e]
          /\ dom'[d].prev = None /\ HasDomain(d)' /\ dom'[d].site = dom[d].site
          /\ dom'[d].host = dom[d].host /\ dom'[d].enabled = dom[d].enabled
      BY <3>2, <3>3 DEF DomainChange, DomainIs, DomainsSame
    <3> QED BY <1>s, <1>d, <1>1, <1>7, <3>1, <3>2, <3>4, AnsweredDomain
  <2>9. CASE held.kind \in CertKinds
    <3>1. SetResult(s, "active", op.names) /\ UNCHANGED <<site, dom>> /\ op.doing = "tls"
      BY <1>s, <1>2, <2>1, <2>9 DEF Succeed, CertKinds, Doing, Issued
    <3>2. cert'[s].names = op.names /\ \A t \in Site \ {s} : cert'[t] = cert[t]
      BY <1>4, <1>5, <3>1
    <3> QED BY <1>s, <1>1, <1>7, <3>1, <3>2, AnsweredSame
  <2> QED BY <2>1, <2>3, <2>4, <2>5, <2>6, <2>7, <2>8, <2>9 DEF Succeed
<1> QED BY <1>6, <1>7

-------------------------------------------------------------------------------
(* The Agent, while all goes well: what a step changes. *)
Proceeds ==
  \/ /\ UNCHANGED <<conf, link, running>>
     /\ \/ op.at = "begin" /\ Applies /\ op'.at = "install"
        \/ op.at = "begin" /\ Applies /\ op'.at = "end" /\ op'.failed
        \/ op.at = "begin" /\ ~Applies /\ op'.at \in {"trash", "end"}
        \/ op.at = "test" /\ op'.at = "reload" /\ op'.names = op.names
        \/ op.at = "trash" /\ ~Applies /\ op'.at = "end"
  \/ /\ UNCHANGED running /\ Applies /\ op'.at = "test" /\ op'.names = op.names
     /\ link'[op.site] /\ conf'[op.site] = [names |-> op.names, tls |-> op.doing = "tls"]
  \/ /\ UNCHANGED running /\ ~Applies /\ op'.at \in {"config", "test", "trash"}
     /\ op.at \in {"begin", "config"} /\ conf'[op.site] \in {conf[op.site], NoConf}
  \/ /\ UNCHANGED <<conf, link>> /\ running' = Loaded
     /\ op.at = "reload" /\ op'.names = op.names
     /\ op'.at \in (IF Applies THEN {"end"} ELSE {"trash", "end"})

LEMMA AgentProceeds ==
  ASSUME HostTypeOK, OpFits, ~op.lost, ~Fails, ~op.failed, AgentStep
  PROVE  /\ op.site \in Site /\ op'.site = op.site /\ op'.doing = op.doing
         /\ op.doing = "ensure" => op'.names = op.names
         /\ op'.failed => op'.at = "end" /\ op.doing \in {"tls", "delete"}
         /\ Proceeds /\ Elsewhere
<1>1. /\ op \in Op /\ op.at \in Places /\ op.at # "off" /\ op.site \in Site
      /\ conf \in [Site -> Conf] /\ link \in [Site -> BOOLEAN] /\ running \in [Site -> Conf]
      /\ Elsewhere /\ op'.site = op.site /\ op'.doing = op.doing
  BY HostNextFits, HostTypesOf, HostElsewhere DEF OpFits, OpContinues, HostNext
<1> DEFINE Rest == /\ op.doing = "ensure" => op'.names = op.names
                   /\ op'.failed => op'.at = "end" /\ op.doing \in {"tls", "delete"}
                   /\ Proceeds
<1> SUFFICES Rest
  BY <1>1
<1>2. CASE EnsureRoot
  <2>1. /\ UNCHANGED <<conf, link, running>> /\ op.at = "begin" /\ Applies
        /\ OpMoves("install", op.failed)
    BY <1>1, <1>2, GotoMoves DEF EnsureRoot, Places, Applies, files
  <2> QED BY <1>1, <2>1 DEF OpMoves, Proceeds, Applies
<1>3. CASE Certify
  <2>1. /\ UNCHANGED <<conf, link, running>> /\ op.at = "begin" /\ op.doing = "tls"
        /\ op'.at = "install" /\ ~op'.failed
    BY <1>1, <1>3 DEF Certify, Op, files
  <2> QED BY <1>1, <2>1 DEF Proceeds, Applies
<1>4. CASE CertifyFails
  <2>1. /\ UNCHANGED <<conf, link, running>> /\ op.at = "begin" /\ op.doing = "tls"
        /\ OpMoves("end", TRUE)
    BY <1>1, <1>4, FailToMoves DEF CertifyFails, Places, files
  <2> QED BY <1>1, <2>1 DEF OpMoves, Proceeds, Applies, Applies
<1>5. CASE Install
  <2>1. /\ UNCHANGED running /\ Applies /\ op'.at = "test" /\ op'.names = op.names /\ ~op'.failed
        /\ link'[op.site] /\ conf'[op.site] = [names |-> op.names, tls |-> op.doing = "tls"]
    BY <1>1, <1>5 DEF Install, Op, OpFits, s0
  <2> QED BY <1>1, <2>1 DEF Proceeds, Applies
<1>6. CASE RemoveNothing
  <2>1. /\ UNCHANGED <<conf, link, running>> /\ op.at = "begin" /\ ~Applies
        /\ OpMoves("trash", op.failed) \/ OpMoves("end", op.failed)
    BY <1>1, <1>6, RemovedMoves DEF RemoveNothing, Applies, files
  <2> QED BY <1>1, <2>1 DEF OpMoves, Proceeds, Applies
<1>7. CASE RemoveLink
  <2>1. /\ UNCHANGED <<conf, running>> /\ op.at = "begin" /\ ~Applies
        /\ op'.at \in {"config", "test"} /\ ~op'.failed /\ op'.names = op.names
    BY <1>1, <1>7 DEF RemoveLink, AfterLink, Op, Applies
  <2> QED BY <1>1, <2>1 DEF Proceeds, Applies
<1>8. CASE RemoveConfig
  <2>1. /\ UNCHANGED running /\ op.at = "config" /\ op.doing = "delete" /\ ~Applies
        /\ conf'[op.site] = NoConf
        /\ OpMoves("test", op.failed) \/ OpMoves("trash", op.failed)
    BY <1>1, <1>8, GotoMoves, RemovedMoves DEF RemoveConfig, OpFits, Applies, Places, s0
  <2> QED BY <1>1, <2>1 DEF OpMoves, Proceeds, Applies
<1>9. CASE Test
  <2>1. /\ UNCHANGED <<conf, link, running>> /\ op.at = "test" /\ OpMoves("reload", op.failed)
    BY <1>1, <1>9, GotoMoves DEF Test, Places, files
  <2> QED BY <1>1, <2>1 DEF OpMoves, Proceeds, Applies
<1>10. CASE Reload
  <2>1. UNCHANGED <<conf, link>> /\ running' = Loaded /\ op.at = "reload"
    BY <1>10 DEF Reload, files
  <2>2. CASE Applies
    <3>1. OpMoves("end", op.failed)
      BY <1>1, <1>10, <2>2, GotoMoves DEF Reload, Places
    <3> QED BY <2>1, <2>2, <3>1 DEF OpMoves, Proceeds
  <2>3. CASE ~Applies
    <3>1. OpMoves("trash", op.failed) \/ OpMoves("end", op.failed)
      BY <1>1, <1>10, <2>3, RemovedMoves DEF Reload
    <3> QED BY <2>1, <2>3, <3>1 DEF OpMoves, Proceeds
  <2> QED BY <2>2, <2>3
<1>11. CASE Quarantine \/ QuarantineFails
  <2>1. /\ UNCHANGED <<conf, link, running>> /\ op.at = "trash" /\ op.doing = "delete" /\ ~Applies
        /\ \E f \in {op.failed, TRUE} : OpMoves("end", f)
    BY <1>1, <1>11, GotoMoves, FailToMoves
        DEF Quarantine, QuarantineFails, Places, files, OpFits, Applies
  <2> QED BY <1>1, <2>1 DEF OpMoves, Proceeds, Applies
<1>12. ~TestFails /\ ~ReloadFails /\ ~Recover /\ ~RecoverFails
  BY DEF TestFails, ReloadFails, Recover, RecoverFails, OpFits
<1> QED
  BY <1>2, <1>3, <1>4, <1>5, <1>6, <1>7, <1>8, <1>9, <1>10, <1>11, <1>12 DEF AgentStep

LEMMA AgentWell ==
  ASSUME Known, AllWell, AllWell', Well, AgentStep, UNCHANGED panel
  PROVE  HostWell' /\ (op'.failed => op'.at = "end" /\ op'.doing \in {"tls", "delete"})
<1>1. UNCHANGED <<site, dom, cert, usable, queue, pc, ok>> /\ held' = held
  BY DEF panel, rows, held, current
<1>2. /\ ~Fails /\ ~op.lost /\ op.at \notin {"off", "end"} /\ pc = "calling" /\ held \in Job
      /\ op.site = held.site /\ op.doing = Doing(held.kind) /\ Serving
  <2>1. op.at \notin {"off", "end"}
    BY NoOpIsOp DEF AgentStep, EnsureRoot, Certify, CertifyFails, Install, RemoveNothing, RemoveLink,
      RemoveConfig, Test, TestFails, Reload, ReloadFails, Recover, RecoverFails, Quarantine,
      QuarantineFails
  <2> QED BY <2>1, WellOp
<1>3. ~op.failed
  BY <1>2 DEF Well, Going
<1> DEFINE o == op.site
<1>4. /\ o \in Site /\ op'.site = o /\ op'.doing = op.doing /\ (Applies' <=> Applies)
      /\ op.doing = "ensure" => op'.names = op.names
      /\ op'.failed => op'.at = "end" /\ op.doing \in {"tls", "delete"}
      /\ Proceeds /\ Elsewhere
  BY <1>2, <1>3, AgentProceeds DEF Known, IInv, TypeOK, Applies
<1>5. o \notin Secured => op.doing # "tls"
  <2>1. op.doing = "tls" => held.kind \in CertKinds
    BY <1>2 DEF Doing
  <2>2. Holding /\ current \in DOMAIN queue /\ held = queue[current]
    BY <1>2, HeldIsJob DEF Known, IInv, Holding
  <2> QED BY <1>2, <2>1, <2>2 DEF Known, UnsecuredFit
<1>6. \A s : Bound(s)' = Bound(s) /\ Active(s)' = Active(s)
  BY <1>1 DEF Bound, Active, DomainsOf, HasDomain
<1>7. EnsureFits'
  BY <1>1, <1>2, <1>4, <1>6 DEF Well, EnsureFits, Bound, Active, DomainsOf, HasDomain
<1>8. InstallFits'
  <2> SUFFICES ASSUME Applies, op'.at \in {"test", "reload", "end"}, ~op'.failed
               PROVE  link'[o] /\ conf'[o] = [names |-> op'.names, tls |-> op.doing = "tls"]
    BY <1>4 DEF InstallFits, s0
  <2> QED BY <1>2, <1>3, <1>4 DEF Proceeds, Well, InstallFits, s0
<1>9. \A s \in Site : Loaded[s] = IF link[s] THEN conf[s] ELSE NoConf
  BY LoadedValue
<1>10. NamesBound'
  <2>1. ASSUME NEW s \in Site \ Secured
        PROVE  running'[s].names \subseteq Bound(s)' /\ conf'[s].names \subseteq Bound(s)'
    <3>1. running[s].names \subseteq Bound(s) /\ conf[s].names \subseteq Bound(s)
      BY DEF Well, NamesBound
    <3>2. \/ conf'[s] = conf[s] \/ conf'[s] = NoConf
          \/ s = o /\ Applies /\ conf'[s].names = op.names
      BY <1>4 DEF Proceeds, Elsewhere
    <3>3. s = o /\ Applies => op.names \subseteq Bound(s)
      BY <1>2, <1>5 DEF Well, EnsureFits, Applies
    <3>4. running'[s] = running[s] \/ running'[s] = Loaded[s]
      BY <1>4 DEF Proceeds
    <3> QED BY <1>6, <1>9, <3>1, <3>2, <3>3, <3>4 DEF NoConf
  <2> QED BY <2>1 DEF NamesBound
<1>11. ActiveServed'
  <2>1. ASSUME NEW s \in Site, site[s].status = "active", ~Removing(s)'
        PROVE  running'[s].tls \/ Active(s) \subseteq running'[s].names
    <3>1. CASE UNCHANGED running
      <4>1. ~Removing(s)
        BY <1>2, <1>4, <2>1, <3>1 DEF Removing, Proceeds
      <4> QED BY <2>1, <3>1, <4>1 DEF Well, ActiveServed
    <3>2. CASE ~UNCHANGED running
      <4>1. /\ running' = Loaded /\ op.at = "reload"
            /\ op'.at \in (IF Applies THEN {"end"} ELSE {"trash", "end"})
        BY <1>4, <3>2 DEF Proceeds
      <4>2. CASE s # o
        <5>1. running[s] = Loaded[s] /\ ~Removing(s)
          BY <1>2, <4>2 DEF Serving, s0, Removing
        <5> QED BY <2>1, <4>1, <5>1 DEF Well, ActiveServed
      <4>3. CASE s = o
        <5>1. Applies
          BY <1>4, <2>1, <4>1, <4>3 DEF Removing
        <5>2. link[s] /\ conf[s] = [names |-> op.names, tls |-> op.doing = "tls"]
          BY <1>3, <4>1, <4>3, <5>1 DEF Well, InstallFits, s0
        <5>3. op.doing # "tls" => Active(s) \subseteq op.names
          BY <1>2, <4>3, <5>1 DEF Well, EnsureFits, Applies
        <5>4. running'[s] = conf[s]
          BY <1>9, <4>1, <5>2
        <5>5. CASE op.doing = "tls"
          <6>1. conf[s] = [names |-> op.names, tls |-> TRUE]
            BY <5>2, <5>5
          <6>2. conf[s].tls = TRUE
            BY <6>1
          <6> QED BY <5>4, <6>2
        <5>6. CASE op.doing # "tls"
          <6>1. conf[s].names = op.names
            BY <5>2
          <6> QED BY <5>3, <5>4, <5>6, <6>1
        <5> QED BY <5>5, <5>6
      <4> QED BY <4>2, <4>3
    <3> QED BY <3>1, <3>2
  <2> QED BY <1>1, <1>6, <2>1 DEF ActiveServed
<1>12. CertServed'
  <2>1. ASSUME NEW s \in Site, cert[s].status = "active", conf'[s].tls, ~Securing(s)'
        PROVE  conf'[s].names = cert[s].names
    <3>1. conf'[s] = conf[s] /\ ~Securing(s)
      <4>1. CASE s # o
        BY <1>4, <4>1 DEF Elsewhere, Securing
      <4>2. CASE s = o /\ op.doing = "tls"
        BY <1>2, <1>4, <2>1, <4>2 DEF Securing, Proceeds, Applies
      <4>3. CASE s = o /\ op.doing # "tls"
        <5>1. ~Securing(s)
          BY <4>3 DEF Securing
        <5>2. ASSUME conf'[s] = [names |-> op.names, tls |-> op.doing = "tls"]
              PROVE  FALSE
          <6>1. conf'[s] = [names |-> op.names, tls |-> FALSE]
            BY <4>3, <5>2
          <6>2. conf'[s].tls = FALSE
            BY <6>1
          <6> QED BY <2>1, <6>2
        <5>3. conf'[s] # NoConf
          BY <2>1 DEF NoConf
        <5>4. conf'[s] = conf[s] \/ conf'[s] = NoConf
              \/ conf'[s] = [names |-> op.names, tls |-> op.doing = "tls"]
          BY <1>4, <4>3 DEF Proceeds
        <5> QED BY <5>1, <5>2, <5>3, <5>4
      <4> QED BY <4>1, <4>2, <4>3
    <3> QED BY <2>1, <3>1 DEF Well, CertServed
  <2> QED BY <1>1, <2>1 DEF CertServed
<1> QED BY <1>4, <1>7, <1>8, <1>10, <1>11, <1>12 DEF HostWell

-------------------------------------------------------------------------------
(* Every step, while all goes well. *)

(* Nothing that counts for nginx or the rows changes. *)
LEMMA QuietStep ==
  ASSUME Known, AllWell, Well, IInv', JobsStay, UNCHANGED <<hostVars, rows>>,
         pc = "calling" => held' = held
  PROVE  JobsInStep' /\ RenamesFit' /\ HostWell'
<1>1. UNCHANGED dom
  BY DEF rows
<1>2. JobsInStep'
  BY <1>1, StepKept DEF Well
<1>3. RenamesFit'
  BY <1>1 DEF Well, RenamesFit, HasDomain
<1> QED BY <1>2, <1>3, CalmUnchanged, HostStaysWell DEF hostVars

LEMMA AskWell ==
  ASSUME Known, AllWell, Well, IInv', NEW j, Ask(j), j.state = "asked", j.tries = 0
  PROVE  JobsInStep' /\ RenamesFit' /\ HostWell'
<1>1. j \in Job
  <2>1. queue \in Seq(Job) /\ queue' = Append(queue, j) /\ queue' \in Seq(Job)
    BY DEF Known, IInv, TypeOK, Ask
  <2>2. Len(queue) + 1 \in DOMAIN queue' /\ queue'[Len(queue) + 1] = j
    BY <2>1
  <2> QED BY <2>1, <2>2
<1>2. JobsStay /\ (Holding => held' = held)
  BY <1>1, AskStays, AskQueue DEF Known, IInv
<1>3. UNCHANGED <<hostVars, rows>>
  BY DEF Ask
<1> QED BY <1>2, <1>3, QuietStep DEF Holding

LEMMA RequestWell ==
  ASSUME Known, AllWell, Well, IInv', Request, ~Suspend
  PROVE  JobsInStep' /\ RenamesFit' /\ HostWell'
<1>1. ASSUME NEW i \in DOMAIN queue, Commit(i)
      PROVE  JobsInStep' /\ RenamesFit' /\ HostWell'
  BY <1>1, CommitCalm, CommitQueue, HostStaysWell DEF Commit, Known, IInv, Holding
<1>2. ASSUME NEW i \in DOMAIN queue, Withdraw(i)
      PROVE  JobsInStep' /\ RenamesFit' /\ HostWell'
  <2>1. JobsStay /\ (Holding => held' = held) /\ UNCHANGED <<hostVars, rows>>
    BY <1>2, WithdrawStays, WithdrawQueue DEF Known, IInv, Withdraw
  <2> QED BY <2>1, QuietStep DEF Holding
<1>3. CASE Resume
  <2>1. UNCHANGED <<hostVars, rows, queue, pc, ok>> /\ held' = held
    BY <1>3 DEF Resume, held, current
  <2>2. JobsStay
    BY <2>1, HoldStays DEF Open
  <2> QED BY <2>1, <2>2, QuietStep
<1>4. ASSUME NEW s \in Site, NEW d \in Domain, NEW h \in Hostname, AskWebsite(s, d, h)
      PROVE  JobsInStep' /\ RenamesFit' /\ HostWell'
  <2>1. PICK j : j = [NewJob("website.create", s) EXCEPT !.dom = d, !.host = h]
    OBVIOUS
  <2>2. j.state = "asked" /\ j.tries = 0
    BY <2>1 DEF NewJob
  <2>3. Ask(j)
    BY <1>4, <2>1 DEF AskWebsite
  <2> QED BY <2>2, <2>3, AskWell
<1>5. ASSUME NEW s \in Site, NEW d \in Domain, NEW h \in Hostname, AskDomain(s, d, h)
      PROVE  JobsInStep' /\ RenamesFit' /\ HostWell'
  <2>1. PICK j : j = [NewJob("domain.create", s) EXCEPT !.dom = d, !.host = h]
    OBVIOUS
  <2>2. j.state = "asked" /\ j.tries = 0
    BY <2>1 DEF NewJob
  <2>3. Ask(j)
    BY <1>5, <2>1 DEF AskDomain
  <2> QED BY <2>2, <2>3, AskWell
<1>6. ASSUME NEW s \in Site, NEW kind \in SiteActions, AskAction(s, kind)
      PROVE  JobsInStep' /\ RenamesFit' /\ HostWell'
  <2>1. PICK j : j = NewJob(kind, s)
    OBVIOUS
  <2>2. j.state = "asked" /\ j.tries = 0
    BY <2>1 DEF NewJob
  <2>3. Ask(j)
    BY <1>6, <2>1 DEF AskAction
  <2> QED BY <2>2, <2>3, AskWell
<1>7. ASSUME NEW s \in Site, NEW kind, NEW create, AskCertificate(s, kind, create)
      PROVE  JobsInStep' /\ RenamesFit' /\ HostWell'
  <2>1. PICK j : j = [NewJob(kind, s) EXCEPT !.host = dom[Primary(s)].host, !.names = Active(s),
                                             !.create = create]
    OBVIOUS
  <2>2. j.state = "asked" /\ j.tries = 0
    BY <2>1 DEF NewJob
  <2>3. Ask(j)
    BY <1>7, <2>1 DEF AskCertificate
  <2> QED BY <2>2, <2>3, AskWell
<1>8. ASSUME NEW s \in Site, AskIssue(s) \/ AskRenew(s) \/ AskDue(s)
      PROVE  JobsInStep' /\ RenamesFit' /\ HostWell'
  <2>1. PICK create : \E kind \in CertKinds : AskCertificate(s, kind, create)
    BY <1>8 DEF AskIssue, AskRenew, AskDue, CertKinds
  <2> QED BY <1>7, <2>1
<1>9. ASSUME NEW d \in Domain, NEW kind \in DomainActions, AskDomainAction(d, kind)
      PROVE  JobsInStep' /\ RenamesFit' /\ HostWell'
  <2>1. PICK j : j = [NewJob(kind, dom[d].site) EXCEPT !.dom = d]
    OBVIOUS
  <2>2. j.state = "asked" /\ j.tries = 0
    BY <2>1 DEF NewJob
  <2>3. Ask(j)
    BY <1>9, <2>1 DEF AskDomainAction
  <2> QED BY <2>2, <2>3, AskWell
<1>10. ASSUME NEW d \in Domain, NEW h \in Hostname, AskRename(d, h)
       PROVE  JobsInStep' /\ RenamesFit' /\ HostWell'
  <2>1. PICK j : j = [NewJob("domain.update", dom[d].site) EXCEPT !.dom = d,
                                       !.prev = dom[d].host, !.host = h]
    OBVIOUS
  <2>2. j.state = "asked" /\ j.tries = 0
    BY <2>1 DEF NewJob
  <2>3. Ask(j)
    BY <1>10, <2>1 DEF AskRename
  <2> QED BY <2>2, <2>3, AskWell
<1> QED BY <1>1, <1>2, <1>3, <1>4, <1>5, <1>6, <1>8, <1>9, <1>10 DEF Request

LEMMA WorkerWell ==
  ASSUME Known, AllWell, Well, IInv', Claim \/ CallNothing \/ Call \/ Handle \/ Settle
  PROVE  JobsInStep' /\ RenamesFit' /\ HostWell'
<1>1. CASE Claim
  BY <1>1, ClaimStays, QuietStep DEF Known, IInv, Claim
<1>2. CASE CallNothing
  BY <1>2, CallNothingWell
<1>3. CASE Call
  <2>1. UNCHANGED <<queue, dom, ok>> /\ pc' = "calling" /\ pc = "claimed"
    BY <1>3 DEF Call, rows
  <2>2. JobsStay
    BY <2>1, HoldStays DEF Open
  <2>3. RenamesFit'
    BY <2>1 DEF Well, RenamesFit, HasDomain
  <2> QED BY <1>3, <2>1, <2>2, <2>3, StepKept, CallWell DEF Well
<1>4. CASE Handle
  BY <1>4, HandleWell
<1>5. CASE Settle
  BY <1>5, SettleStays, QuietStep DEF Known, IInv, Settle
<1> QED BY <1>1, <1>2, <1>3, <1>4, <1>5

LEMMA WellNext ==
  ASSUME Known, WellSoFar, [Next]_vars
  PROVE  WellSoFar'
<1> SUFFICES ASSUME AllWell' PROVE Well'
  BY DEF WellSoFar
<1>1. /\ AllWell /\ Well /\ IInv /\ IInv'
      /\ ~AgentDies /\ ~Cancel /\ ~HandleUnsaved /\ ~Crash /\ ~Suspend
  BY WellSteps, NextInv DEF WellSoFar, Known, IInv
<1>2. ~Restart
  BY <1>1 DEF Restart, Well, Going
<1>3. ~Orphaned
  BY <1>1, WellOp DEF Orphaned
<1>4. CASE HostNext /\ UNCHANGED panel
  <2>1. AgentStep /\ UNCHANGED <<dom, queue, pc, ok, usable>>
    BY <1>1, <1>4 DEF HostNext, panel, rows
  <2>2. HostWell' /\ (op'.failed => op'.at = "end" /\ op'.doing \in {"tls", "delete"})
    BY <1>1, <1>4, <2>1, AgentWell
  <2>3. JobsInStep'
    BY <1>1, <2>1, HoldStays, StepKept DEF Well, Open
  <2>4. RenamesFit' /\ Going'
    BY <1>1, <2>1, <2>2 DEF Well, RenamesFit, HasDomain, Going
  <2> QED BY <2>2, <2>3, <2>4 DEF Well, HostWell
<1>5. CASE ~(HostNext /\ UNCHANGED panel)
  <2>1. JobsInStep' /\ RenamesFit' /\ HostWell'
    <3>1. CASE Request
      BY <1>1, <3>1, RequestWell
    <3>2. CASE WorkerStep
      BY <1>1, <1>3, <3>2, WorkerWell DEF WorkerStep
    <3>3. CASE UNCHANGED vars
      <4>1. UNCHANGED <<hostVars, rows, queue, pc, ok>> /\ held' = held
        BY <3>3 DEF vars, panel, held, current
      <4>2. JobsStay
        BY <4>1, HoldStays DEF Open
      <4> QED BY <1>1, <4>1, <4>2, QuietStep
    <3> QED BY <1>1, <1>2, <1>5, <3>1, <3>2, <3>3 DEF Next
  <2>2. usable' /\ pc' # "down"
    BY <1>1, <1>2, <1>5
      DEF Well, Going, Next, Request, WorkerStep, AskWebsite, AskDomain, AskAction, AskIssue,
          AskRenew, AskDue, AskDomainAction, AskRename, AskCertificate, Ask, Commit, Withdraw,
          Resume, Claim, CallNothing, Call, Handle, Settle, Orphaned, vars, panel
  <2>3. op'.failed => op'.at = "end" /\ op'.doing \in {"tls", "delete"}
    <3>1. ~(mishaps' > 0)
      BY DEF AllWell
    <3>2. CASE UNCHANGED op
      BY <1>1, <3>2 DEF Well, Going
    <3>3. CASE op' = NoOp
      BY <3>3, NoOpIsOp
    <3>4. CASE Call
      BY <1>1, <3>4, CallInv
    <3> QED BY <1>1, <1>5, <3>1, <3>2, <3>3, <3>4, PanelStep
  <2> QED BY <2>1, <2>2, <2>3 DEF Well, HostWell, Going
<1> QED BY <1>4, <1>5

-------------------------------------------------------------------------------
(* What nginx serves in an execution in which nothing goes wrong. *)

LEMMA InitWell == Init => RemovalFits /\ LoadedFits /\ UnsecuredFit /\ WellSoFar
<1> SUFFICES ASSUME Init PROVE RemovalFits /\ LoadedFits /\ UnsecuredFit /\ WellSoFar
  OBVIOUS
<1>1. /\ op = NoOp /\ NoOp.at = "off" /\ NoOp.doing = "ensure" /\ ~NoOp.failed /\ ~NoOp.lost
      /\ DOMAIN queue = {} /\ usable /\ pc = "idle"
      /\ \A s \in Site : site[s].status = "none" /\ cert[s].status = "none"
                         /\ conf[s].names = {} /\ running[s].names = {}
      /\ \A d \in Domain : ~HasDomain(d) /\ dom[d].prev = None
  BY NoOpIsOp DEF Init, HostInit, HasDomain, NoDomain, NoCert, NoConf
<1>2. \A s \in Site : running[s] = Loaded[s]
  BY LoadedValue DEF Init, HostInit
<1>3. RemovalFits /\ LoadedFits
  BY <1>1, <1>2 DEF RemovalFits, LoadedFits
<1>4. UnsecuredFit
  BY <1>1 DEF UnsecuredFit
<1>5. Going /\ JobsInStep /\ RenamesFit
  BY <1>1 DEF Going, JobsInStep, RenamesFit
<1>6. HostWell
  BY <1>1 DEF HostWell, EnsureFits, InstallFits, Applies, NamesBound, ActiveServed, CertServed
<1> QED BY <1>3, <1>4, <1>5, <1>6 DEF WellSoFar, Well, HostWell

(* It is an invariant of every execution that Well holds until something   *)
(* goes wrong. *)
LEMMA WellInvariance == Spec => [](Known /\ WellSoFar)
<1> DEFINE Inv == RemovalFits /\ LoadedFits /\ UnsecuredFit /\ WellSoFar
<1>1. Init => Inv
  BY InitWell
<1>2. IInv /\ HostnamesHaveOneOwner /\ Inv /\ [Next]_vars => Inv'
  BY RemovalNext, LoadedNext, UnsecuredNext, WellNext DEF Known
<1>3. IInv /\ HostnamesHaveOneOwner /\ Inv => Known /\ WellSoFar
  BY DEF Known
<1> HIDE DEF Inv
<1> QED BY <1>1, <1>2, <1>3, HostingInvariance, HostnamesAreOwnedOnce, PTL DEF Spec

LEMMA WellServes ==
  ASSUME Known, WellSoFar, AllWell
  PROVE  ActiveIsServed
<1> SUFFICES ASSUME NEW s \in Site, site[s].status = "active", ~Unfinished(s)
             PROVE  IF running[s].tls
                    THEN cert[s].status = "active" => running[s].names = cert[s].names
                    ELSE Active(s) \subseteq running[s].names
  BY DEF ActiveIsServed
<1>1. Well
  BY DEF WellSoFar
<1>2. op.at # "off" => s # op.site
  <2>1. SUFFICES ASSUME op.at # "off" PROVE s # op.site
    OBVIOUS
  <2>2. Holding /\ op.site = held.site
    BY <1>1, <2>1, WellOp
  <2>3. current \in DOMAIN queue /\ queue[current].site = op.site /\ queue[current].state = "running"
    BY <2>2, HeldIsJob DEF Known, IInv
  <2> QED BY <2>3 DEF Unfinished
<1>3. ~Removing(s) /\ ~Securing(s)
  BY <1>2 DEF Removing, Securing
<1>4. running[s] = IF link[s] THEN conf[s] ELSE NoConf
  BY <1>1, <1>2, WellOp, LoadedValue DEF Serving, s0
<1>5. running[s].tls \/ Active(s) \subseteq running[s].names
  BY <1>1, <1>3 DEF Well, ActiveServed
<1>6. ASSUME running[s].tls, cert[s].status = "active"
      PROVE  running[s].names = cert[s].names
  <2>1. running[s] = conf[s]
    BY <1>4, <1>6 DEF NoConf
  <2> QED BY <1>1, <1>3, <1>6, <2>1 DEF Well, CertServed
<1> QED BY <1>5, <1>6

LEMMA WellBinds ==
  ASSUME Known, WellSoFar, AllWell, Secured = {}
  PROVE  ServedIsBound /\ NamesAreExclusive
<1>1. \A s \in Site : running[s].names \subseteq Bound(s)
  BY DEF WellSoFar, Well, NamesBound
<1>2. ServedIsBound
  BY <1>1 DEF ServedIsBound, Bound
<1>3. ASSUME NEW s \in Site, NEW t \in Site, s # t,
             NEW h, h \in running[s].names, h \in running[t].names
      PROVE  FALSE
  <2>1. h # None
    BY <1>3, WebHostAssumption DEF Known, IInv, TypeOK, HostTypeOK, Conf
  <2>2. h \in Bound(s) /\ h \in Bound(t)
    BY <1>1, <1>3
  <2>3. PICK d \in Domain : HasDomain(d) /\ dom[d].site = s /\ h \in {dom[d].host, dom[d].prev}
    BY <2>2, BoundName
  <2>4. PICK e \in Domain : HasDomain(e) /\ dom[e].site = t /\ h \in {dom[e].host, dom[e].prev}
    BY <2>2, BoundName
  <2> QED BY <1>3, <2>1, <2>3, <2>4 DEF Known, HostnamesHaveOneOwner
<1>4. NamesAreExclusive
  BY <1>3 DEF Known, NamesAreExclusive
<1> QED BY <1>2, <1>4

(* As long as nothing has gone wrong (no command has failed, no operation  *)
(* was cancelled, no process has died, no write has failed, and the        *)
(* account was not suspended), every hostname shown as active, of a        *)
(* website shown as active with no job under way, is served, over HTTPS    *)
(* the names of its active certificate, whatever requests came in between  *)
(* and whatever names do not resolve here (websites/service.go,            *)
(* certificates/service.go, nginx/nginx.go).                               *)
THEOREM ActiveIsServedWhenWell == Spec => [](AllWell => ActiveIsServed)
<1> DEFINE Served == AllWell => ActiveIsServed
<1>1. Known /\ WellSoFar => Served
  BY WellServes
<1> HIDE DEF Served
<1>2. Spec => []Served
  BY <1>1, WellInvariance, PTL
<1> QED BY <1>2 DEF Served

(* As long as nothing has gone wrong, nginx serves and is configured with  *)
(* no name that is not a hostname of the website, the one being given up   *)
(* included, for every website whose certificates nobody has requested: a  *)
(* handler gives a name up after nginx (websites/service.go).              *)
THEOREM ServedNamesAreBound == Spec => [](AllWell => NamesBound)
<1> DEFINE Goal == AllWell => NamesBound
<1>1. Known /\ WellSoFar => Goal
  BY DEF WellSoFar, Well
<1> HIDE DEF Goal
<1>2. Spec => []Goal
  BY <1>1, WellInvariance, PTL
<1> QED BY <1>2 DEF Goal

(* Without certificates, as long as nothing has gone wrong, what a website *)
(* serves is one of its hostnames, and no two websites are served for one  *)
(* hostname, at any moment of its renaming or removal (websites/service.go, *)
(* store/sqlite/websites.go).                                              *)
THEOREM ServedIsBoundWhenWell ==
  ASSUME Secured = {}
  PROVE  Spec => [](AllWell => ServedIsBound)
<1> DEFINE Goal == AllWell => ServedIsBound
<1>1. Known /\ WellSoFar => Goal
  BY WellBinds
<1> HIDE DEF Goal
<1>2. Spec => []Goal
  BY <1>1, WellInvariance, PTL
<1> QED BY <1>2 DEF Goal

(* And of two websites nginx never serves the same hostname, so that a     *)
(* hostname one website gives up is another's only when nginx has          *)
(* forgotten it.                                                           *)
THEOREM NamesAreExclusiveWhenWell ==
  ASSUME Secured = {}
  PROVE  Spec => [](AllWell => NamesAreExclusive)
<1> DEFINE Goal == AllWell => NamesAreExclusive
<1>1. Known /\ WellSoFar => Goal
  BY WellBinds
<1> HIDE DEF Goal
<1>2. Spec => []Goal
  BY <1>1, WellInvariance, PTL
<1> QED BY <1>2 DEF Goal

===============================================================================
