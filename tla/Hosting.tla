-------------------------------- MODULE Hosting -------------------------------
(***************************************************************************)
(* Websites, their hostnames and their certificates in the panel: the      *)
(* requests of websites/service.go and certificates/service.go, their      *)
(* transactions, and the job handlers that bring the host (WebHost) to     *)
(* what the rows say.                                                      *)
(*                                                                         *)
(* A request reads its rows (Ask...) and later runs its transaction        *)
(* (Commit); other requests and the worker may come in between.  Its job's *)
(* created_at is read in between too, so a job may be older than jobs that *)
(* committed while it was under way: the entry of a request in the queue   *)
(* keeps its place, or takes the last one, when it commits.  The worker is *)
(* the one of JobQueue reduced to what handlers can tell.                  *)
(***************************************************************************)
EXTENDS WebHost, FiniteSets, SequencesExt

CONSTANTS
  Domain,       \* website_domains IDs, never reused
  Secured,      \* the websites whose certificates are requested
  MaxAttempts,  \* max_attempts of every kind here: 2
  MaxRequests,  \* bound on requests
  MaxOpen,      \* bound on requests under way at a time
  MaxMishaps,   \* bound on deaths of the panel and failing writes of a handler
  MaxHarm,      \* bound on these and what goes wrong on the host together
  MaxSuspends   \* bound on suspensions of the account

ASSUME HostingAssumption ==
  /\ None \notin Domain /\ None \notin Site /\ Secured \subseteq Site
  /\ MaxAttempts \in Nat \ {0}
  /\ MaxRequests \in Nat /\ MaxOpen \in Nat
  /\ MaxMishaps \in Nat /\ MaxHarm \in Nat /\ MaxSuspends \in Nat

VARIABLES
  site,     \* the websites table
  dom,      \* the website_domains table
  cert,     \* the certificates table, by website
  usable,   \* the account is active and enabled
  queue,    \* requests under way and unfinished jobs, by created_at
  pc,       \* where the worker is
  ok,       \* its handler returned nil
  requests, mishaps, suspends

rows  == <<site, dom, cert>>
count == <<requests, mishaps, suspends>>
panel == <<rows, usable, queue, pc, ok, count>>
vars  == <<hostVars, panel>>

SiteActions   == {"website.enable", "website.disable", "website.delete"}
DomainActions == {"domain.enable", "domain.disable", "domain.delete"}
CertKinds     == {"certificate.issue", "certificate.renew"}
Kinds == SiteActions \cup DomainActions \cup CertKinds
         \cup {"website.create", "domain.create", "domain.update"}

SiteRow == [status : {"none", "pending", "active", "disabled", "error", "deleted"},
            enabled : BOOLEAN]
DomainRow == [status : {"none", "pending", "active", "disabled", "error", "deleted"},
              enabled : BOOLEAN, site : Site \cup {None}, kind : {"primary", "alias"},
              host : Hostname \cup {None}, prev : Hostname \cup {None}]
CertRow == [status : {"none", "pending", "active", "error"},
            name : Hostname \cup {None}, names : SUBSET Hostname]
Job == [kind : Kinds, site : Site, dom : Domain \cup {None},
        prev : Hostname \cup {None}, host : Hostname \cup {None}, names : SUBSET Hostname,
        create : BOOLEAN, state : {"asked", "queued", "running"}, tries : 0..MaxAttempts]

NoDomain == [status |-> "none", enabled |-> FALSE, site |-> None, kind |-> "alias",
             host |-> None, prev |-> None]
NoCert   == [status |-> "none", name |-> None, names |-> {}]
NewJob(kind, s) == [kind |-> kind, site |-> s, dom |-> None, prev |-> None, host |-> None,
                    names |-> {}, create |-> FALSE, state |-> "asked", tries |-> 0]

HasSite(s)   == site[s].status \notin {"none", "deleted"}
HasDomain(d) == dom[d].status \notin {"none", "deleted"}
DomainsOf(s) == {d \in Domain : HasDomain(d) /\ dom[d].site = s}
Primary(s)   == CHOOSE d \in DomainsOf(s) : dom[d].kind = "primary"
(* Wrong on purpose: hostnames that are still pending are left out. *)
EnabledShown(s) == {dom[d].host : d \in {e \in DomainsOf(s) : dom[e].status = "active"}}
(* Wrong on purpose: a hostname that is being removed is rendered again. *)
EnabledOrNot(s) == {dom[d].host : d \in DomainsOf(s)}
Enabled(s)   == {dom[d].host : d \in {e \in DomainsOf(s) : dom[e].enabled}}

TypeOK ==
  /\ HostTypeOK
  /\ site \in [Site -> SiteRow] /\ dom \in [Domain -> DomainRow]
  /\ cert \in [Site -> CertRow]
  /\ usable \in BOOLEAN
  /\ queue \in Seq(Job)
  /\ pc \in {"idle", "claimed", "calling", "handled", "down"}
  /\ ok \in BOOLEAN
  /\ requests \in 0..MaxRequests /\ mishaps \in 0..MaxMishaps
  /\ suspends \in 0..MaxSuspends

Init ==
  /\ HostInit
  /\ site = [s \in Site |-> [status |-> "none", enabled |-> FALSE]]
  /\ dom = [d \in Domain |-> NoDomain]
  /\ cert = [s \in Site |-> NoCert]
  /\ usable = TRUE
  /\ queue = <<>>
  /\ pc = "idle" /\ ok = TRUE
  /\ requests = 0 /\ mishaps = 0 /\ suspends = 0

-------------------------------------------------------------------------------
(* Requests, first half: what the services read and refuse by. *)

Ask(j) ==
  /\ pc # "down"
  /\ requests < MaxRequests /\ requests' = requests + 1
  /\ Cardinality({i \in DOMAIN queue : queue[i].state = "asked"}) < MaxOpen
  /\ queue' = Append(queue, j)
  /\ UNCHANGED <<hostVars, rows, usable, pc, ok, mishaps, suspends>>

(* Create. *)
AskWebsite(s, d, h) ==
  /\ usable
  /\ site[s].status = "none" /\ dom[d].status = "none"
  /\ Ask([NewJob("website.create", s) EXCEPT !.dom = d, !.host = h])

(* CreateDomain. *)
AskDomain(s, d, h) ==
  /\ site[s].status = "active" /\ site[s].enabled
  /\ dom[d].status = "none"
  /\ Ask([NewJob("domain.create", s) EXCEPT !.dom = d, !.host = h])

(* SetWebsite and DeleteWebsite. *)
AskAction(s, kind) ==
  /\ HasSite(s) /\ site[s].status # "pending"
  /\ Ask(NewJob(kind, s))

(* SetDomain and DeleteDomain. *)
AskDomainAction(d, kind) ==
  /\ HasDomain(d) /\ dom[d].kind = "alias" /\ dom[d].status # "pending"
  /\ site[dom[d].site].status = "active"
  /\ Ask([NewJob(kind, dom[d].site) EXCEPT !.dom = d])

(* RenameDomain. *)
AskRename(d, h) ==
  /\ HasDomain(d) /\ dom[d].status # "pending" /\ dom[d].host # h
  /\ site[dom[d].site].status = "active"
  /\ Ask([NewJob("domain.update", dom[d].site) EXCEPT !.dom = d, !.prev = dom[d].host,
                                                      !.host = h])

(* The names a certificate is asked for: the primary one, and those of the *)
(* hostnames that are shown active.                                        *)
Active(s) == {dom[d].host : d \in {e \in DomainsOf(s) : dom[e].enabled
                                                        /\ dom[e].status = "active"}}
AskCertificate(s, kind, create) ==
  Ask([NewJob(kind, s) EXCEPT !.host = dom[Primary(s)].host, !.names = Active(s),
                              !.create = create])

(* IssueWebsite. *)
AskIssue(s) ==
  /\ s \in Secured
  /\ site[s].status = "active" /\ site[s].enabled
  /\ cert[s].status # "pending"
  /\ AskCertificate(s, "certificate.issue", cert[s].status = "none")

(* Renew and SetRedirect, which asks for the same job. *)
AskRenew(s) ==
  /\ cert[s].status \in {"active", "error"}
  /\ AskCertificate(s, "certificate.renew", FALSE)

(* QueueDue, the hourly ticker.  Any active certificate may be due. *)
ListDueCertificates == {s \in Site : cert[s].status = "active"}
CertificatePendingJobExists(s) ==
  \E i \in DOMAIN queue : /\ queue[i].site = s /\ queue[i].kind = "certificate.renew"
                          /\ queue[i].state # "asked"
AskDue(s) ==
  /\ s \in ListDueCertificates
  /\ ~CertificatePendingJobExists(s)
  /\ AskCertificate(s, "certificate.renew", FALSE)

-------------------------------------------------------------------------------
(* websites, website_domains and certificates, one operator a statement a  *)
(* request makes.                                                          *)

CreateWebsite(s) == site' = [site EXCEPT ![s] = [status |-> "pending", enabled |-> TRUE]]

CreateWebsiteDomain(d, s, kind, h) ==
  dom' = [dom EXCEPT ![d] = [NoDomain EXCEPT !.status = "pending", !.enabled = TRUE,
                                             !.site = s, !.kind = kind, !.host = h]]

QueueWebsiteAction(s, enabled) ==
  /\ HasSite(s) /\ site[s].status # "pending"
  /\ site' = [site EXCEPT ![s] = [status |-> "pending", enabled |-> enabled]]

QueueWebsiteDomainAction(d, enabled) ==
  /\ HasDomain(d) /\ dom[d].kind = "alias" /\ dom[d].status # "pending"
  /\ dom' = [dom EXCEPT ![d].status = "pending", ![d].enabled = enabled]

QueueWebsiteDomainRename(d, h) ==
  /\ HasDomain(d) /\ dom[d].status # "pending"
  /\ dom' = [dom EXCEPT ![d].status = "pending", ![d].host = h, ![d].prev = dom[d].host]

(* One certificate a website. *)
CreateCertificate(s, name, names) ==
  /\ HasSite(s) /\ cert[s].status = "none"
  /\ cert' = [cert EXCEPT ![s] = [status |-> "pending", name |-> name, names |-> names]]

(* It has no condition on the status. *)
UpdateCertificate(s, name, names) ==
  /\ cert[s].status # "none"
  /\ cert' = [cert EXCEPT ![s] = [status |-> "pending", name |-> name, names |-> names]]

-------------------------------------------------------------------------------
(* Requests, second half: the transactions of store/sqlite. *)

(* Wrong on purpose: a hostname that is being given up is free at once. *)
TakenNow(h) == \E d \in Domain : HasDomain(d) /\ dom[d].host = h

(* WebsiteHostnameExists. *)
Taken(h) == \E d \in Domain : HasDomain(d) /\ h \in {dom[d].host, dom[d].prev}

(* CreateWebsiteProvision. *)
CommitWebsite(j) ==
  /\ j.kind = "website.create"
  /\ site[j.site].status = "none" /\ dom[j.dom].status = "none" /\ ~Taken(j.host)
  /\ CreateWebsite(j.site) /\ CreateWebsiteDomain(j.dom, j.site, "primary", j.host)
  /\ UNCHANGED cert

(* CreateWebsiteDomainProvision: the website's status is not read again. *)
CommitDomain(j) ==
  /\ j.kind = "domain.create"
  /\ HasSite(j.site) /\ dom[j.dom].status = "none" /\ ~Taken(j.host)
  /\ CreateWebsiteDomain(j.dom, j.site, "alias", j.host)
  /\ UNCHANGED <<site, cert>>

(* Of the store, named as their statement. *)
CommitAction(j) ==
  /\ j.kind \in SiteActions /\ QueueWebsiteAction(j.site, j.kind = "website.enable")
  /\ UNCHANGED <<dom, cert>>

CommitDomainAction(j) ==
  /\ j.kind \in DomainActions /\ QueueWebsiteDomainAction(j.dom, j.kind = "domain.enable")
  /\ UNCHANGED <<site, cert>>

CommitRename(j) ==
  /\ j.kind = "domain.update" /\ ~Taken(j.host) /\ QueueWebsiteDomainRename(j.dom, j.host)
  /\ UNCHANGED <<site, cert>>

(* QueueCertificate. *)
CommitCertificate(j) ==
  /\ j.kind \in CertKinds
  /\ IF j.create THEN CreateCertificate(j.site, j.host, j.names)
                 ELSE UpdateCertificate(j.site, j.host, j.names)
  /\ UNCHANGED <<site, dom>>

Transaction(j) == \/ CommitWebsite(j) \/ CommitDomain(j) \/ CommitAction(j)
                  \/ CommitDomainAction(j) \/ CommitRename(j) \/ CommitCertificate(j)

Commit(i) ==
  LET j == [queue[i] EXCEPT !.state = "queued"]
  IN /\ queue[i].state = "asked"
     /\ Transaction(j)
     /\ queue' \in {[queue EXCEPT ![i] = j], Append(RemoveAt(queue, i), j)}
     /\ UNCHANGED <<hostVars, usable, pc, ok, count>>

(* The transaction refuses or fails, or the client has gone. *)
Withdraw(i) ==
  /\ queue[i].state = "asked"
  /\ queue' = RemoveAt(queue, i)
  /\ UNCHANGED <<hostVars, rows, usable, pc, ok, count>>

(* accounts.ProvisionAction: while the account is not active the services  *)
(* refuse with ErrBusy.                                                    *)
Suspend == /\ usable /\ suspends < MaxSuspends
           /\ usable' = FALSE /\ suspends' = suspends + 1
           /\ UNCHANGED <<hostVars, rows, queue, pc, ok, requests, mishaps>>
Resume  == /\ ~usable
           /\ usable' = TRUE
           /\ UNCHANGED <<hostVars, rows, queue, pc, ok, count>>

-------------------------------------------------------------------------------
(* The worker. *)

Waiting == {i \in DOMAIN queue : queue[i].state = "queued"}
current == CHOOSE i \in DOMAIN queue : queue[i].state = "running"
held    == queue[current]

Claim ==
  /\ pc = "idle" /\ Waiting # {}
  /\ LET i == Min(Waiting)
     IN queue' = [queue EXCEPT ![i].state = "running", ![i].tries = @ + 1]
  /\ pc' = "claimed"
  /\ UNCHANGED <<hostVars, rows, usable, ok, count>>

SetSite(s, status)   == site' = [site EXCEPT ![s].status = status]
SetDomain(d, status) == dom' = [dom EXCEPT ![d].status = status]

(* DeleteWebsite, with the cascades of its foreign keys. *)
DropSite(s) ==
  /\ SetSite(s, "deleted")
  /\ dom' = [d \in Domain |-> IF d \in DomainsOf(s)
                              THEN [NoDomain EXCEPT !.status = "deleted"] ELSE dom[d]]
  /\ cert' = [cert EXCEPT ![s] = NoCert]
(* SetCertificateResult. *)
SetResult(s, status, names) ==
  cert' = [cert EXCEPT ![s].status = status, ![s].names = names]
DropDomain(d) == dom' = [dom EXCEPT ![d] = [NoDomain EXCEPT !.status = "deleted"]]

(* CompleteWebsiteDomainRename and FailWebsiteDomainRename. *)
CompleteRename(d) ==
  dom' = [dom EXCEPT ![d].prev = None,
                     ![d].status = IF dom[d].enabled THEN "active" ELSE "disabled"]
FailRename(d) ==
  dom' = [dom EXCEPT ![d].host = IF dom[d].prev = None THEN @ ELSE dom[d].prev,
                     ![d].prev = None, ![d].status = "error"]

(* Wrong on purpose: one attempt too late. *)
LastAttemptMissed == held.tries > MaxAttempts
LastAttempt == held.tries >= MaxAttempts

(* What the handler stores when it cannot bring the host to what the rows  *)
(* say.  website.enable stores only what the Agent answered, not that the  *)
(* account is suspended.                                                   *)
Fail(called) ==
  LET j == held
  IN \/ /\ j.kind = "website.create"
        /\ SetSite(j.site, "error") /\ SetDomain(j.dom, "error") /\ UNCHANGED cert
     \/ /\ j.kind \in SiteActions
        /\ IF called THEN SetSite(j.site, "error") ELSE UNCHANGED site
        /\ UNCHANGED <<dom, cert>>
     \/ /\ j.kind \in DomainActions \cup {"domain.create"}
        /\ SetDomain(j.dom, "error") /\ UNCHANGED <<site, cert>>
     \/ /\ j.kind = "domain.update"
        /\ IF LastAttempt THEN FailRename(j.dom) ELSE UNCHANGED dom
        /\ UNCHANGED <<site, cert>>
     \/ /\ j.kind \in CertKinds
        /\ SetResult(j.site, "error", cert[j.site].names)
        /\ UNCHANGED <<site, dom>>

(* Wrong on purpose: the names that were asked for. *)
IssuedAsAsked == cert[held.site].names
(* The names the certificate got, which may be fewer than it was asked for. *)
Issued == op.names

(* What it stores when the host is as the rows said. *)
Succeed ==
  LET j == held
  IN \/ /\ j.kind = "website.create"
        /\ SetSite(j.site, "active") /\ SetDomain(j.dom, "active") /\ UNCHANGED cert
     \/ j.kind = "website.delete" /\ DropSite(j.site)
     \/ /\ j.kind \in {"website.enable", "website.disable"}
        /\ SetSite(j.site, IF j.kind = "website.enable" THEN "active" ELSE "disabled")
        /\ UNCHANGED <<dom, cert>>
     \/ j.kind = "domain.delete" /\ DropDomain(j.dom) /\ UNCHANGED <<site, cert>>
     \/ /\ j.kind \in {"domain.create", "domain.enable", "domain.disable"}
        /\ SetDomain(j.dom, IF j.kind = "domain.disable" THEN "disabled" ELSE "active")
        /\ UNCHANGED <<site, cert>>
     \/ j.kind = "domain.update" /\ CompleteRename(j.dom) /\ UNCHANGED <<site, cert>>
     \/ /\ j.kind \in CertKinds
        /\ SetResult(j.site, "active", Issued)
        /\ UNCHANGED <<site, dom>>

(* The row of the job is gone: nothing is left to do for a deletion. *)
RowGone == \/ ~HasSite(held.site)
           \/ held.dom # None /\ ~HasDomain(held.dom)
(* ProvisionDomainRename meets its own work, or rows it does not know. *)
RenameDone  == /\ held.kind = "domain.update" /\ dom[held.dom].prev = None
               /\ dom[held.dom].host = held.host
               /\ dom[held.dom].status \in {"active", "disabled"}
RenameStale == /\ held.kind = "domain.update" /\ ~RenameDone
               /\ <<dom[held.dom].prev, dom[held.dom].host>> # <<held.prev, held.host>>
(* Everything that ends in Agent.EnsureWebsite wants an active account. *)
Ensures == held.kind \notin {"website.disable", "website.delete"} \cup CertKinds
Refused == Ensures /\ ~usable

(* The handler ends without a call. *)
CallNothing ==
  /\ pc = "claimed"
  /\ \/ /\ RowGone
        /\ ok' = (held.kind \in {"website.delete", "domain.delete"})
        /\ UNCHANGED rows
     \/ /\ ~RowGone /\ (RenameDone \/ RenameStale)
        /\ ok' = RenameDone
        /\ UNCHANGED rows
     \/ /\ ~RowGone /\ ~RenameDone /\ ~RenameStale /\ Refused
        /\ ok' = FALSE
        /\ Fail(FALSE)
  /\ pc' = "handled"
  /\ UNCHANGED <<hostVars, usable, queue, count>>

(* It reads its rows and calls the Agent.  The rows it reads one after     *)
(* another are pending, so that nothing it uses changes in between.        *)
Call ==
  /\ pc = "claimed" /\ op.at = "off"
  /\ ~RowGone /\ ~RenameDone /\ ~RenameStale /\ ~Refused
  /\ LET s == held.site
     IN CASE held.kind \in CertKinds -> Begin("tls", s, cert[s].name, cert[s].names)
          [] held.kind = "website.disable" -> Begin("disable", s, None, {})
          [] held.kind = "website.delete" -> Begin("delete", s, None, {})
          [] OTHER -> Begin("ensure", s, None, Enabled(s))
  /\ pc' = "calling"
  /\ UNCHANGED <<files, running, web, trash, pem, harm, rows, usable, queue,
                 ok, count>>

Handle ==
  /\ pc = "calling" /\ op.at = "end"
  /\ IF op.failed THEN Fail(TRUE) ELSE Succeed
  /\ ok' = ~op.failed
  /\ op' = NoOp
  /\ pc' = "handled"
  /\ UNCHANGED <<files, running, web, trash, pem, harm, usable, queue, count>>

Mishap == mishaps < MaxMishaps /\ mishaps' = mishaps + 1

(* Its writes fail, or one of the two there are for a new website. *)
HandleUnsaved ==
  /\ pc = "calling" /\ op.at = "end"
  /\ Mishap
  /\ \/ UNCHANGED <<site, dom>>
     \/ /\ held.kind = "website.create" /\ UNCHANGED dom
        /\ SetSite(held.site, IF op.failed THEN "error" ELSE "active")
     \/ /\ held.kind = "website.create" /\ op.failed /\ UNCHANGED site
        /\ SetDomain(held.dom, "error")
  /\ ok' = FALSE
  /\ op' = NoOp
  /\ pc' = "handled"
  /\ UNCHANGED <<files, running, web, trash, pem, harm, cert, usable,
                 queue, requests, suspends>>

(* Wrong on purpose: one attempt too many. *)
OnceMore == ~ok /\ held.tries <= MaxAttempts
Again == ~ok /\ held.tries < MaxAttempts

(* CompleteJob, RetryJob or FailJob. *)
Settle ==
  /\ pc = "handled"
  /\ queue' = IF Again
              THEN [queue EXCEPT ![current].state = "queued"]
              ELSE RemoveAt(queue, current)
  /\ pc' = "idle"
  /\ UNCHANGED <<hostVars, rows, usable, ok, count>>

(* The panel's process dies: the Agent's operation loses its context.  The *)
(* requests under way are gone with it: each of them has been withdrawn    *)
(* just before.                                                            *)
Crash ==
  /\ pc # "down"
  /\ \A i \in DOMAIN queue : queue[i].state # "asked"
  /\ Mishap
  /\ pc' = "down"
  /\ IF op.at = "off" THEN UNCHANGED op ELSE Lose
  /\ UNCHANGED <<files, running, web, trash, pem, harm, rows, usable, queue, ok,
                 requests, suspends>>

(* It is started again, and the worker begins with RecoverJobs. *)
Restart ==
  /\ pc = "down"
  /\ queue' = [i \in DOMAIN queue |->
                IF queue[i].state = "running"
                THEN [queue[i] EXCEPT !.state = "queued", !.tries = @ - 1] ELSE queue[i]]
  /\ pc' = "idle"
  /\ UNCHANGED <<hostVars, rows, usable, ok, count>>

(* The end of an operation nobody waits for any more. *)
Orphaned ==
  /\ pc # "calling" /\ op.at = "end"
  /\ op' = NoOp
  /\ UNCHANGED <<files, running, web, trash, pem, harm, panel>>

WithinHarm == mishaps' + suspends' + faults' + cancelled' + deaths' <= MaxHarm

Request ==
  \/ \E s \in Site :
       \/ \E d \in Domain, h \in Hostname : AskWebsite(s, d, h) \/ AskDomain(s, d, h)
       \/ \E kind \in SiteActions : AskAction(s, kind)
       \/ AskIssue(s) \/ AskRenew(s) \/ AskDue(s)
  \/ \E d \in Domain :
       \/ \E kind \in DomainActions : AskDomainAction(d, kind)
       \/ \E h \in Hostname : AskRename(d, h)
  \/ \E i \in DOMAIN queue : Commit(i) \/ Withdraw(i)
  \/ Suspend /\ WithinHarm
  \/ Resume
WorkerStep == Claim \/ CallNothing \/ Call \/ Handle \/ Settle \/ Orphaned
Next ==
  \/ Request
  \/ WorkerStep
  \/ HostNext /\ UNCHANGED panel /\ WithinHarm
  \/ HandleUnsaved /\ WithinHarm
  \/ Crash /\ WithinHarm
  \/ Restart

Spec == Init /\ [][Next]_vars

-------------------------------------------------------------------------------
(* Properties. *)

Unfinished(s) == \E i \in DOMAIN queue : /\ queue[i].site = s
                                         /\ queue[i].state \in {"queued", "running"}

(* A hostname shown as active, of a website shown as active, is served by  *)
(* it once no job of the website is under way.  Over HTTPS the website     *)
(* answers to the names of its certificate instead.                        *)
ActiveIsServed ==
  \A s \in Site : site[s].status = "active" /\ ~Unfinished(s) =>
    IF running[s].tls
    THEN cert[s].status = "active" => running[s].names = cert[s].names
    ELSE Active(s) \subseteq running[s].names

(* A certificate shown as active is in use by its website.                 *)
CertificateIsServed ==
  \A s \in Site :
    cert[s].status = "active" /\ site[s].status = "active" /\ ~Unfinished(s) => running[s].tls

(* What a website serves is one of its hostnames, also while one is being  *)
(* renamed or removed, unless the panel shows that something failed.       *)
ServedIsBound ==
  \A s \in Site :
    \/ site[s].status = "error" \/ \E d \in DomainsOf(s) : dom[d].status = "error"
    \/ Unfinished(s)
    \/ running[s].names \subseteq UNION {{dom[d].host, dom[d].prev} : d \in DomainsOf(s)}

(* No hostname belongs to two domains, the one a domain is giving up       *)
(* included, so a rename that fails can always be taken back.              *)
HostnamesHaveOneOwner ==
  \A d, e \in Domain : d # e /\ HasDomain(d) /\ HasDomain(e) =>
    {dom[d].host, dom[d].prev} \cap {dom[e].host, dom[e].prev} \subseteq {None}

(* Nor does nginx ever have two websites for one hostname.                 *)
NamesAreExclusive ==
  /\ HostnamesHaveOneOwner
  /\ \A s, t \in Site : s # t => running[s].names \cap running[t].names = {}

(* A website whose row is gone has its directory in the trash and is not   *)
(* served.                                                                 *)
DeletedIsQuarantined ==
  \A s \in Site : site[s].status = "deleted" =>
    s \in trash \ web /\ ~link[s] /\ conf[s] = NoConf

(* A certificate shown as active lists the names of the one on disk.       *)
CertificateIsTruthful ==
  \A s \in Site : cert[s].status = "active" /\ ~Unfinished(s) => cert[s].names = pem[s]

(* An operation that reports success has reached nginx, also when it found *)
(* its work done by an attempt before it.                                  *)
SuccessIsServed ==
  op.at = "end" /\ ~op.failed => running[op.site] = Loaded[op.site]

(* docs/operations.md: the Agent restores the previous configuration if    *)
(* validation or reload fails.  An operation ends with nginx serving what  *)
(* the files say, the new ones after a success and the previous ones after *)
(* a failure, unless its context was cancelled or a process has died.      *)
OutcomeIsServed ==
  op.at = "end" /\ cancelled = 0 /\ deaths = 0 /\ mishaps = 0 =>
    running[op.site] = Loaded[op.site]

-------------------------------------------------------------------------------
(* The worker, the Agent and systemd keep going. *)
Fairness == /\ WF_vars(WorkerStep)
            /\ WF_vars(AgentStep /\ UNCHANGED panel)
            /\ WF_vars(Restart)
FairSpec == Spec /\ Fairness

(* Once the requests are over nothing stays 'pending', unless a statement  *)
(* of the handler failed, or a website was enabled and its account         *)
(* disabled in between.                                                    *)
PendingResolves ==
  <>[] \/ mishaps > 0
       \/ /\ suspends > 0 \/ \A s \in Site : site[s].status # "pending"
          /\ \A d \in Domain : dom[d].status # "pending"
          /\ \A s \in Site : cert[s].status # "pending"
===============================================================================
