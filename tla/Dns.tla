---------------------------------- MODULE Dns ---------------------------------
(***************************************************************************)
(* DNS zones and records of one account: the requests of dns/service.go,   *)
(* their transactions, and the jobs dns.zone.create, dns.zone.delete and   *)
(* dns.record.sync, which change the zones of a PowerDNS server.           *)
(*                                                                         *)
(* A record job sends whole record sets: all the records of a name and     *)
(* type that the panel has when the job reads them.  A record that changes *)
(* its name or type leaves the set it was last synchronized under          *)
(* (synced_name, synced_type).                                             *)
(***************************************************************************)
EXTENDS PanelWorker

CONSTANTS
  Zone,       \* dns_zones IDs, never reused
  ZoneName,   \* domain names
  Foreign,    \* those the server has zones of that the panel did not create
  Rec,        \* dns_records IDs, never reused
  Value       \* [name, type, content, ttl] a record may have

(* The account field of a zone the panel did not create. *)
Stranger == "stranger"

KeyOf(v) == [name |-> v.name, type |-> v.type]
Keys     == {KeyOf(v) : v \in Value}

ASSUME DnsAssumption ==
  /\ None \notin Zone \cup ZoneName \cup Rec \cup {Stranger}
  /\ None \notin Keys
  /\ Foreign \subseteq ZoneName
  /\ Stranger \notin Zone
  /\ \A v \in Value : DOMAIN v = {"name", "type", "content", "ttl"}

VARIABLES
  nameservers, \* dns_settings has both nameservers
  zone,        \* the dns_zones table
  rec,         \* the dns_records table
  provider     \* the PowerDNS server: who owns a zone and what it publishes

dnsVars == <<nameservers, zone, rec, provider>>

ZoneRow == [status : {"none", "pending", "active", "deleting", "error", "deleted"},
            name : ZoneName \cup {None}]
RecRow == [status : {"none", "pending", "active", "deleting", "error", "deleted"},
           zone : Zone \cup {None}, val : Value \cup {None}, synced : Keys \cup {None}]
DnsRequest == [kind : {"zone.create", "zone.delete", "create", "update", "delete"},
               zone : Zone, name : ZoneName \cup {None},
               rec : Rec \cup {None}, val : Value \cup {None}]
DnsCall == [op : {"ensure", "drop", "sync"}, zone : Zone, keys : SUBSET Keys,
            set : SUBSET Value]
Served == [owner : Zone \cup {None, Stranger}, has : SUBSET Value]

DnsTypeOK ==
  /\ WorkerTypeOK(DnsRequest, DnsCall)
  /\ nameservers \in BOOLEAN
  /\ zone \in [Zone -> ZoneRow] /\ rec \in [Rec -> RecRow]
  /\ provider \in [ZoneName -> Served]

NoZone == [status |-> "none", name |-> None]
NoRec  == [status |-> "none", zone |-> None, val |-> None, synced |-> None]
NoServed == [owner |-> None, has |-> {}]

UnlessForeign(n, served) == IF n \in Foreign THEN [owner |-> Stranger, has |-> {}]
                                            ELSE served

DnsNone ==
  /\ nameservers = TRUE
  /\ zone = [z \in Zone |-> NoZone]
  /\ rec = [r \in Rec |-> NoRec]
  /\ provider = [n \in ZoneName |-> UnlessForeign(n, NoServed)]
(* No zone, or one that is in use. *)
DnsInit ==
  \/ DnsNone
  \/ /\ nameservers = TRUE
     /\ rec = [r \in Rec |-> NoRec]
     /\ \E z \in Zone, n \in ZoneName \ Foreign :
          /\ zone = [y \in Zone |-> IF y = z THEN [status |-> "active", name |-> n]
                                            ELSE NoZone]
          /\ provider = [m \in ZoneName |->
               UnlessForeign(m, IF m = n THEN [owner |-> z, has |-> {}] ELSE NoServed)]

-------------------------------------------------------------------------------
(* dns_zones and dns_records, one operator a statement. *)

ZoneRows == {z \in Zone : zone[z].status \notin {"none", "deleted"}}
RecRows  == {r \in Rec : rec[r].status \notin {"none", "deleted"}}
ListDNSRecords(z) == {r \in RecRows : rec[r].zone = z}
ListDNSRecordsByName(z, name) == {r \in ListDNSRecords(z) : rec[r].val.name = name}
Settled(status) == status \notin {"pending", "deleting"}

(* The name is unique. *)
CreateDNSZone(q) ==
  /\ zone[q.zone].status = "none" /\ \A z \in ZoneRows : zone[z].name # q.name
  /\ zone' = [zone EXCEPT ![q.zone] = [status |-> "pending", name |-> q.name]]

QueueDNSZoneDelete(q) ==
  /\ q.zone \in ZoneRows /\ Settled(zone[q.zone].status)
  /\ \A r \in ListDNSRecords(q.zone) : Settled(rec[r].status)
  /\ zone' = [zone EXCEPT ![q.zone].status = "deleting"]

(* No row, no change, and no error. *)
UpdateDNSZoneStatus(z, status) ==
  zone' = IF z \in ZoneRows THEN [zone EXCEPT ![z].status = status] ELSE zone

(* With the cascade to its records. *)
DeleteDNSZone(z) ==
  /\ zone' = [zone EXCEPT ![z] = [NoZone EXCEPT !.status = "deleted"]]
  /\ rec' = [r \in Rec |-> IF r \in ListDNSRecords(z)
                           THEN [NoRec EXCEPT !.status = "deleted"] ELSE rec[r]]

CreateDNSRecord(q) ==
  /\ rec[q.rec].status = "none" /\ zone[q.zone].status = "active"
  /\ rec' = [rec EXCEPT ![q.rec] = [status |-> "pending", zone |-> q.zone, val |-> q.val,
                                    synced |-> None]]

QueueDNSRecordUpdate(q) ==
  /\ q.rec \in RecRows /\ Settled(rec[q.rec].status)
  /\ zone[rec[q.rec].zone].status = "active"
  /\ rec' = [rec EXCEPT ![q.rec].status = "pending", ![q.rec].val = q.val]

QueueDNSRecordDelete(q) ==
  /\ q.rec \in RecRows /\ Settled(rec[q.rec].status)
  /\ zone[rec[q.rec].zone].status = "active"
  /\ rec' = [rec EXCEPT ![q.rec].status = "deleting"]

(* Wrong on purpose: what was sent is not remembered. *)
CompleteUnsynced(r) ==
  rec' = IF r \in RecRows THEN [rec EXCEPT ![r].status = "active"] ELSE rec
CompleteDNSRecordSync(r) ==
  rec' = IF r \in RecRows
         THEN [rec EXCEPT ![r].status = "active", ![r].synced = KeyOf(rec[r].val)] ELSE rec

UpdateDNSRecordStatus(r, status) ==
  rec' = IF r \in RecRows THEN [rec EXCEPT ![r].status = status] ELSE rec

DeleteDNSRecord(r) == rec' = [rec EXCEPT ![r] = [NoRec EXCEPT !.status = "deleted"]]

-------------------------------------------------------------------------------
(* Requests, first half: what the service reads and refuses by. *)

AskDns(kind, z, n, r, v) ==
  Ask([kind |-> kind, zone |-> z, name |-> n, rec |-> r, val |-> v])

(* UpdateSettings: both nameservers, or none. *)
UpdateDNSSettings(both) == nameservers' = both
UpdateSettings ==
  /\ requests < MaxRequests /\ requests' = requests + 1
  /\ UpdateDNSSettings(~nameservers)
  /\ UNCHANGED <<zone, rec, provider, usable, queue, pc, ok, call, troubles, unsaved,
                 suspended>>

(* CreateZone. *)
AskCreateZone(z, n) ==
  /\ usable /\ nameservers
  /\ zone[z].status = "none"
  /\ AskDns("zone.create", z, n, None, None)

(* DeleteZone. *)
AskDeleteZone(z) ==
  /\ z \in ZoneRows /\ Settled(zone[z].status)
  /\ AskDns("zone.delete", z, None, None, None)

(* CreateRecord: the account is not looked at. *)
AskCreateRecord(z, r, v) ==
  /\ zone[z].status = "active"
  /\ rec[r].status = "none"
  /\ AskDns("create", z, None, r, v)

(* UpdateRecord. *)
AskUpdateRecord(r, v) ==
  /\ r \in RecRows /\ Settled(rec[r].status) /\ zone[rec[r].zone].status = "active"
  /\ AskDns("update", rec[r].zone, None, r, v)

(* DeleteRecord. *)
AskDeleteRecord(r) ==
  /\ r \in RecRows /\ Settled(rec[r].status) /\ zone[rec[r].zone].status = "active"
  /\ AskDns("delete", rec[r].zone, None, r, None)

(* Requests, second half: the transactions. *)

(* ensureDNSRecordAvailable, and UNIQUE (zone, name, type, content,        *)
(* priority): what two records of one name may not be.                     *)
Conflict(v, w) == \/ "CNAME" \in {v.type, w.type}
                  \/ v.type = w.type /\ (v.content = w.content \/ v.ttl # w.ttl)
(* Wrong on purpose: records of another type do not matter. *)
AvailableByType(q) ==
  \A r \in ListDNSRecordsByName(q.zone, q.val.name) \ {q.rec} :
    rec[r].val.type = q.val.type => ~Conflict(q.val, rec[r].val)
Available(q) ==
  \A r \in ListDNSRecordsByName(q.zone, q.val.name) \ {q.rec} : ~Conflict(q.val, rec[r].val)

(* CreateDNSZoneProvision and CreateDNSRecordProvision, and those that are *)
(* named as their statement.                                               *)
CommitCreateZone(q) == q.kind = "zone.create" /\ CreateDNSZone(q) /\ UNCHANGED rec
CommitDeleteZone(q) == q.kind = "zone.delete" /\ QueueDNSZoneDelete(q) /\ UNCHANGED rec
CommitCreateRecord(q) ==
  q.kind = "create" /\ Available(q) /\ CreateDNSRecord(q) /\ UNCHANGED zone
CommitUpdateRecord(q) ==
  q.kind = "update" /\ Available(q) /\ QueueDNSRecordUpdate(q) /\ UNCHANGED zone
CommitDeleteRecord(q) == q.kind = "delete" /\ QueueDNSRecordDelete(q) /\ UNCHANGED zone
CommitDns(q) == \/ CommitCreateZone(q) \/ CommitDeleteZone(q) \/ CommitCreateRecord(q)
                \/ CommitUpdateRecord(q) \/ CommitDeleteRecord(q)

-------------------------------------------------------------------------------
(* ProvisionZone and ProvisionRecord. *)

DnsRowGone == IF held.rec = None THEN held.zone \notin ZoneRows ELSE held.rec \notin RecRows

(* The row of the job is gone: nothing is called. *)
DnsNothing ==
  /\ pc = "claimed" /\ DnsRowGone /\ NoFault /\ Returns(FALSE)
  /\ UNCHANGED dnsVars

(* One of the reads fails. *)
DnsReadFails ==
  /\ pc = "claimed" /\ Unsaved /\ Returns(FALSE)
  /\ UNCHANGED dnsVars

(* Wrong on purpose: the set the record has left is forgotten. *)
NewKeyOnly(r) == {KeyOf(rec[r].val)}
(* recordSets. *)
SentKeys(r) == {KeyOf(rec[r].val)} \cup ({rec[r].synced} \ {None})
(* Wrong on purpose: only the record of the job is sent. *)
SentAlone(q) == IF q.kind = "delete" THEN {} ELSE {rec[q.rec].val}
SentValues(q) ==
  {rec[r].val : r \in {s \in ListDNSRecords(q.zone) :
                         /\ KeyOf(rec[s].val) \in SentKeys(q.rec)
                         /\ rec[s].status # "deleting"
                         /\ ~(q.kind = "delete" /\ s = q.rec)}}

DnsRead ==
  /\ Goes("claimed", "read") /\ ~DnsRowGone
  /\ call' = CASE held.rec # None ->
                    [op |-> "sync", zone |-> held.zone, keys |-> SentKeys(held.rec),
                     set |-> SentValues(held)]
               [] held.kind = "zone.create" ->
                    [op |-> "ensure", zone |-> held.zone, keys |-> {}, set |-> {}]
               [] OTHER -> [op |-> "drop", zone |-> held.zone, keys |-> {}, set |-> {}]
  /\ UNCHANGED dnsVars

(* The row is marked before the call, unless it is to be deleted. *)
DnsMark ==
  /\ Goes("read", "calling") /\ UNCHANGED call
  /\ CASE held.kind = "zone.create" -> UpdateDNSZoneStatus(held.zone, "pending")
                                       /\ UNCHANGED rec
       [] held.kind \in {"create", "update"} -> UpdateDNSRecordStatus(held.rec, "pending")
                                                /\ UNCHANGED zone
       [] OTHER -> UNCHANGED <<zone, rec>>
  /\ UNCHANGED <<nameservers, provider>>

DnsMarkFails ==
  /\ pc = "read" /\ held.kind \notin {"zone.delete", "delete"}
  /\ Unsaved /\ Returns(FALSE)
  /\ UNCHANGED dnsVars

(* The Agent's PowerDNS driver: a zone is created, changed and removed     *)
(* only for the owner that its account field names.                        *)
Name  == zone[call.zone].name
Owned == provider[Name].owner = call.zone

EnsureZone ==
  /\ call.op = "ensure" /\ provider[Name].owner \in {None, call.zone}
  /\ provider' = [provider EXCEPT ![Name].owner = call.zone]

(* Wrong on purpose: whoever owns it. *)
DeleteAnyZone == call.op = "drop" /\ provider' = [provider EXCEPT ![Name] = NoServed]
DeleteZone ==
  /\ call.op = "drop"
  /\ provider' = IF Owned THEN [provider EXCEPT ![Name] = NoServed] ELSE provider

SyncRecordSets ==
  /\ call.op = "sync" /\ Owned
  /\ provider' = [provider EXCEPT ![Name].has =
                   {v \in @ : KeyOf(v) \notin call.keys} \cup call.set]

Applied == EnsureZone \/ DeleteZone \/ SyncRecordSets
Refused == \/ call.op = "ensure" /\ provider[Name].owner \notin {None, call.zone}
           \/ call.op = "sync" /\ ~Owned

DnsSucceed ==
  CASE held.kind = "zone.create" -> UpdateDNSZoneStatus(held.zone, "active") /\ UNCHANGED rec
    [] held.kind = "zone.delete" -> DeleteDNSZone(held.zone)
    [] held.kind = "delete" -> DeleteDNSRecord(held.rec) /\ UNCHANGED zone
    [] OTHER -> CompleteDNSRecordSync(held.rec) /\ UNCHANGED zone
DnsFail ==
  IF held.rec = None THEN UpdateDNSZoneStatus(held.zone, "error") /\ UNCHANGED rec
                     ELSE UpdateDNSRecordStatus(held.rec, "error") /\ UNCHANGED zone

HandleDns ==
  /\ pc = "calling"
  /\ \/ Applied /\ DnsSucceed /\ NoFault /\ Returns(TRUE)
     \/ Refused /\ UNCHANGED provider /\ DnsFail /\ NoFault /\ Returns(FALSE)
     \/ (Applied \/ UNCHANGED provider) /\ DnsFail /\ Fault /\ Returns(FALSE)
  /\ UNCHANGED nameservers

HandleDnsUnsaved ==
  /\ pc = "calling" /\ Unsaved /\ Returns(FALSE)
  /\ Applied \/ UNCHANGED provider
  /\ UNCHANGED <<nameservers, zone, rec>>

DieWithDns ==
  /\ Die
  /\ \/ pc = "calling" /\ Applied
     \/ UNCHANGED provider
  /\ UNCHANGED <<nameservers, zone, rec>>

DnsRequests ==
  \/ UpdateSettings
  \/ /\ \/ \E z \in Zone, n \in ZoneName : AskCreateZone(z, n)
        \/ \E z \in Zone : AskDeleteZone(z)
        \/ \E z \in Zone, r \in Rec, v \in Value : AskCreateRecord(z, r, v)
        \/ \E r \in Rec, v \in Value : AskUpdateRecord(r, v)
        \/ \E r \in Rec : AskDeleteRecord(r)
        \/ \E i \in DOMAIN queue : Withdraw(i)
        \/ Suspend \/ Resume
     /\ UNCHANGED dnsVars
  \/ \E i \in DOMAIN queue :
       Accept(i) /\ CommitDns(queue[i].req) /\ UNCHANGED <<nameservers, provider>>
DnsWorker ==
  \/ (Claim \/ Settle) /\ UNCHANGED dnsVars
  \/ DnsNothing \/ DnsRead \/ DnsMark \/ HandleDns
DnsNext == \/ DnsRequests \/ DnsWorker
           \/ DnsReadFails \/ DnsMarkFails \/ HandleDnsUnsaved \/ DieWithDns

-------------------------------------------------------------------------------
(* Properties. *)

(* Once no job is under way and no statement of a handler has failed, an   *)
(* active zone is the account's and publishes its active records,          *)
(* whichever jobs of their names ran meanwhile; and as long as nothing at  *)
(* all has gone wrong it publishes nothing else.                           *)
PublishedAsShown ==
  Quiet /\ ~unsaved => \A z \in ZoneRows : zone[z].status = "active" =>
    LET served == provider[zone[z].name]
        shown  == {rec[r].val : r \in {s \in ListDNSRecords(z) : rec[s].status = "active"}}
    IN /\ served.owner = z
       /\ shown \subseteq served.has
       /\ troubles = 0 => served.has \subseteq shown

(* docs/operations.md: WEBYCP does not take over a foreign zone with the   *)
(* same name, whoever asks and however often.  Nor does it leave one of    *)
(* its own behind: a zone it owns has its row.                             *)
ZonesAreOwned ==
  /\ \A n \in Foreign : provider[n].owner = Stranger /\ provider[n].has = {}
  /\ \A n \in ZoneName : provider[n].owner \in Zone =>
       provider[n].owner \in ZoneRows /\ zone[provider[n].owner].name = n

(* Two records of a name never contradict each other, whatever requests    *)
(* are under way together: no CNAME beside another record, one TTL a set.  *)
RecordSetsAgree ==
  \A z \in ZoneRows, r, s \in RecRows :
    r # s /\ rec[r].zone = z /\ rec[s].zone = z /\ rec[r].val.name = rec[s].val.name =>
      ~Conflict(rec[r].val, rec[s].val)

(* Nothing is 'pending' or 'deleting'. *)
DnsSettled == /\ \A z \in Zone : Settled(zone[z].status)
              /\ \A r \in Rec : Settled(rec[r].status)

(* plan.md: "Provider failures do not corrupt desired state."  A record    *)
(* whose update was accepted is not removed by the job of an earlier       *)
(* deletion that the update was accepted after.                            *)
AcceptedUpdatesStay ==
  [][\A r \in RecRows : r \notin RecRows' /\ rec[r].zone \in ZoneRows' =>
       ~\E i \in Waiting : queue[i].req.kind = "update" /\ queue[i].req.rec = r]_<<zone, rec, queue>>
===============================================================================
