--------------------------- MODULE ZonesShownProofs ---------------------------
(***************************************************************************)
(* Proofs that what the panel shows of DNS zones and records is what the   *)
(* PowerDNS server publishes, on the invariants of PanelProofs and the     *)
(* facts about jobs of PanelShownProofs.                                   *)
(***************************************************************************)
EXTENDS PanelShownProofs

-------------------------------------------------------------------------------
(* At most one job of an object. *)

(* The requests that wait; of those in X at most one has to be handled.    *)
Queued == {queue[i].req : i \in Waiting}
OneWaits(X) == \A i, j \in Waiting : queue[i].req \in X /\ queue[j].req \in X => i = j
Once(X) == OneWaits(X) /\ (Handling /\ held \in X => Queued \cap X = {})

(* With none awaited there is one at most. *)
LEMMA NoneOnce == ASSUME NEW X, Awaited \cap X = {} PROVE Once(X)
  BY DEF Once, OneWaits, Awaited, Queued

(* The same jobs. *)
LEMMA SameOnce ==
  ASSUME NEW X, Once(X), queue' = queue, Handling' => Handling
  PROVE  Once(X)'
  BY DEF Once, OneWaits, Queued, Waiting, held, current

(* A request is no job yet. *)
LEMMA AskOnce ==
  ASSUME NEW R, NEW C, WorkerInv(R, C), NEW r \in R, Ask(r), NEW X, Once(X)
  PROVE  Once(X)'
<1> DEFINE n == Len(queue)
<1>1. /\ DOMAIN queue = 1 .. n /\ DOMAIN queue' = 1 .. n + 1 /\ n \in Nat
      /\ \A k \in 1 .. n : queue'[k] = queue[k]
      /\ queue'[n + 1].state = "asked"
  <2>1. queue' = Append(queue, [req |-> r, state |-> "asked", tries |-> 0])
    BY DEF Ask
  <2> QED BY <2>1, QueueIsJobs, AppendProperties, LenProperties DEF WorkerInv
<1> HIDE DEF n
<1>2. \A k \in DOMAIN queue' : k = n + 1 \/ k \in 1 .. n
  BY <1>1
<1>3. Waiting' \subseteq Waiting /\ \A k \in Waiting' : queue'[k] = queue[k]
  BY <1>1, <1>2 DEF Waiting
<1>4. Handling' => Handling /\ held' = held
  BY AskStep, HeldIsKept DEF Requested, Handling
<1> QED BY <1>3, <1>4 DEF Once, OneWaits, Queued

(* A job leaves the queue. *)
LEMMA RemoveOnce ==
  ASSUME NEW R, NEW C, WorkerInv(R, C), NEW i \in DOMAIN queue, queue' = RemoveAt(queue, i),
         NEW X, Once(X)
  PROVE  OneWaits(X)' /\ Queued' \subseteq Queued
<1> DEFINE n == Len(queue)
           from(k) == IF k < i THEN k ELSE k + 1
<1>1. /\ n \in Nat /\ DOMAIN queue = 1 .. n /\ DOMAIN queue' = 1 .. n - 1 /\ i \in 1 .. n
      /\ \A k \in 1 .. n - 1 : queue'[k] = queue[from(k)]
  BY QueueIsJobs, RemovedJob DEF WorkerInv
<1> HIDE DEF n
<1>2. \A k \in 1 .. n - 1 : from(k) \in 1 .. n
  BY <1>1
<1>3. \A j, k \in 1 .. n - 1 : from(j) = from(k) => j = k
  BY <1>1
<1> HIDE DEF from
<1>4. \A k \in Waiting' : k \in 1 .. n - 1 /\ from(k) \in Waiting /\ queue'[k] = queue[from(k)]
  BY <1>1, <1>2 DEF Waiting
<1> QED BY <1>3, <1>4 DEF Once, OneWaits, Queued

(* Nor is it one when it is withdrawn. *)
LEMMA WithdrawOnce ==
  ASSUME NEW R, NEW C, WorkerInv(R, C), NEW i \in DOMAIN queue, Withdraw(i), NEW X, Once(X)
  PROVE  Once(X)'
<1>1. OneWaits(X)' /\ Queued' \subseteq Queued
  BY RemoveOnce DEF Withdraw
<1>2. Handling' => Handling /\ held' = held
  BY WithdrawStep, HeldIsKept DEF Requested, Handling
<1> QED BY <1>1, <1>2 DEF Once

(* The one that is accepted is the only one. *)
LEMMA AcceptOnce ==
  ASSUME NEW R, NEW C, WorkerInv(R, C), NEW i \in DOMAIN queue, Accept(i), NEW X,
         IF queue[i].req \in X THEN Awaited \cap X = {} ELSE Once(X)
  PROVE  Once(X)'
<1> DEFINE n == Len(queue)
           job == [queue[i] EXCEPT !.state = "queued"]
           from(k) == IF k < i THEN k ELSE k + 1
<1>1. Once(X)
  BY NoneOnce
<1>2. queue \in Seq(Job(R)) /\ queue[i] \in Job(R) /\ queue[i].state = "asked"
  BY QueueIsJobs DEF WorkerInv, Accept
<1>3. job \in Job(R) /\ job.req = queue[i].req
  BY <1>2 DEF Job
<1>4. n \in Nat /\ DOMAIN queue = 1 .. n /\ i \in 1 .. n
  BY <1>2, LenProperties
<1>5. Handling' => Handling /\ held' = held
  BY AcceptStep, HeldIsKept DEF Requested, Handling
<1> HIDE DEF n, job
<1>6. ASSUME NEW m \in DOMAIN queue', queue'[m] = job, NEW f,
             \A k \in Waiting' : k # m => f[k] \in Waiting /\ queue'[k] = queue[f[k]],
             \A j, k \in Waiting' : j # m /\ k # m /\ f[j] = f[k] => j = k
      PROVE  Once(X)'
  <2>1. CASE queue[i].req \in X
    <3>1. \A k \in Waiting' : queue'[k].req \in X => k = m
      BY <1>6, <2>1 DEF Awaited
    <3>2. Handling' => held' \notin X
      BY <1>5, <2>1 DEF Awaited
    <3> QED BY <3>1, <3>2 DEF Once, OneWaits
  <2>2. CASE queue[i].req \notin X
    <3>1. \A k \in Waiting' : queue'[k].req \in X => k # m
      BY <1>3, <1>6, <2>2
    <3>2. OneWaits(X)'
      BY <1>1, <1>6, <3>1 DEF Once, OneWaits
    <3>3. Queued' \cap X \subseteq Queued
      BY <1>6, <3>1 DEF Queued
    <3> QED BY <1>1, <1>5, <3>2, <3>3 DEF Once
  <2> QED BY <2>1, <2>2
<1>7. CASE queue' = [queue EXCEPT ![i] = job]
  <2>1. /\ DOMAIN queue' = 1 .. n /\ queue'[i] = job
        /\ \A k \in 1 .. n : k # i => queue'[k] = queue[k]
    BY <1>4, <1>7
  <2> DEFINE f == [k \in 1 .. n |-> k]
  <2>2. \A k \in Waiting' : k \in 1 .. n /\ (k # i => f[k] \in Waiting /\ queue'[k] = queue[f[k]])
    BY <1>4, <2>1 DEF Waiting
  <2>3. \A k \in 1 .. n : f[k] = k
    OBVIOUS
  <2> HIDE DEF f
  <2>4. \A j, k \in Waiting' : f[j] = f[k] => j = k
    BY <2>2, <2>3
  <2> QED BY <1>4, <1>6, <2>1, <2>2, <2>4
<1>8. CASE queue' = Append(RemoveAt(queue, i), job)
  <2>1. /\ RemoveAt(queue, i) \in Seq(Job(R)) /\ Len(RemoveAt(queue, i)) = n - 1
        /\ \A k \in 1 .. n - 1 : RemoveAt(queue, i)[k] = queue[from(k)]
    BY RemovedJob DEF n
  <2>2. /\ DOMAIN queue' = 1 .. n /\ queue'[n] = job
        /\ \A k \in 1 .. n - 1 : queue'[k] = queue[from(k)]
    BY <1>3, <1>4, <1>8, <2>1, AppendProperties, LenProperties
  <2>3. \A k \in 1 .. n - 1 : from(k) \in 1 .. n
    BY <1>4
  <2>4. \A j, k \in 1 .. n - 1 : from(j) = from(k) => j = k
    BY <1>4
  <2>5. \A k \in 1 .. n : k = n \/ k \in 1 .. n - 1
    BY <1>4
  <2> HIDE DEF from
  <2>6. \A k \in Waiting' : k # n => k \in 1 .. n - 1 /\ from(k) \in Waiting
                                     /\ queue'[k] = queue[from(k)]
    BY <1>4, <2>2, <2>3, <2>5 DEF Waiting
  <2>7. n \in DOMAIN queue'
    BY <1>4, <2>2
  <2> DEFINE f == [k \in 1 .. n - 1 |-> from(k)]
  <2>8. \A k \in 1 .. n - 1 : f[k] = from(k)
    OBVIOUS
  <2> HIDE DEF f
  <2> QED BY <1>6, <2>2, <2>4, <2>6, <2>7, <2>8
<1> QED BY <1>7, <1>8 DEF Accept, job

(* The job that is claimed waits no longer. *)
LEMMA ClaimOnce ==
  ASSUME NEW R, NEW C, WorkerInv(R, C), Claim, NEW X, Once(X)
  PROVE  Once(X)'
<1>1. PICK i \in Waiting : /\ DOMAIN queue' = DOMAIN queue /\ held' = queue[i].req
                           /\ i \notin Waiting'
                           /\ \A k \in DOMAIN queue : k # i => queue'[k] = queue[k]
  BY ClaimStep
<1>2. \A k \in Waiting' : k \in Waiting /\ k # i /\ queue'[k] = queue[k]
  BY <1>1 DEF Waiting
<1> QED BY <1>1, <1>2 DEF Once, OneWaits, Queued

(* A job of X is not to be tried again. *)
LEMMA SettleOnce ==
  ASSUME NEW R, NEW C, WorkerInv(R, C), Settle, NEW X, Once(X), held \in X => ok
  PROVE  Once(X)'
<1>1. pc' = "idle" /\ current \in DOMAIN queue /\ queue[current].state = "running"
  BY HeldIsJob DEF Settle
<1>2. CASE ~Again
  <2>1. OneWaits(X)'
    BY <1>1, <1>2, RemoveOnce DEF Settle
  <2> QED BY <1>1, <2>1 DEF Once, Handling
<1>3. CASE Again
  <2> DEFINE job == [queue[current] EXCEPT !.state = "queued"]
  <2>1. queue[current] \in Job(R) /\ DOMAIN queue = 1 .. Len(queue) /\ Len(queue) \in Nat
    BY <1>1, QueueIsJobs DEF WorkerInv
  <2>2. job.req = held
    BY <2>1 DEF Job, held
  <2>3. queue' = [queue EXCEPT ![current] = job]
    BY <1>3 DEF Settle
  <2> HIDE DEF job
  <2>4. /\ DOMAIN queue' = DOMAIN queue /\ queue'[current] = job
        /\ \A k \in DOMAIN queue : k # current => queue'[k] = queue[k]
    BY <1>1, <2>3
  <2>5. held \notin X
    BY <1>3 DEF Again
  <2>6. \A k \in Waiting' : queue'[k].req \in X => k \in Waiting /\ queue'[k] = queue[k]
    BY <2>2, <2>4, <2>5 DEF Waiting
  <2>7. OneWaits(X)'
    BY <2>6 DEF Once, OneWaits
  <2> QED BY <1>1, <2>7 DEF Once, Handling
<1> QED BY <1>2, <1>3

-------------------------------------------------------------------------------
(* Zones and records: which rows, jobs and calls go together. *)

ZoneCreations(z) == {q \in DnsAsked : q.kind = "zone.create" /\ q.zone = z}
ZoneDeletions(z) == {q \in DnsAsked : q.kind = "zone.delete" /\ q.zone = z}
RecordJobs(r)    == {q \in DnsAsked : q.rec = r}

ZonesDiffer == \A y, z \in ZoneRows : zone[y].name = zone[z].name => y = z
RecordsHaveZones == \A r \in RecRows : rec[r].zone \in ZoneRows

(* A job, or a request about a record there is, names the record's zone.   *)
FitsRow(q) == q.rec # None => /\ rec[q.rec].status # "none"
                              /\ q.rec \in RecRows => rec[q.rec].zone = q.zone
RequestsFit == /\ \A q \in Accepted : FitsRow(q)
               /\ \A q \in Known : q.kind # "create" => FitsRow(q)

(* The creation of a zone comes before the deletions of it. *)
ZonesInOrder ==
  \A z \in Zone : /\ OrderFits(ZoneCreations(z), ZoneDeletions(z))
                  /\ zone[z].status = "none" => Known \cap ZoneDeletions(z) = {}

(* What is asked of the Agent is what the job is for, and its row is there. *)
CallIsForJob ==
  pc \in {"read", "calling"} =>
    /\ ~DnsRowGone
    /\ call.op = IF held.rec # None THEN "sync"
                 ELSE IF held.kind = "zone.create" THEN "ensure" ELSE "drop"

NothingUnowned == \A n \in ZoneName : provider[n].owner = None => provider[n].has = {}

DnsFits == /\ ZonesDiffer /\ RecordsHaveZones /\ RequestsFit /\ ZonesInOrder
           /\ CallIsForJob /\ NothingUnowned

(* At first there is a zone at most, and no job. *)
LEMMA DnsFitsInit == WorkerInit /\ DnsInit => DnsFits
<1> SUFFICES ASSUME WorkerInit, DnsInit PROVE DnsFits
  OBVIOUS
<1>1. Known = {} /\ Accepted = {} /\ pc = "idle"
  BY DEF WorkerInit, Known, Accepted, Unfinished
<1>2. ZonesInOrder /\ RequestsFit /\ CallIsForJob
  BY <1>1, OrderInit DEF ZonesInOrder, RequestsFit, CallIsForJob
<1>3. RecordsHaveZones
  BY DEF DnsInit, DnsNone, NoRec, RecRows, RecordsHaveZones
<1>4. ZonesDiffer /\ NothingUnowned
  <2>1. CASE DnsNone
    BY <2>1 DEF DnsNone, NoZone, ZoneRows, UnlessForeign, NoServed, ZonesDiffer, NothingUnowned
  <2>2. ASSUME NEW z \in Zone, NEW n \in ZoneName \ Foreign,
               zone = [y \in Zone |-> IF y = z THEN [status |-> "active", name |-> n] ELSE NoZone],
               provider = [m \in ZoneName |->
                 UnlessForeign(m, IF m = n THEN [owner |-> z, has |-> {}] ELSE NoServed)]
        PROVE  ZonesDiffer /\ NothingUnowned
    BY <2>2 DEF NoZone, ZoneRows, UnlessForeign, NoServed, ZonesDiffer, NothingUnowned
  <2> QED BY <2>1, <2>2 DEF DnsInit
<1> QED BY <1>2, <1>3, <1>4 DEF DnsFits

(* No request is both. *)
LEMMA ZoneJobsDiffer == \A z \in Zone : ZoneCreations(z) \cap ZoneDeletions(z) = {}
  BY DEF ZoneCreations, ZoneDeletions

(* Whatever request names a record names one of Rec. *)
LEMMA KnownRecords == ASSUME DnsInv PROVE \A q \in Known : q.rec # None => q.rec \in Rec
<1>1. Known \subseteq DnsAsked
  BY AwaitedIsKnown DEF DnsInv
<1> QED BY <1>1 DEF DnsAsked, DnsRequest

(* Steps that bring no request and make none a job. *)
OrderlyStep == \/ Claim \/ Settle \/ Die
               \/ \E i \in DOMAIN queue : Withdraw(i)
               \/ queue' = queue /\ (pc # "idle" \/ pc' = pc)

(* They keep the order, and bring nothing new. *)
LEMMA OrderlyKept ==
  ASSUME NEW R, NEW C, WorkerInv(R, C), NEW X, NEW Y, X \cap Y = {}, OrderFits(X, Y), OrderlyStep
  PROVE  OrderFits(X, Y)' /\ NothingNew
<1>1. CASE Claim
  BY <1>1, ClaimOrder, ClaimAwaits
<1>2. CASE Settle
  BY <1>2, SettleOrder, SettleAwaits
<1>3. CASE Die
  BY <1>3, DieOrder, DieAwaits
<1>4. ASSUME NEW i \in DOMAIN queue, Withdraw(i) PROVE OrderFits(X, Y)' /\ NothingNew
  <2>1. Requested /\ OldRequests /\ pc' = pc
    BY <1>4, WithdrawStep DEF Requested
  <2>2. NothingNew /\ Precedes(X, Y)'
    BY <1>4, <2>1, OldIsNotNew, RemoveOrder DEF OrderFits, Withdraw
  <2>3. pc # "idle" => held' = held
    BY <2>1, HeldIsKept
  <2> QED BY <2>1, <2>2, <2>3 DEF OrderFits, NothingNew
<1>5. CASE queue' = queue /\ (pc # "idle" \/ pc' = pc)
  <2>1. held' = held /\ NothingNew
    BY <1>5 DEF held, current, NothingNew, Accepted, Known, Unfinished
  <2> QED BY <1>5, <2>1, SameOrder
<1> QED BY <1>1, <1>2, <1>3, <1>4, <1>5 DEF OrderlyStep

(* Steps of rows that change no more than their status, or go.             *)
LEMMA DnsFitsKept ==
  ASSUME DnsInv, DnsFits, OrderlyStep, RecordsKept,
         \A z \in Zone : zone'[z].status = "none" => zone[z].status = "none",
         \A z \in ZoneRows' : z \in ZoneRows /\ zone'[z].name = zone[z].name,
         \A r \in RecRows' : rec[r].zone \in ZoneRows',
         CallIsForJob', NothingUnowned'
  PROVE  DnsFits'
<1>1. \A z \in Zone : OrderFits(ZoneCreations(z), ZoneDeletions(z))' /\ NothingNew
  <2> TAKE z \in Zone
  <2> DEFINE X == ZoneCreations(z)
             Y == ZoneDeletions(z)
  <2>1. X \cap Y = {} /\ OrderFits(X, Y) /\ WorkerInv(DnsAsked, DnsCall)
    BY ZoneJobsDiffer DEF DnsFits, ZonesInOrder, DnsInv
  <2>2. X' = X /\ Y' = Y
    BY DEF ZoneCreations, ZoneDeletions
  <2> HIDE DEF X, Y
  <2>3. OrderFits(X, Y)' /\ NothingNew
    BY <2>1, OrderlyKept
  <2> QED BY <2>3 DEF X, Y
<1>2. NothingNew
  <2>1. {} \cap {} = {} /\ OrderFits({}, {}) /\ WorkerInv(DnsAsked, DnsCall)
    BY DEF OrderFits, Precedes, DnsInv
  <2> QED BY <2>1, OrderlyKept
<1>3. ZonesInOrder'
  BY <1>1, <1>2 DEF DnsFits, ZonesInOrder, NothingNew, ZoneDeletions
<1>4. ZonesDiffer' /\ RecordsHaveZones'
  BY DEF DnsFits, ZonesDiffer, RecordsHaveZones, RecordsKept, RecRows
<1>5. RequestsFit'
  BY <1>2, KnownRecords, AwaitedIsKnown
     DEF DnsFits, DnsInv, RequestsFit, FitsRow, NothingNew, RecordsKept, RecRows
<1> QED BY <1>3, <1>4, <1>5 DEF DnsFits

(* The first half of a request. *)
MayAsk(q) ==
  /\ q.kind = "zone.delete" => zone[q.zone].status # "none"
  /\ q.kind \in {"update", "delete"} => q.rec \in RecRows /\ rec[q.rec].zone = q.zone
DnsPlain ==
  \/ UpdateSettings
  \/ /\ \/ \E q \in DnsAsked : Ask(q) /\ MayAsk(q)
        \/ \E i \in DOMAIN queue : Withdraw(i)
        \/ Suspend \/ Resume
     /\ UNCHANGED dnsVars

(* Every request is one that may be asked. *)
LEMMA DnsAsksFor ==
  ASSUME DnsInv,
         \/ \E z \in Zone, n \in ZoneName : AskCreateZone(z, n)
         \/ \E z \in Zone : AskDeleteZone(z)
         \/ \E z \in Zone, r \in Rec, v \in Value : AskCreateRecord(z, r, v)
         \/ \E r \in Rec, v \in Value : AskUpdateRecord(r, v)
         \/ \E r \in Rec : AskDeleteRecord(r)
  PROVE  \E q \in DnsAsked : Ask(q) /\ MayAsk(q)
<1>1. \A r \in RecRows : r \in Rec /\ rec[r].zone \in Zone
  BY DEF DnsInv, DnsRowsFine, RecRows
<1>2. ASSUME NEW z \in Zone, NEW n \in ZoneName, AskCreateZone(z, n)
      PROVE  \E q \in DnsAsked : Ask(q) /\ MayAsk(q)
  <2> DEFINE q == [kind |-> "zone.create", zone |-> z, name |-> n, rec |-> None, val |-> None]
  <2>1. q \in DnsAsked /\ Ask(q)
    BY <1>2 DEF AskCreateZone, AskDns, DnsRequest, DnsAsked
  <2> QED BY <2>1 DEF MayAsk
<1>3. ASSUME NEW z \in Zone, AskDeleteZone(z) PROVE \E q \in DnsAsked : Ask(q) /\ MayAsk(q)
  <2> DEFINE q == [kind |-> "zone.delete", zone |-> z, name |-> None, rec |-> None, val |-> None]
  <2>1. q \in DnsAsked /\ Ask(q) /\ zone[z].status # "none"
    BY <1>3 DEF AskDeleteZone, AskDns, DnsRequest, DnsAsked, ZoneRows
  <2> QED BY <2>1 DEF MayAsk
<1>4. ASSUME NEW z \in Zone, NEW r \in Rec, NEW v \in Value, AskCreateRecord(z, r, v)
      PROVE  \E q \in DnsAsked : Ask(q) /\ MayAsk(q)
  <2> DEFINE q == [kind |-> "create", zone |-> z, name |-> None, rec |-> r, val |-> v]
  <2>1. q \in DnsAsked /\ Ask(q)
    BY <1>4 DEF AskCreateRecord, AskDns, DnsRequest, DnsAsked
  <2> QED BY <2>1 DEF MayAsk
<1>5. ASSUME NEW r \in Rec, NEW v \in Value, AskUpdateRecord(r, v)
      PROVE  \E q \in DnsAsked : Ask(q) /\ MayAsk(q)
  <2>1. PICK z \in Zone : r \in RecRows /\ z = rec[r].zone
    BY <1>1, <1>5 DEF AskUpdateRecord
  <2> DEFINE q == [kind |-> "update", zone |-> z, name |-> None, rec |-> r, val |-> v]
  <2>2. q \in DnsAsked /\ Ask(q)
    BY <1>5, <2>1 DEF AskUpdateRecord, AskDns, DnsRequest, DnsAsked
  <2> QED BY <2>1, <2>2 DEF MayAsk
<1>6. ASSUME NEW r \in Rec, AskDeleteRecord(r) PROVE \E q \in DnsAsked : Ask(q) /\ MayAsk(q)
  <2>1. PICK z \in Zone : r \in RecRows /\ z = rec[r].zone
    BY <1>1, <1>6 DEF AskDeleteRecord
  <2> DEFINE q == [kind |-> "delete", zone |-> z, name |-> None, rec |-> r, val |-> None]
  <2>2. q \in DnsAsked /\ Ask(q)
    BY <1>6, <2>1 DEF AskDeleteRecord, AskDns, DnsRequest, DnsAsked
  <2> QED BY <2>1, <2>2 DEF MayAsk
<1> QED BY <1>2, <1>3, <1>4, <1>5, <1>6

(* What waits for the worker is not what is asked or withdrawn. *)
LEMMA QueuedKept ==
  ASSUME NEW R, NEW C, WorkerInv(R, C),
         \/ \E q \in R : Ask(q)
         \/ \E i \in DOMAIN queue : Withdraw(i)
  PROVE  Queued' = Queued
<1>1. Requested
  BY AskStep, WithdrawStep
<1>2. Queued \subseteq Queued'
  BY <1>1, RequestsLetWait DEF WaitingKept, Queued
<1>3. ASSUME NEW q \in R, Ask(q) PROVE Queued' \subseteq Queued
  BY <1>3, AskStep DEF Queued, Waiting
<1>4. ASSUME NEW i \in DOMAIN queue, Withdraw(i) PROVE Queued' \subseteq Queued
  <2>1. Once({})
    BY DEF Once, OneWaits
  <2> QED BY <1>4, <2>1, RemoveOnce DEF Withdraw
<1> QED BY <1>2, <1>3, <1>4

(* The first half leaves rows, provider, jobs and worker. *)
LEMMA DnsPlainJobs ==
  ASSUME DnsInv, DnsPlain
  PROVE  /\ UNCHANGED <<zone, rec, provider, call, pc, ok, unsaved>>
         /\ troubles' = 0 => troubles = 0
         /\ pc # "idle" => held' = held
         /\ Queued' = Queued /\ Awaited' = Awaited /\ Accepted' \subseteq Accepted
         /\ \A r : Once(RecordJobs(r)) => Once(RecordJobs(r))'
<1>1. WorkerInv(DnsAsked, DnsCall) /\ troubles \in Nat
  BY DEF DnsInv, WorkerInv, WorkerTypeOK
<1>2. UNCHANGED <<zone, rec, provider, call, pc, ok, unsaved>> /\ (troubles' = 0 => troubles = 0)
  <2>1. UNCHANGED <<zone, rec, provider, call, pc, ok, unsaved>>
    BY DEF DnsPlain, UpdateSettings, dnsVars, Ask, Withdraw, Suspend, Resume, events
  <2>2. troubles' = troubles \/ troubles' = troubles + 1
    BY DEF DnsPlain, UpdateSettings, Ask, Withdraw, Suspend, Resume, Trouble, events
  <2> QED BY <1>1, <2>1, <2>2
<1>3. CASE queue' = queue
  <2>1. held' = held /\ Queued' = Queued /\ Accepted' = Accepted
    BY <1>3 DEF held, current, Queued, Waiting, Accepted, Unfinished
  <2>2. Awaited' = Awaited
    BY <1>2, <2>1 DEF Awaited, Queued, Handling
  <2>3. \A r : Once(RecordJobs(r)) => Once(RecordJobs(r))'
    <3> TAKE r
    <3> DEFINE X == RecordJobs(r)
    <3>1. X' = X
      BY DEF RecordJobs
    <3> HIDE DEF X
    <3>2. Once(X) => Once(X)'
      BY <1>2, <1>3, SameOnce DEF Handling
    <3> QED BY <3>2 DEF X
  <2> QED BY <1>2, <2>1, <2>2, <2>3
<1>4. CASE (\E q \in DnsAsked : Ask(q)) \/ \E i \in DOMAIN queue : Withdraw(i)
  <2>1. Requested /\ Accepted' \subseteq Accepted
    BY <1>1, <1>4, AskStep, AskAwaits, WithdrawStep, OldIsNotNew DEF NothingNew
  <2>2. pc # "idle" => held' = held
    BY <1>1, <2>1, HeldIsKept
  <2>3. Queued' = Queued /\ Awaited' = Awaited
    <3>1. Queued' = Queued
      BY <1>1, <1>4, QueuedKept
    <3> QED BY <1>2, <2>2, <3>1 DEF Awaited, Queued, Handling
  <2>4. \A r : Once(RecordJobs(r)) => Once(RecordJobs(r))'
    <3> TAKE r
    <3> DEFINE X == RecordJobs(r)
    <3>1. X' = X
      BY DEF RecordJobs
    <3> HIDE DEF X
    <3>2. Once(X) => Once(X)'
      BY <1>1, <1>4, AskOnce, WithdrawOnce
    <3> QED BY <3>2 DEF X
  <2> QED BY <1>2, <2>1, <2>2, <2>3, <2>4
<1> QED BY <1>3, <1>4 DEF DnsPlain, UpdateSettings, Suspend, Resume

(* So rows and jobs still fit. *)
LEMMA DnsPlainFits ==
  ASSUME DnsInv, DnsFits, DnsPlain
  PROVE  DnsFits'
<1>1. /\ UNCHANGED <<zone, rec, provider, call, pc>> /\ Accepted' \subseteq Accepted
      /\ pc # "idle" => held' = held
  BY DnsPlainJobs
<1>2. ZoneRows' = ZoneRows /\ RecRows' = RecRows
  BY <1>1 DEF ZoneRows, RecRows
<1>3. CallIsForJob' /\ NothingUnowned'
  BY <1>1, <1>2 DEF DnsFits, CallIsForJob, NothingUnowned, DnsRowGone
<1>4. ASSUME NEW q \in DnsAsked, Ask(q), MayAsk(q) PROVE DnsFits'
  <2>1. /\ Known' \subseteq Known \cup {q} /\ WorkerInv(DnsAsked, DnsCall)
    BY <1>4, AskAwaits DEF DnsInv
  <2>2. ASSUME NEW z \in Zone PROVE OrderFits(ZoneCreations(z), ZoneDeletions(z))'
    <3> DEFINE X == ZoneCreations(z)
               Y == ZoneDeletions(z)
    <3>1. X' = X /\ Y' = Y /\ OrderFits(X, Y)
      BY DEF ZoneCreations, ZoneDeletions, DnsFits, ZonesInOrder
    <3> HIDE DEF X, Y
    <3>2. OrderFits(X, Y)'
      BY <1>4, <2>1, <3>1, AskOrder
    <3> QED BY <3>2 DEF X, Y
  <2>3. ZonesInOrder'
    BY <1>1, <1>4, <2>1, <2>2 DEF DnsFits, ZonesInOrder, ZoneDeletions, MayAsk
  <2>4. FitsRow(q) \/ q.kind = "create"
    BY <1>4 DEF MayAsk, FitsRow, RecRows, DnsAsked, DnsRequest
  <2>5. RequestsFit'
    BY <1>1, <1>2, <2>1, <2>4 DEF DnsFits, RequestsFit, FitsRow
  <2>6. ZonesDiffer' /\ RecordsHaveZones'
    BY <1>1, <1>2 DEF DnsFits, ZonesDiffer, RecordsHaveZones
  <2> QED BY <1>3, <2>3, <2>5, <2>6 DEF DnsFits
<1>5. ASSUME ~ \E q \in DnsAsked : Ask(q) /\ MayAsk(q) PROVE DnsFits'
  <2>1. OrderlyStep
    BY <1>1, <1>5 DEF DnsPlain, UpdateSettings, Suspend, Resume, OrderlyStep
  <2>2. RecordsKept
    BY <1>1, RecordStored
  <2>3. RecRows' \subseteq RecRows /\ \A r \in RecRows' : rec[r].zone \in ZoneRows'
    BY <1>2 DEF DnsFits, RecordsHaveZones
  <2>4. /\ \A z \in Zone : zone'[z].status = "none" => zone[z].status = "none"
        /\ \A z \in ZoneRows' : z \in ZoneRows /\ zone'[z].name = zone[z].name
    BY <1>1, <1>2
  <2> QED BY <1>3, <2>1, <2>2, <2>3, <2>4, DnsFitsKept
<1> QED BY <1>4, <1>5

(* The second half: what a transaction finds and stores. *)
ZoneCreated(q) ==
  /\ q.kind = "zone.create" /\ q.rec = None /\ q.zone \in Zone /\ zone[q.zone].status = "none"
  /\ q.zone \notin ZoneRows /\ ZoneRows' = ZoneRows \cup {q.zone} /\ UNCHANGED rec
  /\ zone'[q.zone].status = "pending" /\ zone'[q.zone].name \in ZoneName
  /\ \A z \in ZoneRows : zone[z].name # zone'[q.zone].name
  /\ \A z \in Zone : z # q.zone => zone'[z] = zone[z]
ZoneDeleting(q) ==
  /\ q.kind = "zone.delete" /\ q.rec = None /\ q.zone \in ZoneRows
  /\ ZoneRows' = ZoneRows /\ UNCHANGED rec
  /\ \A r \in ListDNSRecords(q.zone) : Settled(rec[r].status)
  /\ zone'[q.zone].status = "deleting" /\ zone'[q.zone].name = zone[q.zone].name
  /\ \A z \in Zone : z # q.zone => zone'[z] = zone[z]
RecordCreated(q) ==
  /\ q.kind = "create" /\ q.rec \in Rec /\ rec[q.rec].status = "none" /\ q.rec \notin RecRows
  /\ q.zone \in ZoneRows /\ zone[q.zone].status = "active"
  /\ RecRows' = RecRows \cup {q.rec} /\ UNCHANGED zone
  /\ rec'[q.rec] = [status |-> "pending", zone |-> q.zone, val |-> q.val, synced |-> None]
  /\ \A r \in Rec : r # q.rec => rec'[r] = rec[r]
RecordQueued(q) ==
  /\ q.kind \in {"update", "delete"} /\ q.rec \in RecRows /\ Settled(rec[q.rec].status)
  /\ zone[rec[q.rec].zone].status = "active"
  /\ RecRows' = RecRows /\ UNCHANGED zone
  /\ rec'[q.rec].status = IF q.kind = "update" THEN "pending" ELSE "deleting"
  /\ rec'[q.rec].val = IF q.kind = "update" THEN q.val ELSE rec[q.rec].val
  /\ rec'[q.rec].zone = rec[q.rec].zone /\ rec'[q.rec].synced = rec[q.rec].synced
  /\ \A r \in Rec : r # q.rec => rec'[r] = rec[r]

(* Each transaction is one of the four. *)
LEMMA CommitShown ==
  ASSUME DnsInv, NEW q \in DnsAsked, CommitDns(q)
  PROVE  ZoneCreated(q) \/ ZoneDeleting(q) \/ RecordCreated(q) \/ RecordQueued(q)
<1>1. /\ zone \in [Zone -> ZoneRow] /\ rec \in [Rec -> RecRow]
      /\ RecRows \subseteq Rec /\ ZoneRows \subseteq Zone /\ q.zone \in Zone
      /\ q.kind = "zone.create" => q.name \in ZoneName /\ q.rec = None
      /\ q.kind = "zone.delete" => q.rec = None
      /\ q.kind \in {"create", "update", "delete"} => q.rec \in Rec
  BY DEF DnsInv, DnsRowsFine, DnsAsked, DnsRequest, ZoneRows, RecRows
<1>2. CASE CommitCreateZone(q)
  <2>1. /\ q.kind = "zone.create" /\ zone[q.zone].status = "none" /\ rec' = rec
        /\ \A z \in ZoneRows : zone[z].name # q.name
        /\ zone' = [zone EXCEPT ![q.zone] = [status |-> "pending", name |-> q.name]]
    BY <1>2 DEF CommitCreateZone, CreateDNSZone
  <2>2. /\ zone'[q.zone].status = "pending" /\ zone'[q.zone].name = q.name
        /\ \A z \in Zone : z # q.zone => zone'[z] = zone[z]
    BY <1>1, <2>1
  <2>3. q.zone \notin ZoneRows /\ ZoneRows' = ZoneRows \cup {q.zone}
    BY <1>1, <2>1, <2>2 DEF ZoneRows
  <2> QED BY <1>1, <2>1, <2>2, <2>3 DEF ZoneCreated
<1>3. CASE CommitDeleteZone(q)
  <2>1. /\ q.kind = "zone.delete" /\ q.zone \in ZoneRows /\ rec' = rec
        /\ \A r \in ListDNSRecords(q.zone) : Settled(rec[r].status)
        /\ zone' = [zone EXCEPT ![q.zone].status = "deleting"]
    BY <1>3 DEF CommitDeleteZone, QueueDNSZoneDelete
  <2>2. /\ zone'[q.zone].status = "deleting" /\ zone'[q.zone].name = zone[q.zone].name
        /\ \A z \in Zone : z # q.zone => zone'[z] = zone[z]
    BY <1>1, <2>1 DEF ZoneRow
  <2>3. ZoneRows' = ZoneRows
    BY <1>1, <2>1, <2>2 DEF ZoneRows
  <2> QED BY <1>1, <2>1, <2>2, <2>3 DEF ZoneDeleting
<1>4. CASE CommitCreateRecord(q)
  <2> DEFINE row == [status |-> "pending", zone |-> q.zone, val |-> q.val, synced |-> None]
  <2>1. /\ q.kind = "create" /\ rec[q.rec].status = "none" /\ zone[q.zone].status = "active"
        /\ rec' = [rec EXCEPT ![q.rec] = row] /\ zone' = zone
    BY <1>4 DEF CommitCreateRecord, CreateDNSRecord
  <2>2. rec'[q.rec] = row /\ row.status = "pending" /\ \A r \in Rec : r # q.rec => rec'[r] = rec[r]
    BY <1>1, <2>1
  <2> HIDE DEF row
  <2>3. q.rec \notin RecRows /\ RecRows' = RecRows \cup {q.rec} /\ q.zone \in ZoneRows
    BY <1>1, <2>1, <2>2 DEF RecRows, ZoneRows
  <2> QED BY <1>1, <2>1, <2>2, <2>3 DEF RecordCreated, row
<1>5. CASE CommitUpdateRecord(q)
  <2> DEFINE row == [rec[q.rec] EXCEPT !.status = "pending", !.val = q.val]
  <2>1. /\ q.kind = "update" /\ q.rec \in RecRows /\ Settled(rec[q.rec].status)
        /\ zone[rec[q.rec].zone].status = "active" /\ zone' = zone
        /\ rec' = [rec EXCEPT ![q.rec].status = "pending", ![q.rec].val = q.val]
    BY <1>5 DEF CommitUpdateRecord, QueueDNSRecordUpdate
  <2>2. rec[q.rec] \in RecRow
    BY <1>1, <2>1
  <2>3. /\ row.status = "pending" /\ row.val = q.val /\ row.zone = rec[q.rec].zone
        /\ row.synced = rec[q.rec].synced
    BY <2>2 DEF RecRow
  <2>4. rec'[q.rec] = row /\ \A r \in Rec : r # q.rec => rec'[r] = rec[r]
    BY <1>1, <2>1, <2>2 DEF RecRow
  <2> HIDE DEF row
  <2>5. RecRows' = RecRows
    BY <1>1, <2>1, <2>3, <2>4 DEF RecRows
  <2> QED BY <1>1, <2>1, <2>3, <2>4, <2>5 DEF RecordQueued
<1>6. CASE CommitDeleteRecord(q)
  <2>1. /\ q.kind = "delete" /\ q.rec \in RecRows /\ Settled(rec[q.rec].status)
        /\ zone[rec[q.rec].zone].status = "active" /\ zone' = zone
        /\ rec' = [rec EXCEPT ![q.rec].status = "deleting"]
    BY <1>6 DEF CommitDeleteRecord, QueueDNSRecordDelete
  <2>2. rec[q.rec] \in RecRow
    BY <1>1, <2>1
  <2>3. /\ rec'[q.rec].status = "deleting" /\ rec'[q.rec].val = rec[q.rec].val
        /\ rec'[q.rec].zone = rec[q.rec].zone /\ rec'[q.rec].synced = rec[q.rec].synced
        /\ \A r \in Rec : r # q.rec => rec'[r] = rec[r]
    BY <1>1, <2>1, <2>2 DEF RecRow
  <2>4. RecRows' = RecRows
    BY <1>1, <2>1, <2>3 DEF RecRows
  <2> QED BY <1>1, <2>1, <2>3, <2>4 DEF RecordQueued
<1> QED BY <1>2, <1>3, <1>4, <1>5, <1>6 DEF CommitDns

(* The jobs and the worker after it. *)
LEMMA DnsAcceptJobs ==
  ASSUME DnsInv, DnsFits, NEW i \in DOMAIN queue, NEW q \in DnsAsked, q = queue[i].req,
         Accept(i), CommitDns(q)
  PROVE  /\ q.kind # "create" => FitsRow(q)
         /\ ZoneCreated(q) \/ ZoneDeleting(q) \/ RecordCreated(q) \/ RecordQueued(q)
         /\ Awaited \cup {q} \subseteq Awaited' /\ Queued \cup {q} \subseteq Queued'
         /\ Accepted' \subseteq Accepted \cup {q} /\ Known' \subseteq Known
         /\ UNCHANGED <<call, pc, ok, troubles, unsaved>>
         /\ pc # "idle" => held' = held
<1>1. WorkerInv(DnsAsked, DnsCall) /\ UNCHANGED <<call, pc, ok, troubles, unsaved>>
  BY DEF DnsInv, Accept, events
<1>2. q \in Known
  BY DEF Known
<1>3. q.kind # "create" => FitsRow(q)
  BY <1>2 DEF DnsFits, RequestsFit
<1>4. /\ Awaited \cup {q} \subseteq Awaited'
      /\ Accepted' \subseteq Accepted \cup {q} /\ Known' \subseteq Known
  BY <1>1, AcceptAwaits
<1>5. /\ Requested /\ \E k \in Waiting' : queue'[k].req = q
  BY <1>1, AcceptStep
<1>6. Queued \cup {q} \subseteq Queued'
  BY <1>5, RequestsLetWait DEF Queued, WaitingKept
<1>7. pc # "idle" => held' = held
  BY <1>1, <1>5, HeldIsKept
<1>8. ZoneCreated(q) \/ ZoneDeleting(q) \/ RecordCreated(q) \/ RecordQueued(q)
  BY <1>2, CommitShown
<1> QED BY <1>1, <1>2, <1>3, <1>4, <1>6, <1>7, <1>8

(* Rows and jobs fit after a transaction. *)
LEMMA DnsAcceptFits ==
  ASSUME DnsInv, DnsFits, NEW i \in DOMAIN queue, NEW q \in DnsAsked, q = queue[i].req,
         Accept(i), CommitDns(q), UNCHANGED provider
  PROVE  DnsFits'
<1>1. /\ q.kind # "create" => FitsRow(q)
      /\ ZoneCreated(q) \/ ZoneDeleting(q) \/ RecordCreated(q) \/ RecordQueued(q)
      /\ Accepted' \subseteq Accepted \cup {q} /\ Known' \subseteq Known
      /\ UNCHANGED <<call, pc>> /\ (pc # "idle" => held' = held)
  BY DnsAcceptJobs
<1>0. ZoneRows \subseteq Zone /\ RecRows \subseteq Rec
  BY DEF ZoneRows, RecRows
<1>2. /\ \A z \in Zone : zone'[z].status = "none" => zone[z].status = "none"
      /\ ZoneRows \subseteq ZoneRows' /\ RecRows \subseteq RecRows'
      /\ \A z \in ZoneRows : zone'[z].name = zone[z].name
      /\ \A z \in ZoneRows' : z \in ZoneRows \/ (ZoneCreated(q) /\ z = q.zone)
      /\ \A r \in RecRows : rec'[r].zone = rec[r].zone
      /\ \A r \in RecRows' : r \in RecRows \/ (r = q.rec /\ rec'[r].zone \in ZoneRows)
      /\ \A r \in Rec : rec[r].status # "none" => rec'[r].status # "none"
                                                  /\ (r \in RecRows' => r \in RecRows)
  <2>1. CASE ZoneCreated(q)
    <3>1. RecRows' = RecRows /\ rec' = rec
      BY <2>1 DEF ZoneCreated, RecRows
    <3> QED BY <1>0, <2>1, <3>1 DEF ZoneCreated
  <2>2. CASE ZoneDeleting(q)
    <3>1. RecRows' = RecRows /\ rec' = rec
      BY <2>2 DEF ZoneDeleting, RecRows
    <3> QED BY <1>0, <2>2, <3>1 DEF ZoneDeleting
  <2>3. CASE RecordCreated(q)
    <3>1. ZoneRows' = ZoneRows /\ zone' = zone
      BY <2>3 DEF RecordCreated, ZoneRows
    <3> QED BY <1>0, <2>3, <3>1 DEF RecordCreated
  <2>4. CASE RecordQueued(q)
    <3>1. ZoneRows' = ZoneRows /\ zone' = zone
      BY <2>4 DEF RecordQueued, ZoneRows
    <3> QED BY <1>0, <2>4, <3>1 DEF RecordQueued
  <2> QED BY <1>1, <2>1, <2>2, <2>3, <2>4
<1>3. ZonesDiffer'
  BY <1>2 DEF DnsFits, ZonesDiffer, ZoneCreated
<1>4. RecordsHaveZones'
  BY <1>2 DEF DnsFits, RecordsHaveZones, RecordCreated
<1>5. CallIsForJob' /\ NothingUnowned'
  BY <1>1, <1>2 DEF DnsFits, CallIsForJob, DnsRowGone, NothingUnowned
<1>6. FitsRow(q)'
  <2>1. CASE RecordCreated(q)
    BY <2>1 DEF FitsRow, RecordCreated
  <2>2. CASE ~RecordCreated(q)
    BY <1>1, <2>2 DEF FitsRow, ZoneCreated, ZoneDeleting, RecordQueued, RecRows
  <2> QED BY <2>1, <2>2
<1>7. ASSUME NEW p \in Known, FitsRow(p) PROVE FitsRow(p)'
  BY <1>2, <1>7, KnownRecords DEF FitsRow
<1>8. RequestsFit'
  <2>1. Accepted \subseteq Known
    BY AwaitedIsKnown DEF DnsInv
  <2> QED BY <1>1, <1>6, <1>7, <2>1 DEF DnsFits, RequestsFit
<1>9. ASSUME NEW z \in Zone PROVE OrderFits(ZoneCreations(z), ZoneDeletions(z))'
  <2> DEFINE X == ZoneCreations(z)
             Y == ZoneDeletions(z)
  <2>1. X' = X /\ Y' = Y /\ OrderFits(X, Y) /\ WorkerInv(DnsAsked, DnsCall)
    BY DEF ZoneCreations, ZoneDeletions, DnsFits, ZonesInOrder, DnsInv
  <2>2. q \in X => Known \cap Y = {}
    <3>1. q \in X => ZoneCreated(q) /\ q.zone = z
      BY <1>1 DEF ZoneCreations, ZoneDeleting, RecordCreated, RecordQueued
    <3> QED BY <3>1 DEF DnsFits, ZonesInOrder, ZoneCreated
  <2> HIDE DEF X, Y
  <2>3. OrderFits(X, Y)'
    BY <2>1, <2>2, AcceptOrder
  <2> QED BY <2>3 DEF X, Y
<1>10. ZonesInOrder'
  BY <1>1, <1>2, <1>9 DEF DnsFits, ZonesInOrder, ZoneDeletions
<1> QED BY <1>3, <1>4, <1>5, <1>8, <1>10 DEF DnsFits

(* What the statements of a handler store. *)
LEMMA ZoneStored ==
  ASSUME DnsInv, NEW z \in ZoneRows, NEW s \in {"pending", "active", "error"},
         UpdateDNSZoneStatus(z, s)
  PROVE  /\ ZoneRows' = ZoneRows
         /\ zone'[z].status = s /\ zone'[z].name = zone[z].name
         /\ \A y \in Zone : y # z => zone'[y] = zone[y]
<1>1. zone \in [Zone -> ZoneRow] /\ z \in Zone /\ zone' = [zone EXCEPT ![z].status = s]
  BY DEF DnsInv, DnsRowsFine, ZoneRows, UpdateDNSZoneStatus
<1>2. /\ zone'[z].status = s /\ zone'[z].name = zone[z].name
      /\ \A y \in Zone : y # z => zone'[y] = zone[y]
  BY <1>1 DEF ZoneRow
<1>3. ZoneRows' = ZoneRows
  BY <1>1, <1>2 DEF ZoneRows
<1> QED BY <1>2, <1>3

(* A record's status, and what was sent of it. *)
LEMMA RecordStatusStored ==
  ASSUME DnsInv, NEW r \in RecRows,
         \/ \E s \in {"pending", "error"} : UpdateDNSRecordStatus(r, s)
         \/ CompleteDNSRecordSync(r)
  PROVE  /\ RecRows' = RecRows
         /\ rec'[r].val = rec[r].val /\ rec'[r].zone = rec[r].zone
         /\ \A s \in {"pending", "error"} :
              UpdateDNSRecordStatus(r, s) => rec'[r].status = s /\ rec'[r].synced = rec[r].synced
         /\ CompleteDNSRecordSync(r) =>
              rec'[r].status = "active" /\ rec'[r].synced = KeyOf(rec[r].val)
         /\ \A q \in Rec : q # r => rec'[q] = rec[q]
<1>1. rec \in [Rec -> RecRow] /\ r \in Rec
  BY DEF DnsInv, DnsRowsFine, RecRows
<1>2. rec[r] \in RecRow
  BY <1>1
<1>3. ASSUME NEW s \in {"pending", "error"}, UpdateDNSRecordStatus(r, s)
      PROVE  /\ rec'[r].val = rec[r].val /\ rec'[r].zone = rec[r].zone
             /\ rec'[r].status = s /\ rec'[r].synced = rec[r].synced
             /\ \A q \in Rec : q # r => rec'[q] = rec[q]
  <2>1. rec' = [rec EXCEPT ![r].status = s]
    BY <1>3 DEF UpdateDNSRecordStatus
  <2> QED BY <1>1, <1>2, <2>1 DEF RecRow
<1>4. ASSUME CompleteDNSRecordSync(r)
      PROVE  /\ rec'[r].val = rec[r].val /\ rec'[r].zone = rec[r].zone
             /\ rec'[r].status = "active" /\ rec'[r].synced = KeyOf(rec[r].val)
             /\ \A q \in Rec : q # r => rec'[q] = rec[q]
  <2> DEFINE k == KeyOf(rec[r].val)
  <2>1. rec' = [rec EXCEPT ![r].status = "active", ![r].synced = k]
    BY <1>4 DEF CompleteDNSRecordSync
  <2> HIDE DEF k
  <2>2. /\ rec'[r].val = rec[r].val /\ rec'[r].zone = rec[r].zone
        /\ rec'[r].status = "active" /\ rec'[r].synced = k
        /\ \A q \in Rec : q # r => rec'[q] = rec[q]
    BY <1>1, <1>2, <2>1 DEF RecRow
  <2> QED BY <2>2 DEF k
<1>5. rec'[r].status \notin {"none", "deleted"} /\ \A q \in Rec : q # r => rec'[q] = rec[q]
  BY <1>3, <1>4
<1>6. RecRows' = RecRows
  BY <1>1, <1>5 DEF RecRows
<1>7. \A s \in {"pending", "error"} :
        UpdateDNSRecordStatus(r, s) => rec'[r].status = s /\ rec'[r].synced = rec[r].synced
  BY <1>3
<1> QED BY <1>3, <1>4, <1>5, <1>6, <1>7

(* A record that is removed. *)
LEMMA RecordGone ==
  ASSUME DnsInv, NEW r \in RecRows, DeleteDNSRecord(r)
  PROVE  /\ RecRows' = RecRows \ {r} /\ rec'[r].status = "deleted"
         /\ \A q \in Rec : q # r => rec'[q] = rec[q]
<1> DEFINE row == [NoRec EXCEPT !.status = "deleted"]
<1>1. rec \in [Rec -> RecRow] /\ r \in Rec /\ rec' = [rec EXCEPT ![r] = row]
  BY DEF DnsInv, DnsRowsFine, RecRows, DeleteDNSRecord
<1>2. row.status = "deleted"
  BY DEF NoRec
<1> HIDE DEF row
<1> QED BY <1>1, <1>2 DEF RecRows

(* A zone that is removed takes its records with it. *)
LEMMA ZoneGone ==
  ASSUME DnsInv, NEW z \in ZoneRows, DeleteDNSZone(z)
  PROVE  /\ ZoneRows' = ZoneRows \ {z} /\ zone'[z].status = "deleted"
         /\ \A y \in Zone : y # z => zone'[y] = zone[y]
         /\ RecRows' = RecRows \ ListDNSRecords(z)
         /\ \A r \in Rec : IF r \in ListDNSRecords(z) THEN rec'[r].status = "deleted"
                                                      ELSE rec'[r] = rec[r]
<1> DEFINE row == [NoRec EXCEPT !.status = "deleted"]
           zrow == [NoZone EXCEPT !.status = "deleted"]
<1>1. row.status = "deleted" /\ zrow.status = "deleted"
  BY DEF NoRec, NoZone
<1>2. /\ zone \in [Zone -> ZoneRow] /\ z \in Zone /\ zone' = [zone EXCEPT ![z] = zrow]
      /\ rec' = [r \in Rec |-> IF r \in ListDNSRecords(z) THEN row ELSE rec[r]]
  BY DEF DnsInv, DnsRowsFine, ZoneRows, DeleteDNSZone
<1> HIDE DEF row, zrow
<1>3. ZoneRows' = ZoneRows \ {z} /\ zone'[z].status = "deleted"
      /\ \A y \in Zone : y # z => zone'[y] = zone[y]
  BY <1>1, <1>2 DEF ZoneRows
<1>4. \A r \in Rec : IF r \in ListDNSRecords(z) THEN rec'[r].status = "deleted"
                                                ELSE rec'[r] = rec[r]
  BY <1>1, <1>2
<1>5. RecRows' = RecRows \ ListDNSRecords(z)
  BY <1>4 DEF RecRows, ListDNSRecords
<1> QED BY <1>3, <1>4, <1>5

(* The job of a handler that has read, and its rows. *)
LEMMA DnsHeld ==
  ASSUME DnsInv, DnsFits, pc \in {"read", "calling"}
  PROVE  /\ held \in DnsAsked /\ held \in Accepted /\ call \in DnsCall
         /\ call.zone = held.zone /\ held.zone \in ZoneRows /\ zone[held.zone].name \in ZoneName
         /\ held.kind \in {"zone.create", "zone.delete", "create", "update", "delete"}
         /\ held.kind \in {"zone.create", "zone.delete"} <=> held.rec = None
         /\ held.rec # None => /\ held.rec \in RecRows /\ rec[held.rec].zone = held.zone
                               /\ call.op = "sync"
         /\ held.kind = "zone.create" => call.op = "ensure"
         /\ held.kind = "zone.delete" => call.op = "drop"
<1>1. held \in DnsAsked /\ held \in Accepted /\ call \in DnsCall /\ call.zone = held.zone
  BY HeldIsJob, AwaitedIsKnown DEF DnsInv, WorkerInv, CallFits
<1>2. /\ held.kind \in {"zone.create", "zone.delete", "create", "update", "delete"}
      /\ held.kind \in {"zone.create", "zone.delete"} <=> held.rec = None
      /\ held.rec # None => held.rec \in Rec
  BY <1>1, DnsAssumption DEF DnsAsked, DnsRequest
<1>3. /\ held.rec # None => held.rec \in RecRows /\ call.op = "sync"
      /\ held.kind = "zone.create" => call.op = "ensure"
      /\ held.kind = "zone.delete" => call.op = "drop"
      /\ held.rec = None => held.zone \in ZoneRows
  BY <1>2 DEF DnsFits, CallIsForJob, DnsRowGone
<1>4. held.rec # None => rec[held.rec].zone = held.zone /\ held.zone \in ZoneRows
  BY <1>1, <1>3 DEF DnsFits, RequestsFit, FitsRow, RecordsHaveZones
<1>5. held.zone \in ZoneRows /\ zone[held.zone].name \in ZoneName
  BY <1>3, <1>4 DEF DnsInv, DnsRowsFine
<1> QED BY <1>1, <1>2, <1>3, <1>4, <1>5

(* What the Agent's operation leaves of the provider's zones. *)
LEMMA AppliedShown ==
  ASSUME DnsInv, DnsFits, pc = "calling", Applied
  PROVE  /\ \A n \in ZoneName : provider'[n].owner = None => provider'[n].has = {}
         /\ \A z \in ZoneRows : z # held.zone =>
              provider'[zone[z].name] = provider[zone[z].name]
         /\ LET n == zone[held.zone].name
            IN \/ /\ held.kind = "zone.create"
                  /\ provider[n].owner \in {None, held.zone} /\ provider'[n].owner = held.zone
                  /\ provider'[n].has = provider[n].has
               \/ held.kind = "zone.delete"
               \/ /\ held.rec # None
                  /\ provider[n].owner = held.zone /\ provider'[n].owner = held.zone
                  /\ provider'[n].has = {v \in provider[n].has : KeyOf(v) \notin call.keys}
                                        \cup call.set
<1> DEFINE n == zone[held.zone].name
<1>1. /\ held.zone \in ZoneRows /\ n \in ZoneName /\ call.zone = held.zone /\ Name = n
      /\ held.kind \in {"zone.create", "zone.delete", "create", "update", "delete"}
      /\ held.kind \in {"zone.create", "zone.delete"} <=> held.rec = None
      /\ held.rec # None => call.op = "sync"
      /\ held.kind = "zone.create" => call.op = "ensure"
      /\ held.kind = "zone.delete" => call.op = "drop"
      /\ held.zone # None
  <2>1. held.zone \in ZoneRows
    BY DnsHeld
  <2> QED BY <2>1, DnsHeld, DnsAssumption DEF Name, ZoneRows
<1>2. \A z \in ZoneRows : z # held.zone => zone[z].name # n /\ zone[z].name \in ZoneName
  BY <1>1 DEF DnsFits, ZonesDiffer, DnsInv, DnsRowsFine
<1>3. /\ provider \in [ZoneName -> Served]
      /\ \A m \in ZoneName : provider[m].owner = None => provider[m].has = {}
  BY DEF DnsInv, DnsRowsFine, DnsFits, NothingUnowned
<1> HIDE DEF n
<1>4. provider[n] \in Served
  BY <1>1, <1>3
<1>5. CASE EnsureZone
  <2>1. /\ provider' = [provider EXCEPT ![n].owner = held.zone] /\ held.kind = "zone.create"
        /\ provider[n].owner \in {None, held.zone}
    BY <1>1, <1>5 DEF EnsureZone
  <2>2. /\ provider'[n].owner = held.zone /\ provider'[n].has = provider[n].has
        /\ \A m \in ZoneName : m # n => provider'[m] = provider[m]
    BY <1>1, <1>3, <1>4, <2>1 DEF Served
  <2> QED BY <1>1, <1>2, <1>3, <2>1, <2>2 DEF n
<1>6. CASE DeleteZone
  <2>1. provider' = [provider EXCEPT ![n] = NoServed] \/ provider' = provider
    BY <1>1, <1>6 DEF DeleteZone
  <2>2. /\ held.kind = "zone.delete"
        /\ \A m \in ZoneName : m # n => provider'[m] = provider[m]
        /\ provider'[n] = NoServed \/ provider'[n] = provider[n]
    BY <1>1, <1>3, <1>6, <2>1 DEF DeleteZone
  <2>3. NoServed.has = {}
    BY DEF NoServed
  <2> QED BY <1>1, <1>2, <1>3, <2>2, <2>3
<1>7. CASE SyncRecordSets
  <2> DEFINE has == {v \in provider[n].has : KeyOf(v) \notin call.keys} \cup call.set
  <2>1. /\ provider' = [provider EXCEPT ![n].has = has]
        /\ provider[n].owner = held.zone /\ held.rec # None
    BY <1>1, <1>7 DEF SyncRecordSets, Owned
  <2> HIDE DEF has
  <2>2. /\ provider'[n].owner = held.zone /\ provider'[n].has = has
        /\ \A m \in ZoneName : m # n => provider'[m] = provider[m]
    BY <1>1, <1>3, <1>4, <2>1 DEF Served
  <2> QED BY <1>1, <1>2, <1>3, <2>1, <2>2 DEF n, has
<1> QED BY <1>5, <1>6, <1>7 DEF Applied

(* The rows after a handler has stored status s of its own.  One that was  *)
(* to be deleted is gone, and a zone with its records.                     *)
Stores(s) ==
  /\ RecordsKept
  /\ \A z \in Zone : zone'[z].status = "none" => zone[z].status = "none"
  /\ \A z \in ZoneRows' :
       /\ z \in ZoneRows /\ zone'[z].name = zone[z].name
       /\ IF held.rec = None /\ z = held.zone
          THEN zone'[z].status = s /\ ~(s = "active" /\ held.kind = "zone.delete")
          ELSE zone'[z] = zone[z]
  /\ \A z \in ZoneRows : z \in ZoneRows' \/ (held.kind = "zone.delete" /\ z = held.zone)
  /\ \A r \in RecRows' :
       /\ r \in RecRows /\ rec[r].zone \in ZoneRows'
       /\ rec'[r].zone = rec[r].zone /\ rec'[r].val = rec[r].val
       /\ IF r = held.rec
          THEN /\ rec'[r].status = s /\ ~(s = "active" /\ held.kind = "delete")
               /\ rec'[r].synced = IF s = "active" THEN KeyOf(rec[r].val) ELSE rec[r].synced
          ELSE rec'[r] = rec[r]
  /\ \A r \in RecRows : \/ r \in RecRows' \/ (held.kind = "delete" /\ r = held.rec)
                        \/ held.kind = "zone.delete" /\ rec[r].zone = held.zone

(* A status of the zone of the job. *)
LEMMA ZoneStores ==
  ASSUME DnsInv, DnsFits, pc \in {"read", "calling"}, held.rec = None,
         NEW s \in {"pending", "active", "error"}, s = "active" => held.kind = "zone.create",
         UpdateDNSZoneStatus(held.zone, s), UNCHANGED rec
  PROVE  Stores(s)
<1>1. held.zone \in ZoneRows /\ ZoneRows \subseteq Zone /\ \A r \in RecRows : r \in Rec
  BY DnsHeld DEF ZoneRows, RecRows
<1>2. /\ ZoneRows' = ZoneRows
      /\ zone'[held.zone].status = s /\ zone'[held.zone].name = zone[held.zone].name
      /\ \A y \in Zone : y # held.zone => zone'[y] = zone[y]
  BY <1>1, ZoneStored
<1>3. RecordsKept /\ RecRows' = RecRows /\ \A r \in RecRows : r # None /\ rec[r].zone \in ZoneRows
  BY RecordStored, DnsAssumption DEF RecRows, DnsFits, RecordsHaveZones
<1> QED BY <1>1, <1>2, <1>3 DEF Stores

(* A status of the record of the job. *)
LEMMA RecordStores ==
  ASSUME DnsInv, DnsFits, pc \in {"read", "calling"}, held.rec # None,
         NEW s \in {"pending", "active", "error"}, s = "active" => held.kind # "delete",
         IF s = "active" THEN CompleteDNSRecordSync(held.rec)
                         ELSE UpdateDNSRecordStatus(held.rec, s),
         UNCHANGED zone
  PROVE  Stores(s)
<1> DEFINE r == held.rec
<1>1. r \in RecRows /\ RecRows \subseteq Rec /\ \A q \in RecRows : rec[q].zone \in ZoneRows
  BY DnsHeld DEF RecRows, DnsFits, RecordsHaveZones
<1>2. /\ RecRows' = RecRows /\ rec'[r].val = rec[r].val /\ rec'[r].zone = rec[r].zone
      /\ rec'[r].status = s
      /\ rec'[r].synced = IF s = "active" THEN KeyOf(rec[r].val) ELSE rec[r].synced
      /\ \A q \in Rec : q # r => rec'[q] = rec[q]
  <2> HIDE DEF r
  <2> DEFINE X == \E t \in {"pending", "error"} : UpdateDNSRecordStatus(r, t)
  <2>1. X \/ CompleteDNSRecordSync(r)
    BY DEF r
  <2>2. r \in RecRows
    BY <1>1
  <2>3. s # "active" => s \in {"pending", "error"} /\ UpdateDNSRecordStatus(r, s)
    BY DEF r
  <2>4. s = "active" => CompleteDNSRecordSync(r)
    BY DEF r
  <2>5. CASE s = "active"
    BY <2>1, <2>2, <2>4, <2>5, RecordStatusStored
  <2>6. CASE s # "active"
    BY <2>1, <2>2, <2>3, <2>6, RecordStatusStored
  <2> QED BY <2>5, <2>6
<1>3. RecordsKept
  <2>1. \/ \E t \in {"pending", "error"} : UpdateDNSRecordStatus(held.rec, t)
        \/ CompleteDNSRecordSync(held.rec)
    OBVIOUS
  <2> QED BY <2>1, RecordStored
<1>4. ZoneRows' = ZoneRows
  BY DEF ZoneRows
<1> QED BY <1>1, <1>2, <1>3, <1>4 DEF Stores

(* A handler that fails stores an error. *)
LEMMA DnsFailStores ==
  ASSUME DnsInv, DnsFits, pc = "calling", DnsFail
  PROVE  Stores("error")
<1>1. CASE held.rec = None
  BY <1>1, ZoneStores DEF DnsFail
<1>2. CASE held.rec # None
  BY <1>2, RecordStores DEF DnsFail
<1> QED BY <1>1, <1>2

(* One that is about to call marks its row, or leaves it. *)
LEMMA DnsMarkStores ==
  ASSUME DnsInv, DnsFits, DnsMark
  PROVE  Stores("pending") \/ UNCHANGED <<zone, rec>>
<1>1. /\ pc = "read"
      /\ held.kind \in {"zone.create", "zone.delete", "create", "update", "delete"}
      /\ held.kind \in {"zone.create", "zone.delete"} <=> held.rec = None
  <2>1. pc = "read"
    BY DEF DnsMark, Goes
  <2> QED BY <2>1, DnsHeld
<1>2. CASE held.kind = "zone.create"
  BY <1>1, <1>2, ZoneStores DEF DnsMark
<1>3. CASE held.kind \in {"create", "update"}
  BY <1>1, <1>3, RecordStores DEF DnsMark
<1>4. CASE held.kind \in {"zone.delete", "delete"}
  BY <1>4 DEF DnsMark
<1> QED BY <1>1, <1>2, <1>3, <1>4

(* One that succeeds stores what is now so. *)
LEMMA DnsSucceedStores ==
  ASSUME DnsInv, DnsFits, pc = "calling", DnsSucceed
  PROVE  Stores("active")
<1>1. /\ held.zone \in ZoneRows
      /\ held.kind \in {"zone.create", "zone.delete", "create", "update", "delete"}
      /\ held.kind \in {"zone.create", "zone.delete"} <=> held.rec = None
      /\ held.rec # None => held.rec \in RecRows
      /\ \A r \in RecRows : r \in Rec /\ r # None /\ rec[r].zone \in ZoneRows
      /\ \A z \in ZoneRows : z \in Zone
  BY DnsHeld, DnsAssumption DEF RecRows, ZoneRows, DnsFits, RecordsHaveZones
<1>2. CASE held.kind = "zone.create"
  BY <1>1, <1>2, ZoneStores DEF DnsSucceed
<1>3. CASE held.kind \in {"create", "update"}
  <2>1. CompleteDNSRecordSync(held.rec) /\ UNCHANGED zone
    BY <1>3 DEF DnsSucceed
  <2> QED BY <1>1, <1>3, <2>1, RecordStores
<1>4. CASE held.kind = "delete"
  <2>1. DeleteDNSRecord(held.rec) /\ UNCHANGED zone
    BY <1>4 DEF DnsSucceed
  <2>2. ZoneRows' = ZoneRows
    BY <2>1 DEF ZoneRows
  <2>3. RecordsKept
    BY <2>1, RecordStored
  <2>4. /\ RecRows' = RecRows \ {held.rec}
        /\ \A q \in Rec : q # held.rec => rec'[q] = rec[q]
    BY <1>1, <1>4, <2>1, RecordGone
  <2> QED BY <1>1, <1>4, <2>1, <2>2, <2>3, <2>4 DEF Stores
<1>5. CASE held.kind = "zone.delete"
  <2>1. DeleteDNSZone(held.zone)
    BY <1>5 DEF DnsSucceed
  <2>2. RecordsKept
    BY <2>1, RecordStored
  <2>3. /\ ZoneRows' = ZoneRows \ {held.zone} /\ zone'[held.zone].status = "deleted"
        /\ \A y \in Zone : y # held.zone => zone'[y] = zone[y]
        /\ RecRows' = RecRows \ ListDNSRecords(held.zone)
        /\ \A r \in Rec : IF r \in ListDNSRecords(held.zone) THEN rec'[r].status = "deleted"
                                                             ELSE rec'[r] = rec[r]
    BY <1>1, <2>1, ZoneGone
  <2> QED BY <1>1, <1>5, <2>2, <2>3 DEF Stores, ListDNSRecords
<1> QED BY <1>1, <1>2, <1>3, <1>4, <1>5

(* The handler returns without a call, or the worker is between two.       *)
DnsQuits == DnsNothing \/ DnsReadFails \/ DnsMarkFails
DnsBetween == (Claim \/ Settle) /\ UNCHANGED dnsVars

(* The rows a handler leaves fit its job again. *)
LEMMA StoredFits ==
  ASSUME DnsInv, DnsFits, OrderlyStep, NEW s \in {"pending", "active", "error"},
         Stores(s) \/ UNCHANGED <<zone, rec>>,
         CallIsForJob', NothingUnowned'
  PROVE  DnsFits'
<1>1. CASE Stores(s)
  BY <1>1, DnsFitsKept DEF Stores
<1>2. CASE UNCHANGED <<zone, rec>>
  <2>1. ZoneRows' = ZoneRows /\ RecRows' = RecRows /\ RecordsKept
    BY <1>2, RecordStored DEF ZoneRows, RecRows
  <2>2. \A r \in RecRows' : rec[r].zone \in ZoneRows'
    BY <2>1 DEF DnsFits, RecordsHaveZones
  <2>3. /\ \A z \in Zone : zone'[z].status = "none" => zone[z].status = "none"
        /\ \A z \in ZoneRows' : z \in ZoneRows /\ zone'[z].name = zone[z].name
    BY <1>2, <2>1
  <2> QED BY <2>1, <2>2, <2>3, DnsFitsKept
<1> QED BY <1>1, <1>2

(* Nothing is called, nothing is stored. *)
LEMMA DnsBetweenFits ==
  ASSUME DnsInv, DnsFits, DnsBetween \/ DnsQuits \/ UNCHANGED vars
  PROVE  DnsFits'
<1>1. UNCHANGED <<zone, rec, provider>> /\ OrderlyStep
  BY DEF DnsBetween, DnsQuits, DnsNothing, DnsReadFails, DnsMarkFails, Returns, OrderlyStep,
         dnsVars, vars, workerVars
<1>2. CallIsForJob'
  <2>1. CASE UNCHANGED vars
    BY <2>1 DEF vars, workerVars, dnsVars, CallIsForJob, DnsFits, DnsRowGone, ZoneRows, RecRows,
                held, current
  <2>2. CASE DnsBetween \/ DnsQuits
    BY <2>2 DEF DnsBetween, DnsQuits, DnsNothing, DnsReadFails, DnsMarkFails, Returns, Claim,
                Settle, CallIsForJob
  <2> QED BY <2>1, <2>2
<1>3. NothingUnowned'
  BY <1>1 DEF DnsFits, NothingUnowned
<1> QED BY <1>1, <1>2, <1>3, StoredFits

(* The handler has read what it will ask for. *)
LEMMA DnsReadFits == ASSUME DnsInv, DnsFits, DnsRead PROVE DnsFits'
<1>1. /\ pc = "claimed" /\ queue' = queue /\ ~DnsRowGone
      /\ UNCHANGED <<zone, rec, provider>> /\ OrderlyStep
  BY DEF DnsRead, Goes, dnsVars, OrderlyStep
<1>2. held' = held /\ held \in DnsAsked
  BY <1>1, HeldIsJob DEF DnsInv, held, current
<1>3. /\ held.kind \in {"zone.create", "zone.delete", "create", "update", "delete"}
      /\ held.kind \in {"zone.create", "zone.delete"} <=> held.rec = None
  BY <1>2, DnsAssumption DEF DnsAsked, DnsRequest
<1>4. call'.op = IF held.rec # None THEN "sync"
                 ELSE IF held.kind = "zone.create" THEN "ensure" ELSE "drop"
  BY <1>3 DEF DnsRead
<1>5. CallIsForJob'
  BY <1>1, <1>2, <1>4 DEF CallIsForJob, DnsRowGone, ZoneRows, RecRows
<1>6. NothingUnowned'
  BY <1>1 DEF DnsFits, NothingUnowned
<1> QED BY <1>1, <1>5, <1>6, StoredFits

(* It has marked its row. *)
LEMMA DnsMarkFits == ASSUME DnsInv, DnsFits, DnsMark PROVE DnsFits'
<1>1. /\ pc = "read" /\ queue' = queue /\ call' = call /\ provider' = provider /\ OrderlyStep
  BY DEF DnsMark, Goes, OrderlyStep
<1>2. Stores("pending") \/ UNCHANGED <<zone, rec>>
  BY DnsMarkStores
<1>3. held' = held /\ ~DnsRowGone
  BY <1>1 DEF held, current, DnsFits, CallIsForJob
<1>4. held.kind \in {"zone.delete", "delete"} => UNCHANGED <<zone, rec>>
  BY DEF DnsMark
<1>5. held.rec = None \/ held.rec \in RecRows
  BY <1>3 DEF DnsRowGone
<1>6. ~DnsRowGone'
  <2>1. CASE held.kind \in {"zone.delete", "delete"}
    BY <1>3, <1>4, <2>1 DEF DnsRowGone, ZoneRows, RecRows
  <2>2. CASE UNCHANGED <<zone, rec>>
    BY <1>3, <2>2 DEF DnsRowGone, ZoneRows, RecRows
  <2>3. CASE Stores("pending") /\ held.kind \notin {"zone.delete", "delete"}
    BY <1>3, <2>3 DEF DnsRowGone, Stores
  <2> QED BY <1>2, <2>1, <2>2, <2>3
<1>7. CallIsForJob'
  BY <1>1, <1>3, <1>6 DEF DnsFits, CallIsForJob
<1>8. NothingUnowned'
  BY <1>1 DEF DnsFits, NothingUnowned
<1> QED BY <1>1, <1>2, <1>7, <1>8, StoredFits

(* The handler returns after its call, or dies in it. *)
LEMMA DnsEndFits ==
  ASSUME DnsInv, DnsFits, HandleDns \/ HandleDnsUnsaved \/ DieWithDns
  PROVE  DnsFits'
<1>1. /\ OrderlyStep /\ pc' \in {"idle", "handled"}
      /\ (pc = "calling" /\ Applied) \/ provider' = provider
  BY DEF HandleDns, HandleDnsUnsaved, DieWithDns, Die, Returns, OrderlyStep
<1>2. CallIsForJob'
  BY <1>1 DEF CallIsForJob
<1>3. NothingUnowned'
  BY <1>1, AppliedShown DEF DnsFits, NothingUnowned
<1>4. CASE HandleDns
  <2>1. pc = "calling" /\ (DnsSucceed \/ DnsFail)
    BY <1>4 DEF HandleDns
  <2>2. Stores("active") \/ Stores("error")
    BY <2>1, DnsSucceedStores, DnsFailStores
  <2> QED BY <1>1, <1>2, <1>3, <2>2, StoredFits
<1>5. CASE UNCHANGED <<zone, rec>>
  BY <1>1, <1>2, <1>3, <1>5, StoredFits
<1> QED BY <1>4, <1>5 DEF HandleDnsUnsaved, DieWithDns

-------------------------------------------------------------------------------
(* Zones and records: what is published, while no statement has failed.    *)

Removing(z) == \E q \in Awaited : q.kind = "zone.delete" /\ q.zone = z
Creating(z) == \E q \in Accepted : q.kind = "zone.create" /\ q.zone = z
Pending(r)  == \E q \in Awaited : q.rec = r
Removed(r)  == \E q \in Awaited : q.kind = "delete" /\ q.rec = r
Published(z) == provider[zone[z].name].has

ZonesShown == \A z \in ZoneRows : zone[z].status = "active" =>
  provider[zone[z].name].owner = z \/ Removing(z)

(* A record that is to be changed or removed has a job that will. *)
RecordsOpen == \A r \in RecRows : /\ rec[r].status = "pending" => Pending(r)
                                  /\ rec[r].status = "deleting" => Removed(r)

(* One that is shown is published, unless there is a job left of it or of  *)
(* its zone, or its zone is not shown and will not be.                     *)
RecordsShown == \A r \in RecRows : rec[r].status = "active" =>
  LET z == rec[r].zone
  IN \/ rec[r].val \in Published(z)
     \/ Pending(r) \/ Removing(z)
     \/ zone[z].status # "active" /\ ~Creating(z)

(* What a record job sends of its sets leaves out only records that have a *)
(* job of their own, and of its own record no more than a later one will.  *)
SyncFits == pc \in {"read", "calling"} /\ held.rec # None =>
  /\ \A r \in ListDNSRecords(held.zone) :
       KeyOf(rec[r].val) \in call.keys => rec[r].val \in call.set \/ Pending(r)
  /\ held.kind \in {"create", "update"} =>
       rec[held.rec].val \in call.set \/ \E q \in Queued : q.rec = held.rec

RowsShown == ZonesShown /\ RecordsOpen /\ RecordsShown

(* What is awaited waits, or is being handled. *)
LEMMA AwaitedInQueue ==
  /\ Queued \subseteq Awaited
  /\ \A q \in Awaited : q \in Queued \/ (q = held /\ Handling)
  BY DEF Awaited, Queued

(* Rows and zones stay, and so do the jobs of those there are. *)
LEMMA RowsShownKept ==
  ASSUME DnsInv, RowsShown, UNCHANGED <<zone, rec, provider>>, Accepted' \subseteq Accepted,
         \A q \in Awaited : \/ q \in Awaited'
                            \/ IF q.rec = None THEN q.zone \notin ZoneRows
                                               ELSE q.rec \notin RecRows,
         RecordsHaveZones
  PROVE  RowsShown'
<1>1. ZoneRows' = ZoneRows /\ RecRows' = RecRows
  BY DEF ZoneRows, RecRows
<1>2. \A q \in Awaited : q.kind = "zone.delete" => q.rec = None
  BY AwaitedIsKnown DEF DnsInv, DnsAsked, DnsRequest
<1>3. /\ \A z \in ZoneRows : Removing(z) => Removing(z)'
      /\ \A z : Creating(z)' => Creating(z)
      /\ \A r \in RecRows : r # None => /\ Pending(r) => Pending(r)'
                                        /\ Removed(r) => Removed(r)'
  BY <1>2 DEF Removing, Creating, Pending, Removed
<1>4. \A r \in RecRows : r # None
  BY DnsAssumption DEF RecRows
<1>5. ZonesShown' /\ RecordsOpen'
  BY <1>1, <1>3, <1>4 DEF RowsShown, ZonesShown, RecordsOpen
<1>6. RecordsShown'
  BY <1>1, <1>3, <1>4 DEF RowsShown, RecordsShown, Published, RecordsHaveZones
<1> QED BY <1>5, <1>6 DEF RowsShown

(* Records and the call stay, and so do the jobs. *)
LEMMA SyncKept ==
  ASSUME SyncFits, pc \in {"read", "calling"}, held' = held, call' = call,
         \A r \in RecRows' : /\ r \in RecRows
                               /\ rec'[r].val = rec[r].val /\ rec'[r].zone = rec[r].zone,
         held.rec # None => rec'[held.rec].val = rec[held.rec].val,
         Awaited \subseteq Awaited', Queued \subseteq Queued'
  PROVE  SyncFits'
<1>1. \A r \in ListDNSRecords(held.zone)' : /\ r \in ListDNSRecords(held.zone)
                                            /\ rec'[r].val = rec[r].val
                                            /\ Pending(r) => Pending(r)'
  BY DEF ListDNSRecords, Pending
<1> QED BY <1>1 DEF SyncFits

(* The Agent's operation, which may have been done in part of its runs:    *)
(* what was published stays unless the job, or a later one, is about it.   *)
LEMMA AppliedPublishes ==
  ASSUME DnsInv, DnsFits, SyncFits, pc = "calling", Applied \/ UNCHANGED provider
  PROVE  /\ \A z \in ZoneRows : provider[zone[z].name].owner = z =>
              \/ provider'[zone[z].name].owner = z
              \/ held.kind = "zone.delete" /\ held.zone = z
         /\ \A r \in RecRows : rec[r].val \in Published(rec[r].zone) =>
              \/ rec[r].val \in provider'[zone[rec[r].zone].name].has
              \/ \E q \in Queued : q.rec = r
              \/ r = held.rec \/ (held.kind = "zone.delete" /\ held.zone = rec[r].zone)
         /\ Applied /\ held.kind = "zone.create" =>
              provider'[zone[held.zone].name].owner = held.zone
         /\ Applied /\ held.kind \in {"create", "update"} =>
              \/ rec[held.rec].val \in provider'[zone[held.zone].name].has
              \/ \E q \in Queued : q.rec = held.rec
<1>1. CASE ~Applied
  BY <1>1 DEF Published
<1>2. CASE Applied
  <2> DEFINE n == zone[held.zone].name
             was == provider[n]
             is == provider'[n]
  <2>1. /\ \A z \in ZoneRows : z # held.zone => provider'[zone[z].name] = provider[zone[z].name]
        /\ \/ /\ held.kind = "zone.create" /\ is.owner = held.zone /\ is.has = was.has
           \/ held.kind = "zone.delete"
           \/ /\ held.rec # None /\ is.owner = held.zone
              /\ is.has = {v \in was.has : KeyOf(v) \notin call.keys} \cup call.set
    BY <1>2, AppliedShown
  <2>2. /\ held.kind \in {"zone.create", "zone.delete"} <=> held.rec = None
        /\ held.rec # None => held.rec \in RecRows /\ rec[held.rec].zone = held.zone
        /\ \A r \in RecRows : rec[r].zone \in ZoneRows
    BY DnsHeld DEF DnsFits, RecordsHaveZones
  <2>3. ASSUME NEW r \in RecRows, rec[r].zone = held.zone, held.rec # None
        PROVE  KeyOf(rec[r].val) \in call.keys =>
                 rec[r].val \in call.set \/ r = held.rec \/ \E q \in Queued : q.rec = r
    <3>1. KeyOf(rec[r].val) \in call.keys => rec[r].val \in call.set \/ Pending(r)
      BY <2>3 DEF SyncFits, ListDNSRecords
    <3>2. Pending(r) => r = held.rec \/ \E q \in Queued : q.rec = r
      BY AwaitedInQueue DEF Pending
    <3> QED BY <3>1, <3>2
  <2>4. held.kind \in {"create", "update"} /\ held.rec # None =>
          rec[held.rec].val \in call.set \/ \E q \in Queued : q.rec = held.rec
    BY DEF SyncFits
  <2> HIDE DEF n, was, is
  <2>5. \A z \in ZoneRows : provider[zone[z].name].owner = z =>
              \/ provider'[zone[z].name].owner = z
              \/ held.kind = "zone.delete" /\ held.zone = z
    BY <2>1 DEF n, is
  <2>6. ASSUME NEW r \in RecRows, rec[r].val \in Published(rec[r].zone)
        PROVE \/ rec[r].val \in provider'[zone[rec[r].zone].name].has
              \/ \E q \in Queued : q.rec = r
              \/ r = held.rec \/ (held.kind = "zone.delete" /\ held.zone = rec[r].zone)
    <3>1. CASE rec[r].zone = held.zone
      <4>1. rec[r].val \in was.has
        BY <2>6, <3>1 DEF Published, was, n
      <4>2. \/ rec[r].val \in is.has \/ held.kind = "zone.delete"
            \/ r = held.rec \/ \E q \in Queued : q.rec = r
        BY <2>1, <2>3, <3>1, <4>1
      <4> QED BY <3>1, <4>2 DEF is, n
    <3>2. CASE rec[r].zone # held.zone
      BY <2>1, <2>2, <2>6, <3>2 DEF Published
    <3> QED BY <3>1, <3>2
  <2>7. held.kind = "zone.create" => is.owner = held.zone
    BY <2>1, <2>2
  <2>8. held.kind \in {"create", "update"} =>
          rec[held.rec].val \in is.has \/ \E q \in Queued : q.rec = held.rec
    BY <2>1, <2>2, <2>4
  <2> QED BY <2>5, <2>6, <2>7, <2>8 DEF is, n
<1> QED BY <1>1, <1>2

DnsShown == RowsShown /\ SyncFits

(* At first nothing is shown but a zone that is owned. *)
LEMMA DnsInitShown == WorkerInit /\ DnsInit => DnsShown
<1> SUFFICES ASSUME WorkerInit, DnsInit PROVE DnsShown
  OBVIOUS
<1>1. RecRows = {} /\ SyncFits
  BY DEF WorkerInit, DnsInit, DnsNone, NoRec, RecRows, SyncFits
<1>2. ZonesShown
  BY DEF DnsInit, DnsNone, NoZone, ZoneRows, UnlessForeign, ZonesShown
<1> QED BY <1>1, <1>2 DEF DnsShown, RowsShown, RecordsOpen, RecordsShown

(* The first half of a request changes nothing of it. *)
LEMMA DnsPlainShown ==
  ASSUME DnsInv, DnsFits, DnsShown, DnsPlain
  PROVE  DnsShown'
<1>1. /\ UNCHANGED <<zone, rec, provider, call, pc>>
      /\ pc # "idle" => held' = held
      /\ Queued' = Queued /\ Awaited' = Awaited /\ Accepted' \subseteq Accepted
  BY DnsPlainJobs
<1>2. RowsShown'
  BY <1>1, RowsShownKept DEF DnsShown, DnsFits
<1>3. RecRows' = RecRows
  BY <1>1 DEF RecRows
<1>4. SyncFits'
  <2>1. CASE pc \in {"read", "calling"}
    <3>1. held' = held /\ call' = call
      BY <1>1, <2>1
    <3> QED BY <1>1, <1>3, <2>1, <3>1, SyncKept DEF DnsShown
  <2>2. CASE pc \notin {"read", "calling"}
    BY <1>1, <2>2 DEF SyncFits
  <2> QED BY <2>1, <2>2
<1> QED BY <1>2, <1>4 DEF DnsShown

(* What a transaction takes from what is shown has its job. *)
LEMMA DnsAcceptShown ==
  ASSUME DnsInv, DnsFits, DnsShown, NEW i \in DOMAIN queue, NEW q \in DnsAsked,
         q = queue[i].req, Accept(i), CommitDns(q), UNCHANGED provider
  PROVE  DnsShown'
<1>1. /\ q.kind # "create" => FitsRow(q)
      /\ ZoneCreated(q) \/ ZoneDeleting(q) \/ RecordCreated(q) \/ RecordQueued(q)
      /\ Awaited \cup {q} \subseteq Awaited' /\ Queued \cup {q} \subseteq Queued'
      /\ Accepted' \subseteq Accepted \cup {q}
      /\ UNCHANGED <<call, pc>>
      /\ pc # "idle" => held' = held
  BY DnsAcceptJobs
<1>2. /\ \A z : Removing(z) => Removing(z)'
      /\ \A r : Pending(r) => Pending(r)'
      /\ \A r : Removed(r) => Removed(r)'
      /\ \A z : Creating(z)' => Creating(z) \/ (q.kind = "zone.create" /\ q.zone = z)
      /\ Pending(q.rec)'
      /\ q.kind = "delete" => Removed(q.rec)'
      /\ q.kind = "zone.delete" => Removing(q.zone)'
  BY <1>1 DEF Removing, Pending, Removed, Creating
<1>3. /\ ZonesShown /\ RecordsOpen /\ RecordsShown /\ SyncFits
      /\ \A r \in RecRows : r \in Rec /\ rec[r].zone \in ZoneRows
      /\ \A z \in ZoneRows : z \in Zone
  BY DEF DnsShown, RowsShown, DnsFits, RecordsHaveZones, ZoneRows, RecRows
<1>4. ZonesShown'
  <2>1. \A z \in ZoneRows' : zone'[z].status = "active" => z \in ZoneRows /\ zone'[z] = zone[z]
    <3>1. CASE ZoneCreated(q) \/ ZoneDeleting(q)
      BY <1>3, <3>1 DEF ZoneCreated, ZoneDeleting
    <3>2. CASE RecordCreated(q) \/ RecordQueued(q)
      BY <3>2 DEF RecordCreated, RecordQueued, ZoneRows
    <3> QED BY <1>1, <3>1, <3>2
  <2> QED BY <1>2, <1>3, <2>1 DEF ZonesShown
<1>5. RecordsOpen'
  <2>1. \A r \in RecRows' : \/ r \in RecRows /\ rec'[r] = rec[r]
                            \/ /\ r = q.rec
                               /\ rec'[r].status \in {"pending", "deleting"}
                               /\ rec'[r].status = "deleting" => q.kind = "delete"
    <3>1. CASE ZoneCreated(q) \/ ZoneDeleting(q)
      BY <3>1 DEF ZoneCreated, ZoneDeleting, RecRows
    <3>2. CASE RecordCreated(q)
      BY <1>3, <3>2 DEF RecordCreated
    <3>3. CASE RecordQueued(q)
      BY <1>3, <3>3 DEF RecordQueued
    <3> QED BY <1>1, <3>1, <3>2, <3>3
  <2> QED BY <1>2, <1>3, <2>1 DEF RecordsOpen
<1>6. RecordsShown'
  <2>1. CASE ZoneCreated(q) \/ ZoneDeleting(q)
    <3>1. /\ RecRows' = RecRows /\ rec' = rec /\ \A z \in ZoneRows : zone'[z].name = zone[z].name
          /\ \A z \in ZoneRows : zone'[z] = zone[z] \/ Removing(z)'
          /\ \A z \in ZoneRows : q.kind = "zone.create" => z # q.zone
      BY <1>2, <1>3, <2>1 DEF ZoneCreated, ZoneDeleting, RecRows
    <3> QED BY <1>2, <1>3, <3>1 DEF RecordsShown, Published
  <2>2. CASE RecordCreated(q) \/ RecordQueued(q)
    <3>1. /\ UNCHANGED zone /\ q.kind # "zone.create"
          /\ \A r \in RecRows' : rec'[r].status = "active" => r \in RecRows /\ rec'[r] = rec[r]
      BY <1>3, <2>2 DEF RecordCreated, RecordQueued
    <3> QED BY <1>2, <1>3, <3>1 DEF RecordsShown, Published
  <2> QED BY <1>1, <2>1, <2>2
<1>7. SyncFits'
  <2> SUFFICES ASSUME pc \in {"read", "calling"}, held.rec # None,
                      held' = held, call' = call, pc' = pc
               PROVE  SyncFits'
    BY <1>1 DEF SyncFits
  <2>1. held.rec \in RecRows
    BY DnsHeld
  <2>2. \A r \in ListDNSRecords(held.zone)' :
          Pending(r)' \/ (r \in ListDNSRecords(held.zone) /\ rec'[r].val = rec[r].val)
    BY <1>1, <1>2, <1>3
       DEF ListDNSRecords, ZoneCreated, ZoneDeleting, RecordCreated, RecordQueued, RecRows
  <2>3. rec'[held.rec].val = rec[held.rec].val \/ held.rec = q.rec
    BY <1>1, <1>3, <2>1 DEF ZoneCreated, ZoneDeleting, RecordCreated, RecordQueued
  <2> QED BY <1>1, <1>2, <1>3, <2>2, <2>3 DEF SyncFits
<1> QED BY <1>4, <1>5, <1>6, <1>7 DEF DnsShown, RowsShown

(* Nothing is called. *)
LEMMA DnsBetweenShown ==
  ASSUME DnsInv, DnsFits, DnsShown, DnsBetween \/ DnsNothing
  PROVE  DnsShown'
<1>1. /\ WorkerInv(DnsAsked, DnsCall) /\ UNCHANGED <<zone, rec, provider>>
      /\ pc' \notin {"read", "calling"} /\ RecordsHaveZones
  BY DEF DnsInv, DnsBetween, DnsNothing, dnsVars, Claim, Settle, Returns, DnsFits
<1>2. /\ Accepted' \subseteq Accepted
      /\ \A q \in Awaited : \/ q \in Awaited'
                            \/ IF q.rec = None THEN q.zone \notin ZoneRows
                                               ELSE q.rec \notin RecRows
  <2>1. CASE Claim \/ Settle
    BY <1>1, <2>1, ClaimAwaits, SettleAwaits DEF NothingNew
  <2>2. CASE DnsNothing
    <3>1. Awaited \ {held} \subseteq Awaited' /\ NothingNew
      BY <1>1, <2>2, ReturnsAwaits DEF DnsNothing
    <3> QED BY <2>2, <3>1 DEF NothingNew, DnsNothing, DnsRowGone
  <2> QED BY <2>1, <2>2 DEF DnsBetween
<1>3. RowsShown'
  BY <1>1, <1>2, RowsShownKept DEF DnsShown
<1> QED BY <1>1, <1>3 DEF DnsShown, SyncFits

(* What is left out of the sets that are sent has its job. *)
LEMMA DnsReadShown == ASSUME DnsInv, DnsFits, DnsShown, DnsRead, DnsInv' PROVE DnsShown'
<1>1. /\ pc = "claimed" /\ pc' = "read" /\ queue' = queue /\ ~DnsRowGone
      /\ UNCHANGED <<zone, rec, provider>> /\ RecordsHaveZones
  BY DEF DnsRead, Goes, dnsVars, DnsFits
<1>2. held' = held /\ Awaited' = Awaited /\ Accepted' = Accepted /\ Queued' = Queued
      /\ held \in Awaited
  BY <1>1 DEF held, current, Awaited, Accepted, Queued, Waiting, Unfinished, Handling
<1>3. RowsShown'
  BY <1>1, <1>2, RowsShownKept DEF DnsShown
<1>4. SyncFits'
  <2> SUFFICES ASSUME held.rec # None PROVE SyncFits'
    BY <1>2 DEF SyncFits
  <2>1. call'.keys = SentKeys(held.rec) /\ call'.set = SentValues(held)
    <3>1. held.kind # "zone.create"
      BY <1>1, HeldIsJob DEF DnsInv, DnsAsked
    <3> QED BY <3>1 DEF DnsRead
  <2>2. held \in Accepted /\ held.rec \in RecRows
    BY <1>1, AwaitedIsKnown DEF DnsRowGone, DnsInv
  <2>3. rec[held.rec].zone = held.zone
    BY <2>2 DEF DnsFits, RequestsFit, FitsRow
  <2>4. \A r \in RecRows : Pending(r)' <=> Pending(r)
    BY <1>2 DEF Pending
  <2>5. ASSUME NEW r \in ListDNSRecords(held.zone), KeyOf(rec[r].val) \in SentKeys(held.rec)
        PROVE  \/ rec[r].val \in SentValues(held) \/ Removed(r)
               \/ held.kind = "delete" /\ r = held.rec
    <3>1. CASE rec[r].status = "deleting"
      BY <2>5, <3>1 DEF DnsShown, RowsShown, RecordsOpen, ListDNSRecords
    <3>2. CASE rec[r].status # "deleting" /\ ~(held.kind = "delete" /\ r = held.rec)
      BY <2>5, <3>2 DEF SentValues
    <3> QED BY <3>1, <3>2
  <2>6. \A r \in ListDNSRecords(held.zone) :
          KeyOf(rec[r].val) \in SentKeys(held.rec) => rec[r].val \in SentValues(held) \/ Pending(r)
    BY <1>2, <2>5 DEF Removed, Pending
  <2>7. held.kind \in {"create", "update"} =>
          rec[held.rec].val \in SentValues(held) \/ \E q \in Queued : q.rec = held.rec
    <3>1. held.rec \in ListDNSRecords(held.zone) /\ KeyOf(rec[held.rec].val) \in SentKeys(held.rec)
      BY <2>2, <2>3 DEF ListDNSRecords, SentKeys
    <3>2. Removed(held.rec) /\ held.kind # "delete" => \E q \in Queued : q.rec = held.rec
      BY AwaitedInQueue DEF Removed
    <3> QED BY <2>5, <3>1, <3>2
  <2>8. ListDNSRecords(held.zone)' = ListDNSRecords(held.zone)
    BY <1>1, <1>2 DEF ListDNSRecords, RecRows
  <2>9. ListDNSRecords(held.zone) \subseteq RecRows
    BY DEF ListDNSRecords
  <2> QED BY <1>1, <1>2, <2>1, <2>4, <2>6, <2>7, <2>8, <2>9 DEF SyncFits
<1> QED BY <1>3, <1>4 DEF DnsShown

(* A row that is marked is not shown. *)
LEMMA DnsMarkShown == ASSUME DnsInv, DnsFits, DnsShown, DnsMark PROVE DnsShown'
<1>1. /\ pc = "read" /\ pc' = "calling" /\ queue' = queue /\ call' = call /\ provider' = provider
      /\ RecordsHaveZones
  BY DEF DnsMark, Goes, DnsFits
<1>2. held' = held /\ Awaited' = Awaited /\ Accepted' = Accepted /\ Queued' = Queued
      /\ held \in Awaited /\ held \in Accepted
  <2>1. held' = held /\ Awaited' = Awaited /\ Accepted' = Accepted /\ Queued' = Queued
        /\ held \in Awaited
    BY <1>1 DEF held, current, Awaited, Accepted, Queued, Waiting, Unfinished, Handling
  <2> QED BY <2>1, AwaitedIsKnown DEF DnsInv
<1>3. CASE UNCHANGED <<zone, rec>>
  <2>1. RowsShown'
    BY <1>1, <1>2, <1>3, RowsShownKept DEF DnsShown
  <2>2. RecRows' = RecRows
    BY <1>3 DEF RecRows
  <2>3. SyncFits'
    BY <1>1, <1>2, <1>3, <2>2, SyncKept DEF DnsShown
  <2> QED BY <2>1, <2>3 DEF DnsShown
<1>4. CASE Stores("pending") /\ held.kind \notin {"zone.delete", "delete"}
  <2>1. /\ \A z : Removing(z)' <=> Removing(z)
        /\ \A r : Pending(r)' <=> Pending(r)
        /\ \A r : Removed(r)' <=> Removed(r)
        /\ \A z : Creating(z)' <=> Creating(z)
        /\ Pending(held.rec)
    BY <1>2 DEF Removing, Pending, Removed, Creating
  <2>2. ZonesShown /\ RecordsOpen /\ RecordsShown /\ SyncFits
    BY DEF DnsShown, RowsShown
  <2>3. /\ held.kind \in {"zone.create", "zone.delete"} <=> held.rec = None
        /\ held.rec # None => held.rec \in RecRows
    BY <1>1, DnsHeld
  <2>4. held.rec = None => Creating(held.zone)
    BY <1>2, <1>4, <2>3 DEF Creating
  <2>5. ZonesShown'
    BY <1>1, <1>4, <2>1, <2>2 DEF ZonesShown, Stores
  <2>6. RecordsOpen'
    BY <1>4, <2>1, <2>2 DEF RecordsOpen, Stores
  <2>7. RecordsShown'
    <3> SUFFICES ASSUME NEW r \in RecRows', rec'[r].status = "active",
                        NEW z, z = rec'[r].zone
                 PROVE  \/ rec'[r].val \in Published(z)'
                        \/ Pending(r)' \/ Removing(z)'
                        \/ zone'[z].status # "active" /\ ~Creating(z)'
      BY DEF RecordsShown, Published, Removing, Creating
    <3>1. r \in RecRows /\ rec'[r] = rec[r] /\ z = rec[r].zone /\ z \in ZoneRows'
      BY <1>4 DEF Stores
    <3>2. zone'[z].name = zone[z].name /\ (zone'[z] = zone[z] \/ Creating(z))
      BY <1>4, <2>4, <3>1 DEF Stores
    <3>3. \/ rec[r].val \in Published(z) \/ Pending(r) \/ Removing(z)
          \/ zone[z].status # "active" /\ ~Creating(z)
      BY <2>2, <3>1 DEF RecordsShown
    <3> QED BY <1>1, <2>1, <3>1, <3>2, <3>3 DEF Published
  <2>8. /\ \A r \in RecRows' : /\ r \in RecRows /\ rec'[r].val = rec[r].val
                               /\ rec'[r].zone = rec[r].zone
        /\ held.rec # None => rec'[held.rec].val = rec[held.rec].val
    BY <1>4, <2>3 DEF Stores
  <2>9. SyncFits'
    BY <1>1, <1>2, <2>2, <2>8, SyncKept
  <2> QED BY <2>5, <2>6, <2>7, <2>9 DEF DnsShown, RowsShown
<1>5. held.kind \in {"zone.delete", "delete"} => UNCHANGED <<zone, rec>>
  BY DEF DnsMark
<1> QED BY <1>3, <1>4, <1>5, DnsMarkStores

(* A handler that returns has published what it stores, if it succeeded. *)
LEMMA DnsHandledShown ==
  ASSUME DnsInv, DnsFits, DnsShown, HandleDns
  PROVE  DnsShown'
<1>1. /\ WorkerInv(DnsAsked, DnsCall) /\ pc = "calling" /\ pc' = "handled" /\ queue' = queue
      /\ Applied \/ UNCHANGED provider
      /\ \E good \in BOOLEAN : Returns(good)
      /\ Fault \/ NoFault
  BY DEF DnsInv, HandleDns, Returns, Fault, NoFault
<1>2. \/ Stores("active") /\ Applied
      \/ Stores("error")
  BY <1>1, DnsSucceedStores, DnsFailStores DEF HandleDns
<1>3. PICK s \in {"active", "error"} : Stores(s) /\ (s = "active" => Applied)
  BY <1>2
<1>4. /\ held' = held /\ held \in Accepted /\ NothingNew /\ held \in DnsAsked
      /\ Awaited \ {held} \subseteq Awaited' /\ Queued \subseteq Awaited'
  BY <1>1, ReturnsAwaits, ReturnsStep, AwaitedIsKnown, DnsHeld DEF Queued, Awaited, Waiting
<1>5. /\ \A q \in Queued : Pending(q.rec)'
      /\ \A z : Removing(z) => Removing(z)' \/ (held.kind = "zone.delete" /\ held.zone = z)
      /\ \A r : Pending(r) => Pending(r)' \/ held.rec = r
      /\ \A r : Removed(r) => Removed(r)' \/ held.rec = r
      /\ \A z : Creating(z)' => Creating(z)
  BY <1>4 DEF Removing, Pending, Removed, Creating, NothingNew
<1>6. ZonesShown /\ RecordsOpen /\ RecordsShown /\ SyncFits
  BY DEF DnsShown, RowsShown
<1>7. /\ \A z \in ZoneRows : provider[zone[z].name].owner = z =>
           \/ provider'[zone[z].name].owner = z
           \/ held.kind = "zone.delete" /\ held.zone = z
      /\ \A r \in RecRows : rec[r].val \in Published(rec[r].zone) =>
           \/ rec[r].val \in provider'[zone[rec[r].zone].name].has
           \/ \E q \in Queued : q.rec = r
           \/ r = held.rec \/ (held.kind = "zone.delete" /\ held.zone = rec[r].zone)
      /\ Applied /\ held.kind = "zone.create" =>
           provider'[zone[held.zone].name].owner = held.zone
      /\ Applied /\ held.kind \in {"create", "update"} =>
           \/ rec[held.rec].val \in provider'[zone[held.zone].name].has
           \/ \E q \in Queued : q.rec = held.rec
  BY <1>1, <1>6, AppliedPublishes
<1>8. /\ held.kind \in {"zone.create", "zone.delete", "create", "update", "delete"}
      /\ held.kind \in {"zone.create", "zone.delete"} <=> held.rec = None
      /\ held.rec # None => rec[held.rec].zone = held.zone
      /\ \A r \in RecRows : r # None
  BY <1>1, DnsHeld, DnsAssumption DEF RecRows
<1>9. ZonesShown'
  <2> SUFFICES ASSUME NEW z \in ZoneRows', zone'[z].status = "active"
               PROVE  provider'[zone'[z].name].owner = z \/ Removing(z)'
    BY DEF ZonesShown
  <2>1. z \in ZoneRows /\ zone'[z].name = zone[z].name
    BY <1>3 DEF Stores
  <2>2. CASE held.rec = None /\ z = held.zone
    <3>1. s = "active" /\ held.kind # "zone.delete"
      BY <1>3, <2>2 DEF Stores
    <3> QED BY <1>3, <1>7, <1>8, <2>1, <2>2, <3>1
  <2>3. CASE ~(held.rec = None /\ z = held.zone)
    <3>1. zone[z].status = "active" /\ ~(held.kind = "zone.delete" /\ held.zone = z)
      BY <1>3, <1>8, <2>3 DEF Stores
    <3> QED BY <1>5, <1>6, <1>7, <2>1, <3>1 DEF ZonesShown
  <2> QED BY <2>2, <2>3
<1>10. RecordsOpen'
  <2> SUFFICES ASSUME NEW r \in RecRows'
               PROVE  /\ rec'[r].status = "pending" => Pending(r)'
                      /\ rec'[r].status = "deleting" => Removed(r)'
    BY DEF RecordsOpen
  <2>1. r \in RecRows /\ IF r = held.rec THEN rec'[r].status = s ELSE rec'[r] = rec[r]
    BY <1>3 DEF Stores
  <2> QED BY <1>5, <1>6, <2>1 DEF RecordsOpen
<1>11. RecordsShown'
  <2> SUFFICES ASSUME NEW r \in RecRows', rec'[r].status = "active", NEW z, z = rec'[r].zone
               PROVE  \/ rec'[r].val \in Published(z)'
                      \/ Pending(r)' \/ Removing(z)'
                      \/ zone'[z].status # "active" /\ ~Creating(z)'
    BY DEF RecordsShown, Published, Removing, Creating
  <2>1. /\ r \in RecRows /\ rec'[r].val = rec[r].val /\ z = rec[r].zone
        /\ z \in ZoneRows' /\ z \in ZoneRows /\ zone'[z].name = zone[z].name
    BY <1>3 DEF Stores
  <2>2. CASE r = held.rec
    <3>1. s = "active" /\ held.kind # "delete"
      BY <1>3, <2>2 DEF Stores
    <3>2. held.kind \in {"create", "update"} /\ z = held.zone
      BY <1>8, <2>1, <2>2, <3>1
    <3> QED BY <1>3, <1>5, <1>7, <2>1, <2>2, <3>1, <3>2 DEF Published
  <2>3. CASE r # held.rec /\ held.kind = "zone.delete" /\ held.zone = z
    <3>1. zone'[z].status # "active"
      BY <1>3, <1>8, <2>1, <2>3 DEF Stores
    <3>2. ~Creating(z)
      <4>1. held \in ZoneDeletions(z) /\ z \in Zone
        BY <1>4, <2>1, <2>3 DEF ZoneDeletions, ZoneRows
      <4>2. Accepted \cap ZoneCreations(z) = {}
        BY <1>1, <4>1 DEF DnsFits, ZonesInOrder, OrderFits
      <4>3. Accepted \subseteq DnsAsked
        BY <1>1, AwaitedIsKnown
      <4> QED BY <4>2, <4>3 DEF Creating, ZoneCreations
    <3> QED BY <1>5, <3>1, <3>2
  <2>4. CASE r # held.rec /\ ~(held.kind = "zone.delete" /\ held.zone = z)
    <3>1. rec[r].status = "active"
      BY <1>3, <2>1, <2>4 DEF Stores
    <3>2. zone'[z] = zone[z] \/ Creating(z)
      <4>1. held.rec = None /\ z = held.zone => Creating(z)
        BY <1>4, <1>8, <2>4 DEF Creating
      <4> QED BY <1>3, <2>1, <4>1 DEF Stores
    <3>3. \/ rec[r].val \in Published(z) \/ Pending(r) \/ Removing(z)
          \/ zone[z].status # "active" /\ ~Creating(z)
      BY <1>6, <2>1, <3>1 DEF RecordsShown
    <3> QED BY <1>5, <1>7, <2>1, <2>4, <3>2, <3>3 DEF Published
  <2> QED BY <2>2, <2>3, <2>4
<1>12. SyncFits'
  BY <1>1 DEF SyncFits
<1> QED BY <1>9, <1>10, <1>11, <1>12 DEF DnsShown, RowsShown

(* The handler dies with the panel: its job is there again.                *)
LEMMA DnsDeathShown ==
  ASSUME DnsInv, DnsFits, DnsShown, DieWithDns
  PROVE  DnsShown'
<1>1. /\ WorkerInv(DnsAsked, DnsCall) /\ Die /\ UNCHANGED <<zone, rec>> /\ pc' = "idle"
      /\ (pc = "calling" /\ Applied) \/ UNCHANGED provider
  BY DEF DnsInv, DieWithDns, Die
<1>2. /\ Awaited \cup {q \in {held} : pc # "idle"} \subseteq Awaited' /\ NothingNew
      /\ Queued \subseteq Awaited' /\ (pc = "calling" => held \in Awaited')
  BY <1>1, DieAwaits, AwaitedInQueue
<1>3. /\ \A z : Removing(z) => Removing(z)'
      /\ \A r : Pending(r) => Pending(r)'
      /\ \A r : Removed(r) => Removed(r)'
      /\ \A z : Creating(z)' => Creating(z)
      /\ \A r : (\E q \in Queued : q.rec = r) => Pending(r)'
      /\ \A r : pc = "calling" /\ r = held.rec => Pending(r)'
      /\ \A z : pc = "calling" /\ held.kind = "zone.delete" /\ held.zone = z => Removing(z)'
  BY <1>2 DEF Removing, Pending, Removed, Creating, NothingNew
<1>4. /\ ZonesShown /\ RecordsOpen /\ RecordsShown /\ SyncFits
      /\ ZoneRows' = ZoneRows /\ RecRows' = RecRows
  BY <1>1 DEF DnsShown, RowsShown, ZoneRows, RecRows
<1>5. /\ \A z \in ZoneRows : provider[zone[z].name].owner = z =>
           provider'[zone[z].name].owner = z \/ Removing(z)'
      /\ \A r \in RecRows : rec[r].val \in Published(rec[r].zone) =>
           \/ rec[r].val \in provider'[zone[rec[r].zone].name].has
           \/ Pending(r)' \/ Removing(rec[r].zone)'
  <2>1. CASE UNCHANGED provider
    BY <2>1 DEF Published
  <2>2. CASE pc = "calling" /\ Applied
    <3>1. /\ \A z \in ZoneRows : provider[zone[z].name].owner = z =>
               \/ provider'[zone[z].name].owner = z
               \/ held.kind = "zone.delete" /\ held.zone = z
          /\ \A r \in RecRows : rec[r].val \in Published(rec[r].zone) =>
               \/ rec[r].val \in provider'[zone[rec[r].zone].name].has
               \/ \E q \in Queued : q.rec = r
               \/ r = held.rec \/ (held.kind = "zone.delete" /\ held.zone = rec[r].zone)
      BY <1>4, <2>2, AppliedPublishes
    <3> QED BY <1>1, <1>3, <2>2, <3>1
  <2> QED BY <1>1, <2>1, <2>2
<1>6. ZonesShown' /\ RecordsOpen'
  BY <1>1, <1>3, <1>4, <1>5 DEF ZonesShown, RecordsOpen
<1>7. RecordsShown'
  BY <1>1, <1>3, <1>4, <1>5 DEF RecordsShown, Published
<1>8. SyncFits'
  BY <1>1 DEF SyncFits
<1> QED BY <1>6, <1>7, <1>8 DEF DnsShown, RowsShown

(* Nothing happens. *)
LEMMA DnsShownStutters == ASSUME DnsShown, UNCHANGED vars PROVE DnsShown'
<1>1. UNCHANGED <<queue, pc, call, zone, rec, provider>>
  BY DEF vars, workerVars, dnsVars
<1>2. held' = held /\ Queued' = Queued /\ Awaited' = Awaited /\ Accepted' = Accepted
  BY <1>1 DEF held, current, Queued, Awaited, Accepted, Waiting, Unfinished, Handling
<1>3. ZoneRows' = ZoneRows /\ RecRows' = RecRows
  BY <1>1 DEF ZoneRows, RecRows
<1>4. RowsShown'
  BY <1>1, <1>2, <1>3 DEF DnsShown, RowsShown, ZonesShown, RecordsOpen, RecordsShown, Removing,
                          Pending, Removed, Creating, Published
<1>5. SyncFits'
  BY <1>1, <1>2, <1>3 DEF DnsShown, SyncFits, ListDNSRecords, Pending
<1> QED BY <1>4, <1>5 DEF DnsShown

-------------------------------------------------------------------------------
(* Zones and records: what is published, while nothing has gone wrong.     *)

(* Record r accounts for v being published: it was v, or will be changed.  *)
Covers(r, v) == KeyOf(v) \in SentKeys(r) /\ (rec[r].status = "active" => rec[r].val = v)

RowsSound ==
  /\ \A z \in ZoneRows : zone[z].status = "active" => provider[zone[z].name].owner = z
  /\ \A r \in RecRows : /\ rec[r].status # "error"
                        /\ rec[r].status = "active" => rec[r].synced = KeyOf(rec[r].val)
                        /\ provider[zone[rec[r].zone].name].owner = rec[r].zone

(* A record has one job at a time, and that one succeeds. *)
JobsSound ==
  \A r \in RecRows : /\ Once(RecordJobs(r))
                     /\ Pending(r) => ~Settled(rec[r].status)
                     /\ pc = "handled" /\ held.rec = r => ok

NothingElse == \A z \in ZoneRows : provider[zone[z].name].owner = z =>
  \A v \in Published(z) : \E r \in ListDNSRecords(z) : Covers(r, v)

SentFits == pc \in {"read", "calling"} /\ held.rec # None =>
  /\ call.keys = SentKeys(held.rec)
  /\ \A v \in call.set : \E r \in ListDNSRecords(held.zone) :
       Covers(r, v) /\ (r = held.rec => held.kind # "delete" /\ rec[r].val = v)

DnsSound == RowsSound /\ JobsSound /\ NothingElse /\ SentFits

(* At first nothing is published. *)
LEMMA DnsInitSound == WorkerInit /\ DnsInit => ~unsaved /\ DnsSound
<1> SUFFICES ASSUME WorkerInit, DnsInit PROVE ~unsaved /\ DnsSound
  OBVIOUS
<1>1. RecRows = {} /\ JobsSound /\ SentFits /\ ~unsaved
  BY DEF WorkerInit, DnsInit, DnsNone, NoRec, RecRows, SentFits, JobsSound
<1>2. /\ \A z \in ZoneRows : zone[z].status = "active" => provider[zone[z].name].owner = z
      /\ \A z \in ZoneRows : Published(z) = {}
  BY DEF DnsInit, DnsNone, NoZone, ZoneRows, UnlessForeign, Published
<1> QED BY <1>1, <1>2 DEF DnsSound, RowsSound, NothingElse

(* What is claimed was awaited. *)
LEMMA ClaimOnly ==
  ASSUME NEW R, NEW C, WorkerInv(R, C), Claim
  PROVE  Awaited' \subseteq Awaited
<1>1. PICK i \in Waiting : /\ DOMAIN queue' = DOMAIN queue /\ held' = queue[i].req
                           /\ i \notin Waiting'
                           /\ \A k \in DOMAIN queue : k # i => queue'[k] = queue[k]
  BY ClaimStep
<1>2. \A k \in Waiting' : k \in Waiting /\ k # i /\ queue'[k] = queue[k]
  BY <1>1 DEF Waiting
<1> QED BY <1>1, <1>2 DEF Awaited

(* Only what failed is awaited again. *)
LEMMA SettleOnly ==
  ASSUME NEW R, NEW C, WorkerInv(R, C), Settle
  PROVE  \A q \in Awaited' : q \in Awaited \/ (q = held /\ ~ok)
<1>1. pc' = "idle" /\ current \in DOMAIN queue /\ queue[current].state = "running"
  BY HeldIsJob DEF Settle
<1>2. Awaited' \subseteq Queued' /\ Queued \subseteq Awaited
  BY <1>1 DEF Awaited, Queued, Handling
<1>3. CASE ~Again
  <2>1. Once({})
    BY DEF Once, OneWaits
  <2>2. Queued' \subseteq Queued
    BY <1>1, <1>3, <2>1, RemoveOnce DEF Settle
  <2> QED BY <1>2, <2>2
<1>4. CASE Again
  <2> DEFINE job == [queue[current] EXCEPT !.state = "queued"]
  <2>1. queue[current] \in Job(R)
    BY <1>1, QueueIsJobs DEF WorkerInv
  <2>2. job.req = held
    BY <2>1 DEF Job, held
  <2>3. queue' = [queue EXCEPT ![current] = job]
    BY <1>4 DEF Settle
  <2> HIDE DEF job
  <2>4. /\ DOMAIN queue' = DOMAIN queue /\ queue'[current] = job
        /\ \A k \in DOMAIN queue : k # current => queue'[k] = queue[k]
    BY <1>1, <2>3
  <2>5. \A k \in Waiting' : queue'[k].req = held \/ (k \in Waiting /\ queue'[k] = queue[k])
    BY <2>2, <2>4 DEF Waiting
  <2>6. \A q \in Queued' : q \in Queued \/ q = held
    BY <2>5 DEF Queued
  <2> QED BY <1>2, <1>4, <2>6 DEF Again
<1> QED BY <1>3, <1>4

(* Rows stay, and what the worker does with them. *)
LEMMA DnsSoundKept ==
  ASSUME DnsSound, UNCHANGED <<zone, rec, provider>>,
         \A r \in RecRows : Once(RecordJobs(r))',
         \A q \in Awaited' : q \in Awaited \/ q.rec \notin RecRows,
         \A r \in RecRows : pc' = "handled" /\ held'.rec = r => ok'
  PROVE  /\ RowsSound' /\ JobsSound' /\ NothingElse'
         /\ (pc' \in {"read", "calling"} =>
               pc \in {"read", "calling"} /\ held' = held /\ call' = call) => DnsSound'
<1>1. ZoneRows' = ZoneRows /\ RecRows' = RecRows
  BY DEF ZoneRows, RecRows
<1>2. \A z, r, v : /\ ListDNSRecords(z)' = ListDNSRecords(z) /\ Published(z)' = Published(z)
                   /\ Covers(r, v)' <=> Covers(r, v)
                   /\ SentKeys(r)' = SentKeys(r)
  BY <1>1 DEF ListDNSRecords, Published, Covers, SentKeys
<1>3. RowsSound' /\ NothingElse'
  BY <1>1, <1>2 DEF DnsSound, RowsSound, NothingElse
<1>4. ASSUME pc' \in {"read", "calling"} =>
               pc \in {"read", "calling"} /\ held' = held /\ call' = call
      PROVE  SentFits'
  BY <1>2, <1>4 DEF DnsSound, SentFits, ListDNSRecords, RecRows, Covers, SentKeys
<1>5. JobsSound'
  <2>1. \A r \in RecRows : Pending(r)' => Pending(r)
    BY DEF Pending
  <2> QED BY <1>1, <2>1 DEF DnsSound, JobsSound
<1> QED BY <1>3, <1>4, <1>5 DEF DnsSound

(* One job of a record at most, when its worker goes on or rests. *)
LEMMA SameOnceOfRecords ==
  ASSUME JobsSound, queue' = queue, Handling' => Handling
  PROVE  \A r \in RecRows : Once(RecordJobs(r))'
<1> TAKE r \in RecRows
<1> DEFINE X == RecordJobs(r)
<1>1. X' = X /\ Once(X)
  BY DEF RecordJobs, JobsSound
<1> HIDE DEF X
<1>2. Once(X)'
  BY <1>1, SameOnce
<1> QED BY <1>2 DEF X

(* The first half of a request changes nothing of it. *)
LEMMA DnsPlainSound ==
  ASSUME DnsInv, DnsFits, DnsSound, DnsPlain
  PROVE  DnsSound'
<1>1. /\ UNCHANGED <<zone, rec, provider, call, pc, ok>>
      /\ pc # "idle" => held' = held
      /\ Awaited' = Awaited
      /\ \A r : Once(RecordJobs(r)) => Once(RecordJobs(r))'
  BY DnsPlainJobs
<1>2. \A r \in RecRows : Once(RecordJobs(r))'
  BY <1>1 DEF DnsSound, JobsSound
<1>3. \A r \in RecRows : pc' = "handled" /\ held'.rec = r => ok'
  BY <1>1 DEF DnsSound, JobsSound
<1> QED BY <1>1, <1>2, <1>3, DnsSoundKept

(* A job that succeeded is not tried again. *)
LEMMA DnsBetweenSound ==
  ASSUME DnsInv, DnsFits, DnsSound, DnsBetween \/ DnsNothing
  PROVE  DnsSound'
<1>1. /\ WorkerInv(DnsAsked, DnsCall) /\ UNCHANGED <<zone, rec, provider>>
      /\ pc' \notin {"read", "calling"} /\ JobsSound
  BY DEF DnsInv, DnsBetween, DnsNothing, dnsVars, Claim, Settle, Returns, DnsSound
<1>2. CASE DnsBetween
  <2>1. ASSUME NEW r \in RecRows PROVE Once(RecordJobs(r))'
    <3> DEFINE X == RecordJobs(r)
    <3>1. X' = X /\ Once(X) /\ (Settle /\ held \in X => ok)
      BY <1>1 DEF RecordJobs, JobsSound, Settle
    <3> HIDE DEF X
    <3>2. Once(X)'
      BY <1>1, <1>2, <3>1, ClaimOnce, SettleOnce DEF DnsBetween
    <3> QED BY <3>2 DEF X
  <2>2. \A q \in Awaited' : q \in Awaited \/ q.rec \notin RecRows
    <3>1. CASE Claim
      BY <1>1, <3>1, ClaimOnly
    <3>2. CASE Settle
      BY <1>1, <3>2, SettleOnly DEF JobsSound, Settle
    <3> QED BY <1>2, <3>1, <3>2 DEF DnsBetween
  <2>3. pc' # "handled"
    BY <1>2 DEF DnsBetween, Claim, Settle
  <2> QED BY <1>1, <2>1, <2>2, <2>3, DnsSoundKept
<1>3. CASE DnsNothing
  <2>1. queue' = queue /\ pc = "claimed" /\ pc' = "handled" /\ DnsRowGone
    BY <1>3 DEF DnsNothing, Returns
  <2>2. held' = held /\ Awaited' \subseteq Awaited /\ (Handling' => Handling)
    BY <2>1 DEF held, current, Awaited, Waiting, Handling
  <2>3. \A r \in RecRows : held'.rec # r
    BY <2>1, <2>2, DnsAssumption DEF DnsRowGone, RecRows
  <2> QED BY <1>1, <2>1, <2>2, <2>3, SameOnceOfRecords, DnsSoundKept
<1> QED BY <1>2, <1>3

(* Nothing happens. *)
LEMMA DnsStuttersSound == ASSUME DnsSound, UNCHANGED vars PROVE DnsSound'
<1>1. UNCHANGED <<queue, pc, call, ok, zone, rec, provider>>
  BY DEF vars, workerVars, dnsVars
<1>2. held' = held /\ Awaited' = Awaited /\ (Handling' => Handling)
  BY <1>1 DEF held, current, Awaited, Waiting, Handling
<1>3. JobsSound /\ \A r \in RecRows : pc' = "handled" /\ held'.rec = r => ok'
  BY <1>1, <1>2 DEF DnsSound, JobsSound
<1> QED BY <1>1, <1>2, <1>3, SameOnceOfRecords, DnsSoundKept

(* Only what is accepted is awaited then. *)
LEMMA AcceptOnly ==
  ASSUME NEW R, NEW C, WorkerInv(R, C), NEW i \in DOMAIN queue, Accept(i)
  PROVE  Awaited' \subseteq Awaited \cup {queue[i].req}
<1> DEFINE n == Len(queue)
           job == [queue[i] EXCEPT !.state = "queued"]
<1>1. queue \in Seq(Job(R)) /\ queue[i] \in Job(R)
  BY QueueIsJobs DEF WorkerInv
<1>2. job \in Job(R) /\ job.req = queue[i].req
  BY <1>1 DEF Job
<1>3. n \in Nat /\ DOMAIN queue = 1 .. n /\ i \in 1 .. n
  BY <1>1, LenProperties
<1>4. Handling' => Handling /\ held' = held
  BY AcceptStep, HeldIsKept DEF Requested, Handling
<1> HIDE DEF n, job
<1>5. Queued' \subseteq Queued \cup {queue[i].req}
  <2>1. CASE queue' = [queue EXCEPT ![i] = job]
    <3>1. /\ DOMAIN queue' = 1 .. n /\ queue'[i] = job
          /\ \A k \in 1 .. n : k # i => queue'[k] = queue[k]
      BY <1>3, <2>1
    <3> QED BY <1>2, <1>3, <3>1 DEF Queued, Waiting
  <2>2. CASE queue' = Append(RemoveAt(queue, i), job)
    <3> DEFINE from(k) == IF k < i THEN k ELSE k + 1
    <3>1. /\ RemoveAt(queue, i) \in Seq(Job(R)) /\ Len(RemoveAt(queue, i)) = n - 1
          /\ \A k \in 1 .. n - 1 : RemoveAt(queue, i)[k] = queue[from(k)]
      BY RemovedJob DEF n
    <3>2. /\ DOMAIN queue' = 1 .. n /\ queue'[n] = job
          /\ \A k \in 1 .. n - 1 : queue'[k] = queue[from(k)]
      BY <1>2, <1>3, <2>2, <3>1, AppendProperties, LenProperties
    <3>3. \A k \in 1 .. n - 1 : from(k) \in 1 .. n
      BY <1>3
    <3>4. \A k \in 1 .. n : k = n \/ k \in 1 .. n - 1
      BY <1>3
    <3> HIDE DEF from
    <3> QED BY <1>2, <1>3, <3>2, <3>3, <3>4 DEF Queued, Waiting
  <2> QED BY <2>1, <2>2 DEF Accept, job
<1> QED BY <1>4, <1>5 DEF Awaited, Queued

(* What is published stays accounted for, by a record to be changed. *)
LEMMA DnsAcceptSound ==
  ASSUME DnsInv, DnsFits, DnsSound, NEW i \in DOMAIN queue, NEW q \in DnsAsked,
         q = queue[i].req, Accept(i), CommitDns(q), UNCHANGED provider
  PROVE  DnsSound'
<1>1. /\ ZoneCreated(q) \/ ZoneDeleting(q) \/ RecordCreated(q) \/ RecordQueued(q)
      /\ UNCHANGED <<call, pc, ok>>
      /\ pc # "idle" => held' = held
  BY DnsAcceptJobs
<1>2. WorkerInv(DnsAsked, DnsCall) /\ \A r : Pending(r)' => Pending(r) \/ q.rec = r
  <2>1. WorkerInv(DnsAsked, DnsCall)
    BY DEF DnsInv
  <2>2. Awaited' \subseteq Awaited \cup {q}
    BY <2>1, AcceptOnly
  <2> QED BY <2>1, <2>2 DEF Pending
<1>3. /\ RowsSound /\ JobsSound /\ NothingElse /\ SentFits
      /\ \A r \in RecRows : r \in Rec /\ r # None /\ rec[r].zone \in ZoneRows
      /\ \A z \in ZoneRows : z \in Zone
  BY DnsAssumption DEF DnsSound, DnsFits, RecordsHaveZones, ZoneRows, RecRows
(* The record is new, or has no job. *)
<1>4. RecordCreated(q) \/ RecordQueued(q) => Awaited \cap RecordJobs(q.rec) = {}
  <2>1. CASE RecordQueued(q)
    <3>1. ~Pending(q.rec)
      BY <1>3, <2>1 DEF RecordQueued, JobsSound
    <3> QED BY <3>1 DEF Pending, RecordJobs
  <2>2. CASE RecordCreated(q)
    <3>1. q.rec # None /\ \A p \in Awaited : p.rec = q.rec => rec[p.rec].status # "none"
      BY <1>2, <2>2, AwaitedIsKnown, DnsAssumption
         DEF DnsFits, RequestsFit, FitsRow, RecordCreated
    <3> QED BY <2>2, <3>1 DEF RecordCreated, RecordJobs
  <2> QED BY <2>1, <2>2
<1>5. ASSUME NEW r \in RecRows' PROVE Once(RecordJobs(r))'
  <2> DEFINE X == RecordJobs(r)
  <2>1. X' = X
    BY DEF RecordJobs
  <2>2. IF q \in X THEN Awaited \cap X = {} ELSE Once(X)
    <3>1. q \in X <=> q.rec = r
      BY DEF RecordJobs
    <3>2. r \in RecRows \/ q.rec = r
      BY <1>1 DEF ZoneCreated, ZoneDeleting, RecordCreated, RecordQueued, RecRows
    <3>3. r # None /\ (q.rec = r => RecordCreated(q) \/ RecordQueued(q))
      <4>1. r # None
        BY DnsAssumption DEF RecRows
      <4> QED BY <1>1, <4>1 DEF ZoneCreated, ZoneDeleting
    <3>4. r \in RecRows => Once(X)
      BY <1>3 DEF JobsSound
    <3> QED BY <1>4, <3>1, <3>2, <3>3, <3>4
  <2> HIDE DEF X
  <2>3. Once(X)'
    BY <1>2, <2>1, <2>2, AcceptOnce
  <2> QED BY <2>1, <2>3 DEF X
<1>6. CASE ZoneCreated(q) \/ ZoneDeleting(q)
  <2>1. /\ RecRows' = RecRows /\ rec' = rec /\ q.rec = None
        /\ \A z \in ZoneRows : zone'[z].name = zone[z].name
        /\ \A z \in ZoneRows' : /\ z \in ZoneRows \/ (z \in Zone /\ z \notin ZoneRows)
                                /\ zone'[z].status = "active" =>
                                     z \in ZoneRows /\ zone'[z] = zone[z]
    BY <1>3, <1>6 DEF ZoneCreated, ZoneDeleting, RecRows
  <2>2. \A r, v, z : (Covers(r, v)' <=> Covers(r, v)) /\ ListDNSRecords(z)' = ListDNSRecords(z)
    BY <2>1 DEF Covers, SentKeys, ListDNSRecords
  <2>3. RowsSound'
    BY <1>3, <2>1 DEF RowsSound
  <2>4. JobsSound'
    BY <1>1, <1>2, <1>3, <1>5, <2>1 DEF JobsSound
  <2>5. NothingElse'
    <3> SUFFICES ASSUME NEW z \in ZoneRows', provider[zone'[z].name].owner = z,
                        NEW v \in provider[zone'[z].name].has
                 PROVE  \E r \in ListDNSRecords(z) : Covers(r, v)
      BY <2>2 DEF NothingElse, Published
    <3>1. zone'[z].name \in ZoneName
      <4>1. \A y \in ZoneRows : zone[y].name \in ZoneName
        BY DEF DnsInv, DnsRowsFine
      <4> QED BY <1>6, <2>1, <4>1 DEF ZoneCreated, ZoneDeleting
    <3>2. z \in ZoneRows
      BY <2>1, <3>1 DEF DnsInv, ZonesAreOwned
    <3> QED BY <1>3, <2>1, <3>2 DEF NothingElse, Published
  <2>6. SentFits'
    <3>1. \A r : SentKeys(r)' = SentKeys(r)
      BY <2>1 DEF SentKeys
    <3> QED BY <1>1, <1>3, <2>1, <2>2, <3>1 DEF SentFits, ListDNSRecords
  <2> QED BY <2>3, <2>4, <2>5, <2>6 DEF DnsSound
<1>7. CASE RecordCreated(q) \/ RecordQueued(q)
  <2>1. /\ zone' = zone /\ ZoneRows' = ZoneRows
        /\ q.rec \in Rec /\ q.rec \in RecRows'
        /\ rec'[q.rec].status \in {"pending", "deleting"}
        /\ rec'[q.rec].zone \in ZoneRows /\ zone[rec'[q.rec].zone].status = "active"
        /\ \A r \in Rec : r # q.rec => rec'[r] = rec[r]
        /\ RecRows \subseteq RecRows' /\ \A r \in RecRows' : r \in RecRows \/ r = q.rec
        /\ q.rec \in RecRows => /\ rec'[q.rec].zone = rec[q.rec].zone
                                /\ rec'[q.rec].synced = rec[q.rec].synced
                                /\ rec[q.rec].status = "active"
    <3>1. zone' = zone /\ ZoneRows' = ZoneRows
      BY <1>7 DEF RecordCreated, RecordQueued, ZoneRows
    <3>2. CASE RecordCreated(q)
      BY <1>3, <3>1, <3>2 DEF RecordCreated
    <3>3. CASE RecordQueued(q)
      <4>1. rec[q.rec].status = "active"
        BY <1>3, <3>3 DEF RecordQueued, RowsSound, RecRows, Settled, DnsInv, DnsRowsFine, RecRow
      <4> QED BY <1>3, <3>1, <3>3, <4>1 DEF RecordQueued
    <3> QED BY <1>7, <3>2, <3>3
  <2>2. RowsSound'
    <3> SUFFICES ASSUME NEW r \in RecRows'
                 PROVE  /\ rec'[r].status # "error"
                        /\ rec'[r].status = "active" => rec'[r].synced = KeyOf(rec'[r].val)
                        /\ provider[zone[rec'[r].zone].name].owner = rec'[r].zone
      BY <1>3, <2>1 DEF RowsSound
    <3> QED BY <1>3, <2>1 DEF RowsSound
  <2>3. JobsSound'
    <3> SUFFICES ASSUME NEW r \in RecRows'
                 PROVE  /\ Pending(r)' => ~Settled(rec'[r].status)
                        /\ pc' = "handled" /\ held'.rec = r => ok'
      BY <1>5 DEF JobsSound
    <3>1. Pending(r)' => ~Settled(rec'[r].status)
      BY <1>2, <1>3, <2>1 DEF JobsSound, Settled
    <3>2. pc = "handled" /\ held.rec = r => r \in RecRows
      <4> SUFFICES ASSUME pc = "handled", held.rec = r, RecordCreated(q), r = q.rec PROVE FALSE
        BY <1>7, <2>1 DEF RecordQueued
      <4>1. held \in Accepted /\ held.rec # None
        BY <1>2, AwaitedIsKnown, DnsAssumption DEF RecRows
      <4> QED BY <4>1 DEF DnsFits, RequestsFit, FitsRow, RecordCreated
    <3> QED BY <1>1, <1>3, <3>1, <3>2 DEF JobsSound
  <2>4. ASSUME NEW r \in RecRows, NEW v, Covers(r, v) PROVE Covers(r, v)'
    <3>1. CASE r # q.rec
      BY <1>3, <2>1, <2>4, <3>1 DEF Covers, SentKeys
    <3>2. CASE r = q.rec
      <4>1. KeyOf(v) = rec[r].synced /\ rec'[r].synced = rec[r].synced
        BY <1>3, <2>1, <2>4, <3>2 DEF Covers, RowsSound
      <4>2. KeyOf(v) # None
        <5>1. rec[r].val = v /\ rec[r].val \in Value
          BY <2>1, <2>4, <3>2 DEF Covers, DnsInv, DnsRowsFine
        <5> QED BY <5>1, DnsAssumption DEF Keys
      <4> QED BY <2>1, <3>2, <4>1, <4>2 DEF Covers, SentKeys
    <3> QED BY <3>1, <3>2
  <2>5. \A z : ListDNSRecords(z) \subseteq ListDNSRecords(z)'
    BY <1>3, <2>1 DEF ListDNSRecords
  <2>6. NothingElse'
    BY <1>3, <2>1, <2>4, <2>5 DEF NothingElse, Published, ListDNSRecords
  <2>7. SentFits'
    <3> SUFFICES ASSUME pc \in {"read", "calling"}, held.rec # None,
                        held' = held, call' = call
                 PROVE  SentFits'
      BY <1>1 DEF SentFits
    <3>1. held.rec \in RecRows /\ held.rec # q.rec
      <4>1. held.rec \in RecRows /\ held \in DnsAsked
        BY DnsHeld
      <4>2. held \in Awaited /\ held \in RecordJobs(held.rec)
        BY <4>1 DEF Awaited, Handling, RecordJobs
      <4> QED BY <1>4, <1>7, <4>1, <4>2
    <3>2. rec'[held.rec] = rec[held.rec]
      BY <1>3, <2>1, <3>1
    <3>3. SentKeys(held.rec)' = SentKeys(held.rec)
      BY <3>2 DEF SentKeys
    <3>4. \A v \in call.set : \E r \in ListDNSRecords(held.zone)' :
            Covers(r, v)' /\ (r = held.rec => held.kind # "delete" /\ rec'[r].val = v)
      BY <1>3, <2>4, <2>5, <3>2 DEF SentFits, ListDNSRecords
    <3> QED BY <1>3, <3>3, <3>4 DEF SentFits
  <2> QED BY <2>2, <2>3, <2>6, <2>7 DEF DnsSound
<1> QED BY <1>1, <1>6, <1>7

(* Every value that is sent is that of a record. *)
LEMMA DnsReadSound == ASSUME DnsInv, DnsFits, DnsSound, DnsRead PROVE DnsSound'
<1>1. /\ pc = "claimed" /\ pc' = "read" /\ queue' = queue /\ ~DnsRowGone
      /\ UNCHANGED <<zone, rec, provider>>
  BY DEF DnsRead, Goes, dnsVars
<1>2. held' = held /\ Awaited' = Awaited /\ (Handling' => Handling) /\ JobsSound /\ RowsSound
  BY <1>1 DEF held, current, Awaited, Waiting, Handling, DnsSound
<1>3. RowsSound' /\ JobsSound' /\ NothingElse'
  BY <1>1, <1>2, SameOnceOfRecords, DnsSoundKept
<1>4. SentFits'
  <2> SUFFICES ASSUME held.rec # None PROVE SentFits'
    BY <1>2 DEF SentFits
  <2>1. call'.keys = SentKeys(held.rec) /\ call'.set = SentValues(held)
    <3>1. held.kind # "zone.create"
      BY <1>1, HeldIsJob DEF DnsInv, DnsAsked
    <3> QED BY <3>1 DEF DnsRead
  <2>2. ASSUME NEW v \in SentValues(held)
        PROVE  \E r \in ListDNSRecords(held.zone) :
                 Covers(r, v) /\ (r = held.rec => held.kind # "delete" /\ rec[r].val = v)
    BY <2>2 DEF SentValues, Covers, SentKeys
  <2>3. \A r, v : /\ SentKeys(r)' = SentKeys(r) /\ (Covers(r, v)' <=> Covers(r, v))
    BY <1>1 DEF SentKeys, Covers
  <2>4. ListDNSRecords(held.zone)' = ListDNSRecords(held.zone)
    BY <1>1, <1>2 DEF ListDNSRecords, RecRows
  <2> QED BY <1>1, <1>2, <2>1, <2>2, <2>3, <2>4 DEF SentFits
<1> QED BY <1>3, <1>4 DEF DnsSound

(* A record that is marked accounts for as much. *)
LEMMA DnsMarkSound == ASSUME DnsInv, DnsFits, DnsSound, DnsMark PROVE DnsSound'
<1>1. /\ pc = "read" /\ pc' = "calling" /\ queue' = queue /\ call' = call /\ provider' = provider
  BY DEF DnsMark, Goes
<1>2. /\ held' = held /\ Awaited' = Awaited /\ (Handling' => Handling)
      /\ RowsSound /\ JobsSound /\ NothingElse /\ SentFits
  BY <1>1 DEF held, current, Awaited, Waiting, Handling, DnsSound
<1>3. CASE UNCHANGED <<zone, rec>>
  BY <1>1, <1>2, <1>3, SameOnceOfRecords, DnsSoundKept
<1>4. CASE Stores("pending") /\ held.kind \notin {"zone.delete", "delete"}
  <2>1. /\ \A r \in RecRows' : /\ r \in RecRows /\ rec[r].zone \in ZoneRows'
                               /\ rec'[r].zone = rec[r].zone /\ rec'[r].val = rec[r].val
                               /\ rec'[r].synced = rec[r].synced
                               /\ rec'[r].status = "pending" \/ rec'[r] = rec[r]
        /\ \A r \in RecRows : r \in RecRows'
        /\ \A z \in ZoneRows' : /\ z \in ZoneRows /\ zone'[z].name = zone[z].name
                                /\ zone'[z].status = "pending" \/ zone'[z] = zone[z]
    BY <1>4 DEF Stores
  <2>2. RowsSound'
    BY <1>1, <1>2, <2>1 DEF RowsSound
  <2>3. JobsSound'
    BY <1>1, <1>2, <2>1, SameOnceOfRecords DEF JobsSound, Pending, Settled
  <2>4. /\ \A r \in RecRows : SentKeys(r)' = SentKeys(r)
        /\ \A r \in RecRows, v \in Value : Covers(r, v) => Covers(r, v)'
        /\ \A z : ListDNSRecords(z) \subseteq ListDNSRecords(z)' \cap RecRows
    BY <2>1 DEF SentKeys, Covers, ListDNSRecords
  <2>5. /\ \A z \in ZoneRows : Published(z) \subseteq Value
        /\ held.rec # None => held.rec \in RecRows /\ call.set \subseteq Value
    <3>1. call \in DnsCall /\ (held.rec # None => held.rec \in RecRows)
      BY <1>1, DnsHeld
    <3>2. \A z \in ZoneRows : provider[zone[z].name] \in Served
      BY DEF DnsInv, DnsRowsFine
    <3> QED BY <3>1, <3>2 DEF Published, Served, DnsCall
  <2>6. NothingElse'
    <3> SUFFICES ASSUME NEW z \in ZoneRows', provider[zone[z].name].owner = z,
                        NEW v \in Published(z)
                 PROVE  \E r \in ListDNSRecords(z)' : Covers(r, v)'
      BY <1>1, <2>1 DEF NothingElse, Published
    <3>1. v \in Value /\ \E r \in ListDNSRecords(z) : Covers(r, v)
      BY <1>2, <2>1, <2>5 DEF NothingElse
    <3> QED BY <2>4, <3>1
  <2>7. SentFits'
    <3> SUFFICES ASSUME held.rec # None PROVE SentFits'
      BY <1>2 DEF SentFits
    <3>1. call.keys = SentKeys(held.rec)'
      BY <1>1, <1>2, <2>4, <2>5 DEF SentFits
    <3>2. ASSUME NEW v \in call.set
          PROVE  \E r \in ListDNSRecords(held.zone)' :
                   Covers(r, v)' /\ (r = held.rec => held.kind # "delete" /\ rec'[r].val = v)
      <4>1. PICK r \in ListDNSRecords(held.zone) :
              Covers(r, v) /\ (r = held.rec => held.kind # "delete" /\ rec[r].val = v)
        BY <1>1, <1>2 DEF SentFits
      <4>2. r \in ListDNSRecords(held.zone)' /\ r \in RecRows /\ v \in Value
        BY <1>2, <2>1, <2>5 DEF ListDNSRecords
      <4> QED BY <2>1, <2>4, <4>1, <4>2
    <3> QED BY <1>1, <1>2, <3>1, <3>2 DEF SentFits, ListDNSRecords
  <2> QED BY <2>2, <2>3, <2>6, <2>7 DEF DnsSound
<1>5. held.kind \in {"zone.delete", "delete"} => UNCHANGED <<zone, rec>>
  BY DEF DnsMark
<1> QED BY <1>3, <1>4, <1>5, DnsMarkStores

(* The Agent refuses only to make a zone, since every record's is owned.   *)
LEMMA DnsHandledWell ==
  ASSUME DnsInv, DnsFits, RowsSound, HandleDns, troubles' = troubles
  PROVE  \/ Applied /\ Stores("active") /\ Returns(TRUE)
         \/ held.kind = "zone.create" /\ UNCHANGED provider /\ Stores("error") /\ Returns(FALSE)
<1>1. pc = "calling" /\ troubles \in Nat
  BY DEF HandleDns, DnsInv, WorkerInv, WorkerTypeOK
<1>2. CASE Applied /\ DnsSucceed /\ Returns(TRUE)
  BY <1>1, <1>2, DnsSucceedStores
<1>3. CASE Refused /\ UNCHANGED provider /\ DnsFail /\ Returns(FALSE)
  <2>1. held.rec = None
    <3> SUFFICES ASSUME held.rec # None PROVE FALSE
      OBVIOUS
    <3>1. /\ held.rec \in RecRows /\ rec[held.rec].zone = held.zone /\ call.op = "sync"
          /\ call.zone = held.zone
      BY <1>1, DnsHeld
    <3>2. Owned
      BY <3>1 DEF RowsSound, Owned, Name
    <3> QED BY <1>3, <3>1, <3>2 DEF Refused
  <2>2. /\ held.kind \in {"zone.create", "zone.delete"}
        /\ held.kind = "zone.delete" => call.op = "drop"
    BY <1>1, <2>1, DnsHeld
  <2> QED BY <1>1, <1>3, <2>2, DnsFailStores DEF Refused
<1>4. ~Fault
  BY <1>1 DEF Fault, Trouble
<1> QED BY <1>2, <1>3, <1>4 DEF HandleDns

(* What is published of a zone after a job of its own: what was accounted  *)
(* for by others, and what was sent.                                       *)
LEMMA DnsHandledSound ==
  ASSUME DnsInv, DnsFits, DnsSound, HandleDns, troubles' = troubles
  PROVE  DnsSound'
<1>1. /\ pc = "calling" /\ pc' = "handled" /\ queue' = queue
      /\ RowsSound /\ JobsSound /\ NothingElse /\ SentFits /\ RecordsHaveZones
  BY DEF HandleDns, Returns, DnsSound, DnsFits
<1>2. /\ held' = held /\ Awaited' = Queued /\ Handling /\ (Handling' => Handling)
      /\ held \in DnsAsked
  <2>1. held' = held /\ Awaited' = Queued /\ Handling /\ (Handling' => Handling)
    BY <1>1 DEF held, current, Awaited, Queued, Waiting, Handling
  <2> QED BY <1>1, <2>1, DnsHeld
<1>3. /\ held.kind \in {"zone.create", "zone.delete", "create", "update", "delete"}
      /\ held.kind \in {"zone.create", "zone.delete"} <=> held.rec = None
      /\ held.rec # None => held.rec \in RecRows /\ rec[held.rec].zone = held.zone
      /\ held.zone \in ZoneRows
      /\ \A r \in RecRows : r # None
  BY <1>1, DnsHeld, DnsAssumption DEF RecRows
<1>4. PICK s \in {"active", "error"} :
        /\ Stores(s)
        /\ s = "active" => Applied /\ ok'
        /\ s = "error" => held.kind = "zone.create" /\ provider' = provider
  BY <1>1, DnsHandledWell DEF Returns
<1>5. /\ \A r \in RecRows' :
           /\ r \in RecRows /\ rec[r].zone \in ZoneRows'
           /\ rec'[r].zone = rec[r].zone /\ rec'[r].val = rec[r].val
           /\ IF r = held.rec
              THEN /\ rec'[r].status = "active" /\ held.kind # "delete" /\ ok'
                   /\ rec'[r].synced = KeyOf(rec[r].val)
              ELSE rec'[r] = rec[r]
      /\ \A z \in ZoneRows' :
           /\ z \in ZoneRows /\ zone'[z].name = zone[z].name
           /\ held.kind = "zone.delete" => z # held.zone
           /\ IF held.rec = None /\ z = held.zone
              THEN zone'[z].status = s ELSE zone'[z] = zone[z]
      /\ \A r \in RecRows : rec[r].zone \in ZoneRows' =>
           r \in RecRows' \/ (held.kind = "delete" /\ r = held.rec)
  BY <1>3, <1>4 DEF Stores
<1>6. \A z \in ZoneRows' :
        LET was == provider[zone[z].name]
            is  == provider'[zone[z].name]
        IN \/ is = was /\ (z = held.zone => held.rec = None)
           \/ /\ z = held.zone /\ held.kind = "zone.create"
              /\ was.owner \in {None, z} /\ is.owner = z /\ is.has = was.has
           \/ /\ z = held.zone /\ held.rec # None
              /\ was.owner = z /\ is.owner = z
              /\ is.has = {v \in was.has : KeyOf(v) \notin call.keys} \cup call.set
  <2>1. CASE s = "error"
    BY <1>3, <1>4, <2>1
  <2>2. CASE s = "active"
    <3>1. /\ \A z \in ZoneRows : z # held.zone =>
               provider'[zone[z].name] = provider[zone[z].name]
          /\ LET n == zone[held.zone].name
             IN \/ /\ held.kind = "zone.create"
                   /\ provider[n].owner \in {None, held.zone} /\ provider'[n].owner = held.zone
                   /\ provider'[n].has = provider[n].has
                \/ held.kind = "zone.delete"
                \/ /\ held.rec # None
                   /\ provider[n].owner = held.zone /\ provider'[n].owner = held.zone
                   /\ provider'[n].has = {v \in provider[n].has : KeyOf(v) \notin call.keys}
                                         \cup call.set
      BY <1>1, <1>4, <2>2, AppliedShown
    <3> QED BY <1>5, <3>1
  <2> QED BY <2>1, <2>2
<1>7. RowsSound'
  <2>1. ASSUME NEW z \in ZoneRows', zone'[z].status = "active"
        PROVE  provider'[zone'[z].name].owner = z
    <3>1. CASE held.rec = None /\ z = held.zone
      <4>1. s = "active" /\ held.kind = "zone.create"
        BY <1>3, <1>5, <2>1, <3>1
      <4>2. provider'[zone[held.zone].name].owner = held.zone
        BY <1>1, <1>3, <1>4, <4>1, AppliedShown
      <4> QED BY <1>5, <3>1, <4>2
    <3>2. CASE ~(held.rec = None /\ z = held.zone)
      BY <1>1, <1>5, <1>6, <2>1, <3>2 DEF RowsSound
    <3> QED BY <3>1, <3>2
  <2>2. ASSUME NEW r \in RecRows', NEW z, z = rec[r].zone
        PROVE  /\ rec'[r].status # "error"
               /\ rec'[r].status = "active" => rec'[r].synced = KeyOf(rec'[r].val)
               /\ rec'[r].zone = z /\ provider'[zone'[z].name].owner = z
    <3>1. r \in RecRows /\ z \in ZoneRows' /\ provider[zone[z].name].owner = z
      BY <1>1, <1>5, <2>2 DEF RowsSound
    <3>2. provider'[zone'[z].name].owner = z
      BY <1>5, <1>6, <3>1
    <3> QED BY <1>1, <1>5, <2>2, <3>1, <3>2 DEF RowsSound
  <2> QED BY <2>1, <2>2 DEF RowsSound
<1>8. JobsSound'
  <2> SUFFICES ASSUME NEW r \in RecRows'
               PROVE  /\ Pending(r)' => ~Settled(rec'[r].status)
                      /\ held.rec = r => ok'
    BY <1>1, <1>2, <1>5, SameOnceOfRecords DEF JobsSound
  <2>1. CASE r # held.rec
    <3>1. Pending(r)' => Pending(r)
      BY <1>2, AwaitedInQueue DEF Pending
    <3> QED BY <1>1, <1>5, <2>1, <3>1 DEF JobsSound
  <2>2. CASE r = held.rec
    <3>1. Once(RecordJobs(r)) /\ held \in RecordJobs(r)
      BY <1>1, <1>2, <1>5, <2>2 DEF JobsSound, RecordJobs
    <3>2. Queued \cap RecordJobs(r) = {}
      BY <1>2, <3>1 DEF Once
    <3>3. Queued \subseteq DnsAsked
      BY AwaitedInQueue, AwaitedIsKnown DEF DnsInv
    <3>4. ~Pending(r)'
      BY <1>2, <3>2, <3>3 DEF Pending, RecordJobs
    <3> QED BY <1>5, <2>2, <3>4
  <2> QED BY <2>1, <2>2
<1>9. NothingElse'
  <2> SUFFICES ASSUME NEW z \in ZoneRows', provider'[zone[z].name].owner = z,
                      NEW v \in provider'[zone[z].name].has
               PROVE  \E r \in ListDNSRecords(z)' : Covers(r, v)'
    BY <1>5 DEF NothingElse, Published
  <2>1. \A r \in ListDNSRecords(z) : r # held.rec \/ held.kind # "delete" =>
          r \in ListDNSRecords(z)' /\ r \in RecRows'
    BY <1>5 DEF ListDNSRecords
  <2>2. \A r \in RecRows' : r # held.rec => (Covers(r, v) => Covers(r, v)')
    BY <1>5 DEF Covers, SentKeys
  <2> DEFINE was == provider[zone[z].name]
             is  == provider'[zone[z].name]
  <2>3. CASE z # held.zone \/ held.rec = None
    <3>1. was.owner = z /\ v \in was.has
      <4>1. was.owner = None => was.has = {}
        <5>1. zone[z].name \in ZoneName
          BY <1>5 DEF DnsInv, DnsRowsFine
        <5> QED BY <5>1 DEF DnsFits, NothingUnowned
      <4> QED BY <1>6, <2>3, <4>1
    <3>2. PICK r \in ListDNSRecords(z) : Covers(r, v)
      BY <1>1, <1>5, <3>1 DEF NothingElse, Published
    <3>3. r # held.rec
      BY <1>3, <2>3, <3>2 DEF ListDNSRecords
    <3> QED BY <2>1, <2>2, <3>2, <3>3
  <2>4. CASE z = held.zone /\ held.rec # None
    <3>1. was.owner = z /\ is.has = {w \in was.has : KeyOf(w) \notin call.keys} \cup call.set
      BY <1>3, <1>6, <2>4
    <3>2. CASE v \in was.has /\ KeyOf(v) \notin call.keys
      <4>1. PICK r \in ListDNSRecords(z) : Covers(r, v)
        BY <1>1, <1>5, <3>1, <3>2 DEF NothingElse, Published
      <4>2. r # held.rec
        BY <1>1, <2>4, <3>2, <4>1 DEF SentFits, Covers
      <4> QED BY <2>1, <2>2, <4>1, <4>2
    <3>3. CASE v \in call.set
      <4>1. PICK r \in ListDNSRecords(z) :
              Covers(r, v) /\ (r = held.rec => held.kind # "delete" /\ rec[r].val = v)
        BY <1>1, <2>4, <3>3 DEF SentFits
      <4>2. r \in ListDNSRecords(z)' /\ r \in RecRows'
        BY <2>1, <4>1
      <4>3. CASE r = held.rec
        BY <1>5, <4>1, <4>2, <4>3 DEF Covers, SentKeys
      <4>4. CASE r # held.rec
        BY <2>2, <4>1, <4>2, <4>4
      <4> QED BY <4>2, <4>3, <4>4
    <3> QED BY <3>1, <3>2, <3>3
  <2> QED BY <2>3, <2>4
<1>10. SentFits'
  BY <1>1 DEF SentFits
<1> QED BY <1>7, <1>8, <1>9, <1>10 DEF DnsSound

(* What always holds, what holds until a statement fails, and what holds   *)
(* until anything goes wrong.                                              *)
DnsShownInv ==
  /\ DnsFits
  /\ ~unsaved => DnsShown
  /\ troubles = 0 => ~unsaved /\ DnsSound

(* All three at first. *)
LEMMA DnsShownInit == WorkerInit /\ DnsInit => DnsShownInv
  BY DnsFitsInit, DnsInitShown, DnsInitSound DEF DnsShownInv

(* All three after the first half of a request. *)
LEMMA DnsPlainNext == ASSUME DnsInv, DnsShownInv, DnsPlain PROVE DnsShownInv'
<1>1. DnsFits /\ unsaved' = unsaved /\ (troubles' = 0 => troubles = 0)
  BY DnsPlainJobs DEF DnsShownInv
<1> QED BY <1>1, DnsPlainFits, DnsPlainShown, DnsPlainSound DEF DnsShownInv

(* All three after the second. *)
LEMMA DnsAcceptNext ==
  ASSUME DnsInv, DnsShownInv, NEW i \in DOMAIN queue, Accept(i), CommitDns(queue[i].req),
         UNCHANGED provider
  PROVE  DnsShownInv'
<1>1. PICK q \in DnsAsked : q = queue[i].req
  BY RequestsAreKnown DEF DnsInv
<1>2. CommitDns(q) /\ DnsFits /\ UNCHANGED <<unsaved, troubles>>
  BY <1>1 DEF Accept, events, DnsShownInv
<1>3. DnsFits'
  BY <1>1, <1>2, DnsAcceptFits
<1>4. ~unsaved => DnsShown'
  BY <1>1, <1>2, DnsAcceptShown DEF DnsShownInv
<1>5. troubles = 0 => DnsSound'
  BY <1>1, <1>2, DnsAcceptSound DEF DnsShownInv
<1> QED BY <1>2, <1>3, <1>4, <1>5 DEF DnsShownInv

(* All three after a step of the worker that calls nothing. *)
LEMMA DnsWorkerNext ==
  ASSUME DnsInv, DnsInv', DnsShownInv, DnsBetween \/ DnsNothing \/ DnsRead \/ DnsMark
  PROVE  DnsShownInv'
<1>1. DnsFits /\ UNCHANGED <<unsaved, troubles>>
  BY DEF DnsBetween, DnsNothing, DnsRead, DnsMark, Claim, Settle, NoFault, Goes, events, DnsShownInv
<1>2. DnsFits'
  BY <1>1, DnsBetweenFits, DnsReadFits, DnsMarkFits DEF DnsQuits
<1>3. ~unsaved => DnsShown'
  BY <1>1, DnsBetweenShown, DnsReadShown, DnsMarkShown DEF DnsShownInv
<1>4. troubles = 0 => DnsSound'
  BY <1>1, DnsBetweenSound, DnsReadSound, DnsMarkSound DEF DnsShownInv
<1> QED BY <1>1, <1>2, <1>3, <1>4 DEF DnsShownInv

(* All three after a handler that has called, or could not read or mark. *)
LEMMA DnsEndNext ==
  ASSUME DnsInv, DnsShownInv,
         \/ HandleDns \/ HandleDnsUnsaved \/ DieWithDns
         \/ DnsReadFails \/ DnsMarkFails
  PROVE  DnsShownInv'
<1>1. DnsFits /\ troubles \in Nat
  BY DEF DnsShownInv, DnsInv, WorkerInv, WorkerTypeOK
<1>2. DnsFits'
  BY <1>1, DnsBetweenFits, DnsEndFits DEF DnsQuits
<1>3. CASE HandleDns
  <2>1. unsaved' = unsaved /\ (troubles' = troubles \/ troubles' = troubles + 1)
    BY <1>3 DEF HandleDns, NoFault, Fault, Trouble
  <2>2. ~unsaved => DnsShown'
    BY <1>1, <1>3, DnsHandledShown DEF DnsShownInv
  <2>3. troubles' = 0 => troubles = 0 /\ troubles' = troubles
    BY <1>1, <2>1
  <2>4. troubles' = 0 => DnsSound' /\ ~unsaved'
    BY <1>1, <1>3, <2>1, <2>3, DnsHandledSound DEF DnsShownInv
  <2> QED BY <1>2, <2>1, <2>2, <2>4 DEF DnsShownInv
<1>4. CASE DieWithDns
  <2>1. unsaved' = unsaved /\ troubles' = troubles + 1
    BY <1>4 DEF DieWithDns, Die, Trouble
  <2>2. ~unsaved => DnsShown'
    BY <1>1, <1>4, DnsDeathShown DEF DnsShownInv
  <2> QED BY <1>1, <1>2, <2>1, <2>2 DEF DnsShownInv
<1>5. CASE HandleDnsUnsaved \/ DnsReadFails \/ DnsMarkFails
  <2>1. unsaved' /\ troubles' = troubles + 1
    BY <1>5 DEF HandleDnsUnsaved, DnsReadFails, DnsMarkFails, Unsaved, Trouble
  <2> QED BY <1>1, <1>2, <2>1 DEF DnsShownInv
<1> QED BY <1>3, <1>4, <1>5

(* All three after any step. *)
LEMMA DnsShownNext == ASSUME DnsInv, DnsInv', DnsShownInv, DnsNext PROVE DnsShownInv'
<1>1. CASE DnsRequests
  <2>1. CASE \E i \in DOMAIN queue :
               Accept(i) /\ CommitDns(queue[i].req) /\ UNCHANGED <<nameservers, provider>>
    BY <2>1, DnsAcceptNext
  <2>2. CASE DnsPlain
    BY <2>2, DnsPlainNext
  <2> QED BY <1>1, <2>1, <2>2, DnsAsksFor DEF DnsRequests, DnsPlain
<1>2. CASE DnsNext /\ ~DnsRequests
  BY <1>2, DnsWorkerNext, DnsEndNext DEF DnsNext, DnsWorker, DnsBetween
<1> QED BY <1>1, <1>2

(* All three when nothing happens. *)
LEMMA DnsInvStutters == ASSUME DnsInv, DnsShownInv, UNCHANGED vars PROVE DnsShownInv'
<1>1. UNCHANGED <<unsaved, troubles>>
  BY DEF vars, workerVars, events
<1> QED BY <1>1, DnsBetweenFits, DnsShownStutters, DnsStuttersSound DEF DnsShownInv

(* Nothing is left to be done for a record, and it is shown.               *)
LEMMA DnsShownIsPublished == ASSUME DnsInv, DnsShownInv PROVE PublishedAsShown
<1> SUFFICES ASSUME Quiet, ~unsaved, NEW z \in ZoneRows, zone[z].status = "active"
             PROVE  LET served == provider[zone[z].name]
                        shown  == {rec[r].val : r \in {s \in ListDNSRecords(z) :
                                                         rec[s].status = "active"}}
                    IN /\ served.owner = z
                       /\ shown \subseteq served.has
                       /\ troubles = 0 => served.has \subseteq shown
  BY DEF PublishedAsShown
<1>1. Awaited = {}
  BY DEF Quiet, Awaited, Waiting, Unfinished, Handling
<1>2. /\ ZonesShown /\ RecordsOpen /\ RecordsShown
      /\ ~Removing(z) /\ \A r : ~Pending(r) /\ ~Removed(r)
  BY <1>1 DEF DnsShownInv, DnsShown, RowsShown, Removing, Pending, Removed
<1>3. provider[zone[z].name].owner = z
  BY <1>2 DEF ZonesShown
<1>4. ASSUME NEW r \in ListDNSRecords(z), rec[r].status = "active"
      PROVE  rec[r].val \in Published(z)
  BY <1>2, <1>4 DEF RecordsShown, ListDNSRecords
<1>5. ASSUME troubles = 0, NEW v \in Published(z)
      PROVE  \E r \in ListDNSRecords(z) : rec[r].status = "active" /\ rec[r].val = v
  <2>1. PICK r \in ListDNSRecords(z) : Covers(r, v)
    BY <1>3, <1>5 DEF DnsShownInv, DnsSound, NothingElse
  <2>2. r \in RecRows /\ rec[r].status \in {"pending", "active", "deleting", "error"}
    BY DEF ListDNSRecords, RecRows, DnsInv, DnsRowsFine, RecRow
  <2>3. rec[r].status = "active"
    BY <1>2, <1>5, <2>2 DEF RecordsOpen, DnsShownInv, DnsSound, RowsSound
  <2> QED BY <2>1, <2>3 DEF Covers
<1> QED BY <1>3, <1>4, <1>5 DEF Published

(* Once nothing is under way and no statement of a handler has failed, an  *)
(* active zone is the account's and publishes its active records, whatever *)
(* requests, retries, faults and deaths of the panel came before; and if   *)
(* nothing has gone wrong it publishes nothing else (dns/service.go,       *)
(* queries/dns.sql, agent/dns/powerdns).                                   *)
THEOREM ZonesStayAsShown == Spec => []PublishedAsShown
<1> DEFINE Inv == PanelInv /\ (scope = "dns" => DnsShownInv)
<1>1. Init => Inv
  BY PanelInvInit, DnsShownInit DEF Init
<1>2. Inv /\ [Next]_vars => Inv'
  <2> SUFFICES ASSUME Inv, [Next]_vars, scope' = "dns" PROVE DnsShownInv'
    BY PanelInvNext
  <2>1. scope = "dns"
    BY DEF Next, InTasks, InDns, InDatabases, InAccounts, vars
  <2>2. PanelInv' /\ scope' = scope
    BY <2>1, PanelInvNext
  <2>3. DnsInv /\ DnsInv' /\ DnsShownInv /\ (DnsNext \/ UNCHANGED vars)
    BY <2>1, <2>2 DEF PanelInv, Next, InTasks, InDns, InDatabases, InAccounts
  <2> QED BY <2>3, DnsShownNext, DnsInvStutters
<1>3. Inv => PublishedAsShown
  <2>1. CASE scope # "dns" /\ PanelInv
    <3>1. DnsNone
      BY <2>1 DEF PanelInv
    <3>2. ZoneRows = {}
      BY <3>1 DEF DnsNone, NoZone, ZoneRows
    <3> QED BY <3>2 DEF PublishedAsShown
  <2>2. CASE DnsInv /\ DnsShownInv
    BY <2>2, DnsShownIsPublished
  <2> QED BY <2>1, <2>2 DEF PanelInv
<1> QED BY <1>1, <1>2, <1>3, PTL DEF Spec

===============================================================================
