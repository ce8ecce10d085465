--------------------------- MODULE PanelShownProofs ---------------------------
(***************************************************************************)
(* Proofs that what the panel shows of databases, users and grants is what *)
(* the server has, on the invariants of PanelProofs.                       *)
(***************************************************************************)
EXTENDS PanelProofs

-------------------------------------------------------------------------------
(* Jobs, as far as their requests go. *)

(* The requests whose handler has still to return, those that have become  *)
(* a job, and all there are.                                               *)
Handling == pc \in {"claimed", "read", "calling"}
Awaited  == {queue[i].req : i \in Waiting} \cup {q \in {held} : Handling}
Accepted == {queue[i].req : i \in Unfinished}
Known    == {queue[i].req : i \in DOMAIN queue}

(* What a step may do to them. *)
NothingNew == Accepted' \subseteq Accepted /\ Known' \subseteq Known

LEMMA AwaitedIsKnown ==
  ASSUME NEW R, NEW C, WorkerInv(R, C)
  PROVE  /\ Awaited \subseteq Accepted /\ Accepted \subseteq Known /\ Known \subseteq R
         /\ pc # "idle" => held \in Accepted
<1>1. pc # "idle" => current \in Unfinished /\ held = queue[current].req
  BY HeldIsJob DEF Unfinished, held
<1>2. Waiting \subseteq Unfinished /\ Unfinished \subseteq DOMAIN queue
  BY DEF Waiting, Unfinished
<1> QED BY <1>1, <1>2, RequestsAreKnown DEF Awaited, Accepted, Known, Handling

LEMMA OldIsNotNew ==
  ASSUME NEW R, NEW C, WorkerInv(R, C), OldRequests
  PROVE  NothingNew
<1>1. \A i \in DOMAIN queue : queue[i].state # "asked" => i \in Unfinished
  BY QueueIsJobs DEF WorkerInv, Job, Unfinished
<1> QED BY <1>1 DEF OldRequests, NothingNew, Accepted, Known, Unfinished

LEMMA RequestsAwait ==
  ASSUME NEW R, NEW C, WorkerInv(R, C), WorkerInv(R, C)', Requested
  PROVE  Awaited \subseteq Awaited'
<1>1. \A i \in Waiting : \E k \in Waiting' : queue'[k].req = queue[i].req
  BY RequestsLetWait DEF WaitingKept
<1>2. Handling => Handling' /\ held' = held
  BY HeldIsKept DEF Handling, Requested
<1> QED BY <1>1, <1>2 DEF Awaited

LEMMA AskAwaits ==
  ASSUME NEW R, NEW C, WorkerInv(R, C), NEW r \in R, Ask(r)
  PROVE  Awaited \subseteq Awaited' /\ Accepted' \subseteq Accepted
         /\ Known' \subseteq Known \cup {r}
<1>1. /\ WorkerInv(R, C)' /\ Requested
      /\ \A k \in DOMAIN queue' : \/ queue'[k].req = r /\ queue'[k].state = "asked"
                                  \/ k \in DOMAIN queue /\ queue'[k] = queue[k]
  BY AskStep
<1> QED BY <1>1, RequestsAwait DEF Accepted, Known, Unfinished

LEMMA AcceptAwaits ==
  ASSUME NEW R, NEW C, WorkerInv(R, C), NEW i \in DOMAIN queue, Accept(i)
  PROVE  /\ Awaited \cup {queue[i].req} \subseteq Awaited'
         /\ Accepted' \subseteq Accepted \cup {queue[i].req} /\ Known' \subseteq Known
<1>1. /\ WorkerInv(R, C)' /\ Requested
      /\ \A k \in DOMAIN queue' : \E j \in DOMAIN queue :
           /\ queue'[k].req = queue[j].req
           /\ queue'[k].state # "asked" => queue[j].state # "asked" \/ j = i
      /\ \E k \in Waiting' : queue'[k].req = queue[i].req
  BY AcceptStep
<1>2. Accepted' \subseteq Accepted \cup {queue[i].req} /\ Known' \subseteq Known
  <2>1. \A k \in Unfinished' : queue'[k].req \in Accepted \cup {queue[i].req}
    <3> TAKE k \in Unfinished'
    <3>1. PICK j \in DOMAIN queue : /\ queue'[k].req = queue[j].req
                                    /\ queue[j].state # "asked" \/ j = i
      BY <1>1 DEF Unfinished
    <3>2. queue[j].state \in {"asked", "queued", "running"}
      BY QueueIsJobs DEF WorkerInv, Job
    <3> QED BY <3>1, <3>2 DEF Accepted, Unfinished
  <2> QED BY <1>1, <2>1 DEF Accepted, Known
<1> QED BY <1>1, <1>2, RequestsAwait DEF Awaited

LEMMA ClaimAwaits ==
  ASSUME NEW R, NEW C, WorkerInv(R, C), Claim
  PROVE  Awaited \subseteq Awaited' /\ NothingNew
<1>1. PICK i \in Waiting : /\ DOMAIN queue' = DOMAIN queue /\ held' = queue[i].req
                           /\ \A k \in DOMAIN queue : k # i => queue'[k] = queue[k]
  BY ClaimStep
<1>2. pc = "idle" /\ pc' = "claimed"
  BY DEF Claim
<1>3. \A k \in Waiting : k # i => k \in Waiting' /\ queue'[k].req = queue[k].req
  BY <1>1 DEF Waiting
<1>4. Awaited \subseteq Awaited'
  BY <1>1, <1>2, <1>3 DEF Awaited, Handling
<1> QED BY <1>4, ClaimStep, OldIsNotNew

LEMMA SettleAwaits ==
  ASSUME NEW R, NEW C, WorkerInv(R, C), Settle
  PROVE  Awaited \subseteq Awaited' /\ NothingNew
<1>1. Awaited \subseteq Awaited'
  BY SettleStep DEF Awaited, Handling, Settle, WaitingKept
<1> QED BY <1>1, SettleStep, OldIsNotNew

LEMMA GoesAwaits ==
  ASSUME NEW R, NEW C, WorkerInv(R, C), NEW from \in {"claimed", "read"},
         NEW to \in {"read", "calling"}, Goes(from, to), call' \in C
  PROVE  Awaited' = Awaited /\ NothingNew
<1>1. held' = held /\ OldRequests /\ Waiting' = Waiting /\ queue' = queue
      /\ pc = from /\ pc' = to
  BY GoesStep DEF Goes
<1> QED BY <1>1, OldIsNotNew DEF Awaited, Handling

LEMMA ReturnsAwaits ==
  ASSUME NEW R, NEW C, WorkerInv(R, C), pc # "idle", NEW good \in BOOLEAN, Returns(good),
         Fault \/ NoFault \/ Unsaved
  PROVE  Awaited \ {held} \subseteq Awaited' /\ NothingNew
<1>1. held' = held /\ OldRequests /\ Waiting' = Waiting /\ queue' = queue
  BY ReturnsStep DEF Returns
<1> QED BY <1>1, OldIsNotNew DEF Awaited

LEMMA DieAwaits ==
  ASSUME NEW R, NEW C, WorkerInv(R, C), Die
  PROVE  Awaited \cup {q \in {held} : pc # "idle"} \subseteq Awaited' /\ NothingNew
<1>1. /\ OldRequests /\ WaitingKept
      /\ pc # "idle" => \E k \in Waiting' : queue'[k].req = held
  BY DieStep
<1>2. Awaited \cup {q \in {held} : pc # "idle"} \subseteq Awaited'
  BY <1>1 DEF Awaited, Handling, WaitingKept
<1> QED BY <1>1, <1>2, OldIsNotNew

-------------------------------------------------------------------------------
(* The order of jobs. *)

(* Jobs of requests in X come before whatever is asked for in Y, and once  *)
(* one of Y is being handled there are none of X.                          *)
Precedes(X, Y) ==
  \A j \in Unfinished, i \in DOMAIN queue : queue[j].req \in X /\ queue[i].req \in Y => j < i
OrderFits(X, Y) ==
  /\ Precedes(X, Y)
  /\ pc # "idle" /\ held \in Y => Accepted \cap X = {}

LEMMA OrderInit == ASSUME NEW X, NEW Y, WorkerInit PROVE OrderFits(X, Y)
  BY DEF WorkerInit, OrderFits, Precedes

LEMMA SameOrder ==
  ASSUME NEW R, NEW C, WorkerInv(R, C), NEW X, NEW Y, OrderFits(X, Y),
         queue' = queue, (pc # "idle" /\ held' = held) \/ pc' = "idle" \/ pc' = pc
  PROVE  OrderFits(X, Y)'
  BY DEF OrderFits, Precedes, Unfinished, Accepted, held, current

LEMMA AskOrder ==
  ASSUME NEW R, NEW C, WorkerInv(R, C), NEW r \in R, Ask(r), NEW X, NEW Y, OrderFits(X, Y)
  PROVE  OrderFits(X, Y)'
<1> DEFINE n == Len(queue)
<1>1. /\ n \in Nat /\ DOMAIN queue = 1 .. n /\ DOMAIN queue' = 1 .. n + 1
      /\ \A k \in 1 .. n : queue'[k] = queue[k]
      /\ queue'[n + 1].state = "asked"
  <2>1. queue' = Append(queue, [req |-> r, state |-> "asked", tries |-> 0])
    BY DEF Ask
  <2> QED BY <2>1, QueueIsJobs, AppendProperties, LenProperties DEF WorkerInv
<1> HIDE DEF n
<1>2. Unfinished' \subseteq Unfinished
  BY <1>1 DEF Unfinished
<1>3. Precedes(X, Y)'
  BY <1>1, <1>2 DEF OrderFits, Precedes, Unfinished
<1>4. Accepted' \subseteq Accepted /\ pc' = pc /\ (pc # "idle" => held' = held)
  BY AskAwaits, AskStep, HeldIsKept DEF Requested
<1> QED BY <1>3, <1>4 DEF OrderFits

(* A job leaves the queue. *)
LEMMA RemoveOrder ==
  ASSUME NEW R, NEW C, WorkerInv(R, C), NEW i \in DOMAIN queue, queue' = RemoveAt(queue, i),
         NEW X, NEW Y, Precedes(X, Y)
  PROVE  Precedes(X, Y)'
<1> DEFINE n == Len(queue)
           from(k) == IF k < i THEN k ELSE k + 1
<1>1. /\ n \in Nat /\ DOMAIN queue = 1 .. n /\ DOMAIN queue' = 1 .. n - 1 /\ i \in 1 .. n
      /\ \A k \in 1 .. n - 1 : queue'[k] = queue[from(k)]
  BY QueueIsJobs, RemovedJob DEF WorkerInv
<1> HIDE DEF n
<1>2. \A k \in 1 .. n - 1 : from(k) \in 1 .. n
  BY <1>1
<1>3. \A j, k \in 1 .. n - 1 : from(j) < from(k) => j < k
  BY <1>1
<1> HIDE DEF from
<1> QED BY <1>1, <1>2, <1>3 DEF Precedes, Unfinished

(* A request that is accepted keeps the order unless it is one of X, and   *)
(* then nothing of Y may have been asked for.                              *)
LEMMA AcceptOrder ==
  ASSUME NEW R, NEW C, WorkerInv(R, C), NEW i \in DOMAIN queue, Accept(i),
         NEW X, NEW Y, OrderFits(X, Y),
         queue[i].req \in X => Known \cap Y = {}
  PROVE  OrderFits(X, Y)'
<1>1. /\ WorkerInv(R, C)' /\ Requested
      /\ Accepted' \subseteq Accepted \cup {queue[i].req} /\ Known' \subseteq Known
  BY AcceptStep, AcceptAwaits
<1>2. pc' = pc /\ (pc # "idle" => held' = held /\ held \in Known)
  BY <1>1, HeldIsKept, AwaitedIsKnown DEF Requested
<1>3. pc' # "idle" /\ held' \in Y => Accepted' \cap X = {}
  BY <1>1, <1>2 DEF OrderFits
<1>4. CASE queue[i].req \in X
  <2>1. \A k \in DOMAIN queue' : queue'[k].req \notin Y
    BY <1>1, <1>4 DEF Known
  <2> QED BY <1>3, <2>1 DEF OrderFits, Precedes
<1>5. CASE queue[i].req \notin X
  <2> DEFINE n == Len(queue)
             job == [queue[i] EXCEPT !.state = "queued"]
             from(k) == IF k < i THEN k ELSE k + 1
  <2>4. queue \in Seq(Job(R)) /\ queue[i] \in Job(R)
    BY QueueIsJobs DEF WorkerInv
  <2>5. job \in Job(R) /\ job.req = queue[i].req
    BY <2>4 DEF Job
  <2>1. /\ n \in Nat /\ DOMAIN queue = 1 .. n /\ i \in 1 .. n /\ queue \in Seq(Job(R))
        /\ queue[i] \in Job(R) /\ job \in Job(R) /\ job.req = queue[i].req
    BY <2>4, <2>5, LenProperties
  <2> HIDE DEF n, job
  <2>2. CASE queue' = [queue EXCEPT ![i] = job]
    <3>1. /\ DOMAIN queue' = 1 .. n /\ queue'[i] = job
          /\ \A k \in 1 .. n : k # i => queue'[k] = queue[k]
      BY <2>1, <2>2
    <3>2. Precedes(X, Y)'
      BY <1>5, <2>1, <3>1 DEF OrderFits, Precedes, Unfinished
    <3> QED BY <1>3, <3>2 DEF OrderFits
  <2>3. CASE queue' = Append(RemoveAt(queue, i), job)
    <3>1. /\ RemoveAt(queue, i) \in Seq(Job(R)) /\ Len(RemoveAt(queue, i)) = n - 1
          /\ \A k \in 1 .. n - 1 : RemoveAt(queue, i)[k] = queue[from(k)]
      BY RemovedJob DEF n
    <3>2. /\ DOMAIN queue' = 1 .. n /\ queue'[n] = job
          /\ \A k \in 1 .. n - 1 : queue'[k] = queue[from(k)]
      BY <2>1, <2>3, <3>1, AppendProperties, LenProperties
    <3>3. \A k \in 1 .. n - 1 : from(k) \in 1 .. n
      BY <2>1
    <3>4. \A j, k \in 1 .. n - 1 : from(j) < from(k) => j < k
      BY <2>1
    <3>5. \A k \in 1 .. n : k = n \/ k \in 1 .. n - 1
      BY <2>1
    <3>6. \A k \in 1 .. n - 1 : k < n
      BY <2>1
    <3> HIDE DEF from
    <3>7. \A j \in Unfinished' : queue'[j].req \in X => j \in 1 .. n - 1 /\ from(j) \in Unfinished
      BY <1>5, <2>1, <3>2, <3>3, <3>5 DEF Unfinished
    <3>8. Precedes(X, Y)'
      BY <2>1, <3>2, <3>3, <3>4, <3>5, <3>6, <3>7 DEF OrderFits, Precedes
    <3> QED BY <1>3, <3>8 DEF OrderFits
  <2> QED BY <2>2, <2>3 DEF Accept, job
<1> QED BY <1>4, <1>5

LEMMA ClaimOrder ==
  ASSUME NEW R, NEW C, WorkerInv(R, C), Claim, NEW X, NEW Y, X \cap Y = {}, OrderFits(X, Y)
  PROVE  OrderFits(X, Y)'
<1> DEFINE i == Min(Waiting)
           n == Len(queue)
<1>1. /\ n \in Nat /\ DOMAIN queue = 1 .. n /\ queue \in Seq(Job(R))
      /\ \A k \in 1 .. n : queue[k] \in Job(R)
  BY QueueIsJobs DEF WorkerInv
<1>2. i \in Waiting /\ \A k \in Waiting : i <= k
  <2>1. Waiting \in SUBSET Nat /\ Waiting # {}
    BY <1>1 DEF Waiting, Claim
  <2> QED BY <2>1, MinIsLeast
<1>3. /\ DOMAIN queue' = 1 .. n /\ queue'[i].req = queue[i].req /\ queue'[i].state = "running"
      /\ \A k \in 1 .. n : k # i => queue'[k] = queue[k]
  <2> DEFINE tries == queue[i].tries + 1
             job == [queue[i] EXCEPT !.state = "running", !.tries = tries]
  <2>1. queue' = [queue EXCEPT ![i] = job]
    BY DEF Claim
  <2> HIDE DEF i, tries
  <2>2. i \in 1 .. n /\ queue[i] \in Job(R)
    BY <1>1, <1>2 DEF Waiting
  <2>3. job.req = queue[i].req /\ job.state = "running"
    BY <2>2 DEF Job
  <2> QED BY <1>1, <2>1, <2>2, <2>3
<1> HIDE DEF i, n
<1>4. i \in 1 .. n /\ queue[i].state = "queued"
  BY <1>1, <1>2 DEF Waiting
<1>5. Unfinished' = Unfinished /\ Unfinished = Waiting /\ Unfinished \subseteq 1 .. n
  <2>1. \A k \in 1 .. n : queue[k].state # "running"
    BY <1>1 DEF WorkerInv, OneIsHeld, Claim
  <2> QED BY <1>1, <1>3, <1>4, <2>1 DEF Unfinished, Waiting
<1>6. \A k \in 1 .. n : queue'[k].req = queue[k].req
  BY <1>3
<1>7. Precedes(X, Y)'
  BY <1>1, <1>3, <1>5, <1>6 DEF OrderFits, Precedes
<1>8. held' = queue[i].req
  <2>1. current' = i
    <3>1. \A k \in DOMAIN queue' : queue'[k].state = "running" => k = i
      BY <1>1, <1>3 DEF WorkerInv, OneIsHeld, Claim
    <3> QED BY <1>3, <1>4, <3>1 DEF current
  <2> QED BY <1>3, <2>1 DEF held
<1>9. ASSUME queue[i].req \in Y PROVE Accepted' \cap X = {}
  <2>1. \A j \in Unfinished : queue[j].req \in X => j < i /\ i <= j
    BY <1>1, <1>2, <1>4, <1>5, <1>9 DEF OrderFits, Precedes
  <2>2. \A j \in Unfinished : j \in Nat
    BY <1>1 DEF Unfinished
  <2>3. i \in Nat
    BY <1>4
  <2>4. \A j \in Unfinished : queue[j].req \notin X
    BY <2>1, <2>2, <2>3
  <2>5. Unfinished \subseteq 1 .. n
    BY <1>1 DEF Unfinished
  <2> QED BY <1>5, <1>6, <2>4, <2>5 DEF Accepted
<1> QED BY <1>7, <1>8, <1>9 DEF OrderFits

LEMMA SettleOrder ==
  ASSUME NEW R, NEW C, WorkerInv(R, C), Settle, NEW X, NEW Y, OrderFits(X, Y)
  PROVE  OrderFits(X, Y)'
<1>1. pc' = "idle" /\ current \in DOMAIN queue /\ queue[current].state = "running"
  BY HeldIsJob DEF Settle
<1>2. CASE ~Again
  BY <1>1, <1>2, RemoveOrder DEF OrderFits, Settle
<1>3. CASE Again
  <2> DEFINE job == [queue[current] EXCEPT !.state = "queued"]
  <2>1. queue[current] \in Job(R) /\ DOMAIN queue = 1 .. Len(queue) /\ Len(queue) \in Nat
    BY <1>1, QueueIsJobs DEF WorkerInv
  <2>2. job.req = queue[current].req
    BY <2>1 DEF Job
  <2>3. queue' = [queue EXCEPT ![current] = job]
    BY <1>3 DEF Settle
  <2> HIDE DEF job
  <2>4. /\ DOMAIN queue' = DOMAIN queue /\ queue'[current] = job
        /\ \A k \in DOMAIN queue : k # current => queue'[k] = queue[k]
    BY <1>1, <2>3
  <2>5. Precedes(X, Y)'
    BY <1>1, <2>2, <2>4 DEF OrderFits, Precedes, Unfinished
  <2> QED BY <1>1, <2>5 DEF OrderFits
<1> QED BY <1>2, <1>3

LEMMA DieOrder ==
  ASSUME NEW R, NEW C, WorkerInv(R, C), Die, NEW X, NEW Y, OrderFits(X, Y)
  PROVE  OrderFits(X, Y)'
<1>1. pc' = "idle" /\ queue' = RecoverJobs(queue)
  BY DEF Die
<1>2. DOMAIN queue' = DOMAIN queue /\ \A k \in DOMAIN queue : queue'[k].req = queue[k].req
  <2>1. \A k \in DOMAIN queue : queue[k] \in Job(R)
    BY QueueIsJobs DEF WorkerInv
  <2>2. DOMAIN queue' = DOMAIN queue
    BY <1>1 DEF RecoverJobs
  <2>3. ASSUME NEW k \in DOMAIN queue PROVE queue'[k].req = queue[k].req
    <3> DEFINE tries == queue[k].tries - 1
    <3>1. queue'[k] = IF queue[k].state = "running"
                      THEN [queue[k] EXCEPT !.state = "queued", !.tries = tries] ELSE queue[k]
      BY <1>1 DEF RecoverJobs
    <3> HIDE DEF tries
    <3> QED BY <2>1, <3>1 DEF Job
  <2> QED BY <2>2, <2>3
<1>3. Unfinished' \subseteq Unfinished
  <2>1. \A k \in DOMAIN queue : k \in Unfinished
    BY QueueIsJobs DEF WorkerInv, Job, Die, Unfinished
  <2> QED BY <1>2, <2>1 DEF Unfinished
<1>4. Precedes(X, Y)'
  BY <1>2, <1>3 DEF OrderFits, Precedes, Unfinished
<1> QED BY <1>1, <1>4 DEF OrderFits

-------------------------------------------------------------------------------
(* Databases, users and grants. *)

Deleting(d)    == \E q \in Awaited : q.kind = "db.delete" /\ q.db = d
Dropping(u)    == \E q \in Awaited : q.kind = "user.delete" /\ q.user = u
Revoking(d, u) == \E q \in Awaited : q.kind = "grant.delete" /\ q.db = d /\ q.user = u

UserCreations(u) == {q \in DbAsked : q.kind = "user.create" /\ q.user = u}
UserDeletions(u) == {q \in DbAsked : q.kind = "user.delete" /\ q.user = u}

(* A grant is between two rows, and no two rows have one name. *)
GrantsFit == \A d \in Db, u \in DbUser :
               grant[<<d, u>>] # "none" => d \in DbRows /\ u \in UserRows
NamesDiffer ==
  /\ \A d, e \in DbRows : db[d].name = db[e].name => d = e
  /\ \A u, v \in UserRows : user[u].name = user[v].name => u = v

(* The creation of a user comes before the deletions of it. *)
UsersInOrder ==
  \A u \in DbUser : /\ OrderFits(UserCreations(u), UserDeletions(u))
                    /\ user[u].status = "none" => Known \cap UserDeletions(u) = {}

(* What is active is there, or a job that takes it away is still to be     *)
(* handled; a privilege may also have gone with its user, who is not       *)
(* active and will not be again.                                           *)
DbsShown   == \A d \in DbRows : db[d].status = "active" =>
                db[d].name \in mysql.dbs \/ Deleting(d)
UsersShown == \A u \in UserRows : user[u].status = "active" =>
                user[u].name \in mysql.users \/ Dropping(u)
GrantsShown ==
  \A d \in Db, u \in DbUser : grant[<<d, u>>] = "active" =>
    \/ <<db[d].name, user[u].name>> \in mysql.rights
    \/ Revoking(d, u) \/ Dropping(u)
    \/ user[u].status # "active" /\ Accepted \cap UserCreations(u) = {}

DbShownInv ==
  /\ GrantsFit /\ NamesDiffer /\ UsersInOrder
  /\ ~unsaved => DbsShown /\ UsersShown /\ GrantsShown

LEMMA DbShownInit == WorkerInit /\ DbInit => DbShownInv
<1> SUFFICES ASSUME WorkerInit, DbInit PROVE DbShownInv
  OBVIOUS
<1>1. Known = {}
  BY DEF WorkerInit, Known
<1>2. UsersInOrder
  BY <1>1, OrderInit DEF UsersInOrder
<1>3. \A d \in Db, u \in DbUser : grant[<<d, u>>] = "none"
  BY DEF DbInit, DbNone
<1>4. GrantsFit /\ GrantsShown
  BY <1>3 DEF GrantsFit, GrantsShown
<1>5. NamesDiffer /\ DbsShown /\ UsersShown
  <2>1. CASE DbNone
    <3>1. DbRows = {} /\ UserRows = {}
      BY <2>1 DEF DbNone, NoDb, DbRows, UserRows
    <3> QED BY <3>1 DEF NamesDiffer, DbsShown, UsersShown
  <2>2. ASSUME NEW d \in Db, NEW u \in DbUser, NEW n \in DbName, NEW m \in UserName,
               db = [e \in Db |-> IF e = d THEN [status |-> "active", name |-> n] ELSE NoDb],
               user = [v \in DbUser |-> IF v = u THEN [status |-> "active", name |-> m]
                                                 ELSE NoDb],
               mysql = [dbs |-> {n}, users |-> {m}, rights |-> {}]
        PROVE  NamesDiffer /\ DbsShown /\ UsersShown
    <3>1. DbRows = {d} /\ db[d].name = n /\ UserRows = {u} /\ user[u].name = m
      BY <2>2 DEF NoDb, DbRows, UserRows
    <3>2. mysql.dbs = {n} /\ mysql.users = {m}
      BY <2>2
    <3> QED BY <3>1, <3>2 DEF NamesDiffer, DbsShown, UsersShown
  <2> QED BY <2>1, <2>2 DEF DbInit
<1> QED BY <1>2, <1>4, <1>5 DEF DbShownInv

LEMMA UserJobsDiffer == \A u \in DbUser : UserCreations(u) \cap UserDeletions(u) = {}
  BY DEF UserCreations, UserDeletions

(* A step that leaves the rows as they are, and nothing of what is awaited *)
(* but what is about rows that are gone.                                   *)
LEMMA DbShownSame ==
  ASSUME DbInv, DbShownInv, UNCHANGED dbVars, unsaved' = unsaved \/ unsaved',
         Accepted' \subseteq Accepted,
         \A q \in Awaited : \/ q \in Awaited'
                            \/ q.db # None /\ q.db \notin DbRows
                            \/ q.user # None /\ q.user \notin UserRows,
         UsersInOrder'
  PROVE  DbShownInv'
<1>1. /\ UNCHANGED <<db, user, grant, mysql>> /\ DbRows' = DbRows /\ UserRows' = UserRows
  BY DbSame DEF dbVars
<1>2. GrantsFit' /\ NamesDiffer'
  BY <1>1 DEF DbShownInv, GrantsFit, NamesDiffer
<1>3. /\ \A q \in Awaited : q \in DbAsked
      /\ \A q \in DbAsked : /\ q.kind \in DbKinds => q.user = None
                            /\ q.kind \in UserKinds => q.db = None
  BY AwaitedIsKnown DEF DbInv, DbAsked
<1>4. ASSUME ~unsaved' PROVE DbsShown' /\ UsersShown' /\ GrantsShown'
  <2>1. DbsShown /\ UsersShown /\ GrantsShown
    BY <1>4 DEF DbShownInv
  <2>2. \A d \in DbRows : Deleting(d) => Deleting(d)'
    BY <1>3 DEF Deleting, DbKinds
  <2>3. \A u \in UserRows : Dropping(u) => Dropping(u)'
    BY <1>3 DEF Dropping, UserKinds
  <2>4. \A d \in DbRows, u \in UserRows : Revoking(d, u) => Revoking(d, u)'
    BY DEF Revoking
  <2>5. DbsShown' /\ UsersShown'
    BY <1>1, <2>1, <2>2, <2>3 DEF DbsShown, UsersShown
  <2>6. GrantsShown'
    <3> SUFFICES ASSUME NEW d \in Db, NEW u \in DbUser, grant[<<d, u>>] = "active"
                 PROVE  \/ <<db[d].name, user[u].name>> \in mysql.rights
                        \/ Revoking(d, u)' \/ Dropping(u)'
                        \/ user[u].status # "active" /\ Accepted' \cap UserCreations(u) = {}
      BY <1>1 DEF GrantsShown, UserCreations
    <3>1. d \in DbRows /\ u \in UserRows
      BY DEF DbShownInv, GrantsFit
    <3> QED BY <2>1, <2>3, <2>4, <3>1 DEF GrantsShown
  <2> QED BY <2>5, <2>6
<1> QED BY <1>2, <1>4 DEF DbShownInv

(* The order of users' jobs in each kind of step. *)
LEMMA UsersOrderKept ==
  ASSUME DbInv, UsersInOrder,
         \A u \in DbUser : user'[u].status = "none" => user[u].status = "none",
         Known' \subseteq Known,
         \A u \in DbUser : OrderFits(UserCreations(u), UserDeletions(u))'
  PROVE  UsersInOrder'
  BY DEF UsersInOrder, UserCreations, UserDeletions

LEMMA DbPassiveShown ==
  ASSUME DbInv, DbShownInv,
         \/ (Claim \/ Settle) /\ UNCHANGED dbVars
         \/ DbNothing \/ DbReadFails \/ CallDb
  PROVE  DbShownInv'
<1>1. UNCHANGED dbVars /\ user' = user
  BY DEF DbNothing, DbReadFails, CallDb, dbVars
<1>2. WorkerInv(DbAsked, DbCall) /\ WorkerInv(DbAsked, DbCall)'
  BY DbPassiveStep, CallDbStep DEF DbInv
<1>3. /\ NothingNew
      /\ \A q \in Awaited : \/ q \in Awaited'
                            \/ DbNothing /\ q = held
                            \/ DbReadFails
  <2>1. CASE Claim
    BY <1>2, <2>1, ClaimAwaits
  <2>2. CASE Settle
    BY <1>2, <2>2, SettleAwaits
  <2>3. CASE DbNothing \/ DbReadFails
    <3>1. pc = "claimed" /\ Returns(FALSE) /\ (NoFault \/ Unsaved)
      BY <2>3 DEF DbNothing, DbReadFails
    <3> QED BY <1>2, <2>3, <3>1, ReturnsAwaits
  <2>4. CASE CallDb
    <3>1. Goes("claimed", "calling") /\ call' \in DbCall
      BY <1>2, <2>4 DEF CallDb, Goes, WorkerInv
    <3> QED BY <1>2, <3>1, GoesAwaits
  <2> QED BY <2>1, <2>2, <2>3, <2>4
<1>4. ASSUME NEW u \in DbUser PROVE OrderFits(UserCreations(u), UserDeletions(u))'
  <2>1. OrderFits(UserCreations(u), UserDeletions(u))
    BY DEF DbShownInv, UsersInOrder
  <2>2. CASE Claim
    BY <1>2, <2>1, <2>2, ClaimOrder, UserJobsDiffer
  <2>3. CASE Settle
    BY <1>2, <2>1, <2>3, SettleOrder
  <2>4. CASE DbNothing \/ DbReadFails
    <3>1. pc = "claimed" /\ queue' = queue /\ held' = held
      BY <1>2, <2>4, ReturnsStep DEF DbNothing, DbReadFails, Returns, held, current
    <3> QED BY <1>2, <2>1, <3>1, SameOrder
  <2>5. CASE CallDb
    <3>1. pc = "claimed" /\ queue' = queue /\ held' = held
      BY <2>5 DEF CallDb, Goes, held, current
    <3> QED BY <1>2, <2>1, <3>1, SameOrder
  <2> QED BY <2>2, <2>3, <2>4, <2>5
<1>5. UsersInOrder'
  BY <1>1, <1>3, <1>4, UsersOrderKept DEF NothingNew, DbShownInv
<1>6. DbNothing => \/ held.db # None /\ held.db \notin DbRows
                   \/ held.user # None /\ held.user \notin UserRows
  BY DEF DbNothing, DbRowGone
<1>7. CASE DbReadFails
  <2>1. unsaved' /\ DbRows' = DbRows /\ UserRows' = UserRows
    BY <1>1, <1>7, DbSame DEF DbReadFails, Unsaved
  <2> QED BY <1>1, <1>5, <2>1 DEF DbShownInv, GrantsFit, NamesDiffer, dbVars
<1>8. CASE ~DbReadFails
  <2>1. unsaved' = unsaved
    BY <1>8 DEF Claim, Settle, DbNothing, CallDb, NoFault, Goes, events
  <2> QED BY <1>1, <1>3, <1>5, <1>6, <1>8, <2>1, DbShownSame DEF NothingNew
<1> QED BY <1>7, <1>8

(* A request's first half. *)
LEMMA DbAsksShown ==
  ASSUME DbInv, DbShownInv, UNCHANGED dbVars,
         \/ \E d \in Db, name \in DbName : AskCreateDatabase(d, name)
         \/ \E u \in DbUser, name \in UserName : AskCreateUser(u, name)
         \/ \E d \in Db : AskDeleteDatabase(d)
         \/ \E u \in DbUser : AskDeleteUser(u)
         \/ \E d \in Db, u \in DbUser, kind \in {"grant.create", "grant.delete"} :
              AskGrant(d, u, kind)
         \/ \E i \in DOMAIN queue : Withdraw(i)
         \/ Suspend \/ Resume
  PROVE  DbShownInv'
<1> USE DEF DbKinds, UserKinds, GrantKinds
<1>1. WorkerInv(DbAsked, DbCall) /\ user' = user
  BY DEF DbInv, dbVars
<1>2. ASSUME NEW q \in DbAsked, Ask(q),
             \A u \in DbUser : q \in UserDeletions(u) => user[u].status # "none"
      PROVE  DbShownInv'
  <2>1. /\ Awaited \subseteq Awaited' /\ Accepted' \subseteq Accepted
        /\ Known' \subseteq Known \cup {q}
    BY <1>1, <1>2, AskAwaits
  <2>2. UsersInOrder'
    <3> SUFFICES ASSUME NEW u \in DbUser
                 PROVE  /\ OrderFits(UserCreations(u), UserDeletions(u))'
                        /\ user'[u].status = "none" => Known' \cap UserDeletions(u) = {}
      BY DEF UsersInOrder, UserDeletions
    <3>1. OrderFits(UserCreations(u), UserDeletions(u))
      BY DEF DbShownInv, UsersInOrder
    <3>2. OrderFits(UserCreations(u), UserDeletions(u))'
      BY <1>1, <1>2, <3>1, AskOrder
    <3> QED BY <1>1, <1>2, <2>1, <3>2 DEF DbShownInv, UsersInOrder, UserDeletions, UserCreations
  <2>3. unsaved' = unsaved
    BY <1>2 DEF Ask
  <2> QED BY <2>1, <2>2, <2>3, DbShownSame
<1>3. ASSUME NEW d \in Db, NEW name \in DbName, AskCreateDatabase(d, name) PROVE DbShownInv'
  <2> DEFINE q == [kind |-> "db.create", db |-> d, user |-> None, name |-> name]
  <2>1. q \in DbAsked /\ Ask(q)
    BY <1>3 DEF AskCreateDatabase, AskDb, DbRequest, DbAsked
  <2> QED BY <1>2, <2>1 DEF UserDeletions
<1>4. ASSUME NEW u \in DbUser, NEW name \in UserName, AskCreateUser(u, name) PROVE DbShownInv'
  <2> DEFINE q == [kind |-> "user.create", db |-> None, user |-> u, name |-> name]
  <2>1. q \in DbAsked /\ Ask(q)
    BY <1>4 DEF AskCreateUser, AskDb, DbRequest, DbAsked
  <2> QED BY <1>2, <2>1 DEF UserDeletions
<1>5. ASSUME NEW d \in Db, AskDeleteDatabase(d) PROVE DbShownInv'
  <2> DEFINE q == [kind |-> "db.delete", db |-> d, user |-> None, name |-> None]
  <2>1. q \in DbAsked /\ Ask(q)
    BY <1>5 DEF AskDeleteDatabase, AskDb, DbRequest, DbAsked
  <2> QED BY <1>2, <2>1 DEF UserDeletions
<1>6. ASSUME NEW u \in DbUser, AskDeleteUser(u) PROVE DbShownInv'
  <2> DEFINE q == [kind |-> "user.delete", db |-> None, user |-> u, name |-> None]
  <2>1. q \in DbAsked /\ Ask(q) /\ user[u].status # "none"
    BY <1>6 DEF AskDeleteUser, AskDb, DbRequest, DbAsked, UserRows
  <2> QED BY <1>2, <2>1 DEF UserDeletions
<1>7. ASSUME NEW d \in Db, NEW u \in DbUser, NEW kind \in {"grant.create", "grant.delete"},
             AskGrant(d, u, kind)
      PROVE  DbShownInv'
  <2> DEFINE q == [kind |-> kind, db |-> d, user |-> u, name |-> None]
  <2>1. q \in DbAsked /\ Ask(q)
    BY <1>7 DEF AskGrant, AskDb, DbRequest, DbAsked
  <2> QED BY <1>2, <2>1 DEF UserDeletions
<1>8. ASSUME NEW i \in DOMAIN queue, Withdraw(i) PROVE DbShownInv'
  <2>1. WorkerInv(DbAsked, DbCall)' /\ Requested /\ OldRequests
    BY <1>1, <1>8, WithdrawStep
  <2>2. Awaited \subseteq Awaited' /\ NothingNew
    BY <1>1, <2>1, RequestsAwait, OldIsNotNew
  <2>3. unsaved' = unsaved /\ pc' = pc /\ queue' = RemoveAt(queue, i)
    BY <1>8 DEF Withdraw, events
  <2>4. ASSUME NEW u \in DbUser PROVE OrderFits(UserCreations(u), UserDeletions(u))'
    <3>1. OrderFits(UserCreations(u), UserDeletions(u))
      BY DEF DbShownInv, UsersInOrder
    <3>2. Precedes(UserCreations(u), UserDeletions(u))'
      BY <1>1, <2>3, <3>1, RemoveOrder DEF OrderFits
    <3>3. pc # "idle" => held' = held
      BY <1>1, <2>1, HeldIsKept
    <3> QED BY <2>2, <2>3, <3>1, <3>2, <3>3 DEF OrderFits, NothingNew
  <2>5. UsersInOrder'
    BY <1>1, <2>2, <2>4, UsersOrderKept DEF NothingNew, DbShownInv
  <2> QED BY <2>2, <2>3, <2>5, DbShownSame DEF NothingNew
<1>9. ASSUME Suspend \/ Resume PROVE DbShownInv'
  <2>1. UNCHANGED <<queue, pc, unsaved>>
    BY <1>9 DEF Suspend, Resume, events
  <2>2. Awaited' = Awaited /\ Accepted' = Accepted /\ Known' = Known
    BY <2>1 DEF Awaited, Accepted, Known, Waiting, Unfinished, held, current, Handling
  <2>3. UsersInOrder'
    BY <1>1, <2>1, <2>2, SameOrder, UsersOrderKept DEF UsersInOrder, DbShownInv
  <2> QED BY <2>1, <2>2, <2>3, DbShownSame
<1> QED BY <1>3, <1>4, <1>5, <1>6, <1>7, <1>8, <1>9

(* What a transaction adds to RowsStay: nothing becomes active, a new row  *)
(* has a name of its own, and a row whose creation is accepted had none.   *)
LEMMA CommitDbShown ==
  ASSUME DbInv, GrantsFit, NEW q \in DbAsked, CommitDb(q)
  PROVE  /\ \A d \in DbRows' : \/ d \in DbRows
                               \/ \A e \in DbRows : db[e].name # db'[d].name
         /\ \A d, e \in DbRows' : d \in DbRows \/ e \in DbRows \/ d = e
         /\ \A u \in UserRows' : \/ u \in UserRows
                                 \/ \A v \in UserRows : user[v].name # user'[u].name
         /\ \A u, v \in UserRows' : u \in UserRows \/ v \in UserRows \/ u = v
         /\ \A d \in Db : db'[d].status = "active" => db[d].status = "active"
         /\ \A u \in DbUser : user'[u].status = "active" => user[u].status = "active"
         /\ \A u \in DbUser : user'[u].status = "none" => user[u].status = "none"
         /\ \A d \in Db, u \in DbUser :
              /\ grant'[<<d, u>>] = "active" => grant[<<d, u>>] = "active"
              /\ grant'[<<d, u>>] # "none" => d \in DbRows /\ u \in UserRows
         /\ q.kind = "user.create" => user[q.user].status = "none"
<1> USE DEF DbKinds, UserKinds, GrantKinds
<1>1. /\ db \in [Db -> DbRow] /\ user \in [DbUser -> UserRow]
      /\ grant \in [Db \X DbUser -> GrantRow]
      /\ \A d \in Db, u \in DbUser : grant[<<d, u>>] # "none" => d \in DbRows /\ u \in UserRows
  BY DEF DbInv, DbRowsFine, GrantsFit
<1>2. CASE CommitCreateDatabase(q)
  <2>1. /\ q.kind = "db.create" /\ q.db \in Db /\ ~DatabaseNameExists(q.name)
        /\ db' = [db EXCEPT ![q.db] = [status |-> "pending", name |-> q.name]]
        /\ UNCHANGED <<user, grant>>
    BY <1>2 DEF CommitCreateDatabase, CreateDatabase, DbAsked
  <2>2. /\ db'[q.db].status = "pending" /\ db'[q.db].name = q.name
        /\ \A d \in Db : d # q.db => db'[d] = db[d]
    BY <1>1, <2>1
  <2> QED BY <1>1, <2>1, <2>2 DEF DbRows, UserRows, DatabaseNameExists
<1>3. CASE CommitCreateUser(q)
  <2>1. /\ q.kind = "user.create" /\ q.user \in DbUser /\ ~DatabaseUserNameExists(q.name)
        /\ user[q.user].status = "none"
        /\ user' = [user EXCEPT ![q.user] = [status |-> "pending", name |-> q.name]]
        /\ UNCHANGED <<db, grant>>
    BY <1>3 DEF CommitCreateUser, CreateDatabaseUser, DbAsked
  <2>2. /\ user'[q.user].status = "pending" /\ user'[q.user].name = q.name
        /\ \A u \in DbUser : u # q.user => user'[u] = user[u]
    BY <1>1, <2>1
  <2> QED BY <1>1, <2>1, <2>2 DEF DbRows, UserRows, DatabaseUserNameExists
<1>4. CASE CommitDeleteDatabase(q)
  <2>1. /\ q.kind = "db.delete" /\ q.db \in DbRows
        /\ db' = [db EXCEPT ![q.db].status = "pending"]
        /\ UNCHANGED <<user, grant>>
    BY <1>4 DEF CommitDeleteDatabase, QueueDatabaseDelete
  <2>2. /\ q.db \in Db /\ db[q.db] \in DbRow
    BY <1>1, <2>1 DEF DbRows
  <2>3. /\ db'[q.db].status = "pending"
        /\ \A d \in Db : d # q.db => db'[d] = db[d]
    BY <1>1, <2>1, <2>2 DEF DbRow
  <2> QED BY <1>1, <2>1, <2>2, <2>3 DEF DbRows, UserRows
<1>5. CASE CommitDeleteUser(q)
  <2>1. /\ q.kind = "user.delete" /\ q.user \in UserRows
        /\ user' = [user EXCEPT ![q.user].status = "pending"]
        /\ UNCHANGED <<db, grant>>
    BY <1>5 DEF CommitDeleteUser, QueueDatabaseUserDelete
  <2>2. /\ q.user \in DbUser /\ user[q.user] \in UserRow
    BY <1>1, <2>1 DEF UserRows
  <2>3. /\ user'[q.user].status = "pending"
        /\ \A u \in DbUser : u # q.user => user'[u] = user[u]
    BY <1>1, <2>1, <2>2 DEF UserRow
  <2> QED BY <1>1, <2>1, <2>2, <2>3 DEF DbRows, UserRows
<1>6. CASE CommitGrant(q)
  <2>1. /\ q.kind \in GrantKinds /\ q.db \in Db /\ q.user \in DbUser
        /\ grant' = [grant EXCEPT ![<<q.db, q.user>>] = "pending"]
        /\ \/ q.db \in DbRows /\ q.user \in UserRows
           \/ grant[<<q.db, q.user>>] # "none"
        /\ UNCHANGED <<db, user>>
    BY <1>6 DEF CommitGrant, UpsertDatabaseGrant, QueueDatabaseGrantDelete, GrantRows, DbAsked
  <2>2. \A d \in Db, u \in DbUser :
          grant'[<<d, u>>] = IF d = q.db /\ u = q.user THEN "pending" ELSE grant[<<d, u>>]
    BY <1>1, <2>1
  <2> QED BY <1>1, <2>1, <2>2 DEF DbRows, UserRows
<1> QED BY <1>2, <1>3, <1>4, <1>5, <1>6 DEF CommitDb

LEMMA DbAcceptShown ==
  ASSUME DbInv, DbShownInv, NEW i \in DOMAIN queue, Accept(i), CommitDb(queue[i].req),
         UNCHANGED mysql
  PROVE  DbShownInv'
<1> DEFINE q == queue[i].req
<1>1. /\ WorkerInv(DbAsked, DbCall) /\ q \in DbAsked /\ unsaved' = unsaved
  BY RequestsAreKnown DEF DbInv, Accept, events
<1>2. /\ Awaited \cup {q} \subseteq Awaited' /\ Accepted' \subseteq Accepted \cup {q}
      /\ Known' \subseteq Known
  BY <1>1, AcceptAwaits
<1> HIDE DEF q
<1>3. RowsStay
  BY <1>1, CommitDbRows DEF q
<1>4. /\ \A d \in DbRows' : \/ d \in DbRows
                            \/ \A e \in DbRows : db[e].name # db'[d].name
      /\ \A d, e \in DbRows' : d \in DbRows \/ e \in DbRows \/ d = e
      /\ \A u \in UserRows' : \/ u \in UserRows
                              \/ \A v \in UserRows : user[v].name # user'[u].name
      /\ \A u, v \in UserRows' : u \in UserRows \/ v \in UserRows \/ u = v
      /\ \A d \in Db : db'[d].status = "active" => db[d].status = "active"
      /\ \A u \in DbUser : user'[u].status = "active" => user[u].status = "active"
      /\ \A u \in DbUser : user'[u].status = "none" => user[u].status = "none"
      /\ \A d \in Db, u \in DbUser :
           /\ grant'[<<d, u>>] = "active" => grant[<<d, u>>] = "active"
           /\ grant'[<<d, u>>] # "none" => d \in DbRows /\ u \in UserRows
      /\ q.kind = "user.create" => user[q.user].status = "none"
  BY <1>1, CommitDbShown DEF q, DbShownInv
<1>5. GrantsFit'
  BY <1>3, <1>4 DEF GrantsFit, RowsStay
<1>6. NamesDiffer'
  <2>1. NamesDiffer
    BY DEF DbShownInv
  <2>2. \A d, e \in DbRows' : db'[d].name = db'[e].name => d = e
    BY <1>3, <1>4, <2>1 DEF NamesDiffer, RowsStay
  <2>3. \A u, v \in UserRows' : user'[u].name = user'[v].name => u = v
    BY <1>3, <1>4, <2>1 DEF NamesDiffer, RowsStay
  <2> QED BY <2>2, <2>3 DEF NamesDiffer
<1>7. UsersInOrder'
  <2>1. ASSUME NEW u \in DbUser PROVE OrderFits(UserCreations(u), UserDeletions(u))'
    <3>1. /\ OrderFits(UserCreations(u), UserDeletions(u))
          /\ user[u].status = "none" => Known \cap UserDeletions(u) = {}
      BY DEF DbShownInv, UsersInOrder
    <3>2. q \in UserCreations(u) => Known \cap UserDeletions(u) = {}
      BY <1>4, <3>1 DEF UserCreations
    <3> QED BY <1>1, <3>1, <3>2, AcceptOrder DEF q
  <2> QED BY <1>2, <1>4, <2>1, UsersOrderKept DEF DbShownInv
<1>8. ASSUME ~unsaved' PROVE DbsShown' /\ UsersShown' /\ GrantsShown'
  <2>1. DbsShown /\ UsersShown /\ GrantsShown /\ GrantsFit
    BY <1>1, <1>8 DEF DbShownInv
  <2>2. /\ \A d : Deleting(d) => Deleting(d)'
        /\ \A u : Dropping(u) => Dropping(u)'
        /\ \A d, u : Revoking(d, u) => Revoking(d, u)'
    BY <1>2 DEF Deleting, Dropping, Revoking
  <2>3. DbsShown'
    BY <1>3, <1>4, <2>1, <2>2 DEF DbsShown, DbRows, RowsStay
  <2>4. UsersShown'
    BY <1>3, <1>4, <2>1, <2>2 DEF UsersShown, UserRows, RowsStay
  <2>5. GrantsShown'
    <3> SUFFICES ASSUME NEW d \in Db, NEW u \in DbUser, grant'[<<d, u>>] = "active"
                 PROVE  \/ <<db'[d].name, user'[u].name>> \in mysql'.rights
                        \/ Revoking(d, u)' \/ Dropping(u)'
                        \/ user'[u].status # "active" /\ Accepted' \cap UserCreations(u) = {}
      BY DEF GrantsShown, UserCreations
    <3>1. /\ grant[<<d, u>>] = "active" /\ d \in DbRows /\ u \in UserRows
          /\ db'[d].name = db[d].name /\ user'[u].name = user[u].name
      BY <1>3, <1>4, <2>1 DEF GrantsFit, RowsStay
    <3>2. q \notin UserCreations(u)
      BY <1>4, <3>1 DEF UserCreations, UserRows
    <3> QED BY <1>2, <1>4, <2>1, <2>2, <3>1, <3>2 DEF GrantsShown
  <2> QED BY <2>3, <2>4, <2>5
<1> QED BY <1>5, <1>6, <1>7, <1>8 DEF DbShownInv

(* What the Agent's statements leave of the objects of a row.              *)
LEMMA ExecutedShown ==
  ASSUME DbInv, NamesDiffer, pc = "calling", Executed
  PROVE  /\ \A d \in DbRows :
              IF held.kind \in DbKinds /\ held.db = d
              THEN held.kind = "db.create" => db[d].name \in mysql'.dbs
              ELSE db[d].name \in mysql.dbs => db[d].name \in mysql'.dbs
         /\ \A u \in UserRows :
              IF held.kind \in UserKinds /\ held.user = u
              THEN held.kind = "user.create" => user[u].name \in mysql'.users
              ELSE user[u].name \in mysql.users => user[u].name \in mysql'.users
         /\ \A d \in DbRows, u \in UserRows :
              LET right == <<db[d].name, user[u].name>>
              IN IF held.kind \in GrantKinds /\ held.db = d /\ held.user = u
                 THEN held.kind = "grant.create" => right \in mysql'.rights
                 ELSE \/ right \in mysql.rights => right \in mysql'.rights
                      \/ held.kind = "user.delete" /\ held.user = u
<1> USE DEF DbKinds, UserKinds, GrantKinds
<1>1. /\ held.kind \in DbKinds \cup UserKinds \cup GrantKinds
      /\ held.kind \in DbKinds \cup GrantKinds => held.db \in DbRows /\ call.db = db[held.db].name
      /\ held.kind \in UserKinds \cup GrantKinds =>
           held.user \in UserRows /\ call.user = user[held.user].name
      /\ call.op = held.kind
  BY DbHeld DEF DbCallFits, DbInv
<1>2. /\ mysql \in Server /\ Run(call)
      /\ \A d, e \in DbRows : db[d].name = db[e].name => d = e
      /\ \A u, v \in UserRows : user[u].name = user[v].name => u = v
  BY DEF DbInv, DbRowsFine, Executed, NamesDiffer
<1>3. CASE held.kind = "db.create"
  <2>1. mysql' = [mysql EXCEPT !.dbs = @ \cup {call.db}]
    BY <1>1, <1>2, <1>3 DEF Run
  <2> QED BY <1>1, <1>2, <1>3, <2>1 DEF Server
<1>4. CASE held.kind = "db.delete"
  <2>1. mysql' = [mysql EXCEPT !.dbs = @ \ {call.db}]
    BY <1>1, <1>2, <1>4 DEF Run
  <2> QED BY <1>1, <1>2, <1>4, <2>1 DEF Server
<1>5. CASE held.kind = "user.create"
  <2>1. mysql' = [mysql EXCEPT !.users = @ \cup {call.user}]
    BY <1>1, <1>2, <1>5 DEF Run
  <2> QED BY <1>1, <1>2, <1>5, <2>1 DEF Server
<1>6. CASE held.kind = "user.delete"
  <2>1. /\ mysql'.dbs = mysql.dbs /\ mysql'.users = mysql.users \ {call.user}
        /\ mysql'.rights = {r \in mysql.rights : r[2] # call.user}
    BY <1>1, <1>2, <1>6 DEF Run, Server
  <2> QED BY <1>1, <1>2, <1>6, <2>1
<1>7. CASE held.kind = "grant.create"
  <2>1. mysql' = [mysql EXCEPT !.rights = @ \cup {<<call.db, call.user>>}]
    BY <1>1, <1>2, <1>7 DEF Run
  <2> QED BY <1>1, <1>2, <1>7, <2>1 DEF Server
<1>8. CASE held.kind = "grant.delete"
  <2>1. mysql' = [mysql EXCEPT !.rights = @ \ {<<call.db, call.user>>}]
    BY <1>1, <1>2, <1>8 DEF Run
  <2> QED BY <1>1, <1>2, <1>8, <2>1 DEF Server
<1> QED BY <1>1, <1>3, <1>4, <1>5, <1>6, <1>7, <1>8

(* What a handler that could store its outcome has stored.                 *)
LEMMA HandledShown ==
  ASSUME DbInv, GrantsFit, HandleDb
  PROVE  /\ \A d \in DbRows' :
              /\ d \in DbRows /\ db'[d].name = db[d].name
              /\ db'[d].status = "active" =>
                   IF held.kind \in DbKinds /\ held.db = d
                   THEN held.kind = "db.create" /\ Executed ELSE db[d].status = "active"
         /\ \A u \in UserRows' :
              /\ u \in UserRows /\ user'[u].name = user[u].name
              /\ user'[u].status = "active" =>
                   IF held.kind \in UserKinds /\ held.user = u
                   THEN held.kind = "user.create" /\ Executed ELSE user[u].status = "active"
         /\ \A d \in Db, u \in DbUser :
              /\ grant'[<<d, u>>] # "none" => d \in DbRows' /\ u \in UserRows'
              /\ grant'[<<d, u>>] = "active" =>
                   IF held.kind \in GrantKinds /\ held.db = d /\ held.user = u
                   THEN held.kind = "grant.create" /\ Executed ELSE grant[<<d, u>>] = "active"
         /\ \A u \in DbUser : user'[u].status = "none" => user[u].status = "none"
<1> USE DEF DbKinds, UserKinds, GrantKinds
<1>1. /\ db \in [Db -> DbRow] /\ user \in [DbUser -> UserRow]
      /\ grant \in [Db \X DbUser -> GrantRow]
      /\ \A d \in Db, u \in DbUser : grant[<<d, u>>] # "none" => d \in DbRows /\ u \in UserRows
  BY DEF DbInv, DbRowsFine, GrantsFit
<1>2. /\ held.kind \in DbKinds \cup UserKinds \cup GrantKinds
      /\ held.kind \in DbKinds \cup GrantKinds => held.db \in DbRows
      /\ held.kind \in UserKinds \cup GrantKinds => held.user \in UserRows
      /\ pc = "calling"
  BY DbHeld DEF DbCallFits, DbInv, HandleDb
<1>3. /\ DbRows \subseteq Db /\ \A d \in DbRows : db[d].status \notin {"none", "deleted"}
      /\ UserRows \subseteq DbUser /\ \A u \in UserRows : user[u].status \notin {"none", "deleted"}
  BY DEF DbRows, UserRows
<1>4. (DbSucceed /\ Executed) \/ Stored("error")
  BY DEF HandleDb, DbFail
<1>5. ASSUME NEW st \in {"active", "error"}, Stored(st),
             st = "active" => /\ Executed
                              /\ held.kind \in {"db.create", "user.create", "grant.create"}
      PROVE  /\ \A d \in DbRows' :
                  /\ d \in DbRows /\ db'[d].name = db[d].name
                  /\ db'[d].status = "active" =>
                       IF held.kind \in DbKinds /\ held.db = d
                       THEN held.kind = "db.create" /\ Executed ELSE db[d].status = "active"
             /\ \A u \in UserRows' :
                  /\ u \in UserRows /\ user'[u].name = user[u].name
                  /\ user'[u].status = "active" =>
                       IF held.kind \in UserKinds /\ held.user = u
                       THEN held.kind = "user.create" /\ Executed ELSE user[u].status = "active"
             /\ \A d \in Db, u \in DbUser :
                  /\ grant'[<<d, u>>] # "none" => d \in DbRows' /\ u \in UserRows'
                  /\ grant'[<<d, u>>] = "active" =>
                       IF held.kind \in GrantKinds /\ held.db = d /\ held.user = u
                       THEN held.kind = "grant.create" /\ Executed ELSE grant[<<d, u>>] = "active"
             /\ \A u \in DbUser : user'[u].status = "none" => user[u].status = "none"
  <2>1. CASE held.kind \in DbKinds
    <3>1. /\ UNCHANGED <<user, grant>> /\ held.db \in Db /\ db[held.db] \in DbRow
          /\ db' = [db EXCEPT ![held.db].status = st]
      BY <1>1, <1>2, <1>3, <1>5, <2>1 DEF Stored, UpdateDatabaseStatus
    <3>2. /\ db'[held.db].status = st /\ db'[held.db].name = db[held.db].name
          /\ \A d \in Db : d # held.db => db'[d] = db[d]
      BY <1>1, <3>1 DEF DbRow
    <3>3. DbRows' = DbRows /\ UserRows' = UserRows
      BY <1>2, <1>3, <2>1, <3>1, <3>2 DEF DbRows, UserRows
    <3> QED BY <1>1, <1>3, <1>5, <2>1, <3>1, <3>2, <3>3
  <2>2. CASE held.kind \in UserKinds
    <3>1. /\ UNCHANGED <<db, grant>> /\ held.user \in DbUser /\ user[held.user] \in UserRow
          /\ user' = [user EXCEPT ![held.user].status = st]
      BY <1>1, <1>2, <1>3, <1>5, <2>2 DEF Stored, UpdateDatabaseUserStatus
    <3>2. /\ user'[held.user].status = st /\ user'[held.user].name = user[held.user].name
          /\ \A u \in DbUser : u # held.user => user'[u] = user[u]
      BY <1>1, <3>1 DEF UserRow
    <3>3. DbRows' = DbRows /\ UserRows' = UserRows
      BY <1>2, <1>3, <2>2, <3>1, <3>2 DEF DbRows, UserRows
    <3> QED BY <1>1, <1>3, <1>5, <2>2, <3>1, <3>2, <3>3
  <2>3. CASE held.kind \in GrantKinds
    <3>1. /\ UNCHANGED <<db, user>> /\ held.db \in Db /\ held.user \in DbUser
          /\ UpdateDatabaseGrantStatus(<<held.db, held.user>>, st)
      BY <1>2, <1>3, <1>5, <2>3 DEF Stored
    <3>2. \A d \in Db, u \in DbUser :
            IF d = held.db /\ u = held.user
            THEN grant'[<<d, u>>] \in {st, grant[<<d, u>>]}
                 /\ (grant'[<<d, u>>] # st => grant'[<<d, u>>] = "none")
            ELSE grant'[<<d, u>>] = grant[<<d, u>>]
      BY <1>1, <3>1 DEF UpdateDatabaseGrantStatus, GrantRows
    <3>3. DbRows' = DbRows /\ UserRows' = UserRows
      BY <3>1 DEF DbRows, UserRows
    <3> QED BY <1>1, <1>2, <1>3, <1>5, <2>3, <3>1, <3>2, <3>3
  <2> QED BY <1>2, <2>1, <2>2, <2>3
<1>6. CASE held.kind = "db.delete" /\ DeleteDatabaseRow(held.db) /\ UNCHANGED user
  <2>1. /\ held.db \in Db /\ db' = [db EXCEPT ![held.db] = [NoDb EXCEPT !.status = "deleted"]]
        /\ grant' = [g \in Db \X DbUser |-> IF g[1] = held.db THEN "none" ELSE grant[g]]
    BY <1>2, <1>3, <1>6 DEF DeleteDatabaseRow
  <2>2. /\ db'[held.db].status = "deleted" /\ \A d \in Db : d # held.db => db'[d] = db[d]
    BY <1>1, <2>1 DEF NoDb
  <2>3. \A d \in Db, u \in DbUser :
          grant'[<<d, u>>] = IF d = held.db THEN "none" ELSE grant[<<d, u>>]
    BY <1>1, <2>1
  <2>4. DbRows' = DbRows \ {held.db} /\ UserRows' = UserRows
    BY <1>6, <2>1, <2>2 DEF DbRows, UserRows
  <2> QED BY <1>1, <1>3, <1>6, <2>2, <2>3, <2>4
<1>7. CASE held.kind = "user.delete" /\ DeleteDatabaseUser(held.user) /\ UNCHANGED db
  <2>1. /\ held.user \in DbUser
        /\ user' = [user EXCEPT ![held.user] = [NoDb EXCEPT !.status = "deleted"]]
        /\ grant' = [g \in Db \X DbUser |-> IF g[2] = held.user THEN "none" ELSE grant[g]]
    BY <1>2, <1>3, <1>7 DEF DeleteDatabaseUser
  <2>2. /\ user'[held.user].status = "deleted"
        /\ \A u \in DbUser : u # held.user => user'[u] = user[u]
    BY <1>1, <2>1 DEF NoDb
  <2>3. \A d \in Db, u \in DbUser :
          grant'[<<d, u>>] = IF u = held.user THEN "none" ELSE grant[<<d, u>>]
    BY <1>1, <2>1
  <2>4. UserRows' = UserRows \ {held.user} /\ DbRows' = DbRows
    BY <1>7, <2>1, <2>2 DEF DbRows, UserRows
  <2> QED BY <1>1, <1>3, <1>7, <2>2, <2>3, <2>4
<1>8. CASE held.kind = "grant.delete" /\ DeleteDatabaseGrant(<<held.db, held.user>>)
           /\ UNCHANGED <<db, user>>
  <2>1. \A d \in Db, u \in DbUser :
          grant'[<<d, u>>] = IF d = held.db /\ u = held.user THEN "none" ELSE grant[<<d, u>>]
    BY <1>1, <1>2, <1>3, <1>8 DEF DeleteDatabaseGrant
  <2>2. UserRows' = UserRows /\ DbRows' = DbRows
    BY <1>8 DEF DbRows, UserRows
  <2> QED BY <1>1, <1>3, <1>8, <2>1, <2>2
<1>9. CASE Stored("error")
  BY <1>5, <1>9
<1>10. CASE DbSucceed /\ Executed
  <2>1. CASE held.kind \in {"db.create", "user.create", "grant.create"}
    BY <1>5, <1>10, <2>1 DEF DbSucceed
  <2>2. CASE held.kind \notin {"db.create", "user.create", "grant.create"}
    BY <1>2, <1>6, <1>7, <1>8, <1>10, <2>2 DEF DbSucceed
  <2> QED BY <2>1, <2>2
<1> QED BY <1>4, <1>9, <1>10

LEMMA HandleDbShown ==
  ASSUME DbInv, DbShownInv, HandleDb
  PROVE  DbShownInv'
<1> USE DEF DbKinds, UserKinds, GrantKinds
<1>1. /\ WorkerInv(DbAsked, DbCall) /\ pc = "calling" /\ pc' = "handled"
      /\ Executed \/ mysql' = mysql
      /\ unsaved' = unsaved /\ queue' = queue
      /\ \E good \in BOOLEAN : Returns(good)
      /\ Fault \/ NoFault
  BY DEF DbInv, HandleDb, Returns, Fault, NoFault
<1>2. /\ held' = held /\ held \in Accepted /\ held \in DbAsked
      /\ Awaited \ {held} \subseteq Awaited' /\ NothingNew
  BY <1>1, ReturnsAwaits, ReturnsStep, AwaitedIsKnown, DbHeld
<1>3. /\ \A d \in DbRows' :
           /\ d \in DbRows /\ db'[d].name = db[d].name
           /\ db'[d].status = "active" =>
                IF held.kind \in DbKinds /\ held.db = d
                THEN held.kind = "db.create" /\ Executed ELSE db[d].status = "active"
      /\ \A u \in UserRows' :
           /\ u \in UserRows /\ user'[u].name = user[u].name
           /\ user'[u].status = "active" =>
                IF held.kind \in UserKinds /\ held.user = u
                THEN held.kind = "user.create" /\ Executed ELSE user[u].status = "active"
      /\ \A d \in Db, u \in DbUser :
           /\ grant'[<<d, u>>] # "none" => d \in DbRows' /\ u \in UserRows'
           /\ grant'[<<d, u>>] = "active" =>
                IF held.kind \in GrantKinds /\ held.db = d /\ held.user = u
                THEN held.kind = "grant.create" /\ Executed ELSE grant[<<d, u>>] = "active"
      /\ \A u \in DbUser : user'[u].status = "none" => user[u].status = "none"
  BY HandledShown DEF DbShownInv
<1>4. /\ \A d \in DbRows :
           IF held.kind \in DbKinds /\ held.db = d
           THEN held.kind = "db.create" /\ Executed => db[d].name \in mysql'.dbs
           ELSE db[d].name \in mysql.dbs => db[d].name \in mysql'.dbs
      /\ \A u \in UserRows :
           IF held.kind \in UserKinds /\ held.user = u
           THEN held.kind = "user.create" /\ Executed => user[u].name \in mysql'.users
           ELSE user[u].name \in mysql.users => user[u].name \in mysql'.users
      /\ \A d \in DbRows, u \in UserRows :
           LET right == <<db[d].name, user[u].name>>
           IN IF held.kind \in GrantKinds /\ held.db = d /\ held.user = u
              THEN held.kind = "grant.create" /\ Executed => right \in mysql'.rights
              ELSE \/ right \in mysql.rights => right \in mysql'.rights
                   \/ held.kind = "user.delete" /\ held.user = u
  BY <1>1, ExecutedShown DEF DbShownInv
<1>5. GrantsFit' /\ NamesDiffer'
  BY <1>3 DEF GrantsFit, NamesDiffer, DbShownInv
<1>6. UsersInOrder'
  <2>1. ASSUME NEW u \in DbUser PROVE OrderFits(UserCreations(u), UserDeletions(u))'
    BY <1>1, <1>2, SameOrder DEF DbShownInv, UsersInOrder
  <2> QED BY <1>2, <1>3, <2>1, UsersOrderKept DEF NothingNew, DbShownInv
<1>7. ASSUME ~unsaved' PROVE DbsShown' /\ UsersShown' /\ GrantsShown'
  <2>1. DbsShown /\ UsersShown /\ GrantsShown
    BY <1>1, <1>7 DEF DbShownInv
  <2>2. DbsShown'
    <3> SUFFICES ASSUME NEW d \in DbRows', db'[d].status = "active"
                 PROVE  db'[d].name \in mysql'.dbs \/ Deleting(d)'
      BY DEF DbsShown
    <3>1. CASE held.kind \in DbKinds /\ held.db = d
      BY <1>3, <1>4, <3>1
    <3>2. CASE ~(held.kind \in DbKinds /\ held.db = d)
      <4>1. Deleting(d) => Deleting(d)'
        BY <1>2, <3>2 DEF Deleting
      <4> QED BY <1>3, <1>4, <2>1, <3>2, <4>1 DEF DbsShown
    <3> QED BY <3>1, <3>2
  <2>3. UsersShown'
    <3> SUFFICES ASSUME NEW u \in UserRows', user'[u].status = "active"
                 PROVE  user'[u].name \in mysql'.users \/ Dropping(u)'
      BY DEF UsersShown
    <3>1. CASE held.kind \in UserKinds /\ held.user = u
      BY <1>3, <1>4, <3>1
    <3>2. CASE ~(held.kind \in UserKinds /\ held.user = u)
      <4>1. Dropping(u) => Dropping(u)'
        BY <1>2, <3>2 DEF Dropping
      <4> QED BY <1>3, <1>4, <2>1, <3>2, <4>1 DEF UsersShown
    <3> QED BY <3>1, <3>2
  <2>4. GrantsShown'
    <3> SUFFICES ASSUME NEW d \in Db, NEW u \in DbUser, grant'[<<d, u>>] = "active"
                 PROVE  \/ <<db'[d].name, user'[u].name>> \in mysql'.rights
                        \/ Revoking(d, u)' \/ Dropping(u)'
                        \/ user'[u].status # "active" /\ Accepted' \cap UserCreations(u) = {}
      BY DEF GrantsShown, UserCreations
    <3>1. /\ d \in DbRows /\ u \in UserRows /\ u \in UserRows'
          /\ db'[d].name = db[d].name /\ user'[u].name = user[u].name
      BY <1>3
    <3>2. CASE held.kind \in GrantKinds /\ held.db = d /\ held.user = u
      BY <1>3, <1>4, <3>1, <3>2
    <3>3. CASE held.kind = "user.delete" /\ held.user = u
      <4>1. user'[u].status # "active"
        BY <1>3, <3>1, <3>3
      <4>2. held \in UserDeletions(u)
        BY <1>2, <3>3 DEF UserDeletions
      <4>3. Accepted \cap UserCreations(u) = {}
        BY <1>1, <4>2 DEF DbShownInv, UsersInOrder, OrderFits
      <4> QED BY <1>2, <4>1, <4>3 DEF NothingNew
    <3>4. CASE /\ ~(held.kind \in GrantKinds /\ held.db = d /\ held.user = u)
               /\ ~(held.kind = "user.delete" /\ held.user = u)
      <4>1. /\ grant[<<d, u>>] = "active"
            /\ Revoking(d, u) => Revoking(d, u)'
            /\ Dropping(u) => Dropping(u)'
        BY <1>2, <1>3, <3>4 DEF Revoking, Dropping
      <4>2. ASSUME user[u].status # "active", Accepted \cap UserCreations(u) = {}
            PROVE  user'[u].status # "active" /\ Accepted' \cap UserCreations(u) = {}
        <5>1. ~(held.kind = "user.create" /\ held.user = u)
          BY <1>2, <4>2 DEF UserCreations
        <5> QED BY <1>2, <1>3, <3>1, <4>2, <5>1 DEF NothingNew
      <4> QED BY <1>4, <2>1, <3>1, <3>4, <4>1, <4>2 DEF GrantsShown
    <3> QED BY <3>2, <3>3, <3>4
  <2> QED BY <2>2, <2>3, <2>4
<1> QED BY <1>5, <1>6, <1>7 DEF DbShownInv

(* A handler whose statement fails, or whose panel dies, leaves the rows.  *)
LEMMA DbUnsavedShown ==
  ASSUME DbInv, DbShownInv, HandleDbUnsaved \/ DieWithDb
  PROVE  DbShownInv'
<1> USE DEF DbKinds, UserKinds, GrantKinds
<1>1. /\ WorkerInv(DbAsked, DbCall) /\ UNCHANGED <<db, user, grant>>
      /\ (pc = "calling" /\ Executed) \/ mysql' = mysql
  BY DEF DbInv, HandleDbUnsaved, DieWithDb
<1>2. DbRows' = DbRows /\ UserRows' = UserRows
  BY <1>1 DEF DbRows, UserRows
<1>3. GrantsFit' /\ NamesDiffer'
  BY <1>1, <1>2 DEF GrantsFit, NamesDiffer, DbShownInv
<1>4. CASE HandleDbUnsaved
  <2>1. pc = "calling" /\ Returns(FALSE) /\ Unsaved /\ unsaved'
    BY <1>4 DEF HandleDbUnsaved, Unsaved
  <2>2. NothingNew /\ held' = held /\ queue' = queue
    BY <1>1, <2>1, ReturnsAwaits, ReturnsStep DEF Returns
  <2>3. \A u \in DbUser : OrderFits(UserCreations(u), UserDeletions(u))'
    BY <1>1, <2>1, <2>2, SameOrder DEF DbShownInv, UsersInOrder
  <2>4. UsersInOrder'
    BY <1>1, <2>2, <2>3, UsersOrderKept DEF NothingNew, DbShownInv
  <2> QED BY <1>3, <2>1, <2>4 DEF DbShownInv
<1>5. CASE DieWithDb
  <2>1. Die /\ unsaved' = unsaved
    BY <1>5 DEF DieWithDb, Die
  <2>2. /\ Awaited \subseteq Awaited' /\ NothingNew
        /\ pc = "calling" => held \in Awaited'
    BY <1>1, <2>1, DieAwaits
  <2>3. \A u \in DbUser : OrderFits(UserCreations(u), UserDeletions(u))'
    BY <1>1, <2>1, DieOrder DEF DbShownInv, UsersInOrder
  <2>4. UsersInOrder'
    BY <1>1, <2>2, <2>3, UsersOrderKept DEF NothingNew, DbShownInv
  <2>5. ASSUME ~unsaved' PROVE DbsShown' /\ UsersShown' /\ GrantsShown'
    <3>1. DbsShown /\ UsersShown /\ GrantsShown /\ GrantsFit
      BY <2>1, <2>5 DEF DbShownInv
    <3>2. /\ \A d : Deleting(d) => Deleting(d)'
          /\ \A u : Dropping(u) => Dropping(u)'
          /\ \A d, u : Revoking(d, u) => Revoking(d, u)'
      BY <2>2 DEF Deleting, Dropping, Revoking
    <3>3. /\ \A d \in DbRows : db[d].name \in mysql.dbs => db[d].name \in mysql'.dbs
                                                           \/ Deleting(d)'
          /\ \A u \in UserRows : user[u].name \in mysql.users => user[u].name \in mysql'.users
                                                                 \/ Dropping(u)'
          /\ \A d \in DbRows, u \in UserRows :
               <<db[d].name, user[u].name>> \in mysql.rights =>
                 \/ <<db[d].name, user[u].name>> \in mysql'.rights
                 \/ Revoking(d, u)' \/ Dropping(u)'
      <4>1. CASE mysql' = mysql
        BY <4>1
      <4>2. CASE pc = "calling" /\ Executed
        <5>1. /\ \A d \in DbRows :
                   IF held.kind \in DbKinds /\ held.db = d
                   THEN held.kind = "db.create" => db[d].name \in mysql'.dbs
                   ELSE db[d].name \in mysql.dbs => db[d].name \in mysql'.dbs
              /\ \A u \in UserRows :
                   IF held.kind \in UserKinds /\ held.user = u
                   THEN held.kind = "user.create" => user[u].name \in mysql'.users
                   ELSE user[u].name \in mysql.users => user[u].name \in mysql'.users
              /\ \A d \in DbRows, u \in UserRows :
                   LET right == <<db[d].name, user[u].name>>
                   IN IF held.kind \in GrantKinds /\ held.db = d /\ held.user = u
                      THEN held.kind = "grant.create" => right \in mysql'.rights
                      ELSE \/ right \in mysql.rights => right \in mysql'.rights
                           \/ held.kind = "user.delete" /\ held.user = u
          BY <4>2, ExecutedShown DEF DbShownInv
        <5>2. /\ \A d : held.kind = "db.delete" /\ held.db = d => Deleting(d)'
              /\ \A u : held.kind = "user.delete" /\ held.user = u => Dropping(u)'
              /\ \A d, u : held.kind = "grant.delete" /\ held.db = d /\ held.user = u
                             => Revoking(d, u)'
          BY <2>2, <4>2 DEF Deleting, Dropping, Revoking
        <5> QED BY <5>1, <5>2
      <4> QED BY <1>1, <4>1, <4>2
    <3>4. DbsShown' /\ UsersShown'
      BY <1>1, <1>2, <3>1, <3>2, <3>3 DEF DbsShown, UsersShown
    <3>5. GrantsShown'
      <4> SUFFICES ASSUME NEW d \in Db, NEW u \in DbUser, grant[<<d, u>>] = "active"
                   PROVE  \/ <<db[d].name, user[u].name>> \in mysql'.rights
                          \/ Revoking(d, u)' \/ Dropping(u)'
                          \/ user[u].status # "active" /\ Accepted' \cap UserCreations(u) = {}
        BY <1>1 DEF GrantsShown, UserCreations
      <4>1. d \in DbRows /\ u \in UserRows
        BY <3>1 DEF GrantsFit
      <4> QED BY <2>2, <3>1, <3>2, <3>3, <4>1 DEF GrantsShown, NothingNew
    <3> QED BY <3>4, <3>5
  <2> QED BY <1>3, <2>4, <2>5 DEF DbShownInv
<1> QED BY <1>4, <1>5

LEMMA DbShownNext == ASSUME DbInv, DbShownInv, DbNext PROVE DbShownInv'
  BY DbAsksShown, DbAcceptShown, DbPassiveShown, HandleDbShown, DbUnsavedShown
     DEF DbNext, DbRequests, DbWorker

LEMMA DbShownStutters == ASSUME DbInv, DbShownInv, UNCHANGED vars PROVE DbShownInv'
<1>1. UNCHANGED <<queue, pc, unsaved, dbVars>> /\ user' = user
  BY DEF vars, workerVars, events, dbVars
<1>2. Awaited' = Awaited /\ Accepted' = Accepted /\ Known' = Known
  BY <1>1 DEF Awaited, Accepted, Known, Waiting, Unfinished, held, current, Handling
<1>3. UsersInOrder'
  BY <1>1, <1>2, SameOrder, UsersOrderKept DEF UsersInOrder, DbShownInv, DbInv
<1> QED BY <1>1, <1>2, <1>3, DbShownSame

(* Once nothing is under way and no statement of a handler has failed,     *)
(* what the panel shows as active is there: databases, users, and the      *)
(* privileges of grants between active ones; at any time what is on the    *)
(* MySQL server has its row (databases/service.go, queries/databases.sql,  *)
(* agent/database/mysql).                                                  *)
THEOREM DatabasesStayAsShown == Spec => []DatabasesAsShown
<1> DEFINE Inv == PanelInv /\ (scope = "databases" => DbShownInv)
<1>1. Init => Inv
  BY PanelInvInit, DbShownInit DEF Init
<1>2. Inv /\ [Next]_vars => Inv'
  <2> SUFFICES ASSUME Inv, [Next]_vars, scope' = "databases" PROVE DbShownInv'
    BY PanelInvNext
  <2>1. scope = "databases"
    BY DEF Next, InTasks, InDns, InDatabases, InAccounts, vars
  <2>2. DbInv /\ DbShownInv /\ (DbNext \/ UNCHANGED vars)
    BY <2>1 DEF PanelInv, Next, InTasks, InDns, InDatabases, InAccounts
  <2> QED BY <2>2, DbShownNext, DbShownStutters
<1>3. Inv => DatabasesAsShown
  <2>1. CASE scope # "databases" /\ PanelInv
    <3>1. DbNone
      BY <2>1 DEF PanelInv
    <3>2. DbRows = {} /\ UserRows = {} /\ mysql.dbs = {} /\ mysql.users = {}
      BY <3>1 DEF DbNone, NoDb, DbRows, UserRows
    <3>3. \A g \in GrantRows : grant[g] # "active"
      BY <3>1 DEF DbNone, GrantRows
    <3> QED BY <3>2, <3>3 DEF DatabasesAsShown
  <2>2. CASE DbInv /\ DbShownInv
    <3>1. ObjectsHaveRows
      BY <2>2 DEF DbInv
    <3>2. ASSUME Quiet, ~unsaved
          PROVE  /\ \A d \in DbRows : db[d].status = "active" => db[d].name \in mysql.dbs
                 /\ \A u \in UserRows : user[u].status = "active" => user[u].name \in mysql.users
                 /\ \A g \in GrantRows :
                      /\ grant[g] = "active"
                      /\ db[g[1]].status = "active" /\ user[g[2]].status = "active"
                      => <<db[g[1]].name, user[g[2]].name>> \in mysql.rights
      <4>1. Awaited = {}
        BY <3>2 DEF Quiet, Awaited, Waiting, Unfinished, Handling
      <4>2. /\ DbsShown /\ UsersShown /\ GrantsShown
            /\ \A d, u : ~Deleting(d) /\ ~Dropping(u) /\ ~Revoking(d, u)
        BY <2>2, <3>2, <4>1 DEF DbShownInv, Deleting, Dropping, Revoking
      <4>3. ASSUME NEW g \in GrantRows, grant[g] = "active", user[g[2]].status = "active"
            PROVE  <<db[g[1]].name, user[g[2]].name>> \in mysql.rights
        <5>1. g[1] \in Db /\ g[2] \in DbUser /\ g = <<g[1], g[2]>>
          BY DEF GrantRows
        <5> QED BY <4>2, <4>3, <5>1 DEF GrantsShown
      <4> QED BY <4>2, <4>3 DEF DbsShown, UsersShown
    <3> QED BY <3>1, <3>2 DEF DatabasesAsShown, ObjectsHaveRows
  <2> QED BY <2>1, <2>2 DEF PanelInv
<1> QED BY <1>1, <1>2, <1>3, PTL DEF Spec

===============================================================================
