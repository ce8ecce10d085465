------------------------------ MODULE PanelProofs ------------------------------
(***************************************************************************)
(* Proofs about the services of Panel for any tasks, zones, records,       *)
(* databases, accounts and packages, any number of attempts, requests and  *)
(* troubles.                                                               *)
(***************************************************************************)
EXTENDS Panel, QueueFacts

-------------------------------------------------------------------------------
(* The worker. *)

(* The worker holds one job, the running one, between its claim and its    *)
(* settlement, and a job that is not running has an attempt left.          *)
OneIsHeld ==
  /\ \A i \in DOMAIN queue :
       IF queue[i].state = "running" THEN queue[i].tries >= 1 /\ pc # "idle"
                                     ELSE queue[i].tries < MaxAttempts
  /\ \A i, j \in DOMAIN queue :
       queue[i].state = "running" /\ queue[j].state = "running" => i = j
  /\ pc # "idle" => \E i \in DOMAIN queue : queue[i].state = "running"

(* Its requests are in R and what its handlers ask of the Agent in C.      *)
WorkerInv(R, C) ==
  /\ WorkerTypeOK(R, C)
  /\ OneIsHeld
  /\ pc \in {"read", "calling"} => call \in C

Job(R) == [req : R, state : {"asked", "queued", "running"}, tries : 0 .. MaxAttempts]

LEMMA QueueIsJobs ==
  ASSUME NEW R, NEW C, WorkerTypeOK(R, C)
  PROVE  /\ queue \in Seq(Job(R)) /\ Len(queue) \in Nat
         /\ DOMAIN queue = 1 .. Len(queue)
         /\ \A i \in 1 .. Len(queue) : queue[i] \in Job(R)
<1>1. queue \in Seq(Job(R))
  BY DEF WorkerTypeOK, Job
<1> QED BY <1>1, LenProperties, ElementOfSeq

LEMMA RequestsAreKnown ==
  ASSUME NEW R, NEW C, WorkerInv(R, C)
  PROVE  \A i \in DOMAIN queue : queue[i].req \in R
  BY QueueIsJobs DEF WorkerInv, Job

(* The job the worker holds. *)
LEMMA HeldIsJob ==
  ASSUME NEW R, NEW C, WorkerInv(R, C), pc # "idle"
  PROVE  /\ current \in DOMAIN queue /\ queue[current].state = "running"
         /\ held \in R
         /\ \A i \in DOMAIN queue : queue[i].state = "running" => i = current
<1>1. current \in DOMAIN queue /\ queue[current].state = "running"
  BY DEF WorkerInv, OneIsHeld, current
<1>2. queue[current] \in Job(R)
  BY <1>1, QueueIsJobs DEF WorkerInv
<1> QED BY <1>1, <1>2 DEF WorkerInv, OneIsHeld, held, Job

(* What a step of a request does to the queue: it has no new running job,  *)
(* the jobs there are stay, and so does the worker.                        *)
Requested ==
  /\ pc' = pc
  /\ \A k \in DOMAIN queue' : queue'[k].state = "running" =>
       \E i \in DOMAIN queue : queue[i].state = "running" /\ queue'[k].req = queue[i].req
  /\ \A j, k \in DOMAIN queue' :
       queue'[j].state = "running" /\ queue'[k].state = "running" => j = k
  /\ \A i \in Unfinished : \E k \in DOMAIN queue' :
       queue'[k].state = queue[i].state /\ queue'[k].req = queue[i].req
(* Nothing is asked for, and nothing has become a job, that was not before. *)
OldRequests ==
  \A k \in DOMAIN queue' : \E i \in DOMAIN queue :
    /\ queue'[k].req = queue[i].req
    /\ queue'[k].state # "asked" => queue[i].state # "asked"

(* The worker still holds the same. *)
LEMMA HeldIsKept ==
  ASSUME NEW R, NEW C, WorkerInv(R, C), pc # "idle", Requested
  PROVE  held' = held
<1>1. PICK k \in DOMAIN queue' : queue'[k].state = "running"
  BY HeldIsJob DEF Requested, Unfinished
<1>2. current' = k
  BY <1>1 DEF Requested, current
<1>3. PICK i \in DOMAIN queue : queue[i].state = "running" /\ queue'[k].req = queue[i].req
  BY <1>1 DEF Requested
<1>4. i = current
  BY <1>3, HeldIsJob
<1> QED BY <1>2, <1>3, <1>4 DEF held
-------------------------------------------------------------------------------
(* One lemma for each step of PanelWorker. *)

LEMMA WorkerInitInv ==
  ASSUME NEW R, NEW C, WorkerInit
  PROVE  WorkerInv(R, C)
<1>1. queue \in Seq(Job(R)) /\ DOMAIN queue = {}
  BY EmptySeq DEF WorkerInit
<1>2. requests \in 0 .. MaxRequests /\ troubles \in 0 .. MaxTroubles
  BY PanelAssumption DEF WorkerInit
<1>3. WorkerTypeOK(R, C)
  BY <1>1, <1>2 DEF WorkerInit, WorkerTypeOK, Job
<1>4. OneIsHeld
  BY <1>1 DEF WorkerInit, OneIsHeld
<1> QED BY <1>3, <1>4 DEF WorkerInit, WorkerInv

(* The jobs after a request's step, as far as OneIsHeld looks at them.     *)
LEMMA RequestedIsFine ==
  ASSUME NEW R, NEW C, WorkerInv(R, C), Requested, call' = call,
         queue' \in Seq(Job(R)),
         \A k \in DOMAIN queue' :
           IF queue'[k].state = "running" THEN queue'[k].tries >= 1
                                          ELSE queue'[k].tries < MaxAttempts,
         usable' \in BOOLEAN, ok' = ok,
         requests' \in 0 .. MaxRequests, troubles' \in 0 .. MaxTroubles,
         unsaved' = unsaved, suspended' \in BOOLEAN
  PROVE  WorkerInv(R, C)'
<1>1. WorkerTypeOK(R, C)'
  BY DEF WorkerInv, WorkerTypeOK, Requested, Job
<1>2. OneIsHeld'
  BY DEF WorkerInv, OneIsHeld, Requested, Unfinished
<1> QED BY <1>1, <1>2 DEF WorkerInv, Requested

LEMMA AskStep ==
  ASSUME NEW R, NEW C, WorkerInv(R, C), NEW r \in R, Ask(r)
  PROVE  /\ WorkerInv(R, C)' /\ Requested
         /\ \A k \in DOMAIN queue' : \/ queue'[k].req = r /\ queue'[k].state = "asked"
                                     \/ k \in DOMAIN queue /\ queue'[k] = queue[k]
<1> DEFINE e == [req |-> r, state |-> "asked", tries |-> 0]
<1>1. e \in Job(R) /\ queue' = Append(queue, e)
  BY PanelAssumption DEF Job, Ask
<1>2. /\ queue' \in Seq(Job(R)) /\ Len(queue') = Len(queue) + 1
      /\ DOMAIN queue' = 1 .. Len(queue) + 1
      /\ \A k \in 1 .. Len(queue) : queue'[k] = queue[k]
      /\ queue'[Len(queue) + 1] = e
  BY <1>1, QueueIsJobs, AppendProperties, LenProperties DEF WorkerInv
<1>3. Requested
  BY <1>2, QueueIsJobs DEF WorkerInv, OneIsHeld, Requested, Unfinished, Ask
<1>4. \A k \in DOMAIN queue' :
        IF queue'[k].state = "running" THEN queue'[k].tries >= 1
                                       ELSE queue'[k].tries < MaxAttempts
  BY <1>2, QueueIsJobs, PanelAssumption DEF WorkerInv, OneIsHeld
<1>5. requests' \in 0 .. MaxRequests
  BY PanelAssumption DEF Ask, WorkerInv, WorkerTypeOK
<1>6. WorkerInv(R, C)'
  BY <1>2, <1>3, <1>4, <1>5, RequestedIsFine DEF Ask, WorkerInv, WorkerTypeOK
<1>7. \A k \in DOMAIN queue' : k \in 1 .. Len(queue) \/ k = Len(queue) + 1
  BY <1>2, QueueIsJobs DEF WorkerInv
<1> QED BY <1>2, <1>3, <1>6, <1>7, QueueIsJobs DEF WorkerInv

(* A job that leaves the queue. *)
LEMMA RemovedJob ==
  ASSUME NEW R, NEW C, WorkerInv(R, C), NEW i \in DOMAIN queue
  PROVE  /\ RemoveAt(queue, i) \in Seq(Job(R))
         /\ DOMAIN RemoveAt(queue, i) = 1 .. Len(queue) - 1
         /\ Len(RemoveAt(queue, i)) = Len(queue) - 1
         /\ \A k \in 1 .. Len(queue) - 1 :
              RemoveAt(queue, i)[k] = queue[IF k < i THEN k ELSE k + 1]
<1>1. /\ RemoveAt(queue, i) \in Seq(Job(R)) /\ Len(RemoveAt(queue, i)) = Len(queue) - 1
      /\ \A k \in 1 .. Len(queue) - 1 :
           RemoveAt(queue, i)[k] = IF k < i THEN queue[k] ELSE queue[k + 1]
  BY QueueIsJobs, RemoveAtProperties DEF WorkerInv
<1>2. DOMAIN RemoveAt(queue, i) = 1 .. Len(queue) - 1
  BY <1>1, LenProperties
<1> QED BY <1>1, <1>2

(* ... is one that is not running: a request refused or answered. *)
LEMMA LeaveStep ==
  ASSUME NEW R, NEW C, WorkerInv(R, C), NEW i \in DOMAIN queue,
         queue[i].state = "asked", queue' = RemoveAt(queue, i),
         UNCHANGED <<usable, pc, ok, call, requests, troubles, unsaved, suspended>>
  PROVE  WorkerInv(R, C)' /\ Requested /\ OldRequests
<1> DEFINE from(k) == IF k < i THEN k ELSE k + 1
           n == Len(queue)
<1>1. n \in Nat /\ i \in 1 .. n /\ DOMAIN queue = 1 .. n
  BY QueueIsJobs DEF WorkerInv
<1>2. /\ queue' \in Seq(Job(R)) /\ DOMAIN queue' = 1 .. n - 1
      /\ \A k \in 1 .. n - 1 : from(k) \in DOMAIN queue /\ queue'[k] = queue[from(k)]
  <2>1. \A k \in 1 .. n - 1 : from(k) \in DOMAIN queue
    BY <1>1
  <2> QED BY <2>1, RemovedJob
<1>3. \A j, k \in 1 .. n - 1 : from(j) = from(k) => j = k
  BY <1>1
<1>4. \A j \in DOMAIN queue : j # i => \E k \in DOMAIN queue' : from(k) = j
  <2> TAKE j \in DOMAIN queue
  <2>1. CASE j < i
    BY <1>1, <1>2, <2>1
  <2>2. CASE j > i
    <3>1. j - 1 \in DOMAIN queue' /\ from(j - 1) = j
      BY <1>1, <1>2, <2>2
    <3> QED BY <3>1
  <2> QED BY <1>1, <2>1, <2>2
<1> HIDE DEF from, n
<1>5. \A j \in Unfinished : j # i
  BY DEF Unfinished
<1>6. Requested
  <2>1. \A j, k \in DOMAIN queue' :
          queue'[j].state = "running" /\ queue'[k].state = "running" => j = k
    BY <1>2, <1>3 DEF WorkerInv, OneIsHeld
  <2>2. \A j \in Unfinished : \E k \in DOMAIN queue' :
          queue'[k].state = queue[j].state /\ queue'[k].req = queue[j].req
    BY <1>2, <1>4, <1>5 DEF Unfinished
  <2> QED BY <1>2, <2>1, <2>2 DEF Requested
<1>7. \A k \in DOMAIN queue' :
        IF queue'[k].state = "running" THEN queue'[k].tries >= 1
                                       ELSE queue'[k].tries < MaxAttempts
  BY <1>2 DEF WorkerInv, OneIsHeld
<1>8. OldRequests
  BY <1>2 DEF OldRequests
<1> QED BY <1>2, <1>6, <1>7, <1>8, RequestedIsFine DEF WorkerInv, WorkerTypeOK
LEMMA WithdrawStep ==
  ASSUME NEW R, NEW C, WorkerInv(R, C), NEW i \in DOMAIN queue, Withdraw(i)
  PROVE  WorkerInv(R, C)' /\ Requested /\ OldRequests
  BY LeaveStep DEF Withdraw, events

LEMMA AnsweredStep ==
  ASSUME NEW R, NEW C, WorkerInv(R, C), NEW i \in DOMAIN queue, Answered(i)
  PROVE  WorkerInv(R, C)' /\ Requested /\ OldRequests
  BY LeaveStep DEF Answered, events

(* A request accepted becomes a job that waits. *)
LEMMA AcceptStep ==
  ASSUME NEW R, NEW C, WorkerInv(R, C), NEW i \in DOMAIN queue, Accept(i)
  PROVE  /\ WorkerInv(R, C)' /\ Requested
         /\ \A k \in DOMAIN queue' : \E j \in DOMAIN queue :
              /\ queue'[k].req = queue[j].req
              /\ queue'[k].state # "asked" => queue[j].state # "asked" \/ j = i
         /\ \E k \in Waiting' : queue'[k].req = queue[i].req
<1> DEFINE job == [queue[i] EXCEPT !.state = "queued"]
           n == Len(queue)
           OldOrThis == \A k \in DOMAIN queue' : \E j \in DOMAIN queue :
                          /\ queue'[k].req = queue[j].req
                          /\ queue'[k].state # "asked" => queue[j].state # "asked" \/ j = i
           Fine == \A k \in DOMAIN queue' :
                     IF queue'[k].state = "running" THEN queue'[k].tries >= 1
                                                    ELSE queue'[k].tries < MaxAttempts
<1>1. /\ n \in Nat /\ i \in 1 .. n /\ DOMAIN queue = 1 .. n /\ queue \in Seq(Job(R))
      /\ queue[i] \in Job(R) /\ queue[i].state = "asked"
      /\ UNCHANGED <<usable, pc, ok, call, requests, troubles, unsaved, suspended>>
  BY QueueIsJobs DEF WorkerInv, Accept, events
<1>2. /\ job \in Job(R) /\ job.state = "queued" /\ job.req = queue[i].req
      /\ job.tries < MaxAttempts
  BY <1>1 DEF Job, WorkerInv, OneIsHeld
<1>3. ASSUME queue' \in Seq(Job(R)), Requested, OldOrThis, Fine,
             \E k \in DOMAIN queue' : queue'[k] = job
      PROVE  /\ WorkerInv(R, C)' /\ Requested /\ OldOrThis
             /\ \E k \in Waiting' : queue'[k].req = queue[i].req
  <2>1. WorkerInv(R, C)'
    BY <1>1, <1>3, RequestedIsFine DEF WorkerInv, WorkerTypeOK
  <2> QED BY <1>2, <1>3, <2>1 DEF Waiting
<1> HIDE DEF job, n
<1>4. CASE queue' = [queue EXCEPT ![i] = job]
  <2>1. /\ queue' \in Seq(Job(R)) /\ DOMAIN queue' = 1 .. n
        /\ queue'[i] = job /\ \A k \in 1 .. n : k # i => queue'[k] = queue[k]
    BY <1>1, <1>2, <1>4, ExceptSeq, LenProperties DEF n
  <2>2. Requested
    BY <1>1, <1>2, <2>1 DEF WorkerInv, OneIsHeld, Requested, Unfinished
  <2>3. OldOrThis /\ Fine
    BY <1>1, <1>2, <2>1 DEF WorkerInv, OneIsHeld
  <2> QED BY <1>1, <1>3, <2>1, <2>2, <2>3
<1>5. CASE queue' = Append(RemoveAt(queue, i), job)
  <2> DEFINE from(k) == IF k < i THEN k ELSE k + 1
  <2>1. /\ RemoveAt(queue, i) \in Seq(Job(R)) /\ Len(RemoveAt(queue, i)) = n - 1
        /\ \A k \in 1 .. n - 1 : RemoveAt(queue, i)[k] = queue[from(k)]
    BY <1>1, RemovedJob DEF n
  <2>2. /\ queue' \in Seq(Job(R)) /\ DOMAIN queue' = 1 .. n /\ queue'[n] = job
        /\ \A k \in 1 .. n - 1 : queue'[k] = queue[from(k)]
    BY <1>1, <1>2, <1>5, <2>1, AppendProperties, LenProperties
  <2>3. /\ \A k \in 1 .. n - 1 : from(k) \in DOMAIN queue
        /\ \A j, k \in 1 .. n - 1 : from(j) = from(k) => j = k
    BY <1>1
  <2>4. \A j \in DOMAIN queue : j # i => \E k \in 1 .. n - 1 : from(k) = j
    <3> TAKE j \in DOMAIN queue
    <3>1. CASE j < i
      BY <1>1, <3>1
    <3>2. CASE j > i
      <4>1. j - 1 \in 1 .. n - 1 /\ from(j - 1) = j
        BY <1>1, <3>2
      <4> QED BY <4>1
    <3> QED BY <1>1, <3>1, <3>2
  <2> HIDE DEF from
  <2>5. \A k \in DOMAIN queue' : k = n \/ k \in 1 .. n - 1
    BY <1>1, <2>2
  <2>6. Requested
    <3>1. \A k \in DOMAIN queue' : queue'[k].state = "running" => k \in 1 .. n - 1
      BY <1>2, <2>2, <2>5
    <3>2. \A j, k \in DOMAIN queue' :
            queue'[j].state = "running" /\ queue'[k].state = "running" => j = k
      BY <2>2, <2>3, <3>1 DEF WorkerInv, OneIsHeld
    <3>3. \A j \in Unfinished : \E k \in DOMAIN queue' :
            queue'[k].state = queue[j].state /\ queue'[k].req = queue[j].req
      <4> TAKE j \in Unfinished
      <4>1. j \in DOMAIN queue /\ j # i
        BY <1>1 DEF Unfinished
      <4>2. PICK k \in 1 .. n - 1 : from(k) = j
        BY <2>4, <4>1
      <4>3. k \in DOMAIN queue' /\ queue'[k] = queue[j]
        BY <1>1, <2>2, <4>2
      <4> QED BY <4>3
    <3> QED BY <1>1, <2>2, <2>3, <3>1, <3>2, <3>3 DEF Requested
  <2>7. OldOrThis
    <3> TAKE k \in DOMAIN queue'
    <3>1. CASE k = n
      BY <1>1, <1>2, <2>2, <3>1
    <3>2. CASE k \in 1 .. n - 1
      BY <2>2, <2>3, <3>2
    <3> QED BY <2>5, <3>1, <3>2
  <2>8. Fine
    BY <1>1, <1>2, <2>2, <2>3, <2>5 DEF WorkerInv, OneIsHeld
  <2> QED BY <1>1, <1>3, <2>2, <2>6, <2>7, <2>8
<1> QED BY <1>4, <1>5 DEF Accept, job

(* What goes wrong is counted. *)
LEMMA Counted ==
  ASSUME NEW R, NEW C, WorkerInv(R, C), Trouble
  PROVE  troubles' \in 0 .. MaxTroubles
<1>1. troubles \in 0 .. MaxTroubles
  BY DEF WorkerInv, WorkerTypeOK
<1> QED BY <1>1, PanelAssumption DEF Trouble

LEMMA SuspendStep ==
  ASSUME NEW R, NEW C, WorkerInv(R, C), Suspend \/ Resume
  PROVE  WorkerInv(R, C)' /\ Requested /\ OldRequests /\ UNCHANGED queue
<1>1. /\ UNCHANGED <<queue, pc, ok, call, requests, unsaved>>
      /\ usable' \in BOOLEAN /\ suspended' \in BOOLEAN /\ troubles' \in 0 .. MaxTroubles
  <2>1. troubles \in 0 .. MaxTroubles /\ suspended \in BOOLEAN
    BY DEF WorkerInv, WorkerTypeOK
  <2>2. CASE Suspend
    BY <2>1, <2>2, Counted DEF Suspend
  <2>3. CASE Resume
    BY <2>1, <2>3 DEF Resume, events
  <2> QED BY <2>2, <2>3
<1>2. Requested /\ OldRequests
  BY <1>1 DEF Requested, OldRequests, Unfinished, WorkerInv, OneIsHeld
<1> QED BY <1>1, <1>2, RequestedIsFine, QueueIsJobs DEF WorkerInv, OneIsHeld, WorkerTypeOK

LEMMA ClaimStep ==
  ASSUME NEW R, NEW C, WorkerInv(R, C), Claim
  PROVE  /\ WorkerInv(R, C)' /\ OldRequests
         /\ \E i \in Waiting :
              /\ DOMAIN queue' = DOMAIN queue
              /\ held' = queue[i].req /\ i \notin Waiting'
              /\ \A k \in DOMAIN queue : k # i => queue'[k] = queue[k]
<1> DEFINE i == Min(Waiting)
           n == Len(queue)
<1>1. /\ n \in Nat /\ DOMAIN queue = 1 .. n /\ queue \in Seq(Job(R))
      /\ \A k \in 1 .. n : queue[k] \in Job(R)
  BY QueueIsJobs DEF WorkerInv
<1>2. i \in Waiting
  <2>1. Waiting \in SUBSET Nat /\ Waiting # {}
    BY <1>1 DEF Waiting, Claim
  <2> QED BY <2>1, MinIsLeast
<1> DEFINE tries == queue[i].tries + 1
           job == [queue[i] EXCEPT !.state = "running", !.tries = tries]
<1>3. queue' = [queue EXCEPT ![i] = job]
  BY DEF Claim
<1> HIDE DEF i
<1>4. i \in 1 .. n /\ queue[i] \in Job(R) /\ queue[i].state = "queued"
  BY <1>1, <1>2 DEF Waiting
<1>5. queue[i].tries < MaxAttempts
  BY <1>1, <1>4 DEF WorkerInv, OneIsHeld
<1>6. /\ job \in Job(R) /\ job.state = "running" /\ job.req = queue[i].req
      /\ job.tries >= 1
  <2>1. queue[i].tries \in 0 .. MaxAttempts /\ queue[i].req \in R
    BY <1>4 DEF Job
  <2>2. tries \in 0 .. MaxAttempts /\ tries >= 1
    BY <1>5, <2>1, PanelAssumption
  <2> HIDE DEF tries
  <2> QED BY <1>4, <2>1, <2>2 DEF Job
<1> HIDE DEF job, tries
<1>7. /\ queue' \in Seq(Job(R)) /\ DOMAIN queue' = 1 .. n
      /\ queue'[i] = job /\ \A k \in 1 .. n : k # i => queue'[k] = queue[k]
  BY <1>1, <1>3, <1>4, <1>6, ExceptSeq, LenProperties
<1>8. WorkerTypeOK(R, C)'
  BY <1>7 DEF WorkerInv, WorkerTypeOK, Claim, events, Job
<1>9. OneIsHeld'
  <2>1. pc' = "claimed" /\ \A k \in 1 .. n : queue[k].state # "running"
    BY <1>1 DEF WorkerInv, OneIsHeld, Claim
  <2>2. \A k \in DOMAIN queue' : queue'[k].state = "running" <=> k = i
    BY <1>6, <1>7, <2>1
  <2>3. \A k \in DOMAIN queue' : k # i => queue'[k].tries < MaxAttempts
    BY <1>1, <1>7, <2>1 DEF WorkerInv, OneIsHeld
  <2> QED BY <1>4, <1>6, <1>7, <2>1, <2>2, <2>3 DEF OneIsHeld
<1>10. WorkerInv(R, C)'
  BY <1>8, <1>9 DEF WorkerInv, Claim
<1>11. held' = queue[i].req
  <2>1. current' = i
    BY <1>4, <1>6, <1>7, <1>9 DEF OneIsHeld, current
  <2> QED BY <1>6, <1>7, <2>1 DEF held
<1>12. OldRequests
  BY <1>1, <1>4, <1>6, <1>7 DEF OldRequests
<1>13. i \notin Waiting'
  BY <1>6, <1>7 DEF Waiting
<1> QED BY <1>1, <1>2, <1>7, <1>10, <1>11, <1>12, <1>13

LEMMA GoesStep ==
  ASSUME NEW R, NEW C, WorkerInv(R, C), NEW from, NEW to \in {"claimed", "read", "calling"},
         from # "idle", Goes(from, to), call' \in C
  PROVE  WorkerInv(R, C)' /\ held' = held /\ OldRequests /\ Waiting' = Waiting
<1>1. WorkerTypeOK(R, C)'
  BY DEF WorkerInv, WorkerTypeOK, Goes, events
<1>2. OneIsHeld'
  BY DEF WorkerInv, OneIsHeld, Goes
<1>3. held' = held /\ OldRequests /\ Waiting' = Waiting
  BY DEF held, current, OldRequests, Waiting, Goes
<1> QED BY <1>1, <1>2, <1>3 DEF WorkerInv

LEMMA ReturnsStep ==
  ASSUME NEW R, NEW C, WorkerInv(R, C), pc # "idle", NEW good \in BOOLEAN, Returns(good),
         Fault \/ NoFault \/ Unsaved
  PROVE  WorkerInv(R, C)' /\ held' = held /\ OldRequests /\ Waiting' = Waiting
<1>1. troubles' \in 0 .. MaxTroubles /\ unsaved' \in BOOLEAN
  <2>1. troubles \in 0 .. MaxTroubles /\ unsaved \in BOOLEAN
    BY DEF WorkerInv, WorkerTypeOK
  <2>2. CASE NoFault
    BY <2>1, <2>2 DEF NoFault
  <2>3. CASE Fault \/ Unsaved
    BY <2>1, <2>3, Counted DEF Fault, Unsaved
  <2> QED BY <2>2, <2>3
<1>2. WorkerTypeOK(R, C)'
  BY <1>1 DEF WorkerInv, WorkerTypeOK, Returns
<1>3. OneIsHeld'
  BY DEF WorkerInv, OneIsHeld, Returns
<1>4. held' = held /\ OldRequests /\ Waiting' = Waiting
  BY DEF held, current, OldRequests, Waiting, Returns
<1> QED BY <1>2, <1>3, <1>4 DEF WorkerInv, Returns
(* Jobs that wait still do. *)
WaitingKept == \A i \in Waiting : \E k \in Waiting' : queue'[k].req = queue[i].req

LEMMA RequestsLetWait == Requested => WaitingKept
  BY DEF Requested, WaitingKept, Waiting, Unfinished

LEMMA SettleStep ==
  ASSUME NEW R, NEW C, WorkerInv(R, C), Settle
  PROVE  /\ WorkerInv(R, C)' /\ OldRequests /\ WaitingKept
         /\ Again => \E k \in Waiting' : queue'[k].req = held
<1> DEFINE i == current
           n == Len(queue)
<1>1. /\ n \in Nat /\ DOMAIN queue = 1 .. n /\ queue \in Seq(Job(R))
      /\ \A k \in 1 .. n : queue[k] \in Job(R)
      /\ i \in 1 .. n /\ queue[i].state = "running" /\ held = queue[i].req
      /\ \A k \in 1 .. n : k # i => queue[k].state # "running" /\ queue[k].tries < MaxAttempts
      /\ pc = "handled" /\ pc' = "idle"
      /\ UNCHANGED <<usable, ok, call, requests, troubles, unsaved, suspended>>
  <2>1. /\ n \in Nat /\ DOMAIN queue = 1 .. n /\ queue \in Seq(Job(R))
        /\ \A k \in 1 .. n : queue[k] \in Job(R)
    BY QueueIsJobs DEF WorkerInv
  <2>2. /\ pc = "handled" /\ pc' = "idle"
        /\ UNCHANGED <<usable, ok, call, requests, troubles, unsaved, suspended>>
    BY DEF Settle, events
  <2>3. /\ i \in DOMAIN queue /\ queue[i].state = "running"
        /\ \A k \in DOMAIN queue : queue[k].state = "running" => k = i
    BY <2>2, HeldIsJob
  <2> QED BY <2>1, <2>2, <2>3 DEF held, WorkerInv, OneIsHeld
<1> DEFINE Fine == \A k \in DOMAIN queue' :
                     queue'[k].state # "running" /\ queue'[k].tries < MaxAttempts
<1>2. ASSUME queue' \in Seq(Job(R)), Fine PROVE WorkerInv(R, C)'
  <2>1. WorkerTypeOK(R, C)'
    BY <1>1, <1>2 DEF WorkerInv, WorkerTypeOK, Job
  <2>2. OneIsHeld'
    BY <1>1, <1>2 DEF OneIsHeld
  <2> QED BY <1>1, <2>1, <2>2 DEF WorkerInv
<1>3. CASE Again
  <2> DEFINE job == [queue[i] EXCEPT !.state = "queued"]
  <2>1. queue' = [queue EXCEPT ![i] = job]
    BY <1>3 DEF Settle
  <2>2. /\ job \in Job(R) /\ job.state = "queued" /\ job.req = held
        /\ job.tries < MaxAttempts
    BY <1>1, <1>3 DEF Again, Job
  <2> HIDE DEF i, job, n
  <2>3. /\ queue' \in Seq(Job(R)) /\ DOMAIN queue' = 1 .. n
        /\ queue'[i] = job /\ \A k \in 1 .. n : k # i => queue'[k] = queue[k]
    BY <1>1, <2>1, <2>2, ExceptSeq, LenProperties
  <2>4. Fine
    BY <1>1, <2>2, <2>3
  <2>5. OldRequests /\ WaitingKept
    BY <1>1, <2>2, <2>3 DEF OldRequests, WaitingKept, Waiting
  <2>6. i \in Waiting' /\ queue'[i].req = held
    BY <1>1, <2>2, <2>3 DEF Waiting
  <2> QED BY <1>2, <2>3, <2>4, <2>5, <2>6
<1>4. CASE ~Again
  <2> DEFINE from(k) == IF k < i THEN k ELSE k + 1
  <2>1. queue' = RemoveAt(queue, i)
    BY <1>4 DEF Settle
  <2> HIDE DEF i
  <2>2. /\ queue' \in Seq(Job(R)) /\ DOMAIN queue' = 1 .. n - 1
        /\ \A k \in 1 .. n - 1 : queue'[k] = queue[from(k)]
    BY <1>1, <2>1, RemovedJob
  <2>3. \A k \in 1 .. n - 1 : from(k) \in 1 .. n /\ from(k) # i
    BY <1>1
  <2>4. \A j \in 1 .. n : j # i => \E k \in 1 .. n - 1 : from(k) = j
    <3> TAKE j \in 1 .. n
    <3>1. CASE j < i
      BY <1>1, <3>1
    <3>2. CASE j > i
      <4>1. j - 1 \in 1 .. n - 1 /\ from(j - 1) = j
        BY <1>1, <3>2
      <4> QED BY <4>1
    <3> QED BY <1>1, <3>1, <3>2
  <2> HIDE DEF from, n
  <2>5. Fine
    BY <1>1, <2>2, <2>3
  <2>6. OldRequests
    BY <1>1, <2>2, <2>3 DEF OldRequests
  <2>7. WaitingKept
    <3> SUFFICES ASSUME NEW j \in Waiting
                 PROVE  \E k \in Waiting' : queue'[k].req = queue[j].req
      BY DEF WaitingKept
    <3>1. j \in 1 .. n /\ j # i /\ queue[j].state = "queued"
      BY <1>1 DEF Waiting
    <3>2. PICK k \in 1 .. n - 1 : from(k) = j
      BY <2>4, <3>1
    <3>3. k \in Waiting' /\ queue'[k] = queue[j]
      BY <2>2, <3>1, <3>2 DEF Waiting
    <3> QED BY <3>3
  <2> QED BY <1>2, <1>4, <2>2, <2>5, <2>6, <2>7
<1> QED BY <1>3, <1>4

LEMMA DieStep ==
  ASSUME NEW R, NEW C, WorkerInv(R, C), Die
  PROVE  /\ WorkerInv(R, C)' /\ OldRequests /\ WaitingKept
         /\ pc # "idle" => \E k \in Waiting' : queue'[k].req = held
<1> DEFINE n == Len(queue)
<1>1. /\ n \in Nat /\ DOMAIN queue = 1 .. n /\ queue \in Seq(Job(R))
      /\ \A k \in 1 .. n : queue[k] \in Job(R)
  BY QueueIsJobs DEF WorkerInv
<1>2. \A k \in 1 .. n :
        /\ queue[k].state \in {"queued", "running"}
        /\ queue[k].state = "running" => queue[k].tries - 1 \in 0 .. MaxAttempts
        /\ queue[k].state = "running" => queue[k].tries - 1 < MaxAttempts
        /\ queue[k].state = "queued" => queue[k].tries < MaxAttempts
  <2> TAKE k \in 1 .. n
  <2>1. queue[k].state \in {"queued", "running"} /\ queue[k].tries \in 0 .. MaxAttempts
    BY <1>1 DEF Die, Job
  <2>2. IF queue[k].state = "running" THEN queue[k].tries >= 1 ELSE queue[k].tries < MaxAttempts
    BY <1>1 DEF WorkerInv, OneIsHeld
  <2> QED BY <2>1, <2>2, PanelAssumption
<1> DEFINE tries(k) == IF queue[k].state = "running" THEN queue[k].tries - 1
                                                     ELSE queue[k].tries
           job(k) == IF queue[k].state = "running"
                       THEN [queue[k] EXCEPT !.state = "queued", !.tries = tries(k)]
                       ELSE queue[k]
<1>3. \A k \in 1 .. n : tries(k) \in 0 .. MaxAttempts /\ tries(k) < MaxAttempts
  BY <1>1, <1>2 DEF Job
<1>4. DOMAIN queue' = 1 .. n /\ \A k \in 1 .. n : queue'[k] = job(k)
  BY <1>1 DEF Die, RecoverJobs
<1>5. \A k \in 1 .. n : /\ job(k) \in Job(R) /\ job(k).state = "queued"
                        /\ job(k).req = queue[k].req /\ job(k).tries < MaxAttempts
  <2> TAKE k \in 1 .. n
  <2>1. CASE queue[k].state = "running"
    <3> HIDE DEF tries, n
    <3> QED BY <1>1, <1>3, <2>1 DEF Job
  <2>2. CASE queue[k].state = "queued"
    BY <1>1, <1>2, <2>2
  <2> QED BY <1>2, <2>1, <2>2
<1> HIDE DEF tries
<1>6. queue' \in Seq(Job(R))
  <2>1. queue' \in [1 .. n -> Job(R)]
    <3> HIDE DEF job, n
    <3> QED BY <1>1, <1>4, <1>5 DEF Die, RecoverJobs
  <2> QED BY <1>1, <2>1, SeqDef
<1>7. \A k \in DOMAIN queue' : /\ queue'[k].state = "queued" /\ queue'[k].tries < MaxAttempts
                               /\ queue'[k].req = queue[k].req
  <2> HIDE DEF job, n
  <2> QED BY <1>4, <1>5
<1>8. /\ pc' = "idle" /\ call' = None /\ troubles' \in 0 .. MaxTroubles
      /\ UNCHANGED <<usable, ok, requests, unsaved, suspended>>
  BY Counted DEF Die
<1>9. WorkerTypeOK(R, C)'
  BY <1>6, <1>8 DEF WorkerInv, WorkerTypeOK, Job
<1>10. OneIsHeld'
  BY <1>7, <1>8 DEF OneIsHeld
<1>11. OldRequests /\ WaitingKept
  BY <1>1, <1>4, <1>7 DEF OldRequests, WaitingKept, Waiting
<1>12. ASSUME pc # "idle" PROVE \E k \in Waiting' : queue'[k].req = held
  <2>1. current \in DOMAIN queue'
    BY <1>1, <1>4, <1>12, HeldIsJob
  <2> QED BY <1>7, <2>1 DEF held, Waiting
<1> QED BY <1>8, <1>9, <1>10, <1>11, <1>12 DEF WorkerInv
-------------------------------------------------------------------------------
(* Tasks. *)

(* Entries are those of the enabled tasks, or none as the account has been *)
(* disabled meanwhile.                                                     *)
UpToDate(entries) ==
  entries = EnabledTasks \/ (suspended /\ entries = [t \in Task |-> None])

(* As long as no task.sync waits, what is being installed is up to date,   *)
(* and after the last one the rows and the crontab say how it ended: a     *)
(* change of the rows comes with a job of its own.                         *)
LastSyncCounts ==
  /\ ~usable => suspended
  /\ Waiting = {} /\ pc = "calling" => UpToDate(call)
  /\ Waiting = {} /\ pc \in {"idle", "handled"} =>
       IF ok
       THEN /\ \A t \in TaskRows :
                 task[t].status = IF task[t].enabled THEN "active" ELSE "disabled"
            /\ UpToDate(crontab)
       ELSE unsaved \/ \A t \in TaskRows : task[t].status = "error"

TaskInv ==
  /\ WorkerInv(TaskRequest, Entries)
  /\ task \in [Task -> TaskRow]
  /\ crontab \in Entries
  /\ LastSyncCounts

LEMMA TaskInvInit == WorkerInit /\ TaskInit => TaskInv
<1> SUFFICES ASSUME WorkerInit, TaskInit PROVE TaskInv
  OBVIOUS
<1>1. WorkerInv(TaskRequest, Entries)
  BY WorkerInitInv
<1>2. task \in [Task -> TaskRow] /\ crontab \in Entries
  BY DEF TaskInit, NoTask, TaskRow, Entries
<1>3. TaskRows = {} /\ crontab = EnabledTasks
  BY DEF TaskInit, NoTask, TaskRows, EnabledTasks
<1>4. LastSyncCounts
  BY <1>3 DEF WorkerInit, LastSyncCounts, UpToDate
<1> QED BY <1>1, <1>2, <1>4 DEF TaskInv

(* A step of a request that leaves the tables alone. *)
LEMMA TasksLeftAlone ==
  ASSUME TaskInv, WorkerInv(TaskRequest, Entries)', Requested, UNCHANGED taskVars,
         UNCHANGED <<call, ok, unsaved>>, suspended => suspended', ~usable' => suspended'
  PROVE  TaskInv'
<1>1. Waiting' = {} => Waiting = {}
  BY RequestsLetWait DEF WaitingKept
<1>2. TaskRows' = TaskRows /\ EnabledTasks' = EnabledTasks
  BY DEF taskVars, TaskRows, EnabledTasks
<1>3. LastSyncCounts'
  BY <1>1, <1>2 DEF TaskInv, LastSyncCounts, UpToDate, Requested, taskVars
<1> QED BY <1>3 DEF TaskInv, taskVars

LEMMA CommitTaskTypes ==
  ASSUME task \in [Task -> TaskRow], NEW r \in TaskRequest, CommitTask(r)
  PROVE  task' \in [Task -> TaskRow]
<1>1. CASE CommitCreateTask(r)
  BY <1>1 DEF CommitCreateTask, CreateScheduledTask, TaskRow, TaskRequest
<1>2. CASE CommitUpdateTask(r)
  BY <1>2 DEF CommitUpdateTask, UpdateScheduledTask, TaskRow, TaskRequest
<1>3. CASE CommitDeleteTask(r)
  BY <1>3 DEF CommitDeleteTask, DeleteScheduledTask, NoTask, TaskRow, TaskRequest
<1> QED BY <1>1, <1>2, <1>3 DEF CommitTask

LEMMA TaskRequestsStep ==
  ASSUME TaskInv, TaskRequests
  PROVE  TaskInv'
<1> USE DEF TaskInv
<1>1. ASSUME NEW r \in TaskRequest, Ask(r), UNCHANGED taskVars
      PROVE  TaskInv'
  <2>1. WorkerInv(TaskRequest, Entries)' /\ Requested
    BY <1>1, AskStep
  <2> QED BY <1>1, <2>1, TasksLeftAlone DEF Ask, LastSyncCounts
<1>2. ASSUME NEW t \in Task, NEW enabled \in BOOLEAN, NEW text \in Text,
             AskCreateTask(t, enabled, text) \/ AskUpdateTask(t, enabled, text),
             UNCHANGED taskVars
      PROVE  TaskInv'
  <2>1. \E kind \in {"create", "update"} : AskTask(kind, t, enabled, text)
    BY <1>2 DEF AskCreateTask, AskUpdateTask
  <2> QED BY <1>1, <1>2, <2>1 DEF AskTask, TaskRequest
<1>3. ASSUME NEW t \in Task, AskDeleteTask(t), UNCHANGED taskVars
      PROVE  TaskInv'
  BY <1>1, <1>3 DEF AskDeleteTask, AskTask, TaskRequest
<1>4. ASSUME NEW i \in DOMAIN queue, Accept(i), CommitTask(queue[i].req), UNCHANGED crontab
      PROVE  TaskInv'
  <2>1. /\ WorkerInv(TaskRequest, Entries)' /\ Requested
        /\ Waiting' # {}
    BY <1>4, AcceptStep
  <2>2. queue[i].req \in TaskRequest
    BY QueueIsJobs DEF WorkerInv, Job
  <2>3. task' \in [Task -> TaskRow] /\ crontab' \in Entries
    BY <1>4, <2>2, CommitTaskTypes
  <2>4. LastSyncCounts'
    BY <1>4, <2>1 DEF LastSyncCounts, Accept, events
  <2> QED BY <2>1, <2>3, <2>4
<1>5. ASSUME NEW i \in DOMAIN queue, Withdraw(i), UNCHANGED taskVars
      PROVE  TaskInv'
  <2>1. WorkerInv(TaskRequest, Entries)' /\ Requested
    BY <1>5, WithdrawStep
  <2> QED BY <1>5, <2>1, TasksLeftAlone DEF Withdraw, LastSyncCounts, events
<1>6. ASSUME Suspend \/ Resume, UNCHANGED taskVars
      PROVE  TaskInv'
  <2>1. WorkerInv(TaskRequest, Entries)' /\ Requested
    BY <1>6, SuspendStep
  <2>2. /\ UNCHANGED <<call, ok, unsaved>>
        /\ (suspended => suspended') /\ (~usable' => suspended')
    BY <1>6 DEF Suspend, Resume, LastSyncCounts, events
  <2> QED BY <1>6, <2>1, <2>2, TasksLeftAlone
<1> QED BY <1>2, <1>3, <1>4, <1>5, <1>6 DEF TaskRequests
LEMMA CallTasksStep == ASSUME TaskInv, CallTasks PROVE TaskInv'
<1> USE DEF TaskInv
<1>1. Wanted \in Entries
  BY DEF Wanted, EnabledTasks, Entries, TaskRows, TaskRow
<1>2. WorkerInv(TaskRequest, Entries)' /\ Waiting' = Waiting
  BY <1>1, GoesStep DEF CallTasks
<1>3. EnabledTasks' = EnabledTasks /\ TaskRows' = TaskRows
  BY DEF CallTasks, taskVars, TaskRows, EnabledTasks
<1>4. UpToDate(Wanted)
  BY DEF Wanted, UpToDate, LastSyncCounts
<1>5. LastSyncCounts'
  BY <1>2, <1>3, <1>4 DEF LastSyncCounts, UpToDate, CallTasks, Goes, events
<1> QED BY <1>2, <1>5 DEF CallTasks, taskVars

LEMMA StatusesTypes ==
  ASSUME task \in [Task -> TaskRow],
         NEW enabled \in {"active", "disabled", "error"},
         NEW disabled \in {"active", "disabled", "error"},
         UpdateAccountTaskStatuses(enabled, disabled)
  PROVE  /\ task' \in [Task -> TaskRow]
         /\ TaskRows' = TaskRows /\ EnabledTasks' = EnabledTasks
         /\ \A t \in TaskRows : /\ task'[t].enabled = task[t].enabled
                                /\ task'[t].status = IF task[t].enabled THEN enabled
                                                                        ELSE disabled
<1>1. \A t \in Task : /\ task'[t] \in TaskRow
                      /\ task'[t].enabled = task[t].enabled /\ task'[t].text = task[t].text
                      /\ IF t \in TaskRows
                         THEN task'[t].status = IF task[t].enabled THEN enabled ELSE disabled
                         ELSE task'[t].status = task[t].status
  <2> TAKE t \in Task
  <2>1. task[t] \in TaskRow
    OBVIOUS
  <2>2. CASE t \in TaskRows /\ task[t].enabled
    BY <2>1, <2>2 DEF UpdateAccountTaskStatuses, TaskRow
  <2>3. CASE t \in TaskRows /\ ~task[t].enabled
    BY <2>1, <2>3 DEF UpdateAccountTaskStatuses, TaskRow
  <2>4. CASE t \notin TaskRows
    BY <2>1, <2>4 DEF UpdateAccountTaskStatuses
  <2> QED BY <2>2, <2>3, <2>4
<1>2. DOMAIN task' = Task /\ task' \in [Task -> TaskRow]
  BY <1>1 DEF UpdateAccountTaskStatuses
<1>3. TaskRows' = TaskRows
  <2>1. \A t \in TaskRows : task'[t].status \notin {"none", "deleted"}
    BY <1>1 DEF TaskRows
  <2> QED BY <1>1, <2>1 DEF TaskRows
<1>4. EnabledTasks' = EnabledTasks
  BY <1>1, <1>3 DEF EnabledTasks
<1>5. \A t \in TaskRows : t \in Task
  BY DEF TaskRows
<1> QED BY <1>1, <1>2, <1>3, <1>4, <1>5

LEMMA HandleTasksStep == ASSUME TaskInv, HandleTasks PROVE TaskInv'
<1> USE DEF TaskInv
<1>1. pc = "calling" /\ call \in Entries
  BY DEF HandleTasks, WorkerInv
<1>2. crontab' \in Entries
  BY <1>1 DEF HandleTasks, Install
<1>3. CASE Install /\ NoFault /\ Returns(TRUE) /\ UpdateAccountTaskStatuses("active", "disabled")
  <2>1. WorkerInv(TaskRequest, Entries)' /\ Waiting' = Waiting
    BY <1>1, <1>3, ReturnsStep
  <2>2. /\ task' \in [Task -> TaskRow]
        /\ TaskRows' = TaskRows /\ EnabledTasks' = EnabledTasks
        /\ \A t \in TaskRows : /\ task'[t].enabled = task[t].enabled
                               /\ task'[t].status = IF task[t].enabled THEN "active"
                                                                       ELSE "disabled"
    BY <1>3, StatusesTypes
  <2>3. Waiting' = {} => UpToDate(crontab)'
    BY <1>1, <1>3, <2>1, <2>2 DEF LastSyncCounts, UpToDate, Install, Returns
  <2>4. LastSyncCounts'
    BY <1>1, <1>3, <2>1, <2>2, <2>3 DEF LastSyncCounts, Returns
  <2> QED BY <1>2, <2>1, <2>2, <2>4
<1>4. CASE /\ Returns(FALSE) /\ UpdateAccountTaskStatuses("error", "error")
           /\ Fault \/ NoFault
  <2>1. WorkerInv(TaskRequest, Entries)' /\ Waiting' = Waiting
    BY <1>1, <1>4, ReturnsStep
  <2>2. /\ task' \in [Task -> TaskRow] /\ TaskRows' = TaskRows
        /\ \A t \in TaskRows : task'[t].status = "error"
    BY <1>4, StatusesTypes
  <2>3. LastSyncCounts'
    BY <1>1, <1>4, <2>1, <2>2 DEF LastSyncCounts, Returns
  <2> QED BY <1>2, <2>1, <2>2, <2>3
<1> QED BY <1>3, <1>4 DEF HandleTasks

(* A handler that ends with a failing statement. *)
LEMMA TasksUnsaved ==
  ASSUME TaskInv, pc # "idle", Unsaved, Returns(FALSE), UNCHANGED task, crontab' \in Entries
  PROVE  TaskInv'
<1> USE DEF TaskInv
<1>1. WorkerInv(TaskRequest, Entries)' /\ Waiting' = Waiting
  BY ReturnsStep
<1>2. LastSyncCounts'
  BY <1>1 DEF LastSyncCounts, Returns, Unsaved
<1> QED BY <1>1, <1>2

LEMMA TasksFailStep == ASSUME TaskInv, ReadTasksFails \/ HandleTasksUnsaved PROVE TaskInv'
<1>1. CASE ReadTasksFails
  BY <1>1, TasksUnsaved DEF ReadTasksFails, taskVars, TaskInv
<1>2. CASE HandleTasksUnsaved
  BY <1>2, TasksUnsaved DEF HandleTasksUnsaved, Install, TaskInv, WorkerInv
<1> QED BY <1>1, <1>2

LEMMA TaskClaimSettleStep ==
  ASSUME TaskInv, Claim \/ Settle, UNCHANGED taskVars
  PROVE  TaskInv'
<1> USE DEF TaskInv
<1>1. CASE Claim
  <2>1. WorkerInv(TaskRequest, Entries)'
    BY <1>1, ClaimStep
  <2>2. LastSyncCounts'
    BY <1>1 DEF LastSyncCounts, Claim, events
  <2> QED BY <2>1, <2>2 DEF taskVars
<1>2. CASE Settle
  <2>1. /\ WorkerInv(TaskRequest, Entries)'
        /\ Waiting' = {} => Waiting = {}
    BY <1>2, SettleStep DEF WaitingKept
  <2>2. TaskRows' = TaskRows /\ EnabledTasks' = EnabledTasks
    BY DEF taskVars, TaskRows, EnabledTasks
  <2>3. LastSyncCounts'
    BY <1>2, <2>1, <2>2 DEF LastSyncCounts, UpToDate, Settle, events, taskVars
  <2> QED BY <2>1, <2>3 DEF taskVars
<1> QED BY <1>1, <1>2

LEMMA DieWithTasksStep == ASSUME TaskInv, DieWithTasks PROVE TaskInv'
<1> USE DEF TaskInv
<1>1. /\ WorkerInv(TaskRequest, Entries)' /\ WaitingKept
      /\ pc # "idle" => Waiting' # {}
  BY DieStep DEF DieWithTasks
<1>2. crontab' \in Entries /\ task' = task
  BY DEF DieWithTasks, Install, WorkerInv
<1>3. CASE pc # "idle"
  <2>1. LastSyncCounts'
    BY <1>1, <1>3 DEF LastSyncCounts, DieWithTasks, Die
  <2> QED BY <1>1, <1>2, <2>1
<1>4. CASE pc = "idle"
  <2>1. TaskRows' = TaskRows /\ EnabledTasks' = EnabledTasks /\ crontab' = crontab
    BY <1>2, <1>4 DEF TaskRows, EnabledTasks, DieWithTasks
  <2>2. Waiting' = {} => Waiting = {}
    BY <1>1 DEF WaitingKept
  <2>3. LastSyncCounts'
    BY <1>2, <1>4, <2>1, <2>2 DEF LastSyncCounts, UpToDate, DieWithTasks, Die
  <2> QED BY <1>1, <1>2, <2>3
<1> QED BY <1>3, <1>4

LEMMA TaskNextStep == ASSUME TaskInv, TaskNext PROVE TaskInv'
  BY TaskRequestsStep, CallTasksStep, HandleTasksStep, TasksFailStep, TaskClaimSettleStep,
     DieWithTasksStep DEF TaskNext, TaskWorker
-------------------------------------------------------------------------------
(* Accounts. *)

Provisions == {"account.create", "account.enable", "account.disable", "account.delete"}

(* The rows; an account that is there has a package that is there.         *)
AccountRowsFine ==
  /\ account \in [Account -> AccountRow]
  /\ package \in [Package -> Limit \cup {None}]
  /\ linux \in [Account -> [user : BOOLEAN, home : Home]]
  /\ \A a \in AccountRows : account[a].package \in PackageRows

(* Jobs are those of an account's Linux user, and the Agent is asked for   *)
(* what the job is about, whose row is there.                              *)
CallIsHeld ==
  /\ \A i \in DOMAIN queue : queue[i].state # "asked" => queue[i].req.kind \in Provisions
  /\ pc = "calling" => /\ call = [op |-> held.kind, account |-> held.account]
                       /\ held.account \in AccountRows

(* Something is still to be done for an account, by a job that waits or by *)
(* the one the worker holds and whose outcome is not stored.               *)
Busy(a) ==
  \/ \E i \in Waiting : queue[i].req.account = a
  \/ pc \in {"claimed", "calling"} /\ held.account = a

(* The host is as the row of the account says. *)
AsShown(a) ==
  /\ account[a].status = "active" => linux[a] = [user |-> TRUE, home |-> "open"]
  /\ account[a].status = "disabled" => linux[a] = [user |-> TRUE, home |-> "locked"]

ShownUnlessBusy ==
  /\ ~unsaved => \A a \in Account : ~Busy(a) => AsShown(a)
  /\ \A a \in Account : linux[a].user => a \in AccountRows

AccountInv ==
  /\ WorkerInv(AccountRequest, AccountCall)
  /\ AccountRowsFine
  /\ CallIsHeld
  /\ ShownUnlessBusy

LEMMA AccountInvInit == WorkerInit /\ AccountInit => AccountInv
<1> SUFFICES ASSUME WorkerInit, AccountInit PROVE AccountInv
  OBVIOUS
<1>1. WorkerInv(AccountRequest, AccountCall)
  BY WorkerInitInv
<1>2. PICK inUse \in SUBSET Account, p \in Package :
        /\ account = [a \in Account |->
             IF a \in inUse
             THEN [status |-> "active", enabled |-> TRUE, package |-> p, used |-> 0]
             ELSE NoAccount]
        /\ linux = [a \in Account |-> IF a \in inUse THEN [user |-> TRUE, home |-> "open"]
                                      ELSE [user |-> FALSE, home |-> "none"]]
  BY DEF AccountInit
<1>3. account \in [Account -> AccountRow] /\ linux \in [Account -> [user : BOOLEAN, home : Home]]
  BY <1>2 DEF NoAccount, AccountRow, Present, Home
<1>4. package \in [Package -> Limit \cup {None}] /\ PackageRows = Package
  BY AccountAssumption DEF AccountInit, PackageRows
<1>5. AccountRows = inUse
  BY <1>2 DEF AccountRows, NoAccount, Present
<1>6. AccountRowsFine
  BY <1>2, <1>3, <1>4, <1>5 DEF AccountRowsFine
<1>7. CallIsHeld /\ ShownUnlessBusy
  BY <1>2, <1>5 DEF WorkerInit, CallIsHeld, ShownUnlessBusy, AsShown, NoAccount
<1> QED BY <1>1, <1>6, <1>7 DEF AccountInv
LEMMA BusyStays ==
  ASSUME NEW R, NEW C, WorkerInv(R, C), Requested, NEW a, Busy(a)
  PROVE  Busy(a)'
<1>1. CASE \E i \in Waiting : queue[i].req.account = a
  BY <1>1, RequestsLetWait DEF WaitingKept, Busy
<1>2. CASE pc \in {"claimed", "calling"} /\ held.account = a
  <2>1. held' = held /\ pc' = pc
    BY <1>2, HeldIsKept DEF Requested
  <2> QED BY <1>2, <2>1 DEF Busy
<1> QED BY <1>1, <1>2 DEF Busy

(* A step of a request: what it changes of the rows keeps them fine, and   *)
(* an account it makes look other than the host has become busy.           *)
LEMMA AccountRequestStep ==
  ASSUME AccountInv, WorkerInv(AccountRequest, AccountCall)', Requested,
         UNCHANGED <<call, unsaved, linux>>,
         \A k \in DOMAIN queue' : queue'[k].state # "asked" => queue'[k].req.kind \in Provisions,
         AccountRowsFine', AccountRows \subseteq AccountRows',
         \A a \in Account : account'[a].status = account[a].status \/ Busy(a)'
  PROVE  AccountInv'
<1> USE DEF AccountInv
<1>1. CallIsHeld'
  <2>1. ASSUME pc' = "calling"
        PROVE  held' = held /\ pc = "calling"
    BY <2>1, HeldIsKept DEF Requested
  <2> QED BY <2>1 DEF CallIsHeld
<1>2. ShownUnlessBusy'
  <2>1. ASSUME ~unsaved', NEW a \in Account, ~Busy(a)'
        PROVE  AsShown(a)'
    <3>1. ~Busy(a)
      BY <2>1, BusyStays
    <3> QED BY <2>1, <3>1 DEF ShownUnlessBusy, AsShown
  <2> QED BY <2>1 DEF ShownUnlessBusy
<1> QED BY <1>1, <1>2

(* Requests that change nothing but the queue. *)
LEMMA AccountAsks ==
  ASSUME AccountInv, NEW r \in AccountRequest, Ask(r), UNCHANGED accountVars
  PROVE  AccountInv'
<1> USE DEF AccountInv
<1>1. /\ WorkerInv(AccountRequest, AccountCall)' /\ Requested
      /\ \A k \in DOMAIN queue' : \/ queue'[k].req = r /\ queue'[k].state = "asked"
                                  \/ k \in DOMAIN queue /\ queue'[k] = queue[k]
  BY AskStep
<1>2. AccountRowsFine' /\ AccountRows' = AccountRows
  BY DEF AccountRowsFine, AccountRows, PackageRows, accountVars
<1>3. \A k \in DOMAIN queue' : queue'[k].state # "asked" => queue'[k].req.kind \in Provisions
  BY <1>1 DEF CallIsHeld
<1>4. UNCHANGED <<call, unsaved, linux, account>>
  BY DEF Ask, accountVars
<1> QED BY <1>1, <1>2, <1>3, <1>4, AccountRequestStep

LEMMA AccountAsksStep ==
  ASSUME AccountInv, UNCHANGED accountVars, NEW a \in Account,
         \/ \E p \in Package : AskCreateAccount(a, p) \/ AskAssignPackage(a, p)
         \/ \E kind \in {"account.enable", "account.disable"} : AskSetAccount(a, kind)
         \/ AskDeleteAccount(a) \/ AskResource(a)
  PROVE  AccountInv'
<1>1. \E r \in AccountRequest : Ask(r)
  BY DEF AskCreateAccount, AskAssignPackage, AskSetAccount, AskDeleteAccount, AskResource,
         AskAccount, AccountRequest
<1> QED BY <1>1, AccountAsks

(* Accept with the transaction of an account's job. *)
LEMMA AccountAcceptStep ==
  ASSUME AccountInv, NEW i \in DOMAIN queue, NEW r \in AccountRequest, r = queue[i].req,
         Accept(i), CommitAccount(r), UNCHANGED <<package, linux>>
  PROVE  AccountInv'
<1> USE DEF AccountInv
<1>1. /\ WorkerInv(AccountRequest, AccountCall)' /\ Requested
      /\ \A k \in DOMAIN queue' : \E j \in DOMAIN queue :
           /\ queue'[k].req = queue[j].req
           /\ queue'[k].state # "asked" => queue[j].state # "asked" \/ j = i
      /\ \E k \in Waiting' : queue'[k].req = r
  BY AcceptStep
<1>2. r.account \in Account
  BY DEF AccountRequest
<1>3. Busy(r.account)'
  <2>1. PICK k \in Waiting' : queue'[k].req = r
    BY <1>1
  <2> QED BY <2>1 DEF Busy
<1>4. r.kind \in Provisions
  BY DEF CommitAccount, CommitCreateAccount, CommitAccountAction, Provisions
<1>5. \A k \in DOMAIN queue' : queue'[k].state # "asked" => queue'[k].req.kind \in Provisions
  BY <1>1, <1>4 DEF CallIsHeld
<1>6. /\ AccountRowsFine' /\ AccountRows \subseteq AccountRows'
      /\ \A a \in Account : a # r.account => account'[a] = account[a]
  <2>1. CASE CommitCreateAccount(r)
    <3>1. account' = [account EXCEPT ![r.account] =
            [status |-> "pending", enabled |-> TRUE, package |-> r.package, used |-> 0]]
      BY <2>1 DEF CommitCreateAccount, CreateAccount
    <3>2. r.package \in PackageRows /\ r.package \in Package
      BY <2>1 DEF CommitCreateAccount, PackageRows
    <3>3. account' \in [Account -> AccountRow]
      BY <1>2, <3>1, <3>2 DEF AccountRowsFine, AccountRow, Present
    <3> QED BY <1>2, <3>1, <3>2, <3>3 DEF AccountRowsFine, AccountRows, PackageRows, Present
  <2>2. CASE CommitAccountAction(r)
    <3>1. /\ account' = [account EXCEPT ![r.account].status = "pending",
                                        ![r.account].enabled = (r.kind = "account.enable")]
          /\ r.account \in AccountRows
      BY <2>2 DEF CommitAccountAction, QueueAccountAction
    <3>2. /\ account' \in [Account -> AccountRow]
          /\ \A a \in Account : a # r.account => account'[a] = account[a]
          /\ account'[r.account].status = "pending"
          /\ account'[r.account].package = account[r.account].package
      <4> DEFINE b == account[r.account]
                 c == [b EXCEPT !.status = "pending", !.enabled = (r.kind = "account.enable")]
      <4>1. account \in [Account -> AccountRow] /\ b \in AccountRow
        BY <1>2 DEF AccountRowsFine
      <4>2. c \in AccountRow /\ c.status = "pending" /\ c.package = b.package
        BY <4>1 DEF AccountRow, Present
      <4>3. account' = [account EXCEPT ![r.account] = c]
        BY <1>2, <3>1, <4>1 DEF AccountRow
      <4> HIDE DEF b, c
      <4> QED BY <1>2, <4>1, <4>2, <4>3 DEF b
    <3>3. AccountRows' = AccountRows
      BY <1>2, <3>1, <3>2 DEF AccountRows, Present
    <3>4. \A a \in AccountRows : account'[a].package = account[a].package
      BY <3>2 DEF AccountRows
    <3>5. AccountRowsFine'
      BY <3>2, <3>3, <3>4 DEF AccountRowsFine, PackageRows
    <3> QED BY <3>2, <3>3, <3>5
  <2> QED BY <2>1, <2>2 DEF CommitAccount
<1>7. UNCHANGED <<call, unsaved>>
  BY DEF Accept, events
<1> QED BY <1>1, <1>2, <1>3, <1>5, <1>6, <1>7, AccountRequestStep
(* Requests answered in their transaction: a resource is made, or another  *)
(* package assigned.                                                       *)
LEMMA RowKept ==
  ASSUME AccountRowsFine, NEW a \in AccountRows, UNCHANGED <<package, linux>>,
         \/ \E n \in Nat : account' = [account EXCEPT ![a].used = n]
         \/ \E p \in PackageRows : account' = [account EXCEPT ![a].package = p]
  PROVE  /\ AccountRowsFine' /\ AccountRows' = AccountRows
         /\ \A b \in Account : account'[b].status = account[b].status
<1>1. a \in Account /\ account[a] \in AccountRow
  BY DEF AccountRows, AccountRowsFine
<1>2. /\ account' \in [Account -> AccountRow]
      /\ \A b \in Account : account'[b].status = account[b].status
      /\ \A b \in Account : \/ account'[b].package = account[b].package
                            \/ account'[b].package \in PackageRows
  <2>1. CASE \E n \in Nat : account' = [account EXCEPT ![a].used = n]
    <3>1. PICK n \in Nat : account' = [account EXCEPT ![a].used = n]
      BY <2>1
    <3>2. [account[a] EXCEPT !.used = n] \in AccountRow
      BY <1>1 DEF AccountRow
    <3>3. account' \in [Account -> AccountRow]
      BY <1>1, <3>1, <3>2 DEF AccountRowsFine
    <3> QED BY <1>1, <3>1, <3>3 DEF AccountRowsFine, AccountRow
  <2>2. CASE \E p \in PackageRows : account' = [account EXCEPT ![a].package = p]
    <3>1. PICK p \in PackageRows : account' = [account EXCEPT ![a].package = p]
      BY <2>2
    <3>2. [account[a] EXCEPT !.package = p] \in AccountRow
      BY <1>1, <3>1 DEF AccountRow, PackageRows
    <3>3. account' \in [Account -> AccountRow]
      BY <1>1, <3>1, <3>2 DEF AccountRowsFine
    <3> QED BY <1>1, <3>1, <3>3 DEF AccountRowsFine, AccountRow
  <2> QED BY <2>1, <2>2
<1>3. AccountRows' = AccountRows
  BY <1>2 DEF AccountRows
<1>4. PackageRows' = PackageRows
  BY DEF PackageRows
<1>5. \A b \in AccountRows : account'[b].package \in PackageRows
  BY <1>2 DEF AccountRowsFine, AccountRows
<1>6. AccountRowsFine'
  BY <1>2, <1>3, <1>4, <1>5 DEF AccountRowsFine
<1> QED BY <1>2, <1>3, <1>6

LEMMA AccountAnsweredStep ==
  ASSUME AccountInv, NEW i \in DOMAIN queue, NEW r \in AccountRequest, r = queue[i].req,
         \/ Withdraw(i) /\ UNCHANGED accountVars
         \/ /\ Answered(i) /\ UNCHANGED <<package, linux>>
            /\ CommitResource(r) \/ CommitAssign(r)
  PROVE  AccountInv'
<1> USE DEF AccountInv
<1>1. /\ WorkerInv(AccountRequest, AccountCall)' /\ Requested /\ OldRequests
      /\ UNCHANGED <<call, unsaved, linux>>
  <2>1. CASE Withdraw(i) /\ UNCHANGED accountVars
    BY <2>1, WithdrawStep DEF Withdraw, events, accountVars
  <2>2. CASE Answered(i) /\ UNCHANGED <<package, linux>>
    BY <2>2, AnsweredStep DEF Answered, events
  <2> QED BY <2>1, <2>2
<1>2. \A k \in DOMAIN queue' : queue'[k].state # "asked" => queue'[k].req.kind \in Provisions
  BY <1>1 DEF CallIsHeld, OldRequests
<1>3. /\ AccountRowsFine' /\ AccountRows' = AccountRows
      /\ \A a \in Account : account'[a].status = account[a].status
  <2>1. CASE UNCHANGED accountVars
    BY <2>1 DEF AccountRowsFine, AccountRows, PackageRows, accountVars
  <2>2. CASE CommitResource(r) /\ UNCHANGED <<package, linux>>
    <3>1. r.account \in AccountRows
      BY <2>2 DEF CommitResource, RequireCapacity
    <3>2. account[r.account].used + 1 \in Nat
      BY <3>1 DEF AccountRows, AccountRowsFine, AccountRow
    <3>3. \E n \in Nat : account' = [account EXCEPT ![r.account].used = n]
      BY <2>2, <3>2 DEF CommitResource
    <3> QED BY <2>2, <3>1, <3>3, RowKept
  <2>3. CASE CommitAssign(r) /\ UNCHANGED <<package, linux>>
    <3>1. /\ r.account \in AccountRows /\ r.package \in PackageRows
          /\ account' = [account EXCEPT ![r.account].package = r.package]
      BY <2>3 DEF CommitAssign, AssignAccountPackage
    <3> QED BY <2>3, <3>1, RowKept
  <2> QED BY <2>1, <2>2, <2>3
<1> QED BY <1>1, <1>2, <1>3, AccountRequestStep

(* Requests that leave the queue alone. *)
LEMMA RemoveResourceStep ==
  ASSUME AccountInv, NEW a \in Account, RemoveResource(a)
  PROVE  AccountInv'
<1> USE DEF AccountInv
<1>1. /\ UNCHANGED <<usable, queue, pc, ok, call, requests, troubles, unsaved, suspended>>
      /\ UNCHANGED <<package, linux>> /\ a \in AccountRows
  BY DEF RemoveResource, workerVars, events
<1>2. WorkerInv(AccountRequest, AccountCall)' /\ Requested
  BY <1>1 DEF WorkerInv, WorkerTypeOK, OneIsHeld, Requested, Unfinished
<1>3. account[a].used - 1 \in Nat
  BY DEF RemoveResource, AccountRowsFine, AccountRow
<1>4. \E n \in Nat : account' = [account EXCEPT ![a].used = n]
  BY <1>3 DEF RemoveResource
<1>6. /\ AccountRowsFine' /\ AccountRows' = AccountRows
      /\ \A b \in Account : account'[b].status = account[b].status
  BY <1>1, <1>4, RowKept
<1>7. \A k \in DOMAIN queue' : queue'[k].state # "asked" => queue'[k].req.kind \in Provisions
  BY <1>1 DEF CallIsHeld
<1> QED BY <1>1, <1>2, <1>6, <1>7, AccountRequestStep

LEMMA ChangePackageStep ==
  ASSUME AccountInv, ChangePackage
  PROVE  AccountInv'
<1> USE DEF AccountInv
<1>1. /\ UNCHANGED <<account, linux, usable, queue, pc, ok, call, troubles, unsaved, suspended>>
      /\ requests' = requests + 1 /\ requests < MaxRequests
  BY DEF ChangePackage
<1>2. requests' \in 0 .. MaxRequests
  BY <1>1, PanelAssumption DEF WorkerInv, WorkerTypeOK
<1>3. WorkerInv(AccountRequest, AccountCall)' /\ Requested
  BY <1>1, <1>2 DEF WorkerInv, WorkerTypeOK, OneIsHeld, Requested, Unfinished
<1>4. /\ package' \in [Package -> Limit \cup {None}]
      /\ \A a \in AccountRows : account[a].package \in PackageRows'
  <2>1. ASSUME NEW p \in Package, NEW limit \in Limit,
               CreatePackage(p, limit) \/ UpdatePackage(p, limit)
        PROVE  <1>4
    <3>1. package' = [package EXCEPT ![p] = limit] /\ limit # None
      BY <2>1, AccountAssumption DEF CreatePackage, UpdatePackage
    <3> QED BY <3>1 DEF AccountRowsFine, PackageRows
  <2>2. ASSUME NEW p \in Package, DeletePackage(p)
        PROVE  <1>4
    BY <2>2 DEF DeletePackage, AccountRowsFine, PackageRows
  <2> QED BY <2>1, <2>2 DEF ChangePackage
<1>5. AccountRowsFine' /\ AccountRows' = AccountRows
  BY <1>1, <1>4 DEF AccountRowsFine, AccountRows
<1>6. \A k \in DOMAIN queue' : queue'[k].state # "asked" => queue'[k].req.kind \in Provisions
  BY <1>1 DEF CallIsHeld
<1> QED BY <1>1, <1>3, <1>5, <1>6, AccountRequestStep
(* A step of the worker: an account is busy until its job is settled or    *)
(* its outcome stored, and what is stored is what the host looks like.     *)
LEMMA AccountWorkerStep ==
  ASSUME AccountInv, WorkerInv(AccountRequest, AccountCall)', OldRequests,
         AccountRowsFine',
         pc' = "calling" => /\ call' = [op |-> held'.kind, account |-> held'.account]
                            /\ held'.account \in AccountRows',
         unsaved => unsaved',
         ~unsaved' => \A a \in Account :
           \/ Busy(a)' \/ AsShown(a)'
           \/ ~Busy(a) /\ account'[a].status = account[a].status /\ linux'[a] = linux[a],
         \A a \in Account : linux'[a].user => a \in AccountRows'
  PROVE  AccountInv'
<1> USE DEF AccountInv
<1>1. CallIsHeld'
  BY DEF CallIsHeld, OldRequests
<1>2. ShownUnlessBusy'
  BY DEF ShownUnlessBusy, AsShown
<1> QED BY <1>1, <1>2
LEMMA AccountClaimSettleStep ==
  ASSUME AccountInv, Claim \/ Settle, UNCHANGED accountVars
  PROVE  AccountInv'
<1> USE DEF AccountInv
<1>1. AccountRowsFine' /\ AccountRows' = AccountRows
  BY DEF AccountRowsFine, AccountRows, PackageRows, accountVars
<1>2. UNCHANGED <<account, linux, unsaved>> /\ pc' # "calling"
  BY DEF Claim, Settle, accountVars, events
<1>3. /\ WorkerInv(AccountRequest, AccountCall)' /\ OldRequests
      /\ \A a \in Account : Busy(a) => Busy(a)'
  <2>1. CASE Claim
    <3>1. PICK i \in Waiting :
            /\ DOMAIN queue' = DOMAIN queue
            /\ held' = queue[i].req /\ i \notin Waiting'
            /\ \A k \in DOMAIN queue : k # i => queue'[k] = queue[k]
      BY <2>1, ClaimStep
    <3>2. ASSUME NEW a, Busy(a) PROVE Busy(a)'
      <4>1. PICK k \in Waiting : queue[k].req.account = a
        BY <2>1, <3>2 DEF Busy, Claim
      <4>2. CASE k = i
        <5>1. pc' = "claimed" /\ held'.account = a
          BY <2>1, <3>1, <4>1, <4>2 DEF Claim
        <5> QED BY <5>1 DEF Busy
      <4>3. CASE k # i
        <5>1. k \in Waiting' /\ queue'[k].req.account = a
          BY <3>1, <4>1, <4>3 DEF Waiting
        <5> QED BY <5>1 DEF Busy
      <4> QED BY <4>2, <4>3
    <3> QED BY <2>1, <3>2, ClaimStep
  <2>2. CASE Settle
    BY <2>2, SettleStep DEF WaitingKept, Busy, Settle
  <2> QED BY <2>1, <2>2
<1> QED BY <1>1, <1>2, <1>3, AccountWorkerStep DEF ShownUnlessBusy

(* A handler's step leaves the other accounts as busy as they were.        *)
LEMMA OthersBusy ==
  ASSUME Waiting' = Waiting, UNCHANGED queue, held' = held,
         NEW a, a # held.account
  PROVE  Busy(a)' = Busy(a)
  BY DEF Busy

(* The Agent's account manager touches the one account. *)
LEMMA HalfManagedTypes ==
  ASSUME call \in AccountCall, linux \in [Account -> [user : BOOLEAN, home : Home]],
         HalfManaged
  PROVE  /\ linux' \in [Account -> [user : BOOLEAN, home : Home]]
         /\ \A a \in Account : a # call.account => linux'[a] = linux[a]
<1>1. call.account \in Account /\ linux[call.account].home \in Home
  BY DEF AccountCall
<1>2. ASSUME NEW there \in BOOLEAN, NEW home \in Home, Becomes(there, home)
      PROVE  /\ linux' \in [Account -> [user : BOOLEAN, home : Home]]
             /\ \A a \in Account : a # call.account => linux'[a] = linux[a]
  BY <1>1, <1>2 DEF Becomes
<1>3. Trashed \in Home /\ {"open", "locked"} \subseteq Home /\ OfUser.home \in Home
  BY <1>1 DEF Trashed, Home, OfUser
<1>4. UNCHANGED linux \/ \E there \in BOOLEAN, home \in Home : Becomes(there, home)
  <2>1. CASE Managed
    BY <2>1, <1>3 DEF Managed, AccountCall
  <2> QED BY <2>1, <1>3 DEF HalfManaged
<1> QED BY <1>2, <1>4

(* A status is stored for one account. *)
LEMMA StatusStored ==
  ASSUME AccountRowsFine, NEW a \in AccountRows, NEW s \in Present, UpdateAccountStatus(a, s),
         UNCHANGED package, linux' \in [Account -> [user : BOOLEAN, home : Home]]
  PROVE  /\ AccountRowsFine' /\ AccountRows' = AccountRows
         /\ account'[a].status = s
         /\ \A b \in Account : b # a => account'[b] = account[b]
<1>1. a \in Account /\ account[a] \in AccountRow
  BY DEF AccountRows, AccountRowsFine
<1>2. account' = [account EXCEPT ![a].status = s]
  BY DEF UpdateAccountStatus
<1>3. [account[a] EXCEPT !.status = s] \in AccountRow
  BY <1>1 DEF AccountRow
<1>4. account' \in [Account -> AccountRow]
  BY <1>1, <1>2, <1>3 DEF AccountRowsFine
<1>5. /\ account'[a].status = s /\ account'[a].package = account[a].package
      /\ \A b \in Account : b # a => account'[b] = account[b]
  BY <1>1, <1>2 DEF AccountRowsFine, AccountRow
<1>6. AccountRows' = AccountRows
  BY <1>1, <1>5 DEF AccountRows
<1>7. \A b \in AccountRows : account'[b].package \in PackageRows
  BY <1>5 DEF AccountRowsFine, AccountRows
<1>8. AccountRowsFine'
  BY <1>4, <1>6, <1>7 DEF AccountRowsFine, PackageRows
<1> QED BY <1>5, <1>6, <1>8
LEMMA NothingStep ==
  ASSUME AccountInv, AccountNothing \/ AccountReadFails
  PROVE  AccountInv'
<1> USE DEF AccountInv
<1>1. /\ pc = "claimed" /\ Returns(FALSE) /\ UNCHANGED accountVars
      /\ NoFault \/ Unsaved
  BY DEF AccountNothing, AccountReadFails
<1>2. /\ WorkerInv(AccountRequest, AccountCall)' /\ held' = held /\ OldRequests
      /\ Waiting' = Waiting
  BY <1>1, ReturnsStep
<1>3. AccountRowsFine' /\ AccountRows' = AccountRows
  BY <1>1 DEF AccountRowsFine, AccountRows, PackageRows, accountVars
<1>4. /\ UNCHANGED <<account, linux, queue>> /\ pc' = "handled"
      /\ unsaved => unsaved'
  BY <1>1 DEF Returns, accountVars, NoFault, Unsaved
<1>5. ASSUME ~unsaved', NEW a \in Account
      PROVE  AsShown(a)' \/ (~Busy(a) /\ account'[a].status = account[a].status
                             /\ linux'[a] = linux[a]) \/ Busy(a)'
  <2>1. AccountGone
    BY <1>5 DEF AccountNothing, AccountReadFails, Unsaved
  <2>2. CASE a = held.account
    BY <1>4, <2>1, <2>2 DEF AccountGone, AccountRows, AsShown, Present
  <2>3. CASE a # held.account
    BY <1>2, <1>4, <2>3, OthersBusy
  <2> QED BY <2>2, <2>3
<1> QED BY <1>2, <1>3, <1>4, <1>5, AccountWorkerStep DEF ShownUnlessBusy

(* The job the worker runs is one of an account. *)
LEMMA HeldProvisions ==
  ASSUME AccountInv, pc # "idle"
  PROVE  /\ held \in AccountRequest /\ held.account \in Account /\ held.kind \in Provisions
<1>1. /\ held \in AccountRequest /\ current \in DOMAIN queue
      /\ queue[current].state = "running"
  BY HeldIsJob DEF AccountInv
<1>2. held.kind \in Provisions
  BY <1>1 DEF AccountInv, CallIsHeld, held
<1> QED BY <1>1, <1>2 DEF AccountRequest

LEMMA CallAccountStep ==
  ASSUME AccountInv, CallAccount
  PROVE  AccountInv'
<1> USE DEF AccountInv
<1>1. /\ Goes("claimed", "calling") /\ held.account \in AccountRows
      /\ call' = [op |-> held.kind, account |-> held.account]
      /\ UNCHANGED <<package, linux>>
      /\ \/ UpdateAccountStatus(held.account, "pending")
         \/ UNCHANGED account
  BY DEF CallAccount, AccountGone
<1>2. pc = "claimed" /\ pc' = "calling" /\ UNCHANGED <<queue, unsaved>>
  BY <1>1 DEF Goes, events
<1>3. call' \in AccountCall /\ held.account \in Account
  BY <1>1, <1>2, HeldProvisions DEF AccountCall, Provisions
<1>4. /\ WorkerInv(AccountRequest, AccountCall)' /\ held' = held /\ OldRequests
      /\ Waiting' = Waiting
  BY <1>1, <1>3, GoesStep
<1>5. linux' \in [Account -> [user : BOOLEAN, home : Home]]
  BY <1>1 DEF AccountRowsFine
<1>6. /\ AccountRowsFine' /\ AccountRows' = AccountRows
      /\ \A b \in Account : b # held.account => account'[b] = account[b]
  <2>1. CASE UpdateAccountStatus(held.account, "pending")
    BY <1>1, <1>5, <2>1, StatusStored DEF Present
  <2>2. CASE UNCHANGED account
    BY <1>1, <2>2 DEF AccountRowsFine, AccountRows, PackageRows
  <2> QED BY <1>1, <2>1, <2>2
<1>7. ASSUME NEW a \in Account
      PROVE  Busy(a)' \/ (~Busy(a) /\ account'[a].status = account[a].status
                          /\ linux'[a] = linux[a])
  <2>1. CASE a = held.account
    BY <1>2, <1>4, <2>1 DEF Busy
  <2>2. CASE a # held.account
    BY <1>1, <1>2, <1>4, <1>6, <2>2, OthersBusy
  <2> QED BY <2>1, <2>2
<1>8. \A a \in Account : linux'[a].user => a \in AccountRows'
  BY <1>1, <1>6 DEF ShownUnlessBusy
<1>9. call' = [op |-> held'.kind, account |-> held'.account] /\ held'.account \in AccountRows'
  BY <1>1, <1>4, <1>6
<1> QED BY <1>2, <1>4, <1>6, <1>7, <1>8, <1>9, AccountWorkerStep

(* The handler has returned: the account it was about is as shown, unless  *)
(* a statement failed.                                                     *)
LEMMA HandledStep ==
  ASSUME AccountInv, pc = "calling", NEW good \in BOOLEAN, Returns(good),
         Fault \/ NoFault \/ Unsaved, AccountRowsFine',
         \A a \in Account : a # held.account => UNCHANGED <<account[a], linux[a]>>,
         ~unsaved' => AsShown(held.account)',
         linux'[held.account].user => held.account \in AccountRows'
  PROVE  AccountInv'
<1> USE DEF AccountInv
<1>1. /\ WorkerInv(AccountRequest, AccountCall)' /\ held' = held /\ OldRequests
      /\ Waiting' = Waiting
  BY ReturnsStep
<1>2. pc' = "handled" /\ UNCHANGED queue /\ (unsaved => unsaved')
  BY DEF Returns, Fault, NoFault, Unsaved
<1>3. ASSUME ~unsaved', NEW a \in Account
      PROVE  AsShown(a)' \/ (~Busy(a) /\ account'[a].status = account[a].status
                             /\ linux'[a] = linux[a]) \/ Busy(a)'
  <2>1. CASE a = held.account
    BY <1>3, <1>1, <2>1 DEF AsShown
  <2>2. CASE a # held.account
    BY <1>1, <1>2, <2>2, OthersBusy
  <2> QED BY <2>1, <2>2
<1>4. \A a \in Account : linux'[a].user => a \in AccountRows'
  <2> TAKE a \in Account
  <2>1. CASE a # held.account
    BY <2>1 DEF ShownUnlessBusy, AccountRows
  <2> QED BY <2>1
<1> QED BY <1>1, <1>2, <1>3, <1>4, AccountWorkerStep
LEMMA HandleAccountStep ==
  ASSUME AccountInv, HandleAccount
  PROVE  AccountInv'
<1> USE DEF AccountInv
<1>1. /\ pc = "calling" /\ UNCHANGED package /\ call \in AccountCall
      /\ call.op = held.kind /\ call.account = held.account /\ held.account \in AccountRows
  BY DEF HandleAccount, CallIsHeld, WorkerInv
<1>2. held.account \in Account /\ held.kind \in Provisions
  BY <1>1, HeldProvisions
<1>3. linux \in [Account -> [user : BOOLEAN, home : Home]]
  BY DEF AccountRowsFine
<1>4. CASE HalfManaged /\ AccountFail /\ Returns(FALSE) /\ (Fault \/ NoFault)
  <2>1. /\ linux' \in [Account -> [user : BOOLEAN, home : Home]]
        /\ \A a \in Account : a # call.account => linux'[a] = linux[a]
    BY <1>1, <1>3, <1>4, HalfManagedTypes
  <2>2. /\ AccountRowsFine' /\ AccountRows' = AccountRows
        /\ account'[held.account].status = "error"
        /\ \A b \in Account : b # held.account => account'[b] = account[b]
    BY <1>1, <1>4, <2>1, StatusStored DEF AccountFail, Present
  <2>3. held' = held
    BY <1>1, <1>4, ReturnsStep
  <2> QED BY <1>1, <1>4, <2>1, <2>2, <2>3, HandledStep DEF AsShown
<1>5. CASE Managed /\ AccountSucceed /\ Returns(TRUE) /\ NoFault
  <2>1. /\ linux' \in [Account -> [user : BOOLEAN, home : Home]]
        /\ \A a \in Account : a # call.account => linux'[a] = linux[a]
    BY <1>1, <1>3, <1>5, HalfManagedTypes DEF HalfManaged
  <2>2. held' = held
    BY <1>1, <1>5, ReturnsStep
  <2>3. CASE held.kind = "account.delete"
    <3>1. /\ account' = [account EXCEPT ![held.account] = [NoAccount EXCEPT !.status = "deleted"]]
          /\ Becomes(FALSE, Trashed)
      BY <1>1, <1>5, <2>3 DEF AccountSucceed, DeleteAccount, Managed
    <3>2. [NoAccount EXCEPT !.status = "deleted"] \in AccountRow
      BY DEF NoAccount, AccountRow, Present
    <3>3. /\ account' \in [Account -> AccountRow]
          /\ account'[held.account].status = "deleted"
          /\ \A b \in Account : b # held.account => account'[b] = account[b]
      BY <1>2, <3>1, <3>2 DEF AccountRowsFine, NoAccount
    <3>4. AccountRows' \subseteq AccountRows /\ held.account \notin AccountRows'
      BY <1>2, <3>3 DEF AccountRows, Present
    <3>5. AccountRowsFine'
      BY <1>1, <2>1, <3>3, <3>4 DEF AccountRowsFine, AccountRows, PackageRows
    <3>6. ~linux'[held.account].user
      BY <1>1, <1>2, <1>3, <3>1 DEF Becomes
    <3> QED BY <1>1, <1>5, <2>1, <2>2, <3>3, <3>5, <3>6, HandledStep DEF AsShown
  <2>4. CASE held.kind # "account.delete"
    <3>1. \E s \in {"active", "disabled"} :
            /\ UpdateAccountStatus(held.account, s)
            /\ Becomes(TRUE, IF s = "active" THEN "open" ELSE "locked")
      BY <1>1, <1>2, <1>5, <2>4 DEF AccountSucceed, Managed, Provisions
    <3>2. PICK s \in {"active", "disabled"} :
            /\ UpdateAccountStatus(held.account, s)
            /\ Becomes(TRUE, IF s = "active" THEN "open" ELSE "locked")
      BY <3>1
    <3>3. /\ AccountRowsFine' /\ AccountRows' = AccountRows
          /\ account'[held.account].status = s
          /\ \A b \in Account : b # held.account => account'[b] = account[b]
      BY <1>1, <2>1, <3>2, StatusStored DEF Present
    <3>4. linux'[held.account] =
            [user |-> TRUE, home |-> IF s = "active" THEN "open" ELSE "locked"]
      BY <1>1, <1>2, <1>3, <3>2 DEF Becomes
    <3>5. AsShown(held.account)'
      BY <2>2, <3>3, <3>4 DEF AsShown
    <3> QED BY <1>1, <1>5, <2>1, <3>3, <3>5, HandledStep
  <2> QED BY <2>3, <2>4
<1>6. ~Ready /\ UNCHANGED linux => HalfManaged
  BY DEF HalfManaged
<1> QED BY <1>4, <1>5, <1>6 DEF HandleAccount

LEMMA HandleAccountUnsavedStep ==
  ASSUME AccountInv, HandleAccountUnsaved
  PROVE  AccountInv'
<1> USE DEF AccountInv
<1>1. /\ pc = "calling" /\ UNCHANGED <<account, package>> /\ call \in AccountCall
      /\ call.account = held.account /\ held.account \in AccountRows
      /\ Returns(FALSE) /\ Unsaved /\ HalfManaged
  <2>1. pc = "calling" /\ UNCHANGED <<account, package>> /\ Returns(FALSE) /\ Unsaved /\ HalfManaged
    BY DEF HandleAccountUnsaved
  <2>2. call \in AccountCall
    BY <2>1 DEF WorkerInv
  <2>3. call.account = held.account /\ held.account \in AccountRows
    BY <2>1 DEF CallIsHeld
  <2> QED BY <2>1, <2>2, <2>3
<1>2. /\ linux' \in [Account -> [user : BOOLEAN, home : Home]]
      /\ \A a \in Account : a # call.account => linux'[a] = linux[a]
  BY <1>1, HalfManagedTypes DEF AccountRowsFine
<1>3. AccountRowsFine' /\ AccountRows' = AccountRows
  BY <1>1, <1>2 DEF AccountRowsFine, AccountRows, PackageRows
<1>4. unsaved'
  BY <1>1 DEF Unsaved
<1> QED BY <1>1, <1>2, <1>3, <1>4, HandledStep

LEMMA DieWithAccountStep ==
  ASSUME AccountInv, DieWithAccount
  PROVE  AccountInv'
<1> USE DEF AccountInv
<1>1. /\ WorkerInv(AccountRequest, AccountCall)' /\ OldRequests /\ WaitingKept
      /\ pc # "idle" => \E k \in Waiting' : queue'[k].req = held
  BY DieStep DEF DieWithAccount
<1>2. pc' = "idle" /\ UNCHANGED <<account, package, unsaved>>
  BY DEF DieWithAccount, Die
<1>3. /\ linux' \in [Account -> [user : BOOLEAN, home : Home]]
      /\ pc # "calling" => linux' = linux
      /\ pc = "calling" => \A a \in Account : a # held.account => linux'[a] = linux[a]
  <2>1. CASE pc = "calling"
    <3>1. call \in AccountCall /\ call.account = held.account /\ HalfManaged
      BY <2>1 DEF CallIsHeld, WorkerInv, DieWithAccount
    <3> QED BY <2>1, <3>1, HalfManagedTypes DEF AccountRowsFine
  <2>2. CASE pc # "calling"
    BY <2>2 DEF DieWithAccount, AccountRowsFine
  <2> QED BY <2>1, <2>2
<1>4. AccountRowsFine' /\ AccountRows' = AccountRows
  BY <1>2, <1>3 DEF AccountRowsFine, AccountRows, PackageRows
<1>5. \A a \in Account : Busy(a) => Busy(a)'
  BY <1>1 DEF Busy, WaitingKept
<1>6. ASSUME NEW a \in Account
      PROVE  Busy(a)' \/ (~Busy(a) /\ account'[a].status = account[a].status
                          /\ linux'[a] = linux[a])
  <2>1. CASE pc = "calling" /\ a = held.account
    BY <1>5, <2>1 DEF Busy
  <2>2. CASE ~(pc = "calling" /\ a = held.account)
    BY <1>2, <1>3, <1>5, <2>2
  <2> QED BY <2>1, <2>2
<1>7. \A a \in Account : linux'[a].user => a \in AccountRows'
  BY <1>3, <1>4 DEF ShownUnlessBusy, CallIsHeld
<1> QED BY <1>1, <1>2, <1>4, <1>6, <1>7, AccountWorkerStep

LEMMA AccountNextStep == ASSUME AccountInv, AccountNext PROVE AccountInv'
<1>1. CASE AccountRequests
  <2>1. ASSUME NEW i \in DOMAIN queue,
               \/ Withdraw(i) /\ UNCHANGED accountVars
               \/ Accept(i) /\ CommitAccount(queue[i].req) /\ UNCHANGED <<package, linux>>
               \/ /\ Answered(i) /\ UNCHANGED <<package, linux>>
                  /\ CommitResource(queue[i].req) \/ CommitAssign(queue[i].req)
        PROVE  AccountInv'
    <3>1. queue[i].req \in AccountRequest
      BY QueueIsJobs DEF AccountInv, WorkerInv, Job
    <3> QED BY <2>1, <3>1, AccountAcceptStep, AccountAnsweredStep
  <2> QED BY <1>1, <2>1, ChangePackageStep, RemoveResourceStep, AccountAsksStep DEF AccountRequests
<1> QED BY <1>1, AccountClaimSettleStep, NothingStep, CallAccountStep, HandleAccountStep,
           HandleAccountUnsavedStep, DieWithAccountStep DEF AccountNext, AccountWorker

(* What a step makes of the resources of an account. *)
LEMMA LimitStep ==
  ASSUME AccountInv, AccountNext, NEW a \in Account, account[a].used < account'[a].used
  PROVE  account'[a].used <= package[account[a].package]
<1>1. /\ account \in [Account -> AccountRow] /\ account[a].used \in Nat
      /\ package \in [Package -> Limit \cup {None}]
      /\ \A b \in AccountRows : account[b].package \in PackageRows
  BY DEF AccountInv, AccountRowsFine, AccountRow
<1>2. ASSUME NEW i \in DOMAIN queue, NEW r \in AccountRequest, CommitResource(r)
      PROVE  account'[a].used <= package[account[a].package]
  <2>1. /\ r.account \in AccountRows /\ account[r.account].used < package[account[r.account].package]
        /\ account' = [account EXCEPT ![r.account].used = account[r.account].used + 1]
    BY <1>2 DEF CommitResource, RequireCapacity
  <2>2. a = r.account
    BY <1>1, <2>1
  <2>3. account'[a].used = account[a].used + 1
    BY <1>1, <2>1, <2>2
  <2>4. package[account[a].package] \in Nat
    BY <1>1, <2>1, <2>2, AccountAssumption DEF PackageRows
  <2> QED BY <1>1, <2>1, <2>2, <2>3, <2>4
<1>3. ASSUME NEW r \in AccountRequest, CommitAccount(r) \/ CommitAssign(r)
      PROVE  FALSE
  <2>1. CASE CommitCreateAccount(r)
    BY <1>1, <2>1 DEF CommitCreateAccount, CreateAccount
  <2>2. CASE CommitAccountAction(r)
    BY <1>1, <2>2 DEF CommitAccountAction, QueueAccountAction
  <2>3. CASE CommitAssign(r)
    BY <1>1, <2>3 DEF CommitAssign, AssignAccountPackage
  <2> QED BY <1>3, <2>1, <2>2, <2>3 DEF CommitAccount
<1>4. account' # account
  BY <1>1
<1>5. ASSUME NEW b \in Account, RemoveResource(b)
      PROVE  FALSE
  BY <1>1, <1>5 DEF RemoveResource
<1>6. ASSUME NEW b, NEW s, UpdateAccountStatus(b, s)
      PROVE  FALSE
  BY <1>1, <1>6 DEF UpdateAccountStatus
<1>7. ASSUME NEW b, DeleteAccount(b)
      PROVE  FALSE
  BY <1>1, <1>7 DEF DeleteAccount, NoAccount
<1>8. CASE AccountRequests
  <2>1. ASSUME NEW i \in DOMAIN queue PROVE queue[i].req \in AccountRequest
    BY QueueIsJobs DEF AccountInv, WorkerInv, Job
  <2> QED BY <1>2, <1>3, <1>4, <1>5, <1>8, <2>1 DEF AccountRequests, ChangePackage, accountVars
<1>9. CASE AccountNext /\ ~AccountRequests
  <2>1. CASE CallAccount
    BY <1>4, <1>6, <2>1 DEF CallAccount
  <2>2. CASE HandleAccount
    <3>1. held.kind \in Provisions
      BY <2>2, HeldProvisions DEF HandleAccount
    <3> QED BY <1>4, <1>6, <1>7, <2>2, <3>1 DEF HandleAccount, AccountSucceed, AccountFail, Provisions
  <2>3. CASE UNCHANGED account
    BY <1>4, <2>3
  <2> QED BY <1>9, <2>1, <2>2, <2>3 DEF AccountNext, AccountWorker, AccountNothing,
                AccountReadFails, HandleAccountUnsaved, DieWithAccount, accountVars
<1> QED BY <1>8, <1>9
-------------------------------------------------------------------------------
(* DNS zones and records. *)

(* The requests there are: one about a record names it, one that stores a  *)
(* value or a name has it.                                                 *)
DnsAsked ==
  {q \in DnsRequest :
     /\ q.kind = "zone.create" => q.name \in ZoneName /\ q.rec = None
     /\ q.kind = "zone.delete" => q.rec = None
     /\ q.kind \in {"create", "update", "delete"} => q.rec \in Rec
     /\ q.kind \in {"create", "update"} => q.val \in Value}

DnsRowsFine ==
  /\ nameservers \in BOOLEAN
  /\ zone \in [Zone -> ZoneRow] /\ rec \in [Rec -> RecRow]
  /\ provider \in [ZoneName -> Served]
  /\ \A z \in ZoneRows : zone[z].name \in ZoneName
  /\ \A r \in RecRows : rec[r].val \in Value /\ rec[r].zone \in Zone

(* What the worker asks of the Agent is what its job is about; the zone to *)
(* be made has its row.                                                    *)
CallFits ==
  pc \in {"read", "calling"} =>
    /\ call.zone = held.zone
    /\ call.op = "ensure" => held.kind = "zone.create" /\ held.zone \in ZoneRows
    /\ held.kind = "zone.delete" => call.op = "drop"

RecordsAgree ==
  \A r, s \in RecRows :
    r # s /\ rec[r].zone = rec[s].zone /\ rec[r].val.name = rec[s].val.name =>
      ~Conflict(rec[r].val, rec[s].val)

(* An update names the zone of its record, which is or was there.          *)
UpdatesFit ==
  \A i \in DOMAIN queue : queue[i].req.kind = "update" =>
    LET q == queue[i].req
    IN rec[q.rec].status # "none" /\ (q.rec \in RecRows => rec[q.rec].zone = q.zone)

DnsInv ==
  /\ WorkerInv(DnsAsked, DnsCall)
  /\ DnsRowsFine
  /\ ZonesAreOwned
  /\ CallFits
  /\ RecordsAgree
  /\ UpdatesFit

LEMMA DnsInvInit == WorkerInit /\ DnsInit => DnsInv
<1> SUFFICES ASSUME WorkerInit, DnsInit PROVE DnsInv
  OBVIOUS
<1>1. WorkerInv(DnsAsked, DnsCall)
  BY WorkerInitInv
<1>2. /\ rec = [r \in Rec |-> NoRec] /\ nameservers = TRUE /\ RecRows = {}
      /\ rec \in [Rec -> RecRow]
  BY DEF DnsInit, DnsNone, NoRec, RecRow, RecRows
<1>3. CASE DnsNone
  <2>1. zone \in [Zone -> ZoneRow] /\ ZoneRows = {}
    BY <1>3 DEF DnsNone, NoZone, ZoneRow, ZoneRows
  <2>2. provider \in [ZoneName -> Served] /\ ZonesAreOwned
    BY <1>3, DnsAssumption DEF DnsNone, UnlessForeign, NoServed, Served, ZonesAreOwned
  <2> QED BY <1>1, <1>2, <2>1, <2>2
          DEF DnsInv, DnsRowsFine, CallFits, RecordsAgree, UpdatesFit, WorkerInit
<1>4. ASSUME NEW z \in Zone, NEW n \in ZoneName \ Foreign,
             zone = [y \in Zone |-> IF y = z THEN [status |-> "active", name |-> n] ELSE NoZone],
             provider = [m \in ZoneName |->
               UnlessForeign(m, IF m = n THEN [owner |-> z, has |-> {}] ELSE NoServed)]
      PROVE  DnsInv
  <2>1. zone \in [Zone -> ZoneRow] /\ ZoneRows = {z} /\ zone[z].name = n
    BY <1>4 DEF NoZone, ZoneRow, ZoneRows
  <2>2. provider \in [ZoneName -> Served] /\ ZonesAreOwned
    BY <1>4, <2>1, DnsAssumption DEF UnlessForeign, NoServed, Served, ZonesAreOwned
  <2> QED BY <1>1, <1>2, <2>1, <2>2
          DEF DnsInv, DnsRowsFine, CallFits, RecordsAgree, UpdatesFit, WorkerInit
<1> QED BY <1>3, <1>4 DEF DnsInit

(* Records that go, or change no more than their status and what was last  *)
(* synchronized.                                                           *)
RecordsKept ==
  /\ rec' \in [Rec -> RecRow]
  /\ \A r \in Rec :
       /\ rec[r].status # "none" => rec'[r].status # "none"
       /\ r \in RecRows' => /\ r \in RecRows
                            /\ rec'[r].zone = rec[r].zone /\ rec'[r].val = rec[r].val

LEMMA KeptAgree ==
  ASSUME DnsInv, RecordsKept, OldRequests
  PROVE  /\ RecordsAgree' /\ UpdatesFit'
         /\ \A r \in RecRows' : rec'[r].val \in Value /\ rec'[r].zone \in Zone
<1>1. \A r \in RecRows' : /\ r \in RecRows /\ rec'[r].zone = rec[r].zone
                          /\ rec'[r].val = rec[r].val
  BY DEF RecordsKept, RecRows
<1>2. /\ RecordsAgree'
      /\ \A r \in RecRows' : rec'[r].val \in Value /\ rec'[r].zone \in Zone
  BY <1>1 DEF DnsInv, DnsRowsFine, RecordsAgree, RecordsKept
<1>3. UpdatesFit'
  <2>1. ASSUME NEW k \in DOMAIN queue', queue'[k].req.kind = "update"
        PROVE  LET q == queue'[k].req
               IN rec'[q.rec].status # "none" /\ (q.rec \in RecRows' => rec'[q.rec].zone = q.zone)
    <3>1. PICK i \in DOMAIN queue : queue'[k].req = queue[i].req
      BY DEF OldRequests
    <3>2. queue[i].req \in DnsAsked
      BY <3>1, RequestsAreKnown DEF DnsInv
    <3>3. queue[i].req.rec \in Rec
      BY <2>1, <3>1, <3>2 DEF DnsAsked
    <3> QED BY <1>1, <2>1, <3>1, <3>3 DEF DnsInv, UpdatesFit, RecordsKept
  <2> QED BY <2>1 DEF UpdatesFit
<1> QED BY <1>2, <1>3

(* A step of a request that touches no record. *)
LEMMA DnsLeftAlone ==
  ASSUME DnsInv, WorkerInv(DnsAsked, DnsCall)', Requested, OldRequests,
         UNCHANGED <<call, zone, rec, provider>>, nameservers' \in BOOLEAN
  PROVE  DnsInv'
<1>1. ZoneRows' = ZoneRows /\ RecRows' = RecRows
  BY DEF ZoneRows, RecRows
<1>2. RecordsAgree' /\ UpdatesFit'
  <2>1. RecordsKept
    BY <1>1 DEF RecordsKept, DnsInv, DnsRowsFine
  <2> QED BY <2>1, KeptAgree
<1>3. CallFits'
  <2>1. pc' \in {"read", "calling"} => held' = held /\ pc = pc'
    BY HeldIsKept DEF DnsInv, Requested
  <2> QED BY <1>1, <2>1 DEF DnsInv, CallFits
<1>4. DnsRowsFine' /\ ZonesAreOwned'
  BY <1>1 DEF DnsInv, DnsRowsFine, ZonesAreOwned
<1> QED BY <1>2, <1>3, <1>4 DEF DnsInv
LEMMA DnsAsks ==
  ASSUME DnsInv, NEW q \in DnsAsked, Ask(q), UNCHANGED dnsVars,
         q.kind = "update" => q.rec \in RecRows /\ q.zone = rec[q.rec].zone
  PROVE  DnsInv'
<1>1. /\ WorkerInv(DnsAsked, DnsCall)' /\ Requested
      /\ \A k \in DOMAIN queue' : \/ queue'[k].req = q /\ queue'[k].state = "asked"
                                  \/ k \in DOMAIN queue /\ queue'[k] = queue[k]
  BY AskStep DEF DnsInv
<1>2. UNCHANGED <<nameservers, zone, rec, provider, call>>
  BY DEF dnsVars, Ask
<1>3. ZoneRows' = ZoneRows /\ RecRows' = RecRows
  BY <1>2 DEF ZoneRows, RecRows
<1>4. RecordsAgree' /\ DnsRowsFine' /\ ZonesAreOwned'
  BY <1>2, <1>3 DEF DnsInv, DnsRowsFine, ZonesAreOwned, RecordsAgree
<1>5. UpdatesFit'
  BY <1>1, <1>2, <1>3 DEF DnsInv, UpdatesFit, RecRows
<1>6. CallFits'
  <2>1. pc' \in {"read", "calling"} => held' = held /\ pc = pc'
    BY <1>1, HeldIsKept DEF DnsInv, Requested
  <2> QED BY <1>2, <1>3, <2>1 DEF DnsInv, CallFits
<1> QED BY <1>1, <1>4, <1>5, <1>6 DEF DnsInv

(* Requests that store nothing but themselves. *)
LEMMA DnsAsksStep ==
  ASSUME DnsInv, UNCHANGED dnsVars,
         \/ \E z \in Zone, n \in ZoneName : AskCreateZone(z, n)
         \/ \E z \in Zone : AskDeleteZone(z)
         \/ \E z \in Zone, r \in Rec, v \in Value : AskCreateRecord(z, r, v)
         \/ \E r \in Rec, v \in Value : AskUpdateRecord(r, v)
         \/ \E r \in Rec : AskDeleteRecord(r)
         \/ \E i \in DOMAIN queue : Withdraw(i)
         \/ Suspend \/ Resume
  PROVE  DnsInv'
<1>1. ASSUME NEW q \in DnsRequest, Ask(q),
             \/ q.kind = "zone.create" /\ q.name \in ZoneName /\ q.rec = None
             \/ q.kind = "zone.delete" /\ q.rec = None
             \/ q.kind = "create" /\ q.rec \in Rec /\ q.val \in Value
             \/ /\ q.kind = "update" /\ q.rec \in RecRows /\ q.val \in Value
                /\ q.zone = rec[q.rec].zone
             \/ q.kind = "delete" /\ q.rec \in Rec
      PROVE  DnsInv'
  <2>1. q \in DnsAsked
    BY <1>1 DEF DnsAsked, RecRows
  <2> QED BY <1>1, <2>1, DnsAsks
<1>2. \A r \in RecRows : r \in Rec /\ rec[r].zone \in Zone
  BY DEF DnsInv, DnsRowsFine, RecRows
<1>3. ASSUME NEW z \in Zone, NEW n \in ZoneName, AskCreateZone(z, n) PROVE DnsInv'
  <2> DEFINE q == [kind |-> "zone.create", zone |-> z, name |-> n, rec |-> None, val |-> None]
  <2>1. q \in DnsRequest /\ Ask(q)
    BY <1>3 DEF AskCreateZone, AskDns, DnsRequest
  <2> QED BY <2>1, <1>1
<1>4. ASSUME NEW z \in Zone, AskDeleteZone(z) PROVE DnsInv'
  <2> DEFINE q == [kind |-> "zone.delete", zone |-> z, name |-> None, rec |-> None, val |-> None]
  <2>1. q \in DnsRequest /\ Ask(q)
    BY <1>4 DEF AskDeleteZone, AskDns, DnsRequest
  <2> QED BY <2>1, <1>1
<1>5. ASSUME NEW z \in Zone, NEW r \in Rec, NEW v \in Value, AskCreateRecord(z, r, v)
      PROVE  DnsInv'
  <2> DEFINE q == [kind |-> "create", zone |-> z, name |-> None, rec |-> r, val |-> v]
  <2>1. q \in DnsRequest /\ Ask(q)
    BY <1>5 DEF AskCreateRecord, AskDns, DnsRequest
  <2> QED BY <2>1, <1>1
<1>6. ASSUME NEW r \in Rec, NEW v \in Value, AskUpdateRecord(r, v) PROVE DnsInv'
  <2>1. PICK z \in Zone : r \in RecRows /\ z = rec[r].zone
    BY <1>2, <1>6 DEF AskUpdateRecord
  <2> DEFINE q == [kind |-> "update", zone |-> z, name |-> None, rec |-> r, val |-> v]
  <2>2. q \in DnsRequest /\ Ask(q)
    BY <1>6, <2>1 DEF AskUpdateRecord, AskDns, DnsRequest
  <2> QED BY <2>1, <2>2, <1>1
<1>7. ASSUME NEW r \in Rec, AskDeleteRecord(r) PROVE DnsInv'
  <2>1. PICK z \in Zone : z = rec[r].zone
    BY <1>2, <1>7 DEF AskDeleteRecord
  <2> DEFINE q == [kind |-> "delete", zone |-> z, name |-> None, rec |-> r, val |-> None]
  <2>2. q \in DnsRequest /\ Ask(q)
    BY <1>7, <2>1 DEF AskDeleteRecord, AskDns, DnsRequest
  <2> QED BY <2>2, <1>1
<1>8. ASSUME (\E i \in DOMAIN queue : Withdraw(i)) \/ Suspend \/ Resume PROVE DnsInv'
  <2>1. WorkerInv(DnsAsked, DnsCall)' /\ Requested /\ OldRequests
    BY <1>8, WithdrawStep, SuspendStep DEF DnsInv
  <2>2. call' = call
    BY <1>8 DEF Withdraw, Suspend, Resume, events
  <2>3. UNCHANGED <<zone, rec, provider>> /\ nameservers' \in BOOLEAN
    BY DEF dnsVars, DnsInv, DnsRowsFine
  <2> QED BY <2>1, <2>2, <2>3, DnsLeftAlone
<1> QED BY <1>3, <1>4, <1>5, <1>6, <1>7, <1>8
LEMMA UpdateSettingsStep ==
  ASSUME DnsInv, UpdateSettings
  PROVE  DnsInv'
<1>1. /\ UNCHANGED <<zone, rec, provider, usable, queue, pc, ok, call, troubles, unsaved,
                     suspended>>
      /\ requests' = requests + 1 /\ requests < MaxRequests /\ nameservers' \in BOOLEAN
  BY DEF UpdateSettings, UpdateDNSSettings, DnsInv, DnsRowsFine
<1>2. requests' \in 0 .. MaxRequests
  BY <1>1, PanelAssumption DEF DnsInv, WorkerInv, WorkerTypeOK
<1>3. WorkerInv(DnsAsked, DnsCall)' /\ Requested /\ OldRequests
  BY <1>1, <1>2 DEF DnsInv, WorkerInv, WorkerTypeOK, OneIsHeld, Requested, OldRequests, Unfinished
<1> QED BY <1>1, <1>3, DnsLeftAlone
(* What a transaction stores of a zone. *)
LEMMA CommitZoneRows ==
  ASSUME DnsInv, NEW q \in DnsAsked, CommitCreateZone(q) \/ CommitDeleteZone(q), provider' = provider
  PROVE  /\ zone' \in [Zone -> ZoneRow] /\ ZoneRows \subseteq ZoneRows'
         /\ \A z \in ZoneRows' : zone'[z].name \in ZoneName
         /\ ZonesAreOwned' /\ rec' = rec
<1> USE DEF DnsInv
<1>1. q.zone \in Zone /\ (q.kind = "zone.create" => q.name \in ZoneName)
  BY DEF DnsAsked, DnsRequest
<1>2. CASE CommitCreateZone(q)
  <2>1. /\ zone' = [zone EXCEPT ![q.zone] = [status |-> "pending", name |-> q.name]]
        /\ zone[q.zone].status = "none" /\ q.name \in ZoneName /\ rec' = rec
    BY <1>1, <1>2 DEF CommitCreateZone, CreateDNSZone
  <2>2. zone' \in [Zone -> ZoneRow] /\ \A z \in ZoneRows : z # q.zone /\ zone'[z] = zone[z]
    BY <1>1, <2>1 DEF DnsRowsFine, ZoneRow, ZoneRows
  <2>3. ZoneRows' = ZoneRows \cup {q.zone} /\ zone'[q.zone].name = q.name
    BY <1>1, <2>1, <2>2 DEF DnsRowsFine, ZoneRows
  <2>4. ZonesAreOwned'
    BY <2>2, <2>3 DEF ZonesAreOwned
  <2> QED BY <2>1, <2>2, <2>3, <2>4 DEF DnsRowsFine
<1>3. CASE CommitDeleteZone(q)
  <2>1. /\ zone' = [zone EXCEPT ![q.zone].status = "deleting"]
        /\ q.zone \in ZoneRows /\ rec' = rec
    BY <1>3 DEF CommitDeleteZone, QueueDNSZoneDelete
  <2>2. [zone[q.zone] EXCEPT !.status = "deleting"] \in ZoneRow
    BY <1>1 DEF DnsRowsFine, ZoneRow
  <2>3. zone' \in [Zone -> ZoneRow]
    BY <1>1, <2>1, <2>2 DEF DnsRowsFine
  <2>4. \A z \in Zone : zone'[z].name = zone[z].name /\ (z # q.zone => zone'[z] = zone[z])
    BY <1>1, <2>1 DEF DnsRowsFine, ZoneRow
  <2>5. ZoneRows' = ZoneRows
    BY <1>1, <2>1, <2>4 DEF DnsRowsFine, ZoneRows, ZoneRow
  <2>6. ZonesAreOwned'
    BY <2>4, <2>5 DEF ZonesAreOwned
  <2> QED BY <2>1, <2>3, <2>4, <2>5, <2>6 DEF DnsRowsFine, ZoneRows
<1> QED BY <1>2, <1>3

(* ... and of a record: it fits to the others of its name. *)
LEMMA CommitRecordRows ==
  ASSUME DnsInv, NEW q \in DnsAsked,
         CommitCreateRecord(q) \/ CommitUpdateRecord(q) \/ CommitDeleteRecord(q),
         q.kind = "update" => rec[q.rec].zone = q.zone
  PROVE  /\ rec' \in [Rec -> RecRow] /\ zone' = zone
         /\ \A r \in RecRows' : rec'[r].val \in Value /\ rec'[r].zone \in Zone
         /\ \A r \in Rec : rec[r].status # "none" =>
              /\ rec'[r].status # "none"
              /\ r \in RecRows' => r \in RecRows /\ rec'[r].zone = rec[r].zone
         /\ RecordsAgree'
<1> USE DEF DnsInv
<1>1. /\ q.zone \in Zone /\ q.rec \in Rec
      /\ q.kind \in {"create", "update"} => q.val \in Value
  BY DEF DnsAsked, DnsRequest, CommitCreateRecord, CommitUpdateRecord, CommitDeleteRecord
<1>2. rec[q.rec] \in RecRow /\ rec \in [Rec -> RecRow]
  BY <1>1 DEF DnsRowsFine
<1>3. \A v, w : Conflict(v, w) => Conflict(w, v)
  BY DEF Conflict
<1>4. ASSUME NEW row \in RecRow, rec' = [rec EXCEPT ![q.rec] = row], row.status \notin {"none", "deleted"},
             row.val \in Value, row.zone \in Zone,
             q.rec \in RecRows \/ rec[q.rec].status = "none",
             q.rec \in RecRows => row.zone = rec[q.rec].zone,
             \/ q.rec \in RecRows /\ row.val = rec[q.rec].val
             \/ /\ row.zone = q.zone /\ row.val = q.val
                /\ Available(q)
      PROVE  /\ rec' \in [Rec -> RecRow]
             /\ \A r \in RecRows' : rec'[r].val \in Value /\ rec'[r].zone \in Zone
             /\ \A r \in Rec : rec[r].status # "none" =>
                  /\ rec'[r].status # "none"
                  /\ r \in RecRows' => r \in RecRows /\ rec'[r].zone = rec[r].zone
             /\ RecordsAgree'
  <2>1. /\ rec' \in [Rec -> RecRow] /\ rec'[q.rec] = row
        /\ \A r \in Rec : r # q.rec => rec'[r] = rec[r]
    BY <1>1, <1>2, <1>4
  <2>2. RecRows' = RecRows \cup {q.rec}
    BY <1>1, <1>4, <2>1 DEF RecRows
  <2>3. \A r \in RecRows : r # q.rec => rec'[r] = rec[r]
    BY <2>1 DEF RecRows
  <2>4. ASSUME NEW s \in RecRows, s # q.rec, rec[s].zone = row.zone, rec[s].val.name = row.val.name
        PROVE  ~Conflict(row.val, rec[s].val)
    BY <1>4, <2>4 DEF RecordsAgree, Available, ListDNSRecordsByName, ListDNSRecords
  <2>5. RecordsAgree'
    BY <1>3, <2>1, <2>2, <2>3, <2>4 DEF RecordsAgree
  <2> QED BY <1>4, <2>1, <2>2, <2>3, <2>5 DEF DnsRowsFine
<1>5. CASE CommitCreateRecord(q)
  <2> DEFINE row == [status |-> "pending", zone |-> q.zone, val |-> q.val, synced |-> None]
  <2>1. /\ rec' = [rec EXCEPT ![q.rec] = row] /\ rec[q.rec].status = "none"
        /\ Available(q) /\ zone' = zone /\ q.val \in Value
    BY <1>1, <1>5 DEF CommitCreateRecord, CreateDNSRecord
  <2>2. row \in RecRow
    BY <1>1, <2>1 DEF RecRow
  <2>3. q.rec \notin RecRows
    BY <2>1 DEF RecRows
  <2> QED BY <1>1, <1>4, <2>1, <2>2, <2>3
<1>6. CASE CommitUpdateRecord(q)
  <2> DEFINE row == [rec[q.rec] EXCEPT !.status = "pending", !.val = q.val]
  <2>1. /\ rec' = [rec EXCEPT ![q.rec].status = "pending", ![q.rec].val = q.val]
        /\ q.rec \in RecRows /\ Available(q) /\ zone' = zone /\ q.val \in Value
        /\ rec[q.rec].zone = q.zone
    BY <1>1, <1>6 DEF CommitUpdateRecord, QueueDNSRecordUpdate
  <2>2. row \in RecRow
    BY <1>2, <2>1 DEF RecRow
  <2>3. row.status = "pending" /\ row.val = q.val /\ row.zone = rec[q.rec].zone
    BY <1>2 DEF RecRow
  <2>4. rec' = [rec EXCEPT ![q.rec] = row]
    BY <1>1, <1>2, <2>1 DEF RecRow
  <2> HIDE DEF row
  <2> QED BY <1>1, <1>4, <2>1, <2>2, <2>3, <2>4
<1>7. CASE CommitDeleteRecord(q)
  <2> DEFINE row == [rec[q.rec] EXCEPT !.status = "deleting"]
  <2>1. /\ rec' = [rec EXCEPT ![q.rec].status = "deleting"]
        /\ q.rec \in RecRows /\ zone' = zone
    BY <1>1, <1>7 DEF CommitDeleteRecord, QueueDNSRecordDelete
  <2>2. row \in RecRow
    BY <1>2, <2>1 DEF RecRow
  <2>3. row.status = "deleting" /\ row.val = rec[q.rec].val /\ row.zone = rec[q.rec].zone
    BY <1>2 DEF RecRow
  <2>4. rec' = [rec EXCEPT ![q.rec] = row]
    BY <1>1, <1>2, <2>1 DEF RecRow
  <2>5. row.val \in Value /\ row.zone \in Zone
    BY <2>1, <2>3 DEF DnsRowsFine
  <2> HIDE DEF row
  <2> QED BY <1>1, <1>4, <2>1, <2>2, <2>3, <2>4, <2>5
<1> QED BY <1>5, <1>6, <1>7

LEMMA DnsAcceptStep ==
  ASSUME DnsInv, NEW i \in DOMAIN queue, NEW q \in DnsAsked, q = queue[i].req,
         Accept(i), CommitDns(q), UNCHANGED <<nameservers, provider>>
  PROVE  DnsInv'
<1>1. /\ WorkerInv(DnsAsked, DnsCall)' /\ Requested
      /\ \A k \in DOMAIN queue' : \E j \in DOMAIN queue : queue'[k].req = queue[j].req
  BY AcceptStep DEF DnsInv
<1>2. ASSUME ZoneRows \subseteq ZoneRows' PROVE CallFits'
  <2>1. pc' \in {"read", "calling"} => held' = held /\ pc = pc' /\ call' = call
    BY <1>1, HeldIsKept DEF DnsInv, Requested, Accept
  <2> QED BY <1>2, <2>1 DEF DnsInv, CallFits
<1>3. CASE CommitCreateZone(q) \/ CommitDeleteZone(q)
  <2>1. /\ zone' \in [Zone -> ZoneRow] /\ ZoneRows \subseteq ZoneRows'
        /\ \A z \in ZoneRows' : zone'[z].name \in ZoneName
        /\ ZonesAreOwned' /\ rec' = rec
    BY <1>3, CommitZoneRows
  <2>2. RecRows' = RecRows
    BY <2>1 DEF RecRows
  <2>3. DnsRowsFine' /\ RecordsAgree'
    BY <2>1, <2>2 DEF DnsInv, DnsRowsFine, RecordsAgree
  <2>4. UpdatesFit'
    BY <1>1, <2>1, <2>2 DEF DnsInv, UpdatesFit
  <2> QED BY <1>1, <1>2, <2>1, <2>3, <2>4 DEF DnsInv
<1>4. CASE CommitCreateRecord(q) \/ CommitUpdateRecord(q) \/ CommitDeleteRecord(q)
  <2>1. q.kind = "update" /\ q.rec \in RecRows => rec[q.rec].zone = q.zone
    BY DEF DnsInv, UpdatesFit
  <2>2. q.kind = "update" => rec[q.rec].zone = q.zone
    BY <1>4, <2>1 DEF CommitCreateRecord, CommitUpdateRecord, CommitDeleteRecord,
                      QueueDNSRecordUpdate
  <2>3. /\ rec' \in [Rec -> RecRow] /\ zone' = zone
        /\ \A r \in RecRows' : rec'[r].val \in Value /\ rec'[r].zone \in Zone
        /\ \A r \in Rec : rec[r].status # "none" =>
             /\ rec'[r].status # "none"
             /\ r \in RecRows' => r \in RecRows /\ rec'[r].zone = rec[r].zone
        /\ RecordsAgree'
    BY <1>4, <2>2, CommitRecordRows
  <2>4. ZoneRows' = ZoneRows
    BY <2>3 DEF ZoneRows
  <2>5. DnsRowsFine' /\ ZonesAreOwned'
    BY <2>3, <2>4 DEF DnsInv, DnsRowsFine, ZonesAreOwned
  <2>6. UpdatesFit'
    <3>1. ASSUME NEW k \in DOMAIN queue', queue'[k].req.kind = "update"
          PROVE  LET u == queue'[k].req
                 IN rec'[u.rec].status # "none" /\ (u.rec \in RecRows' => rec'[u.rec].zone = u.zone)
      <4>1. PICK j \in DOMAIN queue : queue'[k].req = queue[j].req
        BY <1>1
      <4>2. queue[j].req \in DnsAsked
        BY RequestsAreKnown DEF DnsInv
      <4>3. queue[j].req.rec \in Rec
        BY <3>1, <4>1, <4>2 DEF DnsAsked
      <4> QED BY <2>3, <3>1, <4>1, <4>3 DEF DnsInv, UpdatesFit
    <3> QED BY <3>1 DEF UpdatesFit
  <2> QED BY <1>1, <1>2, <2>3, <2>4, <2>5, <2>6 DEF DnsInv
<1> QED BY <1>3, <1>4 DEF CommitDns
(* A step of the worker that leaves it between two handlers. *)
LEMMA DnsHandled ==
  ASSUME DnsInv, WorkerInv(DnsAsked, DnsCall)', OldRequests, pc' \notin {"read", "calling"},
         RecordsKept, zone' \in [Zone -> ZoneRow], provider' \in [ZoneName -> Served],
         \A z \in ZoneRows' : z \in ZoneRows /\ zone'[z].name = zone[z].name,
         nameservers' = nameservers, ZonesAreOwned'
  PROVE  DnsInv'
<1>1. /\ RecordsAgree' /\ UpdatesFit'
      /\ \A r \in RecRows' : rec'[r].val \in Value /\ rec'[r].zone \in Zone
  BY KeptAgree
<1>2. DnsRowsFine'
  BY <1>1 DEF DnsInv, DnsRowsFine, RecordsKept
<1>3. CallFits'
  BY DEF CallFits
<1> QED BY <1>1, <1>2, <1>3 DEF DnsInv

LEMMA DnsSame ==
  ASSUME DnsInv, UNCHANGED dnsVars
  PROVE  /\ RecordsKept /\ zone' \in [Zone -> ZoneRow] /\ provider' \in [ZoneName -> Served]
         /\ \A z \in ZoneRows' : z \in ZoneRows /\ zone'[z].name = zone[z].name
         /\ ZoneRows' = ZoneRows /\ nameservers' = nameservers /\ ZonesAreOwned'
<1>1. UNCHANGED <<nameservers, zone, rec, provider>>
  BY DEF dnsVars
<1>2. ZoneRows' = ZoneRows /\ RecRows' = RecRows
  BY <1>1 DEF ZoneRows, RecRows
<1> QED BY <1>1, <1>2 DEF DnsInv, DnsRowsFine, RecordsKept, ZonesAreOwned

LEMMA DnsPassiveStep ==
  ASSUME DnsInv,
         \/ (Claim \/ Settle) /\ UNCHANGED dnsVars
         \/ DnsNothing \/ DnsReadFails \/ DnsMarkFails
  PROVE  DnsInv'
<1>1. UNCHANGED dnsVars
  BY DEF DnsNothing, DnsReadFails, DnsMarkFails
<1>2. WorkerInv(DnsAsked, DnsCall)' /\ OldRequests
  <2>1. CASE Claim
    BY <2>1, ClaimStep DEF DnsInv
  <2>2. CASE Settle
    BY <2>2, SettleStep DEF DnsInv
  <2>3. CASE /\ pc \in {"claimed", "read"} /\ Returns(FALSE)
             /\ NoFault \/ Unsaved
    BY <2>3, ReturnsStep DEF DnsInv
  <2> QED BY <2>1, <2>2, <2>3 DEF DnsNothing, DnsReadFails, DnsMarkFails
<1>3. pc' \notin {"read", "calling"}
  BY DEF Claim, Settle, DnsNothing, DnsReadFails, DnsMarkFails, Returns
<1> QED BY <1>1, <1>2, <1>3, DnsSame, DnsHandled

(* What is sent to the Agent. *)
LEMMA DnsReadStep ==
  ASSUME DnsInv, DnsRead
  PROVE  DnsInv'
<1>1. /\ Goes("claimed", "read") /\ UNCHANGED dnsVars /\ ~DnsRowGone
      /\ pc = "claimed" /\ pc' = "read" /\ queue' = queue
  BY DEF DnsRead, Goes
<1>2. held \in DnsAsked
  BY <1>1, HeldIsJob DEF DnsInv
<1>3. /\ held.zone \in Zone
      /\ held.kind \in {"zone.create", "zone.delete"} => held.rec = None
      /\ held.kind \in {"zone.create", "zone.delete", "create", "update", "delete"}
      /\ held.rec # None => held.rec \in Rec
  BY <1>2 DEF DnsAsked, DnsRequest
<1>4. /\ call' \in DnsCall /\ call'.zone = held.zone
      /\ call'.op = "ensure" => held.kind = "zone.create" /\ held.zone \in ZoneRows
      /\ held.kind = "zone.delete" => call'.op = "drop"
  <2>1. CASE held.rec # None
    <3>1. held.rec \in RecRows
      BY <1>1, <2>1 DEF DnsRowGone
    <3>2. rec[held.rec].val \in Value /\ rec[held.rec].synced \in Keys \cup {None}
      BY <1>3, <2>1, <3>1 DEF DnsInv, DnsRowsFine, RecRow
    <3>3. SentKeys(held.rec) \in SUBSET Keys
      BY <3>2 DEF SentKeys, Keys
    <3>4. SentValues(held) \in SUBSET Value
      BY DEF SentValues, ListDNSRecords, DnsInv, DnsRowsFine
    <3>5. call' = [op |-> "sync", zone |-> held.zone, keys |-> SentKeys(held.rec),
                   set |-> SentValues(held)]
      BY <1>3, <2>1 DEF DnsRead
    <3> QED BY <1>3, <2>1, <3>3, <3>4, <3>5 DEF DnsCall
  <2>2. CASE held.rec = None /\ held.kind = "zone.create"
    <3>1. call' = [op |-> "ensure", zone |-> held.zone, keys |-> {}, set |-> {}]
      BY <2>2 DEF DnsRead
    <3>2. held.zone \in ZoneRows
      BY <1>1, <2>2 DEF DnsRowGone
    <3> QED BY <1>3, <2>2, <3>1, <3>2 DEF DnsCall
  <2>3. CASE held.rec = None /\ held.kind # "zone.create"
    <3>1. call' = [op |-> "drop", zone |-> held.zone, keys |-> {}, set |-> {}]
      BY <2>3 DEF DnsRead
    <3> QED BY <1>3, <2>3, <3>1 DEF DnsCall
  <2> QED BY <2>1, <2>2, <2>3
<1>5. WorkerInv(DnsAsked, DnsCall)' /\ held' = held /\ OldRequests
  BY <1>1, <1>4, GoesStep DEF DnsInv
<1>6. UNCHANGED <<nameservers, zone, rec, provider>>
  BY <1>1 DEF dnsVars
<1>7. ZoneRows' = ZoneRows /\ RecRows' = RecRows
  BY <1>6 DEF ZoneRows, RecRows
<1>8. DnsRowsFine' /\ ZonesAreOwned' /\ RecordsAgree'
  BY <1>6, <1>7 DEF DnsInv, DnsRowsFine, ZonesAreOwned, RecordsAgree
<1>9. UpdatesFit'
  BY <1>1, <1>6, <1>7 DEF DnsInv, UpdatesFit
<1>10. CallFits'
  BY <1>4, <1>5, <1>7 DEF CallFits
<1> QED BY <1>5, <1>8, <1>9, <1>10 DEF DnsInv
(* What the statements of a handler leave of the rows. *)
LEMMA ZoneStatusStored ==
  ASSUME DnsInv, NEW z, NEW s \in {"pending", "active", "error"}, UpdateDNSZoneStatus(z, s)
  PROVE  /\ zone' \in [Zone -> ZoneRow] /\ ZoneRows' = ZoneRows
         /\ \A y \in Zone : zone'[y].name = zone[y].name
<1>1. zone \in [Zone -> ZoneRow]
  BY DEF DnsInv, DnsRowsFine
<1>2. CASE z \notin ZoneRows
  BY <1>1, <1>2 DEF UpdateDNSZoneStatus, ZoneRows
<1>3. CASE z \in ZoneRows
  <2>1. z \in Zone /\ zone[z] \in ZoneRow /\ zone' = [zone EXCEPT ![z].status = s]
    BY <1>1, <1>3 DEF ZoneRows, UpdateDNSZoneStatus
  <2>2. [zone[z] EXCEPT !.status = s] \in ZoneRow
    BY <2>1 DEF ZoneRow
  <2>3. zone' \in [Zone -> ZoneRow] /\ zone'[z].status = s
        /\ \A y \in Zone : zone'[y].name = zone[y].name /\ (y # z => zone'[y] = zone[y])
    BY <1>1, <2>1, <2>2 DEF ZoneRow
  <2>4. ZoneRows' = ZoneRows
    BY <1>3, <2>3 DEF ZoneRows
  <2> QED BY <2>3, <2>4
<1> QED BY <1>2, <1>3

LEMMA RecordStored ==
  ASSUME DnsInv, NEW r,
         \/ \E s \in {"pending", "error"} : UpdateDNSRecordStatus(r, s)
         \/ CompleteDNSRecordSync(r) \/ DeleteDNSRecord(r) \/ DeleteDNSZone(r) \/ UNCHANGED rec
  PROVE  RecordsKept
<1>1. rec \in [Rec -> RecRow] /\ \A s \in RecRows : rec[s].val \in Value /\ s \in Rec
  BY DEF DnsInv, DnsRowsFine, RecRows
<1>2. CASE UNCHANGED rec
  BY <1>1, <1>2 DEF RecordsKept, RecRows
<1>3. ASSUME NEW row \in RecRow, rec' = [rec EXCEPT ![r] = row],
             r \in Rec => row.status # "none",
             r \in Rec => \/ row.status = "deleted"
                          \/ r \in RecRows /\ row.zone = rec[r].zone /\ row.val = rec[r].val
      PROVE  RecordsKept
  BY <1>1, <1>3 DEF RecordsKept, RecRows
<1>4. ASSUME NEW s \in {"pending", "error"}, UpdateDNSRecordStatus(r, s), r \in RecRows
      PROVE  RecordsKept
  <2> DEFINE row == [rec[r] EXCEPT !.status = s]
  <2>1. rec[r] \in RecRow /\ r \in Rec
    BY <1>1, <1>4
  <2>2. row \in RecRow /\ row.status = s /\ row.zone = rec[r].zone /\ row.val = rec[r].val
    BY <2>1 DEF RecRow
  <2>3. rec' = [rec EXCEPT ![r] = row]
    BY <1>4 DEF UpdateDNSRecordStatus
  <2> HIDE DEF row
  <2> QED BY <1>3, <1>4, <2>2, <2>3
<1>5. CASE CompleteDNSRecordSync(r) /\ r \in RecRows
  <2> DEFINE row == [rec[r] EXCEPT !.status = "active", !.synced = KeyOf(rec[r].val)]
  <2>1. rec[r] \in RecRow /\ r \in Rec /\ KeyOf(rec[r].val) \in Keys
    BY <1>1, <1>5 DEF Keys
  <2>2. row \in RecRow /\ row.status = "active" /\ row.zone = rec[r].zone /\ row.val = rec[r].val
    BY <2>1 DEF RecRow
  <2>3. rec' = [rec EXCEPT ![r] = row]
    <3> DEFINE k == KeyOf(rec[r].val)
    <3>1. rec' = [rec EXCEPT ![r].status = "active", ![r].synced = k]
      BY <1>5 DEF CompleteDNSRecordSync
    <3> HIDE DEF k
    <3>2. row = [rec[r] EXCEPT !.status = "active", !.synced = k]
      BY DEF k
    <3> QED BY <1>1, <2>1, <2>2, <3>1, <3>2 DEF RecRow
  <2> HIDE DEF row
  <2> QED BY <1>3, <1>5, <2>2, <2>3
<1>6. CASE DeleteDNSRecord(r)
  <2> DEFINE row == [NoRec EXCEPT !.status = "deleted"]
  <2>1. row \in RecRow /\ row.status = "deleted"
    BY DEF NoRec, RecRow
  <2>2. rec' = [rec EXCEPT ![r] = row]
    BY <1>6 DEF DeleteDNSRecord
  <2> HIDE DEF row
  <2> QED BY <1>3, <2>1, <2>2
<1>7. CASE DeleteDNSZone(r)
  <2> DEFINE row == [NoRec EXCEPT !.status = "deleted"]
  <2>1. row \in RecRow /\ row.status = "deleted"
    BY DEF NoRec, RecRow
  <2>2. rec' = [s \in Rec |-> IF s \in ListDNSRecords(r) THEN row ELSE rec[s]]
    BY <1>7 DEF DeleteDNSZone
  <2> HIDE DEF row
  <2> QED BY <1>1, <2>1, <2>2 DEF RecordsKept, RecRows
<1> QED BY <1>2, <1>4, <1>5, <1>6, <1>7 DEF UpdateDNSRecordStatus, CompleteDNSRecordSync

(* The row of the job is marked. *)
LEMMA DnsMarkStep ==
  ASSUME DnsInv, DnsMark
  PROVE  DnsInv'
<1>1. /\ Goes("read", "calling") /\ UNCHANGED <<call, nameservers, provider>>
      /\ pc = "read" /\ pc' = "calling" /\ queue' = queue
  BY DEF DnsMark, Goes
<1>2. call' \in DnsCall
  BY <1>1 DEF DnsInv, WorkerInv
<1>3. WorkerInv(DnsAsked, DnsCall)' /\ held' = held /\ OldRequests
  BY <1>1, <1>2, GoesStep DEF DnsInv
<1>4. /\ zone' \in [Zone -> ZoneRow] /\ ZoneRows' = ZoneRows
      /\ \A y \in Zone : zone'[y].name = zone[y].name
      /\ RecordsKept
  <2>1. CASE UpdateDNSZoneStatus(held.zone, "pending") /\ UNCHANGED rec
    BY <2>1, ZoneStatusStored, RecordStored
  <2>2. CASE UNCHANGED zone /\ (UNCHANGED rec \/ UpdateDNSRecordStatus(held.rec, "pending"))
    BY <2>2, RecordStored DEF DnsInv, DnsRowsFine, ZoneRows
  <2> QED BY <2>1, <2>2 DEF DnsMark
<1>5. /\ RecordsAgree' /\ UpdatesFit'
      /\ \A r \in RecRows' : rec'[r].val \in Value /\ rec'[r].zone \in Zone
  BY <1>3, <1>4, KeptAgree
<1>6. DnsRowsFine' /\ ZonesAreOwned'
  BY <1>1, <1>4, <1>5 DEF DnsInv, DnsRowsFine, ZonesAreOwned, RecordsKept, ZoneRows
<1>7. CallFits'
  BY <1>1, <1>3, <1>4 DEF DnsInv, CallFits
<1> QED BY <1>3, <1>5, <1>6, <1>7 DEF DnsInv

(* What the Agent may have done to the provider: a zone it owns has its    *)
(* row, and one it was to drop is owned no more.                           *)
LEMMA AppliedStep ==
  ASSUME DnsInv, pc = "calling", Applied
  PROVE  /\ provider' \in [ZoneName -> Served]
         /\ \A n \in Foreign : provider'[n].owner = Stranger /\ provider'[n].has = {}
         /\ \A n \in ZoneName : provider'[n].owner \in Zone =>
              /\ provider'[n].owner \in ZoneRows /\ zone[provider'[n].owner].name = n
              /\ held.kind = "zone.delete" => provider'[n].owner # held.zone
<1> USE DEF DnsInv
<1>1. /\ call \in DnsCall /\ call.zone \in Zone /\ call.zone = held.zone
      /\ call.op = "ensure" => call.zone \in ZoneRows
      /\ held.kind = "zone.delete" => call.op = "drop"
      /\ call.zone # None /\ call.zone # Stranger
  <2>1. call \in DnsCall
    BY DEF WorkerInv
  <2> QED BY <2>1, DnsAssumption DEF CallFits, DnsCall
<1>2. provider \in [ZoneName -> Served]
  BY DEF DnsRowsFine
<1>3. Stranger # None /\ Stranger \notin Zone /\ None \notin Zone /\ Foreign \subseteq ZoneName
  BY DnsAssumption
<1> DEFINE name == Name
<1>4. name = zone[call.zone].name
  BY DEF Name
<1>5. CASE EnsureZone
  <2>1. /\ provider' = [provider EXCEPT ![name].owner = call.zone]
        /\ provider[name].owner \in {None, call.zone} /\ call.op = "ensure"
    BY <1>5 DEF EnsureZone
  <2> HIDE DEF name
  <2>2. name \in ZoneName /\ name \notin Foreign
    BY <1>1, <1>3, <1>4, <2>1 DEF DnsRowsFine, ZonesAreOwned
  <2>3. [provider[name] EXCEPT !.owner = call.zone] \in Served
    BY <1>1, <1>2, <2>2 DEF Served
  <2>4. /\ provider' \in [ZoneName -> Served] /\ provider'[name].owner = call.zone
        /\ \A n \in ZoneName : n # name => provider'[n] = provider[n]
    BY <1>2, <2>1, <2>2, <2>3 DEF Served
  <2> QED BY <1>1, <1>3, <1>4, <2>1, <2>2, <2>4 DEF ZonesAreOwned
<1>6. CASE DeleteZone /\ Owned
  <2>1. provider' = [provider EXCEPT ![name] = NoServed] /\ provider[name].owner = call.zone
    BY <1>6 DEF DeleteZone, Owned
  <2> HIDE DEF name
  <2>2. NoServed \in Served /\ NoServed.owner = None
    BY DEF NoServed, Served
  <2>3. /\ provider' \in [ZoneName -> Served]
        /\ \A n \in ZoneName : \/ n # name /\ provider'[n] = provider[n]
                               \/ n = name /\ provider'[n].owner = None
    BY <1>2, <2>1, <2>2
  <2>4. name \notin Foreign
    BY <1>1, <2>1 DEF ZonesAreOwned
  <2>5. \A n \in ZoneName : provider'[n].owner # call.zone
    BY <1>1, <1>4, <2>3 DEF ZonesAreOwned
  <2> QED BY <1>1, <1>3, <2>3, <2>4, <2>5 DEF ZonesAreOwned
<1>7. CASE DeleteZone /\ ~Owned
  <2>1. provider' = provider /\ provider[name].owner # call.zone
    BY <1>7 DEF DeleteZone, Owned
  <2> HIDE DEF name
  <2> QED BY <1>1, <1>2, <1>3, <1>4, <2>1 DEF ZonesAreOwned
<1>8. CASE SyncRecordSets
  <2> DEFINE has == {v \in provider[name].has : KeyOf(v) \notin call.keys} \cup call.set
  <2>1. /\ provider' = [provider EXCEPT ![name].has = has] /\ call.op = "sync"
        /\ provider[name].owner = call.zone
    BY <1>8 DEF SyncRecordSets, Owned
  <2> HIDE DEF name
  <2>2. name \in ZoneName => name \notin Foreign /\ provider[name] \in Served
    BY <1>1, <1>2, <1>3, <2>1 DEF ZonesAreOwned
  <2>3. name \in ZoneName => has \in SUBSET Value
    BY <1>1, <2>2 DEF Served, DnsCall
  <2> HIDE DEF has
  <2>4. name \in ZoneName => [provider[name] EXCEPT !.has = has] \in Served
    BY <2>2, <2>3 DEF Served
  <2>5. /\ provider' \in [ZoneName -> Served]
        /\ \A n \in ZoneName : /\ provider'[n].owner = provider[n].owner
                               /\ n # name => provider'[n] = provider[n]
    BY <1>2, <2>1, <2>2, <2>4 DEF Served
  <2> QED BY <1>1, <1>3, <2>1, <2>2, <2>5 DEF ZonesAreOwned
<1> QED BY <1>5, <1>6, <1>7, <1>8 DEF Applied
(* The handler returns. *)
LEMMA HandleDnsStep ==
  ASSUME DnsInv, HandleDns \/ HandleDnsUnsaved
  PROVE  DnsInv'
<1>1. /\ pc = "calling" /\ nameservers' = nameservers /\ pc' = "handled"
      /\ Applied \/ provider' = provider
      /\ \E good \in BOOLEAN : Returns(good)
      /\ Fault \/ NoFault \/ Unsaved
  BY DEF HandleDns, HandleDnsUnsaved, Returns
<1>2. WorkerInv(DnsAsked, DnsCall)' /\ held' = held /\ OldRequests
  BY <1>1, ReturnsStep DEF DnsInv
<1>3. /\ provider' \in [ZoneName -> Served]
      /\ \A n \in Foreign : provider'[n].owner = Stranger /\ provider'[n].has = {}
      /\ \A n \in ZoneName : provider'[n].owner \in Zone =>
           /\ provider'[n].owner \in ZoneRows /\ zone[provider'[n].owner].name = n
           /\ Applied /\ held.kind = "zone.delete" => provider'[n].owner # held.zone
  <2>1. CASE Applied
    BY <1>1, <2>1, AppliedStep
  <2>2. CASE ~Applied
    BY <1>1, <2>2 DEF DnsInv, DnsRowsFine, ZonesAreOwned
  <2> QED BY <2>1, <2>2
<1>4. held \in DnsAsked
  BY <1>1, HeldIsJob DEF DnsInv
<1>5. held.kind \in {"zone.create", "zone.delete", "create", "update", "delete"}
  BY <1>4 DEF DnsAsked, DnsRequest
<1>6. ASSUME RecordsKept, zone' \in [Zone -> ZoneRow], ZoneRows' = ZoneRows,
             \A z \in Zone : zone'[z].name = zone[z].name
      PROVE  DnsInv'
  <2>1. ZonesAreOwned'
    BY <1>3, <1>6 DEF ZonesAreOwned
  <2>2. \A z \in ZoneRows' : z \in ZoneRows /\ zone'[z].name = zone[z].name
    BY <1>6 DEF ZoneRows
  <2> QED BY <1>1, <1>2, <1>3, <1>6, <2>1, <2>2, DnsHandled
<1>7. CASE zone' = zone
  <2>1. zone' \in [Zone -> ZoneRow] /\ ZoneRows' = ZoneRows
    BY <1>7 DEF DnsInv, DnsRowsFine, ZoneRows
  <2>2. ASSUME DnsSucceed PROVE RecordsKept
    BY <1>5, <2>2, RecordStored DEF DnsSucceed
  <2>3. ASSUME DnsFail PROVE RecordsKept
    BY <2>3, RecordStored DEF DnsFail
  <2>4. ASSUME UNCHANGED rec PROVE RecordsKept
    BY <2>4, RecordStored
  <2> QED BY <1>6, <1>7, <2>1, <2>2, <2>3, <2>4 DEF HandleDns, HandleDnsUnsaved
<1>8. CASE UNCHANGED rec /\ \E s \in {"active", "error"} : UpdateDNSZoneStatus(held.zone, s)
  <2>1. RecordsKept
    BY <1>8, RecordStored
  <2> QED BY <1>6, <1>8, <2>1, ZoneStatusStored
<1>9. CASE Applied /\ held.kind = "zone.delete" /\ DeleteDNSZone(held.zone)
  <2>1. RecordsKept
    BY <1>9, RecordStored
  <2>2. /\ zone' = [zone EXCEPT ![held.zone] = [NoZone EXCEPT !.status = "deleted"]]
        /\ zone \in [Zone -> ZoneRow]
    BY <1>9 DEF DeleteDNSZone, DnsInv, DnsRowsFine
  <2>3. [NoZone EXCEPT !.status = "deleted"] \in ZoneRow
    BY DEF NoZone, ZoneRow
  <2>4. /\ zone' \in [Zone -> ZoneRow]
        /\ \A z \in Zone : IF z = held.zone THEN zone'[z].status = "deleted"
                                            ELSE zone'[z] = zone[z]
    BY <2>2, <2>3 DEF NoZone
  <2>5. /\ \A z \in ZoneRows' : z \in ZoneRows /\ zone'[z].name = zone[z].name
        /\ \A z \in ZoneRows : z # held.zone => z \in ZoneRows'
    BY <2>4 DEF ZoneRows
  <2>6. ZonesAreOwned'
    BY <1>3, <1>9, <2>5 DEF ZonesAreOwned
  <2> QED BY <1>1, <1>2, <1>3, <2>1, <2>4, <2>5, <2>6, DnsHandled
<1> QED
  <2>1. CASE HandleDns /\ DnsFail
    BY <1>7, <1>8, <2>1 DEF DnsFail
  <2>2. CASE HandleDns /\ DnsSucceed /\ Applied
    BY <1>5, <1>7, <1>8, <1>9, <2>2 DEF DnsSucceed
  <2>3. CASE HandleDnsUnsaved
    BY <1>7, <2>3 DEF HandleDnsUnsaved
  <2> QED BY <2>1, <2>2, <2>3 DEF HandleDns

LEMMA DieWithDnsStep ==
  ASSUME DnsInv, DieWithDns
  PROVE  DnsInv'
<1>1. /\ WorkerInv(DnsAsked, DnsCall)' /\ OldRequests /\ pc' = "idle"
      /\ UNCHANGED <<nameservers, zone, rec>>
      /\ (pc = "calling" /\ Applied) \/ provider' = provider
  BY DieStep DEF DieWithDns, DnsInv, Die
<1>2. ZoneRows' = ZoneRows
  BY <1>1 DEF ZoneRows
<1>3. provider' \in [ZoneName -> Served] /\ ZonesAreOwned'
  <2>1. CASE pc = "calling" /\ Applied
    BY <1>1, <1>2, <2>1, AppliedStep DEF ZonesAreOwned
  <2>2. CASE provider' = provider
    BY <1>1, <1>2, <2>2 DEF DnsInv, DnsRowsFine, ZonesAreOwned
  <2> QED BY <1>1, <2>1, <2>2
<1>4. RecordsKept
  BY <1>1, RecordStored
<1>5. /\ zone' \in [Zone -> ZoneRow]
      /\ \A z \in ZoneRows' : z \in ZoneRows /\ zone'[z].name = zone[z].name
  BY <1>1, <1>2 DEF DnsInv, DnsRowsFine
<1> QED BY <1>1, <1>3, <1>4, <1>5, DnsHandled

LEMMA DnsNextStep == ASSUME DnsInv, DnsNext PROVE DnsInv'
<1>1. CASE DnsRequests
  <2>1. ASSUME NEW i \in DOMAIN queue, Accept(i), CommitDns(queue[i].req),
               UNCHANGED <<nameservers, provider>>
        PROVE  DnsInv'
    <3>1. queue[i].req \in DnsAsked
      BY RequestsAreKnown DEF DnsInv
    <3> QED BY <2>1, <3>1, DnsAcceptStep
  <2> QED BY <1>1, <2>1, UpdateSettingsStep, DnsAsksStep DEF DnsRequests
<1> QED BY <1>1, DnsPassiveStep, DnsReadStep, DnsMarkStep, HandleDnsStep, DieWithDnsStep
        DEF DnsNext, DnsWorker
-------------------------------------------------------------------------------
(* Databases, users and grants. *)

DbKinds == {"db.create", "db.delete"}
UserKinds == {"user.create", "user.delete"}
GrantKinds == {"grant.create", "grant.delete"}

(* The requests there are: one names the rows it is about, and only those. *)
DbAsked ==
  {q \in DbRequest :
     /\ q.kind \in DbKinds => q.db \in Db /\ q.user = None
     /\ q.kind \in UserKinds => q.db = None /\ q.user \in DbUser
     /\ q.kind \in GrantKinds => q.db \in Db /\ q.user \in DbUser
     /\ q.kind = "db.create" => q.name \in DbName
     /\ q.kind = "user.create" => q.name \in UserName}

DbRowsFine ==
  /\ db \in [Db -> DbRow] /\ user \in [DbUser -> UserRow]
  /\ grant \in [Db \X DbUser -> GrantRow]
  /\ mysql \in Server
  /\ \A d \in DbRows : db[d].name \in DbName
  /\ \A u \in UserRows : user[u].name \in UserName

(* What the Agent is asked for has the names of the rows of the job.       *)
DbCallFits ==
  pc \in {"read", "calling"} =>
    /\ call.op = held.kind
    /\ held.db # None => held.db \in DbRows /\ call.db = db[held.db].name
    /\ held.user # None => held.user \in UserRows /\ call.user = user[held.user].name

(* A database or user in MySQL has its row. *)
ObjectsHaveRows ==
  /\ \A n \in mysql.dbs : DatabaseNameExists(n)
  /\ \A m \in mysql.users : DatabaseUserNameExists(m)

DbInv ==
  /\ WorkerInv(DbAsked, DbCall)
  /\ DbRowsFine
  /\ DbCallFits
  /\ ObjectsHaveRows

LEMMA DbInvInit == WorkerInit /\ DbInit => DbInv
<1> SUFFICES ASSUME WorkerInit, DbInit PROVE DbInv
  OBVIOUS
<1>1. WorkerInv(DbAsked, DbCall) /\ DbCallFits
  BY WorkerInitInv DEF WorkerInit, DbCallFits
<1>2. grant \in [Db \X DbUser -> GrantRow]
  BY DEF DbInit, DbNone, GrantRow
<1>3. CASE DbNone
  <2>1. db \in [Db -> DbRow] /\ user \in [DbUser -> UserRow] /\ DbRows = {} /\ UserRows = {}
    BY <1>3 DEF DbNone, NoDb, DbRow, UserRow, Status, DbRows, UserRows
  <2>2. mysql \in Server /\ mysql.dbs = {} /\ mysql.users = {}
    BY <1>3 DEF DbNone, Server
  <2> QED BY <1>1, <1>2, <2>1, <2>2 DEF DbInv, DbRowsFine, ObjectsHaveRows
<1>4. ASSUME NEW d \in Db, NEW u \in DbUser, NEW n \in DbName, NEW m \in UserName,
             db = [e \in Db |-> IF e = d THEN [status |-> "active", name |-> n] ELSE NoDb],
             user = [v \in DbUser |-> IF v = u THEN [status |-> "active", name |-> m] ELSE NoDb],
             mysql = [dbs |-> {n}, users |-> {m}, rights |-> {}]
      PROVE  DbInv
  <2>1. db \in [Db -> DbRow] /\ DbRows = {d} /\ db[d].name = n
    BY <1>4 DEF NoDb, DbRow, Status, DbRows
  <2>2. user \in [DbUser -> UserRow] /\ UserRows = {u} /\ user[u].name = m
    BY <1>4 DEF NoDb, UserRow, Status, UserRows
  <2>3. mysql \in Server /\ mysql.dbs = {n} /\ mysql.users = {m}
    BY <1>4 DEF Server
  <2> QED BY <1>1, <1>2, <2>1, <2>2, <2>3
          DEF DbInv, DbRowsFine, ObjectsHaveRows, DatabaseNameExists, DatabaseUserNameExists
<1> QED BY <1>3, <1>4 DEF DbInit

(* Rows that stay, possibly with another status, with their names. *)
RowsStay ==
  /\ \A d \in DbRows : d \in DbRows' /\ db'[d].name = db[d].name
  /\ \A u \in UserRows : u \in UserRows' /\ user'[u].name = user[u].name

LEMMA DbRequestStep ==
  ASSUME DbInv, WorkerInv(DbAsked, DbCall)', Requested, UNCHANGED <<call, mysql>>,
         DbRowsFine', RowsStay
  PROVE  DbInv'
<1>1. ObjectsHaveRows'
  BY DEF DbInv, ObjectsHaveRows, DatabaseNameExists, DatabaseUserNameExists, RowsStay
<1>2. DbCallFits'
  <2>1. pc' \in {"read", "calling"} => held' = held /\ pc = pc'
    BY HeldIsKept DEF DbInv, Requested
  <2> QED BY <2>1 DEF DbInv, DbCallFits, RowsStay
<1> QED BY <1>1, <1>2 DEF DbInv

LEMMA DbSame ==
  ASSUME DbInv, UNCHANGED dbVars
  PROVE  /\ DbRowsFine' /\ RowsStay /\ ObjectsHaveRows' /\ mysql' = mysql
         /\ UNCHANGED <<db, user, DbRows, UserRows>>
<1>1. UNCHANGED <<db, user, grant, mysql>>
  BY DEF dbVars
<1>2. DbRows' = DbRows /\ UserRows' = UserRows
  BY <1>1 DEF DbRows, UserRows
<1> QED BY <1>1, <1>2 DEF DbInv, DbRowsFine, RowsStay, ObjectsHaveRows, DatabaseNameExists,
                          DatabaseUserNameExists

LEMMA DbAsksStep ==
  ASSUME DbInv, UNCHANGED dbVars,
         \/ \E d \in Db, name \in DbName : AskCreateDatabase(d, name)
         \/ \E u \in DbUser, name \in UserName : AskCreateUser(u, name)
         \/ \E d \in Db : AskDeleteDatabase(d)
         \/ \E u \in DbUser : AskDeleteUser(u)
         \/ \E d \in Db, u \in DbUser, kind \in {"grant.create", "grant.delete"} :
              AskGrant(d, u, kind)
         \/ \E i \in DOMAIN queue : Withdraw(i)
         \/ Suspend \/ Resume
  PROVE  DbInv'
<1> USE DEF DbKinds, UserKinds, GrantKinds
<1>1. ASSUME NEW q \in DbAsked, Ask(q) PROVE DbInv'
  <2>1. WorkerInv(DbAsked, DbCall)' /\ Requested /\ call' = call
    BY <1>1, AskStep DEF DbInv, Ask
  <2> QED BY <2>1, DbSame, DbRequestStep
<1>2. ASSUME NEW d \in Db, NEW name \in DbName, AskCreateDatabase(d, name) PROVE DbInv'
  <2> DEFINE q == [kind |-> "db.create", db |-> d, user |-> None, name |-> name]
  <2>1. q \in DbAsked /\ Ask(q)
    BY <1>2 DEF AskCreateDatabase, AskDb, DbRequest, DbAsked
  <2> QED BY <1>1, <2>1
<1>3. ASSUME NEW u \in DbUser, NEW name \in UserName, AskCreateUser(u, name) PROVE DbInv'
  <2> DEFINE q == [kind |-> "user.create", db |-> None, user |-> u, name |-> name]
  <2>1. q \in DbAsked /\ Ask(q)
    BY <1>3 DEF AskCreateUser, AskDb, DbRequest, DbAsked
  <2> QED BY <1>1, <2>1
<1>4. ASSUME NEW d \in Db, AskDeleteDatabase(d) PROVE DbInv'
  <2> DEFINE q == [kind |-> "db.delete", db |-> d, user |-> None, name |-> None]
  <2>1. q \in DbAsked /\ Ask(q)
    BY <1>4 DEF AskDeleteDatabase, AskDb, DbRequest, DbAsked
  <2> QED BY <1>1, <2>1
<1>5. ASSUME NEW u \in DbUser, AskDeleteUser(u) PROVE DbInv'
  <2> DEFINE q == [kind |-> "user.delete", db |-> None, user |-> u, name |-> None]
  <2>1. q \in DbAsked /\ Ask(q)
    BY <1>5 DEF AskDeleteUser, AskDb, DbRequest, DbAsked
  <2> QED BY <1>1, <2>1
<1>6. ASSUME NEW d \in Db, NEW u \in DbUser, NEW kind \in {"grant.create", "grant.delete"},
             AskGrant(d, u, kind)
      PROVE  DbInv'
  <2> DEFINE q == [kind |-> kind, db |-> d, user |-> u, name |-> None]
  <2>1. q \in DbAsked /\ Ask(q)
    BY <1>6 DEF AskGrant, AskDb, DbRequest, DbAsked
  <2> QED BY <1>1, <2>1
<1>7. ASSUME (\E i \in DOMAIN queue : Withdraw(i)) \/ Suspend \/ Resume PROVE DbInv'
  <2>1. WorkerInv(DbAsked, DbCall)' /\ Requested
    BY <1>7, WithdrawStep, SuspendStep DEF DbInv
  <2>2. call' = call
    BY <1>7 DEF Withdraw, Suspend, Resume, events
  <2> QED BY <2>1, <2>2, DbSame, DbRequestStep
<1> QED BY <1>2, <1>3, <1>4, <1>5, <1>6, <1>7
(* What a transaction stores of databases, users and grants. *)
LEMMA CommitDbRows ==
  ASSUME DbInv, NEW q \in DbAsked, CommitDb(q), mysql' = mysql
  PROVE  DbRowsFine' /\ RowsStay
<1> USE DEF DbInv, DbKinds, UserKinds, GrantKinds
<1>1. /\ db \in [Db -> DbRow] /\ user \in [DbUser -> UserRow]
      /\ grant \in [Db \X DbUser -> GrantRow] /\ mysql' \in Server
  BY DEF DbRowsFine
<1>2. ASSUME NEW d \in Db, NEW row \in DbRow, db' = [db EXCEPT ![d] = row],
             row.status = "pending", row.name \in DbName,
             d \in DbRows => row.name = db[d].name, UNCHANGED <<user, grant>>
      PROVE  DbRowsFine' /\ RowsStay
  <2>1. /\ db' \in [Db -> DbRow] /\ db'[d] = row
        /\ \A e \in Db : e # d => db'[e] = db[e]
    BY <1>1, <1>2
  <2>2. DbRows' = DbRows \cup {d} /\ UserRows' = UserRows
    BY <1>2, <2>1 DEF DbRows, UserRows
  <2>3. \A e \in DbRows' : db'[e].name \in DbName
    BY <1>2, <2>1, <2>2 DEF DbRowsFine, DbRows
  <2>4. RowsStay
    BY <1>2, <2>1, <2>2 DEF RowsStay, DbRows
  <2> QED BY <1>1, <1>2, <2>1, <2>2, <2>3, <2>4 DEF DbRowsFine
<1>3. ASSUME NEW u \in DbUser, NEW row \in UserRow, user' = [user EXCEPT ![u] = row],
             row.status = "pending", row.name \in UserName,
             u \in UserRows => row.name = user[u].name, UNCHANGED <<db, grant>>
      PROVE  DbRowsFine' /\ RowsStay
  <2>1. /\ user' \in [DbUser -> UserRow] /\ user'[u] = row
        /\ \A e \in DbUser : e # u => user'[e] = user[e]
    BY <1>1, <1>3
  <2>2. UserRows' = UserRows \cup {u} /\ DbRows' = DbRows
    BY <1>3, <2>1 DEF DbRows, UserRows
  <2>3. \A e \in UserRows' : user'[e].name \in UserName
    BY <1>3, <2>1, <2>2 DEF DbRowsFine, UserRows
  <2>4. RowsStay
    BY <1>3, <2>1, <2>2 DEF RowsStay, UserRows
  <2> QED BY <1>1, <1>3, <2>1, <2>2, <2>3, <2>4 DEF DbRowsFine
<1>4. CASE CommitCreateDatabase(q)
  <2> DEFINE row == [status |-> "pending", name |-> q.name]
  <2>1. q.db \in Db /\ q.name \in DbName
    BY <1>4 DEF CommitCreateDatabase, DbAsked
  <2>2. row \in DbRow /\ q.db \notin DbRows
    BY <1>4, <2>1 DEF CommitCreateDatabase, DbRow, Status, DbRows
  <2>3. db' = [db EXCEPT ![q.db] = row] /\ UNCHANGED <<user, grant>>
    BY <1>4 DEF CommitCreateDatabase, CreateDatabase
  <2> QED BY <1>2, <2>1, <2>2, <2>3
<1>5. CASE CommitCreateUser(q)
  <2> DEFINE row == [status |-> "pending", name |-> q.name]
  <2>1. q.user \in DbUser /\ q.name \in UserName
    BY <1>5 DEF CommitCreateUser, DbAsked
  <2>2. row \in UserRow /\ q.user \notin UserRows
    BY <1>5, <2>1 DEF CommitCreateUser, UserRow, Status, UserRows
  <2>3. user' = [user EXCEPT ![q.user] = row] /\ UNCHANGED <<db, grant>>
    BY <1>5 DEF CommitCreateUser, CreateDatabaseUser
  <2> QED BY <1>3, <2>1, <2>2, <2>3
<1>6. CASE CommitDeleteDatabase(q)
  <2> DEFINE row == [db[q.db] EXCEPT !.status = "pending"]
  <2>1. q.db \in DbRows /\ q.db \in Db /\ db[q.db] \in DbRow /\ db[q.db].name \in DbName
    BY <1>1, <1>6 DEF CommitDeleteDatabase, QueueDatabaseDelete, DbRows, DbRowsFine
  <2>2. row \in DbRow /\ row.status = "pending" /\ row.name = db[q.db].name
    BY <2>1 DEF DbRow, Status
  <2>3. db' = [db EXCEPT ![q.db] = row] /\ UNCHANGED <<user, grant>>
    BY <1>6 DEF CommitDeleteDatabase, QueueDatabaseDelete
  <2> HIDE DEF row
  <2> QED BY <1>2, <2>1, <2>2, <2>3
<1>7. CASE CommitDeleteUser(q)
  <2> DEFINE row == [user[q.user] EXCEPT !.status = "pending"]
  <2>1. q.user \in UserRows /\ q.user \in DbUser /\ user[q.user] \in UserRow
        /\ user[q.user].name \in UserName
    BY <1>1, <1>7 DEF CommitDeleteUser, QueueDatabaseUserDelete, UserRows, DbRowsFine
  <2>2. row \in UserRow /\ row.status = "pending" /\ row.name = user[q.user].name
    BY <2>1 DEF UserRow, Status
  <2>3. user' = [user EXCEPT ![q.user] = row] /\ UNCHANGED <<db, grant>>
    BY <1>7 DEF CommitDeleteUser, QueueDatabaseUserDelete
  <2> HIDE DEF row
  <2> QED BY <1>3, <2>1, <2>2, <2>3
<1>8. CASE CommitGrant(q)
  <2>1. grant' \in [Db \X DbUser -> GrantRow] /\ UNCHANGED <<db, user>>
    BY <1>1, <1>8 DEF CommitGrant, UpsertDatabaseGrant, QueueDatabaseGrantDelete, GrantRow
  <2>2. DbRows' = DbRows /\ UserRows' = UserRows
    BY <2>1 DEF DbRows, UserRows
  <2> QED BY <1>1, <2>1, <2>2 DEF DbRowsFine, RowsStay
<1> QED BY <1>4, <1>5, <1>6, <1>7, <1>8 DEF CommitDb

LEMMA DbRequestsStep ==
  ASSUME DbInv, DbRequests
  PROVE  DbInv'
<1>1. ASSUME NEW i \in DOMAIN queue, Accept(i), CommitDb(queue[i].req), UNCHANGED mysql
      PROVE  DbInv'
  <2>1. queue[i].req \in DbAsked
    BY RequestsAreKnown DEF DbInv
  <2>2. WorkerInv(DbAsked, DbCall)' /\ Requested /\ call' = call
    BY <1>1, AcceptStep DEF DbInv, Accept
  <2>3. \A q \in DbAsked : CommitDb(q) => DbRowsFine' /\ RowsStay
    BY <1>1, CommitDbRows
  <2>4. DbRowsFine' /\ RowsStay
    BY <1>1, <2>1, <2>3
  <2> QED BY <1>1, <2>2, <2>4, DbRequestStep
<1> QED BY <1>1, DbAsksStep DEF DbRequests

(* A step of the worker between two handlers. *)
LEMMA DbHandled ==
  ASSUME DbInv, WorkerInv(DbAsked, DbCall)', pc' \notin {"read", "calling"},
         DbRowsFine', ObjectsHaveRows'
  PROVE  DbInv'
  BY DEF DbInv, DbCallFits

LEMMA DbPassiveStep ==
  ASSUME DbInv,
         \/ (Claim \/ Settle) /\ UNCHANGED dbVars
         \/ DbNothing \/ DbReadFails
  PROVE  DbInv'
<1>1. UNCHANGED dbVars
  BY DEF DbNothing, DbReadFails
<1>2. WorkerInv(DbAsked, DbCall)'
  <2>1. CASE Claim
    BY <2>1, ClaimStep DEF DbInv
  <2>2. CASE Settle
    BY <2>2, SettleStep DEF DbInv
  <2>3. CASE /\ pc = "claimed" /\ Returns(FALSE)
             /\ NoFault \/ Unsaved
    BY <2>3, ReturnsStep DEF DbInv
  <2> QED BY <2>1, <2>2, <2>3 DEF DbNothing, DbReadFails
<1>3. pc' \notin {"read", "calling"}
  BY DEF Claim, Settle, DbNothing, DbReadFails, Returns
<1> QED BY <1>1, <1>2, <1>3, DbSame, DbHandled
(* The job the worker runs names its rows. *)
LEMMA DbHeld ==
  ASSUME DbInv, pc # "idle"
  PROVE  /\ held \in DbAsked /\ held.kind \in DbKinds \cup UserKinds \cup GrantKinds
         /\ held.kind \in DbKinds => held.db \in Db /\ held.user = None
         /\ held.kind \in UserKinds => held.db = None /\ held.user \in DbUser
         /\ held.kind \in GrantKinds => held.db \in Db /\ held.user \in DbUser
         /\ None \notin Db \cup DbUser
<1>1. held \in DbAsked
  BY HeldIsJob DEF DbInv
<1> QED BY <1>1, DatabaseAssumption DEF DbAsked, DbRequest, DbKinds, UserKinds, GrantKinds

LEMMA CallDbStep ==
  ASSUME DbInv, CallDb
  PROVE  DbInv'
<1>1. /\ Goes("claimed", "calling") /\ ~DbRowGone /\ UNCHANGED dbVars
      /\ pc = "claimed" /\ pc' = "calling"
      /\ call' = [op |-> held.kind,
                  db |-> IF held.db = None THEN None ELSE db[held.db].name,
                  user |-> IF held.user = None THEN None ELSE user[held.user].name]
  BY DEF CallDb, Goes
<1>2. /\ held.kind \in DbKinds \cup UserKinds \cup GrantKinds
      /\ held.db # None => held.db \in DbRows /\ db[held.db].name \in DbName
      /\ held.user # None => held.user \in UserRows /\ user[held.user].name \in UserName
  BY <1>1, DbHeld DEF DbRowGone, DbInv, DbRowsFine
<1>3. call' \in DbCall
  BY <1>1, <1>2 DEF DbCall, DbKinds, UserKinds, GrantKinds
<1>4. WorkerInv(DbAsked, DbCall)' /\ held' = held
  BY <1>1, <1>3, GoesStep DEF DbInv
<1>5. /\ DbRowsFine' /\ ObjectsHaveRows' /\ UNCHANGED <<db, user, DbRows, UserRows>>
  BY <1>1, DbSame
<1>6. DbCallFits'
  BY <1>1, <1>2, <1>4, <1>5 DEF DbCallFits
<1> QED BY <1>4, <1>5, <1>6 DEF DbInv

(* What the MySQL server has after the statements of the Agent: nothing    *)
(* that has no row, and not what was to be deleted.                        *)
LEMMA ExecutedStep ==
  ASSUME DbInv, pc = "calling", Executed
  PROVE  /\ mysql' \in Server
         /\ \A n \in mysql'.dbs : DatabaseNameExists(n)
         /\ \A m \in mysql'.users : DatabaseUserNameExists(m)
         /\ held.kind = "db.delete" => db[held.db].name \notin mysql'.dbs
         /\ held.kind = "user.delete" => user[held.user].name \notin mysql'.users
<1> USE DEF DbInv, DbKinds, UserKinds, GrantKinds
<1>1. /\ held.kind \in DbKinds \cup UserKinds \cup GrantKinds
      /\ held.kind \in DbKinds \cup GrantKinds =>
           /\ held.db \in DbRows /\ call.db = db[held.db].name /\ call.db \in DbName
           /\ DatabaseNameExists(call.db)
      /\ held.kind \in UserKinds \cup GrantKinds =>
           /\ held.user \in UserRows /\ call.user = user[held.user].name /\ call.user \in UserName
           /\ DatabaseUserNameExists(call.user)
      /\ call.op = held.kind
  BY DbHeld DEF DbCallFits, DbRowsFine, DatabaseNameExists, DatabaseUserNameExists
<1>2. /\ mysql \in Server
      /\ \A n \in mysql.dbs : DatabaseNameExists(n)
      /\ \A m \in mysql.users : DatabaseUserNameExists(m)
  BY DEF DbRowsFine, ObjectsHaveRows
<1>3. Run(call)
  BY DEF Executed
<1>4. CASE held.kind = "db.create"
  BY <1>1, <1>2, <1>3, <1>4 DEF Run, Server
<1>5. CASE held.kind = "db.delete"
  BY <1>1, <1>2, <1>3, <1>5 DEF Run, Server
<1>6. CASE held.kind = "user.create"
  BY <1>1, <1>2, <1>3, <1>6 DEF Run, Server
<1>7. CASE held.kind = "user.delete"
  BY <1>1, <1>2, <1>3, <1>7 DEF Run, Server
<1>8. CASE held.kind = "grant.create"
  BY <1>1, <1>2, <1>3, <1>8 DEF Run, Server
<1>9. CASE held.kind = "grant.delete"
  BY <1>1, <1>2, <1>3, <1>9 DEF Run, Server
<1> QED BY <1>1, <1>4, <1>5, <1>6, <1>7, <1>8, <1>9

(* What the handler's last statement leaves of the rows: those of which it *)
(* stores a status stay, the one it deletes goes.                          *)
LEMMA StoredRows ==
  ASSUME DbInv, pc = "calling", mysql' \in Server,
         Stored("active") \/ Stored("error") \/ UNCHANGED <<db, user, grant>>
  PROVE  DbRowsFine' /\ RowsStay
<1> USE DEF DbInv
<1>1. /\ db \in [Db -> DbRow] /\ user \in [DbUser -> UserRow]
      /\ grant \in [Db \X DbUser -> GrantRow]
  BY DEF DbRowsFine
<1>2. ASSUME NEW s \in {"active", "error"}, NEW d \in DbRows, UpdateDatabaseStatus(d, s),
             UNCHANGED <<user, grant>>
      PROVE  DbRowsFine' /\ RowsStay
  <2> DEFINE row == [db[d] EXCEPT !.status = s]
  <2>1. d \in Db /\ db[d] \in DbRow
    BY <1>1 DEF DbRows
  <2>2. row \in DbRow /\ row.status = s /\ row.name = db[d].name
    BY <2>1 DEF DbRow, Status
  <2>3. db' = [db EXCEPT ![d] = row]
    BY <1>2 DEF UpdateDatabaseStatus
  <2> HIDE DEF row
  <2>4. /\ db' \in [Db -> DbRow] /\ \A e \in Db : db'[e].name = db[e].name
        /\ db'[d].status = s /\ \A e \in Db : e # d => db'[e] = db[e]
    BY <1>1, <2>1, <2>2, <2>3
  <2>5. DbRows' = DbRows /\ UserRows' = UserRows
    BY <1>2, <2>4 DEF DbRows, UserRows
  <2> QED BY <1>1, <1>2, <2>4, <2>5 DEF DbRowsFine, RowsStay, DbRows
<1>3. ASSUME NEW s \in {"active", "error"}, NEW u \in UserRows, UpdateDatabaseUserStatus(u, s),
             UNCHANGED <<db, grant>>
      PROVE  DbRowsFine' /\ RowsStay
  <2> DEFINE row == [user[u] EXCEPT !.status = s]
  <2>1. u \in DbUser /\ user[u] \in UserRow
    BY <1>1 DEF UserRows
  <2>2. row \in UserRow /\ row.status = s /\ row.name = user[u].name
    BY <2>1 DEF UserRow, Status
  <2>3. user' = [user EXCEPT ![u] = row]
    BY <1>3 DEF UpdateDatabaseUserStatus
  <2> HIDE DEF row
  <2>4. /\ user' \in [DbUser -> UserRow] /\ \A e \in DbUser : user'[e].name = user[e].name
        /\ user'[u].status = s /\ \A e \in DbUser : e # u => user'[e] = user[e]
    BY <1>1, <2>1, <2>2, <2>3
  <2>5. DbRows' = DbRows /\ UserRows' = UserRows
    BY <1>3, <2>4 DEF DbRows, UserRows
  <2> QED BY <1>1, <1>3, <2>4, <2>5 DEF DbRowsFine, RowsStay, UserRows
<1>4. ASSUME grant' \in [Db \X DbUser -> GrantRow], UNCHANGED <<db, user>>
      PROVE  DbRowsFine' /\ RowsStay
  <2>1. DbRows' = DbRows /\ UserRows' = UserRows
    BY <1>4 DEF DbRows, UserRows
  <2> QED BY <1>1, <1>4, <2>1 DEF DbRowsFine, RowsStay
<1>5. ASSUME NEW s \in {"active", "error"}, Stored(s)
      PROVE  DbRowsFine' /\ RowsStay
  <2>1. CASE held.kind \in DbKinds
    <3>1. held.db \in DbRows
      BY <2>1, DbHeld DEF DbCallFits
    <3> QED BY <1>2, <1>5, <2>1, <3>1 DEF Stored, DbKinds
  <2>2. CASE held.kind \in UserKinds
    <3>1. held.user \in UserRows
      BY <2>2, DbHeld DEF DbCallFits
    <3> QED BY <1>3, <1>5, <2>2, <3>1 DEF Stored, UserKinds
  <2>3. CASE held.kind \in GrantKinds
    <3>1. /\ UpdateDatabaseGrantStatus(<<held.db, held.user>>, s)
          /\ UNCHANGED <<db, user>>
      BY <1>5, <2>3 DEF Stored, GrantKinds
    <3>2. grant' \in [Db \X DbUser -> GrantRow]
      BY <1>1, <3>1 DEF UpdateDatabaseGrantStatus, GrantRow
    <3> QED BY <1>4, <3>1, <3>2
  <2> QED BY <2>1, <2>2, <2>3, DbHeld
<1> QED BY <1>1, <1>4, <1>5
LEMMA HandleDbStep ==
  ASSUME DbInv, HandleDb \/ HandleDbUnsaved
  PROVE  DbInv'
<1> USE DEF DbInv
<1>1. /\ pc = "calling" /\ pc' = "handled"
      /\ \E good \in BOOLEAN : Returns(good)
      /\ Fault \/ NoFault \/ Unsaved
      /\ Executed \/ mysql' = mysql
  BY DEF HandleDb, HandleDbUnsaved, Returns
<1>2. WorkerInv(DbAsked, DbCall)'
  BY <1>1, ReturnsStep
<1>3. /\ mysql' \in Server
      /\ \A n \in mysql'.dbs : DatabaseNameExists(n)
      /\ \A m \in mysql'.users : DatabaseUserNameExists(m)
  BY <1>1, ExecutedStep DEF DbRowsFine, ObjectsHaveRows
<1>4. ASSUME DbRowsFine', RowsStay
      PROVE  DbInv'
  <2>1. ObjectsHaveRows'
    BY <1>3, <1>4 DEF ObjectsHaveRows, DatabaseNameExists, DatabaseUserNameExists, RowsStay
  <2> QED BY <1>1, <1>2, <1>4, <2>1, DbHandled
<1>5. CASE Stored("active") \/ Stored("error") \/ UNCHANGED <<db, user, grant>>
  BY <1>1, <1>3, <1>4, <1>5, StoredRows
<1>6. /\ db \in [Db -> DbRow] /\ user \in [DbUser -> UserRow]
      /\ grant \in [Db \X DbUser -> GrantRow]
      /\ [NoDb EXCEPT !.status = "deleted"] \in DbRow \cap UserRow
      /\ [NoDb EXCEPT !.status = "deleted"].status = "deleted"
  BY DEF DbRowsFine, NoDb, DbRow, UserRow, Status
<1>7. CASE held.kind = "db.delete" /\ Executed /\ DeleteDatabaseRow(held.db) /\ UNCHANGED user
  <2>1. db' = [db EXCEPT ![held.db] = [NoDb EXCEPT !.status = "deleted"]]
        /\ grant' \in [Db \X DbUser -> GrantRow]
    BY <1>6, <1>7 DEF DeleteDatabaseRow, GrantRow
  <2>2. /\ db' \in [Db -> DbRow]
        /\ \A d \in Db : IF d = held.db THEN db'[d].status = "deleted" ELSE db'[d] = db[d]
    BY <1>6, <2>1
  <2>3. /\ \A d \in DbRows : d # held.db => d \in DbRows' /\ db'[d] = db[d]
        /\ \A d \in DbRows' : d \in DbRows /\ db'[d] = db[d]
        /\ UserRows' = UserRows
    BY <1>7, <2>2 DEF DbRows, UserRows
  <2>4. DbRowsFine'
    BY <1>3, <1>6, <1>7, <2>1, <2>2, <2>3 DEF DbRowsFine
  <2>5. db[held.db].name \notin mysql'.dbs
    BY <1>1, <1>7, ExecutedStep
  <2>6. \A n \in mysql'.dbs : DatabaseNameExists(n)'
    <3> TAKE n \in mysql'.dbs
    <3>1. PICK d \in DbRows : db[d].name = n
      BY <1>3 DEF DatabaseNameExists
    <3>2. d \in DbRows' /\ db'[d].name = n
      BY <2>3, <2>5, <3>1
    <3> QED BY <3>2 DEF DatabaseNameExists
  <2>7. ObjectsHaveRows'
    BY <1>3, <1>7, <2>3, <2>6 DEF ObjectsHaveRows, DatabaseUserNameExists
  <2> QED BY <1>1, <1>2, <2>4, <2>7, DbHandled
<1>8. CASE held.kind = "user.delete" /\ Executed /\ DeleteDatabaseUser(held.user) /\ UNCHANGED db
  <2>1. user' = [user EXCEPT ![held.user] = [NoDb EXCEPT !.status = "deleted"]]
        /\ grant' \in [Db \X DbUser -> GrantRow]
    BY <1>6, <1>8 DEF DeleteDatabaseUser, GrantRow
  <2>2. /\ user' \in [DbUser -> UserRow]
        /\ \A u \in DbUser : IF u = held.user THEN user'[u].status = "deleted"
                                              ELSE user'[u] = user[u]
    BY <1>6, <2>1
  <2>3. /\ \A u \in UserRows : u # held.user => u \in UserRows' /\ user'[u] = user[u]
        /\ \A u \in UserRows' : u \in UserRows /\ user'[u] = user[u]
        /\ DbRows' = DbRows
    BY <1>8, <2>2 DEF DbRows, UserRows
  <2>4. DbRowsFine'
    BY <1>3, <1>6, <1>8, <2>1, <2>2, <2>3 DEF DbRowsFine
  <2>5. user[held.user].name \notin mysql'.users
    BY <1>1, <1>8, ExecutedStep
  <2>6. \A m \in mysql'.users : DatabaseUserNameExists(m)'
    <3> TAKE m \in mysql'.users
    <3>1. PICK u \in UserRows : user[u].name = m
      BY <1>3 DEF DatabaseUserNameExists
    <3>2. u \in UserRows' /\ user'[u].name = m
      BY <2>3, <2>5, <3>1
    <3> QED BY <3>2 DEF DatabaseUserNameExists
  <2>7. ObjectsHaveRows'
    BY <1>3, <1>8, <2>3, <2>6 DEF ObjectsHaveRows, DatabaseNameExists
  <2> QED BY <1>1, <1>2, <2>4, <2>7, DbHandled
<1>9. CASE DeleteDatabaseGrant(<<held.db, held.user>>) /\ UNCHANGED <<db, user>>
  <2>1. grant' \in [Db \X DbUser -> GrantRow] /\ UserRows' = UserRows /\ DbRows' = DbRows
    BY <1>6, <1>9 DEF DeleteDatabaseGrant, GrantRow, DbRows, UserRows
  <2>2. DbRowsFine' /\ RowsStay
    BY <1>3, <1>6, <1>9, <2>1 DEF DbRowsFine, RowsStay
  <2> QED BY <1>4, <2>2
<1> QED
  <2>1. CASE HandleDb /\ DbFail
    BY <1>5, <2>1 DEF DbFail
  <2>2. CASE HandleDb /\ DbSucceed /\ Executed
    BY <1>5, <1>7, <1>8, <1>9, <2>2 DEF DbSucceed
  <2>3. CASE HandleDbUnsaved
    BY <1>5, <2>3 DEF HandleDbUnsaved
  <2> QED BY <2>1, <2>2, <2>3 DEF HandleDb

LEMMA DieWithDbStep ==
  ASSUME DbInv, DieWithDb
  PROVE  DbInv'
<1>1. /\ WorkerInv(DbAsked, DbCall)' /\ pc' = "idle" /\ UNCHANGED <<db, user, grant>>
      /\ (pc = "calling" /\ Executed) \/ mysql' = mysql
  BY DieStep DEF DieWithDb, DbInv, Die
<1>2. DbRows' = DbRows /\ UserRows' = UserRows
  BY <1>1 DEF DbRows, UserRows
<1>3. /\ mysql' \in Server
      /\ \A n \in mysql'.dbs : DatabaseNameExists(n)
      /\ \A m \in mysql'.users : DatabaseUserNameExists(m)
  BY <1>1, ExecutedStep DEF DbInv, DbRowsFine, ObjectsHaveRows
<1>4. DbRowsFine' /\ ObjectsHaveRows'
  BY <1>1, <1>2, <1>3 DEF DbInv, DbRowsFine, ObjectsHaveRows, DatabaseNameExists,
                          DatabaseUserNameExists
<1> QED BY <1>1, <1>4, DbHandled

LEMMA DbNextStep == ASSUME DbInv, DbNext PROVE DbInv'
  BY DbRequestsStep, DbPassiveStep, CallDbStep, HandleDbStep, DieWithDbStep
     DEF DbNext, DbWorker
-------------------------------------------------------------------------------
(* The services together. *)

(* The service an execution is about keeps its invariant; the others have  *)
(* nothing.                                                                *)
PanelInv ==
  /\ scope \in {"tasks", "dns", "databases", "accounts"}
  /\ IF scope = "tasks" THEN TaskInv ELSE TaskInit
  /\ IF scope = "dns" THEN DnsInv ELSE DnsNone
  /\ IF scope = "databases" THEN DbInv ELSE DbNone
  /\ IF scope = "accounts" THEN AccountInv ELSE AccountNone

LEMMA PanelInvInit == Init => PanelInv
  BY TaskInvInit, DnsInvInit, DbInvInit, AccountInvInit DEF Init, PanelInv

(* Nothing happens to the others. *)
LEMMA OthersStay ==
  /\ TaskInit /\ UNCHANGED taskVars => TaskInit'
  /\ DnsNone /\ UNCHANGED dnsVars => DnsNone'
  /\ DbNone /\ UNCHANGED dbVars => DbNone'
  /\ AccountNone /\ UNCHANGED accountVars => AccountNone'
<1>1. TaskInit /\ UNCHANGED taskVars => TaskInit'
  BY DEF TaskInit, taskVars
<1>2. DnsNone /\ UNCHANGED dnsVars => DnsNone'
  BY DEF DnsNone, dnsVars
<1>3. DbNone /\ UNCHANGED dbVars => DbNone'
  BY DEF DbNone, dbVars
<1>4. AccountNone /\ UNCHANGED accountVars => AccountNone'
  BY DEF AccountNone, accountVars
<1> QED BY <1>1, <1>2, <1>3, <1>4

LEMMA PanelStutters ==
  ASSUME PanelInv, UNCHANGED vars
  PROVE  PanelInv'
<1>1. /\ scope' = scope /\ UNCHANGED taskVars /\ UNCHANGED dnsVars /\ UNCHANGED dbVars
      /\ UNCHANGED accountVars
      /\ UNCHANGED <<usable, queue, pc, ok, call, requests, troubles, unsaved, suspended>>
  BY DEF vars, workerVars, events
<1>2. ASSUME NEW R, NEW C, WorkerInv(R, C)
      PROVE  WorkerInv(R, C)' /\ Requested /\ OldRequests
  BY <1>1, <1>2 DEF WorkerInv, WorkerTypeOK, OneIsHeld, Requested, OldRequests, Unfinished
<1>3. CASE scope = "tasks"
  BY <1>1, <1>2, <1>3, TasksLeftAlone, OthersStay DEF PanelInv, TaskInv, LastSyncCounts
<1>4. CASE scope = "dns"
  <2>1. DnsInv'
    BY <1>1, <1>2, <1>4, DnsLeftAlone DEF PanelInv, DnsInv, DnsRowsFine, dnsVars
  <2> QED BY <1>1, <1>4, <2>1, OthersStay DEF PanelInv
<1>5. CASE scope = "databases"
  <2>1. DbInv'
    BY <1>1, <1>2, <1>5, DbSame, DbRequestStep DEF PanelInv, DbInv
  <2> QED BY <1>1, <1>5, <2>1, OthersStay DEF PanelInv
<1>6. CASE scope = "accounts"
  <2>1. AccountInv
    BY <1>6 DEF PanelInv
  <2>2. AccountRowsFine' /\ AccountRows' = AccountRows /\ UNCHANGED <<account, linux>>
    BY <1>1, <2>1 DEF AccountInv, AccountRowsFine, AccountRows, PackageRows, accountVars
  <2>3. \A k \in DOMAIN queue' : queue'[k].state # "asked" => queue'[k].req.kind \in Provisions
    BY <1>1, <2>1 DEF AccountInv, CallIsHeld
  <2>4. WorkerInv(AccountRequest, AccountCall)' /\ Requested
    BY <1>2, <2>1 DEF AccountInv
  <2>5. AccountInv'
    BY <1>1, <2>1, <2>2, <2>3, <2>4, AccountRequestStep
  <2> QED BY <1>1, <1>6, <2>5, OthersStay DEF PanelInv
<1> QED BY <1>3, <1>4, <1>5, <1>6 DEF PanelInv

LEMMA PanelInvNext == PanelInv /\ [Next]_vars => PanelInv'
<1> SUFFICES ASSUME PanelInv, [Next]_vars PROVE PanelInv'
  OBVIOUS
<1>1. CASE InTasks /\ TaskNext
  BY <1>1, TaskNextStep, OthersStay DEF PanelInv, InTasks
<1>2. CASE InDns /\ DnsNext
  BY <1>2, DnsNextStep, OthersStay DEF PanelInv, InDns
<1>3. CASE InDatabases /\ DbNext
  BY <1>3, DbNextStep, OthersStay DEF PanelInv, InDatabases
<1>4. CASE InAccounts /\ AccountNext
  BY <1>4, AccountNextStep, OthersStay DEF PanelInv, InAccounts
<1> QED BY <1>1, <1>2, <1>3, <1>4, PanelStutters DEF Next

(* Every behaviour of the panel keeps the invariant. *)
THEOREM PanelInvariance == Spec => []PanelInv
  BY PanelInvInit, PanelInvNext, PTL DEF Spec
-------------------------------------------------------------------------------
(* What the invariant says. *)

LEMMA LargerTypes ==
  ASSUME NEW R, NEW S, NEW C, R \subseteq S, WorkerTypeOK(R, C)
  PROVE  WorkerTypeOK(S, C)
<1>1. queue \in Seq(Job(R)) /\ Job(R) \subseteq Job(S)
  BY QueueIsJobs DEF Job
<1>2. queue \in Seq(Job(S))
  BY <1>1, SeqMonotonic
<1> QED BY <1>2 DEF WorkerTypeOK, Job

(* The tables, the jobs and what is asked of the Agent have their types    *)
(* whatever is requested and whatever fails, and no job has more attempts  *)
(* than it is allowed (jobs/worker.go).                                    *)
THEOREM PanelTypesCorrect == Spec => []PanelTypeOK
<1>1. ASSUME PanelInv PROVE PanelTypeOK
  <2>1. CASE scope = "tasks"
    BY <1>1, <2>1 DEF PanelInv, PanelTypeOK, TaskInv, TaskTypeOK, WorkerInv
  <2>2. CASE scope = "dns"
    <3>1. DnsAsked \subseteq DnsRequest
      BY DEF DnsAsked
    <3> QED BY <1>1, <2>2, <3>1, LargerTypes
            DEF PanelInv, PanelTypeOK, DnsInv, DnsRowsFine, DnsTypeOK, WorkerInv
  <2>3. CASE scope = "databases"
    <3>1. DbAsked \subseteq DbRequest
      BY DEF DbAsked
    <3> QED BY <1>1, <2>3, <3>1, LargerTypes
            DEF PanelInv, PanelTypeOK, DbInv, DbRowsFine, DbTypeOK, WorkerInv
  <2>4. CASE scope = "accounts"
    BY <1>1, <2>4 DEF PanelInv, PanelTypeOK, AccountInv, AccountRowsFine, AccountTypeOK, WorkerInv
  <2> QED BY <1>1, <2>1, <2>2, <2>3, <2>4 DEF PanelInv
<1> QED BY <1>1, PanelInvariance, PTL

(* However many changes of tasks are accepted while a task.sync runs, and  *)
(* wherever it fails or the panel dies, after the last one the crontab and *)
(* the rows say the same (tasks/service.go, Reconcile).                    *)
THEOREM TasksRunCorrectly == Spec => []TasksRunAsShown
<1>1. ASSUME PanelInv PROVE TasksRunAsShown
  <2>1. Quiet => pc = "idle" /\ Waiting = {}
    BY DEF Quiet, Unfinished, Waiting
  <2>2. CASE scope = "tasks"
    BY <1>1, <2>1, <2>2
       DEF PanelInv, TaskInv, LastSyncCounts, UpToDate, TasksRunAsShown
  <2>3. CASE scope # "tasks"
    <3>1. TaskRows = {} /\ crontab = EnabledTasks
      BY <1>1, <2>3 DEF PanelInv, TaskInit, NoTask, TaskRows, EnabledTasks
    <3> QED BY <3>1 DEF TasksRunAsShown
  <2> QED BY <2>2, <2>3
<1> QED BY <1>1, PanelInvariance, PTL

(* No request, retry, failure or death makes the panel take over a zone it *)
(* did not create, or leave one of its own behind (dns/service.go and the  *)
(* Agent's PowerDNS driver).                                               *)
THEOREM ZonesStayOwned == Spec => []ZonesAreOwned
<1>1. ASSUME PanelInv PROVE ZonesAreOwned
  <2>1. CASE scope = "dns"
    BY <1>1, <2>1 DEF PanelInv, DnsInv
  <2>2. CASE scope # "dns"
    BY <1>1, <2>2, DnsAssumption
       DEF PanelInv, DnsNone, UnlessForeign, NoServed, ZonesAreOwned
  <2> QED BY <2>1, <2>2
<1> QED BY <1>1, PanelInvariance, PTL

(* Overlapping requests never store two records of one name that           *)
(* contradict each other (ensureDNSRecordAvailable in the transaction).    *)
THEOREM RecordSetsStayInAgreement == Spec => []RecordSetsAgree
<1>1. ASSUME PanelInv PROVE RecordSetsAgree
  <2>1. CASE scope = "dns"
    BY <1>1, <2>1 DEF PanelInv, DnsInv, RecordsAgree, RecordSetsAgree
  <2>2. CASE scope # "dns"
    <3>1. RecRows = {}
      BY <1>1, <2>2 DEF PanelInv, DnsNone, NoRec, RecRows
    <3> QED BY <3>1 DEF RecordSetsAgree
  <2> QED BY <2>1, <2>2
<1> QED BY <1>1, PanelInvariance, PTL

(* A database or user the account has in MySQL has its row at any time,    *)
(* through every failure and death: the row is stored before the object is *)
(* made and deleted after it (databases/service.go, Provision).            *)
THEOREM ObjectsAlwaysHaveRows == Spec => []ObjectsHaveRows
<1>1. ASSUME PanelInv PROVE ObjectsHaveRows
  <2>1. CASE scope = "databases"
    BY <1>1, <2>1 DEF PanelInv, DbInv
  <2>2. CASE scope # "databases"
    BY <1>1, <2>2 DEF PanelInv, DbNone, ObjectsHaveRows
  <2> QED BY <2>1, <2>2
<1> QED BY <1>1, PanelInvariance, PTL

(* Once its jobs are over, an account looks on the host as the panel shows *)
(* it (accounts/service.go, Provision and ProvisionAction).                *)
THEOREM AccountsStayAsShown == Spec => []AccountsAsShown
<1>1. ASSUME PanelInv PROVE AccountsAsShown
  <2>1. CASE scope = "accounts"
    <3>1. AccountInv
      BY <1>1, <2>1 DEF PanelInv
    <3>2. Quiet => \A a : ~Busy(a)
      BY DEF Quiet, Busy, Unfinished, Waiting
    <3>3. \A a \in AccountRows : a \in Account
      BY DEF AccountRows
    <3> QED BY <3>1, <3>2, <3>3
            DEF AccountInv, ShownUnlessBusy, AsShown, AccountRowsFine, AccountsAsShown
  <2>2. CASE scope # "accounts"
    <3>1. AccountRows = {} /\ \A a \in Account : ~linux[a].user
      BY <1>1, <2>2 DEF PanelInv, AccountNone, NoAccount, AccountRows, Present
    <3> QED BY <3>1 DEF AccountsAsShown
  <2> QED BY <2>1, <2>2
<1> QED BY <1>1, PanelInvariance, PTL

(* Requests under way together do not pass the limit of a package          *)
(* (requireCapacity in the transaction of every resource).                 *)
THEOREM LimitsAreHeld == Spec => LimitsHold
<1>1. ASSUME PanelInv, [Next]_vars
      PROVE  [\A a \in Account : account[a].used < account'[a].used =>
                account'[a].used <= package[account[a].package]]_<<account, package>>
  <2>1. CASE InAccounts /\ AccountNext
    BY <1>1, <2>1, LimitStep DEF PanelInv, InAccounts
  <2>2. CASE UNCHANGED accountVars
    BY <2>2 DEF accountVars
  <2> QED BY <1>1, <2>1, <2>2 DEF Next, InTasks, InDns, InDatabases, vars
<1> QED BY <1>1, PanelInvariance, PTL DEF Spec, LimitsHold
===============================================================================
