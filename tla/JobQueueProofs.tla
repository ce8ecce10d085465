---------------------------- MODULE JobQueueProofs ----------------------------
(***************************************************************************)
(* Proofs about JobQueue for every set of jobs, every max_attempts and any *)
(* number of crashes and failing calls.                                    *)
(***************************************************************************)
EXTENDS JobQueue, TLAPS

(* The sets of status and phase names are abbreviations everywhere below.  *)
USE DEF Final, Live, Statuses, ReqPhases, Idle, Holding, Off, PCs, Results

(* The job the worker holds is the one row it may settle.                  *)
HeldIsRunning ==
  /\ pc \in Holding => /\ cur \in Job
                       /\ rows[cur].status = "running"
  /\ pc = "recording" => /\ cur \in Job
                         /\ rows[cur].status =
                              IF outcome = "success" THEN "succeeded" ELSE "failed"
                         /\ audit[cur][outcome] = 0

(* A running row has used at least one attempt and no more than it may.    *)
AttemptsInRange ==
  \A j \in Job : rows[j].status = "running" =>
                   1 <= rows[j].attempts /\ rows[j].attempts <= MaxAttempts[j]

(* Invocations are covered by attempts, of which the one in progress is    *)
(* not used before its handler has run.                                    *)
BeforeHandler(j) == pc \in {"claimed", "handling"} /\ cur = j
RunsCovered ==
  \A j \in Job :
    /\ rows[j].attempts <= MaxAttempts[j]
    /\ rows[j].status = "absent" => rows[j].attempts = 0
    /\ runs[j] <= rows[j].attempts + refunds[j]
    /\ BeforeHandler(j) => runs[j] + 1 <= rows[j].attempts + refunds[j]

(* A job that can still be handed to its handler has no success that a     *)
(* recovery does not explain.                                              *)
Unfinished(j) == \/ rows[j].status \in {"absent", "queued"}
                 \/ BeforeHandler(j)
                 \/ pc = "finishing" /\ cur = j /\ outcome = "failure"
OkRunsCovered ==
  /\ \A j \in Job : /\ okRuns[j] <= 1 + refunds[j]
                    /\ Unfinished(j) => okRuns[j] <= refunds[j]
  /\ pc = "finishing" /\ outcome = "success" => okRuns[cur] > 0

(* Requests, timestamps and rowids: whatever a request could already see   *)
(* committed is older than its own job.                                    *)
StampsOrdered ==
  /\ \A j \in Job :
       /\ rows[j].status # "absent" <=> req[j] \in {"committed", "done"}
       /\ stamp[j] <= clock
       /\ rows[j].status # "absent" => /\ rows[j].createdAt = stamp[j]
                                       /\ rows[j].seq <= lastSeq
       /\ req[j] = "new" => pred[j] = {}
       /\ \A i \in pred[j] :
            /\ rows[i].status # "absent"
            /\ rows[i].createdAt <= stamp[j]
            /\ rows[j].status # "absent" => rows[i].seq < rows[j].seq

IInv ==
  /\ TypeOK
  /\ HeldIsRunning
  /\ AttemptsInRange
  /\ QueuedIsClaimable
  /\ RunningIsAccounted
  /\ RunsCovered
  /\ OkRunsCovered
  /\ AuditAgrees
  /\ NoLostWakeup
  /\ StampsOrdered

(* A request reading its clock sees only rows committed before it. *)
LEMMA StampStep == ASSUME IInv, NEW j \in Job, Stamp(j) PROVE IInv'
<1>1. TypeOK'
  BY JobQueueAssumption DEF IInv, TypeOK, Row, Stamp, Committed, worker
<1>2. NoLostWakeup'
  BY JobQueueAssumption DEF IInv, TypeOK, Row, NoLostWakeup, Claimable,
           QueuedIsClaimable, Stamp, Committed, worker
<1>3. StampsOrdered'
  BY JobQueueAssumption DEF IInv, TypeOK, Row, StampsOrdered, HeldIsRunning,
           Stamp, Committed, worker
<1>4. (HeldIsRunning /\ AttemptsInRange /\ QueuedIsClaimable
       /\ RunningIsAccounted /\ RunsCovered /\ OkRunsCovered /\ AuditAgrees)'
  BY DEF IInv, HeldIsRunning, AttemptsInRange, QueuedIsClaimable,
           RunningIsAccounted, RunsCovered, OkRunsCovered, AuditAgrees,
           Claimable, BeforeHandler, Unfinished, Stamp, worker
<1> QED BY <1>1, <1>2, <1>3, <1>4 DEF IInv

(* The transaction inserts a queued row, newer than every row it follows. *)
LEMMA EnqueueStep == ASSUME IInv, NEW j \in Job, Enqueue(j) PROVE IInv'
<1>a. rows[j].status = "absent" /\ req[j] = "stamped"
  BY DEF IInv, TypeOK, StampsOrdered, Enqueue
<1>b. MaxAttempts[j] \in Nat \ {0}
  BY JobQueueAssumption
<1>c. /\ rows'[j].status = "queued" /\ rows'[j].attempts = 0
      /\ \A i \in Job \ {j} : rows'[i] = rows[i]
  BY DEF IInv, TypeOK, Enqueue, NewRow
<1>1. TypeOK'
  BY <1>a, <1>b, <1>c, JobQueueAssumption DEF IInv, TypeOK, Row, Enqueue,
           NewRow, worker, history
<1>2. HeldIsRunning'
  BY <1>a, <1>b, <1>c, JobQueueAssumption DEF IInv, TypeOK, Row,
           HeldIsRunning, AuditAgrees, Enqueue, NewRow, worker, history
<1>3. AttemptsInRange'
  BY <1>a, <1>b, <1>c, JobQueueAssumption DEF IInv, TypeOK, Row,
           AttemptsInRange, RunsCovered, BeforeHandler, HeldIsRunning,
           Enqueue, NewRow, worker, history
<1>4. QueuedIsClaimable'
  BY <1>a, <1>b, <1>c, JobQueueAssumption DEF IInv, TypeOK, Row,
           QueuedIsClaimable, Claimable, AttemptsInRange, HeldIsRunning,
           Enqueue, NewRow, worker, history
<1>5. RunningIsAccounted'
  BY <1>a, <1>b, <1>c, JobQueueAssumption DEF IInv, TypeOK, Row,
           RunningIsAccounted, HeldIsRunning, Enqueue, NewRow, worker, history
<1>6. RunsCovered'
  <2>1. /\ ~BeforeHandler(j) /\ runs[j] <= rows[j].attempts + refunds[j]
        /\ \A i \in Job : BeforeHandler(i)' <=> BeforeHandler(i)
    BY <1>a DEF IInv, HeldIsRunning, RunsCovered, BeforeHandler, Enqueue, worker
  <2>2. runs[j] <= refunds[j]
    BY <1>a, <2>1 DEF IInv, TypeOK, Row, RunsCovered
  <2> QED BY <1>b, <1>c, <2>1, <2>2
             DEF IInv, TypeOK, RunsCovered, Enqueue, worker, history
<1>7. OkRunsCovered'
  BY <1>a, <1>b, <1>c, JobQueueAssumption DEF IInv, TypeOK, Row,
           OkRunsCovered, Unfinished, BeforeHandler, HeldIsRunning,
           RunningIsAccounted, Enqueue, NewRow, worker, history
<1>8. AuditAgrees'
  BY <1>a, <1>b, <1>c, JobQueueAssumption DEF IInv, TypeOK, Row, AuditAgrees,
           HeldIsRunning, Enqueue, NewRow, worker, history
<1>9. NoLostWakeup'
  BY <1>a, <1>b, <1>c, JobQueueAssumption DEF IInv, TypeOK, Row, NoLostWakeup,
           Claimable, QueuedIsClaimable, Enqueue, NewRow, worker, history
<1>10. StampsOrdered'
  BY <1>a, <1>b, <1>c, JobQueueAssumption DEF IInv, TypeOK, Row,
           StampsOrdered, HeldIsRunning, Enqueue, NewRow, worker, history
<1> QED BY <1>1, <1>2, <1>3, <1>4, <1>5, <1>6, <1>7, <1>8, <1>9, <1>10 DEF IInv

(* The wake-up leaves a token whenever its job is still in the queue. *)
LEMMA NotifyStep == ASSUME IInv, NEW j \in Job, Notify(j) PROVE IInv'
<1>1. TypeOK'
  BY JobQueueAssumption DEF IInv, TypeOK, Row, Notify, history
<1>2. NoLostWakeup'
  BY JobQueueAssumption DEF IInv, TypeOK, Row, NoLostWakeup, Claimable,
           QueuedIsClaimable, Notify, history
<1>3. StampsOrdered'
  BY JobQueueAssumption DEF IInv, TypeOK, Row, StampsOrdered, HeldIsRunning,
           Notify, history
<1>4. (HeldIsRunning /\ AttemptsInRange /\ QueuedIsClaimable
       /\ RunningIsAccounted /\ RunsCovered /\ OkRunsCovered /\ AuditAgrees)'
  BY DEF IInv, HeldIsRunning, AttemptsInRange, QueuedIsClaimable,
           RunningIsAccounted, RunsCovered, OkRunsCovered, AuditAgrees,
           Claimable, BeforeHandler, Unfinished, Notify, history
<1> QED BY <1>1, <1>2, <1>3, <1>4 DEF IInv

(* Recovery refunds what it requeues, so no row is left without attempts. *)
LEMMA RecoverStep == ASSUME IInv, Recover PROVE IInv'
<1>1. TypeOK'
  BY JobQueueAssumption DEF IInv, TypeOK, Row, Recover, Recovered, Set
<1>2. HeldIsRunning'
  BY JobQueueAssumption DEF IInv, TypeOK, Row, HeldIsRunning, AuditAgrees,
           Recover, Recovered, Set
<1>3. AttemptsInRange'
  BY JobQueueAssumption DEF IInv, TypeOK, Row, AttemptsInRange, RunsCovered,
           BeforeHandler, HeldIsRunning, Recover, Recovered, Set
<1>4. QueuedIsClaimable'
  BY JobQueueAssumption DEF IInv, TypeOK, Row, QueuedIsClaimable, Claimable,
           AttemptsInRange, HeldIsRunning, Recover, Recovered, Set
<1>5. RunningIsAccounted'
  BY JobQueueAssumption DEF IInv, TypeOK, Row, RunningIsAccounted,
           HeldIsRunning, Recover, Recovered, Set
<1>6. RunsCovered'
  BY JobQueueAssumption DEF IInv, TypeOK, Row, RunsCovered, BeforeHandler,
           HeldIsRunning, AttemptsInRange, Recover, Recovered, Set
<1>7. OkRunsCovered'
  BY JobQueueAssumption DEF IInv, TypeOK, Row, OkRunsCovered, Unfinished,
           BeforeHandler, HeldIsRunning, RunningIsAccounted, Recover,
           Recovered, Set
<1>8. AuditAgrees'
  BY JobQueueAssumption DEF IInv, TypeOK, Row, AuditAgrees, HeldIsRunning,
           Recover, Recovered, Set
<1>9. NoLostWakeup'
  BY JobQueueAssumption DEF IInv, TypeOK, Row, NoLostWakeup, Claimable,
           QueuedIsClaimable, Recover, Recovered, Set
<1>10. StampsOrdered'
  BY JobQueueAssumption DEF IInv, TypeOK, Row, StampsOrdered, HeldIsRunning,
           Recover, Recovered, Set
<1> QED BY <1>1, <1>2, <1>3, <1>4, <1>5, <1>6, <1>7, <1>8, <1>9, <1>10 DEF IInv

(* A failed recovery stops the worker before it holds anything. *)
LEMMA RecoverFailsStep == ASSUME IInv, RecoverFails PROVE IInv'
<1>1. TypeOK'
  BY JobQueueAssumption DEF IInv, TypeOK, Row, RecoverFails, server, history
<1>2. HeldIsRunning'
  BY JobQueueAssumption DEF IInv, TypeOK, Row, HeldIsRunning, AuditAgrees,
           RecoverFails, server, history
<1>3. RunningIsAccounted'
  BY JobQueueAssumption DEF IInv, TypeOK, Row, RunningIsAccounted,
           HeldIsRunning, RecoverFails, server, history
<1>4. RunsCovered'
  BY JobQueueAssumption DEF IInv, TypeOK, Row, RunsCovered, BeforeHandler,
           HeldIsRunning, AttemptsInRange, RecoverFails, server, history
<1>5. OkRunsCovered'
  BY JobQueueAssumption DEF IInv, TypeOK, Row, OkRunsCovered, Unfinished,
           BeforeHandler, HeldIsRunning, RunningIsAccounted, RecoverFails,
           server, history
<1>6. NoLostWakeup'
  BY JobQueueAssumption DEF IInv, TypeOK, Row, NoLostWakeup, Claimable,
           QueuedIsClaimable, RecoverFails, server, history
<1>7. (AttemptsInRange /\ QueuedIsClaimable /\ AuditAgrees /\ StampsOrdered)'
  BY DEF IInv, AttemptsInRange, QueuedIsClaimable, AuditAgrees, StampsOrdered,
           Claimable, RecoverFails, server, history
<1> QED BY <1>1, <1>2, <1>3, <1>4, <1>5, <1>6, <1>7 DEF IInv

(* The claim makes its row the only running one and counts the attempt. *)
LEMMA ClaimStep == ASSUME IInv, Claim PROVE IInv'
<1>a. PICK j \in Next4Claim(rows, MaxAttempts) :
        rows' = [rows EXCEPT ![j] = Claimed(rows[j])] /\ cur' = j
  BY DEF Claim
<1>b. /\ j \in Job
      /\ rows[j].status = "queued" /\ rows[j].attempts < MaxAttempts[j]
  BY <1>a DEF IInv, TypeOK, Next4Claim, Claimable
<1>c. MaxAttempts[j] \in Nat /\ rows[j] \in Row /\ rows[j].attempts \in Nat
  BY <1>b, JobQueueAssumption DEF IInv, TypeOK, Row
<1>1. TypeOK'
  BY <1>a, <1>b, <1>c, JobQueueAssumption DEF IInv, TypeOK, Row, Claim,
           Next4Claim, Claimable, Claimed, Set, history
<1>2. HeldIsRunning'
  BY <1>a, <1>b, <1>c, JobQueueAssumption DEF IInv, TypeOK, Row,
           HeldIsRunning, AuditAgrees, Claim, Next4Claim, Claimable, Claimed,
           Set, history
<1>3. AttemptsInRange'
  BY <1>a, <1>b, <1>c, JobQueueAssumption DEF IInv, TypeOK, Row,
           AttemptsInRange, RunsCovered, BeforeHandler, HeldIsRunning, Claim,
           Next4Claim, Claimable, Claimed, Set, history
<1>4. QueuedIsClaimable'
  BY <1>a, <1>b, <1>c, JobQueueAssumption DEF IInv, TypeOK, Row,
           QueuedIsClaimable, Claimable, AttemptsInRange, HeldIsRunning,
           Claim, Next4Claim, Claimed, Set, history
<1>5. RunningIsAccounted'
  BY <1>a, <1>b, <1>c, JobQueueAssumption DEF IInv, TypeOK, Row,
           RunningIsAccounted, HeldIsRunning, Claim, Next4Claim, Claimable,
           Claimed, Set, history
<1>6. RunsCovered'
  BY <1>a, <1>b, <1>c, JobQueueAssumption DEF IInv, TypeOK, Row, RunsCovered,
           BeforeHandler, HeldIsRunning, AttemptsInRange, Claim, Next4Claim,
           Claimable, Claimed, Set, history
<1>7. OkRunsCovered'
  BY <1>a, <1>b, <1>c, JobQueueAssumption DEF IInv, TypeOK, Row,
           OkRunsCovered, Unfinished, BeforeHandler, HeldIsRunning,
           RunningIsAccounted, Claim, Next4Claim, Claimable, Claimed, Set,
           history
<1>8. AuditAgrees'
  BY <1>a, <1>b, <1>c, JobQueueAssumption DEF IInv, TypeOK, Row, AuditAgrees,
           HeldIsRunning, Claim, Next4Claim, Claimable, Claimed, Set, history
<1>9. NoLostWakeup'
  BY <1>a, <1>b, <1>c, JobQueueAssumption DEF IInv, TypeOK, Row, NoLostWakeup,
           Claimable, QueuedIsClaimable, Claim, Next4Claim, Claimed, Set,
           history
<1>10. StampsOrdered'
  BY <1>a, <1>b, <1>c, JobQueueAssumption DEF IInv, TypeOK, Row,
           StampsOrdered, HeldIsRunning, Claim, Next4Claim, Claimable,
           Claimed, Set, history
<1> QED BY <1>1, <1>2, <1>3, <1>4, <1>5, <1>6, <1>7, <1>8, <1>9, <1>10 DEF IInv

(* The worker goes to wait only when the queue is empty. *)
LEMMA ClaimNoneStep == ASSUME IInv, ClaimNone PROVE IInv'
<1>1. TypeOK'
  BY JobQueueAssumption DEF IInv, TypeOK, Row, ClaimNone, server, history
<1>2. HeldIsRunning'
  BY JobQueueAssumption DEF IInv, TypeOK, Row, HeldIsRunning, AuditAgrees,
           ClaimNone, server, history
<1>3. RunningIsAccounted'
  BY JobQueueAssumption DEF IInv, TypeOK, Row, RunningIsAccounted,
           HeldIsRunning, ClaimNone, server, history
<1>4. RunsCovered'
  BY JobQueueAssumption DEF IInv, TypeOK, Row, RunsCovered, BeforeHandler,
           HeldIsRunning, AttemptsInRange, ClaimNone, server, history
<1>5. OkRunsCovered'
  BY JobQueueAssumption DEF IInv, TypeOK, Row, OkRunsCovered, Unfinished,
           BeforeHandler, HeldIsRunning, RunningIsAccounted, ClaimNone,
           server, history
<1>6. NoLostWakeup'
  BY JobQueueAssumption DEF IInv, TypeOK, Row, NoLostWakeup, Claimable,
           QueuedIsClaimable, ClaimNone, server, history
<1>7. (AttemptsInRange /\ QueuedIsClaimable /\ AuditAgrees /\ StampsOrdered)'
  BY DEF IInv, AttemptsInRange, QueuedIsClaimable, AuditAgrees, StampsOrdered,
           Claimable, ClaimNone, server, history
<1> QED BY <1>1, <1>2, <1>3, <1>4, <1>5, <1>6, <1>7 DEF IInv

(* A failed claim changes no row. *)
LEMMA ClaimFailsStep == ASSUME IInv, ClaimFails PROVE IInv'
<1>1. TypeOK'
  BY JobQueueAssumption DEF IInv, TypeOK, Row, ClaimFails, server, history
<1>2. HeldIsRunning'
  BY JobQueueAssumption DEF IInv, TypeOK, Row, HeldIsRunning, AuditAgrees,
           ClaimFails, server, history
<1>3. RunningIsAccounted'
  BY JobQueueAssumption DEF IInv, TypeOK, Row, RunningIsAccounted,
           HeldIsRunning, ClaimFails, server, history
<1>4. RunsCovered'
  BY JobQueueAssumption DEF IInv, TypeOK, Row, RunsCovered, BeforeHandler,
           HeldIsRunning, AttemptsInRange, ClaimFails, server, history
<1>5. OkRunsCovered'
  BY JobQueueAssumption DEF IInv, TypeOK, Row, OkRunsCovered, Unfinished,
           BeforeHandler, HeldIsRunning, RunningIsAccounted, ClaimFails,
           server, history
<1>6. NoLostWakeup'
  BY JobQueueAssumption DEF IInv, TypeOK, Row, NoLostWakeup, Claimable,
           QueuedIsClaimable, ClaimFails, server, history
<1>7. (AttemptsInRange /\ QueuedIsClaimable /\ AuditAgrees /\ StampsOrdered)'
  BY DEF IInv, AttemptsInRange, QueuedIsClaimable, AuditAgrees, StampsOrdered,
           Claimable, ClaimFails, server, history
<1> QED BY <1>1, <1>2, <1>3, <1>4, <1>5, <1>6, <1>7 DEF IInv

(* The token is consumed by a worker that then looks at the queue. *)
LEMMA WokenStep == ASSUME IInv, Woken PROVE IInv'
<1>1. TypeOK'
  BY JobQueueAssumption DEF IInv, TypeOK, Row, Woken, server, history
<1>2. HeldIsRunning'
  BY JobQueueAssumption DEF IInv, TypeOK, Row, HeldIsRunning, AuditAgrees,
           Woken, server, history
<1>3. RunningIsAccounted'
  BY JobQueueAssumption DEF IInv, TypeOK, Row, RunningIsAccounted,
           HeldIsRunning, Woken, server, history
<1>4. RunsCovered'
  BY JobQueueAssumption DEF IInv, TypeOK, Row, RunsCovered, BeforeHandler,
           HeldIsRunning, AttemptsInRange, Woken, server, history
<1>5. OkRunsCovered'
  BY JobQueueAssumption DEF IInv, TypeOK, Row, OkRunsCovered, Unfinished,
           BeforeHandler, HeldIsRunning, RunningIsAccounted, Woken, server,
           history
<1>6. NoLostWakeup'
  BY JobQueueAssumption DEF IInv, TypeOK, Row, NoLostWakeup, Claimable,
           QueuedIsClaimable, Woken, server, history
<1>7. (AttemptsInRange /\ QueuedIsClaimable /\ AuditAgrees /\ StampsOrdered)'
  BY DEF IInv, AttemptsInRange, QueuedIsClaimable, AuditAgrees, StampsOrdered,
           Claimable, Woken, server, history
<1> QED BY <1>1, <1>2, <1>3, <1>4, <1>5, <1>6, <1>7 DEF IInv

(* A tick sends the worker to the queue. *)
LEMMA TickStep == ASSUME IInv, Tick PROVE IInv'
<1>1. TypeOK'
  BY JobQueueAssumption DEF IInv, TypeOK, Row, Tick, server, history
<1>2. HeldIsRunning'
  BY JobQueueAssumption DEF IInv, TypeOK, Row, HeldIsRunning, AuditAgrees,
           Tick, server, history
<1>3. RunningIsAccounted'
  BY JobQueueAssumption DEF IInv, TypeOK, Row, RunningIsAccounted,
           HeldIsRunning, Tick, server, history
<1>4. RunsCovered'
  BY JobQueueAssumption DEF IInv, TypeOK, Row, RunsCovered, BeforeHandler,
           HeldIsRunning, AttemptsInRange, Tick, server, history
<1>5. OkRunsCovered'
  BY JobQueueAssumption DEF IInv, TypeOK, Row, OkRunsCovered, Unfinished,
           BeforeHandler, HeldIsRunning, RunningIsAccounted, Tick, server,
           history
<1>6. NoLostWakeup'
  BY JobQueueAssumption DEF IInv, TypeOK, Row, NoLostWakeup, Claimable,
           QueuedIsClaimable, Tick, server, history
<1>7. (AttemptsInRange /\ QueuedIsClaimable /\ AuditAgrees /\ StampsOrdered)'
  BY DEF IInv, AttemptsInRange, QueuedIsClaimable, AuditAgrees, StampsOrdered,
           Claimable, Tick, server, history
<1> QED BY <1>1, <1>2, <1>3, <1>4, <1>5, <1>6, <1>7 DEF IInv

(* Only the worker moves. *)
LEMMA CreateStepStep == ASSUME IInv, CreateStep PROVE IInv'
<1>1. TypeOK'
  BY JobQueueAssumption DEF IInv, TypeOK, Row, CreateStep, server, history
<1>2. HeldIsRunning'
  BY JobQueueAssumption DEF IInv, TypeOK, Row, HeldIsRunning, AuditAgrees,
           CreateStep, server, history
<1>3. RunningIsAccounted'
  BY JobQueueAssumption DEF IInv, TypeOK, Row, RunningIsAccounted,
           HeldIsRunning, CreateStep, server, history
<1>4. RunsCovered'
  BY JobQueueAssumption DEF IInv, TypeOK, Row, RunsCovered, BeforeHandler,
           HeldIsRunning, AttemptsInRange, CreateStep, server, history
<1>5. OkRunsCovered'
  BY JobQueueAssumption DEF IInv, TypeOK, Row, OkRunsCovered, Unfinished,
           BeforeHandler, HeldIsRunning, RunningIsAccounted, CreateStep,
           server, history
<1>6. NoLostWakeup'
  BY JobQueueAssumption DEF IInv, TypeOK, Row, NoLostWakeup, Claimable,
           QueuedIsClaimable, CreateStep, server, history
<1>7. (AttemptsInRange /\ QueuedIsClaimable /\ AuditAgrees /\ StampsOrdered)'
  BY DEF IInv, AttemptsInRange, QueuedIsClaimable, AuditAgrees, StampsOrdered,
           Claimable, CreateStep, server, history
<1> QED BY <1>1, <1>2, <1>3, <1>4, <1>5, <1>6, <1>7 DEF IInv

(* The job fails without its handler having run. *)
LEMMA CreateStepFailsStep == ASSUME IInv, CreateStepFails PROVE IInv'
<1>1. TypeOK'
  BY JobQueueAssumption DEF IInv, TypeOK, Row, CreateStepFails, server,
           history
<1>2. HeldIsRunning'
  BY JobQueueAssumption DEF IInv, TypeOK, Row, HeldIsRunning, AuditAgrees,
           CreateStepFails, server, history
<1>3. RunningIsAccounted'
  BY JobQueueAssumption DEF IInv, TypeOK, Row, RunningIsAccounted,
           HeldIsRunning, CreateStepFails, server, history
<1>4. RunsCovered'
  BY JobQueueAssumption DEF IInv, TypeOK, Row, RunsCovered, BeforeHandler,
           HeldIsRunning, AttemptsInRange, CreateStepFails, server, history
<1>5. OkRunsCovered'
  BY JobQueueAssumption DEF IInv, TypeOK, Row, OkRunsCovered, Unfinished,
           BeforeHandler, HeldIsRunning, RunningIsAccounted, CreateStepFails,
           server, history
<1>6. NoLostWakeup'
  BY JobQueueAssumption DEF IInv, TypeOK, Row, NoLostWakeup, Claimable,
           QueuedIsClaimable, CreateStepFails, server, history
<1>7. (AttemptsInRange /\ QueuedIsClaimable /\ AuditAgrees /\ StampsOrdered)'
  BY DEF IInv, AttemptsInRange, QueuedIsClaimable, AuditAgrees, StampsOrdered,
           Claimable, CreateStepFails, server, history
<1> QED BY <1>1, <1>2, <1>3, <1>4, <1>5, <1>6, <1>7 DEF IInv

(* The invocation uses the attempt its claim counted. *)
LEMMA RunHandlerStep == ASSUME IInv, RunHandler PROVE IInv'
<1>1. TypeOK'
  BY JobQueueAssumption DEF IInv, TypeOK, Row, RunHandler, HeldIsRunning,
           server
<1>2. HeldIsRunning'
  BY JobQueueAssumption DEF IInv, TypeOK, Row, HeldIsRunning, AuditAgrees,
           RunHandler, server
<1>3. RunningIsAccounted'
  BY JobQueueAssumption DEF IInv, TypeOK, Row, RunningIsAccounted,
           HeldIsRunning, RunHandler, server
<1>4. RunsCovered'
  BY JobQueueAssumption DEF IInv, TypeOK, Row, RunsCovered, BeforeHandler,
           HeldIsRunning, AttemptsInRange, RunHandler, server
<1>5. OkRunsCovered'
  BY JobQueueAssumption DEF IInv, TypeOK, Row, OkRunsCovered, Unfinished,
           BeforeHandler, HeldIsRunning, RunningIsAccounted, RunHandler,
           server
<1>6. NoLostWakeup'
  BY JobQueueAssumption DEF IInv, TypeOK, Row, NoLostWakeup, Claimable,
           QueuedIsClaimable, RunHandler, server
<1>7. (AttemptsInRange /\ QueuedIsClaimable /\ AuditAgrees /\ StampsOrdered)'
  BY DEF IInv, AttemptsInRange, QueuedIsClaimable, AuditAgrees, StampsOrdered,
           Claimable, RunHandler, server
<1> QED BY <1>1, <1>2, <1>3, <1>4, <1>5, <1>6, <1>7 DEF IInv

(* The held row, running, becomes succeeded. *)
LEMMA CompleteStep == ASSUME IInv, Complete PROVE IInv'
<1>1. TypeOK'
  BY JobQueueAssumption DEF IInv, TypeOK, Row, Complete, Completed, Set,
           history
<1>2. HeldIsRunning'
  BY JobQueueAssumption DEF IInv, TypeOK, Row, HeldIsRunning, AuditAgrees,
           Complete, Completed, Set, history
<1>3. AttemptsInRange'
  BY JobQueueAssumption DEF IInv, TypeOK, Row, AttemptsInRange, RunsCovered,
           BeforeHandler, HeldIsRunning, Complete, Completed, Set, history
<1>4. QueuedIsClaimable'
  BY JobQueueAssumption DEF IInv, TypeOK, Row, QueuedIsClaimable, Claimable,
           AttemptsInRange, HeldIsRunning, Complete, Completed, Set, history
<1>5. RunningIsAccounted'
  BY JobQueueAssumption DEF IInv, TypeOK, Row, RunningIsAccounted,
           HeldIsRunning, Complete, Completed, Set, history
<1>6. RunsCovered'
  BY JobQueueAssumption DEF IInv, TypeOK, Row, RunsCovered, BeforeHandler,
           HeldIsRunning, AttemptsInRange, Complete, Completed, Set, history
<1>7. OkRunsCovered'
  BY JobQueueAssumption DEF IInv, TypeOK, Row, OkRunsCovered, Unfinished,
           BeforeHandler, HeldIsRunning, RunningIsAccounted, Complete,
           Completed, Set, history
<1>8. AuditAgrees'
  BY JobQueueAssumption DEF IInv, TypeOK, Row, AuditAgrees, HeldIsRunning,
           Complete, Completed, Set, history
<1>9. NoLostWakeup'
  BY JobQueueAssumption DEF IInv, TypeOK, Row, NoLostWakeup, Claimable,
           QueuedIsClaimable, Complete, Completed, Set, history
<1>10. StampsOrdered'
  BY JobQueueAssumption DEF IInv, TypeOK, Row, StampsOrdered, HeldIsRunning,
           Complete, Completed, Set, history
<1> QED BY <1>1, <1>2, <1>3, <1>4, <1>5, <1>6, <1>7, <1>8, <1>9, <1>10 DEF IInv

(* The held row goes back to the queue with an attempt left. *)
LEMMA RetryStep == ASSUME IInv, Retry PROVE IInv'
<1>1. TypeOK'
  BY JobQueueAssumption DEF IInv, TypeOK, Row, Retry, Retried, Set, history
<1>2. HeldIsRunning'
  BY JobQueueAssumption DEF IInv, TypeOK, Row, HeldIsRunning, AuditAgrees,
           Retry, Retried, Set, history
<1>3. AttemptsInRange'
  BY JobQueueAssumption DEF IInv, TypeOK, Row, AttemptsInRange, RunsCovered,
           BeforeHandler, HeldIsRunning, Retry, Retried, Set, history
<1>4. QueuedIsClaimable'
  BY JobQueueAssumption DEF IInv, TypeOK, Row, QueuedIsClaimable, Claimable,
           AttemptsInRange, HeldIsRunning, Retry, Retried, Set, history
<1>5. RunningIsAccounted'
  BY JobQueueAssumption DEF IInv, TypeOK, Row, RunningIsAccounted,
           HeldIsRunning, Retry, Retried, Set, history
<1>6. RunsCovered'
  BY JobQueueAssumption DEF IInv, TypeOK, Row, RunsCovered, BeforeHandler,
           HeldIsRunning, AttemptsInRange, Retry, Retried, Set, history
<1>7. OkRunsCovered'
  BY JobQueueAssumption DEF IInv, TypeOK, Row, OkRunsCovered, Unfinished,
           BeforeHandler, HeldIsRunning, RunningIsAccounted, Retry, Retried,
           Set, history
<1>8. AuditAgrees'
  BY JobQueueAssumption DEF IInv, TypeOK, Row, AuditAgrees, HeldIsRunning,
           Retry, Retried, Set, history
<1>9. NoLostWakeup'
  BY JobQueueAssumption DEF IInv, TypeOK, Row, NoLostWakeup, Claimable,
           QueuedIsClaimable, Retry, Retried, Set, history
<1>10. StampsOrdered'
  BY JobQueueAssumption DEF IInv, TypeOK, Row, StampsOrdered, HeldIsRunning,
           Retry, Retried, Set, history
<1> QED BY <1>1, <1>2, <1>3, <1>4, <1>5, <1>6, <1>7, <1>8, <1>9, <1>10 DEF IInv

(* The held row, running, becomes failed. *)
LEMMA FailStep == ASSUME IInv, Fail PROVE IInv'
<1>1. TypeOK'
  BY JobQueueAssumption DEF IInv, TypeOK, Row, Fail, Failed, Set, Exhausted,
           history
<1>2. HeldIsRunning'
  BY JobQueueAssumption DEF IInv, TypeOK, Row, HeldIsRunning, AuditAgrees,
           Fail, Failed, Set, Exhausted, history
<1>3. AttemptsInRange'
  BY JobQueueAssumption DEF IInv, TypeOK, Row, AttemptsInRange, RunsCovered,
           BeforeHandler, HeldIsRunning, Fail, Failed, Set, Exhausted, history
<1>4. QueuedIsClaimable'
  BY JobQueueAssumption DEF IInv, TypeOK, Row, QueuedIsClaimable, Claimable,
           AttemptsInRange, HeldIsRunning, Fail, Failed, Set, Exhausted,
           history
<1>5. RunningIsAccounted'
  BY JobQueueAssumption DEF IInv, TypeOK, Row, RunningIsAccounted,
           HeldIsRunning, Fail, Failed, Set, Exhausted, history
<1>6. RunsCovered'
  BY JobQueueAssumption DEF IInv, TypeOK, Row, RunsCovered, BeforeHandler,
           HeldIsRunning, AttemptsInRange, Fail, Failed, Set, Exhausted,
           history
<1>7. OkRunsCovered'
  BY JobQueueAssumption DEF IInv, TypeOK, Row, OkRunsCovered, Unfinished,
           BeforeHandler, HeldIsRunning, RunningIsAccounted, Fail, Failed,
           Set, Exhausted, history
<1>8. AuditAgrees'
  BY JobQueueAssumption DEF IInv, TypeOK, Row, AuditAgrees, HeldIsRunning,
           Fail, Failed, Set, Exhausted, history
<1>9. NoLostWakeup'
  BY JobQueueAssumption DEF IInv, TypeOK, Row, NoLostWakeup, Claimable,
           QueuedIsClaimable, Fail, Failed, Set, Exhausted, history
<1>10. StampsOrdered'
  BY JobQueueAssumption DEF IInv, TypeOK, Row, StampsOrdered, HeldIsRunning,
           Fail, Failed, Set, Exhausted, history
<1> QED BY <1>1, <1>2, <1>3, <1>4, <1>5, <1>6, <1>7, <1>8, <1>9, <1>10 DEF IInv

(* The row stays running and is remembered as lost. *)
LEMMA SettleFailsStep == ASSUME IInv, SettleFails PROVE IInv'
<1>1. TypeOK'
  BY JobQueueAssumption DEF IInv, TypeOK, Row, SettleFails, HeldIsRunning,
           Exhausted, server
<1>2. HeldIsRunning'
  BY JobQueueAssumption DEF IInv, TypeOK, Row, HeldIsRunning, AuditAgrees,
           SettleFails, Exhausted, server
<1>3. RunningIsAccounted'
  BY JobQueueAssumption DEF IInv, TypeOK, Row, RunningIsAccounted,
           HeldIsRunning, SettleFails, Exhausted, server
<1>4. RunsCovered'
  BY JobQueueAssumption DEF IInv, TypeOK, Row, RunsCovered, BeforeHandler,
           HeldIsRunning, AttemptsInRange, SettleFails, Exhausted, server
<1>5. OkRunsCovered'
  BY JobQueueAssumption DEF IInv, TypeOK, Row, OkRunsCovered, Unfinished,
           BeforeHandler, HeldIsRunning, RunningIsAccounted, SettleFails,
           Exhausted, server
<1>6. NoLostWakeup'
  BY JobQueueAssumption DEF IInv, TypeOK, Row, NoLostWakeup, Claimable,
           QueuedIsClaimable, SettleFails, Exhausted, server
<1>7. (AttemptsInRange /\ QueuedIsClaimable /\ AuditAgrees /\ StampsOrdered)'
  BY DEF IInv, AttemptsInRange, QueuedIsClaimable, AuditAgrees, StampsOrdered,
           Claimable, SettleFails, server
<1> QED BY <1>1, <1>2, <1>3, <1>4, <1>5, <1>6, <1>7 DEF IInv

(* The event agrees with the row just written, and is its first. *)
LEMMA RecordStep == ASSUME IInv, Record PROVE IInv'
<1>1. TypeOK'
  BY JobQueueAssumption DEF IInv, TypeOK, Row, Record, HeldIsRunning, history
<1>2. HeldIsRunning'
  BY JobQueueAssumption DEF IInv, TypeOK, Row, HeldIsRunning, AuditAgrees,
           Record, history
<1>3. RunningIsAccounted'
  BY JobQueueAssumption DEF IInv, TypeOK, Row, RunningIsAccounted,
           HeldIsRunning, Record, history
<1>4. RunsCovered'
  BY JobQueueAssumption DEF IInv, TypeOK, Row, RunsCovered, BeforeHandler,
           HeldIsRunning, AttemptsInRange, Record, history
<1>5. OkRunsCovered'
  BY JobQueueAssumption DEF IInv, TypeOK, Row, OkRunsCovered, Unfinished,
           BeforeHandler, HeldIsRunning, RunningIsAccounted, Record, history
<1>6. AuditAgrees'
  BY JobQueueAssumption DEF IInv, TypeOK, Row, AuditAgrees, HeldIsRunning,
           Record, history
<1>7. NoLostWakeup'
  BY JobQueueAssumption DEF IInv, TypeOK, Row, NoLostWakeup, Claimable,
           QueuedIsClaimable, Record, history
<1>8. (AttemptsInRange /\ QueuedIsClaimable /\ StampsOrdered)'
  BY DEF IInv, AttemptsInRange, QueuedIsClaimable, StampsOrdered, Claimable,
           Record, history
<1> QED BY <1>1, <1>2, <1>3, <1>4, <1>5, <1>6, <1>7, <1>8 DEF IInv

(* An event may be missing but never wrong. *)
LEMMA RecordFailsStep == ASSUME IInv, RecordFails PROVE IInv'
<1>1. TypeOK'
  BY JobQueueAssumption DEF IInv, TypeOK, Row, RecordFails, server, history
<1>2. HeldIsRunning'
  BY JobQueueAssumption DEF IInv, TypeOK, Row, HeldIsRunning, AuditAgrees,
           RecordFails, server, history
<1>3. RunningIsAccounted'
  BY JobQueueAssumption DEF IInv, TypeOK, Row, RunningIsAccounted,
           HeldIsRunning, RecordFails, server, history
<1>4. RunsCovered'
  BY JobQueueAssumption DEF IInv, TypeOK, Row, RunsCovered, BeforeHandler,
           HeldIsRunning, AttemptsInRange, RecordFails, server, history
<1>5. OkRunsCovered'
  BY JobQueueAssumption DEF IInv, TypeOK, Row, OkRunsCovered, Unfinished,
           BeforeHandler, HeldIsRunning, RunningIsAccounted, RecordFails,
           server, history
<1>6. NoLostWakeup'
  BY JobQueueAssumption DEF IInv, TypeOK, Row, NoLostWakeup, Claimable,
           QueuedIsClaimable, RecordFails, server, history
<1>7. (AttemptsInRange /\ QueuedIsClaimable /\ AuditAgrees /\ StampsOrdered)'
  BY DEF IInv, AttemptsInRange, QueuedIsClaimable, AuditAgrees, StampsOrdered,
           Claimable, RecordFails, server, history
<1> QED BY <1>1, <1>2, <1>3, <1>4, <1>5, <1>6, <1>7 DEF IInv

(* A crash loses requests without rows, and the worker with its token. *)
LEMMA CrashStep == ASSUME IInv, Crash PROVE IInv'
<1>1. TypeOK'
  <2>1. req' \in [Job -> ReqPhases]
    BY DEF IInv, TypeOK, Crash
  <2>2. crashes' \in Nat
    BY DEF IInv, TypeOK, Crash
  <2>3. pc' \in PCs /\ cur' \in Job \cup {NoJob} /\ wake' \in BOOLEAN
    BY DEF Crash
  <2>4. UNCHANGED <<rows, stamp, clock, lastSeq, audit, outcome, faults, history>>
    BY DEF Crash
  <2> QED BY <2>1, <2>2, <2>3, <2>4 DEF IInv, TypeOK, history
<1>2. HeldIsRunning'
  BY JobQueueAssumption DEF IInv, TypeOK, Row, HeldIsRunning, AuditAgrees,
           Crash, history
<1>3. RunningIsAccounted'
  BY JobQueueAssumption DEF IInv, TypeOK, Row, RunningIsAccounted,
           HeldIsRunning, Crash, history
<1>4. RunsCovered'
  BY JobQueueAssumption DEF IInv, TypeOK, Row, RunsCovered, BeforeHandler,
           HeldIsRunning, AttemptsInRange, Crash, history
<1>5. OkRunsCovered'
  BY JobQueueAssumption DEF IInv, TypeOK, Row, OkRunsCovered, Unfinished,
           BeforeHandler, HeldIsRunning, RunningIsAccounted, Crash, history
<1>6. NoLostWakeup'
  BY JobQueueAssumption DEF IInv, TypeOK, Row, NoLostWakeup, Claimable,
           QueuedIsClaimable, Crash, history
<1>7. StampsOrdered'
  BY JobQueueAssumption DEF IInv, TypeOK, Row, StampsOrdered, HeldIsRunning,
           Crash, history
<1>8. (AttemptsInRange /\ QueuedIsClaimable /\ AuditAgrees)'
  BY DEF IInv, AttemptsInRange, QueuedIsClaimable, AuditAgrees, Claimable,
           Crash, history
<1> QED BY <1>1, <1>2, <1>3, <1>4, <1>5, <1>6, <1>7, <1>8 DEF IInv

(* The restarted process has not read the table yet. *)
LEMMA StartStep == ASSUME IInv, Start PROVE IInv'
<1>1. TypeOK'
  BY JobQueueAssumption DEF IInv, TypeOK, Row, Start, server, history
<1>2. HeldIsRunning'
  BY JobQueueAssumption DEF IInv, TypeOK, Row, HeldIsRunning, AuditAgrees,
           Start, server, history
<1>3. RunningIsAccounted'
  BY JobQueueAssumption DEF IInv, TypeOK, Row, RunningIsAccounted,
           HeldIsRunning, Start, server, history
<1>4. RunsCovered'
  BY JobQueueAssumption DEF IInv, TypeOK, Row, RunsCovered, BeforeHandler,
           HeldIsRunning, AttemptsInRange, Start, server, history
<1>5. OkRunsCovered'
  BY JobQueueAssumption DEF IInv, TypeOK, Row, OkRunsCovered, Unfinished,
           BeforeHandler, HeldIsRunning, RunningIsAccounted, Start, server,
           history
<1>6. NoLostWakeup'
  BY JobQueueAssumption DEF IInv, TypeOK, Row, NoLostWakeup, Claimable,
           QueuedIsClaimable, Start, server, history
<1>7. (AttemptsInRange /\ QueuedIsClaimable /\ AuditAgrees /\ StampsOrdered)'
  BY DEF IInv, AttemptsInRange, QueuedIsClaimable, AuditAgrees, StampsOrdered,
           Claimable, Start, server, history
<1> QED BY <1>1, <1>2, <1>3, <1>4, <1>5, <1>6, <1>7 DEF IInv

-------------------------------------------------------------------------------
(* The empty table satisfies the invariant. *)
LEMMA InitIInv == Init => IInv
<1> SUFFICES ASSUME Init PROVE IInv
  OBVIOUS
<1> USE JobQueueAssumption
<1>1. TypeOK
  BY DEF Init, TypeOK, NoRow, Row
<1>2. HeldIsRunning /\ AttemptsInRange /\ QueuedIsClaimable /\ RunningIsAccounted
  BY DEF Init, NoRow, HeldIsRunning, AttemptsInRange, QueuedIsClaimable,
         RunningIsAccounted
<1>3. RunsCovered /\ OkRunsCovered
  BY DEF Init, NoRow, RunsCovered, OkRunsCovered, BeforeHandler
<1>4. AuditAgrees /\ NoLostWakeup /\ StampsOrdered
  BY DEF Init, NoRow, AuditAgrees, NoLostWakeup, StampsOrdered
<1> QED BY <1>1, <1>2, <1>3, <1>4 DEF IInv

(* Every step keeps the invariant. *)
LEMMA NextIInv == IInv /\ [Next]_vars => IInv'
<1> SUFFICES ASSUME IInv, [Next]_vars PROVE IInv'
  OBVIOUS
<1>1. ASSUME NEW j \in Job, Request(j) PROVE IInv'
  BY <1>1, StampStep, EnqueueStep, NotifyStep DEF Request
<1>2. CASE WorkerStep
  BY <1>2, RecoverStep, ClaimStep, ClaimNoneStep, WokenStep, TickStep,
     CreateStepStep, RunHandlerStep, CompleteStep, RetryStep, FailStep, RecordStep
     DEF WorkerStep
<1>3. CASE Fault
  BY <1>3, RecoverFailsStep, ClaimFailsStep, CreateStepFailsStep, SettleFailsStep,
     RecordFailsStep DEF Fault
<1>4. CASE Crash
  BY <1>4, CrashStep
<1>5. CASE Start
  BY <1>5, StartStep
<1>6. CASE UNCHANGED vars
  BY <1>6 DEF vars, server, worker, history, IInv, TypeOK, HeldIsRunning,
     AttemptsInRange, QueuedIsClaimable, RunningIsAccounted, RunsCovered,
     BeforeHandler, OkRunsCovered, Unfinished, AuditAgrees, NoLostWakeup,
     StampsOrdered
<1> QED BY <1>1, <1>2, <1>3, <1>4, <1>5, <1>6 DEF Next

(* The inductive invariant holds in every reachable state. *)
THEOREM Invariance == Spec => []IInv
BY InitIInv, NextIInv, PTL DEF Spec

(* The table never holds anything but well-formed rows, and the worker is  *)
(* always at one of the points of worker.go.                               *)
THEOREM TypeCorrect == Spec => []TypeOK
<1>1. IInv => TypeOK
  BY DEF IInv
<1> QED BY <1>1, Invariance, PTL

(* No job is stranded in the queue with its attempts used up.              *)
THEOREM NoStrandedJob == Spec => []QueuedIsClaimable
<1>1. IInv => QueuedIsClaimable
  BY DEF IInv
<1> QED BY <1>1, Invariance, PTL

(* At most the job in the worker's hands is running, apart from those      *)
(* whose settling write failed.                                            *)
THEOREM OneRunningJob == Spec => []RunningIsAccounted
<1>1. IInv => RunningIsAccounted
  BY DEF IInv
<1> QED BY <1>1, Invariance, PTL

(* max_attempts bounds the handler invocations, restarts apart.            *)
THEOREM AttemptsBounded == Spec => []BoundedRuns
<1>1. IInv => BoundedRuns
  <2> SUFFICES ASSUME IInv, NEW j \in Job
               PROVE  runs[j] <= MaxAttempts[j] + refunds[j]
    BY DEF BoundedRuns
  <2>1. runs[j] <= rows[j].attempts + refunds[j] /\ rows[j].attempts <= MaxAttempts[j]
    BY DEF IInv, RunsCovered
  <2> QED BY <2>1, JobQueueAssumption DEF IInv, TypeOK, Row
<1> QED BY <1>1, Invariance, PTL

(* Only a restart repeats work that had succeeded.                         *)
THEOREM WorkRepeatedOnlyByRecovery == Spec => []RepeatedOnlyByRecovery
<1>1. IInv => RepeatedOnlyByRecovery
  BY DEF IInv, OkRunsCovered, RepeatedOnlyByRecovery
<1> QED BY <1>1, Invariance, PTL

(* The audit log holds at most one outcome of a job, and the right one.    *)
THEOREM AuditIsTruthful == Spec => []AuditAgrees
<1>1. IInv => AuditAgrees
  BY DEF IInv
<1> QED BY <1>1, Invariance, PTL

(* A waiting worker has no job it was not, or will not be, told about.     *)
THEOREM WakeupsAreKept == Spec => []NoLostWakeup
<1>1. IInv => NoLostWakeup
  BY DEF IInv
<1> QED BY <1>1, Invariance, PTL

-------------------------------------------------------------------------------
(* Only ClaimJob makes a queued row run.                                   *)
LEMMA OnlyClaimRuns ==
  ASSUME IInv, Next, NEW j \in Job,
         rows[j].status = "queued", rows'[j].status = "running"
  PROVE  Claim
<1>1. ASSUME NEW i \in Job, Request(i) PROVE FALSE
  BY <1>1 DEF Request, Stamp, Enqueue, Notify, NewRow, IInv, TypeOK
<1>2. ~Recover
  BY DEF Recover, Recovered, IInv, TypeOK
<1>3. ~Complete /\ ~Retry /\ ~Fail
  BY DEF Complete, Completed, Retry, Retried, Fail, Failed, Exhausted, Set, IInv,
         TypeOK
<1>4. ~(ClaimNone \/ Woken \/ Tick \/ CreateStep \/ RunHandler \/ Record \/ Fault
        \/ Crash \/ Start)
  BY DEF ClaimNone, Woken, Tick, CreateStep, RunHandler, Record, Fault, Crash,
         Start, RecoverFails, ClaimFails, CreateStepFails, SettleFails, RecordFails,
         server
<1> QED BY <1>1, <1>2, <1>3, <1>4 DEF Next, WorkerStep

(* What a request could see committed has an older row than its own, so a  *)
(* claimable one would have been claimed first.                            *)
LEMMA ClaimIsInOrder == IInv /\ [Next]_vars => ClaimsInOrder \/ UNCHANGED vars
<1> SUFFICES ASSUME IInv, Next, NEW j \in Job, NEW i \in pred[j],
                    rows[j].status = "queued", rows'[j].status = "running"
             PROVE  rows[i].status \in Final \/ i \in lost
  BY DEF ClaimsInOrder
<1>1. Claim
  BY OnlyClaimRuns
<1>2. j \in Next4Claim(rows, MaxAttempts)
  BY <1>1 DEF Claim, Claimed, Set, IInv, TypeOK
<1>3. i \in Job /\ Older(rows[i], rows[j]) /\ rows[i].status # "absent"
  <2>1. i \in Job /\ rows[i] \in Row /\ rows[j] \in Row
    BY DEF IInv, TypeOK
  <2>2. /\ rows[i].status # "absent"
        /\ rows[i].createdAt <= stamp[j] /\ rows[j].createdAt = stamp[j]
        /\ rows[i].seq < rows[j].seq
    BY DEF IInv, StampsOrdered
  <2> QED BY <2>1, <2>2 DEF Row, Older
<1>4. ~Claimable(rows[i], MaxAttempts[i])
  BY <1>2, <1>3 DEF Next4Claim, IInv, TypeOK
<1>5. rows[i].status # "queued"
  BY <1>3, <1>4 DEF IInv, QueuedIsClaimable
<1>6. rows[i].status = "running" => i \in lost
  BY <1>1, <1>3 DEF Claim, IInv, RunningIsAccounted
<1> QED BY <1>3, <1>5, <1>6 DEF IInv, TypeOK, Row

(* Jobs run in the order users asked for them.                             *)
THEOREM JobsRunInOrder == Spec => InOrder
BY Invariance, ClaimIsInOrder, PTL DEF Spec, InOrder

-------------------------------------------------------------------------------
(* The refinement: what each step of the queue does to the ledger.         *)

LEMMA InitRefines == Init => Ledger!Init
BY DEF Init, Ledger!Init, phase, NoRow

(* The transaction that inserts the row accepts the job.                   *)
LEMMA EnqueueAccepts == ASSUME IInv, NEW j \in Job, Enqueue(j) PROVE Ledger!Accept(j)
<1>1. rows[j].status = "absent"
  BY DEF IInv, TypeOK, StampsOrdered, Enqueue
<1>2. rows'[j].status = "queued" /\ \A i \in Job \ {j} : rows'[i] = rows[i]
  BY DEF IInv, TypeOK, Enqueue, NewRow
<1>3. phase[j] = "absent" /\ phase' = [phase EXCEPT ![j] = "accepted"]
  BY <1>1, <1>2 DEF phase
<1> QED BY <1>3 DEF Ledger!Accept, Enqueue, history

(* A handler that returns is a try.                                        *)
LEMMA RunHandlerTries == ASSUME IInv, RunHandler PROVE Ledger!Try(cur)
<1>1. cur \in Job /\ phase[cur] = "accepted" /\ UNCHANGED phase
  BY DEF IInv, HeldIsRunning, RunHandler, phase, server
<1>2. runs' = [runs EXCEPT ![cur] = runs[cur] + 1]
  BY DEF RunHandler
<1>3. \/ okRuns' = [okRuns EXCEPT ![cur] = okRuns[cur] + 1]
      \/ okRuns' = okRuns
  BY DEF RunHandler, IInv, TypeOK
<1> QED BY <1>1, <1>2, <1>3 DEF Ledger!Try

(* CompleteJob and FailJob settle the job the worker holds, the former     *)
(* after a try that succeeded.                                             *)
LEMMA CompleteSettles == ASSUME IInv, Complete PROVE Ledger!Settle(cur)
<1>1. cur \in Job /\ rows[cur].status = "running" /\ okRuns[cur] > 0
  BY DEF IInv, HeldIsRunning, OkRunsCovered, Complete
<1>2. rows'[cur].status = "succeeded" /\ \A i \in Job \ {cur} : rows'[i] = rows[i]
  BY <1>1 DEF IInv, TypeOK, Complete, Completed, Set
<1>3. phase[cur] = "accepted" /\ phase' = [phase EXCEPT ![cur] = "succeeded"]
  BY <1>1, <1>2 DEF phase
<1> QED BY <1>1, <1>3 DEF Ledger!Settle, Complete, history

(* A job that fails was still accepted. *)
LEMMA FailSettles == ASSUME IInv, Fail PROVE Ledger!Settle(cur)
<1>1. cur \in Job /\ rows[cur].status = "running"
  BY DEF IInv, HeldIsRunning, Fail, Exhausted
<1>2. rows'[cur].status = "failed" /\ \A i \in Job \ {cur} : rows'[i] = rows[i]
  BY <1>1 DEF IInv, TypeOK, Fail, Failed, Set
<1>3. phase[cur] = "accepted" /\ phase' = [phase EXCEPT ![cur] = "failed"]
  BY <1>1, <1>2 DEF phase
<1> QED BY <1>3 DEF Ledger!Settle, Fail, history

(* Claims, retries and recoveries move a job between 'queued' and          *)
(* 'running', which the ledger does not tell apart.                        *)
LEMMA RequeueStutters ==
  ASSUME IInv, Recover \/ Claim \/ Retry
  PROVE  UNCHANGED <<phase, runs, okRuns>>
<1>1. UNCHANGED <<runs, okRuns>>
  BY DEF Recover, Claim, Retry, history
<1>2. CASE Recover
  BY <1>1, <1>2 DEF IInv, TypeOK, Recover, Recovered, Set, phase
<1>3. CASE Claim
  BY <1>1, <1>3 DEF IInv, TypeOK, Claim, Next4Claim, Claimable, Claimed, Set, phase
<1>4. CASE Retry
  BY <1>1, <1>4 DEF IInv, TypeOK, HeldIsRunning, Retry, Retried, Set, phase
<1> QED BY <1>2, <1>3, <1>4

(* Every other step leaves the ledger alone.                               *)
LEMMA OthersStutter ==
  ASSUME IInv,
         \/ \E j \in Job : Stamp(j) \/ Notify(j)
         \/ ClaimNone \/ Woken \/ Tick \/ CreateStep \/ Record
         \/ Fault \/ Crash \/ Start \/ UNCHANGED vars
  PROVE  UNCHANGED <<phase, runs, okRuns>>
<1>1. UNCHANGED <<rows, runs, okRuns>>
  BY DEF Stamp, Notify, ClaimNone, Woken, Tick, CreateStep, Record, Fault, Crash,
     Start, RecoverFails, ClaimFails, CreateStepFails, SettleFails, RecordFails,
     vars, server, history
<1> QED BY <1>1 DEF phase

(* Every step of the queue is a step of the ledger or none. *)
LEMMA NextRefines == IInv /\ [Next]_vars => [Ledger!Next]_(Ledger!vars)
<1> SUFFICES ASSUME IInv, [Next]_vars
             PROVE  Ledger!Next \/ UNCHANGED <<phase, runs, okRuns>>
  BY DEF Ledger!vars
<1>1. ASSUME NEW j \in Job, Enqueue(j) PROVE Ledger!Next
  BY <1>1, EnqueueAccepts DEF Ledger!Next
<1>2. pc \in Holding => cur \in Job
  BY DEF IInv, HeldIsRunning
<1>3. CASE RunHandler
  BY <1>2, <1>3, RunHandlerTries DEF Ledger!Next, RunHandler
<1>4. CASE Complete
  BY <1>2, <1>4, CompleteSettles DEF Ledger!Next, Complete
<1>5. CASE Fail
  BY <1>2, <1>5, FailSettles DEF Ledger!Next, Fail, Exhausted
<1>6. CASE Recover \/ Claim \/ Retry
  BY <1>6, RequeueStutters
<1>7. CASE \/ \E j \in Job : Stamp(j) \/ Notify(j)
           \/ ClaimNone \/ Woken \/ Tick \/ CreateStep \/ Record
           \/ Fault \/ Crash \/ Start \/ UNCHANGED vars
  BY <1>7, OthersStutter
<1> QED BY <1>1, <1>3, <1>4, <1>5, <1>6, <1>7 DEF Next, WorkerStep, Request

(* The queue keeps the promise of JobLedger.                               *)
THEOREM QueueImplementsLedger == Spec => Implements
BY InitRefines, NextRefines, Invariance, PTL DEF Spec, Implements, Ledger!Spec
===============================================================================
