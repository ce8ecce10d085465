----------------------------- MODULE BackupsProofs -----------------------------
(***************************************************************************)
(* Proofs about Backups for any plans and any number of runs, requests     *)
(* under way, deaths, failures and failing writes, and any retention.      *)
(***************************************************************************)
EXTENDS Backups, FiniteSetTheorems, NaturalsInduction, WellFoundedInduction,
        TLAPS

-------------------------------------------------------------------------------
(* The inductive invariant. *)

(* Types, and what refers to what: the run the worker has, and the plan or *)
(* run a request is about, exist; no checksum is newer than the newest     *)
(* archive; there is an artifact to forget.                                *)
AtWork == work.at \notin {"idle", "down"}
TypesFit ==
  /\ TypeOK
  /\ AtWork => work.run \in Run
  /\ work.at = "forgetting" => work.expired # {}
  /\ \A q \in Requester : /\ ask[q].op \in {"run", "drop"} => ask[q].plan \in Plan
                          /\ ask[q].op \in {"unlink", "forget"} => ask[q].run \in Run
  /\ \A r \in Run : row[r] <= made
  /\ work.sum <= made
  /\ \A x \in work.expired : x.sum <= made

(* A run not yet queued has nothing; a run of a plan has its plan, and a   *)
(* plan keeps at least one artifact.                                       *)
RowsFit ==
  /\ \A r \in Run : run[r].status = "none" =>
                    run[r].plan = None /\ job[r] = "none" /\ row[r] = 0
  /\ \A r \in Run : run[r].plan \in Plan => plan[run[r].plan].state = "there"
  /\ \A p \in Plan : plan[p].state = "there" => plan[p].keep >= 1

(* Where the worker is says how its run and its job stand. *)
WorkerFits ==
  /\ AtWork => job[work.run] = "running"
  /\ work.at \in {"marked", "call", "calling", "made", "failing"} =>
       run[work.run].status = "running"
  /\ work.at \in {"listing", "pruning", "forgetting"} => run[work.run].status = "succeeded"
  /\ work.at = "ended" => /\ work.ok => run[work.run].status = "succeeded"
                          /\ run[work.run].status \in Pending => work.run \in lost
  /\ work.at \in {"call", "calling", "made", "listing"} => work.keep >= 1

(* Two active runs of a plan are one. *)
ActiveOnce ==
  \A r, s \in Run :
    run[r].plan = run[s].plan /\ run[r].plan \in Plan /\ {run[r].status, run[s].status} \subseteq Pending
      => r = s

(* The Agent writes only archives of runs that have not succeeded, and     *)
(* each has a temporary file.                                              *)
WritesFit ==
  /\ \A r \in Run : writing[r] # "no" => r \in partial /\ run[r].status # "succeeded"
  /\ \A r \in Run : writing[r] = "awaited" => work.at = "calling" /\ r = work.run
  /\ work.at = "calling" => writing[work.run] = "awaited"
  /\ work.at = "made" => writing[work.run] = "no"

(* No two artifacts are the same, and the one the worker has just made is  *)
(* the newest and usable, unless a user has had it deleted.                *)
SumsFit ==
  /\ \A r, s \in Run : row[r] = row[s] /\ row[r] # 0 => r = s
  /\ work.at = "made" =>
       /\ \A s \in Run : row[s] < work.sum
       /\ \/ archive[work.run] = work.sum
          \/ archive[work.run] = 0 /\ work.run \in removed \cap discarded
  /\ work.at \in {"listing", "pruning", "forgetting"} =>
       /\ \A s \in Run : row[s] <= work.sum /\ (row[s] = work.sum => s = work.run)
       /\ work.sum # 0 /\ row[work.run] \in {0, work.sum}
       /\ \/ row[work.run] = work.sum /\ archive[work.run] = work.sum
          \/ work.run \in discarded \cup redone
  /\ \A q \in Requester : ask[q].op = "forget" => ask[q].run \in discarded

(* What retention deletes are artifacts of the plan, and not the newest. *)
ExpiredFit ==
  work.at \in {"pruning", "forgetting"} =>
    \A x \in work.expired : /\ x.run # work.run
                            /\ run[x.run].plan = run[work.run].plan
                            /\ run[x.run].status # "none"
                            /\ row[x.run] \in {0, x.sum}

(* The newest artifact of a plan is usable. *)
Clean(p) == \A r \in discarded \cup redone : run[r].plan # p
NewestIsUsable ==
  \A p \in Plan : Clean(p) /\ Artifacts(p) # {} =>
    \E r \in Artifacts(p) : archive[r] = row[r] /\ \A s \in Artifacts(p) : row[s] <= row[r]

(* What is left when the expired artifacts are gone is what the plan was   *)
(* to keep.                                                                *)
Kept(p) == {s \in Artifacts(p) : \A x \in work.expired : x.run # s}
KeepFits ==
  run[work.run].plan # None =>
    /\ work.at \in {"pruning", "forgetting"} =>
         Cardinality(Kept(run[work.run].plan)) <= work.keep
    /\ work.at = "ended" /\ work.ok =>
         Cardinality(Artifacts(run[work.run].plan)) <= work.keep

IInv ==
  /\ TypesFit
  /\ RowsFit
  /\ WorkerFits
  /\ ActiveOnce
  /\ WritesFit
  /\ SumsFit
  /\ ExpiredFit
  /\ NewestIsUsable
  /\ AtWork => KeepFits
  /\ SucceededIsUsable
  /\ NoStuckRun
  /\ JobIsTruthful

-------------------------------------------------------------------------------
(* Numbers. *)

LEMMA BoundsAreNumbers ==
  /\ MaxRuns \in Nat /\ MaxRetention \in Nat /\ MaxDeaths \in Nat
  /\ MaxFaults \in Nat /\ MaxMishaps \in Nat
  /\ 0 \in 0 .. MaxRuns /\ 0 \in 0 .. MaxRetention
BY BackupsAssumption

LEMMA HasLeast ==
  ASSUME NEW T \in SUBSET Nat, T # {}
  PROVE  \E x \in T : \A y \in T : x <= y
<1> DEFINE less == OpToRel(<, Nat)
<1>1. \E x \in T : \A y \in T : ~(<<y, x>> \in less)
  BY NatLessThanWellFounded, WFMin, Zenon
<1>2. \A x, y \in Nat : <<y, x>> \in less <=> y < x
  BY DEF OpToRel
<1> HIDE DEF less
<1>3. PICK x \in T : \A y \in T : ~(<<y, x>> \in less)
  BY <1>1
<1>4. \A y \in T : x <= y
  <2> TAKE y \in T
  <2>1. x \in Nat /\ y \in Nat
    OBVIOUS
  <2>2. ~(y < x)
    BY <1>2, <1>3, <2>1
  <2> QED BY <2>1, <2>2
<1> QED BY <1>4

LEMMA HasGreatest ==
  ASSUME NEW T \in SUBSET Nat, T # {}, NEW n \in Nat, \A x \in T : x <= n
  PROVE  \E x \in T : \A y \in T : y <= x
<1> DEFINE U == {k \in Nat : \E x \in T : x + k = n}
<1>1. \A x \in T : n - x \in U /\ x + (n - x) = n
  OBVIOUS
<1>2. U \in SUBSET Nat /\ U # {}
  BY <1>1
<1>3. \A k \in U : \E x \in T : x + k = n
  OBVIOUS
<1> HIDE DEF U
<1>4. PICK k \in U : \A l \in U : k <= l
  BY <1>2, HasLeast
<1>5. PICK x \in T : x + k = n
  BY <1>3
<1>6. \A y \in T : y <= x
  <2> TAKE y \in T
  <2>1. k <= n - y /\ k \in Nat /\ x \in Nat /\ y \in Nat
    BY <1>1, <1>2, <1>4
  <2> QED BY <1>5, <2>1
<1> QED BY <1>6

-------------------------------------------------------------------------------
(* The initial states. *)

LEMMA InitInv == Init => IInv
<1> SUFFICES ASSUME Init PROVE IInv
  OBVIOUS
<1> USE BackupsAssumption DEF Init, Free, NoAsk, Run
<1>1. TypesFit
  BY DEF TypesFit, TypeOK, AtWork, PlanRow, RunRow, Work, Points, Ask
<1>2. RowsFit /\ WorkerFits /\ ActiveOnce /\ WritesFit /\ SumsFit
  BY DEF RowsFit, WorkerFits, ActiveOnce, WritesFit, SumsFit, AtWork, Pending
<1>3. ExpiredFit /\ NewestIsUsable /\ ~AtWork
  BY DEF ExpiredFit, NewestIsUsable, Artifacts, AtWork
<1>4. SucceededIsUsable /\ NoStuckRun /\ JobIsTruthful
  BY DEF SucceededIsUsable, NoStuckRun, JobIsTruthful, Pending
<1> QED BY <1>1, <1>2, <1>3, <1>4 DEF IInv

-------------------------------------------------------------------------------
(* Which steps change what. *)

LEMMA PlanSteps ==
  ASSUME Next
  PROVE  \/ UNCHANGED plan
         \/ \E p \in Plan : CreatePlan(p) \/ UpdatePlan(p)
         \/ \E q \in Requester : DropPlan(q)
BY DEF Next, Request, WorkerStep, AgentStep, Failure, CreatePlan, UpdatePlan,
     Begin, AskDrop, AskRun, DropPlan, QueueRun, AskUnlink, Unlink, UnlinkFails,
     Forget, ForgetFails, Removes, Claim, NoStep, MarkRunning, MarkFails, ReadPlan,
     OpenPartial, CallFails, Install, WriteFails, AgentDies, GiveUp, CompleteBackup,
     CompleteFails, FailRun, FailRunUnsaved, ListExpired, ListFails, PruneArchive,
     PruneArchiveFails, PruneRow, PruneRowFails, Pruned, Settle, SettleFails, Crash,
     Restart, Fault, Mishap, rows, agent, bounds, history

LEMMA RunSteps ==
  ASSUME Next
  PROVE  \/ UNCHANGED run
         \/ \E q \in Requester : DropPlan(q) \/ QueueRun(q)
         \/ MarkRunning \/ CompleteBackup \/ FailRun
BY DEF Next, Request, WorkerStep, AgentStep, Failure, CreatePlan, UpdatePlan,
     Begin, AskDrop, AskRun, DropPlan, QueueRun, AskUnlink, Unlink, UnlinkFails,
     Forget, ForgetFails, Removes, Claim, NoStep, MarkRunning, MarkFails, ReadPlan,
     OpenPartial, CallFails, Install, WriteFails, AgentDies, GiveUp, CompleteBackup,
     CompleteFails, FailRun, FailRunUnsaved, ListExpired, ListFails, PruneArchive,
     PruneArchiveFails, PruneRow, PruneRowFails, Pruned, Settle, SettleFails, Crash,
     Restart, Fault, Mishap, rows, agent, bounds, history

LEMMA RowSteps ==
  ASSUME Next
  PROVE  \/ UNCHANGED row
         \/ \E q \in Requester : Forget(q)
         \/ CompleteBackup \/ PruneRow
BY DEF Next, Request, WorkerStep, AgentStep, Failure, CreatePlan, UpdatePlan,
     Begin, AskDrop, AskRun, DropPlan, QueueRun, AskUnlink, Unlink, UnlinkFails,
     Forget, ForgetFails, Removes, Claim, NoStep, MarkRunning, MarkFails, ReadPlan,
     OpenPartial, CallFails, Install, WriteFails, AgentDies, GiveUp, CompleteBackup,
     CompleteFails, FailRun, FailRunUnsaved, ListExpired, ListFails, PruneArchive,
     PruneArchiveFails, PruneRow, PruneRowFails, Pruned, Settle, SettleFails, Crash,
     Restart, Fault, Mishap, rows, agent, bounds, history

LEMMA JobSteps ==
  ASSUME Next
  PROVE  \/ UNCHANGED job
         \/ \E q \in Requester : QueueRun(q)
         \/ Claim \/ Settle \/ Restart
BY DEF Next, Request, WorkerStep, AgentStep, Failure, CreatePlan, UpdatePlan,
     Begin, AskDrop, AskRun, DropPlan, QueueRun, AskUnlink, Unlink, UnlinkFails,
     Forget, ForgetFails, Removes, Claim, NoStep, MarkRunning, MarkFails, ReadPlan,
     OpenPartial, CallFails, Install, WriteFails, AgentDies, GiveUp, CompleteBackup,
     CompleteFails, FailRun, FailRunUnsaved, ListExpired, ListFails, PruneArchive,
     PruneArchiveFails, PruneRow, PruneRowFails, Pruned, Settle, SettleFails, Crash,
     Restart, Fault, Mishap, rows, agent, bounds, history

(* An archive is written by Install and otherwise deleted, and then the    *)
(* Agent was told to; users are behind it in some cases.                   *)
LEMMA ArchiveSteps ==
  ASSUME Next
  PROVE  \/ UNCHANGED <<archive, removed, discarded, redone>>
         \/ \E q \in Requester : /\ ask[q].op = "unlink"
                                 /\ Removes(ask[q].run)
                                 /\ discarded' = discarded \cup {ask[q].run}
         \/ \E r \in Run : Install(r)
         \/ /\ work.at = "pruning" /\ work.expired # {}
            /\ Removes(x0.run) /\ UNCHANGED discarded
            /\ PruneArchive \/ PruneArchiveFails
BY DEF Next, Request, WorkerStep, AgentStep, Failure, CreatePlan, UpdatePlan,
     Begin, AskDrop, AskRun, DropPlan, QueueRun, AskUnlink, Unlink, UnlinkFails,
     Forget, ForgetFails, Removes, Claim, NoStep, MarkRunning, MarkFails, ReadPlan,
     OpenPartial, CallFails, Install, WriteFails, AgentDies, GiveUp, CompleteBackup,
     CompleteFails, FailRun, FailRunUnsaved, ListExpired, ListFails, PruneArchive,
     PruneArchiveFails, PruneRow, PruneRowFails, Pruned, Settle, SettleFails, Crash,
     Restart, Fault, Mishap, rows, agent, bounds, history

-------------------------------------------------------------------------------
(* Types. *)

(* Where the worker goes when only its place changes. *)
LEMMA WorkerGoes ==
  ASSUME work \in Work, NEW p \in Points, Goto(p)
  PROVE  /\ work' \in Work /\ work'.at = p
         /\ work'.run = work.run /\ work'.keep = work.keep /\ work'.sum = work.sum
         /\ work'.expired = work.expired /\ work'.ok = work.ok
BY DEF Goto, Work

LEMMA WorkerEnds ==
  ASSUME work \in Work, NEW ok \in BOOLEAN, End(ok)
  PROVE  /\ work' \in Work /\ work'.at = "ended" /\ work'.ok = ok
         /\ work'.run = work.run /\ work'.keep = work.keep /\ work'.sum = work.sum
         /\ work'.expired = work.expired
BY DEF End, Work, Points

(* The rows of a set of artifacts. *)
LEMMA ExpiredRows ==
  ASSUME TypeOK, NEW p, NEW n
  PROVE  /\ Expired(p, n) \subseteq Artifact
         /\ \A x \in Expired(p, n) :
              /\ x.run \in Artifacts(p) /\ x.sum = row[x.run] /\ Newer(p, x.run) >= n
BY DEF Expired, Rows, Artifact, Artifacts, TypeOK

(* x0 is one of the expired artifacts while there are any. *)
LEMMA NewestExpired ==
  ASSUME TypesFit, work.expired # {}
  PROVE  x0 \in work.expired
<1> DEFINE sums == {x.sum : x \in work.expired}
<1>1. sums \subseteq Nat /\ sums # {} /\ made \in Nat /\ \A n \in sums : n <= made
  BY DEF TypesFit, TypeOK, Work, Artifact
<1>2. PICK n \in sums : \A m \in sums : m <= n
  <2> HIDE DEF sums
  <2> QED BY <1>1, HasGreatest
<1>3. \E x \in work.expired : \A y \in work.expired : y.sum <= x.sum
  BY <1>2
<1> QED BY <1>3 DEF x0

LEMMA PlanTypes ==
  ASSUME TypeOK, Next
  PROVE  plan' \in [Plan -> PlanRow]
<1> USE BoundsAreNumbers DEF TypeOK, PlanRow
<1>1. CASE UNCHANGED plan
  BY <1>1
<1>2. ASSUME NEW p \in Plan, CreatePlan(p) \/ UpdatePlan(p)
      PROVE  plan' \in [Plan -> PlanRow]
  BY <1>2 DEF CreatePlan, UpdatePlan, CreateBackupPlan, UpdateBackupPlan
<1>3. ASSUME NEW q \in Requester, DropPlan(q) PROVE plan' \in [Plan -> PlanRow]
  BY <1>3 DEF DropPlan, DeleteBackupPlan
<1> QED BY <1>1, <1>2, <1>3, PlanSteps

(* What a step makes of a run, by the statement it runs. *)
LEMMA RunUpdated ==
  ASSUME TypeOK, NEW r \in Run, NEW s \in {"succeeded", "failed"} \cup Pending,
         UpdateBackupRun(r, s)
  PROVE  /\ run' \in [Run -> RunRow]
         /\ \A t \in Run : run'[t].plan = run[t].plan
         /\ run'[r].status = s
         /\ \A t \in Run \ {r} : run'[t] = run[t]
BY DEF UpdateBackupRun, TypeOK, RunRow

LEMMA RunOfNoPlan ==
  ASSUME TypeOK, NEW p \in Plan, DeleteBackupPlan(p)
  PROVE  /\ run' \in [Run -> RunRow]
         /\ \A t \in Run : /\ run'[t].plan = IF run[t].plan = p THEN None ELSE run[t].plan
                           /\ run'[t].status = run[t].status
BY DEF DeleteBackupPlan, TypeOK, RunRow

LEMMA RunCreated ==
  ASSUME TypeOK, NEW p \in Plan, CreateBackupRun(p)
  PROVE  /\ run' \in [Run -> RunRow] /\ job' \in [Run -> {"none", "succeeded", "failed"} \cup Pending]
         /\ \E r \in Run :
              /\ run[r].status = "none"
              /\ run'[r].status = "queued" /\ run'[r].plan = p /\ job'[r] = "queued"
              /\ \A t \in Run \ {r} : run'[t] = run[t] /\ job'[t] = job[t]
<1>1. PICK r \in Run : /\ run[r].status = "none"
                       /\ run' = [run EXCEPT ![r] = [status |-> "queued", plan |-> p]]
                       /\ job' = [job EXCEPT ![r] = "queued"]
  BY DEF CreateBackupRun
<1>2. run' \in [Run -> RunRow] /\ job' \in [Run -> {"none", "succeeded", "failed"} \cup Pending]
  BY <1>1 DEF TypeOK, RunRow, Pending
<1>3. /\ run'[r].status = "queued" /\ run'[r].plan = p /\ job'[r] = "queued"
      /\ \A t \in Run \ {r} : run'[t] = run[t] /\ job'[t] = job[t]
  BY <1>1 DEF TypeOK
<1> QED BY <1>1, <1>2, <1>3

(* A queued request creates a run or nothing. *)
LEMMA Queued ==
  ASSUME TypesFit, NEW q \in Requester, QueueRun(q)
  PROVE  /\ ask[q].plan \in Plan
         /\ \/ UNCHANGED <<run, job>>
            \/ /\ GetBackupPlan(ask[q].plan) /\ Active(ask[q].plan) = {}
               /\ CreateBackupRun(ask[q].plan)
         /\ UNCHANGED <<plan, row, work, agent, bounds, history>>
BY DEF QueueRun, TypesFit

LEMMA RunTypes ==
  ASSUME TypesFit, Next
  PROVE  run' \in [Run -> RunRow]
<1>0. TypeOK
  BY DEF TypesFit
<1>1. CASE UNCHANGED run
  BY <1>0, <1>1 DEF TypeOK
<1>2. ASSUME NEW q \in Requester, DropPlan(q) PROVE run' \in [Run -> RunRow]
  BY <1>0, <1>2, RunOfNoPlan DEF DropPlan, TypesFit
<1>3. ASSUME NEW q \in Requester, QueueRun(q) PROVE run' \in [Run -> RunRow]
  BY <1>0, <1>3, Queued, RunCreated DEF TypeOK
<1>4. CASE MarkRunning
  BY <1>0, <1>4, RunUpdated DEF MarkRunning, TypesFit, TypeOK, AtWork, Pending, r0
<1>5. CASE CompleteBackup
  BY <1>0, <1>5, RunUpdated DEF CompleteBackup, TypesFit, TypeOK, AtWork, r0
<1>6. CASE FailRun
  BY <1>0, <1>6, RunUpdated DEF FailRun, TypesFit, AtWork, r0
<1> QED BY <1>1, <1>2, <1>3, <1>4, <1>5, <1>6, RunSteps

LEMMA ArchivesGrow ==
  ASSUME TypeOK, Next
  PROVE  made' \in Nat /\ made <= made'
<1>1. UNCHANGED made \/ made' = made + 1
  BY DEF Next, Request, WorkerStep, AgentStep, Failure, CreatePlan, UpdatePlan,
     Begin, AskDrop, AskRun, DropPlan, QueueRun, AskUnlink, Unlink, UnlinkFails,
     Forget, ForgetFails, Removes, Claim, NoStep, MarkRunning, MarkFails, ReadPlan,
     OpenPartial, CallFails, Install, WriteFails, AgentDies, GiveUp, CompleteBackup,
     CompleteFails, FailRun, FailRunUnsaved, ListExpired, ListFails, PruneArchive,
     PruneArchiveFails, PruneRow, PruneRowFails, Pruned, Settle, SettleFails, Crash,
     Restart, Fault, Mishap, rows, agent, bounds, history
<1> QED BY <1>1 DEF TypeOK

LEMMA RowTypes ==
  ASSUME TypesFit, Next
  PROVE  row' \in [Run -> Nat] /\ \A r \in Run : row'[r] <= made'
<1>0. TypeOK /\ made' \in Nat /\ made <= made' /\ row \in [Run -> Nat] /\ made \in Nat
      /\ \A r \in Run : row[r] <= made
  BY ArchivesGrow DEF TypesFit, TypeOK
<1>1. CASE UNCHANGED row
  BY <1>0, <1>1
<1>2. ASSUME NEW r, NEW sum, DeleteBackupArtifact(r, sum)
      PROVE  row' \in [Run -> Nat] /\ \A s \in Run : row'[s] <= made'
  <2>1. \A s \in Run : row'[s] \in {0, row[s]}
    BY <1>0, <1>2 DEF DeleteBackupArtifact
  <2>2. row' = [s \in Run |-> row'[s]]
    BY <1>0, <1>2 DEF DeleteBackupArtifact
  <2>3. \A s \in Run : row'[s] \in Nat /\ row'[s] <= made'
    BY <1>0, <2>1
  <2> QED BY <2>2, <2>3
<1>3. CASE CompleteBackup
  <2>1. work.sum \in Nat /\ work.sum <= made
    BY DEF TypesFit, TypeOK, Work
  <2> QED BY <1>0, <1>3, <2>1 DEF CompleteBackup, CreateBackupArtifact
<1> QED BY <1>1, <1>2, <1>3, RowSteps DEF Forget, PruneRow

LEMMA JobTypes ==
  ASSUME TypesFit, Next
  PROVE  job' \in [Run -> {"none", "succeeded", "failed"} \cup Pending]
<1>0. TypeOK
  BY DEF TypesFit
<1>1. CASE UNCHANGED job
  BY <1>0, <1>1 DEF TypeOK
<1>2. ASSUME NEW q \in Requester, QueueRun(q)
      PROVE  job' \in [Run -> {"none", "succeeded", "failed"} \cup Pending]
  BY <1>0, <1>2, Queued, RunCreated DEF TypeOK
<1>3. CASE Claim \/ Settle \/ Restart
  BY <1>0, <1>3 DEF Claim, Settle, Restart, Pending, TypeOK
<1> QED BY <1>1, <1>2, <1>3, JobSteps

LEMMA AskSteps ==
  ASSUME Next
  PROVE  \/ UNCHANGED ask \/ Crash
         \/ \E q \in Requester :
              \/ ask' = [ask EXCEPT ![q] = NoAsk]
              \/ \E p \in Plan, op \in {"run", "drop"} :
                   ask' = [ask EXCEPT ![q] = [NoAsk EXCEPT !.op = op, !.plan = p]]
              \/ \E r \in Run :
                   ask' = [ask EXCEPT ![q] = [NoAsk EXCEPT !.op = "unlink", !.run = r,
                                                           !.sum = row[r]]]
              \/ /\ Unlink(q)
                 /\ ask' = [ask EXCEPT ![q] = [ask[q] EXCEPT !.op = "forget"]]
BY DEF Next, Request, WorkerStep, AgentStep, Failure, CreatePlan, UpdatePlan,
     Begin, AskDrop, AskRun, DropPlan, QueueRun, AskUnlink, Unlink, UnlinkFails,
     Forget, ForgetFails, Removes, Claim, NoStep, MarkRunning, MarkFails, ReadPlan,
     OpenPartial, CallFails, Install, WriteFails, AgentDies, GiveUp, CompleteBackup,
     CompleteFails, FailRun, FailRunUnsaved, ListExpired, ListFails, PruneArchive,
     PruneArchiveFails, PruneRow, PruneRowFails, Pruned, Settle, SettleFails, Crash,
     Restart, Fault, Mishap, rows, agent, bounds, history

(* A request is about a plan or a run there is. *)
LEMMA AskTypes ==
  ASSUME TypesFit, Next
  PROVE  /\ ask' \in [Requester -> Ask]
         /\ \A q \in Requester :
              /\ ask'[q].op \in {"run", "drop"} => ask'[q].plan \in Plan
              /\ ask'[q].op \in {"unlink", "forget"} => ask'[q].run \in Run
<1>0. TypeOK
  BY DEF TypesFit
<1>1. CASE UNCHANGED ask
  BY <1>0, <1>1 DEF TypeOK, TypesFit
<1>2. CASE Crash
  BY <1>2, BoundsAreNumbers DEF Crash, NoAsk, Ask
<1> DEFINE Fine(q, a) == /\ a \in Ask
                         /\ a.op \in {"run", "drop"} => a.plan \in Plan
                         /\ a.op \in {"unlink", "forget"} => a.run \in Run
<1>3. ASSUME NEW q \in Requester, NEW a, Fine(q, a), ask' = [ask EXCEPT ![q] = a]
      PROVE  \A t \in Requester : ask' \in [Requester -> Ask] /\ Fine(t, ask'[t])
  BY <1>0, <1>3 DEF TypeOK, TypesFit
<1>4. ASSUME NEW q \in Requester
      PROVE  /\ Fine(q, NoAsk) /\ Fine(q, ask[q])
             /\ ask[q].op = "unlink" => Fine(q, [ask[q] EXCEPT !.op = "forget"])
             /\ \A p \in Plan, op \in {"run", "drop"} :
                  Fine(q, [NoAsk EXCEPT !.op = op, !.plan = p])
             /\ \A r \in Run : Fine(q, [NoAsk EXCEPT !.op = "unlink", !.run = r, !.sum = row[r]])
  <2>1. ask[q] \in Ask /\ Fine(q, ask[q])
    BY <1>0 DEF TypeOK, TypesFit
  <2>2. Fine(q, NoAsk)
    BY BoundsAreNumbers DEF Ask, NoAsk
  <2>3. ask[q].op = "unlink" => Fine(q, [ask[q] EXCEPT !.op = "forget"])
    BY <2>1 DEF Ask
  <2>4. \A p \in Plan, op \in {"run", "drop"} :
          Fine(q, [NoAsk EXCEPT !.op = op, !.plan = p])
    BY BoundsAreNumbers DEF Ask, NoAsk
  <2>5. \A r \in Run : Fine(q, [NoAsk EXCEPT !.op = "unlink", !.run = r, !.sum = row[r]])
    <3> TAKE r \in Run
    <3>1. row[r] \in Nat /\ r \in 0 .. MaxRuns
      BY <1>0, BoundsAreNumbers DEF TypeOK, Run
    <3> QED BY <3>1 DEF Ask, NoAsk
  <2> QED BY <2>1, <2>2, <2>3, <2>4, <2>5
<1>5. ASSUME ~UNCHANGED ask, ~Crash
      PROVE  \E q \in Requester :
               \/ ask' = [ask EXCEPT ![q] = NoAsk]
               \/ \E p \in Plan, op \in {"run", "drop"} :
                    ask' = [ask EXCEPT ![q] = [NoAsk EXCEPT !.op = op, !.plan = p]]
               \/ \E r \in Run :
                    ask' = [ask EXCEPT ![q] = [NoAsk EXCEPT !.op = "unlink", !.run = r,
                                                            !.sum = row[r]]]
               \/ /\ ask[q].op = "unlink"
                  /\ ask' = [ask EXCEPT ![q] = [ask[q] EXCEPT !.op = "forget"]]
  BY <1>5, AskSteps DEF Unlink
<1> HIDE DEF Fine
<1>6. ASSUME ~UNCHANGED ask, ~Crash
      PROVE  \A t \in Requester : ask' \in [Requester -> Ask] /\ Fine(t, ask'[t])
  BY <1>3, <1>4, <1>5, <1>6
<1> QED BY <1>1, <1>2, <1>5, <1>6 DEF Fine

LEMMA AgentTypes ==
  ASSUME TypesFit, Next
  PROVE  /\ archive' \in [Run -> Nat] /\ partial' \subseteq Run
         /\ writing' \in [Run -> {"no", "awaited", "orphan"}]
<1>0. TypeOK /\ made' \in Nat
  BY ArchivesGrow DEF TypesFit
<1>1. archive' \in [Run -> Nat]
  BY <1>0, ArchiveSteps DEF TypeOK, Removes, Install
<1>2. partial' \subseteq Run
  <2>1. \/ partial' \subseteq partial
        \/ work.at = "call" /\ partial' = partial \cup {r0}
    BY DEF Next, Request, WorkerStep, AgentStep, Failure, CreatePlan, UpdatePlan,
     Begin, AskDrop, AskRun, DropPlan, QueueRun, AskUnlink, Unlink, UnlinkFails,
     Forget, ForgetFails, Removes, Claim, NoStep, MarkRunning, MarkFails, ReadPlan,
     OpenPartial, CallFails, Install, WriteFails, AgentDies, GiveUp, CompleteBackup,
     CompleteFails, FailRun, FailRunUnsaved, ListExpired, ListFails, PruneArchive,
     PruneArchiveFails, PruneRow, PruneRowFails, Pruned, Settle, SettleFails, Crash,
     Restart, Fault, Mishap, rows, agent, bounds, history
  <2> QED BY <1>0, <2>1 DEF TypesFit, TypeOK, AtWork, r0
<1>3. writing' \in [Run -> {"no", "awaited", "orphan"}]
  BY <1>0 DEF TypeOK, Next, Request, WorkerStep, AgentStep, Failure, CreatePlan, UpdatePlan,
     Begin, AskDrop, AskRun, DropPlan, QueueRun, AskUnlink, Unlink, UnlinkFails,
     Forget, ForgetFails, Removes, Claim, NoStep, MarkRunning, MarkFails, ReadPlan,
     OpenPartial, CallFails, Install, WriteFails, AgentDies, GiveUp, CompleteBackup,
     CompleteFails, FailRun, FailRunUnsaved, ListExpired, ListFails, PruneArchive,
     PruneArchiveFails, PruneRow, PruneRowFails, Pruned, Settle, SettleFails, Crash,
     Restart, Fault, Mishap, rows, agent, bounds, history
<1> QED BY <1>1, <1>2, <1>3

LEMMA HistoryTypes ==
  ASSUME TypesFit, Next
  PROVE  /\ deaths' \in 0 .. MaxDeaths /\ faults' \in 0 .. MaxFaults
         /\ mishaps' \in 0 .. MaxMishaps
         /\ {removed', discarded', redone', lost'} \subseteq SUBSET Run
<1>0. TypeOK
  BY DEF TypesFit
<1>1. /\ UNCHANGED deaths \/ (deaths < MaxDeaths /\ deaths' = deaths + 1)
      /\ UNCHANGED faults \/ (faults < MaxFaults /\ faults' = faults + 1)
      /\ UNCHANGED mishaps \/ (mishaps < MaxMishaps /\ mishaps' = mishaps + 1)
  BY DEF Next, Request, WorkerStep, AgentStep, Failure, CreatePlan, UpdatePlan,
     Begin, AskDrop, AskRun, DropPlan, QueueRun, AskUnlink, Unlink, UnlinkFails,
     Forget, ForgetFails, Removes, Claim, NoStep, MarkRunning, MarkFails, ReadPlan,
     OpenPartial, CallFails, Install, WriteFails, AgentDies, GiveUp, CompleteBackup,
     CompleteFails, FailRun, FailRunUnsaved, ListExpired, ListFails, PruneArchive,
     PruneArchiveFails, PruneRow, PruneRowFails, Pruned, Settle, SettleFails, Crash,
     Restart, Fault, Mishap, rows, agent, bounds, history
<1>2. lost' = lost \/ (AtWork /\ lost' = lost \cup {r0})
  BY DEF AtWork, Next, Request, WorkerStep, AgentStep, Failure, CreatePlan, UpdatePlan,
     Begin, AskDrop, AskRun, DropPlan, QueueRun, AskUnlink, Unlink, UnlinkFails,
     Forget, ForgetFails, Removes, Claim, NoStep, MarkRunning, MarkFails, ReadPlan,
     OpenPartial, CallFails, Install, WriteFails, AgentDies, GiveUp, CompleteBackup,
     CompleteFails, FailRun, FailRunUnsaved, ListExpired, ListFails, PruneArchive,
     PruneArchiveFails, PruneRow, PruneRowFails, Pruned, Settle, SettleFails, Crash,
     Restart, Fault, Mishap, rows, agent, bounds, history
<1>3. removed' \subseteq Run /\ discarded' \subseteq Run /\ redone' \subseteq Run
  BY <1>0, ArchiveSteps, NewestExpired DEF TypesFit, TypeOK, Work, Artifact, Removes, Install
<1>4. lost' \subseteq Run
  BY <1>0, <1>2 DEF TypesFit, TypeOK, r0
<1>5. /\ deaths' \in 0 .. MaxDeaths /\ faults' \in 0 .. MaxFaults
      /\ mishaps' \in 0 .. MaxMishaps
  BY <1>0, <1>1, BoundsAreNumbers DEF TypeOK
<1> QED BY <1>3, <1>4, <1>5

(* Where the worker is, and the ways it goes on. *)
LEMMA WorkSteps ==
  ASSUME Next
  PROVE  \/ UNCHANGED work
         \/ Claim \/ ReadPlan \/ ListExpired \/ PruneArchive \/ PruneRow \/ Restart
         \/ work' = Free \/ Crash
         \/ \E r \in Run : Install(r)
         \/ AtWork /\ \E ok \in BOOLEAN : End(ok)
         \/ AtWork /\ \E p \in {"marked", "calling", "failing", "listing"} : Goto(p)
         \/ \E r \in Run : WriteFails(r)
BY DEF AtWork, Next, Request, WorkerStep, AgentStep, Failure, CreatePlan, UpdatePlan,
     Begin, AskDrop, AskRun, DropPlan, QueueRun, AskUnlink, Unlink, UnlinkFails,
     Forget, ForgetFails, Removes, Claim, NoStep, MarkRunning, MarkFails, ReadPlan,
     OpenPartial, CallFails, Install, WriteFails, AgentDies, GiveUp, CompleteBackup,
     CompleteFails, FailRun, FailRunUnsaved, ListExpired, ListFails, PruneArchive,
     PruneArchiveFails, PruneRow, PruneRowFails, Pruned, Settle, SettleFails, Crash,
     Restart, Fault, Mishap, rows, agent, bounds, history

LEMMA WorkTypes ==
  ASSUME TypesFit, Next, WritesFit
  PROVE  /\ work' \in Work
         /\ AtWork' => work'.run \in Run
         /\ work'.at = "forgetting" => work'.expired # {}
         /\ work'.sum <= made'
         /\ \A x \in work'.expired : x.sum <= made'
<1> DEFINE Fine == /\ work' \in Work
                   /\ AtWork' => work'.run \in Run
                   /\ work'.at = "forgetting" => work'.expired # {}
                   /\ work'.sum <= made'
                   /\ \A x \in work'.expired : x.sum <= made'
<1>0. TypeOK /\ work \in Work
  BY DEF TypesFit, TypeOK
<1>1. /\ made \in Nat /\ made' \in Nat /\ made <= made'
      /\ work.sum \in Nat /\ work.sum <= made'
      /\ work.expired \subseteq Artifact
      /\ \A x \in work.expired : x.sum \in Nat /\ x.sum <= made'
      /\ AtWork => work.run \in Run
      /\ work.at = "forgetting" => work.expired # {}
      /\ \A r \in Run : row[r] \in Nat /\ row[r] <= made'
  BY ArchivesGrow DEF TypesFit, TypeOK, Work, Artifact
<1>2. ASSUME NEW p \in Points \ {"forgetting"}, Goto(p), AtWork \/ p = "idle" PROVE Fine
  BY <1>0, <1>1, <1>2, WorkerGoes DEF AtWork
<1>3. ASSUME NEW ok \in BOOLEAN, End(ok), AtWork PROVE Fine
  BY <1>0, <1>1, <1>3, WorkerEnds DEF AtWork
<1>4. CASE UNCHANGED work
  <2>1. work' = work /\ (AtWork' <=> AtWork)
    BY <1>4 DEF AtWork
  <2> QED BY <1>0, <1>1, <2>1
<1>5. CASE work' = Free \/ Crash
  <2> DEFINE free(p) == [at |-> p, run |-> 0, keep |-> 0, sum |-> 0,
                         expired |-> {}, ok |-> TRUE]
  <2>1. PICK p \in {"idle", "down"} : work' = free(p)
    BY <1>5 DEF Crash, Free
  <2>2. free(p) \in Work
    BY BoundsAreNumbers DEF Work, Points
  <2>3. /\ work' \in Work /\ work'.at \in {"idle", "down"}
        /\ work'.sum = 0 /\ work'.expired = {}
    BY <2>1, <2>2
  <2> QED BY <1>1, <2>3 DEF AtWork
<1>6. CASE Claim
  <2>1. PICK r \in Run : work' = [work EXCEPT !.at = "claimed", !.run = r]
    BY <1>6 DEF Claim
  <2>2. r \in 0 .. MaxRuns
    BY BoundsAreNumbers DEF Run
  <2> QED BY <1>0, <1>1, <2>1, <2>2 DEF Work, Points
<1>7. CASE ReadPlan
  <2>1. CASE Goto("failing")
    BY <1>2, <1>7, <2>1 DEF ReadPlan, AtWork, Points
  <2>2. ASSUME ~Goto("failing")
        PROVE  /\ run[work.run].plan \in Plan
               /\ work' = [work EXCEPT !.at = "call", !.keep = plan[run[work.run].plan].keep]
    BY <1>0, <1>1, <1>7, <2>2 DEF ReadPlan, TypeOK, RunRow, AtWork, r0
  <2>3. CASE ~Goto("failing")
    <3>1. plan[run[work.run].plan].keep \in 0 .. MaxRetention
      BY <1>0, <2>2, <2>3 DEF TypeOK, PlanRow
    <3> QED BY <1>0, <1>1, <1>7, <2>2, <2>3, <3>1 DEF ReadPlan, Work, Points, AtWork
  <2> QED BY <2>1, <2>3
<1>8. CASE ListExpired
  <2>1. /\ Expired(run[r0].plan, work.keep) \subseteq Artifact
        /\ \A x \in Expired(run[r0].plan, work.keep) : x.sum <= made'
    BY <1>0, <1>1, ExpiredRows DEF Artifacts
  <2> DEFINE some == IF run[r0].plan = None THEN {} ELSE Expired(run[r0].plan, work.keep)
  <2>2. work' = [work EXCEPT !.at = "pruning", !.expired = some] /\ work.at = "listing"
    BY <1>8 DEF ListExpired
  <2>3. some \subseteq Artifact /\ \A x \in some : x.sum <= made'
    BY <2>1
  <2> HIDE DEF some
  <2> QED BY <1>0, <1>1, <2>2, <2>3 DEF Work, Points, AtWork
<1>9. CASE PruneArchive
  BY <1>0, <1>1, <1>9, WorkerGoes DEF PruneArchive, AtWork, Points
<1>10. CASE PruneRow
  <2>1. /\ work' = [work EXCEPT !.at = "pruning", !.expired = @ \ {x0}]
        /\ work.at = "forgetting"
    BY <1>10 DEF PruneRow
  <2> QED BY <1>0, <1>1, <2>1 DEF Work, Points, AtWork
<1>11. CASE Restart
  BY <1>2, <1>11 DEF Restart, Points
<1>12. ASSUME NEW r \in Run, Install(r) PROVE Fine
  <2>1. CASE writing[r] = "awaited"
    <3>1. AtWork /\ made' = made + 1 /\ work' = [work EXCEPT !.at = "made", !.sum = made']
      BY <1>12, <2>1 DEF Install, WritesFit, AtWork
    <3>2. /\ work' \in Work /\ work'.at = "made" /\ work'.sum = made'
          /\ work'.run = work.run /\ work'.expired = work.expired
      BY <1>0, <1>1, <3>1 DEF Work, Points
    <3> QED BY <1>1, <3>1, <3>2
  <2>2. CASE writing[r] # "awaited"
    BY <1>4, <1>12, <2>2 DEF Install
  <2> QED BY <2>1, <2>2
<1>13. ASSUME NEW r \in Run, WriteFails(r) PROVE Fine
  BY <1>2, <1>4, <1>13 DEF WriteFails, Answer, WritesFit, AtWork, Points
<1> QED BY <1>2, <1>3, <1>4, <1>5, <1>6, <1>7, <1>8, <1>9, <1>10, <1>11, <1>12, <1>13,
           WorkSteps DEF Points

LEMMA TypesStep ==
  ASSUME TypesFit, WritesFit, Next
  PROVE  TypesFit'
<1>1. TypeOK'
  <2>1. made' \in Nat
    BY ArchivesGrow DEF TypesFit
  <2> QED BY <2>1, PlanTypes, RunTypes, RowTypes, JobTypes, WorkTypes, AskTypes, AgentTypes,
             HistoryTypes DEF TypesFit, TypeOK
<1> QED BY <1>1, RowTypes, AskTypes, WorkTypes DEF TypesFit

-------------------------------------------------------------------------------
(* Runs, plans and rows. *)

(* Deleting a row deletes that one or none. *)
LEMMA RowDeleted ==
  ASSUME TypeOK, NEW r, NEW sum, DeleteBackupArtifact(r, sum)
  PROVE  /\ \A s \in Run : row'[s] \in {0, row[s]} /\ (s # r => row'[s] = row[s])
         /\ r \in Run /\ row[r] = sum => row'[r] = 0
BY DEF TypeOK, DeleteBackupArtifact

(* The worker's statements about its run. *)
LEMMA WorkerUpdates ==
  ASSUME TypesFit, MarkRunning \/ CompleteBackup \/ FailRun
  PROVE  /\ AtWork /\ work.run \in Run /\ UNCHANGED <<plan, job>>
         /\ \A r \in Run : run'[r].plan = run[r].plan
         /\ \A r \in Run : r # work.run => run'[r] = run[r]
         /\ run'[work.run].status \in {run[work.run].status, "running", "succeeded", "failed"}
<1>1. AtWork /\ work.run \in Run /\ UNCHANGED <<plan, job>>
  BY DEF MarkRunning, CompleteBackup, FailRun, TypesFit, AtWork
<1>2. \/ UNCHANGED run
      \/ \E s \in {"running", "succeeded", "failed"} : UpdateBackupRun(work.run, s)
  BY DEF MarkRunning, CompleteBackup, FailRun, r0
<1> QED BY <1>1, <1>2, RunUpdated DEF TypesFit, Pending

(* A run that exists keeps its status and its job except where the worker  *)
(* has it, and its plan until the plan is deleted.                         *)
LEMMA RunsStay ==
  ASSUME TypesFit, RowsFit, Next, NEW r \in Run, run[r].status # "none"
  PROVE  /\ \/ run'[r].status = run[r].status
            \/ r = work.run /\ (MarkRunning \/ CompleteBackup \/ FailRun)
         /\ \/ job'[r] = job[r]
            \/ Claim \/ Restart \/ Settle
         /\ run'[r].plan \in {run[r].plan, None}
<1>0. TypeOK
  BY DEF TypesFit
<1>1. ASSUME NEW q \in Requester, DropPlan(q)
      PROVE  run'[r].status = run[r].status /\ run'[r].plan \in {run[r].plan, None}
  BY <1>0, <1>1, RunOfNoPlan DEF DropPlan, TypesFit
<1>2. ASSUME NEW q \in Requester, QueueRun(q)
      PROVE  run'[r] = run[r] /\ job'[r] = job[r]
  BY <1>0, <1>2, Queued, RunCreated
<1>3. ASSUME MarkRunning \/ CompleteBackup \/ FailRun
      PROVE  run'[r].plan = run[r].plan /\ (r # work.run => run'[r] = run[r])
  BY <1>3, WorkerUpdates
<1>4. /\ \/ run'[r].status = run[r].status
         \/ r = work.run /\ (MarkRunning \/ CompleteBackup \/ FailRun)
      /\ run'[r].plan \in {run[r].plan, None}
  BY <1>1, <1>2, <1>3, RunSteps
<1>5. job'[r] = job[r] \/ Claim \/ Restart \/ Settle
  BY <1>2, JobSteps
<1> QED BY <1>4, <1>5

LEMMA RowsStep ==
  ASSUME TypesFit, RowsFit, WorkerFits, Next
  PROVE  RowsFit'
<1>0. TypeOK
  BY DEF TypesFit
<1>1. ASSUME NEW r \in Run, run'[r].status = "none"
      PROVE  run'[r].plan = None /\ job'[r] = "none" /\ row'[r] = 0
  <2>1. run[r].status = "none" /\ run'[r].plan \in {run[r].plan, None}
    <3>1. ASSUME MarkRunning \/ CompleteBackup \/ FailRun
          PROVE  run[r].status = "none" /\ run'[r].plan \in {run[r].plan, None}
      BY <1>1, <3>1, WorkerUpdates
    <3>2. CASE \E q \in Requester : DropPlan(q)
      BY <1>0, <1>1, <3>2, RunOfNoPlan DEF DropPlan, TypesFit
    <3>3. CASE \E q \in Requester : QueueRun(q)
      BY <1>0, <1>1, <3>3, Queued, RunCreated
    <3> QED BY <1>1, <3>1, <3>2, <3>3, RunSteps
  <2>2. run[r].plan = None /\ job[r] = "none" /\ row[r] = 0
    BY <2>1 DEF RowsFit
  <2>3. AtWork => r # work.run
    BY <2>2 DEF WorkerFits
  <2>4. row'[r] = 0
    <3>1. CASE CompleteBackup
      BY <1>0, <2>2, <2>3, <3>1 DEF CompleteBackup, CreateBackupArtifact, TypeOK, AtWork, r0
    <3>2. CASE \E q \in Requester : Forget(q)
      BY <1>0, <2>2, <3>2, RowDeleted DEF Forget
    <3>3. CASE PruneRow
      BY <1>0, <2>2, <3>3, RowDeleted DEF PruneRow
    <3> QED BY <2>2, <3>1, <3>2, <3>3, RowSteps
  <2>5. job'[r] = "none"
    <3>1. CASE \E q \in Requester : QueueRun(q)
      BY <1>0, <1>1, <2>2, <3>1, Queued, RunCreated
    <3>2. CASE Claim \/ Settle \/ Restart
      BY <1>0, <2>2, <2>3, <3>2 DEF Claim, Settle, Restart, TypeOK, AtWork, r0
    <3> QED BY <2>2, <3>1, <3>2, JobSteps
  <2> QED BY <2>1, <2>2, <2>4, <2>5
<1>2. ASSUME NEW r \in Run, run'[r].plan \in Plan PROVE plan'[run'[r].plan].state = "there"
  <2>1. ASSUME run'[r].plan = run[r].plan, UNCHANGED plan
        PROVE  plan'[run'[r].plan].state = "there"
    BY <1>2, <2>1 DEF RowsFit
  <2>2. CASE \E p \in Plan : CreatePlan(p) \/ UpdatePlan(p)
    BY <1>0, <1>2, <2>2 DEF CreatePlan, UpdatePlan, CreateBackupPlan, UpdateBackupPlan,
                            RowsFit, TypeOK, PlanRow
  <2>3. ASSUME NEW q \in Requester, DropPlan(q) PROVE plan'[run'[r].plan].state = "there"
    <3>1. ask[q].plan \in Plan /\ DeleteBackupPlan(ask[q].plan)
      BY <2>3 DEF DropPlan, TypesFit
    <3>2. run'[r].plan = run[r].plan /\ run[r].plan # ask[q].plan
      BY <1>0, <1>2, <3>1, RunOfNoPlan, BackupsAssumption
    <3> QED BY <1>0, <1>2, <3>1, <3>2 DEF DeleteBackupPlan, RowsFit, TypeOK
  <2>4. ASSUME NEW q \in Requester, QueueRun(q) PROVE plan'[run'[r].plan].state = "there"
    <3>1. UNCHANGED plan /\ ask[q].plan \in Plan
      BY <2>4, Queued
    <3>2. CASE UNCHANGED run
      BY <2>1, <3>1, <3>2
    <3>3. CASE GetBackupPlan(ask[q].plan) /\ CreateBackupRun(ask[q].plan)
      BY <1>0, <2>1, <3>1, <3>3, RunCreated DEF GetBackupPlan
    <3> QED BY <2>4, <3>2, <3>3, Queued
  <2>5. CASE MarkRunning \/ CompleteBackup \/ FailRun
    BY <2>1, <2>5, WorkerUpdates
  <2> QED BY <2>1, <2>2, <2>3, <2>4, <2>5, RunSteps, PlanSteps
<1>3. ASSUME NEW p \in Plan, plan'[p].state = "there" PROVE plan'[p].keep >= 1
  <2>1. CASE UNCHANGED plan
    BY <1>3, <2>1 DEF RowsFit
  <2>2. ASSUME NEW t \in Plan, CreatePlan(t) \/ UpdatePlan(t) PROVE plan'[p].keep >= 1
    <3>1. PICK n \in 1 .. MaxRetention : CreateBackupPlan(t, n)
                                         \/ (UpdateBackupPlan(t, n) /\ GetBackupPlan(t))
      BY <2>2 DEF CreatePlan, UpdatePlan
    <3> QED BY <1>0, <1>3, <3>1 DEF CreateBackupPlan, UpdateBackupPlan, RowsFit, TypeOK,
                                    PlanRow
  <2>3. CASE \E q \in Requester : DropPlan(q)
    BY <1>0, <1>3, <2>3 DEF DropPlan, DeleteBackupPlan, RowsFit, TypeOK
  <2> QED BY <2>1, <2>2, <2>3, PlanSteps
<1> QED BY <1>1, <1>2, <1>3 DEF RowsFit

-------------------------------------------------------------------------------
(* The worker. *)

(* The job and the run the worker has are left alone by everyone else. *)
LEMMA WorkersOwn ==
  ASSUME TypesFit, RowsFit, WorkerFits, Next, AtWork
  PROVE  /\ work.run \in Run
         /\ \/ run'[work.run].status = run[work.run].status
            \/ MarkRunning \/ CompleteBackup \/ FailRun
         /\ job'[work.run] = "running" \/ Settle \/ Restart
<1>1. work.run \in Run /\ job[work.run] = "running" /\ run[work.run].status # "none"
  BY DEF TypesFit, WorkerFits, RowsFit
<1>2. ~Claim
  BY DEF Claim, AtWork
<1> QED BY <1>1, <1>2, RunsStay

LEMMA WorkerStays ==
  ASSUME TypesFit, RowsFit, WorkerFits, Next, UNCHANGED work
  PROVE  WorkerFits'
<1>0. work \in Work
  BY DEF TypesFit, TypeOK
<1>1. ~(MarkRunning \/ CompleteBackup \/ FailRun \/ Settle \/ Restart)
  <2>1. ASSUME MarkRunning \/ CompleteBackup \/ FailRun PROVE FALSE
    <3>1. \/ work.at \in {"claimed", "made"} /\ \E p \in {"marked", "listing", "failing"} : Goto(p)
          \/ work.at \in {"claimed", "failing"} /\ End(FALSE)
      BY <2>1 DEF MarkRunning, CompleteBackup, FailRun
    <3> QED BY <1>0, <3>1, WorkerGoes, WorkerEnds DEF Points
  <2>2. ~Settle
    BY DEF Settle, Free
  <2>3. ~Restart
    BY <1>0, WorkerGoes DEF Restart, Up, Points
  <2> QED BY <2>1, <2>2, <2>3
<1>2. lost \subseteq lost'
  BY DEF Next, Request, WorkerStep, AgentStep, Failure, CreatePlan, UpdatePlan,
     Begin, AskDrop, AskRun, DropPlan, QueueRun, AskUnlink, Unlink, UnlinkFails,
     Forget, ForgetFails, Removes, Claim, NoStep, MarkRunning, MarkFails, ReadPlan,
     OpenPartial, CallFails, Install, WriteFails, AgentDies, GiveUp, CompleteBackup,
     CompleteFails, FailRun, FailRunUnsaved, ListExpired, ListFails, PruneArchive,
     PruneArchiveFails, PruneRow, PruneRowFails, Pruned, Settle, SettleFails, Crash,
     Restart, Fault, Mishap, rows, agent, bounds, history
<1>3. AtWork => /\ run'[work.run].status = run[work.run].status
                /\ job'[work.run] = "running"
  BY <1>1, WorkersOwn
<1>4. /\ work' = work /\ (AtWork' <=> AtWork)
      /\ ~AtWork => work.at \in {"idle", "down"}
  BY DEF AtWork
<1> QED BY <1>2, <1>3, <1>4 DEF WorkerFits, Pending

LEMMA WorkerStepFits ==
  ASSUME TypesFit, RowsFit, WorkerFits, ActiveOnce, WritesFit, WorkerStep, Next
  PROVE  WorkerFits'
<1>0. TypeOK /\ work \in Work /\ (AtWork => work.run \in Run /\ job[work.run] = "running")
      /\ (AtWork' <=> work'.at \notin {"idle", "down"})
  BY DEF TypesFit, TypeOK, WorkerFits, AtWork
<1>1. CASE Claim
  <2>1. PICK r \in Run : /\ job' = [job EXCEPT ![r] = "running"]
                         /\ work' = [work EXCEPT !.at = "claimed", !.run = r]
    BY <1>1 DEF Claim
  <2>2. work'.at = "claimed" /\ work'.run = r /\ job'[r] = "running"
    BY <1>0, <2>1 DEF Work, TypeOK
  <2> QED BY <2>2 DEF WorkerFits
<1>2. CASE MarkRunning
  <2>1. work.run \in Run /\ job' = job /\ work.at = "claimed" /\ AtWork
    BY <1>0, <1>2 DEF MarkRunning, AtWork
  <2>2. CASE /\ run[r0].plan # None /\ Active(run[r0].plan) \ {r0} # {}
             /\ End(FALSE) /\ UNCHANGED run
    <3>1. run[work.run].status \notin Pending
      <4>1. PICK s \in Active(run[work.run].plan) : s # work.run
        BY <2>2 DEF r0
      <4>2. run[work.run].plan \in Plan
        BY <1>0, <2>1, <2>2 DEF TypeOK, RunRow, r0
      <4> QED BY <2>1, <4>1, <4>2 DEF ActiveOnce, Active
    <3>2. work'.at = "ended" /\ work'.run = work.run /\ work'.ok = FALSE
      BY <1>0, <2>2, WorkerEnds
    <3> QED BY <1>0, <2>1, <2>2, <3>1, <3>2 DEF WorkerFits
  <2>3. CASE Goto("marked") /\ UpdateBackupRun(r0, "running")
    <3>1. work'.at = "marked" /\ work'.run = work.run /\ run'[work.run].status = "running"
      BY <1>0, <2>1, <2>3, WorkerGoes, RunUpdated DEF Points, Pending, r0
    <3> QED BY <1>0, <2>1, <3>1 DEF WorkerFits
  <2> QED BY <1>2, <2>2, <2>3 DEF MarkRunning
<1>3. CASE ReadPlan
  <2>1. /\ work.run \in Run /\ job' = job /\ run' = run /\ work.at = "marked"
        /\ job[work.run] = "running" /\ run[work.run].status = "running"
    BY <1>0, <1>3 DEF ReadPlan, AtWork, WorkerFits, rows
  <2>2. CASE Goto("failing")
    BY <1>0, <2>1, <2>2, WorkerGoes DEF WorkerFits, Points
  <2>3. CASE ~Goto("failing")
    <3>1. run[work.run].plan \in Plan
          /\ work' = [work EXCEPT !.at = "call", !.keep = plan[run[work.run].plan].keep]
      BY <1>0, <1>3, <2>1, <2>3 DEF ReadPlan, TypeOK, RunRow, r0
    <3>2. plan[run[work.run].plan].keep >= 1
      BY <2>1, <3>1 DEF RowsFit
    <3>3. work'.at = "call" /\ work'.run = work.run /\ work'.keep >= 1
      BY <1>0, <3>1, <3>2 DEF Work
    <3> QED BY <2>1, <3>3 DEF WorkerFits
  <2> QED BY <2>2, <2>3
<1>4. CASE OpenPartial
  BY <1>0, <1>4, WorkerGoes DEF OpenPartial, WorkerFits, AtWork, Points, rows
<1>5. CASE CompleteBackup
  <2>1. /\ work.run \in Run /\ job' = job /\ work.at = "made" /\ job[work.run] = "running"
        /\ run[work.run].status = "running" /\ work.keep >= 1
    BY <1>0, <1>5 DEF CompleteBackup, AtWork, WorkerFits
  <2>2. \/ Goto("failing") /\ UNCHANGED run
        \/ Goto("listing") /\ UpdateBackupRun(work.run, "succeeded")
    BY <1>5 DEF CompleteBackup, r0
  <2>3. CASE Goto("failing") /\ UNCHANGED run
    <3>1. work'.at = "failing" /\ work'.run = work.run
      BY <1>0, <2>3, WorkerGoes DEF Points
    <3> QED BY <2>1, <2>3, <3>1 DEF WorkerFits
  <2>4. CASE Goto("listing") /\ UpdateBackupRun(work.run, "succeeded")
    <3>1. work'.at = "listing" /\ work'.run = work.run /\ work'.keep = work.keep
      BY <1>0, <2>4, WorkerGoes DEF Points
    <3>2. run'[work.run].status = "succeeded"
      BY <1>0, <2>1, <2>4, RunUpdated
    <3> QED BY <2>1, <3>1, <3>2 DEF WorkerFits
  <2> QED BY <2>2, <2>3, <2>4
<1>6. CASE FailRun
  <2>1. /\ work.run \in Run /\ job' = job /\ job[work.run] = "running"
        /\ End(FALSE) /\ UpdateBackupRun(work.run, "failed")
    BY <1>0, <1>6 DEF FailRun, AtWork, r0
  <2>2. work'.at = "ended" /\ work'.run = work.run /\ work'.ok = FALSE
    BY <1>0, <2>1, WorkerEnds
  <2>3. run'[work.run].status = "failed"
    BY <1>0, <2>1, RunUpdated
  <2> QED BY <2>1, <2>2, <2>3 DEF WorkerFits, Pending
<1>7. CASE ListExpired
  <2>1. /\ work.run \in Run /\ job' = job /\ run' = run /\ work.at = "listing"
        /\ job[work.run] = "running" /\ run[work.run].status = "succeeded"
    BY <1>0, <1>7 DEF ListExpired, AtWork, WorkerFits, rows
  <2>2. work'.at = "pruning" /\ work'.run = work.run
    BY <1>0, <1>7 DEF ListExpired, Work
  <2> QED BY <2>1, <2>2 DEF WorkerFits
<1>8. CASE PruneArchive
  BY <1>0, <1>8, WorkerGoes DEF PruneArchive, WorkerFits, AtWork, Points, rows
<1>9. CASE PruneRow
  <2>1. /\ work.run \in Run /\ job' = job /\ run' = run /\ work.at = "forgetting"
        /\ job[work.run] = "running" /\ run[work.run].status = "succeeded"
    BY <1>0, <1>9 DEF PruneRow, AtWork, WorkerFits
  <2>2. work'.at = "pruning" /\ work'.run = work.run
    BY <1>0, <1>9 DEF PruneRow, Work
  <2> QED BY <2>1, <2>2 DEF WorkerFits
<1>10. CASE Pruned
  BY <1>0, <1>10, WorkerEnds DEF Pruned, WorkerFits, AtWork, Pending, rows
<1>11. CASE Settle
  BY <1>11 DEF Settle, Free, WorkerFits, AtWork
<1> QED BY <1>1, <1>2, <1>3, <1>4, <1>5, <1>6, <1>7, <1>8, <1>9, <1>10, <1>11 DEF WorkerStep

LEMMA WorkerFailureFits ==
  ASSUME TypesFit, RowsFit, WorkerFits, WritesFit, Failure, Next
  PROVE  WorkerFits'
<1>0. TypeOK /\ work \in Work /\ (AtWork => work.run \in Run /\ job[work.run] = "running")
      /\ (AtWork' <=> work'.at \notin {"idle", "down"})
  BY DEF TypesFit, TypeOK, WorkerFits, AtWork
<1>1. ASSUME NEW q \in Requester, UnlinkFails(q) \/ ForgetFails(q) PROVE WorkerFits'
  BY <1>1, WorkerStays DEF UnlinkFails, ForgetFails
<1>2. CASE NoStep \/ MarkFails \/ FailRunUnsaved
  <2>1. /\ work.run \in Run /\ job' = job /\ run' = run /\ job[work.run] = "running"
        /\ End(FALSE) /\ work.run \in lost'
    BY <1>0, <1>2 DEF NoStep, MarkFails, FailRunUnsaved, AtWork, r0, rows
  <2> QED BY <1>0, <2>1, WorkerEnds DEF WorkerFits
<1>3. CASE \/ CallFails \/ CompleteFails \/ GiveUp
           \/ AgentDies /\ work.at = "calling"
  <2>1. /\ work.at \in {"call", "made", "calling"}
        /\ job' = job /\ run' = run /\ Goto("failing")
    BY <1>3 DEF CallFails, CompleteFails, GiveUp, AgentDies, rows
  <2>2. work.run \in Run /\ job[work.run] = "running" /\ run[work.run].status = "running"
    BY <1>0, <2>1 DEF AtWork, WorkerFits
  <2> QED BY <1>0, <2>1, <2>2, WorkerGoes DEF WorkerFits, Points
<1>4. CASE AgentDies /\ work.at # "calling"
  BY <1>4, WorkerStays DEF AgentDies
<1>5. ASSUME NEW r \in Run, WriteFails(r) PROVE WorkerFits'
  <2>1. CASE writing[r] # "awaited"
    BY <1>5, <2>1, WorkerStays DEF WriteFails, Answer
  <2>2. CASE writing[r] = "awaited"
    <3>1. /\ work.at = "calling" /\ job' = job /\ run' = run /\ Goto("failing")
      BY <1>5, <2>2 DEF WriteFails, Answer, WritesFit, rows
    <3>2. work.run \in Run /\ job[work.run] = "running" /\ run[work.run].status = "running"
      BY <1>0, <3>1 DEF AtWork, WorkerFits
    <3> QED BY <1>0, <3>1, <3>2, WorkerGoes DEF WorkerFits, Points
  <2> QED BY <2>1, <2>2
<1>6. CASE ListFails \/ PruneArchiveFails \/ PruneRowFails
  <2>1. /\ work.at \in {"listing", "pruning", "forgetting"}
        /\ job' = job /\ run' = run /\ End(FALSE)
    BY <1>6 DEF ListFails, PruneArchiveFails, PruneRowFails, rows
  <2>2. work.run \in Run /\ job[work.run] = "running" /\ run[work.run].status = "succeeded"
    BY <1>0, <2>1 DEF AtWork, WorkerFits
  <2> QED BY <1>0, <2>1, <2>2, WorkerEnds DEF WorkerFits, Pending
<1>7. CASE SettleFails
  BY <1>7 DEF SettleFails, Free, WorkerFits, AtWork
<1> QED BY <1>1, <1>2, <1>3, <1>4, <1>5, <1>6, <1>7 DEF Failure

LEMMA WorkerFitsStep ==
  ASSUME TypesFit, RowsFit, WorkerFits, ActiveOnce, WritesFit, Next
  PROVE  WorkerFits'
<1>0. TypeOK /\ work \in Work
  BY DEF TypesFit, TypeOK
<1>1. CASE Request
  <2>1. UNCHANGED work
    BY <1>1 DEF Next, Request, WorkerStep, AgentStep, Failure, CreatePlan, UpdatePlan,
     Begin, AskDrop, AskRun, DropPlan, QueueRun, AskUnlink, Unlink, UnlinkFails,
     Forget, ForgetFails, Removes, Claim, NoStep, MarkRunning, MarkFails, ReadPlan,
     OpenPartial, CallFails, Install, WriteFails, AgentDies, GiveUp, CompleteBackup,
     CompleteFails, FailRun, FailRunUnsaved, ListExpired, ListFails, PruneArchive,
     PruneArchiveFails, PruneRow, PruneRowFails, Pruned, Settle, SettleFails, Crash,
     Restart, Fault, Mishap, rows, agent, bounds, history
  <2> QED BY <2>1, WorkerStays
<1>2. ASSUME NEW r \in Run, Install(r) PROVE WorkerFits'
  <2>1. CASE writing[r] # "awaited"
    BY <1>2, <2>1, WorkerStays DEF Install
  <2>2. CASE writing[r] = "awaited"
    <3>1. /\ work.at = "calling" /\ job' = job /\ run' = run
          /\ work' = [work EXCEPT !.at = "made", !.sum = made']
      BY <1>2, <2>2 DEF Install, WritesFit, rows
    <3>2. work'.at = "made" /\ work'.run = work.run /\ work'.keep = work.keep
      BY <1>0, <3>1 DEF Work
    <3>3. /\ job[work.run] = "running" /\ run[work.run].status = "running"
          /\ work.keep >= 1
      BY <3>1 DEF AtWork, WorkerFits
    <3> QED BY <3>1, <3>2, <3>3 DEF WorkerFits
  <2> QED BY <2>1, <2>2
<1>3. CASE Crash
  BY <1>3 DEF Crash, Free, WorkerFits, AtWork
<1>4. CASE Restart
  BY <1>0, <1>4, WorkerGoes DEF Restart, WorkerFits, AtWork, Points
<1> QED BY <1>1, <1>2, <1>3, <1>4, WorkerStepFits, WorkerFailureFits DEF Next, AgentStep

(* Where the worker arrives, and by which step. *)
LEMMA Moves ==
  ASSUME Next
  PROVE  \/ UNCHANGED work
         \/ Claim \/ MarkRunning \/ ReadPlan \/ OpenPartial \/ CompleteBackup
         \/ ListExpired \/ PruneArchive \/ PruneRow \/ Pruned
         \/ work' = Free \/ Crash \/ Restart
         \/ \E r \in Run : Install(r) /\ writing[r] = "awaited"
         \/ Goto("failing")
         \/ End(FALSE)
BY DEF Answer, Next, Request, WorkerStep, AgentStep, Failure, CreatePlan, UpdatePlan,
     Begin, AskDrop, AskRun, DropPlan, QueueRun, AskUnlink, Unlink, UnlinkFails,
     Forget, ForgetFails, Removes, Claim, NoStep, MarkRunning, MarkFails, ReadPlan,
     OpenPartial, CallFails, Install, WriteFails, AgentDies, GiveUp, CompleteBackup,
     CompleteFails, FailRun, FailRunUnsaved, ListExpired, ListFails, PruneArchive,
     PruneArchiveFails, PruneRow, PruneRowFails, Pruned, Settle, SettleFails, Crash,
     Restart, Fault, Mishap, rows, agent, bounds, history

LEMMA Arrivals ==
  ASSUME TypesFit, Next
  PROVE  \/ UNCHANGED work
         \/ work'.at \in {"idle", "down", "claimed", "marked", "call", "failing"}
         \/ work'.at = "calling" /\ OpenPartial
         \/ work'.at = "made" /\ \E r \in Run : Install(r) /\ writing[r] = "awaited"
         \/ work'.at = "listing" /\ CompleteBackup /\ row[work.run] = 0
         \/ work'.at = "pruning" /\ (ListExpired \/ PruneRow)
         \/ work'.at = "forgetting" /\ PruneArchive
         \/ work'.at = "ended" /\ (End(FALSE) \/ Pruned)
<1>0. work \in Work
  BY DEF TypesFit, TypeOK
<1>1. \A p \in Points : Goto(p) => work'.at = p
  BY <1>0, WorkerGoes
<1>2. \A ok \in BOOLEAN : End(ok) => work'.at = "ended"
  BY <1>0, WorkerEnds
<1>3. CASE Claim \/ ReadPlan \/ work' = Free \/ Crash \/ Restart
  <2>1. \/ Goto("failing") \/ Goto("idle")
        \/ work' = Free \/ work' = [Free EXCEPT !.at = "down"]
        \/ \E r : work' = [work EXCEPT !.at = "claimed", !.run = r]
        \/ \E k : work' = [work EXCEPT !.at = "call", !.keep = k]
    BY <1>3 DEF Claim, ReadPlan, Crash, Restart
  <2>2. CASE Goto("failing") \/ Goto("idle")
    BY <1>1, <2>2 DEF Points
  <2>3. CASE work' = Free \/ work' = [Free EXCEPT !.at = "down"]
    <3>1. Free.at = "idle" /\ [Free EXCEPT !.at = "down"].at = "down"
      BY DEF Free
    <3> QED BY <2>3, <3>1
  <2>4. CASE \/ \E r : work' = [work EXCEPT !.at = "claimed", !.run = r]
             \/ \E k : work' = [work EXCEPT !.at = "call", !.keep = k]
    BY <1>0, <2>4 DEF Work
  <2> QED BY <2>1, <2>2, <2>3, <2>4
<1>4. CASE MarkRunning \/ OpenPartial \/ CompleteBackup \/ PruneArchive \/ Pruned
  BY <1>1, <1>2, <1>4 DEF MarkRunning, OpenPartial, CompleteBackup, PruneArchive, Pruned,
                          Points, r0
<1>5. CASE ListExpired \/ PruneRow
  BY <1>0, <1>5 DEF ListExpired, PruneRow, Work
<1>6. ASSUME NEW r \in Run, Install(r), writing[r] = "awaited" PROVE work'.at = "made"
  BY <1>0, <1>6 DEF Install, Work
<1>7. CASE Goto("failing") \/ End(FALSE)
  BY <1>1, <1>2, <1>7 DEF Points
<1> QED BY <1>3, <1>4, <1>5, <1>6, <1>7, Moves

(* The worker waits in one place. *)
LEMMA CallingSteps ==
  ASSUME Next, work.at = "calling"
  PROVE  \/ UNCHANGED work
         \/ AgentDies \/ GiveUp \/ Crash
         \/ \E r \in Run : Install(r) \/ WriteFails(r)
BY DEF Up, Next, Request, WorkerStep, AgentStep, Failure, CreatePlan, UpdatePlan,
     Begin, AskDrop, AskRun, DropPlan, QueueRun, AskUnlink, Unlink, UnlinkFails,
     Forget, ForgetFails, Removes, Claim, NoStep, MarkRunning, MarkFails, ReadPlan,
     OpenPartial, CallFails, Install, WriteFails, AgentDies, GiveUp, CompleteBackup,
     CompleteFails, FailRun, FailRunUnsaved, ListExpired, ListFails, PruneArchive,
     PruneArchiveFails, PruneRow, PruneRowFails, Pruned, Settle, SettleFails, Crash,
     Restart, Fault, Mishap, rows, agent, bounds, history

-------------------------------------------------------------------------------
(* Active runs, jobs and the Agent's operations. *)

LEMMA ActiveOnceStep ==
  ASSUME TypesFit, ActiveOnce, Next
  PROVE  ActiveOnce'
<1>0. TypeOK
  BY DEF TypesFit
<1>1. CASE UNCHANGED run
  BY <1>1 DEF ActiveOnce
<1>2. ASSUME NEW q \in Requester, DropPlan(q) PROVE ActiveOnce'
  <2>1. ask[q].plan \in Plan /\ DeleteBackupPlan(ask[q].plan)
    BY <1>2 DEF DropPlan, TypesFit
  <2>2. \A t \in Run : /\ run'[t].plan \in {None, run[t].plan}
                       /\ run'[t].status = run[t].status
    BY <1>0, <2>1, RunOfNoPlan
  <2> QED BY <2>2, BackupsAssumption DEF ActiveOnce
<1>3. ASSUME NEW q \in Requester, QueueRun(q) PROVE ActiveOnce'
  <2>1. CASE UNCHANGED run
    BY <1>1, <2>1
  <2>2. CASE Active(ask[q].plan) = {} /\ CreateBackupRun(ask[q].plan)
    <3>1. ask[q].plan \in Plan
      BY <1>3, Queued
    <3>2. PICK r \in Run : /\ run'[r].plan = ask[q].plan
                           /\ \A t \in Run \ {r} : run'[t] = run[t]
      BY <1>0, <2>2, <3>1, RunCreated
    <3>3. \A t \in Run \ {r} : ~(run'[t].plan = ask[q].plan /\ run'[t].status \in Pending)
      BY <2>2, <3>2 DEF Active
    <3> QED BY <3>2, <3>3 DEF ActiveOnce, Pending
  <2> QED BY <1>3, <2>1, <2>2, Queued
<1>4. CASE MarkRunning
  <2>1. work.run \in Run /\ \A t \in Run : /\ run'[t].plan = run[t].plan
                                           /\ (t # work.run => run'[t] = run[t])
    BY <1>4, WorkerUpdates
  <2>2. \/ UNCHANGED run
        \/ run[work.run].plan = None
        \/ \A t \in Run \ {work.run} :
             ~(run[t].plan = run[work.run].plan /\ run[t].status \in Pending)
    BY <1>4 DEF MarkRunning, Active, r0
  <2> QED BY <1>1, <2>1, <2>2, BackupsAssumption DEF ActiveOnce, Pending
<1>5. CASE CompleteBackup \/ FailRun
  <2>1. work.run \in Run /\ \A t \in Run : /\ run'[t].plan = run[t].plan
                                           /\ (t # work.run => run'[t] = run[t])
    BY <1>5, WorkerUpdates
  <2>2. \/ UNCHANGED run
        \/ \E s \in {"succeeded", "failed"} : UpdateBackupRun(work.run, s)
    BY <1>5 DEF CompleteBackup, FailRun, r0
  <2>3. UNCHANGED run \/ run'[work.run].status \notin Pending
    BY <1>0, <2>1, <2>2, RunUpdated DEF Pending
  <2> QED BY <1>1, <2>1, <2>3 DEF ActiveOnce
<1> QED BY <1>1, <1>2, <1>3, <1>4, <1>5, RunSteps

(* A run succeeds when its artifact is recorded, and then only. *)
LEMMA SucceedsOnce ==
  ASSUME TypesFit, Next, NEW r \in Run, run'[r].status = "succeeded"
  PROVE  \/ run[r].status = "succeeded"
         \/ /\ r = work.run /\ CompleteBackup /\ row[r] = 0
            /\ CreateBackupArtifact(r, work.sum)
<1>0. TypeOK
  BY DEF TypesFit
<1>1. CASE \E q \in Requester : DropPlan(q)
  BY <1>0, <1>1, RunOfNoPlan DEF DropPlan, TypesFit
<1>2. CASE \E q \in Requester : QueueRun(q)
  BY <1>0, <1>2, Queued, RunCreated
<1>3. CASE MarkRunning \/ FailRun
  <2>1. work.run \in Run
    BY <1>3, WorkerUpdates
  <2>2. \/ UNCHANGED run
        \/ \E s \in {"running", "failed"} : UpdateBackupRun(work.run, s)
    BY <1>3 DEF MarkRunning, FailRun, r0
  <2> QED BY <1>0, <2>1, <2>2, RunUpdated DEF Pending
<1>4. CASE CompleteBackup
  BY <1>4, WorkerUpdates DEF CompleteBackup, r0
<1> QED BY <1>1, <1>2, <1>3, <1>4, RunSteps

LEMMA WritingSteps ==
  ASSUME Next
  PROVE  \/ UNCHANGED <<writing, partial>>
         \/ OpenPartial \/ AgentDies \/ GiveUp \/ Crash
         \/ \E r \in Run : Install(r) \/ WriteFails(r)
BY DEF Next, Request, WorkerStep, AgentStep, Failure, CreatePlan, UpdatePlan,
     Begin, AskDrop, AskRun, DropPlan, QueueRun, AskUnlink, Unlink, UnlinkFails,
     Forget, ForgetFails, Removes, Claim, NoStep, MarkRunning, MarkFails,
     ReadPlan, CallFails, CompleteBackup, CompleteFails, FailRun,
     FailRunUnsaved, ListExpired, ListFails, PruneArchive, PruneArchiveFails,
     PruneRow, PruneRowFails, Pruned, Settle, SettleFails, Restart, Fault,
     Mishap, rows, agent, bounds, history

LEMMA WritesStep ==
  ASSUME TypesFit, WritesFit, WorkerFits, Next
  PROVE  WritesFit'
<1>0. /\ TypeOK /\ work \in Work /\ writing \in [Run -> {"no", "awaited", "orphan"}]
      /\ AtWork => work.run \in Run
  BY DEF TypesFit, TypeOK
<1>1. \/ UNCHANGED <<writing, partial>>
      \/ OpenPartial /\ Goto("calling") /\ AtWork
         /\ partial' = partial \cup {r0} /\ writing' = [writing EXCEPT ![r0] = "awaited"]
      \/ \E r \in Run : /\ Install(r) \/ WriteFails(r)
                        /\ partial' = partial \ {r} /\ writing' = [writing EXCEPT ![r] = "no"]
      \/ AgentDies /\ UNCHANGED partial
      \/ GiveUp /\ UNCHANGED partial
      \/ Crash /\ UNCHANGED partial
  BY WritingSteps DEF AtWork, OpenPartial, Install, WriteFails, AgentDies, GiveUp, Crash
<1>2. \A r \in Run : writing'[r] # "no" =>
        /\ writing[r] # "no" \/ (OpenPartial /\ UNCHANGED run /\ r = work.run /\ work.at = "call")
        /\ r \in partial'
  BY <1>0, <1>1 DEF WritesFit, AgentDies, GiveUp, Crash, OpenPartial, r0, rows
<1>3. ASSUME NEW r \in Run, writing'[r] # "no" PROVE run'[r].status # "succeeded"
  <2>1. run[r].status # "succeeded"
    BY <1>2, <1>3 DEF WritesFit, WorkerFits
  <2>2. ~(r = work.run /\ CompleteBackup)
    BY <1>2, <1>3 DEF WritesFit, CompleteBackup
  <2> QED BY <2>1, <2>2, SucceedsOnce
<1>4. ASSUME NEW r \in Run, writing'[r] = "awaited"
      PROVE  work'.at = "calling" /\ r = work'.run
  <2>1. CASE OpenPartial /\ Goto("calling") /\ r = work.run
    BY <1>0, <2>1, WorkerGoes DEF Points
  <2>2. CASE writing[r] = "awaited"
    <3>1. work.at = "calling" /\ r = work.run
      BY <2>2 DEF WritesFit
    <3>2. UNCHANGED work
      <4>1. ~AgentDies /\ ~GiveUp /\ ~Crash
        BY <1>0, <1>4, <3>1 DEF AgentDies, GiveUp, Crash, r0
      <4>2. ASSUME NEW t \in Run, Install(t) \/ WriteFails(t) PROVE UNCHANGED work
        <5>1. t # r
          BY <1>0, <1>4, <4>2 DEF Install, WriteFails
        <5>2. writing[t] # "awaited"
          BY <3>1, <5>1 DEF WritesFit
        <5> QED BY <4>2, <5>2 DEF Install, WriteFails, Answer
      <4> QED BY <3>1, <4>1, <4>2, CallingSteps
    <3> QED BY <3>1, <3>2
  <2> QED BY <1>0, <1>1, <1>4, <2>1, <2>2 DEF AgentDies, GiveUp, Crash, r0
<1>5. work'.at = "calling" => writing'[work'.run] = "awaited"
  <2>1. ASSUME work'.at = "calling", UNCHANGED work PROVE writing'[work'.run] = "awaited"
    <3>1. writing[work.run] = "awaited" /\ work.run \in Run
      BY <1>0, <2>1 DEF WritesFit, AtWork
    <3>2. ~OpenPartial /\ ~AgentDies /\ ~GiveUp /\ ~Crash
      BY <1>0, <2>1, WorkerGoes DEF OpenPartial, AgentDies, GiveUp, Crash, Free, Points
    <3>3. ~(Install(work.run) \/ WriteFails(work.run))
      BY <1>0, <2>1, <3>1, WorkerGoes DEF Install, WriteFails, Answer, Work, Points
    <3> QED BY <1>0, <1>1, <2>1, <3>1, <3>2, <3>3
  <2>2. ASSUME work'.at = "calling", OpenPartial PROVE writing'[work'.run] = "awaited"
    <3>1. work.run \in Run /\ work'.run = work.run
      BY <1>0, <2>2, WorkerGoes DEF OpenPartial, AtWork, Points
    <3>2. ~Goto("failing")
      BY <1>0, <2>2, WorkerGoes DEF Points
    <3> QED BY <1>0, <2>2, <3>1, <3>2 DEF OpenPartial, r0
  <2> QED BY <2>1, <2>2, Arrivals
<1>6. work'.at = "made" => writing'[work'.run] = "no"
  <2>1. ASSUME work'.at = "made", UNCHANGED work PROVE writing'[work'.run] = "no"
    <3>1. writing[work.run] = "no" /\ work.run \in Run /\ work.at # "call"
      BY <1>0, <2>1 DEF WritesFit, AtWork
    <3> QED BY <1>2, <1>0, <2>1, <3>1, AgentTypes
  <2>2. ASSUME NEW r \in Run, Install(r), writing[r] = "awaited", work'.at = "made"
        PROVE  writing'[work'.run] = "no"
    <3>1. work.run = r /\ work'.run = work.run /\ writing' = [writing EXCEPT ![r] = "no"]
      BY <1>0, <2>2 DEF WritesFit, Install, Work
    <3> QED BY <1>0, <3>1
  <2> QED BY <2>1, <2>2, Arrivals
<1> QED BY <1>2, <1>3, <1>4, <1>5, <1>6 DEF WritesFit

-------------------------------------------------------------------------------
(* What happens to rows and archives. *)

(* An artifact is recorded by CompleteBackup, once, and otherwise goes. *)
LEMMA RowsChange ==
  ASSUME TypesFit, Next, NEW s \in Run
  PROVE  \/ row'[s] = row[s]
         \/ /\ CompleteBackup /\ work.at = "made" /\ s = work.run
            /\ row[s] = 0 /\ row'[s] = work.sum
         \/ row'[s] = 0 /\ \E q \in Requester : Forget(q) /\ s = ask[q].run
         \/ row'[s] = 0 /\ PruneRow /\ s = x0.run
<1>0. TypeOK
  BY DEF TypesFit
<1>1. CASE CompleteBackup
  <2>1. \/ row' = row
        \/ row[work.run] = 0 /\ row' = [row EXCEPT ![work.run] = work.sum]
    BY <1>1 DEF CompleteBackup, CreateBackupArtifact, r0
  <2>2. row \in [Run -> Nat] /\ work.at = "made"
    BY <1>0, <1>1 DEF CompleteBackup, TypeOK
  <2> QED BY <1>1, <2>1, <2>2
<1>2. CASE \E q \in Requester : Forget(q)
  <2>1. PICK q \in Requester : Forget(q) /\ DeleteBackupArtifact(ask[q].run, ask[q].sum)
    BY <1>2 DEF Forget
  <2> QED BY <1>0, <2>1, RowDeleted
<1>3. CASE PruneRow
  BY <1>0, <1>3, RowDeleted DEF PruneRow
<1> QED BY <1>1, <1>2, <1>3, RowSteps

LEMMA RowsShrink ==
  ASSUME TypesFit, Next, NEW s \in Run, ~(CompleteBackup /\ s = work.run)
  PROVE  row'[s] \in {0, row[s]}
BY RowsChange

(* An archive changes when a user has it deleted, the Agent writes it or   *)
(* retention deletes it.                                                   *)
LEMMA ArchivesChange ==
  ASSUME TypesFit, Next, NEW s \in Run
  PROVE  \/ archive'[s] = archive[s]
         \/ archive'[s] = 0 /\ s \in removed' /\ s \in discarded'
         \/ Install(s)
         \/ /\ archive'[s] = 0 /\ s \in removed' /\ s = x0.run
            /\ work.at = "pruning" /\ work.expired # {}
<1>0. archive \in [Run -> Nat]
  BY DEF TypesFit, TypeOK
<1>1. ASSUME NEW r, Removes(r)
      PROVE  /\ s # r => archive'[s] = archive[s]
             /\ s = r => archive'[s] = 0 /\ s \in removed'
  BY <1>0, <1>1 DEF Removes
<1>2. ASSUME NEW r \in Run, Install(r), r # s PROVE archive'[s] = archive[s]
  BY <1>0, <1>2 DEF Install
<1> QED BY <1>1, <1>2, ArchiveSteps

(* What users have had deleted, and what was written again, is remembered. *)
LEMMA HistoryGrows ==
  ASSUME Next
  PROVE  /\ discarded \subseteq discarded' /\ redone \subseteq redone'
         /\ \A s \in removed : s \in removed' \/ (s \in Run /\ Install(s))
<1>1. ASSUME NEW r, Removes(r) PROVE redone' = redone /\ removed \subseteq removed'
  BY <1>1 DEF Removes
<1>2. ASSUME NEW r \in Run, Install(r)
      PROVE  discarded' = discarded /\ redone \subseteq redone' /\ removed' = removed \ {r}
  BY <1>2 DEF Install
<1>3. CASE UNCHANGED <<archive, removed, discarded, redone>>
  BY <1>3
<1>4. CASE \E q \in Requester : Removes(ask[q].run) /\ discarded' = discarded \cup {ask[q].run}
  BY <1>1, <1>4
<1>5. CASE \E r \in Run : Install(r)
  BY <1>2, <1>5
<1>6. CASE Removes(x0.run) /\ UNCHANGED discarded
  BY <1>1, <1>6
<1> QED BY <1>3, <1>4, <1>5, <1>6, ArchiveSteps

(* The worker keeps its run, and what it knows of it, while it prunes. *)
LEMMA Prunes ==
  ASSUME TypesFit, Next, ~CompleteBackup, work'.at \in {"listing", "pruning", "forgetting"}
  PROVE  /\ work.at \in {"listing", "pruning", "forgetting"}
         /\ work'.run = work.run /\ work'.sum = work.sum /\ work'.keep = work.keep
<1>0. work \in Work
  BY DEF TypesFit, TypeOK
<1>1. CASE ListExpired
  BY <1>0, <1>1 DEF ListExpired, Work
<1>2. CASE PruneRow
  BY <1>0, <1>2 DEF PruneRow, Work
<1>3. CASE PruneArchive
  BY <1>0, <1>3, WorkerGoes DEF PruneArchive, Points
<1> QED BY <1>1, <1>2, <1>3, Arrivals

LEMMA SumsStep ==
  ASSUME TypesFit, RowsFit, WorkerFits, WritesFit, SumsFit, ExpiredFit, Next
  PROVE  SumsFit'
<1>0. /\ row \in [Run -> Nat] /\ row' \in [Run -> Nat] /\ work.sum \in Nat /\ work \in Work
      /\ made \in Nat /\ \A r \in Run : row[r] <= made
      /\ AtWork => work.run \in Run
  BY RowTypes DEF TypesFit, TypeOK, Work
<1>1. ASSUME NEW r \in Run, NEW s \in Run, row'[r] = row'[s], row'[r] # 0 PROVE r = s
  <2>1. CASE ~CompleteBackup
    BY <1>1, <2>1, RowsChange DEF SumsFit
  <2>2. CASE CompleteBackup
    <3>1. /\ work.at = "made" /\ \A t \in Run : row[t] < work.sum
          /\ \A t \in Run : row'[t] = row[t] \/ (t = work.run /\ row'[t] = work.sum)
      BY <1>0, <2>2 DEF CompleteBackup, CreateBackupArtifact, SumsFit, r0
    <3>2. row[r] < work.sum /\ row[s] < work.sum /\ row[r] \in Nat /\ row[s] \in Nat
      BY <1>0, <3>1
    <3>3. row[r] = row[s] /\ row[r] # 0 => r = s
      BY DEF SumsFit
    <3> QED BY <1>0, <1>1, <3>1, <3>2, <3>3
  <2> QED BY <2>1, <2>2
<1>2. ASSUME work'.at = "made"
      PROVE  /\ \A s \in Run : row'[s] < work'.sum
             /\ \/ archive'[work'.run] = work'.sum
                \/ archive'[work'.run] = 0 /\ work'.run \in removed' \cap discarded'
  <2>1. CASE UNCHANGED work
    <3>1. work.at = "made" /\ work.run \in Run /\ work' = work
      BY <1>0, <1>2, <2>1 DEF AtWork
    <3>2. ~CompleteBackup
      BY <1>0, <1>2, <2>1, WorkerGoes DEF CompleteBackup, Points
    <3>3. \A s \in Run : row'[s] < work.sum
      BY <1>0, <3>1, <3>2, RowsShrink DEF SumsFit
    <3>4. ~Install(work.run)
      BY <3>1 DEF WritesFit, Install
    <3>5. \/ archive'[work.run] = archive[work.run]
          \/ archive'[work.run] = 0 /\ work.run \in removed' \cap discarded'
      BY <3>1, <3>4, ArchivesChange
    <3>6. work.run \in removed \cap discarded => work.run \in removed' \cap discarded'
      BY <3>4, HistoryGrows
    <3> QED BY <3>1, <3>3, <3>5, <3>6 DEF SumsFit
  <2>2. ASSUME NEW r \in Run, Install(r), writing[r] = "awaited"
        PROVE  /\ \A s \in Run : row'[s] < work'.sum
               /\ archive'[work'.run] = work'.sum
    <3>1. /\ r = work.run /\ work'.run = work.run /\ work'.sum = made + 1
          /\ row' = row /\ archive' = [archive EXCEPT ![r] = made + 1]
      BY <1>0, <2>2 DEF WritesFit, Install, Work, rows
    <3> QED BY <1>0, <3>1 DEF TypesFit, TypeOK
  <2> QED BY <1>2, <2>1, <2>2, Arrivals
<1>3. ASSUME work'.at \in {"listing", "pruning", "forgetting"}
      PROVE  /\ \A s \in Run : row'[s] <= work'.sum /\ (row'[s] = work'.sum => s = work'.run)
             /\ work'.sum # 0 /\ row'[work'.run] \in {0, work'.sum}
             /\ \/ row'[work'.run] = work'.sum /\ archive'[work'.run] = work'.sum
                \/ work'.run \in discarded' \cup redone'
  <2>1. CASE CompleteBackup
    <3>1. work.at = "made" /\ work.run \in Run /\ archive' = archive /\ discarded' = discarded
      BY <1>0, <2>1 DEF CompleteBackup, AtWork, agent, history
    <3>2. \/ Goto("failing")
          \/ Goto("listing") /\ row' = [row EXCEPT ![work.run] = work.sum]
      BY <2>1 DEF CompleteBackup, CreateBackupArtifact, r0
    <3>3. /\ row' = [row EXCEPT ![work.run] = work.sum]
          /\ work'.run = work.run /\ work'.sum = work.sum
      BY <1>0, <1>3, <3>2, WorkerGoes DEF Points
    <3>4. /\ \A s \in Run : row[s] < work.sum
          /\ \/ archive[work.run] = work.sum
             \/ work.run \in discarded
      BY <3>1 DEF SumsFit
    <3>5. \A s \in Run : row'[s] <= work.sum /\ (row'[s] = work.sum => s = work.run)
      BY <1>0, <3>3, <3>4
    <3>6. row'[work.run] = work.sum /\ work.sum # 0
      BY <1>0, <3>1, <3>3, <3>4
    <3> QED BY <3>1, <3>3, <3>4, <3>5, <3>6
  <2>2. CASE ~CompleteBackup
    <3>1. /\ work.at \in {"listing", "pruning", "forgetting"} /\ work.run \in Run
          /\ work'.run = work.run /\ work'.sum = work.sum
      BY <1>0, <1>3, <2>2, Prunes DEF AtWork
    <3>2. \A s \in Run : row'[s] \in {0, row[s]}
      BY <2>2, RowsShrink
    <3>3. /\ \A s \in Run : row[s] <= work.sum /\ (row[s] = work.sum => s = work.run)
          /\ work.sum # 0 /\ row[work.run] \in {0, work.sum}
          /\ \/ row[work.run] = work.sum /\ archive[work.run] = work.sum
             \/ work.run \in discarded \cup redone
      BY <3>1 DEF SumsFit
    <3>4. \A s \in Run : row'[s] <= work.sum /\ (row'[s] = work.sum => s = work.run)
      BY <1>0, <3>2, <3>3
    <3>5. x0.run = work.run => ~(work.at \in {"pruning", "forgetting"} /\ work.expired # {})
      BY NewestExpired DEF ExpiredFit
    <3>6. row'[work.run] = row[work.run] \/ work.run \in discarded'
      <4>1. PruneRow => x0.run # work.run
        BY <3>5 DEF PruneRow, TypesFit
      <4>2. \A q \in Requester : Forget(q) /\ ask[q].run = work.run => work.run \in discarded
        BY DEF SumsFit, Forget
      <4> QED BY <2>2, <3>1, <4>1, <4>2, RowsChange, HistoryGrows
    <3>7. archive'[work.run] = archive[work.run] \/ work.run \in discarded'
      <4>1. ~Install(work.run)
        BY <3>1 DEF WritesFit, WorkerFits, Install
      <4> QED BY <3>1, <3>5, <4>1, ArchivesChange
    <3> QED BY <3>1, <3>2, <3>3, <3>4, <3>6, <3>7, HistoryGrows
  <2> QED BY <2>1, <2>2
<1>4. ASSUME NEW q \in Requester, ask'[q].op = "forget" PROVE ask'[q].run \in discarded'
  <2>1. ask'[q] = ask[q] \/ ask'[q].op # "forget" \/ Unlink(q)
    <3> DEFINE Told == ask'[q] = ask[q] \/ ask'[q].op # "forget" \/ Unlink(q)
    <3>1. ask \in [Requester -> Ask]
      BY DEF TypesFit, TypeOK
    <3>2. ASSUME NEW t \in Requester, NEW a, ask' = [ask EXCEPT ![t] = a]
          PROVE  ask'[q] = IF t = q THEN a ELSE ask[q]
      BY <3>1, <3>2
    <3>3. /\ NoAsk.op = "none"
          /\ \A p \in Plan, op \in {"run", "drop"} :
               [NoAsk EXCEPT !.op = op, !.plan = p].op = op
          /\ \A r \in Run :
               [NoAsk EXCEPT !.op = "unlink", !.run = r, !.sum = row[r]].op = "unlink"
      BY DEF NoAsk
    <3>4. Crash => ask'[q] = NoAsk
      BY DEF Crash
    <3>5. ASSUME NEW t \in Requester, ask' = [ask EXCEPT ![t] = NoAsk]
          PROVE  Told
      BY <3>2, <3>3, <3>5
    <3>6. ASSUME NEW t \in Requester, NEW p \in Plan, NEW op \in {"run", "drop"},
                 ask' = [ask EXCEPT ![t] = [NoAsk EXCEPT !.op = op, !.plan = p]]
          PROVE  Told
      BY <3>2, <3>3, <3>6
    <3>7. ASSUME NEW t \in Requester, NEW r \in Run,
                 ask' = [ask EXCEPT ![t] = [NoAsk EXCEPT !.op = "unlink", !.run = r,
                                                         !.sum = row[r]]]
          PROVE  Told
      BY <3>2, <3>3, <3>7
    <3>8. ASSUME NEW t \in Requester, Unlink(t),
                 ask' = [ask EXCEPT ![t] = [ask[t] EXCEPT !.op = "forget"]]
          PROVE  Told
      BY <3>2, <3>8
    <3>9. (UNCHANGED ask \/ Crash) => Told
      BY <3>3, <3>4
    <3> HIDE DEF Told
    <3>10. Told
      BY <3>5, <3>6, <3>7, <3>8, <3>9, AskSteps
    <3> QED BY <3>10 DEF Told
  <2>2. CASE Unlink(q)
    BY <2>2 DEF Unlink, TypesFit, TypeOK, Ask
  <2> QED BY <1>4, <2>1, <2>2, HistoryGrows DEF SumsFit
<1> QED BY <1>1, <1>2, <1>3, <1>4 DEF SumsFit

-------------------------------------------------------------------------------
(* Retention. *)

(* The artifacts of a plan are finitely many. *)
LEMMA ArtifactsFinite ==
  ASSUME NEW p, NEW S \in SUBSET Artifacts(p)
  PROVE  IsFiniteSet(S) /\ Cardinality(S) \in Nat
<1>1. IsFiniteSet(Run)
  BY FS_Interval, BoundsAreNumbers DEF Run
<1>2. S \in SUBSET Run
  BY DEF Artifacts
<1> QED BY <1>1, <1>2, FS_Subset, FS_CardinalityType

(* No artifact is newer than the newest one. *)
LEMMA NoneNewer ==
  ASSUME TypeOK, NEW p, NEW r \in Run, \A s \in Artifacts(p) : row[s] <= row[r]
  PROVE  Newer(p, r) = 0
<1>1. {s \in Artifacts(p) : row[s] > row[r]} = {}
  <2>1. \A s \in Artifacts(p) : row[s] \in Nat /\ row[r] \in Nat
    BY DEF TypeOK, Artifacts
  <2> QED BY <2>1
<1> QED BY <1>1, FS_EmptySet DEF Newer

(* Of artifacts made at different times fewer than n are newer than all    *)
(* but n at most.                                                          *)
LEMMA NewestAreFew ==
  ASSUME TypeOK, NEW p, NEW n \in Nat,
         \A r, s \in Run : row[r] = row[s] /\ row[r] # 0 => r = s
  PROVE  Cardinality({r \in Artifacts(p) : Newer(p, r) < n}) <= n
<1> DEFINE few == {r \in Artifacts(p) : Newer(p, r) < n}
<1>1. few \in SUBSET Artifacts(p) /\ \A r \in few : Newer(p, r) < n
  OBVIOUS
<1>2. IsFiniteSet(few) /\ Cardinality(few) \in Nat
  BY <1>1, ArtifactsFinite
<1> HIDE DEF few
<1>3. ASSUME few = {} PROVE Cardinality(few) <= n
  BY <1>3, FS_EmptySet
<1>4. ASSUME few # {} PROVE Cardinality(few) <= n
  <2> DEFINE sums == {row[r] : r \in few}
  <2>1. sums \in SUBSET Nat /\ sums # {}
    BY <1>1, <1>4 DEF TypeOK, Artifacts
  <2>2. PICK k \in sums : \A l \in sums : k <= l
    <3> HIDE DEF sums
    <3> QED BY <2>1, HasLeast
  <2>3. PICK m \in few : row[m] = k
    OBVIOUS
  <2>4. \A r \in few : row[m] <= row[r]
    BY <2>2, <2>3
  <2> DEFINE newer == {s \in Artifacts(p) : row[s] > row[m]}
  <2>5. few \ {m} \subseteq newer
    <3> SUFFICES ASSUME NEW r \in few, r # m PROVE row[r] > row[m] /\ r \in Artifacts(p)
      OBVIOUS
    <3>1. /\ r \in Artifacts(p) /\ r \in Run /\ m \in Run /\ row[r] # 0
          /\ row[r] \in Nat /\ row[m] \in Nat
      BY <1>1 DEF Artifacts, TypeOK
    <3>2. row[r] # row[m]
      BY <3>1
    <3> QED BY <2>4, <3>1, <3>2
  <2>6. newer \in SUBSET Artifacts(p)
    OBVIOUS
  <2>7. Cardinality(newer) < n /\ Cardinality(newer) \in Nat /\ IsFiniteSet(newer)
    <3>1. Cardinality(newer) < n
      BY <1>1 DEF Newer
    <3> HIDE DEF newer
    <3> QED BY <2>6, <3>1, ArtifactsFinite
  <2> HIDE DEF newer
  <2>8. Cardinality(few \ {m}) = Cardinality(few) - 1
    BY <1>2, FS_RemoveElement
  <2>9. Cardinality(few \ {m}) <= Cardinality(newer)
    BY <2>5, <2>7, FS_Subset
  <2> QED BY <1>2, <2>7, <2>8, <2>9
<1>5. Cardinality(few) <= n
  BY <1>3, <1>4
<1> QED BY <1>5 DEF few

(* Artifacts of a plan only go, but for the one the worker records. *)
LEMMA ArtifactsShrink ==
  ASSUME TypesFit, RowsFit, Next, NEW p \in Plan, NEW r \in Run,
         run'[r].plan = p, row'[r] # 0, ~(CompleteBackup /\ r = work.run)
  PROVE  run[r].plan = p /\ row'[r] = row[r]
<1>1. row'[r] = row[r]
  BY RowsShrink
<1>2. run[r].status # "none"
  BY <1>1 DEF RowsFit
<1> QED BY <1>1, <1>2, RunsStay, BackupsAssumption

(* When a plan loses a run it loses all of them. *)
LEMMA PlanLost ==
  ASSUME TypesFit, RowsFit, Next, NEW p \in Plan, NEW r \in Run,
         run[r].plan = p, run'[r].plan # p
  PROVE  \A s \in Run : run'[s].plan # p
<1>0. TypeOK
  BY DEF TypesFit
<1>1. ASSUME NEW q \in Requester, DropPlan(q) PROVE \A s \in Run : run'[s].plan # p
  BY <1>0, <1>1, RunOfNoPlan, BackupsAssumption DEF DropPlan, TypesFit
<1>2. run[r].status # "none"
  BY BackupsAssumption DEF RowsFit
<1>3. ASSUME NEW q \in Requester, QueueRun(q) PROVE FALSE
  BY <1>0, <1>2, <1>3, Queued, RunCreated
<1>4. CASE MarkRunning \/ CompleteBackup \/ FailRun
  BY <1>4, WorkerUpdates
<1> QED BY <1>1, <1>3, <1>4, RunSteps

(* Runs of one plan stay together. *)
LEMMA PlanShared ==
  ASSUME TypesFit, RowsFit, Next, NEW r \in Run, NEW s \in Run,
         run[r].plan = run[s].plan, run[r].status # "none", run[s].status # "none"
  PROVE  run'[r].plan = run'[s].plan
<1>1. run'[r].plan \in {run[r].plan, None} /\ run'[s].plan \in {run[s].plan, None}
  BY RunsStay
<1>2. run[r].plan \in Plan \cup {None}
  BY DEF TypesFit, TypeOK, RunRow
<1>3. CASE run[r].plan = None
  BY <1>1, <1>3
<1>4. CASE run[r].plan \in Plan
  BY <1>1, <1>4, PlanLost, BackupsAssumption
<1> QED BY <1>2, <1>3, <1>4

LEMMA ExpiredStep ==
  ASSUME TypesFit, RowsFit, WorkerFits, SumsFit, ExpiredFit, Next
  PROVE  ExpiredFit'
<1>0. TypeOK /\ work \in Work /\ (AtWork => work.run \in Run)
  BY DEF TypesFit, TypeOK
<1> SUFFICES ASSUME work'.at \in {"pruning", "forgetting"}, NEW x \in work'.expired
             PROVE  /\ x.run # work'.run
                    /\ run'[x.run].plan = run'[work'.run].plan
                    /\ run'[x.run].status # "none"
                    /\ row'[x.run] \in {0, x.sum}
  BY DEF ExpiredFit
<1>1. ~CompleteBackup
  BY <1>0, WorkerGoes DEF CompleteBackup, Points
<1>2. /\ work.at \in {"listing", "pruning", "forgetting"} /\ work'.run = work.run
      /\ work.run \in Run /\ run[work.run].status # "none"
  BY <1>0, <1>1, Prunes DEF AtWork, WorkerFits
<1>3. CASE ListExpired
  <2>1. /\ work.at = "listing" /\ run' = run /\ row' = row /\ work.keep >= 1
        /\ run[work.run].plan # None /\ x \in Expired(run[work.run].plan, work.keep)
    <3>1. work.at = "listing" /\ run' = run /\ row' = row
      BY <1>3 DEF ListExpired, rows
    <3>2. work'.expired = IF run[work.run].plan = None THEN {}
                          ELSE Expired(run[work.run].plan, work.keep)
      BY <1>0, <1>3 DEF ListExpired, Work, r0
    <3> QED BY <3>1, <3>2 DEF WorkerFits
  <2>2. /\ x.run \in Artifacts(run[work.run].plan) /\ x.sum = row[x.run]
        /\ Newer(run[work.run].plan, x.run) >= work.keep
    BY <1>0, <2>1, ExpiredRows
  <2>3. x.run # work.run
    <3>1. SUFFICES ASSUME x.run = work.run PROVE FALSE
      OBVIOUS
    <3>2. row[work.run] = work.sum /\ \A s \in Run : row[s] <= work.sum
      BY <2>1, <2>2, <3>1 DEF SumsFit, Artifacts
    <3>3. Newer(run[work.run].plan, work.run) = 0
      BY <1>0, <1>2, <3>2, NoneNewer DEF Artifacts
    <3>4. work.keep \in Nat
      BY <1>0, BoundsAreNumbers DEF Work
    <3> QED BY <2>1, <2>2, <3>1, <3>3, <3>4
  <2> QED BY <1>2, <2>1, <2>2, <2>3 DEF Artifacts, RowsFit
<1>4. CASE ~ListExpired
  <2>1. work.at \in {"pruning", "forgetting"} /\ x \in work.expired
    <3>1. PruneRow => work.at = "forgetting" /\ work'.expired = work.expired \ {x0}
      BY <1>0 DEF PruneRow, Work
    <3>2. PruneArchive => work.at = "pruning" /\ work'.expired = work.expired
      BY <1>0, WorkerGoes DEF PruneArchive, Points
    <3> QED BY <1>4, <3>1, <3>2, Arrivals
  <2>2. /\ x.run \in Run /\ x.run # work.run /\ run[x.run].plan = run[work.run].plan
        /\ run[x.run].status # "none" /\ row[x.run] \in {0, x.sum}
    BY <1>0, <2>1 DEF ExpiredFit, Work, Artifact
  <2>3. run'[x.run].plan = run'[work.run].plan
    BY <1>2, <2>2, PlanShared
  <2>4. run'[x.run].status # "none"
    BY <2>2, RunsStay
  <2>5. row'[x.run] \in {0, row[x.run]}
    BY <2>2, RowsShrink
  <2> QED BY <1>2, <2>2, <2>3, <2>4, <2>5
<1> QED BY <1>3, <1>4

LEMMA NewestStep ==
  ASSUME TypesFit, RowsFit, WorkerFits, SumsFit, ExpiredFit, NewestIsUsable, Next
  PROVE  NewestIsUsable'
<1>0. TypeOK /\ (AtWork => work.run \in Run) /\ row \in [Run -> Nat] /\ row' \in [Run -> Nat]
  BY RowTypes DEF TypesFit, TypeOK
<1> SUFFICES ASSUME NEW p \in Plan,
                    \A r \in discarded' \cup redone' : run'[r].plan # p,
                    NEW a \in Run, run'[a].plan = p, row'[a] # 0
             PROVE  \E w \in Run :
                      /\ run'[w].plan = p /\ row'[w] # 0 /\ archive'[w] = row'[w]
                      /\ \A s \in Run : run'[s].plan = p /\ row'[s] # 0 => row'[s] <= row'[w]
  BY DEF NewestIsUsable, Clean, Artifacts
<1>1. CASE CompleteBackup /\ run[work.run].plan = p /\ row'[work.run] # row[work.run]
  <2>1. /\ work.run \in Run /\ work.at = "made" /\ archive' = archive /\ discarded' = discarded
        /\ run'[work.run].plan = p
        /\ row' = [row EXCEPT ![work.run] = work.sum]
    <3>1. /\ AtWork /\ work.at = "made" /\ archive' = archive /\ discarded' = discarded
          /\ UNCHANGED row \/ row' = [row EXCEPT ![work.run] = work.sum]
      BY <1>1 DEF CompleteBackup, CreateBackupArtifact, AtWork, agent, history, r0
    <3> QED BY <1>0, <1>1, <3>1, WorkerUpdates
  <2>2. \A s \in Run : row[s] < work.sum
    BY <2>1 DEF SumsFit
  <2>3. work.run \notin discarded
    BY <2>1
  <2>4. archive[work.run] = work.sum
    BY <2>1, <2>3 DEF SumsFit
  <2>5. row'[work.run] = work.sum /\ \A s \in Run : row'[s] <= work.sum
    BY <1>0, <2>1, <2>2
  <2>6. row'[work.run] # 0
    BY <1>0, <2>1, <2>2, <2>5
  <2> QED BY <2>1, <2>4, <2>5, <2>6
<1>2. CASE ~(CompleteBackup /\ run[work.run].plan = p /\ row'[work.run] # row[work.run])
  <2>1. \A s \in Run : run'[s].plan = p /\ row'[s] # 0 => run[s].plan = p /\ row'[s] = row[s]
    <3> SUFFICES ASSUME NEW s \in Run, run'[s].plan = p, row'[s] # 0
                 PROVE  run[s].plan = p /\ row'[s] = row[s]
      OBVIOUS
    <3>1. CASE ~(CompleteBackup /\ s = work.run)
      BY <3>1, ArtifactsShrink
    <3>2. CASE CompleteBackup /\ s = work.run
      BY <1>2, <3>2, WorkerUpdates
    <3> QED BY <3>1, <3>2
  <2>2. \A s \in Run : run[s].plan = p => run'[s].plan = p
    BY PlanLost
  <2>3. Clean(p)
    BY <1>0, <2>2, HistoryGrows DEF Clean, TypeOK
  <2>4. a \in Artifacts(p)
    BY <2>1 DEF Artifacts
  <2>5. PICK w \in Artifacts(p) : /\ archive[w] = row[w]
                                  /\ \A s \in Artifacts(p) : row[s] <= row[w]
    BY <2>3, <2>4 DEF NewestIsUsable
  <2>6. w \in Run /\ run[w].plan = p /\ row[w] # 0 /\ run'[w].plan = p
    BY <2>2, <2>5 DEF Artifacts
  <2>7. w \notin discarded' /\ w \notin redone' /\ w \notin discarded
    BY <2>6, HistoryGrows
  <2>8. ~(work.at \in {"pruning", "forgetting"} /\ work.expired # {} /\ x0.run = w)
    <3>1. SUFFICES ASSUME work.at \in {"pruning", "forgetting"}, work.expired # {}, x0.run = w
                   PROVE  FALSE
      OBVIOUS
    <3>2. w # work.run /\ run[work.run].plan = p /\ work.run \in Run
      BY <1>0, <2>6, <3>1, NewestExpired DEF ExpiredFit, AtWork
    <3>3. work.run \notin discarded \cup redone
      BY <2>3, <3>2 DEF Clean
    <3>4. /\ row[work.run] = work.sum /\ work.sum # 0
          /\ \A s \in Run : row[s] <= work.sum /\ (row[s] = work.sum => s = work.run)
      BY <3>1, <3>3 DEF SumsFit
    <3>5. row[work.run] <= row[w]
      BY <2>5, <3>2, <3>4 DEF Artifacts
    <3> QED BY <1>0, <2>6, <3>2, <3>4, <3>5
  <2>9. row'[w] = row[w]
    <3>1. ASSUME NEW q \in Requester, Forget(q), w = ask[q].run PROVE FALSE
      BY <2>7, <3>1 DEF Forget, SumsFit
    <3>2. ~(PruneRow /\ w = x0.run)
      BY <2>8 DEF PruneRow, TypesFit
    <3> QED BY <1>2, <2>6, <3>1, <3>2, RowsChange
  <2>10. archive'[w] = archive[w]
    <3>1. ~Install(w)
      BY <2>6, <2>7 DEF Install
    <3> QED BY <2>6, <2>7, <2>8, <3>1, ArchivesChange
  <2> QED BY <2>1, <2>5, <2>6, <2>9, <2>10 DEF Artifacts
<1> QED BY <1>1, <1>2

(* The retention is carried on from step to step. *)
LEMMA KeptStep ==
  ASSUME TypesFit, RowsFit, WorkerFits, SumsFit, ExpiredFit, AtWork => KeepFits, Next,
         work'.at \in {"pruning", "forgetting"},
         NEW p \in Plan, p = run'[work'.run].plan
  PROVE  Cardinality(Kept(p)') <= work'.keep
<1>0. /\ TypeOK /\ work \in Work /\ (AtWork => work.run \in Run) /\ work.keep \in Nat
      /\ row \in [Run -> Nat] /\ row' \in [Run -> Nat]
  BY BoundsAreNumbers, RowTypes DEF TypesFit, TypeOK, Work
<1>1. ~CompleteBackup
  BY <1>0, WorkerGoes DEF CompleteBackup, Points
<1>2. /\ work.at \in {"listing", "pruning", "forgetting"} /\ work.run \in Run
      /\ work'.run = work.run /\ work'.keep = work.keep /\ run[work.run].status # "none"
  BY <1>0, <1>1, Prunes DEF AtWork, WorkerFits
<1>3. run[work.run].plan = p
  BY <1>2, RunsStay, BackupsAssumption
<1>4. \A r \in Run : run'[r].plan = p /\ row'[r] # 0 => run[r].plan = p /\ row'[r] = row[r]
  BY <1>1, ArtifactsShrink
<1>5. CASE ListExpired
  <2>1. /\ work.at = "listing" /\ run' = run /\ row' = row
        /\ work'.expired = Expired(p, work.keep)
    <3>1. work.at = "listing" /\ run' = run /\ row' = row
      BY <1>5 DEF ListExpired, rows
    <3>2. work'.expired = IF run[work.run].plan = None THEN {}
                          ELSE Expired(run[work.run].plan, work.keep)
      BY <1>0, <1>5 DEF ListExpired, Work, r0
    <3> QED BY <1>3, <3>1, <3>2, BackupsAssumption
  <2>2. Kept(p)' = {r \in Artifacts(p) : Newer(p, r) < work.keep}
    <3>1. Kept(p)' = {r \in Artifacts(p) : \A x \in Expired(p, work.keep) : x.run # r}
      BY <2>1 DEF Kept, Artifacts
    <3>2. \A r \in Artifacts(p) :
            (\A x \in Expired(p, work.keep) : x.run # r) <=> Newer(p, r) < work.keep
      <4> SUFFICES ASSUME NEW r \in Artifacts(p)
                   PROVE  (\A x \in Expired(p, work.keep) : x.run # r)
                            <=> Newer(p, r) < work.keep
        OBVIOUS
      <4>1. Newer(p, r) \in Nat
        BY ArtifactsFinite DEF Newer
      <4>2. ASSUME Newer(p, r) >= work.keep PROVE \E x \in Expired(p, work.keep) : x.run = r
        <5>1. [run |-> r, sum |-> row[r]] \in Expired(p, work.keep)
          BY <4>2 DEF Expired, Rows
        <5>2. [run |-> r, sum |-> row[r]].run = r
          OBVIOUS
        <5> QED BY <5>1, <5>2
      <4>3. \A x \in Expired(p, work.keep) : Newer(p, x.run) >= work.keep
        BY <1>0, ExpiredRows
      <4> QED BY <1>0, <4>1, <4>2, <4>3
    <3> QED BY <3>1, <3>2
  <2>3. Cardinality({r \in Artifacts(p) : Newer(p, r) < work.keep}) <= work.keep
    BY <1>0, NewestAreFew DEF SumsFit
  <2> QED BY <1>2, <2>2, <2>3
<1>6. CASE ~ListExpired
  <2>1. /\ work.at \in {"pruning", "forgetting"}
        /\ \/ work'.expired = work.expired
           \/ PruneRow /\ work'.expired = work.expired \ {x0}
    <3>1. PruneRow => work.at = "forgetting" /\ work'.expired = work.expired \ {x0}
      BY <1>0 DEF PruneRow, Work
    <3>2. PruneArchive => work.at = "pruning" /\ work'.expired = work.expired
      BY <1>0, WorkerGoes DEF PruneArchive, Points
    <3> QED BY <1>6, <3>1, <3>2, Arrivals
  <2>2. Cardinality(Kept(p)) <= work.keep
    BY <1>3, <2>1, BackupsAssumption DEF KeepFits, AtWork
  <2>3. Kept(p)' \subseteq Kept(p)
    <3> SUFFICES ASSUME NEW s \in Run, run'[s].plan = p, row'[s] # 0,
                        \A x \in work'.expired : x.run # s,
                        NEW x \in work.expired, x.run = s
                 PROVE  FALSE
      BY <1>4 DEF Kept, Artifacts
    <3>1. PruneRow /\ x = x0
      BY <2>1
    <3>2. row[s] \in {0, x.sum} /\ row'[s] \in {0, row[s]}
      BY <1>1, <2>1, RowsShrink DEF ExpiredFit
    <3>3. row[s] = x.sum
      BY <3>2
    <3>4. DeleteBackupArtifact(s, x.sum)
      BY <3>1 DEF PruneRow
    <3> QED BY <1>0, <3>3, <3>4, RowDeleted
  <2>4. IsFiniteSet(Kept(p)) /\ Cardinality(Kept(p)) \in Nat
    BY ArtifactsFinite DEF Kept
  <2>5. Cardinality(Kept(p)') \in Nat /\ Cardinality(Kept(p)') <= Cardinality(Kept(p))
    BY <2>3, <2>4, FS_Subset, FS_CardinalityType
  <2> QED BY <1>0, <1>2, <2>2, <2>4, <2>5
<1> QED BY <1>5, <1>6

LEMMA EndedStep ==
  ASSUME TypesFit, RowsFit, WorkerFits, AtWork => KeepFits, Next,
         work'.at = "ended", work'.ok,
         NEW p \in Plan, p = run'[work'.run].plan
  PROVE  Cardinality(Artifacts(p)') <= work'.keep
<1>0. TypeOK /\ work \in Work /\ (AtWork => work.run \in Run) /\ work.keep \in Nat
  BY BoundsAreNumbers DEF TypesFit, TypeOK, Work
<1>1. Pruned \/ UNCHANGED work
  BY <1>0, WorkerEnds, Arrivals
<1>2. /\ work'.run = work.run /\ work'.keep = work.keep
      /\ \/ work.at = "pruning" /\ work.expired = {}
         \/ work.at = "ended" /\ work.ok
  BY <1>0, <1>1, WorkerEnds DEF Pruned
<1>3. work.run \in Run /\ run[work.run].status # "none" /\ ~CompleteBackup
  BY <1>0, <1>2 DEF AtWork, WorkerFits, RowsFit, CompleteBackup
<1>4. run[work.run].plan = p
  BY <1>2, <1>3, RunsStay, BackupsAssumption
<1>5. Cardinality(Artifacts(p)) <= work.keep
  <2>1. work.expired = {} => Kept(p) = Artifacts(p)
    BY DEF Kept
  <2> QED BY <1>2, <1>4, <2>1, BackupsAssumption DEF KeepFits, AtWork
<1>6. Artifacts(p)' \subseteq Artifacts(p)
  BY <1>3, ArtifactsShrink DEF Artifacts
<1>7. IsFiniteSet(Artifacts(p)) /\ Cardinality(Artifacts(p)) \in Nat
  BY ArtifactsFinite
<1>8. Cardinality(Artifacts(p)') \in Nat /\ Cardinality(Artifacts(p)') <= Cardinality(Artifacts(p))
  BY <1>6, <1>7, FS_Subset, FS_CardinalityType
<1> QED BY <1>0, <1>2, <1>5, <1>7, <1>8

LEMMA KeepStep ==
  ASSUME TypesFit, RowsFit, WorkerFits, WritesFit, SumsFit, ExpiredFit,
         AtWork => KeepFits, Next
  PROVE  (AtWork => KeepFits)'
<1> SUFFICES ASSUME AtWork', run'[work'.run].plan # None
             PROVE  /\ work'.at \in {"pruning", "forgetting"} =>
                         Cardinality(Kept(run[work.run].plan)') <= work'.keep
                    /\ work'.at = "ended" /\ work'.ok =>
                         Cardinality(Artifacts(run[work.run].plan)') <= work'.keep
  BY DEF KeepFits
<1>1. work'.run \in Run /\ run' \in [Run -> RunRow]
  BY TypesStep DEF TypesFit, TypeOK
<1>2. PICK p \in Plan : p = run'[work'.run].plan
  BY <1>1 DEF RunRow
<1>3. work'.at \in {"pruning", "forgetting"} => Cardinality(Kept(p)') <= work'.keep
  BY <1>2, KeptStep
<1>4. work'.at = "ended" /\ work'.ok => Cardinality(Artifacts(p)') <= work'.keep
  BY <1>2, EndedStep
<1> QED BY <1>2, <1>3, <1>4 DEF Kept, Artifacts

-------------------------------------------------------------------------------
(* What runs and jobs say. *)

LEMMA UsableStep ==
  ASSUME TypesFit, WritesFit, SumsFit, SucceededIsUsable, Next
  PROVE  SucceededIsUsable'
<1> SUFFICES ASSUME NEW r \in Run, run'[r].status = "succeeded", row'[r] # 0
             PROVE  \/ archive'[r] = row'[r]
                    \/ archive'[r] = 0 /\ r \in removed'
  BY DEF SucceededIsUsable, Usable
<1>1. CASE /\ r = work.run /\ CompleteBackup /\ row[r] = 0
           /\ CreateBackupArtifact(r, work.sum)
  <2>1. /\ work.at = "made" /\ archive' = archive /\ removed' = removed
        /\ row'[r] = work.sum
    BY <1>1 DEF CompleteBackup, CreateBackupArtifact, agent, history, TypesFit, TypeOK
  <2> QED BY <1>1, <2>1 DEF SumsFit
<1>2. CASE run[r].status = "succeeded"
  <2>1. ~Install(r)
    BY <1>2 DEF WritesFit, Install
  <2>2. CASE row'[r] = row[r]
    <3>1. archive[r] = row[r] \/ (archive[r] = 0 /\ r \in removed)
      BY <1>2, <2>2 DEF SucceededIsUsable, Usable
    <3> QED BY <2>1, <2>2, <3>1, ArchivesChange, HistoryGrows
  <2>3. CASE CompleteBackup /\ work.at = "made" /\ r = work.run /\ row'[r] = work.sum
    <3>1. archive' = archive /\ removed' = removed
      BY <2>3 DEF CompleteBackup, agent, history
    <3> QED BY <2>3, <3>1 DEF SumsFit
  <2> QED BY <2>2, <2>3, RowsChange
<1> QED BY <1>1, <1>2, SucceedsOnce

LEMMA NoStuckStep ==
  ASSUME TypesFit, RowsFit, WorkerFits, NoStuckRun, Next
  PROVE  NoStuckRun'
<1>0. TypeOK /\ lost \subseteq lost'
  BY DEF TypesFit, Next, Request, WorkerStep, AgentStep, Failure, CreatePlan, UpdatePlan,
     Begin, AskDrop, AskRun, DropPlan, QueueRun, AskUnlink, Unlink, UnlinkFails,
     Forget, ForgetFails, Removes, Claim, NoStep, MarkRunning, MarkFails, ReadPlan,
     OpenPartial, CallFails, Install, WriteFails, AgentDies, GiveUp, CompleteBackup,
     CompleteFails, FailRun, FailRunUnsaved, ListExpired, ListFails, PruneArchive,
     PruneArchiveFails, PruneRow, PruneRowFails, Pruned, Settle, SettleFails, Crash,
     Restart, Fault, Mishap, rows, agent, bounds, history
<1> SUFFICES ASSUME NEW r \in Run, run'[r].status \in Pending
             PROVE  job'[r] \in Pending \/ r \in lost'
  BY DEF NoStuckRun
<1>1. CASE run[r].status = "none"
  <2>1. CASE \E q \in Requester : QueueRun(q)
    BY <1>0, <1>1, <2>1, Queued, RunCreated DEF Pending
  <2>2. CASE \E q \in Requester : DropPlan(q)
    BY <1>0, <1>1, <2>2, RunOfNoPlan DEF DropPlan, TypesFit, Pending
  <2>3. CASE MarkRunning \/ CompleteBackup \/ FailRun
    BY <1>1, <2>3, WorkerUpdates DEF WorkerFits, RowsFit, Pending
  <2> QED BY <1>1, <2>1, <2>2, <2>3, RunSteps DEF Pending
<1>2. CASE MarkRunning /\ r = work.run
  BY <1>2, WorkerUpdates DEF WorkerFits, Pending
<1>3. CASE run[r].status # "none" /\ ~(MarkRunning /\ r = work.run)
  <2>1. run[r].status \in Pending
    <3>1. CASE run'[r].status = run[r].status
      BY <3>1
    <3>2. CASE r = work.run /\ (CompleteBackup \/ FailRun)
      <4>1. UNCHANGED run \/ UpdateBackupRun(r, "succeeded") \/ UpdateBackupRun(r, "failed")
        BY <3>2 DEF CompleteBackup, FailRun, r0
      <4> QED BY <1>0, <4>1, RunUpdated DEF Pending
    <3> QED BY <1>3, <3>1, <3>2, RunsStay
  <2>2. job[r] \in Pending \/ r \in lost
    BY <2>1 DEF NoStuckRun
  <2>3. CASE job'[r] = job[r]
    BY <1>0, <2>2, <2>3
  <2>4. CASE Claim \/ Restart
    BY <1>0, <2>2, <2>4 DEF Claim, Restart, TypeOK, Pending
  <2>5. CASE Settle
    <3>1. CASE r = work.run
      BY <1>0, <2>1, <2>5, <3>1 DEF Settle, WorkerFits, Pending
    <3>2. CASE r # work.run
      BY <1>0, <2>2, <2>5, <3>2 DEF Settle, TypeOK, r0
    <3> QED BY <3>1, <3>2
  <2> QED BY <1>3, <2>3, <2>4, <2>5, RunsStay
<1> QED BY <1>1, <1>2, <1>3

LEMMA TruthfulStep ==
  ASSUME TypesFit, RowsFit, WorkerFits, JobIsTruthful, Next
  PROVE  JobIsTruthful'
<1>0. TypeOK
  BY DEF TypesFit
<1> SUFFICES ASSUME NEW r \in Run, job'[r] = "succeeded" PROVE run'[r].status = "succeeded"
  BY DEF JobIsTruthful
<1>1. CASE job[r] = "succeeded"
  <2>1. run[r].status = "succeeded"
    BY <1>1 DEF JobIsTruthful
  <2>2. ~(r = work.run /\ (MarkRunning \/ CompleteBackup \/ FailRun))
    BY <1>1, WorkerUpdates DEF WorkerFits
  <2> QED BY <2>1, <2>2, RunsStay
<1>2. CASE job[r] # "succeeded"
  <2>1. CASE Settle
    <3>1. r = work.run /\ work.ok /\ work.at = "ended" /\ run' = run
      BY <1>0, <1>2, <2>1 DEF Settle, TypeOK, r0
    <3> QED BY <3>1 DEF WorkerFits
  <2>2. ~(Claim \/ Restart)
    BY <1>0, <1>2 DEF Claim, Restart, TypeOK
  <2>3. ASSUME NEW q \in Requester, QueueRun(q) PROVE FALSE
    BY <1>0, <1>2, <2>3, Queued, RunCreated
  <2> QED BY <1>2, <2>1, <2>2, <2>3, JobSteps
<1> QED BY <1>1, <1>2

-------------------------------------------------------------------------------
(* The theorems. *)

LEMMA Stutter == IInv /\ UNCHANGED vars => IInv'
<1> SUFFICES ASSUME IInv, UNCHANGED vars PROVE IInv'
  OBVIOUS
<1> USE DEF IInv, vars, rows, agent, bounds, history
<1>1. TypesFit'
  BY DEF TypesFit, TypeOK, AtWork
<1>2. RowsFit' /\ WorkerFits' /\ ActiveOnce' /\ WritesFit' /\ SumsFit'
  BY DEF RowsFit, WorkerFits, ActiveOnce, WritesFit, SumsFit, AtWork
<1>3. ExpiredFit' /\ NewestIsUsable' /\ (AtWork => KeepFits)'
  BY DEF ExpiredFit, NewestIsUsable, Clean, KeepFits, Kept, Artifacts, AtWork
<1>4. SucceededIsUsable' /\ NoStuckRun' /\ JobIsTruthful'
  BY DEF SucceededIsUsable, Usable, NoStuckRun, JobIsTruthful
<1> QED BY <1>1, <1>2, <1>3, <1>4

LEMMA NextInv == IInv /\ [Next]_vars => IInv'
<1>1. ASSUME IInv, Next PROVE IInv'
  BY <1>1, TypesStep, RowsStep, WorkerFitsStep, ActiveOnceStep, WritesStep, SumsStep,
     ExpiredStep, NewestStep, KeepStep, UsableStep, NoStuckStep, TruthfulStep DEF IInv
<1> QED BY <1>1, Stutter

(* The inductive invariant of plans, runs, artifacts, jobs and archives    *)
(* holds in every reachable state.                                         *)
THEOREM BackupsInvariance == Spec => []IInv
BY InitInv, NextInv, PTL DEF Spec

(* Every variable keeps its type: a plan keeps no more than it may, and    *)
(* the worker and the requests refer to runs and plans.                    *)
THEOREM BackupsTypesCorrect == Spec => []TypeOK
<1>1. IInv => TypeOK
  BY DEF IInv, TypesFit
<1> QED BY <1>1, BackupsInvariance, PTL

(* An artifact of a succeeded run refers to the archive its checksum was   *)
(* taken from, or to one the Agent was told to delete.                     *)
THEOREM SucceededRunsAreUsable == Spec => []SucceededIsUsable
<1>1. IInv => SucceededIsUsable
  BY DEF IInv
<1> QED BY <1>1, BackupsInvariance, PTL

(* An active run has an unfinished job, or a failed write left its status  *)
(* behind: recovery brings back what the worker had.                       *)
THEOREM RunsNeverStick == Spec => []NoStuckRun
<1>1. IInv => NoStuckRun
  BY DEF IInv
<1> QED BY <1>1, BackupsInvariance, PTL

(* A succeeded job has a succeeded run. *)
THEOREM JobsAreTruthful == Spec => []JobIsTruthful
<1>1. IInv => JobIsTruthful
  BY DEF IInv
<1> QED BY <1>1, BackupsInvariance, PTL

(* A plan has at most one active run, although requests look for one       *)
(* before their transaction and a requeued job reopens its run.            *)
THEOREM OneRunAtATime == Spec => []OneActiveRun
<1>1. ASSUME IInv PROVE OneActiveRun
  <2> SUFFICES ASSUME NEW p \in Plan PROVE Cardinality(Active(p)) <= 1
    BY DEF OneActiveRun
  <2>1. \A r, s \in Active(p) : r = s
    BY <1>1 DEF IInv, ActiveOnce, Active
  <2>2. CASE Active(p) = {}
    BY <2>2, FS_EmptySet
  <2>3. CASE Active(p) # {}
    <3>1. PICK r \in Active(p) : TRUE
      BY <2>3
    <3>2. Active(p) = {r}
      BY <2>1, <3>1
    <3> QED BY <3>2, FS_Singleton
  <2> QED BY <2>2, <2>3
<1> QED BY <1>1, BackupsInvariance, PTL

(* Failing backups, restarts and retention leave a plan that has had an    *)
(* artifact with a usable archive, unless a user deleted one or recovery   *)
(* wrote a finished one again.                                             *)
THEOREM AUsableArchiveIsKept == Spec => []KeepsAUsableArchive
<1>1. ASSUME IInv PROVE KeepsAUsableArchive
  <2> SUFFICES ASSUME NEW p \in Plan, NEW a \in Run, run[a].plan = p, row[a] # 0,
                      {r \in Run : run[r].plan = p} \cap (discarded \cup redone) = {}
               PROVE  \E r \in Run : run[r].plan = p /\ Usable(r)
    BY DEF KeepsAUsableArchive
  <2>1. Clean(p) /\ a \in Artifacts(p)
    BY <1>1 DEF Clean, Artifacts, IInv, TypesFit, TypeOK
  <2>2. PICK r \in Artifacts(p) : archive[r] = row[r]
    BY <1>1, <2>1 DEF IInv, NewestIsUsable
  <2> QED BY <2>2 DEF Artifacts, Usable
<1> QED BY <1>1, BackupsInvariance, PTL

(* When a backup job succeeds, retention has left its plan no more         *)
(* artifacts than the plan was to keep.                                    *)
THEOREM RetentionHolds == Spec => WithinRetention
<1>1. ASSUME IInv, [Next]_vars PROVE JobHasPruned
  <2> SUFFICES ASSUME NEW r \in Run, job[r] # "succeeded", job'[r] = "succeeded",
                      run[r].plan # None
               PROVE  Cardinality(Artifacts(run[r].plan)) <= work.keep
    BY DEF JobHasPruned
  <2>1. TypesFit /\ TypeOK
    BY <1>1 DEF IInv, TypesFit
  <2>2. ~UNCHANGED job
    OBVIOUS
  <2>3. Next
    BY <1>1, <2>2 DEF vars, rows
  <2>4. ~(Claim \/ Restart)
    BY <2>1 DEF Claim, Restart, TypeOK
  <2>5. ASSUME NEW q \in Requester, QueueRun(q) PROVE FALSE
    BY <2>1, <2>5, Queued, RunCreated
  <2>6. Settle
    BY <2>2, <2>3, <2>4, <2>5, JobSteps
  <2>7. r = work.run /\ work.at = "ended" /\ work.ok
    BY <2>1, <2>6 DEF Settle, TypeOK, r0
  <2> QED BY <1>1, <2>7 DEF IInv, KeepFits, AtWork
<1>2. IInv /\ [Next]_vars => [JobHasPruned]_vars
  BY <1>1
<1> QED BY <1>2, BackupsInvariance, PTL DEF Spec, WithinRetention
===============================================================================
