------------------------------ MODULE PanelWorker -----------------------------
(***************************************************************************)
(* What the panel's resource services share: requests whose transaction    *)
(* stores a resource together with its job, and the worker that runs the   *)
(* jobs one at a time in the order of created_at.                          *)
(*                                                                         *)
(* A request reads its rows and its clock (Ask) and later runs its         *)
(* transaction (Accept); other requests and the worker may come in         *)
(* between, so an accepted job keeps the place of its request or takes the *)
(* last one.  The worker is the one of JobQueue reduced to what a handler  *)
(* can tell: a job is claimed, its handler reads, calls the Agent, stores  *)
(* what came of it, and the job is settled.  The modules of the resources  *)
(* say what is read, called and stored.                                    *)
(***************************************************************************)
EXTENDS Naturals, FiniteSets, FiniteSetsExt, SequencesExt

CONSTANTS
  None,
  MaxAttempts,  \* max_attempts of every kind here: 2
  MaxRequests,  \* bound on requests
  MaxOpen,      \* bound on requests under way at a time
  MaxTroubles   \* bound on what goes wrong: failures of the Agent, lost answers,
                \* failing statements, deaths of the panel, suspensions

ASSUME PanelAssumption ==
  /\ MaxAttempts \in Nat \ {0}
  /\ MaxRequests \in Nat /\ MaxOpen \in Nat /\ MaxTroubles \in Nat

VARIABLES
  usable,   \* the account is active and enabled
  queue,    \* requests under way and unfinished jobs, by created_at
  pc,       \* where the worker is
  ok,       \* the handler it ran last returned nil
  call,     \* what its handler asks of the Agent
  requests, troubles,
  unsaved,  \* a statement of a handler has failed
  suspended \* the account has been disabled

events == <<requests, troubles, unsaved, suspended>>
workerVars == <<usable, queue, pc, ok, call, events>>

WorkerTypeOK(Request, Call) ==
  /\ usable \in BOOLEAN
  /\ queue \in Seq([req : Request, state : {"asked", "queued", "running"},
                    tries : 0..MaxAttempts])
  /\ pc \in {"idle", "claimed", "read", "calling", "handled"}
  /\ ok \in BOOLEAN
  /\ call \in Call \cup {None}
  /\ requests \in 0..MaxRequests /\ troubles \in 0..MaxTroubles
  /\ unsaved \in BOOLEAN /\ suspended \in BOOLEAN

WorkerInit ==
  /\ usable = TRUE
  /\ queue = <<>>
  /\ pc = "idle" /\ ok = TRUE /\ call = None
  /\ requests = 0 /\ troubles = 0 /\ unsaved = FALSE /\ suspended = FALSE

Trouble == troubles < MaxTroubles /\ troubles' = troubles + 1

-------------------------------------------------------------------------------
(* Requests. *)

Ask(r) ==
  /\ requests < MaxRequests /\ requests' = requests + 1
  /\ Cardinality({i \in DOMAIN queue : queue[i].state = "asked"}) < MaxOpen
  /\ queue' = Append(queue, [req |-> r, state |-> "asked", tries |-> 0])
  /\ UNCHANGED <<usable, pc, ok, call, troubles, unsaved, suspended>>

(* createJob, in the transaction of the request. *)
Accept(i) ==
  LET job == [queue[i] EXCEPT !.state = "queued"]
  IN /\ queue[i].state = "asked"
     /\ queue' \in {[queue EXCEPT ![i] = job], Append(RemoveAt(queue, i), job)}
     /\ UNCHANGED <<usable, pc, ok, call, events>>

(* The transaction refuses or fails, or the client has gone. *)
Withdraw(i) ==
  /\ queue[i].state = "asked"
  /\ queue' = RemoveAt(queue, i)
  /\ UNCHANGED <<usable, pc, ok, call, events>>

(* accounts.ProvisionAction: the account is disabled, and enabled again. *)
Suspend == /\ usable /\ Trouble
           /\ usable' = FALSE /\ suspended' = TRUE
           /\ UNCHANGED <<queue, pc, ok, call, requests, unsaved>>
Resume  == /\ ~usable
           /\ usable' = TRUE
           /\ UNCHANGED <<queue, pc, ok, call, events>>

-------------------------------------------------------------------------------
(* The worker. *)

Waiting    == {i \in DOMAIN queue : queue[i].state = "queued"}
Unfinished == {i \in DOMAIN queue : queue[i].state \in {"queued", "running"}}
current    == CHOOSE i \in DOMAIN queue : queue[i].state = "running"
held       == queue[current].req

Claim ==
  /\ pc = "idle" /\ Waiting # {}
  /\ LET i == Min(Waiting)
     IN queue' = [queue EXCEPT ![i].state = "running", ![i].tries = @ + 1]
  /\ pc' = "claimed"
  /\ UNCHANGED <<usable, ok, call, events>>

(* The handler has read what it wants to do, or goes on to do it. *)
Goes(from, to) == pc = from /\ pc' = to /\ UNCHANGED <<usable, queue, ok, events>>

(* The handler returns; "good" says whether it returned nil. *)
Returns(good) ==
  /\ pc' = "handled" /\ ok' = good /\ call' = None
  /\ UNCHANGED <<usable, queue, requests, suspended>>

(* The Agent fails, or its answer is lost. *)
Fault   == Trouble /\ UNCHANGED unsaved
NoFault == UNCHANGED <<troubles, unsaved>>
(* A statement of the handler fails. *)
Unsaved == Trouble /\ unsaved' = TRUE

(* Wrong on purpose: one attempt too many. *)
OnceMore == ~ok /\ queue[current].tries <= MaxAttempts
Again == ~ok /\ queue[current].tries < MaxAttempts

(* CompleteJob, RetryJob or FailJob. *)
Settle ==
  /\ pc = "handled" /\ pc' = "idle"
  /\ queue' = IF Again THEN [queue EXCEPT ![current].state = "queued"]
                       ELSE RemoveAt(queue, current)
  /\ UNCHANGED <<usable, ok, call, events>>

(* RecoverJobs: a running job is queued again and its attempt not counted. *)
(* Wrong on purpose: it is taken for finished.                             *)
ForgetJobs(jobs) == SelectSeq(jobs, LAMBDA j : j.state # "running")
RecoverJobs(jobs) ==
  [i \in DOMAIN jobs |-> IF jobs[i].state = "running"
                         THEN [jobs[i] EXCEPT !.state = "queued", !.tries = @ - 1]
                         ELSE jobs[i]]

(* The panel dies and systemd starts it again; the worker begins with      *)
(* RecoverJobs.  The requests under way are gone with it: each of them has *)
(* been withdrawn just before.                                             *)
Die ==
  /\ Trouble
  /\ \A i \in DOMAIN queue : queue[i].state # "asked"
  /\ queue' = RecoverJobs(queue)
  /\ pc' = "idle" /\ call' = None
  /\ UNCHANGED <<usable, ok, requests, unsaved, suspended>>

(* Nothing is under way for the account. *)
Quiet == pc = "idle" /\ Unfinished = {}
===============================================================================
