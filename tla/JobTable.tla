------------------------------- MODULE JobTable -------------------------------
(***************************************************************************)
(* The rows of the "jobs" table and the statements of queries/jobs.sql     *)
(* that write them, as operators on one row (or, for the claim, on the     *)
(* whole table).  SQLite runs every statement of the panel alone (the      *)
(* store opens one connection), so each of them is one atomic step of the  *)
(* modules that use it.                                                    *)
(***************************************************************************)
EXTENDS Naturals

(* What a row's status column can hold; "absent" stands for no row yet. *)
Final    == {"succeeded", "failed"}
Live     == {"queued", "running"}
Statuses == {"absent"} \cup Live \cup Final

(* createdAt is the millisecond the request read before its transaction;   *)
(* seq is the rowid SQLite gave the row, which orders equal timestamps in  *)
(* the index on (status, created_at).                                      *)
Row   == [status : Statuses, attempts : Nat, createdAt : Nat, seq : Nat]
NoRow == [status |-> "absent", attempts |-> 0, createdAt |-> 0, seq |-> 0]

(* CreateJob. *)
NewRow(at, n) == [status |-> "queued", attempts |-> 0, createdAt |-> at, seq |-> n]

(* Wrong on purpose: ORDER BY created_at alone. *)
OlderByTimeOnly(r, s) == r.createdAt < s.createdAt

(* ORDER BY created_at, then the rowid. *)
Older(r, s) == \/ r.createdAt < s.createdAt
               \/ r.createdAt = s.createdAt /\ r.seq < s.seq

(* The WHERE of ClaimJob's subquery, and its ORDER BY ... LIMIT 1. *)
Claimable(r, max) == r.status = "queued" /\ r.attempts < max
Next4Claim(rows, max) ==
  {j \in DOMAIN rows : /\ Claimable(rows[j], max[j])
                       /\ \A i \in DOMAIN rows :
                            Claimable(rows[i], max[i]) => ~Older(rows[i], rows[j])}

(* A row with its status and attempts rewritten; no UPDATE writes          *)
(* created_at or the rowid.                                                *)
Set(r, s, n) == [status |-> s, attempts |-> n, createdAt |-> r.createdAt, seq |-> r.seq]

(* ClaimJob's UPDATE. *)
Claimed(r) == Set(r, "running", r.attempts + 1)

(* CompleteJob and FailJob: WHERE status = 'running'. *)
Completed(r) == IF r.status = "running" THEN Set(r, "succeeded", r.attempts) ELSE r
Failed(r)    == IF r.status = "running" THEN Set(r, "failed", r.attempts) ELSE r

(* Wrong on purpose: attempts + 1 < max_attempts. *)
RetriedOnceLess(r, max) == IF r.status = "running" /\ r.attempts + 1 < max
                           THEN Set(r, "queued", r.attempts) ELSE r

(* RetryJob: WHERE status = 'running' AND attempts < max_attempts. *)
Retried(r, max) == IF r.status = "running" /\ r.attempts < max
                   THEN Set(r, "queued", r.attempts) ELSE r

(* Wrong on purpose: every unfinished row is refunded, with no floor at 0. *)
RecoveredUnfloored(r) == IF r.status \in Live THEN Set(r, "queued", r.attempts - 1) ELSE r

(* Wrong on purpose: the interrupted attempt is not refunded. *)
RecoveredUnrefunded(r) == IF r.status = "running" THEN Set(r, "queued", r.attempts) ELSE r

(* Wrong on purpose: failed rows are recovered too. *)
RecoveredFailedToo(r) == IF r.status \in {"running", "failed"} THEN Set(r, "queued", 0) ELSE r

(* RecoverJobs: a running row goes back to the queue with its attempt      *)
(* refunded.                                                               *)
Recovered(r) == IF r.status = "running"
                THEN Set(r, "queued", IF r.attempts > 0 THEN r.attempts - 1 ELSE 0)
                ELSE r
===============================================================================
