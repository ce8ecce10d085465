------------------------------- MODULE JobLedger ------------------------------
(***************************************************************************)
(* What the job queue promises the rest of the panel, without queue,       *)
(* worker or process: an accepted job is tried, one try at a time, and     *)
(* gets one outcome that never changes; it succeeds only if a try did.     *)
(***************************************************************************)
EXTENDS Naturals

CONSTANT Job

VARIABLES
  phase,   \* of each job
  tries,   \* handler invocations of each job
  wins     \* those that succeeded

vars == <<phase, tries, wins>>

Init ==
  /\ phase = [j \in Job |-> "absent"]
  /\ tries = [j \in Job |-> 0]
  /\ wins = [j \in Job |-> 0]

Accept(j) ==
  /\ phase[j] = "absent"
  /\ phase' = [phase EXCEPT ![j] = "accepted"]
  /\ UNCHANGED <<tries, wins>>

Try(j) ==
  /\ phase[j] = "accepted"
  /\ tries' = [tries EXCEPT ![j] = @ + 1]
  /\ \/ wins' = [wins EXCEPT ![j] = @ + 1]
     \/ UNCHANGED wins
  /\ UNCHANGED phase

Settle(j) ==
  /\ phase[j] = "accepted"
  /\ \/ wins[j] > 0 /\ phase' = [phase EXCEPT ![j] = "succeeded"]
     \/ phase' = [phase EXCEPT ![j] = "failed"]
  /\ UNCHANGED <<tries, wins>>

Next == \E j \in Job : Accept(j) \/ Try(j) \/ Settle(j)
Spec == Init /\ [][Next]_vars
===============================================================================
