------------------------------ MODULE MCJobQueue ------------------------------
(* Jobs of the ordinary kinds get two attempts, backup jobs one.           *)
EXTENDS JobQueue

CONSTANTS Backups  \* the jobs of the backup kinds

MCMaxAttempts == [j \in Job |-> IF j \in Backups THEN 1 ELSE 2]
===============================================================================
