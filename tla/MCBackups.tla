------------------------------- MODULE MCBackups -------------------------------
(* Requests under way are interchangeable.                                 *)
EXTENDS Backups, TLC

Symmetry == Permutations(Requester)
===============================================================================
