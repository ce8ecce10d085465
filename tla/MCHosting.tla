------------------------------ MODULE MCHosting -------------------------------
(* Websites and domains are interchangeable, and so are hostnames that     *)
(* resolve alike.                                                          *)
EXTENDS Hosting

Symmetry == Permutations(Site) \cup Permutations(Domain)
            \cup Permutations(Resolves) \cup Permutations(Hostname \ Resolves)
===============================================================================
