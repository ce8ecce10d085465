------------------------------ MODULE MCFtpAccess -----------------------------
(* Accounts, logins, names and password hashes are interchangeable.        *)
EXTENDS FtpAccess

Symmetry == Permutations(Account) \cup Permutations(Login)
            \cup Permutations(Name) \cup Permutations(Password)
===============================================================================
