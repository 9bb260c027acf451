----------------------------- MODULE MCAccounts -----------------------------
(* Instances of Accounts for TLC. Users and goroutines are interchangeable:*)
(* Init, Next and the properties name none of them.                        *)
EXTENDS Accounts, TLC

Symmetry == Permutations(Users) \cup Permutations(Procs)
=============================================================================
