------------------------------ MODULE MCAccounts ------------------------------
(* Accounts with requests that can be swapped for each other: Crowds names  *)
(* requests, but only the initial states depend on it.                     *)
EXTENDS Accounts, TLC

Symmetry == Permutations(Mutations) \cup Permutations(Attempts) \cup Permutations(Servers)
===============================================================================
