----------------------------- MODULE MCAccounts -----------------------------
(* Requests, and the addresses of people, may be exchanged.                  *)
EXTENDS Accounts, TLC

Symmetry == Permutations(Requests) \cup Permutations(Emails)
=============================================================================
