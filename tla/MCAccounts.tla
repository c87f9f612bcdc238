---------------------------- MODULE MCAccounts ----------------------------
(* Sign-ins, tabs and handlers are interchangeable among themselves.       *)
EXTENDS Accounts, TLC

Symmetry == Permutations(Logins) \union Permutations(Tabs) \union Permutations(Changers)
============================================================================
