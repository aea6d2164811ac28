-------------------------- MODULE MCAdminAccounts --------------------------
(***************************************************************************)
(* Small instances of module AdminAccounts.  Requests, accounts and        *)
(* apartments are interchangeable.                                         *)
(***************************************************************************)
EXTENDS AdminAccounts, TLC

Symmetry == Permutations(Requests) \cup Permutations(Accounts) \cup Permutations(Apartments)
=============================================================================
