------------------------- MODULE MCResidentAccounts -------------------------
(***************************************************************************)
(* Small instances of module ResidentAccounts.  Requests, accounts, emails,*)
(* profiles and passwords are interchangeable.                             *)
(***************************************************************************)
EXTENDS ResidentAccounts, TLC

Symmetry ==
  Permutations(Requests) \cup Permutations(Accounts) \cup Permutations(Emails)
    \cup Permutations(Profiles) \cup Permutations(Passwords)
=============================================================================
