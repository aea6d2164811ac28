------------------------------- MODULE MCPoll -------------------------------
(***************************************************************************)
(* Small instances of module Poll.  Requests, users, polls and options are *)
(* interchangeable.                                                        *)
(***************************************************************************)
EXTENDS Poll, TLC

Symmetry ==
  Permutations(Requests) \cup Permutations(Users) \cup Permutations(Polls)
    \cup Permutations(Options)
=============================================================================
