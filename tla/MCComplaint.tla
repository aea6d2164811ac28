---------------------------- MODULE MCComplaint ----------------------------
(***************************************************************************)
(* Small instances of module Complaint.  Requests are interchangeable, and *)
(* so are complaints, residents and texts.                                 *)
(***************************************************************************)
EXTENDS Complaint, TLC

Symmetry ==
  Permutations(Requests) \cup Permutations(Complaints)
    \cup Permutations(Residents) \cup Permutations(Texts)
=============================================================================
