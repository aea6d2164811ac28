--------------------------- MODULE MCNoticeBoard ---------------------------
(***************************************************************************)
(* Small instances of module NoticeBoard: an administrator, who wrote the  *)
(* notices there are, and residents.  Requests and comments are            *)
(* interchangeable, and so are the residents.                              *)
(***************************************************************************)
EXTENDS NoticeBoard, TLC

Symmetry ==
  Permutations(Requests) \cup Permutations(Comments) \cup Permutations(Users \ Admins)
=============================================================================
