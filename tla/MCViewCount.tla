---------------------------- MODULE MCViewCount ----------------------------
(***************************************************************************)
(* Small instances of module ViewCount.  The runs check liveness, so the   *)
(* views and items, interchangeable as they are, form no symmetry set.     *)
(***************************************************************************)
EXTENDS ViewCount, TLC
=============================================================================
