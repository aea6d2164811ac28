-------------------------- MODULE MCResidentLists ---------------------------
(***************************************************************************)
(* A small instance of module ResidentLists: files that fill one chunk, no *)
(* chunk or several, end in a line that is no row, offer one contact twice *)
(* and one email twice.                                                    *)
(***************************************************************************)
EXTENDS ResidentLists, TLC

CONSTANTS e1, e2, c1, c2

Line(e, c) == [email |-> e, contact |-> c]

SmallFiles ==
  {<<>>,
   <<Line(e1, c1), Line(e2, c2)>>,
   <<Line(e2, c2), Outside, Line(e1, c2), Line(e1, c1)>>,
   <<Line(e1, c2), Line(e2, c1), Line(e1, c1), TooShort>>,
   <<Line(e2, c1), Malformed, Line(e1, c2)>>}

Symmetry == Permutations(Commands) \cup Permutations(Apartments)
=============================================================================
