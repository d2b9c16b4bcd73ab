------------------------------ MODULE MCScreen ------------------------------
(***************************************************************************)
(* Instances of Screen for TLC: a screen of 3 rows of 4 cells.  Texts are  *)
(* as wide as a tab (a whole row here) or shorter; the formats have a      *)
(* number, a new line and an unknown hint.                                 *)
(***************************************************************************)
EXTENDS Screen

MCChars == {65}

MCPositions == {0, 3, 4, 11}

MCOffsets == {-4, -1, 1, 3, 4}

MCTexts == {<<66, 67>>, <<32, 32, 32, 32>>}

MCFormats ==
  {<<[kind |-> "char", text |-> <<68>>],
     [kind |-> "number", text |-> <<49, 50>>],
     [kind |-> "newline", text |-> <<>>]>>,
   <<[kind |-> "unknown", text |-> <<123, 125>>]>>}

MCRects == {<<1, 0, 2, 3>>, <<0, 1, 4, 1>>}

=============================================================================
