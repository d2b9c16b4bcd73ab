------------------------------ MODULE MCLibrary ------------------------------
(***************************************************************************)
(* An instance of Library for TLC: the null character, a minus sign and    *)
(* the digit 1 in every arrangement, and ints of eight bits.  The ints     *)
(* that are printed into memory are those written with these characters;   *)
(* the ones whose printing is checked are on both sides of every change of *)
(* sign, of the number of digits and of a nibble, and the extremes.        *)
(***************************************************************************)
EXTENDS Library

MCBytes == {0, 45, 49}

MCDecimals == {1, 11, -1, -11}

MCHexadecimals == {17}

MCInts == {-128, -127, -100, -99, -17, -16, -10, -9, -1,
           0, 1, 9, 10, 15, 16, 99, 100, 105, 127}

MCLengths == {1, 3}

=============================================================================
