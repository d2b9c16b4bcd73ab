------------------------------ MODULE MCStartup -----------------------------
(***************************************************************************)
(* Instances of Startup for TLC: registers of 4 values and a FIFO of 2;    *)
(* the empty string and one of two characters; numbers of one digit and of *)
(* two; frequencies whose divisors of 64 are too large, the largest        *)
(* period, of two bytes, of one byte, 1 and 0.                             *)
(***************************************************************************)
EXTENDS Startup

MCTexts == {<<>>, <<65, 66>>}

MCNumbers == {<<49>>, <<50, 51>>}

MCFrequencies == {3, 4, 5, 32, 64, 65}

=============================================================================
