------------------------------- MODULE MCBoot -------------------------------
(***************************************************************************)
(* Instances of Boot for TLC: a screen of 2 rows of 3 cells and registers  *)
(* of 4 values, so that a page ends in the second row; keys that move the  *)
(* cursor within a row, across rows and not at all, and Escape.  On so     *)
(* small a screen 3 keys take kmain into both loops of fb_offset_cursor.   *)
(***************************************************************************)
EXTENDS Boot

(* Escape, Backspace, Return, A, left Shift, arrow up, arrow down. *)
MCKeys == {1, 14, 28, 30, 42, 72, 80}

MCMessage == <<[kind |-> "char", text |-> <<76>>]>>

=============================================================================
