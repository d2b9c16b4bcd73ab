----------------------------- MODULE MCKeyboard -----------------------------
(***************************************************************************)
(* Instances of Keyboard for TLC: a screen of 2 rows of 4 cells, so that   *)
(* the cursor starts in the middle, with every editing key, the modifiers  *)
(* and a letter, a digit, the slash, the space bar and a function key.     *)
(***************************************************************************)
EXTENDS Keyboard

MCKeys == {ESCAPE, 2, BACKSPACE, TAB, RETURN, CTRL, 30, LEFT_SHIFT, SLASH,
           RIGHT_SHIFT, ALT, SPACE, 59, ARROW_UP, ARROW_LEFT, ARROW_RIGHT,
           ARROW_DOWN, DELETE}

MCMessage == <<[kind |-> "char", text |-> <<76>>],
               [kind |-> "number", text |-> <<48, 49>>]>>

=============================================================================
