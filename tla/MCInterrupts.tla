---------------------------- MODULE MCInterrupts ----------------------------
(***************************************************************************)
(* Instances of Interrupts for TLC: the PIT on line 0, the keyboard on     *)
(* line 1 and the real-time clock on line 8, behind the cascade; both      *)
(* spurious interrupts; the breakpoint kmain executes and the page fault,  *)
(* which has an error code.                                                *)
(***************************************************************************)
EXTENDS Interrupts

MCLines == {0, 1, 8}

MCPulsed == {0}

MCSpurious == {7, 15}

MCExceptions == {3, 14}

=============================================================================
