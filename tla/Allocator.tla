----------------------------- MODULE Allocator ------------------------------
(***************************************************************************)
(* What an allocator that never frees promises: every region it gives out  *)
(* is memory that nobody has, until it is exhausted.  From then on it      *)
(* promises nothing.                                                       *)
(***************************************************************************)
EXTENDS Integers

CONSTANTS
  Addresses, (* the address space                                          *)
  Reserved,  (* the addresses that are in use from the start               *)
  Sizes      (* the sizes of regions                                       *)

VARIABLES
  owned,     (* the addresses somebody has                                 *)
  exhausted

vars == <<owned, exhausted>>

Init == owned = Reserved /\ exhausted = FALSE

(* A region of sz addresses from base on, all of them free. *)
Allocate(base, sz) ==
  LET region == base..(base + sz - 1)
  IN  /\ ~exhausted
      /\ region \subseteq Addresses \ owned
      /\ owned' = owned \cup region
      /\ UNCHANGED exhausted

Exhaust ==
  /\ exhausted' = TRUE
  /\ owned' \in SUBSET Addresses

Next == (\E base \in Addresses, sz \in Sizes : Allocate(base, sz)) \/ Exhaust

Spec == Init /\ [][Next]_vars

=============================================================================
