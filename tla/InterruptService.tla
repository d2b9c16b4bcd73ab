-------------------------- MODULE InterruptService --------------------------
(***************************************************************************)
(* What devices and drivers may expect of interrupt delivery: a request is *)
(* kept until it is served, one is served at a time and the most urgent    *)
(* first, the service comes to an end, and a request that is the most      *)
(* urgent again and again is served.                                       *)
(***************************************************************************)
EXTENDS Integers

CONSTANTS
  Lines,          (* the lines that can be requested                       *)
  Spurious,       (* the lines that may be served without a request        *)
  Nobody,         (* no line                                               *)
  Before(_, _)    (* is a line more urgent than another?                   *)

VARIABLES
  pending,        (* the lines that wait                                   *)
  active          (* the line that is being served, or Nobody              *)

vars == <<pending, active>>

Init == pending = {} /\ active = Nobody

Request(l) ==
  /\ pending' = pending \cup {l}
  /\ UNCHANGED active

Begin(l) ==
  /\ active = Nobody
  /\ l \in pending
  /\ \A k \in pending : ~Before(k, l)
  /\ pending' = pending \ {l}
  /\ active' = l

BeginSpurious(l) ==
  /\ active = Nobody
  /\ active' = l
  /\ UNCHANGED pending

End ==
  /\ active # Nobody
  /\ active' = Nobody
  /\ UNCHANGED pending

Next ==
  \/ \E l \in Lines : Request(l) \/ Begin(l)
  \/ \E l \in Spurious : BeginSpurious(l)
  \/ End

Spec == Init /\ [][Next]_vars /\ WF_vars(End) /\ \A l \in Lines : SF_vars(Begin(l))

=============================================================================
