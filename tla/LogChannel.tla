----------------------------- MODULE LogChannel -----------------------------
(***************************************************************************)
(* What a log promises: the lines appear on the wire in the order in which *)
(* they were logged, each complete, no character lost, doubled or added,   *)
(* and everything logged is sent in the end.                               *)
(***************************************************************************)
EXTENDS Sequences

CONSTANT Lines

VARIABLES
  sent,      (* the characters on the wire                                 *)
  pending    (* the characters that are still to come                      *)

vars == <<sent, pending>>

Init == sent = <<>> /\ pending = <<>>

Log(line) ==
  /\ pending' = pending \o line
  /\ UNCHANGED sent

Send ==
  /\ pending # <<>>
  /\ sent' = Append(sent, Head(pending))
  /\ pending' = Tail(pending)

Next == Send \/ \E line \in Lines : Log(line)

Spec == Init /\ [][Next]_vars /\ WF_vars(Send)

=============================================================================
