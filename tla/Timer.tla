-------------------------------- MODULE Timer -------------------------------
(***************************************************************************)
(* The timer, timer.c: the writes by which init_timer programs channel 0   *)
(* of the programmable interval timer.  The timer is hardware, modelled    *)
(* from the command byte 0x36: it takes a low and then a high byte, counts *)
(* with the old period until it has both, and takes 0 for the largest      *)
(* period.                                                                 *)
(***************************************************************************)
EXTENDS Integers, Sequences

CONSTANTS
  ClockRate,   (* the timer's input clock, 1193180                         *)
  ByteSize     (* the number of values of a byte, 256                      *)

ASSUME TimerAssumption ==
  /\ ClockRate \in Nat \ {0}
  /\ ByteSize \in Nat \ {0}

(* The largest period. *)
MaxPeriod == ByteSize * ByteSize

(* The timer after a write; next is the byte that it expects. *)
WritePit(p, port, v) ==
  CASE port = "pit command" -> [p EXCEPT !.next = "low"]
    [] port = "pit data" /\ p.next = "low" -> [p EXCEPT !.low = v, !.next = "high"]
    [] port = "pit data" /\ p.next = "high" ->
         [p EXCEPT !.reload = v * ByteSize + p.low, !.next = "low"]

Period(p) == IF p.reload = 0 THEN MaxPeriod ELSE p.reload

(* 1193180 / frequency, in unsigned arithmetic. *)
PitDivisor(frequency) == ClockRate \div frequency

(* Variant: the high byte first, as the serial port's divisor is written. *)
HighByteFirst(frequency) ==
  LET divisor == PitDivisor(frequency)
  IN  <<[port |-> "pit command", value |-> 54],
        [port |-> "pit data", value |-> (divisor \div ByteSize) % ByteSize],
        [port |-> "pit data", value |-> divisor % ByteSize]>>

(* Variant: the high byte is not masked. *)
HighByteUnmasked(frequency) ==
  LET divisor == PitDivisor(frequency)
  IN  <<[port |-> "pit command", value |-> 54],
        [port |-> "pit data", value |-> divisor % ByteSize],
        [port |-> "pit data", value |-> divisor \div ByteSize]>>

(* The port writes of init_timer. *)
init_timer(frequency) ==
  LET divisor == PitDivisor(frequency)
  IN  <<[port |-> "pit command", value |-> 54],
        [port |-> "pit data", value |-> divisor % ByteSize],
        [port |-> "pit data", value |-> (divisor \div ByteSize) % ByteSize]>>

=============================================================================
