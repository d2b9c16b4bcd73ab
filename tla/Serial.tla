------------------------------- MODULE Serial -------------------------------
(***************************************************************************)
(* The serial port of serial.c as operators on the registers of a 16550    *)
(* UART, and the texts that log.c hands to serial_write.  The UART is      *)
(* hardware, modelled from the registers that serial.h names:              *)
(*                                                                         *)
(*   lcr        the line control register, whose top bit is DLAB           *)
(*   dlm, dll   the divisor latch; with DLAB set the data port is dll      *)
(*   fcr        has the FIFO been enabled?                                 *)
(*   fifo       the characters that wait to be sent                        *)
(***************************************************************************)
EXTENDS Integers, Sequences, SequencesExt

CONSTANTS
  RegisterSize, (* the number of values of a register, 256                 *)
  FifoSize,     (* the characters that the FIFO holds, 16                  *)
  WordSize      (* the number of values of an unsigned int                 *)

ASSUME SerialAssumption ==
  /\ RegisterSize \in Nat /\ RegisterSize > 3
  /\ FifoSize \in Nat \ {0}
  /\ WordSize \in Nat \ {0}

(* The values of the line control register that serial.c writes. *)
SERIAL_LINE_ENABLE_DLAB == 128

EightBits == 3

-----------------------------------------------------------------------------
(* The UART.                                                               *)

(* Without its FIFO the UART holds one character; one more is lost. *)
Capacity(u) == IF u.fcr THEN FifoSize ELSE 1

Dlab(u) == u.lcr >= SERIAL_LINE_ENABLE_DLAB

(* The modem control register raises lines that do not matter here. *)
WriteUart(u, port, v) ==
  CASE port = "line command"  -> [u EXCEPT !.lcr = v]
    [] port = "fifo command"  -> [u EXCEPT !.fcr = TRUE, !.fifo = <<>>]
    [] port = "modem command" -> u
    [] port = "data" /\ Dlab(u) -> [u EXCEPT !.dll = v]
    [] port = "data" /\ ~Dlab(u) ->
         IF Len(u.fifo) < Capacity(u) THEN [u EXCEPT !.fifo = Append(@, v)] ELSE u

(* Variant: the bit is tested the wrong way round. *)
FifoInUse(u) == u.fifo # <<>>

(* Bit 5 of the line status register, which serial.c:86 reads. *)
serial_is_transmit_fifo_empty(u) == u.fifo = <<>>

Divisor(u) == u.dlm * RegisterSize + u.dll

-----------------------------------------------------------------------------
(* The calls, as the sequences of their writes to ports.                   *)

Out(port, v) == [port |-> port, value |-> v]

(* Variant: the low byte first, as the timer's divisor is written. *)
LowByteFirst(divisor) ==
  <<Out("line command", SERIAL_LINE_ENABLE_DLAB),
    Out("data", divisor % RegisterSize),
    Out("data", (divisor \div RegisterSize) % RegisterSize)>>

(* The high byte, then the low byte, both through the data port. *)
serial_configure_baud_rate(divisor) ==
  <<Out("line command", SERIAL_LINE_ENABLE_DLAB),
    Out("data", (divisor \div RegisterSize) % RegisterSize),
    Out("data", divisor % RegisterSize)>>

serial_configure_line == <<Out("line command", EightBits)>>

serial_configure_buffers == <<Out("fifo command", 199)>>

serial_configure_modem == <<Out("modem command", 3)>>

-----------------------------------------------------------------------------
(* Logging.                                                                *)

NUL == 0

NewLine == 10

(* "[DEBUG] ", of which the first and the last character stand for all. *)
Debug == <<91, 32>>

(* C strings end with NUL. *)
CString(text) == Append(text, NUL)

(* A call of serial_write: its arguments. *)
Write(c, length) == [c |-> c, length |-> length]

(* Variant: the loop of serial_write runs to the length. *)
AllOfThem(w) == w.length

(* The number of characters that its loop sends: i < length-1, unsigned. *)
Count(w) == (w.length - 1) % WordSize

(* sizeof(_debug), which counts the NUL, and sizeof(CHAR_NEW_LINE)+1. *)
WriteDebug == Write(CString(Debug), Len(Debug) + 1)

WriteNewLine == Write(<<NewLine>>, 2)

print_debug(str, length) == <<WriteDebug, Write(CString(str), length + 1), WriteNewLine>>

print_debug_str(str) == <<WriteDebug, Write(CString(str), Len(str) + 1), WriteNewLine>>

(* digits is what int_to_str makes of the argument. *)
print_debug_dec(digits) == <<WriteDebug, Write(CString(digits), Len(digits)), WriteNewLine>>

=============================================================================
