------------------------------- MODULE Startup ------------------------------
(***************************************************************************)
(* kmain's way through the devices, kmain.c:31-51: it configures the       *)
(* serial port, logs and starts the timer, while the UART sends what it    *)
(* holds and the timer interrupts.  kmain logs once, behind the            *)
(* configuration; here the functions of log.c are called any number of     *)
(* times and between any two of kmain's calls, before the port is open     *)
(* too.                                                                    *)
(*                                                                         *)
(* A call of kmain is the sequence of its port writes, made one by one.    *)
(***************************************************************************)
EXTENDS Serial, Timer

CONSTANTS
  BaudDivisor,  (* the argument of serial_configure_baud_rate, 4           *)
  Texts,        (* strings that are logged                                 *)
  Numbers,      (* the digits of numbers that are logged                   *)
  Frequencies,  (* arguments of init_timer                                 *)
  MaxLogs       (* bound on the number of calls of log.c                   *)

ASSUME StartupAssumption ==
  /\ BaudDivisor \in 1..(RegisterSize - 1)
  /\ Texts \cup Numbers \subseteq Seq(1..255)
  /\ \A t \in Texts \cup Numbers : Len(t) + 2 < WordSize
  /\ \A d \in Numbers : d # <<>>
  /\ Frequencies \subseteq Nat \ {0}
  /\ MaxLogs \in Nat

VARIABLES
  uart,         (* the registers of the UART                               *)
  wire,         (* the characters that the UART has sent                   *)
  serial_open,
  pit,          (* the registers of the timer                              *)
  frequency,    (* the argument of init_timer                              *)
  registered,   (* has init_timer registered timer_callback?               *)
  tick,
  calls,        (* the calls that kmain has yet to make                    *)
  outs,         (* the port writes left of kmain's call                    *)
  writes,       (* the calls of serial_write left of a call of log.c       *)
  i,            (* the index of serial_write's loop                        *)
  ready,        (* has serial_write found the FIFO empty?                  *)
  logs          (* the number of calls of log.c so far                     *)

uartVars == <<uart, wire, serial_open>>

pitVars == <<pit, frequency, registered, tick>>

logVars == <<writes, i, ready, logs>>

vars == <<uartVars, pitVars, calls, outs, logVars>>

(* The firmware leaves the divisor of a common rate in the UART, a small   *)
(* one, and the largest period in the timer.                               *)
Init ==
  /\ uart \in [lcr : {EightBits}, dlm : {0}, dll : 0..(RegisterSize - 1),
               fcr : {FALSE}, fifo : {<<>>}]
  /\ wire = <<>>
  /\ serial_open = FALSE
  /\ pit = [next |-> "low", low |-> 0, reload |-> 0]
  /\ frequency \in Frequencies
  /\ registered = FALSE
  /\ tick = 0
  /\ calls = <<"baud rate", "baud rate", "line", "buffers", "modem", "timer">>
  /\ outs = <<>>
  /\ writes = <<>>
  /\ i = 0
  /\ ready = FALSE
  /\ logs = 0

-----------------------------------------------------------------------------
(* kmain.                                                                  *)

Idle == outs = <<>> /\ writes = <<>>

OutsOf(call) ==
  CASE call = "baud rate" -> serial_configure_baud_rate(BaudDivisor)
    [] call = "line"      -> serial_configure_line
    [] call = "buffers"   -> serial_configure_buffers
    [] call = "modem"     -> serial_configure_modem
    [] call = "timer"     -> init_timer(frequency)

(* init_timer registers its callback before it programs the timer. *)
kmain ==
  /\ Idle
  /\ calls # <<>>
  /\ outs' = OutsOf(Head(calls))
  /\ calls' = Tail(calls)
  /\ registered' = (registered \/ Head(calls) = "timer")
  /\ UNCHANGED <<uartVars, pit, frequency, tick, logVars>>

(* Variant: the port counts as open from its first configuration on. *)
OpenEarly(port) == TRUE

(* serial_open = 1, behind the outb of serial_configure_modem. *)
Opens(port) == port = "modem command"

outb ==
  /\ outs # <<>>
  /\ outs' = Tail(outs)
  /\ LET o == Head(outs)
     IN  IF o.port \in {"pit command", "pit data"}
           THEN /\ pit' = WritePit(pit, o.port, o.value)
                /\ UNCHANGED <<uart, serial_open>>
           ELSE /\ uart' = WriteUart(uart, o.port, o.value)
                /\ serial_open' = (serial_open \/ Opens(o.port))
                /\ UNCHANGED pit
  /\ UNCHANGED <<wire, frequency, registered, tick, calls, logVars>>

-----------------------------------------------------------------------------
(* log.c and serial_write.                                                 *)

(* Some function of log.c is called; print_debug's length may count the    *)
(* NUL, as kmain's sizeof(boot_message) does.                              *)
Log ==
  /\ Idle
  /\ logs < MaxLogs
  /\ logs' = logs + 1
  /\ \/ \E t \in Texts : \E n \in 0..(Len(t) + 1) : writes' = print_debug(t, n)
     \/ \E t \in Texts : writes' = print_debug_str(t)
     \/ \E d \in Numbers : writes' = print_debug_dec(d)
  /\ UNCHANGED <<uartVars, pitVars, calls, outs, i, ready>>

(* What is behind a string is unknown. *)
CharAt(w, k) == IF k <= Len(w.c) THEN w.c[k] ELSE 255

InLoop == writes # <<>> /\ serial_open /\ i < Count(Head(writes))

(* while(!serial_is_transmit_fifo_empty(com)); *)
Poll ==
  /\ InLoop
  /\ ~ready
  /\ serial_is_transmit_fifo_empty(uart)
  /\ ready' = TRUE
  /\ UNCHANGED <<uartVars, pitVars, calls, outs, writes, i, logs>>

(* Variant: serial_write does not wait. *)
SendUnchecked ==
  /\ InLoop
  /\ uart' = WriteUart(uart, "data", CharAt(Head(writes), i + 1))
  /\ i' = i + 1
  /\ ready' = FALSE
  /\ UNCHANGED <<wire, serial_open, pitVars, calls, outs, writes, logs>>

SendChar ==
  /\ InLoop
  /\ ready
  /\ uart' = WriteUart(uart, "data", CharAt(Head(writes), i + 1))
  /\ i' = i + 1
  /\ ready' = FALSE
  /\ UNCHANGED <<wire, serial_open, pitVars, calls, outs, writes, logs>>

(* The loop has ended, or the port is not open. *)
Return ==
  /\ writes # <<>>
  /\ ~InLoop
  /\ writes' = Tail(writes)
  /\ i' = 0
  /\ UNCHANGED <<uartVars, pitVars, calls, outs, ready, logs>>

serial_write == Poll \/ SendChar \/ Return

-----------------------------------------------------------------------------
(* The devices.                                                            *)

Transmit ==
  /\ uart.fifo # <<>>
  /\ wire' = Append(wire, Head(uart.fifo))
  /\ uart' = [uart EXCEPT !.fifo = Tail(@)]
  /\ UNCHANGED <<serial_open, pitVars, calls, outs, logVars>>

timer_callback ==
  /\ registered
  /\ tick' = (tick + 1) % WordSize
  /\ UNCHANGED <<uartVars, pit, frequency, registered, calls, outs, logVars>>

Next == kmain \/ outb \/ Log \/ serial_write \/ Transmit \/ timer_callback

(* The CPU goes on with kmain, and a UART that holds a character sends it. *)
Fairness == WF_vars(kmain \/ outb \/ serial_write) /\ WF_vars(Transmit)

Spec == Init /\ [][Next]_vars /\ Fairness

-----------------------------------------------------------------------------
(* Properties.                                                             *)

(* The registers and the counters have their types. *)
TypeOK ==
  /\ uart.dll \in 0..(RegisterSize - 1)
  /\ Len(uart.fifo) <= Capacity(uart)
  /\ pit.low \in 0..(ByteSize - 1)
  /\ pit.reload \in 0..(MaxPeriod - 1)
  /\ tick \in 0..(WordSize - 1)
  /\ i \in 0..(WordSize - 1)

(* What serial_write has still to send of the call of log.c. *)
Rest ==
  FlattenSeq([k \in 1..Len(writes) |->
    LET w == writes[k]
        from == IF k = 1 THEN i ELSE 0
    IN  [j \in 1..(Count(w) - from) |-> CharAt(w, from + j)]])

(* What a reader of the log is to get for a call: the prefix, what was     *)
(* logged and a new line.                                                  *)
LinesOf(S) == {Debug \o s \o <<NewLine>> : s \in S}

TextLines == LinesOf(UNION {Prefixes(CString(t)) : t \in Texts})

LogLines == TextLines \cup LinesOf(Numbers)

(* The same, but for the last digits of a number. *)
CutLines == TextLines \cup LinesOf(UNION {Prefixes(d) : d \in Numbers})

Pending == uart.fifo \o (IF serial_open THEN Rest ELSE <<>>)

WholeLog == INSTANCE LogChannel WITH Lines <- LogLines, sent <- wire, pending <- Pending

Channel == INSTANCE LogChannel WITH Lines <- CutLines, sent <- wire, pending <- Pending

(* Everything logged while the port is open is sent whole, numbers too.    *)
(* serial_write's comment calls its argument "the length of string to      *)
(* write" (serial.c:95), and print_debug_dec passes the length of its      *)
(* string, strlen(buffer) (log.c:24); but the loop sends one character     *)
(* less than that, so the last digit of a number is missing.               *)
ImplementsLog == WholeLog!Spec

(* What is logged while the port is open is sent, in order and once, each  *)
(* prefix, text and new line complete (serial.c:98-105, log.c): no         *)
(* character overruns the FIFO, goes to the divisor latch or is lost with  *)
(* the FIFO's reset; what is logged before leaves no trace.  Of a number   *)
(* this promises no more than its first digits: see ImplementsLog.         *)
ImplementsChannel == Channel!Spec

(* No character is sent at another rate or in another format than kmain    *)
(* asked for, although serial_configure_baud_rate writes both bytes of the *)
(* divisor to the same register (serial.c:23-28).  This needs a divisor of *)
(* one byte, which StartupAssumption states and kmain's 4 is.              *)
RateAsAsked ==
  uart.fifo # <<>> => Divisor(uart) = BaudDivisor /\ uart.lcr = EightBits

(* The timer interrupts with its old period until init_timer has sent the  *)
(* second byte (timer.c:46), never with half of a divisor, and with the    *)
(* divisor's period from then on, if that fits.  A divisor of exactly      *)
(* MaxPeriod, which does not "fit into 16-bits" (timer.c:34), works too.   *)
PeriodAsAsked ==
  PitDivisor(frequency) \in 1..MaxPeriod
    => Period(pit) = IF registered /\ outs = <<>> THEN PitDivisor(frequency)
                                                  ELSE MaxPeriod

(* kmain gets through all its calls and its logging: the unbounded wait of *)
(* serial_write (serial.c:103) ends each time.                             *)
StartupCompletes == <>[](calls = <<>> /\ Idle)

=============================================================================
